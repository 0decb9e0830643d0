----------------------------- MODULE Replicate -----------------------------
(***************************************************************************)
(* Replication up to its tasks: policies written by the API and read back  *)
(* from their rows, the events, schedules and requests that start them,    *)
(* and the flow of an execution, which fetches what the policy's filters   *)
(* select at the source, names it for the destination, prepares the        *)
(* projects there and creates one task for each repository.  What the      *)
(* tasks do is in Transfer.  A flow runs in its own goroutine, while users *)
(* push, delete and tag, change the policy and stop the execution.         *)
(*                                                                         *)
(* A repository is a sequence of path components.  A pattern of names is a *)
(* sequence of component patterns, one of tags the set of what it matches. *)
(***************************************************************************)
EXTENDS Integers, Sequences, FiniteSets, SequencesExt

CONSTANTS PolicyIds, RunIds, Workers

VARIABLES polRow,     \* policy -> its row, or NoPol
          asked,      \* policy -> what the last request asked for
          shelf,      \* the artifacts of the source
          signal,     \* sequence of events not yet handled
          openSrc,    \* projects of the source -> whether they are public
          estate,     \* projects of the destination: [name, proxy, public]
          flow,       \* executions
          deeds,      \* what users still do
          glitches,   \* calls that may still fail
          made        \* projects created by replication: <<name, public>>

replicateVars == <<polRow, asked, shelf, signal, openSrc, estate, flow, deeds, glitches, made>>

SourceSide == <<shelf, signal, openSrc>>
Glitch == glitches > 0 /\ glitches' = glitches - 1

---------------------------------------------------------------------------
(* Patterns.  A component is literal, an alternative {a,b} (pad: names     *)
(* written with a space), a star, a ** or one of the forms that are not    *)
(* "specific": nested braces, a stray comma or brace.                      *)

Comp(kind, names, pad) == [kind |-> kind, names |-> names, pad |-> pad]
MatchComp(c, n) == IF c.kind = "star" THEN TRUE ELSE n \in c.names \ c.pad

\* doublestar.Match, component by component.
MatchPath(pattern, name) ==
    LET m[i \in 1..(Len(pattern) + 1), j \in 1..(Len(name) + 1)] ==
          IF i > Len(pattern) THEN j > Len(name)
          ELSE IF pattern[i].kind = "deep" THEN m[i + 1, j] \/ (j <= Len(name) /\ m[i, j + 1])
          ELSE j <= Len(name) /\ MatchComp(pattern[i], name[j]) /\ m[i + 1, j + 1]
    IN m[1, 1]

Match(pattern, name) == pattern = <<>> \/ MatchPath(pattern, name)

IsSpecificPathComponent(c) == c.kind \in {"lit", "alt"}
IsSpecificPath(p) == p # <<>> /\ \A i \in DOMAIN p : IsSpecificPathComponent(p[i])

\* The combinations of its components; a padded name stays padded.
combinationPathComponents(p) == {n \in [DOMAIN p -> UNION {p[i].names : i \in DOMAIN p}] : \A i \in DOMAIN p : n[i] \in p[i].names}
Padded(p, n) == \E i \in DOMAIN p : n[i] \in p[i].pad

---------------------------------------------------------------------------
(* Filters.                                                                *)

Filter(type, path, hits, labels, dec) == [type |-> type, path |-> path, hits |-> hits, labels |-> labels, dec |-> dec]

\* {} as a tag pattern is the empty pattern; "" is matched by ** alone.
TagMatch(f, t) == f.hits = {} \/ t \in f.hits
Passes(f, match) == (f.dec = "excludes") # match

labelFilter(f, arts) == IF f.labels = {} THEN arts ELSE {a \in arts : Passes(f, f.labels \subseteq a.labels)}

\* As if an accessory went by its own tags.
tagFilterOwnTags(f, arts) ==
    LET good(a) == {t \in a.tags : Passes(f, TagMatch(f, t))}
    IN IF f.hits = {} THEN arts
       ELSE {a \in arts : a.tags = {} /\ Passes(f, TagMatch(f, ""))}
            \union {[a EXCEPT !.tags = good(a), !.acc = FALSE, !.parents = {}] : a \in {a \in arts : good(a) # {}}}

\* An accessory goes by the tags of its parent and keeps its own; what is
\* left of it is no longer marked as an accessory.
tagFilter(f, arts) ==
    LET for(a) == IF a.acc THEN a.parents ELSE a.tags
        good(a) == {t \in for(a) : Passes(f, TagMatch(f, t))}
    IN IF f.hits = {} THEN arts
       ELSE {a \in arts : for(a) = {} /\ Passes(f, TagMatch(f, ""))}
            \union {[a EXCEPT !.tags = IF a.acc THEN @ ELSE good(a), !.acc = FALSE, !.parents = {}] : a \in {a \in arts : good(a) # {}}}

DoFilterArtifacts(fs, arts) ==
    FoldLeft(LAMBDA s, f : IF f.type = "label" THEN labelFilter(f, s) ELSE IF f.type = "tag" THEN tagFilter(f, s) ELSE s, arts, fs)

DoFilterRepositories(fs, repos) ==
    {n \in repos : \A i \in DOMAIN fs : fs[i].type = "name" => Match(fs[i].path, n)}

\* Validate, of filters and policies.
FilterValid(f) ==
    /\ f.type \in {"name", "tag", "label", "resource"}
    /\ f.type \in {"name", "resource"} => f.dec = ""
    /\ f.dec \in {"", "matches", "excludes"}

---------------------------------------------------------------------------
(* Policies, their rows and what the API makes of a request.               *)

NoPol == [name |-> ""]

\* The request: an absent count means the legacy mode, no speed is negative.
FromRequest(q) == [q EXCEPT !.count = IF @ = -9 THEN -1 ELSE @, !.speed = IF @ < 0 THEN 0 ELSE @]

PolicyValid(p) ==
    /\ p.name # "" /\ (p.src = "local") # (p.dst = "local")
    /\ \A i \in DOMAIN p.filters : FilterValid(p.filters[i])
    /\ p.trigger \in {"none", "manual", "event_based", "scheduled"} /\ (p.trigger = "scheduled" => p.cron # <<>>)

\* To: filters and trigger are written as JSON, without the fields of old
\* versions (kind, pattern, schedule_param).
Item(f, kind) == [f |-> f, kind |-> kind]
To(p) == [p EXCEPT !.filters = [i \in DOMAIN @ |-> Item(@[i], "")], !.trigger = [type |-> @, kind |-> "", weekday |-> -1, offtime |-> 0]]

\* From.  A "repository" of an old row replaces the ** of the first name,
\* when that comes later; a "tag" becomes a tag filter; others are dropped.
Replaced(path, repo) ==
    LET deep == {i \in DOMAIN path : path[i].kind = "deep"}
        at == CHOOSE i \in deep : \A k \in deep : i <= k
    IN IF deep = {} \/ path = <<>> \/ repo = <<>> THEN path ELSE SubSeq(path, 1, at - 1) \o repo \o SubSeq(path, at + 1, Len(path))

parseFilters(items) ==
    LET named == {i \in DOMAIN items : items[i].f.type = "name"}
        first(i) == i \in named /\ \A k \in named : i <= k
        path(i) == IF ~first(i) THEN items[i].f.path
                   ELSE FoldLeft(LAMBDA p, x : IF x.kind = "repository" THEN Replaced(p, x.f.path) ELSE p, items[i].f.path, SubSeq(items, 1, i - 1))
        parsed == [i \in DOMAIN items |-> [items[i].f EXCEPT !.path = path(i), !.type = IF items[i].kind = "tag" THEN "tag" ELSE @]]
    IN SelectSeq(parsed, LAMBDA f : f.type # "")

\* Seconds, minutes, hours and the day of the week of an old schedule.
parseScheduleParamToCron(weekday, offtime) ==
    LET o == offtime % 86400 IN <<o % 60, (o % 3600) \div 60, o \div 3600>> \o IF weekday < 0 THEN <<>> ELSE <<weekday % 7>>

parseTrigger(t) ==
    IF t.type # "" THEN t.type
    ELSE CASE t.kind = "Manual" -> "manual" [] t.kind = "Immediate" -> "event_based" [] t.kind = "Scheduled" -> "scheduled" [] OTHER -> "none"

From(row) ==
    [row EXCEPT !.filters = parseFilters(@), !.trigger = parseTrigger(@),
                !.cron = IF row.trigger.kind = "Scheduled" THEN parseScheduleParamToCron(row.trigger.weekday, row.trigger.offtime) ELSE @]

\* populateRegistry: a policy without its registry cannot be read.
Readable(p) == polRow[p] # NoPol /\ ~polRow[p].orphan
GetPolicy(p) == From(polRow[p])

---------------------------------------------------------------------------
(* Adapters: what a fetch finds at the source.                             *)

RepoNames == {a.repo : a \in shelf}
ProjectOf(n) == n[1]

\* The first name filter chooses the projects when its first component is
\* specific; when none of these is there, all are listed.
NamePattern(fs) ==
    LET named == {i \in DOMAIN fs : fs[i].type = "name"}
    IN IF named = {} THEN <<>> ELSE fs[CHOOSE i \in named : \A k \in named : i <= k].path

ListProjects(fs) ==
    LET p == NamePattern(fs)
        all == {ProjectOf(n) : n \in RepoNames}
        some == IF p # <<>> /\ IsSpecificPathComponent(p[1]) THEN all \intersect p[1].names ELSE {}
    IN IF some # {} THEN some ELSE all

HarborRepositories(fs) == DoFilterRepositories(fs, {n \in RepoNames : ProjectOf(n) \in ListProjects(fs)})

\* A registry without projects is not even asked for names that are specific.
NativeRepositories(fs) ==
    LET p == NamePattern(fs)
        named == {n \in combinationPathComponents(p) : ~Padded(p, n)}
    IN DoFilterRepositories(fs, IF IsSpecificPath(p) THEN named ELSE RepoNames)

\* Artifacts with their accessories, those of the children of an index too.
Art(a) == [digest |-> a.digest, tags |-> a.tags, labels |-> a.labels, acc |-> FALSE, parents |-> {}]
Accessories(a, d) == {[digest |-> s.digest, tags |-> s.tags, labels |-> a.labels, acc |-> TRUE, parents |-> a.tags] : s \in {s \in shelf : s.repo = a.repo /\ s.subject = d}}
listArtifacts(n) ==
    UNION {{Art(a)} \union Accessories(a, a.digest) \union UNION {Accessories(a, k) : k \in a.kids}
             : a \in {a \in shelf : a.repo = n /\ a.subject = "none" /\ a.top}}

\* A registry without digests in its listing: one artifact for each tag.
nativeArtifacts(n) == {[digest |-> "none", tags |-> {t}, labels |-> {}, acc |-> FALSE, parents |-> {}] : t \in UNION {a.tags : a \in {a \in shelf : a.repo = n}}}

Fetchable(fs, src) == IF src = "native" THEN NativeRepositories(fs) ELSE HarborRepositories(fs)
FetchedOf(fs, src, n) == DoFilterArtifacts(fs, IF src = "native" THEN nativeArtifacts(n) ELSE listArtifacts(n))

---------------------------------------------------------------------------
(* Names at the destination.                                               *)

\* replaceNamespace, or <<>> when it is refused.
replaceNamespace(n, p) ==
    LET last == n[Len(n)]
        dst == IF p.count < 0 THEN Append(p.ns, last) ELSE p.ns \o SubSeq(n, p.count + 1, Len(n))
    IN CASE p.ns = <<>> -> n
         [] p.count > Len(n) - 1 -> <<>>
         [] p.parts = "two" /\ Len(dst) # 2 -> <<>>
         [] p.parts = "atLeastTwo" /\ Len(dst) < 2 -> <<>>
         [] OTHER -> dst

---------------------------------------------------------------------------
(* Executions.                                                             *)

NoFlow == [pc |-> "none"]
Free == {e \in RunIds : flow[e] = NoFlow}
NextRun(e) == e \in Free /\ \A x \in Free : e <= x
FlowOf(p, pol, res, del, trigger) ==
    [policy |-> p, pol |-> pol, given |-> res, del |-> del, trigger |-> trigger, pc |-> "queued", status |-> "Running",
     todo |-> {}, src |-> {}, dst |-> {}, skip |-> {}, absent |-> {}, tasks |-> {}, failed |-> FALSE, gone |-> FALSE, seen |-> {}]

Resource(n, arts, public) == [repo |-> n, arts |-> arts, public |-> public]
SetFlow(e, f) == flow' = [flow EXCEPT ![e] = f]
Onward(e, pc) == SetFlow(e, [flow[e] EXCEPT !.pc = pc])
GoesWrong(e) == SetFlow(e, [flow[e] EXCEPT !.pc = "mark", !.failed = TRUE])
AtPoint(e, pc) == flow[e].pc = pc
Busy == {e \in RunIds : flow[e].pc \notin {"none", "queued", "over"}}
Others == UNCHANGED <<polRow, asked, deeds, openSrc, shelf, signal>>

\* A worker is free and the row can be seen.
FlowBegin(e) ==
    /\ AtPoint(e, "queued") /\ Cardinality(Busy) < Workers
    /\ IF flow[e].gone THEN GoesWrong(e) ELSE Onward(e, "init")
    /\ Others /\ UNCHANGED <<estate, glitches, made>>

\* initialize, and the branch of flow.Start; what is given is not fetched.
FlowInit(e) ==
    /\ AtPoint(e, "init")
    /\ \/ Glitch /\ GoesWrong(e)
       \/ /\ UNCHANGED glitches
          /\ SetFlow(e, CASE flow[e].del # "no" -> [flow[e] EXCEPT !.src = flow[e].given, !.pc = "assemble"]
                          [] flow[e].given # {} -> [flow[e] EXCEPT !.src = flow[e].given, !.pc = "check"]
                          [] OTHER -> [flow[e] EXCEPT !.pc = "list"])
    /\ Others /\ UNCHANGED <<estate, made>>

FlowFetchRepos(e) ==
    /\ AtPoint(e, "list")
    /\ \/ Glitch /\ GoesWrong(e)
       \/ /\ UNCHANGED glitches
          /\ SetFlow(e, [flow[e] EXCEPT !.todo = Fetchable(flow[e].pol.filters, flow[e].pol.srcKind), !.pc = "fetch"])
    /\ Others /\ UNCHANGED <<estate, made>>

\* One task of the limited runner for each repository; one that fails fails
\* them all.  A repository with nothing selected is left out.
FlowFetch(e) ==
    /\ AtPoint(e, "fetch")
    /\ \/ /\ flow[e].todo = {} /\ Onward(e, "check") /\ UNCHANGED glitches
       \/ Glitch /\ GoesWrong(e)
       \/ /\ UNCHANGED glitches
          /\ \E n \in flow[e].todo :
                LET arts == FetchedOf(flow[e].pol.filters, flow[e].pol.srcKind, n)
                    all == IF flow[e].pol.srcKind = "native" THEN nativeArtifacts(n) ELSE listArtifacts(n)
                    r == Resource(n, arts, flow[e].pol.srcKind # "native" /\ openSrc[ProjectOf(n)])
                IN SetFlow(e, [flow[e] EXCEPT !.todo = @ \ {n}, !.src = @ \union IF arts = {} THEN {} ELSE {r}, !.seen = @ \union {<<n, all>>}])
    /\ Others /\ UNCHANGED <<estate, made>>

\* A stopped execution gets no tasks; one without resources is done.
FlowCheck(e) ==
    /\ AtPoint(e, "check")
    /\ SetFlow(e, IF flow[e].gone THEN [flow[e] EXCEPT !.pc = "mark", !.failed = TRUE]
                  ELSE IF flow[e].status = "Stopped" THEN [flow[e] EXCEPT !.pc = "over"]
                  ELSE IF flow[e].src = {} THEN [flow[e] EXCEPT !.pc = "over", !.status = "Success"]
                  ELSE [flow[e] EXCEPT !.pc = "assemble"])
    /\ Others /\ UNCHANGED <<estate, glitches, made>>

\* assembleDestinationResources, after Info of the destination.
FlowAssemble(e) ==
    /\ AtPoint(e, "assemble")
    /\ LET to(r) == replaceNamespace(r.repo, flow[e].pol)
           pairs == {[from |-> r, to |-> to(r)] : r \in flow[e].src}
       IN \/ Glitch /\ GoesWrong(e)
          \/ /\ UNCHANGED glitches
             /\ IF \E r \in flow[e].src : to(r) = <<>> THEN GoesWrong(e)
                ELSE SetFlow(e, [flow[e] EXCEPT !.dst = pairs, !.pc = IF flow[e].del # "no" \/ flow[e].pol.dstKind = "native" THEN "tasks" ELSE "look"])
    /\ Others /\ UNCHANGED <<estate, made>>

\* PrepareForPush of a Harbor: which projects are there, and which are
\* proxies; the others are created, public when all they get is public.
DstProjects(e) == {ProjectOf(x.to) : x \in flow[e].dst}
mergeMetadata(e, p) == \A x \in flow[e].dst : ProjectOf(x.to) = p => x.from.public

FlowLook(e) ==
    /\ AtPoint(e, "look")
    /\ LET known == {x.name : x \in estate}
           proxies == {x.name : x \in {x \in estate : x.proxy}}
       IN \/ Glitch /\ GoesWrong(e)
          \/ /\ UNCHANGED glitches
             /\ SetFlow(e, [flow[e] EXCEPT !.absent = DstProjects(e) \ known, !.skip = {x \in flow[e].dst : ProjectOf(x.to) \in proxies}, !.pc = "prepare"])
    /\ Others /\ UNCHANGED <<estate, made>>

FlowPrepare(e) ==
    /\ AtPoint(e, "prepare")
    /\ \/ /\ flow[e].absent = {} /\ Onward(e, "tasks") /\ UNCHANGED <<glitches, estate, made>>
       \/ flow[e].absent # {} /\ Glitch /\ GoesWrong(e) /\ UNCHANGED <<estate, made>>
       \/ \E p \in flow[e].absent :
             /\ SetFlow(e, [flow[e] EXCEPT !.absent = @ \ {p}])
             /\ IF \E x \in estate : x.name = p THEN UNCHANGED <<estate, made>>
                ELSE /\ estate' = estate \union {[name |-> p, proxy |-> FALSE, public |-> mergeMetadata(e, p)]}
                     /\ made' = made \union {<<e, p, mergeMetadata(e, p)>>}
             /\ UNCHANGED glitches
    /\ Others

\* createTasks: one for each resource that is not skipped.  A copy without
\* any is marked done, even when it ends in an error.
Left(e) == {x \in flow[e].dst : x \notin flow[e].skip /\ x \notin {t.of : t \in flow[e].tasks}}
Task(x, del) == [of |-> x, kind |-> CASE del = "tag" -> "deleteTag" [] del = "artifact" -> "delete" [] OTHER -> "copy", stopped |-> FALSE]
DoneWhenNone(e) == IF flow[e].tasks = {} /\ flow[e].del = "no" THEN "Success" ELSE flow[e].status

FlowTasks(e) ==
    /\ AtPoint(e, "tasks")
    /\ \/ /\ Left(e) = {} /\ UNCHANGED glitches
          /\ SetFlow(e, [flow[e] EXCEPT !.pc = "over", !.status = DoneWhenNone(e)])
       \/ /\ Left(e) # {} /\ ((flow[e].gone /\ UNCHANGED glitches) \/ Glitch)
          /\ SetFlow(e, [flow[e] EXCEPT !.pc = "mark", !.failed = TRUE, !.status = DoneWhenNone(e)])
       \/ /\ UNCHANGED glitches
          /\ ~flow[e].gone
          /\ \E x \in Left(e) : SetFlow(e, [flow[e] EXCEPT !.tasks = @ \union {Task(x, flow[e].del)}])
    /\ Others /\ UNCHANGED <<estate, made>>

\* execMgr.Stop: its tasks are stopped, or it is when it has none.
Halt(f) == IF f.tasks # {} THEN [f EXCEPT !.tasks = {[t EXCEPT !.stopped = TRUE] : t \in @}]
           ELSE [f EXCEPT !.status = IF @ = "Running" THEN "Stopped" ELSE @]

FlowMarkError(e) ==
    /\ AtPoint(e, "mark")
    /\ SetFlow(e, [Halt(flow[e]) EXCEPT !.status = "Error", !.pc = "over"])
    /\ Others /\ UNCHANGED <<estate, glitches, made>>

---------------------------------------------------------------------------
(* What starts an execution.                                               *)

\* Start refuses a disabled policy.
Start(p, res, del, trigger) == \E e \in RunIds : NextRun(e) /\ SetFlow(e, FlowOf(p, GetPolicy(p), res, del, trigger))

StartReplication(p, trigger) ==
    /\ IF Readable(p) /\ polRow[p].enabled THEN Start(p, {}, "no", trigger) ELSE UNCHANGED flow
    /\ UNCHANGED <<polRow, asked, SourceSide, estate, glitches, made>>

StopReplication(e) ==
    /\ IF flow[e] = NoFlow THEN UNCHANGED flow ELSE IF flow[e].gone THEN UNCHANGED flow ELSE SetFlow(e, Halt(flow[e]))
    /\ UNCHANGED <<polRow, asked, SourceSide, estate, glitches, made>>

\* getRelatedPolicies: one policy that cannot be read fails the event.
EventArt(ev) == [digest |-> ev.digest, tags |-> ev.tags, labels |-> UNION {a.labels : a \in {a \in shelf : a.digest = ev.digest}}, acc |-> FALSE, parents |-> {}]

Related(ev) ==
    {p \in PolicyIds : polRow[p] # NoPol /\
       LET pol == GetPolicy(p)
       IN /\ pol.enabled /\ pol.src = "local" /\ pol.trigger = "event_based"
          /\ ev.kind \in {"delete", "untag"} => pol.deletion
          /\ DoFilterRepositories(pol.filters, {ev.repo}) # {}
          /\ DoFilterArtifacts(pol.filters, {EventArt(ev)}) # {}}

\* Handle: the policies are started with all of the event's resource; one
\* that does not start ends it.
HandleEvent ==
    /\ signal # <<>>
    /\ LET ev == signal[1]
           lost == \E p \in PolicyIds : polRow[p] # NoPol /\ ~Readable(p)
           del == CASE ev.kind = "delete" -> "artifact" [] ev.kind = "untag" -> "tag" [] OTHER -> "no"
           res == {Resource(ev.repo, {EventArt(ev)}, IF del = "no" THEN openSrc[ProjectOf(ev.repo)] ELSE FALSE)}
           all == IF lost THEN {} ELSE Related(ev)
       IN \E ps \in SUBSET all : \E to \in [ps -> Free] :
             /\ IF ps = all THEN UNCHANGED glitches ELSE Glitch
             /\ \A p, q \in ps : to[p] = to[q] => p = q
             /\ \A e \in Free : (\E p \in ps : e < to[p]) => \E p \in ps : e = to[p]
             /\ flow' = [e \in RunIds |-> IF \E p \in ps : to[p] = e
                           THEN LET p == CHOOSE p \in ps : to[p] = e IN FlowOf(p, GetPolicy(p), res, del, "event") ELSE flow[e]]
    /\ signal' = Tail(signal)
    /\ UNCHANGED <<polRow, asked, shelf, openSrc, estate, made, deeds>>

---------------------------------------------------------------------------
(* What users do.                                                          *)

CreateReplicationPolicy(p, q) ==
    /\ IF PolicyValid(FromRequest(q))
       THEN polRow' = [polRow EXCEPT ![p] = To(FromRequest(q))] /\ asked' = [asked EXCEPT ![p] = FromRequest(q)]
       ELSE UNCHANGED <<polRow, asked>>
    /\ UNCHANGED <<SourceSide, estate, flow, glitches, made>>

\* DeletePolicy deletes the rows of its executions; flows that run find out
\* when they need the row.
DeleteReplicationPolicy(p) ==
    /\ polRow' = [polRow EXCEPT ![p] = NoPol] /\ asked' = [asked EXCEPT ![p] = NoPol]
    /\ flow' = [e \in RunIds |-> IF flow[e] # NoFlow /\ flow[e].policy = p THEN [flow[e] EXCEPT !.gone = TRUE] ELSE flow[e]]
    /\ UNCHANGED <<SourceSide, estate, glitches, made>>

\* A push, a deletion, a tag set or removed at the source, with its event.
EditSource(kind, a) ==
    /\ shelf' = CASE kind = "push" -> shelf \union {a}
                  [] kind = "delete" -> shelf \ {a}
                  [] OTHER -> {IF x = a THEN [x EXCEPT !.tags = IF kind = "tag" THEN @ \union {"v9"} ELSE {}] ELSE x : x \in shelf}
    /\ signal' = Append(signal, [kind |-> kind, repo |-> a.repo, digest |-> a.digest, tags |-> IF kind = "tag" THEN {"v9"} ELSE a.tags])
    /\ UNCHANGED <<polRow, asked, openSrc, estate, flow, glitches, made>>

OtherProject(x) == estate' = estate \union {x} /\ UNCHANGED <<polRow, asked, SourceSide, flow, glitches, made>>

Deed(d) ==
    /\ deeds' = deeds \ {d}
    /\ CASE d.op = "start" -> StartReplication(d.p, "manual")
         [] d.op = "schedule" -> StartReplication(d.p, "schedule")
         [] d.op = "stop" -> StopReplication(d.p)
         [] d.op = "write" -> CreateReplicationPolicy(d.p, d.arg)
         [] d.op = "drop" -> DeleteReplicationPolicy(d.p)
         [] d.op = "project" -> OtherProject(d.arg)
         [] OTHER -> EditSource(d.op, d.arg)

ReplicateNext ==
    \/ \E e \in RunIds :
          \/ FlowBegin(e) \/ FlowInit(e) \/ FlowFetchRepos(e) \/ FlowFetch(e) \/ FlowCheck(e) \/ FlowAssemble(e)
          \/ FlowLook(e) \/ FlowPrepare(e) \/ FlowTasks(e) \/ FlowMarkError(e)
    \/ HandleEvent
    \/ \E d \in deeds : Deed(d)

---------------------------------------------------------------------------
(* What the API shows of an execution.                                     *)

Shown(status) == CASE status = "Running" -> "InProgress" [] status = "Success" -> "Succeed" [] status = "Error" -> "Failed" [] OTHER -> status
StatusAsked(name) == CASE name = "InProgress" -> "Running" [] name = "Succeed" -> "Success" [] name = "Failed" -> "Error" [] OTHER -> name
ListExecutions(name) == {e \in RunIds : flow[e] # NoFlow /\ ~flow[e].gone /\ flow[e].status = StatusAsked(name)}

---------------------------------------------------------------------------

\* A policy is read back as it was written: the patterns, labels, trigger
\* and schedule that From parses are the ones that To wrote.
ReadAsWritten == \A p \in PolicyIds : asked[p] # NoPol => GetPolicy(p) = asked[p]

\* The short cuts for specific names lose nothing: what is fetched is what
\* filtering all there was to list would select.
FetchesAll ==
    \A e \in RunIds : flow[e].pc = "fetch" /\ flow[e].src = {} /\ flow[e].seen = {} /\ deeds = {} =>
       \A n \in RepoNames : n \in flow[e].todo <=>
          \A i \in DOMAIN flow[e].pol.filters : flow[e].pol.filters[i].type = "name" => Match(flow[e].pol.filters[i].path, n)

\* An artifact is in a resource only with tags that pass every tag filter,
\* and labels that pass every label filter.
OnlySelected ==
    \A e \in RunIds : flow[e] # NoFlow /\ flow[e].given = {} =>
       \A r \in flow[e].src, i \in DOMAIN flow[e].pol.filters : \A a \in r.arts :
          LET f == flow[e].pol.filters[i]
              own == \E s \in flow[e].seen : \E x \in s[2] : s[1] = r.repo /\ x.digest = a.digest /\ ~x.acc
          IN /\ f.type = "label" => f.labels = {} \/ Passes(f, f.labels \subseteq a.labels)
             /\ f.type = "tag" /\ own /\ f.hits # {} => \A t \in a.tags : Passes(f, t \in f.hits)

\* With one tag filter, the accessories of a selected artifact come along.
SignaturesFollow ==
    \A e \in RunIds : flow[e] # NoFlow /\ flow[e].given = {} /\ Cardinality({i \in DOMAIN flow[e].pol.filters : flow[e].pol.filters[i].type = "tag"}) <= 1 =>
       \A s \in flow[e].seen, x \in UNION {t[2] : t \in flow[e].seen} : x \in s[2] /\ x.acc =>
          LET got == UNION {r.arts : r \in {r \in flow[e].src : r.repo = s[1]}}
          IN (\E o \in s[2] : ~o.acc /\ o.tags = x.parents /\ o.labels = x.labels /\ \E g \in got : g.digest = o.digest)
                => \E g \in got : g.digest = x.digest

\* A flow that ended well and was not stopped has one task for each resource
\* that was not to be skipped, and none twice; a failed one is shown so.
Accounted ==
    \A e \in RunIds : flow[e].pc = "over" =>
       /\ flow[e].failed => flow[e].status = "Error"
       /\ ~flow[e].failed /\ flow[e].dst # {} => {t.of : t \in flow[e].tasks} = flow[e].dst \ flow[e].skip
       /\ flow[e].status = "Success" => flow[e].tasks = {}
       /\ \A t \in flow[e].tasks : t.kind = "copy" \/ flow[e].pol.deletion

\* A project that replication creates is public only when everything that
\* goes into it was public; the name of an artifact is kept.
PrivateKept ==
    /\ \A m \in made : m[3] => (flow[m[1]] # NoFlow => \A x \in flow[m[1]].dst : ProjectOf(x.to) = m[2] => x.from.public)
    /\ \A e \in RunIds : flow[e] # NoFlow => \A x \in flow[e].dst : Last(x.to) = Last(x.from.repo)

\* The executions listed under a status are those shown with it.
ListedAsShown ==
    \A e \in RunIds, name \in {"InProgress", "Succeed", "Failed", "Stopped"} :
       flow[e] # NoFlow /\ ~flow[e].gone => (e \in ListExecutions(name) <=> Shown(flow[e].status) = name)

ReplicateSound == ReadAsWritten /\ FetchesAll /\ OnlySelected /\ SignaturesFollow /\ Accounted /\ PrivateKept /\ ListedAsShown
=============================================================================
