------------------------------ MODULE Adapters ------------------------------
(***************************************************************************)
(* The adapters of the registries that replication reads from and writes   *)
(* to.  FetchArtifacts lists repositories page by page, each adapter in    *)
(* its own way, and then the tags of every repository in tasks that a      *)
(* limited number of passports lets run at once.  PrepareForPush creates   *)
(* what a push needs, DeleteManifest removes a manifest.  The registry     *)
(* itself is external, and may change while it is listed.                  *)
(***************************************************************************)
EXTENDS Integers, Sequences, FiniteSets

CONSTANTS
  Passports,  \* tasks that may run at once: MaxConcurrency, tcrQPSLimit
  HubPage    \* entries on a page: 100, 50 or 20

VARIABLES
  hub,        \* the registry: [order, has, spaces, tags, heads, images, blobs, inside]
  fetch,      \* a call of FetchArtifacts, see NewFetch
  listers,    \* its tasks, one for each repository
  chores,    \* calls of PrepareForPush, DeleteManifest and PushBlob, see Chore
  hubFaults,  \* requests that still may fail
  hubMoves,   \* changes of the registry by others still to come
  hubPast     \* history: repositories that were always, or ever, there since the fetch began

adaptVars == <<hub, fetch, listers, chores, hubFaults, hubMoves, hubPast>>

---------------------------------------------------------------------------
(* Registries, adapters and what they say of themselves.                   *)

\* Repositories are pairs <<namespace, name>>; a namespace is the pair <<namespace, "">>.
Space(r) == <<r[1], "">>
PlaceIn(s, x) == CHOOSE i \in DOMAIN s : s[i] = x
InRegistry(spaces) == SelectSeq(hub.order, LAMBDA r : r \in hub.has /\ Space(r) \in spaces)
Members(s) == {s[i] : i \in DOMAIN s}
\* The namespaces in the order of their first repository.
SpacesListed ==
  SelectSeq([i \in 1..Len(hub.order) |-> IF \E j \in 1..(i - 1) : Space(hub.order[j]) = Space(hub.order[i]) THEN <<"", "">> ELSE Space(hub.order[i])],
            LAMBDA s : s \in hub.spaces)

\* A filter for names: the paths or first components it lists when it is specific, the
\* project gitlab is asked for, and the repositories it matches.
NameFilter(given, paths, comps, project, matches) == [given |-> given, paths |-> paths, comps |-> comps, project |-> project, matches |-> matches]
FilterMatches(f, r) == f.given => r \in f.matches
FilterRepositories(f, s) == SelectSeq(s, LAMBDA r : FilterMatches(f, r))
FilterTags(want, s) == SelectSeq(s, LAMBDA t : t \in want)

About(type) == [type |-> type, filters |-> {"name", "tag"}, triggers |-> {"manual", "scheduled"}]
DockerhubInfo == About("dockerhub")
DtrInfo == About("azurecr")
GitlabInfo == About("gitlab")
AliacrInfo == About("aliacr")
TencentInfo == About("tencent")
HuaweiInfo == About("huawei")
JfrogInfo == About("jfrog")
QuayInfo == About("quay")
AwsInfo == About("aws")
GcrInfo == About("gcr")
AzurecrInfo == About("azurecr")
GithubInfo == About("github")
InfoOf == [dockerhub |-> DockerhubInfo, dtr |-> DtrInfo, gitlab |-> GitlabInfo, aliacr |-> AliacrInfo, tencent |-> TencentInfo, huawei |-> HuaweiInfo,
           jfrog |-> JfrogInfo, quay |-> QuayInfo, aws |-> AwsInfo, gcr |-> GcrInfo, azurecr |-> AzurecrInfo, github |-> GithubInfo]

\* newAdapter: what has to be right of the registry for there to be an adapter at all.
\* url: the address has the form the adapter asks for; login: the remote end accepts the
\* credential; realm: the challenge names one; found: there is such an instance.
Account(cred, url, login, realm, found) == [cred |-> cred, url |-> url, login |-> login, realm |-> realm, found |-> found]
DockerhubNew(a) == a.cred # "none" => a.login
AliacrNew(a) == a.url /\ a.realm
TencentNew(a) == a.cred = "key" /\ a.url /\ a.realm /\ a.login /\ a.found
GitlabNew(a) == a.realm
AwsNew(a) == a.url
QuayNew(a) == a.cred # "broken"
NewAdapter(kind, a) ==
  CASE kind = "dockerhub" -> DockerhubNew(a) [] kind = "aliacr" -> AliacrNew(a) [] kind = "tencent" -> TencentNew(a)
    [] kind = "gitlab" -> GitlabNew(a) [] kind = "aws" -> AwsNew(a) [] kind = "quay" -> QuayNew(a) [] OTHER -> TRUE

\* HealthCheck: Ping is the answer to a request with the credential.
PingSimple(ping) == ping \in {"ok", "unauthorized", "forbidden"}
NativeHealth(cred, ping) == IF cred = "none" THEN PingSimple(ping) ELSE ping = "ok"
GcrHealth(cred, ping) == cred # "none" /\ ping = "ok"
AwsHealth(ping) == ping = "ok"
HuaweiHealth == TRUE
HealthCheck(kind, cred, ping) ==
  CASE kind = "huawei" -> HuaweiHealth [] kind = "gcr" -> GcrHealth(cred, ping) [] kind = "aws" -> AwsHealth(ping) [] OTHER -> NativeHealth(cred, ping)

---------------------------------------------------------------------------
(* FetchArtifacts: from the filter to the namespaces that are listed.      *)

NewFetch(kind, account, filter, want) ==
  [kind |-> kind, account |-> account, filter |-> filter, want |-> want, at |-> "start", spaces |-> <<>>, cursor |-> 0, got |-> <<>>, repos |-> <<>>,
   err |-> FALSE, held |-> 0, cancelled |-> FALSE, failed |-> FALSE, result |-> <<>>, out |-> "open"]
NoFetch == [NewFetch("none", Account("none", TRUE, TRUE, TRUE, TRUE), NameFilter(FALSE, <<>>, <<>>, "", {}), {}) EXCEPT !.at = "over"]
Lister == [at |-> "waiting", cursor |-> 0, tags |-> <<>>, seen |-> <<>>, broke |-> FALSE]
Fault == hubFaults > 0 /\ hubFaults' = hubFaults - 1
FetchFails == fetch' = [fetch EXCEPT !.at = "over", !.out = "failed", !.result = <<>>]
\* Pages by number: page n + 1 when n were read.  Pages by marker: what follows the last entry.
NumberedPage(s, n) == SubSeq(s, n * HubPage + 1, IF (n + 1) * HubPage < Len(s) THEN (n + 1) * HubPage ELSE Len(s))
FollowingPage(s, last) == LET rest == SelectSeq(s, LAMBDA r : PlaceIn(hub.order, r) > last) IN NumberedPage(rest, 0)

\* listCandidateNamespaces of dockerhub and aliacr.
DockerhubSpaces(f) == IF f.given /\ f.comps # <<>> THEN f.comps ELSE SpacesListed
AliacrSpaces(f) == IF f.comps # <<>> THEN f.comps ELSE SpacesListed
\* That of tencent: every name once more for each of them that exists.
TencentSpaces(f) ==
  LET there == SelectSeq(f.comps, LAMBDA s : s \in hub.spaces)
      all == [i \in 1..(Len(f.comps) * Len(there)) |-> f.comps[1 + ((i - 1) % Len(f.comps))]] IN
  IF there = <<>> THEN SpacesListed ELSE all
\* getProjectsByPattern of gitlab: a search finds every project whose name has the text in
\* it; the names of a specific filter are searched one after the other.
FoundBy(name) == SelectSeq(hub.order, LAMBDA r : r \in hub.has /\ (name = "" \/ <<name, r[2]>> \in hub.inside))
ProjectsByPattern(f) ==
  LET names == [i \in DOMAIN f.paths |-> f.paths[i][2]]
      found(i) == IF \E j \in 1..(i - 1) : names[j] = names[i] THEN <<>> ELSE FoundBy(names[i]) IN
  CASE ~f.given -> <<>>
    [] f.paths = <<>> -> FoundBy(f.project)
    [] Len(f.paths) = 1 -> found(1)
    [] OTHER -> found(1) \o found(2)
GitlabProjects(f) == IF ProjectsByPattern(f) = <<>> THEN FoundBy("") ELSE ProjectsByPattern(f)

ListsFrom(spaces) == fetch' = [fetch EXCEPT !.at = "repos", !.spaces = spaces]
TakesPaths == fetch' = [fetch EXCEPT !.at = "filter", !.repos = fetch.filter.paths]
Everything == <<"", "">>
\* Requests before the first page: a login, a challenge, the namespaces.
AsksFirst == fetch.kind \in {"dockerhub", "aliacr", "tencent", "gitlab"} \/ (fetch.kind = "jfrog" /\ fetch.filter.paths = <<>>)
\* The factory creates the adapter, which then reads the filter.
StartFetch ==
  /\ fetch.at = "start"
  /\ LET f == fetch.filter IN
     \/ ~NewAdapter(fetch.kind, fetch.account) /\ FetchFails /\ UNCHANGED hubFaults
     \/ NewAdapter(fetch.kind, fetch.account) /\ AsksFirst /\ Fault /\ FetchFails
     \/ /\ NewAdapter(fetch.kind, fetch.account) /\ UNCHANGED hubFaults
        /\ CASE fetch.kind \in {"native", "quay", "jfrog"} /\ f.paths # <<>> -> TakesPaths
             [] fetch.kind \in {"native", "quay", "dtr"} -> ListsFrom(<<Everything>>)
             [] fetch.kind = "jfrog" -> ListsFrom(SpacesListed)
             [] fetch.kind = "github" -> IF f.paths # <<>> THEN TakesPaths ELSE FetchFails
             [] fetch.kind = "dockerhub" -> ListsFrom(DockerhubSpaces(f))
             [] fetch.kind = "aliacr" -> ListsFrom(AliacrSpaces(f))
             [] fetch.kind = "tencent" -> ListsFrom(TencentSpaces(f))
             [] fetch.kind = "gitlab" -> fetch' = [fetch EXCEPT !.at = "projects", !.spaces = GitlabProjects(f)]
             [] fetch.kind = "huawei" -> fetch' = [fetch EXCEPT !.at = "huawei"]
  /\ hubPast' = [always |-> hub.has, ever |-> hub.has, moved |-> FALSE, broke |-> FALSE]
  /\ UNCHANGED <<hub, listers, chores, hubMoves>>

---------------------------------------------------------------------------
(* FetchArtifacts: pages of repositories.                                  *)

ListedIn(s) == IF s = Everything THEN InRegistry(hub.spaces) ELSE InRegistry({s})
\* Is there another page, and from where?  got: everything read of this namespace.
DockerhubNext(s, n, got) == IF (n + 1) * HubPage < Len(s) THEN n + 1 ELSE -1
AliacrNext(s, n, got) == IF Len(s) - (n + 1) * HubPage <= 0 THEN -1 ELSE n + 1
\* Pages after the last one are empty: the loop goes round until the counts agree.
TencentNext(s, n, got) == IF Len(got) = Len(s) THEN -1 ELSE IF n * HubPage > Len(hub.order) THEN n ELSE n + 1
CatalogNext(s, last, got) == IF FollowingPage(s, PlaceIn(hub.order, got[Len(got)])) = <<>> THEN -1 ELSE PlaceIn(hub.order, got[Len(got)])
DtrNext(s, last, got) == IF FollowingPage(s, PlaceIn(hub.order, got[Len(got)])) = <<>> THEN -1 ELSE PlaceIn(hub.order, got[Len(got)])
NextPage(kind, s, cursor, got) ==
  CASE kind = "dockerhub" -> DockerhubNext(s, cursor, got)
    [] kind = "aliacr" -> AliacrNext(s, cursor, got)
    [] kind = "tencent" -> TencentNext(s, cursor, got)
    [] got = <<>> -> -1
    [] kind = "dtr" -> DtrNext(s, cursor, got)
    [] OTHER -> CatalogNext(s, cursor, got)
PageAt(kind, s, cursor) == IF kind \in {"dockerhub", "aliacr", "tencent"} THEN NumberedPage(s, cursor) ELSE FollowingPage(s, cursor)
\* A namespace that is not there.
Refused(s) == fetch.kind \in {"dockerhub", "aliacr"} /\ s \notin hub.spaces

ListHubPage ==
  /\ fetch.at = "repos" /\ fetch.spaces # <<>>
  /\ \/ Fault /\ FetchFails
     \/ Refused(Head(fetch.spaces)) /\ FetchFails /\ UNCHANGED hubFaults
     \/ /\ ~Refused(Head(fetch.spaces)) /\ UNCHANGED hubFaults
        /\ LET s == ListedIn(Head(fetch.spaces))
               got == fetch.got \o PageAt(fetch.kind, s, fetch.cursor)
               next == NextPage(fetch.kind, s, fetch.cursor, got) IN
           fetch' = IF next = -1 THEN [fetch EXCEPT !.spaces = Tail(@), !.cursor = 0, !.got = <<>>, !.repos = @ \o got]
                    ELSE [fetch EXCEPT !.cursor = next, !.got = got]
  /\ UNCHANGED <<hub, listers, chores, hubMoves, hubPast>>

\* The repositories the filter leaves get a task each; dockerhub filters in the task,
\* github not at all.
AddTasks ==
  /\ fetch.at = "filter" \/ (fetch.at = "repos" /\ fetch.spaces = <<>>)
  /\ LET repos == IF fetch.kind \in {"dockerhub", "github"} THEN fetch.repos ELSE FilterRepositories(fetch.filter, fetch.repos) IN
     /\ fetch' = [fetch EXCEPT !.at = "tasks", !.repos = repos]
     /\ listers' = [i \in 1..Len(repos) |-> Lister]
  /\ UNCHANGED <<hub, chores, hubFaults, hubMoves, hubPast>>

---------------------------------------------------------------------------
(* FetchArtifacts: the tasks and their runner.                             *)

RunningTasks == {i \in DOMAIN listers : listers[i].at \notin {"waiting", "over", "skipped"}}
\* Mutant: one passport too many.
ApplyPassportMore(i) ==
  /\ fetch.at = "tasks" /\ i \in DOMAIN listers /\ listers[i].at = "waiting"
  /\ \/ /\ fetch.held <= Passports
        /\ listers' = [listers EXCEPT ![i].at = "list"] /\ fetch' = [fetch EXCEPT !.held = @ + 1]
     \/ /\ fetch.cancelled
        /\ listers' = [listers EXCEPT ![i].at = "skipped"] /\ UNCHANGED fetch
  /\ UNCHANGED <<hub, chores, hubFaults, hubMoves, hubPast>>
\* Apply: a passport, or none any more when the runner is stopped; both may be open.
ApplyPassport(i) ==
  /\ fetch.at = "tasks" /\ i \in DOMAIN listers /\ listers[i].at = "waiting"
  /\ \/ /\ fetch.held < Passports
        /\ listers' = [listers EXCEPT ![i].at = "list"] /\ fetch' = [fetch EXCEPT !.held = @ + 1]
     \/ /\ fetch.cancelled
        /\ listers' = [listers EXCEPT ![i].at = "skipped"] /\ UNCHANGED fetch
  /\ UNCHANGED <<hub, chores, hubFaults, hubMoves, hubPast>>

\* The task of aliacr and of tencent assigns its error to a variable of FetchArtifacts
\* that all tasks share; that of dtr appends to a slice they share.
SharedErr == fetch.kind \in {"aliacr", "tencent"}
TaskOver(i, ok, next) ==
  /\ listers' = [listers EXCEPT ![i] = next]
  \* Revoke gives the passport back, unless it finds the runner stopped first.
  /\ \E back \in IF fetch.cancelled \/ ~ok THEN {0, 1} ELSE {1} :
       fetch' = [fetch EXCEPT !.held = @ - back, !.failed = @ \/ ~ok, !.cancelled = @ \/ ~ok]
KeepsResource(tags) ==
  CASE fetch.kind = "dockerhub" -> tags # <<>>
    [] fetch.kind = "dtr" -> TRUE
    [] OTHER -> FilterTags(fetch.want, tags) # <<>>
EndTask(i, ok, tags) ==
  IF ok /\ fetch.kind = "dtr" THEN listers' = [listers EXCEPT ![i] = [@ EXCEPT !.at = "append", !.tags = tags]] /\ UNCHANGED fetch
  ELSE TaskOver(i, ok, [listers[i] EXCEPT !.at = "over", !.tags = IF ok THEN tags ELSE <<>>])
TagsListed(i, ok, tags) ==
  IF SharedErr
  THEN /\ listers' = [listers EXCEPT ![i] = [@ EXCEPT !.at = "check", !.tags = tags]] /\ fetch' = [fetch EXCEPT !.err = ~ok]
  ELSE EndTask(i, ok, tags)

\* A page of tags.  A repository that is gone has none: the request is refused.
ListTagsPage(i) ==
  /\ fetch.at = "tasks" /\ i \in DOMAIN listers /\ listers[i].at = "list"
  /\ LET r == fetch.repos[i]
         tags == listers[i].tags \o NumberedPage(hub.tags[r], listers[i].cursor)
         n == listers[i].cursor + 1 IN
     \/ /\ fetch.kind = "dockerhub" /\ ~FilterMatches(fetch.filter, r) /\ UNCHANGED <<hubFaults, hubPast>>
        /\ TaskOver(i, TRUE, [listers[i] EXCEPT !.at = "over"])
     \/ /\ ~(fetch.kind = "dockerhub" /\ ~FilterMatches(fetch.filter, r))
        /\ r \notin hub.has /\ TagsListed(i, FALSE, listers[i].tags) /\ UNCHANGED hubFaults
        /\ hubPast' = [hubPast EXCEPT !.broke = TRUE]
     \/ /\ ~(fetch.kind = "dockerhub" /\ ~FilterMatches(fetch.filter, r))
        /\ Fault /\ TagsListed(i, FALSE, listers[i].tags)
        /\ hubPast' = [hubPast EXCEPT !.broke = TRUE]
     \/ /\ ~(fetch.kind = "dockerhub" /\ ~FilterMatches(fetch.filter, r))
        /\ r \in hub.has /\ UNCHANGED <<hubFaults, hubPast>>
        /\ IF n * HubPage >= Len(hub.tags[r]) THEN TagsListed(i, TRUE, tags)
           ELSE listers' = [listers EXCEPT ![i] = [@ EXCEPT !.cursor = n, !.tags = tags]] /\ UNCHANGED fetch
  /\ UNCHANGED <<hub, chores, hubMoves>>
\* if err != nil of aliacr and tencent: whatever the last task assigned.
CheckSharedErr(i) ==
  /\ fetch.at = "tasks" /\ i \in DOMAIN listers /\ listers[i].at = "check"
  /\ EndTask(i, ~fetch.err, listers[i].tags)
  /\ UNCHANGED <<hub, chores, hubFaults, hubMoves, hubPast>>
\* resources = append(resources, ...) of dtr: read, then write.
AppendReads(i) ==
  /\ fetch.at = "tasks" /\ i \in DOMAIN listers /\ listers[i].at = "append"
  /\ listers' = [listers EXCEPT ![i] = [@ EXCEPT !.at = "write", !.seen = fetch.result]]
  /\ UNCHANGED <<hub, fetch, chores, hubFaults, hubMoves, hubPast>>
AppendWrites(i) ==
  /\ fetch.at = "tasks" /\ i \in DOMAIN listers /\ listers[i].at = "write"
  /\ listers' = [listers EXCEPT ![i].at = "over"]
  /\ \E back \in IF fetch.cancelled THEN {0, 1} ELSE {1} :
       fetch' = [fetch EXCEPT !.result = Append(listers[i].seen, [repo |-> fetch.repos[i], tags |-> FilterTags(fetch.want, listers[i].tags)]), !.held = @ - back]
  /\ UNCHANGED <<hub, chores, hubFaults, hubMoves, hubPast>>

\* Wait, and the resources of the slots that are not empty, in the order of the repositories.
Slots ==
  LET slot(i) == [repo |-> fetch.repos[i], tags |-> FilterTags(fetch.want, listers[i].tags)]
      kept == SelectSeq([i \in DOMAIN listers |-> i], LAMBDA i : KeepsResource(listers[i].tags)) IN
  [j \in DOMAIN kept |-> slot(kept[j])]
WaitTasks ==
  /\ fetch.at = "tasks" /\ \A i \in DOMAIN listers : listers[i].at \in {"over", "skipped"}
  /\ IF fetch.failed THEN FetchFails
     ELSE fetch' = [fetch EXCEPT !.at = "over", !.out = "ok", !.result = IF fetch.kind = "dtr" THEN @ ELSE Slots]
  /\ UNCHANGED <<hub, listers, chores, hubFaults, hubMoves, hubPast>>

---------------------------------------------------------------------------
(* FetchArtifacts of gitlab and of huawei: no tasks.                       *)

\* The repository of a project, then its tags page by page, one project after the other.
GitlabProject ==
  /\ fetch.at = "projects" /\ fetch.spaces # <<>>
  /\ LET r == Head(fetch.spaces)
         tags == fetch.got \o (IF r \in hub.has THEN NumberedPage(hub.tags[r], fetch.cursor) ELSE <<>>)
         last == r \notin hub.has \/ ~FilterMatches(fetch.filter, r) \/ (fetch.cursor + 1) * HubPage >= Len(hub.tags[r]) IN
     \/ Fault /\ FetchFails
     \/ /\ UNCHANGED hubFaults /\ last
        /\ fetch' = [fetch EXCEPT !.spaces = Tail(@), !.cursor = 0, !.got = <<>>,
                       !.result = IF r \in hub.has /\ FilterMatches(fetch.filter, r) /\ tags # <<>> THEN Append(@, [repo |-> r, tags |-> FilterTags(fetch.want, tags)]) ELSE @]
     \/ /\ UNCHANGED hubFaults /\ ~last
        /\ fetch' = [fetch EXCEPT !.cursor = @ + 1, !.got = tags]
  /\ UNCHANGED <<hub, listers, chores, hubMoves, hubPast>>
GitlabEnds ==
  /\ fetch.at = "projects" /\ fetch.spaces = <<>>
  /\ fetch' = [fetch EXCEPT !.at = "over", !.out = "ok"]
  /\ UNCHANGED <<hub, listers, chores, hubFaults, hubMoves, hubPast>>
\* One request lists the repositories with their tags; the filters are not looked at.
HuaweiFetch ==
  /\ fetch.at = "huawei"
  /\ \/ Fault /\ FetchFails
     \/ /\ UNCHANGED hubFaults
        /\ LET s == InRegistry(hub.spaces) IN
           fetch' = [fetch EXCEPT !.at = "over", !.out = "ok", !.result = [i \in DOMAIN s |-> [repo |-> s[i], tags |-> hub.tags[s[i]]]]]
  /\ UNCHANGED <<hub, listers, chores, hubMoves, hubPast>>

---------------------------------------------------------------------------
(* PrepareForPush, DeleteManifest and PushBlob.                            *)

Chore(op, kind, repos, ref) ==
  [op |-> op, kind |-> kind, repos |-> repos, ref |-> ref, at |-> "start", todo |-> <<>>, known |-> {}, need |-> {}, fault |-> FALSE, out |-> "open"]
NoChore == [Chore("none", "none", <<>>, "") EXCEPT !.at = "over"]
InHub(x) == IF x[2] = "" THEN x \in hub.spaces ELSE x \in hub.has
HubWith(x) == IF x[2] = "" THEN [hub EXCEPT !.spaces = @ \union {x}] ELSE [hub EXCEPT !.has = @ \union {x}]
SpacesOf(e) == [i \in DOMAIN e.repos |-> Space(e.repos[i])]
OnceEach(s) == SelectSeq([i \in DOMAIN s |-> IF \E j \in 1..(i - 1) : s[j] = s[i] THEN <<"", "">> ELSE s[i]], LAMBDA x : x # <<"", "">>)
\* Namespace and repository of each resource in turn.
BothOf(e) == [i \in 1..(2 * Len(e.repos)) |-> IF i % 2 = 1 THEN Space(e.repos[(i + 1) \div 2]) ELSE e.repos[i \div 2]]
Runs(e, next) == chores' = [chores EXCEPT ![e] = next]
ChoreEnds(e, out) == Runs(e, [chores[e] EXCEPT !.at = "over", !.out = out])
ChoreFault(e) == Fault /\ Runs(e, [chores[e] EXCEPT !.at = "over", !.out = "failed", !.fault = TRUE])

\* What is looked for, and how: dockerhub and quay (that may create namespaces only with a
\* token) look for each namespace before creating it, aws for each repository, tencent for
\* both; dtr and jfrog list what there is first; huawei looks for all of them first.
DockerhubPrepare(e) == [e EXCEPT !.at = "check", !.todo = OnceEach(SpacesOf(e))]
QuayPrepare(e) == IF e.ref = "token" THEN [e EXCEPT !.at = "check", !.todo = SpacesOf(e)] ELSE [e EXCEPT !.at = "over", !.out = "ok"]
AwsPrepare(e) == [e EXCEPT !.at = "check", !.todo = e.repos]
TencentPrepare(e) == [e EXCEPT !.at = "check", !.todo = BothOf(e)]
DtrPrepare(e) == [e EXCEPT !.at = "create", !.todo = OnceEach(SpacesOf(e)), !.known = hub.spaces]
JfrogPrepare(e) == [e EXCEPT !.at = "create", !.todo = SpacesOf(e), !.known = hub.spaces]
HuaweiPrepare(e) == [e EXCEPT !.at = "look", !.todo = SpacesOf(e)]
NativePrepare(e) == [e EXCEPT !.at = "over", !.out = "ok"]
Prepare(e) ==
  /\ chores[e].op = "prepare" /\ chores[e].at = "start"
  /\ \/ /\ LET x == chores[e] IN
           Runs(e, CASE x.kind = "dockerhub" -> DockerhubPrepare(x) [] x.kind = "quay" -> QuayPrepare(x) [] x.kind = "aws" -> AwsPrepare(x)
                     [] x.kind = "tencent" -> TencentPrepare(x) [] x.kind = "dtr" -> DtrPrepare(x) [] x.kind = "jfrog" -> JfrogPrepare(x)
                     [] x.kind = "huawei" -> HuaweiPrepare(x) [] OTHER -> NativePrepare(x))
        /\ UNCHANGED hubFaults
     \/ chores[e].kind \in {"dtr", "jfrog"} /\ ChoreFault(e)
  /\ UNCHANGED <<hub, fetch, listers, hubMoves, hubPast>>

\* Namespaces in a map come in any order.
AnyOrder(e) == chores[e].kind = "dockerhub" \/ (chores[e].kind = "dtr" /\ chores[e].todo # <<>> /\ chores[e].todo[1][2] = "")
Pulled(s, i) == <<s[i]>> \o SubSeq(s, 1, i - 1) \o SubSeq(s, i + 1, Len(s))
\* getNamespace, checkRepository, isNamespaceExist: next one to create, or nothing to do.
CheckExists(e) ==
  /\ chores[e].at = "check"
  /\ \/ chores[e].todo = <<>> /\ ChoreEnds(e, "ok") /\ UNCHANGED hubFaults
     \/ chores[e].todo # <<>> /\ ChoreFault(e)
     \/ /\ UNCHANGED hubFaults
        /\ \E i \in DOMAIN chores[e].todo :
             /\ AnyOrder(e) \/ i = 1
             /\ LET s == Pulled(chores[e].todo, i) IN
                Runs(e, IF InHub(s[1]) THEN [chores[e] EXCEPT !.todo = Tail(s)] ELSE [chores[e] EXCEPT !.at = "make", !.todo = s])
  /\ UNCHANGED <<hub, fetch, listers, hubMoves, hubPast>>
\* The registry refuses to create what is there; only aws takes that for success.
AwsTolerates(kind) == kind = "aws"
Creates(e, x, next) ==
  IF InHub(x) THEN /\ UNCHANGED hub
                    /\ IF AwsTolerates(chores[e].kind) THEN Runs(e, next) ELSE ChoreEnds(e, "failed")
  ELSE hub' = HubWith(x) /\ Runs(e, next)
MakeChecked(e) ==
  /\ chores[e].at = "make"
  /\ \/ ChoreFault(e) /\ UNCHANGED hub
     \/ Creates(e, Head(chores[e].todo), [chores[e] EXCEPT !.at = "check", !.todo = Tail(@)]) /\ UNCHANGED hubFaults
  /\ UNCHANGED <<fetch, listers, hubMoves, hubPast>>
\* dtr and jfrog: what was not in the list.  dtr goes on with the repositories.
MakeListed(e) ==
  /\ chores[e].at = "create" /\ chores[e].todo # <<>>
  /\ \/ ChoreFault(e) /\ UNCHANGED hub
     \/ /\ UNCHANGED hubFaults
        /\ \E i \in DOMAIN chores[e].todo :
             /\ AnyOrder(e) \/ i = 1
             /\ LET s == Pulled(chores[e].todo, i)
                    next == [chores[e] EXCEPT !.todo = Tail(s)] IN
                IF s[1] \in chores[e].known THEN Runs(e, next) /\ UNCHANGED hub ELSE Creates(e, s[1], next)
  /\ UNCHANGED <<fetch, listers, hubMoves, hubPast>>
MakeListedEnds(e) ==
  /\ chores[e].at = "create" /\ chores[e].todo = <<>>
  /\ \/ /\ UNCHANGED hubFaults
        /\ IF chores[e].kind = "dtr" /\ chores[e].ref = ""
           THEN Runs(e, [chores[e] EXCEPT !.ref = "repos", !.known = hub.has, !.todo = chores[e].repos]) ELSE ChoreEnds(e, "ok")
     \/ chores[e].kind = "dtr" /\ chores[e].ref = "" /\ ChoreFault(e)
  /\ UNCHANGED <<hub, fetch, listers, hubMoves, hubPast>>
\* huawei: the answer for a namespace that is not there is empty, or refused (ref).
HuaweiLooks(e) ==
  /\ chores[e].at = "look"
  /\ \/ /\ UNCHANGED hubFaults
        /\ IF chores[e].todo = <<>> THEN Runs(e, [chores[e] EXCEPT !.at = "needs"])
           ELSE IF InHub(Head(chores[e].todo)) THEN Runs(e, [chores[e] EXCEPT !.todo = Tail(@)])
           ELSE IF chores[e].ref = "refused" THEN ChoreEnds(e, "failed")
           ELSE Runs(e, [chores[e] EXCEPT !.todo = Tail(@), !.need = @ \union {Head(chores[e].todo)}])
     \/ chores[e].todo # <<>> /\ ChoreFault(e)
  /\ UNCHANGED <<hub, fetch, listers, hubMoves, hubPast>>
HuaweiMakes(e) ==
  /\ chores[e].at = "needs"
  /\ \/ chores[e].need = {} /\ ChoreEnds(e, "ok") /\ UNCHANGED <<hub, hubFaults>>
     \/ chores[e].need # {} /\ ChoreFault(e) /\ UNCHANGED hub
     \/ UNCHANGED hubFaults /\ \E x \in chores[e].need : Creates(e, x, [chores[e] EXCEPT !.need = @ \ {x}])
  /\ UNCHANGED <<fetch, listers, hubMoves, hubPast>>

\* heads: pairs <<tag, digest>> of one repository; images: its digests.
RefersTo(ref) == {h[2] : h \in {x \in hub.heads : ref \in {x[1], x[2]}}} \union (hub.images \intersect {ref})
WithoutRef(ref) ==
  IF ref \in hub.images THEN [hub EXCEPT !.images = @ \ {ref}, !.heads = {h \in @ : h[2] # ref}]
  ELSE [hub EXCEPT !.heads = {h \in @ : h[1] # ref}]
\* A repository of three components (repos = <<>>) is refused by dockerhub and tencent.
DockerhubDeletes(e) == chores[e].repos # <<>>
TencentDeletes(e) == chores[e].repos # <<>>
HuaweiDeletes(e) == RefersTo(chores[e].ref) # {}
\* BatchDeleteImage names a tag, and what could not be deleted is not an error.
AwsAfter(ref) == IF ref \in hub.images THEN hub ELSE WithoutRef(ref)
GithubAfter(ref) == hub
HubDeleteManifest(e) ==
  /\ chores[e].op = "delete" /\ chores[e].at = "start" /\ chores[e].kind # "gcr"
  /\ LET k == chores[e].kind
         able == CASE k = "dockerhub" -> DockerhubDeletes(e) [] k = "tencent" -> TencentDeletes(e) [] k = "huawei" -> HuaweiDeletes(e) [] OTHER -> TRUE IN
     \/ ~able /\ ChoreEnds(e, "failed") /\ UNCHANGED <<hub, hubFaults>>
     \/ able /\ k # "github" /\ ChoreFault(e) /\ UNCHANGED hub
     \/ /\ able /\ ChoreEnds(e, "ok") /\ UNCHANGED hubFaults
        /\ hub' = CASE k = "aws" -> AwsAfter(chores[e].ref) [] k = "github" -> GithubAfter(chores[e].ref) [] OTHER -> WithoutRef(chores[e].ref)
  /\ UNCHANGED <<fetch, listers, hubMoves, hubPast>>
\* gcr: the tags of the image, then the image, one request each whose status is not looked at.
ListGcrTags(e) ==
  /\ chores[e].op = "delete" /\ chores[e].at = "start" /\ chores[e].kind = "gcr"
  /\ \/ ChoreFault(e)
     \/ /\ UNCHANGED hubFaults
        /\ IF RefersTo(chores[e].ref) = {} THEN ChoreEnds(e, "failed")
           ELSE LET d == CHOOSE x \in RefersTo(chores[e].ref) : TRUE
                    tags == {h[1] : h \in {x \in hub.heads : x[2] = d}} IN
                \E order \in [1..Cardinality(tags) -> tags] :
                  /\ \A i, j \in DOMAIN order : i # j => order[i] # order[j]
                  /\ Runs(e, [chores[e] EXCEPT !.at = "tags", !.todo = order \o <<d>>])
  /\ UNCHANGED <<hub, fetch, listers, hubMoves, hubPast>>
GcrDeletes(e) ==
  /\ chores[e].at = "tags"
  /\ IF chores[e].todo = <<>> THEN ChoreEnds(e, "ok") /\ UNCHANGED <<hub, hubFaults>>
     ELSE \/ /\ hub' = WithoutRef(Head(chores[e].todo)) /\ UNCHANGED hubFaults
             /\ Runs(e, [chores[e] EXCEPT !.todo = Tail(@)])
          \/ ChoreFault(e) /\ UNCHANGED hub
          \* Refused, and not noticed.
          \/ Fault /\ UNCHANGED hub /\ Runs(e, [chores[e] EXCEPT !.todo = Tail(@), !.fault = TRUE])
  /\ UNCHANGED <<fetch, listers, hubMoves, hubPast>>

\* PushBlob of jfrog: an upload is started, filled and acknowledged.
JfrogUpload(e) ==
  /\ chores[e].op = "upload" /\ chores[e].at \in {"start", "patch"}
  /\ \/ ChoreFault(e)
     \/ UNCHANGED hubFaults /\ Runs(e, [chores[e] EXCEPT !.at = IF @ = "start" THEN "patch" ELSE "ack"])
  /\ UNCHANGED <<hub, fetch, listers, hubMoves, hubPast>>
JfrogAck(e) ==
  /\ chores[e].op = "upload" /\ chores[e].at = "ack"
  /\ \/ ChoreFault(e) /\ UNCHANGED hub
     \/ ChoreEnds(e, "ok") /\ hub' = [hub EXCEPT !.blobs = @ \union {chores[e].ref}] /\ UNCHANGED hubFaults
     \* Done, but the answer is lost.
     \/ ChoreFault(e) /\ hub' = [hub EXCEPT !.blobs = @ \union {chores[e].ref}]
  /\ UNCHANGED <<fetch, listers, hubMoves, hubPast>>

\* Others push to the registry and delete from it.
HubMoves ==
  /\ hubMoves > 0 /\ hubMoves' = hubMoves - 1 /\ fetch.at # "start"
  /\ \E r \in Members(hub.order) :
       hub' = IF r \in hub.has THEN [hub EXCEPT !.has = @ \ {r}] ELSE [hub EXCEPT !.has = @ \union {r}, !.spaces = @ \union {Space(r)}]
  /\ hubPast' = [hubPast EXCEPT !.always = @ \intersect hub'.has, !.ever = @ \union hub'.has, !.moved = TRUE]
  /\ UNCHANGED <<fetch, listers, chores, hubFaults>>

AdaptersNext ==
  \/ StartFetch \/ ListHubPage \/ AddTasks \/ WaitTasks \/ GitlabProject \/ GitlabEnds \/ HuaweiFetch \/ HubMoves
  \/ \E i \in DOMAIN listers : ApplyPassport(i) \/ ListTagsPage(i) \/ CheckSharedErr(i) \/ AppendReads(i) \/ AppendWrites(i)
  \/ \E e \in DOMAIN chores : Prepare(e) \/ CheckExists(e) \/ MakeChecked(e) \/ MakeListed(e) \/ MakeListedEnds(e) \/ HuaweiLooks(e) \/ HuaweiMakes(e)
       \/ HubDeleteManifest(e) \/ ListGcrTags(e) \/ GcrDeletes(e) \/ JfrogUpload(e) \/ JfrogAck(e)

---------------------------------------------------------------------------
(* Properties.                                                             *)

Listed(r) == {i \in DOMAIN fetch.result : fetch.result[i].repo = r}
WantedRepo(r) == fetch.kind = "huawei" \/ FilterMatches(fetch.filter, r)
WantedTags(r) == IF fetch.kind = "huawei" THEN hub.tags[r] ELSE FilterTags(fetch.want, hub.tags[r])
\* Two of the tasks of dtr append at once: only then may a resource get lost.
RacedAppend == fetch.kind = "dtr" /\ Cardinality(DOMAIN listers) > 1
\* The cases that list a repository again: tencent with several namespaces in the filter,
\* gitlab with a name that contains another.
Repeats ==
  \/ fetch.kind = "tencent" /\ Len(fetch.filter.comps) > 1
  \/ fetch.kind = "gitlab" /\ Len(fetch.filter.paths) > 1

\* FetchArtifacts of a registry that does not change meanwhile answers with every repository
\* that matches and has a tag that matches, with exactly those tags, and once.
ListsAll ==
  fetch.out = "ok" /\ ~hubPast.moved /\ ~RacedAppend /\ (SharedErr => ~hubPast.broke) =>
    \A r \in hub.has : WantedRepo(r) /\ WantedTags(r) # <<>> =>
      /\ Listed(r) # {} /\ (~Repeats => Cardinality(Listed(r)) = 1)
      /\ \A i \in Listed(r) : fetch.result[i].tags = WantedTags(r)
\* It answers with nothing that does not match, or was never there while it ran.
ListsNothingElse ==
  fetch.out = "ok" => \A i \in DOMAIN fetch.result :
    LET x == fetch.result[i] IN WantedRepo(x.repo) /\ x.repo \in hubPast.ever /\ (fetch.kind # "huawei" => Members(x.tags) \subseteq fetch.want)
\* With pages that follow a marker, changes of the registry cost no repository that stays, and
\* list none twice.
MarkersHold ==
  fetch.kind \in {"native", "quay", "jfrog", "dtr"} /\ fetch.filter.paths = <<>> /\ fetch.at \in {"tasks", "over"} /\ fetch.out # "failed" =>
    LET seen(r) == {i \in DOMAIN fetch.repos : fetch.repos[i] = r} IN
    /\ \A r \in hubPast.always : WantedRepo(r) => seen(r) # {}
    /\ \A r \in Members(fetch.repos) : Cardinality(seen(r)) = 1
\* A listing of tags that failed makes the whole call fail, unless a variable shared by the
\* tasks lost the error.
FailureCounts == fetch.out = "ok" /\ hubPast.broke => SharedErr \/ fetch.kind = "huawei"
\* No more tasks run than there are passports, and none is left when the call returns; tasks
\* are skipped only after a failure.
RunnerHolds ==
  /\ Cardinality(RunningTasks) <= Passports /\ fetch.held >= Cardinality(RunningTasks)
  /\ fetch.at = "over" => RunningTasks = {}
  /\ (\E i \in DOMAIN listers : listers[i].at = "skipped") => fetch.failed /\ fetch.out # "ok"
\* After PrepareForPush said so, the push finds its namespaces, and its repositories
\* where the registry wants them created.
Prepared ==
  \A e \in DOMAIN chores : chores[e].op = "prepare" /\ chores[e].out = "ok" =>
    LET x == chores[e] IN
    \A i \in DOMAIN x.repos :
      /\ x.kind \in {"dtr", "jfrog", "dockerhub", "huawei", "tencent"} \/ (x.kind = "quay" /\ x.ref = "token") => InHub(Space(x.repos[i]))
      /\ x.kind \in {"dtr", "aws", "tencent"} => InHub(x.repos[i])
\* PrepareForPush fails only when a request failed, another one created the same meanwhile,
\* or in the cases of dtr and jfrog with something twice in the list.
PreparesAlone ==
  \A e \in DOMAIN chores : chores[e].op = "prepare" /\ chores[e].out = "failed" /\ ~chores[e].fault =>
    \/ \E f \in DOMAIN chores \ {e} : chores[f].op = "prepare"
    \/ chores[e].kind = "dtr" /\ OnceEach(chores[e].repos) # chores[e].repos
    \/ chores[e].kind = "jfrog" /\ OnceEach(SpacesOf(chores[e])) # SpacesOf(chores[e])
    \/ chores[e].kind = "huawei" /\ chores[e].ref = "refused"
\* A deletion that answered leaves nothing under its reference (github deletes nothing, aws
\* not by digest, gcr overlooks what is refused), and an upload that answered is there.
ChoresDone ==
  \A e \in DOMAIN chores : chores[e].out = "ok" =>
    /\ chores[e].op = "delete" /\ chores[e].kind # "github" /\ ~chores[e].fault /\ ~(chores[e].kind = "aws" /\ chores[e].ref \in hub.images) =>
         \A h \in hub.heads : chores[e].ref \notin {h[1], h[2]}
    /\ chores[e].op = "delete" /\ chores[e].kind = "gcr" /\ ~chores[e].fault => chores[e].ref \notin hub.images
    /\ chores[e].op = "upload" => chores[e].ref \in hub.blobs
\* What an adapter advertises: all but dtr name themselves, and health needs an answer to a
\* request (except huawei).
InfoTrue ==
  /\ \A k \in DOMAIN InfoOf : InfoOf[k].type = k \/ k = "dtr"
  /\ \A k \in DOMAIN InfoOf, c \in {"none", "key"}, g \in {"ok", "unauthorized", "forbidden", "down"} :
       HealthCheck(k, c, g) => k = "huawei" \/ g = "ok" \/ (c = "none" /\ g # "down")

AdaptersSound == ListsAll /\ ListsNothingElse /\ MarkersHold /\ FailureCounts /\ RunnerHolds /\ Prepared /\ PreparesAlone /\ ChoresDone /\ InfoTrue
=============================================================================
