------------------------------ MODULE Preheat ------------------------------
(***************************************************************************)
(* P2P preheat: provider instances and policies written by the API, the    *)
(* requests, schedules and events that enforce a policy, and the jobs that *)
(* send images to the provider.  A policy is enforced in steps (read the   *)
(* policy, probe the provider, list and filter the artifacts, create the   *)
(* execution, start its tasks one by one) while other requests change the  *)
(* rows.  A request that writes does so in one transaction: its writes     *)
(* show at its end, or never.                                              *)
(*                                                                         *)
(* A pattern is the set of what it matches, with "[" when it is malformed. *)
(* The credentials of an instance are the keys of its auth info.           *)
(***************************************************************************)
EXTENDS Integers, Sequences, FiniteSets, SequencesExt

CONSTANTS AgentIds, WarmPolicies, Errands

VARIABLES agents,    \* instance -> row, or NoAgent
          warmPol,   \* policy -> row, or NoWarm
          warmCron,  \* policy -> cron of its schedule row, "" if there is none
          warmRuns,  \* executions and their tasks
          wares,     \* the artifacts of the projects
          houses,    \* project -> [live, trust, prevent, sev]
          errand,    \* requests, callbacks and event handlers
          awake,     \* the instances that answer
          snags,     \* calls that may still fail
          crossing    \* history: policies written over a newer row

warmVars == <<agents, warmPol, warmCron, warmRuns, wares, houses, errand, awake, snags, crossing>>

WarmTables == <<agents, warmPol, warmCron, houses, crossing>>
World == <<wares, awake>>
Snag == snags > 0 /\ snags' = snags - 1

---------------------------------------------------------------------------
(* Provider instances.                                                     *)

NoAgent == [name |-> ""]
AgentsThere == {i \in AgentIds : agents[i] # NoAgent}
GoodName(n) == n # "bad name"

\* The API's instance is stored with its auth info as text, and shown with
\* the text parsed.
convertParamInstanceToModelInstance(a) ==
    [name |-> a.name, vendor |-> a.vendor, endpoint |-> a.endpoint, mode |-> a.mode, data |-> a.info, enabled |-> a.enabled, default |-> a.default]
convertInstanceToPayload(row) ==
    [name |-> row.name, vendor |-> row.vendor, endpoint |-> row.endpoint, mode |-> row.mode, info |-> row.data, enabled |-> row.enabled, default |-> row.default]

\* What the database gives has no auth info: only the text is a column.
GetInstance(i) == [agents[i] EXCEPT !.data = {}]

knownDrivers == {"dragonfly", "kraken"}

\* authorize, of the HTTP client: the handlers by mode.
BasicAuthorize(info) == info # {}
CustomAuthorize(info) == info # {}
TokenAuthorize(info) == "token" \in info
Authorize(mode, info) ==
    \/ mode = "NONE"
    \/ mode = "BASIC" /\ BasicAuthorize(info)
    \/ mode = "CUSTOM" /\ CustomAuthorize(info)
    \/ mode = "OAUTH" /\ TokenAuthorize(info)

\* Get and Post: an answer that is not 2xx is an error.
Reaches(i, ins) == ins.endpoint # "" /\ Authorize(ins.mode, ins.data) /\ i \in awake
Posts(i, ins) == Reaches(i, ins)
GetHealth(i, ins) == ins.endpoint = "url" /\ Reaches(i, ins)
Healthy(i, ins) == ins.vendor \in knownDrivers /\ GetHealth(i, ins)

\* parseParamProvider, of what ToJSON wrote.
ProviderParamValid(ins) == ins.vendor # "" /\ (ins.mode # "NONE" => ins.data # {}) /\ ins.endpoint # ""
ImageParamValid(c) == c.repo # "" /\ c.tag # ""

---------------------------------------------------------------------------
(* Policies.  A filter is [type, vt, hits, n, b]: vt is the type of its    *)
(* value in the text.                                                      *)

NoWarm == [name |-> ""]
WarmThere == {p \in WarmPolicies : warmPol[p] # NoWarm}

WFilter(type, vt, hits, n, b) == [type |-> type, vt |-> vt, hits |-> hits, n |-> n, b |-> b]

decodable(row) == row.trigger # "missing" /\ (\A k \in DOMAIN row.filters : row.filters[k].type # "missing")
                  /\ \A k \in DOMAIN row.filters : ~(row.filters[k].type = "vulnerability" /\ row.filters[k].vt = "string" /\ row.filters[k].n < 0)

\* Numbers are read as float64; a severity becomes an int.
decodeFilters(fs) ==
    [k \in DOMAIN fs |-> IF fs[k].type = "vulnerability" /\ fs[k].vt \in {"string", "float64"} THEN [fs[k] EXCEPT !.vt = "int"] ELSE fs[k]]

Scheduled(row) == row.trigger = "scheduled" /\ row.cron # ""

filterOrder(t) ==
    CASE t = "repository" -> 0 [] t = "tag" -> 1 [] t = "label" -> 2 [] t = "signature" -> 3 [] t = "vulnerability" -> 4 [] OTHER -> 5

buildable(f) ==
    \/ f.type \in {"repository", "tag", "label"} /\ f.vt = "string"
    \/ f.type = "signature" /\ f.vt = "bool"
    \/ f.type = "vulnerability" /\ f.vt = "int"

\* The selectors; {} is the empty pattern.
Selected(f, c) ==
    CASE f.type = "repository" -> f.hits = {} \/ c.repo \in f.hits
      [] f.type = "tag" -> f.hits = {} \/ c.tag \in f.hits
      [] f.type = "label" -> f.hits \subseteq c.labels
      [] f.type = "signature" -> c.signed = f.b
      [] OTHER -> c.sev < f.n

Malformed(f) == f.type \in {"repository", "tag"} /\ "[" \in f.hits

\* BuildFrom and Filter: Bad is an error.  A malformed pattern is one only
\* when candidates reach it.
Bad == {[repo |-> "["]}
FilterSorted(fs, cands) ==
    FoldLeft(LAMBDA s, f : IF s = Bad \/ s = {} THEN s ELSE IF Malformed(f) THEN Bad ELSE {c \in s : Selected(f, c)},
             cands, SortSeq(fs, LAMBDA f, g : filterOrder(f.type) < filterOrder(g.type)))
FilterCandidates(fs, cands) ==
    IF fs = <<>> \/ \E k \in DOMAIN fs : ~buildable(fs[k]) THEN Bad ELSE FilterSorted(fs, cands)

\* As if the project's threshold were dropped with the policy's.
overrideTrustOnly(fs, house) ==
    SelectSeq(fs, LAMBDA f : f.type \notin {"signature", "vulnerability"})
    \o (IF house.trust THEN <<WFilter("signature", "bool", {}, 0, TRUE)>> ELSE <<>>)

\* The project's settings replace the filters on signature and severity of
\* the policy; without settings these go as well.
overrideSecuritySettings(fs, house) ==
    SelectSeq(fs, LAMBDA f : f.type \notin {"signature", "vulnerability"})
    \o (IF house.trust THEN <<WFilter("signature", "bool", {}, 0, TRUE)>> ELSE <<>>)
    \o (IF house.prevent /\ house.sev >= 0 THEN <<WFilter("vulnerability", "int", {}, house.sev, FALSE)>> ELSE <<>>)

\* 99 unless a scan succeeded.
getVulnerabilitySev(a) == IF a.scan # "success" THEN 99 ELSE IF a.sev < 0 THEN 0 ELSE a.sev

toCandidates(arts) ==
    UNION {{[repo |-> a.repo, digest |-> a.digest, tag |-> t[1], labels |-> a.labels, signed |-> t[2], sev |-> getVulnerabilitySev(a),
             scan |-> a.scan, worst |-> a.sev] : t \in a.tags} : a \in arts}

---------------------------------------------------------------------------
(* Errands.                                                                *)

Errand(op, id, arg) ==
    [op |-> op, id |-> id, arg |-> arg, pc |-> "new", seen |-> NoWarm, cands |-> {}, rule |-> <<>>,
     queue |-> {}, cur |-> <<>>, ins |-> NoAgent, left |-> {}, run |-> 0, bad |-> FALSE]
NoErrand == [Errand("none", 0, 0) EXCEPT !.pc = "over"]

Reach(e, l) == errand' = [errand EXCEPT ![e].pc = l]
Complete(e) == Reach(e, "over")
Upon(e, op, l) == errand[e].op = op /\ errand[e].pc = l
OnlyErrand == UNCHANGED <<WarmTables, warmRuns, World, snags>>

\* A change of a row that is not the one that was read.
Crossing(p, seen) == crossing' = IF warmPol[p] # seen THEN crossing \union {p} ELSE crossing

VisibleRuns == {r \in DOMAIN warmRuns : warmRuns[r].shows /\ ~warmRuns[r].gone}
RunsOf(p) == {r \in VisibleRuns : warmRuns[r].pol = p}
FinalTask(t) == t.st \in {"Success", "Error", "Stopped"}
RunStatus(r) ==
    LET sts == {t.st : t \in warmRuns[r].tasks}
    IN IF sts = {} THEN warmRuns[r].status
       ELSE IF sts \cap {"Pending", "Running"} # {} THEN "Running"
       ELSE IF "Error" \in sts THEN "Error" ELSE IF "Stopped" \in sts THEN "Stopped" ELSE "Success"

---------------------------------------------------------------------------
(* Requests about instances.                                               *)

CreateInstanceCheck(e) ==
    /\ Upon(e, "newAgent", "new")
    /\ IF GoodName(errand[e].arg.name) /\ \A i \in AgentsThere : agents[i].name # errand[e].arg.name THEN Reach(e, "write") ELSE Complete(e)
    /\ OnlyErrand

\* The key on the name decides between two creations.
CreateInstance(e) ==
    /\ Upon(e, "newAgent", "write")
    /\ Complete(e)
    /\ agents' = IF \E i \in AgentsThere : agents[i].name = errand[e].arg.name THEN agents
                 ELSE [agents EXCEPT ![errand[e].id] = convertParamInstanceToModelInstance(errand[e].arg)]
    /\ UNCHANGED <<warmPol, warmCron, warmRuns, houses, World, snags, crossing>>

UsedBy(i) == {p \in WarmThere : warmPol[p].provider = i}

DeleteInstanceCheck(e) ==
    /\ Upon(e, "dropAgent", "new")
    /\ IF agents[errand[e].id] # NoAgent /\ UsedBy(errand[e].id) = {}
       THEN errand' = [errand EXCEPT ![e].pc = "write", ![e].left = UsedBy(errand[e].id)] ELSE Complete(e)
    /\ OnlyErrand

DeleteInstance(e) ==
    /\ Upon(e, "dropAgent", "write")
    /\ Complete(e)
    /\ agents' = [agents EXCEPT ![errand[e].id] = NoAgent]
    /\ crossing' = crossing \union (UsedBy(errand[e].id) \ errand[e].left)
    /\ UNCHANGED <<warmPol, warmCron, warmRuns, houses, World, snags>>

UpdateInstanceCheck(e) ==
    LET i == errand[e].id IN
    /\ Upon(e, "setAgent", "new")
    /\ IF /\ GoodName(errand[e].arg.name) /\ agents[i] # NoAgent
          /\ errand[e].arg.enabled \/ UsedBy(i) = {}
          /\ agents[i].vendor = errand[e].arg.vendor
       THEN Reach(e, "write") ELSE Complete(e)
    /\ OnlyErrand

\* Update, of the DAO: all columns are written, if the row is there; a new
\* default replaces the old one.
StoreInstance(i, row) ==
    [k \in AgentIds |-> IF agents[k] = NoAgent THEN NoAgent ELSE IF k = i THEN row
                        ELSE IF row.default THEN [agents[k] EXCEPT !.default = FALSE] ELSE agents[k]]

UpdateInstance(e) ==
    LET i == errand[e].id
        row == convertParamInstanceToModelInstance(errand[e].arg)
        taken == \E k \in AgentsThere \ {i} : agents[k].name = row.name
    IN
    /\ Upon(e, "setAgent", "write")
    /\ Complete(e)
    /\ agents' = IF taken THEN agents ELSE StoreInstance(i, row)
    /\ UNCHANGED <<warmPol, warmCron, warmRuns, houses, World, snags, crossing>>

---------------------------------------------------------------------------
(* Requests about policies.                                                *)

\* The name, the project, the provider and the text of filters and trigger.
CreatePolicyCheck(e) ==
    LET q == errand[e].arg IN
    /\ Upon(e, "newPol", "new")
    /\ IF GoodName(q.name) /\ houses[q.project].live /\ agents[q.provider] # NoAgent /\ decodable(q) THEN Reach(e, "write") ELSE Complete(e)
    /\ OnlyErrand

\* A schedule that cannot be made takes the row back.
WritePolicy(e) ==
    LET q == errand[e].arg
        p == errand[e].id
        taken == \E k \in WarmThere : warmPol[k].name = q.name /\ warmPol[k].project = q.project
    IN
    /\ Upon(e, "newPol", "write")
    /\ Complete(e)
    /\ \/ /\ taken \/ (Scheduled(q) /\ q.cron = "never")
          /\ UNCHANGED <<warmPol, warmCron, crossing, snags>>
       \/ /\ ~taken /\ Scheduled(q) /\ Snag
          /\ UNCHANGED <<warmPol, warmCron, crossing>>
       \/ /\ ~taken /\ ~(Scheduled(q) /\ q.cron = "never")
          /\ warmPol' = [warmPol EXCEPT ![p] = q]
          /\ warmCron' = [warmCron EXCEPT ![p] = IF Scheduled(q) THEN q.cron ELSE ""]
          /\ crossing' = IF agents[q.provider] = NoAgent \/ ~houses[q.project].live THEN crossing \union {p} ELSE crossing
          /\ UNCHANGED snags
    /\ UNCHANGED <<agents, warmRuns, houses, World>>

\* requirePolicyAccess: the policy is one of the project.
UpdatePolicyCheck(e) ==
    LET q == errand[e].arg
        p == errand[e].id
    IN
    /\ Upon(e, "setPol", "new")
    /\ IF /\ GoodName(q.name) /\ houses[q.project].live
          /\ p \in WarmThere /\ warmPol[p].project = q.project
          /\ agents[q.provider] # NoAgent /\ decodable(q)
       THEN errand' = [errand EXCEPT ![e].pc = "write", ![e].seen = warmPol[p]] ELSE Complete(e)
    /\ OnlyErrand

PolNeedUn(old, new) == IF old.trigger # new.trigger THEN Scheduled(old) ELSE Scheduled(old) /\ old.cron # new.cron
PolNeedSch(old, new) == IF old.trigger # new.trigger THEN Scheduled(new) ELSE Scheduled(new) /\ old.cron # new.cron

\* The schedule follows the difference to the row that was read; a second
\* schedule is a conflict, a row that has gone is not found.
ReplacePolicy(e) ==
    LET q == errand[e].arg
        p == errand[e].id
        rest == IF PolNeedUn(errand[e].seen, q) THEN "" ELSE warmCron[p]
        sch == PolNeedSch(errand[e].seen, q)
        taken == \E k \in WarmThere \ {p} : warmPol[k].name = q.name /\ warmPol[k].project = q.project
        fails == p \notin WarmThere \/ taken \/ (sch /\ (rest # "" \/ q.cron = "never"))
    IN
    /\ Upon(e, "setPol", "write")
    /\ Complete(e)
    /\ \/ fails /\ UNCHANGED <<warmPol, warmCron, crossing, snags>>
       \/ sch /\ Snag /\ UNCHANGED <<warmPol, warmCron, crossing>>
       \/ /\ ~fails
          /\ warmPol' = [warmPol EXCEPT ![p] = q]
          /\ warmCron' = [warmCron EXCEPT ![p] = IF sch THEN q.cron ELSE rest]
          /\ crossing' = IF warmPol[p] # errand[e].seen \/ agents[q.provider] = NoAgent \/ ~houses[q.project].live THEN crossing \union {p} ELSE crossing
          /\ UNCHANGED snags
    /\ UNCHANGED <<agents, warmRuns, houses, World>>

\* No execution of the policy runs.
DeletePolicyCheck(e) ==
    LET p == errand[e].id IN
    /\ Upon(e, "dropPol", "new")
    /\ IF p \in WarmThere /\ houses[warmPol[p].project].live /\ \A r \in RunsOf(p) : RunStatus(r) # "Running"
       THEN errand' = [errand EXCEPT ![e].pc = "write", ![e].seen = warmPol[p]] ELSE Complete(e)
    /\ OnlyErrand

\* deleteExecs: an execution with a task that is not final stays, and with
\* it the policy.
Unfinished(p) == \E r \in RunsOf(p) : \E t \in warmRuns[r].tasks : ~FinalTask(t)
WithoutRuns(ps) == [r \in DOMAIN warmRuns |-> IF r \in UNION {RunsOf(p) : p \in ps} THEN [warmRuns[r] EXCEPT !.gone = TRUE] ELSE warmRuns[r]]

RemovePolicy(e) ==
    LET p == errand[e].id
        fails == p \notin WarmThere \/ Unfinished(p)
    IN
    /\ Upon(e, "dropPol", "write")
    /\ Complete(e)
    /\ IF fails THEN UNCHANGED <<warmPol, warmCron, warmRuns, crossing>>
       ELSE /\ warmPol' = [warmPol EXCEPT ![p] = NoWarm]
            /\ warmCron' = [warmCron EXCEPT ![p] = IF Scheduled(errand[e].seen) THEN "" ELSE @]
            /\ warmRuns' = WithoutRuns({p})
            /\ Crossing(p, errand[e].seen)
    /\ UNCHANGED <<agents, houses, World, snags>>

\* The deletion of a project ends with its policies.
DeletePoliciesOfProject(e) ==
    LET ps == {p \in WarmThere : warmPol[p].project = errand[e].id} IN
    /\ Upon(e, "dropProject", "new")
    /\ Complete(e)
    /\ IF \E p \in ps : Unfinished(p) THEN UNCHANGED <<warmPol, warmCron, warmRuns, houses>>
       ELSE /\ houses' = [houses EXCEPT ![errand[e].id].live = FALSE]
            /\ warmPol' = [p \in WarmPolicies |-> IF p \in ps THEN NoWarm ELSE warmPol[p]]
            /\ warmCron' = [p \in WarmPolicies |-> IF p \in ps /\ Scheduled(warmPol[p]) THEN "" ELSE warmCron[p]]
            /\ warmRuns' = WithoutRuns(ps)
    /\ UNCHANGED <<agents, World, snags, crossing>>

---------------------------------------------------------------------------
(* EnforcePolicy: by a request, or by the callback of a schedule.          *)

EnforceOps == {"manual", "tick"}
EventOps == {"push", "scanned", "labeled"}

\* The policy, its provider and the provider's health.
EnforceRead(e) ==
    LET p == errand[e].id
        pl == warmPol[p]
    IN
    /\ errand[e].op \in EnforceOps /\ errand[e].pc = "new"
    /\ errand[e].op = "tick" => warmCron[p] # ""
    /\ IF /\ p \in WarmThere /\ pl.enabled
          /\ errand[e].op = "manual" => houses[pl.project].live
          /\ agents[pl.provider] # NoAgent /\ Healthy(pl.provider, GetInstance(pl.provider))
       THEN errand' = [errand EXCEPT ![e].pc = "list", ![e].seen = pl, ![e].ins = GetInstance(pl.provider)] ELSE Complete(e)
    /\ OnlyErrand

Queued(p, pl, cands, house) == [p |-> p, pl |-> pl, cands |-> cands, house |-> house]

\* The project, then its artifacts with tags, labels and scan results.
EnforceList(e) ==
    LET pl == errand[e].seen
        house == houses[pl.project]
        got == FilterCandidates(overrideSecuritySettings(decodeFilters(pl.filters), house), toCandidates({a \in wares : a.project = pl.project}))
    IN
    /\ errand[e].pc = "list"
    /\ \/ /\ UNCHANGED snags
          /\ IF ~house.live \/ got = Bad THEN Complete(e)
             ELSE errand' = [errand EXCEPT ![e].pc = "launch", ![e].cur = <<Queued(errand[e].id, pl, got, house)>>]
       \/ Snag /\ Complete(e)
    /\ UNCHANGED <<WarmTables, warmRuns, World>>

---------------------------------------------------------------------------
(* The handler of events.                                                  *)

\* An image that was pushed goes with the first tag of the event, if that is
\* still its tag; a scanned or labelled one with all its tags.
HandleRead(e) ==
    LET a == errand[e].arg
        now == {x \in wares : x.project = a.project /\ x.digest = a.digest}
        kept == {[x EXCEPT !.tags = IF errand[e].op = "push" THEN {t \in @ : t[1] = a.tag} ELSE @] : x \in now}
    IN
    /\ errand[e].op \in EventOps /\ errand[e].pc = "new"
    /\ \/ /\ UNCHANGED snags
          /\ IF /\ now # {} /\ (errand[e].op = "push" => a.tag # "")
                /\ \A x \in now : errand[e].op # "scanned" => x.type = "IMAGE"
                /\ houses[a.project].live
             THEN errand' = [errand EXCEPT ![e].pc = "match", ![e].cands = toCandidates(kept), ![e].rule = <<houses[a.project]>>]
             ELSE Complete(e)
       \/ Snag /\ Complete(e)
    /\ UNCHANGED <<WarmTables, warmRuns, World>>

\* The enabled policies of the project with an event trigger; one that has
\* no filters left, or bad ones, is passed over.
MatchPolicies(e) ==
    LET house == errand[e].rule[1]
        pick(p) == FilterCandidates(overrideSecuritySettings(decodeFilters(warmPol[p].filters), house), errand[e].cands)
        ps == {p \in WarmThere : /\ warmPol[p].project = errand[e].arg.project /\ warmPol[p].enabled /\ warmPol[p].trigger = "event_based"
                                 /\ pick(p) \notin {Bad, {}}}
    IN
    /\ errand[e].pc = "match"
    /\ errand' = [errand EXCEPT ![e].pc = "pick", ![e].queue = {Queued(p, warmPol[p], pick(p), house) : p \in ps}]
    /\ OnlyErrand

\* A provider that is gone or not healthy skips the policy.
PickPolicy(e) ==
    /\ errand[e].pc = "pick"
    /\ IF errand[e].queue = {} THEN Complete(e)
       ELSE \E x \in errand[e].queue :
              LET good == agents[x.pl.provider] # NoAgent /\ Healthy(x.pl.provider, GetInstance(x.pl.provider))
              IN errand' = [errand EXCEPT ![e].queue = @ \ {x}, ![e].cur = <<x>>, ![e].pc = IF good THEN "launch" ELSE "pick",
                                             ![e].ins = IF good THEN GetInstance(x.pl.provider) ELSE NoAgent]
    /\ OnlyErrand

---------------------------------------------------------------------------
(* launchExecutions.                                                       *)

InRequest(e) == errand[e].op \in EnforceOps
After(e) == IF InRequest(e) THEN "commit" ELSE "pick"

\* The execution, done at once when there is nothing to preheat.  What a
\* request or the hook of a schedule creates shows when it commits.
LaunchExecution(e) ==
    LET x == errand[e].cur[1]
        run == [pol |-> x.p, pl |-> x.pl, house |-> x.house, by |-> e, trigger |-> x.pl.trigger, total |-> Cardinality(x.cands),
                status |-> IF x.cands = {} THEN "Success" ELSE "Running", tasks |-> {}, shows |-> ~InRequest(e), gone |-> FALSE, ins |-> errand[e].ins]
    IN
    /\ errand[e].pc = "launch"
    /\ warmRuns' = Append(warmRuns, run)
    /\ errand' = [errand EXCEPT ![e].pc = IF x.cands = {} THEN After(e) ELSE "tasks", ![e].left = x.cands, ![e].run = Len(warmRuns) + 1]
    /\ UNCHANGED <<WarmTables, World, snags>>

PTask(c) == [cand |-> c, st |-> "Pending", pc |-> "wait", stop |-> FALSE, remote |-> "none", told |-> "none"]

\* Jobs are unique: one for the same image and provider is refused while
\* another is under way.
SameJob(r, c) ==
    \E k \in DOMAIN warmRuns : \E t \in warmRuns[k].tasks :
       /\ t.cand.tag = c.tag /\ t.cand.repo = c.repo /\ t.cand.digest = c.digest /\ warmRuns[k].pl.provider = warmRuns[r].pl.provider
       /\ ~FinalTask(t)

\* The address and a token for the image, then the task and its job: without
\* the first there is no task, without a job the task is in error; others
\* go on.
StartTask(e) ==
    LET r == errand[e].run IN
    /\ errand[e].pc = "tasks"
    /\ \E c \in errand[e].left :
          LET rest == errand[e].left \ {c}
              next == IF rest = {} THEN After(e) ELSE "tasks"
              good == ProviderParamValid(warmRuns[r].ins) /\ ImageParamValid(c) /\ ~SameJob(r, c)
              with(t) == warmRuns' = [warmRuns EXCEPT ![r].tasks = @ \union {t}]
          IN \/ /\ good /\ with(PTask(c)) /\ UNCHANGED snags
                /\ errand' = [errand EXCEPT ![e].left = rest, ![e].pc = next]
             \/ /\ ~good /\ with([PTask(c) EXCEPT !.st = "Error", !.pc = "over"]) /\ UNCHANGED snags
                /\ errand' = [errand EXCEPT ![e].left = rest, ![e].pc = next, ![e].bad = TRUE]
             \/ /\ Snag /\ UNCHANGED warmRuns
                /\ errand' = [errand EXCEPT ![e].left = rest, ![e].pc = next, ![e].bad = TRUE]
    /\ UNCHANGED <<WarmTables, World>>

\* A request that answers an error is rolled back: the rows of its execution
\* never show, but its jobs were submitted.
CommitEnforce(e) ==
    /\ errand[e].pc = "commit"
    /\ warmRuns' = [warmRuns EXCEPT ![errand[e].run].shows = ~errand[e].bad, ![errand[e].run].gone = errand[e].bad]
    /\ Complete(e)
    /\ UNCHANGED <<WarmTables, World, snags>>

---------------------------------------------------------------------------
(* The job of a task.                                                      *)

Change(r, t, new) == warmRuns' = [warmRuns EXCEPT ![r].tasks = (@ \ {t}) \union {new}]
Ends(t, st) == [t EXCEPT !.pc = "over", !.st = IF t.stop /\ st = "Success" THEN "Stopped" ELSE st]

\* A job that is told to stop returns without error, at the points where it
\* looks.
JobCheck(r) ==
    \E t \in warmRuns[r].tasks :
    /\ t.pc = "wait"
    /\ Change(r, t, IF t.stop THEN Ends(t, "Success")
                    ELSE IF ~Healthy(warmRuns[r].pl.provider, warmRuns[r].ins) THEN Ends(t, "Error")
                    ELSE [t EXCEPT !.st = "Running", !.pc = "send"])
    /\ UNCHANGED <<WarmTables, World, errand, snags>>

\* Kraken is only notified: that it took the notification counts as success.
KrakenPreheat(t) == {Ends([t EXCEPT !.told = "accepted", !.remote = "SUCCESS"], "Success")}

\* Dragonfly may have the image already (208), or find out later that it has
\* (a task in error that names the other).
DragonflyPreheat(t) ==
    {Ends([t EXCEPT !.told = "reported", !.remote = "SUCCESS"], "Success")}
    \union {[t EXCEPT !.pc = "loop", !.told = "PENDING", !.remote = r] : r \in {"WAITING", "other"}}

JobSend(r) ==
    \E t \in warmRuns[r].tasks :
    /\ t.pc = "send"
    /\ \E new \in IF t.stop THEN {Ends(t, "Success")}
                  ELSE IF ~Posts(warmRuns[r].pl.provider, warmRuns[r].ins) THEN {Ends(t, "Error")}
                  ELSE IF warmRuns[r].ins.vendor = "kraken" THEN KrakenPreheat(t) ELSE DragonflyPreheat(t) : Change(r, t, new)
    /\ UNCHANGED <<WarmTables, World, errand, snags>>

\* What Dragonfly answers: WAITING and FAILED are translated, others are as
\* they are; the task that exists already is asked for when there is one.
CheckProgress(remote) == CASE remote = "WAITING" -> "PENDING" [] remote = "FAILED" -> "FAIL" [] OTHER -> remote

JobPoll(r) ==
    \E t \in warmRuns[r].tasks : \E asked \in IF t.remote = "other" THEN {"WAITING", "SUCCESS", "FAILED"} ELSE {t.remote} :
    LET s == CheckProgress(asked)
        u == [t EXCEPT !.told = s]
    IN
    /\ t.pc = "loop"
    /\ Change(r, t, IF ~Reaches(warmRuns[r].pl.provider, warmRuns[r].ins) \/ s = "FAIL" THEN Ends(u, "Error")
                    ELSE IF s = "SUCCESS" \/ t.stop THEN Ends(u, "Success")
                    ELSE u)
    /\ UNCHANGED <<WarmTables, World, errand, snags>>

JobTimeout(r) ==
    \E t \in warmRuns[r].tasks :
    /\ t.pc = "loop"
    /\ Change(r, t, Ends(t, "Error"))
    /\ UNCHANGED <<WarmTables, World, errand, snags>>

\* The provider gets on with it.
RemoteStep(r) ==
    \E t \in warmRuns[r].tasks, st \in {"RUNNING", "SUCCESS", "FAILED"} :
    /\ t.remote \in {"WAITING", "RUNNING"} /\ t.remote # st
    /\ Change(r, t, [t EXCEPT !.remote = st])
    /\ UNCHANGED <<WarmTables, World, errand, snags>>

---------------------------------------------------------------------------
(* Executions over the API.                                                *)

\* requireExecutionInProject, with the policy of that name.
InProject(project, name, r) ==
    /\ houses[project].live
    /\ \E p \in WarmThere : warmPol[p].project = project /\ warmPol[p].name = name /\ r \in VisibleRuns /\ warmRuns[r].pol = p

ListedRuns(project, name) ==
    IF ~houses[project].live THEN {} ELSE UNION {RunsOf(p) : p \in {p \in WarmThere : warmPol[p].project = project /\ warmPol[p].name = name}}

\* requireTaskInProject; a task of another execution is not found.
TaskInProject(project, name, r, t) == InProject(project, name, r) /\ t \in warmRuns[r].tasks
ListedTasks(project, name, r) == IF InProject(project, name, r) THEN warmRuns[r].tasks ELSE {}

\* Policies are shown with the name of their provider, all or none.
PoliciesOf(project) == {p \in WarmThere : warmPol[p].project = project}
ListPolicies(project) == IF \A p \in PoliciesOf(project) : agents[warmPol[p].provider] # NoAgent THEN PoliciesOf(project) ELSE {}

StopExecution(e) ==
    LET r == errand[e].id
        a == errand[e].arg
    IN
    /\ Upon(e, "stop", "new") /\ r \in DOMAIN warmRuns
    /\ Complete(e)
    /\ warmRuns' = IF ~InProject(a.project, a.name, r) THEN warmRuns
                   ELSE [warmRuns EXCEPT ![r].status = IF @ = "Running" /\ warmRuns[r].tasks = {} THEN "Stopped" ELSE @,
                                         ![r].tasks = {IF FinalTask(t) THEN t ELSE [t EXCEPT !.stop = TRUE] : t \in @}]
    /\ UNCHANGED <<WarmTables, World, snags>>

---------------------------------------------------------------------------
(* What happens elsewhere: an instance stops or starts answering; tags,    *)
(* labels and scan results, and the settings of the project, change.       *)

Elsewhere(e) ==
    LET a == errand[e].arg
        i == errand[e].id
    IN
    /\ errand[e].pc = "new" /\ errand[e].op \in {"flip", "ware", "house"}
    /\ Complete(e)
    /\ awake' = IF errand[e].op = "flip" THEN (IF i \in awake THEN awake \ {i} ELSE awake \union {i}) ELSE awake
    /\ wares' = IF errand[e].op = "ware" THEN {x \in wares : x.digest # a.digest} \union {a} ELSE wares
    /\ houses' = IF errand[e].op = "house" THEN [houses EXCEPT ![i] = a] ELSE houses
    /\ UNCHANGED <<agents, warmPol, warmCron, warmRuns, crossing, snags>>

ErrandStep(e) ==
    \/ CreateInstanceCheck(e) \/ CreateInstance(e) \/ DeleteInstanceCheck(e) \/ DeleteInstance(e)
    \/ UpdateInstanceCheck(e) \/ UpdateInstance(e)
    \/ CreatePolicyCheck(e) \/ WritePolicy(e) \/ UpdatePolicyCheck(e) \/ ReplacePolicy(e)
    \/ DeletePolicyCheck(e) \/ RemovePolicy(e) \/ DeletePoliciesOfProject(e)
    \/ EnforceRead(e) \/ EnforceList(e) \/ HandleRead(e) \/ MatchPolicies(e) \/ PickPolicy(e)
    \/ LaunchExecution(e) \/ StartTask(e) \/ CommitEnforce(e) \/ StopExecution(e) \/ Elsewhere(e)

WarmJobStep(r) == JobCheck(r) \/ JobSend(r) \/ JobPoll(r) \/ JobTimeout(r) \/ RemoteStep(r)

WarmNext == (\E e \in Errands : ErrandStep(e)) \/ (\E r \in DOMAIN warmRuns : WarmJobStep(r))

---------------------------------------------------------------------------

\* A task is only for an image that met the security settings its project
\* had when it was chosen: signed if the project asks for it, and scanned
\* with a worst finding below the threshold; and it passes the policy's own
\* filters.
OnlySafe ==
    \A r \in DOMAIN warmRuns : \A t \in warmRuns[r].tasks :
       LET h == warmRuns[r].house
           c == t.cand
       IN /\ h.trust => c.signed
          /\ h.prevent /\ h.sev >= 0 => c.scan = "success" /\ c.worst < h.sev
          /\ warmRuns[r].pl.enabled
          /\ \A k \in DOMAIN warmRuns[r].pl.filters :
                warmRuns[r].pl.filters[k].type \in {"repository", "tag", "label"} => Selected(warmRuns[r].pl.filters[k], c)

\* Unless a request wrote over a row that another had changed since it was
\* read, a policy has the schedule its row says, a policy that is gone has
\* none, and the provider of a policy is there.
SchedulesFollow ==
    \A p \in WarmPolicies \ crossing :
       /\ warmCron[p] = IF p \in WarmThere /\ Scheduled(warmPol[p]) THEN warmPol[p].cron ELSE ""
       /\ p \in WarmThere => agents[warmPol[p].provider] # NoAgent /\ houses[warmPol[p].project].live

\* A task succeeds only when the provider has the image, or was asked to
\* fetch it and said so; an execution without an error has a task for every
\* image chosen.
TellsTruth ==
    \A r \in DOMAIN warmRuns :
       /\ \A t \in warmRuns[r].tasks :
             /\ t.st = "Success" => t.remote \in {"SUCCESS", "other"} /\ t.told \in {"SUCCESS", "accepted", "reported"}
             /\ t.told = "FAIL" => t.st = "Error"
       /\ r \in VisibleRuns /\ InRequest(warmRuns[r].by) => Cardinality(warmRuns[r].tasks) = warmRuns[r].total
       /\ \A s \in DOMAIN warmRuns : s # r => warmRuns[s].by # warmRuns[r].by \/ warmRuns[s].pol # warmRuns[r].pol

\* The executions listed under a policy are the ones that can be read and
\* stopped under it, with the tasks listed under them; and the policies of a
\* project are listed unless one was written while its provider was deleted.
ListedReachable ==
    \A h \in DOMAIN houses :
       /\ ListPolicies(h) = PoliciesOf(h) \/ PoliciesOf(h) \cap crossing # {}
       /\ \A r \in DOMAIN warmRuns : \A n \in {warmPol[p].name : p \in WarmThere} :
             /\ r \in ListedRuns(h, n) <=> InProject(h, n, r)
             /\ \A t \in warmRuns[r].tasks : t \in ListedTasks(h, n, r) <=> TaskInProject(h, n, r, t)

\* Names are kept apart, and an instance is shown as it was asked for.
NamesApart ==
    /\ \A i, k \in AgentsThere : agents[i].name = agents[k].name => i = k
    /\ \A p, k \in WarmThere : warmPol[p].name = warmPol[k].name /\ warmPol[p].project = warmPol[k].project => p = k
    /\ \A e \in Errands : errand[e].op = "newAgent" /\ agents[errand[e].id] # NoAgent /\ (\A f \in Errands : errand[f].op = "setAgent" => errand[f].pc # "over") =>
          convertInstanceToPayload(agents[errand[e].id]) = errand[e].arg

PreheatSound == OnlySafe /\ SchedulesFollow /\ TellsTruth /\ ListedReachable /\ NamesApart
=============================================================================
