---------------------------- MODULE RetentionRun ----------------------------
(***************************************************************************)
(* A retention job: it lists the artifacts of a repository page by page,   *)
(* lets every rule of the policy choose the artifacts to retain, each rule *)
(* in a goroutine that reports over a channel to a collector, and deletes  *)
(* the artifacts nobody retained through core's API, one by one, while     *)
(* users push, delete and protect artifacts of the same repository.        *)
(*                                                                         *)
(* One repository.  Times are small numbers, a pattern is the set of tags  *)
(* it matches.  Artifacts are listed by push time, the latest first.       *)
(***************************************************************************)
EXTENDS Naturals, Sequences, FiniteSets, SequencesExt

CONSTANTS RetDigests,     \* artifacts
          RJobs,       \* retention jobs
          RulesOf,     \* the rules of a job's policy, a sequence
          DryRun,      \* whether a job is a dry run
          PageSize,    \* artifacts per page
          Today,       \* the clock of the rules that count days
          ShortName,   \* whether the immutable rule selects the shortened name
          UserActs     \* "put", "remove", "protect", "stop", "crash", "fault"

NoArtifact == [live |-> FALSE, tags |-> {}, pushed |-> 0, pulled |-> 0]

ASSUME RetAssumption ==
    /\ PageSize \in Nat \ {0} /\ Today \in Nat /\ ShortName \in BOOLEAN
    /\ DryRun \in [RJobs -> BOOLEAN]
    /\ \A j \in RJobs : \A i \in DOMAIN RulesOf[j] :
          LET r == RulesOf[j][i] IN r.n \in Nat /\ r.dec \in {"matches", "excludes", "none"} /\ r.untagged \in BOOLEAN

VARIABLES
    stock,   \* the artifacts of the repository
    shield,  \* the tags an immutable rule of the project protects
    acts,    \* what users may still do
    told,    \* the jobs that were told to stop
    rjob,    \* the jobs
    goneBy   \* history: who deleted an artifact

retVars == <<stock, shield, acts, told, rjob, goneBy>>

NewRun == [pc |-> "new", page |-> 1, cands |-> <<>>, shifted |-> FALSE,
           out |-> <<>>, res |-> <<>>, errc |-> 0, closed |-> FALSE,
           kept |-> {}, heard |-> FALSE, err |-> FALSE, failed |-> {},
           imm |-> {}, at |-> 1, results |-> <<>>]
IdleRun == [NewRun EXCEPT !.pc = "idle"]

RetInit ==
    /\ stock \in [RetDigests -> {NoArtifact, [NoArtifact EXCEPT !.live = TRUE]}]
    /\ shield = {}
    /\ acts = UserActs
    /\ told = {}
    /\ rjob \in [RJobs -> {NewRun, IdleRun}]
    /\ goneBy = [d \in RetDigests |-> "nobody"]

LiveArts == {d \in RetDigests : stock[d].live}
RunFinal == {"idle", "done", "failed", "stopped"}

---------------------------------------------------------------------------
(* The rules.                                                              *)

\* The doublestar selector over tags; a bad pattern is an error for the
\* first artifact with tags.
BadFor(r, c) == r.pat = {"["} /\ c.tags # {}
TagSelectMatch(r, c) == IF c.tags # {} THEN c.tags \cap r.pat # {} ELSE r.untagged
TagSelectExclude(r, c) == IF c.tags # {} THEN c.tags \ r.pat # {} ELSE ~r.untagged
Selects(r, c) == IF r.dec = "matches" THEN TagSelectMatch(r, c) ELSE TagSelectExclude(r, c)

\* The first k of the candidates of I sorted by time: equal times in any order.
ActiveTime(c) == IF c.pulled > c.pushed THEN c.pulled ELSE c.pushed
Foremost(I, k, T(_)) ==
    {S \in SUBSET I : /\ Cardinality(S) = IF k > Cardinality(I) THEN Cardinality(I) ELSE k
                      /\ \A a \in S, b \in I \ S : T(a) >= T(b)}

\* Sorted the other way.
EarliestPushedK(r, cs, I) == LET T(i) == Today - cs[i].pushed IN Foremost(I, r.n, T)

\* The sets of positions of cs that evaluator r may return for the positions I.
LatestPushedK(r, cs, I) == LET T(i) == cs[i].pushed IN Foremost(I, r.n, T)
LatestPulledN(r, cs, I) == LET T(i) == cs[i].pulled IN Foremost(I, r.n, T)
LatestActiveK(r, cs, I) == LET T(i) == ActiveTime(cs[i]) IN Foremost(I, r.n, T)
DaysSincePull(r, cs, I) == {{i \in I : cs[i].pulled + r.n >= Today}}
DaysSincePush(r, cs, I) == {{i \in I : cs[i].pushed + r.n >= Today}}
LastXDays(r, cs, I) == {{i \in I : cs[i].pushed + r.n > Today}}

Templates == {"latestPushedK", "latestPulledN", "latestActiveK", "nDaysSinceLastPull",
              "nDaysSinceLastPush", "lastXDays", "always"}

Evaluate(r, cs, I) ==
    CASE r.template = "latestPushedK" -> LatestPushedK(r, cs, I)
      [] r.template = "latestPulledN" -> LatestPulledN(r, cs, I)
      [] r.template = "latestActiveK" -> LatestActiveK(r, cs, I)
      [] r.template = "nDaysSinceLastPull" -> DaysSincePull(r, cs, I)
      [] r.template = "nDaysSinceLastPush" -> DaysSincePush(r, cs, I)
      [] r.template = "lastXDays" -> LastXDays(r, cs, I)
      [] OTHER -> {I}

Chosen(r, cs) == {i \in DOMAIN cs : Selects(r, cs[i])}
Fails(r, cs) == \E i \in DOMAIN cs : BadFor(r, cs[i])

\* Build: a rule of an unknown template fails the job.
Unbuildable(j) == \E i \in DOMAIN RulesOf[j] : RulesOf[j][i].template \notin Templates

\* A rule without tag selectors is given no evaluator.
Evaluators(j) == {i \in DOMAIN RulesOf[j] : RulesOf[j][i].dec # "none"}

---------------------------------------------------------------------------
(* The job.                                                                *)

Only(j, rec) == rjob' = [rjob EXCEPT ![j] = rec] /\ UNCHANGED <<stock, shield, acts, told, goneBy>>

BeginRun(j) ==
    /\ rjob[j].pc = "new"
    /\ Only(j, [rjob[j] EXCEPT !.pc = IF j \in told THEN "stopped" ELSE "list"])

\* The artifacts by push time, the latest first.
Listing == SortSeq(SetToSeq(LiveArts), LAMBDA a, b : stock[a].pushed > stock[b].pushed)

Candidate(d) == [d |-> d, tags |-> stock[d].tags, pushed |-> stock[d].pushed, pulled |-> stock[d].pulled]

\* GetCandidates: one page; another one follows while the total says so.
ListPage(j) ==
    LET q == rjob[j]
        from == (q.page - 1) * PageSize
        page == [i \in {i \in 1 .. PageSize : from + i <= Len(Listing)} |-> Candidate(Listing[from + i])]
        cs == q.cands \o page
        more == Len(Listing) > q.page * PageSize
    IN
    /\ q.pc = "list"
    /\ Only(j, [q EXCEPT !.cands = cs, !.page = @ + 1, !.pc = IF more THEN "list" ELSE "build"])

\* The processor is built, the stop command looked for a second time, and
\* the goroutines started.  Without candidates there is nothing to do.
BuildProcessor(j) ==
    LET q == rjob[j] IN
    /\ q.pc = "build"
    /\ Only(j, [q EXCEPT !.pc = CASE Unbuildable(j) -> "failed"
                                  [] j \in told -> "stopped"
                                  [] q.cands = <<>> -> "report"
                                  [] OTHER -> "eval",
                         !.out = [i \in DOMAIN RulesOf[j] |-> IF i \in Evaluators(j) THEN "todo" ELSE "done"]])

\* The goroutine of rule i selects, evaluates and sends; a full channel blocks.
EvalRule(j, i) ==
    LET q == rjob[j]
        r == RulesOf[j][i]
    IN
    /\ q.pc = "eval" /\ q.out[i] = "todo"
    /\ \/ /\ Fails(r, q.cands) /\ q.errc = 0
          /\ Only(j, [q EXCEPT !.out[i] = "done", !.errc = 1, !.failed = @ \union {i}])
       \/ /\ ~Fails(r, q.cands) /\ q.res = <<>>
          /\ \E I \in Evaluate(r, q.cands, Chosen(r, q.cands)) :
                Only(j, [q EXCEPT !.out[i] = "done", !.res = <<{q.cands[p].d : p \in I}>>])

\* wg.Wait() and close(resChan)
CloseResults(j) ==
    LET q == rjob[j] IN
    /\ q.pc = "eval" /\ ~q.closed /\ \A i \in DOMAIN q.out : q.out[i] = "done"
    /\ Only(j, [q EXCEPT !.closed = TRUE])

\* A collector that returns at the first error.
CollectToError(j) ==
    LET q == rjob[j] IN
    /\ q.pc = "eval"
    /\ \/ /\ ~q.err /\ q.res # <<>>
          /\ Only(j, [q EXCEPT !.kept = @ \union Head(q.res), !.heard = TRUE, !.res = <<>>])
       \/ /\ ~q.err /\ q.errc = 1
          /\ Only(j, [q EXCEPT !.err = TRUE, !.errc = 0])
       \/ /\ q.closed /\ (q.err \/ q.res = <<>>)
          /\ Only(j, [q EXCEPT !.pc = "perform"])

\* The collector: select takes a result or an error, whatever is ready, and
\* the collector returns when it receives from the closed channel.
CollectResult(j) ==
    LET q == rjob[j] IN
    /\ q.pc = "eval"
    /\ \/ /\ q.res # <<>>
          /\ Only(j, [q EXCEPT !.kept = @ \union Head(q.res), !.heard = TRUE, !.res = <<>>])
       \/ /\ q.errc = 1
          /\ Only(j, [q EXCEPT !.err = TRUE, !.errc = 0])
       \/ /\ q.closed /\ q.res = <<>>
          /\ Only(j, [q EXCEPT !.pc = "perform"])

\* isImmutable: the rule matcher is asked with the name shortened once more.
IsImmutable(c) == ShortName /\ c.tags \cap shield # {}

\* Process after <-done, and the first loop of retainAction.Perform.
Perform(j) ==
    LET q == rjob[j] IN
    /\ q.pc = "perform"
    /\ Only(j, IF q.err THEN [q EXCEPT !.pc = "failed"]
               ELSE IF ~q.heard THEN [q EXCEPT !.pc = "report"]
               ELSE [q EXCEPT !.pc = "delete",
                              !.imm = {i \in DOMAIN q.cands : q.cands[i].d \notin q.kept /\ IsImmutable(q.cands[i])}])

\* Only the job looks for immutable tags.
CanEraseAnyway(d) == stock[d].live

\* DELETE of an artifact in core: every tag is looked at for immutability.
CanErase(d) == stock[d].live /\ stock[d].tags \cap shield = {}

Erased(d) == [stock EXCEPT ![d] = NoArtifact]

\* A loop that reports what it asked for, whatever the answer.
DeleteBlindly(j) ==
    LET q == rjob[j]
        c == q.cands[q.at]
        note(what) == [q EXCEPT !.at = @ + 1, !.results = Append(@, [d |-> c.d, what |-> what])]
    IN
    /\ q.pc = "delete" /\ q.at <= Len(q.cands)
    /\ IF c.d \in q.kept THEN Only(j, [q EXCEPT !.at = @ + 1])
       ELSE IF ~CanErase(c.d) \/ DryRun[j] THEN Only(j, note("deleted"))
       ELSE /\ rjob' = [rjob EXCEPT ![j] = note("deleted")]
            /\ stock' = Erased(c.d)
            /\ goneBy' = [goneBy EXCEPT ![c.d] = j]
            /\ UNCHANGED <<shield, acts, told>>

\* The second loop: one candidate.
DeleteNext(j) ==
    LET q == rjob[j]
        c == q.cands[q.at]
        note(what) == [q EXCEPT !.at = @ + 1, !.results = Append(@, [d |-> c.d, what |-> what])]
    IN
    /\ q.pc = "delete" /\ q.at <= Len(q.cands)
    /\ CASE c.d \in q.kept -> Only(j, [q EXCEPT !.at = @ + 1])
         [] c.d \notin q.kept /\ \E i \in q.imm : q.cands[i].d = c.d -> Only(j, note("immutable"))
         [] OTHER ->
              \/ DryRun[j] /\ Only(j, note("deleted"))
              \/ ~DryRun[j] /\ ~CanErase(c.d) /\ Only(j, note("error"))
              \/ /\ ~DryRun[j] /\ "fault" \in acts /\ CanErase(c.d)
                 /\ rjob' = [rjob EXCEPT ![j] = note("error")]
                 /\ acts' = acts \ {"fault"}
                 /\ UNCHANGED <<stock, shield, told, goneBy>>
              \/ /\ ~DryRun[j] /\ CanErase(c.d)
                 /\ rjob' = [rjob EXCEPT ![j] = note("deleted")]
                 /\ stock' = Erased(c.d)
                 /\ goneBy' = [goneBy EXCEPT ![c.d] = j]
                 /\ UNCHANGED <<shield, acts, told>>

\* refreshQuota, and the check-in with the numbers.
Report(j) ==
    LET q == rjob[j] IN
    /\ q.pc = "report" \/ (q.pc = "delete" /\ q.at > Len(q.cands))
    /\ Only(j, [q EXCEPT !.pc = "done"])

JobStep(j) == \/ BeginRun(j) \/ ListPage(j) \/ BuildProcessor(j) \/ CloseResults(j) \/ CollectResult(j)
              \/ \E i \in DOMAIN rjob[j].out : EvalRule(j, i)
              \/ Perform(j) \/ DeleteNext(j) \/ Report(j)

---------------------------------------------------------------------------
(* Users, and the rest of jobservice.                                      *)

Listings(j) == rjob[j].pc = "list" /\ rjob[j].page > 1
Shifting == [j \in RJobs |-> [rjob[j] EXCEPT !.shifted = @ \/ Listings(j)]]

\* An artifact is pushed: the latest of all.
PushArtifact(d) ==
    /\ "put" \in acts /\ ~stock[d].live /\ goneBy[d] = "nobody"
    /\ stock' = [stock EXCEPT ![d] = [live |-> TRUE, tags |-> {"v1"}, pushed |-> Today, pulled |-> 0]]
    /\ acts' = acts \ {"put"} /\ rjob' = Shifting
    /\ UNCHANGED <<shield, told, goneBy>>

UserDelete(d) ==
    /\ "remove" \in acts /\ CanErase(d)
    /\ stock' = Erased(d) /\ goneBy' = [goneBy EXCEPT ![d] = "user"]
    /\ acts' = acts \ {"remove"} /\ rjob' = Shifting
    /\ UNCHANGED <<shield, told>>

Protect ==
    /\ "protect" \in acts
    /\ shield' = {"v1"} /\ acts' = acts \ {"protect"}
    /\ UNCHANGED <<stock, told, rjob, goneBy>>

Tell(j) ==
    /\ "stop" \in acts /\ rjob[j].pc \notin RunFinal
    /\ told' = told \union {j} /\ acts' = acts \ {"stop"}
    /\ UNCHANGED <<stock, shield, rjob, goneBy>>

\* The job is lost with its worker and run again from the start.
Rerun(j) ==
    /\ "crash" \in acts /\ rjob[j].pc \notin RunFinal
    /\ rjob' = [rjob EXCEPT ![j] = NewRun] /\ acts' = acts \ {"crash"}
    /\ UNCHANGED <<stock, shield, told, goneBy>>

RetNext == \/ \E j \in RJobs : JobStep(j) \/ Tell(j) \/ Rerun(j)
           \/ \E d \in RetDigests : PushArtifact(d) \/ UserDelete(d)
           \/ Protect

RetSpec == RetInit /\ [][RetNext]_retVars

---------------------------------------------------------------------------
(* Properties.                                                             *)

Reported(j) == {rjob[j].results[i].d : i \in {k \in DOMAIN rjob[j].results : rjob[j].results[k].what = "deleted"}}

\* What a rule retains of the listed artifacts, by its meaning: an artifact is
\* given up by a rule that counts only when enough others are at least as
\* recent, and by a rule over days only when it is too old.
GivenUp(r, cs, i) ==
    \/ ~Selects(r, cs[i])
    \/ LET others(T(_)) == Cardinality({cs[k].d : k \in {k \in Chosen(r, cs) : cs[k].d # cs[i].d /\ T(k) >= T(i)}})
           pushed(k) == cs[k].pushed
           pulled(k) == cs[k].pulled
           active(k) == ActiveTime(cs[k])
       IN CASE r.template = "latestPushedK" -> others(pushed) >= r.n
            [] r.template = "latestPulledN" -> others(pulled) >= r.n
            [] r.template = "latestActiveK" -> others(active) >= r.n
            [] r.template = "nDaysSinceLastPull" -> Today - cs[i].pulled > r.n
            [] r.template = "nDaysSinceLastPush" -> Today - cs[i].pushed > r.n
            [] r.template = "lastXDays" -> Today - cs[i].pushed >= r.n
            [] OTHER -> FALSE

\* What a job deletes, or would delete in a dry run, no rule of its policy
\* retains, if no rule failed and the repository did not change between two
\* pages of the listing (or.processor.Process, retainAction.Perform).
RuleHonoured ==
    \A j \in RJobs : rjob[j].failed = {} /\ ~rjob[j].shifted =>
        \A i \in DOMAIN rjob[j].cands : rjob[j].cands[i].d \in Reported(j) =>
            \A k \in Evaluators(j) : GivenUp(RulesOf[j][k], rjob[j].cands, i)

\* The numbers a job reports are true: what it reports as deleted was deleted
\* by its own requests and nobody else's, also when two jobs and a user work
\* on the repository, and a dry run deletes nothing (saveRetainNum).
ReportTrue ==
    \A j \in RJobs : IF DryRun[j] THEN \A d \in RetDigests : goneBy[d] # j
                     ELSE \A d \in Reported(j) : goneBy[d] = j

\* A job whose goroutines work is never stuck: no goroutine waits for a
\* channel nobody reads, and the collector returns (or.processor.Process).
NeverStuck == \A j \in RJobs : rjob[j].pc \notin RunFinal => ENABLED JobStep(j)

\* No artifact is deleted while an immutable rule protects one of its tags,
\* also when the rule comes after the job looked for it.
ShieldKept == [][\A d \in RetDigests : stock[d].live /\ ~stock'[d].live => stock[d].tags \cap shield = {}]_retVars

\* An error of a rule is an error of the job: it deletes nothing.
ErrorReported == \A j \in RJobs : rjob[j].failed # {} => rjob[j].pc \notin {"delete", "report", "done"}

\* A retention job deletes what its rules say and says what it deleted, and
\* comes to an end, whatever its goroutines and the users do meanwhile.
RetentionSound ==
    /\ RuleHonoured
    /\ ReportTrue
    /\ NeverStuck
=============================================================================
