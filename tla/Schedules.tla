----------------------------- MODULE Schedules -----------------------------
(***************************************************************************)
(* Periodic schedules: core keeps a row per schedule (with its execution   *)
(* and task, written and deleted with it), jobservice keeps a policy per   *)
(* schedule in Redis, puts the executions of the policies in a queue ahead *)
(* of time and runs them, and every run checks in at core, which calls the *)
(* function registered for the schedule.  An API request works in one      *)
(* database transaction, but what it asks jobservice to do is done when    *)
(* the transaction rolls back.  jobservice compares its policies with      *)
(* core's rows when it starts.                                             *)
(*                                                                         *)
(* A schedule is named after the request that creates it.  One tick of the *)
(* clock is the distance of two executions, and the enqueuer looks one     *)
(* tick ahead.  The revision of a record is the time it was saved, in half *)
(* ticks: the first execution of a schedule is saved before its policy,    *)
(* the other executions after it.                                          *)
(***************************************************************************)
EXTENDS Naturals, FiniteSets

CONSTANTS
    SchedRequests,    \* API requests
    Old,         \* a schedule that exists at the start
    Vendor,      \* the vendor a schedule belongs to
    Op,          \* "create", "set" or "none": what a request asks for
    BadCron,     \* the requests whose cron string is refused
    Scores,      \* scores of policies in the sorted set, non-zero
    MaxTicks,    \* bound on the clock
    MaxMishaps    \* bound on failed callbacks and repeated hooks

Ids == SchedRequests \union {Old}

ASSUME SchedAssumption ==
    /\ Old \notin SchedRequests /\ "none" \notin Ids
    /\ Scores \subseteq Nat \ {0}
    /\ MaxTicks \in Nat /\ MaxMishaps \in Nat

VARIABLES
    srow,       \* the committed schedule, task status included
    sreq,       \* the requests
    policies,  \* score of the policy of a schedule in Redis, 0 when absent
    stats,     \* record of the periodic job: score, 0 when absent, revision
    run,       \* record of the execution of a schedule at a tick
    queue,     \* the executions in the queue of scheduled jobs
    enq,       \* the enqueuer: policies still to handle, and the one picked
    checkins,  \* check-in hooks to be delivered
    cb,        \* the check-in whose transaction holds the row of a schedule
    sync,      \* jobservice's comparison with core's rows
    now,
    mishaps,
    fired,     \* executions whose callback ran, in order of commit
    late,      \* executions put in the queue again after they were due
    disturbed  \* jobservice and core have been left different

schedVars == <<srow, sreq, policies, stats, run, queue, enq, checkins, cb, sync,
               now, mishaps, fired, late, disturbed>>

Ticks == 1 .. MaxTicks
NoSchedule == [there |-> FALSE, status |-> "Pending", srev |-> 0, rev |-> 0]
NoSync == [pc |-> "idle", listed |-> {}, loaded |-> {}, clean |-> TRUE]
NoPick == [id |-> "none", tick |-> 0]
NoHook == [id |-> "none", tick |-> 0, at |-> 0]
NoRun == [status |-> "none", rev |-> 0]
PeriodicFinal(s) == s \in {"Success", "Stopped"}

\* A request that waits to be made, and one that is over.
New == [pc |-> "new", prev |-> "none", marked |-> FALSE, pid |-> 0]
Gone == [New EXCEPT !.pc = "done"]

SchedInit ==
    /\ srow = [i \in Ids |-> IF i = Old THEN [NoSchedule EXCEPT !.there = TRUE] ELSE NoSchedule]
    /\ sreq \in [SchedRequests -> {New, Gone}]
    /\ policies \in [Ids -> Scores \union {0}]
    /\ \A i \in Ids : (policies[i] # 0) = (i = Old)
    /\ stats = [i \in Ids |-> [score |-> policies[i], rev |-> IF i = Old THEN 1 ELSE 0]]
    /\ run = [i \in Ids |-> [e \in Ticks |-> NoRun]]
    /\ queue = {}
    /\ enq = [todo |-> {}, pick |-> NoPick]
    /\ checkins = {}
    /\ cb = [i \in Ids |-> NoHook]
    /\ sync \in {NoSync, [NoSync EXCEPT !.pc = "over"]}
    /\ now \in 0 .. MaxTicks
    /\ mishaps = 0
    /\ fired = [i \in Ids |-> [e \in Ticks |-> 0]]
    /\ late = {}
    /\ disturbed = FALSE

---------------------------------------------------------------------------
(* The database.                                                           *)

\* The rows a request has deleted and has not committed yet.
DeletesRow(r) == IF sreq[r].pc \in {"insert", "submit", "save", "commit"} /\ sreq[r].prev # "none"
              THEN {sreq[r].prev} ELSE {}
InsertsRow(r) == IF sreq[r].pc \in {"submit", "save", "commit"} /\ Op[r] # "none"
              THEN {r} ELSE {}
LockedRow(i) == \E r \in SchedRequests : i \in DeletesRow(r)

\* A status hook: the conditional UPDATE of the task.
UpdateStatus(t, s, v) ==
    IF t.there /\ (t.srev < v \/ (t.srev = v /\ ~PeriodicFinal(t.status) /\ t.status # s))
    THEN [t EXCEPT !.status = s, !.srev = v] ELSE t

\* What several hooks make of a task: the one of the highest revision
\* prevails, or they are lost.
Prevailing(t, s, V) ==
    {t} \union {UpdateStatus(t, s, v) : v \in {x \in V : \A w \in V : w <= x}}

---------------------------------------------------------------------------
(* jobservice.                                                             *)

\* scheduleNextJobs: the record of the execution at e.
Queued(i, e, v) == [run EXCEPT ![i][e] = [status |-> "Scheduled", rev |-> v]]

\* The executions UnSchedule stops, and the ones it takes from the queue.
StoppableRun(i) == {e \in Ticks : run[i][e].status \in {"Scheduled", "Running"}}
Stopping(i) == [run EXCEPT ![i] = [e \in Ticks |->
                   IF e \in StoppableRun(i) THEN [run[i][e] EXCEPT !.status = "Stopped"]
                   ELSE run[i][e]]]

\* locatePolicy: the score in the record, or else in the list of policies.
Located(i) == IF stats[i].score # 0 THEN stats[i].score ELSE policies[i]

\* ZREMRANGEBYSCORE takes every policy of the score.
RemoveScore(s) == [i \in Ids |-> IF policies[i] = s THEN 0 ELSE policies[i]]

---------------------------------------------------------------------------
(* A request.                                                              *)

Step(r, l) == sreq' = [sreq EXCEPT ![r].pc = l]

\* The handler reads the vendor's schedule; without anything to do it
\* answers at once.  A created schedule must not exist yet.
BeginRequest(r) ==
    LET old == {i \in Ids : srow[i].there /\ Vendor[i] = Vendor[r]}
        prev == IF old = {} THEN "none" ELSE CHOOSE i \in old : TRUE
    IN
    /\ sreq[r].pc = "new"
    /\ sreq' = [sreq EXCEPT ![r] =
                  IF old = {} THEN IF Op[r] = "none" THEN Gone ELSE [New EXCEPT !.pc = "insert"]
                  ELSE IF Op[r] = "create" THEN Gone ELSE [New EXCEPT !.pc = "stop", !.prev = prev]]
    /\ sync' = [sync EXCEPT !.clean = FALSE]
    /\ UNCHANGED <<srow, policies, stats, run, queue, enq, checkins, cb, now,
                   mishaps, fired, late, disturbed>>

\* UnSchedule in jobservice stops the periodic job and its executions, and
\* their hooks set the task's status unless they are lost.  A job jobservice
\* does not know is marked as stopped by core itself.
StopExecutions(r) ==
    LET i == sreq[r].prev
        revs == {run[i][e].rev : e \in StoppableRun(i)}
                \union (IF stats[i].score # 0 THEN {stats[i].rev} ELSE {})
    IN
    /\ sreq[r].pc = "stop"
    /\ ~LockedRow(i)
    /\ IF Located(i) = 0
       THEN /\ sreq' = [sreq EXCEPT ![r].pc = "wait", ![r].marked = TRUE]
            /\ UNCHANGED <<srow, run, queue>>
       ELSE /\ Step(r, "remove")
            /\ run' = Stopping(i)
            /\ queue' = queue \ {<<i, e>> : e \in StoppableRun(i)}
            /\ \E t \in Prevailing(srow[i], "Stopped", revs) : srow' = [srow EXCEPT ![i] = t]
    /\ UNCHANGED <<policies, stats, enq, checkins, cb, sync, now, mishaps, fired,
                   late, disturbed>>

\* ... and removes the policy by its score.
RemovePolicy(r) ==
    LET i == sreq[r].prev IN
    /\ sreq[r].pc = "remove"
    /\ policies' = RemoveScore(Located(i))
    /\ disturbed' = \/ disturbed
                    \/ policies' # [policies EXCEPT ![i] = 0]
    /\ Step(r, "wait")
    /\ UNCHANGED <<srow, stats, run, queue, enq, checkins, cb, sync, now, mishaps,
                   fired, late>>

\* StopAndWait polls the execution; after ten seconds it gives up waiting.
WaitFinal(r) ==
    /\ sreq[r].pc = "wait"
    /\ Step(r, "delete")
    /\ UNCHANGED <<srow, policies, stats, run, queue, enq, checkins, cb, sync,
                   now, mishaps, fired, late, disturbed>>

\* A request that fails rolls back; what it did in jobservice stays.
FailRequest(r) ==
    /\ sreq[r].pc \notin {"new", "done"}
    /\ sreq' = [sreq EXCEPT ![r] = Gone]
    /\ disturbed' = \/ disturbed
                    \/ sreq[r].prev # "none" /\ sreq[r].pc # "stop"
                    \/ sreq[r].pc \in {"save", "commit"}
    /\ UNCHANGED <<srow, policies, stats, run, queue, enq, checkins, cb, sync,
                   now, mishaps, fired, late>>

\* A deletion that does not wait for the callback's transaction.
DeleteRowUnlocked(r) ==
    LET i == sreq[r].prev IN
    /\ sreq[r].pc = "delete"
    /\ srow[i].there /\ (sreq[r].marked \/ PeriodicFinal(srow[i].status))
    /\ ~LockedRow(i)
    /\ Step(r, IF Op[r] = "none" THEN "commit" ELSE "insert")
    /\ UNCHANGED <<srow, policies, stats, run, queue, enq, checkins, cb, sync,
                   now, mishaps, fired, late, disturbed>>

\* Delete refuses an execution whose task is not final; a row that another
\* request has deleted meanwhile is not found; the row of a schedule whose
\* callback is running is waited for.
DeleteRow(r) ==
    LET i == sreq[r].prev IN
    /\ sreq[r].pc = "delete"
    /\ srow[i].there /\ (sreq[r].marked \/ PeriodicFinal(srow[i].status))
    /\ cb[i] = NoHook /\ ~LockedRow(i)
    /\ Step(r, IF Op[r] = "none" THEN "commit" ELSE "insert")
    /\ UNCHANGED <<srow, policies, stats, run, queue, enq, checkins, cb, sync,
                   now, mishaps, fired, late, disturbed>>

\* Schedule checks the cron string and inserts the row; the unique key makes
\* it wait for a transaction that inserts or deletes a row of the vendor.
InsertRow(r) ==
    /\ sreq[r].pc = "insert"
    /\ r \notin BadCron
    /\ \A o \in SchedRequests \ {r} : Vendor[o] = Vendor[r] =>
          InsertsRow(o) = {} /\ DeletesRow(o) = {}
    /\ \A i \in Ids \ DeletesRow(r) : ~(srow[i].there /\ Vendor[i] = Vendor[r])
    /\ Step(r, "submit")
    /\ UNCHANGED <<srow, policies, stats, run, queue, enq, checkins, cb, sync,
                   now, mishaps, fired, late, disturbed>>

\* The submitted job: the next execution first, then the policy, under a
\* score drawn from ten.
SubmitPolicy(r) ==
    /\ sreq[r].pc = "submit"
    /\ \E s \in Scores :
         /\ policies' = [policies EXCEPT ![r] = s]
         /\ sreq' = [sreq EXCEPT ![r].pc = "save", ![r].pid = s]
    /\ IF now < MaxTicks
       THEN /\ run' = Queued(r, now + 1, 2 * now + 1)
            /\ queue' = queue \union {<<r, now + 1>>}
       ELSE UNCHANGED <<run, queue>>
    /\ UNCHANGED <<srow, stats, enq, checkins, cb, sync, now, mishaps, fired, late,
                   disturbed>>

\* SaveJob: the record of the periodic job, with the score.
SavePolicy(r) ==
    /\ sreq[r].pc = "save"
    /\ stats' = [stats EXCEPT ![r] = [score |-> sreq[r].pid, rev |-> 2 * now + 2]]
    /\ sreq' = [sreq EXCEPT ![r].pc = "commit", ![r].pid = 0]
    /\ UNCHANGED <<srow, policies, run, queue, enq, checkins, cb, sync, now,
                   mishaps, fired, late, disturbed>>

CommitRequest(r) ==
    /\ sreq[r].pc = "commit"
    /\ srow' = [i \in Ids |->
                  IF i \in DeletesRow(r) THEN NoSchedule
                  ELSE IF i \in InsertsRow(r) THEN [NoSchedule EXCEPT !.there = TRUE] ELSE srow[i]]
    /\ sreq' = [sreq EXCEPT ![r] = Gone]
    /\ disturbed' = (disturbed \/ (InsertsRow(r) # {} /\ policies[r] = 0))
    /\ UNCHANGED <<policies, stats, run, queue, enq, checkins, cb, sync, now,
                   mishaps, fired, late>>

---------------------------------------------------------------------------
(* The enqueuer and the runs.                                              *)

\* A turn of the enqueuer reads the policies.
LoadPolicies ==
    /\ enq.todo = {} /\ enq.pick = NoPick
    /\ \E i \in Ids : policies[i] # 0 /\ now < MaxTicks /\ run[i][now + 1] = NoRun
    /\ enq' = [enq EXCEPT !.todo = {i \in Ids : policies[i] # 0}]
    /\ UNCHANGED <<srow, sreq, policies, stats, run, queue, checkins, cb, sync, now,
                   mishaps, fired, late, disturbed>>

\* For one policy it takes the time and computes the next execution, ...
NextExecution(i) ==
    /\ i \in enq.todo /\ enq.pick = NoPick
    /\ enq' = [todo |-> enq.todo \ {i},
               pick |-> IF now < MaxTicks THEN [id |-> i, tick |-> now + 1] ELSE NoPick]
    /\ UNCHANGED <<srow, sreq, policies, stats, run, queue, checkins, cb, sync, now,
                   mishaps, fired, late, disturbed>>

\* ... and saves it over whatever record the execution has.
ScheduleNextJobs ==
    LET i == enq.pick.id  e == enq.pick.tick IN
    /\ enq.pick # NoPick
    /\ run' = Queued(i, e, 2 * now + 3)
    /\ queue' = queue \union {<<i, e>>}
    /\ late' = IF e <= now THEN late \union {<<i, e>>} ELSE late
    /\ enq' = [enq EXCEPT !.pick = NoPick]
    /\ UNCHANGED <<srow, sreq, policies, stats, checkins, cb, sync, now, mishaps,
                   fired, disturbed>>

\* An execution that is due is taken from the queue.  A stopped one ends at
\* once; the others report that they run, and check in.
RunExecution(i, e) ==
    /\ <<i, e>> \in queue /\ e <= now
    /\ queue' = queue \ {<<i, e>>}
    /\ IF PeriodicFinal(run[i][e].status)
       THEN UNCHANGED <<srow, run, checkins>>
       ELSE /\ ~LockedRow(i)
            /\ run' = [run EXCEPT ![i][e].status = "Running"]
            /\ srow' = [srow EXCEPT ![i] = UpdateStatus(@, "Running", run[i][e].rev)]
            /\ checkins' = checkins \union {[id |-> i, tick |-> e, at |-> now]}
    /\ UNCHANGED <<sreq, policies, stats, enq, cb, sync, now, mishaps, fired, late,
                   disturbed>>

EndExecution(i, e) ==
    /\ run[i][e].status = "Running"
    /\ ~LockedRow(i)
    /\ run' = [run EXCEPT ![i][e].status = "Success"]
    /\ srow' = [srow EXCEPT ![i] = UpdateStatus(@, "Success", run[i][e].rev)]
    /\ UNCHANGED <<sreq, policies, stats, queue, enq, checkins, cb, sync, now,
                   mishaps, fired, late, disturbed>>

Tick ==
    /\ now < MaxTicks
    /\ now' = now + 1
    /\ UNCHANGED <<srow, sreq, policies, stats, run, queue, enq, checkins, cb, sync,
                   mishaps, fired, late, disturbed>>

---------------------------------------------------------------------------
(* A check-in at core: a transaction that first raises the revision of the *)
(* schedule to the time of the check-in, then runs the callback.           *)

\* Without a row, or with the revision reached, the hook is answered and
\* nothing is done.
TriggerCallback(h) ==
    /\ h \in checkins
    /\ cb[h.id] = NoHook /\ ~LockedRow(h.id)
    /\ IF srow[h.id].there /\ srow[h.id].rev < h.at
       THEN cb' = [cb EXCEPT ![h.id] = h] /\ UNCHANGED checkins
       ELSE checkins' = checkins \ {h} /\ UNCHANGED cb
    /\ UNCHANGED <<srow, sreq, policies, stats, run, queue, enq, sync, now, mishaps,
                   fired, late, disturbed>>

\* The callback returns and the transaction commits; the answer may be lost,
\* and then the hook agent sends the hook again.
CommitCallback(i) ==
    \E again \in BOOLEAN : LET h == cb[i] IN
      /\ h # NoHook
      /\ again => mishaps < MaxMishaps
      /\ srow' = [srow EXCEPT ![i].rev = IF srow[i].there THEN h.at ELSE @]
      /\ fired' = [fired EXCEPT ![i][h.tick] = @ + 1]
      /\ cb' = [cb EXCEPT ![i] = NoHook]
      /\ checkins' = IF again THEN checkins ELSE checkins \ {h}
      /\ mishaps' = IF again THEN mishaps + 1 ELSE mishaps
      /\ UNCHANGED <<sreq, policies, stats, run, queue, enq, sync, now, late,
                     disturbed>>

\* The callback fails: the revision is rolled back and the hook sent again.
FailCallback(i) ==
    /\ cb[i] # NoHook /\ mishaps < MaxMishaps
    /\ cb' = [cb EXCEPT ![i] = NoHook]
    /\ mishaps' = mishaps + 1
    /\ UNCHANGED <<srow, sreq, policies, stats, run, queue, enq, checkins, sync,
                   now, fired, late, disturbed>>

---------------------------------------------------------------------------
(* jobservice starts: with or without the contents of Redis.               *)

Restart ==
    /\ sync.pc = "idle"
    /\ sync' = [sync EXCEPT !.pc = "list"]
    /\ \E wiped \in BOOLEAN :
         IF wiped
         THEN /\ policies' = [i \in Ids |-> 0]
              /\ stats' = [i \in Ids |-> [score |-> 0, rev |-> 0]]
              /\ run' = [i \in Ids |-> [e \in Ticks |-> NoRun]]
              /\ queue' = {} /\ disturbed' = TRUE
         ELSE UNCHANGED <<policies, stats, run, queue, disturbed>>
    /\ enq' = [todo |-> {}, pick |-> NoPick]
    /\ UNCHANGED <<srow, sreq, checkins, cb, now, mishaps, fired, late>>

\* The committed schedules first; without any the comparison is over.
ListSchedules ==
    LET S == {i \in Ids : srow[i].there} IN
    /\ sync.pc = "list"
    /\ sync' = [sync EXCEPT !.pc = IF S = {} THEN "over" ELSE "load", !.listed = S,
                            !.clean = \A r \in SchedRequests : sreq[r].pc \in {"new", "done"}]
    /\ UNCHANGED <<srow, sreq, policies, stats, run, queue, enq, checkins, cb, now,
                   mishaps, fired, late, disturbed>>

SyncLoad ==
    /\ sync.pc = "load"
    /\ sync' = [sync EXCEPT !.pc = "work", !.loaded = {i \in Ids : policies[i] # 0}]
    /\ UNCHANGED <<srow, sreq, policies, stats, run, queue, enq, checkins, cb, now,
                   mishaps, fired, late, disturbed>>

\* A comparison that gives up a schedule whose record it cannot write.
RestoreRecorded(i) ==
    /\ sync.pc = "work" /\ i \in sync.listed \ sync.loaded
    /\ \E s \in Scores :
         IF srow[i].srev # 0 THEN UNCHANGED <<policies, stats>>
         ELSE /\ policies' = [policies EXCEPT ![i] = s]
              /\ stats' = [stats EXCEPT ![i] = [score |-> s, rev |-> 2 * now + 2]]
    /\ sync' = [sync EXCEPT !.listed = @ \ {i}]
    /\ UNCHANGED <<srow, sreq, run, queue, enq, checkins, cb, now, mishaps, fired,
                   late, disturbed>>

\* A listed schedule without a policy gets one.  Its record is only written
\* when the task has no revision: the acknowledgement that is saved with a
\* revision has no value, and Redis refuses the whole command.
RestorePolicy(i) ==
    /\ sync.pc = "work" /\ i \in sync.listed \ sync.loaded
    /\ \E s \in Scores :
         /\ policies' = [policies EXCEPT ![i] = s]
         /\ stats' = IF srow[i].srev # 0 THEN stats
                     ELSE [stats EXCEPT ![i] = [score |-> s, rev |-> 2 * now + 2]]
    /\ IF now < MaxTicks
       THEN /\ run' = Queued(i, now + 1, 2 * now + 3)
            /\ queue' = queue \union {<<i, now + 1>>}
       ELSE UNCHANGED <<run, queue>>
    /\ sync' = [sync EXCEPT !.listed = @ \ {i}]
    /\ UNCHANGED <<srow, sreq, enq, checkins, cb, now, mishaps, fired, late, disturbed>>

\* A loaded policy without a schedule is unscheduled, once all are restored.
ClearPolicy(i) ==
    /\ sync.pc = "work" /\ sync.listed \ sync.loaded = {}
    /\ i \in sync.loaded \ sync.listed
    /\ run' = Stopping(i)
    /\ queue' = queue \ {<<i, e>> : e \in StoppableRun(i)}
    /\ policies' = IF Located(i) = 0 THEN policies ELSE RemoveScore(Located(i))
    /\ sync' = [sync EXCEPT !.loaded = @ \ {i},
                            !.clean = @ /\ policies' = [policies EXCEPT ![i] = 0]]
    /\ UNCHANGED <<srow, sreq, stats, enq, checkins, cb, now, mishaps, fired, late,
                   disturbed>>

\* A comparison no request came across is to leave both sides the same.
EndSync ==
    /\ sync.pc = "work"
    /\ sync.listed \ sync.loaded = {} /\ sync.loaded \ sync.listed = {}
    /\ disturbed' = ~sync.clean
    /\ sync' = [NoSync EXCEPT !.pc = "over"]
    /\ UNCHANGED <<srow, sreq, policies, stats, run, queue, enq, checkins, cb, now,
                   mishaps, fired, late>>

SchedNext ==
    \/ \E r \in SchedRequests :
         \/ BeginRequest(r) \/ StopExecutions(r) \/ RemovePolicy(r) \/ WaitFinal(r)
         \/ DeleteRow(r) \/ InsertRow(r) \/ SubmitPolicy(r) \/ SavePolicy(r)
         \/ CommitRequest(r) \/ FailRequest(r)
    \/ LoadPolicies \/ ScheduleNextJobs \/ Tick
    \/ \E i \in Ids : NextExecution(i) \/ CommitCallback(i) \/ FailCallback(i)
                      \/ RestorePolicy(i) \/ ClearPolicy(i)
    \/ \E i \in Ids, e \in Ticks : RunExecution(i, e) \/ EndExecution(i, e)
    \/ \E h \in checkins : TriggerCallback(h)
    \/ Restart \/ ListSchedules \/ SyncLoad \/ EndSync

SchedSpec == SchedInit /\ [][SchedNext]_schedVars

---------------------------------------------------------------------------
(* Properties.                                                             *)

\* Rows, policies, executions and requests keep their shapes.
SchedTypeOK ==
    /\ srow \in [Ids -> [there : BOOLEAN, status : {"Pending", "Running", "Success", "Stopped"},
                        srev : Nat, rev : 0 .. MaxTicks]]
    /\ sreq \in [SchedRequests -> [pc : {"new", "stop", "remove", "wait", "delete", "insert",
                                    "submit", "save", "commit", "done"},
                             prev : Ids \union {"none"}, marked : BOOLEAN,
                             pid : Scores \union {0}]]
    /\ policies \in [Ids -> Scores \union {0}]
    /\ queue \subseteq Ids \X Ticks /\ late \subseteq Ids \X Ticks
    /\ \A h \in checkins : h.id \in Ids /\ h.tick <= h.at /\ h.at <= now
    /\ \A i \in Ids : ~srow[i].there => srow[i] = NoSchedule

Quiet == /\ \A r \in SchedRequests : sreq[r].pc \in {"new", "done"}
         /\ sync.pc \in {"idle", "over"}

\* Once the requests are over, jobservice has a policy for every schedule of
\* core and for no other, unless a request failed after it had been to
\* jobservice, another policy had the same score, or Redis lost its contents;
\* and a comparison of jobservice at its start, which no request crosses,
\* makes up for all of these (basicScheduler.Schedule and UnSchedule,
\* scheduler.Schedule and UnScheduleByID, Worker.Run).
Backed == Quiet /\ ~disturbed => \A i \in Ids : srow[i].there <=> policies[i] # 0

\* The callback of a schedule runs once for an execution, though hooks are
\* sent again and transactions roll back (triggerCallback, UpdateRevision),
\* unless the enqueuer took so long that the execution was due when it put it
\* in the queue, perhaps for the second time.
FiredOnce == \A i \in Ids, e \in Ticks : fired[i][e] > 1 => <<i, e>> \in late

\* A schedule that has been deleted does not run its callback any more,
\* whatever executions and hooks of it are still about.
NotFiredWhenDeleted ==
    [][\A i \in Ids : fired'[i] # fired[i] => srow[i].there /\ srow'[i].there]_schedVars

\* Schedules are well formed, backed by the job service, and fire once for
\* every execution.
SchedulesSound ==
    /\ SchedTypeOK
    /\ Backed
    /\ FiredOnce
=============================================================================
