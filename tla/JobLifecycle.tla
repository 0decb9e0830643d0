---------------------------- MODULE JobLifecycle ----------------------------
(***************************************************************************)
(* One job of the job service, from the request that launches it to the    *)
(* final status its receiver (core's task table) records.                  *)
(*                                                                         *)
(* Everything that touches the job does so through a tracker: a copy of    *)
(* the Redis record in the memory of a goroutine.  The goroutines are the  *)
(* workers that run the job (Runners), the requests that stop it           *)
(* (Stoppers) and the periodic reapers (Reapers); each one lives in the    *)
(* process Home[t].  Every Redis command and every HTTP request is one     *)
(* step, and steps of all goroutines interleave.  Of a tracker's copy th   *)
(* keeps the revision, the status about to be set or reported (tgt) and,   *)
(* for a stop request, the status it found (seen).                         *)
(*                                                                         *)
(* Not represented: check-in messages, periodic policies, the expiry of    *)
(* the record a day or a week after a final status.                        *)
(***************************************************************************)
EXTENDS JobStats

CONSTANTS Runners,      \* worker goroutines
          Stoppers,     \* StopJob requests, one goroutine each
          Reapers,      \* reaper goroutines
          Home,         \* the process each goroutine lives in
          Kinds,        \* kinds of job that may be launched
          MaxFails,     \* the job's MaxFails option
          ShouldRetry,  \* what the job's ShouldRetry() answers
          MaxCrashes,   \* bound: process crashes
          MaxSuspects,  \* bound: live workers taken for dead
          MaxLosses,    \* bound: failed hook requests
          MaxRedisFaults \* bound: failed Redis commands

Threads == Runners \union Stoppers \union Reapers

Nodes == {Home[t] : t \in Threads}

Copies == 1 .. (1 + MaxSuspects)

ASSUME ConstantsAssumption ==
    /\ Kinds \subseteq {"Generic", "Scheduled"}
    /\ MaxFails \in Nat \ {0}
    /\ ShouldRetry \in BOOLEAN
    /\ MaxCrashes \in Nat
    /\ MaxSuspects \in Nat
    /\ MaxLosses \in Nat
    /\ MaxRedisFaults \in Nat
    /\ Runners \intersect Stoppers = {}
    /\ Runners \intersect Reapers = {}
    /\ Stoppers \intersect Reapers = {}
    /\ Threads \intersect {"none", "scheduled", "queue", "retry",
                           "orphan", "done"} = {}

VARIABLES
    launch,     \* progress of LaunchJob and of core's transaction
    stats,      \* Redis: the job's record
    copy,       \* Redis: where each copy of the queued job is
    th,         \* memory: the goroutines
    retryList,  \* memory: status changes whose Redis write failed
    resend,     \* memory: hook events being retried in the background
    task,       \* core's row for the job
    crashes, suspects, losses, redisFaults

faults == <<crashes, suspects, losses, redisFaults>>

vars == <<launch, stats, copy, th, retryList, resend, task, faults>>

Idle == [pc |-> "idle", seen |-> "Pending", rev |-> 0, tgt |-> "Pending",
         err |-> FALSE, copy |-> 1, fails |-> 0]

NoCopy == [at |-> "none", fails |-> 0]

Init ==
    /\ launch = "init"
    /\ stats = NoStats
    /\ copy = [c \in Copies |-> NoCopy]
    /\ th = [t \in Threads |-> Idle]
    /\ retryList = {}
    /\ resend = {}
    /\ task = NewTask
    /\ crashes = 0 /\ suspects = 0 /\ losses = 0 /\ redisFaults = 0

\* A Redis command of this step fails; a hook request of this step fails.
RedisFault == redisFaults < MaxRedisFaults /\ redisFaults' = redisFaults + 1
              /\ UNCHANGED <<crashes, suspects, losses>>

Loss == losses < MaxLosses /\ losses' = losses + 1
        /\ UNCHANGED <<crashes, suspects, redisFaults>>

-----------------------------------------------------------------------------
(* LaunchJob: the job is put into the queue first, its record is saved     *)
(* next; core commits its task only after the answer.                      *)

Enqueue ==
    /\ launch = "init"
    /\ \E k \in Kinds :
          copy' = [copy EXCEPT ![1].at =
                      IF k = "Scheduled" THEN "scheduled" ELSE "queue"]
    /\ launch' = IF copy'[1].at = "scheduled" THEN "scheduled" ELSE "enqueued"
    /\ UNCHANGED <<stats, th, retryList, resend, task, faults>>

SaveJob ==
    /\ launch \in {"enqueued", "scheduled"}
    /\ stats' = Save(IF launch = "scheduled" THEN "Scheduled" ELSE "Pending", 1)
    /\ launch' = "saved"
    /\ UNCHANGED <<copy, th, retryList, resend, task, faults>>

\* SaveJob fails, or the process dies before it: core drops the task.
LaunchFail ==
    /\ launch \in {"enqueued", "scheduled"}
    /\ launch' = "failed"
    /\ UNCHANGED <<stats, copy, th, retryList, resend, task, faults>>

CommitTask ==
    /\ launch = "saved"
    /\ launch' = "committed"
    /\ UNCHANGED <<stats, copy, th, retryList, resend, task, faults>>

-----------------------------------------------------------------------------
(* What a goroutine does once a status change and its hook are over.       *)

Continue(t, r) ==
    CASE t \in Runners /\ r.tgt = "Running" ->
            IF r.err THEN [r EXCEPT !.pc = "set", !.tgt = "Error"]
                     ELSE [r EXCEPT !.pc = "body"]
      [] t \in Runners /\ r.tgt # "Running" -> [r EXCEPT !.pc = "remove"]
      [] t \in Stoppers -> [r EXCEPT !.pc = IF r.err THEN "failed" ELSE "unqueue"]
      [] OTHER -> Idle

\* setStatus returned an error.  The deferred Succeed and Fail only log it.
Errored(t, r) ==
    [r EXCEPT !.err = IF t \in Runners /\ r.tgt # "Running" THEN r.err ELSE TRUE]

\* The pending status change, and the hook event, of a goroutine.
Message(t) == [node |-> Home[t], status |-> th[t].tgt, rev |-> th[t].rev]

\* UpdateStatusWithRetry, inside setStatus.  A Redis error (the script may
\* have run nevertheless) is queued for retry, and the hook is fired anyway.
Set(t) ==
    /\ th[t].pc = "set"
    /\ \/ /\ CanSetStatus(stats, th[t].tgt, th[t].rev)
          /\ stats' = SetStatus(stats, th[t].tgt, th[t].rev)
          /\ th' = [th EXCEPT ![t].pc = "send"]
          /\ UNCHANGED <<retryList, faults>>
       \/ /\ ~ CanSetStatus(stats, th[t].tgt, th[t].rev)
          /\ th' = [th EXCEPT ![t] = Continue(t, Errored(t, @))]
          /\ UNCHANGED <<stats, retryList, faults>>
       \/ /\ RedisFault
          /\ stats' \in {stats, SetStatus(stats, th[t].tgt, th[t].rev)}
          /\ retryList' = retryList \union {Message(t)}
          /\ th' = [th EXCEPT ![t] = [Errored(t, @) EXCEPT !.pc = "send"]]
    /\ UNCHANGED <<launch, copy, resend, task>>

(***************************************************************************)
(* The hook.  The receiver answers 200 only once the task is committed, so *)
(* a hook that outruns the commit fails and is retried.                    *)
(***************************************************************************)

Send(t) ==
    /\ th[t].pc = "send"
    /\ \/ /\ launch = "committed"
          /\ task' = UpdateTask(task, Message(t))
          /\ th' = [th EXCEPT ![t].pc = "ack"]
          /\ UNCHANGED <<resend, faults>>
       \/ /\ launch # "committed"
          /\ resend' = resend \union {Message(t)}
          /\ th' = [th EXCEPT ![t] = Continue(t, @)]
          /\ UNCHANGED <<task, faults>>
       \/ /\ launch = "committed"
          /\ Loss
          /\ task' \in {task, UpdateTask(task, Message(t))}
          /\ resend' = resend \union {Message(t)}
          /\ th' = [th EXCEPT ![t] = Continue(t, @)]
    /\ UNCHANGED <<launch, stats, copy, retryList>>

\* A failure to persist the ack is only logged.
Ack(t) ==
    /\ th[t].pc = "ack"
    /\ th' = [th EXCEPT ![t] = Continue(t, @)]
    /\ \/ stats' = HookAck(stats, th[t].tgt, th[t].rev) /\ UNCHANGED faults
       \/ RedisFault /\ UNCHANGED stats
    /\ UNCHANGED <<launch, copy, retryList, resend, task>>

\* The background retry of one event.  It drops an outdated event, does not
\* record an ack when it gets through, and gives up after its time limit.
Resend(ev) ==
    /\ ev \in resend
    /\ \/ /\ IsOutdated(stats, ev)
          /\ resend' = resend \ {ev}
          /\ UNCHANGED <<task, faults>>
       \/ /\ ~ IsOutdated(stats, ev)
          /\ launch = "committed"
          /\ task' = UpdateTask(task, ev)
          /\ resend' = resend \ {ev}
          /\ UNCHANGED faults
       \/ /\ ~ IsOutdated(stats, ev)
          /\ Loss
          /\ resend' \in {resend, resend \ {ev}}
          /\ task' \in IF launch = "committed" /\ resend' = resend
                       THEN {UpdateTask(task, ev)} ELSE {task}
    /\ UNCHANGED <<launch, stats, copy, th, retryList>>

\* The loop of the lifecycle controller over the failed Redis writes.
RetryStatusChange(ch) ==
    /\ ch \in retryList
    /\ stats' = SetStatus(stats, ch.status, ch.rev)
    /\ retryList' = retryList \ {ch}
    /\ UNCHANGED <<launch, copy, th, resend, task, faults>>

-----------------------------------------------------------------------------
(* The worker that runs the job: RedisJob.Run inside the worker framework. *)

Fetch(w) ==
    /\ th[w].pc = "idle"
    /\ \E c \in Copies :
         /\ copy[c].at = "queue"
         /\ copy' = [copy EXCEPT ![c].at = w]
         /\ th' = [th EXCEPT ![w] = [Idle EXCEPT !.pc = "track", !.copy = c,
                                                 !.fails = copy[c].fails]]
    /\ UNCHANGED <<launch, stats, retryList, resend, task, faults>>

\* After the record is loaded or reset the job's context is built, which may
\* fail; then the job is marked Running.
Build(r) == {[r EXCEPT !.pc = "set", !.tgt = "Running", !.err = FALSE],
             [r EXCEPT !.pc = "set", !.tgt = "Error", !.err = TRUE]}

\* Load the record and act on the status found there.
Track(w) ==
    /\ th[w].pc = "track"
    /\ \/ /\ stats.rev > 0
          /\ LET r == [th[w] EXCEPT !.rev = stats.rev]
             IN  \E q \in CASE stats.status \in {"Pending", "Scheduled"} -> Build(r)
                            [] stats.status \in {"Running", "Error"} ->
                                   {[r EXCEPT !.pc = "reset"]}
                            [] OTHER -> {[r EXCEPT !.pc = "check"]} :
                    th' = [th EXCEPT ![w] = q]
          /\ UNCHANGED faults
       \/ /\ stats.rev = 0
          /\ th' = [th EXCEPT ![w] = [@ EXCEPT !.pc = "remove", !.err = TRUE,
                                               !.fails = MaxFails]]
          /\ UNCHANGED faults
       \/ /\ RedisFault
          /\ th' = [th EXCEPT ![w] = [@ EXCEPT !.pc = "remove", !.err = TRUE]]
    /\ UNCHANGED <<launch, stats, copy, retryList, resend, task>>

Reset(w) ==
    /\ th[w].pc = "reset"
    /\ \/ /\ stats' = StatusReset(stats, stats.rev + 1)
          /\ \E q \in Build([th[w] EXCEPT !.rev = stats'.rev]) :
                th' = [th EXCEPT ![w] = q]
          /\ UNCHANGED faults
       \/ /\ RedisFault
          /\ th' = [th EXCEPT ![w] = [@ EXCEPT !.pc = "set", !.tgt = "Error", !.err = TRUE]]
          /\ UNCHANGED stats
    /\ UNCHANGED <<launch, copy, retryList, resend, task>>

\* The job itself returns.
Body(w) ==
    /\ th[w].pc = "body"
    /\ LET r == [th[w] EXCEPT !.fails = IF ShouldRetry THEN @ ELSE MaxFails]
       IN  th' \in {[th EXCEPT ![w] = [r EXCEPT !.pc = "check"]],
                    [th EXCEPT ![w] = [r EXCEPT !.pc = "set", !.tgt = "Error",
                                                !.err = TRUE]]}
    /\ UNCHANGED <<launch, stats, copy, retryList, resend, task, faults>>

\* No error: read the status once more, a stopped job is not a success.
Check(w) ==
    /\ th[w].pc = "check"
    /\ \/ /\ stats.status = "Stopped"
          /\ th' = [th EXCEPT ![w].pc = "remove"]
          /\ UNCHANGED faults
       \/ /\ stats.status # "Stopped"
          /\ th' = [th EXCEPT ![w] = [@ EXCEPT !.pc = "set", !.tgt = "Success"]]
          /\ UNCHANGED faults
       \/ /\ RedisFault
          /\ th' = [th EXCEPT ![w] = [@ EXCEPT !.pc = "set", !.tgt = "Success"]]
    /\ UNCHANGED <<launch, stats, copy, retryList, resend, task>>

\* The framework takes the job off its in-progress list and, after an error,
\* puts it into the retry set while failures are left.  A worker that was
\* taken for dead finds the job gone from its list but retries it all the same.
Remove(w) ==
    /\ th[w].pc = "remove"
    /\ th' = [th EXCEPT ![w] = Idle]
    /\ LET mine  == {c \in Copies : copy[c].at = w}
           fails == th[w].fails + 1
           retry == th[w].err /\ fails < MaxFails
           gone  == [c \in Copies |-> IF c \in mine THEN [copy[c] EXCEPT !.at = "done"]
                                                    ELSE copy[c]]
           slots == IF mine # {} THEN mine ELSE {c \in Copies : copy[c].at = "none"}
       IN  IF retry
           THEN \E c \in slots :
                   copy' = [gone EXCEPT ![c] = [at |-> "retry", fails |-> fails]]
           ELSE copy' = gone
    /\ UNCHANGED <<launch, stats, retryList, resend, task, faults>>

\* The requeuer moves a job whose time has come; a pool that is no longer
\* registered has its in-progress jobs put back.
Requeue(c) ==
    /\ copy[c].at \in {"retry", "scheduled", "orphan"}
    /\ copy' = [copy EXCEPT ![c].at = "queue"]
    /\ UNCHANGED <<launch, stats, th, retryList, resend, task, faults>>

-----------------------------------------------------------------------------
(* StopJob.                                                                *)

StopLoad(s) ==
    /\ th[s].pc = "idle"
    /\ launch = "committed"
    /\ th' = [th EXCEPT ![s] =
                [Idle EXCEPT !.seen = stats.status, !.rev = stats.rev,
                             !.tgt = "Stopped",
                             !.pc = IF Final(stats.status) THEN "done" ELSE "set"]]
    /\ UNCHANGED <<launch, stats, copy, retryList, resend, task, faults>>

\* A scheduled job that is not queued yet is deleted.
StopUnqueue(s) ==
    /\ th[s].pc = "unqueue"
    /\ th' = [th EXCEPT ![s].pc = "done"]
    /\ copy' = [c \in Copies |-> IF copy[c].at = "scheduled"
                                 THEN [copy[c] EXCEPT !.at = "done"] ELSE copy[c]]
    /\ UNCHANGED <<launch, stats, retryList, resend, task, faults>>

-----------------------------------------------------------------------------
(* The reaper: scan the tracked jobs, load the record of each, and act on  *)
(* what was loaded.                                                        *)

ReapScan(r) ==
    /\ th[r].pc = "idle"
    /\ stats.track > 0
    /\ th' = [th EXCEPT ![r].pc = "load"]
    /\ UNCHANGED <<launch, stats, copy, retryList, resend, task, faults>>

\* What the reaper goes on to do with the record it loaded.
ReapPlan(js) ==
    LET diff == Compare(js)
        q == [Idle EXCEPT !.rev = js.rev]
    IN  IF diff > 0 THEN [q EXCEPT !.pc = "send", !.tgt = js.status]
        ELSE IF diff < 0 THEN [q EXCEPT !.pc = "update", !.tgt = js.ack.status]
        ELSE IF Final(js.status) THEN [q EXCEPT !.pc = "untrack"]
        ELSE IF js.stale THEN [q EXCEPT !.pc = "set", !.tgt = "Error"]
        ELSE Idle

ReapLoad(r) ==
    /\ th[r].pc = "load"
    /\ th' = [th EXCEPT ![r] = ReapPlan(stats)]
    /\ UNCHANGED <<launch, stats, copy, retryList, resend, task, faults>>

ReapUntrack(r) ==
    /\ th[r].pc = "untrack"
    /\ stats' = [stats EXCEPT !.track = 0]
    /\ th' = [th EXCEPT ![r] = Idle]
    /\ UNCHANGED <<launch, copy, retryList, resend, task, faults>>

\* Catch up with the acknowledged status; no hook is fired.
ReapUpdate(r) ==
    /\ th[r].pc = "update"
    /\ th' = [th EXCEPT ![r] = Idle]
    /\ \/ /\ stats' = SetStatus(stats, th[r].tgt, th[r].rev)
          /\ UNCHANGED <<retryList, faults>>
       \/ /\ RedisFault
          /\ retryList' = retryList \union {Message(r)}
          /\ UNCHANGED stats
    /\ UNCHANGED <<launch, copy, resend, task>>

-----------------------------------------------------------------------------
(* The environment.                                                        *)

\* maxUpdateDuration goes by without a change of the record.
Age ==
    /\ stats.rev > 0 /\ ~Final(stats.status) /\ ~stats.stale
    /\ stats' = [stats EXCEPT !.stale = TRUE]
    /\ UNCHANGED <<launch, copy, th, retryList, resend, task, faults>>

\* A process dies with everything it held in memory and starts again.
Crash(n) ==
    /\ crashes < MaxCrashes
    /\ crashes' = crashes + 1
    /\ th' = [t \in Threads |->
                IF Home[t] # n \/ th[t].pc \in {"idle", "done", "failed"} THEN th[t]
                ELSE IF t \in Stoppers THEN [th[t] EXCEPT !.pc = "failed"]
                ELSE Idle]
    /\ copy' = [c \in Copies |->
                  IF copy[c].at \in {t \in Runners : Home[t] = n}
                  THEN [copy[c] EXCEPT !.at = "orphan"] ELSE copy[c]]
    /\ retryList' = {ch \in retryList : ch.node # n}
    /\ resend' = {ev \in resend : ev.node # n}
    /\ UNCHANGED <<launch, stats, task, suspects, losses, redisFaults>>

\* The heartbeat of a live pool is late: another pool's reaper takes its job
\* back into the queue while the worker carries on.
Suspect(w) ==
    /\ suspects < MaxSuspects
    /\ suspects' = suspects + 1
    /\ \E c \in Copies : /\ copy[c].at = w
                         /\ copy' = [copy EXCEPT ![c].at = "queue"]
    /\ UNCHANGED <<launch, stats, th, retryList, resend, task,
                   crashes, losses, redisFaults>>

-----------------------------------------------------------------------------
Tracker(t) == Set(t) \/ Send(t) \/ Ack(t)

Run(w) == Fetch(w) \/ Track(w) \/ Reset(w) \/ Body(w) \/ Check(w) \/ Remove(w)
          \/ Tracker(w)

Stop(s) == StopLoad(s) \/ StopUnqueue(s) \/ Tracker(s)

Reap(r) == ReapScan(r) \/ ReapLoad(r) \/ ReapUntrack(r) \/ ReapUpdate(r)
           \/ Tracker(r)

Next ==
    \/ Enqueue \/ SaveJob \/ LaunchFail \/ CommitTask
    \/ \E w \in Runners : Run(w) \/ Suspect(w)
    \/ \E s \in Stoppers : Stop(s)
    \/ \E r \in Reapers : Reap(r)
    \/ \E c \in Copies : Requeue(c)
    \/ \E ev \in resend : Resend(ev)
    \/ \E ch \in retryList : RetryStatusChange(ch)
    \/ Age
    \/ \E n \in Nodes : Crash(n)

Spec == Init /\ [][Next]_vars

(***************************************************************************)
(* Fairness.  A goroutine that can take a step takes one; timers of the    *)
(* framework fire; the 24 hours of Age go by.  Requests, crashes, losses   *)
(* and faults are never forced.                                            *)
(***************************************************************************)
Fairness ==
    /\ WF_vars(SaveJob \/ LaunchFail)
    /\ WF_vars(CommitTask)
    /\ \A w \in Runners : WF_vars(Run(w))
    /\ \A s \in Stoppers : WF_vars(StopUnqueue(s) \/ Tracker(s))
    /\ \A r \in Reapers : WF_vars(Reap(r))
    /\ \A c \in Copies : WF_vars(Requeue(c))
    /\ WF_vars(\E ev \in resend : Resend(ev))
    /\ WF_vars(\E ch \in retryList : RetryStatusChange(ch))
    /\ WF_vars(Age)

FairSpec == Spec /\ Fairness

-----------------------------------------------------------------------------
ThreadType ==
    [pc : {"idle", "set", "send", "ack", "track", "reset", "body", "check", "remove",
           "unqueue", "done", "failed", "load", "untrack", "update"},
     seen : Statuses, rev : Nat, tgt : Statuses,
     err : BOOLEAN, copy : Copies, fails : Nat]

CopyType == [at : {"none", "scheduled", "queue", "retry", "orphan", "done"}
                      \union Runners, fails : Nat]

Messages == [node : Nodes, status : Statuses, rev : Nat]

\* The state keeps its shape: statuses, revisions, counters and program
\* counters stay in range.
TypeOK ==
    /\ launch \in {"init", "enqueued", "scheduled", "saved", "committed", "failed"}
    /\ stats \in StatsType
    /\ copy \in [Copies -> CopyType]
    /\ th \in [Threads -> ThreadType]
    /\ retryList \subseteq Messages
    /\ resend \subseteq Messages
    /\ task \in [status : Statuses, rev : Nat]
    /\ crashes \in 0 .. MaxCrashes /\ suspects \in 0 .. MaxSuspects
    /\ losses \in 0 .. MaxLosses /\ redisFaults \in 0 .. MaxRedisFaults

\* What the receiver was acknowledged for it has really recorded: the ack the
\* reaper trusts to leave a job alone is never ahead of core's task row.
AckSound == stats.ack # NoAck => Knows(task, stats.ack.status, stats.ack.rev)

\* Each revision of a job has one final status, for the job service and for
\* core: when core has recorded a final status of the current revision, that
\* is the status in Redis.
CoreAgrees ==
    /\ task.rev <= stats.rev
    /\ task.rev = stats.rev /\ Final(task.status) => task.status = stats.status

\* Whatever fails: the record stays well formed and the acknowledgement true,
\* and core holds no final status of its own until a Redis command has failed.
FaultSound ==
    /\ TypeOK
    /\ AckSound
    /\ redisFaults = 0 => CoreAgrees

\* The job service and core together implement the contract of a job.
Contract == INSTANCE JobContract WITH status <- stats.status, rev <- stats.rev
ContractSpec == Contract!Spec

Reported == Final(stats.status) /\ task = [status |-> stats.status, rev |-> stats.rev]

\* Once core has committed the task of a job, it ends up with the job's final
\* status for good: the reaper makes up for hooks that were never delivered.
EventuallyReported == <>(launch = "committed") => <>[]Reported

StartsRunning == stats.status # "Running" /\ stats'.status = "Running"

\* A job whose stop request was answered with success does not run again, also
\* when the request found it in status Error, waiting for a retry.
StopOfFailedJobHonoured ==
    [][\A s \in Stoppers : th[s].pc = "done" /\ th[s].seen = "Error"
                              => ~ StartsRunning]_vars

\* Stopped is a final status: a job that was stopped stays stopped.
StoppedIsFinal == [][stats.status = "Stopped" => stats'.status = "Stopped"]_vars
=============================================================================
