------------------------------ MODULE JobQueues ------------------------------
(***************************************************************************)
(* What administrators do to the queues of the job service: stop the jobs  *)
(* that wait in a queue, stop those that run, pause and resume a queue.    *)
(* The core works on the Redis of the job service directly, so each        *)
(* request meets workers that fetch jobs, flows that create tasks outside  *)
(* a transaction, hooks of the jobs and the job service that restarts.     *)
(***************************************************************************)
EXTENDS JobStats, Sequences, FiniteSets

CONSTANTS
  QTypes,    \* the known job types; each has a queue
  BatchSize, \* how many tasks one statement updates (1000)
  Workers    \* workers of the pools

VARIABLES
  qjobs,       \* j -> [type, vendor, exec, place, stats]; stats is the status the job service has
  taskRows,    \* j -> [there, status, code, rev, named]: the task of job j; named, its job_id is set
  qexecs,      \* e -> status of execution e
  waiting,     \* queue of each type, oldest first
  pauseKeys,   \* the types whose queue workers skip
  pauseRows,   \* t -> "none", "paused", "running": table job_queue_status
  hooked,      \* j -> statuses the job service still has to report
  seen,        \* the jobs that the observations of workers show
  ops,         \* requests, see QueueOp
  updates,     \* what goroutines of stop requests still do, see NewUpdate
  queueFaults, \* calls of Redis, the database or the job service that still may fail
  queuePast    \* history, see NoQueuePast

queueVars == <<qjobs, taskRows, qexecs, waiting, pauseKeys, pauseRows, hooked, seen, ops, updates, queueFaults, queuePast>>

QJob(type, vendor, exec, place) == [type |-> type, vendor |-> vendor, exec |-> exec, place |-> place, stats |-> IF place = "run" THEN "Running" ELSE "Pending"]
NoRow == [there |-> FALSE, status |-> "Pending", code |-> 0, rev |-> 0, named |-> FALSE]
NewRow == [NoRow EXCEPT !.there = TRUE]
\* kind: stop, pause, resume, halt (stop running jobs), sync (the job service starts), other.
\* todo: the types or jobs still to be done; cur: the one at hand; ids: jobs listed; goal: what a halt must reach.
QueueOp(kind, target) ==
  [kind |-> kind, target |-> target, at |-> "start", todo |-> {}, cur |-> "", ids |-> <<>>, out |-> "open", goal |-> {}]
NewUpdate(type, ids) == [type |-> type, ids |-> ids, at |-> "execs", execs |-> {}]
\* unlisted: deleted with the queue but not listed before; late: listed, but fetched before the
\* queue was deleted; unnamed: its task had no job_id when the listed ones were updated;
\* blank: its task was stopped for want of a job_id; missed: an update of a listed one failed;
\* muddled: types of which two requests set the key and the row at once, or one failed between them.
NoQueuePast == [unlisted |-> {}, late |-> {}, unnamed |-> {}, blank |-> {}, missed |-> {}, muddled |-> {}, unread |-> {}]
QueueFault == queueFaults > 0 /\ queueFaults' = queueFaults - 1
QueueOpGoes(o, x) == ops' = [ops EXCEPT ![o] = x]
QueueOpEnds(o, out) == QueueOpGoes(o, [ops[o] EXCEPT !.at = "over", !.out = out, !.todo = {}, !.cur = "", !.ids = <<>>])
QJobs == DOMAIN qjobs

---------------------------------------------------------------------------
(* Tasks and executions.                                                   *)

\* The row after a hook of revision r (taskDAO.UpdateStatus).
RowUpdated(row, s, r) ==
  IF row.rev < r \/ (row.rev = r /\ row.code < Code(s)) THEN [row EXCEPT !.status = s, !.code = Code(s), !.rev = r] ELSE row
\* refreshStatus: the status of an execution from those of its tasks.
StatusFrom(statuses) ==
  CASE statuses \intersect {"Pending", "Running", "Scheduled"} # {} -> "Running"
    [] "Error" \in statuses -> "Error"
    [] "Stopped" \in statuses -> "Stopped"
    [] OTHER -> "Success"
ExecRows(rows, e) == {j \in QJobs : qjobs[j].exec = e /\ rows[j].there}
Refreshed(rows, es) ==
  [e \in DOMAIN qexecs |-> IF e \in es /\ ExecRows(rows, e) # {} THEN StatusFrom({rows[j].status : j \in ExecRows(rows, e)}) ELSE qexecs[e]]

---------------------------------------------------------------------------
(* Create: a flow without a transaction creates a task: its row, the job,  *)
(* then the id of the job in the row.                                      *)

RecordTask(j) ==
  /\ qjobs[j].place = "none"
  /\ qjobs' = [qjobs EXCEPT ![j].place = "recorded"]
  /\ taskRows' = [taskRows EXCEPT ![j] = NewRow]
  /\ UNCHANGED <<qexecs, waiting, pauseKeys, pauseRows, hooked, seen, ops, updates, queueFaults, queuePast>>
\* A job that is refused takes its row along.
SubmitTask(j) ==
  /\ qjobs[j].place = "recorded"
  /\ \/ /\ QueueFault
        /\ qjobs' = [qjobs EXCEPT ![j].place = "refused"]
        /\ taskRows' = [taskRows EXCEPT ![j] = NoRow]
        /\ UNCHANGED waiting
     \/ /\ qjobs' = [qjobs EXCEPT ![j].place = "queue"]
        /\ waiting' = [waiting EXCEPT ![qjobs[j].type] = Append(@, j)]
        /\ UNCHANGED <<taskRows, queueFaults>>
  /\ UNCHANGED <<qexecs, pauseKeys, pauseRows, hooked, seen, ops, updates, queuePast>>
Unnamed(j) == taskRows[j].there /\ ~taskRows[j].named /\ qjobs[j].place # "recorded"
NameTask(j) ==
  /\ Unnamed(j)
  /\ taskRows' = [taskRows EXCEPT ![j].named = TRUE]
  /\ UNCHANGED <<qjobs, qexecs, waiting, pauseKeys, pauseRows, hooked, seen, ops, updates, queueFaults, queuePast>>

---------------------------------------------------------------------------
(* The job service.                                                        *)

\* A worker takes the oldest job of a queue that is not paused; one that was stopped meanwhile
\* is not run.
FetchJob(t) ==
  /\ waiting[t] # <<>> /\ t \notin pauseKeys
  /\ Cardinality({j \in QJobs : qjobs[j].place = "run"}) < Workers
  /\ LET j == Head(waiting[t]) IN
     IF qjobs[j].stats = "Stopped" THEN qjobs' = [qjobs EXCEPT ![j].place = "done"] /\ UNCHANGED hooked
     ELSE /\ qjobs' = [qjobs EXCEPT ![j] = [@ EXCEPT !.place = "run", !.stats = "Running"]]
          /\ hooked' = [hooked EXCEPT ![j] = Append(@, "Running")]
  /\ waiting' = [waiting EXCEPT ![t] = Tail(@)]
  /\ UNCHANGED <<taskRows, qexecs, pauseKeys, pauseRows, seen, ops, updates, queueFaults, queuePast>>
JobEnds(j) ==
  /\ qjobs[j].place = "run"
  /\ IF qjobs[j].stats = "Stopped" THEN qjobs' = [qjobs EXCEPT ![j].place = "done"] /\ UNCHANGED hooked
     ELSE /\ qjobs' = [qjobs EXCEPT ![j] = [@ EXCEPT !.place = "done", !.stats = "Success"]]
          /\ hooked' = [hooked EXCEPT ![j] = Append(@, "Success")]
  /\ UNCHANGED <<taskRows, qexecs, waiting, pauseKeys, pauseRows, seen, ops, updates, queueFaults, queuePast>>
\* The workers write what they do once in a while.
ObserveWorkers ==
  /\ seen # {j \in QJobs : qjobs[j].place = "run"}
  /\ seen' = {j \in QJobs : qjobs[j].place = "run"}
  /\ UNCHANGED <<qjobs, taskRows, qexecs, waiting, pauseKeys, pauseRows, hooked, ops, updates, queueFaults, queuePast>>
DeliverHook(j) ==
  /\ hooked[j] # <<>>
  /\ hooked' = [hooked EXCEPT ![j] = Tail(@)]
  /\ taskRows' = [taskRows EXCEPT ![j] = RowUpdated(@, Head(hooked[j]), 1)]
  /\ qexecs' = Refreshed(taskRows', {qjobs[j].exec})
  /\ UNCHANGED <<qjobs, waiting, pauseKeys, pauseRows, seen, ops, updates, queueFaults, queuePast>>

---------------------------------------------------------------------------
(* ActionPendingJobs: which types; one that is not "all" is taken as it is. *)

All(x) == x = "all"
StartAction(o) ==
  /\ ops[o].at = "start" /\ ops[o].kind \in {"stop", "pause", "resume", "other"}
  /\ IF ops[o].kind = "other" THEN QueueOpEnds(o, "bad") /\ UNCHANGED queueFaults
     ELSE \/ QueueFault /\ QueueOpEnds(o, "error")
          \/ /\ QueueOpGoes(o, [ops[o] EXCEPT !.at = IF ops[o].kind = "stop" THEN "list" ELSE "key",
                                             !.todo = IF All(ops[o].target) THEN QTypes ELSE {ops[o].target}])
             /\ UNCHANGED queueFaults
  /\ UNCHANGED <<qjobs, taskRows, qexecs, waiting, pauseKeys, pauseRows, hooked, seen, updates, queuePast>>
\* The next type, or the end; a failed one ends a request of a single type.
StopGoesOn(o, t, failed) ==
  IF failed /\ ~All(ops[o].target) THEN QueueOpEnds(o, "error")
  ELSE IF ops[o].todo = {t} THEN QueueOpEnds(o, "ok")
  ELSE QueueOpGoes(o, [ops[o] EXCEPT !.at = "list", !.todo = @ \ {t}, !.cur = "", !.ids = <<>>])

\* StopPendingJobs lists the queue, then deletes it.
StopList(o) ==
  /\ ops[o].at = "list"
  /\ \E t \in ops[o].todo :
     \/ QueueFault /\ StopGoesOn(o, t, TRUE) /\ UNCHANGED updates
     \/ /\ UNCHANGED queueFaults
        /\ IF waiting[t] = <<>> THEN StopGoesOn(o, t, FALSE) /\ updates' = Append(updates, NewUpdate(t, <<>>))
           ELSE QueueOpGoes(o, [ops[o] EXCEPT !.at = "delete", !.cur = t, !.ids = waiting[t]]) /\ UNCHANGED updates
  /\ UNCHANGED <<qjobs, taskRows, qexecs, waiting, pauseKeys, pauseRows, hooked, seen, queuePast>>
SeqSet(s) == {s[i] : i \in DOMAIN s}
StopDelete(o) ==
  /\ ops[o].at = "delete"
  /\ LET t == ops[o].cur  there == SeqSet(waiting[t])  listed == SeqSet(ops[o].ids) IN
     \/ /\ QueueFault /\ StopGoesOn(o, t, TRUE)
        /\ UNCHANGED <<qjobs, waiting, updates, queuePast>>
     \/ /\ there = {} /\ StopGoesOn(o, t, TRUE)
        /\ UNCHANGED <<qjobs, waiting, updates, queuePast, queueFaults>>
     \/ /\ there # {} /\ StopGoesOn(o, t, FALSE)
        /\ waiting' = [waiting EXCEPT ![t] = <<>>]
        /\ qjobs' = [j \in QJobs |-> IF j \in there THEN [qjobs[j] EXCEPT !.place = "dropped"] ELSE qjobs[j]]
        /\ updates' = Append(updates, NewUpdate(t, ops[o].ids))
        /\ queuePast' = [queuePast EXCEPT !.unlisted = @ \union (there \ listed), !.late = @ \union (listed \ there)]
        /\ UNCHANGED queueFaults
  /\ UNCHANGED <<taskRows, qexecs, pauseKeys, pauseRows, hooked, seen>>

---------------------------------------------------------------------------
(* updateJobStatusInTask, in a goroutine of its own.                       *)

UpdateGoes(u, x) == updates' = [updates EXCEPT ![u] = x]
UpdateEnds(u) == UpdateGoes(u, [updates[u] EXCEPT !.at = "over", !.ids = <<>>, !.execs = {}])
\* The executions of a vendor with a task that waits.
PendingExecs(vendor) == {qjobs[j].exec : j \in {i \in QJobs : taskRows[i].there /\ qjobs[i].vendor = vendor /\ taskRows[i].status = "Pending"}}
UpdateList(u) ==
  /\ updates[u].at = "execs"
  /\ \/ QueueFault /\ UpdateEnds(u) /\ queuePast' = [queuePast EXCEPT !.missed = @ \union SeqSet(updates[u].ids)]
     \/ /\ UpdateGoes(u, [updates[u] EXCEPT !.at = IF updates[u].ids = <<>> THEN "refresh" ELSE "batch", !.execs = PendingExecs(updates[u].type)])
        /\ UNCHANGED <<queueFaults, queuePast>>
  /\ UNCHANGED <<qjobs, taskRows, qexecs, waiting, pauseKeys, pauseRows, hooked, seen, ops>>
\* Mutant: no more than one batch.
UpdateStatusInBatchOnce(u) ==
  /\ updates[u].at = "batch"
  /\ LET ids == updates[u].ids
         n == IF Len(ids) < BatchSize THEN Len(ids) ELSE BatchSize
         now == {ids[i] : i \in 1 .. n} IN
     /\ taskRows' = [j \in QJobs |-> IF j \in now /\ taskRows[j].there /\ taskRows[j].named THEN [taskRows[j] EXCEPT !.status = "Stopped"] ELSE taskRows[j]]
     /\ UpdateGoes(u, [updates[u] EXCEPT !.at = "refresh", !.ids = <<>>])
     /\ queuePast' = [queuePast EXCEPT !.unnamed = @ \union {j \in now : ~taskRows[j].named}]
     /\ UNCHANGED queueFaults
  /\ UNCHANGED <<qjobs, qexecs, waiting, pauseKeys, pauseRows, hooked, seen, ops>>
\* The status of the rows of the listed jobs, a batch at a time; their status_code is left alone.
UpdateStatusInBatch(u) ==
  /\ updates[u].at = "batch"
  /\ LET ids == updates[u].ids
         n == IF Len(ids) < BatchSize THEN Len(ids) ELSE BatchSize
         now == {ids[i] : i \in 1 .. n} IN
     \/ /\ QueueFault /\ UpdateGoes(u, [updates[u] EXCEPT !.at = "refresh", !.ids = <<>>])
        /\ queuePast' = [queuePast EXCEPT !.missed = @ \union SeqSet(ids)]
        /\ UNCHANGED taskRows
     \/ /\ taskRows' = [j \in QJobs |-> IF j \in now /\ taskRows[j].there /\ taskRows[j].named THEN [taskRows[j] EXCEPT !.status = "Stopped"] ELSE taskRows[j]]
        /\ UpdateGoes(u, [updates[u] EXCEPT !.at = IF n = Len(ids) THEN "refresh" ELSE "batch", !.ids = SubSeq(ids, n + 1, Len(ids))])
        /\ queuePast' = [queuePast EXCEPT !.unnamed = @ \union {j \in now : ~taskRows[j].named}]
        /\ UNCHANGED queueFaults
  /\ UNCHANGED <<qjobs, qexecs, waiting, pauseKeys, pauseRows, hooked, seen, ops>>
\* One execution after the other; a refresh that fails is left out.
UpdateRefresh(u) ==
  /\ updates[u].at = "refresh"
  /\ IF updates[u].execs = {} THEN UpdateEnds(u) /\ UNCHANGED <<qexecs, queueFaults, queuePast>>
     ELSE LET e == CHOOSE x \in updates[u].execs : TRUE IN
          /\ UpdateGoes(u, [updates[u] EXCEPT !.execs = @ \ {e}])
          /\ \/ QueueFault /\ queuePast' = [queuePast EXCEPT !.unread = @ \union {e}] /\ UNCHANGED qexecs
             \/ qexecs' = Refreshed(taskRows, {e}) /\ UNCHANGED <<queueFaults, queuePast>>
  /\ UNCHANGED <<qjobs, taskRows, waiting, pauseKeys, pauseRows, hooked, seen, ops>>

---------------------------------------------------------------------------
(* pauseQueue, resumeQueue: the key in Redis, then the row in a            *)
(* transaction; syncQueueStatus of a starting job service: from the rows   *)
(* to the keys.                                                            *)

\* Request o is between the key and the row of type t.
Between(o, t) ==
  \/ ops[o].at = "row" /\ ops[o].cur = t
  \/ ops[o].kind = "sync" /\ ops[o].at = "apply" /\ t \in {x[1] : x \in ops[o].todo}
Muddles(o, t) == \E p \in DOMAIN ops \ {o} : Between(p, t)
Muddled(o, t) == queuePast' = [queuePast EXCEPT !.muddled = IF Muddles(o, t) THEN @ \union {t} ELSE @]
PauseKey(o) ==
  /\ ops[o].at = "key"
  /\ \E t \in ops[o].todo :
     \/ QueueFault /\ QueueOpEnds(o, "error") /\ UNCHANGED <<pauseKeys, queuePast>>
     \/ /\ pauseKeys' = IF ops[o].kind = "pause" THEN pauseKeys \union {t} ELSE pauseKeys \ {t}
        /\ QueueOpGoes(o, [ops[o] EXCEPT !.at = "row", !.cur = t])
        /\ Muddled(o, t) /\ UNCHANGED queueFaults
  /\ UNCHANGED <<qjobs, taskRows, qexecs, waiting, pauseRows, hooked, seen, updates>>
RowGoesOn(o, t) ==
  IF ops[o].todo = {t} THEN QueueOpEnds(o, "ok") ELSE QueueOpGoes(o, [ops[o] EXCEPT !.at = "key", !.todo = @ \ {t}, !.cur = ""])
\* InsertOrUpdate.
PauseRow(o) ==
  /\ ops[o].at = "row"
  /\ LET t == ops[o].cur IN
     \/ /\ QueueFault /\ QueueOpEnds(o, "error")
        /\ queuePast' = [queuePast EXCEPT !.muddled = @ \union {t}] /\ UNCHANGED pauseRows
     \/ /\ pauseRows' = [pauseRows EXCEPT ![t] = IF ops[o].kind = "pause" THEN "paused" ELSE "running"]
        /\ RowGoesOn(o, t) /\ Muddled(o, t) /\ UNCHANGED queueFaults
  /\ UNCHANGED <<qjobs, taskRows, qexecs, waiting, pauseKeys, hooked, seen, updates>>
SyncList(o) ==
  /\ ops[o].at = "start" /\ ops[o].kind = "sync"
  /\ LET rows == {<<t, pauseRows[t]>> : t \in {x \in QTypes : pauseRows[x] # "none"}} IN
     \/ QueueFault /\ QueueOpEnds(o, "error") /\ UNCHANGED queuePast
     \/ /\ IF rows = {} THEN QueueOpEnds(o, "ok") ELSE QueueOpGoes(o, [ops[o] EXCEPT !.at = "apply", !.todo = rows])
        /\ queuePast' = [queuePast EXCEPT !.muddled = @ \union {t \in {x[1] : x \in rows} : Muddles(o, t)}]
        /\ UNCHANGED queueFaults
  /\ UNCHANGED <<qjobs, taskRows, qexecs, waiting, pauseKeys, pauseRows, hooked, seen, updates>>
SyncApply(o) ==
  /\ ops[o].at = "apply"
  /\ \E x \in ops[o].todo :
     /\ \/ QueueFault /\ UNCHANGED <<pauseKeys, queuePast>>
        \/ /\ pauseKeys' = IF x[2] = "paused" THEN pauseKeys \union {x[1]} ELSE pauseKeys \ {x[1]}
           /\ Muddled(o, x[1]) /\ UNCHANGED queueFaults
     /\ IF ops[o].todo = {x} THEN QueueOpEnds(o, "ok") ELSE QueueOpGoes(o, [ops[o] EXCEPT !.todo = @ \ {x}])
  /\ UNCHANGED <<qjobs, taskRows, qexecs, waiting, pauseRows, hooked, seen, updates>>

---------------------------------------------------------------------------
(* StopRunningJobs: one job, or all that the workers are seen to run.      *)

\* A worker that does nothing is listed with the empty job id.
IdleId == ""
Running == {j \in QJobs : qjobs[j].place = "run"}
StartHalt(o) ==
  /\ ops[o].at = "start" /\ ops[o].kind = "halt"
  /\ QueueOpGoes(o, [ops[o] EXCEPT !.at = IF All(ops[o].target) THEN "workers" ELSE "find",
                                  !.todo = IF All(ops[o].target) THEN {} ELSE {ops[o].target},
                                  !.goal = {j \in Running : (j = ops[o].target \/ (All(ops[o].target) /\ j \in seen)) /\ taskRows[j].named}])
  /\ UNCHANGED <<qjobs, taskRows, qexecs, waiting, pauseKeys, pauseRows, hooked, seen, updates, queueFaults, queuePast>>
ListWorkers(o) ==
  /\ ops[o].at = "workers"
  /\ LET ids == seen \union (IF Cardinality(seen) < Workers THEN {IdleId} ELSE {}) IN
     \/ QueueFault /\ QueueOpEnds(o, "error")
     \/ QueueOpGoes(o, [ops[o] EXCEPT !.at = "find", !.todo = ids]) /\ UNCHANGED queueFaults
  /\ UNCHANGED <<qjobs, taskRows, qexecs, waiting, pauseKeys, pauseRows, hooked, seen, updates, queuePast>>
HaltGoesOn(o, id) ==
  IF ops[o].todo = {id} THEN QueueOpEnds(o, "ok") ELSE QueueOpGoes(o, [ops[o] EXCEPT !.at = "find", !.todo = @ \ {id}, !.cur = "", !.ids = <<>>])
\* The rows with that job_id.
RowsWithId(id) == {j \in QJobs : taskRows[j].there /\ IF id = IdleId THEN ~taskRows[j].named ELSE j = id /\ taskRows[j].named}
HaltFind(o) ==
  /\ ops[o].at = "find"
  /\ \E id \in ops[o].todo :
     LET found == RowsWithId(id) IN
     \/ QueueFault /\ QueueOpEnds(o, "error")
     \/ /\ UNCHANGED queueFaults
        /\ CASE found = {} -> HaltGoesOn(o, id)
             [] Cardinality(found) > 1 -> QueueOpEnds(o, "error")
             [] OTHER -> QueueOpGoes(o, [ops[o] EXCEPT !.at = "post", !.cur = CHOOSE j \in found : TRUE, !.ids = <<id>>])
  /\ UNCHANGED <<qjobs, taskRows, qexecs, waiting, pauseKeys, pauseRows, hooked, seen, updates, queuePast>>
\* Stop reads the row again and posts the command; the job service knows no job without an id,
\* so the row is stopped by the core itself.
HaltPost(o) ==
  /\ ops[o].at = "post"
  /\ LET j == ops[o].cur  id == ops[o].ids[1] IN
     \/ /\ QueueFault /\ QueueOpEnds(o, "error")
        /\ UNCHANGED <<qjobs, taskRows, qexecs, hooked, queuePast>>
     \/ /\ ~taskRows[j].there /\ QueueOpEnds(o, "error")
        /\ UNCHANGED <<qjobs, taskRows, qexecs, hooked, queuePast, queueFaults>>
     \/ /\ taskRows[j].there /\ taskRows[j].named /\ HaltGoesOn(o, id)
        /\ IF Final(qjobs[j].stats) THEN UNCHANGED <<qjobs, hooked>>
           ELSE qjobs' = [qjobs EXCEPT ![j].stats = "Stopped"] /\ hooked' = [hooked EXCEPT ![j] = Append(@, "Stopped")]
        /\ UNCHANGED <<taskRows, qexecs, queuePast, queueFaults>>
     \/ /\ taskRows[j].there /\ ~taskRows[j].named /\ HaltGoesOn(o, id)
        /\ taskRows' = [taskRows EXCEPT ![j] = [@ EXCEPT !.status = "Stopped", !.code = Code("Stopped")]]
        /\ qexecs' = Refreshed(taskRows', {qjobs[j].exec})
        /\ queuePast' = [queuePast EXCEPT !.blank = @ \union {j}]
        /\ UNCHANGED <<qjobs, hooked, queueFaults>>
  /\ UNCHANGED <<waiting, pauseKeys, pauseRows, seen, updates>>

JobQueuesNext ==
  \/ \E j \in QJobs : RecordTask(j) \/ SubmitTask(j) \/ NameTask(j) \/ JobEnds(j) \/ DeliverHook(j)
  \/ \E t \in QTypes : FetchJob(t)
  \/ ObserveWorkers
  \/ \E o \in DOMAIN ops :
       \/ StartAction(o) \/ StopList(o) \/ StopDelete(o) \/ PauseKey(o) \/ PauseRow(o) \/ SyncList(o) \/ SyncApply(o)
       \/ StartHalt(o) \/ ListWorkers(o) \/ HaltFind(o) \/ HaltPost(o)
  \/ \E u \in DOMAIN updates : UpdateList(u) \/ UpdateStatusInBatch(u) \/ UpdateRefresh(u)

---------------------------------------------------------------------------
(* Pages of the executions of a periodic job, newest first.                *)

\* GetPeriodicExecution; page n is empty beyond the end.
PageOfExecutions(all, n, size) ==
  IF Len(all) = 0 \/ (n - 1) * size >= Len(all) THEN <<>>
  ELSE SubSeq(all, (n - 1) * size + 1, IF n * size < Len(all) THEN n * size ELSE Len(all))
\* extractQuery: what a request asks for; 0 stands for a parameter that is missing or not a number.
AskedPage(page, size, default) == [number |-> IF page > 1 THEN page ELSE 1, size |-> IF size > 0 THEN size ELSE default]

---------------------------------------------------------------------------
(* Properties.                                                             *)

\* Nothing is under way: requests, goroutines, hooks, tasks being created.
QueuesQuiet ==
  /\ \A o \in DOMAIN ops : ops[o].at = "over"
  /\ \A u \in DOMAIN updates : updates[u].at = "over"
  /\ \A j \in QJobs : hooked[j] = <<>> /\ qjobs[j].place # "recorded" /\ ~Unnamed(j)
\* A task tells what became of its job: those that were stopped while they waited are Stopped, those that
\* were not run on and are shown so.  Not so for a job that reached the queue between listing and deleting
\* it, or left it then and ended before its row was written (redis.go:76, 92), nor for a row that had no
\* job_id yet: a request to stop all running jobs takes it for the job of an idle worker (monitor.go:182).
TaskTold ==
  QueuesQuiet => \A j \in QJobs :
    taskRows[j].there =>
      CASE qjobs[j].place = "queue" -> taskRows[j].status = qjobs[j].stats \/ j \in queuePast.blank
        [] qjobs[j].place = "dropped" -> taskRows[j].status = "Stopped" \/ j \in queuePast.unlisted \union queuePast.unnamed \union queuePast.missed
        [] qjobs[j].place \in {"run", "done"} -> taskRows[j].status = qjobs[j].stats \/ (j \in queuePast.late \union queuePast.blank /\ taskRows[j].status = "Stopped")
        [] OTHER -> TRUE
\* An execution whose tasks have all ended has ended as they did, unless its vendor differs from the type of
\* its jobs: the executions to refresh are looked up by the type (monitor.go:233).  A flow whose job was
\* refused sees to its execution itself.
ExecTold ==
  QueuesQuiet => \A e \in DOMAIN qexecs :
    LET js == ExecRows(taskRows, e)  s == StatusFrom({taskRows[j].status : j \in js}) IN
    (js # {} /\ Final(s)) => \/ qexecs[e] = s
                             \/ e \in queuePast.unread
                             \/ \E j \in QJobs : qjobs[j].exec = e /\ qjobs[j].place = "refused"
                             \/ \E j \in js : j \in queuePast.late \/ qjobs[j].vendor # qjobs[j].type
\* Once no request is under way, the queues that are shown as paused are those that workers skip, unless
\* two requests overlapped or one failed half way.
ShownPaused(t) == pauseRows[t] = "paused"
PauseShown ==
  \A t \in QTypes : (\A o \in DOMAIN ops : ~Between(o, t)) => t \in queuePast.muddled \/ ShownPaused(t) = (t \in pauseKeys)
\* A request to stop running jobs that succeeded has stopped those that ran when it came, unless they ended.
HaltReached ==
  \A o \in DOMAIN ops : ops[o].kind = "halt" /\ ops[o].out = "ok" => \A j \in ops[o].goal : Final(qjobs[j].stats)
\* A job that was deleted from its queue is never run, and one is in a single place.
QueuesExact ==
  /\ \A t \in QTypes : \A i \in DOMAIN waiting[t] : qjobs[waiting[t][i]].place = "queue" /\ qjobs[waiting[t][i]].type = t
  /\ \A j \in QJobs : qjobs[j].place = "queue" => Cardinality({i \in DOMAIN waiting[qjobs[j].type] : waiting[qjobs[j].type][i] = j}) = 1
\* The pages of a list put together are the list, whatever their size.
PagesTile ==
  \A n \in 0 .. 4 : \A asked \in 0 .. 3 :
    LET all == [i \in 1 .. n |-> i]
        size == AskedPage(0, asked, 2).size
        page(k) == PageOfExecutions(all, AskedPage(k, asked, 2).number, size) IN
    /\ page(1) \o page(2) \o page(3) \o page(4) = all
    /\ \A k \in 1 .. 5 : Len(page(k)) <= size
\* The queues, and what the core shows of them, agree.
JobQueuesSound == TaskTold /\ ExecTold /\ PauseShown /\ HaltReached /\ QueuesExact /\ PagesTile
=============================================================================
