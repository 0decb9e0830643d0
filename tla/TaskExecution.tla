---------------------------- MODULE TaskExecution ---------------------------
(***************************************************************************)
(* One execution of core's task manager: a row that sums up the rows of    *)
(* its tasks.  A background flow (replication's copy flow) creates the     *)
(* tasks one by one and submits a job for each; the job service reports    *)
(* through hooks; requests stop the execution; a sweeper deletes it.       *)
(*                                                                         *)
(* A hook and a stop request run in a database transaction each, at        *)
(* PostgreSQL's default level READ COMMITTED: every statement sees what is *)
(* committed and what its own transaction has written, a written row stays *)
(* locked until the transaction ends, and an UPDATE that had to wait       *)
(* evaluates its condition again.  tx[p].rows and tx[p].ex hold what a     *)
(* transaction has written.  The flow and the sweeper run without a        *)
(* transaction, each statement for itself.                                 *)
(*                                                                         *)
(* Jobs behave as JobContract says, from its point of view: jobs[t] is the *)
(* job, task[t] core's row for it, hooks the events on their way.          *)
(*                                                                         *)
(* Not represented: start and end times, run counts, extra attributes,     *)
(* check-in data, post functions.                                          *)
(***************************************************************************)
EXTENDS JobStats, FiniteSets, FiniteSetsExt

CONSTANTS NTasks,     \* the flow has that many resources to create tasks for
          Handlers,   \* hook requests being served
          Stoppers,   \* requests to stop the execution
          Sweepers,   \* goroutines that sweep old executions
          MaxTries,   \* attempts of RefreshStatus (the code makes 5)
          MaxRev,     \* bound: revisions of a job
          MaxLosses,  \* bound: events lost for good by the hook agent
          SubmitFails, \* whether the job service may refuse a job
          Expires     \* whether the job service forgets jobs long over

Tasks == 1 .. NTasks

Procs == Handlers \union Stoppers

ASSUME ConstantsAssumption ==
    /\ NTasks \in Nat \ {0} /\ MaxTries \in Nat \ {0} /\ MaxRev \in Nat
    /\ MaxLosses \in Nat /\ SubmitFails \in BOOLEAN /\ Expires \in BOOLEAN
    /\ Handlers \intersect Stoppers = {}

VARIABLES
    exec,    \* the execution's row
    taskRow,    \* the tasks' rows
    tx,      \* requests and their transactions
    flow,    \* the goroutine that creates the tasks
    sweep,   \* the sweepers
    jobs,    \* the job service: status and revision of each job
    hooks,   \* the job service: events not acknowledged yet
    direct,  \* who last set the execution's status directly, not from its tasks
    losses

vars == <<exec, taskRow, tx, flow, sweep, jobs, hooks, direct, losses>>

NoRow  == [status |-> "None", rev |-> 0, known |-> FALSE]
NoExec == [status |-> "None", rev |-> 0]

\* Of a transaction: nothing written.
Clean == [t \in Tasks |-> NoRow]
NoJob == [status |-> "Pending", rev |-> 0, live |-> FALSE]

NoEvent == [t |-> 0, status |-> "None", rev |-> 0]

IdleTx == [pc |-> "idle", ev |-> NoEvent, todo |-> {}, t |-> 0, rows |-> Clean,
           ex |-> NoExec, er |-> 0, st |-> "None", tries |-> 0, err |-> FALSE]

Init ==
    /\ exec = [status |-> "Running", rev |-> 0]
    /\ taskRow = [t \in Tasks |-> NoRow]
    /\ tx = [p \in Procs |-> IdleTx]
    /\ flow = [pc |-> "fetch", t |-> 1]
    /\ sweep = [d \in Sweepers |-> [pc |-> "idle", snap |-> Clean]]
    /\ jobs = [t \in Tasks |-> NoJob]
    /\ hooks = {}
    /\ direct = "none"
    /\ losses = 0

-----------------------------------------------------------------------------
(* The database.                                                           *)

VisibleRow(p, t) == IF tx[p].rows[t] # NoRow THEN tx[p].rows[t] ELSE taskRow[t]
VisibleExec(p) == IF tx[p].ex # NoExec THEN tx[p].ex ELSE exec

\* No transaction but p's has written the row.
RowFree(p, t) == \A q \in Procs \ {p} : tx[q].rows[t] = NoRow
ExecFree(p)   == \A q \in Procs \ {p} : tx[q].ex = NoExec

\* Commit, or roll back, what p has written.
CommitRows(p) ==
    /\ taskRow' = [t \in Tasks |-> VisibleRow(p, t)]
    /\ exec' = VisibleExec(p)

Rollback == UNCHANGED <<taskRow, exec>>

\* A statement that commits by itself writes the execution's row.
WriteExec(st, r, who) ==
    /\ \A q \in Procs : tx[q].ex = NoExec
    /\ exec' = IF exec = NoExec THEN NoExec ELSE [status |-> st, rev |-> r]
    /\ direct' = IF exec = NoExec THEN direct ELSE who

-----------------------------------------------------------------------------
(* RefreshStatus: the execution's status is computed from its tasks and    *)
(* written under an optimistic lock.                                       *)

\* Mutant: an error does not outweigh a stop.
AggregateStoppedFirst(S) ==
    IF \E s \in S : ~Final(s) THEN "Running"
    ELSE IF "Stopped" \in S THEN "Stopped"
    ELSE IF "Error" \in S THEN "Error"
    ELSE "Success"

Aggregate(S) ==
    IF \E s \in S : ~Final(s) THEN "Running"
    ELSE IF "Error" \in S THEN "Error"
    ELSE IF "Stopped" \in S THEN "Stopped"
    ELSE "Success"

StatusesOf(rows) == {rows[t].status : t \in {u \in Tasks : rows[u] # NoRow}}

\* Where a request continues after RefreshStatus.
AfterRefresh(p) == IF p \in Stoppers THEN "next" ELSE "commit"

RefreshGet(p) ==
    /\ tx[p].pc = "get"
    /\ tx' = [tx EXCEPT ![p] =
                 IF VisibleExec(p) = NoExec
                 THEN [@ EXCEPT !.err = TRUE, !.pc = AfterRefresh(p)]
                 ELSE [@ EXCEPT !.er = VisibleExec(p).rev, !.pc = "metrics"]]
    /\ UNCHANGED <<exec, taskRow, flow, sweep, jobs, hooks, direct, losses>>

RefreshMetrics(p) ==
    /\ tx[p].pc = "metrics"
    /\ LET S == StatusesOf([t \in Tasks |-> VisibleRow(p, t)])
       IN  tx' = [tx EXCEPT ![p] =
                     IF S = {} THEN [@ EXCEPT !.pc = AfterRefresh(p)]
                     ELSE [@ EXCEPT !.st = Aggregate(S), !.pc = "cas"]]
    /\ UNCHANGED <<exec, taskRow, flow, sweep, jobs, hooks, direct, losses>>

\* Mutant: the UPDATE has no condition on the revision.
RefreshCasUnguarded(p) ==
    /\ tx[p].pc = "cas"
    /\ ExecFree(p)
    /\ tx' = [tx EXCEPT ![p] = [@ EXCEPT !.pc = AfterRefresh(p),
                                         !.ex = [status |-> tx[p].st,
                                                 rev |-> exec.rev + 1]]]
    /\ UNCHANGED <<exec, taskRow, flow, sweep, jobs, hooks, direct, losses>>

\* Mutant: the attempts are not counted.
RefreshCasNoLimit(p) ==
    /\ tx[p].pc = "cas"
    /\ ExecFree(p)
    /\ LET r == tx[p]
           same == VisibleExec(p) # NoExec /\ VisibleExec(p).rev = r.er
       IN  tx' = [tx EXCEPT ![p] =
                     IF same
                     THEN [r EXCEPT !.pc = AfterRefresh(p), !.tries = 0,
                                    !.ex = [status |-> r.st, rev |-> r.er + 1]]
                     ELSE [r EXCEPT !.pc = "get", !.tries = @ + 1]]
    /\ UNCHANGED <<exec, taskRow, flow, sweep, jobs, hooks, direct, losses>>

RefreshCas(p) ==
    /\ tx[p].pc = "cas"
    /\ ExecFree(p)
    /\ LET r == tx[p]
           same == VisibleExec(p) # NoExec /\ VisibleExec(p).rev = r.er
       IN  tx' = [tx EXCEPT ![p] =
                     IF same
                     THEN [r EXCEPT !.pc = AfterRefresh(p), !.tries = 0,
                                    !.ex = [status |-> r.st, rev |-> r.er + 1]]
                     ELSE IF r.tries + 1 < MaxTries
                     THEN [r EXCEPT !.pc = "get", !.tries = @ + 1]
                     ELSE [r EXCEPT !.pc = AfterRefresh(p), !.tries = 0,
                                    !.err = TRUE]]
    /\ UNCHANGED <<exec, taskRow, flow, sweep, jobs, hooks, direct, losses>>

-----------------------------------------------------------------------------
(* The hook handler.  It finds the task by its job ID and answers 404 as   *)
(* long as there is none; the job service then sends the event again.      *)

HookUpdate(h) ==
    /\ tx[h].pc = "idle"
    /\ \E ev \in hooks :
         LET row == taskRow[ev.t]
             new == UpdateTask(row, ev)
         IN  /\ row.known
             /\ RowFree(h, ev.t)
             /\ tx' = [tx EXCEPT ![h] =
                          [IdleTx EXCEPT !.pc = "get", !.ev = ev,
                             !.rows[ev.t] = IF new = row THEN NoRow
                                            ELSE [status |-> new.status, rev |-> new.rev,
                                                  known |-> TRUE]]]
    /\ UNCHANGED <<exec, taskRow, flow, sweep, jobs, hooks, direct, losses>>

\* The answer ends the transaction; after an error nothing is written and the
\* event is sent again.
HookEnd(h) ==
    /\ tx[h].pc = "commit"
    /\ IF tx[h].err
       THEN Rollback /\ UNCHANGED hooks
       ELSE CommitRows(h) /\ hooks' = hooks \ {tx[h].ev}
    /\ tx' = [tx EXCEPT ![h] = IdleTx]
    /\ UNCHANGED <<flow, sweep, jobs, direct, losses>>

-----------------------------------------------------------------------------
(* Stop of an execution: each task's job is stopped in turn.               *)

StopGet(s) ==
    /\ tx[s].pc = "idle"
    /\ tx' = [tx EXCEPT ![s] = IF exec = NoExec THEN [@ EXCEPT !.pc = "done"]
                               ELSE [@ EXCEPT !.pc = "list", !.er = exec.rev,
                                              !.st = exec.status]]
    /\ UNCHANGED <<exec, taskRow, flow, sweep, jobs, hooks, direct, losses>>

StopList(s) ==
    /\ tx[s].pc = "list"
    /\ LET found == {t \in Tasks : taskRow[t] # NoRow}
       IN  tx' = [tx EXCEPT ![s].todo = found,
                            ![s].pc = IF found # {} THEN "next"
                                      ELSE IF Final(tx[s].st) THEN "done"
                                      ELSE "direct"]
    /\ UNCHANGED <<exec, taskRow, flow, sweep, jobs, hooks, direct, losses>>

\* No task was found: the execution's row is set to Stopped, by the revision
\* read before.
StopDirect(s) ==
    /\ tx[s].pc = "direct"
    /\ WriteExec("Stopped", tx[s].er + 1, "stop")
    /\ tx' = [tx EXCEPT ![s].pc = "done"]
    /\ UNCHANGED <<taskRow, flow, sweep, jobs, hooks, losses>>

\* What the job service does with a stop request, see JobLifecycle!StopLoad.
StopJob(t) ==
    IF Final(jobs[t].status) THEN UNCHANGED <<jobs, hooks>>
    ELSE /\ jobs' = [jobs EXCEPT ![t].status = "Stopped"]
         /\ hooks' = hooks \union {[t |-> t, status |-> "Stopped", rev |-> jobs[t].rev]}

\* Mutant: the request does not ask the job service and sets the row itself.
StopTaskSetsRow(s) ==
    /\ tx[s].pc = "next"
    /\ tx[s].todo # {}
    /\ LET t == Min(tx[s].todo)
       IN  tx' = [tx EXCEPT ![s] = [@ EXCEPT !.todo = tx[s].todo \ {t}, !.t = t, !.pc = "stop"]]
    /\ UNCHANGED <<exec, taskRow, flow, sweep, jobs, hooks, direct, losses>>

\* The next task.  If the job service does not know its job, or the row has no
\* job ID yet, the row is set to Stopped and the execution refreshed.
StopTask(s) ==
    /\ tx[s].pc = "next"
    /\ tx[s].todo # {}
    /\ LET t == Min(tx[s].todo)
           r == [tx[s] EXCEPT !.todo = @ \ {t}, !.t = t, !.err = FALSE]
       IN  \/ /\ VisibleRow(s, t) = NoRow
              /\ tx' = [tx EXCEPT ![s] = [r EXCEPT !.err = TRUE]]
              /\ UNCHANGED <<jobs, hooks>>
           \/ /\ VisibleRow(s, t).known /\ jobs[t].live
              /\ StopJob(t)
              /\ tx' = [tx EXCEPT ![s] = r]
           \/ /\ VisibleRow(s, t) # NoRow
              /\ ~ (VisibleRow(s, t).known /\ jobs[t].live)
              /\ tx' = [tx EXCEPT ![s] = [r EXCEPT !.pc = "stop"]]
              /\ UNCHANGED <<jobs, hooks>>
    /\ UNCHANGED <<exec, taskRow, flow, sweep, direct, losses>>

StopUpdate(s) ==
    /\ tx[s].pc = "stop"
    /\ LET t == tx[s].t
       IN  /\ RowFree(s, t)
           /\ tx' = [tx EXCEPT ![s] =
                        IF VisibleRow(s, t) = NoRow
                        THEN [@ EXCEPT !.pc = "next", !.err = TRUE]
                        ELSE [@ EXCEPT !.pc = "get",
                                 !.rows[t] = [VisibleRow(s, t) EXCEPT !.status = "Stopped"]]]
    /\ UNCHANGED <<exec, taskRow, flow, sweep, jobs, hooks, direct, losses>>

\* Only the last task's error makes the request fail.
StopEnd(s) ==
    /\ tx[s].pc = "next"
    /\ tx[s].todo = {}
    /\ IF tx[s].err THEN Rollback ELSE CommitRows(s)
    /\ tx' = [tx EXCEPT ![s] = [IdleTx EXCEPT !.pc = "done"]]
    /\ UNCHANGED <<flow, sweep, jobs, hooks, direct, losses>>

\* Transaction p waits for a row that q has written.
WaitsFor(p, q) ==
    \/ tx[p].pc = "cas" /\ tx[q].ex # NoExec
    \/ tx[p].pc = "stop" /\ tx[q].rows[tx[p].t] # NoRow

-----------------------------------------------------------------------------
(* The flow.                                                               *)

\* Fetching the resources takes its time, may fail and may find none (t = 0);
\* then the flow looks once whether the execution was stopped meanwhile.
FlowFetch ==
    /\ flow.pc = "fetch"
    /\ flow' \in [pc : {"check", "stop"}, t : {0, 1}]
    /\ UNCHANGED <<exec, taskRow, tx, sweep, jobs, hooks, direct, losses>>

\* After the check the flow prepares the destination, which may fail, and it may
\* turn out that all resources are to be skipped.
FlowCheck ==
    /\ flow.pc = "check"
    /\ \E then \in {"create", "markdone", "stop"} :
          flow' = [flow EXCEPT !.pc = IF exec = NoExec THEN "stop"
                                      ELSE IF exec.status = "Stopped" THEN "done"
                                      ELSE IF flow.t = 0 THEN "markdone"
                                      ELSE then]
    /\ UNCHANGED <<exec, taskRow, tx, sweep, jobs, hooks, direct, losses>>

\* createTaskRecord.  The foreign key makes the INSERT repeat the first look at
\* the execution.
FlowCreate ==
    /\ flow.pc = "create"
    /\ IF exec = NoExec
       THEN flow' = [flow EXCEPT !.pc = "failed"] /\ UNCHANGED taskRow
       ELSE /\ taskRow' = [taskRow EXCEPT ![flow.t] =
                           [status |-> "Pending", rev |-> 0, known |-> FALSE]]
            /\ flow' = [flow EXCEPT !.pc = "submit"]
    /\ UNCHANGED <<exec, tx, sweep, jobs, hooks, direct, losses>>

\* submitJob.  When it fails the row is deleted; the job may have been accepted
\* all the same, the answer being lost.
FlowSubmit ==
    /\ flow.pc = "submit"
    /\ LET accepted == [jobs EXCEPT ![flow.t] = [status |-> "Pending", rev |-> 1,
                                                 live |-> TRUE]]
       IN  \/ /\ jobs' = accepted
              /\ flow' = [flow EXCEPT !.pc = "populate"]
              /\ UNCHANGED taskRow
           \/ /\ SubmitFails
              /\ \A p \in Procs : tx[p].rows[flow.t] = NoRow
              /\ taskRow' = [taskRow EXCEPT ![flow.t] = NoRow]
              /\ flow' = [flow EXCEPT !.pc = "failed"]
              /\ jobs' \in {jobs, accepted}
    /\ UNCHANGED <<exec, tx, sweep, hooks, direct, losses>>

\* The job ID is stored in the row.
FlowPopulate ==
    /\ flow.pc = "populate"
    /\ \A p \in Procs : tx[p].rows[flow.t] = NoRow
    /\ taskRow' = [taskRow EXCEPT ![flow.t] = IF @ = NoRow THEN @ ELSE [@ EXCEPT !.known = TRUE]]
    /\ flow' = IF flow.t = NTasks THEN [flow EXCEPT !.pc = "done"]
               ELSE [pc |-> "create", t |-> flow.t + 1]
    /\ UNCHANGED <<exec, tx, sweep, jobs, hooks, direct, losses>>

\* createTasks returns an error; if it has created no task it marks the
\* execution done first.
FlowFailed ==
    /\ flow.pc = "failed"
    /\ flow' = [flow EXCEPT !.pc = "stop"]
    /\ IF flow.t = 1 THEN WriteExec("Success", exec.rev, "done")
                     ELSE UNCHANGED <<exec, direct>>
    /\ UNCHANGED <<taskRow, tx, sweep, jobs, hooks, losses>>

FlowMarkDone ==
    /\ flow.pc = "markdone"
    /\ flow' = [flow EXCEPT !.pc = "done"]
    /\ WriteExec("Success", exec.rev, "done")
    /\ UNCHANGED <<taskRow, tx, sweep, jobs, hooks, losses>>

\* markError: StopAndWait looks for tasks ...
FlowStop ==
    /\ flow.pc = "stop"
    /\ IF \E t \in Tasks : taskRow[t] # NoRow
       THEN /\ flow' = [pc |-> "stopping", t |-> 1]
            /\ UNCHANGED <<exec, direct>>
       ELSE /\ flow' = [flow EXCEPT !.pc = "wait"]
            /\ IF Final(exec.status) THEN UNCHANGED <<exec, direct>>
               ELSE WriteExec("Stopped", exec.rev + 1, "stop")
    /\ UNCHANGED <<taskRow, tx, sweep, jobs, hooks, losses>>

\* ... stops them one by one (the job service knows the job of each) ...
FlowStopTask ==
    /\ flow.pc = "stopping"
    /\ flow' = IF flow.t = NTasks THEN [flow EXCEPT !.pc = "wait"]
               ELSE [flow EXCEPT !.t = @ + 1]
    /\ IF taskRow[flow.t] = NoRow THEN UNCHANGED <<jobs, hooks>> ELSE StopJob(flow.t)
    /\ UNCHANGED <<exec, taskRow, tx, sweep, direct, losses>>

\* ... until the execution is final or ten seconds have passed; MarkError.
FlowMarkError ==
    /\ flow.pc = "wait"
    /\ flow' = [flow EXCEPT !.pc = "done"]
    /\ WriteExec("Error", exec.rev, "error")
    /\ UNCHANGED <<taskRow, tx, sweep, jobs, hooks, losses>>

-----------------------------------------------------------------------------
(* The sweeper deletes executions it finds final.                          *)

SweepPick(d) ==
    /\ sweep[d].pc = "idle"
    /\ exec # NoExec /\ Final(exec.status)
    /\ sweep' = [sweep EXCEPT ![d].pc = "list"]
    /\ UNCHANGED <<exec, taskRow, tx, flow, jobs, hooks, direct, losses>>

SweepList(d) ==
    /\ sweep[d].pc = "list"
    /\ sweep' = [sweep EXCEPT ![d] = [pc |-> "delete", snap |-> taskRow]]
    /\ UNCHANGED <<exec, taskRow, tx, flow, jobs, hooks, direct, losses>>

\* Delete a task of the list; a task that was not final ends the deletion.
SweepTask(d) ==
    /\ sweep[d].pc = "delete"
    /\ LET left == {t \in Tasks : sweep[d].snap[t] # NoRow}
           t == Min(left)
       IN  /\ left # {}
           /\ IF Final(sweep[d].snap[t].status)
              THEN /\ \A p \in Procs : tx[p].rows[t] = NoRow
                   /\ taskRow' = [taskRow EXCEPT ![t] = NoRow]
                   /\ sweep' = [sweep EXCEPT ![d].snap[t] = NoRow]
              ELSE /\ sweep' = [sweep EXCEPT ![d].pc = "done"]
                   /\ UNCHANGED taskRow
    /\ UNCHANGED <<exec, tx, flow, jobs, hooks, direct, losses>>

\* Mutant: the execution goes although it has got tasks since.
SweepExecNoKey(d) ==
    /\ sweep[d].pc = "delete"
    /\ sweep[d].snap = Clean
    /\ \A p \in Procs : tx[p].ex = NoExec
    /\ exec' = NoExec
    /\ sweep' = [sweep EXCEPT ![d].pc = "done"]
    /\ UNCHANGED <<taskRow, tx, flow, jobs, hooks, direct, losses>>

\* The foreign key of the tasks keeps an execution that has tasks.
SweepExec(d) ==
    /\ sweep[d].pc = "delete"
    /\ sweep[d].snap = Clean
    /\ \A p \in Procs : tx[p].ex = NoExec
    /\ exec' = IF taskRow = Clean THEN NoExec ELSE exec
    /\ sweep' = [sweep EXCEPT ![d].pc = "done"]
    /\ UNCHANGED <<taskRow, tx, flow, jobs, hooks, direct, losses>>

-----------------------------------------------------------------------------
(* The job service: a job runs, ends, is retried after an error, and is    *)
(* forgotten a day after its end.  Events are sent until acknowledged; an  *)
(* event the hook agent loses is sent again by the reaper.                 *)

Event(t) == [t |-> t, status |-> jobs'[t].status, rev |-> jobs'[t].rev]

JobRun(t) ==
    /\ jobs[t].live /\ jobs[t].status = "Pending"
    /\ jobs' = [jobs EXCEPT ![t].status = "Running"]
    /\ hooks' = hooks \union {Event(t)}
    /\ UNCHANGED <<exec, taskRow, tx, flow, sweep, direct, losses>>

JobEnd(t) ==
    /\ jobs[t].live /\ jobs[t].status = "Running"
    /\ \E s \in {"Success", "Error"} : jobs' = [jobs EXCEPT ![t].status = s]
    /\ hooks' = hooks \union {Event(t)}
    /\ UNCHANGED <<exec, taskRow, tx, flow, sweep, direct, losses>>

JobRetry(t) ==
    /\ jobs[t].live /\ jobs[t].status = "Error" /\ jobs[t].rev < MaxRev
    /\ jobs' = [jobs EXCEPT ![t].status = "Pending", ![t].rev = @ + 1]
    /\ UNCHANGED <<exec, taskRow, tx, flow, sweep, hooks, direct, losses>>

JobReport(t) ==
    /\ jobs[t].live
    /\ ~ Knows(taskRow[t], jobs[t].status, jobs[t].rev)
    /\ \A ev \in hooks : ev.t # t
    /\ \A h \in Handlers : tx[h].ev.t # t
    /\ hooks' = hooks \union {[t |-> t, status |-> jobs[t].status, rev |-> jobs[t].rev]}
    /\ UNCHANGED <<exec, taskRow, tx, flow, sweep, jobs, direct, losses>>

JobExpire(t) ==
    /\ Expires
    /\ jobs[t].live /\ Final(jobs[t].status)
    /\ jobs[t].status = "Error" => jobs[t].rev = MaxRev
    /\ \A ev \in hooks : ev.t # t
    /\ flow.pc = "done" /\ \A p \in Procs : tx[p].pc \in {"idle", "done"}
    /\ jobs' = [jobs EXCEPT ![t].live = FALSE]
    /\ UNCHANGED <<exec, taskRow, tx, flow, sweep, hooks, direct, losses>>

LoseEvent ==
    /\ losses < MaxLosses
    /\ losses' = losses + 1
    /\ \E ev \in hooks : hooks' = hooks \ {ev}
    /\ UNCHANGED <<exec, taskRow, tx, flow, sweep, jobs, direct>>

-----------------------------------------------------------------------------
Refresh(p) == RefreshGet(p) \/ RefreshMetrics(p) \/ RefreshCas(p)

Handle(h) == Refresh(h) \/ HookEnd(h)

Stop(s) == StopList(s) \/ StopDirect(s) \/ StopTask(s) \/ StopUpdate(s)
           \/ Refresh(s) \/ StopEnd(s)

Flow == FlowFetch \/ FlowCheck \/ FlowCreate \/ FlowSubmit \/ FlowPopulate
        \/ FlowFailed \/ FlowMarkDone \/ FlowStop \/ FlowStopTask \/ FlowMarkError

Sweep(d) == SweepPick(d) \/ SweepList(d) \/ SweepTask(d) \/ SweepExec(d)

Job(t) == JobRun(t) \/ JobEnd(t) \/ JobRetry(t)

Next ==
    \/ \E h \in Handlers : HookUpdate(h) \/ Handle(h)
    \/ \E s \in Stoppers : StopGet(s) \/ Stop(s)
    \/ Flow
    \/ \E d \in Sweepers : Sweep(d)
    \/ \E t \in Tasks : Job(t) \/ JobReport(t) \/ JobExpire(t)
    \/ LoseEvent

Spec == Init /\ [][Next]_vars

(***************************************************************************)
(* Fairness.  Goroutines and requests proceed, jobs run to their end, an   *)
(* event that is not acknowledged is sent again and served.  Stop requests *)
(* and sweeps need not happen.                                             *)
(***************************************************************************)
Fairness ==
    /\ \A h \in Handlers : WF_vars(Handle(h)) /\ WF_vars(HookUpdate(h))
    /\ \A s \in Stoppers : WF_vars(Stop(s))
    /\ WF_vars(Flow)
    /\ \A t \in Tasks : WF_vars(Job(t)) /\ WF_vars(JobReport(t))

FairSpec == Spec /\ Fairness

-----------------------------------------------------------------------------
RowType  == [status : Statuses, rev : Nat, known : BOOLEAN] \union {NoRow}
ExecType == [status : Statuses, rev : Nat] \union {NoExec}

\* Rows, requests and jobs keep their shape, and no two transactions hold the
\* same row.
TypeOK ==
    /\ exec \in ExecType
    /\ taskRow \in [Tasks -> RowType]
    /\ DOMAIN tx = Procs
    /\ \A p \in Procs : /\ tx[p].rows \in [Tasks -> RowType]
                        /\ tx[p].ex \in ExecType
                        /\ tx[p].todo \subseteq Tasks /\ tx[p].tries \in 0 .. MaxTries - 1
    /\ \A p, q \in Procs : p # q =>
          /\ \A t \in Tasks : NoRow \in {tx[p].rows[t], tx[q].rows[t]}
          /\ NoExec \in {tx[p].ex, tx[q].ex}
    /\ jobs \in [Tasks -> [status : Statuses, rev : Nat, live : BOOLEAN]]
    /\ hooks \subseteq [t : Tasks, status : Statuses, rev : Nat]
    /\ losses \in 0 .. MaxLosses

\* How bad a final status of a task is for its execution.
Severity == [Success |-> 1, Stopped |-> 2, Error |-> 3]

\* The status RefreshStatus computes is the one the tasks have: once every task
\* is final, however many hooks were handled at once, the execution is final
\* with the worst of their statuses, unless it was set directly.
ExecReflectsTasks ==
    LET S == StatusesOf(taskRow)
        computed == direct = "none" /\ flow.pc \notin {"failed", "stop", "stopping", "wait"}
        over == S # {} /\ (\A s \in S : Final(s))
    IN  computed /\ over =>
           exec.status \in S /\ \A s \in S : Severity[s] <= Severity[exec.status]

\* No two requests wait for each other's rows: hooks write a task before the
\* execution, a stop request that writes several tasks has met no hook of them.
NoDeadlock == \A p, q \in Procs : p # q => ~ (WaitsFor(p, q) /\ WaitsFor(q, p))

\* Every execution ends: jobs fail and are retried, hooks are lost, refreshes
\* conflict and give up, and the execution's status is final for good in the end.
EventuallyFinal == <>[](exec = NoExec \/ Final(exec.status))

\* A flow that finds its execution stopped creates no tasks: an execution that
\* was stopped before it had tasks gets none.
StoppedGetsNoTasks ==
    [][direct = "stop" => \A t \in Tasks : taskRow[t] = NoRow => taskRow'[t] = NoRow]_vars

\* No task outlives its execution, also when the sweeper works from a list that
\* the flow has added to since.
NoOrphanTasks == exec = NoExec => taskRow = Clean
=============================================================================
