-------------------------- MODULE MCTaskExecution ---------------------------
(* Small instances of TaskExecution for TLC. *)
EXTENDS TaskExecution, TLC

CONSTANTS h1, h2, s1, d1

\* Hook requests are interchangeable.
Symmetry == Permutations({h1, h2})

---------------------------------------------------------------------------
(* Two companies for the flow, one at a time: a request to stop, and a      *)
(* sweeper; submissions fail and jobs are forgotten in both.                *)

\* The request, or the sweeper, is over before it begins.
SceneInit ==
    /\ exec = [status |-> "Running", rev |-> 0]
    /\ taskRow = [t \in Tasks |-> NoRow]
    /\ flow = [pc |-> "fetch", t |-> 1]
    /\ jobs = [t \in Tasks |-> NoJob]
    /\ hooks = {} /\ direct = "none" /\ losses = 0
    /\ \E stop \in BOOLEAN :
        /\ tx = [p \in Procs |-> IF p = s1 /\ ~stop THEN [IdleTx EXCEPT !.pc = "done"] ELSE IdleTx]
        /\ sweep = [d \in Sweepers |-> [pc |-> IF stop THEN "done" ELSE "idle", snap |-> Clean]]

SceneSpec == SceneInit /\ [][Next]_vars

\* A stop, a failed submission and a forgotten job do not falsify the status
\* of the execution (ExecReflectsTasks); only a sweep that has deleted some of
\* the tasks leaves it with another status than theirs.
UnsweptReflectsTasks == (\A t \in Tasks : jobs[t] # NoJob => taskRow[t] # NoRow) => ExecReflectsTasks

\* Execution and tasks agree, nobody waits for ever for a row, and no task is
\* left without its execution.
ExecSound ==
    /\ TypeOK
    /\ UnsweptReflectsTasks
    /\ NoDeadlock
    /\ NoOrphanTasks
=============================================================================
