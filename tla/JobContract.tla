---------------------------- MODULE JobContract -----------------------------
(***************************************************************************)
(* What the job service promises its receiver about one job.  A job has a  *)
(* revision and a status.  Inside a revision the status only moves         *)
(* forward, and a final status is the last one; a new revision starts over *)
(* from Pending.  What the receiver records only moves forward too, is     *)
(* never ahead of the job, and within the job's current revision a         *)
(* recorded final status is the job's own.                                 *)
(***************************************************************************)
EXTENDS JobStats

VARIABLES status, rev, task

vars == <<status, rev, task>>

Init == status = "Pending" /\ rev = 0 /\ task = NewTask

Launch ==
    /\ rev = 0
    /\ rev' = 1
    /\ status' \in {"Pending", "Scheduled"}
    /\ UNCHANGED task

Advance ==
    /\ rev > 0
    /\ status' \in Statuses
    /\ Code(status) < Code(status')
    /\ UNCHANGED <<rev, task>>

Restart ==
    /\ rev > 0
    /\ rev' = rev + 1
    /\ status' = "Pending"
    /\ UNCHANGED task

\* A report the job has lived up to: an older revision, an earlier status of
\* the current one, or the current status.
Lived(ev) ==
    \/ ev.rev < rev
    \/ ev.rev = rev /\ (Code(ev.status) < Code(status) \/ ev.status = status)

Learn ==
    /\ task'.status \in Statuses /\ task'.rev \in 1 .. rev
    /\ Lived(task')
    /\ task' = UpdateTask(task, task') /\ task' # task
    /\ UNCHANGED <<status, rev>>

Next == Launch \/ Advance \/ Restart \/ Learn

Spec == Init /\ [][Next]_vars
=============================================================================
