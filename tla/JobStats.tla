------------------------------ MODULE JobStats ------------------------------
(***************************************************************************)
(* The record the job service keeps in Redis for one job, and the Lua      *)
(* scripts that are the only writers of its status.  A script runs         *)
(* atomically in Redis, so each one is an operator from the old record to  *)
(* the new one.                                                            *)
(*                                                                         *)
(* status, rev : the status hash fields "status" and "revision".           *)
(*               rev = 0 stands for a record that has not been saved yet.  *)
(* ack         : the last hook event the receiver acknowledged.            *)
(* track       : the job's counter in the in-progress hash, 0 when absent. *)
(* stale       : "update_time" is more than maxUpdateDuration in the past. *)
(*                                                                         *)
(* A revision is a Unix time in seconds taken when the record is saved or  *)
(* reset.  A reset follows the save or the reset before it by at least a   *)
(* retry back-off or the restart of a worker pool, several seconds, so     *)
(* revisions are modelled by consecutive naturals.                         *)
(***************************************************************************)
EXTENDS Integers

Statuses == {"Pending", "Scheduled", "Running", "Stopped", "Error", "Success"}

\* All final statuses share one code.
Code(s) == CASE s = "Pending"   -> 0
             [] s = "Scheduled" -> 1
             [] s = "Running"   -> 2
             [] OTHER           -> 3

Final(s) == Code(s) = 3

NoAck == [status |-> "None", rev |-> 0]

Acks == [status : Statuses, rev : Nat] \union {NoAck}

StatsType == [status : Statuses, rev : Nat, ack : Acks,
              track : 0 .. 2, stale : BOOLEAN]

NoStats == [status |-> "Pending", rev |-> 0, ack |-> NoAck,
            track |-> 0, stale |-> FALSE]

\* Mutant: the counter is not removed when nothing is left.
DecrementNoFloor(n) == n - 1

\* "hincrby -1", then "hdel" when nothing is left.
Decrement(n) == IF n > 1 THEN n - 1 ELSE 0

\* Save writes the whole record and puts the job under tracking.
Save(s, r) == [status |-> s, rev |-> r, ack |-> NoAck,
               track |-> 2, stale |-> FALSE]

(***************************************************************************)
(* SetStatusScript: move the status forward inside a revision.             *)
(***************************************************************************)
\* Mutant: a final status may replace another final status.
CanSetStatusSameCode(js, s, r) ==
    js.rev < r \/ (js.rev = r /\ Code(js.status) <= Code(s))

CanSetStatus(js, s, r) ==
    \/ js.rev < r
    \/ js.rev = r /\ (Code(js.status) < Code(s) \/ js.status = s)

SetStatus(js, s, r) ==
    IF CanSetStatus(js, s, r)
    THEN [js EXCEPT !.status = s,
                    !.stale  = FALSE,
                    !.track  = IF Final(s) THEN Decrement(@) ELSE @]
    ELSE js

(***************************************************************************)
(* HookAckScript: remember that the receiver has seen status s of          *)
(* revision r.                                                             *)
(***************************************************************************)
CanSetAck(js, s, r) ==
    IF js.ack = NoAck
    THEN js.rev <= r
    ELSE \/ js.ack.rev < r
         \/ js.ack.rev = r /\ Code(js.ack.status) <= Code(s)

HookAck(js, s, r) ==
    IF CanSetAck(js, s, r)
    THEN [js EXCEPT !.ack   = [status |-> s, rev |-> r],
                    !.track = IF Final(s) THEN Decrement(@) ELSE @]
    ELSE js

(***************************************************************************)
(* StatusResetScript: start a new revision, whatever the status is.        *)
(***************************************************************************)
\* Mutant: the revision is left as it was.
StatusResetSameRevision(js, r) ==
    [js EXCEPT !.status = "Pending", !.ack = NoAck, !.track = 2, !.stale = FALSE]

StatusReset(js, r) ==
    [js EXCEPT !.status = "Pending", !.rev = r, !.ack = NoAck,
               !.track = 2, !.stale = FALSE]

(***************************************************************************)
(* The reaper's comparison of the record with its ack: negative when the   *)
(* ack is ahead, 0 when they agree, positive when the ack is behind.       *)
(***************************************************************************)
\* Mutant: a record without an ack counts as consistent.
CompareNoAckConsistent(js) ==
    IF js.ack = NoAck THEN 0
    ELSE IF js.rev # js.ack.rev THEN js.rev - js.ack.rev
    ELSE Code(js.status) - Code(js.ack.status)

Compare(js) ==
    IF js.ack = NoAck THEN 1
    ELSE IF js.rev # js.ack.rev THEN js.rev - js.ack.rev
    ELSE Code(js.status) - Code(js.ack.status)

\* A hook event the receiver has already been told about, or told more than.
IsOutdated(js, ev) ==
    /\ js.ack # NoAck
    /\ \/ js.ack.rev > ev.rev
       \/ js.ack.rev = ev.rev /\ Code(js.ack.status) >= Code(ev.status)

(***************************************************************************)
(* The receiver's row for the job (table task) and its conditional UPDATE. *)
(***************************************************************************)
NewTask == [status |-> "Pending", rev |-> 0]

\* Mutant: the UPDATE has no condition on revision and status code.
UpdateTaskUnconditional(task, ev) == [status |-> ev.status, rev |-> ev.rev]

UpdateTask(task, ev) ==
    IF \/ task.rev < ev.rev
       \/ task.rev = ev.rev /\ Code(task.status) < Code(ev.status)
    THEN [status |-> ev.status, rev |-> ev.rev]
    ELSE task

\* The row tk has seen status st of revision r, or something later.
Knows(tk, st, r) ==
    r < tk.rev \/ (r = tk.rev /\ Code(st) <= Code(tk.status))
=============================================================================
