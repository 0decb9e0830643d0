--------------------------- MODULE MCJobLifecycle ---------------------------
(* Small instances of JobLifecycle for TLC. *)
EXTENDS JobLifecycle

CONSTANTS w1, w2, s1, s2, r1

\* Everything in one process, or the second worker in a process of its own.
OneProcess == [t \in {w1, w2, s1, s2, r1} |-> "n1"]
TwoProcesses == [t \in {w1, w2, s1, s2, r1} |-> IF t = w2 THEN "n2" ELSE "n1"]

---------------------------------------------------------------------------
(* Two sets of faults: with a failed Redis command, a stop request and the *)
(* reaper; or a live worker taken for dead, a second one in another        *)
(* process, and a lost hook request.                                       *)

\* In the second set no stop request comes and the reaper is not due.
SceneInit ==
    /\ launch = "init" /\ stats = NoStats /\ task = NewTask
    /\ copy = [c \in Copies |-> NoCopy]
    /\ retryList = {} /\ resend = {} /\ crashes = 0 /\ redisFaults = 0
    /\ \/ /\ suspects = MaxSuspects /\ losses = MaxLosses
          /\ th = [t \in Threads |-> Idle]
       \/ /\ suspects = 0 /\ losses = 0
          /\ th = [t \in Threads |-> IF t \in {s1, r1} THEN [Idle EXCEPT !.pc = "done"] ELSE Idle]

SceneSpec == SceneInit /\ [][Next]_vars
=============================================================================
