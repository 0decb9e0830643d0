---------------------------- MODULE MCBackground ----------------------------
(* Scenarios of work in the background: schedules, the turns of the        *)
(* enqueuers, and the collection of blobs.  Two vendors of schedules: the  *)
(* schedule "old" of the first may be replaced ("set") and deleted         *)
(* ("drop"), the second gets one ("new").                                  *)
EXTENDS Schedules, EnqueueTurns, BlobGC

MCVendor == [i \in Ids |-> IF i = "new" THEN "scanAll" ELSE "gc"]
\* Every artifact has the one layer.
SharedLayer == [a \in Arts |-> Layers]

MCOp == [r \in SchedRequests |-> CASE r = "new" -> "create" [] r = "drop" -> "none" [] OTHER -> "set"]

\* Which requests are made, whether jobservice restarts, and the time.
SchedScenarios == {<<{"set", "new"}, "over", 2>>, <<{"bad", "drop"}, "over", 2>>,
                   <<{"set", "drop"}, "over", 2>>, <<{"set"}, "idle", 2>>,
                   <<{"new"}, "idle", 2>>, <<{"new"}, "over", 1>>, <<{"drop"}, "idle", 1>>, <<{"drop"}, "over", 1>>}

SchedScenario(c) ==
    /\ sreq = [r \in SchedRequests |-> IF r \in c[1] THEN New ELSE Gone]
    /\ sync = [NoSync EXCEPT !.pc = c[2]]
    /\ now = c[3]

NoScheduling == <<{}, "over", 0>>

\* Beside the part that runs, the others are at rest.
BackgroundInit(part) ==
    /\ \E c \in IF part = "schedules" THEN SchedScenarios ELSE {NoScheduling} : SchedScenario(c)
    /\ SchedInit /\ TurnsInit /\ Init
    /\ part # "schedules" => policies[Old] = 1
    /\ part # "turns" => \A n \in Nodes : timer[n] = 0
=============================================================================
