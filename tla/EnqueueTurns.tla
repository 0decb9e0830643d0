---------------------------- MODULE EnqueueTurns ----------------------------
(***************************************************************************)
(* The turns of the enqueuers of several jobservice nodes.  Every node     *)
(* wakes up about every two minutes; the node that finds the shared        *)
(* timestamp older than two minutes sets it and puts the executions of the *)
(* coming four minutes in the queue.  Times are in seconds and relative to *)
(* the present, so that the state space is finite.                         *)
(***************************************************************************)
EXTENDS Naturals

CONSTANTS
    Nodes,
    Sleep, Horizon,   \* enqueuerSleep and enqueuerHorizon
    Jitter,           \* the random part of a node's waiting time
    MaxJitter,
    LockTTL,          \* expiry of the lock
    MaxTurnCrashes    \* bound on crashes and errors

ASSUME TurnsAssumption ==
    /\ Sleep \in Nat /\ Horizon \in Nat /\ LockTTL \in Nat /\ MaxTurnCrashes \in Nat
    /\ MaxJitter \in Nat /\ Jitter \subseteq 0 .. MaxJitter
    /\ Sleep > 3 /\ Horizon > Sleep + 8 + MaxJitter

VARIABLES
    timer,    \* seconds to the next turn of a node
    age,      \* seconds since the timestamp was set, up to a maximum
    ahead,    \* seconds for which executions are in the queue
    lock,     \* seconds after which the lock a crashed node left expires
    lost,     \* the last hit, if any, did not enqueue everything
    turnCrashes

turnVars == <<timer, age, ahead, lock, lost, turnCrashes>>

MaxAge == Sleep + 1

\* The nodes start at any time around the first one, with an empty queue.
TurnsInit ==
    /\ timer \in [Nodes -> {0, 1, Sleep - 1}]
    /\ \E n \in Nodes : timer[n] = 0
    /\ age = MaxAge
    /\ ahead = 0 /\ lost = TRUE
    /\ lock = 0 /\ turnCrashes = 0

\* nextTurn: a node that enqueued waits longer, one with an error still
\* longer, the others less.
NextTurn(hit, err) ==
    {(IF hit THEN IF err THEN Sleep + 8 ELSE Sleep + 3 ELSE Sleep - 3) + j : j \in Jitter}

ShouldEnqueue == lock = 0 /\ age > Sleep

\* An enqueuer that looks only two minutes ahead.
HitShort(n) ==
    /\ timer[n] = 0 /\ ShouldEnqueue
    /\ age' = 0
    /\ \E t \in NextTurn(TRUE, FALSE) : timer' = [timer EXCEPT ![n] = t]
    /\ ahead' = Sleep /\ lost' = FALSE
    /\ UNCHANGED <<lock, turnCrashes>>

\* The node takes the lock, reads the timestamp and sets it, gives the lock
\* back, and enqueues.
Hit(n) ==
    /\ timer[n] = 0 /\ ShouldEnqueue
    /\ age' = 0
    /\ \E t \in NextTurn(TRUE, FALSE) : timer' = [timer EXCEPT ![n] = t]
    /\ ahead' = Horizon /\ lost' = FALSE
    /\ UNCHANGED <<lock, turnCrashes>>

\* Reading the policies fails, or saving an execution does; only the latter
\* counts as an error for the next turn.
HitFails(n) ==
    /\ timer[n] = 0 /\ ShouldEnqueue
    /\ turnCrashes < MaxTurnCrashes
    /\ turnCrashes' = turnCrashes + 1
    /\ age' = 0 /\ lost' = TRUE
    /\ \E err \in BOOLEAN : \E t \in NextTurn(TRUE, err) :
         timer' = [timer EXCEPT ![n] = t]
    /\ UNCHANGED <<ahead, lock>>

\* The node dies after it set the timestamp, with or without the lock, and
\* comes back some time later.
CrashTurn(n) ==
    /\ timer[n] = 0 /\ ShouldEnqueue
    /\ turnCrashes < MaxTurnCrashes
    /\ turnCrashes' = turnCrashes + 1
    /\ age' = 0 /\ lost' = TRUE
    /\ lock' \in {0, LockTTL}
    /\ timer' = [timer EXCEPT ![n] = Sleep]
    /\ UNCHANGED ahead

Miss(n) ==
    /\ timer[n] = 0 /\ ~ShouldEnqueue
    /\ \E t \in NextTurn(FALSE, FALSE) : timer' = [timer EXCEPT ![n] = t]
    /\ UNCHANGED <<age, ahead, lock, lost, turnCrashes>>

Minus(a, b) == IF a > b THEN a - b ELSE 0

\* Time passes up to the next turn of a node.
Pass ==
    \E d \in {timer[n] : n \in Nodes} :
      /\ d > 0 /\ \A n \in Nodes : d <= timer[n]
      /\ timer' = [n \in Nodes |-> timer[n] - d]
      /\ age' = IF age + d > MaxAge THEN MaxAge ELSE age + d
      /\ ahead' = Minus(ahead, d)
      /\ lock' = Minus(lock, d)
      /\ UNCHANGED <<lost, turnCrashes>>

TurnsNext == Pass \/ \E n \in Nodes : Hit(n) \/ HitFails(n) \/ CrashTurn(n) \/ Miss(n)

TurnsSpec == TurnsInit /\ [][TurnsNext]_turnVars

---------------------------------------------------------------------------
\* Times are natural numbers within their bounds.
TurnsTypeOK ==
    /\ timer \in [Nodes -> Nat]
    /\ age \in 0 .. MaxAge /\ ahead \in 0 .. Horizon
    /\ lock \in Nat /\ lost \in BOOLEAN /\ turnCrashes \in Nat

\* The queue always holds the executions of the coming time: unless a hit was
\* lost to an error or a crash, no execution comes due before a node has put
\* it in the queue (nextTurn, shouldEnqueue, scheduleNextJobs).
QueueAhead == ~lost => ahead > 0
=============================================================================
