------------------------- MODULE JobLifecycleProofs -------------------------
(***************************************************************************)
(* Theorems about JobLifecycle, for every number of workers, stop requests *)
(* and reapers and every bound on crashes, losses and faults.              *)
(***************************************************************************)
EXTENDS JobLifecycle, TLAPS

-----------------------------------------------------------------------------
(* The scripts keep the shape of the record.                               *)

\* SetStatusScript returns a well-formed record.
LEMMA SetStatusType ==
    ASSUME NEW js \in StatsType, NEW s \in Statuses, NEW r \in Nat
    PROVE  SetStatus(js, s, r) \in StatsType
  <1>1. Decrement(js.track) \in 0 .. 2
    BY DEF Decrement, StatsType
  <1> QED BY <1>1, Zenon DEF SetStatus, StatsType

\* HookAckScript returns a well-formed record.
LEMMA HookAckType ==
    ASSUME NEW js \in StatsType, NEW s \in Statuses, NEW r \in Nat
    PROVE  HookAck(js, s, r) \in StatsType
  <1>1. Decrement(js.track) \in 0 .. 2
    BY DEF Decrement, StatsType
  <1>2. [status |-> s, rev |-> r] \in Acks
    BY Zenon DEF Acks
  <1> QED BY <1>1, <1>2, Zenon DEF HookAck, StatsType

\* StatusResetScript returns a well-formed record.
LEMMA StatusResetType ==
    ASSUME NEW js \in StatsType, NEW r \in Nat
    PROVE  StatusReset(js, r) \in StatsType
  <1>1. NoAck \in Acks /\ "Pending" \in Statuses /\ 2 \in 0 .. 2
    BY DEF Acks, Statuses
  <1> QED BY <1>1, Zenon DEF StatusReset, StatsType

\* The conditional UPDATE of the task row keeps the row well formed.
LEMMA UpdateTaskType ==
    ASSUME NEW tk \in [status : Statuses, rev : Nat], NEW ev \in Messages
    PROVE  UpdateTask(tk, ev) \in [status : Statuses, rev : Nat]
  BY Zenon DEF UpdateTask, Messages

\* A goroutine goes on in a well-formed state after a status change.
LEMMA ContinueType ==
    ASSUME NEW t \in Threads, NEW r \in ThreadType
    PROVE  /\ Errored(t, r) \in ThreadType
           /\ Continue(t, r) \in ThreadType
           /\ Idle \in ThreadType
           /\ \A q \in Build(r) : q \in ThreadType
  <1>1. 1 \in Copies
    BY ConstantsAssumption DEF Copies
  <1>2. Idle \in ThreadType
    BY <1>1, Zenon DEF Idle, ThreadType, Statuses
  <1>3. Errored(t, r) \in ThreadType
    BY Zenon DEF Errored, ThreadType
  <1>4. Continue(t, r) \in ThreadType
    BY <1>2, ZenonT(60) DEF Continue, ThreadType, Statuses
  <1>5. \A q \in Build(r) : q \in ThreadType
    <2>1. "Running" \in Statuses /\ "Error" \in Statuses
      BY Zenon DEF Statuses
    <2>2. [r EXCEPT !.pc = "set", !.tgt = "Running", !.err = FALSE] \in ThreadType
      BY <2>1, Zenon DEF ThreadType
    <2>3. [r EXCEPT !.pc = "set", !.tgt = "Error", !.err = TRUE] \in ThreadType
      BY <2>1, Zenon DEF ThreadType
    <2> QED BY <2>2, <2>3, Zenon DEF Build
  <1> QED BY <1>2, <1>3, <1>4, <1>5, Zenon
-----------------------------------------------------------------------------
(* Type correctness.                                                       *)

\* Every step keeps the state well formed.
LEMMA TypeStep == TypeOK /\ [Next]_vars => TypeOK'
  <1> SUFFICES ASSUME TypeOK, [Next]_vars PROVE TypeOK'
    BY Zenon
  <1> USE DEF TypeOK
  <1>a. /\ 1 \in Copies
        /\ Runners \subseteq Threads /\ Stoppers \subseteq Threads
        /\ Reapers \subseteq Threads
    BY ConstantsAssumption DEF Copies, Threads
  <1>b. \A t \in Threads : th[t] \in ThreadType
    BY Zenon
  <1>c. \A t \in Threads : Message(t) \in Messages
    BY Zenon DEF Message, Messages, ThreadType, Nodes
  <1>d. ASSUME NEW t \in Threads, NEW r \in ThreadType, th' = [th EXCEPT ![t] = r]
        PROVE  th' \in [Threads -> ThreadType]
    BY <1>d, Zenon
  <1>e. RedisFault => <<crashes, suspects, losses, redisFaults>>' \in
            (0 .. MaxCrashes) \X (0 .. MaxSuspects) \X (0 .. MaxLosses)
              \X (0 .. MaxRedisFaults)
    BY ConstantsAssumption DEF RedisFault
  <1>f. Loss => <<crashes, suspects, losses, redisFaults>>' \in
            (0 .. MaxCrashes) \X (0 .. MaxSuspects) \X (0 .. MaxLosses)
              \X (0 .. MaxRedisFaults)
    BY ConstantsAssumption DEF Loss
  <1>g. Statuses = {"Pending", "Scheduled", "Running", "Stopped", "Error", "Success"}
    BY Zenon DEF Statuses
  <1>h. \A r \in ThreadType :
            /\ \A p \in {"set", "send", "ack", "reset", "check", "remove", "done",
                         "failed", "load", "untrack", "update"} : [r EXCEPT !.pc = p] \in ThreadType
            /\ \A s \in Statuses : [r EXCEPT !.tgt = s] \in ThreadType
            /\ \A b \in BOOLEAN : [r EXCEPT !.err = b] \in ThreadType
            /\ \A n \in Nat : [r EXCEPT !.fails = n] \in ThreadType
            /\ \A n \in Nat : [r EXCEPT !.rev = n] \in ThreadType
    BY SMTT(30) DEF ThreadType
  <1>1. CASE Enqueue
    BY <1>1, <1>a DEF Enqueue, CopyType, faults
  <1>2. CASE SaveJob
    BY <1>2 DEF SaveJob, Save, StatsType, Statuses, Acks, faults
  <1>3. CASE LaunchFail
    BY <1>3, Zenon DEF LaunchFail, faults
  <1>4. CASE CommitTask
    BY <1>4, Zenon DEF CommitTask, faults
  <1>5. ASSUME NEW t \in Threads, Set(t) PROVE TypeOK'
    <2>1. th' \in [Threads -> ThreadType]
      <3>1. Errored(t, th[t]) \in ThreadType
        BY <1>b, ContinueType, Zenon
      <3>2. /\ Continue(t, Errored(t, th[t])) \in ThreadType
            /\ [Errored(t, th[t]) EXCEPT !.pc = "send"] \in ThreadType
            /\ [th[t] EXCEPT !.pc = "send"] \in ThreadType
        BY <3>1, <1>b, <1>h, ContinueType, Zenon
      <3> QED BY <1>5, <3>2, Zenon DEF Set
    <2>2. stats' \in StatsType
      <3>1. SetStatus(stats, th[t].tgt, th[t].rev) \in StatsType
        BY <1>b, SetStatusType, Zenon DEF ThreadType
      <3> QED BY <1>5, <3>1, Zenon DEF Set
    <2>3. retryList' \subseteq Messages
      BY <1>5, <1>c, Zenon DEF Set
    <2> QED BY <1>5, <2>1, <2>2, <2>3, <1>e, Zenon DEF Set, faults
  <1>6. ASSUME NEW t \in Threads, Send(t) PROVE TypeOK'
    <2>1. th' \in [Threads -> ThreadType]
      <3>1. /\ [th[t] EXCEPT !.pc = "ack"] \in ThreadType
            /\ Continue(t, th[t]) \in ThreadType
        BY <1>b, <1>h, ContinueType, Zenon
      <3> QED BY <1>6, <3>1, Zenon DEF Send
    <2>2. task' \in [status : Statuses, rev : Nat]
      BY <1>6, <1>c, UpdateTaskType DEF Send
    <2>3. resend' \subseteq Messages
      BY <1>6, <1>c DEF Send
    <2> QED BY <1>6, <2>1, <2>2, <2>3, <1>f, Zenon DEF Send, faults
  <1>7. ASSUME NEW t \in Threads, Ack(t) PROVE TypeOK'
    <2>1. th' \in [Threads -> ThreadType]
      BY <1>7, <1>b, ContinueType, Zenon DEF Ack
    <2>2. stats' \in StatsType
      BY <1>7, <1>b, HookAckType DEF Ack, ThreadType
    <2> QED BY <1>7, <2>1, <2>2, <1>e, Zenon DEF Ack, faults
  <1>8. ASSUME NEW ev \in resend, Resend(ev) PROVE TypeOK'
    <2>1. task' \in [status : Statuses, rev : Nat]
      BY <1>8, UpdateTaskType DEF Resend
    <2> QED BY <1>8, <2>1, <1>f, Zenon DEF Resend, faults
  <1>9. ASSUME NEW ch \in retryList, RetryStatusChange(ch) PROVE TypeOK'
    <2>1. ch.status \in Statuses /\ ch.rev \in Nat
      BY Zenon DEF Messages
    <2> QED BY <1>9, <2>1, SetStatusType, Zenon DEF RetryStatusChange, faults
  <1>10. ASSUME NEW w \in Runners, Fetch(w) PROVE TypeOK'
    <2>1. PICK c \in Copies :
            /\ copy' = [copy EXCEPT ![c].at = w]
            /\ th' = [th EXCEPT ![w] = [Idle EXCEPT !.pc = "track", !.copy = c,
                                                    !.fails = copy[c].fails]]
      BY <1>10, Zenon DEF Fetch
    <2>2. copy' \in [Copies -> CopyType]
      BY <2>1, Zenon DEF CopyType
    <2>3. th' \in [Threads -> ThreadType]
      <3>1. copy[c].fails \in Nat
        BY Zenon DEF CopyType
      <3>2. Idle \in ThreadType
        BY <1>a, <1>b, ContinueType, Zenon
      <3>3. [Idle EXCEPT !.pc = "track", !.copy = c, !.fails = copy[c].fails]
               \in ThreadType
        BY <3>1, <3>2, Zenon DEF ThreadType
      <3> QED BY <2>1, <3>3, <1>a, Zenon
    <2> QED BY <1>10, <2>2, <2>3, Zenon DEF Fetch, faults
  <1>11. ASSUME NEW w \in Runners, Track(w) PROVE TypeOK'
    <2>1. stats.rev \in Nat /\ stats.status \in Statuses
      BY Zenon DEF StatsType
    <2>2. [th[w] EXCEPT !.rev = stats.rev] \in ThreadType
      BY <2>1, <1>a, <1>b DEF ThreadType
    <2>3. th' \in [Threads -> ThreadType]
      <3> DEFINE r == [th[w] EXCEPT !.rev = stats.rev]
      <3>1. \A q \in Build(r) : q \in ThreadType
        BY <2>2, <1>a, ContinueType, Zenon
      <3>2. /\ [r EXCEPT !.pc = "reset"] \in ThreadType
            /\ [r EXCEPT !.pc = "check"] \in ThreadType
        BY <2>2, <1>h, Zenon
      <3>3. /\ [th[w] EXCEPT !.pc = "remove", !.err = TRUE] \in ThreadType
            /\ [th[w] EXCEPT !.pc = "remove", !.err = TRUE, !.fails = MaxFails]
                   \in ThreadType
        BY <1>a, <1>b, <1>h, ConstantsAssumption, Zenon
      <3>4. \E q \in ThreadType : th' = [th EXCEPT ![w] = q]
        BY <1>11, <3>1, <3>2, <3>3, Zenon DEF Track
      <3> QED BY <3>4, <1>a, Zenon
    <2> QED BY <1>11, <2>3, <1>e, Zenon DEF Track, faults
  <1>12. ASSUME NEW w \in Runners, Reset(w) PROVE TypeOK'
    <2>1. stats.rev + 1 \in Nat
      BY DEF StatsType
    <2>2. stats' \in StatsType
      BY <1>12, <2>1, StatusResetType, ZenonT(60) DEF Reset
    <2>3. [th[w] EXCEPT !.rev = stats'.rev] \in ThreadType
      BY <2>2, <1>a, <1>b DEF ThreadType, StatsType
    <2>4. th' \in [Threads -> ThreadType]
      <3>1. \A q \in Build([th[w] EXCEPT !.rev = stats'.rev]) : q \in ThreadType
        BY <2>3, <1>a, ContinueType, Zenon
      <3>2. [th[w] EXCEPT !.pc = "set", !.tgt = "Error", !.err = TRUE] \in ThreadType
        BY <1>a, <1>b, <1>g, <1>h, Zenon
      <3> QED BY <1>12, <3>1, <3>2, <1>a, Zenon DEF Reset
    <2> QED BY <1>12, <2>2, <2>4, <1>e, Zenon DEF Reset, faults
  <1>13. ASSUME NEW w \in Runners, Body(w) PROVE TypeOK'
    <2>1. th' \in [Threads -> ThreadType]
      <3> DEFINE r == [th[w] EXCEPT !.fails = IF ShouldRetry THEN @ ELSE MaxFails]
      <3>1. th[w].fails \in Nat
        BY <1>a, <1>b, Zenon DEF ThreadType
      <3>2. r \in ThreadType
        BY <1>a, <1>b, <1>h, <3>1, ConstantsAssumption, Zenon
      <3>3. /\ [r EXCEPT !.pc = "check"] \in ThreadType
            /\ [r EXCEPT !.pc = "set", !.tgt = "Error", !.err = TRUE] \in ThreadType
        BY <3>2, <1>g, <1>h, Zenon
      <3> QED BY <1>13, <3>3, <1>a, Zenon DEF Body
    <2> QED BY <1>13, <2>1, Zenon DEF Body, faults
  <1>14. ASSUME NEW w \in Runners, Check(w) PROVE TypeOK'
    <2>1. th' \in [Threads -> ThreadType]
      <3>1. /\ [th[w] EXCEPT !.pc = "remove"] \in ThreadType
            /\ [th[w] EXCEPT !.pc = "set", !.tgt = "Success"] \in ThreadType
        BY <1>a, <1>b, <1>g, <1>h, Zenon
      <3> QED BY <1>14, <3>1, <1>a, Zenon DEF Check
    <2> QED BY <1>14, <2>1, <1>e, Zenon DEF Check, faults
  <1>15. ASSUME NEW w \in Runners, Remove(w) PROVE TypeOK'
    <2>1. th' \in [Threads -> ThreadType]
      BY <1>15, <1>a, ContinueType, Zenon DEF Remove
    <2>2. copy' \in [Copies -> CopyType]
      <3>1. th[w].fails + 1 \in Nat
        BY <1>a, <1>b DEF ThreadType
      <3>2. [at |-> "retry", fails |-> th[w].fails + 1] \in CopyType
        BY <3>1, Zenon DEF CopyType
      <3>3. \A c \in Copies : [copy[c] EXCEPT !.at = "done"] \in CopyType
        BY Zenon DEF CopyType
      <3> QED BY <1>15, <3>2, <3>3, ZenonT(60) DEF Remove
    <2> QED BY <1>15, <2>1, <2>2, Zenon DEF Remove, faults
  <1>16. ASSUME NEW c \in Copies, Requeue(c) PROVE TypeOK'
    BY <1>16, Zenon DEF Requeue, CopyType, faults
  <1>17. ASSUME NEW s \in Stoppers, StopLoad(s) PROVE TypeOK'
    <2>1. th' \in [Threads -> ThreadType]
      <3>1. Idle \in ThreadType /\ stats.status \in Statuses /\ stats.rev \in Nat
        BY <1>a, <1>b, ContinueType, Zenon DEF StatsType
      <3>2. \A p \in {"done", "set"} :
              [Idle EXCEPT !.seen = stats.status, !.rev = stats.rev,
                           !.tgt = "Stopped", !.pc = p] \in ThreadType
        BY <3>1, <1>g, ZenonT(60) DEF ThreadType
      <3> QED BY <1>17, <3>2, <1>a, Zenon DEF StopLoad
    <2> QED BY <1>17, <2>1, Zenon DEF StopLoad, faults
  <1>18. ASSUME NEW s \in Stoppers, StopUnqueue(s) PROVE TypeOK'
    BY <1>18, <1>a, <1>b, SMTT(30) DEF StopUnqueue, ThreadType, CopyType, faults
  <1>19. ASSUME NEW r \in Reapers, ReapScan(r) PROVE TypeOK'
    BY <1>19, <1>a, <1>b DEF ReapScan, ThreadType, faults
  <1>20. ASSUME NEW r \in Reapers, ReapLoad(r) PROVE TypeOK'
    <2>1. th' \in [Threads -> ThreadType]
      <3> DEFINE q == [Idle EXCEPT !.rev = stats.rev]
      <3>1. Idle \in ThreadType /\ stats.status \in Statuses /\ stats.rev \in Nat
        BY <1>a, <1>b, ContinueType, Zenon DEF StatsType
      <3>2. q \in ThreadType
        BY <3>1, <1>h, Zenon
      <3>3. /\ [q EXCEPT !.pc = "untrack"] \in ThreadType
            /\ [q EXCEPT !.pc = "set", !.tgt = "Error"] \in ThreadType
            /\ [q EXCEPT !.pc = "send", !.tgt = stats.status] \in ThreadType
        BY <3>1, <3>2, <1>g, <1>h, Zenon
      <3>4. stats.ack = NoAck \/ stats.ack \in [status : Statuses, rev : Nat]
        BY Zenon DEF StatsType, Acks
      <3>5. stats.ack = NoAck => Compare(stats) = 1
        BY Zenon DEF Compare
      <3>6. ASSUME Compare(stats) < 0
            PROVE  [q EXCEPT !.pc = "update", !.tgt = stats.ack.status] \in ThreadType
        <4>1. stats.ack.status \in Statuses
          BY <3>4, <3>5, <3>6
        <4> QED BY <4>1, <3>2, <1>h, Zenon
      <3>7. ReapPlan(stats) \in ThreadType
        BY <3>1, <3>3, <3>6, Zenon DEF ReapPlan
      <3> QED BY <1>20, <3>7, <1>a, Zenon DEF ReapLoad
    <2> QED BY <1>20, <2>1, Zenon DEF ReapLoad, faults
  <1>21. ASSUME NEW r \in Reapers, ReapUntrack(r) PROVE TypeOK'
    BY <1>21, <1>a, <1>b, ContinueType, SMTT(30) DEF ReapUntrack, StatsType, faults
  <1>22. ASSUME NEW r \in Reapers, ReapUpdate(r) PROVE TypeOK'
    <2>1. th' \in [Threads -> ThreadType]
      BY <1>22, <1>a, <1>b, ContinueType, Zenon DEF ReapUpdate
    <2>2. stats' \in StatsType
      BY <1>22, <1>a, <1>b, SetStatusType, SMTT(30) DEF ReapUpdate, ThreadType
    <2>3. retryList' \subseteq Messages
      BY <1>22, <1>a, <1>c, Zenon DEF ReapUpdate
    <2> QED BY <1>22, <2>1, <2>2, <2>3, <1>e, Zenon DEF ReapUpdate, faults
  <1>23. CASE Age
    BY <1>23, Zenon DEF Age, StatsType, faults
  <1>24. ASSUME NEW n \in Nodes, Crash(n) PROVE TypeOK'
    <2>1. th' \in [Threads -> ThreadType]
      <3>1. \A t \in Threads : [th[t] EXCEPT !.pc = "failed"] \in ThreadType
        BY <1>b, <1>h, Zenon
      <3>2. \A t \in Threads : Idle \in ThreadType
        BY <1>b, ContinueType, Zenon
      <3> QED BY <1>24, <1>b, <3>1, <3>2, Zenon DEF Crash
    <2>2. copy' \in [Copies -> CopyType]
      BY <1>24 DEF Crash, CopyType
    <2>3. crashes' \in 0 .. MaxCrashes
      BY <1>24, ConstantsAssumption DEF Crash
    <2>4. retryList' \subseteq Messages /\ resend' \subseteq Messages
      BY <1>24, Zenon DEF Crash
    <2> QED BY <1>24, <2>1, <2>2, <2>3, <2>4, Zenon DEF Crash
  <1>25. ASSUME NEW w \in Runners, Suspect(w) PROVE TypeOK'
    <2>1. copy' \in [Copies -> CopyType]
      BY <1>25 DEF Suspect, CopyType
    <2> QED BY <1>25, <2>1, ConstantsAssumption DEF Suspect
  <1>26. CASE UNCHANGED vars
    BY <1>26, Zenon DEF vars, faults
  <1> QED
    BY <1>1, <1>2, <1>3, <1>4, <1>5, <1>6, <1>7, <1>8, <1>9, <1>10, <1>11, <1>12,
       <1>13, <1>14, <1>15, <1>16, <1>17, <1>18, <1>19, <1>20, <1>21, <1>22, <1>23,
       <1>24, <1>25, <1>26, <1>a, Zenon
       DEF Next, Run, Stop, Reap, Tracker

\* The state of the job, its queue entries, its goroutines and its receiver
\* keeps its shape in every behaviour.
THEOREM TypeCorrect == Spec => []TypeOK
  <1>1. Init => TypeOK
    BY ConstantsAssumption
       DEF Init, TypeOK, NoStats, StatsType, Statuses, Acks, NoCopy, CopyType,
           Idle, ThreadType, Copies, NewTask
  <1> QED BY <1>1, TypeStep, PTL DEF Spec

-----------------------------------------------------------------------------
(* Acks.  AckSound alone is not inductive: between the answer of the       *)
(* receiver and the ack script lies a step, in which the goroutine owes    *)
(* an ack for something the receiver must not forget.                      *)

AckInv ==
    /\ AckSound
    /\ \A t \in Threads : th[t].pc = "ack" => Knows(task, th[t].tgt, th[t].rev)

\* The conditional UPDATE records at least the event, and never goes back.
LEMMA UpdateTaskKnows ==
    ASSUME NEW tk \in [status : Statuses, rev : Nat], NEW ev \in Messages
    PROVE  /\ Knows(UpdateTask(tk, ev), ev.status, ev.rev)
           /\ \A st \in Statuses, r \in Nat :
                 Knows(tk, st, r) => Knows(UpdateTask(tk, ev), st, r)
  <1>1. \A st \in Statuses : Code(st) \in 0 .. 3
    BY DEF Code
  <1>2. /\ tk.status \in Statuses /\ tk.rev \in Nat
        /\ ev.status \in Statuses /\ ev.rev \in Nat
    BY Zenon DEF Messages
  <1> QED BY <1>1, <1>2 DEF UpdateTask, Knows

\* After a status change a goroutine does not owe an ack.
LEMMA ContinueNoAck ==
    ASSUME NEW t \in Threads, NEW r \in ThreadType
    PROVE  /\ Continue(t, r).pc # "ack"
           /\ \A q \in Build(r) : q.pc # "ack"
           /\ Idle.pc # "ack"
  BY ZenonT(60) DEF Continue, Build, Idle, ThreadType

\* A step that leaves the task row and the ack alone, and in which no
\* goroutine comes to owe an ack, keeps the acks sound.
LEMMA AckQuiet ==
    ASSUME TypeOK, AckInv, task' = task,
           stats'.ack = stats.ack \/ stats'.ack = NoAck,
           \A t \in Threads : th'[t].pc = "ack" => th'[t] = th[t]
    PROVE  AckInv'
  BY Zenon DEF AckInv, AckSound, TypeOK

\* Every step keeps the acks sound.
LEMMA AckStep == TypeOK /\ AckInv /\ [Next]_vars => AckInv'
  <1> SUFFICES ASSUME TypeOK, AckInv, [Next]_vars PROVE AckInv'
    BY Zenon
  <1>a. /\ Runners \subseteq Threads /\ Stoppers \subseteq Threads
        /\ Reapers \subseteq Threads
    BY Zenon DEF Threads
  <1>b. th \in [Threads -> ThreadType]
    BY Zenon DEF TypeOK
  <1>c. ASSUME NEW t \in Threads, NEW r, r.pc # "ack", th' = [th EXCEPT ![t] = r]
        PROVE  \A u \in Threads : th'[u].pc = "ack" => th'[u] = th[u]
    BY <1>b, <1>c, Zenon
  <1>d. ASSUME th' = th
        PROVE  \A u \in Threads : th'[u].pc = "ack" => th'[u] = th[u]
    BY <1>d, Zenon
  <1>e. \A s, r : SetStatus(stats, s, r).ack = stats.ack
    BY Zenon DEF SetStatus, TypeOK, StatsType
  <1>1. CASE Enqueue
    BY <1>1, <1>d, AckQuiet, Zenon DEF Enqueue
  <1>2. CASE SaveJob
    <2>1. stats'.ack = NoAck
      BY <1>2, Zenon DEF SaveJob, Save
    <2> QED BY <1>2, <2>1, <1>d, AckQuiet, Zenon DEF SaveJob
  <1>3. CASE LaunchFail \/ CommitTask
    BY <1>3, <1>d, AckQuiet, Zenon DEF LaunchFail, CommitTask
  <1>4. ASSUME NEW t \in Threads, Set(t) PROVE AckInv'
    <2>1. /\ Errored(t, th[t]) \in ThreadType
          /\ Continue(t, Errored(t, th[t])).pc # "ack"
      BY <1>b, ContinueType, ContinueNoAck, Zenon
    <2>2. /\ [th[t] EXCEPT !.pc = "send"].pc # "ack"
          /\ [Errored(t, th[t]) EXCEPT !.pc = "send"].pc # "ack"
      BY <2>1, <1>b, Zenon DEF ThreadType
    <2>3. \A u \in Threads : th'[u].pc = "ack" => th'[u] = th[u]
      BY <1>4, <2>1, <2>2, <1>b, Zenon DEF Set
    <2>4. stats'.ack = stats.ack
      BY <1>4, <1>e DEF Set
    <2> QED BY <1>4, <2>3, <2>4, AckQuiet, Zenon DEF Set
  <1>5. ASSUME NEW t \in Threads, Send(t) PROVE AckInv'
    <2>1. Message(t) \in Messages
      BY <1>b, Zenon DEF Message, Messages, ThreadType, Nodes
    <2>2. task' = task \/ task' = UpdateTask(task, Message(t))
      BY <1>5, Zenon DEF Send
    <2>3. \A st \in Statuses, r \in Nat : Knows(task, st, r) => Knows(task', st, r)
      BY <2>1, <2>2, UpdateTaskKnows DEF TypeOK
    <2>4. stats.ack # NoAck =>
            stats.ack.status \in Statuses /\ stats.ack.rev \in Nat
      BY Zenon DEF TypeOK, StatsType, Acks
    <2>5. AckSound'
      BY <1>5, <2>3, <2>4, Zenon DEF Send, AckInv, AckSound
    <2>6. ASSUME NEW u \in Threads, th'[u].pc = "ack"
          PROVE  Knows(task', th'[u].tgt, th'[u].rev)
      <3>1. th'[u] \in ThreadType
        BY <1>5, <1>b, <1>a, TypeStep, Zenon DEF TypeOK
      <3>2. CASE th'[u] = th[u] /\ u # t
        BY <3>1, <3>2, <2>3, <2>6, Zenon DEF AckInv, ThreadType
      <3>3. Continue(t, th[t]).pc # "ack"
        BY <1>b, ContinueNoAck, Zenon
      <3>4. ASSUME u = t
            PROVE  /\ th'[t] = [th[t] EXCEPT !.pc = "ack"]
                   /\ task' = UpdateTask(task, Message(t))
        BY <1>5, <1>b, <2>6, <3>3, <3>4, Zenon DEF Send
      <3>5. CASE u = t
        <4>1. th'[t].tgt = Message(t).status /\ th'[t].rev = Message(t).rev
          BY <3>4, <3>5, <1>b, ZenonT(60) DEF Message, ThreadType
        <4> QED BY <4>1, <3>4, <3>5, <2>1, UpdateTaskKnows DEF TypeOK
      <3> QED BY <1>5, <1>b, <3>2, <3>5, Zenon DEF Send
    <2> QED BY <2>5, <2>6, Zenon DEF AckInv
  <1>6. ASSUME NEW t \in Threads, Ack(t) PROVE AckInv'
    <2>1. Continue(t, th[t]).pc # "ack"
      BY <1>b, ContinueNoAck, Zenon
    <2>2. \A u \in Threads : th'[u].pc = "ack" => th'[u] = th[u]
      BY <1>6, <2>1, <1>b, Zenon DEF Ack
    <2>3. \/ stats'.ack = stats.ack
          \/ stats'.ack = [status |-> th[t].tgt, rev |-> th[t].rev]
      BY <1>6, Zenon DEF Ack, HookAck, TypeOK, StatsType
    <2>4. AckSound'
      BY <1>6, <2>3 DEF Ack, AckInv, AckSound
    <2> QED BY <1>6, <2>2, <2>4, Zenon DEF Ack, AckInv
  <1>7. ASSUME NEW ev \in resend, Resend(ev) PROVE AckInv'
    <2>1. ev \in Messages
      BY Zenon DEF TypeOK
    <2>2. task' = task \/ task' = UpdateTask(task, ev)
      BY <1>7, Zenon DEF Resend
    <2>3. \A st \in Statuses, r \in Nat : Knows(task, st, r) => Knows(task', st, r)
      BY <2>1, <2>2, UpdateTaskKnows DEF TypeOK
    <2>4. stats.ack # NoAck =>
            stats.ack.status \in Statuses /\ stats.ack.rev \in Nat
      BY Zenon DEF TypeOK, StatsType, Acks
    <2>5. AckSound'
      BY <1>7, <2>3, <2>4, Zenon DEF Resend, AckInv, AckSound
    <2> QED BY <1>7, <2>3, <2>5, <1>b, Zenon DEF Resend, AckInv, ThreadType
  <1>8. ASSUME NEW ch \in retryList, RetryStatusChange(ch) PROVE AckInv'
    BY <1>8, <1>d, <1>e, AckQuiet, Zenon DEF RetryStatusChange
  <1>9. ASSUME NEW w \in Runners, Fetch(w) PROVE AckInv'
    <2>1. \A c \in Copies : [Idle EXCEPT !.pc = "track", !.copy = c,
                                         !.fails = copy[c].fails].pc # "ack"
      BY Zenon DEF Idle
    <2>2. \A u \in Threads : th'[u].pc = "ack" => th'[u] = th[u]
      BY <1>9, <2>1, <1>a, <1>b, Zenon DEF Fetch
    <2> QED BY <1>9, <2>2, AckQuiet, Zenon DEF Fetch
  <1>10. ASSUME NEW w \in Runners, Track(w) PROVE AckInv'
    <2> DEFINE r == [th[w] EXCEPT !.rev = stats.rev]
    <2>1. r \in ThreadType
      BY <1>a, <1>b DEF TypeOK, StatsType, ThreadType
    <2>2. /\ \A q \in Build(r) : q.pc # "ack"
          /\ [r EXCEPT !.pc = "reset"].pc # "ack"
          /\ [r EXCEPT !.pc = "check"].pc # "ack"
      BY <2>1, <1>a, ContinueNoAck, Zenon DEF ThreadType
    <2>3. /\ [th[w] EXCEPT !.pc = "remove", !.err = TRUE].pc # "ack"
          /\ [th[w] EXCEPT !.pc = "remove", !.err = TRUE, !.fails = MaxFails].pc # "ack"
      BY <1>a, <1>b, Zenon DEF ThreadType
    <2>4. \E q : q.pc # "ack" /\ th' = [th EXCEPT ![w] = q]
      BY <1>10, <2>2, <2>3, Zenon DEF Track
    <2>5. \A u \in Threads : th'[u].pc = "ack" => th'[u] = th[u]
      BY <2>4, <1>a, <1>c, Zenon
    <2> QED BY <1>10, <2>5, AckQuiet, Zenon DEF Track
  <1>11. ASSUME NEW w \in Runners, Reset(w) PROVE AckInv'
    <2>1. [th[w] EXCEPT !.rev = stats'.rev] \in ThreadType
      BY <1>a, <1>b, TypeStep, SMTT(30) DEF TypeOK, StatsType, ThreadType
    <2>2. /\ \A q \in Build([th[w] EXCEPT !.rev = stats'.rev]) : q.pc # "ack"
          /\ [th[w] EXCEPT !.pc = "set", !.tgt = "Error", !.err = TRUE].pc # "ack"
      BY <2>1, <1>a, <1>b, ContinueNoAck, Zenon DEF ThreadType
    <2>3. \A u \in Threads : th'[u].pc = "ack" => th'[u] = th[u]
      BY <1>11, <2>2, <1>a, <1>b, Zenon DEF Reset
    <2>4. stats'.ack = stats.ack \/ stats'.ack = NoAck
      BY <1>11, Zenon DEF Reset, StatusReset, TypeOK, StatsType
    <2> QED BY <1>11, <2>3, <2>4, AckQuiet, Zenon DEF Reset
  <1>12. ASSUME NEW w \in Runners, Body(w) PROVE AckInv'
    <2>1. \A u \in Threads : th'[u].pc = "ack" => th'[u] = th[u]
      <3> DEFINE r == [th[w] EXCEPT !.fails = IF ShouldRetry THEN @ ELSE MaxFails]
      <3>1. DOMAIN r = DOMAIN th[w]
        BY Zenon
      <3>2. DOMAIN th[w] = {"pc", "seen", "rev", "tgt", "err", "copy", "fails"}
        BY <1>a, <1>b, Zenon DEF ThreadType
      <3>3. /\ [r EXCEPT !.pc = "check"].pc # "ack"
            /\ [r EXCEPT !.pc = "set", !.tgt = "Error", !.err = TRUE].pc # "ack"
        BY <3>1, <3>2, Zenon
      <3> QED BY <1>12, <3>3, <1>a, <1>b, Zenon DEF Body
    <2> QED BY <1>12, <2>1, AckQuiet, Zenon DEF Body
  <1>13. ASSUME NEW w \in Runners, Check(w) PROVE AckInv'
    <2>1. \A u \in Threads : th'[u].pc = "ack" => th'[u] = th[u]
      BY <1>13, <1>a, <1>b, Zenon DEF Check, ThreadType
    <2> QED BY <1>13, <2>1, AckQuiet, Zenon DEF Check
  <1>14. ASSUME NEW w \in Runners, Remove(w) PROVE AckInv'
    <2>1. \A u \in Threads : th'[u].pc = "ack" => th'[u] = th[u]
      BY <1>14, <1>a, <1>b, Zenon DEF Remove, Idle
    <2> QED BY <1>14, <2>1, AckQuiet, Zenon DEF Remove
  <1>15. ASSUME NEW c \in Copies, Requeue(c) PROVE AckInv'
    BY <1>15, <1>d, AckQuiet, Zenon DEF Requeue
  <1>16. ASSUME NEW s \in Stoppers, StopLoad(s) PROVE AckInv'
    <2>1. \A p \in {"done", "set"} :
             [Idle EXCEPT !.seen = stats.status, !.rev = stats.rev,
                          !.tgt = "Stopped", !.pc = p].pc # "ack"
      BY Zenon DEF Idle
    <2>2. \A u \in Threads : th'[u].pc = "ack" => th'[u] = th[u]
      BY <1>16, <2>1, <1>a, <1>b, Zenon DEF StopLoad
    <2> QED BY <1>16, <2>2, AckQuiet, Zenon DEF StopLoad
  <1>17. ASSUME NEW s \in Stoppers, StopUnqueue(s) PROVE AckInv'
    <2>1. \A u \in Threads : th'[u].pc = "ack" => th'[u] = th[u]
      BY <1>17, <1>a, <1>b, Zenon DEF StopUnqueue, ThreadType
    <2> QED BY <1>17, <2>1, AckQuiet, Zenon DEF StopUnqueue
  <1>18. ASSUME NEW r \in Reapers, ReapScan(r) PROVE AckInv'
    <2>1. \A u \in Threads : th'[u].pc = "ack" => th'[u] = th[u]
      BY <1>18, <1>a, <1>b, Zenon DEF ReapScan, ThreadType
    <2> QED BY <1>18, <2>1, AckQuiet, Zenon DEF ReapScan
  <1>19. ASSUME NEW r \in Reapers, ReapLoad(r) PROVE AckInv'
    <2>1. ReapPlan(stats).pc # "ack"
      BY Zenon DEF ReapPlan, Idle
    <2>2. \A u \in Threads : th'[u].pc = "ack" => th'[u] = th[u]
      BY <1>19, <2>1, <1>a, <1>b, Zenon DEF ReapLoad
    <2> QED BY <1>19, <2>2, AckQuiet, Zenon DEF ReapLoad
  <1>20. ASSUME NEW r \in Reapers, ReapUntrack(r) PROVE AckInv'
    <2>1. \A u \in Threads : th'[u].pc = "ack" => th'[u] = th[u]
      BY <1>20, <1>a, <1>b, Zenon DEF ReapUntrack, Idle
    <2>2. stats'.ack = stats.ack
      BY <1>20, Zenon DEF ReapUntrack, TypeOK, StatsType
    <2> QED BY <1>20, <2>1, <2>2, AckQuiet, Zenon DEF ReapUntrack
  <1>21. ASSUME NEW r \in Reapers, ReapUpdate(r) PROVE AckInv'
    <2>1. \A u \in Threads : th'[u].pc = "ack" => th'[u] = th[u]
      BY <1>21, <1>a, <1>b, Zenon DEF ReapUpdate, Idle
    <2>2. stats'.ack = stats.ack
      BY <1>21, <1>e, ZenonT(60) DEF ReapUpdate
    <2> QED BY <1>21, <2>1, <2>2, AckQuiet, Zenon DEF ReapUpdate
  <1>22. CASE Age
    <2>1. stats'.ack = stats.ack
      BY <1>22, Zenon DEF Age, TypeOK, StatsType
    <2> QED BY <1>22, <2>1, <1>d, AckQuiet, Zenon DEF Age
  <1>23. ASSUME NEW n \in Nodes, Crash(n) PROVE AckInv'
    <2>1. ASSUME NEW u \in Threads, th'[u].pc = "ack" PROVE th'[u] = th[u]
      <3>1. Idle.pc # "ack" /\ [th[u] EXCEPT !.pc = "failed"].pc # "ack"
        BY <1>b, Zenon DEF Idle, ThreadType
      <3>2. th'[u] \in {th[u], Idle, [th[u] EXCEPT !.pc = "failed"]}
        BY <1>23, Zenon DEF Crash
      <3> QED BY <2>1, <3>1, <3>2, Zenon
    <2> QED BY <1>23, <2>1, AckQuiet, Zenon DEF Crash
  <1>24. ASSUME NEW w \in Runners, Suspect(w) PROVE AckInv'
    BY <1>24, <1>d, AckQuiet, Zenon DEF Suspect
  <1>25. CASE UNCHANGED vars
    BY <1>25, <1>d, AckQuiet, Zenon DEF vars
  <1> QED
    BY <1>1, <1>2, <1>3, <1>4, <1>5, <1>6, <1>7, <1>8, <1>9, <1>10, <1>11, <1>12,
       <1>13, <1>14, <1>15, <1>16, <1>17, <1>18, <1>19, <1>20, <1>21, <1>22, <1>23,
       <1>24, <1>25, <1>a, Zenon
       DEF Next, Run, Stop, Reap, Tracker

\* The ack in the job's record never claims more than core has recorded, with
\* any number of crashes, lost hooks and failed Redis commands.
THEOREM AckSafe == Spec => []AckSound
  <1>1. Init => AckInv
    BY DEF Init, AckInv, AckSound, NoStats, Idle
  <1>2. AckInv => AckSound
    BY Zenon DEF AckInv
  <1> QED BY <1>1, <1>2, TypeCorrect, AckStep, PTL DEF Spec

-----------------------------------------------------------------------------
(* As long as no Redis command fails, the job service and core together    *)
(* implement JobContract: with any number of workers, stop requests and    *)
(* reapers, crashes, live workers taken for dead and lost hooks.           *)
(*                                                                         *)
(* The inductive invariant says that everything in flight towards core is  *)
(* something the job has lived up to: a hook being sent, an event being    *)
(* retried, and what core has recorded already.                            *)

Lived(js, s, r) ==
    \/ r < js.rev
    \/ r = js.rev /\ (Code(s) < Code(js.status) \/ s = js.status)

\* Program counters of a goroutine that holds a loaded record.
Loaded == {"set", "send", "ack", "reset", "body", "check", "update"}

Sound(js, r) ==
    /\ r.rev <= js.rev
    /\ r.pc \in Loaded => r.rev > 0
    /\ r.pc = "load" => js.rev > 0
    /\ r.pc = "send" => Lived(js, r.tgt, r.rev)

CoreInv ==
    /\ retryList = {}
    /\ Lived(stats, task.status, task.rev)
    /\ \A ev \in resend : ev.rev > 0 /\ Lived(stats, ev.status, ev.rev)
    /\ \A t \in Threads : Sound(stats, th[t])
    /\ launch \in {"init", "enqueued", "scheduled"} => stats.rev = 0
    /\ launch \in {"saved", "committed"} => stats.rev > 0
    /\ stats.rev = 0 => stats.track = 0

\* How the record may change: not at all, forward in its revision, or to a
\* new revision.
Forward(js, js2) ==
    \/ js2.rev = js.rev /\ js2.status = js.status
    \/ js2.rev = js.rev /\ Code(js.status) < Code(js2.status)
    \/ js2.rev = js.rev + 1

-----------------------------------------------------------------------------
\* Codes are small numbers.
LEMMA CodeType == \A s \in Statuses : Code(s) \in 0 .. 3
  BY DEF Code

\* What the job has lived up to stays lived up to.
LEMMA ForwardLived ==
    ASSUME NEW js \in StatsType, NEW js2 \in StatsType, Forward(js, js2)
    PROVE  /\ \A s \in Statuses, r \in Nat : Lived(js, s, r) => Lived(js2, s, r)
           /\ \A r \in ThreadType : Sound(js, r) => Sound(js2, r)
  <1>1. /\ js.rev \in Nat /\ js.status \in Statuses
        /\ js2.rev \in Nat /\ js2.status \in Statuses
    BY Zenon DEF StatsType
  <1>2. \A s \in Statuses, r \in Nat : Lived(js, s, r) => Lived(js2, s, r)
    BY <1>1, CodeType DEF Lived, Forward
  <1>3. ASSUME NEW r \in ThreadType, Sound(js, r) PROVE Sound(js2, r)
    <2>1. r.tgt \in Statuses /\ r.rev \in Nat
      BY Zenon DEF ThreadType
    <2> QED BY <1>1, <1>2, <1>3, <2>1 DEF Sound, Forward
  <1> QED BY <1>2, <1>3, Zenon

\* The script moves the status forward, or leaves it as it is, for a caller
\* whose revision is not ahead of the record.
LEMMA SetStatusForward ==
    ASSUME NEW js \in StatsType, NEW s \in Statuses, NEW r \in Nat, r <= js.rev
    PROVE  /\ Forward(js, SetStatus(js, s, r))
           /\ SetStatus(js, s, r).rev = js.rev
           /\ CanSetStatus(js, s, r) => Lived(SetStatus(js, s, r), s, r)
  <1> DEFINE js2 == SetStatus(js, s, r)
  <1>1. /\ js.rev \in Nat /\ js.status \in Statuses
        /\ DOMAIN js = {"status", "rev", "ack", "track", "stale"}
    BY Zenon DEF StatsType
  <1>2. CASE CanSetStatus(js, s, r)
    <2>1. js.rev = r /\ (Code(js.status) < Code(s) \/ js.status = s)
      BY <1>1, <1>2 DEF CanSetStatus
    <2>2. js2.status = s /\ js2.rev = js.rev
      BY <1>1, <1>2, Zenon DEF SetStatus
    <2> QED BY <1>1, <2>1, <2>2, Zenon DEF Forward, Lived
  <1>3. CASE ~ CanSetStatus(js, s, r)
    BY <1>1, <1>3, Zenon DEF SetStatus, Forward
  <1> QED BY <1>2, <1>3, Zenon

\* A goroutine goes on soundly after a status change.
LEMMA ContinueSound ==
    ASSUME NEW js \in StatsType, NEW t \in Threads, NEW r \in ThreadType,
           Sound(js, r), r.pc \in Loaded
    PROVE  /\ Sound(js, Continue(t, r))
           /\ Sound(js, Errored(t, r)) /\ Errored(t, r).pc = r.pc
           /\ Errored(t, r).tgt = r.tgt /\ Errored(t, r).rev = r.rev
           /\ \A q \in Build(r) : Sound(js, q)
  <1>1. js.rev \in Nat /\ r.rev \in Nat
    BY Zenon DEF StatsType, ThreadType
  <1>2. Sound(js, Idle)
    BY <1>1 DEF Sound, Idle, Loaded
  <1>3. Sound(js, Continue(t, r))
    BY <1>1, <1>2, Zenon DEF Sound, Continue, Loaded, ThreadType
  <1>4. /\ Sound(js, Errored(t, r)) /\ Errored(t, r).pc = r.pc
        /\ Errored(t, r).tgt = r.tgt /\ Errored(t, r).rev = r.rev
    BY Zenon DEF Sound, Errored, Loaded, ThreadType
  <1>5. \A q \in Build(r) : Sound(js, q)
    BY Zenon DEF Sound, Build, Loaded, ThreadType
  <1> QED BY <1>3, <1>4, <1>5, Zenon

\* An idle goroutine is sound.
LEMMA IdleSound == ASSUME NEW js \in StatsType PROVE Sound(js, Idle)
  BY DEF Sound, Idle, Loaded, StatsType

\* One goroutine moves: it is enough to look at that one.
LEMMA OneMoves ==
    ASSUME TypeOK, TypeOK', CoreInv, Forward(stats, stats'), NEW t \in Threads,
           NEW r, Sound(stats', r), th' = [th EXCEPT ![t] = r]
    PROVE  \A u \in Threads : Sound(stats', th'[u])
  <1>1. \A u \in Threads : th[u] \in ThreadType /\ Sound(stats, th[u])
    BY Zenon DEF TypeOK, CoreInv
  <1>2. \A u \in Threads : Sound(stats', th[u])
    BY <1>1, ForwardLived, Zenon DEF TypeOK
  <1> QED BY <1>2, Zenon DEF TypeOK

\* The parts of the invariant that do not speak of goroutines.
LEMMA KeepRest ==
    ASSUME TypeOK, TypeOK', CoreInv, Forward(stats, stats'),
           launch' = launch, retryList' = {}, resend' \subseteq resend,
           task' = task,
           stats'.rev = stats.rev \/ stats.rev > 0,
           stats'.rev = 0 => stats'.track = 0,
           \A u \in Threads : Sound(stats', th'[u])
    PROVE  CoreInv'
  <1>1. \A ev \in resend : ev.status \in Statuses /\ ev.rev \in Nat
    BY Zenon DEF TypeOK, Messages
  <1>2. \A ev \in resend : Lived(stats', ev.status, ev.rev)
    BY <1>1, ForwardLived, Zenon DEF CoreInv, TypeOK
  <1>3. task.status \in Statuses /\ task.rev \in Nat
    BY Zenon DEF TypeOK
  <1>4. Lived(stats', task.status, task.rev)
    BY <1>3, ForwardLived, Zenon DEF CoreInv, TypeOK
  <1>5. stats.rev \in Nat /\ stats'.rev \in Nat
    BY Zenon DEF TypeOK, StatsType
  <1>6. stats.rev > 0 => stats'.rev > 0
    BY <1>5 DEF Forward
  <1> QED BY <1>2, <1>4, <1>5, <1>6 DEF CoreInv

\* Building the job's context keeps the record the worker holds.
LEMMA BuildSound ==
    ASSUME NEW js \in StatsType, NEW r \in ThreadType, r.rev > 0, r.rev <= js.rev
    PROVE  \A q \in Build(r) : Sound(js, q)
  <1>1. r.rev \in Nat /\ DOMAIN r = {"pc", "seen", "rev", "tgt", "err", "copy", "fails"}
    BY Zenon DEF ThreadType
  <1> QED BY <1>1, ZenonT(60) DEF Build, Sound, Loaded

-----------------------------------------------------------------------------
\* As long as Redis answers every step keeps what is in flight lived up to.
LEMMA CoreStep ==
    ASSUME redisFaults' = 0, TypeOK, TypeOK', CoreInv, [Next]_vars
    PROVE  CoreInv'
  <1>a. /\ Runners \subseteq Threads /\ Stoppers \subseteq Threads
        /\ Reapers \subseteq Threads
    BY Zenon DEF Threads
  <1>b. \A t \in Threads : th[t] \in ThreadType /\ Sound(stats, th[t])
    BY Zenon DEF TypeOK, CoreInv
  <1>c. ~ RedisFault
    BY DEF RedisFault, TypeOK
  <1>d. /\ stats \in StatsType /\ stats' \in StatsType
        /\ stats.rev \in Nat /\ stats.status \in Statuses
        /\ DOMAIN stats = {"status", "rev", "ack", "track", "stale"}
    BY Zenon DEF TypeOK, StatsType
  <1>e. ASSUME stats'.rev = stats.rev, stats'.status = stats.status
        PROVE  Forward(stats, stats')
    BY <1>e, Zenon DEF Forward
  <1>f. ASSUME Forward(stats, stats'), th' = th
        PROVE  \A u \in Threads : Sound(stats', th'[u])
    BY <1>f, <1>b, <1>d, ForwardLived, Zenon
  <1>g. \A t \in Threads : th[t].pc \in Loaded => stats.rev > 0
    <2>1. \A t \in Threads : th[t].rev \in Nat
      BY <1>b, Zenon DEF ThreadType
    <2> QED BY <1>b, <1>d, <2>1 DEF Sound
  <1>h. retryList = {} /\ (stats.rev = 0 => stats.track = 0)
    BY Zenon DEF CoreInv
  <1>1. CASE Enqueue
    <2>1. \A u \in Threads : Sound(stats', th'[u])
      BY <1>1, <1>e, <1>f, Zenon DEF Enqueue
    <2> QED BY <1>1, <2>1, Zenon DEF Enqueue, CoreInv
  <1>2. CASE SaveJob
    <2>1. stats.rev = 0 /\ stats'.rev = 1
      BY <1>2, Zenon DEF SaveJob, Save, CoreInv
    <2>2. Forward(stats, stats')
      BY <2>1 DEF Forward
    <2>3. \A u \in Threads : Sound(stats', th'[u])
      BY <1>2, <2>2, <1>f, Zenon DEF SaveJob
    <2>4. \A ev \in resend : Lived(stats', ev.status, ev.rev)
      BY <1>d, <2>2, ForwardLived, Zenon DEF CoreInv, TypeOK, Messages
    <2>5. Lived(stats', task.status, task.rev)
      BY <1>d, <2>2, ForwardLived, Zenon DEF CoreInv, TypeOK
    <2> QED BY <1>2, <2>1, <2>3, <2>4, <2>5 DEF SaveJob, CoreInv
  <1>3. CASE LaunchFail
    <2>1. \A u \in Threads : Sound(stats', th'[u])
      BY <1>3, <1>e, <1>f, Zenon DEF LaunchFail
    <2> QED BY <1>3, <2>1, Zenon DEF LaunchFail, CoreInv
  <1>4. CASE CommitTask
    <2>1. \A u \in Threads : Sound(stats', th'[u])
      BY <1>4, <1>e, <1>f, Zenon DEF CommitTask
    <2> QED BY <1>4, <2>1, Zenon DEF CommitTask, CoreInv
  <1>5. ASSUME NEW t \in Threads, Set(t) PROVE CoreInv'
    <2>1. /\ th[t].pc \in Loaded /\ th[t].rev <= stats.rev
          /\ th[t].tgt \in Statuses /\ th[t].rev \in Nat
      BY <1>5, <1>b, Zenon DEF Set, Loaded, Sound, ThreadType
    <2>2. CASE CanSetStatus(stats, th[t].tgt, th[t].rev)
      <3>1. stats' = SetStatus(stats, th[t].tgt, th[t].rev)
            /\ th' = [th EXCEPT ![t].pc = "send"] /\ retryList' = retryList
        BY <1>5, <1>c, <2>2, Zenon DEF Set
      <3>2. /\ Forward(stats, stats') /\ stats'.rev = stats.rev
            /\ Lived(stats', th[t].tgt, th[t].rev)
        BY <3>1, <2>1, <2>2, <1>d, SetStatusForward, Zenon
      <3>3. Sound(stats', th[t])
        BY <1>b, <1>d, <3>2, ForwardLived, Zenon
      <3>4. Sound(stats', [th[t] EXCEPT !.pc = "send"])
        BY <1>b, <2>1, <3>2, <3>3, Zenon DEF Sound, ThreadType, Loaded
      <3>5. \A u \in Threads : Sound(stats', th'[u])
        BY <3>1, <3>2, <3>4, OneMoves, Zenon
      <3>6. stats'.rev # 0
        BY <3>2, <2>1, <1>g
      <3> QED BY <1>5, <1>h, <3>1, <3>2, <3>5, <3>6, KeepRest, Zenon DEF Set
    <2>3. CASE ~ CanSetStatus(stats, th[t].tgt, th[t].rev)
      <3>1. stats' = stats /\ retryList' = retryList
            /\ th' = [th EXCEPT ![t] = Continue(t, Errored(t, th[t]))]
        BY <1>5, <1>c, <2>3, Zenon DEF Set
      <3>2. Sound(stats, Errored(t, th[t])) /\ Errored(t, th[t]).pc \in Loaded
            /\ Errored(t, th[t]) \in ThreadType
        BY <1>b, <1>d, <2>1, ContinueSound, ContinueType
      <3>3. Sound(stats', Continue(t, Errored(t, th[t])))
        BY <3>1, <3>2, <1>d, ContinueSound, Zenon
      <3>4. Forward(stats, stats')
        BY <3>1, <1>e, Zenon
      <3>5. \A u \in Threads : Sound(stats', th'[u])
        BY <3>1, <3>3, <3>4, OneMoves, Zenon
      <3> QED BY <1>5, <1>h, <3>1, <3>4, <3>5, KeepRest, Zenon DEF Set
    <2> QED BY <2>2, <2>3, Zenon
  <1>6. ASSUME NEW t \in Threads, Send(t) PROVE CoreInv'
    <2>1. /\ th[t].pc \in Loaded /\ th[t].rev > 0
          /\ Lived(stats, th[t].tgt, th[t].rev) /\ stats' = stats
      BY <1>6, <1>b, Zenon DEF Send, Loaded, Sound
    <2>2. Message(t).status = th[t].tgt /\ Message(t).rev = th[t].rev
      BY Zenon DEF Message
    <2>3. Sound(stats, Continue(t, th[t]))
      BY <1>b, <1>d, <2>1, ContinueSound, Zenon
    <2>4. Sound(stats, [th[t] EXCEPT !.pc = "ack"])
      BY <1>b, <2>1, Zenon DEF Sound, Loaded, ThreadType
    <2>5. Forward(stats, stats')
      BY <2>1, <1>e, Zenon
    <2>6. \A u \in Threads : Sound(stats', th'[u])
      BY <1>6, <2>1, <2>3, <2>4, <2>5, OneMoves, ZenonT(60) DEF Send
    <2>7. resend' \subseteq resend \union {Message(t)}
      BY <1>6, Zenon DEF Send
    <2>8. \A ev \in resend' : ev.rev > 0 /\ Lived(stats', ev.status, ev.rev)
      BY <2>1, <2>2, <2>7, Zenon DEF CoreInv
    <2>9. Lived(stats', task'.status, task'.rev)
      BY <1>6, <2>1, <2>2 DEF Send, UpdateTask, CoreInv
    <2> QED BY <1>6, <2>1, <2>6, <2>8, <2>9, Zenon DEF Send, CoreInv
  <1>7. ASSUME NEW t \in Threads, Ack(t) PROVE CoreInv'
    <2>1. th[t].pc \in Loaded
      BY <1>7, Zenon DEF Ack, Loaded
    <2>2. stats' = HookAck(stats, th[t].tgt, th[t].rev)
      BY <1>7, <1>c, Zenon DEF Ack
    <2>3. stats'.rev = stats.rev /\ stats'.status = stats.status
      BY <2>2, <1>d, Zenon DEF HookAck
    <2>4. Forward(stats, stats')
      BY <2>3, <1>e, Zenon
    <2>5. Sound(stats, Continue(t, th[t]))
      BY <1>b, <1>d, <2>1, ContinueSound, Zenon
    <2>6. Sound(stats', Continue(t, th[t]))
      BY <2>4, <2>5, <1>b, <1>d, ContinueType, ForwardLived, Zenon
    <2>7. \A u \in Threads : Sound(stats', th'[u])
      BY <1>7, <2>4, <2>6, OneMoves, Zenon DEF Ack
    <2>8. stats'.rev # 0
      BY <2>1, <2>3, <1>g
    <2> QED BY <1>7, <1>h, <2>3, <2>4, <2>7, <2>8, KeepRest, Zenon DEF Ack
  <1>8. ASSUME NEW ev \in resend, Resend(ev) PROVE CoreInv'
    <2>1. stats' = stats /\ th' = th /\ resend' \subseteq resend
      BY <1>8, Zenon DEF Resend
    <2>2. Lived(stats', task'.status, task'.rev)
      BY <1>8, <2>1 DEF Resend, UpdateTask, CoreInv
    <2> QED BY <1>8, <2>1, <2>2, Zenon DEF Resend, CoreInv
  <1>9. ASSUME NEW ch \in retryList, RetryStatusChange(ch) PROVE CoreInv'
    BY <1>h, Zenon
  <1>10. ASSUME NEW w \in Runners, Fetch(w) PROVE CoreInv'
    <2>1. PICK c \in Copies :
            th' = [th EXCEPT ![w] = [Idle EXCEPT !.pc = "track", !.copy = c,
                                                 !.fails = copy[c].fails]]
      BY <1>10, Zenon DEF Fetch
    <2>2. Sound(stats, [Idle EXCEPT !.pc = "track", !.copy = c,
                                    !.fails = copy[c].fails])
      BY <1>d DEF Sound, Idle, Loaded
    <2>3. stats' = stats
      BY <1>10, Zenon DEF Fetch
    <2>4. \A u \in Threads : Sound(stats', th'[u])
      BY <2>1, <2>2, <2>3, <1>a, <1>e, OneMoves, Zenon
    <2> QED BY <1>10, <1>e, <1>h, <2>3, <2>4, KeepRest, Zenon DEF Fetch
  <1>11. ASSUME NEW w \in Runners, Track(w) PROVE CoreInv'
    <2> DEFINE r == [th[w] EXCEPT !.rev = stats.rev]
    <2>1. r \in ThreadType /\ th[w] \in ThreadType
      BY <1>a, <1>b, <1>d DEF ThreadType
    <2>2. ASSUME stats.rev > 0
          PROVE  /\ \A q \in Build(r) : Sound(stats, q)
                 /\ Sound(stats, [r EXCEPT !.pc = "reset"])
                 /\ Sound(stats, [r EXCEPT !.pc = "check"])
      BY <2>1, <2>2, <1>d, BuildSound DEF Sound, Loaded, ThreadType
    <2>3. /\ Sound(stats, [th[w] EXCEPT !.pc = "remove", !.err = TRUE])
          /\ Sound(stats, [th[w] EXCEPT !.pc = "remove", !.err = TRUE,
                                        !.fails = MaxFails])
      BY <1>a, <1>b, <2>1, ZenonT(60) DEF Sound, Loaded, ThreadType
    <2>4. stats' = stats
      BY <1>11, Zenon DEF Track
    <2>5. \E q : Sound(stats, q) /\ th' = [th EXCEPT ![w] = q]
      BY <1>11, <2>2, <2>3, Zenon DEF Track
    <2>6. \A u \in Threads : Sound(stats', th'[u])
      BY <2>4, <2>5, <1>a, <1>e, OneMoves, Zenon
    <2> QED BY <1>11, <1>e, <1>h, <2>4, <2>6, KeepRest, Zenon DEF Track
  <1>12. ASSUME NEW w \in Runners, Reset(w) PROVE CoreInv'
    <2>1. th[w].pc \in Loaded /\ stats.rev > 0 /\ th[w] \in ThreadType
      BY <1>12, <1>a, <1>b, <1>g, Zenon DEF Reset, Loaded
    <2>2. stats' = StatusReset(stats, stats.rev + 1)
      BY <1>12, <1>c, Zenon DEF Reset
    <2>3. stats'.rev = stats.rev + 1
      BY <2>2, <1>d, Zenon DEF StatusReset
    <2>4. Forward(stats, stats')
      BY <2>3, Zenon DEF Forward
    <2> DEFINE r == [th[w] EXCEPT !.rev = stats'.rev]
    <2>r. r \in ThreadType /\ r.rev = stats.rev + 1
      BY <2>1, <2>3, <1>d DEF ThreadType
    <2>5. \A q \in Build(r) : Sound(stats', q)
      <3>1. r.rev > 0 /\ r.rev <= stats'.rev
        BY <2>r, <2>3, <1>d
      <3> HIDE DEF r
      <3> QED BY <2>r, <3>1, <1>d, BuildSound, Zenon
    <2>6. \E q : Sound(stats', q) /\ th' = [th EXCEPT ![w] = q]
      BY <1>12, <1>c, <2>5, Zenon DEF Reset
    <2>7. \A u \in Threads : Sound(stats', th'[u])
      BY <2>4, <2>6, <1>a, OneMoves, Zenon
    <2> QED BY <1>12, <1>d, <1>h, <2>1, <2>3, <2>4, <2>7, KeepRest DEF Reset
  <1>13. ASSUME NEW w \in Runners, Body(w) PROVE CoreInv'
    <2> DEFINE r == [th[w] EXCEPT !.fails = IF ShouldRetry THEN @ ELSE MaxFails]
    <2>1. /\ th[w].pc \in Loaded /\ th[w] \in ThreadType
          /\ Sound(stats, th[w]) /\ stats' = stats
      BY <1>13, <1>a, <1>b, Zenon DEF Body, Loaded
    <2>2. /\ DOMAIN r = {"pc", "seen", "rev", "tgt", "err", "copy", "fails"}
          /\ r.rev = th[w].rev
      BY <2>1, Zenon DEF ThreadType
    <2>3. /\ Sound(stats, [r EXCEPT !.pc = "check"])
          /\ Sound(stats, [r EXCEPT !.pc = "set", !.tgt = "Error", !.err = TRUE])
      BY <2>1, <2>2, Zenon DEF Sound, Loaded
    <2>4. \E q : Sound(stats, q) /\ th' = [th EXCEPT ![w] = q]
      BY <1>13, <2>3, Zenon DEF Body
    <2>5. \A u \in Threads : Sound(stats', th'[u])
      BY <2>1, <2>4, <1>a, <1>e, OneMoves, Zenon
    <2> QED BY <1>13, <1>e, <1>h, <2>1, <2>5, KeepRest, Zenon DEF Body
  <1>14. ASSUME NEW w \in Runners, Check(w) PROVE CoreInv'
    <2>1. /\ th[w].pc \in Loaded /\ th[w] \in ThreadType
          /\ Sound(stats, th[w]) /\ stats' = stats
      BY <1>14, <1>a, <1>b, Zenon DEF Check, Loaded
    <2>2. /\ Sound(stats, [th[w] EXCEPT !.pc = "remove"])
          /\ Sound(stats, [th[w] EXCEPT !.pc = "set", !.tgt = "Success"])
      BY <2>1, Zenon DEF Sound, Loaded, ThreadType
    <2>3. \E q : Sound(stats, q) /\ th' = [th EXCEPT ![w] = q]
      BY <1>14, <2>2, Zenon DEF Check
    <2>4. \A u \in Threads : Sound(stats', th'[u])
      BY <2>1, <2>3, <1>a, <1>e, OneMoves, Zenon
    <2> QED BY <1>14, <1>e, <1>h, <2>1, <2>4, KeepRest, Zenon DEF Check
  <1>15. ASSUME NEW w \in Runners, Remove(w) PROVE CoreInv'
    <2>1. stats' = stats /\ th' = [th EXCEPT ![w] = Idle]
      BY <1>15, Zenon DEF Remove
    <2>2. \A u \in Threads : Sound(stats', th'[u])
      BY <2>1, <1>a, <1>d, <1>e, IdleSound, OneMoves, Zenon
    <2> QED BY <1>15, <1>e, <1>h, <2>1, <2>2, KeepRest, Zenon DEF Remove
  <1>16. ASSUME NEW c \in Copies, Requeue(c) PROVE CoreInv'
    BY <1>16, <1>e, <1>f, <1>h, KeepRest, Zenon DEF Requeue
  <1>17. ASSUME NEW s \in Stoppers, StopLoad(s) PROVE CoreInv'
    <2>1. stats' = stats /\ stats.rev > 0
      BY <1>17, Zenon DEF StopLoad, CoreInv
    <2>2. \A p \in {"done", "set"} :
             Sound(stats, [Idle EXCEPT !.seen = stats.status, !.rev = stats.rev,
                                       !.tgt = "Stopped", !.pc = p])
      BY <2>1, <1>d DEF Sound, Idle, Loaded
    <2>3. \E q : Sound(stats, q) /\ th' = [th EXCEPT ![s] = q]
      BY <1>17, <2>2, Zenon DEF StopLoad
    <2>4. \A u \in Threads : Sound(stats', th'[u])
      BY <2>1, <2>3, <1>a, <1>e, OneMoves, Zenon
    <2> QED BY <1>17, <1>e, <1>h, <2>1, <2>4, KeepRest, Zenon DEF StopLoad
  <1>18. ASSUME NEW s \in Stoppers, StopUnqueue(s) PROVE CoreInv'
    <2>1. stats' = stats /\ th' = [th EXCEPT ![s].pc = "done"]
      BY <1>18, Zenon DEF StopUnqueue
    <2>2. Sound(stats, [th[s] EXCEPT !.pc = "done"])
      BY <1>a, <1>b, Zenon DEF Sound, Loaded, ThreadType
    <2>3. \A u \in Threads : Sound(stats', th'[u])
      BY <2>1, <2>2, <1>a, <1>e, OneMoves, Zenon
    <2> QED BY <1>18, <1>e, <1>h, <2>1, <2>3, KeepRest, Zenon DEF StopUnqueue
  <1>19. ASSUME NEW r \in Reapers, ReapScan(r) PROVE CoreInv'
    <2>1. stats' = stats /\ th' = [th EXCEPT ![r].pc = "load"] /\ stats.rev > 0
      BY <1>19, <1>d, <1>h DEF ReapScan
    <2>2. Sound(stats, [th[r] EXCEPT !.pc = "load"])
      BY <1>a, <1>b, <2>1, Zenon DEF Sound, Loaded, ThreadType
    <2>3. \A u \in Threads : Sound(stats', th'[u])
      BY <2>1, <2>2, <1>a, <1>e, OneMoves, Zenon
    <2> QED BY <1>19, <1>e, <1>h, <2>1, <2>3, KeepRest, Zenon DEF ReapScan
  <1>20. ASSUME NEW r \in Reapers, ReapLoad(r) PROVE CoreInv'
    <2>1. stats' = stats /\ stats.rev > 0
      BY <1>20, <1>a, <1>b, Zenon DEF ReapLoad, Sound
    <2>2. Sound(stats, ReapPlan(stats))
      BY <2>1, <1>d DEF ReapPlan, Sound, Lived, Loaded, Idle
    <2>3. \A u \in Threads : Sound(stats', th'[u])
      BY <1>20, <2>1, <2>2, <1>a, <1>e, OneMoves, Zenon DEF ReapLoad
    <2> QED BY <1>20, <1>e, <1>h, <2>1, <2>3, KeepRest, Zenon DEF ReapLoad
  <1>21. ASSUME NEW r \in Reapers, ReapUntrack(r) PROVE CoreInv'
    <2>1. /\ stats'.rev = stats.rev /\ stats'.status = stats.status
          /\ stats'.track = 0
      BY <1>21, <1>d, Zenon DEF ReapUntrack
    <2>2. \A u \in Threads : Sound(stats', th'[u])
      BY <1>21, <2>1, <1>a, <1>d, <1>e, IdleSound, OneMoves, Zenon DEF ReapUntrack
    <2> QED BY <1>21, <1>e, <1>h, <2>1, <2>2, KeepRest, Zenon DEF ReapUntrack
  <1>22. ASSUME NEW r \in Reapers, ReapUpdate(r) PROVE CoreInv'
    <2>1. /\ th[r].pc \in Loaded /\ th[r].rev <= stats.rev
          /\ th[r].tgt \in Statuses /\ th[r].rev \in Nat
      BY <1>22, <1>a, <1>b, Zenon DEF ReapUpdate, Loaded, Sound, ThreadType
    <2>2. stats' = SetStatus(stats, th[r].tgt, th[r].rev) /\ retryList' = retryList
          /\ th' = [th EXCEPT ![r] = Idle]
      BY <1>22, <1>c, Zenon DEF ReapUpdate
    <2>3. Forward(stats, stats') /\ stats'.rev = stats.rev
      BY <2>1, <2>2, <1>d, SetStatusForward, Zenon
    <2>4. \A u \in Threads : Sound(stats', th'[u])
      BY <2>2, <2>3, <1>a, <1>d, IdleSound, OneMoves, Zenon
    <2>5. stats'.rev # 0
      BY <2>1, <2>3, <1>a, <1>g
    <2> QED BY <1>22, <1>h, <2>2, <2>3, <2>4, <2>5, KeepRest, Zenon DEF ReapUpdate
  <1>23. CASE Age
    <2>1. /\ stats'.rev = stats.rev /\ stats'.status = stats.status
          /\ stats'.track = stats.track
      BY <1>23, <1>d, Zenon DEF Age
    <2> QED BY <1>23, <1>e, <1>f, <1>h, <2>1, KeepRest, Zenon DEF Age
  <1>24. ASSUME NEW n \in Nodes, Crash(n) PROVE CoreInv'
    <2>1. ASSUME NEW u \in Threads PROVE Sound(stats', th'[u])
      <3>1. Sound(stats, [th[u] EXCEPT !.pc = "failed"]) /\ Sound(stats, Idle)
        BY <1>b, <1>d, IdleSound, Zenon DEF Sound, Loaded, ThreadType
      <3>2. th'[u] \in {th[u], Idle, [th[u] EXCEPT !.pc = "failed"]} /\ stats' = stats
        BY <1>24, Zenon DEF Crash
      <3> QED BY <1>b, <3>1, <3>2, Zenon
    <2> QED BY <1>24, <1>e, <1>h, <2>1, KeepRest, Zenon DEF Crash
  <1>25. ASSUME NEW w \in Runners, Suspect(w) PROVE CoreInv'
    BY <1>25, <1>e, <1>f, <1>h, KeepRest, Zenon DEF Suspect
  <1>26. CASE UNCHANGED vars
    BY <1>26, <1>e, <1>f, <1>h, KeepRest, Zenon DEF vars
  <1> QED
    BY <1>1, <1>2, <1>3, <1>4, <1>5, <1>6, <1>7, <1>8, <1>9, <1>10, <1>11, <1>12,
       <1>13, <1>14, <1>15, <1>16, <1>17, <1>18, <1>19, <1>20, <1>21, <1>22, <1>23,
       <1>24, <1>25, <1>26, <1>a, Zenon
       DEF Next, Run, Stop, Reap, Tracker

-----------------------------------------------------------------------------
\* A change of the record alone, inside a revision, is a step of the contract.
LEMMA AdvanceStep ==
    ASSUME TypeOK, TypeOK', task' = task, Forward(stats, stats'),
           stats'.rev = stats.rev, stats.rev > 0 \/ stats'.status = stats.status
    PROVE  [Contract!Next]_(Contract!vars)
  <1>1. stats.rev \in Nat /\ stats'.status \in Statuses
    BY Zenon DEF TypeOK, StatsType
  <1> QED
    BY <1>1 DEF Forward, Contract!Next, Contract!vars, Contract!Advance,
                Contract!Statuses, Contract!Code, Statuses, Code

\* An event the job has lived up to, delivered or not, is a step of the contract.
LEMMA LearnStep ==
    ASSUME TypeOK, TypeOK', stats' = stats,
           NEW ev \in Messages, ev.rev > 0, Lived(stats, ev.status, ev.rev),
           task' \in {task, UpdateTask(task, ev)}
    PROVE  [Contract!Next]_(Contract!vars)
  <1>1. CASE task' = task
    BY <1>1, Zenon DEF Contract!vars
  <1>2. CASE task' # task
    <2>1. /\ ev.status \in Statuses /\ ev.rev \in Nat /\ stats.rev \in Nat
          /\ task.rev \in Nat /\ task.status \in Statuses
          /\ stats.status \in Statuses
      BY Zenon DEF TypeOK, StatsType, Messages
    <2>2. /\ task' = [status |-> ev.status, rev |-> ev.rev]
          /\ \/ task.rev < ev.rev
             \/ task.rev = ev.rev /\ Code(task.status) < Code(ev.status)
      BY <1>2, Zenon DEF UpdateTask
    <2>3. task'.status = ev.status /\ task'.rev = ev.rev
      BY <2>2, Zenon
    <2>4. Contract!Lived(task')
      BY <2>3, Zenon DEF Contract!Lived, Contract!Code, Lived, Code
    <2>5. task' = Contract!UpdateTask(task, task')
      BY <2>2, <2>3, Zenon DEF Contract!UpdateTask, Contract!Code, Code
    <2>6. task'.status \in Contract!Statuses /\ task'.rev \in 1 .. stats.rev
      BY <2>1, <2>3 DEF Contract!Statuses, Statuses, Lived
    <2>7. Contract!Learn
      BY <1>2, <2>4, <2>5, <2>6, Zenon DEF Contract!Learn
    <2> QED BY <2>7, Zenon DEF Contract!Next
  <1> QED BY <1>1, <1>2, Zenon

\* Every step of the job service and core is a step of the contract.
LEMMA ContractStep ==
    ASSUME redisFaults' = 0, TypeOK, TypeOK', CoreInv, [Next]_vars
    PROVE  [Contract!Next]_(Contract!vars)
  <1>a. /\ Runners \subseteq Threads /\ Stoppers \subseteq Threads
        /\ Reapers \subseteq Threads
    BY DEF Threads
  <1>b. \A t \in Threads : th[t] \in ThreadType /\ Sound(stats, th[t])
    BY DEF TypeOK, CoreInv
  <1>c. ~ RedisFault
    BY DEF RedisFault, TypeOK
  <1>d. /\ stats \in StatsType /\ stats.rev \in Nat
        /\ DOMAIN stats = {"status", "rev", "ack", "track", "stale"}
    BY Zenon DEF TypeOK, StatsType
  <1>q. ASSUME task' = task, stats'.rev = stats.rev, stats'.status = stats.status
        PROVE  [Contract!Next]_(Contract!vars)
    BY <1>q, Zenon DEF Contract!vars
  <1>s. ASSUME NEW t \in Threads, th[t].pc \in Loaded, task' = task,
               stats' = SetStatus(stats, th[t].tgt, th[t].rev)
        PROVE  [Contract!Next]_(Contract!vars)
    <2>1. /\ th[t].rev <= stats.rev /\ th[t].tgt \in Statuses
          /\ th[t].rev \in Nat /\ stats.rev > 0
      BY <1>b, <1>d, <1>s DEF Sound, ThreadType
    <2>2. Forward(stats, stats') /\ stats'.rev = stats.rev
      BY <1>s, <2>1, <1>d, SetStatusForward, Zenon
    <2> QED BY <1>s, <2>1, <2>2, AdvanceStep, Zenon
  <1>1. CASE SaveJob
    <2>1. stats.rev = 0 /\ stats'.rev = 1 /\ stats'.status \in {"Pending", "Scheduled"}
          /\ task' = task
      BY <1>1, Zenon DEF SaveJob, Save, CoreInv
    <2> QED BY <2>1, Zenon DEF Contract!Next, Contract!Launch
  <1>2. ASSUME NEW t \in Threads, Set(t) PROVE [Contract!Next]_(Contract!vars)
    <2>1. th[t].pc \in Loaded /\ task' = task
      BY <1>2, Zenon DEF Set, Loaded
    <2>2. stats' = SetStatus(stats, th[t].tgt, th[t].rev)
      BY <1>2, <1>c, Zenon DEF Set, SetStatus
    <2> QED BY <2>1, <2>2, <1>s, Zenon
  <1>3. ASSUME NEW t \in Threads, Send(t) PROVE [Contract!Next]_(Contract!vars)
    <2>1. th[t].rev > 0 /\ Lived(stats, th[t].tgt, th[t].rev)
      BY <1>3, <1>b, Zenon DEF Send, Loaded, Sound
    <2>2. /\ Message(t) \in Messages
          /\ Message(t).status = th[t].tgt /\ Message(t).rev = th[t].rev
      BY <1>b, Zenon DEF Message, Messages, Nodes, ThreadType
    <2>3. stats' = stats /\ task' \in {task, UpdateTask(task, Message(t))}
      BY <1>3, Zenon DEF Send
    <2> QED BY <2>1, <2>2, <2>3, LearnStep, Zenon
  <1>4. ASSUME NEW t \in Threads, Ack(t) PROVE [Contract!Next]_(Contract!vars)
    <2>1. stats' = HookAck(stats, th[t].tgt, th[t].rev) /\ task' = task
      BY <1>4, <1>c, Zenon DEF Ack
    <2> QED BY <2>1, <1>d, <1>q, Zenon DEF HookAck
  <1>5. ASSUME NEW ev \in resend, Resend(ev) PROVE [Contract!Next]_(Contract!vars)
    <2>1. ev \in Messages /\ ev.rev > 0 /\ Lived(stats, ev.status, ev.rev)
      BY Zenon DEF CoreInv, TypeOK
    <2>2. stats' = stats /\ task' \in {task, UpdateTask(task, ev)}
      BY <1>5, Zenon DEF Resend
    <2> QED BY <2>1, <2>2, LearnStep, Zenon
  <1>6. ASSUME NEW w \in Runners, Reset(w) PROVE [Contract!Next]_(Contract!vars)
    <2>1. stats.rev > 0
      <3>1. th[w].rev \in Nat /\ th[w].rev > 0 /\ th[w].rev <= stats.rev
        BY <1>6, <1>a, <1>b, Zenon DEF Reset, Loaded, Sound, ThreadType
      <3> QED BY <3>1, <1>d
    <2>2. stats' = StatusReset(stats, stats.rev + 1) /\ task' = task
      BY <1>6, <1>c, Zenon DEF Reset
    <2>3. stats'.rev = stats.rev + 1 /\ stats'.status = "Pending"
      BY <2>2, <1>d, Zenon DEF StatusReset
    <2> QED BY <2>1, <2>2, <2>3, Zenon DEF Contract!Next, Contract!Restart
  <1>7. ASSUME NEW r \in Reapers, ReapUpdate(r) PROVE [Contract!Next]_(Contract!vars)
    <2>1. th[r].pc \in Loaded /\ task' = task
          /\ stats' = SetStatus(stats, th[r].tgt, th[r].rev)
      BY <1>7, <1>c, Zenon DEF ReapUpdate, Loaded
    <2> QED BY <2>1, <1>a, <1>s, Zenon
  <1>8. ASSUME NEW r \in Reapers, ReapUntrack(r) PROVE [Contract!Next]_(Contract!vars)
    BY <1>8, <1>d, <1>q, Zenon DEF ReapUntrack
  <1>9. CASE Age
    BY <1>9, <1>d, <1>q, Zenon DEF Age
  <1>10. ASSUME NEW n \in Nodes, Crash(n) PROVE [Contract!Next]_(Contract!vars)
    BY <1>10, <1>q, Zenon DEF Crash
  <1>11. ASSUME NEW ch \in retryList, RetryStatusChange(ch)
         PROVE [Contract!Next]_(Contract!vars)
    BY Zenon DEF CoreInv
  <1>12. CASE Enqueue \/ LaunchFail \/ CommitTask
    BY <1>12, <1>q, Zenon DEF Enqueue, LaunchFail, CommitTask
  <1>13. ASSUME NEW w \in Runners,
                Fetch(w) \/ Track(w) \/ Body(w) \/ Check(w) \/ Remove(w) \/ Suspect(w)
         PROVE  [Contract!Next]_(Contract!vars)
    <2>1. stats' = stats /\ task' = task
      BY <1>13, Zenon DEF Fetch, Track, Body, Check, Remove, Suspect
    <2> QED BY <2>1, <1>q, Zenon
  <1>14. ASSUME NEW s \in Stoppers, StopLoad(s) \/ StopUnqueue(s)
         PROVE  [Contract!Next]_(Contract!vars)
    BY <1>14, <1>q, Zenon DEF StopLoad, StopUnqueue
  <1>15. ASSUME NEW r \in Reapers, ReapScan(r) \/ ReapLoad(r)
         PROVE  [Contract!Next]_(Contract!vars)
    BY <1>15, <1>q, Zenon DEF ReapScan, ReapLoad
  <1>16. ASSUME NEW c \in Copies, Requeue(c) PROVE [Contract!Next]_(Contract!vars)
    BY <1>16, <1>q, Zenon DEF Requeue
  <1>17. CASE UNCHANGED vars
    BY <1>17, <1>q, Zenon DEF vars
  <1> QED
    BY <1>1, <1>2, <1>3, <1>4, <1>5, <1>6, <1>7, <1>8, <1>9, <1>10, <1>11, <1>12,
       <1>13, <1>14, <1>15, <1>16, <1>17, <1>a, Zenon
       DEF Next, Run, Stop, Reap, Tracker

-----------------------------------------------------------------------------
\* Initially nothing is in flight.
LEMMA CoreInit == ASSUME Init PROVE CoreInv
  BY CodeType DEF Init, CoreInv, NoStats, NewTask, Idle, Sound, Lived, Loaded, Statuses

\* A failed command of Redis is never forgotten.
LEMMA FaultsCounted == ASSUME [Next]_vars PROVE redisFaults' = redisFaults \/ RedisFault
  BY ZenonT(60) DEF Next, Run, Stop, Reap, Tracker, Enqueue, SaveJob, LaunchFail, CommitTask, Fetch, Track, Body, Check, Remove,
     Suspect, Set, Send, Ack, Resend, Reset, ReapUpdate, ReapUntrack, ReapScan, ReapLoad, Age, Crash, RetryStatusChange,
     StopLoad, StopUnqueue, Requeue, Loss, faults, vars

\* What is in flight never gets ahead of the job as long as Redis answers.
LEMMA CoreInvariant == Spec => [](redisFaults = 0 => CoreInv)
  <1> DEFINE Calm == redisFaults = 0 => CoreInv
  <1>1. Init => Calm
    BY CoreInit, Zenon
  <1>2. TypeOK /\ TypeOK' /\ Calm /\ [Next]_vars => Calm'
    <2> SUFFICES ASSUME TypeOK, TypeOK', Calm, [Next]_vars, redisFaults' = 0 PROVE CoreInv'
      BY Zenon
    <2>1. redisFaults = 0
      BY FaultsCounted DEF RedisFault, TypeOK
    <2> QED BY <2>1, CoreStep, Zenon
  <1>3. Calm => (redisFaults = 0 => CoreInv)
    BY Zenon
  <1> HIDE DEF Calm
  <1> QED BY <1>1, <1>2, <1>3, TypeCorrect, PTL DEF Spec

\* With any number of crashes, workers taken for dead, lost hooks and failed
\* Redis commands the record stays well formed and the ack true; and job
\* service and core agree on the final status of every revision until a Redis
\* command has failed (SetStatusScript, HookAckScript, UpdateStatus of the task).
THEOREM FaultSafe == Spec => []FaultSound
  <1>1. TypeOK /\ CoreInv => CoreAgrees
    <2>1. TypeOK => /\ task.status \in Statuses /\ task.rev \in Nat
                    /\ stats.status \in Statuses /\ stats.rev \in Nat
      BY Zenon DEF TypeOK, StatsType
    <2> QED BY <2>1, CodeType DEF CoreInv, CoreAgrees, Lived, Final
  <1>2. TypeOK /\ AckSound /\ (redisFaults = 0 => CoreInv) => FaultSound
    BY <1>1, Zenon DEF FaultSound
  <1> QED BY <1>2, TypeCorrect, AckSafe, CoreInvariant, PTL

\* As long as Redis answers, job service and core agree on the final status of
\* every revision: compareAndSet in Redis and the conditional UPDATE in core
\* keep a late or repeated hook from putting core ahead or aside.
THEOREM CoreSafe ==
    ASSUME MaxRedisFaults = 0
    PROVE  Spec => []CoreAgrees
  <1>1. FaultSound => CoreAgrees
    BY DEF FaultSound, TypeOK
  <1> QED BY <1>1, FaultSafe, PTL

\* As long as Redis answers, the job service and core implement the contract
\* of a job: status changes, resets and hooks map to its steps, all else to
\* stuttering.
THEOREM ContractImplemented ==
    ASSUME MaxRedisFaults = 0
    PROVE  Spec => ContractSpec
  <1>1. Init => Contract!Init
    BY DEF Init, Contract!Init, NoStats, NewTask, Contract!NewTask
  <1>2. TypeOK /\ TypeOK' /\ (redisFaults = 0 => CoreInv) /\ [Next]_vars => [Contract!Next]_(Contract!vars)
    <2> SUFFICES ASSUME TypeOK, TypeOK', redisFaults = 0 => CoreInv, [Next]_vars PROVE [Contract!Next]_(Contract!vars)
      BY Zenon
    <2>1. redisFaults = 0 /\ redisFaults' = 0
      BY DEF TypeOK
    <2> QED BY <2>1, ContractStep, Zenon
  <1> QED BY <1>1, <1>2, TypeCorrect, CoreInvariant, PTL
          DEF Spec, ContractSpec, Contract!Spec
=============================================================================
