-------------------------- MODULE SchedulesProofs --------------------------
(***************************************************************************)
(* Periodic schedules, for any number of requests, schedules, scores and   *)
(* ticks: jobservice and core agree on the schedules when all is quiet, a  *)
(* callback runs once for an execution and never for a deleted schedule;   *)
(* and the queue stays ahead of time for any number of enqueuers, any      *)
(* period and any horizon beyond the longest waiting time.                 *)
(***************************************************************************)
EXTENDS Schedules, EnqueueTurns, TLAPS

---------------------------------------------------------------------------
(* Shapes.                                                                 *)

Row == [there : BOOLEAN, status : {"Pending", "Running", "Success", "Stopped"},
        srev : Nat, rev : 0 .. MaxTicks]
Req == [pc : {"new", "stop", "remove", "wait", "delete", "insert", "submit", "save", "commit", "done"},
        prev : Ids \union {"none"}, marked : BOOLEAN, pid : Scores \union {0}]
Record == [status : {"none", "Scheduled", "Running", "Success", "Stopped"}, rev : Nat]
Hook == [id : Ids, tick : Ticks, at : 0 .. MaxTicks]

\* A request that deals with a schedule knows which one.
Pointed(q) == q.pc \in {"stop", "remove", "wait", "delete"} => q.prev \in Ids

RowsTyped == /\ srow \in [Ids -> Row]
             /\ \A i \in Ids : ~srow[i].there => srow[i] = NoSchedule
ReqsTyped == sreq \in [SchedRequests -> Req] /\ \A r \in SchedRequests : Pointed(sreq[r])
RunsTyped == run \in [Ids -> [Ticks -> Record]]
PoliciesTyped == /\ policies \in [Ids -> Scores \union {0}]
                 /\ stats \in [Ids -> [score : Scores \union {0}, rev : Nat]]
QueueTyped == queue \subseteq Ids \X Ticks /\ late \subseteq Ids \X Ticks
EnqTyped == enq \in [todo : SUBSET Ids, pick : [id : Ids, tick : Ticks] \union {NoPick}]
HooksTyped == /\ checkins \subseteq Hook
              /\ \A h \in checkins : h.tick <= h.at /\ h.at <= now
CbTyped == cb \in [Ids -> Hook \union {NoHook}]
SyncTyped == sync \in [pc : {"idle", "list", "load", "work", "over"}, listed : SUBSET Ids,
                       loaded : SUBSET Ids, clean : BOOLEAN]
ClockTyped == now \in 0 .. MaxTicks
FiredTyped == fired \in [Ids -> [Ticks -> Nat]]

SchedTypes ==
    /\ RowsTyped /\ ReqsTyped /\ RunsTyped /\ PoliciesTyped /\ QueueTyped /\ EnqTyped
    /\ HooksTyped /\ CbTyped /\ SyncTyped /\ ClockTyped /\ FiredTyped

\* What a status update does to a row of the right shape.
LEMMA UpdateTyped ==
    ASSUME NEW t \in Row, ~t.there => t = NoSchedule, NEW s \in {"Running", "Success", "Stopped"}, NEW v \in Nat
    PROVE  /\ UpdateStatus(t, s, v) \in Row
           /\ UpdateStatus(t, s, v).there = t.there /\ UpdateStatus(t, s, v).rev = t.rev
           /\ ~UpdateStatus(t, s, v).there => UpdateStatus(t, s, v) = NoSchedule
  BY Zenon DEF Row, UpdateStatus, NoSchedule

\* The row of a schedule that is inserted.
LEMMA InsertedRow ==
    /\ NoSchedule \in Row /\ ~NoSchedule.there
    /\ [NoSchedule EXCEPT !.there = TRUE] \in Row /\ [NoSchedule EXCEPT !.there = TRUE].there
    /\ [NoSchedule EXCEPT !.there = TRUE].rev = 0
<1>1. 0 \in 0 .. MaxTicks
  BY SchedAssumption
<1> QED
  BY <1>1, Zenon DEF NoSchedule, Row

\* What a commit leaves of a row.
LEMMA RowsCommitted ==
    ASSUME NEW r \in SchedRequests, CommitRequest(r)
    PROVE  /\ srow' = [i \in Ids |-> srow'[i]]
           /\ \A i \in Ids : srow'[i] = IF i \in DeletesRow(r) THEN NoSchedule
                                        ELSE IF i \in InsertsRow(r) THEN [NoSchedule EXCEPT !.there = TRUE] ELSE srow[i]
<1> DEFINE new(i) == IF i \in DeletesRow(r) THEN NoSchedule
                     ELSE IF i \in InsertsRow(r) THEN [NoSchedule EXCEPT !.there = TRUE] ELSE srow[i]
<1>1. srow' = [i \in Ids |-> new(i)]
  BY Zenon DEF CommitRequest
<1>2. \A i \in Ids : srow'[i] = new(i)
  BY <1>1, Zenon
<1> HIDE DEF new
<1>4. srow' = [i \in Ids |-> srow'[i]]
  BY <1>1, Zenon
<1> QED
  BY <1>2, <1>4, Zenon DEF new

\* Where a request starts.
LEMMA BeginsAt ==
    ASSUME NEW r \in SchedRequests, BeginRequest(r)
    PROVE  \/ sreq' = [sreq EXCEPT ![r] = Gone]
           \/ sreq' = [sreq EXCEPT ![r] = [New EXCEPT !.pc = "insert"]] /\ Op[r] # "none"
           \/ \E p \in Ids : srow[p].there /\ sreq' = [sreq EXCEPT ![r] = [New EXCEPT !.pc = "stop", !.prev = p]]
<1> DEFINE old == {i \in Ids : srow[i].there /\ Vendor[i] = Vendor[r]}
           prev == IF old = {} THEN "none" ELSE CHOOSE i \in old : TRUE
           q == IF old = {} THEN IF Op[r] = "none" THEN Gone ELSE [New EXCEPT !.pc = "insert"]
                ELSE IF Op[r] = "create" THEN Gone ELSE [New EXCEPT !.pc = "stop", !.prev = prev]
<1>1. old # {} => prev \in Ids /\ srow[prev].there
  BY Zenon
<1>2. sreq' = [sreq EXCEPT ![r] = q]
  BY Zenon DEF BeginRequest
<1> HIDE DEF old, prev
<1>3. \/ q = Gone \/ (q = [New EXCEPT !.pc = "insert"] /\ Op[r] # "none")
      \/ (q = [New EXCEPT !.pc = "stop", !.prev = prev] /\ old # {})
  BY Zenon
<1> HIDE DEF q
<1> QED
  BY <1>1, <1>2, <1>3, Zenon

\* Hooks that stop a task keep its shape, whether they arrive or not.
LEMMA PrevailingTyped ==
    ASSUME NEW t \in Row, ~t.there => t = NoSchedule, NEW V \in SUBSET Nat,
           NEW u \in Prevailing(t, "Stopped", V)
    PROVE  u \in Row /\ u.there = t.there /\ u.rev = t.rev /\ (~u.there => u = NoSchedule)
<1>1. u = t \/ \E v \in V : u = UpdateStatus(t, "Stopped", v)
  BY Zenon DEF Prevailing
<1> QED
  BY <1>1, UpdateTyped

\* A row that gets a new value keeps the others' shapes.
LEMMA RowSet ==
    ASSUME RowsTyped, NEW i \in Ids, NEW u \in Row, ~u.there => u = NoSchedule,
           srow' = [srow EXCEPT ![i] = u]
    PROVE  RowsTyped'
  BY Zenon DEF RowsTyped

\* A request that moves on keeps the others as they are.
LEMMA ReqSet ==
    ASSUME ReqsTyped, NEW r \in SchedRequests, NEW q \in Req, Pointed(q), sreq' = [sreq EXCEPT ![r] = q]
    PROVE  ReqsTyped'
  BY Zenon DEF ReqsTyped, Pointed

\* The next point of a request, with what it knows.
LEMMA StepTyped ==
    ASSUME ReqsTyped, NEW r \in SchedRequests,
           NEW l \in {"remove", "wait", "delete", "insert", "submit", "save", "commit", "done"},
           sreq[r].pc \in {"stop", "remove", "wait", "delete"} \/ l \notin {"remove", "wait", "delete"},
           Step(r, l)
    PROVE  ReqsTyped'
<1>1. [sreq[r] EXCEPT !.pc = l] \in Req /\ Pointed([sreq[r] EXCEPT !.pc = l])
  BY ZenonT(60) DEF ReqsTyped, Req, Pointed
<1>2. sreq' = [sreq EXCEPT ![r] = [sreq[r] EXCEPT !.pc = l]]
  BY Zenon DEF Step
<1> QED
  BY <1>1, <1>2, ReqSet, Zenon

\* What the executions of a schedule are after a stop.
LEMMA StoppingTyped ==
    ASSUME RunsTyped, NEW i \in Ids, run' = Stopping(i)
    PROVE  RunsTyped'
<1>1. \A e \in Ticks : run[i][e] \in Record /\ [run[i][e] EXCEPT !.status = "Stopped"] \in Record
  BY DEF RunsTyped, Record
<1> QED
  BY <1>1, Zenon DEF RunsTyped, Stopping

\* An execution put in the queue.
LEMMA QueuedTyped ==
    ASSUME RunsTyped, NEW i \in Ids, NEW e \in Ticks, NEW v \in Nat, run' = Queued(i, e, v)
    PROVE  RunsTyped'
<1>1. [status |-> "Scheduled", rev |-> v] \in Record
  BY Zenon DEF Record
<1> QED
  BY <1>1, Zenon DEF RunsTyped, Queued

\* The shapes hold at the start.
LEMMA SchedInitTypes == SchedInit => SchedTypes
<1> SUFFICES ASSUME SchedInit PROVE SchedTypes
  BY Zenon
<1> USE SchedAssumption
<1>2. RowsTyped
  BY InsertedRow, Zenon DEF RowsTyped, SchedInit
<1>3. New \in Req /\ Gone \in Req /\ Pointed(New) /\ Pointed(Gone)
  BY Zenon DEF New, Gone, Req, Pointed
<1>4. ReqsTyped
  BY <1>3, SMTT(30) DEF ReqsTyped, SchedInit
<1>5. RunsTyped
  BY Zenon DEF RunsTyped, Record, NoRun, SchedInit
<1>6. PoliciesTyped
  BY Zenon DEF PoliciesTyped, SchedInit
<1>7. QueueTyped /\ EnqTyped /\ HooksTyped /\ CbTyped
  BY Zenon DEF QueueTyped, EnqTyped, HooksTyped, CbTyped, SchedInit
<1>8. SyncTyped
  <2>1. sync = NoSync \/ sync = [NoSync EXCEPT !.pc = "over"]
    BY Zenon DEF SchedInit
  <2>2. NoSync \in [pc : {"idle", "list", "load", "work", "over"}, listed : SUBSET Ids, loaded : SUBSET Ids, clean : BOOLEAN]
    BY Zenon DEF NoSync
  <2>3. [NoSync EXCEPT !.pc = "over"] \in
            [pc : {"idle", "list", "load", "work", "over"}, listed : SUBSET Ids, loaded : SUBSET Ids, clean : BOOLEAN]
    BY Zenon DEF NoSync
  <2> QED
    BY <2>1, <2>2, <2>3, Zenon DEF SyncTyped
<1>9. ClockTyped /\ FiredTyped
  BY Zenon DEF ClockTyped, FiredTyped, SchedInit
<1> QED
  BY <1>2, <1>4, <1>5, <1>6, <1>7, <1>8, <1>9, Zenon DEF SchedTypes

\* The steps of a request keep the shapes.
LEMMA RequestTypes ==
    ASSUME SchedTypes, NEW r \in SchedRequests,
           \/ BeginRequest(r) \/ StopExecutions(r) \/ RemovePolicy(r) \/ WaitFinal(r)
           \/ DeleteRow(r) \/ InsertRow(r) \/ SubmitPolicy(r) \/ SavePolicy(r)
           \/ CommitRequest(r) \/ FailRequest(r)
    PROVE  SchedTypes'
<1> USE SchedAssumption DEF SchedTypes
<1>a. New \in Req /\ Gone \in Req /\ Pointed(New) /\ Pointed(Gone) /\ sreq[r] \in Req /\ Pointed(sreq[r])
  BY Zenon DEF New, Gone, Req, Pointed, ReqsTyped
<1>b. r \in Ids /\ now \in Nat /\ now + 1 \in Nat /\ 2 * now + 1 \in Nat /\ 2 * now + 2 \in Nat
      /\ (now < MaxTicks => now + 1 \in Ticks)
  BY DEF Ids, ClockTyped, Ticks
<1>1. CASE BeginRequest(r)
  <2>1. Gone \in Req /\ [New EXCEPT !.pc = "insert"] \in Req /\ \A p \in Ids : [New EXCEPT !.pc = "stop", !.prev = p] \in Req
    BY Zenon DEF Req, New, Gone
  <2>2. Pointed([New EXCEPT !.pc = "insert"]) /\ \A p \in Ids : Pointed([New EXCEPT !.pc = "stop", !.prev = p])
    BY Zenon DEF Pointed, New
  <2>3. ReqsTyped'
    BY <1>1, <1>a, <2>1, <2>2, BeginsAt, ReqSet, Zenon
  <2>4. SyncTyped'
    BY <1>1, Zenon DEF BeginRequest, SyncTyped
  <2> QED
    BY <1>1, <2>3, <2>4, Zenon DEF BeginRequest, RowsTyped, RunsTyped, PoliciesTyped, QueueTyped, EnqTyped, HooksTyped,
       CbTyped, ClockTyped, FiredTyped
<1>2. CASE StopExecutions(r)
  <2> DEFINE i == sreq[r].prev
             revs == {run[i][e].rev : e \in StoppableRun(i)}
                     \union (IF stats[i].score # 0 THEN {stats[i].rev} ELSE {})
  <2>1. i \in Ids
    BY <1>2, <1>a, Zenon DEF StopExecutions, Pointed
  <2>2. revs \in SUBSET Nat
    BY <2>1 DEF RunsTyped, PoliciesTyped, Record, StoppableRun
  <2>3. CASE Located(i) = 0
    <3>1. sreq' = [sreq EXCEPT ![r] = [sreq[r] EXCEPT !.pc = "wait", !.marked = TRUE]]
      BY <1>2, <2>3, Zenon DEF StopExecutions, ReqsTyped, Req
    <3>2. [sreq[r] EXCEPT !.pc = "wait", !.marked = TRUE] \in Req
          /\ Pointed([sreq[r] EXCEPT !.pc = "wait", !.marked = TRUE])
      BY <2>1, <1>a, Zenon DEF Req, Pointed
    <3>3. ReqsTyped'
      BY <3>1, <3>2, ReqSet, Zenon
    <3> QED
      BY <1>2, <2>3, <3>3, Zenon DEF StopExecutions, RowsTyped, RunsTyped, PoliciesTyped, QueueTyped, EnqTyped, HooksTyped,
         CbTyped, SyncTyped, ClockTyped, FiredTyped
  <2>4. CASE Located(i) # 0
    <3>1. Step(r, "remove") /\ sreq[r].pc = "stop" /\ run' = Stopping(i)
          /\ queue' = queue \ {<<i, e>> : e \in StoppableRun(i)}
      BY <1>2, <2>4, Zenon DEF StopExecutions
    <3>2. PICK t \in Prevailing(srow[i], "Stopped", revs) : srow' = [srow EXCEPT ![i] = t]
      BY <1>2, <2>4, Zenon DEF StopExecutions
    <3>3. srow[i] \in Row /\ (~srow[i].there => srow[i] = NoSchedule)
      BY <2>1, Zenon DEF RowsTyped
    <3>4. t \in Row /\ (~t.there => t = NoSchedule)
      <4> HIDE DEF i, revs
      <4> QED
        BY <2>2, <3>2, <3>3, PrevailingTyped, Zenon
    <3>5. RowsTyped'
      BY <2>1, <3>2, <3>4, RowSet, Zenon
    <3>6. ReqsTyped'
      BY <3>1, StepTyped, Zenon
    <3>7. RunsTyped'
      BY <2>1, <3>1, StoppingTyped, Zenon
    <3>8. QueueTyped'
      BY <1>2, <3>1, Zenon DEF QueueTyped, StopExecutions
    <3> QED
      BY <1>2, <3>5, <3>6, <3>7, <3>8, Zenon DEF StopExecutions, PoliciesTyped, EnqTyped, HooksTyped,
         CbTyped, SyncTyped, ClockTyped, FiredTyped
  <2> QED
    BY <2>3, <2>4, Zenon
<1>3. CASE RemovePolicy(r)
  <2>1. ReqsTyped'
    BY <1>3, StepTyped, Zenon DEF RemovePolicy
  <2>2. PoliciesTyped'
    BY <1>3, Zenon DEF RemovePolicy, RemoveScore, PoliciesTyped
  <2> QED
    BY <1>3, <2>1, <2>2, Zenon DEF RemovePolicy, RowsTyped, RunsTyped, QueueTyped, EnqTyped, HooksTyped,
       CbTyped, SyncTyped, ClockTyped, FiredTyped
<1>4. CASE WaitFinal(r)
  <2>1. ReqsTyped'
    BY <1>4, StepTyped, Zenon DEF WaitFinal
  <2> QED
    BY <1>4, <2>1, Zenon DEF WaitFinal, RowsTyped, RunsTyped, PoliciesTyped, QueueTyped, EnqTyped, HooksTyped,
       CbTyped, SyncTyped, ClockTyped, FiredTyped
<1>5. CASE DeleteRow(r)
  <2>1. ReqsTyped'
    BY <1>5, StepTyped, Zenon DEF DeleteRow
  <2> QED
    BY <1>5, <2>1, Zenon DEF DeleteRow, RowsTyped, RunsTyped, PoliciesTyped, QueueTyped, EnqTyped, HooksTyped,
       CbTyped, SyncTyped, ClockTyped, FiredTyped
<1>6. CASE InsertRow(r)
  <2>1. ReqsTyped'
    BY <1>6, StepTyped, Zenon DEF InsertRow
  <2> QED
    BY <1>6, <2>1, Zenon DEF InsertRow, RowsTyped, RunsTyped, PoliciesTyped, QueueTyped, EnqTyped, HooksTyped,
       CbTyped, SyncTyped, ClockTyped, FiredTyped
<1>7. CASE SubmitPolicy(r)
  <2>1. PICK s \in Scores : /\ policies' = [policies EXCEPT ![r] = s]
                            /\ sreq' = [sreq EXCEPT ![r].pc = "save", ![r].pid = s]
    BY <1>7, Zenon DEF SubmitPolicy
  <2>2. sreq' = [sreq EXCEPT ![r] = [sreq[r] EXCEPT !.pc = "save", !.pid = s]]
    BY <2>1, Zenon DEF ReqsTyped, Req
  <2>3. [sreq[r] EXCEPT !.pc = "save", !.pid = s] \in Req /\ Pointed([sreq[r] EXCEPT !.pc = "save", !.pid = s])
    BY <1>a, ZenonT(60) DEF Req, Pointed
  <2>4. ReqsTyped'
    BY <2>2, <2>3, ReqSet, Zenon
  <2>5. PoliciesTyped'
    BY <1>7, <1>b, <2>1, Zenon DEF PoliciesTyped, SubmitPolicy
  <2>6. RunsTyped' /\ QueueTyped'
    <3>1. CASE now < MaxTicks
      <4>1. RunsTyped'
        BY <1>7, <1>b, <3>1, QueuedTyped, Zenon DEF SubmitPolicy
      <4>2. QueueTyped'
        BY <1>7, <1>b, <3>1 DEF SubmitPolicy, QueueTyped
      <4> QED
        BY <4>1, <4>2, Zenon
    <3>2. CASE ~(now < MaxTicks)
      BY <1>7, <3>2, Zenon DEF SubmitPolicy, QueueTyped, RunsTyped
    <3> QED
      BY <3>1, <3>2, Zenon
  <2> QED
    BY <1>7, <2>4, <2>5, <2>6, Zenon DEF SubmitPolicy, RowsTyped, EnqTyped, HooksTyped,
       CbTyped, SyncTyped, ClockTyped, FiredTyped
<1>8. CASE SavePolicy(r)
  <2>1. sreq' = [sreq EXCEPT ![r] = [sreq[r] EXCEPT !.pc = "commit", !.pid = 0]]
    BY <1>8, Zenon DEF SavePolicy, ReqsTyped, Req
  <2>2. [sreq[r] EXCEPT !.pc = "commit", !.pid = 0] \in Req /\ Pointed([sreq[r] EXCEPT !.pc = "commit", !.pid = 0])
    BY <1>a, Zenon DEF Req, Pointed
  <2>3. ReqsTyped'
    BY <2>1, <2>2, ReqSet, Zenon
  <2>4. [score |-> sreq[r].pid, rev |-> 2 * now + 2] \in [score : Scores \union {0}, rev : Nat]
    BY <1>a, <1>b, Zenon DEF Req
  <2>5. PoliciesTyped'
    BY <1>8, <1>b, <2>4, Zenon DEF PoliciesTyped, SavePolicy
  <2> QED
    BY <1>8, <2>3, <2>5, Zenon DEF SavePolicy, RowsTyped, RunsTyped, QueueTyped, EnqTyped, HooksTyped,
       CbTyped, SyncTyped, ClockTyped, FiredTyped
<1>9. CASE CommitRequest(r)
  <2>1. ReqsTyped'
    BY <1>9, <1>a, ReqSet, Zenon DEF CommitRequest
  <2>3. RowsTyped'
    <3>1. srow' = [i \in Ids |-> srow'[i]] /\ \A i \in Ids : srow'[i] \in Row /\ (~srow'[i].there => srow'[i] = NoSchedule)
      BY <1>9, RowsCommitted, InsertedRow, Zenon DEF RowsTyped
    <3> QED
      BY <3>1, Zenon DEF RowsTyped
  <2> QED
    BY <1>9, <2>1, <2>3, Zenon DEF CommitRequest, RunsTyped, PoliciesTyped, QueueTyped, EnqTyped, HooksTyped,
       CbTyped, SyncTyped, ClockTyped, FiredTyped
<1>10. CASE FailRequest(r)
  <2>1. ReqsTyped'
    BY <1>10, <1>a, ReqSet, Zenon DEF FailRequest
  <2> QED
    BY <1>10, <2>1, Zenon DEF FailRequest, RowsTyped, RunsTyped, PoliciesTyped, QueueTyped, EnqTyped, HooksTyped,
       CbTyped, SyncTyped, ClockTyped, FiredTyped
<1> QED
  BY <1>1, <1>2, <1>3, <1>4, <1>5, <1>6, <1>7, <1>8, <1>9, <1>10, Zenon

\* The steps of the enqueuer, of the executions and of the clock keep the
\* shapes.
LEMMA ExecutionTypes ==
    ASSUME SchedTypes,
           \/ LoadPolicies \/ ScheduleNextJobs \/ Tick
           \/ \E i \in Ids : NextExecution(i)
           \/ \E i \in Ids, e \in Ticks : RunExecution(i, e) \/ EndExecution(i, e)
    PROVE  SchedTypes'
<1> USE SchedAssumption DEF SchedTypes
<1>b. now \in Nat /\ now <= MaxTicks /\ 2 * now + 3 \in Nat /\ (now < MaxTicks => now + 1 \in Ticks)
  BY DEF ClockTyped, Ticks
<1>1. CASE LoadPolicies
  <2>1. EnqTyped'
    BY <1>1, Zenon DEF LoadPolicies, EnqTyped
  <2> QED
    BY <1>1, <2>1, Zenon DEF LoadPolicies, RowsTyped, ReqsTyped, RunsTyped, PoliciesTyped, QueueTyped, HooksTyped,
       CbTyped, SyncTyped, ClockTyped, FiredTyped
<1>2. ASSUME NEW i \in Ids, NextExecution(i) PROVE SchedTypes'
  <2>1. EnqTyped'
    BY <1>2, <1>b, Zenon DEF NextExecution, EnqTyped
  <2> QED
    BY <1>2, <2>1, Zenon DEF NextExecution, RowsTyped, ReqsTyped, RunsTyped, PoliciesTyped, QueueTyped, HooksTyped,
       CbTyped, SyncTyped, ClockTyped, FiredTyped
<1>3. CASE ScheduleNextJobs
  <2>1. enq.pick.id \in Ids /\ enq.pick.tick \in Ticks
    BY <1>3, Zenon DEF ScheduleNextJobs, EnqTyped
  <2>2. RunsTyped'
    BY <1>3, <1>b, <2>1, QueuedTyped, Zenon DEF ScheduleNextJobs
  <2>3. QueueTyped'
    BY <1>3, <2>1 DEF ScheduleNextJobs, QueueTyped
  <2>4. EnqTyped'
    BY <1>3, Zenon DEF ScheduleNextJobs, EnqTyped
  <2> QED
    BY <1>3, <2>2, <2>3, <2>4, Zenon DEF ScheduleNextJobs, RowsTyped, ReqsTyped, PoliciesTyped, HooksTyped,
       CbTyped, SyncTyped, ClockTyped, FiredTyped
<1>4. ASSUME NEW i \in Ids, NEW e \in Ticks, RunExecution(i, e) PROVE SchedTypes'
  <2>1. srow[i] \in Row /\ (~srow[i].there => srow[i] = NoSchedule) /\ run[i][e] \in Record /\ run[i][e].rev \in Nat
    BY Zenon DEF RowsTyped, RunsTyped, Record
  <2>2. RowsTyped'
    <3>1. srow' = srow \/ srow' = [srow EXCEPT ![i] = UpdateStatus(srow[i], "Running", run[i][e].rev)]
      BY <1>4, Zenon DEF RunExecution
    <3>2. UpdateStatus(srow[i], "Running", run[i][e].rev) \in Row
          /\ (~UpdateStatus(srow[i], "Running", run[i][e].rev).there => UpdateStatus(srow[i], "Running", run[i][e].rev) = NoSchedule)
      BY <2>1, UpdateTyped, Zenon
    <3> QED
      BY <3>1, <3>2, RowSet, Zenon DEF RowsTyped
  <2>3. RunsTyped'
    <3>1. [run[i][e] EXCEPT !.status = "Running"] \in Record
      BY <2>1, Zenon DEF Record
    <3>2. run' = run \/ run' = [run EXCEPT ![i] = [run[i] EXCEPT ![e] = [run[i][e] EXCEPT !.status = "Running"]]]
      BY <1>4, Zenon DEF RunExecution, RunsTyped, Record
    <3> QED
      BY <3>1, <3>2 DEF RunsTyped
  <2>4. QueueTyped'
    BY <1>4, Zenon DEF RunExecution, QueueTyped
  <2>5. HooksTyped'
    <3>1. [id |-> i, tick |-> e, at |-> now] \in Hook /\ e <= now
      BY <1>4, <1>b DEF Hook, RunExecution
    <3> QED
      BY <1>4, <1>b, <3>1 DEF RunExecution, HooksTyped
  <2> QED
    BY <1>4, <2>2, <2>3, <2>4, <2>5, Zenon DEF RunExecution, ReqsTyped, PoliciesTyped, EnqTyped,
       CbTyped, SyncTyped, ClockTyped, FiredTyped
<1>5. ASSUME NEW i \in Ids, NEW e \in Ticks, EndExecution(i, e) PROVE SchedTypes'
  <2>1. srow[i] \in Row /\ (~srow[i].there => srow[i] = NoSchedule) /\ run[i][e] \in Record /\ run[i][e].rev \in Nat
    BY DEF RowsTyped, RunsTyped, Record
  <2>2. RowsTyped'
    <3>1. srow' = [srow EXCEPT ![i] = UpdateStatus(srow[i], "Success", run[i][e].rev)]
      BY <1>5, Zenon DEF EndExecution
    <3>2. UpdateStatus(srow[i], "Success", run[i][e].rev) \in Row
          /\ (~UpdateStatus(srow[i], "Success", run[i][e].rev).there => UpdateStatus(srow[i], "Success", run[i][e].rev) = NoSchedule)
      BY <2>1, UpdateTyped, Zenon
    <3> QED
      BY <3>1, <3>2, RowSet, Zenon
  <2>3. RunsTyped'
    <3>1. [run[i][e] EXCEPT !.status = "Success"] \in Record
      BY <2>1, Zenon DEF Record
    <3>2. run' = [run EXCEPT ![i] = [run[i] EXCEPT ![e] = [run[i][e] EXCEPT !.status = "Success"]]]
      BY <1>5, Zenon DEF EndExecution, RunsTyped, Record
    <3> QED
      BY <3>1, <3>2, Zenon DEF RunsTyped
  <2> QED
    BY <1>5, <2>2, <2>3, Zenon DEF EndExecution, ReqsTyped, PoliciesTyped, QueueTyped, EnqTyped, HooksTyped,
       CbTyped, SyncTyped, ClockTyped, FiredTyped
<1>6. CASE Tick
  <2>1. ClockTyped' /\ HooksTyped'
    BY <1>6, <1>b DEF Tick, ClockTyped, HooksTyped, Hook, Ticks
  <2> QED
    BY <1>6, <2>1, Zenon DEF Tick, RowsTyped, ReqsTyped, RunsTyped, PoliciesTyped, QueueTyped, EnqTyped,
       CbTyped, SyncTyped, FiredTyped
<1> QED
  BY <1>1, <1>2, <1>3, <1>4, <1>5, <1>6, Zenon

\* A callback's check-in belongs to its schedule.
CbOwn == \A i \in Ids : cb[i] # NoHook => cb[i] \in checkins /\ cb[i].id = i

\* The steps of core's callbacks keep the shapes.
LEMMA CallbackTypes ==
    ASSUME SchedTypes, CbOwn,
           \/ \E i \in Ids : CommitCallback(i) \/ FailCallback(i)
           \/ \E h \in checkins : TriggerCallback(h)
    PROVE  SchedTypes'
<1> USE SchedAssumption DEF SchedTypes
<1>1. ASSUME NEW i \in Ids, CommitCallback(i) PROVE SchedTypes'
  <2>1. cb[i] # NoHook /\ cb[i] \in Hook /\ cb[i].at \in 0 .. MaxTicks /\ cb[i].tick \in Ticks
    BY <1>1, Zenon DEF CommitCallback, CbTyped, Hook
  <2>2. RowsTyped'
    <3>1. srow' = [srow EXCEPT ![i] = [srow[i] EXCEPT !.rev = IF srow[i].there THEN cb[i].at ELSE srow[i].rev]]
      BY <1>1, Zenon DEF CommitCallback
    <3>2. srow[i] \in Row /\ (~srow[i].there => srow[i] = NoSchedule)
      BY Zenon DEF RowsTyped
    <3> DEFINE u == [srow[i] EXCEPT !.rev = IF srow[i].there THEN cb[i].at ELSE srow[i].rev]
    <3>3. u \in Row /\ (~u.there => u = NoSchedule)
      BY <2>1, <3>2, Zenon DEF Row, NoSchedule
    <3> QED
      BY <3>1, <3>3, RowSet, Zenon
  <2>3. FiredTyped'
    <3>1. fired' = [fired EXCEPT ![i] = [fired[i] EXCEPT ![cb[i].tick] = fired[i][cb[i].tick] + 1]]
      BY <1>1, Zenon DEF CommitCallback
    <3> QED
      BY <2>1, <3>1 DEF FiredTyped
  <2>4. HooksTyped' /\ CbTyped'
    BY <1>1, Zenon DEF CommitCallback, HooksTyped, CbTyped
  <2> QED
    BY <1>1, <2>2, <2>3, <2>4, ZenonT(60) DEF CommitCallback, ReqsTyped, RunsTyped, PoliciesTyped, QueueTyped, EnqTyped,
       SyncTyped, ClockTyped
<1>2. ASSUME NEW i \in Ids, FailCallback(i) PROVE SchedTypes'
  <2>1. CbTyped'
    BY <1>2, Zenon DEF FailCallback, CbTyped
  <2> QED
    BY <1>2, <2>1, Zenon DEF FailCallback, RowsTyped, ReqsTyped, RunsTyped, PoliciesTyped, QueueTyped, EnqTyped,
       HooksTyped, SyncTyped, ClockTyped, FiredTyped
<1>3. ASSUME NEW h \in checkins, TriggerCallback(h) PROVE SchedTypes'
  <2>1. h \in Hook /\ h.id \in Ids
    BY Zenon DEF HooksTyped, Hook
  <2>2. HooksTyped' /\ CbTyped'
    BY <1>3, <2>1, ZenonT(60) DEF TriggerCallback, HooksTyped, CbTyped
  <2> QED
    BY <1>3, <2>2, Zenon DEF TriggerCallback, RowsTyped, ReqsTyped, RunsTyped, PoliciesTyped, QueueTyped, EnqTyped,
       SyncTyped, ClockTyped, FiredTyped
<1> QED
  BY <1>1, <1>2, <1>3, Zenon

\* The steps of jobservice's comparison keep the shapes.
LEMMA SyncTypes ==
    ASSUME SchedTypes,
           \/ Restart \/ ListSchedules \/ SyncLoad \/ EndSync
           \/ \E i \in Ids : RestorePolicy(i) \/ ClearPolicy(i)
    PROVE  SchedTypes'
<1> USE SchedAssumption DEF SchedTypes
<1>b. now \in Nat /\ 2 * now + 2 \in Nat /\ 2 * now + 3 \in Nat /\ (now < MaxTicks => now + 1 \in Ticks)
  BY DEF ClockTyped, Ticks
<1>1. CASE Restart
  <2>1. SyncTyped' /\ EnqTyped'
    BY <1>1, Zenon DEF Restart, SyncTyped, EnqTyped
  <2>2. NoRun \in Record
    BY Zenon DEF NoRun, Record
  <2>3. RunsTyped' /\ PoliciesTyped' /\ QueueTyped'
    BY <1>1, <2>2 DEF Restart, RunsTyped, PoliciesTyped, QueueTyped
  <2> QED
    BY <1>1, <2>1, <2>3, Zenon DEF Restart, RowsTyped, ReqsTyped, HooksTyped, CbTyped, ClockTyped, FiredTyped
<1>2. CASE ListSchedules
  <2>1. SyncTyped'
    BY <1>2, Zenon DEF ListSchedules, SyncTyped
  <2> QED
    BY <1>2, <2>1, Zenon DEF ListSchedules, RowsTyped, ReqsTyped, RunsTyped, PoliciesTyped, QueueTyped, EnqTyped, HooksTyped,
       CbTyped, ClockTyped, FiredTyped
<1>3. CASE SyncLoad
  <2>1. SyncTyped'
    BY <1>3, Zenon DEF SyncLoad, SyncTyped
  <2> QED
    BY <1>3, <2>1, Zenon DEF SyncLoad, RowsTyped, ReqsTyped, RunsTyped, PoliciesTyped, QueueTyped, EnqTyped, HooksTyped,
       CbTyped, ClockTyped, FiredTyped
<1>4. ASSUME NEW i \in Ids, RestorePolicy(i) PROVE SchedTypes'
  <2>1. SyncTyped'
    BY <1>4, Zenon DEF RestorePolicy, SyncTyped
  <2>2. PoliciesTyped'
    BY <1>4, <1>b DEF RestorePolicy, PoliciesTyped
  <2>3. RunsTyped' /\ QueueTyped'
    <3>1. CASE now < MaxTicks
      <4>1. RunsTyped'
        BY <1>4, <1>b, <3>1, QueuedTyped, Zenon DEF RestorePolicy
      <4>2. QueueTyped'
        BY <1>4, <1>b, <3>1 DEF RestorePolicy, QueueTyped
      <4> QED
        BY <4>1, <4>2, Zenon
    <3>2. CASE ~(now < MaxTicks)
      BY <1>4, <3>2, Zenon DEF RestorePolicy, QueueTyped, RunsTyped
    <3> QED
      BY <3>1, <3>2, Zenon
  <2> QED
    BY <1>4, <2>1, <2>2, <2>3, Zenon DEF RestorePolicy, RowsTyped, ReqsTyped, EnqTyped, HooksTyped,
       CbTyped, ClockTyped, FiredTyped
<1>5. ASSUME NEW i \in Ids, ClearPolicy(i) PROVE SchedTypes'
  <2>1. SyncTyped'
    BY <1>5, Zenon DEF ClearPolicy, SyncTyped
  <2>2. PoliciesTyped'
    BY <1>5, Zenon DEF ClearPolicy, RemoveScore, PoliciesTyped
  <2>3. RunsTyped' /\ QueueTyped'
    BY <1>5, StoppingTyped, Zenon DEF ClearPolicy, QueueTyped
  <2> QED
    BY <1>5, <2>1, <2>2, <2>3, Zenon DEF ClearPolicy, RowsTyped, ReqsTyped, EnqTyped, HooksTyped,
       CbTyped, ClockTyped, FiredTyped
<1>6. CASE EndSync
  <2>1. SyncTyped'
    BY <1>6, Zenon DEF EndSync, SyncTyped, NoSync
  <2> QED
    BY <1>6, <2>1, Zenon DEF EndSync, RowsTyped, ReqsTyped, RunsTyped, PoliciesTyped, QueueTyped, EnqTyped, HooksTyped,
       CbTyped, ClockTyped, FiredTyped
<1> QED
  BY <1>1, <1>2, <1>3, <1>4, <1>5, <1>6, Zenon

---------------------------------------------------------------------------
(* What the steps leave alone.                                             *)

\* The rows are there as before, at their revisions.
RowsKept == \A i \in Ids : srow'[i].there = srow[i].there /\ srow'[i].rev = srow[i].rev

\* A step of a request.
RequestStep(r) ==
    \/ BeginRequest(r) \/ StopExecutions(r) \/ RemovePolicy(r) \/ WaitFinal(r)
    \/ DeleteRow(r) \/ InsertRow(r) \/ SubmitPolicy(r) \/ SavePolicy(r)
    \/ CommitRequest(r) \/ FailRequest(r)

EnqueueStep == LoadPolicies \/ ScheduleNextJobs \/ Tick \/ \E i \in Ids : NextExecution(i)
ExecutionStep == \E i \in Ids, e \in Ticks : RunExecution(i, e) \/ EndExecution(i, e)
CallbackStep == \/ \E i \in Ids : CommitCallback(i) \/ FailCallback(i)
                \/ \E h \in checkins : TriggerCallback(h)
SyncStep == \/ Restart \/ ListSchedules \/ SyncLoad \/ EndSync
            \/ \E i \in Ids : RestorePolicy(i) \/ ClearPolicy(i)

\* The steps, by the part that takes them.
LEMMA StepCases ==
    SchedNext => \/ \E r \in SchedRequests : RequestStep(r)
                 \/ EnqueueStep \/ ExecutionStep \/ CallbackStep \/ SyncStep
  BY Zenon DEF SchedNext, RequestStep, EnqueueStep, ExecutionStep, CallbackStep, SyncStep

\* Only commits change whether a row is there, or its revision.
LEMMA RowsKeptBy ==
    ASSUME SchedTypes,
           \/ \E r \in SchedRequests : RequestStep(r) /\ ~CommitRequest(r)
           \/ EnqueueStep \/ ExecutionStep \/ SyncStep
           \/ \E i \in Ids : FailCallback(i)
           \/ \E h \in checkins : TriggerCallback(h)
    PROVE  RowsKept
<1> USE DEF RowsKept
<1>1. ASSUME NEW r \in SchedRequests, StopExecutions(r) PROVE RowsKept
  <2> DEFINE i == sreq[r].prev
             revs == {run[i][e].rev : e \in StoppableRun(i)}
                     \union (IF stats[i].score # 0 THEN {stats[i].rev} ELSE {})
  <2>1. i \in Ids
    BY <1>1, Zenon DEF StopExecutions, Pointed, SchedTypes, ReqsTyped
  <2>2. revs \in SUBSET Nat
    BY <2>1 DEF SchedTypes, RunsTyped, PoliciesTyped, Record, StoppableRun
  <2>3. srow[i] \in Row /\ (~srow[i].there => srow[i] = NoSchedule)
    BY <2>1, Zenon DEF SchedTypes, RowsTyped
  <2>4. CASE srow' = srow
    BY <2>4, Zenon
  <2>5. CASE \E t \in Prevailing(srow[i], "Stopped", revs) : srow' = [srow EXCEPT ![i] = t]
    <3>1. PICK t \in Prevailing(srow[i], "Stopped", revs) : srow' = [srow EXCEPT ![i] = t]
      BY <2>5, Zenon
    <3>2. t \in Row /\ t.there = srow[i].there /\ t.rev = srow[i].rev /\ (~t.there => t = NoSchedule)
      <4> HIDE DEF i, revs
      <4> QED
        BY <2>2, <2>3, <3>1, PrevailingTyped, Zenon
    <3> HIDE DEF i
    <3> QED
      BY <2>1, <3>1, <3>2, Zenon DEF SchedTypes, RowsTyped
  <2> QED
    BY <1>1, <2>4, <2>5, Zenon DEF StopExecutions
<1>2. ASSUME NEW i \in Ids, NEW e \in Ticks, RunExecution(i, e) \/ EndExecution(i, e) PROVE RowsKept
  <2>1. srow[i] \in Row /\ (~srow[i].there => srow[i] = NoSchedule) /\ run[i][e].rev \in Nat
    BY Zenon DEF SchedTypes, RowsTyped, RunsTyped, Record
  <2>2. srow' = srow \/ \E s \in {"Running", "Success", "Stopped"} :
                          srow' = [srow EXCEPT ![i] = UpdateStatus(srow[i], s, run[i][e].rev)]
    BY <1>2, Zenon DEF RunExecution, EndExecution
  <2>3. \A s \in {"Running", "Success", "Stopped"} :
           /\ UpdateStatus(srow[i], s, run[i][e].rev).there = srow[i].there
           /\ UpdateStatus(srow[i], s, run[i][e].rev).rev = srow[i].rev
    BY <2>1, UpdateTyped, Zenon
  <2>4. srow \in [Ids -> Row]
    BY Zenon DEF SchedTypes, RowsTyped
  <2> QED
    BY <2>2, <2>3, <2>4, Zenon
<1>3. ASSUME NEW r \in SchedRequests, RequestStep(r), ~CommitRequest(r) PROVE RowsKept
  BY <1>1, <1>3, Zenon DEF RequestStep, BeginRequest, RemovePolicy, WaitFinal, DeleteRow, InsertRow, SubmitPolicy,
     SavePolicy, FailRequest
<1>4. ASSUME EnqueueStep PROVE RowsKept
  BY <1>4, Zenon DEF EnqueueStep, LoadPolicies, ScheduleNextJobs, Tick, NextExecution
<1>5. ASSUME SyncStep PROVE RowsKept
  BY <1>5, Zenon DEF SyncStep, Restart, ListSchedules, SyncLoad, EndSync, RestorePolicy, ClearPolicy
<1>6. ASSUME (\E i \in Ids : FailCallback(i)) \/ (\E h \in checkins : TriggerCallback(h)) PROVE RowsKept
  BY <1>6, Zenon DEF FailCallback, TriggerCallback
<1> QED
  BY <1>2, <1>3, <1>4, <1>5, <1>6, Zenon DEF ExecutionStep

\* Where a request gets to.
LEMMA RequestMoves ==
    ASSUME SchedTypes, NEW r \in SchedRequests, RequestStep(r)
    PROVE  /\ \A q \in SchedRequests \ {r} : sreq'[q] = sreq[q]
           /\ sreq[r].pc # "done"
           /\ BeginRequest(r) =>
                /\ sreq'[r].pc \in {"done", "insert", "stop"}
                /\ sreq'[r].pc = "insert" => Op[r] # "none"
                /\ sreq'[r].prev # "none" => sreq'[r].pc = "stop" /\ sreq'[r].prev \in Ids /\ srow[sreq'[r].prev].there
           /\ StopExecutions(r) => /\ sreq'[r].prev = sreq[r].prev
                                   /\ sreq'[r].pc = IF Located(sreq[r].prev) = 0 THEN "wait" ELSE "remove"
           /\ RemovePolicy(r) => sreq'[r].prev = sreq[r].prev /\ sreq'[r].pc = "wait"
           /\ WaitFinal(r) => sreq'[r].prev = sreq[r].prev /\ sreq'[r].pc = "delete"
           /\ DeleteRow(r) => sreq'[r].prev = sreq[r].prev /\ sreq'[r].pc = IF Op[r] = "none" THEN "commit" ELSE "insert"
           /\ InsertRow(r) => sreq'[r].prev = sreq[r].prev /\ sreq'[r].pc = "submit"
           /\ SubmitPolicy(r) => sreq'[r].prev = sreq[r].prev /\ sreq'[r].pc = "save"
           /\ SavePolicy(r) => sreq'[r].prev = sreq[r].prev /\ sreq'[r].pc = "commit"
           /\ CommitRequest(r) \/ FailRequest(r) => sreq'[r].prev = "none" /\ sreq'[r].pc = "done"
<1> USE SchedAssumption
<1>1. sreq[r] \in Req /\ sreq \in [SchedRequests -> Req]
  BY Zenon DEF SchedTypes, ReqsTyped
<1>2. \A q \in SchedRequests \ {r} : sreq'[q] = sreq[q]
  BY <1>1, Zenon DEF RequestStep, BeginRequest, StopExecutions, RemovePolicy, WaitFinal, DeleteRow, InsertRow, SubmitPolicy,
     SavePolicy, CommitRequest, FailRequest, Step
<1>3. sreq[r].pc # "done"
  BY <1>1, Zenon DEF RequestStep, BeginRequest, StopExecutions, RemovePolicy, WaitFinal, DeleteRow, InsertRow, SubmitPolicy,
     SavePolicy, CommitRequest, FailRequest
<1>4. ASSUME BeginRequest(r)
      PROVE  /\ sreq'[r].pc \in {"done", "insert", "stop"}
             /\ sreq'[r].pc = "insert" => Op[r] # "none"
             /\ sreq'[r].prev # "none" => sreq'[r].pc = "stop" /\ sreq'[r].prev \in Ids /\ srow[sreq'[r].prev].there
  <2>1. \/ sreq'[r] = Gone \/ (sreq'[r] = [New EXCEPT !.pc = "insert"] /\ Op[r] # "none")
        \/ \E p \in Ids : srow[p].there /\ sreq'[r] = [New EXCEPT !.pc = "stop", !.prev = p]
    BY <1>1, <1>4, BeginsAt, ZenonT(60)
  <2>2. Gone.pc = "done" /\ Gone.prev = "none"
    BY Zenon DEF New, Gone
  <2>3. [New EXCEPT !.pc = "insert"].pc = "insert" /\ [New EXCEPT !.pc = "insert"].prev = "none"
    BY Zenon DEF New
  <2>4. \A p \in Ids : /\ [New EXCEPT !.pc = "stop", !.prev = p].pc = "stop"
                       /\ [New EXCEPT !.pc = "stop", !.prev = p].prev = p
    BY Zenon DEF New
  <2> QED
    BY <2>1, <2>2, <2>3, <2>4, Zenon
<1>5. StopExecutions(r) => /\ sreq'[r].prev = sreq[r].prev
                           /\ sreq'[r].pc = IF Located(sreq[r].prev) = 0 THEN "wait" ELSE "remove"
  BY <1>1 DEF StopExecutions, Step, Req
<1>6. RemovePolicy(r) => sreq'[r].prev = sreq[r].prev /\ sreq'[r].pc = "wait"
  BY <1>1 DEF RemovePolicy, Step, Req
<1>7. WaitFinal(r) => sreq'[r].prev = sreq[r].prev /\ sreq'[r].pc = "delete"
  BY <1>1 DEF WaitFinal, Step, Req
<1>8. DeleteRow(r) => sreq'[r].prev = sreq[r].prev /\ sreq'[r].pc = IF Op[r] = "none" THEN "commit" ELSE "insert"
  BY <1>1 DEF DeleteRow, Step, Req
<1>9. InsertRow(r) => sreq'[r].prev = sreq[r].prev /\ sreq'[r].pc = "submit"
  BY <1>1 DEF InsertRow, Step, Req
<1>10. SubmitPolicy(r) => sreq'[r].prev = sreq[r].prev /\ sreq'[r].pc = "save"
  BY <1>1 DEF SubmitPolicy, Req
<1>11. SavePolicy(r) => sreq'[r].prev = sreq[r].prev /\ sreq'[r].pc = "commit"
  BY <1>1 DEF SavePolicy, Req
<1>12. CommitRequest(r) \/ FailRequest(r) => sreq'[r].prev = "none" /\ sreq'[r].pc = "done"
  BY <1>1, Zenon DEF CommitRequest, FailRequest, Gone, New
<1> QED
  BY <1>2, <1>3, <1>4, <1>5, <1>6, <1>7, <1>8, <1>9, <1>10, <1>11, <1>12, Zenon

\* The other steps leave the requests alone.
LEMMA OthersLeaveRequests ==
    EnqueueStep \/ ExecutionStep \/ CallbackStep \/ SyncStep => UNCHANGED sreq
  BY Zenon DEF EnqueueStep, LoadPolicies, ScheduleNextJobs, Tick, NextExecution, ExecutionStep, RunExecution,
     EndExecution, CallbackStep, CommitCallback, FailCallback, TriggerCallback, SyncStep, Restart, ListSchedules,
     SyncLoad, EndSync, RestorePolicy, ClearPolicy

\* Only a deletion locks a row.
LEMMA LocksBy ==
    ASSUME SchedTypes, NEW r \in SchedRequests, RequestStep(r), NEW i \in Ids, LockedRow(i)'
    PROVE  LockedRow(i) \/ (DeleteRow(r) /\ i = sreq[r].prev)
<1>1. PICK q \in SchedRequests : i \in DeletesRow(q)'
  BY Zenon DEF LockedRow
<1>2. sreq'[q].pc \in {"insert", "submit", "save", "commit"} /\ sreq'[q].prev = i /\ i # "none"
  BY <1>1, Zenon DEF DeletesRow
<1>3. CASE q # r
  <2>1. sreq'[q] = sreq[q]
    BY <1>3, RequestMoves, Zenon
  <2> QED
    BY <1>2, <2>1, Zenon DEF DeletesRow, LockedRow
<1>4. CASE q = r
  <2>1. ~BeginRequest(r) /\ ~StopExecutions(r) /\ ~RemovePolicy(r) /\ ~WaitFinal(r) /\ ~CommitRequest(r) /\ ~FailRequest(r)
    BY <1>2, <1>4, RequestMoves, Zenon
  <2>2. CASE DeleteRow(r)
    BY <1>2, <1>4, <2>2, RequestMoves, Zenon
  <2>3. CASE InsertRow(r) \/ SubmitPolicy(r) \/ SavePolicy(r)
    <3>1. sreq[r].pc \in {"insert", "submit", "save"}
      BY <2>3, Zenon DEF InsertRow, SubmitPolicy, SavePolicy
    <3>2. sreq[r].prev = i
      BY <1>2, <1>4, <2>3, RequestMoves, Zenon
    <3> QED
      BY <1>2, <3>1, <3>2, Zenon DEF DeletesRow, LockedRow
  <2> QED
    BY <2>1, <2>2, <2>3, Zenon DEF RequestStep
<1> QED
  BY <1>3, <1>4, Zenon

---------------------------------------------------------------------------
(* A schedule is only found once the request that creates it is over.      *)

Settled(i) == i = Old \/ sreq[i].pc = "done"

Names ==
    /\ \A r \in SchedRequests : sreq[r].pc \in {"insert", "submit", "save"} => Op[r] # "none"
    /\ \A r \in SchedRequests : sreq[r].prev # "none" => Settled(sreq[r].prev)
    /\ \A i \in Ids : srow[i].there => Settled(i)

\* Steps keep what is settled.
LEMMA SettledKept ==
    ASSUME SchedTypes, SchedNext, NEW i \in Ids, Settled(i)
    PROVE  Settled(i)'
<1>1. CASE UNCHANGED sreq
  BY <1>1, Zenon DEF Settled
<1>2. ASSUME NEW r \in SchedRequests, RequestStep(r) PROVE Settled(i)'
  BY <1>2, RequestMoves, Zenon DEF Settled, Ids
<1> QED
  BY <1>1, <1>2, StepCases, OthersLeaveRequests, Zenon

\* The requests know settled schedules only.
LEMMA NamesStep ==
    ASSUME SchedTypes, Names, SchedNext
    PROVE  Names'
<1> USE SchedAssumption
<1>1. CASE UNCHANGED sreq /\ \A i \in Ids : srow'[i].there = srow[i].there
  BY <1>1, Zenon DEF Names, Settled
<1>2. ASSUME NEW r \in SchedRequests, RequestStep(r) PROVE Names'
  <2>1. ASSUME NEW q \in SchedRequests PROVE sreq'[q].pc \in {"insert", "submit", "save"} => Op[q] # "none"
    <3>1. CASE q # r
      BY <1>2, <3>1, RequestMoves, Zenon DEF Names
    <3>2. CASE q = r
      <4>1. CASE BeginRequest(r) \/ StopExecutions(r) \/ RemovePolicy(r) \/ WaitFinal(r) \/ DeleteRow(r)
                 \/ CommitRequest(r) \/ FailRequest(r) \/ SavePolicy(r)
        BY <1>2, <3>2, <4>1, RequestMoves, Zenon
      <4>2. CASE InsertRow(r) \/ SubmitPolicy(r)
        BY <3>2, <4>2, Zenon DEF InsertRow, SubmitPolicy, Names
      <4> QED
        BY <1>2, <4>1, <4>2, Zenon DEF RequestStep
    <3> QED
      BY <3>1, <3>2, Zenon
  <2>2. ASSUME NEW q \in SchedRequests, NEW p, p = sreq'[q].prev, p # "none" PROVE Settled(p)'
    <3>1. p = sreq[q].prev \/ (p \in Ids /\ srow[p].there)
      BY <1>2, <2>2, RequestMoves, Zenon DEF RequestStep
    <3>2. p \in Ids
      <4>1. sreq[q].prev \in Ids \union {"none"}
        BY Zenon DEF SchedTypes, ReqsTyped, Req
      <4> QED
        BY <2>2, <3>1, <4>1, Zenon
    <3>3. Settled(p)
      BY <2>2, <3>1, <3>2, Zenon DEF Names
    <3> QED
      BY <3>2, <3>3, SettledKept, Zenon
  <2>3. ASSUME NEW i \in Ids, srow'[i].there PROVE Settled(i)'
    <3>1. CASE srow[i].there
      BY <3>1, SettledKept, Zenon DEF Names
    <3>2. CASE ~srow[i].there
      <4>1. CommitRequest(r)
        BY <1>2, <2>3, <3>2, RowsKeptBy, Zenon DEF RowsKept
      <4>2. i \in InsertsRow(r)
        BY <2>3, <3>2, <4>1, Zenon DEF CommitRequest, NoSchedule
      <4>3. i = r /\ sreq'[r].pc = "done"
        BY <1>2, <4>1, <4>2, RequestMoves, Zenon DEF InsertsRow
      <4> QED
        BY <4>3, Zenon DEF Settled
    <3> QED
      BY <3>1, <3>2, Zenon
  <2> QED
    BY <2>1, <2>2, <2>3, Zenon DEF Names
<1>3. ASSUME NEW i \in Ids, CommitCallback(i) PROVE \A j \in Ids : srow'[j].there = srow[j].there
  BY <1>3 DEF CommitCallback, SchedTypes, RowsTyped, Row
<1>4. EnqueueStep \/ ExecutionStep \/ CallbackStep \/ SyncStep => \A i \in Ids : srow'[i].there = srow[i].there
  BY <1>3, RowsKeptBy, Zenon DEF CallbackStep, RowsKept
<1> QED
  BY <1>1, <1>2, <1>4, StepCases, OthersLeaveRequests, Zenon

---------------------------------------------------------------------------
(* Check-ins and callbacks.                                                *)

\* A callback runs for a check-in that is still there, of a schedule that is
\* there, whose revision is before the check-in and which nobody deletes.
CbSound == \A i \in Ids : cb[i] # NoHook => /\ cb[i] \in checkins /\ cb[i].id = i
                                            /\ srow[i].there /\ srow[i].rev < cb[i].at
                                            /\ ~LockedRow(i)

\* An execution that was in time checked in once.
OneHook == \A g, h \in checkins : g.id = h.id /\ g.tick = h.tick /\ <<h.id, h.tick>> \notin late => g = h

\* An execution in the queue has not run before.
Unrun == \A i \in Ids, e \in Ticks : <<i, e>> \in queue /\ <<i, e>> \notin late =>
            fired[i][e] = 0 /\ \A h \in checkins : h.id # i \/ h.tick # e

\* A check-in whose callback ran finds the row gone or its revision reached.
Spent == \A h \in checkins : fired[h.id][h.tick] # 0 /\ <<h.id, h.tick>> \notin late =>
            ~srow[h.id].there \/ srow[h.id].rev >= h.at

\* Callbacks ran for schedules that exist, for executions that were due.
Past == \A i \in Ids, e \in Ticks : fired[i][e] # 0 => e <= now /\ Settled(i)

Callbacks == CbSound /\ OneHook /\ Unrun /\ Spent /\ Past /\ FiredOnce

\* Steps that leave check-ins and callbacks alone, and only put executions
\* of the future in the queue, or declare them late.
LEMMA CallbacksQuiet ==
    ASSUME SchedTypes, Callbacks, SchedNext, RowsKept, UNCHANGED <<checkins, cb, fired>>,
           late \subseteq late', now' \in Nat, now <= now',
           \A i \in Ids, e \in Ticks : <<i, e>> \in queue' /\ <<i, e>> \notin late' => <<i, e>> \in queue \/ e > now,
           \A i \in Ids : LockedRow(i)' => LockedRow(i) \/ cb[i] = NoHook
    PROVE  Callbacks'
<1>1. CbSound'
  BY Zenon DEF CbSound, Callbacks, RowsKept
<1>2. OneHook'
  BY Zenon DEF OneHook, Callbacks
<1>t. now \in Nat /\ Ticks \subseteq Nat /\ checkins \subseteq Hook /\ \A h \in checkins : h.tick <= now /\ h.id \in Ids /\ h.tick \in Ticks
  BY SchedAssumption DEF SchedTypes, HooksTyped, ClockTyped, Ticks, Hook
<1>3. Unrun'
  <2> SUFFICES ASSUME NEW i \in Ids, NEW e \in Ticks, <<i, e>> \in queue', <<i, e>> \notin late'
               PROVE  fired[i][e] = 0 /\ \A h \in checkins : h.id # i \/ h.tick # e
    BY Zenon DEF Unrun
  <2>1. CASE <<i, e>> \in queue
    BY <2>1, Zenon DEF Unrun, Callbacks
  <2>2. CASE e > now
    BY <1>t, <2>2 DEF Past, Callbacks
  <2> QED
    BY <2>1, <2>2, Zenon
<1>4. Spent'
  BY <1>t, Zenon DEF Spent, Callbacks, RowsKept
<1>5. Past'
  <2> SUFFICES ASSUME NEW i \in Ids, NEW e \in Ticks, fired[i][e] # 0 PROVE e <= now' /\ Settled(i)'
    BY Zenon DEF Past
  <2>1. e <= now /\ Settled(i)
    BY Zenon DEF Past, Callbacks
  <2>2. Settled(i)'
    BY <2>1, SettledKept, Zenon
  <2> QED
    BY <1>t, <2>1, <2>2
<1>6. FiredOnce'
  BY Zenon DEF FiredOnce, Callbacks
<1> QED
  BY <1>1, <1>2, <1>3, <1>4, <1>5, <1>6, Zenon DEF Callbacks

\* The steps that leave check-ins alone.
LEMMA CallbacksQuietSteps ==
    ASSUME SchedTypes, Callbacks, SchedNext,
           \/ \E r \in SchedRequests : RequestStep(r) /\ ~CommitRequest(r)
           \/ EnqueueStep \/ SyncStep
           \/ \E i \in Ids, e \in Ticks : EndExecution(i, e)
    PROVE  Callbacks'
<1> USE SchedAssumption
<1>t. now \in Nat /\ now + 1 > now /\ now <= now /\ Ids \X Ticks \subseteq Ids \X Ticks
  BY DEF SchedTypes, ClockTyped
<1>1. RowsKept
  BY RowsKeptBy, Zenon DEF ExecutionStep
<1>2. ASSUME NEW r \in SchedRequests, RequestStep(r), ~CommitRequest(r) PROVE Callbacks'
  <2>1. UNCHANGED <<checkins, cb, fired, late, now>>
    BY <1>2, Zenon DEF RequestStep, BeginRequest, StopExecutions, RemovePolicy, WaitFinal, DeleteRow, InsertRow, SubmitPolicy,
       SavePolicy, FailRequest
  <2>2. queue' \subseteq queue \union {<<r, now + 1>>}
    BY <1>2, Zenon DEF RequestStep, BeginRequest, StopExecutions, RemovePolicy, WaitFinal, DeleteRow, InsertRow, SubmitPolicy,
       SavePolicy, FailRequest
  <2>3. \A i \in Ids, e \in Ticks : <<i, e>> \in queue' => <<i, e>> \in queue \/ e > now
    BY <1>t, <2>2, Zenon
  <2>4. \A i \in Ids : LockedRow(i)' => LockedRow(i) \/ cb[i] = NoHook
    BY <1>2, LocksBy, Zenon DEF DeleteRow
  <2> QED
    BY <1>1, <1>t, <2>1, <2>3, <2>4, CallbacksQuiet, Zenon
<1>3. CASE EnqueueStep
  <2>1. UNCHANGED <<checkins, cb, fired, sreq>>
    BY <1>3, ZenonT(60) DEF EnqueueStep, LoadPolicies, ScheduleNextJobs, Tick, NextExecution
  <2>2. now' \in Nat /\ now <= now' /\ late \subseteq late'
    BY <1>3, <1>t DEF EnqueueStep, LoadPolicies, ScheduleNextJobs, Tick, NextExecution
  <2>3. \A i \in Ids, e \in Ticks : <<i, e>> \in queue' /\ <<i, e>> \notin late' => <<i, e>> \in queue \/ e > now
    <3>1. CASE ScheduleNextJobs
      <4>1. enq.pick.tick \in Nat
        BY <3>1 DEF ScheduleNextJobs, SchedTypes, EnqTyped, Ticks
      <4> QED
        BY <1>t, <3>1, <4>1 DEF ScheduleNextJobs
    <3> QED
      BY <1>3, <3>1, Zenon DEF EnqueueStep, LoadPolicies, Tick, NextExecution
  <2>4. \A i \in Ids : LockedRow(i)' => LockedRow(i) \/ cb[i] = NoHook
    BY <2>1, Zenon DEF LockedRow, DeletesRow
  <2> QED
    BY <1>1, <2>1, <2>2, <2>3, <2>4, CallbacksQuiet, Zenon
<1>4. CASE SyncStep
  <2>1. UNCHANGED <<checkins, cb, fired, sreq, late, now>>
    BY <1>4, Zenon DEF SyncStep, Restart, ListSchedules, SyncLoad, EndSync, RestorePolicy, ClearPolicy
  <2>2. \E i \in Ids : queue' \subseteq queue \union {<<i, now + 1>>}
    <3>1. Old \in Ids
      BY Zenon DEF Ids
    <3> QED
      BY <1>4, <3>1, Zenon DEF SyncStep, Restart, ListSchedules, SyncLoad, EndSync, RestorePolicy, ClearPolicy
  <2>3. \A i \in Ids, e \in Ticks : <<i, e>> \in queue' => <<i, e>> \in queue \/ e > now
    BY <1>t, <2>2, Zenon
  <2>4. \A i \in Ids : LockedRow(i)' => LockedRow(i) \/ cb[i] = NoHook
    BY <2>1, Zenon DEF LockedRow, DeletesRow
  <2> QED
    BY <1>1, <1>t, <2>1, <2>3, <2>4, CallbacksQuiet, Zenon
<1>5. ASSUME NEW i \in Ids, NEW e \in Ticks, EndExecution(i, e) PROVE Callbacks'
  <2>1. UNCHANGED <<checkins, cb, fired, sreq, late, now, queue>>
    BY <1>5, Zenon DEF EndExecution
  <2>2. \A j \in Ids : LockedRow(j)' => LockedRow(j) \/ cb[j] = NoHook
    BY <2>1, Zenon DEF LockedRow, DeletesRow
  <2> QED
    BY <1>1, <1>t, <2>1, <2>2, CallbacksQuiet, Zenon
<1> QED
  BY <1>2, <1>3, <1>4, <1>5, Zenon

\* An execution runs: its check-in is the only one unless it was late.
LEMMA CallbacksRun ==
    ASSUME SchedTypes, Callbacks, SchedNext, NEW i \in Ids, NEW e \in Ticks, RunExecution(i, e)
    PROVE  Callbacks'
<1> USE SchedAssumption
<1>t. now \in Nat /\ now <= now
  BY DEF SchedTypes, ClockTyped
<1>1. RowsKept
  BY RowsKeptBy, Zenon DEF ExecutionStep
<1>2. UNCHANGED <<cb, fired, sreq, late, now>> /\ queue' = queue \ {<<i, e>>} /\ <<i, e>> \in queue
  BY Zenon DEF RunExecution
<1>3. \A j \in Ids : LockedRow(j)' <=> LockedRow(j)
  BY <1>2, Zenon DEF LockedRow, DeletesRow
<1>4. CASE checkins' = checkins
  BY <1>1, <1>2, <1>3, <1>4, <1>t, CallbacksQuiet, Zenon
<1>5. CASE checkins' = checkins \union {[id |-> i, tick |-> e, at |-> now]}
  <2> DEFINE n == [id |-> i, tick |-> e, at |-> now]
  <2>1. n.id = i /\ n.tick = e /\ n.at = now
    BY Zenon
  <2> HIDE DEF n
  <2>2. checkins' = checkins \union {n}
    BY <1>5, Zenon DEF n
  <2>3. <<i, e>> \notin late => fired[i][e] = 0 /\ \A h \in checkins : h.id # i \/ h.tick # e
    BY <1>2, Zenon DEF Callbacks, Unrun
  <2>4. CbSound'
    BY <1>1, <1>2, <1>3, <2>2, Zenon DEF Callbacks, CbSound, RowsKept
  <2>5. OneHook'
    BY <1>2, <2>1, <2>2, <2>3, Zenon DEF Callbacks, OneHook
  <2>6. Unrun'
    <3> SUFFICES ASSUME NEW j \in Ids, NEW f \in Ticks, <<j, f>> \in queue', <<j, f>> \notin late'
                 PROVE  fired[j][f] = 0 /\ \A h \in checkins' : h.id # j \/ h.tick # f
      BY <1>2, Zenon DEF Unrun
    <3>1. j # i \/ f # e
      BY <1>2, Zenon
    <3>2. fired[j][f] = 0 /\ \A h \in checkins : h.id # j \/ h.tick # f
      BY <1>2, Zenon DEF Callbacks, Unrun
    <3> QED
      BY <2>1, <2>2, <3>1, <3>2, Zenon
  <2>7. Spent'
    <3> SUFFICES ASSUME NEW h \in checkins', fired[h.id][h.tick] # 0, <<h.id, h.tick>> \notin late
                 PROVE  ~srow'[h.id].there \/ srow'[h.id].rev >= h.at
      BY <1>2, Zenon DEF Spent
    <3>1. h \in checkins
      BY <2>1, <2>2, <2>3, Zenon
    <3>2. h.id \in Ids
      BY <3>1, Zenon DEF SchedTypes, HooksTyped, Hook
    <3> QED
      BY <1>1, <3>1, <3>2, Zenon DEF Callbacks, Spent, RowsKept
  <2>8. Past' /\ FiredOnce'
    BY <1>2, Zenon DEF Callbacks, Past, FiredOnce, Settled
  <2> QED
    BY <2>4, <2>5, <2>6, <2>7, <2>8, Zenon DEF Callbacks
<1> QED
  BY <1>4, <1>5, Zenon DEF RunExecution

\* A request commits: the row it deletes has no callback under way, and the
\* one it inserts never had one.
LEMMA CallbacksCommit ==
    ASSUME SchedTypes, Names, Callbacks, SchedNext, NEW r \in SchedRequests, CommitRequest(r)
    PROVE  Callbacks'
<1> USE SchedAssumption
<1>1. UNCHANGED <<checkins, cb, fired, late, now, queue>>
  BY Zenon DEF CommitRequest
<1>2. \A i \in Ids : LockedRow(i)' => LockedRow(i)
  <2>1. RequestStep(r)
    BY Zenon DEF RequestStep
  <2>2. ~DeleteRow(r)
    BY Zenon DEF DeleteRow, CommitRequest
  <2> QED
    BY <2>1, <2>2, LocksBy, Zenon
<1>3. \A i \in Ids : srow'[i] = IF i \in DeletesRow(r) THEN NoSchedule
                                ELSE IF i \in InsertsRow(r) THEN [NoSchedule EXCEPT !.there = TRUE] ELSE srow[i]
  BY RowsCommitted, Zenon
<1>4. CbSound'
  <2> SUFFICES ASSUME NEW i \in Ids, cb[i] # NoHook
               PROVE  cb[i] \in checkins /\ cb[i].id = i /\ srow'[i].there /\ srow'[i].rev < cb[i].at /\ ~LockedRow(i)'
    BY <1>1, Zenon DEF CbSound
  <2>1. cb[i] \in checkins /\ cb[i].id = i /\ srow[i].there /\ srow[i].rev < cb[i].at /\ ~LockedRow(i)
    BY Zenon DEF Callbacks, CbSound
  <2>2. i \notin DeletesRow(r)
    BY <2>1, Zenon DEF LockedRow
  <2>3. i \notin InsertsRow(r)
    <3>1. Settled(i)
      BY <2>1, Zenon DEF Names
    <3> QED
      BY <3>1, Zenon DEF InsertsRow, Settled, CommitRequest
  <2>4. srow'[i] = srow[i]
    BY <1>3, <2>2, <2>3, Zenon
  <2> QED
    BY <1>2, <2>1, <2>4, Zenon
<1>5. OneHook' /\ Unrun' /\ FiredOnce'
  BY <1>1, ZenonT(60) DEF Callbacks, OneHook, Unrun, FiredOnce
<1>6. Spent'
  <2> SUFFICES ASSUME NEW h \in checkins, fired[h.id][h.tick] # 0, <<h.id, h.tick>> \notin late
               PROVE  ~srow'[h.id].there \/ srow'[h.id].rev >= h.at
    BY <1>1, Zenon DEF Spent
  <2>1. h.id \in Ids /\ h.tick \in Ticks
    BY Zenon DEF SchedTypes, HooksTyped, Hook
  <2>2. h.id \notin InsertsRow(r)
    <3>1. Settled(h.id)
      BY <2>1, Zenon DEF Callbacks, Past
    <3> QED
      BY <3>1, Zenon DEF InsertsRow, Settled, CommitRequest
  <2>3. CASE h.id \in DeletesRow(r)
    BY <1>3, <2>1, <2>3 DEF NoSchedule
  <2>4. CASE h.id \notin DeletesRow(r)
    <3>1. srow'[h.id] = srow[h.id]
      BY <1>3, <2>1, <2>2, <2>4, Zenon
    <3> QED
      BY <3>1, Zenon DEF Callbacks, Spent
  <2> QED
    BY <2>3, <2>4, Zenon
<1>7. Past'
  BY <1>1, SettledKept, Zenon DEF Callbacks, Past
<1> QED
  BY <1>4, <1>5, <1>6, <1>7, Zenon DEF Callbacks

\* A check-in starts a callback, or is answered and forgotten.
LEMMA CallbacksTrigger ==
    ASSUME SchedTypes, Callbacks, SchedNext, NEW h \in checkins, TriggerCallback(h)
    PROVE  Callbacks'
<1>1. UNCHANGED <<srow, sreq, queue, now, fired, late>> /\ cb[h.id] = NoHook /\ ~LockedRow(h.id)
  BY Zenon DEF TriggerCallback
<1>2. h.id \in Ids /\ cb \in [Ids -> Hook \union {NoHook}]
  BY Zenon DEF SchedTypes, HooksTyped, Hook, CbTyped
<1>3. \A j \in Ids : LockedRow(j)' <=> LockedRow(j)
  BY <1>1, Zenon DEF LockedRow, DeletesRow
<1>4. checkins' \subseteq checkins
  BY Zenon DEF TriggerCallback
<1>5. CbSound'
  <2>1. CASE srow[h.id].there /\ srow[h.id].rev < h.at
    <3>1. cb' = [cb EXCEPT ![h.id] = h] /\ checkins' = checkins
      BY <2>1, Zenon DEF TriggerCallback
    <3> QED
      BY <1>1, <1>2, <1>3, <2>1, <3>1, Zenon DEF Callbacks, CbSound
  <2>2. CASE ~(srow[h.id].there /\ srow[h.id].rev < h.at)
    <3>1. cb' = cb /\ checkins' = checkins \ {h}
      BY <2>2, Zenon DEF TriggerCallback
    <3> QED
      BY <1>1, <1>2, <1>3, <3>1, Zenon DEF Callbacks, CbSound
  <2> QED
    BY <2>1, <2>2, Zenon
<1>6. OneHook' /\ Unrun' /\ Spent' /\ FiredOnce' /\ Past'
  BY <1>1, <1>4, Zenon DEF Callbacks, OneHook, Unrun, Spent, FiredOnce, Past, Settled
<1> QED
  BY <1>5, <1>6, Zenon DEF Callbacks

\* A callback fails: its check-in waits as before.
LEMMA CallbacksFail ==
    ASSUME SchedTypes, Callbacks, SchedNext, NEW i \in Ids, FailCallback(i)
    PROVE  Callbacks'
<1>1. UNCHANGED <<srow, sreq, queue, checkins, now, fired, late>> /\ cb' = [cb EXCEPT ![i] = NoHook]
  BY Zenon DEF FailCallback
<1>2. \A j \in Ids : LockedRow(j)' <=> LockedRow(j)
  BY <1>1, Zenon DEF LockedRow, DeletesRow
<1>3. CbSound'
  BY <1>1, <1>2, Zenon DEF Callbacks, CbSound, SchedTypes, CbTyped
<1>4. OneHook' /\ Unrun' /\ Spent' /\ FiredOnce' /\ Past'
  BY <1>1, ZenonT(60) DEF Callbacks, OneHook, Unrun, Spent, FiredOnce, Past, Settled
<1> QED
  BY <1>3, <1>4, Zenon DEF Callbacks

\* A callback commits: it was the first of its execution, and the revision
\* keeps the check-in from starting it again.
LEMMA CallbacksDone ==
    ASSUME SchedTypes, Names, Callbacks, SchedNext, NEW i \in Ids, CommitCallback(i)
    PROVE  Callbacks' /\ srow[i].there /\ srow'[i].there /\ \A j \in Ids \ {i} : fired'[j] = fired[j]
<1> USE SchedAssumption
<1> DEFINE h == cb[i]
<1>1. /\ UNCHANGED <<sreq, queue, now, late>> /\ h # NoHook
      /\ srow' = [srow EXCEPT ![i].rev = IF srow[i].there THEN h.at ELSE @]
      /\ fired' = [fired EXCEPT ![i][h.tick] = @ + 1]
      /\ cb' = [cb EXCEPT ![i] = NoHook]
      /\ (checkins' = checkins \/ checkins' = checkins \ {h})
  BY Zenon DEF CommitCallback
<1>2. /\ h \in checkins /\ h.id = i /\ srow[i].there /\ srow[i].rev < h.at /\ ~LockedRow(i)
  BY <1>1, Zenon DEF Callbacks, CbSound
<1>3. h \in Hook /\ h.tick \in Ticks /\ h.at \in Nat /\ h.tick <= h.at /\ h.at <= now
  BY <1>2 DEF SchedTypes, HooksTyped, Hook
<1> HIDE DEF h
<1>4. srow'[i].there /\ srow'[i].rev = h.at
  BY <1>1, <1>2, Zenon DEF SchedTypes, RowsTyped, Row
<1>5. \A j \in Ids \ {i} : srow'[j] = srow[j] /\ fired'[j] = fired[j]
  BY <1>1, Zenon DEF SchedTypes, RowsTyped, FiredTyped
<1>6. fired'[i][h.tick] = fired[i][h.tick] + 1 /\ \A e \in Ticks \ {h.tick} : fired'[i][e] = fired[i][e]
  BY <1>1, <1>3, Zenon DEF SchedTypes, FiredTyped
<1>n. \A j \in Ids, e \in Ticks : fired[j][e] \in Nat
  BY Zenon DEF SchedTypes, FiredTyped
<1>7. <<i, h.tick>> \notin late => fired[i][h.tick] = 0
  <2> SUFFICES ASSUME <<i, h.tick>> \notin late, fired[i][h.tick] # 0 PROVE FALSE
    BY Zenon
  <2>1. ~srow[i].there \/ srow[i].rev >= h.at
    BY <1>2, Zenon DEF Callbacks, Spent
  <2>2. srow[i].rev \in Nat
    BY DEF SchedTypes, RowsTyped, Row
  <2> QED
    BY <1>2, <1>3, <2>1, <2>2
<1>8. CbSound'
  <2>1. \A j \in Ids : LockedRow(j)' <=> LockedRow(j)
    BY <1>1, Zenon DEF LockedRow, DeletesRow
  <2> SUFFICES ASSUME NEW j \in Ids, cb'[j] # NoHook
               PROVE  cb'[j] \in checkins' /\ cb'[j].id = j /\ srow'[j].there /\ srow'[j].rev < cb'[j].at /\ ~LockedRow(j)'
    BY Zenon DEF CbSound
  <2>2. j # i /\ cb'[j] = cb[j]
    BY <1>1, Zenon DEF SchedTypes, CbTyped
  <2>3. cb[j] \in checkins /\ cb[j].id = j /\ srow[j].there /\ srow[j].rev < cb[j].at /\ ~LockedRow(j)
    BY <2>2, Zenon DEF Callbacks, CbSound
  <2>4. cb[j] # h
    BY <1>2, <2>2, <2>3, Zenon
  <2> QED
    BY <1>1, <1>5, <2>1, <2>2, <2>3, <2>4, Zenon
<1>9. OneHook'
  BY <1>1, Zenon DEF Callbacks, OneHook
<1>10. Unrun'
  <2> SUFFICES ASSUME NEW j \in Ids, NEW e \in Ticks, <<j, e>> \in queue, <<j, e>> \notin late
               PROVE  fired'[j][e] = 0 /\ \A g \in checkins' : g.id # j \/ g.tick # e
    BY <1>1, Zenon DEF Unrun
  <2>1. fired[j][e] = 0 /\ \A g \in checkins : g.id # j \/ g.tick # e
    BY Zenon DEF Callbacks, Unrun
  <2>2. j # i \/ e # h.tick
    BY <1>2, <2>1, Zenon
  <2> QED
    BY <1>1, <1>5, <1>6, <2>1, <2>2, Zenon
<1>11. Spent'
  <2> SUFFICES ASSUME NEW g \in checkins', fired'[g.id][g.tick] # 0, <<g.id, g.tick>> \notin late
               PROVE  ~srow'[g.id].there \/ srow'[g.id].rev >= g.at
    BY <1>1, Zenon DEF Spent
  <2>1. g \in checkins /\ g.id \in Ids /\ g.tick \in Ticks /\ g.at \in Nat
    BY <1>1 DEF SchedTypes, HooksTyped, Hook
  <2>2. CASE g.id # i
    BY <1>5, <2>1, <2>2, Zenon DEF Callbacks, Spent
  <2>3. CASE g.id = i /\ g.tick = h.tick
    <3>1. g = h
      BY <1>2, <2>1, <2>3, Zenon DEF Callbacks, OneHook
    <3> QED
      BY <1>3, <1>4, <2>3, <3>1
  <2>4. CASE g.id = i /\ g.tick # h.tick
    <3>1. srow[i].rev >= g.at
      <4>1. fired[i][g.tick] # 0
        BY <1>6, <2>1, <2>4, Zenon
      <4> QED
        BY <1>2, <2>1, <2>4, <4>1, Zenon DEF Callbacks, Spent
    <3>2. srow[i].rev \in Nat
      BY DEF SchedTypes, RowsTyped, Row
    <3> QED
      BY <1>2, <1>3, <1>4, <2>1, <2>4, <3>1, <3>2
  <2> QED
    BY <2>2, <2>3, <2>4, Zenon
<1>12. Past'
  <2> SUFFICES ASSUME NEW j \in Ids, NEW e \in Ticks, fired'[j][e] # 0 PROVE e <= now /\ Settled(j)
    BY <1>1, Zenon DEF Past, Settled
  <2>1. CASE j = i /\ e = h.tick
    <3>1. Settled(i)
      BY <1>2, Zenon DEF Names
    <3>2. now \in Nat /\ h.tick \in Nat
      BY <1>3 DEF SchedTypes, ClockTyped, Ticks
    <3>3. h.tick <= now
      BY <1>3, <3>2
    <3> QED
      BY <2>1, <3>1, <3>3, Zenon
  <2>2. CASE ~(j = i /\ e = h.tick)
    BY <1>5, <1>6, <2>2, ZenonT(60) DEF Callbacks, Past
  <2> QED
    BY <2>1, <2>2, Zenon
<1>13. FiredOnce'
  <2> SUFFICES ASSUME NEW j \in Ids, NEW e \in Ticks, fired'[j][e] > 1 PROVE <<j, e>> \in late
    BY <1>1, Zenon DEF FiredOnce
  <2>1. CASE j = i /\ e = h.tick
    BY <1>6, <1>7, <2>1
  <2>2. CASE ~(j = i /\ e = h.tick)
    BY <1>5, <1>6, <2>2, Zenon DEF Callbacks, FiredOnce
  <2> QED
    BY <2>1, <2>2, Zenon
<1> QED
  BY <1>2, <1>4, <1>5, <1>8, <1>9, <1>10, <1>11, <1>12, <1>13, Zenon DEF Callbacks

---------------------------------------------------------------------------
(* jobservice and core.                                                    *)

\* A request has taken the policy of a schedule away, or put one there, and
\* not committed yet.
Handled(i) == \E r \in SchedRequests : /\ sreq[r].prev = i
                                       /\ sreq[r].pc \in {"wait", "delete", "insert", "submit", "save", "commit"}
Adding(i) == i \in SchedRequests /\ sreq[i].pc \in {"save", "commit"} /\ Op[i] # "none"

\* While nothing has disturbed them, the policies are those of the rows and
\* of the requests under way.
Sided == ~disturbed /\ sync.pc # "work" =>
            \A i \in Ids : policies[i] # 0 <=> (srow[i].there /\ ~Handled(i)) \/ Adding(i)

Idle == \A r \in SchedRequests : sreq[r].pc \in {"new", "done"}

\* Where a comparison no request crosses stands with a schedule.
Compared(i) ==
    IF i \in sync.listed
    THEN srow[i].there /\ (i \in sync.loaded <=> policies[i] # 0)
    ELSE IF i \in sync.loaded THEN ~srow[i].there ELSE srow[i].there <=> policies[i] # 0

Comparing ==
    sync.clean /\ sync.pc \in {"load", "work"} =>
      /\ Idle
      /\ sync.pc = "load" => sync.listed = {i \in Ids : srow[i].there}
      /\ sync.pc = "work" => \A i \in Ids : Compared(i)

Sides == Sided /\ Comparing

\* What a step of another request leaves as it was.
LEMMA HandledBy ==
    ASSUME SchedTypes, NEW r \in SchedRequests, RequestStep(r), NEW i \in Ids
    PROVE  /\ Handled(i) <=> \/ sreq[r].prev = i /\ sreq[r].pc \in {"wait", "delete", "insert", "submit", "save", "commit"}
                             \/ \E q \in SchedRequests \ {r} : /\ sreq[q].prev = i
                                   /\ sreq[q].pc \in {"wait", "delete", "insert", "submit", "save", "commit"}
           /\ Handled(i)' <=> \/ sreq'[r].prev = i /\ sreq'[r].pc \in {"wait", "delete", "insert", "submit", "save", "commit"}
                              \/ \E q \in SchedRequests \ {r} : /\ sreq[q].prev = i
                                   /\ sreq[q].pc \in {"wait", "delete", "insert", "submit", "save", "commit"}
           /\ i # r => (Adding(i)' <=> Adding(i))
<1>1. \A q \in SchedRequests \ {r} : sreq'[q] = sreq[q]
  BY RequestMoves, Zenon
<1>2. i # r => (Adding(i)' <=> Adding(i))
  BY <1>1, Zenon DEF Adding
<1>3. Handled(i)' <=> \/ sreq'[r].prev = i /\ sreq'[r].pc \in {"wait", "delete", "insert", "submit", "save", "commit"}
                      \/ \E q \in SchedRequests \ {r} : /\ sreq[q].prev = i
                           /\ sreq[q].pc \in {"wait", "delete", "insert", "submit", "save", "commit"}
  BY <1>1, Zenon DEF Handled
<1> QED
  BY <1>2, <1>3, Zenon DEF Handled

\* A request's step keeps the two sides together, or disturbs them.
LEMMA SidedRequest ==
    ASSUME SchedTypes, Names, Sided, NEW r \in SchedRequests, RequestStep(r)
    PROVE  Sided'
<1> USE SchedAssumption
<1> SUFFICES ASSUME ~disturbed', sync'.pc # "work", NEW i \in Ids
             PROVE  policies'[i] # 0 <=> (srow'[i].there /\ ~Handled(i)') \/ Adding(i)'
  BY Zenon DEF Sided
<1>1. ~disturbed
  BY Zenon DEF RequestStep, BeginRequest, StopExecutions, RemovePolicy, WaitFinal, DeleteRow, InsertRow, SubmitPolicy,
     SavePolicy, CommitRequest, FailRequest
<1>2. sync'.pc = sync.pc
  BY Zenon DEF RequestStep, BeginRequest, StopExecutions, RemovePolicy, WaitFinal, DeleteRow, InsertRow, SubmitPolicy,
     SavePolicy, CommitRequest, FailRequest, SchedTypes, SyncTyped
<1>3. policies[i] # 0 <=> (srow[i].there /\ ~Handled(i)) \/ Adding(i)
  BY <1>1, <1>2, Zenon DEF Sided
<1>4. ~CommitRequest(r) => srow'[i].there = srow[i].there
  BY RowsKeptBy, Zenon DEF RowsKept
<1>5. r \in Ids /\ r # Old /\ r # "none" /\ i # "none"
  BY Zenon DEF Ids
<1>6. sreq[r] \in Req
  BY Zenon DEF SchedTypes, ReqsTyped
<1>7. CASE BeginRequest(r)
  <2>1. policies' = policies /\ sreq[r].pc = "new"
    BY <1>7, Zenon DEF BeginRequest
  <2>2. sreq'[r].pc \in {"done", "insert", "stop"} /\ (sreq'[r].prev # "none" => sreq'[r].pc = "stop")
    BY <1>7, RequestMoves, Zenon
  <2>3. ~CommitRequest(r)
    BY <2>1, Zenon DEF CommitRequest
  <2> QED
    BY <1>3, <1>4, <1>5, <2>1, <2>2, <2>3, HandledBy DEF Adding
<1>8. CASE StopExecutions(r)
  <2>1. policies' = policies /\ sreq[r].pc = "stop"
    BY <1>8, Zenon DEF StopExecutions
  <2>2. /\ sreq'[r].prev = sreq[r].prev
        /\ sreq'[r].pc = IF Located(sreq[r].prev) = 0 THEN "wait" ELSE "remove"
    BY <1>8, RequestMoves, Zenon
  <2>3. ~CommitRequest(r)
    BY <2>1, Zenon DEF CommitRequest
  <2>4. Located(sreq[r].prev) = 0 => policies[sreq[r].prev] = 0
    BY Zenon DEF Located
  <2> QED
    BY <1>3, <1>4, <1>5, <2>1, <2>2, <2>3, <2>4, HandledBy DEF Adding
<1>9. CASE RemovePolicy(r)
  <2>1. sreq[r].pc = "remove" /\ policies' = [policies EXCEPT ![sreq[r].prev] = 0]
    BY <1>9, Zenon DEF RemovePolicy
  <2>2. sreq'[r].prev = sreq[r].prev /\ sreq'[r].pc = "wait"
    BY <1>9, RequestMoves, Zenon
  <2>3. ~CommitRequest(r)
    BY <2>1, Zenon DEF CommitRequest
  <2>4. sreq[r].prev \in Ids /\ sreq[r].prev # "none"
    BY <2>1, Zenon DEF SchedTypes, ReqsTyped, Pointed
  <2>5. ~Adding(sreq[r].prev)
    <3>1. Settled(sreq[r].prev)
      BY <2>4, Zenon DEF Names
    <3> QED
      BY <3>1, Zenon DEF Settled, Adding
  <2>6. policies \in [Ids -> Scores \union {0}]
    BY Zenon DEF SchedTypes, PoliciesTyped
  <2> QED
    BY <1>3, <1>4, <1>5, <2>1, <2>2, <2>3, <2>4, <2>5, <2>6, HandledBy DEF Adding
<1>10. CASE WaitFinal(r) \/ DeleteRow(r) \/ InsertRow(r) \/ SavePolicy(r)
  <2>1. policies' = policies /\ sreq[r].pc \in {"wait", "delete", "insert", "save"}
    BY <1>10, Zenon DEF WaitFinal, DeleteRow, InsertRow, SavePolicy
  <2>2. sreq'[r].prev = sreq[r].prev /\ sreq'[r].pc \in {"delete", "insert", "submit", "commit"}
        /\ (sreq'[r].pc = "commit" => sreq[r].pc = "save" \/ Op[r] = "none") /\ (sreq[r].pc = "save" => sreq'[r].pc = "commit")
    BY <1>10, RequestMoves, Zenon DEF WaitFinal, DeleteRow, InsertRow, SavePolicy
  <2>3. ~CommitRequest(r)
    BY <2>1, Zenon DEF CommitRequest
  <2> QED
    BY <1>3, <1>4, <1>5, <2>1, <2>2, <2>3, HandledBy DEF Adding
<1>11. CASE SubmitPolicy(r)
  <2>1. sreq[r].pc = "submit" /\ Op[r] # "none"
    BY <1>11, Zenon DEF SubmitPolicy, Names
  <2>2. sreq'[r].prev = sreq[r].prev /\ sreq'[r].pc = "save"
    BY <1>11, RequestMoves, Zenon
  <2>3. ~CommitRequest(r)
    BY <2>1, Zenon DEF CommitRequest
  <2>4. policies'[r] # 0 /\ (i # r => policies'[i] = policies[i])
    BY <1>11, <1>5, Zenon DEF SubmitPolicy, SchedTypes, PoliciesTyped
  <2> QED
    BY <1>3, <1>4, <1>5, <2>1, <2>2, <2>3, <2>4, HandledBy DEF Adding
<1>12. CASE CommitRequest(r)
  <2>1. policies' = policies /\ sreq[r].pc = "commit"
    BY <1>12, Zenon DEF CommitRequest
  <2>2. sreq'[r].prev = "none" /\ sreq'[r].pc = "done"
    BY <1>12, RequestMoves, Zenon
  <2>3. srow'[i] = IF i \in DeletesRow(r) THEN NoSchedule
                   ELSE IF i \in InsertsRow(r) THEN [NoSchedule EXCEPT !.there = TRUE] ELSE srow[i]
    BY <1>12, RowsCommitted, Zenon
  <2>4. i \in DeletesRow(r) <=> sreq[r].prev = i
    BY <1>5, <2>1, Zenon DEF DeletesRow
  <2>5. i \in InsertsRow(r) <=> i = r /\ Op[r] # "none"
    BY <2>1, Zenon DEF InsertsRow
  <2>6. CASE sreq[r].prev = i
    <3>1. ~srow'[i].there
      BY <2>3, <2>4, <2>6 DEF NoSchedule
    <3>2. Settled(i)
      BY <1>5, <2>6, Zenon DEF Names
    <3>3. i # r /\ ~Adding(i)
      BY <1>5, <2>1, <3>2, Zenon DEF Settled, Adding
    <3>4. Handled(i)
      BY <2>1, <2>6, Zenon DEF Handled
    <3> QED
      BY <1>3, <2>1, <3>1, <3>3, <3>4, HandledBy, Zenon
  <2>7. CASE sreq[r].prev # i /\ i = r /\ Op[r] # "none"
    <3>1. srow'[i].there
      BY <2>3, <2>4, <2>5, <2>7, Zenon DEF NoSchedule
    <3>2. policies[r] # 0
      BY <1>12, <2>1, <2>5, <2>7, Zenon DEF CommitRequest, InsertsRow
    <3>3. \A q \in SchedRequests : sreq[q].prev # r
      BY <1>5, <2>1, Zenon DEF Names, Settled
    <3>4. ~Handled(i)'
      <4>1. sreq'[r].prev # i /\ \A q \in SchedRequests \ {r} : sreq[q].prev # i
        BY <1>5, <2>2, <2>7, <3>3, Zenon
      <4> QED
        BY <4>1, HandledBy
    <3> QED
      BY <2>1, <2>7, <3>1, <3>2, <3>4, Zenon
  <2>8. CASE sreq[r].prev # i /\ ~(i = r /\ Op[r] # "none")
    <3>1. srow'[i] = srow[i]
      BY <2>3, <2>4, <2>5, <2>8, Zenon
    <3>2. Handled(i)' <=> Handled(i)
      BY <1>5, <2>2, <2>8, HandledBy, Zenon
    <3>3. Adding(i)' <=> Adding(i)
      BY <2>2, <2>8, HandledBy, ZenonT(60) DEF Adding
    <3> QED
      BY <1>3, <2>1, <3>1, <3>2, <3>3, Zenon
  <2> QED
    BY <2>6, <2>7, <2>8, Zenon
<1>13. CASE FailRequest(r)
  <2>1. policies' = policies /\ (sreq[r].prev # "none" => sreq[r].pc = "stop") /\ sreq[r].pc \notin {"save", "commit"}
    BY <1>13, Zenon DEF FailRequest
  <2>2. sreq'[r].prev = "none" /\ sreq'[r].pc = "done"
    BY <1>13, RequestMoves, Zenon
  <2>3. ~CommitRequest(r)
    BY <2>1, Zenon DEF CommitRequest
  <2> QED
    BY <1>3, <1>4, <1>5, <2>1, <2>2, <2>3, HandledBy DEF Adding
<1> QED
  BY <1>7, <1>8, <1>9, <1>10, <1>11, <1>12, <1>13, Zenon DEF RequestStep

\* A request that is under way keeps a comparison from being clean.
LEMMA ComparingRequest ==
    ASSUME SchedTypes, Comparing, NEW r \in SchedRequests, RequestStep(r)
    PROVE  Comparing'
<1>1. CASE BeginRequest(r)
  <2>1. ~sync'.clean
    BY <1>1, Zenon DEF BeginRequest, SchedTypes, SyncTyped
  <2> QED
    BY <2>1, Zenon DEF Comparing
<1>2. CASE ~BeginRequest(r)
  <2>1. sync' = sync /\ sreq[r].pc \notin {"new", "done"}
    BY <1>2, Zenon DEF RequestStep, StopExecutions, RemovePolicy, WaitFinal, DeleteRow, InsertRow, SubmitPolicy,
       SavePolicy, CommitRequest, FailRequest
  <2>2. ~(sync.clean /\ sync.pc \in {"load", "work"})
    BY <2>1, Zenon DEF Comparing, Idle
  <2> QED
    BY <2>1, <2>2, Zenon DEF Comparing
<1> QED
  BY <1>1, <1>2, Zenon

\* Steps that leave rows, requests, policies and the comparison alone.
LEMMA SidesQuiet ==
    ASSUME Sides, UNCHANGED <<sreq, policies, sync, disturbed>>, \A i \in Ids : srow'[i].there = srow[i].there
    PROVE  Sides'
<1>1. Sided'
  BY Zenon DEF Sides, Sided, Handled, Adding
<1>2. Comparing'
  BY Zenon DEF Sides, Comparing, Compared, Idle
<1> QED
  BY <1>1, <1>2, Zenon DEF Sides

\* The comparison: what it has been through is the same on both sides.
LEMMA SidesSync ==
    ASSUME SchedTypes, Sides, SyncStep
    PROVE  Sides'
<1> USE SchedAssumption
<1>1. UNCHANGED <<srow, sreq>>
  BY Zenon DEF SyncStep, Restart, ListSchedules, SyncLoad, EndSync, RestorePolicy, ClearPolicy
<1>2. \A i \in Ids : (Handled(i)' <=> Handled(i)) /\ (Adding(i)' <=> Adding(i))
  BY <1>1, Zenon DEF Handled, Adding
<1>3. Idle' <=> Idle
  BY <1>1, Zenon DEF Idle
<1>t. sync \in [pc : {"idle", "list", "load", "work", "over"}, listed : SUBSET Ids, loaded : SUBSET Ids, clean : BOOLEAN]
      /\ policies \in [Ids -> Scores \union {0}]
  BY Zenon DEF SchedTypes, SyncTyped, PoliciesTyped
<1>4. CASE Restart
  <2>1. sync'.pc = "list" /\ sync.pc = "idle" /\ (disturbed' \/ (policies' = policies /\ disturbed' = disturbed))
    BY <1>4, <1>t, Zenon DEF Restart
  <2>2. Sided'
    BY <1>1, <1>2, <2>1, Zenon DEF Sides, Sided
  <2> QED
    BY <2>1, <2>2, Zenon DEF Sides, Comparing
<1>5. CASE ListSchedules
  <2>1. /\ sync.pc = "list" /\ sync'.pc \in {"over", "load"} /\ policies' = policies /\ disturbed' = disturbed
        /\ sync'.listed = {i \in Ids : srow[i].there} /\ (sync'.clean => Idle)
    BY <1>5, <1>t, Zenon DEF ListSchedules, Idle
  <2>2. Sided'
    BY <1>1, <1>2, <2>1, Zenon DEF Sides, Sided
  <2> QED
    BY <1>1, <1>3, <2>1, <2>2, Zenon DEF Sides, Comparing
<1>6. CASE SyncLoad
  <2>1. /\ sync.pc = "load" /\ sync'.pc = "work" /\ policies' = policies
        /\ sync'.listed = sync.listed /\ sync'.clean = sync.clean /\ sync'.loaded = {i \in Ids : policies[i] # 0}
    BY <1>6, <1>t, Zenon DEF SyncLoad
  <2>2. sync'.clean => Idle /\ sync'.listed = {i \in Ids : srow[i].there}
    BY <2>1, Zenon DEF Sides, Comparing
  <2>3. sync'.clean => \A i \in Ids : Compared(i)'
    BY <1>1, <2>1, <2>2, Zenon DEF Compared
  <2> QED
    BY <1>3, <2>1, <2>2, <2>3, Zenon DEF Sides, Sided, Comparing
<1>7. ASSUME NEW i \in Ids, RestorePolicy(i) PROVE Sides'
  <2>1. /\ sync.pc = "work" /\ sync'.pc = "work" /\ i \in sync.listed /\ i \notin sync.loaded
        /\ sync'.listed = sync.listed \ {i} /\ sync'.clean = sync.clean /\ sync'.loaded = sync.loaded
    BY <1>7, <1>t, Zenon DEF RestorePolicy
  <2>2. policies'[i] # 0 /\ \A j \in Ids \ {i} : policies'[j] = policies[j]
    BY <1>7, <1>t, Zenon DEF RestorePolicy
  <2>3. sync.clean => Idle /\ \A j \in Ids : Compared(j)
    BY <2>1, Zenon DEF Sides, Comparing
  <2>4. sync.clean => \A j \in Ids : Compared(j)'
    BY <1>1, <2>1, <2>2, <2>3, Zenon DEF Compared
  <2> QED
    BY <1>3, <2>1, <2>3, <2>4, Zenon DEF Sides, Sided, Comparing
<1>8. ASSUME NEW i \in Ids, ClearPolicy(i) PROVE Sides'
  <2>1. /\ sync.pc = "work" /\ sync'.pc = "work" /\ i \in sync.loaded /\ i \notin sync.listed
        /\ sync'.loaded = sync.loaded \ {i} /\ sync'.listed = sync.listed
        /\ (sync'.clean => sync.clean /\ policies' = [policies EXCEPT ![i] = 0])
    BY <1>8, <1>t, Zenon DEF ClearPolicy
  <2>2. sync'.clean => policies'[i] = 0 /\ \A j \in Ids \ {i} : policies'[j] = policies[j]
    BY <2>1, <1>t, Zenon
  <2>3. sync'.clean => Idle /\ \A j \in Ids : Compared(j)
    BY <2>1, Zenon DEF Sides, Comparing
  <2>4. sync'.clean => \A j \in Ids : Compared(j)'
    BY <1>1, <2>1, <2>2, <2>3, Zenon DEF Compared
  <2> QED
    BY <1>3, <2>1, <2>3, <2>4, Zenon DEF Sides, Sided, Comparing
<1>9. CASE EndSync
  <2>1. /\ sync.pc = "work" /\ sync'.pc = "over" /\ policies' = policies /\ (disturbed' <=> ~sync.clean)
        /\ sync.listed \ sync.loaded = {} /\ sync.loaded \ sync.listed = {}
    BY <1>9, <1>t, Zenon DEF EndSync, NoSync
  <2>2. sync.clean => Idle /\ \A j \in Ids : Compared(j)
    BY <2>1, Zenon DEF Sides, Comparing
  <2>3. sync.clean => \A j \in Ids : policies[j] # 0 <=> srow[j].there
    BY <2>1, <2>2, Zenon DEF Compared
  <2>4. sync.clean => \A j \in Ids : ~Handled(j) /\ ~Adding(j)
    BY <2>2, Zenon DEF Idle, Handled, Adding
  <2> QED
    BY <1>1, <1>2, <2>1, <2>3, <2>4, Zenon DEF Sides, Sided, Comparing
<1> QED
  BY <1>4, <1>5, <1>6, <1>7, <1>8, <1>9, Zenon DEF SyncStep

---------------------------------------------------------------------------
(* The theorems.                                                           *)

SchedInv == SchedTypes /\ Names /\ Callbacks /\ Sides

\* At the start no request and no callback is under way.
LEMMA SchedInitInv == SchedInit => SchedInv
<1> SUFFICES ASSUME SchedInit PROVE SchedInv
  BY Zenon
<1> USE SchedAssumption DEF SchedInit
<1>1. \A r \in SchedRequests : sreq[r].pc \in {"new", "done"} /\ sreq[r].prev = "none"
  BY DEF New, Gone
<1>2. \A i \in Ids : srow[i].there <=> i = Old
  BY Zenon DEF NoSchedule
<1>3. Names
  BY <1>1, <1>2, Zenon DEF Names, Settled
<1>4. Callbacks
  BY DEF Callbacks, CbSound, OneHook, Unrun, Spent, Past, FiredOnce
<1>5. \A i \in Ids : ~Handled(i) /\ ~Adding(i)
  BY <1>1, Zenon DEF Handled, Adding
<1>6. sync.pc \in {"idle", "over"}
  BY DEF NoSync
<1>7. Sides
  BY <1>2, <1>5, <1>6, Zenon DEF Sides, Sided, Comparing
<1> QED
  BY <1>3, <1>4, <1>7, SchedInitTypes, Zenon DEF SchedInv

\* Every step keeps the invariant.
LEMMA SchedStepInv == SchedInv /\ [SchedNext]_schedVars => SchedInv'
<1> SUFFICES ASSUME SchedInv, [SchedNext]_schedVars PROVE SchedInv'
  BY Zenon
<1> USE DEF SchedInv
<1>1. CASE UNCHANGED schedVars
  <2> USE <1>1 DEF schedVars
  <2>1. SchedTypes'
    BY Zenon DEF SchedTypes, RowsTyped, ReqsTyped, RunsTyped, PoliciesTyped, QueueTyped, EnqTyped, HooksTyped,
       CbTyped, SyncTyped, ClockTyped, FiredTyped
  <2>2. Names'
    BY Zenon DEF Names, Settled
  <2>3. Callbacks'
    <3>1. \A i \in Ids : LockedRow(i)' <=> LockedRow(i)
      BY Zenon DEF LockedRow, DeletesRow
    <3>2. CbSound'
      BY <3>1, Zenon DEF Callbacks, CbSound
    <3>3. OneHook' /\ Unrun' /\ Spent' /\ FiredOnce' /\ Past'
      BY ZenonT(60) DEF Callbacks, OneHook, Unrun, Spent, FiredOnce, Past, Settled
    <3> QED
      BY <3>2, <3>3, Zenon DEF Callbacks
  <2>4. Sides'
    BY SidesQuiet, Zenon
  <2> QED
    BY <2>1, <2>2, <2>3, <2>4, Zenon
<1>2. CASE SchedNext
  <2>1. SchedTypes'
    <3>1. CbOwn
      BY Zenon DEF Callbacks, CbSound, CbOwn
    <3> QED
      BY <1>2, <3>1, StepCases, RequestTypes, ExecutionTypes, CallbackTypes, SyncTypes, Zenon
         DEF RequestStep, EnqueueStep, ExecutionStep, CallbackStep, SyncStep
  <2>2. Names'
    BY <1>2, NamesStep, Zenon
  <2>3. Callbacks'
    <3>1. ASSUME NEW r \in SchedRequests, RequestStep(r) PROVE Callbacks'
      BY <1>2, <3>1, CallbacksQuietSteps, CallbacksCommit, Zenon
    <3>2. CASE EnqueueStep \/ SyncStep
      BY <1>2, <3>2, CallbacksQuietSteps, Zenon
    <3>3. CASE ExecutionStep
      BY <1>2, <3>3, CallbacksQuietSteps, CallbacksRun, Zenon DEF ExecutionStep
    <3>4. CASE CallbackStep
      BY <1>2, <3>4, CallbacksDone, CallbacksFail, CallbacksTrigger, Zenon DEF CallbackStep
    <3> QED
      BY <1>2, <3>1, <3>2, <3>3, <3>4, StepCases, Zenon
  <2>4. Sides'
    <3>1. ASSUME NEW r \in SchedRequests, RequestStep(r) PROVE Sides'
      BY <3>1, SidedRequest, ComparingRequest, Zenon DEF Sides
    <3>2. CASE SyncStep
      BY <3>2, SidesSync, Zenon
    <3>3. CASE EnqueueStep \/ ExecutionStep \/ CallbackStep
      <4>1. UNCHANGED <<sreq, policies, sync, disturbed>>
        BY <3>3, Zenon DEF EnqueueStep, LoadPolicies, ScheduleNextJobs, Tick, NextExecution, ExecutionStep, RunExecution,
           EndExecution, CallbackStep, CommitCallback, FailCallback, TriggerCallback
      <4>2. ASSUME NEW i \in Ids, CommitCallback(i) PROVE \A j \in Ids : srow'[j].there = srow[j].there
        BY <4>2 DEF CommitCallback, SchedTypes, RowsTyped, Row
      <4>3. \A j \in Ids : srow'[j].there = srow[j].there
        BY <3>3, <4>2, RowsKeptBy, Zenon DEF CallbackStep, RowsKept
      <4> QED
        BY <4>1, <4>3, SidesQuiet, Zenon
    <3> QED
      BY <1>2, <3>1, <3>2, <3>3, StepCases, Zenon
  <2> QED
    BY <2>1, <2>2, <2>3, <2>4, Zenon
<1> QED
  BY <1>1, <1>2, Zenon

\* Schedules are well formed, jobservice has the policies of core's schedules
\* once all is quiet and nothing came between them (basicScheduler.Schedule
\* and UnSchedule, scheduler.Schedule and UnScheduleByID, Worker.Run), and a
\* callback runs once for an execution in time (triggerCallback).
THEOREM SchedulesSafe == SchedSpec => []SchedulesSound
<1>1. SchedInv => SchedulesSound
  <2> SUFFICES ASSUME SchedInv PROVE SchedulesSound
    BY Zenon
  <2> USE DEF SchedInv
  <2>1. SchedTypeOK
    BY Zenon DEF SchedTypes, SchedTypeOK, RowsTyped, Row, ReqsTyped, Req, PoliciesTyped, QueueTyped, HooksTyped, Hook
  <2>2. Backed
    <3> SUFFICES ASSUME Quiet, ~disturbed, NEW i \in Ids PROVE srow[i].there <=> policies[i] # 0
      BY Zenon DEF Backed
    <3>1. ~Handled(i) /\ ~Adding(i)
      BY Zenon DEF Quiet, Handled, Adding
    <3>2. sync.pc # "work"
      BY Zenon DEF Quiet
    <3> QED
      BY <3>1, <3>2, Zenon DEF Sides, Sided
  <2> QED
    BY <2>1, <2>2, Zenon DEF SchedulesSound, Callbacks
<1> QED
  BY SchedInitInv, SchedStepInv, <1>1, PTL DEF SchedSpec

\* The callback of a deleted schedule does not run, whatever executions and
\* check-ins of it are still about (triggerCallback, UnScheduleByID).
THEOREM DeletedNotFired == SchedSpec => NotFiredWhenDeleted
<1> DEFINE A == \A i \in Ids : fired'[i] # fired[i] => srow[i].there /\ srow'[i].there
<1>1. ASSUME SchedInv, [SchedNext]_schedVars PROVE [A]_schedVars
  <2>1. ASSUME SchedNext, NEW i \in Ids, fired'[i] # fired[i] PROVE srow[i].there /\ srow'[i].there
    <3>1. \E j \in Ids : CommitCallback(j)
      BY <2>1, ZenonT(60) DEF SchedNext, BeginRequest, StopExecutions, RemovePolicy, WaitFinal, DeleteRow, InsertRow, SubmitPolicy,
         SavePolicy, CommitRequest, FailRequest, LoadPolicies, ScheduleNextJobs, Tick, NextExecution, RunExecution,
         EndExecution, FailCallback, TriggerCallback, Restart, ListSchedules, SyncLoad, EndSync, RestorePolicy, ClearPolicy
    <3> QED
      BY <1>1, <2>1, <3>1, CallbacksDone, ZenonT(60) DEF SchedInv
  <2> QED
    BY <1>1, <2>1, Zenon
<1>2. SchedSpec => []SchedInv
  BY SchedInitInv, SchedStepInv, PTL DEF SchedSpec
<1> QED
  BY <1>1, <1>2, PTL DEF SchedSpec, NotFiredWhenDeleted

---------------------------------------------------------------------------
(* The turns of the enqueuers.                                             *)

\* The node that enqueued last has its turn after the timestamp has aged
\* enough and before the queue runs out.
NextHitInTime ==
    ~lost => /\ lock = 0
             /\ age = IF Horizon - ahead > MaxAge THEN MaxAge ELSE Horizon - ahead
             /\ \E n \in Nodes : timer[n] + Horizon - ahead \in
                                   Sleep + 3 .. Sleep + 8 + MaxJitter

TurnsInv == TurnsTypeOK /\ NextHitInTime

\* The initial state: nothing has been enqueued yet.
LEMMA TurnsInitInv == TurnsInit => TurnsInv
  BY TurnsAssumption DEF TurnsInit, TurnsInv, TurnsTypeOK, NextHitInTime, MaxAge

\* What a node waits after a turn.
LEMMA NextTurnBounds ==
    ASSUME NEW hit \in BOOLEAN, NEW err \in BOOLEAN, NEW t \in NextTurn(hit, err)
    PROVE  /\ t \in Nat /\ t <= Sleep + 8 + MaxJitter
           /\ hit => t >= Sleep + 3
  BY TurnsAssumption DEF NextTurn

\* Every step keeps the last node to enqueue within its limits: a turn of it
\* is a hit again, and time never passes beyond its turn.
LEMMA TurnsStepInv == TurnsInv /\ [TurnsNext]_turnVars => TurnsInv'
<1> SUFFICES ASSUME TurnsInv, [TurnsNext]_turnVars PROVE TurnsInv'
  BY Zenon
<1> USE TurnsAssumption DEF TurnsInv, TurnsTypeOK, NextHitInTime, MaxAge
<1>1. ASSUME NEW n \in Nodes, Hit(n) PROVE TurnsInv'
  <2>1. PICK t \in NextTurn(TRUE, FALSE) : timer' = [timer EXCEPT ![n] = t]
    BY <1>1, Zenon DEF Hit
  <2>2. t \in Nat /\ t >= Sleep + 3 /\ t <= Sleep + 8 + MaxJitter
    BY <2>1, NextTurnBounds, Zenon
  <2>3. timer' \in [Nodes -> Nat] /\ timer'[n] = t
    BY <2>1, <2>2, Zenon
  <2>4. lock = 0 /\ age' = 0 /\ ahead' = Horizon /\ lost' = FALSE
        /\ UNCHANGED <<lock, turnCrashes>>
    BY <1>1, Zenon DEF Hit, ShouldEnqueue
  <2>5. timer'[n] + Horizon - ahead' \in Sleep + 3 .. Sleep + 8 + MaxJitter
    BY <2>2, <2>3, <2>4
  <2>6. TurnsTypeOK'
    <3>1. lost' \in BOOLEAN
      BY <2>4, Zenon
    <3>2. age' \in 0 .. MaxAge /\ ahead' \in 0 .. Horizon /\ lock' \in Nat /\ turnCrashes' \in Nat
      BY <2>4
    <3> QED
      BY <2>3, <3>1, <3>2, Zenon
  <2>7. age' = IF Horizon - ahead' > MaxAge THEN MaxAge ELSE Horizon - ahead'
    BY <2>4
  <2> QED
    BY <2>4, <2>5, <2>6, <2>7, Zenon
<1>2. ASSUME NEW n \in Nodes, HitFails(n) PROVE TurnsInv'
  <2>1. PICK err \in BOOLEAN : \E t \in NextTurn(TRUE, err) :
           timer' = [timer EXCEPT ![n] = t]
    BY <1>2, Zenon DEF HitFails
  <2>2. timer' \in [Nodes -> Nat]
    BY <2>1, NextTurnBounds, Zenon
  <2> QED
    BY <1>2, <2>2 DEF HitFails
<1>3. ASSUME NEW n \in Nodes, CrashTurn(n) PROVE TurnsInv'
  BY <1>3 DEF CrashTurn
<1>4. ASSUME NEW n \in Nodes, Miss(n) PROVE TurnsInv'
  <2>1. PICK t \in NextTurn(FALSE, FALSE) : timer' = [timer EXCEPT ![n] = t]
    BY <1>4, Zenon DEF Miss
  <2>2. timer' \in [Nodes -> Nat]
    BY <2>1, NextTurnBounds, Zenon
  <2>3. ASSUME ~lost PROVE \E m \in Nodes : timer'[m] + Horizon - ahead \in
                                              Sleep + 3 .. Sleep + 8 + MaxJitter
    <3>1. PICK m \in Nodes : timer[m] + Horizon - ahead \in
                               Sleep + 3 .. Sleep + 8 + MaxJitter
      BY <2>3, Zenon
    <3>2. m # n
      BY <1>4, <2>3, <3>1 DEF Miss, ShouldEnqueue
    <3> QED
      BY <2>1, <3>1, <3>2, Zenon
  <2> QED
    BY <1>4, <2>2, <2>3, Zenon DEF Miss
<1>5. CASE Pass
  <2>1. PICK d \in {timer[n] : n \in Nodes} :
           /\ d > 0 /\ \A n \in Nodes : d <= timer[n]
           /\ timer' = [n \in Nodes |-> timer[n] - d]
           /\ age' = IF age + d > MaxAge THEN MaxAge ELSE age + d
           /\ ahead' = Minus(ahead, d)
           /\ lock' = Minus(lock, d)
           /\ UNCHANGED <<lost, turnCrashes>>
    BY <1>5, Zenon DEF Pass
  <2>2. d \in Nat
    BY <2>1, Zenon
  <2>3. TurnsTypeOK'
    BY <2>1, <2>2 DEF Minus
  <2>4. ASSUME ~lost PROVE NextHitInTime'
    <3>1. PICK m \in Nodes : timer[m] + Horizon - ahead \in
                               Sleep + 3 .. Sleep + 8 + MaxJitter
      BY <2>4, Zenon
    <3>2. d < ahead /\ ahead' = ahead - d /\ timer'[m] = timer[m] - d
      BY <2>1, <2>2, <3>1 DEF Minus
    <3>3. lock' = 0
      BY <2>1, <2>2, <2>4 DEF Minus
    <3> QED
      BY <2>1, <2>2, <2>4, <3>1, <3>2, <3>3
  <2> QED
    BY <2>1, <2>3, <2>4, Zenon
<1>6. CASE UNCHANGED turnVars
  BY <1>6, Zenon DEF turnVars
<1> QED
  BY <1>1, <1>2, <1>3, <1>4, <1>5, <1>6, Zenon DEF TurnsNext

\* No execution comes due before a node has put it in the queue, unless a
\* hit was lost to an error or a crash (enqueuer.nextTurn, shouldEnqueue).
THEOREM QueueAheadHolds == TurnsSpec => []QueueAhead
<1>1. TurnsInv => QueueAhead
  BY TurnsAssumption DEF TurnsInv, TurnsTypeOK, NextHitInTime, QueueAhead
<1> QED
  BY TurnsInitInv, TurnsStepInv, <1>1, PTL DEF TurnsSpec
=============================================================================
