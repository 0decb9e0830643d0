----------------------- MODULE RetentionPolicyProofs -----------------------
(***************************************************************************)
(* The retention policy of a project agrees with its metadata, its         *)
(* schedule and its executions, for any requests at once.                  *)
(***************************************************************************)
EXTENDS RetentionPolicy, TLAPS

Crons == {Plea[r].cron : r \in Pleas} \union {"daily", "absent"}
RuleSets == {Plea[r].rules : r \in Pleas} \union {{}, {"all"}}
PlanRows == [cron : Crons, rules : RuleSets]
CronRows == [cron : Crons, by : Pleas \union {"none"}]
Execs == [by : Pleas, st : {"running", "over"}]
PleaPoints == {"new", "insert", "write", "sched", "unsched", "drop", "launch", "commit", "over"}
PleaRecs == [pc : PleaPoints, seen : PlanRows, row : CronRows, runs : SUBSET Execs]

\* Rows, requests and executions have their shapes.
PlanTypes ==
    /\ plan \in [Plans -> PlanRows] /\ \A p \in Plans : plan[p] # NoPlan => plan[p].cron # "absent"
    /\ planId \in Plans \union {"none"}
    /\ cronRow \in [Plans -> CronRows] /\ \A p \in Plans : cronRow[p].cron = "absent" => cronRow[p] = NoRow
    /\ runsOf \in [Plans -> SUBSET Execs]
    /\ plea \in [Pleas -> PleaRecs]
    /\ fore \subseteq Plans
    /\ loaded = [r \in Pleas |-> loaded[r]]

\* Where a request may be, and that it has read a policy when it goes on.
Agrees(r, q) ==
    /\ q.pc = "insert" => Plea[r].op = "create"
    /\ q.pc \in {"write", "sched"} => Plea[r].op = "update"
    /\ q.pc \in {"unsched", "drop"} => Plea[r].op = "delete"
    /\ q.pc = "launch" => Plea[r].op \in {"trigger", "dryrun"}
    /\ q.pc = "commit" => Plea[r].op \in {"create", "update", "delete"}
    /\ q.pc \in {"write", "sched", "unsched", "drop"} => q.seen # NoPlan /\ q.seen.cron # "absent"
    /\ q.pc = "commit" /\ Plea[r].op # "create" => q.seen # NoPlan /\ q.seen.cron # "absent"

\* Nobody works on a policy the metadata does not name.
Asleep(r, q) == Plea[r].op # "create" /\ Target(r) # planId => q.pc \in {"new", "over"}
Elsewhere == \A p \in Plans : p # planId => plan[p] = NoPlan /\ cronRow[p] = NoRow /\ runsOf[p] = {}

\* The locks are held by one request.
Locks ==
    /\ \A r \in Pleas : HoldsMeta(r) => planId = "none"
    /\ \A r, s \in Pleas : HoldsMeta(r) /\ HoldsMeta(s) => r = s
    /\ \A r, s \in Pleas, p \in Plans : HoldsPlan(r, p) /\ HoldsPlan(s, p) => r = s
    /\ \A r, s \in Pleas, p \in Plans : HoldsCron(r, p) /\ HoldsCron(s, p) => r = s

\* What a request has read is still so where it has locked it, unless the
\* policy is one two requests changed.
Fits(r, q) ==
    LET p == Target(r) IN
    p \notin fore =>
      /\ Plea[r].op = "update" /\ q.pc \in {"sched", "commit"} =>
           plan[p] = q.seen /\ (q.seen.cron # "" => q.row # NoRow)
      /\ Plea[r].op = "update" /\ q.pc = "commit" /\ q.seen.cron # Plea[r].cron /\ q.seen.cron # "" =>
           cronRow[p] = q.row
      /\ Plea[r].op = "delete" /\ q.pc \in {"unsched", "drop", "commit"} /\ q.seen.cron # "" => q.row # NoRow
      /\ Plea[r].op = "delete" /\ q.pc \in {"drop", "commit"} /\ q.seen.cron # "" => cronRow[p] = q.row
      /\ Plea[r].op = "delete" /\ q.pc \in {"drop", "commit"} =>
           runsOf[p] \subseteq q.runs /\ \A e \in runsOf[p] : e.st # "running"
      /\ Plea[r].op = "delete" /\ q.pc = "commit" => plan[p] = q.seen

\* Executions are those of requests that are over, and jobs have rules.
RunsKnown ==
    /\ \A p \in Plans : \A e \in runsOf[p] : plea[e.by].pc = "over" /\ (e.st = "running" => loaded[e.by] # {})
    /\ \A r \in Pleas : \A t \in loaded[r] : t.rules # {}

PlanInv ==
    /\ PlanTypes /\ Elsewhere /\ Locks /\ PlanWhole /\ RunsKnown
    /\ \A r \in Pleas : Agrees(r, plea[r]) /\ Asleep(r, plea[r]) /\ Fits(r, plea[r])

\* The rows without contents have the shapes of rows.
LEMMA EmptyRows == NoPlan \in PlanRows /\ NoRow \in CronRows /\ NoPlea \in PleaRecs /\ Ended \in PleaRecs
                   /\ Ended.pc = "over" /\ NoPlea.pc = "new" /\ NoPlan.cron = "absent" /\ NoRow.cron = "absent"
<1>1. NoPlan \in PlanRows /\ NoRow \in CronRows /\ NoPlan.cron = "absent" /\ NoRow.cron = "absent"
  BY Zenon DEF NoPlan, NoRow, PlanRows, CronRows, Crons, RuleSets
<1> QED
  BY <1>1, Zenon DEF NoPlea, Ended, PleaRecs, PleaPoints

\* Every request is about one of the policies.
LEMMA TargetPlan == \A r \in Pleas : Target(r) \in Plans
  BY Zenon DEF Target, Plans

\* A step that only moves one request on, locks what is free, and knows what
\* it has locked.
LEMMA PlanQuiet ==
    ASSUME PlanInv, NEW r \in Pleas, NEW q \in PleaRecs, Put(r, q),
           UNCHANGED <<plan, planId, cronRow, runsOf, loaded>>,
           fore \subseteq fore', fore' \subseteq Plans,
           plea[r].pc # "over",
           Agrees(r, q), Asleep(r, q), Fits(r, q)',
           Plea[r].op = "create" /\ q.pc = "commit" => planId = "none" /\ \A s \in Pleas \ {r} : ~HoldsMeta(s),
           HoldsPlan(r, Target(r))' => HoldsPlan(r, Target(r)) \/ PlanFree(r),
           HoldsCron(r, Target(r))' => HoldsCron(r, Target(r)) \/ CronFree(r)
    PROVE  PlanInv'
<1>1. plea' = [plea EXCEPT ![r] = q] /\ plea'[r] = q /\ \A s \in Pleas \ {r} : plea'[s] = plea[s]
  BY Zenon DEF Put, PlanInv, PlanTypes
<1>2. PlanTypes'
  BY <1>1, Zenon DEF PlanInv, PlanTypes
<1>3. Elsewhere'
  BY Zenon DEF PlanInv, Elsewhere
<1>4. PlanWhole'
  BY Zenon DEF PlanInv, PlanWhole
<1>5. RunsKnown'
  <2>1. \A p \in Plans : \A e \in runsOf[p] : e.by \in Pleas
    BY DEF PlanInv, PlanTypes, Execs
  <2>2. \A p \in Plans : \A e \in runsOf[p] : plea'[e.by].pc = "over"
    BY <1>1, <2>1, Zenon DEF PlanInv, RunsKnown
  <2> QED
    BY <2>2, Zenon DEF PlanInv, RunsKnown
<1>6. ASSUME NEW s \in Pleas PROVE Agrees(s, plea[s])' /\ Asleep(s, plea[s])' /\ Fits(s, plea[s])'
  <2>1. CASE s = r
    BY <1>1, <2>1, Zenon DEF Asleep, Agrees, Fits
  <2>2. CASE s # r
    <3>1. Agrees(s, plea[s]) /\ Asleep(s, plea[s]) /\ Fits(s, plea[s])
      BY Zenon DEF PlanInv
    <3>2. plea'[s] = plea[s]
      BY <1>1, <2>2, Zenon
    <3> QED
      BY <3>1, <3>2, ZenonT(60) DEF Asleep, Agrees, Fits
  <2> QED
    BY <2>1, <2>2, Zenon
<1>7. Locks'
  <2>1. \A s \in Pleas \ {r} : /\ HoldsMeta(s)' <=> HoldsMeta(s)
                               /\ \A p \in Plans : (HoldsPlan(s, p)' <=> HoldsPlan(s, p)) /\ (HoldsCron(s, p)' <=> HoldsCron(s, p))
    BY <1>1, Zenon DEF HoldsMeta, HoldsPlan, HoldsCron
  <2>2. HoldsMeta(r)' => planId = "none" /\ \A s \in Pleas \ {r} : ~HoldsMeta(s)
    BY <1>1, Zenon DEF HoldsMeta
  <2>3. \A p \in Plans : HoldsPlan(r, p)' => \A s \in Pleas \ {r} : ~HoldsPlan(s, p)
    <3> SUFFICES ASSUME NEW p \in Plans, HoldsPlan(r, p)', NEW s \in Pleas \ {r} PROVE ~HoldsPlan(s, p)
      BY Zenon
    <3>1. p = Target(r)
      BY Zenon DEF HoldsPlan
    <3> QED
      BY <3>1, TargetPlan, Zenon DEF PlanFree, PlanInv, Locks
  <2>4. \A p \in Plans : HoldsCron(r, p)' => \A s \in Pleas \ {r} : ~HoldsCron(s, p)
    <3> SUFFICES ASSUME NEW p \in Plans, HoldsCron(r, p)', NEW s \in Pleas \ {r} PROVE ~HoldsCron(s, p)
      BY Zenon
    <3>1. p = Target(r)
      BY Zenon DEF HoldsCron
    <3> QED
      BY <3>1, TargetPlan, Zenon DEF CronFree, PlanInv, Locks
  <2>5. (\A s \in Pleas : HoldsMeta(s) => planId = "none") /\ (\A s, t \in Pleas : HoldsMeta(s) /\ HoldsMeta(t) => s = t)
        /\ (\A s, t \in Pleas, p \in Plans : HoldsPlan(s, p) /\ HoldsPlan(t, p) => s = t)
        /\ (\A s, t \in Pleas, p \in Plans : HoldsCron(s, p) /\ HoldsCron(t, p) => s = t)
    BY Zenon DEF PlanInv, Locks
  <2>6. \A s \in Pleas : HoldsMeta(s)' => planId' = "none"
    BY <2>1, <2>2, <2>5, Zenon
  <2>7. \A s, t \in Pleas : HoldsMeta(s)' /\ HoldsMeta(t)' => s = t
    BY <2>1, <2>2, <2>5, Zenon
  <2>8. \A s, t \in Pleas, p \in Plans : HoldsPlan(s, p)' /\ HoldsPlan(t, p)' => s = t
    BY <2>1, <2>3, <2>5, Zenon
  <2>9. \A s, t \in Pleas, p \in Plans : HoldsCron(s, p)' /\ HoldsCron(t, p)' => s = t
    BY <2>1, <2>4, <2>5, Zenon
  <2> QED
    BY <2>6, <2>7, <2>8, <2>9, Zenon DEF Locks
<1> QED
  BY <1>2, <1>3, <1>4, <1>5, <1>6, <1>7, Zenon DEF PlanInv

\* A request that ends without a change.
LEMMA PlanEnds ==
    ASSUME PlanInv, NEW r \in Pleas, End(r), plea[r].pc # "over",
           UNCHANGED <<plan, planId, cronRow, runsOf, fore, loaded>>
    PROVE  PlanInv'
<1>1. Put(r, Ended) /\ Ended \in PleaRecs /\ Ended.pc = "over"
  BY EmptyRows, Zenon DEF End
<1>2. Agrees(r, Ended) /\ Asleep(r, Ended) /\ Fits(r, Ended)'
  BY <1>1, Zenon DEF Agrees, Asleep, Fits
<1>3. plea'[r].pc = "over"
  BY <1>1, Zenon DEF Put, PlanInv, PlanTypes
<1>4. ~HoldsPlan(r, Target(r))' /\ ~HoldsCron(r, Target(r))'
  BY <1>3, Zenon DEF HoldsPlan, HoldsCron
<1>5. fore \subseteq fore' /\ fore' \subseteq Plans
  BY Zenon DEF PlanInv, PlanTypes
<1> QED
  BY <1>1, <1>2, <1>4, <1>5, PlanQuiet, Zenon

\* The steps of a creation.
LEMMA CreateSteps ==
    ASSUME PlanInv, NEW r \in Pleas, CheckNone(r) \/ InsertPlan(r) \/ CommitCreate(r)
    PROVE  PlanInv'
<1> USE PleaAssumption
<1>p. plea[r] \in PleaRecs /\ plea \in [Pleas -> PleaRecs] /\ fore \subseteq Plans /\ Target(r) \in Plans
  BY TargetPlan, Zenon DEF PlanInv, PlanTypes
<1>1. ASSUME CheckNone(r) \/ InsertPlan(r) PROVE PlanInv'
  <2>1. /\ Plea[r].op = "create" /\ plea[r].pc # "over"
        /\ UNCHANGED <<plan, planId, cronRow, runsOf, fore, loaded>>
    BY <1>1, Zenon DEF CheckNone, InsertPlan
  <2>2. CASE End(r)
    BY <2>1, <2>2, PlanEnds, Zenon
  <2>3. ASSUME NEW l \in {"insert", "commit"}, Go(r, l),
               l = "commit" => planId = "none" /\ \A s \in Pleas \ {r} : ~HoldsMeta(s)
        PROVE  PlanInv'
    <3>q. PICK q : q = [plea[r] EXCEPT !.pc = l]
      BY Zenon
    <3>1. q \in PleaRecs /\ q.pc = l /\ Put(r, q)
      BY <3>q, <1>p, <2>3, Zenon DEF PleaRecs, PleaPoints, Go
    <3>2. Agrees(r, q) /\ Asleep(r, q) /\ Fits(r, q)'
      BY <2>1, <2>3, <3>1, Zenon DEF Agrees, Asleep, Fits
    <3>3. ~HoldsPlan(r, Target(r))' /\ ~HoldsCron(r, Target(r))'
      BY <2>1, Zenon DEF HoldsPlan, HoldsCron
    <3>4. fore \subseteq fore' /\ fore' \subseteq Plans
      BY <1>p, <2>1, Zenon
    <3> QED
      BY <2>1, <2>3, <3>1, <3>2, <3>3, <3>4, PlanQuiet, Zenon
  <2> QED
    BY <1>1, <2>2, <2>3, Zenon DEF CheckNone, InsertPlan
<1>2. ASSUME CommitCreate(r) PROVE PlanInv'
  <2> DEFINE p == Target(r)
  <2>1. /\ Plea[r].op = "create" /\ plea[r].pc = "commit" /\ UNCHANGED <<runsOf, fore, loaded>>
        /\ plan' = [plan EXCEPT ![p] = [cron |-> Plea[r].cron, rules |-> Plea[r].rules]]
        /\ cronRow' = [cronRow EXCEPT ![p] = IF Plea[r].cron = "" THEN NoRow ELSE [cron |-> Plea[r].cron, by |-> r]]
        /\ planId' = p /\ plea' = [plea EXCEPT ![r] = Ended]
    BY <1>2, Zenon DEF CommitCreate, End, Put
  <2>2. HoldsMeta(r) /\ planId = "none" /\ planId # p
    BY <1>p, <2>1, Zenon DEF HoldsMeta, PlanInv, Locks
  <2>3. /\ \A s \in Pleas \ {r} : ~HoldsMeta(s) /\ plea'[s] = plea[s]
        /\ plea'[r] = Ended
    BY <1>p, <2>1, <2>2, Zenon DEF PlanInv, Locks
  <2>4. [cron |-> Plea[r].cron, rules |-> Plea[r].rules] \in PlanRows
        /\ [cron |-> Plea[r].cron, by |-> r] \in CronRows
    BY Zenon DEF PlanRows, CronRows, Crons, RuleSets
  <2>a. /\ [cron |-> Plea[r].cron, rules |-> Plea[r].rules].cron = Plea[r].cron
        /\ [cron |-> Plea[r].cron, by |-> r].cron = Plea[r].cron /\ Plea[r].cron # "absent"
    BY Zenon
  <2>5. \A t \in Plans : plan[t] = NoPlan /\ cronRow[t] = NoRow /\ runsOf[t] = {}
    BY <2>2, Zenon DEF PlanInv, Elsewhere
  <2>6. /\ \A t \in Plans \ {p} : plan'[t] = NoPlan /\ cronRow'[t] = NoRow /\ runsOf'[t] = {}
        /\ plan'[p] = [cron |-> Plea[r].cron, rules |-> Plea[r].rules] /\ runsOf'[p] = {}
        /\ cronRow'[p] = IF Plea[r].cron = "" THEN NoRow ELSE [cron |-> Plea[r].cron, by |-> r]
    BY <1>p, <2>1, <2>5, Zenon DEF PlanInv, PlanTypes
  <2>7. PlanTypes'
    <3>1. plan' \in [Plans -> PlanRows] /\ cronRow' \in [Plans -> CronRows] /\ plea' \in [Pleas -> PleaRecs]
      BY <1>p, <2>1, <2>4, EmptyRows, Zenon DEF PlanInv, PlanTypes
    <3>2. \A t \in Plans : plan'[t] # NoPlan => plan'[t].cron # "absent"
      BY <2>6, <2>a, Zenon
    <3>3. \A t \in Plans : cronRow'[t].cron = "absent" => cronRow'[t] = NoRow
      BY <2>6, <2>a, Zenon
    <3> QED
      BY <1>p, <2>1, <3>1, <3>2, <3>3, Zenon DEF PlanInv, PlanTypes
  <2>8. Elsewhere'
    BY <2>1, <2>6, Zenon DEF Elsewhere
  <2>9. \A s \in Pleas : plea'[s].pc = "over" \/ (plea'[s] = plea[s] /\ (plea[s].pc \in {"new", "over"} \/ Plea[s].op = "create"))
    <3> SUFFICES ASSUME NEW s \in Pleas \ {r} PROVE plea[s].pc \in {"new", "over"} \/ Plea[s].op = "create"
      BY <2>3, EmptyRows, Zenon
    <3> QED
      BY <2>2, TargetPlan, Zenon DEF PlanInv, Asleep
  <2>10. Locks'
    <3>1. \A s \in Pleas : ~HoldsMeta(s)' /\ \A t \in Plans : ~HoldsPlan(s, t)' /\ ~HoldsCron(s, t)'
      <4> SUFFICES ASSUME NEW s \in Pleas
                   PROVE  ~HoldsMeta(s)' /\ \A t \in Plans : ~HoldsPlan(s, t)' /\ ~HoldsCron(s, t)'
        BY Zenon
      <4>1. ~HoldsMeta(s)'
        BY <2>3, EmptyRows, Zenon DEF HoldsMeta
      <4> QED
        BY <2>9, <4>1, Zenon DEF HoldsPlan, HoldsCron
    <3> QED
      BY <3>1, Zenon DEF Locks
  <2>11. PlanWhole'
    <3>1. [cron |-> Plea[r].cron, rules |-> Plea[r].rules] # NoPlan
      BY <2>a, EmptyRows, Zenon
    <3> QED
      BY <2>6, <2>a, <3>1, EmptyRows, ZenonT(60) DEF PlanWhole
  <2>12. RunsKnown'
    BY <2>1, <2>5, Zenon DEF PlanInv, RunsKnown
  <2>13. ASSUME NEW s \in Pleas PROVE Agrees(s, plea[s])' /\ Asleep(s, plea[s])' /\ Fits(s, plea[s])'
    <3>1. Agrees(s, plea[s])'
      <4>1. CASE plea'[s].pc = "over"
        BY <4>1, Zenon DEF Agrees
      <4>2. CASE plea'[s] = plea[s]
        BY <4>2, Zenon DEF PlanInv, Agrees
      <4> QED
        BY <2>9, <4>1, <4>2, Zenon
    <3>2. Asleep(s, plea[s])'
      BY <2>9, Zenon DEF Asleep
    <3>3. Fits(s, plea[s])'
      BY <2>9, Zenon DEF Fits
    <3> QED
      BY <3>1, <3>2, <3>3, Zenon
  <2> QED
    BY <2>7, <2>8, <2>10, <2>11, <2>12, <2>13, Zenon DEF PlanInv
<1> QED
  BY <1>1, <1>2, Zenon

\* The steps of an update, a deletion and a run before the one that changes
\* rows.
LEMMA ReadSteps ==
    ASSUME PlanInv, NEW r \in Pleas,
           ReadForUpdate(r) \/ WritePlan(r) \/ Reschedule(r) \/ ReadForDelete(r) \/ DeleteExecs(r)
             \/ DropPlan(r) \/ BreakDeadlock(r) \/ ReadForRun(r)
    PROVE  PlanInv'
<1> USE PleaAssumption
<1> DEFINE p == Target(r)
<1>p. /\ plea[r] \in PleaRecs /\ plea \in [Pleas -> PleaRecs] /\ fore \subseteq Plans /\ p \in Plans
      /\ plan[p] \in PlanRows /\ cronRow[p] \in CronRows /\ runsOf[p] \in SUBSET Execs
      /\ (plan[p] # NoPlan => plan[p].cron # "absent") /\ (cronRow[p].cron = "absent" => cronRow[p] = NoRow)
      /\ Agrees(r, plea[r]) /\ Asleep(r, plea[r]) /\ Fits(r, plea[r])
  BY TargetPlan, Zenon DEF PlanInv, PlanTypes
<1>o. /\ Plea[r].op \in {"update", "delete", "trigger", "dryrun"} /\ plea[r].pc # "over"
      /\ UNCHANGED <<plan, planId, cronRow, runsOf, loaded>> /\ fore \subseteq fore' /\ fore' \subseteq Plans
  BY <1>p, Zenon DEF ReadForUpdate, WritePlan, Reschedule, ReadForDelete, DeleteExecs, DropPlan, BreakDeadlock, ReadForRun
<1>w. p \notin fore => /\ plan[p] # NoPlan => cronRow[p].cron = IF plan[p].cron = "" THEN "absent" ELSE plan[p].cron
                       /\ plan[p] = NoPlan => cronRow[p] = NoRow /\ runsOf[p] = {}
  BY <1>p, Zenon DEF PlanInv, PlanWhole
<1>e. CASE End(r) /\ fore' = fore
  BY <1>e, <1>o, PlanEnds, Zenon
<1>n. planId # p => plan[p] = NoPlan
  BY <1>p, Zenon DEF PlanInv, Elsewhere
<1>1. ASSUME NEW q \in PleaRecs, Put(r, q), Agrees(r, q), Asleep(r, q), Fits(r, q)',
             HoldsPlan(r, p)' => HoldsPlan(r, p) \/ PlanFree(r),
             HoldsCron(r, p)' => HoldsCron(r, p) \/ CronFree(r)
      PROVE  PlanInv'
  BY <1>1, <1>o, PlanQuiet, Zenon
<1>2. ASSUME NEW q, Put(r, q) PROVE plea'[r] = q
  BY <1>2, <1>p, Zenon DEF Put
<1>3. CASE ReadForUpdate(r) /\ ~End(r)
  <2>q. PICK q : q = [plea[r] EXCEPT !.pc = "write", !.seen = plan[p]]
    BY Zenon
  <2>1. Put(r, q) /\ planId = p /\ plan[p] # NoPlan /\ Plea[r].op = "update"
    BY <2>q, <1>3, Zenon DEF ReadForUpdate
  <2>2. q \in PleaRecs /\ q.pc = "write" /\ q.seen = plan[p]
    BY <2>q, <1>p, Zenon DEF PleaRecs, PleaPoints
  <2>3. Agrees(r, q) /\ Asleep(r, q) /\ Fits(r, q)'
    BY <1>p, <2>1, <2>2, Zenon DEF Agrees, Asleep, Fits
  <2>4. ~HoldsPlan(r, p)' /\ ~HoldsCron(r, p)'
    BY <1>2, <2>1, <2>2, Zenon DEF HoldsPlan, HoldsCron
  <2> QED
    BY <1>1, <2>1, <2>2, <2>3, <2>4, Zenon
<1>4. CASE WritePlan(r)
  <2>q. PICK q : q = [plea[r] EXCEPT !.pc = "sched", !.row = cronRow[p]]
    BY Zenon
  <2>1. Put(r, q) /\ Plea[r].op = "update" /\ plea[r].pc = "write" /\ PlanFree(r)
        /\ fore' = IF plan[p] # plea[r].seen THEN fore \union {p} ELSE fore
    BY <2>q, <1>4, Zenon DEF WritePlan
  <2>2. q \in PleaRecs /\ q.pc = "sched" /\ q.seen = plea[r].seen /\ q.row = cronRow[p]
    BY <2>q, <1>p, Zenon DEF PleaRecs, PleaPoints
  <2>3. Agrees(r, q) /\ Asleep(r, q)
    BY <1>p, <2>1, <2>2, Zenon DEF Agrees, Asleep
  <2>4. Fits(r, q)'
    <3>1. plea[r].seen # NoPlan /\ plea[r].seen.cron # "absent"
      BY <1>p, <2>1, Zenon DEF Agrees
    <3>2. p \notin fore' => p \notin fore /\ plan[p] = plea[r].seen
      BY <2>1, Zenon
    <3>3. p \notin fore' /\ plea[r].seen.cron # "" => cronRow[p] # NoRow
      BY <1>w, <3>1, <3>2, EmptyRows, Zenon
    <3> QED
      BY <1>o, <2>1, <2>2, <3>2, <3>3, Zenon DEF Fits
  <2>5. ~HoldsCron(r, p)'
    BY <1>2, <2>1, <2>2, Zenon DEF HoldsCron
  <2> QED
    BY <1>1, <2>1, <2>2, <2>3, <2>4, <2>5, Zenon
<1>5. CASE Reschedule(r) /\ ~End(r)
  <2>q. PICK q : q = [plea[r] EXCEPT !.pc = "commit"]
    BY Zenon
  <2> DEFINE old == plea[r].seen.cron
             new == Plea[r].cron
  <2>1. /\ Put(r, q) /\ Plea[r].op = "update" /\ plea[r].pc = "sched" /\ fore' = fore
        /\ old = new \/ CronFree(r)
        /\ NeedUn(old, new) /\ plea[r].row # NoRow => cronRow[p] = plea[r].row
    BY <2>q, <1>5, Zenon DEF Reschedule, Go
  <2>2. q \in PleaRecs /\ q.pc = "commit" /\ q.seen = plea[r].seen /\ q.row = plea[r].row
    BY <2>q, <1>p, Zenon DEF PleaRecs, PleaPoints
  <2>3. Agrees(r, q) /\ Asleep(r, q)
    BY <1>p, <2>1, <2>2, Zenon DEF Agrees, Asleep
  <2>4. Fits(r, q)'
    BY <1>p, <1>o, <2>1, <2>2, Zenon DEF Fits, NeedUn
  <2>5. HoldsPlan(r, p)
    BY <2>1, Zenon DEF HoldsPlan
  <2>6. HoldsCron(r, p)' => CronFree(r)
    BY <1>2, <2>1, <2>2, Zenon DEF HoldsCron
  <2> QED
    BY <1>1, <2>1, <2>2, <2>3, <2>4, <2>5, <2>6, Zenon
<1>6. CASE ReadForDelete(r) /\ ~End(r)
  <2>q. PICK q : q = [plea[r] EXCEPT !.pc = "unsched", !.seen = plan[p], !.row = cronRow[p]]
    BY Zenon
  <2>1. Put(r, q) /\ plan[p] # NoPlan /\ Plea[r].op = "delete" /\ fore' = fore
    BY <2>q, <1>6, Zenon DEF ReadForDelete
  <2>2. q \in PleaRecs /\ q.pc = "unsched" /\ q.seen = plan[p] /\ q.row = cronRow[p]
    BY <2>q, <1>p, Zenon DEF PleaRecs, PleaPoints
  <2>3. Agrees(r, q) /\ Asleep(r, q)
    BY <1>p, <1>n, <2>1, <2>2, Zenon DEF Agrees, Asleep
  <2>4. p \notin fore /\ plan[p].cron # "" => cronRow[p] # NoRow
    BY <1>p, <1>w, <2>1, EmptyRows, Zenon
  <2>5. Fits(r, q)'
    BY <1>o, <2>1, <2>2, <2>4, Zenon DEF Fits
  <2>6. ~HoldsPlan(r, p)' /\ ~HoldsCron(r, p)'
    BY <1>2, <2>1, <2>2, Zenon DEF HoldsPlan, HoldsCron
  <2> QED
    BY <1>1, <2>1, <2>2, <2>3, <2>5, <2>6, Zenon
<1>7. CASE DeleteExecs(r) /\ ~End(r)
  <2>q. PICK q : q = [plea[r] EXCEPT !.pc = "drop", !.runs = runsOf[p]]
    BY Zenon
  <2>1. /\ Put(r, q) /\ Plea[r].op = "delete" /\ plea[r].pc = "unsched" /\ fore' = fore
        /\ plea[r].seen.cron # "" => CronFree(r)
        /\ plea[r].seen.cron # "" /\ plea[r].row # NoRow => cronRow[p] = plea[r].row
        /\ \A e \in runsOf[p] : e.st # "running"
    BY <2>q, <1>7, Zenon DEF DeleteExecs
  <2>2. q \in PleaRecs /\ q.pc = "drop" /\ q.seen = plea[r].seen /\ q.row = plea[r].row /\ q.runs = runsOf[p]
    BY <2>q, <1>p, Zenon DEF PleaRecs, PleaPoints
  <2>3. Agrees(r, q) /\ Asleep(r, q)
    BY <1>p, <2>1, <2>2, Zenon DEF Agrees, Asleep
  <2>4. Fits(r, q)'
    BY <1>p, <1>o, <2>1, <2>2, Zenon DEF Fits
  <2>5. ~HoldsPlan(r, p)' /\ (HoldsCron(r, p)' => CronFree(r))
    BY <1>2, <2>1, <2>2, Zenon DEF HoldsPlan, HoldsCron
  <2> QED
    BY <1>1, <2>1, <2>2, <2>3, <2>4, <2>5, Zenon
<1>8. CASE DropPlan(r)
  <2>q. PICK q : q = [plea[r] EXCEPT !.pc = "commit"]
    BY Zenon
  <2>1. /\ Put(r, q) /\ Plea[r].op = "delete" /\ plea[r].pc = "drop" /\ PlanFree(r)
        /\ fore' = IF plan[p] # plea[r].seen THEN fore \union {p} ELSE fore
    BY <2>q, <1>8, Zenon DEF DropPlan, Go
  <2>2. q \in PleaRecs /\ q.pc = "commit" /\ q.seen = plea[r].seen /\ q.row = plea[r].row /\ q.runs = plea[r].runs
    BY <2>q, <1>p, Zenon DEF PleaRecs, PleaPoints
  <2>3. Agrees(r, q) /\ Asleep(r, q)
    BY <1>p, <2>1, <2>2, Zenon DEF Agrees, Asleep
  <2>4. p \notin fore' => p \notin fore /\ plan[p] = plea[r].seen
    BY <2>1, Zenon
  <2>5. Fits(r, q)'
    BY <1>p, <1>o, <2>1, <2>2, <2>4, Zenon DEF Fits
  <2>6. HoldsCron(r, p)' => HoldsCron(r, p)
    BY <1>2, <2>1, <2>2, Zenon DEF HoldsCron
  <2> QED
    BY <1>1, <2>1, <2>2, <2>3, <2>5, <2>6, Zenon
<1>9. CASE ReadForRun(r) /\ ~End(r)
  <2>q. PICK q : q = [plea[r] EXCEPT !.pc = "launch", !.seen = plan[p]]
    BY Zenon
  <2>1. Put(r, q) /\ plan[p] # NoPlan /\ Plea[r].op \in {"trigger", "dryrun"}
    BY <2>q, <1>9, Zenon DEF ReadForRun
  <2>2. q \in PleaRecs /\ q.pc = "launch" /\ q.seen = plan[p]
    BY <2>q, <1>p, Zenon DEF PleaRecs, PleaPoints
  <2>3. Agrees(r, q) /\ Asleep(r, q) /\ Fits(r, q)'
    BY <1>p, <1>n, <2>1, <2>2, Zenon DEF Agrees, Asleep, Fits
  <2>4. ~HoldsPlan(r, p)' /\ ~HoldsCron(r, p)'
    BY <2>1, Zenon DEF HoldsPlan, HoldsCron
  <2> QED
    BY <1>1, <2>1, <2>2, <2>3, <2>4, Zenon
<1> QED
  <2>1. End(r) => fore' = fore \/ WritePlan(r) \/ DropPlan(r)
    BY Zenon DEF ReadForUpdate, Reschedule, ReadForDelete, DeleteExecs, BreakDeadlock, ReadForRun
  <2>2. BreakDeadlock(r) => End(r)
    BY Zenon DEF BreakDeadlock
  <2> QED
    BY <1>e, <1>3, <1>4, <1>5, <1>6, <1>7, <1>8, <1>9, <2>1, <2>2, Zenon

\* A request that ends leaves its locks and the others'.
LEMMA EndFacts ==
    ASSUME PlanInv, NEW r \in Pleas, End(r), planId' = planId
    PROVE  /\ plea' \in [Pleas -> PleaRecs] /\ plea'[r].pc = "over" /\ \A s \in Pleas \ {r} : plea'[s] = plea[s]
           /\ Locks'
           /\ \A s \in Pleas : Agrees(s, plea[s])' /\ Asleep(s, plea[s])'
           /\ \A t \in Plans : \A e \in runsOf[t] : plea'[e.by].pc = "over"
<1>1. /\ plea' \in [Pleas -> PleaRecs] /\ plea'[r].pc = "over" /\ \A s \in Pleas \ {r} : plea'[s] = plea[s]
  BY EmptyRows, Zenon DEF End, Put, PlanInv, PlanTypes
<1>2. \A s \in Pleas : /\ HoldsMeta(s)' => HoldsMeta(s)
                       /\ \A t \in Plans : (HoldsPlan(s, t)' => HoldsPlan(s, t)) /\ (HoldsCron(s, t)' => HoldsCron(s, t))
  <2> TAKE s \in Pleas
  <2>1. CASE s = r
    BY <1>1, <2>1, Zenon DEF HoldsMeta, HoldsPlan, HoldsCron
  <2>2. CASE s # r
    BY <1>1, <2>2, Zenon DEF HoldsMeta, HoldsPlan, HoldsCron
  <2> QED
    BY <2>1, <2>2, Zenon
<1>3. Locks'
  BY <1>2, Zenon DEF PlanInv, Locks
<1>4. ASSUME NEW s \in Pleas PROVE Agrees(s, plea[s])' /\ Asleep(s, plea[s])'
  <2>1. CASE s = r
    BY <1>1, <2>1, Zenon DEF Agrees, Asleep
  <2>2. CASE s # r
    BY <1>1, <2>2, Zenon DEF Agrees, Asleep, PlanInv
  <2> QED
    BY <2>1, <2>2, Zenon
<1>5. \A t \in Plans : \A e \in runsOf[t] : plea'[e.by].pc = "over"
  <2>1. \A t \in Plans : \A e \in runsOf[t] : e.by \in Pleas
    BY DEF PlanInv, PlanTypes, Execs
  <2> QED
    BY <1>1, <2>1, Zenon DEF PlanInv, RunsKnown
<1> QED
  BY <1>1, <1>3, <1>4, <1>5, Zenon

\* A transaction that has locked the row of a policy changes it, its
\* schedule and its executions.
LEMMA PlanCommits ==
    ASSUME PlanInv, NEW r \in Pleas, End(r), HoldsPlan(r, Target(r)), Target(r) = planId,
           UNCHANGED <<planId, fore, loaded>>,
           plan' \in [Plans -> PlanRows], plan'[Target(r)] # NoPlan => plan'[Target(r)].cron # "absent",
           cronRow' \in [Plans -> CronRows], cronRow'[Target(r)].cron = "absent" => cronRow'[Target(r)] = NoRow,
           runsOf' \in [Plans -> SUBSET Execs],
           \A t \in Plans \ {Target(r)} : plan'[t] = plan[t] /\ cronRow'[t] = cronRow[t] /\ runsOf'[t] = runsOf[t],
           runsOf'[Target(r)] \subseteq runsOf[Target(r)],
           cronRow'[Target(r)] # cronRow[Target(r)] => HoldsCron(r, Target(r)),
           Target(r) \notin fore =>
             /\ plan'[Target(r)] # NoPlan =>
                  cronRow'[Target(r)].cron = IF plan'[Target(r)].cron = "" THEN "absent" ELSE plan'[Target(r)].cron
             /\ plan'[Target(r)] = NoPlan => cronRow'[Target(r)] = NoRow /\ runsOf'[Target(r)] = {}
    PROVE  PlanInv'
<1> DEFINE p == Target(r)
<1>p. p \in Plans /\ plan[p] \in PlanRows
  BY TargetPlan, Zenon DEF PlanInv, PlanTypes
<1>1. /\ plea' \in [Pleas -> PleaRecs] /\ plea'[r].pc = "over" /\ \A s \in Pleas \ {r} : plea'[s] = plea[s]
      /\ Locks' /\ \A s \in Pleas : Agrees(s, plea[s])' /\ Asleep(s, plea[s])'
  BY EndFacts, Zenon
<1>2. PlanTypes'
  BY <1>1, Zenon DEF PlanInv, PlanTypes
<1>3. Elsewhere'
  BY Zenon DEF PlanInv, Elsewhere
<1>4. PlanWhole'
  <2> SUFFICES ASSUME NEW t \in Plans \ fore
               PROVE  /\ plan'[t] # NoPlan => cronRow'[t].cron = IF plan'[t].cron = "" THEN "absent" ELSE plan'[t].cron
                      /\ plan'[t] = NoPlan => cronRow'[t] = NoRow /\ runsOf'[t] = {}
    BY Zenon DEF PlanWhole
  <2>1. CASE t = p
    BY <2>1, Zenon
  <2>2. CASE t # p
    BY <2>2, ZenonT(60) DEF PlanInv, PlanWhole
  <2> QED
    BY <2>1, <2>2, Zenon
<1>5. RunsKnown'
  <2>1. \A t \in Plans : \A e \in runsOf'[t] : e \in runsOf[t]
    BY Zenon
  <2>2. \A t \in Plans : \A e \in runsOf[t] : plea'[e.by].pc = "over"
    BY EndFacts, Zenon
  <2> QED
    BY <2>1, <2>2, ZenonT(60) DEF PlanInv, RunsKnown
<1>6. ASSUME NEW s \in Pleas PROVE Fits(s, plea[s])'
  <2>1. CASE s = r
    BY <1>1, <2>1, Zenon DEF Fits
  <2>2. CASE s # r /\ Target(s) # p
    <3>1. plea'[s] = plea[s] /\ Target(s) \in Plans \ {p} /\ Fits(s, plea[s])
      BY <1>1, <2>2, TargetPlan, Zenon DEF PlanInv
    <3>2. plan'[Target(s)] = plan[Target(s)] /\ cronRow'[Target(s)] = cronRow[Target(s)] /\ runsOf'[Target(s)] = runsOf[Target(s)]
      BY <3>1, Zenon
    <3> HIDE DEF p
    <3> QED
      BY <3>1, <3>2, Zenon DEF Fits
  <2>3. CASE s # r /\ Target(s) = p
    <3>1. plea'[s] = plea[s] /\ Fits(s, plea[s])
      BY <1>1, <2>3, Zenon DEF PlanInv
    <3>2. ~HoldsPlan(s, p)
      BY <1>p, <2>3, Zenon DEF PlanInv, Locks
    <3>3. cronRow'[p] = cronRow[p] \/ ~HoldsCron(s, p)
      BY <1>p, <2>3, Zenon DEF PlanInv, Locks
    <3>4. /\ ~(Plea[s].op = "update" /\ plea[s].pc \in {"sched", "commit"})
          /\ ~(Plea[s].op = "delete" /\ plea[s].pc = "commit")
      BY <2>3, <3>2, Zenon DEF HoldsPlan
    <3>5. Plea[s].op = "delete" /\ plea[s].pc = "drop" /\ plea[s].seen.cron # "" => cronRow'[p] = cronRow[p]
      BY <2>3, <3>3, Zenon DEF HoldsCron
    <3>6. runsOf'[p] \subseteq runsOf[p]
      BY Zenon
    <3> HIDE DEF p
    <3> QED
      BY <2>3, <3>1, <3>4, <3>5, <3>6, Zenon DEF Fits
  <2> QED
    BY <2>1, <2>2, <2>3, Zenon
<1> QED
  BY <1>1, <1>2, <1>3, <1>4, <1>5, <1>6, Zenon DEF PlanInv

\* The end of an update and of a deletion.
LEMMA CommitSteps ==
    ASSUME PlanInv, NEW r \in Pleas, CommitUpdate(r) \/ CommitDrop(r)
    PROVE  PlanInv'
<1> USE PleaAssumption
<1> DEFINE p == Target(r)
           old == plea[r].seen.cron
           new == Plea[r].cron
<1>p. /\ plea[r] \in PleaRecs /\ p \in Plans
      /\ plan \in [Plans -> PlanRows] /\ cronRow \in [Plans -> CronRows] /\ runsOf \in [Plans -> SUBSET Execs]
      /\ (plan[p] # NoPlan => plan[p].cron # "absent") /\ (cronRow[p].cron = "absent" => cronRow[p] = NoRow)
      /\ Agrees(r, plea[r]) /\ Asleep(r, plea[r]) /\ Fits(r, plea[r])
  BY TargetPlan, Zenon DEF PlanInv, PlanTypes
<1>w. p \notin fore => /\ plan[p] # NoPlan => cronRow[p].cron = IF plan[p].cron = "" THEN "absent" ELSE plan[p].cron
                       /\ plan[p] = NoPlan => cronRow[p] = NoRow /\ runsOf[p] = {}
  BY <1>p, Zenon DEF PlanInv, PlanWhole
<1>c. plea[r].pc = "commit" /\ End(r) /\ HoldsPlan(r, p) /\ planId = p /\ UNCHANGED <<planId, fore, loaded>>
      /\ plea[r].seen # NoPlan /\ old # "absent"
  <2>1. plea[r].pc = "commit" /\ End(r) /\ UNCHANGED <<planId, fore, loaded>> /\ Plea[r].op \in {"update", "delete"}
    BY Zenon DEF CommitUpdate, CommitDrop
  <2>2. plea[r].seen # NoPlan /\ old # "absent" /\ planId = p
    BY <1>p, <2>1, Zenon DEF Agrees, Asleep
  <2> QED
    BY <2>1, <2>2, Zenon DEF HoldsPlan
<1>1. CASE CommitUpdate(r)
  <2> DEFINE rest == IF NeedUn(old, new) /\ plea[r].row = cronRow[p] THEN NoRow ELSE cronRow[p]
             row == IF NeedSch(old, new) THEN [cron |-> new, by |-> r] ELSE rest
  <2>1. /\ Plea[r].op = "update" /\ runsOf' = runsOf
        /\ plan' = IF plan[p] = NoPlan THEN plan ELSE [plan EXCEPT ![p] = [cron |-> new, rules |-> Plea[r].rules]]
        /\ cronRow' = [cronRow EXCEPT ![p] = row]
    BY <1>1, Zenon DEF CommitUpdate
  <2>2. [cron |-> new, rules |-> Plea[r].rules] \in PlanRows /\ [cron |-> new, by |-> r] \in CronRows /\ row \in CronRows
    BY <1>p, EmptyRows, ZenonT(60) DEF PlanRows, CronRows, Crons, RuleSets
  <2>3. row.cron = "absent" => row = NoRow
    <3>1. [cron |-> new, by |-> r].cron # "absent"
      BY Zenon
    <3> QED
      BY <1>p, <3>1, Zenon
  <2>4. row # cronRow[p] => HoldsCron(r, p)
    BY <1>c, <2>1, Zenon DEF HoldsCron, NeedUn, NeedSch
  <2>5. p \notin fore => plan[p] = plea[r].seen /\ (NeedUn(old, new) => cronRow[p] = plea[r].row)
    BY <1>p, <1>c, <2>1, Zenon DEF Fits, NeedUn
  <2>6. p \notin fore => row.cron = IF new = "" THEN "absent" ELSE new
    <3> SUFFICES ASSUME p \notin fore PROVE row.cron = IF new = "" THEN "absent" ELSE new
      BY Zenon
    <3>1. CASE old = new
      <4>1. row = cronRow[p]
        BY <3>1, Zenon DEF NeedSch, NeedUn
      <4> QED
        BY <1>c, <1>w, <2>5, <3>1, <4>1, Zenon
    <3>2. CASE old # new /\ new # ""
      BY <3>2, Zenon DEF NeedSch
    <3>3. CASE old # new /\ new = ""
      <4>1. row = NoRow
        BY <2>5, <3>3, Zenon DEF NeedSch, NeedUn
      <4> QED
        BY <3>3, <4>1, EmptyRows, Zenon
    <3> QED
      BY <3>1, <3>2, <3>3, Zenon
  <2> HIDE DEF row, rest
  <2>7. /\ cronRow' \in [Plans -> CronRows] /\ cronRow'[p] = row
        /\ plan' \in [Plans -> PlanRows] /\ (plan[p] # NoPlan => plan'[p] = [cron |-> new, rules |-> Plea[r].rules])
        /\ (plan[p] = NoPlan => plan' = plan)
        /\ \A t \in Plans \ {p} : plan'[t] = plan[t] /\ cronRow'[t] = cronRow[t]
    BY <1>p, <2>1, <2>2, Zenon
  <2>8. plan'[p] # NoPlan => plan'[p].cron # "absent"
    BY <1>p, <2>7
  <2>9. p \notin fore =>
          /\ plan'[p] # NoPlan => cronRow'[p].cron = IF plan'[p].cron = "" THEN "absent" ELSE plan'[p].cron
          /\ plan'[p] = NoPlan => cronRow'[p] = NoRow /\ runsOf'[p] = {}
    <3>1. p \notin fore => plan'[p] = [cron |-> new, rules |-> Plea[r].rules]
      BY <1>c, <2>5, <2>7, Zenon
    <3>2. [cron |-> new, rules |-> Plea[r].rules].cron = new /\ new # "absent"
      BY Zenon
    <3>3. [cron |-> new, rules |-> Plea[r].rules] # NoPlan
      BY <3>2, EmptyRows, Zenon
    <3> QED
      BY <2>6, <2>7, <3>1, <3>2, <3>3, Zenon
  <2>10. runsOf' \in [Plans -> SUBSET Execs] /\ runsOf'[p] \subseteq runsOf[p] /\ \A t \in Plans : runsOf'[t] = runsOf[t]
    BY <1>p, <2>1, Zenon
  <2> QED
    BY <1>c, <2>3, <2>4, <2>7, <2>8, <2>9, <2>10, PlanCommits, Zenon
<1>2. CASE CommitDrop(r)
  <2> DEFINE row == IF old # "" /\ cronRow[p] = plea[r].row THEN NoRow ELSE cronRow[p]
  <2>1. /\ Plea[r].op = "delete" /\ plan' = [plan EXCEPT ![p] = NoPlan]
        /\ cronRow' = [cronRow EXCEPT ![p] = row] /\ runsOf' = [runsOf EXCEPT ![p] = runsOf[p] \ plea[r].runs]
    BY <1>2, Zenon DEF CommitDrop
  <2>2. row \in CronRows /\ (row.cron = "absent" => row = NoRow)
    BY <1>p, EmptyRows, Zenon
  <2>3. row # cronRow[p] => HoldsCron(r, p)
    BY <1>c, <2>1, Zenon DEF HoldsCron
  <2>4. p \notin fore => /\ plan[p] = plea[r].seen /\ (old # "" => cronRow[p] = plea[r].row)
                         /\ runsOf[p] \subseteq plea[r].runs
    BY <1>p, <1>c, <2>1, Zenon DEF Fits
  <2>5. p \notin fore => row = NoRow
    BY <1>p, <1>c, <1>w, <2>4, Zenon
  <2> HIDE DEF row
  <2>6. /\ cronRow' \in [Plans -> CronRows] /\ cronRow'[p] = row
        /\ plan' \in [Plans -> PlanRows] /\ plan'[p] = NoPlan
        /\ \A t \in Plans \ {p} : plan'[t] = plan[t] /\ cronRow'[t] = cronRow[t] /\ runsOf'[t] = runsOf[t]
        /\ runsOf'[p] = runsOf[p] \ plea[r].runs
    BY <1>p, <2>1, <2>2, EmptyRows, Zenon
  <2>7. runsOf' \in [Plans -> SUBSET Execs] /\ runsOf'[p] \subseteq runsOf[p]
    BY <1>p, <2>1, Zenon
  <2>8. p \notin fore => runsOf'[p] = {}
    BY <2>4, <2>6, Zenon
  <2> QED
    BY <1>c, <2>2, <2>3, <2>5, <2>6, <2>7, <2>8, PlanCommits, Zenon
<1> QED
  BY <1>1, <1>2, Zenon

\* A job is there only for rules that select its repository.
LEMMA JobsHaveRules == \A rules : \A t \in Launch(rules) : t.rules # {}
  BY DEF Launch

\* An execution starts; one that starts while its policy is deleted is left
\* over.
LEMMA StartStep ==
    ASSUME PlanInv, NEW r \in Pleas, StartRun(r)
    PROVE  PlanInv'
<1> USE PleaAssumption
<1> DEFINE p == Target(r)
           jobs == Launch(plea[r].seen.rules)
           new == [by |-> r, st |-> IF jobs = {} THEN "over" ELSE "running"]
<1>1. /\ plea[r].pc = "launch" /\ End(r) /\ UNCHANGED <<plan, planId, cronRow>>
      /\ \/ UNCHANGED <<runsOf, loaded>>
         \/ runsOf' = [runsOf EXCEPT ![p] = @ \union {new}] /\ loaded' = [loaded EXCEPT ![r] = jobs]
      /\ fore' = IF plan[p] = NoPlan \/ (\E s \in Pleas : Plea[s].op = "delete" /\ Target(s) = p /\ plea[s].pc \in {"drop", "commit"})
                 THEN fore \union {p} ELSE fore
  BY Zenon DEF StartRun
<1>2. /\ p \in Plans /\ fore \subseteq Plans /\ runsOf \in [Plans -> SUBSET Execs] /\ loaded = [s \in Pleas |-> loaded[s]]
      /\ Asleep(r, plea[r]) /\ Agrees(r, plea[r])
  BY TargetPlan, Zenon DEF PlanInv, PlanTypes
<1>3. p = planId
  BY <1>1, <1>2, Zenon DEF Asleep, Agrees
<1>4. new \in Execs /\ new.by = r /\ (new.st = "running" => jobs # {})
  BY Zenon DEF Execs
<1>5. \A t \in jobs : t.rules # {}
  BY JobsHaveRules, Zenon
<1> HIDE DEF new, jobs
<1>6. /\ plea' \in [Pleas -> PleaRecs] /\ plea'[r].pc = "over" /\ \A s \in Pleas \ {r} : plea'[s] = plea[s]
      /\ Locks' /\ \A s \in Pleas : Agrees(s, plea[s])' /\ Asleep(s, plea[s])'
  BY <1>1, EndFacts, Zenon
<1>7. /\ runsOf' \in [Plans -> SUBSET Execs] /\ \A t \in Plans \ {p} : runsOf'[t] = runsOf[t]
      /\ runsOf'[p] = runsOf[p] \/ (runsOf'[p] = runsOf[p] \union {new} /\ loaded'[r] = jobs)
      /\ loaded' = [s \in Pleas |-> loaded'[s]] /\ \A s \in Pleas \ {r} : loaded'[s] = loaded[s]
      /\ loaded'[r] = loaded[r] \/ loaded'[r] = jobs
  <2>1. CASE UNCHANGED <<runsOf, loaded>>
    BY <1>2, <2>1, Zenon
  <2>2. CASE runsOf' = [runsOf EXCEPT ![p] = @ \union {new}] /\ loaded' = [loaded EXCEPT ![r] = jobs]
    <3>1. runsOf[p] \union {new} \in SUBSET Execs
      BY <1>2, <1>4, Zenon
    <3>2. runsOf' \in [Plans -> SUBSET Execs] /\ runsOf'[p] = runsOf[p] \union {new} /\ \A t \in Plans \ {p} : runsOf'[t] = runsOf[t]
      BY <1>2, <2>2, <3>1, Zenon
    <3>3. loaded'[r] = jobs /\ \A s \in Pleas \ {r} : loaded'[s] = loaded[s]
      BY <1>2, <2>2, Zenon
    <3>4. loaded' = [s \in Pleas |-> loaded'[s]]
      BY <1>2, <2>2, Zenon
    <3> QED
      BY <3>2, <3>3, <3>4, Zenon
  <2> QED
    BY <1>1, <2>1, <2>2, Zenon
<1>8. fore \subseteq fore' /\ fore' \subseteq Plans /\ (plan[p] = NoPlan => p \in fore')
      /\ \A s \in Pleas : Plea[s].op = "delete" /\ Target(s) = p /\ plea[s].pc \in {"drop", "commit"} => p \in fore'
  BY <1>1, <1>2, Zenon
<1>9. PlanTypes'
  BY <1>1, <1>6, <1>7, <1>8, Zenon DEF PlanInv, PlanTypes
<1>10. Elsewhere'
  BY <1>1, <1>3, <1>7, Zenon DEF PlanInv, Elsewhere
<1>11. PlanWhole'
  BY <1>1, <1>7, <1>8, Zenon DEF PlanInv, PlanWhole
<1>12. RunsKnown'
  <2>1. ASSUME NEW t \in Plans, NEW e \in runsOf[t]
        PROVE  plea'[e.by].pc = "over" /\ (e.st = "running" => loaded'[e.by] # {})
    <3>1. e.by \in Pleas
      BY <1>2, <2>1 DEF Execs
    <3>2. plea[e.by].pc = "over" /\ (e.st = "running" => loaded[e.by] # {})
      BY <2>1, Zenon DEF PlanInv, RunsKnown
    <3>3. e.by # r
      BY <1>1, <3>2, Zenon
    <3> QED
      BY <1>6, <1>7, <3>1, <3>2, <3>3, Zenon
  <2>2. \A t \in Plans : \A e \in runsOf'[t] : e \in runsOf[t] \/ (e = new /\ loaded'[r] = jobs)
    BY <1>7, Zenon
  <2>3. \A s \in Pleas : \A t \in loaded'[s] : t.rules # {}
    BY <1>5, <1>7, ZenonT(60) DEF PlanInv, RunsKnown
  <2> QED
    BY <1>4, <1>6, <2>1, <2>2, <2>3, Zenon DEF RunsKnown
<1>13. ASSUME NEW s \in Pleas PROVE Fits(s, plea[s])'
  <2>1. CASE s = r
    BY <1>6, <2>1, Zenon DEF Fits
  <2>2. CASE s # r
    <3>1. plea'[s] = plea[s] /\ Fits(s, plea[s]) /\ Target(s) \in Plans
      BY <1>6, <2>2, TargetPlan, Zenon DEF PlanInv
    <3>2. Target(s) \notin fore' => Target(s) \notin fore
      BY <1>8, Zenon
    <3>3. Target(s) \notin fore' /\ Plea[s].op = "delete" /\ plea[s].pc \in {"drop", "commit"} =>
              runsOf'[Target(s)] = runsOf[Target(s)]
      BY <1>7, <1>8, <3>1, Zenon
    <3> HIDE DEF p
    <3> QED
      BY <1>1, <3>1, <3>2, <3>3, Zenon DEF Fits
  <2> QED
    BY <2>1, <2>2, Zenon
<1> QED
  BY <1>6, <1>9, <1>10, <1>11, <1>12, <1>13, Zenon DEF PlanInv

\* An execution ends; none runs under a policy that is about to go.
LEMMA FinishStep ==
    ASSUME PlanInv, NEW p \in Plans, FinishRun(p)
    PROVE  PlanInv'
<1>1. PICK e \in runsOf[p] :
        /\ e.st = "running" /\ runsOf' = [runsOf EXCEPT ![p] = (@ \ {e}) \union {[e EXCEPT !.st = "over"]}]
        /\ UNCHANGED <<plan, planId, cronRow, plea, fore, loaded>>
  BY Zenon DEF FinishRun
<1> DEFINE f == [e EXCEPT !.st = "over"]
<1>2. runsOf \in [Plans -> SUBSET Execs] /\ e \in Execs
  BY Zenon DEF PlanInv, PlanTypes
<1>3. f \in Execs /\ f.by = e.by /\ f.st = "over"
  BY <1>2, Zenon DEF Execs
<1> HIDE DEF f
<1>4. /\ runsOf' \in [Plans -> SUBSET Execs] /\ \A t \in Plans \ {p} : runsOf'[t] = runsOf[t]
      /\ runsOf'[p] = (runsOf[p] \ {e}) \union {f}
  <2>1. (runsOf[p] \ {e}) \union {f} \in SUBSET Execs
    BY <1>2, <1>3, Zenon
  <2>2. runsOf' = [runsOf EXCEPT ![p] = (runsOf[p] \ {e}) \union {f}]
    BY <1>1, Zenon DEF f
  <2> QED
    BY <1>2, <2>1, <2>2, Zenon
<1>5. PlanTypes'
  BY <1>1, <1>4, Zenon DEF PlanInv, PlanTypes
<1>6. Elsewhere'
  <2>1. p = planId
    BY <1>1, Zenon DEF PlanInv, Elsewhere
  <2> QED
    BY <1>1, <1>4, <2>1, Zenon DEF PlanInv, Elsewhere
<1>7. Locks'
  BY <1>1, ZenonT(60) DEF PlanInv, Locks, HoldsMeta, HoldsPlan, HoldsCron
<1>8. PlanWhole'
  <2>1. p \notin fore => plan[p] # NoPlan
    BY <1>1, Zenon DEF PlanInv, PlanWhole
  <2> QED
    BY <1>1, <1>4, <2>1, Zenon DEF PlanInv, PlanWhole
<1>9. RunsKnown'
  <2>1. \A t \in Plans : \A x \in runsOf'[t] : x \in runsOf[t] \/ (x = f /\ t = p)
    BY <1>4, Zenon
  <2>2. plea[f.by].pc = "over" /\ f.st # "running"
    BY <1>3, Zenon DEF PlanInv, RunsKnown
  <2> QED
    BY <1>1, <2>1, <2>2, Zenon DEF PlanInv, RunsKnown
<1>10. ASSUME NEW s \in Pleas PROVE Agrees(s, plea[s])' /\ Asleep(s, plea[s])' /\ Fits(s, plea[s])'
  <2>1. Agrees(s, plea[s]) /\ Asleep(s, plea[s]) /\ Fits(s, plea[s]) /\ Target(s) \in Plans
    BY TargetPlan, Zenon DEF PlanInv
  <2>2. Agrees(s, plea[s])' /\ Asleep(s, plea[s])'
    BY <1>1, <2>1, Zenon DEF Agrees, Asleep
  <2>3. Target(s) \notin fore /\ Plea[s].op = "delete" /\ plea[s].pc \in {"drop", "commit"} =>
            runsOf'[Target(s)] = runsOf[Target(s)]
    <3>1. Target(s) = p /\ Target(s) \notin fore => ~(Plea[s].op = "delete" /\ plea[s].pc \in {"drop", "commit"})
      BY <1>1, <2>1, Zenon DEF Fits
    <3> QED
      BY <1>4, <2>1, <3>1, Zenon
  <2>4. Fits(s, plea[s])'
    BY <1>1, <2>1, <2>3, Zenon DEF Fits
  <2> QED
    BY <2>2, <2>4, Zenon
<1> QED
  BY <1>5, <1>6, <1>7, <1>8, <1>9, <1>10, Zenon DEF PlanInv

\* The policy at the start has its schedule and no executions.
LEMMA PlanInitInv == PlanInit => PlanInv
<1> SUFFICES ASSUME PlanInit PROVE PlanInv
  BY Zenon
<1> USE PleaAssumption
<1> DEFINE first == [cron |-> "daily", rules |-> {"all"}]
           row == [cron |-> "daily", by |-> "none"]
<1>1. /\ planId \in Plans \union {"none"} /\ fore = {} /\ plea \in [Pleas -> {NoPlea, Ended}]
      /\ plan = [p \in Plans |-> IF p = planId THEN first ELSE NoPlan]
      /\ cronRow = [p \in Plans |-> IF p = planId THEN row ELSE NoRow]
      /\ runsOf = [p \in Plans |-> {}] /\ loaded = [r \in Pleas |-> {}]
  BY Zenon DEF PlanInit, Plans
<1>2. first \in PlanRows /\ row \in CronRows /\ first.cron = "daily" /\ row.cron = "daily"
  BY Zenon DEF PlanRows, CronRows, Crons, RuleSets
<1> HIDE DEF first, row
<1>3. \A p \in Plans : /\ plan[p] = IF p = planId THEN first ELSE NoPlan
                       /\ cronRow[p] = IF p = planId THEN row ELSE NoRow
                       /\ runsOf[p] = {}
  BY <1>1, Zenon
<1>4. \A r \in Pleas : plea[r].pc \in {"new", "over"}
  BY <1>1, EmptyRows, Zenon
<1>5. PlanTypes
  <2>1. plan \in [Plans -> PlanRows] /\ cronRow \in [Plans -> CronRows]
    BY <1>1, <1>2, EmptyRows, Zenon
  <2>2. plea \in [Pleas -> PleaRecs] /\ runsOf \in [Plans -> SUBSET Execs] /\ loaded = [r \in Pleas |-> loaded[r]]
    BY <1>1, EmptyRows, Zenon
  <2>3. \A p \in Plans : (plan[p] # NoPlan => plan[p].cron # "absent") /\ (cronRow[p].cron = "absent" => cronRow[p] = NoRow)
    BY <1>2, <1>3, Zenon
  <2> QED
    BY <1>1, <2>1, <2>2, <2>3, Zenon DEF PlanTypes
<1>6. Elsewhere
  BY <1>3, Zenon DEF Elsewhere
<1>7. Locks
  <2>1. \A r \in Pleas : ~HoldsMeta(r) /\ \A p \in Plans : ~HoldsPlan(r, p) /\ ~HoldsCron(r, p)
    BY <1>4, Zenon DEF HoldsMeta, HoldsPlan, HoldsCron
  <2> QED
    BY <2>1, Zenon DEF Locks
<1>8. PlanWhole
  <2>1. first # NoPlan
    BY <1>2, EmptyRows, Zenon
  <2> QED
    BY <1>2, <1>3, <2>1, Zenon DEF PlanWhole
<1>9. RunsKnown
  BY <1>1, <1>3, Zenon DEF RunsKnown
<1>10. \A r \in Pleas : Agrees(r, plea[r]) /\ Asleep(r, plea[r]) /\ Fits(r, plea[r])
  BY <1>4, Zenon DEF Agrees, Asleep, Fits
<1> QED
  BY <1>5, <1>6, <1>7, <1>8, <1>9, <1>10, Zenon DEF PlanInv

\* Whatever requests create, update, delete and trigger the retention policy
\* of a project at once, there is one policy at most, it is scheduled with
\* its own cron string, a deleted one leaves nothing behind, and executions
\* run only while they have jobs with rules (retention handler and
\* controller).
THEOREM PolicySafe == PlanSpec => []PolicySound
<1>1. PlanInv /\ [PlanNext]_planVars => PlanInv'
  <2> SUFFICES ASSUME PlanInv, [PlanNext]_planVars PROVE PlanInv'
    BY Zenon
  <2>1. CASE UNCHANGED planVars
    <3> USE <2>1 DEF planVars
    <3>1. PlanTypes' /\ Elsewhere' /\ PlanWhole' /\ RunsKnown'
      BY ZenonT(60) DEF PlanInv, PlanTypes, Elsewhere, PlanWhole, RunsKnown
    <3>2. Locks'
      BY ZenonT(60) DEF PlanInv, Locks, HoldsMeta, HoldsPlan, HoldsCron
    <3>3. \A r \in Pleas : Agrees(r, plea[r])' /\ Asleep(r, plea[r])' /\ Fits(r, plea[r])'
      BY ZenonT(60) DEF PlanInv, Agrees, Asleep, Fits
    <3> QED
      BY <3>1, <3>2, <3>3, Zenon DEF PlanInv
  <2>2. CASE PlanNext
    BY <2>2, CreateSteps, ReadSteps, CommitSteps, StartStep, FinishStep, Zenon DEF PlanNext
  <2> QED
    BY <2>1, <2>2, Zenon
<1>2. PlanInv => PolicySound
  <2> SUFFICES ASSUME PlanInv PROVE PolicySound
    BY Zenon
  <2>1. OnePolicy
    BY Zenon DEF PlanInv, Elsewhere, OnePolicy
  <2>2. RunsHaveJobs
    <3>1. \A p \in Plans : \A e \in runsOf[p] : e.by \in Pleas
      BY DEF PlanInv, PlanTypes, Execs
    <3> QED
      BY <3>1, Zenon DEF PlanInv, RunsKnown, RunsHaveJobs
  <2> QED
    BY <2>1, <2>2, Zenon DEF PlanInv, PolicySound
<1> QED
  BY <1>1, <1>2, PlanInitInv, PTL DEF PlanSpec
=============================================================================
