-------------------------- MODULE RetentionPolicy --------------------------
(***************************************************************************)
(* The retention policy of a project: requests that create, update, delete *)
(* and trigger it, each in one transaction over the tables of policies,    *)
(* project metadata (which names the policy of the project), schedules and *)
(* executions.  A request reads a row, and locks it only when it writes it,*)
(* until its end; a row of a unique key waits for a transaction that has   *)
(* inserted the same key.                                                  *)
(*                                                                         *)
(* A policy is named after the request that creates it.  A cron string is  *)
(* a value, "" is the policy without schedule.  The stop of a schedule in  *)
(* jobservice is in Schedules.                                             *)
(***************************************************************************)
EXTENDS Naturals, FiniteSets

CONSTANTS Pleas,      \* requests
          Plea,       \* what each asks for: op, plan, cron, rules
          FirstPlan,  \* the policy there may be at the start
          Repositories

Plans == {Plea[r].plan : r \in Pleas} \union {FirstPlan}

ASSUME PleaAssumption ==
    /\ "none" \notin Plans
    /\ \A r \in Pleas : Plea[r].op \in {"create", "update", "delete", "trigger", "dryrun"} /\ Plea[r].cron # "absent"

VARIABLES
    plan,     \* table retention_policy: the cron string and the rules
    planId,   \* project_metadata "retention_id"
    cronRow,  \* table schedule: the row of a policy's schedule
    runsOf,   \* table execution: the policy's executions, "running" and "over"
    plea,     \* the requests
    fore,     \* history: policies a request changed after it read an old row
    loaded    \* history: the tasks of the executions

planVars == <<plan, planId, cronRow, runsOf, plea, fore, loaded>>

NoPlan == [cron |-> "absent", rules |-> {}]
NoRow == [cron |-> "absent", by |-> "none"]
NoPlea == [pc |-> "new", seen |-> NoPlan, row |-> NoRow, runs |-> {}]
Ended == [NoPlea EXCEPT !.pc = "over"]

PlanInit ==
    /\ planId \in {FirstPlan, "none"}
    /\ plan = [p \in Plans |-> IF p = planId THEN [cron |-> "daily", rules |-> {"all"}] ELSE NoPlan]
    /\ cronRow = [p \in Plans |-> IF p = planId THEN [cron |-> "daily", by |-> "none"] ELSE NoRow]
    /\ runsOf = [p \in Plans |-> {}]
    /\ plea \in [Pleas -> {NoPlea, Ended}]
    /\ fore = {}
    /\ loaded = [r \in Pleas |-> {}]

---------------------------------------------------------------------------

Target(r) == Plea[r].plan
Put(r, rec) == plea' = [plea EXCEPT ![r] = rec]
Go(r, l) == Put(r, [plea[r] EXCEPT !.pc = l])
End(r) == Put(r, Ended)

\* Locks: of the row of a policy, of the row of its schedule, of the metadata.
HoldsPlan(r, p) == Target(r) = p /\ \/ Plea[r].op = "update" /\ plea[r].pc \in {"sched", "commit"}
                                    \/ Plea[r].op = "delete" /\ plea[r].pc = "commit"
HoldsCron(r, p) == Target(r) = p /\ \/ Plea[r].op = "update" /\ plea[r].pc = "commit" /\ plea[r].seen.cron # Plea[r].cron
                                    \/ Plea[r].op = "delete" /\ plea[r].pc \in {"drop", "commit"} /\ plea[r].seen.cron # ""
HoldsMeta(r) == Plea[r].op = "create" /\ plea[r].pc = "commit"
PlanFree(r) == \A s \in Pleas \ {r} : ~HoldsPlan(s, Target(r))
CronFree(r) == \A s \in Pleas \ {r} : ~HoldsCron(s, Target(r))

---------------------------------------------------------------------------
(* CreateRetention.                                                        *)

\* The project has no policy yet.
CheckNone(r) ==
    /\ Plea[r].op = "create" /\ plea[r].pc = "new"
    /\ IF planId = "none" THEN Go(r, "insert") ELSE End(r)
    /\ UNCHANGED <<plan, planId, cronRow, runsOf, fore, loaded>>

\* The policy, its schedule and the metadata; the unique key of the metadata
\* waits for another request that has inserted it.
InsertPlan(r) ==
    /\ Plea[r].op = "create" /\ plea[r].pc = "insert"
    /\ \A s \in Pleas \ {r} : ~HoldsMeta(s)
    /\ IF planId = "none" THEN Go(r, "commit") ELSE End(r)
    /\ UNCHANGED <<plan, planId, cronRow, runsOf, fore, loaded>>

CommitCreate(r) ==
    /\ Plea[r].op = "create" /\ plea[r].pc = "commit"
    /\ plan' = [plan EXCEPT ![Target(r)] = [cron |-> Plea[r].cron, rules |-> Plea[r].rules]]
    /\ cronRow' = [cronRow EXCEPT ![Target(r)] = IF Plea[r].cron = "" THEN NoRow ELSE [cron |-> Plea[r].cron, by |-> r]]
    /\ planId' = Target(r)
    /\ End(r)
    /\ UNCHANGED <<runsOf, fore, loaded>>

---------------------------------------------------------------------------
(* UpdateRetention.                                                        *)

\* requirePolicyAccess, and the row the update compares with.
ReadForUpdate(r) ==
    /\ Plea[r].op = "update" /\ plea[r].pc = "new"
    /\ IF planId = Target(r) /\ plan[Target(r)] # NoPlan
       THEN Put(r, [plea[r] EXCEPT !.pc = "write", !.seen = plan[Target(r)]])
       ELSE End(r)
    /\ UNCHANGED <<plan, planId, cronRow, runsOf, fore, loaded>>

\* UpdatePolicy does not look at the number of rows it changed; then
\* UnScheduleByVendor lists the schedules.
WritePlan(r) ==
    /\ Plea[r].op = "update" /\ plea[r].pc = "write" /\ PlanFree(r)
    /\ Put(r, [plea[r] EXCEPT !.pc = "sched", !.row = cronRow[Target(r)]])
    /\ fore' = IF plan[Target(r)] # plea[r].seen THEN fore \union {Target(r)} ELSE fore
    /\ UNCHANGED <<plan, planId, cronRow, runsOf, loaded>>

NeedUnNever(old, new) == old # new /\ old = "never"
NeedSch(old, new) == old # new /\ new # ""

\* What the schedule needs follows from the row of the policy that was read.
NeedUn(old, new) == old # new /\ old # ""
\* UnScheduleByVendor and Schedule: a listed schedule that has gone when it is
\* deleted is not found, one that is there still, or again, is a conflict of
\* the unique key.
Reschedule(r) ==
    LET old == plea[r].seen.cron
        new == Plea[r].cron
        row == cronRow[Target(r)]
        listed == IF NeedUn(old, new) THEN plea[r].row ELSE NoRow
        gone == listed # NoRow /\ row # listed
        conflict == NeedSch(old, new) /\ row \notin {NoRow, listed}
    IN
    /\ Plea[r].op = "update" /\ plea[r].pc = "sched"
    /\ old = new \/ CronFree(r)
    /\ IF gone \/ conflict THEN End(r) ELSE Go(r, "commit")
    /\ UNCHANGED <<plan, planId, cronRow, runsOf, fore, loaded>>

CommitUpdate(r) ==
    LET p == Target(r)
        old == plea[r].seen.cron
        new == Plea[r].cron
        rest == IF NeedUn(old, new) /\ plea[r].row = cronRow[p] THEN NoRow ELSE cronRow[p]
    IN
    /\ Plea[r].op = "update" /\ plea[r].pc = "commit"
    /\ plan' = IF plan[p] = NoPlan THEN plan
               ELSE [plan EXCEPT ![p] = [cron |-> new, rules |-> Plea[r].rules]]
    /\ cronRow' = [cronRow EXCEPT ![p] = IF NeedSch(old, new) THEN [cron |-> new, by |-> r] ELSE rest]
    /\ End(r)
    /\ UNCHANGED <<planId, runsOf, fore, loaded>>

---------------------------------------------------------------------------
(* DeleteRetention.  The metadata keeps naming the policy.                 *)

ReadForDelete(r) ==
    /\ Plea[r].op = "delete" /\ plea[r].pc = "new"
    /\ IF plan[Target(r)] # NoPlan
       THEN Put(r, [plea[r] EXCEPT !.pc = "unsched", !.seen = plan[Target(r)], !.row = cronRow[Target(r)]])
       ELSE End(r)
    /\ UNCHANGED <<plan, planId, cronRow, runsOf, fore, loaded>>

\* UnScheduleByVendor and deleteExecs: a listed schedule that has gone is not
\* found, an execution that runs is not deleted, and the request fails.
DeleteExecs(r) ==
    LET planned == plea[r].seen.cron # ""
        gone == planned /\ plea[r].row # NoRow /\ cronRow[Target(r)] # plea[r].row
        busy == \E e \in runsOf[Target(r)] : e.st = "running"
    IN
    /\ Plea[r].op = "delete" /\ plea[r].pc = "unsched"
    /\ planned => CronFree(r)
    /\ IF gone \/ busy THEN End(r)
       ELSE Put(r, [plea[r] EXCEPT !.pc = "drop", !.runs = runsOf[Target(r)]])
    /\ UNCHANGED <<plan, planId, cronRow, runsOf, fore, loaded>>

\* DeletePolicy: a policy that has gone is no error.
DropPlan(r) ==
    /\ Plea[r].op = "delete" /\ plea[r].pc = "drop" /\ PlanFree(r)
    /\ Go(r, "commit")
    /\ fore' = IF plan[Target(r)] # plea[r].seen THEN fore \union {Target(r)} ELSE fore
    /\ UNCHANGED <<plan, planId, cronRow, runsOf, loaded>>

CommitDrop(r) ==
    LET p == Target(r) IN
    /\ Plea[r].op = "delete" /\ plea[r].pc = "commit"
    /\ plan' = [plan EXCEPT ![p] = NoPlan]
    /\ cronRow' = [cronRow EXCEPT ![p] = IF plea[r].seen.cron # "" /\ @ = plea[r].row THEN NoRow ELSE @]
    /\ runsOf' = [runsOf EXCEPT ![p] = @ \ plea[r].runs]
    /\ End(r)
    /\ UNCHANGED <<planId, fore, loaded>>

\* The database ends a request that waits for one that waits for it.
BreakDeadlock(r) ==
    /\ \E s \in Pleas \ {r} :
          /\ Plea[r].op = "update" /\ plea[r].pc = "sched" /\ HoldsCron(s, Target(r))
          /\ plea[s].pc = "drop" /\ HoldsPlan(r, Target(s))
    /\ End(r)
    /\ UNCHANGED <<plan, planId, cronRow, runsOf, fore, loaded>>

---------------------------------------------------------------------------
(* TriggerRetentionExec, by a user or the callback of the schedule.        *)

ReadForRun(r) ==
    /\ Plea[r].op \in {"trigger", "dryrun"} /\ plea[r].pc = "new"
    /\ IF plan[Target(r)] # NoPlan
       THEN Put(r, [plea[r] EXCEPT !.pc = "launch", !.seen = plan[Target(r)]])
       ELSE End(r)
    /\ UNCHANGED <<plan, planId, cronRow, runsOf, fore, loaded>>

\* The repositories a rule selects: all of them, one of them, none of them;
\* a disabled rule counts for nothing.
RuleSelects(rule, repo) == CASE rule = "all" -> TRUE [] rule = "one" -> repo = "r1" [] OTHER -> FALSE

\* launcher.Launch: a job for every repository that a rule selects, with the
\* rules that select it.
Launch(rules) ==
    {[repo |-> x, rules |-> {u \in rules : RuleSelects(u, x)}] :
        x \in {x \in Repositories : \E u \in rules : RuleSelects(u, x)}}

\* An execution without jobs is over at once; a rule with a bad pattern
\* fails the request, and the transaction takes everything back.
StartRun(r) ==
    LET jobs == Launch(plea[r].seen.rules)
        p == Target(r)
    IN
    /\ plea[r].pc = "launch"
    /\ IF "bad" \in plea[r].seen.rules THEN UNCHANGED <<runsOf, loaded>>
       ELSE /\ runsOf' = [runsOf EXCEPT ![p] = @ \union {[by |-> r, st |-> IF jobs = {} THEN "over" ELSE "running"]}]
            /\ loaded' = [loaded EXCEPT ![r] = jobs]
    /\ fore' = IF plan[p] = NoPlan \/ (\E s \in Pleas : Plea[s].op = "delete" /\ Target(s) = p /\ plea[s].pc \in {"drop", "commit"})
               THEN fore \union {p} ELSE fore
    /\ End(r)
    /\ UNCHANGED <<plan, planId, cronRow>>

\* The jobs of an execution end.
FinishRun(p) ==
    \E e \in runsOf[p] :
        /\ e.st = "running"
        /\ runsOf' = [runsOf EXCEPT ![p] = (@ \ {e}) \union {[e EXCEPT !.st = "over"]}]
        /\ UNCHANGED <<plan, planId, cronRow, plea, fore, loaded>>

PlanNext == \/ \E r \in Pleas :
                 \/ CheckNone(r) \/ InsertPlan(r) \/ CommitCreate(r)
                 \/ ReadForUpdate(r) \/ WritePlan(r) \/ Reschedule(r) \/ CommitUpdate(r)
                 \/ ReadForDelete(r) \/ DeleteExecs(r) \/ DropPlan(r) \/ CommitDrop(r)
                 \/ BreakDeadlock(r) \/ ReadForRun(r) \/ StartRun(r)
            \/ \E p \in Plans : FinishRun(p)

PlanSpec == PlanInit /\ [][PlanNext]_planVars

---------------------------------------------------------------------------
(* Properties.                                                             *)

\* A project has one policy at most, the one its metadata names, also when
\* two requests create one at once (retentionAPI.CreateRetention).
OnePolicy ==
    \A p \in Plans : plan[p] # NoPlan => planId = p

\* What belongs to a policy agrees with it, through updates and deletions
\* that fail half-way: it is scheduled with its own cron string, and a
\* deleted policy leaves neither a schedule nor executions.  Not so for a
\* policy that two requests changed, one after having read the old row.
PlanWhole ==
    \A p \in Plans \ fore :
        /\ plan[p] # NoPlan => cronRow[p].cron = IF plan[p].cron = "" THEN "absent" ELSE plan[p].cron
        /\ plan[p] = NoPlan => cronRow[p] = NoRow /\ runsOf[p] = {}

\* The executions a deletion would wait for have something to do: an
\* execution runs only while it has jobs, and each of its jobs has rules
\* (launcher.Launch, TriggerRetentionExec).
RunsHaveJobs ==
    \A p \in Plans : \A e \in runsOf[p] :
        /\ e.st = "running" => loaded[e.by] # {}
        /\ \A t \in loaded[e.by] : t.rules # {}

\* The retention policy of a project, its schedule and its executions agree.
PolicySound ==
    /\ OnePolicy
    /\ PlanWhole
    /\ RunsHaveJobs
=============================================================================
