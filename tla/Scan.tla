-------------------------------- MODULE Scan --------------------------------
(***************************************************************************)
(* Vulnerability scans.  A scan request replaces, in one transaction, the  *)
(* report rows of its artifacts by placeholders and submits one job each;  *)
(* the job stores what the scanner found in the row it then finds for the  *)
(* digest.  A report has no status of its own, it shows that of the task   *)
(* that names it.  Deletions of artifacts drop the reports of a digest,    *)
(* and pulls are admitted or not by what the report says.                  *)
(*                                                                         *)
(* One registration and one media type of reports.  The rows and the task  *)
(* that tells their status are read in one step.  Not represented: the     *)
(* capabilities of a scanner (an artifact is supported or the request is   *)
(* refused), tags, the text of reports and logs.                           *)
(***************************************************************************)
EXTENDS Naturals, Sequences, FiniteSets

CONSTANTS Digests,    \* scannable artifacts
          Scans,      \* scan requests
          Targets,    \* the artifacts of each, a sequence: of an index, its children
          ScanAlls,   \* the requests of a scan-all, a sequence
          Stoppable,  \* scans that a user stops
          Checks,      \* pulls under the policy of the project
          CheckOf,     \* the digest each pull asks for
          MaxRestarts \* bound: restarts of the job service, and of core

Of(s) == {Targets[s][i] : i \in 1..Len(Targets[s])}
Pairs == {k \in Scans \X Digests : k[2] \in Of(k[1])}
InAll == {ScanAlls[i] : i \in 1..Len(ScanAlls)}

ASSUME ScanAssumption ==
    /\ Targets \in [Scans -> Seq(Digests)]
    /\ \A s \in Scans : Len(Targets[s]) > 0 /\ Cardinality(Of(s)) = Len(Targets[s])
    /\ ScanAlls \in Seq(Scans) /\ CheckOf \in [Checks -> Digests]
    /\ "none" \notin Scans /\ MaxRestarts \in Nat

VARIABLES
    row,      \* table scan_report: uuid (the scan that made it), data, linked records
    task,     \* table task: status of the scan jobs, "none" without a record
    robot,    \* robot accounts of scans
    scan,     \* the requests
    job,      \* their jobs
    all,      \* the scan-all
    artifact, \* per digest: is it there, and the event of its deletion
    check,     \* the pulls
    restarts,
    dropped,  \* history: digests whose reports a deletion has dropped
    early,    \* history: pairs whose job looked for the row before it was committed
    leaked    \* history: pairs whose robot is kept although no job was submitted

scanVars == <<row, task, robot, scan, job, all, artifact, check, restarts, dropped, early, leaked>>

NoReport == [uuid |-> "none", data |-> "none", linked |-> FALSE]
Placeholder(s) == [NoReport EXCEPT !.uuid = s]

IdleScan == [pc |-> "idle", i |-> 1, old |-> "none", made |-> {}, sent |-> {}, code |-> "none"]
IdleJob == [pc |-> "none", st |-> "live", uuid |-> "none", found |-> "none"]
IdleCheck == [pc |-> "idle", row |-> NoReport, moved |-> FALSE]

\* Requests, deletions and pulls that never come are over already.
ScanInit ==
    /\ row = [d \in Digests |-> NoReport]
    /\ task = [k \in Pairs |-> "none"] /\ robot = {}
    /\ scan \in [Scans -> {IdleScan, [IdleScan EXCEPT !.pc = "failed"]}]
    /\ job = [k \in Pairs |-> IdleJob]
    /\ all \in [pc : {"run", "over"}, i : {1}, submit : {0}, failed : {0}, mark : {"none"}]
    /\ artifact \in [Digests -> [exists : {TRUE}, event : {"none", "over"}]]
    /\ check \in [Checks -> {IdleCheck, [IdleCheck EXCEPT !.pc = "refused"]}]
    /\ restarts \in 0..MaxRestarts /\ dropped = {} /\ early = {} /\ leaked = {}

FinalStatus == {"Success", "Error", "Stopped"}

\* assembleReports: the status of the task that names the report.
StatusOf(d) == LET u == row[d].uuid IN
    IF task[<<u, d>>] = "none" THEN "Error" ELSE task[<<u, d>>]

Open(s) == scan[s].pc \notin {"idle", "done", "failed"}

\* Rows that an open transaction has deleted or inserted.
Locked(s, d) == \E t \in Scans \ {s} : Open(t) /\ d \in scan[t].made

-----------------------------------------------------------------------------
(* The request.  Its transaction is rolled back when it fails.             *)

\* The kind of error matters to a scan-all only.
Fail(s, code) == scan' = [scan EXCEPT ![s] = [IdleScan EXCEPT
                             !.pc = "failed", !.code = IF s \in InAll THEN code ELSE "none"]]

\* The scanner of the project is looked up; requests of a scan-all follow
\* one another.
BeginScan(s) ==
    /\ scan[s].pc = "idle"
    /\ \A d \in Of(s) : artifact[d].exists
    /\ s \in InAll => all.pc = "run" /\ ScanAlls[all.i] = s
    /\ \/ scan' = [scan EXCEPT ![s].pc = "read"]
       \/ \E code \in {"precondition", "unsupported"} : Fail(s, code)
    /\ UNCHANGED <<row, task, robot, job, all, artifact, check, restarts, dropped, early, leaked>>

\* Committed rows are read, outside of the transaction.
ReadReports(s) ==
    /\ scan[s].pc = "read" /\ scan[s].i <= Len(Targets[s])
    /\ LET d == Targets[s][scan[s].i] IN
       scan' = [scan EXCEPT ![s] =
           IF row[d].uuid # "none" /\ StatusOf(d) \notin FinalStatus
           THEN [@ EXCEPT !.i = @ + 1]
           ELSE [@ EXCEPT !.pc = "replace", !.old = row[d].uuid]]
    /\ UNCHANGED <<row, task, robot, job, all, artifact, check, restarts, dropped, early, leaked>>

\* Mutant: the count of deleted reports is not looked at.
MakeUnchecked(s) ==
    /\ scan[s].pc = "replace"
    /\ LET d == Targets[s][scan[s].i] IN
         /\ ~Locked(s, d)
         /\ scan' = [scan EXCEPT ![s] = [@ EXCEPT !.pc = "read", !.i = @ + 1, !.made = @ \union {d}]]
    /\ UNCHANGED <<row, task, robot, job, all, artifact, check, restarts, dropped, early, leaked>>

\* The old row is deleted, which must succeed, and the placeholder inserted,
\* which a row in its place prevents.
MakeReportPlaceholder(s) ==
    /\ scan[s].pc = "replace"
    /\ LET d == Targets[s][scan[s].i] IN
         /\ ~Locked(s, d)
         /\ IF row[d].uuid # scan[s].old THEN Fail(s, "unknown")
            ELSE scan' = [scan EXCEPT ![s] = [@ EXCEPT !.pc = "read", !.i = @ + 1,
                                                       !.made = @ \union {d}]]
    /\ UNCHANGED <<row, task, robot, job, all, artifact, check, restarts, dropped, early, leaked>>

Placed(s) ==
    /\ scan[s].pc = "read" /\ scan[s].i > Len(Targets[s])
    /\ IF scan[s].made = {} THEN Fail(s, "conflict")
       ELSE scan' = [scan EXCEPT ![s] = [@ EXCEPT !.pc = "launch", !.i = 1]]
    /\ UNCHANGED <<row, task, robot, job, all, artifact, check, restarts, dropped, early, leaked>>

\* A robot account and a task are made and the job is submitted, or the
\* submission fails and the record of the task is deleted.
LaunchScanJob(s) ==
    /\ scan[s].pc = "launch" /\ scan[s].i <= Len(Targets[s])
    /\ LET d == Targets[s][scan[s].i] IN
         \/ /\ d \in scan[s].made
            /\ job' = [job EXCEPT ![<<s, d>>].pc = "queued"]
            /\ scan' = [scan EXCEPT ![s] = [@ EXCEPT !.i = @ + 1, !.sent = @ \union {d}]]
         \/ /\ scan' = [scan EXCEPT ![s].i = @ + 1]
            /\ UNCHANGED job
    /\ UNCHANGED <<row, task, robot, all, artifact, check, restarts, dropped, early, leaked>>

CommitScan(s) ==
    /\ scan[s].pc = "launch" /\ scan[s].i > Len(Targets[s])
    /\ LET q == scan[s] IN
       IF q.sent = {}
       THEN Fail(s, "unknown") /\ UNCHANGED <<row, task, robot, leaked>>
       ELSE /\ scan' = [scan EXCEPT ![s] = [IdleScan EXCEPT !.pc = "done"]]
            /\ row' = [d \in Digests |-> IF d \in q.made THEN Placeholder(s) ELSE row[d]]
            /\ task' = [k \in Pairs |-> IF k[1] = s /\ k[2] \in q.sent THEN "Pending" ELSE task[k]]
            /\ robot' = robot \union {<<s, d>> : d \in q.made}
            /\ leaked' = leaked \union {<<s, d>> : d \in q.made \ q.sent}
    /\ UNCHANGED <<job, all, artifact, check, restarts, dropped, early>>

\* Two transactions wait for each other's rows: the database ends one.
Deadlock(s) ==
    /\ scan[s].pc = "replace"
    /\ \E t \in Scans \ {s} :
         /\ scan[t].pc = "replace"
         /\ Targets[s][scan[s].i] \in scan[t].made /\ Targets[t][scan[t].i] \in scan[s].made
    /\ Fail(s, "unknown")
    /\ UNCHANGED <<row, task, robot, job, all, artifact, check, restarts, dropped, early, leaked>>

\* Core dies: its transaction is rolled back, submitted jobs stay.
CrashScan(s) ==
    /\ restarts < MaxRestarts /\ restarts' = restarts + 1
    /\ Open(s) /\ Fail(s, "unknown")
    /\ UNCHANGED <<row, task, robot, job, all, artifact, check, dropped, early, leaked>>

-----------------------------------------------------------------------------
(* startScanAll: the requests one by one, then the execution is marked     *)
(* when nothing was submitted.                                             *)

CountScan ==
    /\ all.pc = "run" /\ all.i <= Len(ScanAlls)
    /\ LET q == scan[ScanAlls[all.i]] IN
         /\ q.pc \in {"done", "failed"}
         /\ all' = [all EXCEPT !.i = @ + 1,
                               !.submit = IF q.pc = "done" THEN @ + 1 ELSE @,
                               !.failed = IF q.code \in {"precondition", "unknown"} THEN @ + 1 ELSE @]
    /\ UNCHANGED <<row, task, robot, scan, job, artifact, check, restarts, dropped, early, leaked>>

\* Mutant: one request that failed is enough for an error.
MarkAnyFailure ==
    /\ all.pc = "run" /\ all.i > Len(ScanAlls)
    /\ all' = [all EXCEPT !.pc = "over", !.mark = IF all.failed > 0 THEN "Error" ELSE "none"]
    /\ UNCHANGED <<row, task, robot, scan, job, artifact, check, restarts, dropped, early, leaked>>

MarkExecution ==
    /\ all.pc = "run" /\ all.i > Len(ScanAlls)
    /\ all' = [all EXCEPT !.pc = "over",
                          !.mark = IF all.submit > 0 THEN "none"
                                   ELSE IF all.failed = 0 THEN "Success" ELSE "Error"]
    /\ UNCHANGED <<row, task, robot, scan, job, artifact, check, restarts, dropped, early, leaked>>

-----------------------------------------------------------------------------
(* The job.                                                                *)

EndJob(k, st) == job' = [job EXCEPT ![k] = [IdleJob EXCEPT
                            !.pc = "ended", !.st = IF job[k].st = "live" THEN st ELSE job[k].st]]

\* The scan is submitted to the scanner and the report asked for until it is
\* there, or there is an error, or the job is stopped, or the time is over.
RunJob(k) ==
    /\ job[k].pc = "queued"
    /\ IF job[k].st = "Stopped" THEN EndJob(k, "Stopped")
       ELSE \/ EndJob(k, "Error")
            \/ \E f \in {"clean", "vulnerable"} :
                 job' = [job EXCEPT ![k] = [@ EXCEPT !.pc = "lookup", !.found = f]]
    /\ UNCHANGED <<row, task, robot, scan, all, artifact, check, restarts, dropped, early, leaked>>

\* Mutant: the job waits for a row.
LookupOrWait(k) ==
    /\ job[k].pc = "lookup" /\ row[k[2]].uuid # "none"
    /\ job' = [job EXCEPT ![k] = [@ EXCEPT !.pc = "convert", !.uuid = row[k[2]].uuid]]
    /\ early' = early \union (IF Open(k[1]) THEN {k} ELSE {})
    /\ UNCHANGED <<row, task, robot, scan, all, artifact, check, restarts, dropped, leaked>>

\* The job finds the row by digest, whichever scan has made it.
LookupReport(k) ==
    /\ job[k].pc = "lookup"
    /\ LET u == row[k[2]].uuid IN
         IF u = "none" THEN EndJob(k, "Error")
         ELSE job' = [job EXCEPT ![k] = [@ EXCEPT !.pc = "convert", !.uuid = u]]
    /\ early' = early \union (IF Open(k[1]) THEN {k} ELSE {})
    /\ UNCHANGED <<row, task, robot, scan, all, artifact, check, restarts, dropped, leaked>>

\* Records are linked with the report: it must still be there, and have none.
ToRelationalSchema(k) ==
    /\ job[k].pc = "convert" /\ ~Locked("none", k[2])
    /\ LET r == row[k[2]] IN
       IF job[k].found = "clean" THEN job' = [job EXCEPT ![k].pc = "update"] /\ UNCHANGED row
       ELSE IF r.uuid # job[k].uuid \/ r.linked THEN EndJob(k, "Error") /\ UNCHANGED row
       ELSE /\ row' = [row EXCEPT ![k[2]].linked = TRUE]
            /\ job' = [job EXCEPT ![k].pc = "update"]
    /\ UNCHANGED <<task, robot, scan, all, artifact, check, restarts, dropped, early, leaked>>

\* Mutant: the data is not stored when nothing was found.
UpdateUnlessClean(k) ==
    /\ job[k].pc = "update" /\ ~Locked("none", k[2])
    /\ row' = [row EXCEPT ![k[2]].data = IF row[k[2]].uuid = job[k].uuid /\ job[k].found # "clean"
                                         THEN job[k].found ELSE @]
    /\ EndJob(k, "Success")
    /\ UNCHANGED <<task, robot, scan, all, artifact, check, restarts, dropped, early, leaked>>

\* No error when the row is gone.
UpdateReportData(k) ==
    /\ job[k].pc = "update" /\ ~Locked("none", k[2])
    /\ row' = [row EXCEPT ![k[2]].data = IF row[k[2]].uuid = job[k].uuid THEN job[k].found ELSE @]
    /\ EndJob(k, "Success")
    /\ UNCHANGED <<task, robot, scan, all, artifact, check, restarts, dropped, early, leaked>>

\* The status is Stopped at once, the job goes on to its next check.
StopScan(s) ==
    /\ s \in Stoppable /\ scan[s].pc = "done"
    /\ \E d \in Of(s) : task[<<s, d>>] # "none" /\ job[<<s, d>>].st = "live"
    /\ job' = [k \in Pairs |-> IF k[1] = s /\ task[k] # "none" /\ job[k].st = "live"
                               THEN [job[k] EXCEPT !.st = "Stopped"] ELSE job[k]]
    /\ UNCHANGED <<row, task, robot, scan, all, artifact, check, restarts, dropped, early, leaked>>

\* The job service restarts and runs an interrupted job again.
RestartJob(k) ==
    /\ restarts < MaxRestarts /\ restarts' = restarts + 1
    /\ job[k].pc \notin {"none", "queued", "ended"}
    /\ job' = [job EXCEPT ![k] = [@ EXCEPT !.pc = "queued", !.uuid = "none", !.found = "none"]]
    /\ UNCHANGED <<row, task, robot, scan, all, artifact, check, dropped, early, leaked>>

\* Mutant: robots of stopped scans stay.
StatusChangeNotStopped(k) ==
    /\ task[k] = "Pending" /\ job[k].st # "live"
    /\ task' = [task EXCEPT ![k] = job[k].st]
    /\ robot' = IF job[k].st = "Stopped" THEN robot ELSE robot \ {k}
    /\ UNCHANGED <<row, scan, job, all, artifact, check, restarts, dropped, early, leaked>>

\* The hook of a final status; it is repeated until the task is committed.
ScanTaskStatusChange(k) ==
    /\ task[k] = "Pending" /\ job[k].st # "live"
    /\ task' = [task EXCEPT ![k] = job[k].st]
    /\ robot' = robot \ {k}
    /\ UNCHANGED <<row, scan, job, all, artifact, check, restarts, dropped, early, leaked>>

-----------------------------------------------------------------------------
(* Deletion of the last artifact with a digest.  Its event is handled      *)
(* later, in separate statements, and the digest may be pushed again.      *)

DeleteArtifact(d) ==
    /\ artifact[d].event = "none"
    /\ artifact' = [artifact EXCEPT ![d] = [exists |-> FALSE, event |-> "sent"]]
    /\ UNCHANGED <<row, task, robot, scan, job, all, check, restarts, dropped, early, leaked>>

PushAgain(d) ==
    /\ ~artifact[d].exists
    /\ artifact' = [artifact EXCEPT ![d].exists = TRUE]
    /\ UNCHANGED <<row, task, robot, scan, job, all, check, restarts, dropped, early, leaked>>

CountArtifacts(d) ==
    /\ artifact[d].event = "sent"
    /\ artifact' = [artifact EXCEPT ![d].event = IF artifact[d].exists THEN "over" ELSE "unlink"]
    /\ UNCHANGED <<row, task, robot, scan, job, all, check, restarts, dropped, early, leaked>>

\* The links of the reports go first, then the reports.
DeleteForDigests(d) ==
    /\ artifact[d].event = "unlink" /\ ~Locked("none", d)
    /\ artifact' = [artifact EXCEPT ![d].event = "drop"]
    /\ row' = [row EXCEPT ![d].linked = FALSE]
    /\ UNCHANGED <<task, robot, scan, job, all, check, restarts, dropped, early, leaked>>

DeleteByDigests(d) ==
    /\ artifact[d].event = "drop" /\ ~Locked("none", d)
    /\ artifact' = [artifact EXCEPT ![d].event = "over"]
    /\ row' = [row EXCEPT ![d] = NoReport]
    /\ dropped' = dropped \union {d}
    /\ UNCHANGED <<task, robot, scan, job, all, check, restarts, early, leaked>>

-----------------------------------------------------------------------------
(* A pull under the policy of the project: the report, its status and its   *)
(* records are read one after the other.                                   *)

GetReport(p) ==
    /\ check[p].pc = "idle" /\ artifact[CheckOf[p]].exists
    /\ check' = [check EXCEPT ![p] = [@ EXCEPT !.pc = IF row[CheckOf[p]].uuid = "none" THEN "refused"
                                                    ELSE "status",
                                             !.row = row[CheckOf[p]]]]
    /\ UNCHANGED <<row, task, robot, scan, job, all, artifact, restarts, dropped, early, leaked>>

\* Mutant: any final status will do.
AssembleAnyFinal(p) ==
    /\ check[p].pc = "status"
    /\ check' = [check EXCEPT ![p].pc = IF task[<<check[p].row.uuid, CheckOf[p]>>] \in FinalStatus
                                      THEN "records" ELSE "refused"]
    /\ UNCHANGED <<row, task, robot, scan, job, all, artifact, restarts, dropped, early, leaked>>

AssembleReports(p) ==
    /\ check[p].pc = "status"
    /\ check' = [check EXCEPT ![p].pc = IF task[<<check[p].row.uuid, CheckOf[p]>>] = "Success"
                                      THEN "records" ELSE "refused"]
    /\ UNCHANGED <<row, task, robot, scan, job, all, artifact, restarts, dropped, early, leaked>>

\* GetVulnerable: a report without data, or without records, has nothing
\* that forbids the pull.
GetVulnerable(p) ==
    /\ check[p].pc = "records"
    /\ LET r == row[CheckOf[p]]
           q == check[p]
       IN  check' = [check EXCEPT ![p] =
               [@ EXCEPT !.pc = IF q.row.data # "none" /\ r.uuid = q.row.uuid /\ r.linked
                                THEN "refused" ELSE "admitted",
                         !.moved = r # q.row \/ artifact[CheckOf[p]].event = "drop"]]
    /\ UNCHANGED <<row, task, robot, scan, job, all, artifact, restarts, dropped, early, leaked>>

-----------------------------------------------------------------------------
RequestStep(s) ==
    ReadReports(s) \/ MakeReportPlaceholder(s) \/ Placed(s) \/ LaunchScanJob(s) \/ CommitScan(s)

JobStep(k) == RunJob(k) \/ LookupReport(k) \/ ToRelationalSchema(k)
              \/ UpdateReportData(k) \/ ScanTaskStatusChange(k)

EventStep(d) == CountArtifacts(d) \/ DeleteForDigests(d) \/ DeleteByDigests(d)

CheckStep(p) == GetReport(p) \/ AssembleReports(p) \/ GetVulnerable(p)

ScanNext ==
    \/ \E s \in Scans : BeginScan(s) \/ RequestStep(s) \/ Deadlock(s) \/ CrashScan(s) \/ StopScan(s)
    \/ \E k \in Pairs : JobStep(k) \/ RestartJob(k)
    \/ \E d \in Digests : DeleteArtifact(d) \/ PushAgain(d) \/ EventStep(d)
    \/ \E p \in Checks : CheckStep(p)
    \/ CountScan \/ MarkExecution

ScanSpec == ScanInit /\ [][ScanNext]_scanVars

\* The system does not stop: some goroutine runs on, the database detects a
\* deadlock, or a job that polls the scanner ends, after half an hour at the
\* latest.
ScanFairness ==
    WF_scanVars(\/ \E s \in Scans : RequestStep(s) \/ Deadlock(s)
                \/ \E k \in Pairs : JobStep(k)
                \/ \E d \in Digests : EventStep(d)
                \/ CountScan \/ MarkExecution)

ScanFairSpec == ScanSpec /\ ScanFairness

-----------------------------------------------------------------------------
(* Properties.                                                             *)

Reports == [uuid : Scans \union {"none"}, data : {"none", "clean", "vulnerable"}, linked : BOOLEAN]

\* Rows, tasks, requests, jobs and pulls are well formed, and a robot belongs
\* to a task that is not final, or to one whose submission failed.
ScanTypeOK ==
    /\ row \in [Digests -> Reports]
    /\ task \in [Pairs -> {"none", "Pending"} \union FinalStatus]
    /\ job \in [Pairs -> [pc : {"none", "queued", "lookup", "convert", "update", "ended"},
                          st : {"live"} \union FinalStatus, uuid : Scans \union {"none"},
                          found : {"none", "clean", "vulnerable"}]]
    /\ robot \subseteq {k \in Pairs : task[k] = "Pending"} \union leaked

\* Two scans of one digest are never in progress at the same time, unless the
\* reports of the digest were deleted with its artifact in between: the pull
\* for a previous scan in makeReportPlaceholder, made outside of the
\* transaction, is completed by the count of deleted rows and the unique key.
OneScanAtATime ==
    \A k, l \in Pairs :
        (k # l /\ k[2] = l[2] /\ task[k] = "Pending" /\ task[l] = "Pending") => k[2] \in dropped

\* A report shown as successful has data (GenerateNativeSummary fails on one
\* that has none), unless its job looked for the row before it was committed.
SuccessHasData ==
    \A d \in Digests :
        (row[d].uuid # "none" /\ StatusOf(d) = "Success") =>
            row[d].data # "none" \/ <<row[d].uuid, d>> \in early

\* A pull is admitted only by a report of a scan that found nothing, unless
\* the report was changed or deleted while GetVulnerable was reading it, or
\* had been written before it was committed.
AdmittedClean ==
    \A p \in Checks : LET q == check[p] IN
        q.pc = "admitted" =>
            q.row.data = "clean" \/ q.moved \/ <<q.row.uuid, CheckOf[p]>> \in early

\* A scan-all whose execution is marked, as done or as failed, has no task
\* that could still change its status.
MarkedWithoutTasks ==
    all.mark # "none" => \A k \in Pairs : k[1] \in InAll => task[k] = "none"

\* Every request ends, every task becomes final, and its robot is removed,
\* in spite of crashes, stops, conflicts and deadlocks.
ScansEnd ==
    <>[](/\ \A s \in Scans : ~Open(s)
         /\ \A k \in Pairs : task[k] # "Pending"
         /\ robot \subseteq leaked)

\* Reports, scan jobs and the pulls that look at them agree, through scans,
\* deletions, stops and crashes at once.
ScanSound ==
    /\ ScanTypeOK
    /\ OneScanAtATime
    /\ SuccessHasData
    /\ AdmittedClean
    /\ MarkedWithoutTasks
=============================================================================
