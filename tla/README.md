# A TLA+ development for Harbor

Harbor is a container registry. `core` serves the API and the registry
protocol, keeps its state in PostgreSQL, and hands long-running work to the
`jobservice`, which keeps its own state in Redis. This directory models the
parts of both whose correctness depends on the order in which processes,
goroutines, transactions and messages act.

Paths below are relative to `src/src/`. `PROJECT.json` lists every component
with its sources and its status, every hazard at its line, and the source lines
of every definition.

## 1. The system

| Part | State | Operations | What makes it hard |
|---|---|---|---|
| job record (`jobservice/job`, `common/rds/scripts.go`) | a Redis hash per job: status, revision, ack; a hash of tracked jobs with a counter | Save, setStatus, hookAck, statusReset (Lua scripts) | every writer decides from a copy it loaded earlier |
| job runner (`runner/redis.go`), worker (`worker/cworker`), queue (`gocraft/work`) | queue, retry set, scheduled set, in-progress lists | Enqueue, Schedule, fetch, Run, retry, StopJob, dead-pool reaper | crash in the middle, a live worker taken for dead, stop racing a start |
| hook agent (`hook`) | events being retried, in memory | Trigger, retry, ack | lost, late, duplicate hooks; memory lost in a crash |
| reaper (`worker/cworker/reaper.go`) | none of its own | compare record and ack, re-send, update, fail, untrack | acts on records that change meanwhile |
| lifecycle controller (`lcm`) | failed status writes, in memory | retry loop | late writes |
| task and execution managers (`pkg/task`) | tables task and execution | Create, Stop, hook handler, RefreshStatus, MarkDone, sweep, Delete | hooks of several tasks refresh one execution concurrently |
| blobs, artifacts, garbage collection (`pkg/blob`, `controller/blob`, `controller/artifact`, `server/middleware/blob`, `jobservice/job/impl/gc`) | tables blob, project_blob, artifact_blob, artifact, artifact_trash; the registry's storage | HEAD, PUT blob, PUT manifest, delete, mark, sweep | pushes racing a collector in another process |
| quota (`controller/quota`, `pkg/quota`) | table quota_usage with a version | reserve, rollback, refresh, update | optimistic locking, a request that fails half way |
| periodic scheduler (`jobservice/period`, `pkg/scheduler`) | policies and executions in Redis, schedules in PostgreSQL | Schedule, UnSchedule, enqueue turn | enqueue racing removal |
| proxy cache, caches, job monitor | see `PROJECT.json` | | |

## 2. Modules

| Module | Models |
|---|---|
| `JobStats` | the record of a job and its Lua scripts (`SetStatus`, `StatusReset`, `HookAck` and the tracking counter) as operators; the conditional UPDATE of core's task row (`UpdateTask`); the reaper's `Compare` |
| `JobContract` | abstract: what the job service promises about one job |
| `JobLifecycle` | one job, everything that touches it, and core's row for it |
| `JobLifecycleProofs`, `JobContractProofs` | theorems about `JobLifecycle` |
| `TaskExecution` | one execution of core's task manager, its tasks, the flow that creates them, hooks, stops and the sweeper |
| `BlobGC` | pushes, deletions of artifacts and the garbage collector of one project |
| `MCJobLifecycle`, `MCTaskExecution`, `MCBlobGC` | model values and constants for TLC |

`TaskExecution` composes with the job service through `JobContract`: its jobs
take the steps that the contract allows, and `JobLifecycle` is shown to
implement the contract.

### JobLifecycle

Each goroutine that works on the job (a worker, a stop request, a reaper) is a
member of `Runners`, `Stoppers` or `Reapers` with a program counter and the part
of its tracker that later steps use. A Redis command or an HTTP request is one
step. `Set`, `Send` and `Ack` are the three steps of `basicTracker.setStatus`
(script, hook, acknowledgement), which all three kinds of goroutine share.
`Fetch` to `Remove` follow gocraft's worker around `RedisJob.Run`; `StopLoad`
and `StopUnqueue` are `basicWorker.StopJob`; `ReapScan` to `ReapUpdate` the
reaper's `syncOutdatedStats`. `Resend` and `RetryStatusChange` are the
background loops of the hook agent and of the lifecycle controller. `Crash(n)`
ends a process: its goroutines and everything it holds in memory are gone and
its in-progress jobs are orphans until `Requeue`. `Suspect` is a live worker
taken for dead. Revisions, in the code the Unix time of the last reset, are
numbered 1, 2, ...

### TaskExecution

Hooks and stop requests run in one transaction each (`lib/orm`,
`server/middleware/transaction`), at READ COMMITTED: a statement sees what is
committed and what its own transaction wrote, a written row stays locked until
the end, an UPDATE that waited evaluates its condition again. The flow
(`controller/replication`) and the sweeper run without a transaction.
`RefreshGet`, `RefreshMetrics` and `RefreshCas` are the read, the count and the
compare-and-set of `executionDAO.RefreshStatus`, with its bounded number of
attempts. `direct` is a history variable: who last set the status of the
execution other than through RefreshStatus.

### BlobGC

The row of a blob has its status, its version, its ID and whether its
`update_time` is older than the collector's time window. `HeadGet` to `HeadAsk`
are a HEAD request, `ProbeGet` to `EnsureBlob` a PUT of a layer, and
`PutManifest`, the probe, `PutToRegistry` and `CommitManifest` a PUT of a
manifest. HEAD and PUT blob are on the list of requests without a transaction
(`core/middlewares/middlewares.go`); the update that a PUT manifest makes to the
manifest's row is locked and invisible until it commits. `DeleteFind` and
`DeleteCommit` are the two ends of the deletion of an artifact that other
transactions can tell apart. `GcStart` to `GcDeleteRow` are the statements and
storage calls of the collector. A row of project_blob that a push inserts again
is locked by the `ON CONFLICT DO UPDATE` until the push commits; so it is enough
to take the push's insertions and its commit as one step.

`Age` lets the time window pass for all rows at once. It needs every push and
deletion to be over and the collector not to be in the middle of one blob: these
take minutes, the window is hours.

## 3. Runs

All of them have CHECK_DEADLOCK FALSE: a job, an execution and a push really
come to an end, after which nothing is left to do.

| Run | Bounds | Shows |
|---|---|---|
| `job_crash` | 1 worker, 1 stop, 1 reaper, generic or scheduled job, MaxFails 2, 1 crash | `TypeOK`, `AckSound`, `CoreAgrees`, and that the job service and core implement `JobContract` (`ContractSpec`) |
| `job_faults` | 1 worker, 1 stop, 1 reaper, 1 failed Redis command, applied or not | `TypeOK`, `AckSound` when status writes are retried late and core hears of a status before Redis has it |
| `job_twice` | 2 workers in 2 processes, 1 live worker taken for dead, 1 lost hook | `AckSound`, `CoreAgrees` |
| `job_live` | 1 worker, 1 stop, 1 reaper, 1 crash, fair | `EventuallyReported` |
| `job_stop_failed` | 1 worker, 1 stop | finding: a stop of a failed job succeeds and the job runs again |
| `job_stop_reset` | 1 worker, 1 stop, 1 crash | finding: a stop is overwritten by a reset |
| `exec_stop` | 2 tasks, 1 hook at a time, 1 stop, 5 attempts, jobs may be forgotten | `ExecReflectsTasks`, `NoDeadlock` |
| `exec_sweep` | 2 tasks, 1 hook at a time, 1 sweeper, submissions may fail | `NoOrphanTasks` |
| `exec_live` | 1 task, 2 hooks at once, 2 attempts, 2 revisions, 1 lost event, fair | `TypeOK`, `EventuallyFinal` |
| `exec_no_tasks` | 1 task, 1 hook, 1 stop | finding: an execution stopped early gets tasks all the same |
| `blob_push` | 1 artifact with a layer, 2 pushes, 1 deletion, 1 collection, 1 crash, 1 storage failure | `TypeOK`, `PushSafe`, `ArtifactsLinked` |
| `blob_kept` | 2 artifacts that share a layer, 1 push, 1 deletion, 1 collection | finding: the layer of an existing artifact is deleted |

Why the bounds are enough to be interesting: one crash, loss or failed command
is possible at every point of a behaviour, so every single failure is explored;
MaxFails 2 gives one failure and one retry, and with a crash up to three
revisions; two tasks are the least for which an aggregate and a lost update
exist; two hooks on one task conflict on the execution; two pushes of one
artifact race each other and the collector, and the second can meet what the
first, aborted one left behind. What needs two independent failures is outside
these runs; some such behaviours are listed in section 6.

**Fairness.** `JobLifecycle!FairSpec` and `TaskExecution!FairSpec` are weakly
fair to goroutines that have begun (the Go scheduler), to loops driven by
tickers (requeuer, reaper, retry loops), to the time of a day after which the
reaper gives a job up, and to the re-delivery of hooks that were not
acknowledged. Requests, crashes, losses and faults are never forced. Strong
fairness is not assumed anywhere.

## 4. Proofs

Two modules, 1590 obligations; `tlapm` proves them with the SMT backend, Zenon
and, for the temporal steps, LS4. The theorems hold for any number of workers,
stop requests and reapers in any processes, any MaxFails, and any number of
crashes, suspicions and lost hooks; they use `ConstantsAssumption` alone.

| Theorem | States |
|---|---|
| `JobLifecycleProofs!TypeCorrect` | `Spec => []TypeOK` |
| `JobLifecycleProofs!AckSafe` | `Spec => []AckSound`: what the record says core acknowledged, core has recorded |
| `JobContractProofs!CoreSafe` | `Spec => []CoreAgrees`, if Redis commands do not fail (MaxRedisFaults = 0) |
| `JobContractProofs!ContractImplemented` | `Spec => ContractSpec`, under the same assumption |

`AckSound` is not inductive: between core's answer and the ack script a
goroutine owes an ack. `AckInv` adds that what such a goroutine is about to
store is something core knows; core's row never forgets because `UpdateTask` is
conditional (`UpdateTaskKnows`).

`CoreAgrees` needs everything that is in flight: `CoreInv` says that every event
on its way (held by a goroutine or by the retry loop) and core's row report
something the record has lived up to, an older revision, an earlier status of
the current one or the current status (`Lived`), and that goroutines hold no
revision ahead of the record. Each script moves the record `Forward`, which
keeps everything lived up to (`ForwardLived`). Refinement follows step by step:
`AdvanceStep` for changes of the record, `LearnStep` for hooks.

The assumption MaxRedisFaults = 0 is necessary: see the first observation.

Only model-checked: liveness (`EventuallyReported`, `EventuallyFinal`), which
the prover does not handle, and so far everything about `TaskExecution` and
`BlobGC`.

## 5. Findings

Four runs end in a counterexample to what a comment in the code says; each is
quoted in `PROJECT.json`.

* `job_stop_failed` (`worker/cworker/c_worker.go:346`): StopJob takes Error for
  an end, but a failed job may wait for its retry.
* `job_stop_reset` (`common/rds/scripts.go:185`): the reset script does not look
  at the status it overwrites.
* `exec_no_tasks` (`controller/replication/flow/copy.go:64`): the flow checks
  for a stop once, before it creates tasks.
* `blob_kept` (`pkg/blob/manager.go:111`): CleanupAssociationsForProject selects
  what is not needed and deletes it in a later statement. Deletion of artifact
  A selects the shared layer; the push of B, which needs it, commits; the
  deletion removes the association of the layer with the project; after the
  time window the collector finds the layer in no project and deletes it. The
  collector's own call of the same function has the same gap.

## 6. Observations

Other behaviours of the model that a reader of the code should know. TLC
produced each of them from a property or a bound that is not among the runs.

1. `job/tracker.go:440` fires the hook although the Redis write failed. Another
   goroutine can then write a different final status: Redis and core disagree
   about one revision.
2. `worker/cworker/reaper.go:169` removes the tracking of a job found final and
   acknowledged. A retry may have begun since; it runs untracked, and if its
   process dies nobody reports it. Needs MaxFails 2 or a suspected worker.
3. `common/rds/scripts.go:82` decrements the tracking counter on every change to
   a final status, a repeated one included. Two stops at once bring it to zero
   before any hook was sent; a crash at that point leaves core uninformed. A
   crash together with a lost hook does the same.
4. `pkg/task/execution.go:240` (MarkError) is overwritten by the next hook,
   whose RefreshStatus goes by the tasks alone.
5. `pkg/task/task.go:121`: a stop between the insertion of the row and the
   storing of the job ID sets the row to Stopped while the job runs.
6. `pkg/task/execution.go:280`: Stop of an execution without tasks writes the
   revision it read, plus one, unconditionally. The revision may go down and
   repeat, and a refresh that was computed before passes its condition; an
   execution can stay in a status that is not final.
   Related: when the refresh that follows a stop of several tasks uses up its
   attempts, the tasks are final and the execution is not.
7. `pkg/task/execution.go:353`: Delete checks a list read earlier; a task in
   Error that is being retried is deleted while its job runs.
8. `pkg/task/task.go:190`: on a not-found answer of the job service, Stop sets
   the row to Stopped whatever it says; a recorded Success or Error is lost.
   The job service forgets a finished job after a day, so it is enough to stop
   an old execution.
9. `pkg/blob/models/blob.go:49` says that a failed sweep's candidates are marked
   again by the next run. A blob left in `deleting` by a crash is not: the
   status is not among the sources of `delete`. It stays until a request for
   the same digest declares the deletion failed.

## 7. Not modelled

Failures of single database statements; check-in messages, extra attributes,
times and counts; the expiry of job records other than `JobExpire`, which
needs the job to be long over; unique jobs and the de-duplicator; periodic jobs;
DeleteUntagged, dry runs, mounts, copies between projects, the registry's cache
and several collectors at once; tags, references and accessories of artifacts.
In `BlobGC` the look-up and the creation of a row by `Ensure` are one step.
Components without state of their own shared by several actors (user interface,
configuration, authentication, adapters) are listed in `PROJECT.json` as not
modelled, with the reason.

## 8. Plan

In this order:

1. `Quota`: reservation, rollback and refresh over the optimistic lock, with the
   requests of `BlobGC` as the ones that reserve; abstract specification: usage
   is what is stored plus what is reserved.
2. Mounts and a second project in `BlobGC`, and an inductive invariant for
   `PushSafe`: a blob an ongoing push relies on has a version above the one in
   any list of the collector, or is not in status deleting. To be proved in
   `BlobGCProofs`.
3. `TaskExecutionProofs`: `TypeOK` and `NoOrphanTasks`, then `ExecReflectsTasks`
   without direct writes.
4. `Periodic`: policies, the enqueuer's turns under its lock, UnSchedule;
   executions behave as `JobContract` says.
5. Job monitor (clean-up of queues), proxy cache and read-through caches.
