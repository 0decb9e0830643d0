------------------------------- MODULE Events -------------------------------
(***************************************************************************)
(* What follows an operation: the events a request collects and the        *)
(* notification middleware publishes once its transaction is over, and the *)
(* handlers that take them, each in a goroutine of its own: audit log,     *)
(* pull times and pull counts, automatic scans and the webhooks of the     *)
(* project, with the webhook policies, their jobs and the purge of the     *)
(* audit log.  The handlers of replication, preheating and scan reports    *)
(* are in Replicate, Preheat and Scan.  One repository x of one project.   *)
(***************************************************************************)
EXTENDS Integers, Sequences, FiniteSets, FiniteSetsExt, SequencesExt, Functions

CONSTANTS
  Deeds,         \* numbers of the requests and other happenings
  HookPolicies,  \* numbers of webhook policies
  HookTries      \* how often a webhook job is run (MaxFails)

VARIABLES
  deed,      \* Deeds -> [op, arg, phase]
  scope,     \* the rows the events are about: project, arts, tag, autoScan
  knobs,     \* settings: notify, noTime, noCount, noPullAudit, skipDb, sync
  hookPol,   \* HookPolicies -> row
  news,      \* metadata being built and published
  errands,   \* deliveries: what each handler goroutine has still to do
  hookJobs,  \* rows of notification_job, each with the job behind it
  auditLog,  \* rows of audit_log
  stash,     \* Handler: pullTimeStore, pullCountStore and their goroutines
  pullCols,    \* columns pull_count of x, pull_time of artifacts and of the tag
  hour,      \* the clock of the audit log
  mishaps,   \* how often the database or the job service may still fail
  past       \* history, see NoPast

eventVars == <<deed, scope, knobs, hookPol, news, errands, hookJobs, auditLog, stash, pullCols, hour, mishaps, past>>

---------------------------------------------------------------------------
(* Metadata and events.                                                    *)

Meta(kind, art, tags, by, val) == [kind |-> kind, art |-> art, tags |-> tags, by |-> by, val |-> val]
TagList(t) == IF t = "" THEN <<>> ELSE <<t>>

Event(topic, m) == [topic |-> topic, art |-> m.art, tags |-> m.tags, by |-> m.by, val |-> m.val]
NoEvent == Event("", Meta("", "", <<>>, "", ""))

PushResolve(m) == Event("PUSH", m)
PullResolve(m) == Event("PULL", m)
DeleteResolve(m) == Event("DELETE", m)
CreateTagResolve(m) == Event("CREATE_TAG", m)
DeleteTagResolve(m) == Event("DELETE_TAG", m)
CreateProjectResolve(m) == Event("CREATE_PROJECT", m)
DeleteProjectResolve(m) == Event("DELETE_PROJECT", m)
DeleteRepositoryResolve(m) == Event("DELETE_REPOSITORY", m)
LabeledResolve(m) == Event("LABELED", m)
RetentionResolve(m) == Event("TAG_RETENTION", m)
ReplicationResolve(m) == Event("REPLICATION", m)
QuotaResolve(m) == CASE m.val = "1" -> Event("QUOTA_EXCEED", m) [] m.val = "2" -> Event("QUOTA_WARNING", m) [] OTHER -> NoEvent
ScanResolve(m) == CASE m.val = "Success" -> Event("SCAN_COMPLETED", m) [] m.val = "Stopped" -> Event("SCAN_STOPPED", m)
                    [] m.val = "Error" -> Event("SCAN_FAILED", m) [] OTHER -> NoEvent

Resolve(m) ==
  CASE m.kind = "push" -> PushResolve(m) [] m.kind = "pull" -> PullResolve(m) [] m.kind = "delete" -> DeleteResolve(m)
    [] m.kind = "newTag" -> CreateTagResolve(m) [] m.kind = "dropTag" -> DeleteTagResolve(m)
    [] m.kind = "newProject" -> CreateProjectResolve(m) [] m.kind = "dropProject" -> DeleteProjectResolve(m)
    [] m.kind = "dropRepo" -> DeleteRepositoryResolve(m) [] m.kind = "label" -> LabeledResolve(m)
    [] m.kind = "retained" -> RetentionResolve(m) [] m.kind = "replicated" -> ReplicationResolve(m)
    [] m.kind = "quota" -> QuotaResolve(m) [] m.kind = "scanned" -> ScanResolve(m)

\* The subscriptions.
Handlers(topic) ==
  CASE topic = "PUSH" -> {"artifact", "audit", "internal", "replication", "p2p"}
    [] topic = "PULL" -> {"artifact", "audit", "internal"}
    [] topic = "DELETE" -> {"artifact", "audit", "replication", "scanDelete"}
    [] topic \in {"CREATE_TAG", "DELETE_TAG"} -> {"audit", "replication"}
    [] topic \in {"CREATE_PROJECT", "DELETE_PROJECT", "DELETE_REPOSITORY"} -> {"audit"}
    [] topic \in {"QUOTA_EXCEED", "QUOTA_WARNING"} -> {"quota"}
    [] topic = "SCAN_COMPLETED" -> {"scan", "p2p"}
    [] topic \in {"SCAN_FAILED", "SCAN_STOPPED"} -> {"scan"}
    [] topic = "REPLICATION" -> {"replicated"}
    [] topic = "TAG_RETENTION" -> {"retained"}
    [] topic = "LABELED" -> {"p2p"}
    [] OTHER -> {}
OutOfHere == {"replication", "p2p", "scanDelete"}

---------------------------------------------------------------------------
(* Deliveries.                                                             *)

\* What each webhook handler looks up before it sends, in its order.
Stages(h) == CASE h \in {"artifact", "quota"} -> <<"project", "policies">>
               [] h = "scan" -> <<"policies", "payload">>
               [] h \in {"replicated", "retained"} -> <<"payload", "policies">>
               [] h = "internal" -> <<"time", "count">>
               [] OTHER -> <<>>

Delivery(d, e, h) == [deed |-> d, ev |-> e, h |-> h, todo |-> Stages(h), found |-> <<>>, pol |-> 0, targets |-> <<>>, at |-> 0, nth |-> 0, row |-> 0]

\* NotificationWatcher.Notify: one goroutine for every handler.
Notify(d, e) == {Delivery(d, e, h) : h \in Handlers(e.topic) \ OutOfHere}

HandlerEnds(x) == errands' = errands \ {x}
Advance(x, y) == errands' = (errands \ {x}) \union {y}
NextStage(x) == [x EXCEPT !.todo = Tail(@)]
AtStage(x, s) == x.todo # <<>> /\ Head(x.todo) = s

\* done: deeds that took effect; published: topics by deed; audited, dropped: deeds whose
\* audit row was written or failed; purged: rows; counted, lost: pulls; times: pull times
\* noted; fell, panicked: the process ended; switched: settings changed; scans: asked for; budget: mishaps there were to be.
NoPast == [done |-> {}, published |-> {}, audited |-> {}, dropped |-> {}, purged |-> {}, counted |-> 0, lost |-> 0, times |-> {},
           fell |-> FALSE, panicked |-> FALSE, switched |-> FALSE, scans |-> {}, budget |-> 0]

---------------------------------------------------------------------------
(* The requests.                                                           *)

Doing(op, arg) == [op |-> op, arg |-> arg, phase |-> "idle"]
NoArg == [art |-> "a", tag |-> "", by |-> "u", val |-> ""]
NoDoing == [op |-> "none", arg |-> NoArg, phase |-> "over"]
Closes(d) == deed' = [deed EXCEPT ![d].phase = "over"]

\* The operation itself, which other modules describe, may be made.
Possible(op, a) ==
  CASE op \in {"pull", "proxyPull"} -> a.art \in scope.arts /\ (a.tag # "" => scope.tag = a.art)
    [] op \in {"delete", "newTag", "label"} -> a.art \in scope.arts
    [] op = "dropTag" -> scope.tag # "none"
    [] op = "push" -> scope.project /\ a.val # "exceeded"
    [] op = "dropRepo" -> scope.arts # {}
    [] op = "dropProject" -> scope.project /\ scope.arts = {}
    [] op = "scanned" -> a.art \in scope.arts
    [] OTHER -> TRUE

\* A tag that moves keeps its row.
Attached(a) == IF a.tag = "" THEN scope ELSE [scope EXCEPT !.tag = a.art, !.tagRow = IF scope.tag = "none" THEN @ + 1 ELSE @]
AfterOp(op, a) ==
  CASE op = "push" -> [Attached(a) EXCEPT !.arts = @ \union {a.art}]
    [] op = "newTag" -> Attached([a EXCEPT !.tag = "t"])
    [] op = "dropTag" -> [scope EXCEPT !.tag = "none"]
    [] op = "delete" -> [scope EXCEPT !.arts = @ \ {a.art}, !.tag = IF @ = a.art THEN "none" ELSE @]
    [] op = "dropRepo" -> [scope EXCEPT !.arts = {}, !.tag = "none"]
    [] op = "dropProject" -> [scope EXCEPT !.project = FALSE]
    [] OTHER -> scope

\* AddEvent: the events of a request, and whether they must be published.
EnsureEvent(a) == <<Meta("push", a.art, TagList(a.tag), a.by, "")>>
deleteDeeply(a) == <<Meta("delete", a.art, IF scope.tag = a.art THEN <<"t">> ELSE <<>>, a.by, "")>>
getManifest(a) == IF a.val = "head" THEN <<>> ELSE <<Meta("pull", a.art, TagList(a.tag), a.by, "")>>
projectResourcesEvent(a, level) == <<Meta("quota", a.art, TagList(a.tag), "", level)>>
scanTaskStatusChange(a) == IF a.val \in {"Success", "Stopped", "Error"} THEN <<Meta("scanned", a.art, TagList(a.tag), "auto", a.val)>> ELSE <<>>
ReplicationPostFunc(a) == <<Meta("replicated", a.art, <<>>, "", a.val)>>
Collected(op, a) ==
  CASE op = "push" -> (IF a.val = "exceeded" THEN projectResourcesEvent(a, "1")
                       ELSE EnsureEvent(a) \o (IF a.val = "warned" THEN projectResourcesEvent(a, "2") ELSE <<>>))
    [] op = "pull" -> getManifest(a)
    [] op = "delete" -> deleteDeeply(a)
    [] op = "scanned" -> scanTaskStatusChange(a)
    [] op = "replicated" -> ReplicationPostFunc(a)
    [] op \in {"newTag", "dropTag"} -> <<Meta(op, a.art, <<"t">>, a.by, "")>>
    [] OTHER -> <<Meta(op, a.art, <<>>, a.by, "")>>
MustNotify(op, a) == op = "push" /\ a.val \in {"exceeded", "warned"}

Served == {"push", "pull", "delete", "newTag", "dropTag", "newProject", "dropProject", "dropRepo", "scanned", "replicated"}

PublishesAll(op, a, success) == ToSet(Collected(op, a))

\* The notification middleware around the transaction of the request.
Publishes(op, a, success) == IF success \/ MustNotify(op, a) THEN ToSet(Collected(op, a)) ELSE {}
Serve(d) ==
  LET op == deed[d].op
      a == deed[d].arg IN
  /\ deed[d].phase = "idle" /\ op \in Served
  /\ \E success \in BOOLEAN :
       /\ success => Possible(op, a)
       /\ (~success /\ Possible(op, a)) => mishaps > 0
       /\ scope' = IF success THEN AfterOp(op, a) ELSE scope
       /\ mishaps' = IF ~success /\ Possible(op, a) THEN mishaps - 1 ELSE mishaps
       /\ news' = news \union {[deed |-> d, meta |-> m] :
                    m \in IF Possible(op, a) \/ a.val = "exceeded" THEN Publishes(op, a, success) ELSE {}}
       /\ past' = [past EXCEPT !.done = IF success THEN @ \union {d} ELSE @]
  /\ Closes(d)
  /\ UNCHANGED <<knobs, hookPol, errands, hookJobs, auditLog, stash, pullCols, hour>>

\* The tags a retention job says it deleted.
Deleted(a) == IF a.val = "none" THEN <<>> ELSE <<"v", "t">>

\* AddLabel and the check-in of a retention job publish at once, before their
\* transaction is over; the proxy tells of a pull without a request's context.
PublishNow(d) ==
  LET op == deed[d].op
      a == deed[d].arg
      m == IF op = "proxyPull" THEN Meta("pull", a.art, TagList(a.tag), a.by, "") ELSE Meta(op, a.art, IF op = "retained" THEN Deleted(a) ELSE <<>>, a.by, a.val) IN
  /\ deed[d].phase = "idle" /\ op \in {"label", "retained", "proxyPull"}
  /\ IF Possible(op, a)
     THEN /\ IF op = "proxyPull" THEN news' = news \union {[deed |-> d, meta |-> m]} /\ UNCHANGED errands
             ELSE errands' = errands \union Notify(d, Resolve(m)) /\ UNCHANGED news
          /\ past' = [past EXCEPT !.done = @ \union {d}]
     ELSE UNCHANGED <<news, errands, past>>
  /\ Closes(d)
  /\ UNCHANGED <<scope, knobs, hookPol, hookJobs, auditLog, stash, pullCols, hour, mishaps>>

\* BuildAndPublish, in a goroutine for each event.
BuildAndPublish(n) ==
  LET e == Resolve(n.meta) IN
  /\ n \in news
  /\ news' = news \ {n}
  /\ errands' = IF e = NoEvent THEN errands ELSE errands \union Notify(n.deed, e)
  /\ past' = [past EXCEPT !.published = @ \union {<<n.deed, e.topic>>}]
  /\ UNCHANGED <<deed, scope, knobs, hookPol, hookJobs, auditLog, stash, pullCols, hour, mishaps>>

---------------------------------------------------------------------------
(* The audit log.                                                          *)

Ref(e) == IF e.tags = <<>> THEN e.art ELSE e.tags[1]
AuditRow(op, kind, res, e) == [op |-> op, kind |-> kind, resource |-> res, by |-> e.by]

PushAudit(e) == AuditRow("create", "artifact", Ref(e), e)
PullAudit(e) == [AuditRow("pull", "artifact", Ref(e), e) EXCEPT !.by = IF @ = "" THEN "anonymous" ELSE @]
DeleteAudit(e) == AuditRow("delete", "artifact", e.art, e)
CreateTagAudit(e) == AuditRow("create", "tag", e.tags[1], e)
DeleteTagAudit(e) == AuditRow("delete", "tag", e.tags[1], e)
CreateProjectAudit(e) == AuditRow("create", "project", "p", e)
DeleteProjectAudit(e) == AuditRow("delete", "project", "p", e)
DeleteRepositoryAudit(e) == AuditRow("delete", "repository", "x", e)
ResolveToAuditLog(e) ==
  CASE e.topic = "PUSH" -> PushAudit(e) [] e.topic = "PULL" -> PullAudit(e) [] e.topic = "DELETE" -> DeleteAudit(e)
    [] e.topic = "CREATE_TAG" -> CreateTagAudit(e) [] e.topic = "DELETE_TAG" -> DeleteTagAudit(e)
    [] e.topic = "CREATE_PROJECT" -> CreateProjectAudit(e) [] e.topic = "DELETE_PROJECT" -> DeleteProjectAudit(e)
    [] e.topic = "DELETE_REPOSITORY" -> DeleteRepositoryAudit(e)

\* Manager.Create and dao.Create.
CreateAudit(x) == IF knobs.skipDb THEN auditLog ELSE auditLog \union {[deed |-> x.deed, at |-> hour, row |-> ResolveToAuditLog(x.ev)]}

HandleAudit(x) ==
  /\ x \in errands /\ x.h = "audit"
  /\ LET adds == x.ev.topic = "PULL" => ~knobs.noPullAudit IN
     \/ /\ auditLog' = IF adds THEN CreateAudit(x) ELSE auditLog
        /\ past' = IF adds /\ ~knobs.skipDb THEN [past EXCEPT !.audited = @ \union {x.deed}] ELSE past
        /\ UNCHANGED mishaps
     \/ /\ adds /\ ~knobs.skipDb /\ mishaps > 0
        /\ mishaps' = mishaps - 1
        /\ past' = [past EXCEPT !.dropped = @ \union {x.deed}]
        /\ UNCHANGED auditLog
  /\ HandlerEnds(x)
  /\ UNCHANGED <<deed, scope, knobs, hookPol, news, hookJobs, stash, pullCols, hour>>

\* The purge job: the hours it is given, the operations it may delete.
permitOps(ops) == ops \cap {"pull", "create", "delete"}
PurgeHours(h, max) == IF h > max THEN max ELSE h
MaxHours == 2

Purged(h, ops) == {r \in auditLog : r.at < hour - h /\ r.row.op \in permitOps(ops)}
PurgeRun(d) ==
  LET p == deed[d].arg
      gone == IF p.hours \in {-1, 0} \/ p.dry THEN {} ELSE Purged(PurgeHours(p.hours, MaxHours), p.ops) IN
  /\ deed[d].phase = "idle" /\ deed[d].op = "purge"
  /\ auditLog' = auditLog \ gone
  /\ past' = [past EXCEPT !.purged = @ \union {[row |-> r, hours |-> PurgeHours(p.hours, MaxHours), at |-> hour, ops |-> p.ops] : r \in gone}]
  /\ Closes(d)
  /\ UNCHANGED <<scope, knobs, hookPol, news, errands, hookJobs, stash, pullCols, hour, mishaps>>

---------------------------------------------------------------------------
(* Pull times and pull counts, automatic scans.                            *)

EmptyStash == [begun |-> FALSE, timeMap |-> FALSE, countMap |-> FALSE, times |-> {}, count |-> 0, timeLock |-> FALSE, countLock |-> FALSE, tagTodo |-> {}]
Key(e) == <<e.art, IF e.tags = <<>> THEN "" ELSE e.tags[1]>>
Clock == Cardinality(past.times) + 1

\* A panic in a handler ends the process, as a crash does: what is in memory is lost.
Unflushed == IF stash.countLock THEN 0 ELSE stash.count
ProcessEnds(panic) ==
  /\ stash' = EmptyStash /\ news' = {} /\ errands' = {}
  /\ past' = [past EXCEPT !.fell = TRUE, !.panicked = @ \/ panic, !.lost = @ + Unflushed]

isScanner(e) == e.by = "scanner"

\* syncFlushPullTime, UpdatePullTime: the artifact's time only moves forward,
\* the tag's row is looked up by artifact and name and written afterwards.
TagRowOf(k) == IF k[2] # "" /\ scope.tag = k[1] THEN {scope.tagRow} ELSE {}
UpdatePullTime(k, t) == IF k[1] \in scope.arts /\ pullCols.art[k[1]] < t THEN [pullCols EXCEPT !.art[k[1]] = t] ELSE pullCols

\* onPull before the stores are written.
OnPull(x) ==
  /\ x \in errands /\ x.h = "internal" /\ x.ev.topic = "PULL" /\ AtStage(x, "time")
  /\ IF isScanner(x.ev) /\ knobs.skipScanner THEN HandlerEnds(x) /\ UNCHANGED <<stash, past, pullCols, news>>
     ELSE LET st == IF knobs.sync \/ stash.begun THEN stash
                    ELSE [stash EXCEPT !.begun = TRUE, !.timeMap = ~knobs.noTime, !.countMap = ~knobs.noCount]
              put == [st EXCEPT !.times = {t \in @ : t[1] # Key(x.ev)} \union {<<Key(x.ev), Clock>>}] IN
       IF knobs.noTime THEN stash' = st /\ Advance(x, NextStage(x)) /\ UNCHANGED <<past, pullCols, news>>
       ELSE IF knobs.sync
            THEN /\ pullCols' = UpdatePullTime(Key(x.ev), Clock)
                 /\ stash' = [st EXCEPT !.tagTodo = @ \union TagRowOf(Key(x.ev)) \X {Clock}]
                 /\ past' = [past EXCEPT !.times = @ \union {<<Key(x.ev), Clock>>}]
                 /\ Advance(x, NextStage(x)) /\ UNCHANGED news
            ELSE IF ~st.timeMap THEN ProcessEnds(TRUE) /\ UNCHANGED pullCols
            ELSE /\ ~stash.timeLock
                 /\ stash' = put
                 /\ past' = [past EXCEPT !.times = @ \union {<<Key(x.ev), Clock>>}]
                 /\ Advance(x, NextStage(x)) /\ UNCHANGED <<pullCols, news>>
  /\ UNCHANGED <<deed, scope, knobs, hookPol, hookJobs, auditLog, hour, mishaps>>

AddPullCount(n) == IF scope.arts # {} THEN [pullCols EXCEPT !.count = @ + n] ELSE pullCols
Uncounted(n) == IF scope.arts # {} THEN 0 ELSE n

PullCount(x) ==
  /\ x \in errands /\ x.h = "internal" /\ x.ev.topic = "PULL" /\ AtStage(x, "count")
  /\ IF knobs.noCount THEN HandlerEnds(x) /\ UNCHANGED <<pullCols, stash, past, news>>
     ELSE IF knobs.sync
          THEN /\ pullCols' = AddPullCount(1) /\ HandlerEnds(x)
               /\ past' = [past EXCEPT !.counted = @ + 1, !.lost = @ + Uncounted(1)]
               /\ UNCHANGED <<stash, news>>
          ELSE IF ~stash.countMap THEN ProcessEnds(TRUE) /\ UNCHANGED pullCols
          ELSE /\ ~stash.countLock
               /\ stash' = [stash EXCEPT !.count = @ + 1]
               /\ past' = [past EXCEPT !.counted = @ + 1]
               /\ HandlerEnds(x) /\ UNCHANGED <<pullCols, news>>
  /\ UNCHANGED <<deed, scope, knobs, hookPol, hookJobs, auditLog, hour, mishaps>>

\* asyncFlushPullTime and asyncFlushPullCount hold the lock of their store.
FlushTimes ==
  /\ stash.timeMap /\ stash.times # {} /\ ~stash.timeLock
  /\ stash' = [stash EXCEPT !.timeLock = TRUE]
  /\ UNCHANGED <<deed, scope, knobs, hookPol, news, errands, hookJobs, auditLog, pullCols, hour, mishaps, past>>

FlushTime(t) ==
  /\ stash.timeLock /\ t \in stash.times /\ stash.tagTodo = {}
  /\ pullCols' = UpdatePullTime(t[1], t[2])
  /\ stash' = [stash EXCEPT !.tagTodo = TagRowOf(t[1]) \X {t[2]}, !.times = @ \ {t}]
  /\ UNCHANGED <<deed, scope, knobs, hookPol, news, errands, hookJobs, auditLog, hour, mishaps, past>>

FlushTag(r) ==
  /\ r \in stash.tagTodo
  /\ pullCols' = IF scope.tag # "none" /\ scope.tagRow = r[1] THEN [pullCols EXCEPT !.tag = r] ELSE pullCols
  /\ stash' = [stash EXCEPT !.tagTodo = @ \ {r}]
  /\ UNCHANGED <<deed, scope, knobs, hookPol, news, errands, hookJobs, auditLog, hour, mishaps, past>>

EndTimes ==
  /\ stash.timeLock /\ stash.times = {} /\ stash.tagTodo = {}
  /\ stash' = [stash EXCEPT !.timeLock = FALSE]
  /\ UNCHANGED <<deed, scope, knobs, hookPol, news, errands, hookJobs, auditLog, pullCols, hour, mishaps, past>>

FlushCount ==
  /\ stash.countMap /\ stash.count > 0 /\ ~stash.countLock
  /\ \/ /\ pullCols' = AddPullCount(stash.count)
        /\ past' = [past EXCEPT !.lost = @ + Uncounted(stash.count)]
        /\ UNCHANGED mishaps
     \/ /\ mishaps > 0 /\ mishaps' = mishaps - 1
        /\ past' = [past EXCEPT !.lost = @ + stash.count]
        /\ UNCHANGED pullCols
  /\ stash' = [stash EXCEPT !.countLock = TRUE]
  /\ UNCHANGED <<deed, scope, knobs, hookPol, news, errands, hookJobs, auditLog, hour>>

EndCount ==
  /\ stash.countLock
  /\ stash' = [stash EXCEPT !.countLock = FALSE, !.count = 0]
  /\ UNCHANGED <<deed, scope, knobs, hookPol, news, errands, hookJobs, auditLog, pullCols, hour, mishaps, past>>

\* onPush: autoScan.
OnPush(x) ==
  /\ x \in errands /\ x.h = "internal" /\ x.ev.topic = "PUSH"
  /\ past' = IF scope.project /\ scope.autoScan THEN [past EXCEPT !.scans = @ \union {x.deed}] ELSE past
  /\ HandlerEnds(x)
  /\ UNCHANGED <<deed, scope, knobs, hookPol, news, hookJobs, auditLog, stash, pullCols, hour, mishaps>>

---------------------------------------------------------------------------
(* Webhook policies.                                                       *)

NoHookPol == [live |-> FALSE, name |-> "", enabled |-> FALSE, types |-> <<>>, targets |-> <<>>]
HookTypes == {"PUSH", "PULL", "DELETE", "QUOTA_EXCEED", "QUOTA_WARNING", "SCAN_FAILED", "SCAN_STOPPED", "SCAN_COMPLETED", "REPLICATION", "TAG_RETENTION"}
NotifyTypes == {"http", "slack"}
validateEventTypes(p) == p.types # <<>> /\ ToSet(p.types) \subseteq HookTypes
validateTargets(p) == p.targets # <<>> /\ \A t \in ToSet(p.targets) : t.addr # "" /\ t.type \in NotifyTypes
HookNameFree(i, p) == \A j \in HookPolicies \ {i} : hookPol[j].live => hookPol[j].name # p.name

CreateHookPolicy(d) ==
  LET i == deed[d].arg.id
      p == deed[d].arg.pol IN
  /\ deed[d].phase = "idle" /\ deed[d].op = "newHook"
  /\ hookPol' = IF validateEventTypes(p) /\ validateTargets(p) /\ scope.project /\ HookNameFree(i, p)
                THEN [hookPol EXCEPT ![i] = [p EXCEPT !.live = TRUE]] ELSE hookPol
  /\ Closes(d)
  /\ UNCHANGED <<scope, knobs, news, errands, hookJobs, auditLog, stash, pullCols, hour, mishaps, past>>

requirePolicyInProject(i) == scope.project /\ hookPol[i].live

HookPolicyCheck(d) ==
  LET i == deed[d].arg.id
      p == deed[d].arg.pol IN
  /\ deed[d].phase = "idle" /\ deed[d].op \in {"setHook", "dropHook"}
  /\ deed' = [deed EXCEPT ![d].phase = IF requirePolicyInProject(i) /\ (deed[d].op = "setHook" => validateEventTypes(p) /\ validateTargets(p))
                                       THEN "checked" ELSE "over"]
  /\ UNCHANGED <<scope, knobs, hookPol, news, errands, hookJobs, auditLog, stash, pullCols, hour, mishaps, past>>

UpdateHookPolicy(d) ==
  LET i == deed[d].arg.id
      p == deed[d].arg.pol IN
  /\ deed[d].phase = "checked" /\ deed[d].op = "setHook"
  /\ hookPol' = IF hookPol[i].live /\ HookNameFree(i, p) THEN [hookPol EXCEPT ![i] = [p EXCEPT !.live = TRUE]] ELSE hookPol
  /\ Closes(d)
  /\ UNCHANGED <<scope, knobs, news, errands, hookJobs, auditLog, stash, pullCols, hour, mishaps, past>>

DeleteHookPolicy(d) ==
  /\ deed[d].phase = "checked" /\ deed[d].op = "dropHook"
  /\ hookPol' = [hookPol EXCEPT ![deed[d].arg.id] = NoHookPol]
  /\ Closes(d)
  /\ UNCHANGED <<scope, knobs, news, errands, hookJobs, auditLog, stash, pullCols, hour, mishaps, past>>

\* GetRelatedPolices: once for every type that matches.
GetRelatedPolices(type) ==
  LET matches(i) == IF hookPol[i].live /\ hookPol[i].enabled THEN [n \in 1..Cardinality({k \in DOMAIN hookPol[i].types : hookPol[i].types[k] = type}) |-> [id |-> i, pol |-> hookPol[i]]]
                    ELSE <<>>
  IN FlattenSeq([i \in 1..Cardinality(HookPolicies) |-> matches(i)])
LastTrigger(i, type) == LET S == {r \in DOMAIN hookJobs : hookJobs[r].pol = i /\ hookJobs[r].payload.type = type} IN IF S = {} THEN 0 ELSE Max(S)

---------------------------------------------------------------------------
(* Webhook handlers: artifact, quota, scan, replicated, retained.          *)

HookRest == <<deed, scope, knobs, hookPol, news, auditLog, stash, pullCols, hour>>

\* Handle: the handlers of artifacts, replications and retention ask whether webhooks are enabled.
HookProject(x) ==
  /\ x \in errands /\ AtStage(x, "project")
  /\ IF scope.project /\ (x.h = "artifact" => knobs.notify) THEN Advance(x, NextStage(x)) ELSE HandlerEnds(x)
  /\ UNCHANGED <<HookRest, hookJobs, mishaps, past>>

HookListing(x) ==
  LET ps == GetRelatedPolices(x.ev.topic) IN
  /\ x \in errands /\ AtStage(x, "policies")
  /\ IF ps # <<>> THEN Advance(x, [NextStage(x) EXCEPT !.found = ps]) ELSE HandlerEnds(x)
  /\ UNCHANGED <<HookRest, hookJobs, mishaps, past>>

constructArtifactPayload(e) == [type |-> e.topic, ref |-> Ref(e), art |-> e.art]
constructQuotaPayload(e) == [type |-> e.topic, ref |-> IF e.tags = <<>> THEN "" ELSE e.tags[1], art |-> e.art]
constructScanImagePayload(e) == [type |-> e.topic, ref |-> Ref(e), art |-> e.art]
constructReplicationPayload(e) == [type |-> e.topic, ref |-> IF e.val \in {"Success", "Error"} THEN e.val ELSE "", art |-> e.art]
\* Of the artifacts that were deleted, the last one.
constructRetentionPayload(e) == [type |-> e.topic, ref |-> Last(e.tags), art |-> e.art]
PayloadOf(h, e) == CASE h = "artifact" -> constructArtifactPayload(e) [] h = "quota" -> constructQuotaPayload(e)
                     [] h = "scan" -> constructScanImagePayload(e) [] h = "replicated" -> constructReplicationPayload(e)
                     [] h = "retained" -> constructRetentionPayload(e)
\* The rows a payload is built from are there.
Payable(x) == CASE x.h = "scan" -> x.ev.art \in scope.arts /\ scope.project
                [] x.h = "replicated" -> knobs.notify /\ scope.chain /\ scope.project
                [] x.h = "retained" -> knobs.notify /\ x.ev.tags # <<>> /\ scope.chain /\ x.ev.val # "dry"

HookPayload(x) ==
  /\ x \in errands /\ AtStage(x, "payload")
  /\ IF Payable(x) THEN Advance(x, NextStage(x)) ELSE HandlerEnds(x)
  /\ UNCHANGED <<HookRest, hookJobs, mishaps, past>>

\* SendHookWithPolicies: an event for every target of every policy.
HookSends(x) == {[x EXCEPT !.pol = x.found[k].id, !.targets = x.found[k].pol.targets, !.at = i, !.nth = k, !.row = -1] :
                   <<k, i>> \in {ki \in (DOMAIN x.found) \X (1..4) : ki[2] \in DOMAIN x.found[ki[1]].pol.targets}}
SendHookWithPolicies(x) ==
  /\ x \in errands /\ x.h \in {"artifact", "quota", "scan", "replicated", "retained"} /\ x.todo = <<>> /\ x.row = 0
  /\ errands' = (errands \ {x}) \union (IF knobs.notify THEN HookSends(x) ELSE {})
  /\ UNCHANGED <<HookRest, hookJobs, mishaps, past>>

\* HTTPHandler and SlackHandler read the target through a pointer to the variable
\* of the sender's loop over the targets, which may have moved on.
Seen(x, from) == from..Len(x.targets)
HookRow(x, j, k) == [deed |-> x.deed, pol |-> x.pol, nth |-> x.nth, at |-> x.at, targets |-> x.targets, payload |-> PayloadOf(x.h, x.ev),
                     addr |-> x.targets[j].addr, notify |-> x.targets[k].type,
                     status |-> "pending", job |-> "none", tries |-> 0, took |-> FALSE, refused |-> FALSE, posts |-> <<>>]
StartHook(x) ==
  /\ x \in errands /\ x.row = -1
  /\ \E j \in Seen(x, x.at) : \E k \in Seen(x, j) : hookJobs' = Append(hookJobs, HookRow(x, j, k))
  /\ Advance(x, [x EXCEPT !.row = Len(hookJobs) + 1])
  /\ UNCHANGED <<HookRest, mishaps, past>>

SubmitHook(x) ==
  /\ x \in errands /\ x.row > 0
  /\ \/ hookJobs' = [hookJobs EXCEPT ![x.row].job = "queued"] /\ UNCHANGED mishaps
     \/ /\ mishaps > 0 /\ mishaps' = mishaps - 1
        /\ \E taken \in BOOLEAN : hookJobs' = [hookJobs EXCEPT ![x.row] = [@ EXCEPT !.status = "error", !.refused = TRUE, !.job = IF taken THEN "queued" ELSE @]]
  /\ HandlerEnds(x)
  /\ UNCHANGED <<HookRest, past>>

---------------------------------------------------------------------------
(* The webhook jobs and what the job service tells of them.                *)

HookRun(r) ==
  /\ r \in DOMAIN hookJobs /\ hookJobs[r].job = "queued"
  /\ hookJobs' = [hookJobs EXCEPT ![r] = [@ EXCEPT !.job = "running", !.posts = Append(@, "Running")]]
  /\ UNCHANGED <<HookRest, errands, mishaps, past>>

\* execute: the answer of the endpoint decides.
HookExecute(r) ==
  /\ r \in DOMAIN hookJobs /\ hookJobs[r].job = "running"
  /\ \/ /\ hookJobs' = [hookJobs EXCEPT ![r] = [@ EXCEPT !.job = "success", !.took = TRUE, !.posts = Append(@, "Success")]]
        /\ UNCHANGED mishaps
     \/ /\ mishaps > 0 /\ mishaps' = mishaps - 1
        /\ hookJobs' = [hookJobs EXCEPT ![r] = [@ EXCEPT !.tries = @ + 1, !.posts = Append(@, "Error"),
                           !.job = IF hookJobs[r].tries + 1 < HookTries THEN "queued" ELSE "error"]]
  /\ UNCHANGED <<HookRest, errands, past>>

statusMap == [s \in {"Running", "Success", "Error"} |-> CASE s = "Success" -> "finished" [] s = "Error" -> "error" [] OTHER -> "running"]

\* HandleNotificationJob; a post that failed comes again after later ones.
HandleNotificationJob(r, i) ==
  /\ r \in DOMAIN hookJobs /\ i \in DOMAIN hookJobs[r].posts
  /\ i > 1 => mishaps > 0
  /\ mishaps' = IF i > 1 THEN mishaps - 1 ELSE mishaps
  /\ hookJobs' = [hookJobs EXCEPT ![r] = [@ EXCEPT !.status = statusMap[hookJobs[r].posts[i]], !.posts = RemoveAt(@, i)]]
  /\ UNCHANGED <<HookRest, errands, past>>

---------------------------------------------------------------------------
(* Settings, time, crashes.                                                *)

Switch(d) ==
  /\ deed[d].phase = "idle" /\ deed[d].op = "set"
  /\ knobs' = deed[d].arg /\ past' = [past EXCEPT !.switched = TRUE]
  /\ Closes(d)
  /\ UNCHANGED <<scope, hookPol, news, errands, hookJobs, auditLog, stash, pullCols, hour, mishaps>>

Tick(d) ==
  /\ deed[d].phase = "idle" /\ deed[d].op = "tick"
  /\ hour' = hour + deed[d].arg.hours
  /\ Closes(d)
  /\ UNCHANGED <<scope, knobs, hookPol, news, errands, hookJobs, auditLog, stash, pullCols, mishaps, past>>

Crash(d) ==
  /\ deed[d].phase = "idle" /\ deed[d].op = "crash"
  /\ ProcessEnds(FALSE) /\ Closes(d)
  /\ UNCHANGED <<scope, knobs, hookPol, hookJobs, auditLog, pullCols, hour, mishaps>>

EventsNext ==
  \/ \E d \in Deeds : \/ Serve(d) \/ PublishNow(d) \/ PurgeRun(d) \/ CreateHookPolicy(d) \/ HookPolicyCheck(d) \/ UpdateHookPolicy(d)
                       \/ DeleteHookPolicy(d) \/ Switch(d) \/ Tick(d) \/ Crash(d)
  \/ \E n \in news : BuildAndPublish(n)
  \/ \E x \in errands : \/ HandleAudit(x) \/ OnPull(x) \/ PullCount(x) \/ OnPush(x) \/ HookProject(x) \/ HookListing(x)
                         \/ HookPayload(x) \/ SendHookWithPolicies(x) \/ StartHook(x) \/ SubmitHook(x)
  \/ \E t \in stash.times : FlushTime(t)
  \/ \E r \in stash.tagTodo : FlushTag(r)
  \/ FlushTimes \/ EndTimes \/ FlushCount \/ EndCount
  \/ \E r \in DOMAIN hookJobs : \/ HookRun(r) \/ HookExecute(r)
                               \/ \E i \in DOMAIN hookJobs[r].posts : HandleNotificationJob(r, i)

---------------------------------------------------------------------------
(* Correctness.                                                            *)

\* An operation is told of, by audit rows, webhooks, scans or pull counts, only when its
\* transaction was committed; a quota warning makes the events of its request come in any case.
ToldWhenDone ==
  LET told == {d[1] : d \in {t \in past.published : t[2] \notin {"QUOTA_EXCEED", "QUOTA_WARNING"}}} \union {r.deed : r \in auditLog} \union past.scans
  IN \A d \in told : d \in past.done \/ MustNotify(deed[d].op, deed[d].arg)

\* The audit log has one row of each operation, by whom it was made and of what kind, from the
\* time its event was handled until a purge takes it; only rows older than the hours of the
\* purge and of its operations go.
Awaited(d) == \E n \in news : n.deed = d
AuditRight ==
  /\ \A r, s \in auditLog : r.deed = s.deed => r = s
  /\ \A r \in auditLog :
       /\ r.row.by = (IF deed[r.deed].arg.by = "" /\ r.row.op = "pull" THEN "anonymous" ELSE deed[r.deed].arg.by)
       /\ (r.row.op = "delete") = (deed[r.deed].op \in {"delete", "dropTag", "dropProject", "dropRepo"})
       /\ (r.row.op = "pull") = (deed[r.deed].op \in {"pull", "proxyPull"})
  /\ \A d \in past.audited : (\E r \in auditLog : r.deed = d) \/ \E g \in past.purged : g.row.deed = d
  /\ \A g \in past.purged : g.hours > 0 /\ g.row.at < g.at - g.hours /\ g.row.row.op \in g.ops
  /\ (~past.fell /\ ~past.switched /\ ~knobs.skipDb /\ ~knobs.noPullAudit) =>
       \A d \in past.done : (deed[d].op \in (Served \ {"scanned", "replicated"}) \union {"proxyPull"} /\ deed[d].arg.val # "head"
                              /\ ~Awaited(d) /\ ~\E x \in errands : x.deed = d /\ x.h = "audit")
                             => d \in past.audited \union past.dropped

\* Every pull that is handled is in the row of its repository, still in the store, or was lost with
\* the repository, a failing update or the process; and every pull is handled once.
PullsKept ==
  /\ pullCols.count + Unflushed + past.lost = past.counted
  /\ (~past.fell /\ ~past.switched /\ ~knobs.noCount /\ ~knobs.skipScanner) =>
       past.counted + Cardinality({n \in news : n.meta.kind = "pull"}) + Cardinality({x \in errands : x.h = "internal" /\ x.ev.topic = "PULL"})
         = Cardinality({d \in past.done : deed[d].op \in {"pull", "proxyPull"} /\ deed[d].arg.val # "head"})

\* The pull time of an artifact is the last one noted of it once the store is flushed, and none is
\* written that no pull noted; the tag gets only times of pulls by tag.
TimesKept ==
  LET of(a) == {t[2] : t \in {u \in past.times : u[1][1] = a}}
      open(a) == {t[2] : t \in {u \in stash.times : u[1][1] = a}} IN
  /\ \A a \in DOMAIN pullCols.art : pullCols.art[a] \in of(a) \union {0}
  /\ pullCols.tag[2] = 0 \/ \E t \in past.times : t[1][2] # "" /\ t[2] = pullCols.tag[2]
  /\ ~past.fell => \A a \in scope.arts : (open(a) = {} /\ of(a) # {} /\ \A d \in past.done : deed[d].op \in {"pull", "proxyPull"}) => pullCols.art[a] = Max(of(a))

\* A webhook goes to a target its policy had when it was looked up, at most once for each target and
\* match, says what happened and to what, and, where the policy has one target, to that one by its
\* kind.  Only an endpoint that took it makes its row finished; only a refused or failed job, error.
HooksRight ==
  \A r \in DOMAIN hookJobs : LET j == hookJobs[r] IN
    /\ \E t \in ToSet(j.targets) : t.addr = j.addr
    /\ Len(j.targets) = 1 => j.addr = j.targets[1].addr /\ j.notify = j.targets[1].type
    /\ \A s \in DOMAIN hookJobs \ {r} : <<hookJobs[s].deed, hookJobs[s].payload.type, hookJobs[s].pol, hookJobs[s].nth, hookJobs[s].at>> # <<j.deed, j.payload.type, j.pol, j.nth, j.at>>
    /\ j.payload.type \in HookTypes /\ j.payload.art = deed[j.deed].arg.art
    /\ j.payload.type \in {"PUSH", "PULL", "SCAN_COMPLETED", "SCAN_FAILED", "SCAN_STOPPED"} => j.payload.ref = (IF deed[j.deed].arg.tag = "" THEN j.payload.art ELSE "t")
    /\ j.status = "finished" => j.took
    /\ j.status = "error" => j.refused \/ j.tries > 0
    /\ (j.job \in {"success", "error"} /\ j.tries = 0 /\ j.posts = <<>> /\ mishaps = past.budget) => j.status = "finished"
    /\ LastTrigger(j.pol, j.payload.type) >= r

\* A handler panics only when the update of pull times or counts is enabled after the first pull.
PanicsOnlyIfSwitched == past.panicked => past.switched

\* What follows an operation is told of what was committed, once, and is not lost on the way.
EventsSound == ToldWhenDone /\ AuditRight /\ PullsKept /\ TimesKept /\ HooksRight /\ PanicsOnlyIfSwitched
=============================================================================
