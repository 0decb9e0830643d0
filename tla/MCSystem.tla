------------------------------ MODULE MCSystem ------------------------------
(***************************************************************************)
(* Scenarios of the parts that keep the system itself: the configuration   *)
(* (Config) and the queues of the job service (JobQueues).                 *)
(***************************************************************************)
EXTENDS Config, JobQueues, TLC

---------------------------------------------------------------------------
(* Configuration: rows, a copy in the cache or not, the requests, how      *)
(* often the cache fails.                                                  *)

Conf(f) == [i \in Items |-> IF i \in DOMAIN f THEN f[i] ELSE NoText]
Update(c, f) == CfgAsk("update", c, Conf(f))
Reads(c) == CfgAsk("read", c, NoProps)
SkipOn == [skip |-> Yes]
EndpointOff == [endpoint |-> Empty]
WithEndpoint == Conf([endpoint |-> Word(1)])

ConfigScenes ==
  {<<NoProps, FALSE, <<Reads(1), Reads(1), Reads(1)>>, 0>>, <<NoProps, TRUE, <<Reads(1), Reads(2)>>, 1>>}
  \union {<<WithEndpoint, TRUE, <<Update(1, EndpointOff), Update(c, SkipOn)>>, c - 1>> : c \in {1, 2}}
  \union {<<WithEndpoint, FALSE, <<Update(1, f), Reads(1)>>, IF f = SkipOn THEN 1 ELSE 0>> :
     f \in {SkipOn, [auth |-> Word(2), secret |-> Word(1)], [days |-> Text("int", 0)], [days |-> Text("float", 7)], [sys |-> Text("int", 1)],
            [filter |-> Word(1)], [filter |-> Word(1), attr |-> Word(2)], [endpoint |-> Word(9)], [endpoint |-> Word(2), skip |-> Yes]}}
  \union {<<NoProps, FALSE, <<CfgAsk("overwrite", 1, Conf(f)), Update(1, SkipOn)>>, 0>> : f \in {[endpoint |-> Word(2)], SkipOn}}
  \union {<<NoProps, TRUE, <<Update(1, [endpoint |-> Word(9)]), Update(1, SkipOn)>>, 0>>,
          <<NoProps, TRUE, <<Update(1, [days |-> Text("whole", 7)]), Update(2, [days |-> Text("int", 8)])>>, 0>>,
          <<NoProps, FALSE, <<CfgAsk("internal", 1, NoProps), Update(2, [auth |-> Word(3)])>>, 0>>,
          <<NoProps, TRUE, <<CfgAsk("setting", 1, NoProps), Update(1, [days |-> Text("int", 8)]), CfgAsk("peek", 1, NoProps)>>, 0>>,
          <<NoProps, FALSE, <<CfgAsk("overwrite", 1, Conf([auth |-> Word(2)])), CfgAsk("setting", 1, NoProps), CfgAsk("system", 1, NoProps)>>, 0>>}
NoConfig == <<NoProps, FALSE, <<>>, 0>>

ConfigScenario(x) ==
  /\ props = x[1] /\ propsPend = [r \in CfgCalls |-> [conf |-> NoProps, cleaned |-> FALSE]]
  /\ confCopy = [val |-> IF x[2] THEN x[1] ELSE NoConfCopy, late |-> FALSE, kept |-> FALSE]
  /\ LET start == LoadSystemConfigFromEnv(LoadDefault, IF x[2] THEN Text("int", 6432) ELSE Word(1)) IN
     /\ inCore = [c \in Cores |-> [i \in Items |-> IF x[1][i] # NoText THEN x[1][i] ELSE start[i]]]
     /\ cfgPast = [NoCfgPast EXCEPT !.tables = {x[1]}, !.boot = start["sys"]]
  /\ readOnly = [c \in Cores |-> FALSE]
  /\ lockMap = [c \in Cores |-> <<0, 0>>] /\ lockHeld = {}
  /\ asks = [r \in CfgCalls |-> IF r <= Len(x[3]) THEN x[3][r] ELSE NoAsk]
  /\ people = (IF \E i \in DOMAIN x[3] : x[3][i].conf["auth"] # NoText THEN 0 ELSE 1) /\ upsets = x[4]

---------------------------------------------------------------------------
(* Queues: up to three jobs, requests, calls that fail.                    *)

Scans(place) == QJob("scan", "scan", "e1", place)
ScanAlls(place) == QJob("scan", "scanall", "e2", place)
Plans(place) == QJob("plan", "plan", "e3", place)
QueueScene(js, os, faults, paused) == <<js, os, faults, paused>>
StopScans == QueueOp("stop", "scan")
StopAll == QueueOp("stop", "all")
Pauses(t) == QueueOp("pause", t)
Resumes(t) == QueueOp("resume", t)
HaltAll == QueueOp("halt", "all")
HaltOne == QueueOp("halt", "j1")
Syncs == QueueOp("sync", "")
QueueScenes ==
  \* Jobs that wait are stopped.
  {QueueScene([j1 |-> Scans("queue"), j2 |-> Scans("queue")], <<StopScans>>, 0, {}), QueueScene([j1 |-> Scans("queue"), j2 |-> Scans("queue"), j3 |-> Plans("queue")], <<StopAll>>, 0, {"plan"})}
  \union {QueueScene([j1 |-> Scans("queue"), j2 |-> Scans("none")], <<StopScans>>, f, {}) : f \in {0, 1}}
  \union {QueueScene([j1 |-> Scans("queue"), j2 |-> QJob("scan", "scan", "e4", "queue")], <<StopScans>>, 0, {})}
  \union {QueueScene([j1 |-> Scans("queue"), j2 |-> Plans("queue")], <<StopAll>>, 1, {"plan"})}
  \union {QueueScene([j1 |-> ScanAlls("queue"), j2 |-> ScanAlls("queue")], <<StopScans, o>>, 0, {"scan"}) : o \in {StopScans, HaltOne}}
  \* Those that run.
  \union {QueueScene([j1 |-> Scans("run"), j2 |-> Plans("queue")], <<o>>, 0, {}) : o \in {HaltAll, HaltOne}}
  \union {QueueScene([j1 |-> Scans("run"), j2 |-> Plans("none")], <<HaltAll>>, 1, {}), QueueScene([j1 |-> Scans("queue")], <<HaltOne, HaltOne>>, 0, {})}
  \union {QueueScene([j1 |-> Scans("none"), j2 |-> Plans("none")], <<HaltAll>>, 0, {"plan"})}
  \* Queues are paused and resumed.
  \union {QueueScene([j1 |-> Scans("queue"), j2 |-> Plans("queue")], os, 0, p) :
     os \in {<<Pauses("all"), Resumes("scan")>>, <<Pauses("scan"), Syncs>>, <<Resumes("scan"), Syncs>>}, p \in {{}, {"scan"}}}
  \union {QueueScene([j1 |-> Scans("queue")], <<o, Syncs>>, 1, {"scan"}) : o \in {Resumes("all"), Pauses("plan"), QueueOp("other", "all")}}
NoQueueScene == QueueScene([j1 |-> Scans("done")], <<>>, 0, {})

QueueScenario(x) ==
  LET js == DOMAIN x[1] IN
  /\ qjobs = x[1] /\ ops = x[2] /\ queueFaults = x[3] /\ updates = <<>> /\ queuePast = NoQueuePast
  /\ taskRows = [j \in js |-> IF x[1][j].place = "none" THEN NoRow
                              ELSE [NewRow EXCEPT !.named = TRUE, !.status = x[1][j].stats, !.code = Code(x[1][j].stats), !.rev = IF x[1][j].place = "run" THEN 1 ELSE 0]]
  /\ qexecs = [e \in {x[1][j].exec : j \in js} |-> "Running"]
  /\ waiting = [t \in QTypes |-> SelectSeq(<<"j1", "j2", "j3">>, LAMBDA j : j \in js /\ x[1][j].type = t /\ x[1][j].place = "queue")]
  /\ pauseKeys = x[4] /\ pauseRows = [t \in QTypes |-> IF t \in x[4] THEN "paused" ELSE "none"]
  /\ hooked = [j \in js |-> <<>>] /\ seen = {j \in js : x[1][j].place = "run"}
=============================================================================
