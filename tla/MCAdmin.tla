------------------------------ MODULE MCAdmin ------------------------------
(***************************************************************************)
(* Instances of the parts behind the API and of the jobs they start:       *)
(* Robots, Projects, RetentionPolicy and RetentionRun here, the others in  *)
(* MCContent, MCReplication and MCWorkers.  One part (which) runs at a     *)
(* time, in one of its scenarios: the requests that come, and the rows     *)
(* there are when they come.  The requests of the other parts never come.  *)
(***************************************************************************)
EXTENDS Robots, Projects, RetentionPolicy, RetentionRun, MCContent, MCReplication, MCWorkers

VARIABLE which

---------------------------------------------------------------------------
(* Robots: any two of the requests, and any three about one robot.         *)

MCWant == [r \in Requests |->
  LET w(op, i, n, d, b, p) == [op |-> op, id |-> i, name |-> n, days |-> d, dis |-> b, perms |-> p] IN
  CASE r = "create" -> w("create", "new", "r", -1, FALSE, {<<"p", "push">>})
    [] r = "create2" -> w("createV1", "new2", "r", 0, FALSE, {<<"p", "pull">>, <<"p", "push">>})
    [] r = "update" -> w("update", "old", "r", -1, TRUE, {<<"p", "push">>})
    [] r = "update2" -> w("update", "old", "r", 0, FALSE, {<<"p", "list">>, <<"p", "pull">>})
    [] r = "sys" -> w("update", "sys", "s", 5, FALSE, {<<"p", "push">>, <<"system", "list">>})
    [] r = "refresh" -> w("refresh", "old", "r", 0, FALSE, {})
    [] r = "disable" -> w("disable", "old", "r", 0, TRUE, {})
    [] r = "delete" -> w("delete", "old", "r", 0, FALSE, {})
    [] r = "delete1" -> w("deleteV1", "old", "r", 0, FALSE, {})
    [] r = "dropLegacy" -> w("delete", "legacy", "r", 0, FALSE, {})
    [] r = "refreshLegacy" -> w("refresh", "legacy", "r", 0, FALSE, {})
    [] r = "drop" -> w("dropProject", "old", "r", 0, FALSE, {})
    [] r = "login" -> w("login", "old", "r", 0, FALSE, {})
    [] r = "loginSys" -> w("login", "sys", "r", 0, FALSE, {})]

MCLevel == [i \in Robots |-> IF i = "sys" THEN "system" ELSE "project"]

RobotScenario(A) ==
    /\ rq = [r \in Requests |-> IF r \in A THEN IdleRequest ELSE Closed("failed")]
    /\ LET renames == {"update", "update2"} \subseteq A
           creates == {"create", "create2"} \cap A # {}
       IN robots = [i \in Robots |->
             IF i \in {"new", "new2"} THEN NoRobot
             ELSE [name |-> IF i = "old" /\ (renames \/ ~creates) THEN "r" ELSE "s",
                   secret |-> IF i \in Legacy THEN "none" ELSE "first",
                   days |-> DefaultDays, expires |-> DefaultDays, disabled |-> FALSE]]

RobotScenes ==
    kSubset(2, Requests)
    \union kSubset(3, {"update", "update2", "refresh", "disable", "delete", "drop", "login"})
    \union {{"create", "create2", "drop"}, {"sys", "loginSys", "drop"}, {"refreshLegacy", "dropLegacy", "drop"}}

---------------------------------------------------------------------------
(* Projects, registries, repositories and replication policies.            *)

MCAsk == [a \in Asks |->
  LET w(op, i, g, k, v) == [op |-> op, id |-> i, reg |-> g, key |-> k, val |-> v] IN
  CASE a = "createP" -> w("createProject", "p2", "none", "public", "none")
    [] a = "createQ" -> w("createProject", "p3", "g", "public", "none")
    [] a = "updateP" -> w("updateProject", "p1", "none", "public", "false")
    [] a = "updateR" -> w("updateProject", "p3", "none", "retention", "own")
    [] a = "updateS" -> w("updateProject", "p3", "none", "retention", "other")
    [] a = "add" -> w("addMeta", "p1", "none", "public", "true")
    [] a = "del" -> w("delMeta", "p1", "none", "public", "true")
    [] a = "delR" -> w("delMeta", "p3", "none", "retention", "true")
    [] a = "deleteP" -> w("deleteProject", "p1", "none", "public", "none")
    [] a = "deleteQ" -> w("deleteProject", "p1", "none", "public", "none")
    [] a = "push" -> w("push", "x", "none", "public", "none")
    [] a = "pushAgain" -> w("push", "x", "none", "public", "none")
    [] a = "delRepo" -> w("delRepo", "x", "none", "public", "none")
    [] a = "createK" -> w("createPolicy", "k", "g", "public", "none")
    [] a = "updateK" -> w("updatePolicy", "k", "h", "public", "none")
    [] a = "deleteK" -> w("deletePolicy", "k", "none", "public", "none")
    [] a = "deleteG" -> w("deleteRegistry", "g", "g", "public", "none")
    [] a = "deleteH" -> w("deleteRegistry", "h", "h", "public", "none")
    [] a = "updateG" -> w("updateRegistry", "g", "g", "public", "second")]

ProjectScenario(A) ==
    /\ ask = [a \in Asks |-> IF a \in A THEN Idle ELSE Over("failed")]
    /\ proj = [p \in ProjectIds |->
          IF p = "p1" /\ {"deleteP", "updateP", "add", "push"} \cap A # {}
          THEN [NoProject EXCEPT !.st = "live", !.quota = TRUE, !.meta.public = "true"]
          ELSE NoProject]
    /\ health = [g \in Registries |-> IF "updateG" \in A THEN NoRegistry ELSE Unchecked]

ProjectScenes ==
    {{"createP", "deleteP", "push", "pushAgain"}, {"createP", "createQ", "deleteP", "deleteQ"},
     {"createQ", "updateR", "updateS", "delR"}, {"updateP", "add", "del", "deleteP"},
     {"push", "pushAgain", "delRepo", "deleteP"}, {"createK", "updateK", "deleteG", "deleteH"},
     {"createK", "deleteK", "updateK", "deleteG"}, {"deleteG", "updateG"}, {"createQ", "updateG"},
     {"createQ", "deleteP", "push", "deleteG"}}

---------------------------------------------------------------------------
(* The retention policy: two creations, or any three of the others.        *)

MCPlea == [r \in Pleas |->
  LET w(op, p, c, u) == [op |-> op, plan |-> p, cron |-> c, rules |-> u] IN
  CASE r = "create1" -> w("create", "new1", "daily", {"all"})
    [] r = "create2" -> w("create", "new2", "", {"one"})
    [] r = "clear" -> w("update", "first", "", {"one", "off"})
    [] r = "weekly" -> w("update", "first", "weekly", {"off"})
    [] r = "same" -> w("update", "first", "daily", {"bad"})
    [] r = "delete" -> w("delete", "first", "", {})
    [] r = "delete2" -> w("delete", "first", "", {})
    [] r = "go" -> w("trigger", "first", "", {})
    [] OTHER -> w("dryrun", "first", "", {})]

PlanScenario(A) ==
    /\ plea = [r \in Pleas |-> IF r \in A THEN NoPlea ELSE Ended]
    /\ planId = IF "create1" \in A THEN "none" ELSE FirstPlan
    /\ PlanInit

PlanScenes == {{"create1", "create2"}} \union kSubset(3, Pleas \ {"create1", "create2"})

---------------------------------------------------------------------------
(* The retention job: jobs, and what users do meanwhile.                   *)

Rule(t, n, d, p, u) == [template |-> t, n |-> n, dec |-> d, pat |-> p, untagged |-> u]

MCRulesOf == [j \in RJobs |-> CASE
     j = "a" -> <<Rule("latestPushedK", 1, "matches", {"v1","v2"}, TRUE), Rule("nDaysSinceLastPull", 1, "excludes", {"v2"}, FALSE)>>
  [] j = "b" -> <<Rule("latestPulledN", 1, "matches", {"v1"}, FALSE), Rule("lastXDays", 2, "matches", {"v2"}, FALSE), Rule("always", 0, "none", {}, TRUE)>>
  [] j = "c" -> <<Rule("latestActiveK", 1, "matches", {"v1", "v2"}, TRUE), Rule("always", 0, "matches", {"["}, TRUE), Rule("nDaysSinceLastPush", 0, "matches", {"v2"}, TRUE)>>
  [] j = "dry" -> <<Rule("latestPushedK", 2, "excludes", {"v2"}, FALSE), Rule("nDaysSinceLastPush", 1, "matches", {"v1"}, FALSE)>>
  [] OTHER -> <<Rule("nothing", 0, "matches", {"v1"}, TRUE)>>]

MCDryRun == [j \in RJobs |-> j = "dry"]

RetScenario(A) ==
    /\ rjob = [j \in RJobs |-> IF j \in A THEN NewRun ELSE IdleRun]
    /\ acts = A \cap UserActs
    /\ \E pulled \in IF A = {} THEN {0} ELSE {0, 4}, tags \in IF A = {} THEN {{"v2"}} ELSE {{"v2"}, {"v1", "v2"}} :
          stock = [d \in RetDigests |->
             CASE d = "d1" -> [live |-> TRUE, tags |-> {"v1"}, pushed |-> 1, pulled |-> pulled]
               [] d = "d2" -> [live |-> TRUE, tags |-> tags, pushed |-> 2, pulled |-> 0]
               [] d = "d3" -> [live |-> TRUE, tags |-> {}, pushed |-> 3, pulled |-> 1]
               [] OTHER -> NoArtifact]
    /\ shield = {} /\ told = {} /\ goneBy = [d \in RetDigests |-> "nobody"]

RetScenes == {{"a", "b"}, {"b", "remove"}, {"a", "put", "remove", "protect"}, {"b", "protect", "stop", "crash"},
              {"c", "stop", "fault"}, {"dry", "put", "protect"}, {"a", "dry"}, {"x"}}

---------------------------------------------------------------------------

\* A part that runs starts in one of its scenarios, the others in one where
\* nothing comes.
Starting(parts, retScenes) ==
    /\ which \in parts
    /\ \E A \in IF which = "robots" THEN RobotScenes ELSE {{}} : RobotScenario(A)
    /\ \E A \in IF which = "projects" THEN ProjectScenes ELSE {{}} : ProjectScenario(A)
    /\ \E A \in IF which = "plan" THEN PlanScenes ELSE {{}} : PlanScenario(A)
    /\ \E A \in IF which = "retention" THEN retScenes ELSE {{}} : RetScenario(A)
    /\ \E x \in IF which = "artifacts" THEN ArtScenes ELSE {NoScene} : ArtScenario(x)
    /\ \E x \in IF which = "access" THEN AccessScenes ELSE {<<>>} : AccessScenario(x)
    /\ \E x \in IF which = "logins" THEN LoginScenes ELSE {<<"db", <<>>>>} : LoginScenario(x)
    /\ \E x \in IF which = "transfer" THEN TransferScenes ELSE {<<<<"none", "none">>, <<"none", "none">>, {}, <<>>, 0>>} : TransferScenario(x)
    /\ \E x \in IF which = "replicate" THEN ReplicateScenes ELSE {NoReplicate} : ReplicateScenario(x)
    /\ \E x \in IF which = "preheat" THEN PreheatScenes ELSE {NoPreheat} : PreheatScenario(x)
    /\ \E x \in IF which = "events" THEN EventScenes ELSE {NoEvents} : EventScenario(x)
    /\ \E x \in IF which = "caches" THEN CacheScenes ELSE {NoCaches} : CacheScenario(x)
    /\ RobotInit /\ ProjectInit

MCNext ==
    /\ UNCHANGED which
    /\ IF which = "robots" THEN RobotNext ELSE UNCHANGED robotVars
    /\ IF which = "projects" THEN ProjectNext ELSE UNCHANGED projectVars
    /\ IF which = "plan" THEN PlanNext ELSE UNCHANGED planVars
    /\ IF which = "retention" THEN RetNext ELSE UNCHANGED retVars
    /\ IF which = "artifacts" THEN ArtNext ELSE UNCHANGED artVars
    /\ IF which = "access" THEN AccessNext ELSE UNCHANGED accessVars
    /\ IF which = "logins" THEN LoginNext ELSE UNCHANGED loginVars
    /\ IF which = "transfer" THEN TransferNext ELSE UNCHANGED transferVars
    /\ IF which = "replicate" THEN ReplicateNext ELSE UNCHANGED replicateVars
    /\ IF which = "preheat" THEN WarmNext ELSE UNCHANGED warmVars
    /\ IF which = "events" THEN EventsNext ELSE UNCHANGED eventVars
    /\ IF which = "caches" THEN CachesNext ELSE UNCHANGED cacheVars

mcVars == <<which, robotVars, projectVars, planVars, retVars, artVars, accessVars, loginVars, transferVars, replicateVars, warmVars, eventVars, cacheVars>>

MCSpec == Starting({"robots", "projects", "plan", "retention", "artifacts", "access", "logins", "transfer", "replicate", "preheat", "events", "caches"}, RetScenes) /\ [][MCNext]_mcVars

\* The jobs whose rules fail.
FailingRuleSpec == Starting({"retention"}, {{"c", "stop", "fault"}}) /\ [][MCNext]_mcVars
=============================================================================
