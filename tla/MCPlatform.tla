----------------------------- MODULE MCPlatform -----------------------------
(***************************************************************************)
(* What the other parts of Harbor rest on, one part (which) at a time:     *)
(* schedules, enqueuers and the collection of blobs (MCBackground), the    *)
(* configuration and the queues of jobs (MCSystem), and the adapters and   *)
(* the clients of registries (MCRegistries), each in its scenarios.        *)
(***************************************************************************)
EXTENDS MCBackground, MCSystem, MCRegistries

VARIABLE which

Starting(parts) ==
    /\ which \in parts
    /\ BackgroundInit(which)
    /\ \E x \in IF which = "config" THEN ConfigScenes ELSE {NoConfig} : ConfigScenario(x)
    /\ \E x \in IF which = "adapters" THEN AdapterScenes ELSE {NoAdapter} : AdapterScenario(x)
    /\ \E x \in IF which = "requests" THEN AuthScenes ELSE {NoAuthScene} : AuthScenario(x)
    /\ \E x \in IF which = "queues" THEN QueueScenes ELSE {NoQueueScene} : QueueScenario(x)

PlatformNext ==
    /\ UNCHANGED which
    /\ IF which = "schedules" THEN SchedNext ELSE UNCHANGED schedVars
    /\ IF which = "turns" THEN TurnsNext ELSE UNCHANGED turnVars
    /\ IF which = "blobs" THEN Next ELSE UNCHANGED vars
    /\ IF which = "config" THEN ConfigNext ELSE UNCHANGED cfgVars
    /\ IF which = "adapters" THEN AdaptersNext ELSE UNCHANGED adaptVars
    /\ IF which = "requests" THEN RegistryAuthNext ELSE UNCHANGED authVars
    /\ IF which = "queues" THEN JobQueuesNext ELSE UNCHANGED queueVars

platformVars == <<which, schedVars, turnVars, vars, cfgVars, adaptVars, authVars, queueVars>>

PlatformSpec == Starting({"schedules", "turns", "blobs", "config", "adapters", "requests", "queues"}) /\ [][PlatformNext]_platformVars
=============================================================================
