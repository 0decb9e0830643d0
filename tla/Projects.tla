------------------------------ MODULE Projects ------------------------------
(***************************************************************************)
(* Projects and what refers to them or is referred to by them: registries, *)
(* replication policies, repositories, and the quota, the metadata and the *)
(* retention policy of a project.  The tables have no foreign keys; every  *)
(* request looks up what it refers to and commits later, in its own        *)
(* transaction.                                                            *)
(*                                                                         *)
(* Several projects, one after the other, have one name, and a repository  *)
(* name belongs to that name.  A request that writes a single row does so  *)
(* when it commits.  Robots, members, labels are not represented here.     *)
(***************************************************************************)
EXTENDS Naturals

CONSTANTS ProjectIds, Registries, Policies, Repos,
          Asks,        \* requests
          Ask          \* what each asks for: op, id, reg, key, val

AskOps == {"createProject", "updateProject", "deleteProject", "addMeta", "delMeta", "push", "delRepo",
           "createPolicy", "updatePolicy", "deletePolicy", "updateRegistry", "deleteRegistry"}

ASSUME ProjectAssumption ==
    /\ \A a \in Asks :
         /\ Ask[a].op \in AskOps /\ Ask[a].reg \in Registries \union {"none"} /\ Ask[a].key \in {"public", "retention"}
         /\ Ask[a].op \in {"createProject", "updateProject", "deleteProject", "addMeta", "delMeta"} => Ask[a].id \in ProjectIds
         /\ Ask[a].op \in {"push", "delRepo"} => Ask[a].id \in Repos
         /\ Ask[a].op \in {"createPolicy", "updatePolicy", "deletePolicy"} => Ask[a].id \in Policies
         /\ Ask[a].op \in {"createPolicy", "updatePolicy", "updateRegistry", "deleteRegistry"} => Ask[a].reg \in Registries
    /\ "none" \notin Registries /\ "none" \notin ProjectIds
    /\ Policies \cap ProjectIds = {} /\ Policies \cap Repos = {} /\ ProjectIds \cap Repos = {}

VARIABLES
    proj,     \* table project: st, reg, and its quota, metadata, retention policy
    registry, \* table registry: url and status, or NoRegistry
    policy,   \* table replication_policy: the registry of each, or "none"
    repo,     \* table repository: the project of each, or "none"
    ask,      \* the requests
    health,   \* the health check, per registry
    wrote,    \* history: the request that made each reference or repository
    lastUrl,  \* history: the url of the last update of each registry
    met       \* history: pairs of requests that ran at the same time

projectVars == <<proj, registry, policy, repo, ask, health, wrote, lastUrl, met>>

NoMeta == [public |-> "none", retention |-> "none"]
NoProject == [st |-> "none", reg |-> "none", quota |-> FALSE, meta |-> NoMeta, retention |-> FALSE]
NoRegistry == [url |-> "none", status |-> "none"]
Unchecked == [url |-> "unchecked", status |-> "none"]   \* no health check meanwhile

Idle == [pc |-> "idle", row |-> NoRegistry, has |-> "none"]
Over(pc) == [Idle EXCEPT !.pc = pc]
InFlight(a) == ask[a].pc \notin {"idle", "done", "failed"}

Live(p) == proj[p].st = "live"

ProjectInit ==
    /\ proj \in [ProjectIds -> {NoProject, [NoProject EXCEPT !.st = "live", !.quota = TRUE,
                                                             !.meta.public = "true"]}]
    /\ \A p, q \in ProjectIds : Live(p) /\ Live(q) => p = q
    /\ registry = [g \in Registries |-> [url |-> "first", status |-> "healthy"]]
    /\ policy = [k \in Policies |-> "none"]
    /\ repo = [x \in Repos |-> "none"]
    /\ ask \in [Asks -> {Idle, Over("failed")}]
    /\ health \in [Registries -> {NoRegistry, Unchecked}]
    /\ wrote = [x \in Policies \union ProjectIds \union Repos |-> "none"]
    /\ lastUrl = [g \in Registries |-> "first"]
    /\ met = {}

-----------------------------------------------------------------------------
(* Steps of a request.                                                     *)

MoveTo(a, q) == ask' = [ask EXCEPT ![a] = q]
Tables == <<proj, registry, policy, repo, health, wrote, lastUrl>>

Begin(a, op) ==
    /\ Ask[a].op = op /\ ask[a].pc = "idle"
    /\ met' = met \union {<<a, b>> : b \in {x \in Asks : InFlight(x)}}
                  \union {<<b, a>> : b \in {x \in Asks : InFlight(x)}}

Refuse(a) == MoveTo(a, Over("failed"))
Done(a) == MoveTo(a, Over("done"))

Found(g) == g = "none" \/ registry[g] # NoRegistry

-----------------------------------------------------------------------------
(* CreateProject.                                                          *)

\* validateProjectReq: the registry of a proxy cache is looked up.
ValidateProjectReq(a) ==
    /\ Begin(a, "createProject")
    /\ IF Found(Ask[a].reg) THEN MoveTo(a, [Idle EXCEPT !.pc = "insert"]) ELSE Refuse(a)
    /\ UNCHANGED Tables

\* The name is unique, that of a deleted project is changed; an insert waits
\* for another one of the same name.
InsertProject(a) ==
    /\ ask[a].pc = "insert" /\ Ask[a].op = "createProject"
    /\ \A b \in Asks \ {a} : ask[b].pc # "parts"
    /\ IF \E p \in ProjectIds : Live(p) THEN Refuse(a) ELSE MoveTo(a, [ask[a] EXCEPT !.pc = "parts"])
    /\ UNCHANGED <<Tables, met>>

NewProject(g) == [st |-> "live", reg |-> g, quota |-> TRUE, retention |-> g # "none",
                  meta |-> [public |-> "false", retention |-> IF g = "none" THEN "none" ELSE "own"]]

\* The allow list, the metadata, the quota and, for a proxy cache, the
\* retention policy follow; an error rolls all of it back.
CreateProject(a) ==
    /\ ask[a].pc = "parts"
    /\ \/ Refuse(a) /\ UNCHANGED <<proj, wrote>>
       \/ /\ Done(a)
          /\ proj' = [proj EXCEPT ![Ask[a].id] = NewProject(Ask[a].reg)]
          /\ wrote' = [wrote EXCEPT ![Ask[a].id] = a]
    /\ UNCHANGED <<registry, policy, repo, health, lastUrl, met>>

-----------------------------------------------------------------------------
(* UpdateProject, and the metadata of a project.                           *)

\* A retention_id in the request must be the one the project has.
UpdateProject(a) ==
    LET p == Ask[a].id IN
    /\ Begin(a, "updateProject")
    /\ IF Live(p) /\ (Ask[a].key = "retention" => proj[p].meta.retention = Ask[a].val)
       THEN MoveTo(a, [Idle EXCEPT !.pc = "meta"])
       ELSE Refuse(a)
    /\ UNCHANGED Tables

\* controller.Update: the keys there are decide between update and insert.
ReadMeta(a) ==
    /\ ask[a].pc = "meta"
    /\ MoveTo(a, [ask[a] EXCEPT !.pc = "write", !.has = proj[Ask[a].id].meta[Ask[a].key]])
    /\ UNCHANGED <<Tables, met>>

\* An insert of a key that has come meanwhile is a conflict, an update of
\* one that has gone changes nothing.
WriteMeta(a) ==
    LET now == proj[Ask[a].id].meta[Ask[a].key] IN
    /\ ask[a].pc = "write" /\ Ask[a].op = "updateProject"
    /\ IF ask[a].has = "none" /\ now # "none" THEN Refuse(a) /\ UNCHANGED proj
       ELSE /\ Done(a)
            /\ proj' = [proj EXCEPT ![Ask[a].id].meta[Ask[a].key] =
                          IF ask[a].has # "none" /\ now = "none" THEN now ELSE Ask[a].val]
    /\ UNCHANGED <<registry, policy, repo, health, wrote, lastUrl, met>>

\* AddProjectMetadatas takes the keys validate knows, retention_id is none.
AddProjectMetadatas(a) ==
    LET p == Ask[a].id IN
    /\ Begin(a, "addMeta")
    /\ IF Live(p) /\ Ask[a].key = "public" /\ proj[p].meta.public = "none"
       THEN Done(a) /\ proj' = [proj EXCEPT ![p].meta.public = Ask[a].val]
       ELSE Refuse(a) /\ UNCHANGED proj
    /\ UNCHANGED <<registry, policy, repo, health, wrote, lastUrl>>

\* DeleteProjectMetadata takes any key.
DeleteProjectMetadata(a) ==
    LET p == Ask[a].id IN
    /\ Begin(a, "delMeta")
    /\ IF Live(p) THEN Done(a) /\ proj' = [proj EXCEPT ![p].meta[Ask[a].key] = "none"]
       ELSE Refuse(a) /\ UNCHANGED proj
    /\ UNCHANGED <<registry, policy, repo, health, wrote, lastUrl>>

-----------------------------------------------------------------------------
(* DeleteProject.                                                          *)

\* deletable: repositories of the project are counted.
Deletable(a) ==
    LET p == Ask[a].id IN
    /\ Begin(a, "deleteProject")
    /\ IF Live(p) /\ \A x \in Repos : repo[x] # p
       THEN MoveTo(a, [Idle EXCEPT !.pc = "mark"]) ELSE Refuse(a)
    /\ UNCHANGED Tables

\* The row is read again and then marked and renamed, which locks it.
MarkDeleted(a) ==
    /\ ask[a].pc = "mark"
    /\ \A b \in Asks \ {a} : ask[b].pc = "remove" => Ask[b].id # Ask[a].id
    /\ IF Live(Ask[a].id) THEN MoveTo(a, [ask[a] EXCEPT !.pc = "remove"]) ELSE Refuse(a)
    /\ UNCHANGED <<Tables, met>>

\* The quota goes; metadata and retention policy stay.
DeleteProject(a) ==
    /\ ask[a].pc = "remove" /\ Done(a)
    /\ proj' = [proj EXCEPT ![Ask[a].id] = [@ EXCEPT !.st = "deleted", !.quota = FALSE]]
    /\ UNCHANGED <<registry, policy, repo, health, wrote, lastUrl, met>>

-----------------------------------------------------------------------------
(* Repositories: Ensure by a push, and Delete.                             *)

GetByName(a) ==
    /\ Begin(a, "push")
    /\ IF repo[Ask[a].id] # "none" THEN Done(a) ELSE MoveTo(a, [Idle EXCEPT !.pc = "project"])
    /\ UNCHANGED Tables

ProjectOfRepo(a) ==
    /\ ask[a].pc = "project"
    /\ IF \E p \in ProjectIds : Live(p)
       THEN MoveTo(a, [ask[a] EXCEPT !.pc = "insert", !.has = CHOOSE p \in ProjectIds : Live(p)])
       ELSE Refuse(a)
    /\ UNCHANGED <<Tables, met>>

\* A conflict is none: the repository is there.
Ensure(a) ==
    LET x == Ask[a].id IN
    /\ ask[a].pc = "insert" /\ Ask[a].op = "push" /\ Done(a)
    /\ IF repo[x] # "none" THEN UNCHANGED <<repo, wrote>>
       ELSE /\ repo' = [repo EXCEPT ![x] = ask[a].has]
            /\ wrote' = [wrote EXCEPT ![x] = a]
    /\ UNCHANGED <<proj, registry, policy, health, lastUrl, met>>

DeleteRepository(a) ==
    LET x == Ask[a].id IN
    /\ Begin(a, "delRepo")
    /\ IF repo[x] = "none" THEN Refuse(a) /\ UNCHANGED repo
       ELSE Done(a) /\ repo' = [repo EXCEPT ![x] = "none"]
    /\ UNCHANGED <<proj, registry, policy, health, wrote, lastUrl>>

-----------------------------------------------------------------------------
(* Replication policies.                                                   *)

\* validatePolicy, of a creation and of an update.
ValidatePolicy(a) ==
    /\ Begin(a, "createPolicy") \/ Begin(a, "updatePolicy")
    /\ IF Found(Ask[a].reg) THEN MoveTo(a, [Idle EXCEPT !.pc = "policy"]) ELSE Refuse(a)
    /\ UNCHANGED Tables

CreatePolicy(a) ==
    /\ ask[a].pc = "policy" /\ Ask[a].op = "createPolicy"
    /\ IF policy[Ask[a].id] # "none" THEN Refuse(a) /\ UNCHANGED <<policy, wrote>>
       ELSE /\ Done(a) /\ policy' = [policy EXCEPT ![Ask[a].id] = Ask[a].reg]
            /\ wrote' = [wrote EXCEPT ![Ask[a].id] = a]
    /\ UNCHANGED <<proj, registry, repo, health, lastUrl, met>>

UpdatePolicy(a) ==
    /\ ask[a].pc = "policy" /\ Ask[a].op = "updatePolicy"
    /\ IF policy[Ask[a].id] = "none" THEN Refuse(a) /\ UNCHANGED <<policy, wrote>>
       ELSE /\ Done(a) /\ policy' = [policy EXCEPT ![Ask[a].id] = Ask[a].reg]
            /\ wrote' = [wrote EXCEPT ![Ask[a].id] = a]
    /\ UNCHANGED <<proj, registry, repo, health, lastUrl, met>>

DeletePolicy(a) ==
    /\ Begin(a, "deletePolicy")
    /\ IF policy[Ask[a].id] = "none" THEN Refuse(a) /\ UNCHANGED policy
       ELSE Done(a) /\ policy' = [policy EXCEPT ![Ask[a].id] = "none"]
    /\ UNCHANGED <<proj, registry, repo, health, wrote, lastUrl>>

-----------------------------------------------------------------------------
(* Registries.                                                             *)

CountPolicies(a) ==
    /\ Begin(a, "deleteRegistry")
    /\ IF \E k \in Policies : policy[k] = Ask[a].reg
       THEN Refuse(a) ELSE MoveTo(a, [Idle EXCEPT !.pc = "projects"])
    /\ UNCHANGED Tables

\* Mutant: proxy cache projects are not counted.
CountNoProjects(a) ==
    /\ ask[a].pc = "projects" /\ MoveTo(a, [ask[a] EXCEPT !.pc = "delete"])
    /\ UNCHANGED <<Tables, met>>

CountProjects(a) ==
    /\ ask[a].pc = "projects"
    /\ IF \E p \in ProjectIds : Live(p) /\ proj[p].reg = Ask[a].reg
       THEN Refuse(a) ELSE MoveTo(a, [ask[a] EXCEPT !.pc = "delete"])
    /\ UNCHANGED <<Tables, met>>

DeleteRegistry(a) ==
    LET g == Ask[a].reg IN
    /\ ask[a].pc = "delete"
    /\ IF registry[g] = NoRegistry THEN Refuse(a) /\ UNCHANGED registry
       ELSE Done(a) /\ registry' = [registry EXCEPT ![g] = NoRegistry]
    /\ UNCHANGED <<proj, policy, repo, health, wrote, lastUrl, met>>

\* UpdateRegistry reads the row, and asks the registry whether it is well.
UpdateRegistry(a) ==
    LET g == Ask[a].reg IN
    /\ Begin(a, "updateRegistry")
    /\ \/ /\ registry[g] # NoRegistry
          /\ MoveTo(a, [Idle EXCEPT !.pc = "write", !.row = [url |-> Ask[a].val, status |-> "healthy"]])
       \/ Refuse(a)
    /\ UNCHANGED Tables

WriteRegistry(a) ==
    LET g == Ask[a].reg IN
    /\ ask[a].pc = "write" /\ Ask[a].op = "updateRegistry"
    /\ IF registry[g] = NoRegistry THEN Refuse(a) /\ UNCHANGED <<registry, lastUrl>>
       ELSE /\ Done(a)
            /\ registry' = [registry EXCEPT ![g] = ask[a].row]
            /\ lastUrl' = [lastUrl EXCEPT ![g] = Ask[a].val]
    /\ UNCHANGED <<proj, policy, repo, health, wrote, met>>

\* The regular health check lists the rows, asks every registry, and stores
\* a status that has changed.
ListRegistries(g) ==
    /\ health[g] = NoRegistry /\ registry[g] # NoRegistry
    /\ health' = [health EXCEPT ![g] = registry[g]]
    /\ UNCHANGED <<proj, registry, policy, repo, ask, wrote, lastUrl, met>>

\* Update(ctx, registry, "Status").
StoreStatus(g, s) == [registry[g] EXCEPT !.status = s]

CheckHealth(g) ==
    /\ health[g] \notin {NoRegistry, Unchecked}
    /\ \E s \in {"healthy", "unhealthy", "error"} :
         registry' = [registry EXCEPT ![g] =
             IF registry[g] = NoRegistry \/ s = "error" \/ health[g].status = s THEN @
             ELSE StoreStatus(g, s)]
    /\ health' = [health EXCEPT ![g] = NoRegistry]
    /\ UNCHANGED <<proj, policy, repo, ask, wrote, lastUrl, met>>

-----------------------------------------------------------------------------
ProjectNext ==
    \/ \E a \in Asks :
         \/ ValidateProjectReq(a) \/ InsertProject(a) \/ CreateProject(a)
         \/ UpdateProject(a) \/ ReadMeta(a) \/ WriteMeta(a)
         \/ AddProjectMetadatas(a) \/ DeleteProjectMetadata(a)
         \/ Deletable(a) \/ MarkDeleted(a) \/ DeleteProject(a)
         \/ GetByName(a) \/ ProjectOfRepo(a) \/ Ensure(a) \/ DeleteRepository(a)
         \/ ValidatePolicy(a) \/ CreatePolicy(a) \/ UpdatePolicy(a) \/ DeletePolicy(a)
         \/ CountPolicies(a) \/ CountProjects(a) \/ DeleteRegistry(a)
         \/ UpdateRegistry(a) \/ WriteRegistry(a)
    \/ \E g \in Registries : ListRegistries(g) \/ CheckHealth(g)

ProjectSpec == ProjectInit /\ [][ProjectNext]_projectVars

-----------------------------------------------------------------------------
(* Properties.                                                             *)

\* At most one project of a name is live, it has its quota from the moment it
\* can be seen until it is deleted, and no longer: CreateProject and
\* DeleteProject write several tables in one transaction.
WholeProject ==
    /\ \A p, q \in ProjectIds : Live(p) /\ Live(q) => p = q
    /\ \A p \in ProjectIds : /\ proj[p].quota <=> Live(p)
                             /\ Live(p) /\ proj[p].reg # "none" => proj[p].retention

\* A project that has a retention_id has the one of its own policy, whatever
\* updates and deletions of metadata run at the same time.
RetentionTrue == \A p \in ProjectIds : proj[p].meta.retention \in {"none", "own"}

Raced(x, op, g) == \E b \in Asks : Ask[b].op = op /\ g \in {Ask[b].reg, Ask[b].id} /\ <<wrote[x], b>> \in met

\* The registry of a replication policy and of a proxy cache project is
\* there, unless it was deleted by a request that ran at the same time as the
\* one that refers to it: neither can see the other's work.  ListPolicies
\* fails for all policies when one of them has lost its registry.
RefsFound ==
    /\ \A k \in Policies : Found(policy[k]) \/ Raced(k, "deleteRegistry", policy[k])
    /\ \A p \in ProjectIds : Live(p) => Found(proj[p].reg) \/ Raced(p, "deleteRegistry", proj[p].reg)

\* A repository belongs to a live project, unless the push that made it and
\* the deletion of the project ran at the same time.
ReposOwned ==
    \A x \in Repos : repo[x] # "none" => Live(repo[x]) \/ Raced(x, "deleteProject", repo[x])

\* A registry has the url of the last update, the health check changes nothing
\* but the status although it works from a list that may be old.
UrlKept == \A g \in Registries : registry[g] # NoRegistry => registry[g].url = lastUrl[g]

\* Projects, registries, replication policies and repositories agree with
\* each other through requests that check first and write later.
ProjectsSound ==
    /\ WholeProject
    /\ RetentionTrue
    /\ RefsFound
    /\ ReposOwned
    /\ UrlKept
=============================================================================
