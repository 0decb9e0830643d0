------------------------------- MODULE Robots -------------------------------
(***************************************************************************)
(* Robot accounts: the row of a robot and the permissions granted to it    *)
(* are two tables that requests read, check and rewrite, each request in   *)
(* one transaction; the deletion of a project drops the rows of its        *)
(* robots, and a login reads both tables without a transaction.            *)
(*                                                                         *)
(* A project and the robots "in" it or of the system.  An update of a row  *)
(* locks it until the end of the transaction.  Legacy robots (version 1)   *)
(* have neither secret nor permissions.  Names stand for themselves, a     *)
(* secret is the request that made it.                                     *)
(***************************************************************************)
EXTENDS Integers, FiniteSets

CONSTANTS Robots,      \* identifiers
          Project,     \* the project
          Level,       \* of each robot: "system" or "project"
          Legacy,      \* robots made by version 1
          Requests,    \* requests, among them
          Want,        \* what each asks for: op, id, name, days, dis, perms
          DefaultDays  \* RobotTokenDuration

Creates == {"create", "createV1"}
RobotOps == Creates \union
            {"update", "refresh", "disable", "delete", "deleteV1", "dropProject", "login"}

ASSUME RobotAssumption ==
    /\ Legacy \subseteq Robots /\ DefaultDays \in Nat \ {0}
    /\ \A r \in Requests : /\ Want[r].op \in RobotOps /\ Want[r].id \in Robots
                          /\ Want[r].days \in Int /\ Want[r].dis \in BOOLEAN
                          /\ Want[r].perms \subseteq STRING \X STRING
    /\ \A r, s \in Requests : Want[r].op \in Creates /\ Want[s].op \in Creates /\ Want[r].id = Want[s].id => r = s
    /\ "none" \notin Requests

VARIABLES
    project, \* "live" or "deleted"
    robots,  \* table robot
    perm,    \* table role_permission joined with permission_policy
    rq,      \* the requests
    handed,  \* history: per robot, the secret that was last handed out
    crossed, \* history: robots written from a row that was out of date
    dropped  \* history: robots whose project was deleted or being deleted

robotVars == <<project, robots, perm, rq, handed, crossed, dropped>>

NoRobot == [name |-> "none", secret |-> "none", days |-> 0, expires |-> 0, disabled |-> FALSE]
Exists(i) == robots[i] # NoRobot

Scope(p) == p[1]
Access(p) == p[2]

\* Creation is at time 0; -1 never expires, 0 is the configured duration.
Days(d) == IF d = 0 THEN DefaultDays ELSE d
ExpiresAt(d) == IF d = -1 THEN -1 ELSE Days(d)

\* isValidDuration, isValidLevel, and what a robot of a project may be granted.
Validate(i, w) ==
    /\ w.days >= -1 /\ w.perms # {}
    /\ Level[i] = "project" => Cardinality({Scope(p) : p \in w.perms}) = 1

\* toScope: a project that is named must be there.
ToScopeFinds(perms) == \A p \in perms : Scope(p) = Project => project = "live"

NewRobot(r) == [name |-> Want[r].name, secret |-> r, days |-> Days(Want[r].days),
                expires |-> ExpiresAt(Want[r].days), disabled |-> FALSE]

IdleRequest == [pc |-> "idle", row |-> NoRobot, new |-> NoRobot, grants |-> {}, gone |-> {}]
Closed(pc) == [IdleRequest EXCEPT !.pc = pc]
Running(r) == rq[r].pc \notin {"idle", "done", "failed", "admitted"}

\* A row that was updated or deleted is locked until the end.
Holds(r, i) == \/ i \in rq[r].gone
               \/ Want[r].id = i /\ rq[r].pc \in {"unlink", "link", "commit", "drop"}
Locked(r, i) == \E s \in Requests \ {r} : Holds(s, i)

RobotInit ==
    /\ project = "live"
    /\ robots \in [Robots -> {NoRobot} \union
           [name : {"r", "s"}, secret : {"none", "first"}, days : {DefaultDays},
            expires : {DefaultDays}, disabled : {FALSE}]]
    /\ \A i \in Robots : Exists(i) => (robots[i].secret = "none" <=> i \in Legacy)
    /\ \A r \in Requests : Want[r].op \in Creates => ~Exists(Want[r].id)
    /\ perm = [i \in Robots |->
                 IF Exists(i) /\ i \notin Legacy THEN {<<Project, "pull">>} ELSE {}]
    /\ rq \in [Requests -> {IdleRequest, Closed("failed")}]
    /\ handed = [i \in Robots |-> robots[i].secret]
    /\ crossed = {} /\ dropped = {}

-----------------------------------------------------------------------------
(* Outcomes of a transaction.                                              *)

FailRobot(r) == /\ rq' = [rq EXCEPT ![r] = Closed("failed")]
                /\ UNCHANGED <<project, robots, perm, handed, crossed, dropped>>

GoTo(r, q) == /\ rq' = [rq EXCEPT ![r] = q]
              /\ UNCHANGED <<project, robots, perm, handed, crossed, dropped>>

\* The row and the permissions of robot i are committed together.
CommitRobot(r, new, grants) ==
    LET i == Want[r].id IN
    /\ robots' = [robots EXCEPT ![i] = new]
    /\ perm' = [perm EXCEPT ![i] = grants]
    /\ handed' = [handed EXCEPT ![i] = IF Want[r].op \in Creates \union {"refresh"} THEN r ELSE @]
    /\ crossed' = IF robots[i] # rq[r].row THEN crossed \union {i} ELSE crossed
    /\ dropped' = IF project = "deleted" /\ Level[i] = "project" THEN dropped \union {i} ELSE dropped
    /\ rq' = [rq EXCEPT ![r] = Closed("done")]
    /\ UNCHANGED project

-----------------------------------------------------------------------------
(* Creation.                                                               *)

\* Create: the project is looked up, then the row inserted; a robot of that
\* name must not be there.
CreateRobot(r) ==
    /\ Want[r].op = "create" /\ rq[r].pc = "idle"
    /\ IF Validate(Want[r].id, Want[r]) /\ (Level[Want[r].id] = "project" => project = "live")
       THEN GoTo(r, [IdleRequest EXCEPT !.pc = "insert", !.new = NewRobot(r)])
       ELSE FailRobot(r)

\* Version 1 grants permissions of the project in its path, for as long as
\* the configuration says.
CreateRobotV1(r) ==
    /\ Want[r].op = "createV1" /\ rq[r].pc = "idle"
    /\ IF project = "live" /\ Want[r].perms # {}
       THEN GoTo(r, [IdleRequest EXCEPT !.pc = "insert",
                        !.new = [NewRobot(r) EXCEPT !.days = Days(0), !.expires = ExpiresAt(0)]])
       ELSE FailRobot(r)

\* An insert waits for another one of the same name; identifiers are fresh.
InsertRobot(r) ==
    LET i == Want[r].id IN
    /\ rq[r].pc = "insert"
    /\ \A s \in Requests \ {r} :
         rq[s].pc \in {"link", "commit"} /\ Want[s].op \in Creates => rq[s].new.name # rq[r].new.name
    /\ IF \E j \in Robots : Exists(j) /\ Level[j] = Level[i] /\ robots[j].name = rq[r].new.name
       THEN FailRobot(r)
       ELSE GoTo(r, [rq[r] EXCEPT !.pc = "link"])

\* createPermission, of a creation and of an update.
CreatePermission(r) ==
    /\ rq[r].pc = "link"
    /\ IF ToScopeFinds(Want[r].perms)
       THEN GoTo(r, [rq[r] EXCEPT !.pc = "commit", !.grants = Want[r].perms])
       ELSE FailRobot(r)

-----------------------------------------------------------------------------
(* Updates: of everything by UpdateRobot, of the secret by RefreshSec, of   *)
(* the flag by UpdateRobotV1.  Each writes all five columns of a row it     *)
(* has read.                                                               *)

Editable(row) == row.secret # "none"

\* The row with what UpdateRobot changes; the expiry only with the duration.
UpdateV2(row, w) ==
    [row EXCEPT !.days = IF w.days # @ THEN Days(w.days) ELSE @,
                !.expires = IF w.days # row.days THEN ExpiresAt(w.days) ELSE @,
                !.disabled = w.dis]

UpdateRobot(r) ==
    LET w == Want[r]
        row == robots[w.id]
    IN  /\ w.op = "update" /\ rq[r].pc = "idle"
        /\ IF Exists(w.id) /\ Editable(row) /\ Validate(w.id, w) /\ row.name = w.name
              /\ (Level[w.id] = "project" => project = "live" /\ ToScopeFinds(w.perms))
           THEN GoTo(r, [IdleRequest EXCEPT !.pc = "write", !.row = row, !.new = UpdateV2(row, w)])
           ELSE FailRobot(r)

RefreshSec(r) ==
    LET row == robots[Want[r].id] IN
    /\ Want[r].op = "refresh" /\ rq[r].pc = "idle"
    /\ IF Exists(Want[r].id)
       THEN GoTo(r, [IdleRequest EXCEPT !.pc = "write", !.row = row, !.new = [row EXCEPT !.secret = r]])
       ELSE FailRobot(r)

UpdateRobotV1(r) ==
    LET row == robots[Want[r].id] IN
    /\ Want[r].op = "disable" /\ rq[r].pc = "idle"
    /\ IF Exists(Want[r].id) /\ project = "live"
       THEN GoTo(r, [IdleRequest EXCEPT !.pc = "write", !.row = row,
                                        !.new = [row EXCEPT !.disabled = Want[r].dis]])
       ELSE FailRobot(r)

\* Mutant: an update of a row that is gone is no error.
WriteRobotUnchecked(r) ==
    LET i == Want[r].id IN
    /\ rq[r].pc = "write" /\ ~Locked(r, i)
    /\ GoTo(r, [rq[r] EXCEPT !.pc = IF Want[r].op = "update" THEN "link" ELSE "commit",
                             !.grants = perm[i]])

\* The update waits for the row, which must still be there.
WriteRobot(r) ==
    LET i == Want[r].id IN
    /\ rq[r].pc = "write" /\ ~Locked(r, i)
    /\ IF ~Exists(i) THEN FailRobot(r)
       ELSE GoTo(r, [rq[r] EXCEPT !.pc = IF Want[r].op = "update" THEN "unlink" ELSE "commit",
                                  !.grants = perm[i]])

\* DeletePermissionsByRole: it is an error to find none.
DeletePermissionsByRole(r) ==
    LET i == Want[r].id IN
    /\ rq[r].pc = "unlink"
    /\ IF perm[i] # {} THEN GoTo(r, [rq[r] EXCEPT !.pc = "link"]) ELSE FailRobot(r)

Commit(r) ==
    /\ rq[r].pc = "commit"
    /\ CommitRobot(r, rq[r].new, rq[r].grants)

-----------------------------------------------------------------------------
(* Deletion of a robot, and of the project.                                *)

DeleteRobot(r) ==
    /\ Want[r].op = "delete" /\ rq[r].pc = "idle"
    /\ IF Exists(Want[r].id)
       THEN GoTo(r, [IdleRequest EXCEPT !.pc = "erase", !.row = robots[Want[r].id]])
       ELSE FailRobot(r)

DeleteRobotV1(r) ==
    /\ Want[r].op = "deleteV1" /\ rq[r].pc = "idle"
    /\ IF Exists(Want[r].id) /\ project = "live"
       THEN GoTo(r, [IdleRequest EXCEPT !.pc = "erase", !.row = robots[Want[r].id]])
       ELSE FailRobot(r)

\* The row goes first.  Version 1 takes any robot that is not found for
\* deleted, and so does version 2 for a legacy robot: what the transaction
\* has done by then is committed.
EraseRobot(r) ==
    LET i == Want[r].id IN
    /\ rq[r].pc = "erase" /\ ~Locked(r, i)
    /\ LET tolerant == Want[r].op = "deleteV1" \/ ~Editable(rq[r].row) IN
       IF ~Exists(i) THEN (IF tolerant THEN GoTo(r, Closed("done")) ELSE FailRobot(r))
       ELSE IF perm[i] = {} /\ ~tolerant THEN FailRobot(r)
       ELSE GoTo(r, [rq[r] EXCEPT !.pc = "drop"])

CommitDelete(r) == /\ rq[r].pc = "drop"
                   /\ CommitRobot(r, NoRobot, {})

DropProject(r) ==
    /\ Want[r].op = "dropProject" /\ rq[r].pc = "idle"
    /\ IF project = "live" THEN GoTo(r, [IdleRequest EXCEPT !.pc = "mark"]) ELSE FailRobot(r)

\* DeleteByProjectID deletes the committed rows, and waits for each of them;
\* permissions stay behind.
DeleteByProjectID(r) ==
    LET mine == {i \in Robots : Level[i] = "project" /\ Exists(i)} IN
    /\ rq[r].pc = "mark" /\ \A i \in mine : ~Locked(r, i)
    /\ GoTo(r, [rq[r] EXCEPT !.pc = "dropProject", !.gone = mine])

CommitProject(r) ==
    /\ rq[r].pc = "dropProject"
    /\ project' = "deleted"
    /\ robots' = [i \in Robots |-> IF i \in rq[r].gone THEN NoRobot ELSE robots[i]]
    /\ dropped' = dropped \union {i \in Robots : Level[i] = "project" /\ Exists(i)}
    /\ rq' = [rq EXCEPT ![r] = Closed("done")]
    /\ UNCHANGED <<perm, handed, crossed>>

-----------------------------------------------------------------------------
(* A login by name: the row, which may have expired, then the permissions.  *)

LoginRow(r) ==
    LET row == robots[Want[r].id] IN
    /\ Want[r].op = "login" /\ rq[r].pc = "idle"
    /\ \/ /\ Exists(Want[r].id) /\ ~row.disabled /\ Editable(row)
          /\ GoTo(r, [IdleRequest EXCEPT !.pc = "permissions", !.row = row])
       \/ /\ Exists(Want[r].id) /\ ~row.disabled /\ Editable(row) => row.expires # -1
          /\ FailRobot(r)

\* convertScope: a project that is gone is not found.
ConvertScopeFinds(p) == Scope(p) = Project => project = "live"

\* populatePermissions: those of projects that are gone are skipped.
PopulatePermissions(r) ==
    /\ rq[r].pc = "permissions"
    /\ GoTo(r, [rq[r] EXCEPT !.pc = "admitted",
                !.grants = {p \in perm[Want[r].id] : ConvertScopeFinds(p)}])

\* filterRobotPolicies: a push includes a pull.
FilterRobotPolicies(g) == g \union {<<Scope(p), "pull">> : p \in {x \in g : Access(x) = "push"}}

\* Can: a system robot with any permission of the system uses only those.
Can(r, p) ==
    /\ rq[r].pc = "admitted"
    /\ LET g == rq[r].grants
           sys == {x \in g : Scope(x) = "system"}
       IN  IF Level[Want[r].id] = "project" THEN p \in FilterRobotPolicies(g)
           ELSE p \in (IF sys # {} THEN sys ELSE g)

-----------------------------------------------------------------------------
RobotNext == \E r \in Requests :
    \/ CreateRobot(r) \/ CreateRobotV1(r) \/ InsertRobot(r) \/ CreatePermission(r)
    \/ UpdateRobot(r) \/ RefreshSec(r) \/ UpdateRobotV1(r) \/ WriteRobot(r)
    \/ DeletePermissionsByRole(r) \/ Commit(r)
    \/ DeleteRobot(r) \/ DeleteRobotV1(r) \/ EraseRobot(r) \/ CommitDelete(r)
    \/ DropProject(r) \/ DeleteByProjectID(r) \/ CommitProject(r)
    \/ LoginRow(r) \/ PopulatePermissions(r)

RobotSpec == RobotInit /\ [][RobotNext]_robotVars

-----------------------------------------------------------------------------
(* Properties.                                                             *)

Asked == {Want[r].perms : r \in Requests} \union {{<<Project, "pull">>}}

\* Rows are well formed, and the expiry of a robot is always that of its
\* duration, whichever of the three updates wrote the row last.
RobotTypeOK ==
    /\ project \in {"live", "deleted"} /\ crossed \subseteq Robots /\ dropped \subseteq Robots
    /\ \A i \in Robots : Exists(i) => /\ robots[i].days # 0
                                      /\ robots[i].expires = ExpiresAt(robots[i].days)

\* The permissions of a robot are those of one request, never a mixture of
\* two, and there are some: DeletePermissionsByRole refuses to update or to
\* delete a robot that has none.
GrantsWhole ==
    \A i \in Robots : Exists(i) /\ i \notin Legacy => perm[i] \in Asked \ {{}}

\* Permissions without a robot are left only by the deletion of a project,
\* which does not look at them.
GrantsGone == \A i \in Robots : ~Exists(i) /\ perm[i] # {} => i \in dropped

\* A secret that was handed out is the one the robot has, until the next one
\* is handed out, unless an update wrote back a row it had read before.
SecretKept == \A i \in Robots : Exists(i) => robots[i].secret = handed[i] \/ i \in crossed

\* What an admitted robot can do was granted to it by a single request,
\* although the row and the permissions are read separately.
CanOnlyGranted ==
    \A r \in Requests : rq[r].pc = "admitted" =>
        \E g \in Asked \union {{}} : \A p \in UNION Asked : Can(r, p) =>
            \/ p \in g
            \/ Level[Want[r].id] = "project" /\ Access(p) = "pull" /\ <<Scope(p), "push">> \in g

\* A robot stays what its requests made it, through updates, refreshes,
\* deletions and logins at once: row, permissions and secret together.
RobotsSound ==
    /\ RobotTypeOK
    /\ GrantsWhole
    /\ GrantsGone
    /\ SecretKept
    /\ CanOnlyGranted
=============================================================================
