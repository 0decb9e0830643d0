------------------------------- MODULE Access -------------------------------
(***************************************************************************)
(* Who may do what: members and their roles, the evaluators that answer    *)
(* whether a request is allowed, and the tokens for the registry.  A call  *)
(* puts its questions one after the other; the evaluator of a project      *)
(* reads the project and the roles of the user in separate queries and is  *)
(* kept for the rest of the call.  The call then does its work.            *)
(***************************************************************************)
EXTENDS Naturals, Sequences, FiniteSets, TLC

CONSTANTS Folk,       \* users; "nobody" is a request without an identity
          SysAdmins,  \* users with the administrator flag
          GroupsOf,   \* the groups each user belongs to, from the log in
          Names,      \* project names
          Calls

ASSUME FolkAssumption == SysAdmins \subseteq Folk \ {"nobody"}

VARIABLES
    projRow,     \* table project: [id, public] for a name, id 0 when there is none
    member,   \* table project_member: [id, pid, who, role]
    groups,   \* table user_group
    call,     \* the calls
    serialNo, \* the number of the next row
    held      \* history: what the caller was entitled to at some time of its call

accessVars == <<projRow, member, groups, call, serialNo, held>>
rows == <<projRow, member, groups, serialNo>>

---------------------------------------------------------------------------
(* Roles.                                                                  *)

On(resource, actions) == {resource} \X actions
Each(resources, actions) == resources \X actions

CRUD == {"create", "read", "update", "delete"}
CRUDL == CRUD \union {"list"}

limitedGuest ==
    Each({"self", "quota", "configuration", "scan", "scanner", "artifact", "addition"}, {"read"})
      \union Each({"repository", "tag", "accessory", "artifact"}, {"list"}) \union On("repository", {"pull"})

guest ==
    Each({"self", "member", "label", "quota", "repository", "configuration", "robot", "scan", "scanner", "artifact", "addition"}, {"read"})
      \union Each({"member", "log", "label", "repository", "robot", "tag", "accessory", "artifact"}, {"list"})
      \union On("repository", {"pull"})

developer ==
    Each({"self", "member", "label", "quota", "repository", "configuration", "robot", "scan", "scanner", "artifact", "addition"}, {"read"})
      \union Each({"member", "log", "label", "repository", "robot", "tag", "accessory", "artifact"}, {"list"})
      \union Each({"repository", "artifact", "tag"}, {"create"}) \union On("repository", {"update", "push", "pull"})
      \union On("retention", CRUDL \union {"operate"}) \union On("artifactLabel", {"create", "delete"})
      \union On("export", {"create", "read", "list"})

maintainer ==
    Each({"self", "quota", "configuration", "scanner", "addition"}, {"read"}) \union Each({"member", "robot"}, {"read", "list"})
      \union On("metadata", CRUD) \union Each({"log", "accessory", "notification"}, {"list"})
      \union Each({"label", "repository", "retention"}, CRUDL) \union On("repository", {"push", "pull"}) \union On("retention", {"operate"})
      \union On("immutable", CRUDL \ {"read"}) \union On("scan", {"create", "read", "stop"})
      \union On("artifact", CRUDL \ {"update"}) \union On("tag", {"list", "create", "delete"})
      \union On("artifactLabel", {"create", "delete"}) \union On("export", {"create", "read", "list"})

projectAdmin ==
    On("self", {"read", "update", "delete"}) \union On("metadata", CRUD) \union Each({"log", "accessory"}, {"list"})
      \union Each({"member", "label", "repository", "retention", "robot", "notification", "preheat"}, CRUDL)
      \union On("repository", {"push", "pull"}) \union On("retention", {"operate"}) \union Each({"quota", "addition"}, {"read"})
      \union On("immutable", CRUDL \ {"read"}) \union On("configuration", {"read", "update"})
      \union On("scan", {"create", "read", "stop"}) \union On("scanner", {"read", "create"})
      \union On("artifact", CRUDL \ {"update"}) \union On("tag", {"list", "create", "delete"})
      \union On("artifactLabel", {"create", "delete"}) \union On("export", {"create", "read", "list"})

\* What everybody may do in a public project.
publicProjectPolicies ==
    Each({"self", "label", "scan", "scanner", "artifact", "addition"}, {"read"})
      \union Each({"label", "repository", "tag", "artifact", "accessory"}, {"list"}) \union On("repository", {"pull"})

RolesInOrder == <<"limitedGuest", "guest", "developer", "maintainer", "projectAdmin">>

\* A role that is not one of the five has no name and no policies.
GetPolicies(role) ==
    CASE role = "limitedGuest" -> limitedGuest [] role = "guest" -> guest [] role = "developer" -> developer
      [] role = "maintainer" -> maintainer [] role = "projectAdmin" -> projectAdmin [] OTHER -> {}

isValidRole(role) == \E i \in 1..5 : RolesInOrder[i] = role

---------------------------------------------------------------------------
(* A call: who makes it and how it was identified; the questions it puts,  *)
(* each the permissions it wants in a project; what it does when it gets   *)
(* them; and what it has found out.                                        *)

Unheard == [pc |-> "new", asked |-> 0, pid |-> 0, cache |-> <<>>, yes |-> {}, no |-> {}, found |-> 0, access |-> <<>>, fresh |-> TRUE]
Request(kind, who, op, questions, target) ==
    [kind |-> kind, who |-> who, op |-> op, questions |-> questions, target |-> target] @@ Unheard

NoUser == [public |-> FALSE, roles |-> {}, nil |-> TRUE]
IdOf(n) == IF n \in Names THEN projRow[n].id ELSE 0
NameOf(pid) == {n \in Names : pid # 0 /\ projRow[n].id = pid}
Question(c) == call[c].questions[call[c].asked + 1]
Asking(c) == call[c].asked < Len(call[c].questions)

\* ListRoles: the roles of the user and of the groups in its session.
ListRoles(who, pid) ==
    {m.role : m \in {m \in member : m.pid = pid /\ (m.who = <<"u", who>> \/ \E g \in GroupsOf[who] : m.who = <<"g", g>>)}}

\* The policies of an rbacUser itself, and the lines of its roles.
UserPolicies(u) == IF u.public THEN publicProjectPolicies ELSE {}
PolicyLines(u) == UserPolicies(u) \union UNION {GetPolicies(r) : r \in u.roles}

\* The enforcer: no line denies anything, so one that allows is enough.
Enforced(u, perms) == perms \cap PolicyLines(u)

\* The cache of a call has one entry for a project.
CacheNoProject(pid) == 0
EvaluatorKey(pid) == pid

Cached(c) == EvaluatorKey(call[c].pid) \in DOMAIN call[c].cache

---------------------------------------------------------------------------
(* Security contexts that need no evaluator.                               *)

IsSysAdmin(c) == call[c].kind = "local" /\ call[c].who \in SysAdmins
IsAuthenticated(c) == call[c].kind # "local" \/ call[c].who # "nobody"

\* v2token.New: a later entry for a project replaces an earlier one.
AccessMap(entries, n) ==
    LET mine == {i \in DOMAIN entries : entries[i].type = "repository" /\ entries[i].name = n}
        last == CHOOSE i \in mine : \A j \in mine : j <= i
        acts == entries[last].acts
    IN IF mine = {} THEN {} ELSE (acts \ {"*"}) \union IF "*" \in acts THEN {"pull", "push", "delete"} ELSE {}

TokenCan(c, perm) ==
    /\ perm[1] = "repository"
    /\ \E n \in NameOf(call[c].pid) : perm[2] \in AccessMap(call[c].access, n)

ProxyCan(c, perm) == perm[2] \in {"pull", "push"} /\ call[c].target \in NameOf(call[c].pid)

\* The secret of the job service or of core opens everything.
SecretCan(c, perm) == call[c].kind = "secret"

AdminCan(c, perm) == IsSysAdmin(c) /\ perm[2] # "scanner-pull"

\* The permissions a context grants without reading roles.
Immediate(c) ==
    {perm \in Question(c)[2] :
        \/ SecretCan(c, perm)
        \/ AdminCan(c, perm)
        \/ call[c].kind = "proxy" /\ ProxyCan(c, perm)
        \/ call[c].kind = "token" /\ TokenCan(c, perm)}

\* The evaluator of a project is not asked about a resource of the system.
OfProject(c) == Question(c)[1] # "system"
NeedsRoles(c) == call[c].kind = "local" /\ OfProject(c) /\ Immediate(c) # Question(c)[2]

\* What the caller of c is entitled to now, of what it asks for.
Entitled(who, pid, perm) ==
    \/ perm \in publicProjectPolicies /\ \E n \in NameOf(pid) : projRow[n].public
    \/ \E m \in member : /\ m.pid = pid /\ perm \in GetPolicies(m.role)
                         /\ m.who \in {<<"u", who>>} \union ({"g"} \X GroupsOf[who])

Rights(c) ==
    UNION {LET qu == call[c].questions[i]
           IN {<<IdOf(qu[1]), perm>> : perm \in {perm \in qu[2] : Entitled(call[c].who, IdOf(qu[1]), perm)}}
           : i \in DOMAIN call[c].questions}

Watched(c) == call[c].kind = "local" /\ call[c].who \notin SysAdmins
Unasked(c) == call[c].pc = "new" /\ call[c].asked = 0

Remember ==
    held' = [c \in Calls |-> IF ~Watched(c) \/ call[c].pc = "over" THEN held[c]
                             ELSE IF Unasked(c)' THEN Rights(c)' ELSE held[c] \union Rights(c)']

---------------------------------------------------------------------------
(* Putting a question.                                                     *)

Step(c, x) == call' = [call EXCEPT ![c] = x]
Finish(c) == Step(c, [call[c] EXCEPT !.pc = "over"])

\* RequireSystemAccess wants an identity first.
Unidentified(c) == ~OfProject(c) /\ ~IsAuthenticated(c)

\* HasProjectPermission: the name is looked up; a project that is not there
\* has number 0.
PutQuestion(c) ==
    /\ call[c].pc = "new" /\ Asking(c)
    /\ IF Unidentified(c) THEN Finish(c)
       ELSE Step(c, [call[c] EXCEPT !.pc = "asked", !.pid = IdOf(Question(c)[1])])
    /\ UNCHANGED rows /\ Remember

\* RequireProjectAccess: a call that is refused ends; the token service goes on.
Answered(c, allowed) ==
    LET said(perms) == {<<call[c].asked + 1, call[c].pid, perm>> : perm \in perms}
        all == allowed = Question(c)[2]
    IN [call[c] EXCEPT !.asked = @ + 1, !.yes = @ \union said(allowed), !.no = @ \union said(Question(c)[2] \ allowed),
                       !.pc = IF all \/ call[c].op = "issue" THEN "new" ELSE "over"]

\* Evaluators.HasPermission without the evaluator of a project.
Decide(c) ==
    /\ call[c].pc = "asked" /\ ~NeedsRoles(c)
    /\ Step(c, Answered(c, Immediate(c)))
    /\ UNCHANGED rows /\ Remember

Keep(c, u, pc) ==
    Step(c, [call[c] EXCEPT !.pc = pc, !.cache = (EvaluatorKey(call[c].pid) :> u) @@ @])

\* NewEvaluator: the project first; an error leaves an evaluator that refuses.
ReadProject(c) ==
    /\ call[c].pc = "asked" /\ NeedsRoles(c) /\ ~Cached(c)
    /\ IF NameOf(call[c].pid) = {} THEN Keep(c, NoUser, "asked")
       ELSE Keep(c, [NoUser EXCEPT !.public = \E n \in NameOf(call[c].pid) : projRow[n].public, !.nil = FALSE],
                 IF call[c].who = "nobody" THEN "asked" ELSE "roles")
    /\ UNCHANGED rows /\ Remember

\* NewBuilderForUser: then the roles; if the query fails there is no user.
ReadRoles(c) ==
    /\ call[c].pc = "roles"
    /\ \/ Keep(c, [call[c].cache[EvaluatorKey(call[c].pid)] EXCEPT !.roles = ListRoles(call[c].who, call[c].pid)], "asked")
       \/ Keep(c, NoUser, "asked")
    /\ UNCHANGED rows /\ Remember

HasPermission(c) ==
    /\ call[c].pc = "asked" /\ NeedsRoles(c) /\ Cached(c)
    /\ LET u == call[c].cache[EvaluatorKey(call[c].pid)]
       IN Step(c, Answered(c, Immediate(c) \union IF u.nil THEN {} ELSE Enforced(u, Question(c)[2])))
    /\ UNCHANGED rows /\ Remember

---------------------------------------------------------------------------
(* What a call does when it may.                                           *)

Granted(c, op) == call[c].pc = "new" /\ ~Asking(c) /\ call[c].op = op
Pid(c) == IdOf(call[c].target[1])
Write(m) == member' = m /\ UNCHANGED <<projRow, groups>>

ReadOnly(c) ==
    /\ Granted(c, "read") /\ Finish(c)
    /\ UNCHANGED rows /\ Remember

\* controller/member Create: project, user or group, duplicates, role.
CheckMember(c) ==
    LET who == call[c].target[2]
        ok == /\ Pid(c) # 0
              /\ who[1] = "g" => who[2] \in groups
              /\ ~\E m \in member : m.pid = Pid(c) /\ m.who = who
              /\ isValidRole(call[c].target[3])
    IN /\ Granted(c, "add")
       /\ Step(c, [call[c] EXCEPT !.pc = IF ok THEN "adding" ELSE "over", !.found = Pid(c)])
       /\ UNCHANGED rows /\ Remember

\* AddProjectMember deletes the row of the entity before it inserts one; the
\* foreign key refuses the row of a project that has gone.
AddProjectMember(pid, who, role) ==
    {m \in member : m.pid # pid \/ m.who # who} \union {[id |-> serialNo, pid |-> pid, who |-> who, role |-> role]}

CreateProjectMember(c) ==
    /\ call[c].pc = "adding"
    /\ IF NameOf(call[c].found) = {} THEN UNCHANGED rows
       ELSE Write(AddProjectMember(call[c].found, call[c].target[2], call[c].target[3])) /\ serialNo' = serialNo + 1
    /\ Finish(c) /\ Remember

\* Both by the number of the row, within the project; any role is taken.
WithRole(pid, id, role) == {IF m.pid = pid /\ m.id = id THEN [m EXCEPT !.role = role] ELSE m : m \in member}
WithoutRow(pid, id) == {m \in member : m.pid # pid \/ m.id # id}

UpdateProjectMember(c) ==
    /\ Granted(c, "role")
    /\ Write(WithRole(Pid(c), call[c].target[2], call[c].target[3]))
    /\ Finish(c) /\ UNCHANGED serialNo /\ Remember

DeleteProjectMember(c) ==
    /\ Granted(c, "remove")
    /\ Write(WithoutRow(Pid(c), call[c].target[2]))
    /\ Finish(c) /\ UNCHANGED serialNo /\ Remember

\* The group goes with its rows in all projects.
WithoutGroup(g) == {m \in member : m.who # <<"g", g>>}

DeleteUserGroup(c) ==
    /\ Granted(c, "ungroup")
    /\ groups' = groups \ {call[c].target[2]}
    /\ member' = WithoutGroup(call[c].target[2])
    /\ Finish(c) /\ UNCHANGED <<projRow, serialNo>> /\ Remember

SetPublic(c) ==
    /\ Granted(c, "publish")
    /\ projRow' = [projRow EXCEPT ![call[c].target[1]].public = ~@ /\ Pid(c) # 0]
    /\ Finish(c) /\ UNCHANGED <<member, groups, serialNo>> /\ Remember

\* A deleted project gives its name free; its members stay without a project.
LoseProject(c) ==
    /\ Granted(c, "drop")
    /\ projRow' = [projRow EXCEPT ![call[c].target[1]] = [id |-> 0, public |-> FALSE]]
    /\ Finish(c) /\ UNCHANGED <<member, groups, serialNo>> /\ Remember

\* dao.Create: the project and its owner as its administrator.
FoundProject(c) ==
    LET n == call[c].target[1] IN
    /\ Granted(c, "found")
    /\ IF projRow[n].id # 0 THEN UNCHANGED rows
       ELSE /\ projRow' = [projRow EXCEPT ![n] = [id |-> serialNo, public |-> FALSE]]
            /\ member' = member \union {[id |-> serialNo, pid |-> serialNo, who |-> <<"u", call[c].who>>, role |-> "projectAdmin"]}
            /\ serialNo' = serialNo + 1 /\ UNCHANGED groups
    /\ Finish(c) /\ Remember

---------------------------------------------------------------------------
(* Tokens.                                                                 *)

\* resourceScopes: the actions allowed, and "*" for the first three together.
Scopes(acts) == acts \union IF {"pull", "push", "delete"} \subseteq acts THEN {"*"} ELSE {}

\* The filters: what the subject may do in the project of a repository, and
\* the catalogue for administrators.
RepositoryActs(c, i) == Scopes({y[3][2] : y \in {y \in call[c].yes : y[1] = i /\ y[2] # 0}})
CatalogActs(c) == IF IsSysAdmin(c) THEN {"*"} ELSE {}

\* filterAccess: a type without a filter gets nothing.
Filtered(c, i) ==
    LET scope == call[c].target[i]
    IN [type |-> scope[1], name |-> scope[2],
        acts |-> CASE scope[1] = "repository" -> RepositoryActs(c, i)
                   [] scope = <<"registry", "catalog">> -> CatalogActs(c)
                   [] OTHER -> {}]

\* Create: somebody without an identity has to name a scope.
TokenAccess(c) ==
    IF ~IsAuthenticated(c) /\ call[c].target = <<>> THEN <<>> ELSE [i \in DOMAIN call[c].target |-> Filtered(c, i)]

MakeToken(c) ==
    /\ Granted(c, "issue")
    /\ Step(c, [call[c] EXCEPT !.pc = "over", !.access = TokenAccess(c)])
    /\ UNCHANGED rows /\ Remember

\* The token's time runs out.
Expire(c) ==
    /\ call[c].op = "issue" /\ call[c].pc = "over" /\ call[c].fresh
    /\ Step(c, [call[c] EXCEPT !.fresh = FALSE])
    /\ UNCHANGED <<rows, held>>

\* v2Token.Generate: a request with the token of another call.  Without a
\* valid token it has no identity.
Present(c) ==
    /\ call[c].pc = "new" /\ call[c].kind = "bearer"
    /\ LET t == call[call[c].target]
       IN /\ t.pc = "over"
          /\ Step(c, IF t.fresh THEN [call[c] EXCEPT !.kind = "token", !.access = t.access]
                     ELSE [call[c] EXCEPT !.kind = "local", !.who = "nobody"])
    /\ UNCHANGED <<rows, held>>

AccessNext ==
    \E c \in Calls :
       \/ call[c].kind # "bearer" /\ (PutQuestion(c) \/ Decide(c) \/ ReadProject(c) \/ ReadRoles(c) \/ HasPermission(c))
       \/ ReadOnly(c) \/ CheckMember(c) \/ CreateProjectMember(c) \/ UpdateProjectMember(c) \/ DeleteProjectMember(c)
       \/ DeleteUserGroup(c) \/ SetPublic(c) \/ LoseProject(c) \/ FoundProject(c)
       \/ MakeToken(c) \/ Expire(c) \/ Present(c)

---------------------------------------------------------------------------

\* A role may do what the roles below it may do, and a member of a public
\* project who is at least a guest loses nothing when it becomes private.
RolesNested ==
    /\ \A i \in 1..4 : GetPolicies(RolesInOrder[i]) \subseteq GetPolicies(RolesInOrder[i + 1])
    /\ publicProjectPolicies \subseteq guest

\* What a user's call is allowed, the user was entitled to at some moment of
\* that call: by an own row, by a group's, or because the project was public.
GrantedWhileHeld ==
    \A c \in Calls : Watched(c) => \A y \in call[c].yes : <<y[2], y[3]>> \in held[c]

\* A call gets the same answer whenever it asks the same of a project: the
\* roles that change meanwhile do not split it.
Coherent ==
    \A c \in Calls : call[c].kind = "local" => ~\E y \in call[c].yes, n \in call[c].no : y[2] = n[2] /\ y[3] = n[3]

\* Whatever a token opens, its subject was allowed in a project of that name
\* when it was issued.
TokenAsIssued ==
    \A c \in Calls : call[c].kind = "token" => \A y \in call[c].yes :
       LET t == call[call[c].target]
       IN \E z \in t.yes : z[3] = y[3] /\ t.target[z[1]] = <<"repository", call[c].questions[y[1]][1]>>

\* A user or group has one row in a project, and every row has its own number.
OneRowEach ==
    \A m1, m2 \in member : m1 # m2 => m1.id # m2.id /\ (m1.pid # m2.pid \/ m1.who # m2.who)

AccessSound == RolesNested /\ GrantedWhileHeld /\ Coherent /\ TokenAsIssued /\ OneRowEach
=============================================================================
