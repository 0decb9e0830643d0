------------------------------- MODULE Logins -------------------------------
(***************************************************************************)
(* How a request gets its identity: the local accounts, the directories    *)
(* behind the other authentication modes, the OIDC provider with the rows  *)
(* that link its subjects to accounts, the groups taken over at a login,   *)
(* and the browser sessions.  A visit is a request; its queries are steps, *)
(* and administrators change accounts and groups between them.             *)
(***************************************************************************)
EXTENDS Naturals, Sequences, FiniteSets

CONSTANTS Visits,
          Tongues,   \* the names under which people log in
          Directory, \* external: what LDAP, UAA or the proxy knows of a name
          Provider,  \* external: what the OIDC provider says of a subject
          Sids       \* session ids

VARIABLES
    authMode, \* "db", "ldap", "uaa", "http" or "oidc"
    account,  \* table harbor_user: [id, name, mail, pw, flag, dead, mark], the
              \* mark is what a deletion attaches to name and mail
    oidcUser, \* table oidc_user: [uid, sub, secret, token]
    ugroup,   \* table user_group: [id, name, dn]
    frozen,   \* UserLock.failures not older than the freeze
    sess,     \* the session store
    visit,    \* the requests
    nextRow,
    seen,     \* history: the live rows there were during a visit
    linked,   \* history: the pairs subject, account there ever were
    out       \* history: sessions ended while no request held them

loginTables == <<authMode, account, oidcUser, ugroup, frozen, nextRow>>
loginVars == <<loginTables, sess, visit, seen, linked, out>>

NoOne == [id |-> 0, name |-> "none", mail |-> "none", flag |-> FALSE, groups |-> {}]
NoSession == [user |-> NoOne, state |-> 0, info |-> "none"]

Visit(op, who, pw, sid, target) ==
    [op |-> op, who |-> who, pw |-> pw, sid |-> sid, target |-> target, pc |-> "new", mode |-> "none", u |-> NoOne,
     todo |-> <<>>, after |-> "in", meta |-> <<>>, vals |-> NoSession, isIn |-> FALSE]

Alive == {a \in account : ~a.dead}
Named(n) == {a \in Alive : a.name = n}
Linked(s) == {o \in oidcUser : o.sub = s}
Owner(o) == {a \in Alive : a.id = o.uid}
Row(S) == CHOOSE x \in S : TRUE

\* GetBySubIss: the row of the subject, then the account; either may be missing.
GetBySubIss(s) == UNION {Owner(o) : o \in Linked(s)}

Turn(v, x) == visit' = [visit EXCEPT ![v] = x]
Goto(v, pc) == Turn(v, [visit[v] EXCEPT !.pc = pc])
At(v, pc) == visit[v].pc = pc
Does(v, op) == visit[v].op = op
Active(v) == visit[v].pc \notin {"new", "in", "over"}

Witness ==
    /\ seen' = [v \in Visits |-> IF Active(v) \/ Active(v)' THEN seen[v] \union Alive' \union oidcUser' ELSE seen[v]]
    /\ linked' = linked \union {<<o.sub, o.uid>> : o \in oidcUser'}
Quiet == UNCHANGED <<loginTables, sess, out>> /\ Witness

\* The account as a user model; the groups and the administrator role that
\* the authentication gives are not in the table.
Model(a, groups, admin) == [id |-> a.id, name |-> a.name, mail |-> a.mail, flag |-> a.flag \/ admin, groups |-> groups]

---------------------------------------------------------------------------
(* Unique keys of the tables, dead rows included.                          *)

NameFree(n) == \A a \in account : a.name # n \/ a.mark # 0
MailFree(m) == m = "none" \/ \A a \in account : a.mail # m \/ a.mark # 0
SubFree(s) == Linked(s) = {}

NewAccount(n, m, pw) == [id |-> nextRow, name |-> n, mail |-> m, pw |-> pw, flag |-> FALSE, dead |-> FALSE, mark |-> 0]
Insert(n, m, pw) == account' = account \union {NewAccount(n, m, pw)} /\ nextRow' = nextRow + 1

---------------------------------------------------------------------------
(* Middleware: the first generator that knows the request.  In OIDC mode   *)
(* the CLI secret comes before the password.                               *)

Generate(v) ==
    /\ At(v, "new") /\ visit[v].op \in {"basic", "proxied", "idtoken"}
    /\ Goto(v, CASE Does(v, "idtoken") -> IF authMode = "oidc" THEN "claims" ELSE "over"
                 [] Does(v, "proxied") -> IF authMode = "http" THEN "review" ELSE "admit"
                 [] OTHER -> IF authMode = "oidc" THEN "cli" ELSE "admit")
    /\ Quiet

\* CommonController.Login: in OIDC mode only an account without a link may
\* use its password.
redirectForOIDC(n) ==
    authMode = "oidc" /\ (Named(n) = {} \/ \E a \in Named(n), o \in oidcUser : o.uid = a.id)

LoginForm(v) ==
    /\ At(v, "new") /\ Does(v, "form")
    /\ Turn(v, [visit[v] EXCEPT !.vals = sess[visit[v].sid], !.pc = IF redirectForOIDC(visit[v].who) THEN "over" ELSE "admit"])
    /\ Quiet

---------------------------------------------------------------------------
(* auth.Login.                                                             *)

IsSuperUser(n) == \E a \in Named(n) : a.id = 1
IsLocked(n) == n \in frozen

\* The first account logs in with its password in every mode.
Admit(v) ==
    /\ At(v, "admit")
    /\ Turn(v, [visit[v] EXCEPT !.mode = IF IsSuperUser(visit[v].who) THEN "db" ELSE authMode,
                                !.pc = IF IsLocked(visit[v].who) THEN "over" ELSE "auth"])
    /\ Quiet

\* UserLock.Lock, and the time after which IsLocked forgets it.
Lock(v) ==
    /\ frozen' = frozen \union {visit[v].who}
    /\ Goto(v, "over")
    /\ UNCHANGED <<authMode, account, oidcUser, ugroup, nextRow, sess, out>> /\ Witness

Thaw(n) ==
    /\ n \in frozen /\ frozen' = frozen \ {n}
    /\ UNCHANGED <<authMode, account, oidcUser, ugroup, nextRow, sess, visit, seen, linked, out>>

MatchLocalPassword(n, pw) == {a \in Alive : n \in {a.name, a.mail} /\ a.pw = pw}

\* db.Auth.Authenticate; its PostAuthenticate does nothing.
AuthDB(v) ==
    /\ At(v, "auth") /\ visit[v].mode = "db"
    /\ LET found == MatchLocalPassword(visit[v].who, visit[v].pw)
       IN IF found = {} THEN Lock(v)
          ELSE \E a \in found : Turn(v, [visit[v] EXCEPT !.u = Model(a, {}, FALSE), !.pc = "in", !.isIn = TRUE]) /\ Quiet

Entry(v) == Directory[visit[v].who]
Unknown(v) == Entry(v).pw # visit[v].pw

\* ldap.Auth.Authenticate: search, bind, the flag of the account, the groups.
AuthLDAP(v) ==
    /\ At(v, "auth") /\ visit[v].mode = "ldap"
    /\ IF Unknown(v) THEN Lock(v)
       ELSE LET known == Named(Entry(v).name)
            IN /\ Turn(v, [visit[v] EXCEPT !.u = [NoOne EXCEPT !.name = Entry(v).name, !.mail = Entry(v).mail,
                                                      !.flag = Entry(v).admin \/ \E a \in known : a.flag],
                                           !.todo = Entry(v).groups, !.pc = "groups", !.after = "post"])
               /\ Quiet

\* uaa.Auth.Authenticate takes no groups; the mail is what the token says.
AuthUAA(v) ==
    /\ At(v, "auth") /\ visit[v].mode = "uaa"
    /\ IF Unknown(v) THEN Lock(v)
       ELSE Turn(v, [visit[v] EXCEPT !.u = [NoOne EXCEPT !.name = visit[v].who, !.mail = Entry(v).mail], !.pc = "post"]) /\ Quiet

\* authproxy.Auth.Authenticate: a session of the proxy, reviewed.  The
\* setting SkipSearch is on.
AuthHTTP(v) ==
    /\ At(v, "auth") /\ visit[v].mode = "http"
    /\ IF Unknown(v) THEN Lock(v)
       ELSE Turn(v, [visit[v] EXCEPT !.u = [NoOne EXCEPT !.name = Entry(v).name, !.flag = Entry(v).admin],
                                     !.todo = Entry(v).groups, !.pc = "groups", !.after = "post"]) /\ Quiet

\* oidc.Auth has no passwords: an error that locks nothing.
AuthOIDC(v) ==
    /\ At(v, "auth") /\ visit[v].mode = "oidc"
    /\ Goto(v, "over") /\ Quiet

\* PostAuthenticate of the directories.  LDAP and UAA take the number of a
\* known account and bring its mail up to date, unless another account has
\* it; the proxy leaves the number out, and so does LDAP when the account
\* goes between its two queries.
Refreshed(a, m) ==
    IF m \notin {"none", a.mail} /\ MailFree(m) THEN (account \ {a}) \union {[a EXCEPT !.mail = m]} ELSE account

\* LDAP counts the accounts of the name first, without the first one.
CountUser(v) ==
    /\ At(v, "post") /\ visit[v].mode = "ldap"
    /\ Goto(v, IF \E a \in Named(visit[v].u.name) : a.id > 1 THEN "fetch" ELSE "look")
    /\ Quiet

PostAuthenticate(v) ==
    /\ At(v, IF visit[v].mode = "ldap" THEN "fetch" ELSE "post")
    /\ LET u == visit[v].u
           known == Named(u.name)
       IN IF known = {} /\ visit[v].mode = "ldap" THEN Turn(v, [visit[v] EXCEPT !.pc = "in", !.isIn = TRUE]) /\ UNCHANGED account
          ELSE IF known = {} THEN Goto(v, "look") /\ UNCHANGED account
          ELSE LET a == Row(known)
               IN /\ Turn(v, [visit[v] EXCEPT !.pc = "in", !.isIn = TRUE,
                                !.u.id = IF visit[v].mode = "http" THEN 0 ELSE a.id,
                                !.u.flag = IF visit[v].mode = "uaa" THEN a.flag ELSE @])
                  /\ account' = IF visit[v].mode = "http" THEN account ELSE Refreshed(a, u.mail)
    /\ UNCHANGED <<authMode, oidcUser, ugroup, frozen, nextRow, sess, out>> /\ Witness

\* user.manager.Onboard: look again, then create.  A registry client behind
\* the proxy gets its groups afterwards.
Boarded(v, u) ==
    Turn(v, [visit[v] EXCEPT !.u = [u EXCEPT !.flag = @ \/ (Does(v, "proxied") /\ Entry(v).admin)],
                             !.pc = IF Does(v, "proxied") THEN "groups" ELSE "in",
                             !.todo = IF Does(v, "proxied") THEN Entry(v).groups ELSE @,
                             !.isIn = visit[v].op \in {"basic", "form"}])

OnboardLook(v) ==
    /\ At(v, "look")
    /\ LET known == Named(visit[v].u.name)
       IN IF known = {} THEN Goto(v, "insert")
          ELSE LET a == Row(known)
               IN Boarded(v, [visit[v].u EXCEPT !.id = a.id, !.mail = a.mail, !.flag = a.flag \/ (visit[v].mode = "ldap" /\ Entry(v).admin)])
    /\ Quiet

OnboardCreate(v) ==
    /\ At(v, "insert")
    /\ LET u == visit[v].u
       IN IF NameFree(u.name) /\ MailFree(u.mail)
          THEN /\ Insert(u.name, u.mail, "unused")
               /\ Boarded(v, [visit[v].u EXCEPT !.id = nextRow])
          ELSE Goto(v, "over") /\ UNCHANGED <<account, nextRow>>
    /\ UNCHANGED <<authMode, oidcUser, ugroup, frozen, sess, out>> /\ Witness

\* ImportUser of an administrator, the account of a name in the directory.
ImportUser(v) ==
    /\ At(v, "new") /\ Does(v, "import")
    /\ IF Entry(v).pw = "none" THEN Goto(v, "over")
       ELSE Turn(v, [visit[v] EXCEPT !.u = [NoOne EXCEPT !.name = Entry(v).name, !.mail = Entry(v).mail], !.pc = "look"])
    /\ Quiet

\* authProxy.Generate: the token of the registry client is reviewed, the
\* account found or made, then the groups taken over.
ReviewToken(v) ==
    /\ At(v, "review")
    /\ LET known == Named(Entry(v).name)
       IN IF Unknown(v) THEN Goto(v, "admit")
          ELSE IF known = {} THEN Turn(v, [visit[v] EXCEPT !.mode = "http", !.pc = "look", !.u = [NoOne EXCEPT !.name = Entry(v).name]])
          ELSE Turn(v, [visit[v] EXCEPT !.mode = "http", !.u = [Model(Row(known), {}, FALSE) EXCEPT !.flag = @ \/ Entry(v).admin],
                                        !.todo = Entry(v).groups, !.pc = "groups", !.after = "in"])
    /\ Quiet

---------------------------------------------------------------------------
(* usergroup.Populate, one group after the other.  Directory and Provider  *)
(* name the groups that the filters leave.                                 *)

GroupNamed(n) == {g \in ugroup : g.name = n}
GroupOf(dn) == {g \in ugroup : g.dn = dn}

\* onBoardLdapUserGroup: a name that another group has gives way to the DN.
\* The other kinds of groups have no DN, their name is the key.
Wanted(v) ==
    LET k == Head(visit[v].todo)
    IN IF k.dn # "none" /\ \E g \in GroupNamed(k.name) : g.dn # k.dn THEN [name |-> k.dn, dn |-> k.dn] ELSE k

\* As if a group of the directory were looked up by its name alone.
KnownGroupByName(v) == GroupNamed(Head(visit[v].todo).name)
KnownGroup(v) == IF Wanted(v).dn = "none" THEN GroupNamed(Wanted(v).name) ELSE GroupOf(Wanted(v).dn)

Taken(v, ids) == [visit[v] EXCEPT !.u.groups = @ \union {<<i, Head(visit[v].todo)>> : i \in ids}, !.todo = Tail(@), !.pc = "groups"]

PopulateGroups(v) ==
    /\ At(v, "groups")
    /\ IF visit[v].todo = <<>> THEN Turn(v, [visit[v] EXCEPT !.pc = visit[v].after, !.isIn = visit[v].after = "in"])
       ELSE IF KnownGroup(v) # {} THEN Turn(v, Taken(v, {g.id : g \in KnownGroup(v)}))
       ELSE Goto(v, "newgroup")
    /\ Quiet

\* ReadOrCreate found none; if the name has been taken the group is left out.
AddGroup(v) ==
    /\ At(v, "newgroup")
    /\ LET k == Wanted(v)
       IN IF GroupNamed(k.name) # {} THEN Turn(v, Taken(v, {})) /\ UNCHANGED <<ugroup, nextRow>>
          ELSE /\ ugroup' = ugroup \union {[id |-> nextRow, name |-> k.name, dn |-> k.dn]}
               /\ nextRow' = nextRow + 1 /\ Turn(v, Taken(v, {nextRow}))
    /\ UNCHANGED <<authMode, account, oidcUser, frozen, sess, out>> /\ Witness

\* Create, Update and Delete of the API.
CreateUserGroup(v) ==
    /\ At(v, "new") /\ Does(v, "newgroup") /\ Goto(v, "over")
    /\ IF GroupNamed(visit[v].target.name) # {} THEN UNCHANGED <<ugroup, nextRow>>
       ELSE ugroup' = ugroup \union {[id |-> nextRow, name |-> visit[v].target.name, dn |-> visit[v].target.dn]} /\ nextRow' = nextRow + 1
    /\ UNCHANGED <<authMode, account, oidcUser, frozen, sess, out>> /\ Witness

UpdateName(v) ==
    /\ At(v, "new") /\ Does(v, "rename") /\ Goto(v, "over")
    /\ LET g == {g \in ugroup : g.id = visit[v].target}
       IN ugroup' = IF GroupNamed(visit[v].who) # {} THEN ugroup
                    ELSE (ugroup \ g) \union {[x EXCEPT !.name = visit[v].who] : x \in g}
    /\ UNCHANGED <<authMode, account, oidcUser, frozen, nextRow, sess, out>> /\ Witness

RemoveGroup(v) ==
    /\ At(v, "new") /\ Does(v, "ungroup") /\ Goto(v, "over")
    /\ ugroup' = {g \in ugroup : g.id # visit[v].target}
    /\ UNCHANGED <<authMode, account, oidcUser, frozen, nextRow, sess, out>> /\ Witness

---------------------------------------------------------------------------
(* OIDC.                                                                   *)

\* A row oidc_user gets its own secret and the token of the log in.
NewLink(uid, s, t) == [uid |-> uid, sub |-> s, secret |-> "random", token |-> t]
FreshToken == "fresh"

\* RedirectLogin leaves a state in the session, to be shown by the callback.
RedirectLogin(v) ==
    /\ At(v, "new") /\ Does(v, "redirect")
    /\ sess' = [sess EXCEPT ![visit[v].sid].state = v]
    /\ Goto(v, "over") /\ UNCHANGED <<loginTables, out>> /\ Witness

\* The callback: state, code, token; then the subject is looked up.  A new
\* one is onboarded at once or asked for a name, as the setting says.
Callback(v) ==
    /\ At(v, "new") /\ Does(v, "callback")
    /\ \A w \in Visits : Does(w, "redirect") /\ visit[w].sid = visit[v].sid => At(w, "over")
    /\ LET vals == sess[visit[v].sid]
           start == [visit[v] EXCEPT !.vals = vals]
       IN IF vals.state # visit[v].target THEN Goto(v, "over")
          ELSE \/ Goto(v, "over")
               \/ Turn(v, IF GetBySubIss(visit[v].who) # {}
                          THEN [start EXCEPT !.u = Model(Row(GetBySubIss(visit[v].who)), {}, FALSE), !.pc = "groups",
                                             !.todo = Provider[visit[v].who].groups, !.after = "linked"]
                          ELSE [start EXCEPT !.pc = "onboard"])
               \/ GetBySubIss(visit[v].who) = {} /\ Turn(v, [start EXCEPT !.pc = "ask"])
    /\ Quiet

\* Without automatic onboarding the subject waits in the session for a name.
AskName(v) ==
    /\ At(v, "ask")
    /\ sess' = [sess EXCEPT ![visit[v].sid].info = visit[v].who]
    /\ Goto(v, "over") /\ UNCHANGED <<loginTables, out>> /\ Witness

\* OnboardOIDCUser in a GET request, without a transaction: the account,
\* then the link; the account stays when the link fails or the process ends.
OnboardAccount(v) ==
    /\ At(v, "onboard")
    /\ LET p == Provider[visit[v].who]
       IN IF NameFree(p.name) /\ MailFree(p.mail)
          THEN /\ Insert(p.name, p.mail, "unused")
               /\ Turn(v, [visit[v] EXCEPT !.u = Model(NewAccount(p.name, p.mail, "unused"), {}, FALSE), !.pc = "link"])
          ELSE Goto(v, "over") /\ UNCHANGED <<account, nextRow>>
    /\ UNCHANGED <<authMode, oidcUser, ugroup, frozen, sess, out>> /\ Witness

OnboardLink(v) ==
    /\ At(v, "link")
    /\ \/ /\ SubFree(visit[v].who)
          /\ oidcUser' = oidcUser \union {NewLink(visit[v].u.id, visit[v].who, FreshToken)}
          /\ Turn(v, [visit[v] EXCEPT !.pc = "groups", !.todo = Provider[visit[v].who].groups, !.after = "linked"])
       \/ Goto(v, "over") /\ UNCHANGED oidcUser
    /\ UNCHANGED <<authMode, account, ugroup, frozen, nextRow, sess, out>> /\ Witness

\* The row is read, and written back with the secret it had.
ReadLink(v) ==
    /\ At(v, "linked")
    /\ LET mine == {o \in oidcUser : o.uid = visit[v].u.id}
       IN IF mine = {} \/ Owner(Row(mine)) = {} THEN Goto(v, "over")
          ELSE Turn(v, [visit[v] EXCEPT !.meta = Row(mine), !.pc = "relink"])
    /\ Quiet

UpdateOIDCMeta(v) ==
    /\ At(v, "relink")
    /\ LET mine == {o \in oidcUser : o.uid = visit[v].meta.uid}
       IN IF mine = {} THEN Goto(v, "over") /\ UNCHANGED oidcUser
          ELSE /\ oidcUser' = (oidcUser \ mine) \union {[o EXCEPT !.secret = visit[v].meta.secret, !.token = FreshToken] : o \in mine}
               /\ Turn(v, [visit[v] EXCEPT !.pc = "in", !.isIn = TRUE])
    /\ UNCHANGED <<authMode, account, ugroup, frozen, nextRow, sess, out>> /\ Witness

\* Onboard, a POST request: both rows in one transaction.
Onboard(v) ==
    /\ At(v, "new") /\ Does(v, "onboard")
    /\ LET vals == sess[visit[v].sid]
           mail == Provider[vals.info].mail
       IN IF vals.info # "none" /\ NameFree(visit[v].who) /\ MailFree(mail) /\ SubFree(vals.info)
          THEN /\ Insert(visit[v].who, mail, "unused")
               /\ oidcUser' = oidcUser \union {NewLink(nextRow, vals.info, FreshToken)}
               /\ Turn(v, [visit[v] EXCEPT !.u = Model(NewAccount(visit[v].who, mail, "unused"), {}, FALSE), !.target = vals.info,
                                           !.vals = [vals EXCEPT !.info = "none"], !.pc = "in", !.isIn = TRUE])
          ELSE Goto(v, "over") /\ UNCHANGED <<account, oidcUser, nextRow>>
    /\ UNCHANGED <<authMode, ugroup, frozen, sess, out>> /\ Witness

\* VerifySecret: row and secret; a token that has run out is renewed.
VerifySecret(v) ==
    /\ At(v, "cli")
    /\ LET mine == {o \in oidcUser : \E a \in Named(visit[v].who) : a.id = o.uid}
       IN IF mine = {} \/ Row(mine).secret # visit[v].pw THEN Goto(v, "admit")
          ELSE Turn(v, [visit[v] EXCEPT !.meta = Row(mine), !.pc = IF Row(mine).token = FreshToken THEN "cliuser" ELSE "renew"])
    /\ Quiet

\* Only the token is written, and a failing write is only logged.
RefreshToken(v) ==
    /\ At(v, "renew")
    /\ \/ Goto(v, "admit") /\ UNCHANGED oidcUser
       \/ /\ oidcUser' = {IF o.uid = visit[v].meta.uid THEN [o EXCEPT !.token = FreshToken] ELSE o : o \in oidcUser}
          /\ Goto(v, "cliuser")
    /\ UNCHANGED <<authMode, account, ugroup, frozen, nextRow, sess, out>> /\ Witness

\* oidcCli.Generate goes on with the account of the name.
CliUser(v) ==
    /\ At(v, "cliuser")
    /\ IF Named(visit[v].who) = {} THEN Goto(v, "admit")
       ELSE Turn(v, [visit[v] EXCEPT !.u = Model(Row(Named(visit[v].who)), {}, FALSE), !.pc = "groups", !.after = "in",
                                     !.todo = Provider[visit[v].meta.sub].groups])
    /\ Quiet

\* idToken.Generate.
IdToken(v) ==
    /\ At(v, "claims")
    /\ \/ Goto(v, "over")
       \/ /\ GetBySubIss(visit[v].who) # {}
          /\ Turn(v, [visit[v] EXCEPT !.u = Model(Row(GetBySubIss(visit[v].who)), {}, FALSE), !.pc = "groups", !.after = "in",
                                      !.todo = Provider[visit[v].who].groups])
    /\ Quiet

\* SetCliSecret, by the number of the user; the token runs out.
SetCliSecret(v) ==
    /\ At(v, "new") /\ Does(v, "secret") /\ Goto(v, "over")
    /\ oidcUser' = {IF o.uid = visit[v].target /\ authMode = "oidc" THEN [o EXCEPT !.secret = visit[v].pw] ELSE o : o \in oidcUser}
    /\ UNCHANGED <<authMode, account, ugroup, frozen, nextRow, sess, out>> /\ Witness

TokenRunsOut(o) ==
    /\ o.token = FreshToken
    /\ oidcUser' = (oidcUser \ {o}) \union {[o EXCEPT !.token = "old"]}
    /\ UNCHANGED <<authMode, account, ugroup, frozen, nextRow, sess, visit, seen, linked, out>>

---------------------------------------------------------------------------
(* Sessions.  The store reads the values of a request at its start; they   *)
(* are written back when the request ends.                                 *)

\* PopulateUserSession: the old id is renamed, the user put into the new.
Browser(v) == visit[v].op \in {"form", "callback", "onboard"}
NewSid(v) == visit[v].sid + 1

PopulateUserSession(v) ==
    /\ At(v, "in") /\ visit[v].isIn /\ Browser(v)
    /\ sess' = [sess EXCEPT ![visit[v].sid] = NoSession, ![NewSid(v)] = [visit[v].vals EXCEPT !.user = visit[v].u]]
    /\ Goto(v, "over") /\ UNCHANGED <<loginTables, out>> /\ Witness

\* session.Generate, and SessionRelease at the end of the request.
SessionRead(v) ==
    /\ At(v, "new") /\ Does(v, "session")
    /\ LET vals == sess[visit[v].sid]
       IN Turn(v, [visit[v] EXCEPT !.vals = vals, !.u = vals.user, !.isIn = vals.user # NoOne, !.pc = "held"])
    /\ Quiet

SessionRelease(v) ==
    /\ At(v, "held")
    /\ sess' = [sess EXCEPT ![visit[v].sid] = visit[v].vals]
    /\ Goto(v, "over") /\ UNCHANGED <<loginTables, out>> /\ Witness

LogOut(v) ==
    /\ At(v, "new") /\ Does(v, "logout")
    /\ sess' = [sess EXCEPT ![visit[v].sid] = NoSession]
    /\ out' = out \union {s \in {visit[v].sid} : \A w \in Visits : visit[w].sid \in {s, s - 1} => visit[w].pc \in {"new", "over"} /\ (Browser(w) => At(w, "over"))}
    /\ Goto(v, "over") /\ UNCHANGED loginTables /\ Witness

---------------------------------------------------------------------------
(* Accounts.                                                               *)

CreateUser(v) ==
    /\ At(v, "new") /\ Does(v, "create") /\ Goto(v, "over")
    /\ IF authMode = "db" /\ NameFree(visit[v].who) /\ MailFree(visit[v].target) THEN Insert(visit[v].who, visit[v].target, visit[v].pw)
       ELSE UNCHANGED <<account, nextRow>>
    /\ UNCHANGED <<authMode, oidcUser, ugroup, frozen, sess, out>> /\ Witness

\* Not the first account.  Name and mail get the number of the row attached,
\* so that both can be used again.
requireDeletable(id) == id # 1
Buried(a) == [a EXCEPT !.mark = a.id, !.dead = TRUE]

DeleteUser(v) ==
    LET id == visit[v].target
        gone == {a \in Alive : a.id = id /\ requireDeletable(id)}
    IN /\ At(v, "new") /\ Does(v, "delete") /\ Goto(v, "over")
       /\ account' = (account \ gone) \union {Buried(a) : a \in gone}
       /\ oidcUser' = IF authMode = "oidc" THEN {o \in oidcUser : o.uid # id \/ gone = {}} ELSE oidcUser
       /\ UNCHANGED <<authMode, ugroup, frozen, nextRow, sess, out>> /\ Witness

\* In the other modes only the first account can be changed.
modifiable(id) == authMode = "db" \/ id = 1
Changed(id, f(_)) == {IF a.id = id /\ modifiable(id) THEN f(a) ELSE a : a \in account}

UpdateUserPassword(v) ==
    LET new(a) == [a EXCEPT !.pw = visit[v].pw]
    IN /\ At(v, "new") /\ Does(v, "password") /\ Goto(v, "over")
       /\ account' = IF \E a \in Alive : a.id = visit[v].target /\ a.pw # visit[v].pw THEN Changed(visit[v].target, new) ELSE account
       /\ UNCHANGED <<authMode, oidcUser, ugroup, frozen, nextRow, sess, out>> /\ Witness

UpdateUserProfile(v) ==
    LET new(a) == [a EXCEPT !.mail = visit[v].who]
    IN /\ At(v, "new") /\ Does(v, "profile") /\ Goto(v, "over")
       /\ account' = IF MailFree(visit[v].who) THEN Changed(visit[v].target, new) ELSE account
       /\ UNCHANGED <<authMode, oidcUser, ugroup, frozen, nextRow, sess, out>> /\ Witness

SetUserSysAdmin(v) ==
    /\ At(v, "new") /\ Does(v, "sysadmin") /\ Goto(v, "over")
    /\ account' = {IF a.id = visit[v].target THEN [a EXCEPT !.flag = ~@] ELSE a : a \in account}
    /\ UNCHANGED <<authMode, oidcUser, ugroup, frozen, nextRow, sess, out>> /\ Witness

LoginNext ==
    \/ \E v \in Visits :
          \/ Generate(v) \/ LoginForm(v) \/ Admit(v) \/ AuthDB(v) \/ AuthLDAP(v) \/ AuthUAA(v) \/ AuthHTTP(v) \/ AuthOIDC(v)
          \/ CountUser(v) \/ PostAuthenticate(v) \/ OnboardLook(v) \/ OnboardCreate(v) \/ ImportUser(v) \/ ReviewToken(v)
          \/ PopulateGroups(v) \/ AddGroup(v) \/ CreateUserGroup(v) \/ UpdateName(v) \/ RemoveGroup(v)
          \/ RedirectLogin(v) \/ Callback(v) \/ AskName(v) \/ OnboardAccount(v) \/ OnboardLink(v) \/ ReadLink(v) \/ UpdateOIDCMeta(v)
          \/ Onboard(v) \/ VerifySecret(v) \/ RefreshToken(v) \/ CliUser(v) \/ IdToken(v) \/ SetCliSecret(v)
          \/ PopulateUserSession(v) \/ SessionRead(v) \/ SessionRelease(v) \/ LogOut(v)
          \/ CreateUser(v) \/ DeleteUser(v) \/ UpdateUserPassword(v) \/ UpdateUserProfile(v) \/ SetUserSysAdmin(v)
    \/ \E n \in Tongues : Thaw(n)
    \/ \E o \in oidcUser : TokenRunsOut(o)

---------------------------------------------------------------------------

\* However logins, imports, onboardings and deletions interleave, a name, a
\* mail, a subject and a group name stand for one row each.
OneRow ==
    /\ \A a, b \in account : a # b => a.id # b.id /\ (a.mark = b.mark => a.name # b.name /\ (a.mail = b.mail => a.mail = "none"))
    /\ \A o, p \in oidcUser : o # p => o.sub # p.sub /\ o.uid # p.uid
    /\ \A g, h \in ugroup : g # h => g.id # h.id /\ g.name # h.name

\* The identity a visit ends with belongs to its credential: the password or
\* the secret was good, or the subject linked, and the account of that number
\* and name was live, at some moment of the visit.
Proven ==
    \A v \in Visits : visit[v].isIn =>
       LET x == visit[v]
           had(P(_)) == \E a \in seen[v] : "dead" \in DOMAIN a /\ a.id = x.u.id /\ P(a)
           linkedTo(s) == \E o \in seen[v] : "sub" \in DOMAIN o /\ o.sub = s /\ o.uid = x.u.id
           byPassword(a) == a.pw = x.pw /\ x.who \in {a.name, a.mail}
           byName(a) == a.name = x.u.name
       IN CASE x.op \in {"callback", "idtoken"} -> linkedTo(x.who)
            [] x.op = "onboard" -> <<x.target, x.u.id>> \in linked
            [] x.op = "session" -> x.u = x.vals.user
            [] x.op \in {"basic", "form", "proxied"} /\ x.mode = "db" -> had(byPassword)
            [] x.op \in {"basic", "form", "proxied"} /\ x.mode \in {"ldap", "uaa", "http"} ->
                  ~Unknown(v) /\ x.u.name = Entry(v).name /\ (x.u.id # 0 => had(byName))
            [] x.op = "basic" -> had(byName) /\ \E o \in seen[v] : "sub" \in DOMAIN o /\ o.secret = x.pw
            [] OTHER -> FALSE

\* Nobody becomes the first account by way of a directory, and nothing
\* deletes it.
FirstAccount ==
    /\ \E a \in Alive : a.id = 1
    /\ \A v \in Visits : visit[v].isIn /\ visit[v].mode \in {"ldap", "uaa", "http"} => visit[v].u.id # 1

\* A subject stays with its account for as long as that account lives.
SubjectStays ==
    \A p, q \in linked : p[1] = q[1] /\ p[2] < q[2] => \E a \in account : a.id = p[2] /\ a.dead

\* The groups of an identity are rows made for one of the groups that the
\* directory or the provider names.
GroupsGiven ==
    \A v \in Visits : \A e \in visit[v].u.groups : \A g \in ugroup :
       g.id = e[1] /\ e[2].dn # "none" => g.dn = e[2].dn

\* A user is in a session only under the id made at the log in, and a session
\* that was ended while no request was using it stays ended.
SessionsKept ==
    /\ \A s \in Sids : sess[s].user # NoOne => \E w \in Visits : Browser(w) /\ visit[w].isIn /\ NewSid(w) = s /\ visit[w].u = sess[s].user
    /\ \A s \in out : sess[s].user = NoOne

LoginsSound == OneRow /\ Proven /\ FirstAccount /\ SubjectStays /\ GroupsGiven /\ SessionsKept
=============================================================================
