---------------------------- MODULE RegistryAuth ----------------------------
(***************************************************************************)
(* The client of a registry and how its requests are authorized.  The      *)
(* requests of one client run at once and share the interceptor that keeps *)
(* a read-only system from changing its registry, the authorizer that the  *)
(* first of them sets up from the challenge of the registry, the cache of  *)
(* bearer tokens, and the temporary credentials of aliacr, tencent, aws.   *)
(* The clocks of the registry and of the client agree.                     *)
(***************************************************************************)
EXTENDS Integers, Sequences, FiniteSets

CONSTANTS
  TokenRoom,   \* capacity of the cache of tokens (100)
  Latency,     \* a token is taken as expired that much earlier (10 s)
  ReadOnlyFor, \* how long the interceptor keeps the mode of the system (5 s)
  CredLife,    \* how long a temporary credential is good
  AwsLife      \* how long aws keeps one at most (1 h)

VARIABLES
  tick,       \* the time
  client,     \* [kind, challenge, user, blank, horizon]: blank, the token service answers without a token;
              \* horizon bounds the clock
  inner,      \* the authorizer: "nil", "half" (being assigned), "null", "basic", "bearer"
  initLock,   \* the request that holds the mutex of the authorizer, or 0
  tokens,     \* cache of bearer tokens: key -> [iss, ttl]; iss = -1: no time of issue
  cred,       \* [there, user, pass, till]: user and pass number the credential they are of; till = -1: no time
  roMode,     \* the system is read-only
  roCopy,     \* the copy of the interceptor: [val, till]; till = -1: none
  calls,      \* requests, see AuthCall
  authFaults, \* requests to other services that still may fail
  authPast    \* history, see NoAuthPast

authVars == <<tick, client, inner, initLock, tokens, cred, roMode, roCopy, calls, authFaults, authPast>>

NoToken == [key |-> <<>>, iss |-> -1, ttl |-> 0]
AuthCall(method, path, repo, from, host, ttl) ==
  [method |-> method, path |-> path, repo |-> repo, from |-> from, host |-> host, ttl |-> ttl, at |-> "start", out |-> "open",
   tok |-> NoToken, hitAt |-> -1, sign |-> "none", mode |-> FALSE, since |-> -1, passed |-> -1, mine |-> 0, till |-> -1, used |-> <<0, 0>>, mixed |-> FALSE, checkAt |-> -1, credAt |-> -1]
NoAuthCall == [AuthCall("GET", "ping", "", "", TRUE, 1) EXCEPT !.at = "over"]
\* ends[n] is the end of credential n; overlap: two requests wrote credentials at once;
\* forgot: aws forgot one that had expired; on: when the system became read-only; slow: the
\* longest time from loading the mode to keeping it; halves: a request met a half assigned authorizer.
NoAuthPast == [ends |-> <<>>, overlap |-> FALSE, forgot |-> FALSE, on |-> -1, slow |-> 0, halves |-> FALSE]
CallGoes(c, at) == calls' = [calls EXCEPT ![c].at = at]
\* The notes about a credential are no longer needed.
Cleared(x) == [x EXCEPT !.mine = 0, !.till = -1, !.used = <<0, 0>>, !.mixed = FALSE, !.checkAt = -1, !.credAt = -1]
AuthCallEnds(c, out) == calls' = [calls EXCEPT ![c] = [Cleared(@) EXCEPT !.at = "over", !.out = out, !.sign = "none", !.tok = NoToken, !.hitAt = -1, !.passed = -1, !.since = -1]]
AuthFault == authFaults > 0 /\ authFaults' = authFaults - 1
\* What most steps leave alone.
Around == <<tick, client, roMode>>

---------------------------------------------------------------------------
(* Scopes.                                                                 *)

TokenScope(type, name, actions) == <<type, name, actions>>
ActionsOf(method) ==
  CASE method \in {"GET", "HEAD"} -> {"pull"} [] method \in {"POST", "PUT", "PATCH"} -> {"pull", "push"} [] method = "DELETE" -> {"*"} [] OTHER -> {}
\* A mount also pulls from the repository it mounts from.
parseScopes(method, path, repo, from) ==
  LET mount == IF path = "upload" /\ from # "" THEN <<TokenScope("repository", from, {"pull"})>> ELSE <<>> IN
  CASE path \in {"manifest", "blob", "upload", "tags"} -> Append(mount, TokenScope("repository", repo, ActionsOf(method)))
    [] path = "catalog" -> <<TokenScope("registry", "catalog", {"*"})>>
    [] OTHER -> <<>>
\* Modify of quay takes _catalog off the path while the token is got.
QuayPath(path) == IF path = "catalog" THEN "ping" ELSE path
ScopesOf(c) ==
  LET x == calls[c] IN parseScopes(x.method, IF client.kind = "quay" THEN QuayPath(x.path) ELSE x.path, x.repo, x.from)
\* buildTokenAPI of azure.
MetadataScope(repo) == <<TokenScope("repository", repo, {"metadata_read"})>>
cacheKey(scopes) == scopes

---------------------------------------------------------------------------
(* do: the interceptor, which only the client of the own registry has.     *)

Changes(method) == method \notin {"GET", "HEAD", "OPTIONS"}
PassesOn(c) == [calls[c] EXCEPT !.at = "auth", !.passed = tick]
Intercept(c) ==
  /\ calls[c].at = "start"
  /\ client.kind = "core" /\ Changes(calls[c].method)
  /\ IF roCopy.till < tick THEN CallGoes(c, "load")
     ELSE IF roCopy.val THEN AuthCallEnds(c, "readonly") ELSE calls' = [calls EXCEPT ![c] = PassesOn(c)]
  /\ UNCHANGED <<Around, inner, initLock, tokens, cred, roCopy, authFaults, authPast>>
LoadReadOnly(c) ==
  /\ calls[c].at = "load"
  /\ \/ AuthFault /\ AuthCallEnds(c, "error")
     \/ calls' = [calls EXCEPT ![c] = [@ EXCEPT !.at = "keep", !.mode = roMode, !.since = tick]] /\ UNCHANGED authFaults
  /\ UNCHANGED <<Around, inner, initLock, tokens, cred, roCopy, authPast>>
\* Mutant: the copy is never too old.
KeepReadOnlyForever(c) ==
  /\ calls[c].at = "keep"
  /\ roCopy' = [val |-> calls[c].mode, till |-> client.horizon]
  /\ IF calls[c].mode THEN AuthCallEnds(c, "readonly") ELSE calls' = [calls EXCEPT ![c] = PassesOn(c)]
  /\ UNCHANGED <<Around, inner, initLock, tokens, cred, authFaults, authPast>>
KeepReadOnly(c) ==
  /\ calls[c].at = "keep"
  /\ roCopy' = [val |-> calls[c].mode, till |-> tick + ReadOnlyFor]
  /\ IF calls[c].mode THEN AuthCallEnds(c, "readonly") ELSE calls' = [calls EXCEPT ![c] = [PassesOn(c) EXCEPT !.since = -1]]
  /\ authPast' = [authPast EXCEPT !.slow = IF tick - calls[c].since > @ THEN tick - calls[c].since ELSE @]
  /\ UNCHANGED <<Around, inner, initLock, tokens, cred, authFaults>>

---------------------------------------------------------------------------
(* Modify: which authorizer.                                               *)

HasOwn == client.kind \in {"aliacr", "tencent"}
\* aws signs what goes to its hosts, azure has a token of its own for a list of tags, github and
\* others always send their user name; the others look whether the authorizer is set, without the mutex.
\* A request to another host follows the location that an earlier one was given.
ChooseAuthorizer(c) ==
  /\ calls[c].at = "auth" \/ (calls[c].at = "start" /\ ~(client.kind = "core" /\ Changes(calls[c].method)))
  /\ calls[c].host \/ \E d \in DOMAIN calls : calls[d].out = "sent"
  /\ CallGoes(c, CASE client.kind = "aws" -> IF calls[c].host THEN "cred" ELSE "send"
                   [] client.kind = "azure" /\ calls[c].path = "tags" -> "azure"
                   [] HasOwn -> "bearer"
                   [] client.kind = "basic" -> "basic"
                   [] OTHER -> IF inner = "nil" THEN "lock" ELSE "target")
  /\ UNCHANGED <<Around, inner, initLock, tokens, cred, roCopy, authFaults, authPast>>
LockAuthorizer(c) ==
  /\ calls[c].at = "lock" /\ initLock = 0
  /\ initLock' = c /\ CallGoes(c, "init")
  /\ UNCHANGED <<Around, inner, tokens, cred, roCopy, authFaults, authPast>>
\* initialize asks /v2/, unless another request did.  The interface value has two words.
Initialize(c) ==
  /\ calls[c].at = "init"
  /\ IF inner # "nil" THEN CallGoes(c, "target") /\ UNCHANGED <<inner, authFaults>>
     ELSE \/ AuthFault /\ AuthCallEnds(c, "error") /\ UNCHANGED inner
          \/ /\ UNCHANGED authFaults
             /\ IF client.challenge = "other" THEN AuthCallEnds(c, "error") /\ UNCHANGED inner
                ELSE inner' = "half" /\ CallGoes(c, "install")
  /\ UNCHANGED <<Around, initLock, tokens, cred, roCopy, authPast>>
Challenged == IF client.challenge = "none" THEN "null" ELSE client.challenge
Install(c) ==
  /\ calls[c].at = "install"
  /\ inner' = Challenged /\ CallGoes(c, "target")
  /\ UNCHANGED <<Around, initLock, tokens, cred, roCopy, authFaults, authPast>>
\* isTarget: only requests to the registry itself get a credential; the null authorizer gives
\* none, and needs no receiver.
IsTarget(c) ==
  /\ calls[c].at = "target"
  /\ LET half == inner = "half" /\ calls[c].host /\ Challenged # "null" IN
     /\ authPast' = [authPast EXCEPT !.halves = @ \/ half]
     /\ IF half THEN AuthCallEnds(c, "panic") ELSE CallGoes(c, IF ~calls[c].host \/ Challenged = "null" THEN "send" ELSE inner)
  /\ UNCHANGED <<Around, inner, initLock, tokens, cred, roCopy, authFaults>>
\* The mutex is held until Modify returns.
Unlock ==
  /\ initLock # 0 /\ calls[initLock].at \in {"send", "over"}
  /\ initLock' = 0
  /\ UNCHANGED <<Around, inner, tokens, cred, roCopy, calls, authFaults, authPast>>
BasicAuth(c) ==
  /\ calls[c].at = "basic"
  /\ calls' = [calls EXCEPT ![c] = [@ EXCEPT !.at = "send", !.sign = IF client.user THEN "basic" ELSE "none"]]
  /\ UNCHANGED <<Around, inner, initLock, tokens, cred, roCopy, authFaults, authPast>>
Signed == IF client.blank THEN "none" ELSE "bearer"
AzureToken(c) ==
  /\ calls[c].at = "azure"
  /\ \/ AuthFault /\ AuthCallEnds(c, "error")
     \/ /\ UNCHANGED authFaults
        /\ IF client.challenge # "bearer" THEN AuthCallEnds(c, "error")
           ELSE calls' = [calls EXCEPT ![c] = [@ EXCEPT !.at = "send", !.sign = Signed, !.tok = [key |-> MetadataScope(calls[c].repo), iss |-> tick, ttl |-> calls[c].ttl]]]
  /\ UNCHANGED <<Around, inner, initLock, tokens, cred, roCopy, authPast>>

---------------------------------------------------------------------------
(* Bearer tokens and their cache.                                          *)

Till(t) == t.iss + t.ttl - Latency
\* Mutant: a token is good until the very end of its time.
TokenExpiredLate(t) == t.iss = -1 \/ t.iss + t.ttl < tick
\* A token without a time of issue counts as expired.
TokenExpired(t) == t.iss = -1 \/ Till(t) < tick
GetToken(c) ==
  /\ calls[c].at = "bearer"
  /\ LET k == cacheKey(ScopesOf(c)) IN
     IF k \in DOMAIN tokens /\ ~TokenExpired(tokens[k])
     THEN calls' = [calls EXCEPT ![c] = [@ EXCEPT !.at = "send", !.hitAt = tick, !.sign = Signed, !.tok = [key |-> k, iss |-> tokens[k].iss, ttl |-> tokens[k].ttl]]]
     ELSE CallGoes(c, IF HasOwn THEN "cred" ELSE "fetch")
  /\ UNCHANGED <<Around, inner, initLock, tokens, cred, roCopy, authFaults, authPast>>
\* A call with ttl 0 is one whose token comes without a time of issue.
FetchToken(c) ==
  /\ calls[c].at = "fetch"
  /\ \/ AuthFault /\ AuthCallEnds(c, "error")
     \/ /\ UNCHANGED authFaults
        /\ calls' = [calls EXCEPT ![c] = [Cleared(@) EXCEPT !.at = "save", !.sign = Signed,
                       !.tok = [key |-> cacheKey(ScopesOf(c)), iss |-> IF calls[c].ttl = 0 THEN -1 ELSE tick, ttl |-> calls[c].ttl]]]
  /\ UNCHANGED <<Around, inner, initLock, tokens, cred, roCopy, authPast>>
\* When the cache is full all expired tokens go, or else one that expires first.
Victims(m) ==
  LET old == {k \in DOMAIN m : TokenExpired(m[k])}
      first == {k \in DOMAIN m : \A l \in DOMAIN m : Till(m[k]) <= Till(m[l])} IN
  IF Cardinality(DOMAIN m) < TokenRoom THEN {{}} ELSE IF old # {} THEN {old} ELSE {{k} : k \in first}
SaveToken(c) ==
  /\ calls[c].at = "save"
  /\ \E gone \in Victims(tokens) :
       LET t == calls[c].tok IN
       tokens' = [k \in (DOMAIN tokens \ gone) \union {t.key} |-> IF k = t.key THEN [iss |-> t.iss, ttl |-> t.ttl] ELSE tokens[k]]
  /\ CallGoes(c, "send")
  /\ UNCHANGED <<Around, inner, initLock, cred, roCopy, authFaults, authPast>>

---------------------------------------------------------------------------
(* Temporary credentials of aliacr, tencent and aws, which have no lock.   *)

Writing == {"first", "second", "third", "fourth"}
OthersWriting(c) == \E d \in DOMAIN calls \ {c} : calls[d].at \in Writing
\* isCacheTokenValid of aliacr and tencent.
CachedValid == cred.till # -1 /\ tick <= cred.till
\* aws looks at the pointers first.
CheckCred(c) ==
  /\ calls[c].at = "cred"
  /\ calls' = [calls EXCEPT ![c] = [@ EXCEPT !.checkAt = tick,
       !.at = IF client.kind = "aws" THEN (IF cred.there /\ cred.till # -1 THEN "expiry" ELSE "ask")
              ELSE IF CachedValid THEN "use" ELSE "ask"]]
  /\ UNCHANGED <<Around, inner, initLock, tokens, cred, roCopy, authFaults, authPast>>
\* isTokenValid of aws follows the pointer to the expiry, and forgets what expired in two steps.
CheckExpiry(c) ==
  /\ calls[c].at = "expiry"
  /\ IF cred.till = -1 THEN AuthCallEnds(c, "panic") /\ UNCHANGED <<cred, authPast>>
     ELSE IF tick <= cred.till THEN calls' = [calls EXCEPT ![c] = [@ EXCEPT !.at = "use", !.checkAt = tick]] /\ UNCHANGED <<cred, authPast>>
     ELSE CallGoes(c, "forget") /\ cred' = [cred EXCEPT !.till = -1] /\ authPast' = [authPast EXCEPT !.forgot = TRUE]
  /\ UNCHANGED <<Around, inner, initLock, tokens, roCopy, authFaults>>
ForgetCred(c) ==
  /\ calls[c].at = "forget"
  /\ cred' = [cred EXCEPT !.there = FALSE] /\ CallGoes(c, "ask")
  /\ UNCHANGED <<Around, inner, initLock, tokens, roCopy, authFaults, authPast>>
\* The service issues a credential; aws keeps the shorter of its life and an hour.
AskCred(c) ==
  /\ calls[c].at = "ask"
  /\ \/ AuthFault /\ AuthCallEnds(c, "error") /\ UNCHANGED authPast
     \/ /\ UNCHANGED authFaults
        /\ authPast' = [authPast EXCEPT !.ends = Append(@, tick + CredLife)]
        /\ calls' = [calls EXCEPT ![c] = [@ EXCEPT !.at = "first", !.mine = Len(authPast.ends) + 1,
                       !.till = IF client.kind = "aws" /\ AwsLife < CredLife THEN tick + AwsLife ELSE tick + CredLife]]
  /\ UNCHANGED <<Around, inner, initLock, tokens, cred, roCopy>>
\* aliacr writes the expiry before user and password; tencent replaces user and password at
\* once, then the expiry; aws writes the fields of whatever credential the pointer then leads to.
AliacrWrites(at, n, till) ==
  CASE at = "first" -> [cred EXCEPT !.till = till] [] at = "second" -> [cred EXCEPT !.user = n] [] OTHER -> [cred EXCEPT !.pass = n]
TencentWrites(at, n, till) == IF at = "first" THEN [cred EXCEPT !.user = n, !.pass = n] ELSE [cred EXCEPT !.till = till]
AwsWrites(at, n, till) ==
  CASE at = "first" -> [cred EXCEPT !.there = TRUE, !.user = 0, !.pass = 0]
    [] at = "second" -> [cred EXCEPT !.user = n] [] at = "third" -> [cred EXCEPT !.pass = n] [] OTHER -> [cred EXCEPT !.till = till]
AfterWrite(at) ==
  CASE at = "first" -> "second"
    [] at = "second" -> IF client.kind = "tencent" THEN "use" ELSE "third"
    [] at = "third" -> IF client.kind = "aliacr" THEN "use" ELSE "fourth"
    [] OTHER -> "use"
WriteCred(c) ==
  /\ calls[c].at \in Writing
  /\ LET at == calls[c].at
         n == calls[c].mine
         till == calls[c].till IN
     IF client.kind = "aws" /\ at \in {"second", "third"} /\ ~cred.there
     THEN AuthCallEnds(c, "panic") /\ UNCHANGED <<cred, authPast>>
     ELSE /\ cred' = CASE client.kind = "aliacr" -> AliacrWrites(at, n, till) [] client.kind = "tencent" -> TencentWrites(at, n, till) [] OTHER -> AwsWrites(at, n, till)
          /\ authPast' = [authPast EXCEPT !.overlap = @ \/ OthersWriting(c)]
          /\ CallGoes(c, AfterWrite(at))
  /\ UNCHANGED <<Around, inner, initLock, tokens, roCopy, authFaults>>
UseCred(c) ==
  /\ calls[c].at = "use"
  /\ IF ~cred.there THEN AuthCallEnds(c, "panic")
     ELSE calls' = [calls EXCEPT ![c] = [@ EXCEPT !.at = IF client.kind = "aws" THEN "send" ELSE "fetch", !.sign = "basic", !.credAt = tick,
                                           !.used = <<cred.user, cred.pass>>, !.mixed = OthersWriting(c)]]
  /\ UNCHANGED <<Around, inner, initLock, tokens, cred, roCopy, authFaults, authPast>>

---------------------------------------------------------------------------
(* The request goes out, and what happens around it.                       *)

SendCall(c) ==
  /\ calls[c].at = "send" /\ initLock # c
  /\ \/ AuthFault /\ AuthCallEnds(c, "error")
     \/ calls' = [calls EXCEPT ![c] = [Cleared(@) EXCEPT !.at = "over", !.out = "sent", !.since = IF calls[c].hitAt # -1 THEN tick ELSE -1, !.passed = -1]] /\ UNCHANGED authFaults
  /\ UNCHANGED <<Around, inner, initLock, tokens, cred, roCopy, authPast>>
AuthTick ==
  /\ tick < client.horizon /\ tick' = tick + 1
  /\ UNCHANGED <<client, roMode, inner, initLock, tokens, cred, roCopy, calls, authFaults, authPast>>
\* An administrator makes the system read-only.
TurnReadOnly ==
  /\ client.kind = "core" /\ ~roMode
  /\ roMode' = TRUE /\ authPast' = [authPast EXCEPT !.on = tick]
  /\ UNCHANGED <<tick, client, inner, initLock, tokens, cred, roCopy, calls, authFaults>>

RegistryAuthNext ==
  \/ AuthTick \/ TurnReadOnly \/ Unlock
  \/ \E c \in DOMAIN calls :
       \/ Intercept(c) \/ LoadReadOnly(c) \/ KeepReadOnly(c) \/ ChooseAuthorizer(c) \/ LockAuthorizer(c) \/ Initialize(c) \/ Install(c)
       \/ IsTarget(c) \/ BasicAuth(c) \/ AzureToken(c) \/ GetToken(c) \/ FetchToken(c) \/ SaveToken(c)
       \/ CheckCred(c) \/ CheckExpiry(c) \/ ForgetCred(c) \/ AskCred(c) \/ WriteCred(c) \/ UseCred(c) \/ SendCall(c)

---------------------------------------------------------------------------
(* Properties.                                                             *)

\* A token from the cache that is sent within the latency of the look at it has not expired.
CachedTokenGood ==
  \A c \in DOMAIN calls : calls[c].out = "sent" /\ calls[c].hitAt # -1 /\ calls[c].since - calls[c].hitAt <= Latency =>
    calls[c].since <= calls[c].tok.iss + calls[c].tok.ttl
\* A request carries a token for its own scopes; one to another host carries none, but for
\* aliacr, tencent and the lists of tags of azure, which do not look at the host.
TokenFits ==
  \A c \in DOMAIN calls : calls[c].sign = "bearer" =>
    LET azure == client.kind = "azure" /\ calls[c].path = "tags" IN
    /\ calls[c].host \/ HasOwn \/ azure
    /\ calls[c].tok.key = IF azure THEN MetadataScope(calls[c].repo) ELSE ScopesOf(c)
\* The cache of tokens keeps to its capacity, whichever requests save their tokens at once.
TokensBounded == Cardinality(DOMAIN tokens) <= TokenRoom
\* One request at a time sets the authorizer up, what is set stays, and a request fails on an
\* authorizer without content only while another one is assigning it.
AuthorizerSet ==
  /\ inner \in {"nil", "half", Challenged}
  /\ Cardinality({c \in DOMAIN calls : calls[c].at \in {"init", "install"}}) <= 1
  /\ \A c \in DOMAIN calls : calls[c].at = "target" => inner # "nil"
  /\ (\E c \in DOMAIN calls : calls[c].out = "panic") /\ client.kind # "aws" => authPast.halves
\* User and password that are used belong to one credential; with aliacr and aws unless another
\* request is writing them, or two requests wrote theirs at once.
CredWhole ==
  \A c \in DOMAIN calls : calls[c].credAt # -1 =>
    \/ calls[c].used[1] = calls[c].used[2]  /\ calls[c].used[1] # 0
    \/ client.kind # "tencent" /\ (calls[c].mixed \/ authPast.overlap)
\* A credential that is used had not expired when the request looked at it, with the same exceptions;
\* tencent may give one the expiry of another when two requests write theirs at once.
CredFresh ==
  \A c \in DOMAIN calls : calls[c].credAt # -1 =>
    \/ \A n \in {calls[c].used[1], calls[c].used[2]} \ {0} : calls[c].checkAt <= authPast.ends[n]
    \/ client.kind = "aliacr" /\ calls[c].mixed
    \/ authPast.overlap
\* aws fails on a credential that is gone only after one that had expired was forgotten.
PanicsOnExpiry == (\E c \in DOMAIN calls : calls[c].out = "panic") /\ client.kind = "aws" => authPast.forgot
\* A change passes the interceptor only for as long after the system became read-only as the
\* copy of the mode is kept, counted from when the mode was loaded.
ReadOnlyKept ==
  \A c \in DOMAIN calls : calls[c].passed # -1 /\ authPast.on # -1 => calls[c].passed - authPast.on <= ReadOnlyFor + authPast.slow
RegistryAuthSound == CachedTokenGood /\ TokenFits /\ TokensBounded /\ AuthorizerSet /\ CredWhole /\ CredFresh /\ PanicsOnExpiry /\ ReadOnlyKept
=============================================================================
