---------------------------- MODULE MCRegistries ----------------------------
(***************************************************************************)
(* Scenarios of the adapters of registries (Adapters) and of the requests  *)
(* of one client of a registry (RegistryAuth).                             *)
(***************************************************************************)
EXTENDS Adapters, RegistryAuth, TLC

---------------------------------------------------------------------------
(* A registry of up to four repositories, a fetch with a filter, other     *)
(* calls, requests that fail and changes by others.                        *)

RA == <<"n1", "a">>
RAB == <<"n1", "ab">>
RB == <<"n1", "b">>
RC == <<"n2", "a">>
HubOrder == <<RA, RAB, RB, RC>>
HubTags == (RA :> <<"v1", "w1", "v2">>) @@ (RAB :> <<"w1">>) @@ (RB :> <<"v1">>) @@ (RC :> <<>>)
GoodAccount == Account("key", TRUE, TRUE, TRUE, TRUE)

NoName == NameFilter(FALSE, <<>>, <<>>, "", {})
\* n1/**, {n1,n3}/*, **/a, n1/{a,ab}, n2/b
InN1 == NameFilter(TRUE, <<>>, <<<<"n1", "">>>>, "", {RA, RAB, RB})
InTwo == NameFilter(TRUE, <<>>, <<<<"n1", "">>, <<"n3", "">>>>, "", {RA, RAB, RB})
NamedA == NameFilter(TRUE, <<>>, <<>>, "a", {RA, RC})
Both == NameFilter(TRUE, <<RA, RAB>>, <<<<"n1", "">>>>, "", {RA, RAB})
MissingRepo == NameFilter(TRUE, <<<<"n2", "b">>>>, <<<<"n2", "">>>>, "", {<<"n2", "b">>})

FetchOf(kind, filter, want) == NewFetch(kind, GoodAccount, filter, want)
AllTags == {"v1", "v2", "w1"}
VTags == {"v1", "v2"}
AdapterScene(f, has, moves, faults, cs) == <<f, has, moves, faults, cs>>
ThreeIn == {RA, RAB, RC}
AdapterScenes ==
  \* Every adapter, every filter.
  {AdapterScene(FetchOf(k, f, VTags), ThreeIn, 0, 0, <<>>) :
     k \in {"native", "dockerhub", "dtr", "aliacr", "tencent", "jfrog", "gitlab", "huawei", "github"}, f \in {NoName, InN1, NamedA, Both}}
  \union {AdapterScene(FetchOf(k, InTwo, AllTags), {RA, RC}, 0, 0, <<>>) : k \in {"tencent", "dockerhub", "aliacr", "gitlab"}}
  \union {AdapterScene(FetchOf(k, MissingRepo, AllTags), {RA, RC}, 0, 0, <<>>) : k \in {"native", "github", "jfrog", "gitlab", "tencent"}}
  \* Requests that fail.
  \union {AdapterScene(FetchOf(k, Both, AllTags), ThreeIn, 0, 1, <<>>) : k \in {"native", "dtr", "aliacr", "tencent", "gitlab", "dockerhub", "jfrog"}}
  \union {AdapterScene(FetchOf(k, NoName, AllTags), {RA}, 0, 1, <<>>) : k \in {"native", "dtr", "huawei", "jfrog"}}
  \union {AdapterScene(NewFetch(k, Account("broken", FALSE, FALSE, FALSE, FALSE), NoName, AllTags), {RA}, 0, 0, <<>>) : k \in {"dockerhub", "aliacr", "tencent", "gitlab", "quay"}}
  \* Changes while the fetch runs.
  \union {AdapterScene(FetchOf(k, InN1, VTags), has, 1, 0, <<>>) :
     k \in {"native", "jfrog", "dtr", "dockerhub", "aliacr", "tencent", "gitlab"}, has \in {{RA, RB, RC}, {RA, RAB, RB}}}
  \* Other calls.
  \union {AdapterScene(NoFetch, {RA}, 0, n, <<Chore("prepare", k, <<RB, RAB>>, r), Chore("prepare", k, <<RC, RB>>, r)>>) :
     k \in {"dockerhub", "dtr", "jfrog", "tencent", "aws"}, r \in {""}, n \in {0, 1}}
  \union {AdapterScene(NoFetch, {RA}, 0, 1, <<Chore("prepare", k[1], <<RC, RB, RC>>, k[2])>>) :
     k \in {<<"dockerhub", "">>, <<"dtr", "">>, <<"jfrog", "">>, <<"tencent", "">>, <<"aws", "">>, <<"quay", "token">>, <<"quay", "">>,
            <<"huawei", "">>, <<"huawei", "refused">>, <<"native", "">>}}
  \union {AdapterScene(NoFetch, {RA}, 0, 0, <<Chore("prepare", k[1], <<RC>>, k[2]), Chore("prepare", k[1], <<RC>>, k[2])>>) : k \in {<<"huawei", "">>, <<"quay", "token">>, <<"aws", "">>}}
  \union {AdapterScene(NoFetch, {RA}, 0, IF k = "gcr" THEN 2 ELSE 1, <<Chore("delete", k, <<RA>>, r)>>) : k \in {"dockerhub", "tencent", "huawei", "aws", "gcr", "github"}, r \in {"v1", "d1", "none"}}
  \union {AdapterScene(NoFetch, {RA}, 0, 0, <<Chore("delete", k, <<>>, "v1"), Chore("delete", "gcr", <<RA>>, "v2")>>) : k \in {"dockerhub", "tencent", "gcr"}}
  \union {AdapterScene(NoFetch, {RA}, 0, 1, <<Chore("upload", "jfrog", <<RA>>, "d3")>>)}
NoAdapter == AdapterScene(NoFetch, {}, 0, 0, <<>>)

AdapterScenario(x) ==
  /\ fetch = x[1] /\ listers = <<>> /\ chores = x[5] /\ hubFaults = x[4] /\ hubMoves = x[3]
  /\ hub = [order |-> HubOrder, has |-> x[2], spaces |-> {Space(r) : r \in x[2]}, tags |-> HubTags, heads |-> {<<"v1", "d1">>, <<"v2", "d1">>, <<"w1", "d2">>},
            images |-> {"d1", "d2"}, blobs |-> {}, inside |-> {<<"a", "a">>, <<"a", "ab">>, <<"ab", "ab">>, <<"b", "b">>, <<"b", "ab">>}]
  /\ hubPast = [always |-> {}, ever |-> {}, moved |-> FALSE, broke |-> FALSE]

---------------------------------------------------------------------------
(* Two or three requests of one client; that of the own registry is set up. *)

ClientOf(kind, challenge, user, blank, horizon) == [kind |-> kind, challenge |-> challenge, user |-> user, blank |-> blank, horizon |-> horizon]
\* old: a credential is there that has expired.
AuthScene(cl, cs, faults, old) == <<cl, cs, faults, old>>
PullA == AuthCall("GET", "manifest", "a", "", TRUE, 3)
PullB == AuthCall("HEAD", "blob", "b", "", TRUE, 2)
PushA == AuthCall("PUT", "manifest", "a", "", TRUE, 3)
MountA == AuthCall("POST", "upload", "a", "b", TRUE, 2)
OtherHost == AuthCall("PATCH", "upload", "a", "", FALSE, 2)
ListA == AuthCall("GET", "tags", "a", "", TRUE, 2)
Catalog == AuthCall("GET", "catalog", "", "", TRUE, 2)
RemoveB == AuthCall("DELETE", "manifest", "b", "", TRUE, 0)
AuthScenes ==
  \* Tokens: their cache at its limit, and a client set up by several requests at once.
  {AuthScene(ClientOf("plain", "bearer", TRUE, FALSE, 1), cs, 0, FALSE) : cs \in {<<PullA, PullB, MountA>>, <<ListA, RemoveB, PullB>>}}
  \union {AuthScene(ClientOf("plain", "bearer", TRUE, FALSE, 4), cs, 0, FALSE) : cs \in {<<PullA, PullA>>, <<PullB, ListA>>}}
  \union {AuthScene(ClientOf("plain", ch, u, FALSE, 0), <<PushA, OtherHost>>, 1, FALSE) : ch \in {"none", "basic", "bearer", "other"}, u \in BOOLEAN}
  \union {AuthScene(ClientOf(k, ch, TRUE, b, 0), <<ListA, Catalog>>, 1, FALSE) : k \in {"quay", "azure"}, ch \in {"bearer", "basic"}, b \in BOOLEAN}
  \union {AuthScene(ClientOf("basic", "basic", u, FALSE, 0), <<PushA, PullB>>, 0, FALSE) : u \in BOOLEAN}
  \* The system becomes read-only.
  \union {AuthScene(ClientOf("core", "basic", TRUE, FALSE, 2), <<PushA, RemoveB>>, 0, FALSE), AuthScene(ClientOf("core", "basic", TRUE, FALSE, 1), <<PushA, PullA>>, 1, FALSE)}
  \* Temporary credentials.
  \union {AuthScene(ClientOf(k, "bearer", TRUE, FALSE, IF old THEN 2 ELSE 1), <<PullA, PullB>>, 0, old) : k \in {"aliacr", "tencent", "aws"}, old \in BOOLEAN}
  \union {AuthScene(ClientOf(k, "bearer", TRUE, FALSE, 1), <<PullA, OtherHost>>, 1, TRUE) : k \in {"aliacr", "tencent", "aws"}}
NoAuthScene == AuthScene(ClientOf("plain", "none", FALSE, FALSE, 0), <<NoAuthCall>>, 0, FALSE)

AuthScenario(x) ==
  /\ client = x[1] /\ calls = x[2] /\ authFaults = x[3] /\ tick = IF x[4] THEN 1 ELSE 0
  /\ inner = (IF x[1].kind = "core" THEN "basic" ELSE "nil") /\ initLock = 0 /\ tokens = <<>> /\ roMode = FALSE /\ roCopy = [val |-> FALSE, till |-> -1]
  /\ cred = IF x[4] THEN [there |-> TRUE, user |-> 1, pass |-> 1, till |-> 0] ELSE [there |-> x[1].kind # "aws", user |-> 0, pass |-> 0, till |-> -1]
  /\ authPast = [NoAuthPast EXCEPT !.ends = IF x[4] THEN <<0>> ELSE <<>>]
=============================================================================
