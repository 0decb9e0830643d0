----------------------------- MODULE MCContent -----------------------------
(* Scenarios for the parts that MCAdmin does not describe itself.            *)
EXTENDS Artifacts, Access, Logins, Sequences

---------------------------------------------------------------------------
(* Artifacts: an index of two images, one of them signed, an index of one,   *)
(* and an index of an index; repositories of two projects.                   *)

MCContents == {"a", "b", "ix", "iy", "nest", "sig"}
MCParts == [d \in MCContents |-> CASE d = "ix" -> {"a", "b"} [] d = "iy" -> {"b"} [] d = "nest" -> {"ix", "b"} [] OTHER -> {}]
MCSubject == [d \in MCContents |-> IF d = "sig" THEN "a" ELSE "none"]
Here(op, dg, tag) == Wish(op, "src", dg, tag, "none")

\* A scenario: stored in src, in dst, tags of src, rules of src and dst, requests
ArtScenes == {
  <<MCContents, {}, {<<"v1", "nest">>}, {}, {}, <<Here("delete", "nest", "none"), Here("tag", "b", "v2")>>>>,
  <<MCContents \ {"nest"}, {}, {}, {}, {}, <<Here("delete", "ix", "none"), Here("delete", "iy", "none"), Here("label", "b", "none")>>>>,
  <<MCContents \ {"nest"}, {}, {}, {}, {}, <<Here("delete", "ix", "none"), Here("push", "nest", "v1")>>>>,
  <<{"a", "b"}, {}, {<<"v1", "a">>}, {"v1"}, {}, <<Here("push", "b", "v1"), Here("untag", "a", "v1"), Here("rule", "none", "v1")>>>>,
  <<{"a", "b"}, {"a", "b"}, {<<"v1", "a">>}, {"v1"}, {}, <<Here("delete", "a", "none"), Wish("push", "dst", "a", "v1", "none")>>>>,
  <<{"a", "b"}, {}, {<<"v1", "a">>}, {}, {}, <<Here("push", "b", "v1"), Here("untag", "a", "v1"), Here("delete", "a", "none")>>>>,
  <<{"a"}, {}, {}, {}, {}, <<Here("push", "sig", "v2"), Here("delete", "a", "none"), Here("push", "a", "v1")>>>>,
  <<MCContents, {}, {<<"v1", "nest">>, <<"v2", "sig">>}, {}, {"v1"}, <<Wish("copy", "dst", "nest", "none", "src"), Wish("push", "dst", "b", "v1", "none"), Here("delete", "iy", "none")>>>>,
  <<MCContents, {"a"}, {<<"v2", "sig">>}, {}, {}, <<Wish("copy", "dst", "ix", "none", "src"), Wish("delete", "dst", "a", "none", "none")>>>>
  }

NoScene == <<{}, {}, {}, {}, {}, <<>>>>

ArtScenario(x) ==
  /\ aid = [k \in ArtKeys |-> IF (k[1] = "src" /\ k[2] \in x[1]) \/ (k[1] = "dst" /\ k[2] \in x[2]) THEN 1 ELSE 0]
  /\ refRows = UNION {{k} \X PartsOf(k) : k \in Stored}
  /\ tagRow = [t \in TagKeys |-> IF \E e \in x[3] : e[1] = t[2] /\ t[1] = "src"
                                 THEN [key |-> <<"src", (CHOOSE e \in x[3] : e[1] = t[2])[2]>>, id |-> 1] ELSE
                                 IF t = <<"dst", "v1">> /\ "b" \in x[2] THEN [key |-> <<"dst", "b">>, id |-> 1] ELSE NoTag]
  /\ accRows = {e \in Stored \X Stored : e[1][1] = e[2][1] /\ MCSubject[e[1][2]] = e[2][2]}
  /\ labelled = {} /\ immutable = [r \in Spaces |-> IF r = "src" THEN x[4] ELSE x[5]] /\ matcher = {}
  /\ order = [r \in Orders |-> IF r <= Len(x[6]) THEN x[6][r] ELSE OverWith(Here("label", "none", "none"))]
  /\ serial = 2 /\ broken = {}

---------------------------------------------------------------------------
(* Access: a project "p" with a member of each kind, a public one "q".      *)

MCGroupsOf == [u \in Folk |-> IF u = "dev" THEN {"g"} ELSE {}]
Wants(n, res, acts) == <<n, {res} \X acts>>
Local(who, op, questions, target) == Request("local", who, op, questions, target)
All4 == {"pull", "push", "delete", "scanner-pull"}
Issue(who, names) == Local(who, "issue", [i \in DOMAIN names |-> Wants(names[i], "repository", All4)], [i \in DOMAIN names |-> <<"repository", names[i]>>])
Use(t, questions) == Request("bearer", "nobody", "read", questions, t)
OnMembers(who, op, act, target) == Local(who, op, <<Wants(target[1], "member", {act})>>, target)
Reader == Local("dev", "read", <<Wants("p", "repository", {"push"}), Wants("q", "repository", {"pull"}), Wants("p", "repository", {"push"})>>, <<>>)
DropGroup == Local("root", "ungroup", <<Wants("system", "group", {"delete"})>>, <<"p", "g">>)
Publish(n) == Local("root", "publish", <<Wants(n, "self", {"update"})>>, <<n>>)
Drop(n) == Local("adm", "drop", <<Wants(n, "self", {"delete"})>>, <<n>>)

AccessScenes == {
  <<Reader, DropGroup, OnMembers("adm", "role", "update", <<"p", 2, "limitedGuest">>)>>,
  <<Reader, OnMembers("adm", "remove", "delete", <<"p", 2>>), OnMembers("adm", "add", "create", <<"p", <<"u", "dev">>, "guest">>)>>,
  <<OnMembers("adm", "add", "create", <<"p", <<"u", "new">>, "developer">>), OnMembers("adm", "add", "create", <<"p", <<"u", "new">>, "guest">>), OnMembers("adm", "role", "update", <<"p", 4, "other">>)>>,
  <<Local("nobody", "read", <<Wants("q", "repository", {"pull"}), Wants("q", "repository", {"list"}), Wants("p", "tag", {"list"})>>, <<>>), Publish("q"), Publish("p")>>,
  <<Issue("dev", <<"p", "q">>), Use(1, <<Wants("p", "repository", {"push"}), Wants("q", "repository", {"pull"})>>), OnMembers("adm", "remove", "delete", <<"p", 3>>)>>,
  <<Issue("adm", <<"p", "p">>), Use(1, <<Wants("p", "repository", {"delete"})>>), Drop("p"), Local("new", "found", <<>>, <<"p">>)>>,
  <<OnMembers("adm", "add", "create", <<"p", <<"u", "new">>, "guest">>), Drop("p"), Local("dev", "found", <<>>, <<"p">>)>>,
  <<Issue("root", <<"q", "none">>), Use(1, <<Wants("q", "repository", {"push"}), Wants("q", "repository", {"scanner-pull"})>>), Publish("q")>>,
  <<Local("nobody", "issue", <<<<"none", {}>>>>, <<<<"registry", "catalog">>>>), Use(1, <<Wants("q", "repository", {"pull"})>>), Local("nobody", "issue", <<>>, <<>>)>>,
  <<Request("proxy", "nobody", "read", <<Wants("q", "repository", {"push"}), Wants("p", "repository", {"pull"})>>, "q"), Request("secret", "nobody", "ungroup", <<Wants("system", "group", {"delete"})>>, <<"p", "g">>), OnMembers("adm", "add", "create", <<"p", <<"g", "g">>, "guest">>)>>,
  <<Local("nobody", "ungroup", <<Wants("system", "group", {"delete"})>>, <<"p", "g">>), Local("dev", "ungroup", <<Wants("system", "group", {"delete"})>>, <<"p", "g">>), OnMembers("adm", "add", "create", <<"p", <<"u", "new">>, "other">>)>>
  }

AccessScenario(x) ==
  /\ projRow = [n \in Names |-> [id |-> IF n = "p" THEN 1 ELSE 2, public |-> n = "q"]]
  /\ member = {[id |-> 1, pid |-> 1, who |-> <<"u", "adm">>, role |-> "projectAdmin"], [id |-> 2, pid |-> 1, who |-> <<"u", "dev">>, role |-> "guest"],
               [id |-> 3, pid |-> 1, who |-> <<"g", "g">>, role |-> "developer"]}
  /\ groups = {"g"} /\ serialNo = 4
  /\ call = [c \in Calls |-> IF c <= Len(x) THEN x[c] ELSE [Reader EXCEPT !.pc = "over", !.questions = <<>>]]
  /\ held = [c \in Calls |-> IF Watched(c) THEN Rights(c) ELSE {}]

---------------------------------------------------------------------------
(* Logins: the first account, one of amy; bob is only in the directory.     *)

Dn(d, n) == [dn |-> d, name |-> n]
MCDirectory == [n \in Tongues |->
  CASE n = "amy" -> [pw |-> "da", name |-> "amy", mail |-> "new", groups |-> <<Dn("d1", "g"), Dn("d2", "g")>>, admin |-> FALSE]
    [] n = "bob" -> [pw |-> "db", name |-> "bob", mail |-> "m2", groups |-> <<Dn("d1", "g")>>, admin |-> TRUE]
    [] n = "joe" -> [pw |-> "dj", name |-> "joe", mail |-> "none", groups |-> <<>>, admin |-> FALSE]
    [] OTHER -> [pw |-> "none", name |-> n, mail |-> "none", groups |-> <<>>, admin |-> FALSE]]
MCProvider == [s \in {"s1", "s2"} |-> [name |-> IF s = "s1" THEN "joe" ELSE "kim", mail |-> s, groups |-> <<Dn("none", "h")>>]]
Door(op, who, pw) == Visit(op, who, pw, 0, "none")
Desk(op, who, pw, target) == Visit(op, who, pw, 0, target)

LoginScenes == {
  <<"db", <<Door("basic", "amy", "pa"), Desk("delete", "x", "x", 2), Desk("create", "amy", "pn", "m3")>>>>,
  <<"db", <<Door("form", "m2", "pa"), Desk("password", "x", "pn", 2), Visit("session", "x", "x", 1, "none"), Visit("logout", "x", "x", 1, "none")>>>>,
  <<"db", <<Door("basic", "amy", "bad"), Door("basic", "amy", "pa"), Desk("sysadmin", "x", "x", 2), Desk("profile", "m1", "x", 2)>>>>,
  <<"db", <<Door("basic", "admin", "pz"), Desk("profile", "m3", "x", 1), Desk("delete", "x", "x", 1), Desk("create", "bob", "pn", "m3")>>>>,
  <<"ldap", <<Door("basic", "amy", "da"), Door("basic", "bob", "db"), Desk("delete", "x", "x", 2)>>>>,
  <<"ldap", <<Door("basic", "joe", "dj"), Door("form", "joe", "dj"), Desk("import", "joe", "x", "none")>>>>,
  <<"ldap", <<Door("basic", "admin", "pz"), Door("basic", "amy", "da"), Desk("newgroup", "x", "x", Dn("none", "g")), Desk("import", "zed", "x", "none")>>>>,
  <<"ldap", <<Door("basic", "bob", "db"), Desk("rename", "k", "x", 3), Desk("ungroup", "x", "x", 3), Door("basic", "bob", "bad")>>>>,
  <<"uaa", <<Door("basic", "amy", "da"), Door("basic", "joe", "dj"), Desk("delete", "x", "x", 2)>>>>,
  <<"uaa", <<Door("basic", "joe", "bad"), Door("form", "joe", "dj"), Desk("profile", "m3", "x", 1)>>>>,
  <<"http", <<Door("proxied", "joe", "dj"), Door("basic", "joe", "dj"), Door("proxied", "amy", "da")>>>>,
  <<"http", <<Door("proxied", "amy", "bad"), Door("proxied", "bob", "db"), Desk("delete", "x", "x", 2)>>>>,
  <<"oidc", <<Door("redirect", "x", "x"), Desk("callback", "s1", "x", 1), Desk("delete", "x", "x", 4), Door("basic", "joe", "random")>>>>,
  <<"oidc", <<Door("redirect", "x", "x"), Desk("callback", "s1", "x", 1), Desk("secret", "x", "own", 4), Door("idtoken", "s1", "x")>>>>,
  <<"oidc", <<Door("redirect", "x", "x"), Desk("callback", "s2", "x", 1), Visit("onboard", "ann", "x", 0, "none"), Visit("onboard", "amy", "x", 0, "none")>>>>,
  <<"oidc", <<Door("redirect", "x", "x"), Desk("callback", "s2", "x", 1), Visit("redirect", "x", "x", 1, "none"), Visit("callback", "s2", "x", 1, 3)>>>>,
  <<"oidc", <<Door("basic", "joe", "random"), Desk("secret", "x", "own", 4), Desk("delete", "x", "x", 4)>>>>,
  <<"oidc", <<Door("basic", "joe", "own"), Desk("secret", "x", "own", 4)>>>>,
  <<"oidc", <<Door("form", "amy", "pa"), Door("form", "admin", "pz"), Door("idtoken", "s2", "x"), Desk("callback", "s1", "x", 9)>>>>
  }

LoginScenario(x) ==
  /\ authMode = x[1]
  /\ account = {[id |-> 1, name |-> "admin", mail |-> "m1", pw |-> "pz", flag |-> TRUE, dead |-> FALSE, mark |-> 0],
                [id |-> 2, name |-> "amy", mail |-> "m2", pw |-> "pa", flag |-> FALSE, dead |-> FALSE, mark |-> 0]}
        \union IF authMode = "oidc" /\ ~\E i \in DOMAIN x[2] : x[2][i].who = "s2" THEN {[id |-> 4, name |-> "joe", mail |-> "s1", pw |-> "unused", flag |-> FALSE, dead |-> FALSE, mark |-> 0]} ELSE {}
  /\ oidcUser = {[uid |-> a.id, sub |-> "s1", secret |-> "random", token |-> "fresh"] : a \in {a \in account : a.name = "joe"}}
  /\ ugroup = IF \E i \in DOMAIN x[2] : x[2][i].op \in {"rename", "ungroup"} THEN {[id |-> 3, name |-> "g", dn |-> "d1"]} ELSE {}
  /\ frozen = {} /\ sess = [s \in Sids |-> NoSession] /\ nextRow = 5
  /\ visit = [v \in Visits |-> IF v <= Len(x[2]) THEN x[2][v] ELSE [Door("session", "x", "x") EXCEPT !.pc = "over"]]
  /\ seen = [v \in Visits |-> {}] /\ linked = {<<o.sub, o.uid>> : o \in oidcUser} /\ out = {}
=============================================================================
