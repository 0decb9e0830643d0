----------------------------- MODULE MCWorkers -----------------------------
(***************************************************************************)
(* The scenarios of Preheat, Events and Caches.                            *)
(***************************************************************************)
EXTENDS Preheat, Events, Caches

---------------------------------------------------------------------------
(* Two projects, p with images and q without.                              *)

Agent(name, vendor, mode, info) ==
  [name |-> name, vendor |-> vendor, endpoint |-> "url", mode |-> mode, info |-> info, enabled |-> TRUE, default |-> TRUE]
Fly == Agent("fly", "dragonfly", "NONE", {})
Krk == Agent("krk", "kraken", "NONE", {})

Ware(d, tags, labels, scan, sev) == [project |-> "p", repo |-> "x", digest |-> d, tags |-> tags, labels |-> labels, scan |-> scan, sev |-> sev, type |-> "IMAGE"]
D1 == Ware("d1", {<<"v1", TRUE>>, <<"v2", FALSE>>}, {"l"}, "success", 3)
D2 == Ware("d2", {<<"v3", TRUE>>}, {}, "missing", -1)
MCWares == {D1, D2, [Ware("d3", {<<"v1", TRUE>>}, {}, "success", -1) EXCEPT !.repo = "y", !.type = "CHART"]}

House(trust, prevent, sev) == [live |-> TRUE, trust |-> trust, prevent |-> prevent, sev |-> sev]
Open == House(FALSE, FALSE, -1)

RepoF(hits) == WFilter("repository", "string", hits, 0, FALSE)
WTagF(hits) == WFilter("tag", "string", hits, 0, FALSE)
Warm(name, filters, trigger, cron) ==
  [name |-> name, project |-> "p", provider |-> 1, filters |-> filters, trigger |-> trigger, cron |-> cron, enabled |-> TRUE]
AnyWarm(name, trigger, cron) == Warm(name, <<RepoF({}), WTagF({"v1", "v3"})>>, trigger, cron)

MCFilterTexts == {
  <<RepoF({"x"})>>, <<WTagF({"v1"}), RepoF({"x"})>>, <<WFilter("signature", "bool", {}, 0, FALSE)>>, <<>>, <<WFilter("missing", "nil", {}, 0, FALSE)>>,
  <<RepoF({}), WFilter("vulnerability", "string", {}, 2, FALSE)>>, <<WTagF({"["}), RepoF({"x"})>>, <<WTagF({"["}), RepoF({"no"})>>,
  <<RepoF({}), WFilter("label", "string", {"l"}, 0, FALSE)>>, <<RepoF({}), WFilter("label", "list", {"l"}, 0, FALSE)>>, <<RepoF({}), WFilter("other", "string", {}, 0, FALSE)>>,
  <<RepoF({}), WFilter("vulnerability", "string", {}, -1, FALSE)>>}

\* Instances, policies, the settings of p, snags, errands.
PreheatScenes ==
  {<<<<Krk>>, <<>>, House(t, v, s), 0, <<Errand("newPol", 1, Warm("k", f, "manual", "")), Errand("manual", 1, 0)>>>>
     : t \in BOOLEAN, v \in BOOLEAN, s \in {-1, 0, 3, 4}, f \in MCFilterTexts}
  \union {<<<<[Krk EXCEPT !.mode = m, !.info = n]>>, <<AnyWarm("k", "manual", "")>>, Open, 0, <<Errand("manual", 1, 0)>>>>
     : m \in {"NONE", "BASIC", "OAUTH", "CUSTOM", "x"}, n \in {{}, {"token"}}}
  \union {
  <<<<>>, <<>>, Open, 0, <<Errand("newAgent", 1, Fly), Errand("newAgent", 2, [Krk EXCEPT !.name = "fly"]), Errand("newPol", 1, AnyWarm("k", "manual", ""))>>>>,
  <<<<Fly>>, <<AnyWarm("k", "manual", "")>>, Open, 0, <<Errand("dropAgent", 1, 0), Errand("newPol", 2, AnyWarm("k", "manual", "")), Errand("dropPol", 1, 0)>>>>,
  <<<<Fly, Krk>>, <<>>, Open, 0, <<Errand("setAgent", 2, [Krk EXCEPT !.default = TRUE, !.enabled = FALSE]), Errand("setAgent", 1, [Krk EXCEPT !.name = "bad name"]), Errand("newPol", 1, [AnyWarm("k", "manual", "") EXCEPT !.provider = 2])>>>>,
  <<<<Fly, Krk>>, <<>>, Open, 0, <<Errand("setAgent", 2, [Krk EXCEPT !.name = "fly"]), Errand("setAgent", 1, [Fly EXCEPT !.name = "krk"]), Errand("dropAgent", 1, 0)>>>>,
  <<<<Fly>>, <<>>, Open, 1, <<Errand("newPol", 1, AnyWarm("k", "scheduled", "daily")), Errand("newPol", 2, AnyWarm("k", "scheduled", "never")), Errand("setPol", 1, AnyWarm("j", "scheduled", "weekly"))>>>>,
  <<<<Fly>>, <<AnyWarm("k", "scheduled", "daily")>>, Open, 1, <<Errand("setPol", 1, AnyWarm("k", "manual", "")), Errand("setPol", 1, AnyWarm("k", "scheduled", "weekly")), Errand("dropPol", 1, 0)>>>>,
  <<<<Fly>>, <<AnyWarm("k", "event_based", "")>>, Open, 0, <<Errand("setPol", 1, AnyWarm("k", "scheduled", "daily")), Errand("setPol", 1, AnyWarm("k", "scheduled", "")), Errand("dropProject", "p", 0)>>>>,
  <<<<Krk>>, <<AnyWarm("k", "scheduled", "daily")>>, Open, 1, <<Errand("tick", 1, 0), Errand("dropPol", 1, 0), Errand("house", "p", House(TRUE, TRUE, 3))>>>>,
  <<<<Krk>>, <<AnyWarm("k", "manual", "")>>, House(TRUE, FALSE, -1), 1, <<Errand("manual", 1, 0), Errand("ware", 0, [D1 EXCEPT !.tags = {<<"v1", FALSE>>}]), Errand("dropProject", "p", 0)>>>>,
  <<<<Fly>>, <<Warm("k", <<WTagF({"v3"})>>, "manual", "")>>, Open, 0, <<Errand("manual", 1, 0), Errand("flip", 1, 0), Errand("stop", 1, [project |-> "p", name |-> "k"])>>>>,
  <<<<Fly>>, <<Warm("k", <<WTagF({"v3"})>>, "manual", "")>>, Open, 0, <<Errand("manual", 1, 0), Errand("stop", 1, [project |-> "q", name |-> "k"])>>>>,
  <<<<Krk, Fly>>, <<AnyWarm("k", "event_based", ""), [AnyWarm("j", "event_based", "") EXCEPT !.provider = 2]>>, Open, 0, <<Errand("push", 0, [project |-> "p", digest |-> "d1", tag |-> "v1"]), Errand("dropAgent", 2, 0), Errand("flip", 1, 0)>>>>,
  <<<<Krk>>, <<AnyWarm("k", "event_based", ""), Warm("j", <<>>, "event_based", "")>>, House(FALSE, TRUE, 4), 1, <<Errand("scanned", 0, [project |-> "p", digest |-> "d1", tag |-> ""]), Errand("labeled", 0, [project |-> "p", digest |-> "d3", tag |-> ""]), Errand("setPol", 1, AnyWarm("k", "manual", ""))>>>>,
  <<<<Krk>>, <<AnyWarm("k", "event_based", "")>>, Open, 1, <<Errand("push", 0, [project |-> "p", digest |-> "d2", tag |-> "v3"]), Errand("ware", 0, [D2 EXCEPT !.tags = {<<"v9", TRUE>>}]), Errand("labeled", 0, [project |-> "p", digest |-> "d2", tag |-> ""])>>>>,
  <<<<Krk>>, <<AnyWarm("k", "event_based", "")>>, Open, 1, <<Errand("push", 0, [project |-> "p", digest |-> "d2", tag |-> "v3"]), Errand("stop", 1, [project |-> "p", name |-> "k"])>>>>
  }

NoPreheat == <<<<>>, <<>>, Open, 0, <<>>>>

PreheatScenario(x) ==
  /\ agents = [i \in AgentIds |-> IF i <= Len(x[1]) THEN convertParamInstanceToModelInstance(x[1][i]) ELSE NoAgent]
  /\ warmPol = [p \in WarmPolicies |-> IF p <= Len(x[2]) THEN x[2][p] ELSE NoWarm]
  /\ warmCron = [p \in WarmPolicies |-> IF p <= Len(x[2]) THEN x[2][p].cron ELSE ""]
  /\ houses = [h \in {"p", "q"} |-> IF h = "p" THEN x[3] ELSE Open]
  /\ wares = (IF x[5] = <<>> THEN {} ELSE MCWares) /\ awake = AgentIds /\ warmRuns = <<>> /\ crossing = {} /\ snags = x[4]
  /\ errand = [e \in Errands |-> IF e <= Len(x[5]) THEN x[5][e] ELSE NoErrand]

---------------------------------------------------------------------------
(* Events of one repository with the artifacts a and b, tag t on a.        *)

Arg(art, tag, by, val) == [art |-> art, tag |-> tag, by |-> by, val |-> val]
DoPush(art, tag, val) == Doing("push", Arg(art, tag, "u", val))
DoPull(art, tag, by) == Doing("pull", Arg(art, tag, by, ""))
OnArt(op, art) == Doing(op, Arg(art, "", "u", ""))
Told(op, art, val) == Doing(op, Arg(art, "", "u", val))
AdminHook(op, i, p) == Doing(op, [id |-> i, pol |-> p])

Hook(name, types, targets) == [live |-> FALSE, name |-> name, enabled |-> TRUE, types |-> types, targets |-> targets]
H1 == [type |-> "http", addr |-> "h1"]
S1 == [type |-> "slack", addr |-> "s1"]
PushHook == Hook("k", <<"PUSH", "PULL">>, <<H1>>)
TwoHook == Hook("k", <<"PUSH">>, <<H1, S1>>)
SeenHook == Hook("j", <<"SCAN_COMPLETED", "SCAN_FAILED", "REPLICATION", "TAG_RETENTION">>, <<S1>>)
QuotaHook == Hook("j", <<"QUOTA_EXCEED", "QUOTA_WARNING", "DELETE", "DELETE">>, <<H1>>)

Knobs == [notify |-> TRUE, noTime |-> FALSE, noCount |-> FALSE, noPullAudit |-> FALSE, skipDb |-> FALSE, sync |-> FALSE, skipScanner |-> FALSE]
Ticks(n) == Doing("tick", [hours |-> n])
PurgeOf(h, ops, dry) == Doing("purge", [hours |-> h, ops |-> ops, dry |-> dry])

\* Settings, webhook policies, mishaps, what happens.
EventScenes ==
  {<<[Knobs EXCEPT !.notify = FALSE, !.sync = TRUE], <<>>, 0, <<DoPull("a", "t", "u"), DoPull("a", "", ""), f>>>> : f \in {NoDoing, Doing("crash", 0)}}
  \union {<<[Knobs EXCEPT !.notify = FALSE, !.noPullAudit = TRUE], <<>>, 0, <<DoPull("a", "t", "u"), f>>>> :
     f \in {OnArt("delete", "a"), DoPush("b", "t", ""), Doing("crash", 0), OnArt("dropRepo", "a"), DoPull("a", "", "")}}
  \union {<<[Knobs EXCEPT !.notify = FALSE, ![n] = TRUE], <<>>, 0, <<DoPull("a", "", "scanner"), Doing("set", Knobs), g>>>> :
     n \in {"noTime", "noCount", "skipDb", "skipScanner"}, g \in {NoDoing, OnArt("newTag", "a")}}
  \union {<<Knobs, <<>>, 0, <<OnArt(op, "a"), Ticks(t), PurgeOf(h, o, dry)>>>> : op \in {"delete", "newProject", "newTag"}, t \in {1, 3}, h \in {-1, 0, 1, 5}, o \in {{"create"}, {"delete", "other"}, {}}, dry \in BOOLEAN}
  \union {<<Knobs, <<SeenHook>>, 1, <<Told(op, "a", v)>>>> : op \in {"scanned", "replicated", "retained"}, v \in {"Success", "Error", "Running", "dry", "none"}}
  \union {<<[Knobs EXCEPT !.notify = n], <<PushHook, QuotaHook>>, 0, <<DoPush("b", t, v)>>>> : n \in BOOLEAN, t \in {"", "t"}, v \in {"", "exceeded", "warned"}}
  \union {<<Knobs, <<PushHook>>, 0, <<DoPush("b", "", ""), g>>>> :
     g \in {AdminHook("dropHook", 1, PushHook), AdminHook("setHook", 1, Hook("k", <<"PUSH">>, <<S1>>)), OnArt("dropTag", "a")}}
  \union {
  <<Knobs, <<TwoHook>>, 0, <<DoPush("b", "t", "")>>>>,
  <<Knobs, <<PushHook>>, 1, <<DoPush("b", "t", "warned"), Doing("crash", 0)>>>>,
  <<Knobs, <<PushHook>>, 2, <<DoPush("b", "t", "warned")>>>>,
  <<Knobs, <<QuotaHook>>, 0, <<OnArt("delete", "a"), OnArt("label", "a")>>>>,
  <<[Knobs EXCEPT !.notify = FALSE, !.noTime = TRUE], <<>>, 0, <<DoPull("a", "", "u"), Doing("set", [Knobs EXCEPT !.notify = FALSE]), DoPull("a", "", "u")>>>>,
  <<Knobs, <<PushHook>>, 0, <<Doing("proxyPull", Arg("a", "t", "", "")), Told("pull", "a", "head")>>>>,
  <<Knobs, <<>>, 0, <<AdminHook("newHook", 1, PushHook), AdminHook("newHook", 2, [QuotaHook EXCEPT !.name = "k"]), DoPush("a", "", "")>>>>,
  <<Knobs, <<PushHook>>, 0, <<AdminHook("setHook", 1, Hook("k", <<"none">>, <<H1>>)), AdminHook("dropHook", 1, PushHook), AdminHook("newHook", 2, Hook("k", <<"PUSH">>, <<>>))>>>>,
  <<Knobs, <<SeenHook>>, 0, <<Told("scanned", "a", "Success"), OnArt("dropRepo", "a"), OnArt("dropProject", "a")>>>>,
  <<[Knobs EXCEPT !.notify = FALSE], <<>>, 0, <<DoPull("a", "t", "u"), OnArt("dropRepo", "a"), OnArt("dropProject", "a")>>>>
  }
NoEvents == <<Knobs, <<>>, 0, <<>>>>

EventScenario(x) ==
  /\ knobs = x[1]
  /\ hookPol = [i \in HookPolicies |-> IF i <= Len(x[2]) THEN [x[2][i] EXCEPT !.live = TRUE] ELSE NoHookPol]
  /\ mishaps = x[3] /\ past = [NoPast EXCEPT !.budget = x[3]]
  /\ deed = [d \in Deeds |-> IF d <= Len(x[4]) THEN x[4][d] ELSE NoDoing]
  /\ scope = [project |-> TRUE, arts |-> {"a", "b"}, tag |-> "a", tagRow |-> 1, autoScan |-> TRUE, chain |-> TRUE]
  /\ news = {} /\ errands = {} /\ hookJobs = <<>> /\ auditLog = {} /\ stash = EmptyStash
  /\ pullCols = [count |-> 0, art |-> [a \in {"a", "b"} |-> 0], tag |-> <<0, 0>>] /\ hour = 0

---------------------------------------------------------------------------
(* A resource, a reader, a writer and a third call.                        *)

Readers == {Call("artifact.Get", "id1"), Call("artifact.GetByDigest", ""), Call("manifest.Get", "")}
RepoReaders == {Call("repository.Get", "id1"), Call("repository.GetByName", "")}
MetaReaders == {Call("meta.Get", k) : k \in MetaKeys}
\* The calls, how often the cache fails, the medium.
CacheScenes ==
  {<<<<r, Call("artifact.Delete", "id1"), t>>, 0, "redis">> : r \in Readers, t \in {Call("create", "")}}
  \union {<<<<r, w>>, 1, m>> : r \in Readers, w \in {Call("artifact.Delete", "id1"), Call("artifact.UpdatePullTime", "id1")}, m \in {"redis", "memory"}}
  \union {<<<<r, w, t>>, 0, "redis">> : r \in RepoReaders, w \in {Call("repository.Delete", "id1"), Call("repository.AddPullCount", "id1")},
     t \in {Call("repository.Update", ""), Call("create", "")}}
  \union {<<<<Call("project.Get", "name"), Call("project.Delete", "id1"), Call("create", "")>>, 1, "memory">>}
  \union {<<<<r, w>>, 1, "redis">> : r \in MetaReaders, w \in {Call("meta.Add", "q"), Call("meta.Add", "p"), Call("meta.Delete", "p"), Call("meta.Update", "p")}}
  \union {<<<<r, Call("meta.Update", "p"), Call("meta.Delete", "p")>>, 0, "memory">> : r \in MetaReaders}
  \union {<<<<r, Call("flush", ""), Call("meta.Update", "p")>>, 0, "redis">> : r \in MetaReaders}
NoCaches == <<<<>>, 0, "redis">>

\* The row and its metadata p, all of it in the cache.
CacheScenario(x) ==
  /\ ring = [c \in CacheCalls |-> IF c <= Len(x[1]) THEN x[1][c] ELSE NoCall]
  /\ outages = x[2] /\ medium = x[3]
  /\ cacheRow = [id |-> 1, ver |-> 1, p |-> 1, q |-> 0] /\ cachePend = NoPend(cacheRow)
  /\ seenRows = {cacheRow}
  /\ store = [k \in CacheKeys |-> IF k = "man" /\ \A i \in DOMAIN x[1] : x[1][i] \notin Readers THEN NoEntry ELSE [NoEntry EXCEPT !.val = View(k, cacheRow)]]
=============================================================================
