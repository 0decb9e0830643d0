--------------------------- MODULE MCReplication ---------------------------
(***************************************************************************)
(* The scenarios of Transfer and Replicate.                                *)
(***************************************************************************)
EXTENDS Transfer, Replicate

---------------------------------------------------------------------------
(* Transfer: an index of two images; t1 and t2 are tags of the repository.  *)

Desc(kind, d) == [kind |-> kind, d |-> d]
MCRefs == [m \in {"idx", "m1", "m2", "m3"} |->
  CASE m = "idx" -> <<Desc("manifest", "m1"), Desc("manifest", "m2")>>
    [] m = "m1" -> <<Desc("blob", "l1"), Desc("foreign", "f"), Desc("blob", "l2")>>
    [] m = "m2" -> <<Desc("blob", "l1"), Desc("blob", "l3")>>
    [] OTHER -> <<Desc("blob", "l2")>>]
MCLayers == [l \in {"l1", "l2", "l3"} |-> IF l = "l2" THEN 5 ELSE 1]

\* The source's t1 and t2, the destination's, edits, jobs, troubles.
TransferScenes == {
  <<<<"m1", "none">>, <<"none", "none">>, {}, <<Job("copy", <<"t1">>, TRUE, TRUE)>>, 2>>,
  <<<<"idx", "m3">>, <<"none", "none">>, {}, <<Job("copy", <<"t1", "t2">>, TRUE, FALSE)>>, 2>>,
  <<<<"idx", "none">>, <<"m2", "m2">>, {}, <<Job("copy", <<"t1">>, TRUE, FALSE), Job("delete", <<"t2", "m2">>, TRUE, FALSE)>>, 1>>,
  <<<<"m3", "m2">>, <<"m2", "none">>, {<<"t2", "m3">>}, <<Job("copy", <<"t1", "t2">>, FALSE, FALSE), Job("copy", <<"t2">>, FALSE, FALSE)>>, 0>>,
  <<<<"m3", "none">>, <<"none", "none">>, {<<"t1", "none">>}, <<Job("copy", <<"t1">>, TRUE, FALSE), Job("copy", <<"t1">>, TRUE, FALSE)>>, 0>>,
  <<<<"m2", "m2">>, <<"m3", "none">>, {}, <<Job("copy", <<"t2", "m2">>, TRUE, TRUE), Job("deleteTag", <<"t1", "t2">>, TRUE, FALSE)>>, 1>>
  }

TransferScenario(x) ==
  /\ srcTag = [t \in {"t1", "t2"} |-> x[1][IF t = "t1" THEN 1 ELSE 2]]
  /\ dstTag = [t \in {"t1", "t2"} |-> x[2][IF t = "t1" THEN 1 ELSE 2]]
  /\ edits = x[3] /\ troubles = x[5]
  /\ dstManifest = {x[2][1], x[2][2]} \ {"none"}
  /\ dstBlob = UNION {{MCRefs[m][i].d : i \in DOMAIN MCRefs[m]} : m \in dstManifest}
  /\ uploads = <<>> /\ ranged \in (IF \E j \in DOMAIN x[4] : x[4][j].byChunk THEN BOOLEAN ELSE {TRUE}) /\ gone = {}
  /\ was = {<<t, dstTag[t]>> : t \in {"t1", "t2"}} \union {<<m, m>> : m \in dstManifest}
  /\ copier = [j \in Copiers |-> IF j <= Len(x[4]) THEN x[4][j] ELSE [Job("idle", <<>>, FALSE, FALSE) EXCEPT !.pc = "over"]]

---------------------------------------------------------------------------
(* Replicate: the source has two projects, lib being public.               *)

MCArt(n, d, tags, labels, subject, kids, top) == [repo |-> n, digest |-> d, tags |-> tags, labels |-> labels, subject |-> subject, kids |-> kids, top |-> top]
LibX == <<"lib", "x">>
MCShelf == {
  MCArt(LibX, "d1", {"v1", "v2"}, {"q"}, "none", {}, TRUE), MCArt(LibX, "s1", {}, {}, "d1", {}, TRUE),
  MCArt(LibX, "i1", {"v3"}, {}, "none", {"k1"}, TRUE), MCArt(LibX, "k1", {}, {}, "none", {}, FALSE), MCArt(LibX, "s2", {"sig"}, {}, "k1", {}, TRUE),
  MCArt(<<"dev", "x">>, "d2", {"v2"}, {}, "none", {}, TRUE), MCArt(<<"dev", "y", "z">>, "d3", {}, {"q"}, "none", {}, TRUE)}

Lit(n) == Comp("lit", {n}, {})
Alt(names, pad) == Comp("alt", names, pad)
Deep == Comp("deep", {}, {})
Star == Comp("star", {}, {})

NameF(path) == Filter("name", path, {}, {}, "")
TagF(hits, dec) == Filter("tag", <<>>, hits, {}, dec)
LabelF(labels, dec) == Filter("label", <<>>, {}, labels, dec)

MCPaths == {<<Lit("lib"), Deep>>, <<Lit("lib"), Lit("x")>>, <<Alt({"lib", "dev"}, {}), Star>>, <<Alt({"lib", "dev"}, {"dev"}), Deep>>,
            <<Star, Lit("x")>>, <<Lit("no"), Deep>>, <<Comp("nested", {"dev"}, {}), Star>>, <<Deep, Lit("z")>>, <<Alt({"lib", "dev"}, {"lib"}), Alt({"x", "y"}, {})>>}
MCRest == {<<>>, <<TagF({"v1"}, "")>>, <<TagF({"v2"}, "excludes")>>, <<TagF({"v1", "v2", "v3", ""}, "matches"), LabelF({"q"}, "")>>,
           <<LabelF({"q"}, "excludes")>>, <<TagF({"v1", "v2"}, ""), TagF({"v1"}, "excludes")>>}
MCFilters == {<<NameF(p)>> \o r : p \in MCPaths, r \in MCRest} \union MCRest \union {<<NameF(p), NameF(<<Deep, Lit("x")>>)>> : p \in MCPaths}

Pol(filters, ns, count) ==
  [name |-> "k", enabled |-> TRUE, src |-> "local", dst |-> "far", trigger |-> "manual", cron |-> <<>>, deletion |-> FALSE,
   ns |-> ns, count |-> count, filters |-> filters, speed |-> -1, parts |-> "atLeastTwo", srcKind |-> "harbor", dstKind |-> "harbor", orphan |-> FALSE]
EventPol(filters, deletion) == [Pol(filters, <<"m">>, 0) EXCEPT !.trigger = "event_based", !.deletion = deletion]
PullPol(filters) == [Pol(filters, <<"m">>, -9) EXCEPT !.src = "far", !.dst = "local", !.srcKind = "native"]
LegacyRow(items, kind) ==
  [Pol(<<>>, <<>>, -1) EXCEPT !.filters = items, !.trigger = [type |-> "", kind |-> kind, weekday |-> 9, offtime |-> 90061]]

Do(op, p, arg) == [op |-> op, p |-> p, arg |-> arg]
MCNames == {<<ns, c>> : ns \in {<<>>, <<"m">>, <<"m", "n">>, <<"old">>, <<"cache">>}, c \in {-9, 0, 1, 2}}

\* Rows, deeds, glitches.
ReplicateScenes ==
  {<<<<To(FromRequest(Pol(f, <<"m">>, 0)))>>, {Do("start", 1, 0)}, 0>> : f \in MCFilters}
  \union {<<<<To(FromRequest(PullPol(f)))>>, {Do("start", 1, 0)}, 0>> : f \in MCFilters}
  \union {<<<<To([FromRequest(Pol(<<>>, n[1], n[2])) EXCEPT !.parts = t, !.dstKind = k])>>, {Do("start", 1, 0)}, 0>>
            : n \in MCNames, t \in {"any", "two", "atLeastTwo"}, k \in {"harbor", "native"}}
  \union {
  <<<<LegacyRow(<<Item(Filter("", <<Lit("x")>>, {}, {}, ""), "repository"), Item(NameF(<<Lit("lib"), Deep>>), ""), Item(Filter("", <<>>, {"v1"}, {}, ""), "tag"), Item(Filter("", <<>>, {"v3"}, {}, ""), "label")>>, "Scheduled")>>, {Do("schedule", 1, 0)}, 0>>,
  <<<<LegacyRow(<<Item(NameF(<<Lit("lib"), Deep>>), ""), Item(Filter("", <<Lit("y")>>, {}, {}, ""), "repository")>>, "Immediate"), LegacyRow(<<>>, "None")>>, {Do("start", 1, 0), Do("push", 0, MCArt(LibX, "d9", {"v4"}, {}, "none", {}, TRUE))}, 0>>,
  <<<<NoPol>>, {Do("write", 1, EventPol(<<NameF(<<Lit("lib"), Deep>>), TagF({"v1"}, "")>>, TRUE)), Do("push", 0, MCArt(LibX, "d9", {"v1", "v4"}, {}, "none", {}, TRUE)), Do("tag", 0, MCArt(<<"dev", "x">>, "d2", {"v2"}, {}, "none", {}, TRUE))}, 1>>,
  <<<<To(EventPol(<<TagF({"v1", "v2"}, "")>>, TRUE)), To(EventPol(<<>>, FALSE))>>, {Do("delete", 0, MCArt(<<"dev", "x">>, "d2", {"v2"}, {}, "none", {}, TRUE)), Do("untag", 0, MCArt(LibX, "i1", {"v3"}, {}, "none", {"k1"}, TRUE))}, 1>>,
  <<<<To(EventPol(<<LabelF({"q"}, "")>>, TRUE)), [To(EventPol(<<>>, TRUE)) EXCEPT !.orphan = TRUE]>>, {Do("delete", 0, MCArt(<<"dev", "y", "z">>, "d3", {}, {"q"}, "none", {}, TRUE)), Do("drop", 2, 0)}, 0>>,
  <<<<To(FromRequest(Pol(<<TagF({"v2"}, "")>>, <<"m">>, 1)))>>, {Do("start", 1, 0), Do("stop", 1, 0), Do("project", 0, [name |-> "m", proxy |-> TRUE, public |-> TRUE])}, 2>>,
  <<<<To(FromRequest(Pol(<<NameF(<<Star, Lit("x")>>)>>, <<"old">>, 0)))>>, {Do("start", 1, 0), Do("drop", 1, 0), Do("stop", 1, 0)}, 1>>,
  <<<<To(FromRequest(Pol(<<NameF(<<Star, Lit("x")>>)>>, <<"m">>, 0)))>>, {Do("start", 1, 0), Do("schedule", 1, 0), Do("write", 1, [Pol(<<LabelF({"q"}, "")>>, <<"m">>, 0) EXCEPT !.enabled = FALSE]), Do("write", 1, [Pol(<<>>, <<"m">>, 0) EXCEPT !.dst = "local"])}, 0>>
  }

NoReplicate == <<<<>>, {}, 0>>

ReplicateScenario(x) ==
  /\ polRow = [p \in PolicyIds |-> IF p <= Len(x[1]) THEN x[1][p] ELSE NoPol]
  /\ asked = [p \in PolicyIds |-> NoPol]
  /\ shelf = (IF x[1] = <<>> THEN {} ELSE MCShelf) /\ signal = <<>> /\ made = {}
  /\ openSrc = [p \in {"lib", "dev"} |-> p = "lib"]
  /\ estate = {[name |-> "old", proxy |-> FALSE, public |-> TRUE], [name |-> "cache", proxy |-> TRUE, public |-> FALSE]}
  /\ flow = [e \in RunIds |-> NoFlow]
  /\ deeds = x[2] /\ glitches = x[3]
=============================================================================
