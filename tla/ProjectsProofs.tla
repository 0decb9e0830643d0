--------------------------- MODULE ProjectsProofs ---------------------------
(***************************************************************************)
(* Projects, registries, replication policies and repositories, for any    *)
(* number of each and any requests: they agree with each other unless two  *)
(* requests that could not see each other ran at the same time.            *)
(***************************************************************************)
EXTENDS Projects, TLAPS

---------------------------------------------------------------------------
(* Shapes.                                                                 *)

Vals == {Ask[a].val : a \in Asks} \union {"none", "true", "false", "first", "unchecked"}
Meta == [public : Vals, retention : {"none", "own"}]
Proj == [st : {"none", "live", "deleted"}, reg : Registries \union {"none"}, quota : BOOLEAN, meta : Meta,
         retention : BOOLEAN]
Reg == [url : Vals, status : {"none", "healthy", "unhealthy"}]
Req == [pc : {"idle", "insert", "parts", "meta", "write", "mark", "remove", "project", "policy", "projects", "delete",
              "done", "failed"},
        row : Reg, has : Vals \union ProjectIds \union {"own"}]
Writable == Policies \union ProjectIds \union Repos

ProjTypes ==
    /\ proj \in [ProjectIds -> Proj] /\ registry \in [Registries -> Reg] /\ health \in [Registries -> Reg]
    /\ policy \in [Policies -> Registries \union {"none"}] /\ repo \in [Repos -> ProjectIds \union {"none"}]
    /\ ask \in [Asks -> Req] /\ wrote \in [Writable -> Asks \union {"none"}] /\ lastUrl \in [Registries -> Vals]

---------------------------------------------------------------------------
(* The inductive invariant.                                                *)

RacedBy(a, op, g) == \E b \in Asks : Ask[b].op = op /\ g \in {Ask[b].reg, Ask[b].id} /\ <<a, b>> \in met

\* The phase of a request is one of its operation.
Agrees(a, q) ==
    /\ q.pc = "insert" => Ask[a].op \in {"createProject", "push"}
    /\ q.pc = "parts" => Ask[a].op = "createProject"
    /\ q.pc = "meta" => Ask[a].op = "updateProject"
    /\ q.pc = "write" => Ask[a].op \in {"updateProject", "updateRegistry"}
    /\ q.pc \in {"mark", "remove"} => Ask[a].op = "deleteProject"
    /\ q.pc = "project" => Ask[a].op = "push"
    /\ q.pc = "policy" => Ask[a].op \in {"createPolicy", "updatePolicy"}
    /\ q.pc \in {"projects", "delete"} => Ask[a].op = "deleteRegistry"
    /\ q.pc = "write" /\ Ask[a].op = "updateRegistry" => q.row.url = Ask[a].val /\ q.row.status = "healthy"
    /\ q.pc \in {"meta", "write"} /\ Ask[a].op = "updateProject" /\ Ask[a].key = "retention" => Ask[a].val \in {"none", "own"}
    /\ q.pc = "insert" /\ Ask[a].op = "push" => q.has \in ProjectIds

\* What a request refers to is there, or it was deleted meanwhile.
Refers(a, q) ==
    /\ q.pc \in {"insert", "parts", "policy"} /\ Ask[a].op # "push" =>
         Found(Ask[a].reg) \/ RacedBy(a, "deleteRegistry", Ask[a].reg)
    /\ q.pc = "insert" /\ Ask[a].op = "push" => Live(q.has) \/ RacedBy(a, "deleteProject", q.has)

\* What refers to the thing a request is to delete came meanwhile.
Deletes(a, q) ==
    /\ q.pc \in {"projects", "delete"} => \A k \in Policies : policy[k] = Ask[a].reg => <<wrote[k], a>> \in met
    /\ q.pc = "delete" => \A p \in ProjectIds : Live(p) /\ proj[p].reg = Ask[a].reg => <<wrote[p], a>> \in met
    /\ q.pc \in {"mark", "remove"} => \A x \in Repos : repo[x] = Ask[a].id => <<wrote[x], a>> \in met

Fits(a, q) == Agrees(a, q) /\ Refers(a, q) /\ Deletes(a, q)

\* Two requests under way have met.
Meet == \A a, b \in Asks : a # b /\ InFlight(a) /\ InFlight(b) => <<a, b>> \in met

\* Only one request makes a project, when there is none.
Making == \A a \in Asks : ask[a].pc = "parts" =>
              /\ \A p \in ProjectIds : ~Live(p)
              /\ \A b \in Asks : ask[b].pc = "parts" => a = b

ProjInv ==
    /\ ProjTypes /\ WholeProject /\ RefsFound /\ ReposOwned /\ UrlKept
    /\ \A a \in Asks : Fits(a, ask[a])
    /\ Meet /\ Making

---------------------------------------------------------------------------
\* The rest and the end of a request.
LEMMA RestTyped ==
    /\ NoRegistry \in Reg /\ Unchecked \in Reg /\ Idle \in Req /\ Over("done") \in Req /\ Over("failed") \in Req
    /\ Idle.pc = "idle" /\ Over("done").pc = "done" /\ Over("failed").pc = "failed"
<1>1. NoRegistry \in Reg /\ Unchecked \in Reg
  BY DEF NoRegistry, Unchecked, Reg, Vals
<1>2. Idle \in Req /\ Idle.pc = "idle"
  BY <1>1 DEF Idle, Req, Vals
<1> QED
  BY <1>1, <1>2 DEF Over, Idle, Req

\* A phase is enough for a request that is over.
LEMMA OverFits ==
    ASSUME NEW a \in Asks, NEW q \in Req, q.pc \in {"idle", "done", "failed"}
    PROVE  Fits(a, q) /\ Fits(a, q)'
  BY DEF Fits, Agrees, Refers, Deletes

\* Requests under way have met after a step of one of them.
LEMMA MeetStep ==
    ASSUME ProjInv, NEW a \in Asks, NEW q \in Req, MoveTo(a, q),
           \/ met' = met /\ (InFlight(a) \/ q.pc \in {"done", "failed"})
           \/ \E op \in AskOps : Begin(a, op)
    PROVE  Meet' /\ met \subseteq met'
<1>1. ask \in [Asks -> Req]
  BY Zenon DEF ProjInv, ProjTypes
<1>2. ask'[a] = q /\ \A b \in Asks \ {a} : ask'[b] = ask[b]
  BY <1>1, Zenon DEF MoveTo
<1>3. CASE met' = met /\ (InFlight(a) \/ q.pc \in {"done", "failed"})
  <2>1. \A b \in Asks : InFlight(b)' => InFlight(b)
    BY <1>2, <1>3, Zenon DEF InFlight
  <2> QED
    BY <1>3, <2>1, Zenon DEF ProjInv, Meet
<1>4. CASE \E op \in AskOps : Begin(a, op)
  <2>1. met' = met \union {<<a, b>> : b \in {x \in Asks : InFlight(x)}} \union {<<b, a>> : b \in {x \in Asks : InFlight(x)}}
    BY <1>4, Zenon DEF Begin
  <2>2. met \subseteq met' /\ \A b \in Asks : InFlight(b) => <<a, b>> \in met' /\ <<b, a>> \in met'
    BY <2>1, Zenon
  <2>3. \A b \in Asks \ {a} : InFlight(b)' => InFlight(b)
    BY <1>2, Zenon DEF InFlight
  <2> QED
    BY <2>2, <2>3, Zenon DEF ProjInv, Meet
<1> QED
  BY <1>3, <1>4, Zenon

\* What a step of request a may do to the tables: it deletes what it has
\* checked, and refers to what it has found.
Writes(a) ==
    /\ \A g \in Registries : registry[g] # NoRegistry /\ registry'[g] = NoRegistry => ask[a].pc = "delete" /\ Ask[a].reg = g
    /\ \A p \in ProjectIds : Live(p) /\ proj'[p].st # "live" => ask[a].pc = "remove" /\ Ask[a].id = p
    /\ \A k \in Policies : \/ policy'[k] = "none"
                           \/ policy'[k] = policy[k] /\ wrote'[k] = wrote[k]
                           \/ ask[a].pc = "policy" /\ wrote'[k] = a /\ policy'[k] = Ask[a].reg
    /\ \A p \in ProjectIds : \/ proj'[p].st # "live"
                             \/ Live(p) /\ proj'[p].reg = proj[p].reg /\ wrote'[p] = wrote[p]
                             \/ ask[a].pc = "parts" /\ wrote'[p] = a /\ proj'[p].reg = Ask[a].reg
    /\ \A x \in Repos : \/ repo'[x] = "none"
                        \/ repo'[x] = repo[x] /\ wrote'[x] = wrote[x]
                        \/ ask[a].pc = "insert" /\ Ask[a].op = "push" /\ wrote'[x] = a /\ repo'[x] = ask[a].has

\* After such a step what the other requests have read and checked is still
\* good enough, and so are the references there are.
LEMMA WritesKeep ==
    ASSUME ProjInv, NEW a \in Asks, \A b \in Asks \ {a} : ask'[b] = ask[b], met \subseteq met', Writes(a)
    PROVE  RefsFound' /\ ReposOwned' /\ \A b \in Asks \ {a} : Fits(b, ask[b])'
<1> USE DEF Writes
<1>1. Fits(a, ask[a])
  BY Zenon DEF ProjInv
<1>2. \A c, op, g : RacedBy(c, op, g) => RacedBy(c, op, g)'
  BY Zenon DEF RacedBy
<1>3. \A b \in Asks \ {a} : InFlight(a) /\ InFlight(b) => <<a, b>> \in met' /\ <<b, a>> \in met'
  BY Zenon DEF ProjInv, Meet
<1>4. \A g \in Registries \union {"none"} : Found(g) /\ ~Found(g)' =>
          ask[a].pc = "delete" /\ Ask[a].op = "deleteRegistry" /\ Ask[a].reg = g /\ g \in Registries
  BY <1>1, Zenon DEF Found, Fits, Agrees
<1>5. \A p \in ProjectIds : Live(p) /\ ~Live(p)' => ask[a].pc = "remove" /\ Ask[a].op = "deleteProject" /\ Ask[a].id = p
  BY <1>1, Zenon DEF Live, Fits, Agrees
<1>6. RefsFound'
  <2>1. ASSUME NEW k \in Policies PROVE Found(policy[k])' \/ RacedBy(wrote[k], "deleteRegistry", policy[k])'
    <3>1. CASE policy'[k] = "none"
      BY <3>1, Zenon DEF Found
    <3>2. CASE policy'[k] = policy[k] /\ wrote'[k] = wrote[k]
      <4>1. Found(policy[k]) \/ RacedBy(wrote[k], "deleteRegistry", policy[k])
        BY Zenon DEF ProjInv, RefsFound, Raced, RacedBy
      <4>2. policy[k] \in Registries \union {"none"}
        BY Zenon DEF ProjInv, ProjTypes
      <4>3. CASE Found(policy[k]) /\ ~Found(policy[k])'
        <5>1. ask[a].pc = "delete" /\ Ask[a].op = "deleteRegistry" /\ Ask[a].reg = policy[k]
          BY <1>4, <3>2, <4>2, <4>3, Zenon DEF Found
        <5>2. <<wrote[k], a>> \in met
          BY <1>1, <5>1, Zenon DEF Fits, Deletes
        <5> QED
          BY <3>2, <5>1, <5>2, Zenon DEF RacedBy
      <4>4. CASE RacedBy(wrote[k], "deleteRegistry", policy[k])
        BY <3>2, <4>4, Zenon DEF RacedBy
      <4> QED
        BY <4>1, <4>3, <4>4, Zenon
    <3>3. CASE ask[a].pc = "policy" /\ wrote'[k] = a /\ policy'[k] = Ask[a].reg
      <4>1. Found(Ask[a].reg) \/ RacedBy(a, "deleteRegistry", Ask[a].reg)
        <5>1. Ask[a].op # "push"
          BY <1>1, <3>3 DEF Fits, Agrees
        <5> QED
          BY <1>1, <3>3, <5>1, Zenon DEF Fits, Refers
      <4>2. CASE RacedBy(a, "deleteRegistry", Ask[a].reg)
        BY <3>3, <4>2, Zenon DEF RacedBy
      <4>3. CASE Found(Ask[a].reg)
        <5>1. ask[a].pc # "delete" /\ Ask[a].reg \in Registries \union {"none"}
          BY <3>3, ProjectAssumption, Zenon
        <5> QED
          BY <1>4, <3>3, <4>3, <5>1, Zenon DEF Found
      <4> QED
        BY <4>1, <4>2, <4>3, Zenon
    <3> QED
      BY <3>1, <3>2, <3>3, Zenon
  <2>2. ASSUME NEW p \in ProjectIds, Live(p)' PROVE Found(proj[p].reg)' \/ RacedBy(wrote[p], "deleteRegistry", proj[p].reg)'
    <3>1. CASE Live(p) /\ proj'[p].reg = proj[p].reg /\ wrote'[p] = wrote[p]
      <4>1. Found(proj[p].reg) \/ RacedBy(wrote[p], "deleteRegistry", proj[p].reg)
        BY <3>1, Zenon DEF ProjInv, RefsFound, Raced, RacedBy
      <4>2. proj[p].reg \in Registries \union {"none"}
        <5>1. proj[p] \in Proj
          BY Zenon DEF ProjInv, ProjTypes
        <5> QED
          BY <5>1 DEF Proj
      <4>3. CASE Found(proj[p].reg) /\ ~Found(proj[p].reg)'
        <5>1. ask[a].pc = "delete" /\ Ask[a].op = "deleteRegistry" /\ Ask[a].reg = proj[p].reg
          BY <1>4, <3>1, <4>2, <4>3, Zenon DEF Found
        <5>2. <<wrote[p], a>> \in met
          BY <1>1, <3>1, <5>1, Zenon DEF Fits, Deletes
        <5> QED
          BY <3>1, <5>1, <5>2, Zenon DEF RacedBy
      <4>4. CASE RacedBy(wrote[p], "deleteRegistry", proj[p].reg)
        BY <3>1, <4>4, Zenon DEF RacedBy
      <4> QED
        BY <4>1, <4>3, <4>4, Zenon
    <3>2. CASE ask[a].pc = "parts" /\ wrote'[p] = a /\ proj'[p].reg = Ask[a].reg
      <4>1. Found(Ask[a].reg) \/ RacedBy(a, "deleteRegistry", Ask[a].reg)
        <5>1. Ask[a].op # "push"
          BY <1>1, <3>2 DEF Fits, Agrees
        <5> QED
          BY <1>1, <3>2, <5>1, Zenon DEF Fits, Refers
      <4>2. CASE RacedBy(a, "deleteRegistry", Ask[a].reg)
        BY <3>2, <4>2, Zenon DEF RacedBy
      <4>3. CASE Found(Ask[a].reg)
        <5>1. ask[a].pc # "delete" /\ Ask[a].reg \in Registries \union {"none"}
          BY <3>2, ProjectAssumption, Zenon
        <5> QED
          BY <1>4, <3>2, <4>3, <5>1, Zenon DEF Found
      <4> QED
        BY <4>1, <4>2, <4>3, Zenon
    <3> QED
      BY <2>2, <3>1, <3>2, Zenon DEF Live
  <2> QED
    BY <2>1, <2>2, Zenon DEF RefsFound, Raced, RacedBy
<1>7. ReposOwned'
  <2>1. ASSUME NEW x \in Repos, repo'[x] # "none" PROVE Live(repo[x])' \/ RacedBy(wrote[x], "deleteProject", repo[x])'
    <3>1. CASE repo'[x] = repo[x] /\ wrote'[x] = wrote[x]
      <4>1. Live(repo[x]) \/ RacedBy(wrote[x], "deleteProject", repo[x])
        BY <2>1, <3>1, Zenon DEF ProjInv, ReposOwned, Raced, RacedBy
      <4>2. repo[x] \in ProjectIds
        BY <2>1, <3>1, Zenon DEF ProjInv, ProjTypes
      <4>3. CASE Live(repo[x]) /\ ~Live(repo[x])'
        <5>1. ask[a].pc = "remove" /\ Ask[a].op = "deleteProject" /\ Ask[a].id = repo[x]
          BY <1>5, <3>1, <4>2, <4>3, Zenon DEF Live
        <5>2. <<wrote[x], a>> \in met
          BY <1>1, <5>1, Zenon DEF Fits, Deletes
        <5> QED
          BY <3>1, <5>1, <5>2, Zenon DEF RacedBy
      <4>4. CASE RacedBy(wrote[x], "deleteProject", repo[x])
        BY <3>1, <4>4, Zenon DEF RacedBy
      <4> QED
        BY <4>1, <4>3, <4>4, Zenon
    <3>2. CASE ask[a].pc = "insert" /\ Ask[a].op = "push" /\ wrote'[x] = a /\ repo'[x] = ask[a].has
      <4>1. ask[a].has \in ProjectIds /\ (Live(ask[a].has) \/ RacedBy(a, "deleteProject", ask[a].has))
        BY <1>1, <3>2, Zenon DEF Fits, Agrees, Refers
      <4>2. CASE RacedBy(a, "deleteProject", ask[a].has)
        BY <3>2, <4>2, Zenon DEF RacedBy
      <4>3. CASE Live(ask[a].has)
        BY <3>2, <4>1, <4>3, Zenon DEF Live
      <4> QED
        BY <4>1, <4>2, <4>3, Zenon
    <3> QED
      BY <2>1, <3>1, <3>2, Zenon
  <2> QED
    BY <2>1, Zenon DEF ReposOwned, Raced, RacedBy
<1>8. ASSUME NEW b \in Asks \ {a} PROVE Fits(b, ask[b])'
  <2>1. ask'[b] = ask[b] /\ Fits(b, ask[b]) /\ b \in Asks
    BY Zenon DEF ProjInv
  <2>2. Agrees(b, ask[b])'
    BY <2>1, Zenon DEF Fits, Agrees
  <2>3. InFlight(a) /\ InFlight(b) => <<a, b>> \in met' /\ <<b, a>> \in met'
    BY <1>3, Zenon
  <2>4. Refers(b, ask[b])'
    <3>1. ASSUME ask[b].pc \in {"insert", "parts", "policy"}, Ask[b].op # "push"
          PROVE  Found(Ask[b].reg)' \/ RacedBy(b, "deleteRegistry", Ask[b].reg)'
      <4>1. Found(Ask[b].reg) \/ RacedBy(b, "deleteRegistry", Ask[b].reg)
        BY <2>1, <3>1, Zenon DEF Fits, Refers
      <4>2. CASE Found(Ask[b].reg) /\ ~Found(Ask[b].reg)'
        <5>1. ask[a].pc = "delete" /\ Ask[a].op = "deleteRegistry" /\ Ask[a].reg = Ask[b].reg
          BY <1>4, <4>2, ProjectAssumption, Zenon
        <5>2. InFlight(a) /\ InFlight(b)
          BY <3>1, <5>1 DEF InFlight
        <5> QED
          BY <2>3, <5>1, <5>2, Zenon DEF RacedBy
      <4> QED
        BY <1>2, <4>1, <4>2, Zenon
    <3>2. ASSUME ask[b].pc = "insert", Ask[b].op = "push"
          PROVE  Live(ask[b].has)' \/ RacedBy(b, "deleteProject", ask[b].has)'
      <4>1. ask[b].has \in ProjectIds /\ (Live(ask[b].has) \/ RacedBy(b, "deleteProject", ask[b].has))
        BY <2>1, <3>2, Zenon DEF Fits, Refers, Agrees
      <4>2. CASE Live(ask[b].has) /\ ~Live(ask[b].has)'
        <5>1. ask[a].pc = "remove" /\ Ask[a].op = "deleteProject" /\ Ask[a].id = ask[b].has
          BY <1>5, <2>1, <4>1, <4>2, Zenon DEF Live
        <5>2. InFlight(a) /\ InFlight(b)
          BY <3>2, <5>1 DEF InFlight
        <5> QED
          BY <2>1, <2>3, <5>1, <5>2, Zenon DEF RacedBy
      <4>3. CASE RacedBy(b, "deleteProject", ask[b].has)
        BY <2>1, <4>3, Zenon DEF RacedBy
      <4> QED
        BY <4>1, <4>2, <4>3, Zenon
    <3> QED
      BY <2>1, <3>1, <3>2, Zenon DEF Refers
  <2>5. Deletes(b, ask[b])'
    <3>1. ASSUME ask[b].pc \in {"projects", "delete"}, NEW k \in Policies, policy'[k] = Ask[b].reg PROVE <<wrote'[k], b>> \in met'
      <4>1. InFlight(b)
        BY <3>1 DEF InFlight
      <4>2. policy'[k] # "none"
        <5>1. Ask[b].op = "deleteRegistry"
          BY <2>1, <3>1, Zenon DEF Fits, Agrees
        <5>2. Ask[b].reg \in Registries
          BY <2>1, <5>1, ProjectAssumption
        <5> QED
          BY <3>1, <5>2, ProjectAssumption, Zenon
      <4>3. CASE policy'[k] = policy[k] /\ wrote'[k] = wrote[k]
        BY <2>1, <3>1, <4>3, Zenon DEF Fits, Deletes
      <4>4. CASE ask[a].pc = "policy" /\ wrote'[k] = a
        BY <2>3, <4>1, <4>4 DEF InFlight
      <4> QED
        BY <4>2, <4>3, <4>4, Zenon
    <3>2. ASSUME ask[b].pc = "delete", NEW p \in ProjectIds, Live(p)', proj'[p].reg = Ask[b].reg PROVE <<wrote'[p], b>> \in met'
      <4>1. InFlight(b)
        BY <3>2 DEF InFlight
      <4>2. CASE Live(p) /\ proj'[p].reg = proj[p].reg /\ wrote'[p] = wrote[p]
        BY <2>1, <3>2, <4>2, Zenon DEF Fits, Deletes
      <4>3. CASE ask[a].pc = "parts" /\ wrote'[p] = a
        BY <2>3, <4>1, <4>3 DEF InFlight
      <4> QED
        BY <3>2, <4>2, <4>3, Zenon DEF Live
    <3>3. ASSUME ask[b].pc \in {"mark", "remove"}, NEW x \in Repos, repo'[x] = Ask[b].id PROVE <<wrote'[x], b>> \in met'
      <4>1. InFlight(b)
        BY <3>3 DEF InFlight
      <4>2. repo'[x] # "none"
        <5>1. Ask[b].op = "deleteProject"
          BY <2>1, <3>3, Zenon DEF Fits, Agrees
        <5>2. Ask[b].id \in ProjectIds
          BY <2>1, <5>1, ProjectAssumption
        <5> QED
          BY <3>3, <5>2, ProjectAssumption, Zenon
      <4>3. CASE repo'[x] = repo[x] /\ wrote'[x] = wrote[x]
        BY <2>1, <3>3, <4>3, Zenon DEF Fits, Deletes
      <4>4. CASE ask[a].pc = "insert" /\ wrote'[x] = a
        BY <2>3, <4>1, <4>4 DEF InFlight
      <4> QED
        BY <4>2, <4>3, <4>4, Zenon
    <3> QED
      BY <2>1, <3>1, <3>2, <3>3, Zenon DEF Deletes
  <2> QED
    BY <2>2, <2>4, <2>5, Zenon DEF Fits
<1> QED
  BY <1>6, <1>7, <1>8, Zenon

\* A step of a request that ends it and may write.
LEMMA LastStep ==
    ASSUME ProjInv, NEW a \in Asks, NEW pc \in {"done", "failed"}, MoveTo(a, Over(pc)),
           met' = met \/ \E op \in AskOps : Begin(a, op),
           Writes(a), (ProjTypes /\ WholeProject /\ UrlKept)',
           (\A p \in ProjectIds : Live(p)' => Live(p)) \/ ask[a].pc = "parts"
    PROVE  ProjInv'
<1>1. Over(pc) \in Req /\ Over(pc).pc = pc
  BY RestTyped
<1>2. ask \in [Asks -> Req]
  BY Zenon DEF ProjInv, ProjTypes
<1>3. ask'[a] = Over(pc) /\ \A b \in Asks \ {a} : ask'[b] = ask[b]
  BY <1>2, Zenon DEF MoveTo
<1>4. Meet' /\ met \subseteq met'
  BY <1>1, MeetStep, Zenon
<1>5. RefsFound' /\ ReposOwned' /\ \A b \in Asks \ {a} : Fits(b, ask[b])'
  BY <1>3, <1>4, WritesKeep, Zenon
<1>6. Fits(a, ask[a])'
  <2>1. PICK q : q = Over(pc)
    BY Zenon
  <2>2. Fits(a, q)'
    BY <1>1, <2>1, OverFits, Zenon
  <2> QED
    BY <1>3, <2>1, <2>2, Zenon DEF Fits, Agrees, Refers, Deletes
<1>7. Making'
  <2>1. ask'[a].pc # "parts"
    BY <1>1, <1>3
  <2>2. \A b \in Asks : ask'[b].pc = "parts" => ask[b].pc = "parts" /\ b # a
    BY <1>3, <2>1, Zenon
  <2>3. CASE \A p \in ProjectIds : Live(p)' => Live(p)
    BY <2>2, <2>3, Zenon DEF ProjInv, Making
  <2>4. CASE ask[a].pc = "parts"
    BY <2>2, <2>4, Zenon DEF ProjInv, Making
  <2> QED
    BY <2>3, <2>4, Zenon
<1> QED
  BY <1>4, <1>5, <1>6, <1>7, Zenon DEF ProjInv

\* A step of a request that writes no table.
LEMMA QuietStep ==
    ASSUME ProjInv, NEW a \in Asks, NEW q \in Req, MoveTo(a, q), UNCHANGED Tables,
           \/ met' = met /\ (InFlight(a) \/ q.pc \in {"done", "failed"})
           \/ \E op \in AskOps : Begin(a, op),
           Fits(a, q),
           q.pc = "parts" => (\A p \in ProjectIds : ~Live(p)) /\ (\A b \in Asks \ {a} : ask[b].pc # "parts")
    PROVE  ProjInv'
<1>1. UNCHANGED <<proj, registry, policy, repo, health, wrote, lastUrl>>
  BY Zenon DEF Tables
<1>2. ask \in [Asks -> Req]
  BY Zenon DEF ProjInv, ProjTypes
<1>3. ask'[a] = q /\ (\A b \in Asks \ {a} : ask'[b] = ask[b]) /\ ask' \in [Asks -> Req]
  BY <1>2, Zenon DEF MoveTo
<1>4. Meet' /\ met \subseteq met'
  BY MeetStep, Zenon
<1>5. Writes(a)
  BY <1>1, Zenon DEF Writes, Live
<1>6. RefsFound' /\ ReposOwned' /\ \A b \in Asks \ {a} : Fits(b, ask[b])'
  BY <1>3, <1>4, <1>5, WritesKeep, Zenon
<1>7. Fits(a, ask[a])'
  <2>1. \A c, op, g : RacedBy(c, op, g) => RacedBy(c, op, g)'
    BY <1>4, Zenon DEF RacedBy
  <2>2. Agrees(a, ask[a])'
    BY <1>3, Zenon DEF Fits, Agrees
  <2>3. Refers(a, ask[a])'
    <3>1. \A g : Found(g) => Found(g)'
      BY <1>1, Zenon DEF Found
    <3>2. \A p : Live(p) => Live(p)'
      BY <1>1, Zenon DEF Live
    <3>3. q.pc \in {"insert", "parts", "policy"} /\ Ask[a].op # "push" =>
             Found(Ask[a].reg)' \/ RacedBy(a, "deleteRegistry", Ask[a].reg)'
      BY <2>1, <3>1, Zenon DEF Fits, Refers
    <3>4. q.pc = "insert" /\ Ask[a].op = "push" => proj'[q.has].st = "live" \/ RacedBy(a, "deleteProject", q.has)'
      BY <2>1, <3>2, <1>1, Zenon DEF Fits, Refers, Live
    <3> QED
      BY <1>3, <3>3, <3>4, Zenon DEF Refers, Live, RacedBy
  <2>4. Deletes(a, ask[a])'
    BY <1>1, <1>3, <1>4, Zenon DEF Fits, Deletes, Live
  <2> QED
    BY <2>2, <2>3, <2>4, Zenon DEF Fits
<1>8. (ProjTypes /\ WholeProject /\ UrlKept)'
  BY <1>1, <1>3, Zenon DEF ProjInv, ProjTypes, WholeProject, UrlKept, Live
<1>9. Making'
  <2>1. \A p \in ProjectIds : Live(p)' => Live(p)
    BY <1>1, Zenon DEF Live
  <2>2. CASE q.pc = "parts"
    BY <1>3, <2>1, <2>2, Zenon DEF Making
  <2>3. CASE q.pc # "parts"
    BY <1>3, <2>1, <2>3, Zenon DEF ProjInv, Making
  <2> QED
    BY <2>2, <2>3, Zenon
<1> QED
  BY <1>4, <1>6, <1>7, <1>8, <1>9, Zenon DEF ProjInv

\* The health check: a registry is there as before, under the same url.
LEMMA HealthStep ==
    ASSUME ProjInv, UNCHANGED <<proj, policy, repo, ask, wrote, lastUrl, met>>,
           registry' \in [Registries -> Reg], health' \in [Registries -> Reg],
           \A g \in Registries : /\ registry'[g] = NoRegistry <=> registry[g] = NoRegistry
                                 /\ registry'[g].url = registry[g].url
    PROVE  ProjInv'
<1>1. \A g \in Registries \union {"none"} : Found(g)' <=> Found(g)
  BY Zenon DEF Found
<1>2. ProjTypes' /\ WholeProject' /\ UrlKept'
  BY Zenon DEF ProjInv, ProjTypes, WholeProject, UrlKept, Live
<1>3. \A p \in ProjectIds : proj[p].reg \in Registries \union {"none"}
  <2>1. \A p \in ProjectIds : proj[p] \in Proj
    BY Zenon DEF ProjInv, ProjTypes
  <2> QED
    BY <2>1 DEF Proj
<1>4. RefsFound'
  <2>1. \A k \in Policies : policy[k] \in Registries \union {"none"}
    BY Zenon DEF ProjInv, ProjTypes
  <2>2. ASSUME NEW k \in Policies PROVE (Found(policy[k]) \/ Raced(k, "deleteRegistry", policy[k]))'
    BY <1>1, <2>1, Zenon DEF ProjInv, RefsFound, Raced, Found
  <2>3. ASSUME NEW p \in ProjectIds, Live(p)' PROVE (Found(proj[p].reg) \/ Raced(p, "deleteRegistry", proj[p].reg))'
    BY <1>1, <1>3, <2>3, Zenon DEF ProjInv, RefsFound, Raced, Found, Live
  <2> QED
    BY <2>2, <2>3, Zenon DEF RefsFound
<1>5. ReposOwned'
  BY Zenon DEF ProjInv, ReposOwned, Raced, Live
<1>6. Meet' /\ Making'
  BY Zenon DEF ProjInv, Meet, Making, InFlight, Live
<1>7. ASSUME NEW a \in Asks PROVE Fits(a, ask[a])'
  <2>1. Fits(a, ask[a])
    BY Zenon DEF ProjInv
  <2>2. Agrees(a, ask[a])' /\ Deletes(a, ask[a])'
    BY <2>1, Zenon DEF Fits, Agrees, Deletes, Live
  <2>3. Found(Ask[a].reg)' <=> Found(Ask[a].reg)
    BY <1>1, ProjectAssumption, Zenon
  <2>4. Refers(a, ask[a])'
    BY <2>1, <2>3, Zenon DEF Fits, Refers, Live, RacedBy
  <2> QED
    BY <2>2, <2>4, Zenon DEF Fits
<1> QED
  BY <1>2, <1>4, <1>5, <1>6, <1>7, Zenon DEF ProjInv

---------------------------------------------------------------------------
(* The steps.                                                              *)

\* What a request asks for is of the right kind.
LEMMA Asked ==
    ASSUME NEW a \in Asks
    PROVE  /\ Ask[a].op \in AskOps /\ Ask[a].reg \in Registries \union {"none"} /\ Ask[a].key \in {"public", "retention"}
           /\ Ask[a].val \in Vals
           /\ Ask[a].op \in {"createProject", "updateProject", "deleteProject", "addMeta", "delMeta"} => Ask[a].id \in ProjectIds
           /\ Ask[a].op \in {"push", "delRepo"} => Ask[a].id \in Repos
           /\ Ask[a].op \in {"createPolicy", "updatePolicy", "deletePolicy"} => Ask[a].id \in Policies
           /\ Ask[a].op \in {"createPolicy", "updatePolicy", "updateRegistry", "deleteRegistry"} => Ask[a].reg \in Registries
  BY ProjectAssumption DEF Vals

\* A request that is refused has written nothing.
LEMMA RefuseStep ==
    ASSUME ProjInv, NEW a \in Asks, Refuse(a) \/ Done(a), UNCHANGED Tables, met' = met \/ \E op \in AskOps : Begin(a, op)
    PROVE  ProjInv'
<1>1. PICK q : q \in {Over("failed"), Over("done")} /\ MoveTo(a, q)
  BY Zenon DEF Refuse, Done
<1>2. q \in Req /\ q.pc \in {"done", "failed"}
  BY <1>1, RestTyped
<1>3. Fits(a, q)
  BY <1>2, OverFits
<1>4. q.pc # "parts"
  BY <1>2
<1> QED
  BY <1>1, <1>2, <1>3, <1>4, QuietStep, Zenon

\* The first step of a request that goes on.
LEMMA FirstStep ==
    ASSUME ProjInv, NEW a \in Asks, NEW q \in Req, MoveTo(a, q), UNCHANGED Tables, \E op \in AskOps : Begin(a, op),
           Fits(a, q), q.pc # "parts"
    PROVE  ProjInv'
  BY QuietStep, Zenon

\* Another step of a request that goes on.
LEMMA NextStep ==
    ASSUME ProjInv, NEW a \in Asks, NEW q \in Req, MoveTo(a, q), UNCHANGED <<Tables, met>>, InFlight(a), Fits(a, q),
           q.pc = "parts" => (\A p \in ProjectIds : ~Live(p)) /\ (\A b \in Asks \ {a} : ask[b].pc # "parts")
    PROVE  ProjInv'
  BY QuietStep, Zenon

\* The steps that begin a request and write nothing.
LEMMA BeginSteps ==
    ASSUME ProjInv, NEW a \in Asks,
           ValidateProjectReq(a) \/ UpdateProject(a) \/ Deletable(a) \/ GetByName(a) \/ ValidatePolicy(a)
               \/ CountPolicies(a) \/ UpdateRegistry(a)
    PROVE  ProjInv'
<1> DEFINE To(pc) == [Idle EXCEPT !.pc = pc]
<1>0. UNCHANGED Tables /\ \E op \in AskOps : Begin(a, op)
  BY Zenon DEF ValidateProjectReq, UpdateProject, Deletable, GetByName, ValidatePolicy, CountPolicies, UpdateRegistry, AskOps
<1>1. \A pc \in {"insert", "meta", "mark", "project", "policy", "projects"} : To(pc) \in Req /\ To(pc).pc = pc /\ To(pc).pc # "parts"
  BY RestTyped DEF Idle, Req
<1>2. CASE Refuse(a) \/ Done(a)
  BY <1>0, <1>2, RefuseStep, Zenon
<1>3. CASE ValidateProjectReq(a) /\ ~Refuse(a)
  <2>1. Ask[a].op = "createProject" /\ Found(Ask[a].reg) /\ MoveTo(a, To("insert"))
    BY <1>3, Zenon DEF ValidateProjectReq, Begin
  <2>2. Fits(a, To("insert"))
    BY <1>1, <2>1 DEF Fits, Agrees, Refers, Deletes
  <2> QED
    BY <1>0, <1>1, <2>1, <2>2, FirstStep, Zenon
<1>4. CASE UpdateProject(a) /\ ~Refuse(a)
  <2>1. Ask[a].op = "updateProject" /\ MoveTo(a, To("meta")) /\ (Ask[a].key = "retention" => proj[Ask[a].id].meta.retention = Ask[a].val)
    BY <1>4, Zenon DEF UpdateProject, Begin
  <2>2. Ask[a].key = "retention" => Ask[a].val \in {"none", "own"}
    <3>1. Ask[a].id \in ProjectIds
      BY <2>1, Asked
    <3>2. proj[Ask[a].id] \in Proj
      BY <3>1, Zenon DEF ProjInv, ProjTypes
    <3> QED
      BY <2>1, <3>2 DEF Proj, Meta
  <2>3. Fits(a, To("meta"))
    BY <1>1, <2>1, <2>2 DEF Fits, Agrees, Refers, Deletes
  <2> QED
    BY <1>0, <1>1, <2>1, <2>3, FirstStep, Zenon
<1>5. CASE Deletable(a) /\ ~Refuse(a)
  <2>1. Ask[a].op = "deleteProject" /\ MoveTo(a, To("mark")) /\ \A x \in Repos : repo[x] # Ask[a].id
    BY <1>5, Zenon DEF Deletable, Begin
  <2>2. Fits(a, To("mark"))
    BY <1>1, <2>1 DEF Fits, Agrees, Refers, Deletes
  <2> QED
    BY <1>0, <1>1, <2>1, <2>2, FirstStep, Zenon
<1>6. CASE GetByName(a) /\ ~Done(a)
  <2>1. Ask[a].op = "push" /\ MoveTo(a, To("project"))
    BY <1>6, Zenon DEF GetByName, Begin
  <2>2. Fits(a, To("project"))
    BY <1>1, <2>1 DEF Fits, Agrees, Refers, Deletes
  <2> QED
    BY <1>0, <1>1, <2>1, <2>2, FirstStep, Zenon
<1>7. CASE ValidatePolicy(a) /\ ~Refuse(a)
  <2>1. Ask[a].op \in {"createPolicy", "updatePolicy"} /\ Found(Ask[a].reg) /\ MoveTo(a, To("policy"))
    BY <1>7, Zenon DEF ValidatePolicy, Begin
  <2>2. Fits(a, To("policy"))
    BY <1>1, <2>1 DEF Fits, Agrees, Refers, Deletes
  <2> QED
    BY <1>0, <1>1, <2>1, <2>2, FirstStep, Zenon
<1>8. CASE CountPolicies(a) /\ ~Refuse(a)
  <2>1. Ask[a].op = "deleteRegistry" /\ MoveTo(a, To("projects")) /\ \A k \in Policies : policy[k] # Ask[a].reg
    BY <1>8, Zenon DEF CountPolicies, Begin
  <2>2. Fits(a, To("projects"))
    BY <1>1, <2>1 DEF Fits, Agrees, Refers, Deletes
  <2> QED
    BY <1>0, <1>1, <2>1, <2>2, FirstStep, Zenon
<1>9. CASE UpdateRegistry(a) /\ ~Refuse(a)
  <2> DEFINE q == [Idle EXCEPT !.pc = "write", !.row = [url |-> Ask[a].val, status |-> "healthy"]]
  <2>1. Ask[a].op = "updateRegistry" /\ MoveTo(a, q)
    BY <1>9, Zenon DEF UpdateRegistry, Begin
  <2>2. q \in Req /\ q.pc = "write" /\ q.row.url = Ask[a].val /\ q.row.status = "healthy"
    BY Asked, RestTyped, Zenon DEF Idle, Req, Reg
  <2>3. Fits(a, q)
    BY <2>1, <2>2 DEF Fits, Agrees, Refers, Deletes
  <2> QED
    BY <1>0, <2>1, <2>2, <2>3, FirstStep, Zenon
<1> QED
  BY <1>2, <1>3, <1>4, <1>5, <1>6, <1>7, <1>8, <1>9, Zenon

\* The later steps that write nothing.
LEMMA LookSteps ==
    ASSUME ProjInv, NEW a \in Asks,
           InsertProject(a) \/ ReadMeta(a) \/ MarkDeleted(a) \/ ProjectOfRepo(a) \/ CountProjects(a)
    PROVE  ProjInv'
<1> DEFINE To(pc) == [ask[a] EXCEPT !.pc = pc]
<1>0. UNCHANGED <<Tables, met>> /\ ask[a].pc \in {"insert", "meta", "mark", "project", "projects"} /\ InFlight(a)
  <2>1. UNCHANGED <<Tables, met>> /\ ask[a].pc \in {"insert", "meta", "mark", "project", "projects"}
    BY Zenon DEF InsertProject, ReadMeta, MarkDeleted, ProjectOfRepo, CountProjects
  <2> QED
    BY <2>1 DEF InFlight
<1>r. ask[a] \in Req /\ Fits(a, ask[a])
  BY Zenon DEF ProjInv, ProjTypes
<1>1. \A pc \in {"parts", "remove", "delete"} : To(pc) \in Req /\ To(pc).pc = pc
  BY <1>r DEF Req
<1>2. CASE Refuse(a)
  <2>1. UNCHANGED Tables /\ met' = met
    BY <1>0, Zenon
  <2> QED
    BY <2>1, <1>2, RefuseStep, Zenon
<1>3. CASE InsertProject(a) /\ ~Refuse(a)
  <2>1. /\ ask[a].pc = "insert" /\ Ask[a].op = "createProject" /\ MoveTo(a, To("parts"))
        /\ (\A p \in ProjectIds : ~Live(p)) /\ \A b \in Asks \ {a} : ask[b].pc # "parts"
    BY <1>3, Zenon DEF InsertProject
  <2>2. Fits(a, To("parts"))
    BY <1>1, <1>r, <2>1 DEF Fits, Agrees, Refers, Deletes
  <2> QED
    BY <1>0, <1>1, <2>1, <2>2, NextStep, Zenon
<1>4. CASE ReadMeta(a)
  <2> DEFINE q == [ask[a] EXCEPT !.pc = "write", !.has = proj[Ask[a].id].meta[Ask[a].key]]
  <2>1. ask[a].pc = "meta" /\ MoveTo(a, q)
    BY <1>4, Zenon DEF ReadMeta
  <2>2. Ask[a].op = "updateProject"
    BY <1>r, <2>1, Zenon DEF Fits, Agrees
  <2>3. proj[Ask[a].id].meta[Ask[a].key] \in Vals \union {"own"}
    <3>1. Ask[a].id \in ProjectIds /\ Ask[a].key \in {"public", "retention"}
      BY <2>2, Asked
    <3>2. proj[Ask[a].id] \in Proj
      BY <3>1, Zenon DEF ProjInv, ProjTypes
    <3>3. proj[Ask[a].id].meta \in Meta
      BY <3>2, SMTT(30) DEF Proj
    <3> QED
      BY <3>1, <3>3 DEF Meta, Vals
  <2>4. q \in Req /\ q.pc = "write"
    BY <1>r, <2>3, Zenon DEF Req
  <2>5. Fits(a, q)
    BY <1>r, <2>1, <2>2, <2>4 DEF Fits, Agrees, Refers, Deletes
  <2>6. q.pc # "parts"
    BY <2>4
  <2> HIDE DEF q
  <2> QED
    BY <1>0, <2>1, <2>4, <2>5, <2>6, NextStep, Zenon
<1>5. CASE MarkDeleted(a) /\ ~Refuse(a)
  <2>1. ask[a].pc = "mark" /\ MoveTo(a, To("remove"))
    BY <1>5, Zenon DEF MarkDeleted
  <2>2. Fits(a, To("remove"))
    BY <1>1, <1>r, <2>1 DEF Fits, Agrees, Refers, Deletes
  <2>3. To("remove").pc # "parts"
    BY <1>1
  <2> QED
    BY <1>0, <1>1, <2>1, <2>2, <2>3, NextStep, Zenon
<1>6. CASE ProjectOfRepo(a) /\ ~Refuse(a)
  <2>1. ask[a].pc = "project" /\ \E p \in ProjectIds : Live(p)
    BY <1>6, Zenon DEF ProjectOfRepo
  <2>2. PICK p : p = CHOOSE x \in ProjectIds : Live(x)
    BY Zenon
  <2>3. p \in ProjectIds /\ Live(p)
    BY <2>1, <2>2, Zenon
  <2> DEFINE q == [ask[a] EXCEPT !.pc = "insert", !.has = p]
  <2>4. MoveTo(a, q)
    BY <1>6, <2>1, <2>2, Zenon DEF ProjectOfRepo
  <2>5. q \in Req /\ q.pc = "insert" /\ q.has = p
    BY <1>r, <2>3, Zenon DEF Req
  <2>6. Ask[a].op = "push"
    BY <1>r, <2>1, Zenon DEF Fits, Agrees
  <2>7. Fits(a, q)
    BY <2>3, <2>5, <2>6 DEF Fits, Agrees, Refers, Deletes
  <2>8. q.pc # "parts"
    BY <2>5
  <2> HIDE DEF q
  <2> QED
    BY <1>0, <2>4, <2>5, <2>7, <2>8, NextStep, Zenon
<1>7. CASE CountProjects(a) /\ ~Refuse(a)
  <2>1. ask[a].pc = "projects" /\ MoveTo(a, To("delete")) /\ \A p \in ProjectIds : Live(p) => proj[p].reg # Ask[a].reg
    BY <1>7, Zenon DEF CountProjects
  <2>2. Fits(a, To("delete"))
    BY <1>1, <1>r, <2>1 DEF Fits, Agrees, Refers, Deletes
  <2>3. To("delete").pc # "parts"
    BY <1>1
  <2> QED
    BY <1>0, <1>1, <2>1, <2>2, <2>3, NextStep, Zenon
<1> QED
  BY <1>2, <1>3, <1>4, <1>5, <1>6, <1>7, Zenon

\* A project is created whole.
LEMMA CreateStep ==
    ASSUME ProjInv, NEW a \in Asks, CreateProject(a)
    PROVE  ProjInv'
<1>0. ask[a].pc = "parts" /\ UNCHANGED <<registry, policy, repo, health, lastUrl, met>>
  BY Zenon DEF CreateProject
<1>1. CASE Refuse(a) /\ UNCHANGED <<proj, wrote>>
  BY <1>0, <1>1, RefuseStep, Zenon DEF Tables
<1>2. CASE ~(Refuse(a) /\ UNCHANGED <<proj, wrote>>)
  <2>1. /\ MoveTo(a, Over("done")) /\ proj' = [proj EXCEPT ![Ask[a].id] = NewProject(Ask[a].reg)]
        /\ wrote' = [wrote EXCEPT ![Ask[a].id] = a]
    BY <1>2, Zenon DEF CreateProject, Done
  <2>2. Ask[a].op = "createProject"
    BY <1>0, Zenon DEF ProjInv, Fits, Agrees
  <2>3. Ask[a].id \in ProjectIds /\ Ask[a].reg \in Registries \union {"none"}
    BY <2>2, Asked
  <2>4. NewProject(Ask[a].reg) \in Proj /\ NewProject(Ask[a].reg).st = "live" /\ NewProject(Ask[a].reg).reg = Ask[a].reg
    BY <2>3 DEF NewProject, Proj, Meta, Vals
  <2>5. NewProject(Ask[a].reg).quota /\ (Ask[a].reg # "none" => NewProject(Ask[a].reg).retention)
    BY Zenon DEF NewProject
  <2>6. proj \in [ProjectIds -> Proj] /\ wrote \in [Writable -> Asks \union {"none"}] /\ \A p \in ProjectIds : ~Live(p)
    BY <1>0, Zenon DEF ProjInv, ProjTypes, Making
  <2>7. Ask[a].id \in Writable /\ \A x \in Writable : x \in Policies \union Repos => x # Ask[a].id
    BY <2>3, ProjectAssumption DEF Writable
  <2>8. /\ proj'[Ask[a].id] = NewProject(Ask[a].reg) /\ \A p \in ProjectIds : p # Ask[a].id => proj'[p] = proj[p]
        /\ wrote'[Ask[a].id] = a /\ \A x \in Policies \union Repos : wrote'[x] = wrote[x]
    BY <2>1, <2>3, <2>6, <2>7 DEF Writable
  <2>9. proj' \in [ProjectIds -> Proj] /\ wrote' \in [Writable -> Asks \union {"none"}]
    BY <2>1, <2>4, <2>6, Zenon
  <2>10. ask' \in [Asks -> Req]
    BY <2>1, RestTyped, Zenon DEF MoveTo, ProjInv, ProjTypes
  <2>11. ProjTypes'
    BY <1>0, <2>9, <2>10, Zenon DEF ProjInv, ProjTypes
  <2>12. WholeProject'
    <3>1. \A p \in ProjectIds : Live(p)' <=> p = Ask[a].id
      BY <2>4, <2>6, <2>8, Zenon DEF Live
    <3>2. ASSUME NEW p \in ProjectIds
          PROVE  (proj'[p].quota <=> Live(p)') /\ (Live(p)' /\ proj'[p].reg # "none" => proj'[p].retention)
      <4>1. CASE p = Ask[a].id
        BY <2>4, <2>5, <2>8, <3>1, <4>1, Zenon
      <4>2. CASE p # Ask[a].id
        BY <2>6, <2>8, <3>1, <4>2, Zenon DEF ProjInv, WholeProject
      <4> QED
        BY <4>1, <4>2, Zenon
    <3> QED
      BY <3>1, <3>2, Zenon DEF WholeProject
  <2>13. UrlKept'
    BY <1>0, Zenon DEF ProjInv, UrlKept
  <2>14. Writes(a)
    BY <1>0, <2>4, <2>6, <2>8, Zenon DEF Writes, Live
  <2> QED
    BY <1>0, <2>1, <2>11, <2>12, <2>13, <2>14, LastStep, Zenon
<1> QED
  BY <1>1, <1>2, Zenon

\* Metadata of a project are written, nothing else of it.
LEMMA MetaWritten ==
    ASSUME ProjInv, NEW a \in Asks, NEW p \in ProjectIds, NEW key \in {"public", "retention"}, NEW v \in Vals \union {"own"},
           key = "retention" => v \in {"none", "own"}, key = "public" => v \in Vals,
           Done(a), met' = met \/ \E op \in AskOps : Begin(a, op),
           proj' = [proj EXCEPT ![p].meta[key] = v],
           UNCHANGED <<registry, policy, repo, health, wrote, lastUrl>>
    PROVE  ProjInv'
<1>1. proj \in [ProjectIds -> Proj]
  BY Zenon DEF ProjInv, ProjTypes
<1>2. proj[p] \in Proj /\ proj[p].meta \in Meta
  BY <1>1 DEF Proj
<1>3. [proj[p].meta EXCEPT ![key] = v] \in Meta
  BY <1>2 DEF Meta
<1>4. proj'[p] = [proj[p] EXCEPT !.meta = [proj[p].meta EXCEPT ![key] = v]] /\ \A r \in ProjectIds : r # p => proj'[r] = proj[r]
  BY <1>1, Zenon
<1>5. /\ proj'[p] \in Proj /\ proj'[p].st = proj[p].st /\ proj'[p].reg = proj[p].reg /\ proj'[p].quota = proj[p].quota
      /\ proj'[p].retention = proj[p].retention
  BY <1>2, <1>3, <1>4 DEF Proj
<1>6. \A r \in ProjectIds : /\ proj'[r] \in Proj /\ proj'[r].st = proj[r].st /\ proj'[r].reg = proj[r].reg
                            /\ proj'[r].quota = proj[r].quota /\ proj'[r].retention = proj[r].retention
  BY <1>1, <1>4, <1>5, Zenon
<1>7. proj' \in [ProjectIds -> Proj]
  BY <1>1, <1>2, <1>3 DEF Proj
<1>8. ask' \in [Asks -> Req]
  BY RestTyped, Zenon DEF MoveTo, Done, ProjInv, ProjTypes
<1>9. ProjTypes'
  BY <1>7, <1>8, Zenon DEF ProjInv, ProjTypes
<1>10. \A r \in ProjectIds : Live(r)' <=> Live(r)
  BY <1>6, Zenon DEF Live
<1>11. WholeProject'
  BY <1>6, <1>10, ZenonT(60) DEF ProjInv, WholeProject
<1>12. UrlKept'
  BY Zenon DEF ProjInv, UrlKept
<1>13. Writes(a)
  BY <1>6, Zenon DEF Writes, Live
<1> QED
  BY <1>9, <1>10, <1>11, <1>12, <1>13, LastStep, Zenon DEF Done

\* The requests that write metadata.
LEMMA MetaSteps ==
    ASSUME ProjInv, NEW a \in Asks, WriteMeta(a) \/ AddProjectMetadatas(a) \/ DeleteProjectMetadata(a)
    PROVE  ProjInv'
<1>0. /\ UNCHANGED <<registry, policy, repo, health, wrote, lastUrl>> /\ (met' = met \/ \E op \in AskOps : Begin(a, op))
      /\ Ask[a].op \in {"updateProject", "addMeta", "delMeta"}
  BY Zenon DEF WriteMeta, AddProjectMetadatas, DeleteProjectMetadata, AskOps, Begin
<1>1. CASE Refuse(a) /\ proj' = proj
  BY <1>0, <1>1, RefuseStep, Zenon DEF Tables
<1>2. Ask[a].id \in ProjectIds /\ Ask[a].key \in {"public", "retention"} /\ Ask[a].val \in Vals
  BY <1>0, Asked
<1>3. CASE WriteMeta(a) /\ ~(Refuse(a) /\ proj' = proj)
  <2>1. PICK v : v = IF ask[a].has # "none" /\ proj[Ask[a].id].meta[Ask[a].key] = "none"
                     THEN proj[Ask[a].id].meta[Ask[a].key] ELSE Ask[a].val
    BY Zenon
  <2>2. Done(a) /\ proj' = [proj EXCEPT ![Ask[a].id].meta[Ask[a].key] = v]
    BY <1>3, <2>1, Zenon DEF WriteMeta
  <2>3. ask[a].pc = "write" /\ Ask[a].op = "updateProject"
    BY <1>3, Zenon DEF WriteMeta
  <2>4. Ask[a].key = "retention" => Ask[a].val \in {"none", "own"}
    BY <2>3, Zenon DEF ProjInv, Fits, Agrees
  <2>5. v = "none" \/ v = Ask[a].val
    BY <2>1, Zenon
  <2>6. v \in Vals /\ (Ask[a].key = "retention" => v \in {"none", "own"})
    BY <1>2, <2>4, <2>5 DEF Vals
  <2> QED
    BY <1>0, <1>2, <2>2, <2>6, MetaWritten, Zenon
<1>4. CASE AddProjectMetadatas(a) /\ ~(Refuse(a) /\ proj' = proj)
  <2>1. Done(a) /\ proj' = [proj EXCEPT ![Ask[a].id].meta["public"] = Ask[a].val]
    BY <1>4, Zenon DEF AddProjectMetadatas
  <2>2. "public" # "retention"
    OBVIOUS
  <2> QED
    BY <1>0, <1>2, <2>1, <2>2, MetaWritten, Zenon
<1>5. CASE DeleteProjectMetadata(a) /\ ~(Refuse(a) /\ proj' = proj)
  <2>1. Done(a) /\ proj' = [proj EXCEPT ![Ask[a].id].meta[Ask[a].key] = "none"]
    BY <1>5, Zenon DEF DeleteProjectMetadata
  <2>2. "none" \in Vals
    BY DEF Vals
  <2> QED
    BY <1>0, <1>2, <2>1, <2>2, MetaWritten, Zenon
<1> QED
  BY <1>1, <1>3, <1>4, <1>5, Zenon

\* A project is marked and its quota goes.
LEMMA DeleteStep ==
    ASSUME ProjInv, NEW a \in Asks, DeleteProject(a)
    PROVE  ProjInv'
<1>0. /\ ask[a].pc = "remove" /\ MoveTo(a, Over("done")) /\ UNCHANGED <<registry, policy, repo, health, wrote, lastUrl, met>>
      /\ proj' = [proj EXCEPT ![Ask[a].id] = [@ EXCEPT !.st = "deleted", !.quota = FALSE]]
  BY Zenon DEF DeleteProject, Done
<1>1. Ask[a].op = "deleteProject"
  BY <1>0, Zenon DEF ProjInv, Fits, Agrees
<1>2. Ask[a].id \in ProjectIds
  BY <1>1, Asked
<1>3. proj \in [ProjectIds -> Proj] /\ proj[Ask[a].id] \in Proj
  BY <1>2, Zenon DEF ProjInv, ProjTypes
<1>4. /\ proj'[Ask[a].id] \in Proj /\ proj'[Ask[a].id].st = "deleted" /\ proj'[Ask[a].id].quota = FALSE
      /\ proj' \in [ProjectIds -> Proj] /\ \A p \in ProjectIds : p # Ask[a].id => proj'[p] = proj[p]
  BY <1>0, <1>2, <1>3, Zenon DEF Proj
<1>5. ask' \in [Asks -> Req]
  BY <1>0, RestTyped, Zenon DEF MoveTo, ProjInv, ProjTypes
<1>6. ProjTypes'
  BY <1>0, <1>4, <1>5, Zenon DEF ProjInv, ProjTypes
<1>7. \A p \in ProjectIds : Live(p)' => Live(p) /\ p # Ask[a].id
  BY <1>4, Zenon DEF Live
<1>8. WholeProject'
  <2>1. ASSUME NEW p \in ProjectIds
        PROVE  (proj'[p].quota <=> Live(p)') /\ (Live(p)' /\ proj'[p].reg # "none" => proj'[p].retention)
    <3>1. CASE p = Ask[a].id
      BY <1>4, <1>7, <3>1, Zenon
    <3>2. CASE p # Ask[a].id
      BY <1>4, <3>2, Zenon DEF ProjInv, WholeProject, Live
    <3> QED
      BY <3>1, <3>2, Zenon
  <2> QED
    BY <1>7, <2>1, Zenon DEF ProjInv, WholeProject
<1>9. UrlKept'
  BY <1>0, Zenon DEF ProjInv, UrlKept
<1>10. Writes(a)
  BY <1>0, <1>4, Zenon DEF Writes, Live
<1> QED
  BY <1>0, <1>6, <1>7, <1>8, <1>9, <1>10, LastStep, Zenon

\* Repositories and policies: one row is written.
LEMMA RowSteps ==
    ASSUME ProjInv, NEW a \in Asks,
           Ensure(a) \/ DeleteRepository(a) \/ CreatePolicy(a) \/ UpdatePolicy(a) \/ DeletePolicy(a)
    PROVE  ProjInv'
<1>0. UNCHANGED <<proj, registry, health, lastUrl>> /\ (met' = met \/ \E op \in AskOps : Begin(a, op)) /\ (Refuse(a) \/ Done(a))
  BY Zenon DEF Ensure, DeleteRepository, CreatePolicy, UpdatePolicy, DeletePolicy, AskOps
<1>1. CASE UNCHANGED <<repo, policy, wrote>>
  BY <1>0, <1>1, RefuseStep, Zenon DEF Tables
<1>2. /\ repo \in [Repos -> ProjectIds \union {"none"}] /\ policy \in [Policies -> Registries \union {"none"}]
      /\ wrote \in [Writable -> Asks \union {"none"}]
  BY Zenon DEF ProjInv, ProjTypes
<1>3. ASSUME Writes(a), repo' \in [Repos -> ProjectIds \union {"none"}], policy' \in [Policies -> Registries \union {"none"}],
             wrote' \in [Writable -> Asks \union {"none"}]
      PROVE  ProjInv'
  <2>1. PICK pc \in {"done", "failed"} : MoveTo(a, Over(pc))
    BY <1>0, Zenon DEF Done, Refuse
  <2>2. ask' \in [Asks -> Req]
    <3>1. Over(pc) \in Req
      BY RestTyped
    <3> QED
      BY <2>1, <3>1, Zenon DEF MoveTo, ProjInv, ProjTypes
  <2>3. (ProjTypes /\ WholeProject /\ UrlKept)'
    BY <1>0, <1>3, <2>2, Zenon DEF ProjInv, ProjTypes, WholeProject, UrlKept, Live
  <2>4. \A p \in ProjectIds : Live(p)' => Live(p)
    BY <1>0, Zenon DEF Live
  <2> QED
    BY <1>0, <1>3, <2>1, <2>3, <2>4, LastStep, Zenon
<1>4. CASE Ensure(a) /\ ~UNCHANGED <<repo, policy, wrote>>
  <2>1. /\ ask[a].pc = "insert" /\ Ask[a].op = "push" /\ policy' = policy
        /\ repo' = [repo EXCEPT ![Ask[a].id] = ask[a].has] /\ wrote' = [wrote EXCEPT ![Ask[a].id] = a]
    BY <1>4, Zenon DEF Ensure
  <2>2. Ask[a].id \in Repos
    BY <2>1, Asked
  <2>3. ask[a].has \in ProjectIds
    BY <2>1, Zenon DEF ProjInv, Fits, Agrees
  <2>4. Ask[a].id \in Writable /\ Ask[a].id \notin Policies /\ Ask[a].id \notin ProjectIds
    BY <2>2, ProjectAssumption DEF Writable
  <2>5. /\ repo'[Ask[a].id] = ask[a].has /\ (\A x \in Repos : x # Ask[a].id => repo'[x] = repo[x])
        /\ wrote'[Ask[a].id] = a /\ (\A x \in Writable : x # Ask[a].id => wrote'[x] = wrote[x])
        /\ repo' \in [Repos -> ProjectIds \union {"none"}] /\ wrote' \in [Writable -> Asks \union {"none"}]
    BY <1>2, <2>1, <2>2, <2>3, <2>4
  <2>6. \A x \in Policies \union ProjectIds : wrote'[x] = wrote[x]
    BY <2>4, <2>5 DEF Writable
  <2>7. \A x \in Repos : x # Ask[a].id => wrote'[x] = wrote[x]
    BY <2>5 DEF Writable
  <2>8. Writes(a)
    BY <1>0, <2>1, <2>5, <2>6, <2>7, Zenon DEF Writes, Live
  <2> QED
    BY <1>2, <1>3, <2>1, <2>5, <2>8, Zenon
<1>5. CASE DeleteRepository(a) /\ ~UNCHANGED <<repo, policy, wrote>>
  <2>1. Ask[a].op = "delRepo" /\ policy' = policy /\ wrote' = wrote /\ repo' = [repo EXCEPT ![Ask[a].id] = "none"]
    BY <1>5, Zenon DEF DeleteRepository, Begin
  <2>2. Ask[a].id \in Repos
    BY <2>1, Asked
  <2>3. repo'[Ask[a].id] = "none" /\ (\A x \in Repos : x # Ask[a].id => repo'[x] = repo[x]) /\ repo' \in [Repos -> ProjectIds \union {"none"}]
    BY <1>2, <2>1, <2>2
  <2>4. Writes(a)
    BY <1>0, <2>1, <2>3, Zenon DEF Writes, Live
  <2> QED
    BY <1>2, <1>3, <2>1, <2>3, <2>4, Zenon
<1>6. CASE (CreatePolicy(a) \/ UpdatePolicy(a)) /\ ~UNCHANGED <<repo, policy, wrote>>
  <2>1. /\ ask[a].pc = "policy" /\ Ask[a].op \in {"createPolicy", "updatePolicy"} /\ repo' = repo
        /\ policy' = [policy EXCEPT ![Ask[a].id] = Ask[a].reg] /\ wrote' = [wrote EXCEPT ![Ask[a].id] = a]
    BY <1>6, Zenon DEF CreatePolicy, UpdatePolicy
  <2>2. Ask[a].id \in Policies /\ Ask[a].reg \in Registries
    BY <2>1, Asked
  <2>4. Ask[a].id \in Writable /\ Ask[a].id \notin Repos /\ Ask[a].id \notin ProjectIds
    BY <2>2, ProjectAssumption DEF Writable
  <2>5. /\ policy'[Ask[a].id] = Ask[a].reg /\ (\A x \in Policies : x # Ask[a].id => policy'[x] = policy[x])
        /\ wrote'[Ask[a].id] = a /\ (\A x \in Writable : x # Ask[a].id => wrote'[x] = wrote[x])
        /\ policy' \in [Policies -> Registries \union {"none"}] /\ wrote' \in [Writable -> Asks \union {"none"}]
    BY <1>2, <2>1, <2>2, <2>4
  <2>6. \A x \in Repos \union ProjectIds : wrote'[x] = wrote[x]
    BY <2>4, <2>5 DEF Writable
  <2>7. \A x \in Policies : x # Ask[a].id => wrote'[x] = wrote[x]
    BY <2>5 DEF Writable
  <2>8. Writes(a)
    BY <1>0, <2>1, <2>5, <2>6, <2>7, Zenon DEF Writes, Live
  <2> QED
    BY <1>2, <1>3, <2>1, <2>5, <2>8, Zenon
<1>7. CASE DeletePolicy(a) /\ ~UNCHANGED <<repo, policy, wrote>>
  <2>1. Ask[a].op = "deletePolicy" /\ repo' = repo /\ wrote' = wrote /\ policy' = [policy EXCEPT ![Ask[a].id] = "none"]
    BY <1>7, Zenon DEF DeletePolicy, Begin
  <2>2. Ask[a].id \in Policies
    BY <2>1, Asked
  <2>3. policy'[Ask[a].id] = "none" /\ (\A x \in Policies : x # Ask[a].id => policy'[x] = policy[x]) /\ policy' \in [Policies -> Registries \union {"none"}]
    BY <1>2, <2>1, <2>2
  <2>4. Writes(a)
    BY <1>0, <2>1, <2>3, Zenon DEF Writes, Live
  <2> QED
    BY <1>2, <1>3, <2>1, <2>3, <2>4, Zenon
<1> QED
  BY <1>1, <1>4, <1>5, <1>6, <1>7, Zenon

\* A registry is deleted, or updated.
LEMMA RegistrySteps ==
    ASSUME ProjInv, NEW a \in Asks, DeleteRegistry(a) \/ WriteRegistry(a)
    PROVE  ProjInv'
<1>0. UNCHANGED <<proj, policy, repo, health, wrote, met>> /\ (Refuse(a) \/ Done(a))
  BY Zenon DEF DeleteRegistry, WriteRegistry
<1>1. CASE UNCHANGED <<registry, lastUrl>>
  BY <1>0, <1>1, RefuseStep, Zenon DEF Tables
<1>2. registry \in [Registries -> Reg] /\ lastUrl \in [Registries -> Vals] /\ ask[a] \in Req
  BY Zenon DEF ProjInv, ProjTypes
<1>3. ASSUME \A g \in Registries : registry[g] # NoRegistry /\ registry'[g] = NoRegistry => ask[a].pc = "delete" /\ Ask[a].reg = g,
             registry' \in [Registries -> Reg], lastUrl' \in [Registries -> Vals], UrlKept'
      PROVE  ProjInv'
  <2>1. PICK pc \in {"done", "failed"} : MoveTo(a, Over(pc))
    BY <1>0, Zenon DEF Done, Refuse
  <2>2. ask' \in [Asks -> Req]
    <3>1. Over(pc) \in Req
      BY RestTyped
    <3> QED
      BY <2>1, <3>1, Zenon DEF MoveTo, ProjInv, ProjTypes
  <2>3. (ProjTypes /\ WholeProject)'
    BY <1>0, <1>3, <2>2, Zenon DEF ProjInv, ProjTypes, WholeProject, Live
  <2>4. \A p \in ProjectIds : Live(p)' => Live(p)
    BY <1>0, Zenon DEF Live
  <2>5. Writes(a)
    BY <1>0, <1>3, Zenon DEF Writes, Live
  <2> QED
    BY <1>0, <1>3, <2>1, <2>3, <2>4, <2>5, LastStep, Zenon
<1>4. CASE DeleteRegistry(a) /\ ~UNCHANGED <<registry, lastUrl>>
  <2>1. ask[a].pc = "delete" /\ lastUrl' = lastUrl /\ registry' = [registry EXCEPT ![Ask[a].reg] = NoRegistry]
    BY <1>4, Zenon DEF DeleteRegistry
  <2>2. Ask[a].op = "deleteRegistry"
    BY <2>1, Zenon DEF ProjInv, Fits, Agrees
  <2>3. Ask[a].reg \in Registries
    BY <2>2, Asked
  <2>4. /\ registry' \in [Registries -> Reg] /\ registry'[Ask[a].reg] = NoRegistry
        /\ \A g \in Registries : g # Ask[a].reg => registry'[g] = registry[g]
    BY <1>2, <2>1, <2>3, RestTyped, Zenon
  <2>5. UrlKept'
    BY <2>1, <2>4, Zenon DEF ProjInv, UrlKept
  <2> QED
    BY <1>2, <1>3, <2>1, <2>4, <2>5, Zenon
<1>5. CASE WriteRegistry(a) /\ ~UNCHANGED <<registry, lastUrl>>
  <2>1. /\ ask[a].pc = "write" /\ Ask[a].op = "updateRegistry" /\ registry' = [registry EXCEPT ![Ask[a].reg] = ask[a].row]
        /\ lastUrl' = [lastUrl EXCEPT ![Ask[a].reg] = Ask[a].val] /\ registry[Ask[a].reg] # NoRegistry
    BY <1>5, Zenon DEF WriteRegistry
  <2>2. Ask[a].reg \in Registries /\ Ask[a].val \in Vals
    BY <2>1, Asked
  <2>3. ask[a].row \in Reg /\ ask[a].row.url = Ask[a].val /\ ask[a].row # NoRegistry
    <3>1. ask[a].row.url = Ask[a].val /\ ask[a].row.status = "healthy"
      BY <2>1, Zenon DEF ProjInv, Fits, Agrees
    <3> QED
      BY <1>2, <3>1 DEF Req, NoRegistry
  <2>4. /\ registry' \in [Registries -> Reg] /\ registry'[Ask[a].reg] = ask[a].row /\ lastUrl'[Ask[a].reg] = Ask[a].val
        /\ \A g \in Registries : g # Ask[a].reg => registry'[g] = registry[g] /\ lastUrl'[g] = lastUrl[g]
        /\ lastUrl' \in [Registries -> Vals]
    BY <1>2, <2>1, <2>2, <2>3, Zenon
  <2>5. UrlKept'
    BY <2>3, <2>4, Zenon DEF ProjInv, UrlKept
  <2> QED
    BY <1>3, <2>3, <2>4, <2>5, Zenon
<1> QED
  BY <1>1, <1>4, <1>5, Zenon

\* The health check lists the registries, and stores a status.
LEMMA HealthSteps ==
    ASSUME ProjInv, NEW g \in Registries, ListRegistries(g) \/ CheckHealth(g)
    PROVE  ProjInv'
<1>0. UNCHANGED <<proj, policy, repo, ask, wrote, lastUrl, met>>
  BY Zenon DEF ListRegistries, CheckHealth
<1>1. registry \in [Registries -> Reg] /\ health \in [Registries -> Reg]
  BY Zenon DEF ProjInv, ProjTypes
<1>2. CASE ListRegistries(g)
  <2>1. registry' = registry /\ health' = [health EXCEPT ![g] = registry[g]]
    BY <1>2, Zenon DEF ListRegistries
  <2>2. health' \in [Registries -> Reg]
    BY <1>1, <2>1, Zenon
  <2> QED
    BY <1>0, <1>1, <2>1, <2>2, HealthStep, Zenon
<1>3. CASE CheckHealth(g)
  <2>1. PICK s \in {"healthy", "unhealthy", "error"} :
          registry' = [registry EXCEPT ![g] =
             IF registry[g] = NoRegistry \/ s = "error" \/ health[g].status = s THEN @ ELSE StoreStatus(g, s)]
    BY <1>3, Zenon DEF CheckHealth
  <2>2. health' \in [Registries -> Reg]
    BY <1>1, <1>3, RestTyped, Zenon DEF CheckHealth
  <2>3. PICK r : r = registry'[g]
    BY Zenon
  <2>4. r = registry[g] \/ (registry[g] # NoRegistry /\ s \in {"healthy", "unhealthy"} /\ r = StoreStatus(g, s))
    BY <1>1, <2>1, <2>3, Zenon
  <2>5. r \in Reg /\ r.url = registry[g].url /\ (r = NoRegistry <=> registry[g] = NoRegistry)
    <3>1. registry[g] \in Reg
      BY <1>1, Zenon
    <3>2. CASE r = registry[g]
      BY <3>1, <3>2, Zenon
    <3>3. CASE registry[g] # NoRegistry /\ s \in {"healthy", "unhealthy"} /\ r = StoreStatus(g, s)
      BY <3>1, <3>3 DEF StoreStatus, Reg, NoRegistry
    <3> QED
      BY <2>4, <3>2, <3>3, Zenon
  <2>6. registry' = [registry EXCEPT ![g] = r]
    BY <1>1, <2>1, <2>3, Zenon
  <2>7. registry' \in [Registries -> Reg] /\ \A h \in Registries : h # g => registry'[h] = registry[h]
    BY <1>1, <2>5, <2>6, Zenon
  <2>8. \A h \in Registries : (registry'[h] = NoRegistry <=> registry[h] = NoRegistry) /\ registry'[h].url = registry[h].url
    BY <2>3, <2>5, <2>7, Zenon
  <2> QED
    BY <1>0, <2>2, <2>7, <2>8, HealthStep, Zenon
<1> QED
  BY <1>2, <1>3, Zenon

\* The invariant holds at first.
LEMMA ProjInitInv == ProjectInit => ProjInv
<1> SUFFICES ASSUME ProjectInit PROVE ProjInv
  OBVIOUS
<1>1. /\ NoProject \in Proj /\ [NoProject EXCEPT !.st = "live", !.quota = TRUE, !.meta.public = "true"] \in Proj
      /\ [url |-> "first", status |-> "healthy"] \in Reg /\ "first" \in Vals
  BY Zenon DEF NoProject, NoMeta, Proj, Meta, Vals, Reg
<1>2. ProjTypes
  <2>1. proj \in [ProjectIds -> Proj]
    BY <1>1, Zenon DEF ProjectInit
  <2>2. ask \in [Asks -> Req] /\ health \in [Registries -> Reg]
    BY RestTyped, Zenon DEF ProjectInit
  <2> QED
    BY <1>1, <2>1, <2>2 DEF ProjectInit, ProjTypes, Writable
<1>3. \A a \in Asks : ask[a] \in Req /\ ask[a].pc \in {"idle", "done", "failed"}
  BY <1>2, RestTyped DEF ProjectInit, ProjTypes
<1>4. \A a \in Asks : Fits(a, ask[a])
  BY <1>3, OverFits
<1>5. Meet /\ Making
  BY <1>3 DEF Meet, Making, InFlight
<1>6. \A p \in ProjectIds : proj[p].reg = "none" /\ (proj[p].quota <=> Live(p))
  <2> DEFINE Old == [NoProject EXCEPT !.st = "live", !.quota = TRUE, !.meta.public = "true"]
  <2>1. /\ NoProject.reg = "none" /\ NoProject.quota = FALSE /\ NoProject.st # "live"
        /\ Old.reg = "none" /\ Old.quota = TRUE /\ Old.st = "live"
    BY DEF NoProject, NoMeta
  <2>2. \A p \in ProjectIds : proj[p] \in {NoProject, Old}
    BY Zenon DEF ProjectInit
  <2> HIDE DEF Old
  <2> QED
    BY <2>1, <2>2, Zenon DEF Live
<1>7. WholeProject /\ RefsFound /\ ReposOwned
  <2>1. WholeProject
    BY <1>6, Zenon DEF ProjectInit, WholeProject
  <2>2. RefsFound
    BY <1>6, Zenon DEF ProjectInit, RefsFound, Found
  <2>3. ReposOwned
    BY Zenon DEF ProjectInit, ReposOwned
  <2> QED
    BY <2>1, <2>2, <2>3, Zenon
<1>8. UrlKept
  BY DEF ProjectInit, UrlKept
<1> QED
  BY <1>2, <1>4, <1>5, <1>7, <1>8, Zenon DEF ProjInv

\* The invariant is kept by every step of CreateProject, UpdateProject,
\* DeleteProject and the other handlers, and by the health check.
LEMMA ProjStep == ProjInv /\ [ProjectNext]_projectVars => ProjInv'
<1> SUFFICES ASSUME ProjInv, [ProjectNext]_projectVars PROVE ProjInv'
  OBVIOUS
<1>1. CASE UNCHANGED projectVars
  <2>1. UNCHANGED <<proj, registry, policy, repo, ask, health, wrote, lastUrl, met>>
    BY <1>1, Zenon DEF projectVars
  <2>2. registry' \in [Registries -> Reg] /\ health' \in [Registries -> Reg]
    BY <2>1, Zenon DEF ProjInv, ProjTypes
  <2> QED
    BY <2>1, <2>2, HealthStep, Zenon
<1>2. ASSUME NEW a \in Asks,
         \/ ValidateProjectReq(a) \/ InsertProject(a) \/ CreateProject(a)
         \/ UpdateProject(a) \/ ReadMeta(a) \/ WriteMeta(a)
         \/ AddProjectMetadatas(a) \/ DeleteProjectMetadata(a)
         \/ Deletable(a) \/ MarkDeleted(a) \/ DeleteProject(a)
         \/ GetByName(a) \/ ProjectOfRepo(a) \/ Ensure(a) \/ DeleteRepository(a)
         \/ ValidatePolicy(a) \/ CreatePolicy(a) \/ UpdatePolicy(a) \/ DeletePolicy(a)
         \/ CountPolicies(a) \/ CountProjects(a) \/ DeleteRegistry(a)
         \/ UpdateRegistry(a) \/ WriteRegistry(a)
      PROVE  ProjInv'
  BY <1>2, BeginSteps, LookSteps, CreateStep, MetaSteps, DeleteStep, RowSteps, RegistrySteps, Zenon
<1> QED
  <2>1. CASE \E g \in Registries : ListRegistries(g) \/ CheckHealth(g)
    BY <2>1, HealthSteps, Zenon
  <2> QED
    BY <1>1, <1>2, <2>1 DEF ProjectNext

\* Projects, registries, replication policies and repositories agree with
\* each other in every reachable state: one live project of a name with its
\* quota and its own retention policy, references that are found and
\* repositories that have a project unless the deletion raced, and a url that
\* the health check leaves alone.
THEOREM ProjectsSafe == ProjectSpec => []ProjectsSound
<1>1. ProjInv => ProjectsSound
  <2>1. ProjInv => RetentionTrue
    <3> SUFFICES ASSUME ProjInv, NEW p \in ProjectIds PROVE proj[p].meta.retention \in {"none", "own"}
      BY Zenon DEF RetentionTrue
    <3>1. proj[p] \in Proj
      BY Zenon DEF ProjInv, ProjTypes
    <3> QED
      BY <3>1 DEF Proj, Meta
  <2> QED
    BY <2>1, Zenon DEF ProjInv, ProjectsSound
<1> QED
  BY <1>1, ProjInitInv, ProjStep, PTL DEF ProjectSpec
=============================================================================
