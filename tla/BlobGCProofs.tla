---------------------------- MODULE BlobGCProofs ----------------------------
(***************************************************************************)
(* Theorems about BlobGC, for any artifacts, pushes, deletions and runs of *)
(* the collector: the inductive invariant and what it says of the rows of  *)
(* the blob table; then the pushes, the deletions and the collector.       *)
(***************************************************************************)
EXTENDS BlobGC, TLAPS

-----------------------------------------------------------------------------
(* The inductive invariant.                                                *)

Pair == Digests \X Row

PushType ==
    [pc : {"idle", "next", "touch", "giveup", "ask", "upload", "probe", "unstick",
           "store", "ensure", "after", "done", "failed"},
     art : Arts \union {"none"}, d : Digests \union {"none"}, row : Row,
     have : SUBSET Digests, lock : SUBSET Digests, new : BOOLEAN]

GcType ==
    [pc : {"idle", "list", "find", "clean", "useless", "mark", "sweep", "manifest",
           "forget", "untrash", "blob", "row", "markfailed"},
     trashed : SUBSET Arts, list : SUBSET (Digests \union (Digests \X Nat)),
     todo : SUBSET Pair, set : SUBSET Pair, d : Digests \union {"none"}, row : Row]

DelType == [pc : {"idle", "found", "done"}, art : Arts \union {"none"}, found : SUBSET (Digests \X Nat)]

Types ==
    /\ TypeOK
    /\ push \in [Pushers -> PushType] /\ gc \in GcType /\ del \in [Deleters -> DelType]
    /\ \A x \in Deleters : del[x].pc = "found" => del[x].art \in Arts
    /\ gc.pc = "find" => gc.list \subseteq Digests

\* A row that exists has an ID that was given, and a status.
RowsOK == \A d \in Digests : blob[d] = NoBlob \/ (blob[d].id >= 1 /\ blob[d].st # "absent")

\* The collector is removing a blob: it has set its status to "deleting".
Removing == gc.pc \in {"manifest", "forget", "untrash", "blob", "row", "markfailed"}

\* What the collector has seen and wants to mark, or has marked and wants to remove.
Listed == gc.todo \union gc.set

Same(r, s) == r.id = s.id /\ r.ver = s.ver

\* A row seen earlier: the one there is now is the same, a later version, or
\* has another ID.
Behind(d, r) ==
    /\ r.id \in 1..made[d]
    /\ r.id = blob[d].id => r.ver <= blob[d].ver

\* The collector will skip the blob if it comes to it.
Stale(d) == \A c \in Listed : c[1] = d => ~Same(c[2], blob[d])

Unclaimed(d) == Stale(d) /\ ~(Removing /\ gc.d = d)

\* The collector neither has its eye on the blob nor can find it.
Kept(d) == ~blob[d].old /\ Unclaimed(d)

\* What a request relies on, or is about to rely on.
Held(p) ==
    push[p].have \union (IF push[p].pc \in {"ask", "store", "ensure"} THEN {push[p].d} ELSE {})

PhaseOf(p) ==
    LET q == push[p] IN
    /\ Going(p) => /\ q.art \in Arts
                   /\ q.have \subseteq storage
                   /\ \A d \in Held(p) : d \in q.lock \/ Kept(d)
    /\ Going(p) /\ q.pc # "next" => q.d \in BlobsOf(q.art)
    /\ q.pc \in {"touch", "giveup", "ask", "ensure"} => q.d \in Layers
    /\ q.pc = "ensure" => q.d \in storage
    /\ q.pc = "after" => q.d = q.art /\ q.art \in q.have
    /\ q.lock # {} => /\ q.pc \in {"upload", "probe", "store", "after"}
                      /\ q.lock = {q.d} /\ q.d \in Arts
                      /\ blob[q.d] # NoBlob
                      /\ q.row.id = blob[q.d].id /\ q.row.ver > blob[q.d].ver
                      /\ ~q.row.old /\ q.row.st \in {"none", "deletefailed"}
                      /\ q.pc \in {"upload", "probe"} => q.row.st = "deletefailed"
    /\ q.pc \in {"giveup", "unstick"} =>
         /\ q.lock = {} /\ Behind(q.d, q.row) /\ (Same(q.row, blob[q.d]) => blob[q.d].old)

Phases == \A p \in Pushers : PhaseOf(p)

\* Two requests do not lock one row.
Apart == \A p \in Pushers : \A r \in Pushers \ {p} : push[p].lock \intersect push[r].lock = {}

Collector ==
    /\ \A c \in Listed : Behind(c[1], c[2])
    /\ gc.pc \notin {"mark", "sweep"} /\ ~Removing => gc.todo = {}
    /\ gc.pc # "mark" => gc.set = {}
    /\ Removing => /\ gc.d \in Digests /\ Free(gc.d)
                   /\ blob[gc.d] = gc.row /\ gc.row.st = "deleting" /\ ~gc.row.old
    /\ gc.pc \in {"manifest", "forget", "untrash"} => gc.d \in gc.trashed
    /\ gc.pc = "idle" => gc.trashed = {}

\* An artifact of the trash that was pushed again after the run began.
Reborn ==
    \A d \in gc.trashed \intersect arts :
        /\ Unclaimed(d)
        /\ gc.pc \in {"list", "find", "clean", "useless"} => ~blob[d].old

BlobInv == Types /\ RowsOK /\ Phases /\ Apart /\ Collector /\ Reborn /\ ArtifactsLinked
-----------------------------------------------------------------------------
(* Rows.                                                                   *)

Statuses == {"none", "delete", "deleting", "deletefailed"}

\* The rows that requests and the collector compute from a row are rows: an
\* update keeps the ID, raises the version and makes the row young.
LEMMA RowTypes ==
    /\ NoBlob \in Row
    /\ \A r \in Row, st \in Statuses :
         /\ Updated(r, st) \in Row /\ Updated(r, st).id = r.id /\ Updated(r, st).ver = r.ver + 1
         /\ Updated(r, st).st = st /\ ~Updated(r, st).old
  <1>1. NoBlob \in Row
    BY Zenon DEF Row, NoBlob
  <1>2. ASSUME NEW r \in Row, NEW st \in Statuses
        PROVE  /\ Updated(r, st) \in Row /\ Updated(r, st).id = r.id /\ Updated(r, st).ver = r.ver + 1
               /\ Updated(r, st).st = st /\ ~Updated(r, st).old
    <2>1. Updated(r, st) \in Row
      <3>1. Updated(r, st) = [r EXCEPT !.st = st, !.ver = r.ver + 1, !.old = FALSE] /\ r.ver + 1 \in Nat
        BY DEF Row, Updated
      <3>2. \A n \in Nat : [r EXCEPT !.st = st, !.ver = n, !.old = FALSE] \in Row
        BY Zenon DEF Row, Statuses
      <3> QED BY <3>1, <3>2, Zenon
    <2>2. Updated(r, st).id = r.id /\ Updated(r, st).st = st
      BY Zenon DEF Row, Updated
    <2>3. Updated(r, st).ver = r.ver + 1
      BY Zenon DEF Row, Updated
    <2>4. Updated(r, st).old = FALSE
      BY Zenon DEF Row, Updated
    <2> QED BY <2>1, <2>2, <2>3, <2>4, Zenon
  <1> QED BY <1>1, <1>2, Zenon

\* What a request sees of a row, and the row it makes sure of, are rows
\* (bloblib.ProbeBlob, the blob manager's Ensure).
LEMMA ViewTypes ==
    ASSUME Types, NEW p \in Pushers, NEW d \in Digests
    PROVE  /\ blob[d] \in Row /\ View(p, d) \in Row
           /\ Create(d) \in Row /\ Ensure(p, d) \in Row
  <1>1. blob[d] \in Row /\ push[p].row \in Row /\ made[d] \in Nat
    BY Zenon DEF Types, TypeOK, PushType
  <1>2. View(p, d) \in Row
    BY <1>1, Zenon DEF View
  <1>3. Create(d) \in Row
    BY <1>1 DEF Create, Row
  <1> QED BY <1>1, <1>2, <1>3, Zenon DEF Ensure

\* What a step may do to the row of a digest: nothing, give it a later
\* version, create it under a new ID, delete it.
RowMoves(d) ==
    \/ blob'[d] = blob[d]
    \/ ~blob'[d].old /\ blob'[d].id = blob[d].id /\ blob'[d].ver > blob[d].ver
    \/ ~blob'[d].old /\ blob'[d].id > made[d]
    \/ blob'[d] = NoBlob

RowsMove == \A d \in Digests : RowMoves(d) /\ made'[d] >= made[d]

\* A row seen earlier stays behind the row there is (version and ID of a row
\* only grow).
LEMMA BehindStays ==
    ASSUME Types, Types', RowsMove, NEW d \in Digests, NEW r \in Row, Behind(d, r)
    PROVE  Behind(d, r)'
  <1>1. /\ blob[d] \in Row /\ blob'[d] \in Row /\ made[d] \in Nat /\ made'[d] \in Nat
        /\ RowMoves(d) /\ made'[d] >= made[d] /\ r.id \in Nat /\ r.ver \in Nat
        /\ blob[d].ver \in Nat /\ blob'[d].ver \in Nat /\ blob'[d].id \in Nat
    BY Zenon DEF Types, TypeOK, RowsMove, Row
  <1>2. r.id \in 1..made'[d]
    BY <1>1 DEF Behind
  <1>3. ASSUME r.id = blob'[d].id PROVE r.ver <= blob'[d].ver
    BY <1>1, <1>3 DEF Behind, RowMoves, NoBlob
  <1> QED BY <1>2, <1>3, Zenon DEF Behind

\* What the collector would skip it still skips after a step that adds
\* nothing to its lists (the comparison of versions in UpdateBlobStatus).
LEMMA StaleStays ==
    ASSUME Types, Types', Collector, RowsMove, NEW d \in Digests, Stale(d), Listed' \subseteq Listed
    PROVE  Stale(d)'
  <1> SUFFICES ASSUME NEW c \in Listed', c[1] = d, Same(c[2], blob'[d]) PROVE FALSE
    BY Zenon DEF Stale
  <1>1. c \in Listed /\ c \in Pair /\ c[2] \in Row /\ Behind(d, c[2]) /\ ~Same(c[2], blob[d])
    BY DEF Collector, Stale, Types, GcType, Listed, Pair
  <1>2. /\ blob[d] \in Row /\ blob'[d] \in Row /\ made[d] \in Nat /\ RowMoves(d)
        /\ c[2].id \in Nat /\ c[2].ver \in Nat /\ blob[d].ver \in Nat /\ blob'[d].ver \in Nat
    BY <1>1 DEF Types, TypeOK, RowsMove, Row
  <1> QED BY <1>1, <1>2 DEF Behind, Same, RowMoves, NoBlob

\* Nothing that is out of the collector's sight comes into it.
ClaimsLess == Listed' \subseteq Listed /\ (Removing' => Removing /\ gc'.d = gc.d)

\* A blob out of the sight of the collector stays out of it, and its row stays young.
LEMMA UnclaimedStays ==
    ASSUME Types, Types', Collector, RowsMove, ClaimsLess, NEW d \in Digests
    PROVE  /\ Unclaimed(d) => Unclaimed(d)'
           /\ ~blob[d].old => ~blob'[d].old
           /\ Kept(d) => Kept(d)'
  <1>1. Unclaimed(d) => Unclaimed(d)'
    BY StaleStays, Zenon DEF Unclaimed, ClaimsLess
  <1>2. ~blob[d].old => ~blob'[d].old
    BY DEF RowsMove, RowMoves, NoBlob
  <1> QED BY <1>1, <1>2, Zenon DEF Kept

\* A push that takes no part in a step stays where it is, as long as what is
\* kept stays kept, its locked row is left alone, and nothing that is kept
\* goes from the storage.
LEMMA OthersStay ==
    ASSUME Types, Types', RowsMove, NEW r \in Pushers, PhaseOf(r), push'[r] = push[r],
           \A d \in Digests : Kept(d) => Kept(d)',
           \A d \in push[r].lock : blob'[d] = blob[d],
           \A d \in storage \ storage' : ~Kept(d) /\ d \notin push[r].lock
    PROVE  PhaseOf(r)'
  <1>0. push[r] \in PushType
    BY Zenon DEF Types
  <1>1. ASSUME Going(r)
        PROVE  /\ push[r].art \in Arts /\ push[r].have \subseteq storage'
               /\ \A d \in Held(r) : d \in push[r].lock \/ Kept(d)'
    <2>1. Held(r) \subseteq Digests
      BY <1>0, <1>1, ConstantsAssumption DEF PhaseOf, Held, PushType, BlobsOf, Digests, Going
    <2> QED BY <2>1, <1>1, Zenon DEF PhaseOf, Held
  <1>2. push[r].pc = "ensure" => push[r].d \in storage'
    BY <1>1, Zenon DEF PhaseOf, Held, Going
  <1>3. push[r].lock # {} => blob'[push[r].d] = blob[push[r].d]
    BY Zenon DEF PhaseOf
  <1>4. ASSUME push[r].pc \in {"giveup", "unstick"}
        PROVE  /\ Behind(push[r].d, push[r].row)'
               /\ Same(push[r].row, blob'[push[r].d]) => blob'[push[r].d].old
    <2>1. push[r].d \in Digests /\ push[r].row \in Row
      BY <1>0, <1>4, ConstantsAssumption, Zenon DEF PhaseOf, PushType, BlobsOf, Digests, Going
    <2>2. Behind(push[r].d, push[r].row) /\ (Same(push[r].row, blob[push[r].d]) => blob[push[r].d].old)
      BY <1>4, Zenon DEF PhaseOf
    <2>3. Behind(push[r].d, push[r].row)'
      BY <2>1, <2>2, BehindStays, Zenon
    <2>4. ASSUME Same(push[r].row, blob'[push[r].d]) PROVE blob'[push[r].d] = blob[push[r].d]
      <3>1. /\ RowMoves(push[r].d) /\ push[r].row.id \in Nat /\ push[r].row.ver \in Nat
            /\ made[push[r].d] \in Nat /\ blob[push[r].d].ver \in Nat
        BY <2>1, Zenon DEF RowsMove, Types, TypeOK, Row
      <3> QED BY <3>1, <2>2, <2>4 DEF RowMoves, Same, Behind, NoBlob
    <2> QED BY <2>2, <2>3, <2>4, Zenon
  <1>5. Going(r)' = Going(r) /\ Held(r)' = Held(r)
    BY Zenon DEF Going, Held
  <1> QED BY <1>1, <1>2, <1>3, <1>4, <1>5 DEF PhaseOf

-----------------------------------------------------------------------------
(* Steps of a push and of the collector.                                   *)

\* A step of a push keeps the invariant: the rows others have locked or the
\* collector is removing are left alone, no more than its own row is locked,
\* and an artifact that appears is one the collector does not have in sight.
LEMMA PushStep ==
    ASSUME BlobInv, NEW p \in Pushers, Types', RowsOK', RowsMove, gc' = gc,
           \A r \in Pushers \ {p} : push'[r] = push[r],
           \A d \in Digests : blob'[d] # blob[d] => \A r \in Pushers \ {p} : d \notin push[r].lock,
           storage \subseteq storage',
           Removing => blob'[gc.d] = blob[gc.d] /\ gc.d \notin push'[p].lock,
           \A d \in push'[p].lock \ push[p].lock : Free(d),
           PhaseOf(p)', \A d \in arts' \ arts : Unclaimed(d)' /\ ~blob'[d].old, ArtifactsLinked'
    PROVE  BlobInv'
  <1>0. Types /\ RowsOK /\ Phases /\ Apart /\ Collector /\ Reborn
    BY Zenon DEF BlobInv
  <1>1. ClaimsLess /\ Listed' = Listed /\ Removing' = Removing
    BY Zenon DEF ClaimsLess, Listed, Removing
  <1>2. ASSUME NEW r \in Pushers \ {p} PROVE PhaseOf(r)'
    <2>1. \A d \in Digests : Kept(d) => Kept(d)'
      BY <1>0, <1>1, UnclaimedStays, Zenon
    <2>2. push[r].lock \subseteq Digests
      BY <1>0, Zenon DEF Types, PushType
    <2> QED BY <1>0, <2>1, <2>2, OthersStay, Zenon DEF Phases
  <1>3. Phases'
    BY <1>2, Zenon DEF Phases
  <1>4. Apart'
    <2>1. \A r \in Pushers \ {p} : push'[p].lock \intersect push[r].lock = {}
      BY <1>0, Zenon DEF Apart, Free
    <2> QED BY <2>1, <1>0 DEF Apart
  <1>5. Collector'
    <2>1. ASSUME NEW c \in Listed' PROVE Behind(c[1], c[2])'
      <3>1. c \in Listed /\ c[1] \in Digests /\ c[2] \in Row /\ Behind(c[1], c[2])
        BY <1>0, <1>1 DEF Collector, Types, GcType, Listed, Pair
      <3> QED BY <3>1, <1>0, BehindStays, Zenon
    <2>2. Removing => Free(gc.d)'
      BY <1>0, Zenon DEF Collector, Free
    <2> QED BY <2>1, <2>2, <1>0, <1>1, Zenon DEF Collector
  <1>6. Reborn'
    <2> SUFFICES ASSUME NEW d \in gc.trashed \intersect arts'
                 PROVE  /\ Unclaimed(d)'
                        /\ gc.pc \in {"list", "find", "clean", "useless"} => ~blob'[d].old
      BY Zenon DEF Reborn
    <2>1. d \in Digests
      BY <1>0, Zenon DEF Types, GcType, Digests
    <2> QED BY <2>1, <1>0, <1>1, UnclaimedStays, Zenon DEF Reborn
  <1> QED BY <1>3, <1>4, <1>5, <1>6, Zenon DEF BlobInv

\* A step of the collector or of a deletion keeps the invariant: it takes from
\* the storage only what no push holds, and lists only what no push and no
\* artifact pushed again relies on.
LEMMA CollectStep ==
    ASSUME BlobInv, Types', RowsOK', RowsMove, push' = push,
           \A d \in Digests : blob'[d] # blob[d] => Free(d),
           \A d \in storage \ storage' : ~Kept(d) /\ Free(d),
           \A d \in Digests : Kept(d) => Kept(d)',
           Collector', Reborn', ArtifactsLinked'
    PROVE  BlobInv'
  <1>0. Types /\ Phases /\ Apart
    BY Zenon DEF BlobInv
  <1>1. ASSUME NEW r \in Pushers PROVE PhaseOf(r)'
    <2>1. push[r].lock \subseteq Digests
      BY <1>0, Zenon DEF Types, PushType
    <2> QED BY <1>0, <2>1, OthersStay, Zenon DEF Phases, Free
  <1>2. Apart'
    BY <1>0, Zenon DEF Apart
  <1> QED BY <1>1, <1>2, Zenon DEF BlobInv, Phases

\* A step of the collector that claims nothing new.
LEMMA QuietCollect ==
    ASSUME BlobInv, Types', RowsOK', RowsMove, push' = push, ClaimsLess,
           \A d \in Digests : blob'[d] # blob[d] => Free(d),
           \A d \in storage \ storage' : ~Kept(d) /\ Free(d),
           gc'.trashed \subseteq gc.trashed, arts' \subseteq arts,
           gc'.pc \in {"list", "find", "clean", "useless"} => gc.pc \in {"list", "find", "clean", "useless"},
           Removing' => blob'[gc.d] = blob[gc.d] /\ gc'.row = gc.row,
           gc'.pc \notin {"mark", "sweep"} /\ ~Removing' => gc'.todo = {},
           gc'.pc # "mark" => gc'.set = {},
           gc'.pc \in {"manifest", "forget", "untrash"} => gc'.d \in gc'.trashed,
           gc'.pc = "idle" => gc'.trashed = {}, ArtifactsLinked'
    PROVE  BlobInv'
  <1>0. Types /\ Collector /\ Reborn
    BY Zenon DEF BlobInv
  <1>1. Reborn'
    <2> SUFFICES ASSUME NEW d \in gc'.trashed \intersect arts'
                 PROVE  /\ Unclaimed(d)'
                        /\ gc'.pc \in {"list", "find", "clean", "useless"} => ~blob'[d].old
      BY Zenon DEF Reborn
    <2>1. d \in Digests /\ d \in gc.trashed \intersect arts
      BY <1>0, Zenon DEF Types, GcType, Digests
    <2> QED BY <2>1, <1>0, UnclaimedStays, Zenon DEF Reborn
  <1>2. Collector'
    <2>1. ASSUME NEW c \in Listed' PROVE Behind(c[1], c[2])'
      <3>1. c \in Listed /\ c[1] \in Digests /\ c[2] \in Row /\ Behind(c[1], c[2])
        BY <1>0 DEF Collector, Types, GcType, Listed, Pair, ClaimsLess
      <3> QED BY <3>1, <1>0, BehindStays, Zenon
    <2>2. (Removing => /\ gc.d \in Digests /\ Free(gc.d)
                       /\ blob[gc.d] = gc.row /\ gc.row.st = "deleting" /\ ~gc.row.old)'
      BY <1>0, Zenon DEF Collector, ClaimsLess, Free
    <2> QED BY <2>1, <2>2, Zenon DEF Collector
  <1>3. \A d \in Digests : Kept(d) => Kept(d)'
    BY <1>0, UnclaimedStays, Zenon
  <1> QED BY <1>1, <1>2, <1>3, CollectStep, Zenon

\* UpdateBlobStatus outside a transaction: the row accepts the status and gets
\* a later version, or nothing happens.
LEMMA StatusStep ==
    ASSUME Types, RowsOK, NEW d \in Digests, NEW seen, NEW st \in Statuses,
           UpdateBlobStatus(d, seen, st), made' = made
    PROVE  /\ Free(d) /\ blob' \in [Digests -> Row] /\ RowsOK' /\ RowsMove
           /\ \A e \in Digests : /\ blob'[e] # NoBlob => blob'[e].id = made[e]
                                 /\ e # d => blob'[e] = blob[e]
           /\ Accepts(blob[d], seen, st) =>
                /\ blob'[d] = Updated(blob[d], st) /\ blob[d].st # "absent"
                /\ ~blob'[d].old /\ blob'[d].id = blob[d].id /\ blob'[d].ver > blob[d].ver
                /\ blob[d].id = made[d] /\ made[d] >= 1
           /\ ~Accepts(blob[d], seen, st) => blob' = blob
  <1>0. blob \in [Digests -> Row] /\ made \in [Digests -> Nat] /\ blob[d] \in Row /\ blob[d].ver \in Nat
    BY Zenon DEF Types, TypeOK, Row
  <1>1. ASSUME Accepts(blob[d], seen, st)
        PROVE  /\ blob'[d] = Updated(blob[d], st) /\ blob[d] # NoBlob /\ blob[d].st # "absent"
               /\ \A e \in Digests \ {d} : blob'[e] = blob[e]
               /\ blob' \in [Digests -> Row]
    <2>1. blob[d].st # "absent"
      BY <1>1 DEF Accepts, StatusMap, Statuses
    <2>2. blob' = [blob EXCEPT ![d] = Updated(blob[d], st)] /\ Updated(blob[d], st) \in Row
      BY <1>0, <1>1, RowTypes, Zenon DEF UpdateBlobStatus
    <2> QED BY <2>1, <2>2, <1>0 DEF NoBlob
  <1>2. ~Accepts(blob[d], seen, st) => blob' = blob
    BY Zenon DEF UpdateBlobStatus
  <1>3. Accepts(blob[d], seen, st) =>
          /\ ~blob'[d].old /\ blob'[d].id = blob[d].id /\ blob'[d].ver > blob[d].ver /\ blob'[d].st # "absent"
          /\ blob[d].id = made[d] /\ blob[d].id >= 1
    <2>1. /\ Updated(blob[d], st).id = blob[d].id /\ Updated(blob[d], st).ver = blob[d].ver + 1
          /\ Updated(blob[d], st).st = st /\ ~Updated(blob[d], st).old /\ st # "absent"
      BY <1>0, RowTypes DEF Statuses
    <2> QED BY <1>0, <1>1, <2>1 DEF RowsOK, Types, TypeOK
  <1>4. blob' \in [Digests -> Row]
    BY <1>0, <1>1, <1>2, Zenon
  <1>5. \A e \in Digests : /\ blob'[e] # NoBlob => blob'[e].id = made[e]
                           /\ e # d => blob'[e] = blob[e]
    BY <1>1, <1>2, <1>3, Zenon DEF Types, TypeOK
  <1>6. RowsMove
    BY <1>0, <1>1, <1>2, <1>3 DEF RowsMove, RowMoves
  <1>7. RowsOK'
    BY <1>1, <1>2, <1>3, Zenon DEF RowsOK
  <1> QED BY <1>1, <1>2, <1>3, <1>4, <1>5, <1>6, <1>7, <1>0, Zenon DEF UpdateBlobStatus

\* A row that a request has just written is out of the collector's sight,
\* unless it is being removed.
LEMMA MovedKept ==
    ASSUME Types, Types', Collector, NEW d \in Digests, gc' = gc, ~(Removing /\ gc.d = d),
           ~blob'[d].old,
           \/ blob'[d].id = blob[d].id /\ blob'[d].ver > blob[d].ver
           \/ blob'[d].id > made[d]
    PROVE  Kept(d)'
  <1>1. ASSUME NEW c \in Listed, c[1] = d, Same(c[2], blob'[d]) PROVE FALSE
    <2>1. c[2] \in Row /\ Behind(d, c[2]) /\ c[2].id \in Nat /\ c[2].ver \in Nat
      BY <1>1 DEF Collector, Types, GcType, Listed, Pair, Row
    <2>2. made[d] \in Nat /\ blob[d].ver \in Nat
      BY Zenon DEF Types, TypeOK, Row
    <2> QED BY <1>1, <2>1, <2>2 DEF Same, Behind
  <1>2. Listed' = Listed /\ Removing' = Removing
    BY Zenon DEF Listed, Removing
  <1> QED BY <1>1, <1>2, Zenon DEF Kept, Unclaimed, Stale

\* A blob without a row is out of the collector's sight.
LEMMA NoBlobKept ==
    ASSUME Types, Collector, NEW d \in Digests, blob[d] = NoBlob
    PROVE  Kept(d)
  <1>1. ASSUME NEW c \in Listed, c[1] = d, Same(c[2], blob[d]) PROVE FALSE
    <2>1. Behind(d, c[2]) /\ made[d] \in Nat
      BY <1>1, Zenon DEF Collector, Types, TypeOK
    <2> QED BY <1>1, <2>1 DEF Same, Behind, NoBlob
  <1>2. ~(Removing /\ gc.d = d) /\ ~blob[d].old
    BY DEF Collector, NoBlob
  <1> QED BY <1>1, <1>2, Zenon DEF Kept, Unclaimed, Stale

\* A step that touches no row of the blob table and types the rest keeps the
\* rows as they are.
LEMMA SameRows ==
    ASSUME Types, RowsOK, blob' = blob, made' = made, push' \in [Pushers -> PushType], gc' \in GcType,
           gc'.pc = "find" => gc'.list \subseteq Digests, del' \in [Deleters -> DelType],
           \A x \in Deleters : del'[x].pc = "found" => del'[x].art \in Arts,
           assoc' \subseteq assoc, refs' \subseteq Arts, arts' \subseteq Arts, trash' \subseteq Arts,
           storage' \subseteq Digests,
           runs' \in 0..MaxRuns, crashes' \in 0..MaxCrashes, faults' \in 0..MaxFaults
    PROVE  Types' /\ RowsOK' /\ RowsMove
  <1>1. TypeOK
    BY Zenon DEF Types
  <1>2. TypeOK'
    BY <1>1, Zenon DEF TypeOK
  <1>3. RowsOK' /\ RowsMove
    BY <1>1 DEF RowsOK, RowsMove, RowMoves, TypeOK
  <1> QED BY <1>2, <1>3, Zenon DEF Types

\* A step of a push that changes nothing but the push, and may add to the
\* storage.
LEMMA PlainPush ==
    ASSUME BlobInv, NEW p \in Pushers, push' \in [Pushers -> PushType],
           \A r \in Pushers \ {p} : push'[r] = push[r],
           UNCHANGED <<tables, del, gc, bounds>>, storage \subseteq storage', storage' \subseteq Digests,
           push'[p].lock \subseteq push[p].lock, PhaseOf(p)'
    PROVE  BlobInv'
  <1>1. /\ blob' = blob /\ made' = made /\ assoc' = assoc /\ refs' = refs /\ arts' = arts /\ trash' = trash
        /\ del' = del /\ gc' = gc /\ runs' = runs /\ crashes' = crashes /\ faults' = faults
    BY Zenon DEF tables, bounds
  <1>2. /\ Types /\ RowsOK /\ ArtifactsLinked /\ gc \in GcType /\ (gc.pc = "find" => gc.list \subseteq Digests)
        /\ del \in [Deleters -> DelType] /\ \A x \in Deleters : del[x].pc = "found" => del[x].art \in Arts
        /\ refs \subseteq Arts /\ arts \subseteq Arts /\ trash \subseteq Arts
        /\ runs \in 0..MaxRuns /\ crashes \in 0..MaxCrashes /\ faults \in 0..MaxFaults
    BY Zenon DEF BlobInv, Types, TypeOK
  <1>4. Types' /\ RowsOK' /\ RowsMove
    BY <1>1, <1>2, SameRows, Zenon
  <1>5. ArtifactsLinked'
    BY <1>1, <1>2, Zenon DEF ArtifactsLinked
  <1>3. Removing => gc.d \notin push'[p].lock
    BY Zenon DEF BlobInv, Collector, Free
  <1> QED BY <1>1, <1>3, <1>4, <1>5, PushStep, Zenon

-----------------------------------------------------------------------------
(* The collector, the time window and the initial tables.                  *)

\* What the invariant says of the collector and the tables.
LEMMA GcFacts ==
    ASSUME BlobInv
    PROVE  /\ Types /\ TypeOK /\ RowsOK /\ Collector /\ Reborn /\ ArtifactsLinked /\ gc \in GcType
           /\ gc.trashed \subseteq Arts /\ Arts \subseteq Digests /\ arts \subseteq Arts /\ refs \subseteq Arts
           /\ trash \subseteq Arts /\ storage \subseteq Digests
           /\ runs \in 0..MaxRuns /\ crashes \in 0..MaxCrashes /\ faults \in 0..MaxFaults
           /\ gc.todo \subseteq Pair /\ gc.set \subseteq Pair
  BY Zenon DEF BlobInv, Types, TypeOK, GcType, Digests

\* A collector that does nothing.
LEMMA IdleType == IdleGc \in GcType
  BY RowTypes, Zenon DEF IdleGc, GcType

\* Steps of the collector that touch no row.
LEMMA StillCollect ==
    ASSUME BlobInv, push' = push, blob' = blob, made' = made, gc' \in GcType, del' = del,
           gc'.pc = "find" => gc'.list \subseteq Digests, assoc' \subseteq assoc, refs' \subseteq Arts,
           arts' = arts, trash' \subseteq Arts, storage' \subseteq storage,
           runs' \in 0..MaxRuns, crashes' \in 0..MaxCrashes, faults' \in 0..MaxFaults
    PROVE  Types' /\ RowsOK' /\ RowsMove
  <1>1. /\ Types /\ RowsOK /\ push \in [Pushers -> PushType] /\ del \in [Deleters -> DelType]
        /\ \A x \in Deleters : del[x].pc = "found" => del[x].art \in Arts
        /\ arts \subseteq Arts /\ storage \subseteq Digests
    BY Zenon DEF BlobInv, Types, TypeOK
  <1>2. storage' \subseteq Digests
    BY <1>1, Zenon
  <1> QED BY <1>1, <1>2, SameRows, Zenon

\* What a status update of the collector leaves: the tables but for the row.
LEMMA StatusCollect ==
    ASSUME BlobInv, NEW d \in Digests, NEW seen, NEW st \in Statuses, UpdateBlobStatus(d, seen, st),
           UNCHANGED <<made, assoc, refs, arts, trash, storage, push, del, bounds>>, gc' \in GcType,
           gc'.pc # "find"
    PROVE  /\ Types' /\ RowsOK' /\ RowsMove /\ ArtifactsLinked'
           /\ \A e \in Digests : blob'[e] # blob[e] => Free(e)
  <1>0. Types /\ TypeOK /\ RowsOK /\ ArtifactsLinked
    BY GcFacts, Zenon
  <1>1. /\ Free(d) /\ blob' \in [Digests -> Row] /\ RowsOK' /\ RowsMove
        /\ \A e \in Digests : /\ blob'[e] # NoBlob => blob'[e].id = made[e]
                              /\ e # d => blob'[e] = blob[e]
    BY <1>0, StatusStep, Zenon
  <1>2. TypeOK'
    BY <1>0, <1>1, Zenon DEF TypeOK, bounds
  <1>3. Types'
    BY <1>0, <1>2, Zenon DEF Types
  <1> QED BY <1>0, <1>1, <1>3, Zenon DEF ArtifactsLinked

\* Time goes by between pushes: rows become old, with the ID and the version
\* they had.
LEMMA AgeStep ==
    ASSUME BlobInv, Age
    PROVE  BlobInv'
  <1>0. /\ Types /\ TypeOK /\ RowsOK /\ Collector /\ Reborn /\ ArtifactsLinked /\ gc \in GcType
        /\ blob \in [Digests -> Row] /\ made \in [Digests -> Nat] /\ Phases
        /\ gc.trashed \subseteq Arts /\ Arts \subseteq Digests
    BY GcFacts, Zenon DEF BlobInv, TypeOK
  <1>1. /\ blob' = [d \in Digests |-> [blob[d] EXCEPT !.old = blob[d] # NoBlob]]
        /\ UNCHANGED <<made, assoc, refs, arts, trash, storage, push, del, gc, bounds>>
        /\ made' = made /\ push' = push /\ gc' = gc /\ arts' = arts
        /\ gc.pc \in {"idle", "mark", "sweep"} /\ \A p \in Pushers : ~Going(p)
    BY Zenon DEF Age
  <1>2. ASSUME NEW d \in Digests
        PROVE  /\ blob'[d] \in Row /\ blob'[d].id = blob[d].id /\ blob'[d].ver = blob[d].ver
               /\ blob'[d].st = blob[d].st /\ (blob[d] = NoBlob => blob'[d] = NoBlob)
    <2>1. blob'[d] = [blob[d] EXCEPT !.old = blob[d] # NoBlob] /\ blob[d] \in Row
      BY <1>0, <1>1, Zenon
    <2>2. \A b \in BOOLEAN : [blob[d] EXCEPT !.old = b] \in Row
      BY <2>1, Zenon DEF Row
    <2>3. blob'[d] \in Row
      BY <2>1, <2>2, Zenon
    <2>4. blob[d] = NoBlob => blob'[d] = NoBlob
      <3>1. [NoBlob EXCEPT !.old = FALSE] = NoBlob
        <4>1. \A r \in Row : r.old = FALSE => [r EXCEPT !.old = FALSE] = r
          BY Zenon DEF Row
        <4>2. NoBlob \in Row /\ NoBlob.old = FALSE
          BY RowTypes, Zenon DEF NoBlob
        <4> QED BY <4>1, <4>2, Zenon
      <3>2. ASSUME blob[d] = NoBlob PROVE (blob[d] # NoBlob) = FALSE
        BY <3>2, Zenon
      <3> QED BY <2>1, <3>1, <3>2, Zenon
    <2> QED BY <2>1, <2>3, <2>4, Zenon DEF Row
  <1>3. blob' \in [Digests -> Row]
    <2>1. \A d \in Digests : [blob[d] EXCEPT !.old = blob[d] # NoBlob] \in Row
      BY <1>1, <1>2, Zenon
    <2> QED BY <1>1, <2>1, Zenon
  <1>4. TypeOK'
    BY <1>0, <1>1, <1>2, <1>3 DEF TypeOK, bounds
  <1>5. Types' /\ RowsOK'
    BY <1>0, <1>1, <1>2, <1>4 DEF Types, RowsOK
  <1>6. ASSUME NEW p \in Pushers PROVE PhaseOf(p)' /\ push[p].lock = {}
    <2>1. push[p].pc \in {"idle", "done", "failed"} /\ PhaseOf(p)
      BY <1>0, <1>1, Zenon DEF Going, Phases
    <2>2. push[p].lock = {}
      BY <2>1, Zenon DEF PhaseOf
    <2> QED BY <1>1, <2>1, <2>2, Zenon DEF PhaseOf, Going
  <1>7. Phases' /\ Apart'
    BY <1>1, <1>6, Zenon DEF Phases, Apart
  <1>8. ~Removing /\ ~Removing' /\ Listed' = Listed
    BY <1>1, Zenon DEF Removing, Listed
  <1>9. ASSUME NEW c \in Listed PROVE Behind(c[1], c[2])'
    <2>1. c[1] \in Digests /\ Behind(c[1], c[2])
      BY <1>0, <1>9, Zenon DEF Collector, Listed, GcType, Pair
    <2> QED BY <1>1, <1>2, <2>1, Zenon DEF Behind
  <1>10. Collector'
    BY <1>0, <1>1, <1>8, <1>9, Zenon DEF Collector
  <1>11. Reborn'
    <2> SUFFICES ASSUME NEW d \in gc.trashed \intersect arts PROVE Unclaimed(d)'
      BY <1>1, Zenon DEF Reborn
    <2>1. d \in Digests /\ Stale(d)
      BY <1>0, Zenon DEF Reborn, Unclaimed
    <2> QED BY <1>2, <1>8, <2>1, Zenon DEF Unclaimed, Stale, Same
  <1>12. ArtifactsLinked'
    BY <1>0, <1>1, Zenon DEF ArtifactsLinked
  <1> QED BY <1>5, <1>7, <1>10, <1>11, <1>12, Zenon DEF BlobInv

\* The tables of a project whose artifacts were pushed long ago.
LEMMA BlobInit == Init => BlobInv
  <1> SUFFICES ASSUME Init PROVE BlobInv
    BY Zenon
  <1> DEFINE K == UNION {BlobsOf(a) : a \in Initial}
             young == [st |-> "none", ver |-> 0, old |-> TRUE, id |-> 1]
  <1>1. /\ blob = [d \in Digests |-> IF d \in K THEN young ELSE NoBlob]
        /\ made = [d \in Digests |-> IF d \in K THEN 1 ELSE 0]
        /\ assoc = {<<d, 1>> : d \in K} /\ storage = K
        /\ refs = Initial /\ arts = Initial /\ trash = {}
        /\ push = [p \in Pushers |-> NoPush]
        /\ del = [x \in Deleters |-> [pc |-> "idle", art |-> "none", found |-> {}]]
        /\ gc = IdleGc /\ runs = 0 /\ crashes = 0 /\ faults = 0
    BY Zenon DEF Init
  <1>2. K \subseteq Digests /\ Initial \subseteq Arts
    BY ConstantsAssumption, Zenon DEF BlobsOf, Digests
  <1>3. young \in Row /\ young.id = 1 /\ young.st = "none" /\ young # NoBlob /\ NoBlob \in Row
    BY RowTypes, Zenon DEF Row, NoBlob
  <1> HIDE DEF K, young
  <1>4. blob \in [Digests -> Row] /\ made \in [Digests -> Nat]
    BY <1>1, <1>3, Zenon
  <1>5. \A d \in Digests : blob[d] # NoBlob => blob[d].id = made[d] /\ blob[d].id >= 1 /\ blob[d].st # "absent"
    BY <1>1, <1>3
  <1>6. \A r \in assoc : r[1] \in Digests /\ r[2] \in 1..made[r[1]]
    <2>1. \A d \in K : d \in Digests /\ made[d] = 1
      BY <1>1, <1>2, Zenon
    <2>2. ASSUME NEW r \in assoc PROVE r[1] \in K /\ r[2] = 1
      BY <1>1
    <2> QED BY <2>1, <2>2
  <1>7. TypeOK
    BY <1>1, <1>2, <1>4, <1>5, <1>6, ConstantsAssumption DEF TypeOK
  <1>8. NoPush \in PushType /\ NoPush.pc = "idle" /\ NoPush.lock = {}
    BY <1>3, Zenon DEF NoPush, PushType
  <1>9. [pc |-> "idle", art |-> "none", found |-> {}] \in DelType
    BY Zenon DEF DelType
  <1>10. gc.pc = "idle" /\ gc.todo = {} /\ gc.set = {} /\ gc.trashed = {}
    BY <1>1, Zenon DEF IdleGc
  <1>11. Types
    BY <1>1, <1>7, <1>8, <1>9, <1>10, IdleType, Zenon DEF Types
  <1>12. Phases /\ Apart
    BY <1>1, <1>8, Zenon DEF Phases, PhaseOf, Apart, Going
  <1>13. RowsOK /\ ArtifactsLinked
    BY <1>1, <1>5, Zenon DEF RowsOK, ArtifactsLinked
  <1>14. Collector /\ Reborn
    BY <1>10, ZenonT(60) DEF Collector, Reborn, Removing, Listed
  <1> QED BY <1>11, <1>12, <1>13, <1>14, Zenon DEF BlobInv

-----------------------------------------------------------------------------
(* The requests of a push: the HEAD and the upload of its layers, and the  *)
(* manifest.                                                               *)

\* What the invariant says of one push.
LEMMA PushFacts ==
    ASSUME BlobInv, NEW p \in Pushers
    PROVE  /\ Types /\ RowsOK /\ Collector /\ push \in [Pushers -> PushType] /\ push[p] \in PushType
           /\ PhaseOf(p) /\ storage \subseteq Digests
           /\ Layers \subseteq Digests /\ Arts \subseteq Digests
           /\ \A a \in Arts : Uses[a] \subseteq Layers /\ BlobsOf(a) \subseteq Digests
           /\ Going(p) /\ push[p].pc # "next" => push[p].d \in Digests
           /\ push[p].d \in Layers => push[p].lock = {}
           /\ push[p].pc \notin {"upload", "probe", "store", "after"} => push[p].lock = {}
  BY ConstantsAssumption DEF BlobInv, Types, TypeOK, Phases, PhaseOf, Digests, BlobsOf

\* PushBegin, PutManifest and PushAbort keep the invariant.
LEMMA BeginStep ==
    ASSUME BlobInv, NEW p \in Pushers, PushBegin(p) \/ PutManifest(p) \/ PushAbort(p)
    PROVE  BlobInv'
  <1>0. /\ push \in [Pushers -> PushType] /\ push[p] \in PushType /\ PhaseOf(p) /\ storage \subseteq Digests
        /\ push[p].pc = "next" => push[p].lock = {} /\ push[p].art \in Arts
        /\ Arts \subseteq Digests /\ NoBlob \in Row
    BY PushFacts, RowTypes, Zenon DEF PhaseOf, Going
  <1>1. CASE PushBegin(p)
    <2>1. PICK a \in Arts : push' = [push EXCEPT ![p] = [NoPush EXCEPT !.pc = "next", !.art = a]]
      BY <1>1, Zenon DEF PushBegin
    <2>2. [NoPush EXCEPT !.pc = "next", !.art = a] \in PushType
      BY <1>0, Zenon DEF NoPush, PushType
    <2>3. /\ push'[p].pc = "next" /\ push'[p].art = a /\ push'[p].have = {} /\ push'[p].lock = {}
          /\ push' \in [Pushers -> PushType] /\ \A r \in Pushers \ {p} : push'[r] = push[r]
      BY <2>1, <2>2, <1>0, Zenon DEF NoPush
    <2>4. PhaseOf(p)'
      BY <2>3, Zenon DEF PhaseOf, Held, Going
    <2> QED BY <1>0, <1>1, <2>3, <2>4, PlainPush, Zenon DEF PushBegin
  <1>2. CASE PutManifest(p)
    <2>1. /\ push'[p].pc = "upload" /\ push'[p].d = push[p].art /\ push'[p].art = push[p].art
          /\ push'[p].have = push[p].have /\ push'[p].lock = {} /\ push[p].lock = {} /\ push[p].pc = "next"
          /\ push' \in [Pushers -> PushType] /\ \A r \in Pushers \ {p} : push'[r] = push[r]
      BY <1>0, <1>2, Zenon DEF PutManifest, PushType
    <2>2. blob' = blob /\ gc' = gc /\ storage' = storage
      BY <1>2, Zenon DEF PutManifest, tables
    <2>3. \A d : Kept(d)' = Kept(d)
      BY <2>2, Zenon DEF Kept, Unclaimed, Stale, Listed, Removing
    <2>4. PhaseOf(p)'
      BY <1>0, <2>1, <2>2, <2>3, Zenon DEF PhaseOf, Held, Going, BlobsOf
    <2> QED BY <1>0, <1>2, <2>1, <2>4, PlainPush, Zenon DEF PutManifest
  <1>3. CASE PushAbort(p)
    <2>2. [NoPush EXCEPT !.pc = "failed"] \in PushType
      BY <1>0, Zenon DEF NoPush, PushType
    <2>3. /\ push'[p].pc = "failed" /\ push'[p].lock = {}
          /\ push' \in [Pushers -> PushType] /\ \A r \in Pushers \ {p} : push'[r] = push[r]
      BY <1>3, <2>2, <1>0, Zenon DEF NoPush, PushAbort
    <2>4. PhaseOf(p)'
      BY <2>3, Zenon DEF PhaseOf, Going
    <2> QED BY <1>0, <1>3, <2>3, <2>4, PlainPush, Zenon DEF PushAbort
  <1> QED BY <1>1, <1>2, <1>3, Zenon

\* The HEAD of a layer keeps the invariant: the row that is read is behind the
\* row there is, and what the registry has is what the request protects.
LEMMA HeadStep ==
    ASSUME BlobInv, NEW p \in Pushers, HeadGet(p) \/ HeadAsk(p)
    PROVE  BlobInv'
  <1>0. /\ push \in [Pushers -> PushType] /\ push[p] \in PushType /\ PhaseOf(p) /\ storage \subseteq Digests
        /\ push[p].pc \in {"next", "ask"} => push[p].lock = {} /\ push[p].art \in Arts
        /\ Layers \subseteq Digests /\ Types /\ RowsOK
        /\ \A a \in Arts : Uses[a] \subseteq Layers
    BY PushFacts, Zenon DEF PhaseOf, Going
  <1>1. blob' = blob /\ made' = made /\ gc' = gc /\ storage' = storage
    BY Zenon DEF HeadGet, HeadAsk, tables
  <1>2. \A d : Kept(d)' = Kept(d)
    BY <1>1, Zenon DEF Kept, Unclaimed, Stale, Listed, Removing
  <1>3. CASE HeadGet(p)
    <2>1. PICK d \in Uses[push[p].art] \ push[p].have :
             push' = [push EXCEPT ![p] =
                         [@ EXCEPT !.d = d, !.row = blob[d],
                                   !.pc = IF blob[d].st \in {"none", "delete"} THEN "touch"
                                          ELSE IF blob[d].st = "deleting" /\ blob[d].old THEN "giveup"
                                          ELSE "upload"]]
      BY <1>3, Zenon DEF HeadGet
    <2>2. push[p].pc = "next" /\ push[p].lock = {} /\ push[p].art \in Arts /\ d \in Layers /\ d \in Digests
      BY <1>0, <1>3, Zenon DEF HeadGet
    <2>3. blob[d] \in Row
      BY <1>0, <2>2, Zenon DEF Types, TypeOK
    <2>4. /\ push' \in [Pushers -> PushType] /\ \A r \in Pushers \ {p} : push'[r] = push[r]
      BY <1>0, <2>1, <2>2, <2>3, Zenon DEF PushType
    <2>5. /\ push'[p].d = d /\ push'[p].row = blob[d] /\ push'[p].art = push[p].art
          /\ push'[p].have = push[p].have /\ push'[p].lock = {}
          /\ push'[p].pc \in {"touch", "giveup", "upload"}
          /\ push'[p].pc = "giveup" => blob[d].st = "deleting" /\ blob[d].old
      BY <1>0, <2>1, <2>2, Zenon DEF PushType
    <2>6. ASSUME push'[p].pc = "giveup" PROVE Behind(d, blob[d])'
      <3>1. blob[d] # NoBlob /\ blob[d].id \in Nat /\ blob[d].ver \in Nat
        BY <2>3, <2>5, <2>6 DEF NoBlob, Row
      <3>2. blob[d].id >= 1 /\ blob[d].id = made[d] /\ made[d] \in Nat
        BY <3>1, <1>0, <2>2, Zenon DEF RowsOK, Types, TypeOK
      <3> QED BY <3>1, <3>2, <1>1 DEF Behind
    <2>7. PhaseOf(p)'
      BY <1>0, <1>1, <1>2, <2>2, <2>5, <2>6, Zenon DEF PhaseOf, Held, Going, BlobsOf
    <2> QED BY <1>0, <1>3, <2>2, <2>4, <2>5, <2>7, PlainPush, Zenon DEF HeadGet
  <1>4. CASE HeadAsk(p)
    <2>1. push[p].pc = "ask" /\ push[p].lock = {} /\ push[p].art \in Arts /\ push[p].d \in Layers /\ push[p].d \in Digests
      BY <1>0, <1>4, Zenon DEF HeadAsk, PhaseOf
    <2>q. ASSUME push[p].d \in storage
          PROVE  push' = [push EXCEPT ![p] = [push[p] EXCEPT !.pc = "next", !.have = push[p].have \union {push[p].d}]]
      BY <1>0, <1>4, <2>q, Zenon DEF HeadAsk, PushType
    <2>r. ASSUME push[p].d \notin storage
          PROVE  push' = [push EXCEPT ![p] = [push[p] EXCEPT !.pc = "upload"]]
      BY <1>0, <1>4, <2>r, Zenon DEF HeadAsk
    <2>2. push'[p] \in PushType /\ push' \in [Pushers -> PushType] /\ \A r \in Pushers \ {p} : push'[r] = push[r]
      <3>1. push[p].have \union {push[p].d} \in SUBSET Digests
        BY <1>0, <2>1, Zenon DEF PushType
      <3>2. \A X \in SUBSET Digests : [push[p] EXCEPT !.pc = "next", !.have = X] \in PushType
        BY <1>0, Zenon DEF PushType
      <3>3. [push[p] EXCEPT !.pc = "upload"] \in PushType
        BY <1>0, Zenon DEF PushType
      <3> QED BY <3>1, <3>2, <3>3, <1>0, <2>q, <2>r, Zenon
    <2>3. /\ push'[p].d = push[p].d /\ push'[p].art = push[p].art /\ push'[p].lock = {}
          /\ push'[p].pc \in {"next", "upload"}
          /\ push'[p].have = push[p].have \/ (push'[p].have = push[p].have \union {push[p].d} /\ push[p].d \in storage)
      <3>1. CASE push[p].d \in storage
        <4>1. push'[p] = [push[p] EXCEPT !.pc = "next", !.have = push[p].have \union {push[p].d}]
          BY <1>0, <3>1, <2>q, Zenon
        <4>2. push'[p].d = push[p].d /\ push'[p].art = push[p].art /\ push'[p].lock = {} /\ push'[p].pc = "next"
          BY <4>1, <1>0, <2>1, Zenon DEF PushType
        <4>3. push'[p].have = push[p].have \union {push[p].d}
          BY <4>1, <1>0, Zenon DEF PushType
        <4> QED BY <3>1, <4>2, <4>3, Zenon
      <3>2. CASE push[p].d \notin storage
        <4>1. push'[p] = [push[p] EXCEPT !.pc = "upload"]
          BY <1>0, <3>2, <2>r, Zenon
        <4>2. /\ push'[p].d = push[p].d /\ push'[p].art = push[p].art /\ push'[p].lock = {} /\ push'[p].pc = "upload"
              /\ push'[p].have = push[p].have
          BY <4>1, <1>0, <2>1, Zenon DEF PushType
        <4> QED BY <4>2, Zenon
      <3> QED BY <3>1, <3>2, Zenon
    <2>4. PhaseOf(p)'
      BY <1>0, <1>1, <1>2, <2>1, <2>3, Zenon DEF PhaseOf, Held, Going
    <2> QED BY <1>0, <1>4, <2>1, <2>2, <2>3, <2>4, PlainPush, Zenon DEF HeadAsk
  <1> QED BY <1>3, <1>4, Zenon

\* The updates of the record of a push that requests make.
Labels == {"next", "upload", "probe", "unstick", "store", "ensure", "after", "failed"}

\* A request that only goes on to its next call.
LEMMA PushPc ==
    ASSUME NEW q \in PushType, NEW l \in Labels
    PROVE  LET e == [q EXCEPT !.pc = l]
           IN  /\ e \in PushType /\ e.pc = l /\ e.art = q.art /\ e.d = q.d /\ e.row = q.row
               /\ e.have = q.have /\ e.lock = q.lock
  BY Zenon DEF PushType, Labels

\* A request after which the client has more blobs.
LEMMA PushHave ==
    ASSUME NEW q \in PushType, NEW l \in Labels, NEW X \in SUBSET Digests, NEW b \in BOOLEAN
    PROVE  /\ LET e == [q EXCEPT !.pc = l, !.have = X]
              IN  /\ e \in PushType /\ e.pc = l /\ e.art = q.art /\ e.d = q.d /\ e.row = q.row
                  /\ e.have = X /\ e.lock = q.lock
           /\ LET e == [q EXCEPT !.pc = l, !.new = b, !.have = X]
              IN  /\ e \in PushType /\ e.pc = l /\ e.art = q.art /\ e.d = q.d /\ e.row = q.row
                  /\ e.have = X /\ e.lock = q.lock
  <1>1. [q EXCEPT !.pc = l, !.have = X] \in PushType
    BY Zenon DEF PushType, Labels
  <1>2. [q EXCEPT !.pc = l, !.new = b, !.have = X] \in PushType
    BY Zenon DEF PushType, Labels
  <1> QED BY <1>1, <1>2, Zenon DEF PushType

\* A request that has read the row of its blob.
LEMMA PushRow ==
    ASSUME NEW q \in PushType, NEW l \in Labels, NEW r \in Row
    PROVE  LET e == [q EXCEPT !.row = r, !.pc = l]
           IN  /\ e \in PushType /\ e.pc = l /\ e.art = q.art /\ e.d = q.d /\ e.row = r
               /\ e.have = q.have /\ e.lock = q.lock
  BY Zenon DEF PushType, Labels

\* PUT manifest: the rows its transaction has locked.
LEMMA PushLock ==
    ASSUME NEW q \in PushType, NEW l \in Labels, NEW r \in Row, NEW X \in SUBSET Digests
    PROVE  /\ LET e == [q EXCEPT !.pc = l, !.lock = {}]
              IN  /\ e \in PushType /\ e.pc = l /\ e.art = q.art /\ e.d = q.d /\ e.row = q.row
                  /\ e.have = q.have /\ e.lock = {}
           /\ LET e == [q EXCEPT !.pc = l, !.row = r, !.lock = X]
              IN  /\ e \in PushType /\ e.pc = l /\ e.art = q.art /\ e.d = q.d /\ e.row = r
                  /\ e.have = q.have /\ e.lock = X
  <1>1. [q EXCEPT !.pc = l, !.lock = {}] \in PushType
    BY Zenon DEF PushType, Labels
  <1>2. [q EXCEPT !.pc = l, !.row = r, !.lock = X] \in PushType
    BY Zenon DEF PushType, Labels
  <1> QED BY <1>1, <1>2, Zenon DEF PushType

\* ProbeBlob reads the row before a PUT: a blob without a row is out of the
\* collector's sight, one that seems stuck was left by an earlier run.
LEMMA ProbeGetStep ==
    ASSUME BlobInv, NEW p \in Pushers, ProbeGet(p)
    PROVE  BlobInv'
  <1> DEFINE d == push[p].d
             row == View(p, d)
  <1>0. /\ push \in [Pushers -> PushType] /\ push[p] \in PushType /\ PhaseOf(p) /\ storage \subseteq Digests
        /\ push[p].pc = "upload" /\ push[p].art \in Arts /\ d \in Digests /\ row \in Row
        /\ Types /\ RowsOK /\ Collector
    BY PushFacts, ViewTypes, Zenon DEF PhaseOf, Going, ProbeGet
  <1>1. blob' = blob /\ made' = made /\ gc' = gc /\ storage' = storage
    BY Zenon DEF ProbeGet, tables
  <1>2. \A e : Kept(e)' = Kept(e)
    BY <1>1, Zenon DEF Kept, Unclaimed, Stale, Listed, Removing
  <1>3. /\ push[p].lock # {} => row = push[p].row /\ row.st = "deletefailed" /\ push[p].lock = {d}
        /\ push[p].lock = {} => row = blob[d]
    BY <1>0, Zenon DEF PhaseOf, View
  <1> DEFINE l == CASE row = NoBlob -> "store"
                    [] row.st \in StatusMap["none"] -> "probe"
                    [] row.st = "deleting" /\ row.old -> "unstick"
                    [] OTHER -> "failed"
  <1>4. /\ l \in {"store", "probe", "unstick", "failed"}
        /\ l = "store" => row = NoBlob
        /\ l = "unstick" => row.st = "deleting" /\ row.old
        /\ l = "failed" => row.st # "deletefailed"
        /\ row.st = "deletefailed" => l = "probe"
    <2>1. NoBlob.st = "absent" /\ StatusMap["none"] = {"none", "delete", "deletefailed"}
      BY Zenon DEF NoBlob, StatusMap
    <2>2. CASE row = NoBlob
      BY <2>1, <2>2, Zenon
    <2>3. CASE row.st \in {"none", "delete", "deletefailed"}
      BY <2>1, <2>3, Zenon
    <2>4. CASE row # NoBlob /\ row.st = "deleting" /\ row.old
      BY <2>1, <2>4, Zenon
    <2>5. CASE row # NoBlob /\ row.st \notin {"none", "delete", "deletefailed"} /\ ~(row.st = "deleting" /\ row.old)
      BY <2>1, <2>5, Zenon
    <2> QED BY <2>2, <2>3, <2>4, <2>5, Zenon
  <1>5. push' = [push EXCEPT ![p] = [push[p] EXCEPT !.row = row, !.pc = l]]
    BY Zenon DEF ProbeGet
  <1> HIDE DEF l, row, d
  <1>6. /\ push' \in [Pushers -> PushType] /\ \A r \in Pushers \ {p} : push'[r] = push[r]
        /\ push'[p].pc = l /\ push'[p].art = push[p].art /\ push'[p].d = push[p].d /\ push'[p].row = row
        /\ push'[p].have = push[p].have /\ push'[p].lock = push[p].lock
    <2>1. l \in Labels
      BY <1>4, Zenon DEF Labels
    <2>2. push'[p] = [push[p] EXCEPT !.row = row, !.pc = l]
      BY <1>0, <1>5, Zenon
    <2>3. [push[p] EXCEPT !.row = row, !.pc = l] \in PushType
      BY <1>0, <2>1, PushRow, Zenon
    <2>4. /\ push'[p].pc = l /\ push'[p].art = push[p].art /\ push'[p].d = push[p].d /\ push'[p].row = row
          /\ push'[p].have = push[p].have /\ push'[p].lock = push[p].lock
      BY <1>0, <2>2, Zenon DEF PushType
    <2> QED BY <1>0, <1>5, <2>3, <2>4, Zenon
  <1>7. ASSUME l = "store" PROVE push[p].lock = {} /\ Kept(d)
    <2>1. push[p].lock = {} /\ blob[d] = NoBlob
      BY <1>3, <1>4, <1>7, Zenon DEF NoBlob
    <2> QED BY <2>1, <1>0, NoBlobKept, Zenon
  <1>8. ASSUME l = "unstick" PROVE push[p].lock = {} /\ Behind(d, row) /\ blob[d].old
    <2>1. push[p].lock = {} /\ row = blob[d] /\ blob[d] # NoBlob /\ blob[d].old
      BY <1>3, <1>4, <1>8 DEF NoBlob
    <2>2. blob[d].id \in Nat /\ blob[d].ver \in Nat /\ blob[d].id >= 1 /\ blob[d].id = made[d] /\ made[d] \in Nat
      BY <2>1, <1>0, Zenon DEF RowsOK, Types, TypeOK, Row
    <2> QED BY <2>1, <2>2 DEF Behind
  <1>9. push[p].lock # {} => l = "probe"
    BY <1>3, <1>4, ZenonT(60)
  <1>10. PhaseOf(p)'
    BY <1>0, <1>1, <1>2, <1>3, <1>4, <1>6, <1>7, <1>8, <1>9 DEF PhaseOf, Held, Going, Behind, Same, d
  <1> QED BY <1>0, <1>6, <1>10, PlainPush, Zenon DEF ProbeGet

\* What the registry stores is out of the collector's sight (PutBlob, the
\* proxied PUT of a manifest).
LEMMA StoreStep ==
    ASSUME BlobInv, NEW p \in Pushers, PutBlob(p) \/ PutToRegistry(p)
    PROVE  BlobInv'
  <1> DEFINE d == push[p].d
             a == push[p].art
  <1>0. /\ push \in [Pushers -> PushType] /\ push[p] \in PushType /\ PhaseOf(p) /\ storage \subseteq Digests
        /\ push[p].pc = "store" /\ a \in Arts /\ d \in Digests /\ d \in BlobsOf(a) /\ Arts \subseteq Digests
        /\ Types /\ Uses[a] \subseteq Layers /\ push[p].have \subseteq storage
        /\ (d \in Layers => push[p].lock = {}) /\ (d \in push[p].lock \/ Kept(d))
        /\ \A e \in push[p].have : e \in push[p].lock \/ Kept(e)
    BY PushFacts, Zenon DEF PhaseOf, Going, PutBlob, PutToRegistry, Held
  <1>1. blob' = blob /\ made' = made /\ gc' = gc
    BY Zenon DEF PutBlob, PutToRegistry, tables
  <1>2. \A e : Kept(e)' = Kept(e)
    BY <1>1, Zenon DEF Kept, Unclaimed, Stale, Listed, Removing
  <1>3. CASE PutBlob(p)
    <2>1. /\ push' = [push EXCEPT ![p] = [push[p] EXCEPT !.pc = "ensure"]] /\ d \in Layers
          /\ storage' = storage \union {d}
      BY <1>0, <1>3, Zenon DEF PutBlob, PushType
    <2>2. [push[p] EXCEPT !.pc = "ensure"] \in PushType
      BY <1>0, Zenon DEF PushType
    <2>3. push'[p] = [push[p] EXCEPT !.pc = "ensure"] /\ push' \in [Pushers -> PushType]
          /\ \A r \in Pushers \ {p} : push'[r] = push[r]
      BY <1>0, <2>1, <2>2, Zenon
    <2>4. /\ push'[p].pc = "ensure" /\ push'[p].art = a /\ push'[p].d = d /\ push'[p].lock = {}
          /\ push'[p].have = push[p].have /\ push[p].lock = {}
      BY <1>0, <2>1, <2>3, Zenon DEF PushType
    <2>5. PhaseOf(p)'
      BY <1>0, <1>1, <1>2, <2>1, <2>4 DEF PhaseOf, Held, Going
    <2> QED BY <1>0, <1>3, <2>1, <2>3, <2>4, <2>5, PlainPush, Zenon DEF PutBlob
  <1>4. CASE PutToRegistry(p)
    <2>0. d \in Arts /\ d = a
      BY <1>0, <1>4, ConstantsAssumption, Zenon DEF PutToRegistry, BlobsOf
    <2>1. CASE Uses[a] \subseteq storage
      <3>1. /\ push' = [push EXCEPT ![p] = [push[p] EXCEPT !.pc = "after", !.new = NewArtifact(a),
                                                          !.have = push[p].have \union {a}]]
            /\ storage' = storage \union {a}
        BY <1>4, <2>1, Zenon DEF PutToRegistry
      <3>2. [push[p] EXCEPT !.pc = "after", !.new = NewArtifact(a), !.have = push[p].have \union {a}] \in PushType
        <4>1. push[p].have \union {a} \in SUBSET Digests /\ NewArtifact(a) \in BOOLEAN
          BY <1>0 DEF NewArtifact, PushType
        <4>2. \A X \in SUBSET Digests, b \in BOOLEAN :
                [push[p] EXCEPT !.pc = "after", !.new = b, !.have = X] \in PushType
          BY <1>0, Zenon DEF PushType
        <4> QED BY <4>1, <4>2, Zenon
      <3>3. /\ push'[p] = [push[p] EXCEPT !.pc = "after", !.new = NewArtifact(a), !.have = push[p].have \union {a}]
            /\ push' \in [Pushers -> PushType] /\ \A r \in Pushers \ {p} : push'[r] = push[r]
        BY <1>0, <3>1, <3>2, Zenon
      <3>4. /\ push'[p].pc = "after" /\ push'[p].art = a /\ push'[p].d = d
            /\ push'[p].lock = push[p].lock /\ push'[p].row = push[p].row
        BY <1>0, <3>3, ZenonT(60) DEF PushType
      <3>5. push'[p].have = push[p].have \union {a}
        BY <1>0, <3>3, Zenon DEF PushType
      <3>6. PhaseOf(p)'
        BY <1>0, <1>1, <1>2, <2>0, <3>1, <3>4, <3>5, ZenonT(60) DEF PhaseOf, Held, Going
      <3> QED BY <1>0, <1>4, <3>1, <3>3, <3>4, <3>6, PlainPush, Zenon DEF PutToRegistry
    <2>2. CASE ~(Uses[a] \subseteq storage)
      <3>1. /\ push' = [push EXCEPT ![p] = [push[p] EXCEPT !.pc = "failed", !.lock = {}]]
            /\ storage' = storage
        BY <1>4, <2>2, Zenon DEF PutToRegistry
      <3>2. [push[p] EXCEPT !.pc = "failed", !.lock = {}] \in PushType
        BY <1>0, Zenon DEF PushType
      <3>3. push' \in [Pushers -> PushType] /\ (\A r \in Pushers \ {p} : push'[r] = push[r])
            /\ push'[p].pc = "failed" /\ push'[p].lock = {}
        BY <1>0, <3>1, <3>2, Zenon DEF PushType
      <3>4. PhaseOf(p)'
        BY <3>3, Zenon DEF PhaseOf, Going
      <3> QED BY <1>0, <1>4, <3>1, <3>3, <3>4, PlainPush, Zenon DEF PutToRegistry
    <2> QED BY <2>1, <2>2, Zenon
  <1> QED BY <1>3, <1>4

\* A step of a push that writes the row of a layer outside a transaction: what
\* the collector is removing refuses every status but those it gives itself.
LEMMA LayerStep ==
    ASSUME BlobInv, NEW p \in Pushers, NEW d \in Layers, NEW seen, NEW st \in Statuses,
           UpdateBlobStatus(d, seen, st), Accepts(blob[d], seen, st) => ~(Removing /\ gc.d = d),
           push' \in [Pushers -> PushType], \A r \in Pushers \ {p} : push'[r] = push[r],
           push'[p].lock = {},
           UNCHANGED <<made, assoc, refs, arts, trash, storage, del, gc, bounds>>
    PROVE  /\ Accepts(blob[d], seen, st) => Kept(d)'
           /\ \A e \in Digests : Kept(e) => Kept(e)'
           /\ PhaseOf(p)' => BlobInv'
  <1>0. Types /\ RowsOK /\ Collector /\ d \in Digests
    BY Zenon DEF BlobInv, Digests
  <1>1. /\ made' = made /\ assoc' = assoc /\ refs' = refs /\ arts' = arts /\ trash' = trash
        /\ storage' = storage /\ del' = del /\ gc' = gc /\ runs' = runs /\ crashes' = crashes /\ faults' = faults
    BY Zenon DEF bounds
  <1>2. /\ Free(d) /\ blob' \in [Digests -> Row] /\ RowsOK' /\ RowsMove
        /\ \A e \in Digests : /\ blob'[e] # NoBlob => blob'[e].id = made[e]
                              /\ e # d => blob'[e] = blob[e]
    BY <1>0, <1>1, StatusStep, Zenon
  <1>3. Accepts(blob[d], seen, st) =>
                /\ ~blob'[d].old /\ blob'[d].id = blob[d].id /\ blob'[d].ver > blob[d].ver
    BY <1>0, <1>1, StatusStep, Zenon
  <1>4. ~Accepts(blob[d], seen, st) => blob' = blob
    BY <1>0, <1>1, StatusStep, Zenon
  <1>5. Types'
    BY <1>0, <1>1, <1>2, Zenon DEF Types, TypeOK
  <1>6. Accepts(blob[d], seen, st) => Kept(d)'
    BY <1>0, <1>1, <1>3, <1>5, MovedKept, Zenon
  <1>7. ClaimsLess
    BY <1>1, Zenon DEF ClaimsLess, Listed, Removing
  <1>8. \A e \in Digests : Kept(e) => Kept(e)'
    BY <1>0, <1>2, <1>5, <1>7, UnclaimedStays, Zenon
  <1>9. ASSUME PhaseOf(p)' PROVE BlobInv'
    <2>1. Removing => blob'[gc.d] = blob[gc.d] /\ gc.d \notin push'[p].lock
      BY <1>0, <1>2, <1>4, Zenon DEF Collector
    <2>2. \A e \in Digests : blob'[e] # blob[e] => \A r \in Pushers \ {p} : e \notin push[r].lock
      BY <1>2, Zenon DEF Free
    <2>3. ArtifactsLinked'
      BY <1>1, Zenon DEF BlobInv, ArtifactsLinked
    <2> QED BY <1>1, <1>2, <1>5, <1>9, <2>1, <2>2, <2>3, PushStep, Zenon
  <1> QED BY <1>6, <1>8, <1>9, Zenon

\* The HEAD of a layer touches its row, or gives up a deletion that is stuck.
LEMMA HeadWrite ==
    ASSUME BlobInv, NEW p \in Pushers, HeadTouch(p) \/ HeadFail(p)
    PROVE  BlobInv'
  <1> DEFINE d == push[p].d
  <1>0. /\ push \in [Pushers -> PushType] /\ push[p] \in PushType /\ PhaseOf(p)
        /\ push[p].pc \in {"touch", "giveup"} /\ push[p].art \in Arts /\ d \in Layers /\ d \in BlobsOf(push[p].art)
        /\ push[p].lock = {} /\ push[p].have \subseteq storage /\ push[p].have \subseteq Digests
        /\ Types /\ Collector
        /\ \A e \in push[p].have : Kept(e)
    BY PushFacts DEF PhaseOf, Going, HeadTouch, HeadFail, Held, PushType
  <1>1. CASE HeadTouch(p)
    <2> DEFINE l == IF Accepts(blob[d], push[p].row, "none") THEN "ask" ELSE "upload"
    <2>1. push' = [push EXCEPT ![p] = [push[p] EXCEPT !.pc = l]]
      BY <1>0, <1>1, Zenon DEF HeadTouch, PushType
    <2>2. [push[p] EXCEPT !.pc = l] \in PushType
      BY <1>0, Zenon DEF PushType
    <2>3. push' \in [Pushers -> PushType] /\ (\A r \in Pushers \ {p} : push'[r] = push[r])
          /\ push'[p] = [push[p] EXCEPT !.pc = l]
      BY <1>0, <2>1, <2>2, Zenon
    <2>4. /\ push'[p].pc = l /\ push'[p].art = push[p].art /\ push'[p].d = d /\ push'[p].lock = {}
          /\ push'[p].have = push[p].have
      BY <1>0, <2>3, Zenon DEF PushType
    <2>5. Accepts(blob[d], push[p].row, "none") => ~(Removing /\ gc.d = d)
      BY <1>0, Zenon DEF Accepts, StatusMap, Collector
    <2>6. /\ Accepts(blob[d], push[p].row, "none") => Kept(d)'
          /\ \A e \in Digests : Kept(e) => Kept(e)'
          /\ PhaseOf(p)' => BlobInv'
      BY <1>0, <1>1, <2>3, <2>4, <2>5, LayerStep, Zenon DEF HeadTouch, Statuses
    <2>7. storage' = storage
      BY <1>1, Zenon DEF HeadTouch
    <2>8. PhaseOf(p)'
      BY <1>0, <2>4, <2>6, <2>7, Zenon DEF PhaseOf, Held, Going
    <2> QED BY <2>6, <2>8, Zenon
  <1>2. CASE HeadFail(p)
    <2>1. push' = [push EXCEPT ![p] = [push[p] EXCEPT !.pc = "upload"]] /\ push[p].pc = "giveup"
      BY <1>0, <1>2, Zenon DEF HeadFail, PushType
    <2>2. [push[p] EXCEPT !.pc = "upload"] \in PushType
      BY <1>0, Zenon DEF PushType
    <2>3. push' \in [Pushers -> PushType] /\ (\A r \in Pushers \ {p} : push'[r] = push[r])
          /\ push'[p] = [push[p] EXCEPT !.pc = "upload"]
      BY <1>0, <2>1, <2>2, Zenon
    <2>4. /\ push'[p].pc = "upload" /\ push'[p].art = push[p].art /\ push'[p].d = d /\ push'[p].lock = {}
          /\ push'[p].have = push[p].have
      BY <1>0, <2>3, Zenon DEF PushType
    <2>5. Accepts(blob[d], push[p].row, "deletefailed") => ~(Removing /\ gc.d = d)
      BY <1>0, <2>1, Zenon DEF Accepts, Collector, PhaseOf, Same
    <2>6. /\ \A e \in Digests : Kept(e) => Kept(e)'
          /\ PhaseOf(p)' => BlobInv'
      BY <1>0, <1>2, <2>3, <2>4, <2>5, LayerStep, Zenon DEF HeadFail, Statuses
    <2>7. storage' = storage
      BY <1>2, Zenon DEF HeadFail
    <2>8. PhaseOf(p)'
      BY <1>0, <2>4, <2>6, <2>7, Zenon DEF PhaseOf, Held, Going
    <2> QED BY <2>6, <2>8, Zenon
  <1> QED BY <1>0, <1>1, <1>2, ZenonT(60)

\* The status update of a probe: of a layer it is done at once, of a manifest
\* the row is locked and written by the commit.
LEMMA ProbeUpdateStep ==
    ASSUME BlobInv, NEW p \in Pushers, NEW st \in {"none", "deletefailed"}, NEW next \in {"store", "upload"},
           ProbeUpdate(p, st, next),
           st = "none" => push[p].pc = "probe" /\ next = "store",
           st = "deletefailed" => push[p].pc = "unstick" /\ next = "upload"
    PROVE  BlobInv'
  <1> DEFINE d == push[p].d
             ok == Accepts(View(p, d), push[p].row, st)
             new == Updated(View(p, d), st)
  <1>0. /\ push \in [Pushers -> PushType] /\ push[p] \in PushType /\ PhaseOf(p)
        /\ push[p].art \in Arts /\ d \in Digests /\ d \in BlobsOf(push[p].art)
        /\ push[p].have \subseteq storage /\ push[p].have \subseteq Digests
        /\ Types /\ Collector /\ RowsOK /\ View(p, d) \in Row /\ blob[d] \in Row /\ storage \subseteq Digests
        /\ \A e \in push[p].have : e \in push[p].lock \/ Kept(e)
        /\ (d \in Layers => push[p].lock = {}) /\ (push[p].lock # {} => push[p].lock = {d})
    BY PushFacts, ViewTypes DEF PhaseOf, Going, Held, PushType
  <1>1. /\ new \in Row /\ new.id = View(p, d).id /\ new.ver = View(p, d).ver + 1
        /\ new.st = st /\ ~new.old
    <2>1. st \in Statuses /\ View(p, d) \in Row
      BY <1>0, Zenon DEF Statuses
    <2> QED BY <2>1, RowTypes, Zenon
  <1>2. /\ made' = made /\ assoc' = assoc /\ refs' = refs /\ arts' = arts /\ trash' = trash
        /\ storage' = storage /\ del' = del /\ gc' = gc /\ UNCHANGED bounds
    BY Zenon DEF ProbeUpdate
  <1>3. ok => ~(Removing /\ gc.d = d)
    <2>1. CASE d \in push[p].lock
      BY <1>0, <2>1, Zenon DEF Collector, Free
    <2>2. CASE d \notin push[p].lock
      <3>1. View(p, d) = blob[d]
        BY <2>2, Zenon DEF View
      <3>2. CASE st = "none"
        BY <1>0, <3>1, <3>2, Zenon DEF Accepts, StatusMap, Collector
      <3>3. CASE st = "deletefailed"
        BY <1>0, <3>1, <3>3, Zenon DEF Accepts, Collector, PhaseOf, Same
      <3> QED BY <3>2, <3>3, Zenon
    <2> QED BY <2>1, <2>2, Zenon
  <1>4. /\ push' \in [Pushers -> PushType] /\ \A r \in Pushers \ {p} : push'[r] = push[r]
        /\ push'[p].art = push[p].art /\ push'[p].d = d /\ push'[p].have = push[p].have
        /\ ~ok => push'[p].pc = "failed" /\ push'[p].lock = {}
        /\ ok => push'[p].pc = next /\ push'[p].row = new /\ push'[p].lock = {d} \ Layers
    <2>1. push' = [push EXCEPT ![p] =
                       IF ~ok THEN [push[p] EXCEPT !.pc = "failed", !.lock = {}]
                       ELSE [push[p] EXCEPT !.pc = next, !.row = new, !.lock = {d} \ Layers]]
      BY Zenon DEF ProbeUpdate
    <2> HIDE DEF ok, new
    <2>2. CASE ~ok
      <3>1. [push[p] EXCEPT !.pc = "failed", !.lock = {}] \in PushType
        BY <1>0, Zenon DEF PushType
      <3>2. /\ push' \in [Pushers -> PushType] /\ (\A r \in Pushers \ {p} : push'[r] = push[r])
            /\ push'[p] = [push[p] EXCEPT !.pc = "failed", !.lock = {}]
        BY <1>0, <2>1, <2>2, <3>1, Zenon
      <3> QED BY <1>0, <2>2, <3>2, Zenon DEF PushType
    <2>3. CASE ok
      <3>1. [push[p] EXCEPT !.pc = next, !.row = new, !.lock = {d} \ Layers] \in PushType
        <4>1. {d} \ Layers \in SUBSET Digests
          BY <1>0, Zenon
        <4>2. \A X \in SUBSET Digests : [push[p] EXCEPT !.pc = next, !.row = new, !.lock = X] \in PushType
          BY <1>0, <1>1, Zenon DEF PushType
        <4> QED BY <4>1, <4>2, Zenon
      <3>2. /\ push' \in [Pushers -> PushType] /\ (\A r \in Pushers \ {p} : push'[r] = push[r])
            /\ push'[p] = [push[p] EXCEPT !.pc = next, !.row = new, !.lock = {d} \ Layers]
        BY <1>0, <2>1, <2>3, <3>1, Zenon
      <3> QED BY <1>0, <2>3, <3>2, Zenon DEF PushType
    <2> QED BY <2>2, <2>3, Zenon
  <1>5. CASE d \in Layers
    <2>1. UpdateBlobStatus(d, push[p].row, st) /\ View(p, d) = blob[d] /\ push'[p].lock = {} /\ push[p].lock = {}
      BY <1>0, <1>4, <1>5, ZenonT(60) DEF ProbeUpdate, View
    <2>2. /\ ok => Kept(d)'
          /\ \A e \in Digests : Kept(e) => Kept(e)'
          /\ PhaseOf(p)' => BlobInv'
      BY <1>2, <1>3, <1>4, <1>5, <2>1, LayerStep DEF Statuses
    <2>3. PhaseOf(p)'
      <3>1. CASE ok
        BY <1>0, <1>2, <1>4, <2>1, <2>2, <3>1, Zenon DEF PhaseOf, Held, Going
      <3>2. CASE ~ok
        BY <1>4, <3>2, Zenon DEF PhaseOf, Going
      <3> QED BY <3>1, <3>2, Zenon
    <2> QED BY <2>2, <2>3, Zenon
  <1>6. CASE d \notin Layers
    <2>1. blob' = blob /\ (Free(d) \/ d \in push[p].lock) /\ d \in Arts
      BY <1>0, <1>6, Zenon DEF ProbeUpdate, Digests
    <2>2. \A e : Kept(e)' = Kept(e)
      BY <1>2, <2>1, Zenon DEF Kept, Unclaimed, Stale, Listed, Removing
    <2>3. ASSUME ok
          PROVE  /\ blob[d] # NoBlob /\ new.id = blob[d].id /\ new.ver > blob[d].ver
                 /\ push'[p].lock = {d}
      <3>1. push'[p].lock = {d} /\ blob[d].ver \in Nat /\ push[p].row.ver \in Nat
        BY <1>0, <1>4, <1>6, <2>3, SMTT(30) DEF PushType, Row
      <3>2. CASE d \in push[p].lock
        <4>1. View(p, d) = push[p].row /\ blob[d] # NoBlob /\ push[p].row.id = blob[d].id /\ push[p].row.ver > blob[d].ver
          BY <1>0, <3>2, ZenonT(60) DEF PhaseOf, View
        <4> QED BY <4>1, <1>1, <3>1
      <3>3. CASE d \notin push[p].lock
        <4>1. View(p, d) = blob[d]
          BY <3>3 DEF View
        <4>2. blob[d].st # "absent"
          BY <4>1, <2>3 DEF Accepts, StatusMap
        <4> QED BY <4>1, <4>2, <1>1, <3>1 DEF NoBlob
      <3> QED BY <3>2, <3>3, Zenon
    <2>4. PhaseOf(p)'
      <3>1. CASE ok
        <4> HIDE DEF ok, new
        <4> QED BY <1>0, <1>1, <1>2, <1>4, <2>1, <2>2, <2>3, <3>1, ZenonT(60) DEF PhaseOf, Held, Going
      <3>2. CASE ~ok
        BY <1>4, <3>2 DEF PhaseOf, Going
      <3> QED BY <3>1, <3>2
    <2>5. Types' /\ RowsOK' /\ RowsMove /\ ArtifactsLinked'
      <3>1. /\ ArtifactsLinked /\ gc \in GcType /\ (gc.pc = "find" => gc.list \subseteq Digests)
            /\ del \in [Deleters -> DelType] /\ \A x \in Deleters : del[x].pc = "found" => del[x].art \in Arts
            /\ refs \subseteq Arts /\ arts \subseteq Arts /\ trash \subseteq Arts
            /\ runs \in 0..MaxRuns /\ crashes \in 0..MaxCrashes /\ faults \in 0..MaxFaults
        BY Zenon DEF BlobInv, Types, TypeOK
      <3>2. runs' = runs /\ crashes' = crashes /\ faults' = faults
        BY <1>2, Zenon DEF bounds
      <3>3. Types' /\ RowsOK' /\ RowsMove
        BY <1>0, <1>2, <1>4, <2>1, <3>1, <3>2, SameRows, Zenon
      <3> QED BY <1>2, <3>1, <3>3, Zenon DEF ArtifactsLinked
    <2>6. push'[p].lock \subseteq {d} /\ (push'[p].lock # {} => ok)
      BY <1>4, Zenon
    <2>7. Removing => blob'[gc.d] = blob[gc.d] /\ gc.d \notin push'[p].lock
      BY <1>3, <2>1, <2>6, Zenon
    <2>8. \A e \in push'[p].lock \ push[p].lock : Free(e)
      BY <2>1, <2>6, Zenon
    <2> QED BY <1>2, <1>4, <2>1, <2>4, <2>5, <2>7, <2>8, PushStep, Zenon
  <1> QED BY <1>5, <1>6, ZenonT(60)

\* The row that Ensure leaves for a digest: the one there is, the one the
\* request has locked and changed, or a new one under the next ID.
LEMMA EnsureRow ==
    ASSUME BlobInv, NEW p \in Pushers, NEW d \in Digests, push[p].lock \subseteq {push[p].d}
    PROVE  /\ Ensure(p, d) \in Row /\ Ensure(p, d) # NoBlob /\ Ensure(p, d).st # "absent"
           /\ Ensure(p, d).id \in Nat /\ Ensure(p, d).id >= 1 /\ Ensure(p, d).id >= made[d]
           /\ \/ Ensure(p, d) = blob[d] /\ d \notin push[p].lock /\ Ensure(p, d).id = made[d]
              \/ /\ d \in push[p].lock /\ ~Ensure(p, d).old /\ Ensure(p, d).id = blob[d].id
                 /\ Ensure(p, d).ver > blob[d].ver
              \/ /\ blob[d] = NoBlob /\ ~Ensure(p, d).old /\ Ensure(p, d).id > made[d]
  <1>0. /\ Types /\ RowsOK /\ PhaseOf(p) /\ blob[d] \in Row /\ made[d] \in Nat /\ Ensure(p, d) \in Row
        /\ View(p, d) \in Row
    BY PushFacts, ViewTypes, ZenonT(60) DEF Types, TypeOK
  <1>1. CASE d \in push[p].lock
    <2>1. /\ View(p, d) = push[p].row /\ push[p].row.id = blob[d].id /\ push[p].row.ver > blob[d].ver
          /\ ~push[p].row.old /\ push[p].row.st \in {"none", "deletefailed"} /\ blob[d] # NoBlob
      BY <1>0, <1>1, ZenonT(60) DEF PhaseOf, View
    <2>2. Ensure(p, d) = push[p].row /\ push[p].row # NoBlob
      BY <2>1 DEF Ensure, NoBlob
    <2>3. blob[d].id >= 1 /\ blob[d].id = made[d]
      BY <1>0, <2>1, Zenon DEF RowsOK, Types, TypeOK
    <2> QED BY <1>0, <1>1, <2>1, <2>2, <2>3
  <1>2. CASE d \notin push[p].lock /\ blob[d] # NoBlob
    <2>1. Ensure(p, d) = blob[d]
      BY <1>2, Zenon DEF Ensure, View
    <2>2. blob[d].id >= 1 /\ blob[d].st # "absent" /\ blob[d].id = made[d]
      BY <1>0, <1>2, Zenon DEF RowsOK, Types, TypeOK
    <2> QED BY <1>0, <1>2, <2>1, <2>2
  <1>3. CASE d \notin push[p].lock /\ blob[d] = NoBlob
    <2>1. Ensure(p, d) = Create(d)
      BY <1>3, Zenon DEF Ensure, View
    <2>2. /\ Create(d).id = made[d] + 1 /\ ~Create(d).old /\ Create(d).st = "none" /\ Create(d) # NoBlob
      BY <1>0, Zenon DEF Create, NoBlob
    <2> QED BY <1>0, <1>3, <2>1, <2>2
  <1> QED BY <1>1, <1>2, <1>3, Zenon

\* The middleware creates and associates the row of an uploaded layer.
LEMMA EnsureStep ==
    ASSUME BlobInv, NEW p \in Pushers, EnsureBlob(p)
    PROVE  BlobInv'
  <1> DEFINE d == push[p].d
             row == Ensure(p, d)
  <1>0. /\ push \in [Pushers -> PushType] /\ push[p] \in PushType /\ PhaseOf(p) /\ push[p].pc = "ensure"
        /\ push[p].art \in Arts /\ d \in Layers /\ d \in Digests /\ push[p].lock = {}
        /\ push[p].have \subseteq storage /\ push[p].have \subseteq Digests /\ d \in storage
        /\ Types /\ Collector /\ RowsOK /\ storage \subseteq Digests
        /\ Kept(d) /\ \A e \in push[p].have : Kept(e)
    BY PushFacts DEF PhaseOf, Going, Held, PushType, EnsureBlob
  <1>1. /\ blob' = [blob EXCEPT ![d] = row] /\ made' = [made EXCEPT ![d] = row.id]
        /\ assoc' = assoc \union {<<d, row.id>>}
        /\ push' = [push EXCEPT ![p] = [push[p] EXCEPT !.pc = "next", !.have = push[p].have \union {d}]]
        /\ refs' = refs /\ arts' = arts /\ trash' = trash /\ storage' = storage /\ del' = del /\ gc' = gc
        /\ runs' = runs /\ crashes' = crashes /\ faults' = faults
    BY Zenon DEF EnsureBlob, bounds
  <1>2. /\ row \in Row /\ row # NoBlob /\ row.st # "absent" /\ row.id \in Nat /\ row.id >= 1 /\ row.id >= made[d]
        /\ \/ row = blob[d]
           \/ blob[d] = NoBlob /\ ~row.old /\ row.id > made[d]
    BY <1>0, EnsureRow, Zenon
  <1> HIDE DEF row
  <1>3. /\ push' \in [Pushers -> PushType] /\ \A r \in Pushers \ {p} : push'[r] = push[r]
        /\ push'[p].pc = "next" /\ push'[p].art = push[p].art /\ push'[p].lock = {}
        /\ push'[p].have = push[p].have \union {d}
    <2>1. push[p].have \union {d} \in SUBSET Digests
      BY <1>0, Zenon
    <2>2. \A X \in SUBSET Digests : [push[p] EXCEPT !.pc = "next", !.have = X] \in PushType
      BY <1>0, Zenon DEF PushType
    <2>3. push' \in [Pushers -> PushType] /\ (\A r \in Pushers \ {p} : push'[r] = push[r])
          /\ push'[p] = [push[p] EXCEPT !.pc = "next", !.have = push[p].have \union {d}]
      BY <1>0, <1>1, <2>1, <2>2, Zenon
    <2>4. push'[p].pc = "next" /\ push'[p].art = push[p].art /\ push'[p].lock = {}
      BY <1>0, <2>3, Zenon DEF PushType
    <2>5. push'[p].have = push[p].have \union {d}
      BY <1>0, <2>3, Zenon DEF PushType
    <2> QED BY <2>3, <2>4, <2>5, Zenon
  <1>4. /\ blob \in [Digests -> Row] /\ made \in [Digests -> Nat]
        /\ \A e \in Digests : blob[e] # NoBlob => blob[e].id = made[e]
        /\ \A r \in assoc : r[1] \in Digests /\ r[2] \in 1..made[r[1]]
    BY <1>0, Zenon DEF Types, TypeOK
  <1>5. /\ blob'[d] = row /\ made'[d] = row.id /\ blob' \in [Digests -> Row] /\ made' \in [Digests -> Nat]
        /\ \A e \in Digests \ {d} : blob'[e] = blob[e] /\ made'[e] = made[e]
    BY <1>0, <1>1, <1>2, <1>4, Zenon
  <1>6. \A e \in Digests : made'[e] \in Nat /\ made[e] \in Nat /\ made'[e] >= made[e]
    BY <1>2, <1>4, <1>5
  <1>7. \A r \in assoc' : r[1] \in Digests /\ r[2] \in 1..made'[r[1]]
    <2>1. ASSUME NEW r \in assoc PROVE r[1] \in Digests /\ r[2] \in 1..made'[r[1]]
      BY <1>4, <1>6
    <2>2. <<d, row.id>>[1] \in Digests /\ <<d, row.id>>[2] \in 1..made'[<<d, row.id>>[1]]
      BY <1>0, <1>2, <1>5
    <2> QED BY <1>1, <2>1, <2>2, Zenon
  <1>8. Types'
    BY <1>0, <1>1, <1>3, <1>5, <1>7 DEF Types, TypeOK
  <1>9. RowsOK' /\ RowsMove
    BY <1>0, <1>2, <1>5, <1>6, ZenonT(60) DEF RowsOK, RowsMove, RowMoves
  <1>10. ClaimsLess
    BY <1>1, Zenon DEF ClaimsLess, Listed, Removing
  <1>11. \A e \in Digests : Kept(e) => Kept(e)'
    BY <1>0, <1>8, <1>9, <1>10, UnclaimedStays, Zenon
  <1>12. PhaseOf(p)'
    BY <1>0, <1>1, <1>3, <1>11, SMTT(30) DEF PhaseOf, Held, Going
  <1>13. Removing => blob'[gc.d] = blob[gc.d] /\ gc.d \notin push'[p].lock
    BY <1>0, <1>2, <1>3, <1>5 DEF Collector, NoBlob
  <1>14. \A e \in Digests : blob'[e] # blob[e] => \A r \in Pushers \ {p} : e \notin push[r].lock
    <2>1. \A r \in Pushers \ {p} : d \notin push[r].lock
      BY <1>0, ConstantsAssumption, PushFacts DEF PhaseOf
    <2> QED BY <1>5, <2>1, ZenonT(60)
  <1>15. ArtifactsLinked'
    BY <1>1, Zenon DEF BlobInv, ArtifactsLinked
  <1> QED BY <1>1, <1>3, <1>8, <1>9, <1>12, <1>13, <1>14, <1>15, PushStep, SMTT(30)

\* The commit of a PUT manifest: rows, associations, the artifact and its
\* records appear together, and nothing of it is in the collector's sight.
LEMMA CommitStep ==
    ASSUME BlobInv, NEW p \in Pushers, CommitManifest(p)
    PROVE  BlobInv'
  <1> DEFINE a == push[p].art
             B == BlobsOf(push[p].art)
  <1>0. /\ push \in [Pushers -> PushType] /\ push[p] \in PushType /\ PhaseOf(p) /\ push[p].pc = "after"
        /\ a \in Arts /\ B \subseteq Digests /\ a \in B /\ a \in Digests /\ a \in push[p].have
        /\ push[p].lock \subseteq {push[p].d} /\ push[p].d = a /\ (push[p].lock # {} => push[p].lock = {a})
        /\ Types /\ Collector /\ RowsOK /\ Apart
        /\ a \in push[p].lock \/ Kept(a)
    <2>1. PhaseOf(p) /\ push[p].pc = "after" /\ Going(p)
      BY PushFacts, Zenon DEF CommitManifest, Going
    <2> QED BY <2>1, PushFacts, Zenon DEF PhaseOf, Held, BlobInv, BlobsOf
  <1>1. /\ blob' = [d \in Digests |-> IF d \in B THEN Ensure(p, d) ELSE blob[d]]
        /\ made' = [d \in Digests |-> IF d \in B THEN Ensure(p, d).id ELSE made[d]]
        /\ assoc' = assoc \union {<<d, Ensure(p, d).id>> : d \in B}
        /\ \A d \in B : Free(d) \/ d \in push[p].lock
    BY Zenon DEF CommitManifest, Sync
  <1>2. /\ refs' = refs \union {a} /\ (arts' = arts \/ arts' = arts \union {a})
        /\ push' = [push EXCEPT ![p] = [NoPush EXCEPT !.pc = "done"]]
        /\ trash' = trash /\ storage' = storage /\ del' = del /\ gc' = gc
        /\ runs' = runs /\ crashes' = crashes /\ faults' = faults
    BY Zenon DEF CommitManifest, bounds
  <1>3. /\ push' \in [Pushers -> PushType] /\ \A r \in Pushers \ {p} : push'[r] = push[r]
        /\ push'[p].pc = "done" /\ push'[p].lock = {}
    <2>1. [NoPush EXCEPT !.pc = "done"] \in PushType
      BY RowTypes, Zenon DEF NoPush, PushType
    <2> QED BY <1>0, <1>2, <2>1, Zenon DEF NoPush
  <1>4. PhaseOf(p)'
    BY <1>3, Zenon DEF PhaseOf, Going
  <1>5. /\ blob \in [Digests -> Row] /\ made \in [Digests -> Nat]
        /\ \A e \in Digests : blob[e] # NoBlob => blob[e].id = made[e]
        /\ \A r \in assoc : r[1] \in Digests /\ r[2] \in 1..made[r[1]]
    BY <1>0, Zenon DEF Types, TypeOK
  <1>6. ASSUME NEW d \in Digests
        PROVE  /\ blob'[d] \in Row /\ made'[d] \in Nat /\ made'[d] >= made[d] /\ RowMoves(d)
               /\ blob'[d] # NoBlob => blob'[d].id = made'[d]
               /\ blob'[d] = NoBlob \/ (blob'[d].id >= 1 /\ blob'[d].st # "absent")
               /\ d \in B => Ensure(p, d).id \in 1..made'[d]
               /\ d \in push[p].lock => ~blob'[d].old /\ blob'[d].id = blob[d].id /\ blob'[d].ver > blob[d].ver
               /\ blob[d] # NoBlob /\ d \notin push[p].lock => blob'[d] = blob[d]
    <2>1. CASE d \in B
      <3>1. blob'[d] = Ensure(p, d) /\ made'[d] = Ensure(p, d).id
        BY <1>1, <2>1, Zenon
      <3>2. /\ Ensure(p, d) \in Row /\ Ensure(p, d) # NoBlob /\ Ensure(p, d).st # "absent"
            /\ Ensure(p, d).id \in Nat /\ Ensure(p, d).id >= 1 /\ Ensure(p, d).id >= made[d]
        BY <1>0, EnsureRow, Zenon
      <3>3. /\ RowMoves(d)
            /\ d \in push[p].lock => ~blob'[d].old /\ blob'[d].id = blob[d].id /\ blob'[d].ver > blob[d].ver
            /\ blob[d] # NoBlob /\ d \notin push[p].lock => blob'[d] = blob[d]
        <4>1. CASE Ensure(p, d) = blob[d] /\ d \notin push[p].lock
          BY <3>1, <4>1, Zenon DEF RowMoves
        <4>2. CASE /\ d \in push[p].lock /\ ~Ensure(p, d).old /\ Ensure(p, d).id = blob[d].id
                   /\ Ensure(p, d).ver > blob[d].ver
          BY <3>1, <4>2, Zenon DEF RowMoves
        <4>3. CASE /\ blob[d] = NoBlob /\ ~Ensure(p, d).old /\ Ensure(p, d).id > made[d]
          <5>1. d \notin push[p].lock
            BY <1>0, <4>3, ZenonT(60) DEF PhaseOf
          <5> QED BY <3>1, <4>3, <5>1, Zenon DEF RowMoves
        <4> QED BY <1>0, <4>1, <4>2, <4>3, EnsureRow, Zenon
      <3> QED BY <1>5, <2>1, <3>1, <3>2, <3>3
    <2>2. CASE d \notin B
      <3>1. blob'[d] = blob[d] /\ made'[d] = made[d] /\ d \notin push[p].lock
        BY <1>0, <1>1, <2>2, Zenon
      <3> QED BY <1>0, <1>5, <2>2, <3>1 DEF RowMoves, RowsOK
    <2> QED BY <2>1, <2>2, ZenonT(60)
  <1>7. blob' \in [Digests -> Row] /\ made' \in [Digests -> Nat]
    <2>1. \A d \in Digests : (IF d \in B THEN Ensure(p, d) ELSE blob[d]) \in Row
      BY <1>1, <1>6, Zenon
    <2>2. \A d \in Digests : (IF d \in B THEN Ensure(p, d).id ELSE made[d]) \in Nat
      BY <1>1, <1>6, Zenon
    <2> QED BY <1>1, <2>1, <2>2, Zenon
  <1>8. \A r \in assoc' : r[1] \in Digests /\ r[2] \in 1..made'[r[1]]
    <2>1. ASSUME NEW r \in assoc PROVE r[1] \in Digests /\ r[2] \in 1..made'[r[1]]
      BY <1>5, <1>6
    <2>2. ASSUME NEW d \in B PROVE <<d, Ensure(p, d).id>>[1] \in Digests
                                   /\ <<d, Ensure(p, d).id>>[2] \in 1..made'[<<d, Ensure(p, d).id>>[1]]
      BY <1>0, <1>6, Zenon
    <2> QED BY <1>1, <2>1, <2>2, Zenon
  <1>9. Types' /\ RowsOK' /\ RowsMove
    BY <1>0, <1>2, <1>3, <1>6, <1>7, <1>8, Zenon DEF Types, TypeOK, RowsOK, RowsMove
  <1>10. \A d \in Digests : blob'[d] # blob[d] => \A r \in Pushers \ {p} : d \notin push[r].lock
    BY <1>0, <1>1, ZenonT(60) DEF Free, Apart
  <1>11. Removing => blob'[gc.d] = blob[gc.d] /\ gc.d \notin push'[p].lock /\ gc.d \notin push[p].lock
    BY <1>0, <1>3, <1>6 DEF Collector, NoBlob, Free
  <1>12. ASSUME NEW d \in Digests, d = a PROVE Unclaimed(d)' /\ ~blob'[d].old
    <2>1. CASE d \in push[p].lock
      BY <1>0, <1>2, <1>6, <1>9, <1>11, <1>12, <2>1, MovedKept, Zenon DEF Kept
    <2>2. CASE Kept(d)
      <3>1. ClaimsLess
        BY <1>2, Zenon DEF ClaimsLess, Listed, Removing
      <3> QED BY <1>0, <1>9, <2>2, <3>1, UnclaimedStays, Zenon DEF Kept
    <2> QED BY <1>0, <1>12, <2>1, <2>2, Zenon
  <1>13. ArtifactsLinked'
    BY <1>2, Zenon DEF BlobInv, ArtifactsLinked
  <1>14. \A d \in arts' \ arts : Unclaimed(d)' /\ ~blob'[d].old
    <2>1. \A d \in arts' \ arts : d \in Digests /\ d = a
      BY <1>0, <1>2, ZenonT(60)
    <2> QED BY <1>12, <2>1, Zenon
  <1> QED BY <1>2, <1>3, <1>4, <1>9, <1>10, <1>11, <1>13, <1>14, PushStep, Zenon

-----------------------------------------------------------------------------
(* Deletions and the collector.                                            *)

\* A deletion keeps the invariant.
LEMMA DeleteStep ==
    ASSUME BlobInv, NEW x \in Deleters, DeleteFind(x) \/ DeleteCommit(x)
    PROVE  BlobInv'
  <1>0. /\ Types /\ RowsOK /\ Collector /\ TypeOK /\ del \in [Deleters -> DelType] /\ ArtifactsLinked
        /\ \A y \in Deleters : del[y].pc = "found" => del[y].art \in Arts
        /\ arts \subseteq Arts /\ trash \subseteq Arts
    BY Zenon DEF BlobInv, Types, TypeOK
  <1>1. /\ blob' = blob /\ made' = made /\ refs' = refs /\ storage' = storage /\ push' = push /\ gc' = gc
        /\ runs' = runs /\ crashes' = crashes /\ faults' = faults
    BY Zenon DEF DeleteFind, DeleteCommit, tables, bounds
  <1>2. /\ del' \in [Deleters -> DelType] /\ \A y \in Deleters : del'[y].pc = "found" => del'[y].art \in Arts
        /\ assoc' \subseteq assoc /\ arts' \subseteq arts /\ trash' \subseteq Arts
    <2>1. CASE DeleteFind(x)
      <3>1. PICK a \in arts : del' = [del EXCEPT ![x] = [pc |-> "found", art |-> a,
                        found |-> IF a \in refs THEN Unneeded(BlobsOf(a), arts \ {a}) ELSE {}]]
        BY <2>1, Zenon DEF DeleteFind
      <3>2. Unneeded(BlobsOf(a), arts \ {a}) \in SUBSET (Digests \X Nat)
        <4>1. BlobsOf(a) \subseteq Digests
          BY <1>0, ConstantsAssumption, Zenon DEF BlobsOf, Digests
        <4>2. \A d \in Digests : blob[d].id \in Nat
          BY <1>0, Zenon DEF TypeOK, Row
        <4> QED BY <4>1, <4>2 DEF Unneeded
      <3>3. (IF a \in refs THEN Unneeded(BlobsOf(a), arts \ {a}) ELSE {}) \in SUBSET (Digests \X Nat)
        BY <3>2, Zenon
      <3>4. \A X \in SUBSET (Digests \X Nat) : [pc |-> "found", art |-> a, found |-> X] \in DelType
        BY <1>0, Zenon DEF DelType
      <3>5. [pc |-> "found", art |-> a, found |-> IF a \in refs THEN Unneeded(BlobsOf(a), arts \ {a}) ELSE {}] \in DelType
        BY <3>3, <3>4, Zenon
      <3>6. del' \in [Deleters -> DelType] /\ \A y \in Deleters : del'[y].pc = "found" => del'[y].art \in Arts
        BY <1>0, <3>1, <3>5, Zenon
      <3> QED BY <1>0, <2>1, <3>6, Zenon DEF DeleteFind, tables
    <2>2. CASE DeleteCommit(x)
      <3>1. [pc |-> "done", art |-> "none", found |-> {}] \in DelType
        BY Zenon DEF DelType
      <3> QED BY <1>0, <2>2, <3>1, Zenon DEF DeleteCommit
    <2> QED BY <2>1, <2>2, Zenon
  <1>3. push \in [Pushers -> PushType] /\ gc \in GcType /\ (gc.pc = "find" => gc.list \subseteq Digests)
        /\ refs \subseteq Arts /\ storage \subseteq Digests
        /\ runs \in 0..MaxRuns /\ crashes \in 0..MaxCrashes /\ faults \in 0..MaxFaults
    BY <1>0, Zenon DEF Types, TypeOK
  <1>4. Types' /\ RowsOK' /\ RowsMove
    BY <1>0, <1>1, <1>2, <1>3, SameRows, Zenon
  <1>5. ArtifactsLinked'
    BY <1>0, <1>1, <1>2, Zenon DEF ArtifactsLinked
  <1>6. ClaimsLess /\ Removing' = Removing
    BY <1>1, Zenon DEF ClaimsLess, Listed, Removing
  <1> QED BY <1>0, <1>1, <1>2, <1>4, <1>5, <1>6, QuietCollect DEF Collector

\* The run begins, lists and cleans, and ends.
LEMMA RunStep ==
    ASSUME BlobInv, GcStart \/ GcList \/ GcFind \/ GcClean \/ GcMarked \/ GcEnd \/ GcCrash
    PROVE  BlobInv'
  <1>0. /\ Types /\ TypeOK /\ RowsOK /\ Collector /\ Reborn /\ ArtifactsLinked /\ gc \in GcType
        /\ gc.trashed \subseteq Arts /\ Arts \subseteq Digests /\ arts \subseteq Arts /\ refs \subseteq Arts
        /\ trash \subseteq Arts /\ storage \subseteq Digests
        /\ runs \in 0..MaxRuns /\ crashes \in 0..MaxCrashes /\ faults \in 0..MaxFaults
        /\ gc.todo \subseteq Pair /\ gc.set \subseteq Pair
        /\ MaxRuns \in Nat /\ MaxCrashes \in Nat
    BY GcFacts, ConstantsAssumption, Zenon
  <1>1. /\ push' = push /\ blob' = blob /\ made' = made /\ del' = del /\ assoc' \subseteq assoc
        /\ refs' = refs /\ arts' = arts /\ trash' = trash /\ storage' = storage
        /\ runs' \in 0..MaxRuns /\ crashes' \in 0..MaxCrashes /\ faults' \in 0..MaxFaults
    <2>1. CASE GcStart
      BY <1>0, <2>1 DEF GcStart, tables
    <2>2. CASE GcList \/ GcFind \/ GcClean \/ GcMarked \/ GcEnd
      BY <1>0, <2>2, Zenon DEF GcList, GcFind, GcClean, GcMarked, GcEnd, tables, bounds
    <2>3. CASE GcCrash
      BY <1>0, <2>3 DEF GcCrash, tables
    <2> QED BY <2>1, <2>2, <2>3, Zenon
  <1>2. CASE GcStart
    <2>1. gc' = [IdleGc EXCEPT !.pc = "list", !.trashed = trash \ arts] /\ trash \ arts \in SUBSET Arts
      BY <1>0, <1>2, Zenon DEF GcStart
    <2>2. \A X \in SUBSET Arts : [IdleGc EXCEPT !.pc = "list", !.trashed = X] \in GcType
      BY IdleType, Zenon DEF GcType
    <2>3. gc' \in GcType /\ gc'.pc = "list" /\ gc'.trashed = trash \ arts /\ gc'.todo = {} /\ gc'.set = {}
      BY <2>1, <2>2, Zenon DEF IdleGc
    <2>4. Types' /\ RowsOK' /\ RowsMove
      BY <1>0, <1>1, <2>3, StillCollect, Zenon
    <2>5. Reborn'
      BY <1>1, <2>3, Zenon DEF Reborn
    <2>6. Collector' /\ ~Removing' /\ Listed' = {}
      BY <2>3, Zenon DEF Collector, Removing, Listed
    <2>7. \A d \in Digests : Kept(d) => Kept(d)'
      BY <1>1, <2>6, Zenon DEF Kept, Unclaimed, Stale
    <2>8. ArtifactsLinked'
      BY <1>0, <1>1, Zenon DEF ArtifactsLinked
    <2> QED BY <1>1, <2>4, <2>5, <2>6, <2>7, <2>8, CollectStep, Zenon
  <1>3. CASE GcList \/ GcFind \/ GcClean
    <2>1. /\ gc' \in GcType /\ gc'.todo = gc.todo /\ gc'.set = gc.set /\ gc'.trashed = gc.trashed
          /\ gc'.pc \in {"find", "clean", "useless"} /\ gc.pc \in {"list", "find", "clean"}
          /\ gc'.pc = "find" => gc'.list \subseteq Digests
      <3> DEFINE L == SUBSET (Digests \union (Digests \X Nat))
      <3>1. CASE GcList
        <4> DEFINE X == {d \in Digests : blob[d].old /\ <<d, blob[d].id>> \in assoc}
        <4>1. X \in L /\ X \subseteq Digests /\ gc' = [gc EXCEPT !.pc = "find", !.list = X] /\ gc.pc = "list"
          BY <3>1, Zenon DEF GcList
        <4>2. \A Y \in L : [gc EXCEPT !.pc = "find", !.list = Y] \in GcType
          BY <1>0, Zenon DEF GcType
        <4> HIDE DEF X, L
        <4>3. gc' \in GcType
          BY <4>1, <4>2, Zenon
        <4>4. gc'.list = X /\ gc'.pc = "find" /\ gc'.todo = gc.todo /\ gc'.set = gc.set /\ gc'.trashed = gc.trashed
          BY <1>0, <4>1, Zenon DEF GcType
        <4> QED BY <4>1, <4>3, <4>4, Zenon
      <3>2. CASE GcFind
        <4> DEFINE X == Unneeded(gc.list, arts)
        <4>1. X \in L
          <5>1. gc.list \subseteq Digests /\ \A d \in Digests : blob[d].id \in Nat
            BY <1>0, <3>2, Zenon DEF GcFind, Types, TypeOK, Row
          <5> QED BY <5>1 DEF Unneeded
        <4>2. \A Y \in L : [gc EXCEPT !.pc = "clean", !.list = Y] \in GcType
          BY <1>0, Zenon DEF GcType
        <4>3. gc' = [gc EXCEPT !.pc = "clean", !.list = X] /\ gc.pc = "find"
          BY <1>0, <3>2, Zenon DEF GcFind, GcType
        <4> HIDE DEF X, L
        <4>4. gc' \in GcType
          BY <4>1, <4>2, <4>3, Zenon
        <4>5. gc'.pc = "clean" /\ gc'.todo = gc.todo /\ gc'.set = gc.set /\ gc'.trashed = gc.trashed
          BY <1>0, <4>3, Zenon DEF GcType
        <4> QED BY <4>3, <4>4, <4>5, Zenon
      <3>3. CASE GcClean
        BY <1>0, <3>3, Zenon DEF GcClean, GcType
      <3> QED BY <1>3, <3>1, <3>2, <3>3, Zenon
    <2>2. Types' /\ RowsOK' /\ RowsMove
      BY <1>0, <1>1, <2>1, StillCollect, Zenon
    <2>3. ~Removing' /\ ~Removing /\ ClaimsLess
      BY <2>1, Zenon DEF Removing, ClaimsLess, Listed
    <2>4. ArtifactsLinked'
      BY <1>0, <1>1 DEF ArtifactsLinked
    <2>5. gc'.todo = {} /\ gc'.set = {}
      BY <1>0, <2>1, <2>3, Zenon DEF Collector
    <2> QED BY <1>1, <2>1, <2>2, <2>3, <2>4, <2>5, QuietCollect
  <1>4. CASE GcMarked
    <2>1. /\ gc' \in GcType /\ gc'.todo = gc.set /\ gc'.set = {} /\ gc'.trashed = gc.trashed
          /\ gc'.pc = "sweep" /\ gc.pc = "mark"
      <3>1. gc' = [gc EXCEPT !.pc = "sweep", !.todo = gc.set, !.set = {}] /\ gc.pc = "mark"
        BY <1>4, Zenon DEF GcMarked
      <3>2. \A Y \in SUBSET Pair : [gc EXCEPT !.pc = "sweep", !.todo = Y, !.set = {}] \in GcType
        BY <1>0, Zenon DEF GcType
      <3>3. gc' \in GcType
        BY <1>0, <3>1, <3>2, Zenon
      <3> QED BY <1>0, <3>1, <3>3 DEF GcType
    <2>2. Types' /\ RowsOK' /\ RowsMove
      BY <1>0, <1>1, <2>1, StillCollect, Zenon
    <2>3. ~Removing' /\ ~Removing /\ ClaimsLess
      BY <2>1, Zenon DEF Removing, ClaimsLess, Listed
    <2>4. ArtifactsLinked'
      BY <1>0, <1>1 DEF ArtifactsLinked
    <2> QED BY <1>1, <2>1, <2>2, <2>3, <2>4, QuietCollect, Zenon
  <1>5. CASE GcEnd \/ GcCrash
    <2>1. gc' = IdleGc /\ gc' \in GcType
      BY <1>5, IdleType, Zenon DEF GcEnd, GcCrash
    <2>2. gc'.todo = {} /\ gc'.set = {} /\ gc'.trashed = {} /\ gc'.pc = "idle"
      BY <2>1, Zenon DEF IdleGc
    <2>3. Types' /\ RowsOK' /\ RowsMove
      BY <1>0, <1>1, <2>1, <2>2, StillCollect, Zenon
    <2>4. ~Removing' /\ ClaimsLess
      BY <2>2, ZenonT(60) DEF Removing, ClaimsLess, Listed
    <2>5. ArtifactsLinked'
      BY <1>0, <1>1 DEF ArtifactsLinked
    <2> QED BY <1>1, <2>2, <2>3, <2>4, <2>5, QuietCollect, Zenon
  <1> QED BY <1>2, <1>3, <1>4, <1>5, Zenon

\* The collector removes a blob: what it takes from the storage, and the
\* records it forgets, are those of a row no request can have touched.
LEMMA RemoveStep ==
    ASSUME BlobInv, GcManifest \/ GcBlob \/ GcForget \/ GcUntrash
    PROVE  BlobInv'
  <1>0. /\ Types /\ TypeOK /\ RowsOK /\ Collector /\ Reborn /\ ArtifactsLinked /\ gc \in GcType
        /\ refs \subseteq Arts /\ trash \subseteq Arts /\ storage \subseteq Digests
        /\ runs \in 0..MaxRuns /\ crashes \in 0..MaxCrashes /\ faults \in 0..MaxFaults
        /\ MaxFaults \in Nat
    BY GcFacts, ConstantsAssumption, Zenon
  <1>1. Removing /\ gc.d \in Digests /\ Free(gc.d) /\ ~Kept(gc.d) /\ ~Unclaimed(gc.d)
    <2>1. Removing
      BY Zenon DEF GcManifest, GcBlob, GcForget, GcUntrash, Erase, Removing
    <2> QED BY <1>0, <2>1, Zenon DEF Collector, Kept, Unclaimed
  <1>2. /\ push' = push /\ blob' = blob /\ made' = made /\ del' = del /\ assoc' = assoc
        /\ arts' = arts /\ runs' = runs /\ crashes' = crashes
    BY Zenon DEF GcManifest, GcBlob, GcForget, GcUntrash, Erase, tables, bounds
  <1>3. /\ \/ gc.pc = "manifest" /\ gc' \in {[gc EXCEPT !.pc = "forget"], [gc EXCEPT !.pc = "markfailed"]}
           \/ gc.pc = "blob" /\ gc' \in {[gc EXCEPT !.pc = "row"], [gc EXCEPT !.pc = "markfailed"]}
           \/ gc.pc = "forget" /\ gc' = [gc EXCEPT !.pc = "untrash"]
           \/ gc.pc = "untrash" /\ gc' = [gc EXCEPT !.pc = "blob"]
    BY Zenon DEF GcManifest, GcBlob, GcForget, GcUntrash, Erase
  <1>4. /\ gc' \in GcType /\ gc'.todo = gc.todo /\ gc'.set = gc.set /\ gc'.trashed = gc.trashed
        /\ gc'.d = gc.d /\ gc'.row = gc.row
        /\ gc'.pc \in {"forget", "row", "untrash", "blob", "markfailed"}
        /\ gc'.pc \in {"forget", "untrash"} => gc.pc \in {"manifest", "forget"}
    BY <1>0, <1>3 DEF GcType
  <1>5. storage' \subseteq storage /\ (\A d \in storage \ storage' : d = gc.d)
    BY Zenon DEF GcManifest, GcBlob, GcForget, GcUntrash, Erase
  <1>6. faults' \in 0..MaxFaults
    BY <1>0 DEF GcManifest, GcBlob, GcForget, GcUntrash, Erase, bounds
  <1>7. trash' \subseteq Arts /\ refs' \subseteq Arts /\ (\A a \in refs : a \in refs' \/ (a = gc.d /\ gc.pc = "forget"))
    BY <1>0, Zenon DEF GcManifest, GcBlob, GcForget, GcUntrash, Erase, tables
  <1>8. gc.pc = "forget" => gc.d \notin arts
    BY <1>0, <1>1, Zenon DEF Collector, Reborn
  <1>9. ArtifactsLinked'
    BY <1>0, <1>2, <1>7, <1>8, Zenon DEF ArtifactsLinked
  <1>10. Types' /\ RowsOK' /\ RowsMove
    BY <1>0, <1>1, <1>2, <1>4, <1>5, <1>6, <1>7, StillCollect, ZenonT(60)
  <1>11. ClaimsLess /\ Removing'
    BY <1>1, <1>4, Zenon DEF ClaimsLess, Listed, Removing
  <1>12. gc'.pc # "mark" /\ gc'.set = {}
    BY <1>0, <1>1, <1>4, Zenon DEF Collector, Removing
  <1>13. gc'.pc \in {"manifest", "forget", "untrash"} => gc'.d \in gc'.trashed
    BY <1>0, <1>4, Zenon DEF Collector
  <1> QED BY <1>1, <1>2, <1>4, <1>5, <1>9, <1>10, <1>11, <1>12, <1>13, QuietCollect

\* The collector lists the old blobs of no project: nothing that a request has
\* touched, or that was pushed again, is old.
LEMMA UselessStep ==
    ASSUME BlobInv, GcUseless
    PROVE  BlobInv'
  <1> DEFINE X == {<<d, blob[d]>> : d \in {e \in Digests : blob[e].old /\ <<e, blob[e].id>> \notin assoc}}
  <1>0. /\ Types /\ TypeOK /\ RowsOK /\ Collector /\ Reborn /\ ArtifactsLinked /\ gc \in GcType
        /\ gc.trashed \subseteq Arts /\ Arts \subseteq Digests /\ arts \subseteq Arts /\ refs \subseteq Arts
        /\ trash \subseteq Arts /\ storage \subseteq Digests
        /\ runs \in 0..MaxRuns /\ crashes \in 0..MaxCrashes /\ faults \in 0..MaxFaults
    BY GcFacts, Zenon
  <1>1. /\ push' = push /\ blob' = blob /\ made' = made /\ del' = del /\ assoc' = assoc /\ refs' = refs
        /\ arts' = arts /\ trash' = trash /\ storage' = storage
        /\ runs' = runs /\ crashes' = crashes /\ faults' = faults
        /\ gc.pc = "useless" /\ gc' = [gc EXCEPT !.pc = "mark", !.todo = X]
    BY Zenon DEF GcUseless, tables, bounds
  <1>2. X \in SUBSET Pair /\ \A c \in X : c[1] \in Digests /\ c[2] = blob[c[1]] /\ blob[c[1]].old
    <2>1. \A d \in Digests : <<d, blob[d]>> \in Pair
      BY <1>0, Zenon DEF TypeOK, Pair
    <2>2. X \subseteq Pair
      BY <2>1, Zenon
    <2>3. ASSUME NEW c \in X PROVE c[1] \in Digests /\ c[2] = blob[c[1]] /\ blob[c[1]].old
      <3>1. PICK d \in Digests : blob[d].old /\ c = <<d, blob[d]>>
        BY Zenon
      <3> QED BY <3>1, Zenon
    <2> QED BY <2>2, <2>3, Zenon
  <1> HIDE DEF X
  <1>3. \A Y \in SUBSET Pair : [gc EXCEPT !.pc = "mark", !.todo = Y] \in GcType
    BY <1>0, Zenon DEF GcType
  <1>4. gc' \in GcType /\ gc'.pc = "mark" /\ gc'.todo = X /\ gc'.set = gc.set /\ gc'.trashed = gc.trashed
    <2>1. gc' \in GcType
      BY <1>1, <1>2, <1>3, Zenon
    <2> QED BY <1>0, <1>1, <2>1 DEF GcType
  <1>5. gc.set = {} /\ Listed' = X /\ ~Removing'
    BY <1>0, <1>1, <1>4, Zenon DEF Collector, Listed, Removing
  <1>6. Types' /\ RowsOK' /\ RowsMove
    BY <1>0, <1>1, <1>4, StillCollect, Zenon
  <1>7. ASSUME NEW d \in Digests, ~blob[d].old PROVE Unclaimed(d)' /\ Kept(d)'
    BY <1>1, <1>2, <1>5, <1>7, Zenon DEF Unclaimed, Kept, Stale
  <1>8. Reborn'
    <2> SUFFICES ASSUME NEW d \in gc.trashed \intersect arts PROVE Unclaimed(d)'
      BY <1>1, <1>4, Zenon DEF Reborn
    <2>1. d \in Digests /\ ~blob[d].old
      BY <1>0, <1>1, Zenon DEF Reborn
    <2> QED BY <2>1, <1>7, Zenon
  <1>9. \A d \in Digests : Kept(d) => Kept(d)'
    BY <1>7, Zenon DEF Kept
  <1>10. ASSUME NEW c \in X PROVE Behind(c[1], c[2])'
    <2>1. c[1] \in Digests /\ c[2] = blob[c[1]] /\ blob[c[1]].old
      BY <1>2, Zenon
    <2>2. ASSUME NEW d \in Digests, blob[d].old PROVE blob[d].id \in 1..made[d] /\ blob[d].ver <= blob[d].ver
      <3>1. blob[d] # NoBlob /\ blob[d] \in Row /\ made[d] \in Nat /\ blob[d].ver \in Nat
        BY <1>0, <2>2 DEF TypeOK, NoBlob, Row
      <3>2. blob[d].id = made[d] /\ blob[d].id >= 1
        BY <1>0, <3>1, Zenon DEF TypeOK, RowsOK
      <3> QED BY <3>1, <3>2
    <2> QED BY <1>1, <2>1, <2>2, Zenon DEF Behind
  <1>11. Collector'
    BY <1>4, <1>5, <1>10, Zenon DEF Collector, Removing
  <1>12. ArtifactsLinked'
    BY <1>0, <1>1, Zenon DEF ArtifactsLinked
  <1> QED BY <1>1, <1>6, <1>8, <1>9, <1>11, <1>12, CollectStep, Zenon

\* The collector marks a blob or takes it: its row is still the one that was
\* listed, so that no request has touched it and it was not pushed again.
LEMMA TakeRow ==
    ASSUME BlobInv, Types', RowsMove, NEW c \in gc.todo, NEW st \in {"delete", "deleting"},
           UpdateBlobStatus(c[1], c[2], st), Accepts(blob[c[1]], c[2], st), made' = made, arts' = arts,
           ~Removing, gc'.trashed = gc.trashed, gc'.pc \notin {"list", "find", "clean", "useless"},
           Listed' \subseteq Listed \union {<<c[1], blob'[c[1]]>>}, Removing' => gc'.d = c[1]
    PROVE  /\ \A d \in Digests : Kept(d) => Kept(d)'
           /\ Reborn'
           /\ \A k \in Listed' : Behind(k[1], k[2])'
           /\ ~(c[1] \in gc.trashed /\ c[1] \in arts)
  <1>0. /\ Types /\ TypeOK /\ RowsOK /\ Collector /\ Reborn /\ gc.trashed \subseteq Arts /\ Arts \subseteq Digests
        /\ c \in Pair /\ c[1] \in Digests /\ c[2] \in Row /\ gc.todo \subseteq Pair /\ gc.set \subseteq Pair
    BY GcFacts, Zenon DEF Pair
  <1>1. ~Stale(c[1])
    BY ZenonT(60) DEF Accepts, Stale, Same, Listed
  <1>2. /\ blob'[c[1]].id = made[c[1]] /\ made[c[1]] >= 1
        /\ \A e \in Digests : e # c[1] => blob'[e] = blob[e]
    <2>1. st \in Statuses
      BY Zenon DEF Statuses
    <2> QED BY <1>0, <2>1, StatusStep
  <1>3. ASSUME NEW d \in Digests, d # c[1], Unclaimed(d) PROVE Unclaimed(d)'
    <2>1. \A k \in Listed' : k[1] = d => k \in Listed
      BY <1>3
    <2>2. blob'[d] = blob[d]
      BY <1>2, <1>3, Zenon
    <2> QED BY <1>3, <2>1, <2>2, ZenonT(60) DEF Unclaimed, Stale
  <1>4. ASSUME NEW d \in Digests, Kept(d) PROVE Kept(d)'
    BY <1>1, <1>2, <1>3, <1>4, Zenon DEF Kept, Unclaimed
  <1>5. Reborn'
    <2> SUFFICES ASSUME NEW d \in gc.trashed \intersect arts PROVE Unclaimed(d)'
      BY Zenon DEF Reborn
    <2>1. d \in Digests /\ Unclaimed(d) /\ d # c[1]
      BY <1>0, <1>1, Zenon DEF Reborn, Unclaimed
    <2> QED BY <1>3, <2>1, Zenon
  <1>6. ASSUME NEW k \in Listed' PROVE Behind(k[1], k[2])'
    <2>1. CASE k \in Listed
      <3>1. k[1] \in Digests /\ k[2] \in Row /\ Behind(k[1], k[2])
        BY <1>0, <2>1, ZenonT(60) DEF Collector, Listed, Pair
      <3> QED BY <1>0, <3>1, BehindStays, Zenon
    <2>2. CASE k = <<c[1], blob'[c[1]]>>
      <3>1. k[1] = c[1] /\ k[2] = blob'[c[1]] /\ made[c[1]] \in Nat /\ blob'[c[1]].ver \in Nat
        BY <1>0, <2>2, ZenonT(60) DEF Types, TypeOK, Row
      <3>2. blob'[k[1]] = k[2] /\ k[2].id = made'[k[1]] /\ made'[k[1]] \in Nat /\ made'[k[1]] >= 1
            /\ k[2].ver <= k[2].ver
        BY <1>2, <3>1
      <3> QED BY <3>2 DEF Behind
    <2> QED BY <1>6, <2>1, <2>2, Zenon
  <1> QED BY <1>0, <1>1, <1>4, <1>5, <1>6, Zenon DEF Reborn, Unclaimed

\* The collector marks what it listed.
LEMMA MarkStep ==
    ASSUME BlobInv, GcMark
    PROVE  BlobInv'
  <1>0. /\ Types /\ TypeOK /\ RowsOK /\ Collector /\ gc \in GcType /\ gc.pc = "mark"
        /\ gc.todo \subseteq Pair /\ gc.set \subseteq Pair /\ blob \in [Digests -> Row]
    BY GcFacts, Zenon DEF GcMark, TypeOK
  <1>1. PICK c \in gc.todo :
          /\ UpdateBlobStatus(c[1], c[2], "delete")
          /\ gc' = [gc EXCEPT !.todo = gc.todo \ {c},
                              !.set = IF Accepts(blob[c[1]], c[2], "delete")
                                      THEN gc.set \union {<<c[1], Updated(blob[c[1]], "delete")>>} ELSE gc.set]
    BY <1>0, Zenon DEF GcMark, GcType
  <1>2. c \in Pair /\ c[1] \in Digests /\ c[2] \in Row /\ blob[c[1]] \in Row /\ "delete" \in Statuses
    BY <1>0, Zenon DEF Pair, Statuses
  <1>3. \A Y \in SUBSET Pair, Z \in SUBSET Pair : [gc EXCEPT !.todo = Y, !.set = Z] \in GcType
    BY <1>0, Zenon DEF GcType
  <1>4. <<c[1], Updated(blob[c[1]], "delete")>> \in Pair
    BY <1>2, RowTypes, Zenon DEF Pair
  <1>5. gc.todo \ {c} \in SUBSET Pair
    BY <1>0, Zenon
  <1>6. /\ push' = push /\ made' = made /\ arts' = arts /\ storage' = storage
        /\ UNCHANGED <<made, assoc, refs, arts, trash, storage, push, del, bounds>>
    BY Zenon DEF GcMark
  <1>7. CASE Accepts(blob[c[1]], c[2], "delete")
    <2> DEFINE Z == gc.set \union {<<c[1], Updated(blob[c[1]], "delete")>>}
    <2>1. Z \in SUBSET Pair /\ gc' = [gc EXCEPT !.todo = gc.todo \ {c}, !.set = Z]
      BY <1>0, <1>1, <1>4, <1>7, Zenon
    <2>2. gc' \in GcType
      BY <1>3, <1>5, <2>1, Zenon
    <2>3. gc'.pc = "mark" /\ gc'.trashed = gc.trashed /\ gc'.todo = gc.todo \ {c} /\ gc'.set = Z
      BY <1>0, <2>1, Zenon DEF GcType
    <2>4. /\ Types' /\ RowsOK' /\ RowsMove /\ ArtifactsLinked'
          /\ \A e \in Digests : blob'[e] # blob[e] => Free(e)
      BY <1>1, <1>2, <1>6, <2>2, <2>3, StatusCollect, ZenonT(60)
    <2>5. blob'[c[1]] = Updated(blob[c[1]], "delete")
      BY <1>0, <1>1, <1>2, <1>6, <1>7, StatusStep
    <2>6. ~Removing /\ ~Removing' /\ Listed' \subseteq Listed \union {<<c[1], blob'[c[1]]>>}
      BY <1>0, <2>3, <2>5, Zenon DEF Removing, Listed
    <2>7. /\ \A d \in Digests : Kept(d) => Kept(d)'
          /\ Reborn' /\ \A k \in Listed' : Behind(k[1], k[2])'
      BY <1>1, <1>6, <1>7, <2>3, <2>4, <2>6, TakeRow, ZenonT(60)
    <2>8. Collector'
      BY <2>3, <2>6, <2>7, Zenon DEF Collector
    <2> QED BY <1>6, <2>4, <2>7, <2>8, CollectStep, Zenon
  <1>8. CASE ~Accepts(blob[c[1]], c[2], "delete")
    <2>1. gc' = [gc EXCEPT !.todo = gc.todo \ {c}, !.set = gc.set]
      BY <1>1, <1>8, Zenon
    <2>2. gc' \in GcType
      BY <1>0, <1>3, <1>5, <2>1, Zenon
    <2>3. gc'.pc = "mark" /\ gc'.trashed = gc.trashed /\ gc'.todo = gc.todo \ {c} /\ gc'.set = gc.set
      BY <1>0, <2>1, Zenon DEF GcType
    <2>4. /\ Types' /\ RowsOK' /\ RowsMove /\ ArtifactsLinked'
          /\ \A e \in Digests : blob'[e] # blob[e] => Free(e)
      BY <1>1, <1>2, <1>6, <2>2, <2>3, StatusCollect
    <2>5. ~Removing' /\ ClaimsLess
      BY <2>3, Zenon DEF Removing, ClaimsLess, Listed
    <2> QED BY <1>6, <2>3, <2>4, <2>5, QuietCollect, Zenon
  <1> QED BY <1>7, <1>8, Zenon

\* The collector takes a blob it has marked.
LEMMA SweepStep ==
    ASSUME BlobInv, GcSweep
    PROVE  BlobInv'
  <1>0. /\ Types /\ TypeOK /\ RowsOK /\ Collector /\ gc \in GcType /\ gc.pc = "sweep" /\ gc.set = {}
        /\ gc.todo \subseteq Pair /\ blob \in [Digests -> Row]
    BY GcFacts, Zenon DEF GcSweep, TypeOK, Collector
  <1>1. PICK c \in gc.todo :
          /\ UpdateBlobStatus(c[1], c[2], "deleting")
          /\ gc' = IF Accepts(blob[c[1]], c[2], "deleting")
                   THEN [gc EXCEPT !.todo = gc.todo \ {c}, !.d = c[1],
                                   !.row = Updated(blob[c[1]], "deleting"),
                                   !.pc = IF c[1] \in gc.trashed THEN "manifest" ELSE "blob"]
                   ELSE [gc EXCEPT !.todo = gc.todo \ {c}]
    BY <1>0, Zenon DEF GcSweep, GcType
  <1>2. c \in Pair /\ c[1] \in Digests /\ c[2] \in Row /\ blob[c[1]] \in Row /\ "deleting" \in Statuses
    BY <1>0, Zenon DEF Pair, Statuses
  <1>3. gc.todo \ {c} \in SUBSET Pair
    BY <1>0, Zenon
  <1>4. /\ push' = push /\ made' = made /\ arts' = arts /\ storage' = storage
        /\ UNCHANGED <<made, assoc, refs, arts, trash, storage, push, del, bounds>>
    BY ZenonT(60) DEF GcSweep
  <1>5. CASE Accepts(blob[c[1]], c[2], "deleting")
    <2> DEFINE u == Updated(blob[c[1]], "deleting")
               n == IF c[1] \in gc.trashed THEN "manifest" ELSE "blob"
    <2>1. u \in Row /\ u.st = "deleting" /\ ~u.old
      BY <1>2, RowTypes, Zenon
    <2>2. n \in {"manifest", "blob"} /\ (n = "manifest" => c[1] \in gc.trashed)
      BY Zenon
    <2>3. gc' = [gc EXCEPT !.todo = gc.todo \ {c}, !.d = c[1], !.row = u, !.pc = n]
      BY <1>1, <1>5, Zenon
    <2>4. \A Y \in SUBSET Pair, e \in Digests, r \in Row, m \in {"manifest", "blob"} :
             [gc EXCEPT !.todo = Y, !.d = e, !.row = r, !.pc = m] \in GcType
      BY <1>0, ZenonT(60) DEF GcType
    <2>5. blob'[c[1]] = u
      BY <1>0, <1>1, <1>2, <1>4, <1>5, StatusStep
    <2> HIDE DEF u, n
    <2>6. gc' \in GcType
      BY <1>2, <1>3, <2>1, <2>2, <2>3, <2>4, Zenon
    <2>7. /\ gc'.todo = gc.todo \ {c} /\ gc'.d = c[1] /\ gc'.row = u /\ gc'.pc = n
          /\ gc'.trashed = gc.trashed /\ gc'.set = {}
      BY <1>0, <2>3, Zenon DEF GcType
    <2>8. /\ Types' /\ RowsOK' /\ RowsMove /\ ArtifactsLinked'
          /\ \A e \in Digests : blob'[e] # blob[e] => Free(e)
      BY <1>1, <1>2, <1>4, <2>2, <2>6, <2>7, StatusCollect, Zenon
    <2>9. ~Removing /\ Removing' /\ Listed' \subseteq Listed
      BY <1>0, <2>2, <2>7, Zenon DEF Removing, Listed
    <2>10. /\ \A d \in Digests : Kept(d) => Kept(d)'
           /\ Reborn' /\ \A k \in Listed' : Behind(k[1], k[2])'
      BY <1>1, <1>4, <1>5, <2>2, <2>7, <2>8, <2>9, TakeRow
    <2>11. Free(c[1]) /\ (\A e : Free(e)' <=> Free(e))
      BY <1>1, <1>4, Zenon DEF UpdateBlobStatus, Free
    <2>12. Free(gc.d)'
      BY <1>4, <2>7, <2>11, Zenon DEF Free
    <2>13. blob'[gc'.d] = gc'.row /\ gc'.row.st = "deleting" /\ ~gc'.row.old /\ gc'.d \in Digests
      BY <1>2, <2>1, <2>5, <2>7, ZenonT(60)
    <2>14. Collector'
      BY <2>2, <2>7, <2>9, <2>10, <2>12, <2>13 DEF Collector
    <2> QED BY <1>4, <2>8, <2>10, <2>14, CollectStep, Zenon
  <1>6. CASE ~Accepts(blob[c[1]], c[2], "deleting")
    <2>1. gc' = [gc EXCEPT !.todo = gc.todo \ {c}]
      BY <1>1, <1>6, Zenon
    <2>2. \A Y \in SUBSET Pair : [gc EXCEPT !.todo = Y] \in GcType
      BY <1>0, Zenon DEF GcType
    <2>3. gc' \in GcType
      BY <1>3, <2>1, <2>2, Zenon
    <2>4. gc'.pc = "sweep" /\ gc'.trashed = gc.trashed /\ gc'.todo = gc.todo \ {c} /\ gc'.set = {}
      BY <1>0, <2>1, Zenon DEF GcType
    <2>5. /\ Types' /\ RowsOK' /\ RowsMove /\ ArtifactsLinked'
          /\ \A e \in Digests : blob'[e] # blob[e] => Free(e)
      BY <1>1, <1>2, <1>4, <2>3, <2>4, StatusCollect, Zenon
    <2>6. ~Removing' /\ ClaimsLess
      BY <2>4, Zenon DEF Removing, ClaimsLess, Listed
    <2> QED BY <1>4, <2>4, <2>5, <2>6, QuietCollect, Zenon
  <1> QED BY <1>5, <1>6, Zenon

\* The end of a removal: the row is deleted, or its status says that the blob
\* could not be.
LEMMA RemovedStep ==
    ASSUME BlobInv, GcMarkFailed \/ GcDeleteRow
    PROVE  BlobInv'
  <1>0. /\ Types /\ TypeOK /\ RowsOK /\ Collector /\ ArtifactsLinked /\ gc \in GcType
        /\ blob \in [Digests -> Row] /\ made \in [Digests -> Nat]
        /\ gc.pc \in {"markfailed", "row"} /\ gc.d \in Digests
    BY GcFacts, Zenon DEF GcMarkFailed, GcDeleteRow, TypeOK, Collector, Removing
  <1>1. /\ push' = push /\ made' = made /\ arts' = arts /\ storage' = storage
        /\ UNCHANGED <<made, assoc, refs, arts, trash, storage, push, del, bounds>>
        /\ gc' = [gc EXCEPT !.pc = "sweep", !.d = "none", !.row = NoBlob]
    BY Zenon DEF GcMarkFailed, GcDeleteRow
  <1>2. gc' \in GcType
    BY <1>0, <1>1, RowTypes, Zenon DEF GcType
  <1>3. gc'.pc = "sweep" /\ gc'.todo = gc.todo /\ gc'.set = gc.set /\ gc'.trashed = gc.trashed /\ gc.set = {}
    BY <1>0, <1>1, Zenon DEF GcType, Collector
  <1>4. ~Removing' /\ ClaimsLess
    BY <1>3, Zenon DEF Removing, ClaimsLess, Listed
  <1>5. /\ Types' /\ RowsOK' /\ RowsMove /\ ArtifactsLinked'
        /\ \A e \in Digests : blob'[e] # blob[e] => Free(e)
    <2>1. CASE GcMarkFailed
      <3>1. UpdateBlobStatus(gc.d, gc.row, "deletefailed") /\ "deletefailed" \in Statuses
        BY <2>1, Zenon DEF GcMarkFailed, Statuses
      <3> QED BY <1>0, <1>1, <1>2, <1>3, <3>1, StatusCollect, Zenon
    <2>2. CASE GcDeleteRow
      <3>1. Free(gc.d) /\ blob' \in {[blob EXCEPT ![gc.d] = NoBlob], blob}
        BY <2>2, Zenon DEF GcDeleteRow
      <3>2. \A e \in Digests : blob'[e] = blob[e] \/ (blob'[e] = NoBlob /\ e = gc.d)
        BY <1>0, <3>1, Zenon
      <3>3. blob' \in [Digests -> Row]
        BY <1>0, <3>1, RowTypes, Zenon
      <3>4. TypeOK'
        BY <1>0, <1>1, <3>2, <3>3, Zenon DEF TypeOK, bounds
      <3>5. Types'
        BY <1>0, <1>1, <1>2, <1>3, <3>4, Zenon DEF Types
      <3>6. RowsOK' /\ RowsMove
        BY <1>0, <1>1, <3>2 DEF RowsOK, RowsMove, RowMoves
      <3>7. ArtifactsLinked'
        BY <1>0, <1>1, Zenon DEF ArtifactsLinked
      <3> QED BY <3>1, <3>2, <3>5, <3>6, <3>7, Zenon
    <2> QED BY <2>1, <2>2, Zenon
  <1> QED BY <1>1, <1>3, <1>4, <1>5, QuietCollect, Zenon

\* Every step keeps the invariant.
LEMMA BlobStep == BlobInv /\ [Next]_vars => BlobInv'
  <1> SUFFICES ASSUME BlobInv, [Next]_vars PROVE BlobInv'
    BY Zenon
  <1>1. ASSUME NEW p \in Pushers, Push(p) PROVE BlobInv'
    <2>1. CASE ProbeTouch(p)
      BY <2>1, ProbeUpdateStep, Zenon DEF ProbeTouch
    <2>2. CASE ProbeFail(p)
      BY <2>2, ProbeUpdateStep, Zenon DEF ProbeFail
    <2> QED BY <1>1, <2>1, <2>2, BeginStep, HeadStep, ProbeGetStep, StoreStep, HeadWrite,
               EnsureStep, CommitStep, ZenonT(60) DEF Push
  <1>2. ASSUME NEW x \in Deleters, DeleteFind(x) \/ DeleteCommit(x) PROVE BlobInv'
    BY <1>2, DeleteStep, Zenon
  <1>3. CASE Collect
    BY <1>3, RunStep, RemoveStep, UselessStep, MarkStep, SweepStep, RemovedStep, Zenon DEF Collect
  <1>4. CASE Age
    BY <1>4, AgeStep, Zenon
  <1>5. CASE UNCHANGED vars
    <2>1. /\ push' = push /\ blob' = blob /\ made' = made /\ del' = del /\ assoc' = assoc /\ refs' = refs
          /\ arts' = arts /\ trash' = trash /\ storage' = storage /\ gc' = gc
          /\ runs' = runs /\ crashes' = crashes /\ faults' = faults
      BY <1>5, Zenon DEF vars
    <2>2. Types' /\ RowsOK' /\ RowsMove /\ ArtifactsLinked'
      <3>1. /\ ArtifactsLinked /\ gc \in GcType /\ (gc.pc = "find" => gc.list \subseteq Digests)
            /\ refs \subseteq Arts /\ trash \subseteq Arts
            /\ runs \in 0..MaxRuns /\ crashes \in 0..MaxCrashes /\ faults \in 0..MaxFaults
        BY GcFacts, Zenon DEF Types
      <3>2. Types' /\ RowsOK' /\ RowsMove
        BY <2>1, <3>1, StillCollect, Zenon
      <3> QED BY <2>1, <3>1, <3>2, Zenon DEF ArtifactsLinked
    <2>3. ClaimsLess /\ Removing' = Removing
      BY <2>1, Zenon DEF ClaimsLess, Listed, Removing
    <2>4. Collector
      BY Zenon DEF BlobInv
    <2> QED BY <2>1, <2>2, <2>3, <2>4, QuietCollect, Zenon DEF Collector
  <1> QED BY <1>1, <1>2, <1>3, <1>4, <1>5, Zenon DEF Next

\* Whatever artifacts, pushes, deletions and runs of the collector there are,
\* and wherever the collector crashes or the storage fails: the collector takes
\* nothing an ongoing push was told is stored, and an artifact keeps the records
\* that protect its blobs (the statuses and versions UpdateBlobStatus compares).
THEOREM BlobsSafe == Spec => []BlobsSound
  <1>1. BlobInv => BlobsSound
    BY Zenon DEF BlobInv, BlobsSound, Types, Phases, PhaseOf, PushSafe
  <1> QED BY <1>1, BlobInit, BlobStep, PTL DEF Spec
=============================================================================
