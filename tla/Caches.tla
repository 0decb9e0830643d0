------------------------------- MODULE Caches -------------------------------
(***************************************************************************)
(* The cache in front of the database: the managers of artifacts,          *)
(* repositories, projects, project metadata and manifests keep rows they   *)
(* read in Redis (or in memory) for a day and remove them when the row     *)
(* changes.  A request that writes runs in the transaction of the          *)
(* middleware, its cache operations do not: they are seen at once.  One    *)
(* resource with one name, its successor under the same name, two          *)
(* metadata of a project.                                                  *)
(***************************************************************************)
EXTENDS Integers, Sequences, FiniteSets, SequencesExt

CONSTANTS
  CacheCalls   \* numbers of the calls of the managers

VARIABLES
  cacheRow,    \* the committed row [id, ver, p, q]: number (0: none), version, metadata
  cachePend,   \* the uncommitted write [by, row]; it holds the row's lock
  store,       \* the cache: keys -> entry
  medium,      \* "redis" or "memory"
  ring,        \* CacheCalls -> [op, arg, tx, todo, got, out]
  outages,     \* failures of the cache still to come
  seenRows     \* history: committed rows

cacheVars == <<cacheRow, cachePend, store, medium, ring, outages, seenRows>>

---------------------------------------------------------------------------
(* Keys and what a row shows under them.                                   *)

\* ObjectKey.Format and strings.Join of the metadata names.
IdKey == <<"id1", "id2">>
MetaKey == [n \in {"p", "q"} |-> IF n = "p" THEN "m:p" ELSE "m:q"]
MetaKeys == {"m:", "m:p", "m:q", "m:p,q"}
CacheKeys == {"id1", "id2", "name", "man"} \union MetaKeys

Held(v) == IF v = 0 THEN <<>> ELSE <<v>>
\* What the delegated manager answers; <<>> when there is no such row.
View(k, r) ==
  CASE k = "id1" -> IF r.id = 1 THEN <<r.id, r.ver>> ELSE <<>>
    [] k = "id2" -> IF r.id = 2 THEN <<r.id, r.ver>> ELSE <<>>
    [] k = "name" -> IF r.id # 0 THEN <<r.id, r.ver>> ELSE <<>>
    [] k = "man" -> Held(r.id)
    [] k = "m:p" -> Held(r.p)
    [] k = "m:q" -> Held(r.q)
    [] k \in {"m:", "m:p,q"} -> IF r.p = 0 /\ r.q = 0 THEN <<>> ELSE <<r.p, r.q>>

NoEntry == [val |-> <<>>, late |-> FALSE, kept |-> FALSE, gone |-> FALSE]
NoPend(r) == [by |-> 0, row |-> r]

---------------------------------------------------------------------------
(* The cache.                                                              *)

\* Redis and memory: an expired entry is not found.  Memory keeps it.
Fetch(k) == IF store[k].gone THEN <<>> ELSE store[k].val
KeysOf(prefix) == {k \in prefix : store[k].val # <<>> /\ (medium = "redis" => ~store[k].gone)}
Saved(k, v, late) == [store EXCEPT ![k] = [NoEntry EXCEPT !.val = v, !.late = late]]
Removed(k) == [store EXCEPT ![k] = NoEntry]
Kept(ks) == [k \in CacheKeys |-> IF k \in ks THEN [store[k] EXCEPT !.kept = TRUE] ELSE store[k]]

---------------------------------------------------------------------------
(* The operations of the managers, step by step.                           *)

CStep(do, key) == [do |-> do, key |-> key]
GetThrough(k) == <<CStep("fetch", k), CStep("read", k), CStep("save", k)>>
cleanUpId == <<CStep("cleanId", "id1")>>
\* cleanUp: the key by number, of what was read, and the key by name.
cleanUp == <<CStep("cleanId", "id1"), CStep("clean", "name")>>
CWrite(what) == <<CStep("write", what)>>

ArtifactGet(k) == GetThrough(k)
ArtifactGetByDigest == GetThrough("name")
ArtifactDelete(k) == ArtifactGet(k) \o CWrite("delete") \o cleanUp
ArtifactUpdatePullTime(k) == ArtifactGet(k) \o CWrite("touch") \o cleanUp \o ArtifactGet(k) \o ArtifactGetByDigest
\* getManifest and deleteManifest of the registry API.
ManifestPull == ArtifactGetByDigest \o GetThrough("man")
ManifestDelete(k) == ArtifactDelete(k) \o <<CStep("clean", "man")>>

RepositoryGet(k) == GetThrough(k)
RepositoryGetByName == GetThrough("name")
RepositoryDelete(k) == RepositoryGet(k) \o CWrite("delete") \o cleanUp
RepositoryUpdate == RepositoryGetByName \o CWrite("touch") \o cleanUp
RepositoryAddPullCount(k) == RepositoryGet(k) \o CWrite("touch") \o cleanUp \o RepositoryGet(k) \o RepositoryGetByName

ProjectGet(k) == GetThrough(k)
ProjectDelete(k) == ProjectGet(k) \o CWrite("delete") \o cleanUp

MetaGet(k) == GetThrough(k)
MetaAdd(n) == CWrite("add") \o <<CStep("clean", "m:")>>
MetaDelete(n) == CWrite("drop") \o <<CStep("clean", MetaKey[n])>>
\* Update removes whatever is kept of the project.
MetaUpdate(n) == CWrite("set") \o <<CStep("keys", "m:")>>
FlushAll == <<CStep("keys", "all")>>

Todo(op, a) ==
  CASE op = "artifact.Get" -> ArtifactGet(a) [] op = "artifact.GetByDigest" -> ArtifactGetByDigest
    [] op = "artifact.Delete" -> ManifestDelete(a) [] op = "artifact.UpdatePullTime" -> ArtifactUpdatePullTime(a)
    [] op = "manifest.Get" -> ManifestPull
    [] op = "repository.Get" -> RepositoryGet(a) [] op = "repository.GetByName" -> RepositoryGetByName
    [] op = "repository.Delete" -> RepositoryDelete(a) [] op = "repository.Update" -> RepositoryUpdate
    [] op = "repository.AddPullCount" -> RepositoryAddPullCount(a)
    [] op = "project.Get" -> ProjectGet(a) [] op = "project.Delete" -> ProjectDelete(a)
    [] op = "create" -> CWrite("create")
    [] op = "meta.Get" -> MetaGet(a) [] op = "meta.Add" -> MetaAdd(a) [] op = "meta.Delete" -> MetaDelete(a)
    [] op = "meta.Update" -> MetaUpdate(a) [] op = "flush" -> FlushAll [] OTHER -> <<>>

\* Requests that write are in a transaction, the handler of pulls is not.
InTx(op) == op \in {"artifact.Delete", "repository.Delete", "repository.Update", "project.Delete", "create",
                    "meta.Add", "meta.Delete", "meta.Update"}
Call(op, a) == [op |-> op, arg |-> a, tx |-> InTx(op), todo |-> Todo(op, a), got |-> <<>>, wrote |-> FALSE, out |-> "open"]
NoCall == [op |-> "none", arg |-> "", tx |-> FALSE, todo |-> <<>>, got |-> <<>>, wrote |-> FALSE, out |-> "over"]

---------------------------------------------------------------------------
(* The steps.                                                              *)

CallAt(c, do) == ring[c].out = "open" /\ ring[c].todo # <<>> /\ Head(ring[c].todo).do = do
Key1(c) == Head(ring[c].todo).key
CallOn(c, n, got) == ring' = [ring EXCEPT ![c] = [@ EXCEPT !.todo = SubSeq(@, n + 1, Len(@)), !.got = got]]
\* The row a call sees: its own write, or what is committed.
Sight(c) == IF cachePend.by = c THEN cachePend.row ELSE cacheRow
Failing == outages > 0 /\ outages' = outages - 1

\* Fetch; an error of the cache is taken for a missing key.
CacheFetch(c) ==
  /\ CallAt(c, "fetch")
  /\ \/ /\ IF Fetch(Key1(c)) # <<>> THEN CallOn(c, 3, Fetch(Key1(c))) ELSE CallOn(c, 1, ring[c].got)
        /\ UNCHANGED outages
     \/ Failing /\ CallOn(c, 1, ring[c].got)
  /\ UNCHANGED <<cacheRow, cachePend, store, medium, seenRows>>

\* The delegated Get.  When a row is not there the operation ends, but for the
\* second reading of refreshCache, whose errors are logged.
DelegatedGet(c) ==
  LET v == View(Key1(c), Sight(c)) IN
  /\ CallAt(c, "read")
  /\ IF v # <<>> THEN CallOn(c, 1, v)
     ELSE IF ring[c].wrote THEN CallOn(c, 2, ring[c].got)
     ELSE ring' = [ring EXCEPT ![c] = [@ EXCEPT !.todo = <<>>, !.out = IF ring[c].tx THEN "failed" ELSE "over"]]
  /\ UNCHANGED <<cacheRow, cachePend, store, medium, outages, seenRows>>

\* History of an entry: whether the row, or the row a transaction that has already
\* removed the key is about to commit, is another by the time it is saved.
Cleans(c, k) == \E i \in DOMAIN ring[c].todo : LET s == ring[c].todo[i] IN
                  \/ s.do = "clean" /\ s.key = k
                  \/ s.do = "cleanId" /\ Len(ring[c].got) > 0 /\ IdKey[ring[c].got[1]] = k
                  \/ s.do = "keys" /\ (s.key = "all" \/ k \in MetaKeys)
                  \/ s.do = "sweep" /\ s.key = k
Late(k, v) == \/ v # View(k, cacheRow)
              \/ cachePend.by # 0 /\ v # View(k, cachePend.row) /\ ~Cleans(cachePend.by, k)

\* cacheClient.Save: nothing is saved in a transaction.
CacheSave(c) ==
  /\ CallAt(c, "save")
  /\ \/ /\ store' = IF ring[c].tx THEN store ELSE Saved(Key1(c), ring[c].got, Late(Key1(c), ring[c].got))
        /\ UNCHANGED outages
     \/ Failing /\ UNCHANGED store
  /\ CallOn(c, 1, ring[c].got)
  /\ UNCHANGED <<cacheRow, cachePend, medium, seenRows>>

Effect(c, what, r) ==
  LET n == ring[c].arg IN
  CASE what = "delete" -> [r EXCEPT !.id = 0]
    [] what = "touch" -> [r EXCEPT !.ver = @ + 1]
    [] what = "create" -> [r EXCEPT !.id = 2, !.ver = @ + 1]
    [] what = "drop" -> [r EXCEPT ![n] = 0]
    [] what = "set" -> [r EXCEPT ![n] = IF @ = 0 THEN 0 ELSE @ + 1]
    [] what = "add" -> [r EXCEPT ![n] = 3]
\* The write finds its row: the one that was read, a free name, a name not yet set.
Writable(c, what, r) ==
  CASE what \in {"delete", "touch"} -> r.id = ring[c].got[1]
    [] what = "create" -> r.id = 0
    [] what = "add" -> r[ring[c].arg] = 0
    [] OTHER -> TRUE

DelegatedWrite(c) ==
  LET what == Key1(c)
      after == Effect(c, what, cacheRow) IN
  /\ CallAt(c, "write") /\ cachePend.by = 0
  /\ IF ~Writable(c, what, cacheRow)
     THEN ring' = [ring EXCEPT ![c] = [@ EXCEPT !.todo = <<>>, !.out = "over"]] /\ UNCHANGED <<cacheRow, cachePend, seenRows>>
     ELSE /\ ring' = [ring EXCEPT ![c] = [@ EXCEPT !.todo = Tail(@), !.wrote = TRUE]]
          /\ IF ring[c].tx THEN cachePend' = [by |-> c, row |-> after] /\ UNCHANGED <<cacheRow, seenRows>>
             ELSE cacheRow' = after /\ cachePend' = NoPend(after) /\ seenRows' = seenRows \union {after}
  /\ UNCHANGED <<store, medium, outages>>

\* Delete in Redis, retried for a minute; when that fails the entry stays.
CacheDelete(c) ==
  LET k == IF Head(ring[c].todo).do = "cleanId" THEN IdKey[ring[c].got[1]] ELSE Key1(c) IN
  /\ CallAt(c, "clean") \/ CallAt(c, "cleanId") \/ CallAt(c, "sweep")
  /\ \/ store' = Removed(k) /\ UNCHANGED outages
     \/ Failing /\ store' = Kept({k})
  /\ CallOn(c, 1, ring[c].got)
  /\ UNCHANGED <<cacheRow, cachePend, medium, seenRows>>

\* Update of metadata and FlushAll remove the keys there are at one time.
CacheListKeys(c) ==
  LET ks == KeysOf(IF Key1(c) = "all" THEN CacheKeys ELSE MetaKeys) IN
  /\ CallAt(c, "keys")
  /\ ring' = [ring EXCEPT ![c].todo = SetToSeq({CStep("sweep", k) : k \in ks}) \o Tail(@)]
  /\ UNCHANGED <<cacheRow, cachePend, store, medium, outages, seenRows>>

\* The lists of metadata that an addition or deletion does not remove.
Overlooked(x) == CASE x.op = "meta.Add" -> MetaKeys \ {"m:"} [] x.op = "meta.Delete" -> MetaKeys \ {MetaKey[x.arg]} [] OTHER -> {}

\* The transaction middleware, when the request is done.
CallEnds(c) ==
  /\ ring[c].out \in {"open", "failed"} /\ ring[c].todo = <<>>
  /\ ring' = [ring EXCEPT ![c].out = "over"]
  /\ IF cachePend.by # c THEN UNCHANGED <<cacheRow, cachePend, seenRows, store>>
     ELSE \/ /\ cacheRow' = cachePend.row /\ cachePend' = NoPend(cachePend.row) /\ seenRows' = seenRows \union {cachePend.row}
             /\ store' = Kept(Overlooked(ring[c]))
          \/ cachePend' = NoPend(cacheRow) /\ UNCHANGED <<cacheRow, seenRows, store>>
  /\ UNCHANGED <<medium, outages>>

\* The process ends in the middle of a call.
CallDies(c) ==
  /\ ring[c].out = "open" /\ ring[c].todo # <<>>
  /\ Failing
  /\ ring' = [ring EXCEPT ![c] = [@ EXCEPT !.todo = <<>>, !.out = "over"]]
  /\ cachePend' = IF cachePend.by = c THEN NoPend(cacheRow) ELSE cachePend
  /\ store' = IF ring[c].wrote /\ cachePend.by # c THEN Kept({k \in CacheKeys : Cleans(c, k)}) ELSE store
  /\ UNCHANGED <<cacheRow, medium, seenRows>>

\* The lifetime of an entry is over.
CacheExpires(k) ==
  /\ store[k].val # <<>> /\ ~store[k].gone /\ Failing
  /\ store' = IF medium = "redis" THEN Removed(k) ELSE [store EXCEPT ![k].gone = TRUE]
  /\ UNCHANGED <<cacheRow, cachePend, medium, ring, seenRows>>

CachesNext ==
  \/ \E c \in CacheCalls : \/ CacheFetch(c) \/ DelegatedGet(c) \/ CacheSave(c) \/ DelegatedWrite(c) \/ CacheDelete(c)
                       \/ CacheListKeys(c) \/ CallEnds(c) \/ CallDies(c)
  \/ \E k \in CacheKeys : CacheExpires(k)

---------------------------------------------------------------------------
(* Correctness.                                                            *)

\* Whatever is in the cache was committed: an entry never shows a write that was rolled back
\* or is not yet committed.
CachedWasCommitted ==
  \A k \in CacheKeys : store[k].val = <<>> \/ \E r \in seenRows : store[k].val = View(k, r)

\* An entry that differs from its row was saved by a reader that raced the writer (after the
\* writer had removed the key), or could not be removed, or is about to be.  Deleting or adding
\* one metadata removes only one of the lists it is in.
CacheCoherent ==
  \A k \in CacheKeys :
    (store[k].val # <<>> /\ store[k].val # View(k, cacheRow)) =>
      \/ store[k].late \/ store[k].kept
      \/ \E c \in CacheCalls : ring[c].wrote /\ Cleans(c, k)

\* A deletion or update acts on the row that was read, even when the name was taken by a
\* successor meanwhile: the successor is never deleted by a call for its predecessor.
ActsOnRead ==
  cachePend.by # 0 => LET c == ring[cachePend.by] IN
    c.op \in {"artifact.Delete", "repository.Delete", "project.Delete"} => IdKey[c.got[1]] = c.arg /\ View(c.arg, cacheRow) # <<>>

CachesSound == CachedWasCommitted /\ CacheCoherent /\ ActsOnRead
=============================================================================
