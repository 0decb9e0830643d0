-------------------------------- MODULE BlobGC ------------------------------
(***************************************************************************)
(* Pushes, deletions of artifacts and the garbage collector of one         *)
(* project, over the tables blob, project_blob, artifact_blob, artifact    *)
(* and artifact_trash and the storage of the registry.                     *)
(*                                                                         *)
(* A client asks for each layer (HEAD), uploads the ones it is told are    *)
(* missing (PUT blob) and puts the manifest, whose digest is a blob too.   *)
(* The collector is a job of the job service.  It and the blob requests    *)
(* run without a transaction, each statement for itself; PUT manifest and  *)
(* the deletion of an artifact run in a transaction each.                  *)
(*                                                                         *)
(* Not represented: dry runs, the deletion of untagged artifacts, mounts,  *)
(* copies between projects, foreign layers, the registry's cache.          *)
(***************************************************************************)
EXTENDS Naturals, FiniteSets

CONSTANTS Layers,      \* digests of layers
          Arts,        \* digests of manifests, one artifact each
          Uses,        \* the layers of each artifact
          Initial,     \* artifacts pushed long ago
          Pushers,     \* clients pushing an artifact
          Deleters,    \* requests deleting an artifact
          MaxRuns,     \* bound: runs of the collector
          MaxCrashes,  \* bound: collectors killed in the middle
          MaxFaults    \* bound: failures of the storage

Digests == Layers \union Arts

ASSUME ConstantsAssumption ==
    /\ Uses \in [Arts -> SUBSET Layers] /\ Initial \subseteq Arts
    /\ Layers \intersect Arts = {}
    /\ MaxRuns \in Nat /\ MaxCrashes \in Nat /\ MaxFaults \in Nat

VARIABLES
    blob,      \* table blob: status, version, whether older than the window, ID
    made,      \* the number of rows created so far for a digest: the last ID
    assoc,     \* table project_blob: pairs of a digest and an ID
    refs,      \* table artifact_blob: artifacts linked to their blobs
    arts,      \* table artifact
    trash,     \* table artifact_trash
    storage,   \* digests in the registry's storage
    push, del, \* the requests
    gc,        \* the collector
    runs, crashes, faults

vars == <<blob, made, assoc, refs, arts, trash, storage, push, del, gc,
          runs, crashes, faults>>

tables == <<blob, made, assoc, refs, arts, trash>>
bounds == <<runs, crashes, faults>>

BlobsOf(a) == Uses[a] \union {a}

NoBlob == [st |-> "absent", ver |-> 0, old |-> FALSE, id |-> 0]
NoPush == [pc |-> "idle", art |-> "none", d |-> "none", row |-> NoBlob, have |-> {},
           lock |-> {}, new |-> FALSE]
IdleGc == [pc |-> "idle", trashed |-> {}, list |-> {}, todo |-> {}, set |-> {},
           d |-> "none", row |-> NoBlob]

Init ==
    /\ LET kept == UNION {BlobsOf(a) : a \in Initial}
       IN  /\ blob = [d \in Digests |-> IF d \in kept
                                        THEN [st |-> "none", ver |-> 0, old |-> TRUE, id |-> 1]
                                        ELSE NoBlob]
           /\ made = [d \in Digests |-> IF d \in kept THEN 1 ELSE 0]
           /\ assoc = {<<d, 1>> : d \in kept}
           /\ storage = kept
    /\ refs = Initial /\ arts = Initial /\ trash = {}
    /\ push = [p \in Pushers |-> NoPush]
    /\ del = [x \in Deleters |-> [pc |-> "idle", art |-> "none", found |-> {}]]
    /\ gc = IdleGc
    /\ runs = 0 /\ crashes = 0 /\ faults = 0

-----------------------------------------------------------------------------
(* The blob manager.                                                       *)

StatusMap == [none         |-> {"none", "delete", "deletefailed"},
              delete       |-> {"none", "delete", "deletefailed"},
              deleting     |-> {"delete"},
              deletefailed |-> {"deleting"}]

\* Mutant: the version is not compared.
AcceptsAnyVersion(row, seen, st) == row.id = seen.id /\ row.st \in StatusMap[st]

\* Whether the UPDATE of UpdateBlobStatus finds the row that was seen before.
Accepts(row, seen, st) ==
    /\ row.id = seen.id
    /\ row.st \in StatusMap[st]
    /\ IF st = "none" THEN row.ver >= seen.ver ELSE row.ver = seen.ver

Updated(row, st) == [row EXCEPT !.st = st, !.ver = @ + 1, !.old = FALSE]

\* No PUT manifest in progress has touched the row.
Free(d) == \A p \in Pushers : d \notin push[p].lock

\* UpdateBlobStatus, outside a transaction.
UpdateBlobStatus(d, seen, st) ==
    /\ Free(d)
    /\ blob' = IF Accepts(blob[d], seen, st)
               THEN [blob EXCEPT ![d] = Updated(@, st)] ELSE blob

Create(d) == [st |-> "none", ver |-> 0, old |-> FALSE, id |-> made[d] + 1]

\* The project_blob rows of the blobs S that none of its artifacts A needs.
Unneeded(S, A) ==
    {<<d, blob[d].id>> : d \in {e \in S : /\ blob[e] # NoBlob
                                          /\ \A a \in A \intersect refs : e \notin BlobsOf(a)}}

-----------------------------------------------------------------------------
(* A push.  While the client asks for and uploads layers, pc "next" stands *)
(* for the time between two requests.                                      *)

Going(p) == push[p].pc \notin {"idle", "done", "failed"}

PushBegin(p) ==
    /\ push[p].pc = "idle"
    /\ \E a \in Arts : push' = [push EXCEPT ![p] = [NoPush EXCEPT !.pc = "next", !.art = a]]
    /\ UNCHANGED <<tables, storage, del, gc, bounds>>

\* HEAD of a layer: where the status of its row leads.
HeadGet(p) ==
    /\ push[p].pc = "next"
    /\ \E d \in Uses[push[p].art] \ push[p].have :
         LET row == blob[d]
         IN  push' = [push EXCEPT ![p] =
                         [@ EXCEPT !.d = d, !.row = row,
                                   !.pc = IF row.st \in {"none", "delete"} THEN "touch"
                                          ELSE IF row.st = "deleting" /\ row.old THEN "giveup"
                                          ELSE "upload"]]
    /\ UNCHANGED <<tables, storage, del, gc, bounds>>

HeadTouch(p) ==
    /\ push[p].pc = "touch"
    /\ UpdateBlobStatus(push[p].d, push[p].row, "none")
    /\ push' = [push EXCEPT ![p].pc =
                   IF Accepts(blob[push[p].d], push[p].row, "none") THEN "ask" ELSE "upload"]
    /\ UNCHANGED <<made, assoc, refs, arts, trash, storage, del, gc, bounds>>

\* The deletion of the blob seems to be stuck: 404, whether Fail succeeds or not.
HeadFail(p) ==
    /\ push[p].pc = "giveup"
    /\ UpdateBlobStatus(push[p].d, push[p].row, "deletefailed")
    /\ push' = [push EXCEPT ![p].pc = "upload"]
    /\ UNCHANGED <<made, assoc, refs, arts, trash, storage, del, gc, bounds>>

\* The registry answers the HEAD request.
HeadAsk(p) ==
    /\ push[p].pc = "ask"
    /\ LET q == push[p]
       IN  push' = [push EXCEPT ![p] = IF q.d \in storage
                                       THEN [q EXCEPT !.pc = "next", !.have = q.have \union {q.d}]
                                       ELSE [q EXCEPT !.pc = "upload"]]
    /\ UNCHANGED <<tables, storage, del, gc, bounds>>

\* All layers are there: the client puts the manifest.
PutManifest(p) ==
    /\ push[p].pc = "next"
    /\ Uses[push[p].art] \subseteq push[p].have
    /\ push' = [push EXCEPT ![p] = [@ EXCEPT !.pc = "upload", !.d = push[p].art]]
    /\ UNCHANGED <<tables, storage, del, gc, bounds>>

\* What the request sees of a row: its own transaction's writes first.
View(p, d) == IF d \in push[p].lock THEN push[p].row ELSE blob[d]

\* probeBlob before a PUT of a layer or a manifest.
ProbeGet(p) ==
    /\ push[p].pc = "upload"
    /\ LET row == View(p, push[p].d)
       IN  push' = [push EXCEPT ![p] =
                       [@ EXCEPT !.row = row,
                                 !.pc = CASE row = NoBlob -> "store"
                                          [] row.st \in StatusMap["none"] -> "probe"
                                          [] row.st = "deleting" /\ row.old -> "unstick"
                                          [] OTHER -> "failed"]]
    /\ UNCHANGED <<tables, storage, del, gc, bounds>>

\* The status update of a probe.  That of a manifest is part of the request's
\* transaction: the row is locked, and others see it after the commit.
ProbeUpdate(p, st, next) ==
    LET d == push[p].d
        ok == Accepts(View(p, d), push[p].row, st)
        new == Updated(View(p, d), st)
    IN  /\ IF d \in Layers
           THEN UpdateBlobStatus(d, push[p].row, st)
           ELSE (Free(d) \/ d \in push[p].lock) /\ UNCHANGED blob
        /\ push' = [push EXCEPT ![p] =
                       IF ~ok THEN [@ EXCEPT !.pc = "failed", !.lock = {}]
                       ELSE [@ EXCEPT !.pc = next, !.row = new, !.lock = {d} \ Layers]]
        /\ UNCHANGED <<made, assoc, refs, arts, trash, storage, del, gc, bounds>>

ProbeTouch(p) == push[p].pc = "probe" /\ ProbeUpdate(p, "none", "store")

ProbeFail(p) == push[p].pc = "unstick" /\ ProbeUpdate(p, "deletefailed", "upload")

\* The row of a blob, created when there is none.
Ensure(p, d) == IF View(p, d) = NoBlob THEN Create(d) ELSE View(p, d)

\* The registry stores a layer; the middleware creates and associates its row.
PutBlob(p) ==
    /\ push[p].pc = "store" /\ push[p].d \in Layers
    /\ storage' = storage \union {push[p].d}
    /\ push' = [push EXCEPT ![p].pc = "ensure"]
    /\ UNCHANGED <<tables, del, gc, bounds>>

\* Mutant: the blob is associated under the ID that the probe saw.
EnsureBlobProbed(p) ==
    /\ push[p].pc = "ensure"
    /\ LET d == push[p].d
           row == Ensure(p, d)
       IN  /\ blob' = [blob EXCEPT ![d] = row]
           /\ made' = [made EXCEPT ![d] = row.id]
           /\ assoc' = assoc \union {<<d, push[p].row.id>>}
           /\ push' = [push EXCEPT ![p] = [@ EXCEPT !.pc = "next", !.have = push[p].have \union {d}]]
    /\ UNCHANGED <<refs, arts, trash, storage, del, gc, bounds>>

EnsureBlob(p) ==
    /\ push[p].pc = "ensure"
    /\ LET d == push[p].d
           row == Ensure(p, d)
       IN  /\ blob' = [blob EXCEPT ![d] = row]
           /\ made' = [made EXCEPT ![d] = row.id]
           /\ assoc' = assoc \union {<<d, row.id>>}
           /\ push' = [push EXCEPT ![p] = [@ EXCEPT !.pc = "next", !.have = push[p].have \union {d}]]
    /\ UNCHANGED <<refs, arts, trash, storage, del, gc, bounds>>

\* ensureArtifact creates the artifact when it sees none.
NewArtifact(a) == a \notin arts

\* The registry takes a manifest when it has the layers; then ensureArtifact.
PutToRegistry(p) ==
    /\ push[p].pc = "store" /\ push[p].d \in Arts
    /\ LET a == push[p].art
       IN  IF Uses[a] \subseteq storage
           THEN /\ storage' = storage \union {a}
                /\ push' = [push EXCEPT ![p] = [@ EXCEPT !.pc = "after", !.new = NewArtifact(a),
                                                         !.have = push[p].have \union {a}]]
           ELSE /\ push' = [push EXCEPT ![p] = [@ EXCEPT !.pc = "failed", !.lock = {}]]
                /\ UNCHANGED storage
    /\ UNCHANGED <<tables, del, gc, bounds>>

\* Sync creates the rows that are missing.  Its update of a content type sets
\* the row's time, which the request's own HEAD or PUT of the layer did before.
Sync(p) == [d \in BlobsOf(push[p].art) |-> Ensure(p, d)]

\* Sync, the associations with the project, Ensure and AssociateWithArtifact,
\* and the commit of what the request wrote.
CommitManifest(p) ==
    /\ push[p].pc = "after"
    /\ LET a == push[p].art
           row == Sync(p)
       IN  /\ \A d \in BlobsOf(a) : Free(d) \/ d \in push[p].lock
           /\ blob' = [d \in Digests |-> IF d \in BlobsOf(a) THEN row[d] ELSE blob[d]]
           /\ made' = [d \in Digests |-> IF d \in BlobsOf(a) THEN row[d].id ELSE made[d]]
           /\ assoc' = assoc \union {<<d, row[d].id>> : d \in BlobsOf(a)}
           /\ refs' = refs \union {a}
           /\ arts' = IF push[p].new THEN arts \union {a} ELSE arts
    /\ push' = [push EXCEPT ![p] = [NoPush EXCEPT !.pc = "done"]]
    /\ UNCHANGED <<trash, storage, del, gc, bounds>>

\* The client gives up between two requests, or a request fails.
PushAbort(p) ==
    /\ push[p].pc \in {"next", "upload", "ensure", "after"}
    /\ push' = [push EXCEPT ![p] = [NoPush EXCEPT !.pc = "failed"]]
    /\ UNCHANGED <<tables, storage, del, gc, bounds>>

-----------------------------------------------------------------------------
(* The deletion of an artifact: FindBlobsShouldUnassociatedWithProject sees *)
(* what is committed, DELETE and commit come later.                        *)

DeleteFind(x) ==
    /\ del[x].pc = "idle"
    /\ \E a \in arts :
         /\ \A y \in Deleters : del[y].pc = "found" => del[y].art # a
         /\ del' = [del EXCEPT ![x] =
                       [pc |-> "found", art |-> a,
                        found |-> IF a \in refs THEN Unneeded(BlobsOf(a), arts \ {a}) ELSE {}]]
    /\ UNCHANGED <<tables, storage, push, gc, bounds>>

DeleteCommit(x) ==
    /\ del[x].pc = "found"
    /\ assoc' = assoc \ del[x].found
    /\ arts' = arts \ {del[x].art}
    /\ trash' = trash \union {del[x].art}
    /\ del' = [del EXCEPT ![x] = [pc |-> "done", art |-> "none", found |-> {}]]
    /\ UNCHANGED <<blob, made, refs, storage, push, gc, bounds>>

-----------------------------------------------------------------------------
(* The collector.  Filter leaves out artifacts that were pushed again.     *)

GcStart ==
    /\ gc.pc = "idle" /\ runs < MaxRuns
    /\ runs' = runs + 1
    /\ gc' = [IdleGc EXCEPT !.pc = "list", !.trashed = trash \ arts]
    /\ UNCHANGED <<tables, storage, push, del, crashes, faults>>

\* markOrSweepUntaggedBlobs and CleanupAssociationsForProject: the old blobs of
\* the project, the ones no artifact needs, and the end of their associations.
GcList ==
    /\ gc.pc = "list"
    /\ gc' = [gc EXCEPT !.pc = "find",
                        !.list = {d \in Digests : blob[d].old /\ <<d, blob[d].id>> \in assoc}]
    /\ UNCHANGED <<tables, storage, push, del, bounds>>

GcFind ==
    /\ gc.pc = "find"
    /\ gc' = [gc EXCEPT !.pc = "clean", !.list = Unneeded(@, arts)]
    /\ UNCHANGED <<tables, storage, push, del, bounds>>

GcClean ==
    /\ gc.pc = "clean"
    /\ assoc' = assoc \ gc.list
    /\ gc' = [gc EXCEPT !.pc = "useless", !.list = {}]
    /\ UNCHANGED <<blob, made, refs, arts, trash, storage, push, del, bounds>>

GcUseless ==
    /\ gc.pc = "useless"
    /\ gc' = [gc EXCEPT !.pc = "mark",
                        !.todo = {<<d, blob[d]>> : d \in {e \in Digests :
                                     blob[e].old /\ <<e, blob[e].id>> \notin assoc}}]
    /\ UNCHANGED <<tables, storage, push, del, bounds>>

GcMark ==
    /\ gc.pc = "mark"
    /\ \E c \in gc.todo :
         /\ UpdateBlobStatus(c[1], c[2], "delete")
         /\ gc' = [gc EXCEPT !.todo = @ \ {c},
                             !.set = IF Accepts(blob[c[1]], c[2], "delete")
                                     THEN @ \union {<<c[1], Updated(blob[c[1]], "delete")>>} ELSE @]
    /\ UNCHANGED <<made, assoc, refs, arts, trash, storage, push, del, bounds>>

GcMarked ==
    /\ gc.pc = "mark" /\ gc.todo = {}
    /\ gc' = [gc EXCEPT !.pc = "sweep", !.todo = gc.set, !.set = {}]
    /\ UNCHANGED <<tables, storage, push, del, bounds>>

\* Mutant: the records of an artifact are removed before its blob is taken.
GcSweepForgets ==
    /\ gc.pc = "sweep"
    /\ \E c \in gc.todo :
         /\ UpdateBlobStatus(c[1], c[2], "deleting")
         /\ refs' = refs \ {c[1]}
         /\ gc' = IF Accepts(blob[c[1]], c[2], "deleting")
                  THEN [gc EXCEPT !.todo = @ \ {c}, !.d = c[1],
                                  !.row = Updated(blob[c[1]], "deleting"),
                                  !.pc = IF c[1] \in gc.trashed THEN "manifest" ELSE "blob"]
                  ELSE [gc EXCEPT !.todo = @ \ {c}]
    /\ UNCHANGED <<made, assoc, arts, trash, storage, push, del, bounds>>

\* Take the next blob of the set, unless a request has changed it.
GcSweep ==
    /\ gc.pc = "sweep"
    /\ \E c \in gc.todo :
         /\ UpdateBlobStatus(c[1], c[2], "deleting")
         /\ gc' = IF Accepts(blob[c[1]], c[2], "deleting")
                  THEN [gc EXCEPT !.todo = @ \ {c}, !.d = c[1],
                                  !.row = Updated(blob[c[1]], "deleting"),
                                  !.pc = IF c[1] \in gc.trashed THEN "manifest" ELSE "blob"]
                  ELSE [gc EXCEPT !.todo = @ \ {c}]
    /\ UNCHANGED <<made, assoc, refs, arts, trash, storage, push, del, bounds>>

\* The registry deletes what the collector asks it to, or fails to, possibly
\* after it has deleted it.
Erase(from, next) ==
    /\ gc.pc = from
    /\ \/ /\ storage' = storage \ {gc.d}
          /\ gc' = [gc EXCEPT !.pc = next]
          /\ UNCHANGED faults
       \/ /\ faults < MaxFaults
          /\ faults' = faults + 1
          /\ storage' \in {storage, storage \ {gc.d}}
          /\ gc' = [gc EXCEPT !.pc = "markfailed"]
    /\ UNCHANGED <<tables, push, del, runs, crashes>>

GcManifest == Erase("manifest", "forget")
GcBlob == Erase("blob", "row")

\* CleanupAssociationsForArtifact, then the record in the trash.
GcForget ==
    /\ gc.pc = "forget"
    /\ refs' = refs \ {gc.d}
    /\ gc' = [gc EXCEPT !.pc = "untrash"]
    /\ UNCHANGED <<blob, made, assoc, arts, trash, storage, push, del, bounds>>

GcUntrash ==
    /\ gc.pc = "untrash"
    /\ trash' = trash \ {gc.d}
    /\ gc' = [gc EXCEPT !.pc = "blob"]
    /\ UNCHANGED <<blob, made, assoc, refs, arts, storage, push, del, bounds>>

GcMarkFailed ==
    /\ gc.pc = "markfailed"
    /\ UpdateBlobStatus(gc.d, gc.row, "deletefailed")
    /\ gc' = [gc EXCEPT !.pc = "sweep", !.d = "none", !.row = NoBlob]
    /\ UNCHANGED <<made, assoc, refs, arts, trash, storage, push, del, bounds>>

GcDeleteRow ==
    /\ gc.pc = "row" /\ Free(gc.d)
    /\ blob' = IF blob[gc.d].id = gc.row.id THEN [blob EXCEPT ![gc.d] = NoBlob] ELSE blob
    /\ gc' = [gc EXCEPT !.pc = "sweep", !.d = "none", !.row = NoBlob]
    /\ UNCHANGED <<made, assoc, refs, arts, trash, storage, push, del, bounds>>

\* The end of the run: everything is swept, or a stop signal was seen.
GcEnd ==
    /\ gc.pc \in {"list", "mark", "sweep"}
    /\ gc' = IdleGc
    /\ UNCHANGED <<tables, storage, push, del, bounds>>

GcCrash ==
    /\ gc.pc # "idle" /\ crashes < MaxCrashes
    /\ crashes' = crashes + 1
    /\ gc' = IdleGc
    /\ UNCHANGED <<tables, storage, push, del, runs, faults>>

-----------------------------------------------------------------------------
(* The time window goes by.  A push, a deletion and the removal of one     *)
(* blob take less than the window.                                         *)

Age ==
    /\ \A p \in Pushers : ~Going(p)
    /\ \A x \in Deleters : del[x].pc # "found"
    /\ gc.pc \in {"idle", "mark", "sweep"}
    /\ blob' = [d \in Digests |-> [blob[d] EXCEPT !.old = blob[d] # NoBlob]]
    /\ blob' # blob
    /\ UNCHANGED <<made, assoc, refs, arts, trash, storage, push, del, gc, bounds>>

Push(p) ==
    \/ PushBegin(p) \/ HeadGet(p) \/ HeadTouch(p) \/ HeadFail(p) \/ HeadAsk(p)
    \/ PutManifest(p) \/ ProbeGet(p) \/ ProbeTouch(p) \/ ProbeFail(p) \/ PutBlob(p)
    \/ EnsureBlob(p) \/ PutToRegistry(p) \/ CommitManifest(p) \/ PushAbort(p)

Collect ==
    \/ GcStart \/ GcList \/ GcFind \/ GcClean \/ GcUseless \/ GcMark \/ GcMarked
    \/ GcSweep \/ GcManifest \/ GcForget \/ GcUntrash \/ GcBlob \/ GcMarkFailed
    \/ GcDeleteRow \/ GcEnd \/ GcCrash

Next ==
    \/ \E p \in Pushers : Push(p)
    \/ \E x \in Deleters : DeleteFind(x) \/ DeleteCommit(x)
    \/ Collect
    \/ Age

Spec == Init /\ [][Next]_vars

-----------------------------------------------------------------------------
(* Properties.                                                             *)

Row == [st : {"absent", "none", "delete", "deleting", "deletefailed"}, ver : Nat,
        old : BOOLEAN, id : Nat]

\* The tables are well formed: a row has the last ID given for its digest, and
\* associations are with rows that exist or existed.
TypeOK ==
    /\ blob \in [Digests -> Row] /\ made \in [Digests -> Nat]
    /\ \A d \in Digests : blob[d] # NoBlob => blob[d].id = made[d]
    /\ \A r \in assoc : r[1] \in Digests /\ r[2] \in 1..made[r[1]]
    /\ refs \subseteq Arts /\ arts \subseteq Arts /\ trash \subseteq Arts
    /\ storage \subseteq Digests
    /\ runs \in 0..MaxRuns /\ crashes \in 0..MaxCrashes /\ faults \in 0..MaxFaults

\* What an ongoing push was told is stored (a HEAD answered with success, an
\* upload accepted) the collector does not delete while the push goes on: the
\* version a request leaves behind makes the collector skip the blob.
PushSafe == \A p \in Pushers : Going(p) => push[p].have \subseteq storage

\* An artifact keeps the artifact_blob records that protect its blobs, also
\* when it is deleted, put in the trash and pushed again while the collector
\* is removing the records of its first life.
ArtifactsLinked == arts \subseteq refs

\* "these blobs are not referenced by any manifest and will be cleaned by GC"
\* (garbage_collection.go:523): what a manifest references is not cleaned.
ArtifactBlobsStored == \A a \in arts : BlobsOf(a) \subseteq storage

\* The collector takes nothing that a push or an artifact relies on.
BlobsSound ==
    /\ TypeOK
    /\ ArtifactsLinked
    /\ PushSafe
=============================================================================
