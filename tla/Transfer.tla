------------------------------ MODULE Transfer ------------------------------
(***************************************************************************)
(* The replication jobs that copy artifacts from a source to a destination *)
(* registry, or delete them there: transfer/image/transfer.go over the     *)
(* registry client.  A job walks over its references; an index is copied   *)
(* child by child, a layer in one request or in chunks, each with retries. *)
(* Calls to the registries fail at any time, with or without their effect; *)
(* meanwhile users move the tags of the source, other jobs write to the    *)
(* same destination, and a job may be told to stop.                        *)
(***************************************************************************)
EXTENDS Integers, Sequences, FiniteSets

CONSTANTS Copiers,     \* jobs
          Content,     \* manifest -> sequence of its descriptors
          Layers,      \* layer -> size
          ChunkSize,
          RetryCnt,    \* blobRetryCnt, chunkRetryCnt
          MaxRuns,     \* MaxFails of the job
          Mountable    \* layers that the destination has in another repository

VARIABLES srcTag,      \* tag -> manifest or "none"
          edits,       \* tags that users of the source have yet to move: <<tag, manifest>>
          dstTag, dstManifest, dstBlob,
          uploads,     \* location -> the bytes received, in their order
          ranged,      \* whether the destination checks Content-Range
          copier,
          troubles,    \* calls that may still fail
          was,         \* every <<reference, manifest>> the destination had
          gone         \* manifests deleted at the destination

transferVars == <<srcTag, edits, dstTag, dstManifest, dstBlob, uploads, ranged, copier, troubles, was, gone>>

RefTags == DOMAIN srcTag
Manifests == DOMAIN Content

---------------------------------------------------------------------------
(* Jobs.                                                                   *)

Frame(ref, override) == [ref |-> ref, man |-> "none", k |-> 1, override |-> override]

Job(kind, refs, override, byChunk) ==
    [kind |-> kind, refs |-> refs, override |-> override, byChunk |-> byChunk, pc |-> "new", i |-> 1, stack |-> <<>>,
     err |-> FALSE, stop |-> FALSE, halted |-> FALSE, runs |-> 1, tries |-> 0, start |-> -1, end |-> -1, location |-> 0,
     result |-> "none", pulled |-> {}, met |-> {}, over |-> {}]

Proceed(j, c) == copier' = [copier EXCEPT ![j] = c]
AtStep(j, pc) == copier[j].pc = pc
Top(j) == copier[j].stack[Len(copier[j].stack)]
SetTop(j, f) == [copier[j].stack EXCEPT ![Len(copier[j].stack)] = f]
Trouble == troubles > 0 /\ troubles' = troubles - 1
Calm == UNCHANGED troubles
AtSource == UNCHANGED <<srcTag, edits>>
AtDestination == UNCHANGED <<dstTag, dstManifest, dstBlob, uploads, ranged, was, gone>>

Conclude(j, result) == [copier[j] EXCEPT !.pc = "over", !.result = result]

\* errStopped ends the copy of all references, without an error.
Stopped(j) == [Conclude(j, "ok") EXCEPT !.halted = TRUE]

\* Another error ends the copy of this reference; the next one is tried.
Failed(j) == [copier[j] EXCEPT !.stack = <<>>, !.err = TRUE, !.i = @ + 1, !.pc = "next"]

\* A nested copy returns to the contents of the index around it.
Returned(j) ==
    IF Len(copier[j].stack) = 1 THEN [copier[j] EXCEPT !.stack = <<>>, !.i = @ + 1, !.pc = "next"]
    ELSE LET n == Len(copier[j].stack) - 1
             rest == SubSeq(copier[j].stack, 1, n)
         IN [copier[j] EXCEPT !.stack = [rest EXCEPT ![n].k = @ + 1], !.pc = "content"]

---------------------------------------------------------------------------
(* The registry client: what a call finds or leaves at a registry.         *)

\* ManifestExist: the digest a tag or a digest stands for, or "none".
ManifestExist(ref) == IF ref \in RefTags THEN dstTag[ref] ELSE IF ref \in dstManifest THEN ref ELSE "none"

\* PullManifest of the source; digests stay there.
PullManifest(ref) == IF ref \in RefTags THEN srcTag[ref] ELSE ref

PushManifest(ref, m) ==
    /\ dstManifest' = dstManifest \union {m}
    /\ dstTag' = IF ref \in RefTags THEN [dstTag EXCEPT ![ref] = m] ELSE dstTag
    /\ was' = was \union {<<ref, m>>, <<m, m>>}

\* By digest, which takes all the tags of the manifest.
DeleteManifest(d) ==
    /\ dstManifest' = dstManifest \ {d}
    /\ dstTag' = [t \in RefTags |-> IF dstTag[t] = d THEN "none" ELSE dstTag[t]]
    /\ gone' = gone \union {d}

BlobExist(b) == b \in dstBlob
MountBlob(b) == dstBlob' = dstBlob \union {b}
PushBlob(b) == dstBlob' = dstBlob \union {b}

\* PullBlobChunk: a range that ends before it starts is refused.
PullBlobChunk(start, end) == start <= end

initiateBlobUpload == Len(uploads) + 1
Bytes(start, n) == [i \in 1..n |-> start + i - 1]

\* The location accepts a chunk: it is known, and the range, where it is
\* checked, goes on from what is there.
Takes(location, start) == location > 0 /\ uploads[location] # <<-1>> /\ (ranged => start = Len(uploads[location]))

\* The digest of the last request is that of the bytes received.
DigestGood(bytes, b) == bytes = Bytes(0, Layers[b])

\* getUploadStatus: the end of what was received.  For an upload still empty
\* registries answer 0-0, or nothing that parses (-2).
getUploadStatus(location) ==
    IF location = 0 \/ uploads[location] = <<-1>> THEN {-2}
    ELSE IF uploads[location] = <<>> THEN {0, -2} ELSE {Len(uploads[location]) - 1}

---------------------------------------------------------------------------
(* copy, copyArtifact.                                                     *)

\* Transfer: the adapters are made, then the job branches.
StartTransfer(j) ==
    /\ AtStep(j, "new")
    /\ \/ Trouble /\ Proceed(j, Conclude(j, "fail"))
       \/ /\ Calm
          /\ Proceed(j, CASE copier[j].kind = "copy" -> [copier[j] EXCEPT !.pc = "next"]
                       [] copier[j].stop -> Stopped(j)
                       [] copier[j].kind = "delete" -> [copier[j] EXCEPT !.pc = "check"]
                       [] OTHER -> [copier[j] EXCEPT !.pc = "untag"])
    /\ AtSource /\ AtDestination

NextReference(j) ==
    /\ AtStep(j, "next")
    /\ Proceed(j, IF copier[j].i > Len(copier[j].refs) THEN Conclude(j, IF copier[j].err THEN "fail" ELSE "ok")
               ELSE [copier[j] EXCEPT !.stack = <<Frame(copier[j].refs[copier[j].i], copier[j].override)>>, !.pc = "pull"])
    /\ Calm /\ AtSource /\ AtDestination

CopyArtifactPull(j) ==
    /\ AtStep(j, "pull")
    /\ LET m == PullManifest(Top(j).ref)
       IN \/ copier[j].stop /\ Calm /\ Proceed(j, Stopped(j))
          \/ ~copier[j].stop /\ Trouble /\ Proceed(j, Failed(j))
          \/ ~copier[j].stop /\ Calm
             /\ Proceed(j, IF m = "none" THEN Failed(j)
                        ELSE [copier[j] EXCEPT !.stack = SetTop(j, [Top(j) EXCEPT !.man = m]), !.pulled = @ \union {<<Top(j).ref, m>>}, !.pc = "exist"])
    /\ AtSource /\ AtDestination

\* Skipped when the same is there, or something else that may not be replaced.
SkipExisting(j) == LET d == ManifestExist(Top(j).ref) IN d = Top(j).man \/ (d # "none" /\ ~Top(j).override)

CopyArtifactExist(j) ==
    /\ AtStep(j, "exist")
    /\ \/ Trouble /\ Proceed(j, Failed(j))
       \/ Calm /\ Proceed(j, LET d == ManifestExist(Top(j).ref)
                              c == IF SkipExisting(j) THEN Returned(j) ELSE [copier[j] EXCEPT !.pc = "content"]
                          IN IF d \in {"none", Top(j).man} THEN c ELSE [c EXCEPT !.met = @ \union {Top(j).ref}])
    /\ AtSource /\ AtDestination

\* As if the last descriptor were overlooked.
ReferencesButLast(m) == SubSeq(Content[m], 1, Len(Content[m]) - 1)
References(m) == Content[m]

\* copyContent, of the next descriptor.  A small layer copied by chunks goes
\* in one request, without a look at the destination.
Attempt(j, b) == IF copier[j].byChunk /\ Layers[b] <= ChunkSize THEN "whole" ELSE "mount"

CopyContent(j) ==
    /\ AtStep(j, "content")
    /\ LET all == References(Top(j).man)
           x == all[Top(j).k]
       IN Proceed(j, IF Top(j).k > Len(all) THEN [copier[j] EXCEPT !.pc = "push"]
                  ELSE CASE x.kind = "manifest" -> [copier[j] EXCEPT !.stack = Append(@, Frame(x.d, TRUE)), !.pc = "pull"]
                         [] x.kind = "foreign" -> [copier[j] EXCEPT !.stack = SetTop(j, [Top(j) EXCEPT !.k = @ + 1])]
                         [] OTHER -> [copier[j] EXCEPT !.tries = 1, !.start = -1, !.end = -1, !.location = 0, !.pc = Attempt(j, x.d)])
    /\ Calm /\ AtSource /\ AtDestination

Layer(j) == References(Top(j).man)[Top(j).k].d
LayerDone(j) == [copier[j] EXCEPT !.stack = SetTop(j, [Top(j) EXCEPT !.k = @ + 1]), !.pc = "content"]

\* copyBlobWithRetry and copyChunkWithRetry: start, end and location stay.
Again(j, c) == IF c.tries >= RetryCnt THEN [Failed(j) EXCEPT !.tries = 0] ELSE [c EXCEPT !.tries = @ + 1, !.pc = Attempt(j, Layer(j))]

TryMountBlob(j) ==
    /\ AtStep(j, "mount")
    /\ \/ /\ copier[j].stop /\ Calm
          /\ Proceed(j, Stopped(j)) /\ UNCHANGED dstBlob
       \/ /\ ~copier[j].stop /\ Trouble
          /\ Proceed(j, Again(j, copier[j]))
          /\ dstBlob' \in {dstBlob} \union {dstBlob \union {b} : b \in {Layer(j)} \intersect Mountable}
       \/ /\ ~copier[j].stop /\ Calm
          /\ IF BlobExist(Layer(j)) THEN Proceed(j, LayerDone(j)) /\ UNCHANGED dstBlob
             ELSE IF Layer(j) \in Mountable THEN Proceed(j, LayerDone(j)) /\ MountBlob(Layer(j))
             ELSE Proceed(j, [copier[j] EXCEPT !.pc = IF copier[j].byChunk THEN "chunk" ELSE "whole"]) /\ UNCHANGED dstBlob
    /\ AtSource /\ UNCHANGED <<dstTag, dstManifest, uploads, ranged, was, gone>>

\* copyBlobByMonolithic: the layer is pulled and pushed in one go; an answer
\* may be lost after the layer is there.
CopyBlobByMonolithic(j) ==
    /\ AtStep(j, "whole")
    /\ \/ Trouble /\ Proceed(j, Again(j, copier[j])) /\ dstBlob' \in {dstBlob, dstBlob \union {Layer(j)}}
       \/ Calm /\ Proceed(j, LayerDone(j)) /\ PushBlob(Layer(j))
    /\ AtSource /\ UNCHANGED <<dstTag, dstManifest, uploads, ranged, was, gone>>

\* copyBlobByChunk: the bounds move on before the chunk is pulled, and stay
\* there when the pull fails.
CopyChunkPull(j) ==
    /\ AtStep(j, "chunk")
    /\ LET start == copier[j].end + 1
           last == Layers[Layer(j)] - 1
           end == IF start + ChunkSize - 1 >= last THEN last ELSE start + ChunkSize - 1
           c == [copier[j] EXCEPT !.start = start, !.end = end]
       IN \/ Trouble /\ Proceed(j, Again(j, c))
          \/ Calm /\ Proceed(j, IF PullBlobChunk(start, end) THEN [c EXCEPT !.pc = "chunkpush"] ELSE Again(j, c))
    /\ AtSource /\ AtDestination

\* PushBlobChunk.  The first chunk starts an upload; when that fails the end
\* is not taken back.  A chunk that fails may have been received in part.
StartUpload(j) ==
    /\ AtStep(j, "chunkpush") /\ copier[j].start = 0
    /\ \/ /\ Trouble /\ UNCHANGED uploads
          /\ Proceed(j, Again(j, [copier[j] EXCEPT !.location = 0]))
       \/ /\ Calm /\ uploads' = Append(uploads, <<>>)
          /\ Proceed(j, [copier[j] EXCEPT !.location = initiateBlobUpload, !.pc = "chunksend"])
    /\ AtSource /\ UNCHANGED <<dstTag, dstManifest, dstBlob, ranged, was, gone>>

GoOnUpload(j) ==
    /\ AtStep(j, "chunkpush") /\ copier[j].start # 0
    /\ Proceed(j, [copier[j] EXCEPT !.pc = "chunksend"])
    /\ Calm /\ AtSource /\ AtDestination

LastChunk(j) == copier[j].end = Layers[Layer(j)] - 1

\* After a failure the end is what the destination says, or the one before
\* this chunk.
AskStatus(j) == [copier[j] EXCEPT !.pc = "status"]

PushBlobChunk(j) ==
    /\ AtStep(j, "chunksend")
    /\ LET c == copier[j]
           sent == c.end - c.start + 1
           got(n) == uploads[c.location] \o Bytes(c.start, n)
           close == [uploads EXCEPT ![c.location] = <<-1>>]
       IN IF ~Takes(c.location, c.start) THEN Calm /\ Proceed(j, AskStatus(j)) /\ UNCHANGED <<uploads, dstBlob>>
          ELSE \/ /\ Trouble /\ Proceed(j, AskStatus(j))
                  /\ \E n \in 0..sent :
                        IF n = sent /\ LastChunk(j)
                        THEN uploads' = close /\ dstBlob' = IF DigestGood(got(n), Layer(j)) THEN dstBlob \union {Layer(j)} ELSE dstBlob
                        ELSE uploads' = [uploads EXCEPT ![c.location] = got(n)] /\ UNCHANGED dstBlob
               \/ /\ Calm
                  /\ IF ~LastChunk(j)
                     THEN uploads' = [uploads EXCEPT ![c.location] = got(sent)] /\ Proceed(j, [c EXCEPT !.pc = "chunk"]) /\ UNCHANGED dstBlob
                     ELSE /\ uploads' = close
                          /\ IF DigestGood(got(sent), Layer(j)) THEN Proceed(j, LayerDone(j)) /\ PushBlob(Layer(j))
                             ELSE Proceed(j, AskStatus(j)) /\ UNCHANGED dstBlob
    /\ AtSource /\ UNCHANGED <<dstTag, dstManifest, ranged, was, gone>>

UploadStatus(j) ==
    /\ AtStep(j, "status")
    /\ LET retry(end) == Proceed(j, Again(j, [copier[j] EXCEPT !.end = end]))
       IN \/ Trouble /\ retry(copier[j].start - 1)
          \/ Calm /\ \E e \in getUploadStatus(copier[j].location) : retry(IF e = -2 THEN copier[j].start - 1 ELSE e)
    /\ AtSource /\ AtDestination

CopyArtifactPush(j) ==
    /\ AtStep(j, "push")
    /\ LET f == Top(j)
           done(c) == [c EXCEPT !.over = IF f.ref \in copier[j].met /\ f.ref \in RefTags THEN @ \union {f.ref} ELSE @]
           nothing == UNCHANGED <<dstTag, dstManifest, was>>
       IN \/ copier[j].stop /\ Calm /\ Proceed(j, Stopped(j)) /\ nothing
          \/ ~copier[j].stop /\ Trouble /\ Proceed(j, done(Failed(j))) /\ (nothing \/ PushManifest(f.ref, f.man))
          \/ ~copier[j].stop /\ Calm /\ Proceed(j, done(Returned(j))) /\ PushManifest(f.ref, f.man)
    /\ AtSource /\ UNCHANGED <<dstBlob, uploads, ranged, gone>>

---------------------------------------------------------------------------
(* delete and deleteTag: the first error ends the job.                     *)

Following(j, pc) == [copier[j] EXCEPT !.i = @ + 1, !.pc = pc]

DeleteCheck(j) ==
    /\ AtStep(j, "check")
    /\ LET ref == copier[j].refs[copier[j].i]
       IN IF copier[j].i > Len(copier[j].refs) THEN Calm /\ Proceed(j, Conclude(j, "ok"))
          ELSE \/ Trouble /\ Proceed(j, Conclude(j, "fail"))
               \/ Calm /\ Proceed(j, IF ManifestExist(ref) = "none" THEN Following(j, "check") ELSE [copier[j] EXCEPT !.pc = "delete"])
    /\ AtSource /\ AtDestination

\* DeleteManifest looks a tag up again.
DeleteAtDst(j) ==
    /\ AtStep(j, "delete")
    /\ LET d == ManifestExist(copier[j].refs[copier[j].i])
           nothing == UNCHANGED <<dstTag, dstManifest, gone>>
       IN \/ Trouble /\ Proceed(j, Conclude(j, "fail")) /\ (nothing \/ (d # "none" /\ DeleteManifest(d)))
          \/ Calm /\ IF d = "none" THEN Proceed(j, Conclude(j, "fail")) /\ nothing
                     ELSE Proceed(j, Following(j, "check")) /\ DeleteManifest(d)
    /\ AtSource /\ UNCHANGED <<dstBlob, uploads, ranged, was>>

DeleteTagAtDst(j) ==
    /\ AtStep(j, "untag")
    /\ LET t == copier[j].refs[copier[j].i]
           cut == dstTag' = [dstTag EXCEPT ![t] = "none"]
       IN IF copier[j].i > Len(copier[j].refs) THEN Calm /\ Proceed(j, Conclude(j, "ok")) /\ UNCHANGED dstTag
          ELSE \/ Trouble /\ Proceed(j, Conclude(j, "fail")) /\ (cut \/ UNCHANGED dstTag)
               \/ Calm /\ Proceed(j, Following(j, "untag")) /\ cut
    /\ AtSource /\ UNCHANGED <<dstManifest, dstBlob, uploads, ranged, was, gone>>

---------------------------------------------------------------------------

\* The job service runs a failed job again, from the beginning.
RunAgain(j) ==
    /\ AtStep(j, "over") /\ copier[j].result = "fail" /\ copier[j].runs < MaxRuns /\ ~copier[j].stop
    /\ Proceed(j, [Job(copier[j].kind, copier[j].refs, copier[j].override, copier[j].byChunk) EXCEPT !.runs = copier[j].runs + 1])
    /\ Calm /\ AtSource /\ AtDestination

StopJob(j) ==
    /\ ~copier[j].stop /\ ~AtStep(j, "over")
    /\ Proceed(j, [copier[j] EXCEPT !.stop = TRUE])
    /\ Calm /\ AtSource /\ AtDestination

MoveTag(e) ==
    /\ edits' = edits \ {e}
    /\ srcTag' = [srcTag EXCEPT ![e[1]] = e[2]]
    /\ UNCHANGED <<copier, troubles>> /\ AtDestination

TransferNext ==
    \/ \E j \in Copiers :
          \/ StartTransfer(j) \/ NextReference(j) \/ CopyArtifactPull(j) \/ CopyArtifactExist(j) \/ CopyContent(j)
          \/ TryMountBlob(j) \/ CopyBlobByMonolithic(j) \/ CopyChunkPull(j) \/ StartUpload(j) \/ GoOnUpload(j)
          \/ PushBlobChunk(j) \/ UploadStatus(j) \/ CopyArtifactPush(j)
          \/ DeleteCheck(j) \/ DeleteAtDst(j) \/ DeleteTagAtDst(j) \/ RunAgain(j) \/ StopJob(j)
    \/ \E e \in edits : MoveTag(e)

---------------------------------------------------------------------------

\* Whatever fails, stops or runs again, a manifest is at the destination only
\* when everything it refers to has been copied there before, foreign layers
\* apart and unless it was deleted.
WholeThere ==
    \A m \in dstManifest : \A i \in DOMAIN Content[m] :
       LET x == Content[m][i]
       IN CASE x.kind = "manifest" -> x.d \in dstManifest \union gone
            [] x.kind = "blob" -> x.d \in dstBlob
            [] OTHER -> TRUE

\* A copy that ends well without having been stopped has put each reference
\* to the manifest that it pulled, or met another one it may not replace.
CopiedAll ==
    \A j \in Copiers : copier[j].kind = "copy" /\ copier[j].result = "ok" /\ ~copier[j].halted =>
       \A i \in DOMAIN copier[j].refs :
          LET ref == copier[j].refs[i]
          IN \E p \in copier[j].pulled : p[1] = ref /\ (p \in was \/ (~copier[j].override /\ ref \in copier[j].met))

\* Without override a tag met with another manifest is not moved.
NotReplaced == \A j \in Copiers : copier[j].over # {} => copier[j].override

TransferSound == WholeThere /\ CopiedAll /\ NotReplaced
=============================================================================
