----------------------------- MODULE ProxyCache -----------------------------
(***************************************************************************)
(* The proxy cache: a project that fronts an upstream registry.  A request *)
(* for a manifest is answered from the local repository, from the cached   *)
(* manifest list, or from upstream (server/middleware/repoproxy), and the  *)
(* answer leaves a goroutine behind that copies what was pulled into the   *)
(* local repository through core's own registry API, or that moves the     *)
(* local tag after a HEAD (controller/proxy).  Upstream moves and removes  *)
(* its tag at any time.                                                    *)
(*                                                                         *)
(* One repository with one tag.  A manifest stands for its own digest: an  *)
(* image is the set of its blobs, an index the set of its images, so an    *)
(* index trimmed of the images that are not local is another manifest.     *)
(***************************************************************************)
EXTENDS Naturals, FiniteSets, SequencesExt

CONSTANTS Pulls,      \* the requests of clients
          Kind,       \* request -> what it asks for: [method, ref]
          Images,     \* the images upstream has
          Indexes,    \* the manifest lists upstream has
          MaxMoves    \* how often the upstream tag moves

VARIABLES upstream,   \* what upstream's tag named until now, None if nothing
          arts,       \* the artifacts of the local repository
          ltag,       \* tag name -> the artifact it names, or None
          lblobs,     \* the blobs of the local repository
          lists,      \* reference -> cached manifest list, or None
          types,      \* the references whose content type is cached
          trimmed,    \* index -> the trimmed index pushed for it, or None
          inflight,   \* what is being pushed to the local repository
          pull        \* request -> its progress

pxLocal == <<arts, ltag, lblobs>>
pxCache == <<lists, types, trimmed>>
pxVars  == <<upstream, arts, ltag, lblobs, lists, types, trimmed, inflight, pull>>

\* manifests and references
TagNames   == {"tag", ""}
None       == [kind |-> "none", of |-> {}]
TagRef     == [kind |-> "tag", of |-> {}]
IsTag(ref) == ref = TagRef
Trims(x)   == {[kind |-> "index", of |-> S] : S \in SUBSET x.of \ {{}}}
Manifests  == Images \union UNION {Trims(x) : x \in Indexes}
ProxyBlobs      == UNION {i.of : i \in Images}
Refs       == {TagRef} \union Manifests
Blob(b)    == [kind |-> "blob", of |-> {b}]
Keys       == Refs \union {Blob(b) : b \in ProxyBlobs}

\* a request: where it is, the artifact or the descriptor it read, the
\* manifest it pulled, the missing blobs, and its answer (content and digest)
Idle  == [pc |-> "start", art |-> None, desc |-> None, wait |-> {}, blob |-> {},
          got |-> None, says |-> None, from |-> "none"]
Over(p) == [p EXCEPT !.pc = "done", !.art = None, !.desc = None, !.wait = {}, !.blob = {}]

ProxyInit ==
    /\ upstream \in {<<m>> : m \in Images \union Indexes}
    /\ arts = {} /\ ltag = [n \in TagNames |-> None] /\ lblobs = {}
    /\ lists = [ref \in Refs |-> None] /\ types = {}
    /\ trimmed = [x \in Indexes |-> None]
    /\ inflight = {}
    /\ pull \in [Pulls -> {Idle, Over(Idle)}]

\* what the local repository has under a reference (localHelper.GetManifest)
GetManifest(ref) == IF IsTag(ref) THEN ltag["tag"]
                    ELSE IF ref \in arts THEN ref ELSE None
\* what upstream has under a reference
Remote(ref) == IF IsTag(ref) THEN Last(upstream) ELSE ref

Ref(r)  == Kind[r].ref
Get(r)  == Kind[r].method = "GET"
To(r, f) == pull' = [pull EXCEPT ![r] = f]
Answer(r, content, digest, from, pc) ==
    [pull[r] EXCEPT !.pc = pc, !.got = content, !.says = digest, !.from = from]
-----------------------------------------------------------------------------
(* Answering.                                                              *)

\* canProxy, and UseLocalManifest up to the HEAD: a pull by digest of what is
\* local needs nothing from upstream; an unhealthy upstream leaves the request
\* to the local repository
UseLocalManifest(r) ==
    /\ pull[r].pc = "start" /\ Kind[r].method \in {"GET", "HEAD"}
    /\ LET a == GetManifest(Ref(r)) IN
         \/ To(r, [pull[r] EXCEPT !.pc = IF a # None /\ ~IsTag(Ref(r)) THEN "local" ELSE "head",
                                  !.art = a])
         \/ To(r, [pull[r] EXCEPT !.pc = "fallback"])
    /\ UNCHANGED <<upstream, pxLocal, pxCache, inflight>>

\* the HEAD to upstream.  What upstream lacks is answered 404 (the deletion of
\* the local manifest that follows names a repository without its project, and
\* the proxy's account may only pull and push: it never deletes anything).
ManifestExist(r) ==
    /\ pull[r].pc = "head"
    /\ LET d == Remote(Ref(r)) IN
         To(r, IF d = None THEN Over(pull[r])
               ELSE [pull[r] EXCEPT !.pc = "list", !.desc = d])
    /\ UNCHANGED <<upstream, pxLocal, pxCache, inflight>>

\* the manifest list cached under the reference, sent with the digest the HEAD
\* returned; without one, the local artifact if its digest is that one
UseCachedList(r) ==
    /\ pull[r].pc = "list"
    /\ LET p == pull[r]
           c == lists[Ref(r)]
       IN To(r, IF c # None
                THEN IF Ref(r) \in types THEN Over(Answer(r, c, p.desc, "list", "done"))
                     ELSE [p EXCEPT !.pc = "remote", !.art = None]
                ELSE IF p.art = p.desc THEN [p EXCEPT !.pc = "local", !.desc = None]
                     ELSE [p EXCEPT !.pc = "remote", !.art = None])
    /\ UNCHANGED <<upstream, pxLocal, pxCache, inflight>>

\* getManifest: the reference is looked up again, and the artifact found now is
\* the one served
ServeLocal(r) ==
    /\ pull[r].pc \in {"local", "fallback"}
    /\ LET a == GetManifest(Ref(r)) IN
         To(r, IF a = None THEN Over(pull[r])
               ELSE Over(Answer(r, a, a, pull[r].pc, "done")))
    /\ UNCHANGED <<upstream, pxLocal, pxCache, inflight>>

\* mutant: the answer carries the digest the first HEAD returned
ProxyManifestOldDigest(r) ==
    /\ pull[r].pc = "remote"
    /\ LET d == Remote(Ref(r)) IN
         \/ To(r, IF d = None THEN Over(pull[r])
                  ELSE IF Get(r) THEN [Answer(r, d, pull[r].desc, "remote", "check") EXCEPT !.desc = d]
                  ELSE [Answer(r, None, d, "remote", "tag") EXCEPT !.desc = d])
         \/ To(r, [pull[r] EXCEPT !.pc = "fallback", !.desc = None])
    /\ UNCHANGED <<upstream, pxLocal, pxCache, inflight>>

\* proxyManifestGet, proxyManifestHead: the manifest, or its descriptor, from
\* upstream as it is now; the goroutine goes on after the answer
ProxyManifest(r) ==
    /\ pull[r].pc = "remote"
    /\ LET d == Remote(Ref(r)) IN
         \/ To(r, IF d = None THEN Over(pull[r])
                  ELSE IF Get(r) THEN [Answer(r, d, d, "remote", "check") EXCEPT !.desc = d]
                  ELSE [Answer(r, None, d, "remote", "tag") EXCEPT !.desc = d])
         \/ To(r, [pull[r] EXCEPT !.pc = "fallback", !.desc = None])
    /\ UNCHANGED <<upstream, pxLocal, pxCache, inflight>>

\* a blob: from the local repository, or from upstream with a goroutine that
\* pulls it a second time to store it
UseLocalBlob(r) ==
    /\ pull[r].pc = "start" /\ Kind[r].method = "BLOB"
    /\ To(r, IF Ref(r).of \subseteq lblobs THEN Over(pull[r])
             ELSE [pull[r] EXCEPT !.pc = "blobs", !.wait = Ref(r).of])
    /\ UNCHANGED <<upstream, pxLocal, pxCache, inflight>>
-----------------------------------------------------------------------------
(* The goroutine of a GET.                                                 *)

\* ProxyManifest's goroutine: nothing is cached if the tag already names what
\* was pulled; a pull by digest is always cached again
NeedsCaching(r) ==
    /\ pull[r].pc = "check"
    /\ LET a == GetManifest(Ref(r))
           d == pull[r].desc
       IN To(r, IF IsTag(Ref(r)) /\ a = d THEN Over(pull[r])
                ELSE [pull[r] EXCEPT !.pc = IF d.kind = "index" THEN "type" ELSE "deps"])
    /\ UNCHANGED <<upstream, pxLocal, pxCache, inflight>>

\* ManifestCache.CacheContent: up to ten looks at the blobs, until all of them
\* are there or the last look found some missing
CheckDependencies(r) ==
    /\ pull[r].pc = "deps"
    /\ To(r, [pull[r] EXCEPT !.pc = "blobs", !.wait = pull[r].desc.of \ lblobs])
    /\ UNCHANGED <<upstream, pxLocal, pxCache, inflight>>

\* putBlobToLocal, PushBlob: a blob somebody else is pushing counts as pushed
StartBlob(r) ==
    /\ pull[r].pc = "blobs" /\ pull[r].wait # {}
    /\ \E b \in pull[r].wait :
         IF Blob(b) \in inflight
         THEN /\ To(r, [pull[r] EXCEPT !.wait = @ \ {b}])
              /\ UNCHANGED inflight
         ELSE /\ To(r, [pull[r] EXCEPT !.pc = "blob", !.wait = @ \ {b}, !.blob = {b}])
              /\ inflight' = inflight \union {Blob(b)}
    /\ UNCHANGED <<upstream, pxLocal, pxCache>>

\* mutant: the mark of a blob is only removed when its upload succeeds
EndBlobLeaking(r) ==
    /\ pull[r].pc = "blob"
    /\ \/ /\ lblobs' = lblobs \union pull[r].blob
          /\ inflight' = inflight \ {Blob(b) : b \in pull[r].blob}
          /\ To(r, [pull[r] EXCEPT !.pc = "blobs", !.blob = {}])
       \/ /\ To(r, Over(pull[r]))
          /\ UNCHANGED <<lblobs, inflight>>
    /\ UNCHANGED <<upstream, arts, ltag, pxCache>>

\* the upload ends; an error ends the goroutine
EndBlob(r) ==
    /\ pull[r].pc = "blob"
    /\ inflight' = inflight \ {Blob(b) : b \in pull[r].blob}
    /\ \/ /\ lblobs' = lblobs \union pull[r].blob
          /\ To(r, [pull[r] EXCEPT !.pc = "blobs", !.blob = {}])
       \/ /\ To(r, Over(pull[r]))
          /\ UNCHANGED lblobs
    /\ UNCHANGED <<upstream, arts, ltag, pxCache>>

BlobsDone(r) ==
    /\ pull[r].pc = "blobs" /\ pull[r].wait = {}
    /\ To(r, IF Get(r) THEN [pull[r] EXCEPT !.pc = "push", !.art = Ref(r)] ELSE Over(pull[r]))
    /\ UNCHANGED <<upstream, pxLocal, pxCache, inflight>>

\* ManifestListCache.CacheContent: the content type is cached before the list,
\* and a failure to cache either is only logged
CacheType(r) ==
    /\ pull[r].pc = "type"
    /\ To(r, [pull[r] EXCEPT !.pc = "payload"])
    /\ types' \in {types, types \union {Ref(r)}}
    /\ UNCHANGED <<upstream, pxLocal, lists, trimmed, inflight>>

CacheList(r) ==
    /\ pull[r].pc = "payload"
    /\ To(r, [pull[r] EXCEPT !.pc = "trim"])
    /\ lists' \in {lists, [lists EXCEPT ![Ref(r)] = pull[r].desc]}
    /\ UNCHANGED <<upstream, pxLocal, types, trimmed, inflight>>

\* push, updateManifestList: up to twenty looks at the images of the index; the
\* last look decides which of them stay.  Under which key the trimmed digest
\* is kept comes from the request: a pull by tag has no digest there.
TrimList(r) ==
    /\ pull[r].pc = "trim"
    /\ LET d   == pull[r].desc
           new == [kind |-> "index", of |-> d.of \intersect arts]
       IN IF new.of = {}
          THEN /\ To(r, Over(pull[r]))
               /\ UNCHANGED trimmed
          ELSE /\ trimmed' \in (IF IsTag(Ref(r)) THEN {trimmed}
                                ELSE {trimmed, [trimmed EXCEPT ![d] = new]})
               /\ To(r, IF GetManifest(Ref(r)) = new THEN Over(pull[r])
                        ELSE [pull[r] EXCEPT !.pc = "push", !.desc = new,
                                             !.art = IF IsTag(Ref(r)) THEN TagRef ELSE new])
    /\ UNCHANGED <<upstream, pxLocal, lists, types, inflight>>

\* PushManifest: a reference somebody else is pushing counts as pushed
StartPush(r) ==
    /\ pull[r].pc = "push"
    /\ IF pull[r].art \in inflight
       THEN To(r, Over(pull[r])) /\ UNCHANGED inflight
       ELSE /\ To(r, [pull[r] EXCEPT !.pc = "put"])
            /\ inflight' = inflight \union {pull[r].art}
    /\ UNCHANGED <<upstream, pxLocal, pxCache>>

\* what the registry and the abstractor ask of a manifest they are given
Complete(m) == IF m.kind = "image" THEN m.of \subseteq lblobs ELSE m.of \subseteq arts

\* mutant: a push by digest moves the tag as well
EndPushTagging(r) ==
    /\ pull[r].pc = "put"
    /\ LET p == pull[r] IN
         /\ inflight' = inflight \ {p.art}
         /\ \/ /\ Complete(p.desc)
               /\ arts' = arts \union {p.desc}
               /\ ltag' = [ltag EXCEPT !["tag"] = p.desc]
            \/ UNCHANGED <<arts, ltag>>
         /\ To(r, Over(p))
    /\ UNCHANGED <<upstream, lblobs, pxCache>>

\* the PUT: the artifact is ensured and, for a push by tag, the tag is moved
EndPush(r) ==
    /\ pull[r].pc = "put"
    /\ LET p == pull[r] IN
         /\ inflight' = inflight \ {p.art}
         /\ \/ /\ Complete(p.desc)
               /\ arts' = arts \union {p.desc}
               /\ ltag' = IF IsTag(p.art) THEN [ltag EXCEPT !["tag"] = p.desc] ELSE ltag
            \/ UNCHANGED <<arts, ltag>>
         /\ To(r, Over(p))
    /\ UNCHANGED <<upstream, lblobs, pxCache>>
-----------------------------------------------------------------------------
(* The goroutine of a HEAD, and the rest of the world.                     *)

\* EnsureTag: up to sixty looks for the artifact, or for the trimmed one, that
\* the HEAD's digest named; the tag of a HEAD by digest is the empty name
EnsureTag(r) ==
    /\ pull[r].pc = "tag"
    /\ LET d == pull[r].desc
           t == IF d.kind = "index" /\ trimmed[d] # None THEN trimmed[d] ELSE d
       IN IF t \in arts
          THEN ltag' = [ltag EXCEPT ![IF IsTag(Ref(r)) THEN "tag" ELSE ""] = t]
          ELSE UNCHANGED ltag
    /\ To(r, Over(pull[r]))
    /\ UNCHANGED <<upstream, arts, lblobs, pxCache, inflight>>

\* mutant: the tags of a deleted artifact stay
DeleteKeepTags(m) ==
    /\ m \in arts /\ \A x \in arts : x.kind = "index" => m \notin x.of
    /\ arts' = arts \ {m}
    /\ UNCHANGED <<upstream, ltag, lblobs, pxCache, inflight, pull>>

\* mutant: an artifact an index refers to is deleted
DeleteChild(m) ==
    /\ m \in arts
    /\ arts' = arts \ {m}
    /\ ltag' = [n \in TagNames |-> IF ltag[n] = m THEN None ELSE ltag[n]]
    /\ UNCHANGED <<upstream, lblobs, pxCache, inflight, pull>>

\* an artifact no index refers to is deleted, its tag with it
DeleteLocal(m) ==
    /\ m \in arts /\ \A x \in arts : x.kind = "index" => m \notin x.of
    /\ arts' = arts \ {m}
    /\ ltag' = [n \in TagNames |-> IF ltag[n] = m THEN None ELSE ltag[n]]
    /\ UNCHANGED <<upstream, lblobs, pxCache, inflight, pull>>

\* the upstream tag moves or is removed
MoveUpstream ==
    /\ Len(upstream) <= MaxMoves
    /\ \E m \in (Images \union Indexes \union {None}) \ {Last(upstream)} :
         upstream' = Append(upstream, m)
    /\ UNCHANGED <<pxLocal, pxCache, inflight, pull>>

\* the two keys of a cached list expire one by one
ExpireList(ref) ==
    /\ \/ /\ lists[ref] # None /\ lists' = [lists EXCEPT ![ref] = None]
          /\ UNCHANGED types
       \/ /\ ref \in types /\ types' = types \ {ref}
          /\ UNCHANGED lists
    /\ UNCHANGED <<upstream, pxLocal, trimmed, inflight, pull>>

PullStep(r) ==
    \/ UseLocalManifest(r) \/ ManifestExist(r) \/ UseCachedList(r) \/ ServeLocal(r)
    \/ ProxyManifest(r) \/ UseLocalBlob(r)
    \/ NeedsCaching(r) \/ CheckDependencies(r) \/ StartBlob(r) \/ EndBlob(r) \/ BlobsDone(r)
    \/ CacheType(r) \/ CacheList(r) \/ TrimList(r) \/ StartPush(r) \/ EndPush(r)
    \/ EnsureTag(r)

ProxyNext ==
    \/ \E r \in Pulls : PullStep(r)
    \/ \E m \in Manifests : DeleteLocal(m)
    \/ \E ref \in Refs : ExpireList(ref)
    \/ MoveUpstream

\* some goroutine runs on
ProxyFairness == WF_pxVars(\E r \in Pulls : PullStep(r))
ProxySpec == ProxyInit /\ [][ProxyNext]_pxVars /\ ProxyFairness
-----------------------------------------------------------------------------
\* m is x, or x trimmed of images that were not local
TrimOf(m, x) == m = x \/ (x.kind = "index" /\ m \in Trims(x))
\* the last time upstream's tag named m, 0 if it never did
Version(m) == Max({0} \union {k \in 1..Len(upstream) : TrimOf(m, upstream[k])})

\* Type correctness of the local repository, the caches and the requests.
ProxyTypeOK ==
    /\ upstream \in Seq(Images \union Indexes \union {None})
    /\ arts \subseteq Manifests /\ lblobs \subseteq ProxyBlobs
    /\ \A n \in TagNames : ltag[n] \in arts \union {None}
    /\ \A ref \in Refs : lists[ref] \in Indexes \union {None}
    /\ \A x \in Indexes : trimmed[x] \in Trims(x) \union {None}
    /\ types \subseteq Refs /\ inflight \subseteq Keys

\* What is served for the tag, from wherever, is something upstream's tag has
\* named, up to the images missing from an index: no answer mixes up references
\* (UseLocalManifest, push, EnsureTag).
ServedSeen ==
    \A r \in Pulls : pull[r].got # None =>
        IF IsTag(Ref(r)) THEN Version(pull[r].got) > 0 ELSE TrimOf(pull[r].got, Ref(r))

\* The digest an answer carries is that of its content, except that a manifest
\* list cached under a tag is sent with the digest the tag has upstream now
\* (UseLocalManifest), which may be another one.
DigestTrue ==
    \A r \in Pulls : pull[r].got # None =>
        \/ pull[r].got = pull[r].says
        \/ IsTag(Ref(r)) /\ pull[r].from = "list" /\ Len(upstream) > 1

\* Whatever was cached can be pulled from the cache: the blobs of a local image
\* and the images of a local index are local (CheckDependencies,
\* updateManifestList), and a tag names a local artifact.
CachedComplete == \A m \in arts : Complete(m)

\* Every request and its goroutine end, and nothing stays marked as being
\* pushed: a mark left behind would keep every later pull from being cached
\* (addRequest, removeRequest).
PushesEnd == <>[](inflight = {} /\ \A r \in Pulls : pull[r].pc = "done")

\* "make sure tags in proxy cache keep update" (proxyManifestHead): the tag is
\* never moved back to a version older than the one it names.
TagKeepsUp ==
    [][\A m \in arts : ltag["tag"] = m /\ ltag'["tag"] \notin {m, None}
                          => Version(ltag'["tag"]) >= Version(m)]_pxVars

\* What the proxy cache serves was seen upstream and is complete, whatever
\* the pulls and the pushes they leave behind do at once.
ProxySound ==
    /\ ProxyTypeOK
    /\ ServedSeen
    /\ DigestTrue
    /\ CachedComplete
=============================================================================
