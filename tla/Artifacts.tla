----------------------------- MODULE Artifacts -----------------------------
(***************************************************************************)
(* Artifacts, their references, tags, accessories and labels, in           *)
(* repositories of different projects.  A request is one transaction: it   *)
(* reads what is committed, asks the matcher about immutable tags, and     *)
(* writes.  Its writes and its commit are one step, since the rows it      *)
(* writes are locked in between; that step checks the unique and foreign   *)
(* keys of the tables and fails as a whole.                                *)
(*                                                                         *)
(* An artifact is a repository and a digest; the number of its row tells a *)
(* row from an earlier row of the same artifact.                           *)
(***************************************************************************)
EXTENDS Naturals, FiniteSets, FiniteSetsExt

CONSTANTS Spaces,      \* repositories, one in each project
          Contents,   \* digests
          Parts,      \* the digests an index lists
          SubjectOf,  \* the digest a signature is for, or "none"
          TagNames,
          Orders      \* requests

ASSUME PartsAssumption ==
    \A d \in Contents : Parts[d] \subseteq Contents \ {d} /\ SubjectOf[d] \in (Contents \ {d}) \union {"none"}

VARIABLES
    aid,        \* table artifact: the number of the row, 0 when there is none
    refRows,    \* table artifact_reference: <<parent, child>>
    tagRow,     \* table tag: [key, id] for a repository and a name
    accRows,    \* table artifact_accessory: <<accessory, subject>>
    labelled,   \* table label_reference: the artifacts with the label
    immutable,  \* the immutable tags of each project
    matcher,    \* the rules in the Matcher of the tag controller
    order,      \* the requests
    serial,     \* the number of the next row
    broken      \* history: what a request did that it must not do

artVars == <<aid, refRows, tagRow, accRows, labelled, immutable, matcher, order, serial, broken>>
tables == <<aid, refRows, tagRow, accRows, labelled, serial, broken>>

ArtKeys == Spaces \X Contents
TagKeys == Spaces \X TagNames
NoTag == [key |-> <<>>, id |-> 0]
Stored == {k \in ArtKeys : aid[k] # 0}

\* What a manifest lists, as artifacts of the same repository.
PartsOf(k) == {<<k[1], d>> : d \in Parts[k[2]]}

\* The row of a signature, for the artifact its tag names.
SignatureOf(k) == IF SubjectOf[k[2]] = "none" THEN {} ELSE {<<k, <<k[1], SubjectOf[k[2]]>>>>}

TagsOf(k) == {t \in TagKeys : tagRow[t].key = k}
AccessoriesOf(k) == {e[1] : e \in {e \in accRows : e[2] = k}}
ChildrenOf(k) == {e[2] : e \in {e \in refRows : e[1] = k}}
RowsOf(K) == {<<k, aid[k]>> : k \in K \cap Stored}

\* A request: what it asks for, how far it is, and what it has read.
Wish(op, repo, dg, tag, from) ==
    [op |-> op, repo |-> repo, dg |-> dg, tag |-> tag, from |-> from, pc |-> "new",
     ensure |-> {}, rows |-> {}, wants |-> {}, links |-> {}, seen |-> {}, rules |-> {}, alone |-> TRUE]

ArtTypeOK ==
    /\ aid \in [ArtKeys -> Nat]
    /\ refRows \subseteq ArtKeys \X ArtKeys /\ accRows \subseteq ArtKeys \X ArtKeys /\ labelled \subseteq ArtKeys
    /\ immutable \in [Spaces -> SUBSET TagNames] /\ matcher \subseteq TagNames

---------------------------------------------------------------------------
(* Steps of a request.                                                     *)

ArtKey(r) == <<order[r].repo, order[r].dg>>
TagKey(r) == <<order[r].repo, order[r].tag>>
OrderAt(r, op, pc) == order[r].op \in op /\ order[r].pc = pc
OverWith(q) == [q EXCEPT !.pc = "over", !.ensure = {}, !.rows = {}, !.wants = {}, !.links = {}, !.seen = {}, !.rules = {}]

\* A request ends without having written.
GiveUp(r) == order' = [order EXCEPT ![r] = OverWith(@)] /\ UNCHANGED tables

\* A request ends, and the others know that they are not alone.
Settle(r) ==
    order' = [s \in Orders |-> IF s = r THEN OverWith(order[r])
                               ELSE [order[s] EXCEPT !.alone = order[s].pc = "new"]]

\* Next comes the matcher when there are tags to ask about.
ReadUp(r, new) == order' = [order EXCEPT ![r] = [new EXCEPT !.pc = "match"]]

\* The rules of the project are loaded into the matcher, once for each tag
\* that exists.
AskMatcher(r) ==
    LET T == {w[1] : w \in order[r].wants}
        seen == {<<t, tagRow[t]>> : t \in T}
        asks == \E t \in T : tagRow[t] # NoTag
    IN
    /\ order[r].pc = "match"
    /\ matcher' = IF asks THEN immutable[order[r].repo] ELSE matcher
    /\ order' = [order EXCEPT ![r].pc = "write", ![r].seen = seen,
                              ![r].rules = IF asks THEN immutable[order[r].repo] ELSE {}]
    /\ UNCHANGED <<tables, immutable>>

---------------------------------------------------------------------------
(* Pushing and copying.                                                    *)

\* handlePush of the middleware asks the matcher first, for a tag that is
\* there.
HandlePush(r) ==
    LET t == TagKey(r)
        there == order[r].tag # "none" /\ tagRow[t] # NoTag
    IN
    /\ OrderAt(r, {"push"}, "new")
    /\ matcher' = IF there THEN immutable[t[1]] ELSE matcher
    /\ order' = [order EXCEPT ![r].pc = "guard", ![r].seen = IF there THEN {<<t, tagRow[t]>>} ELSE {}]
    /\ UNCHANGED <<tables, immutable>>

\* PUT manifest: Ensure reads the artifact or, when it is new, the artifacts
\* that it lists.
PutManifest(r) ==
    LET k == ArtKey(r)
        t == TagKey(r)
        refused == order[r].seen # {} /\ t[2] \in matcher
    IN
    /\ OrderAt(r, {"push"}, "guard")
    /\ IF refused \/ (k \notin Stored /\ ~(PartsOf(k) \subseteq Stored)) THEN GiveUp(r)
       ELSE /\ ReadUp(r, [order[r] EXCEPT
                  !.ensure = {k}, !.rows = RowsOf({k} \union PartsOf(k)),
                  !.wants = IF order[r].tag = "none" THEN {} ELSE {<<t, k>>},
                  !.links = SignatureOf(k), !.seen = {}])
            /\ UNCHANGED tables
    /\ UNCHANGED <<immutable, matcher>>

\* copyDeeply: what is to be ensured in the other repository.  A child or a
\* signature that is there already is left alone; a root that is there only
\* gets its tags.
RECURSIVE CopyDeeply(_, _, _, _)
CopyDeeply(C, k, repo, isAcc) ==
    LET to == <<repo, k[2]>>
        isRoot == C.ensure = {} /\ C.root = k
        kids == FoldSet(LAMBDA c, D : CopyDeeply(D, c, repo, FALSE), [C EXCEPT !.root = <<>>], ChildrenOf(k))
        accs == IF isAcc THEN {} ELSE AccessoriesOf(k)
        sigs == FoldSet(LAMBDA a, D : CopyDeeply(D, a, repo, TRUE), kids, accs)
        deep == IF to \in Stored THEN C
                ELSE [sigs EXCEPT !.links = @ \union {<<<<repo, a[2]>>, to>> : a \in accs}]
    IN IF to \in C.ensure \/ (to \in Stored /\ ~isRoot) THEN C
       ELSE [deep EXCEPT !.ensure = @ \union {to}, !.wants = @ \union {<<<<repo, t[2]>>, to>> : t \in TagsOf(k)}]

\* CopyArtifact of the API.
CopyArtifact(r) ==
    LET k == <<order[r].from, order[r].dg>>
        to == ArtKey(r)
        plan == CopyDeeply([ensure |-> {}, wants |-> {}, links |-> {}, root |-> k], k, order[r].repo, FALSE)
    IN
    /\ OrderAt(r, {"copy"}, "new")
    /\ IF k \notin Stored \/ \E e \in accRows : e[1] = k THEN GiveUp(r)
       ELSE /\ ReadUp(r, [order[r] EXCEPT
                  !.ensure = plan.ensure, !.wants = plan.wants, !.links = plan.links,
                  !.rows = RowsOf({<<order[r].repo, d>> : d \in Contents})])
            /\ UNCHANGED tables
    /\ UNCHANGED <<immutable, matcher>>

\* The rows a request has read are still there.
SameRow(r, k) == aid[k] # 0 /\ (\A e \in order[r].rows : e[1] = k => e[2] = aid[k])

\* A tag that a request found immutable in its own project stays as it is, if
\* the matcher still holds the rules of that project.
Guarded(r, new) ==
    matcher = order[r].rules =>
        \A t \in TagKeys : t[2] \in order[r].rules /\ t[1] = order[r].repo /\ tagRow[t] # NoTag => new[t] = tagRow[t]

\* All that belongs to an artifact: what it lists, and the signatures.
Belongings(k) ==
    LET more(S) == S \union UNION {ChildrenOf(x) \union AccessoriesOf(x) : x \in S}
        grown[n \in Nat] == IF n = 0 THEN {k} ELSE more(grown[n - 1])
    IN grown[Cardinality(Contents)]

\* A copy that nothing came in between of takes all that belongs to the
\* artifact, with the tags and the signatures, when none of it was there.
CopiedWhole(r, made, newTags, links) ==
    LET src == Belongings(<<order[r].from, order[r].dg>>)
        dst(k) == <<order[r].repo, k[2]>>
    IN order[r].op = "copy" /\ order[r].alone /\ (\A k \in src : dst(k) \notin Stored) =>
          /\ made = {dst(k) : k \in src}
          /\ links = {<<dst(e[1]), dst(e[2])>> : e \in {e \in accRows : e[2] \in src}}
          /\ \A k \in src : \A t \in TagsOf(k) : newTags[<<order[r].repo, t[2]>>] # NoTag

\* Mutant: the row of another tag is taken whatever the rules say.
EnsureTagUnchecked(kept, seen, now, k, id) ==
    IF seen = NoTag THEN IF now = NoTag THEN [key |-> k, id |-> id] ELSE now
    ELSE IF seen.id = now.id THEN [now EXCEPT !.key = k] ELSE NoTag

\* tag.Ensure: a tag is made, unless somebody has made it meanwhile; it is
\* moved, unless it is immutable or gone (NoTag for the failure).
EnsureTag(kept, seen, now, k, id) ==
    IF seen = NoTag THEN IF now = NoTag THEN [key |-> k, id |-> id] ELSE now
    ELSE IF seen.key = k THEN now
    ELSE IF kept \/ seen.id # now.id THEN NoTag
    ELSE [now EXCEPT !.key = k]

\* ensureArtifact: the artifacts that are still missing.
Missing(r) == {k \in order[r].ensure : aid[k] = 0 /\ \A e \in order[r].rows : e[1] # k}

\* The rows of accessories to make: a copy leaves one that is there.
NewLinks(r) == {l \in order[r].links : order[r].op = "push" \/ \A e \in accRows : e[1] # l[1]}

\* Ensure of every artifact planned: rows and references of those that are
\* still missing, then tags, then accessories.
EnsureAll(r) ==
    LET q == order[r]
        made == Missing(r)
        there == {k \in ArtKeys : k \in made \/ SameRow(r, k)}
        tag(t, k, seen) == EnsureTag(t[2] \in matcher, seen, tagRow[t], k, serial)
        tags == {<<w[1], tag(w[1], w[2], s[2])>> : <<w, s>> \in {x \in q.wants \X q.seen : x[1][1] = x[2][1]}}
        fails == \/ \E k \in made : ~(PartsOf(k) \subseteq there)
                 \/ \E x \in tags : x[2] = NoTag \/ (x[2] # tagRow[x[1]] /\ x[2].key \notin there)
                 \/ \E l \in q.links : l[1] \notin there \/ l[2] \notin there
        newTags == [t \in TagKeys |-> IF \E x \in tags : x[1] = t THEN (CHOOSE x \in tags : x[1] = t)[2] ELSE tagRow[t]]
        links == NewLinks(r)
    IN
    /\ OrderAt(r, {"push", "copy"}, "write")
    /\ IF fails THEN GiveUp(r)
       ELSE /\ aid' = [k \in ArtKeys |-> IF k \in made THEN serial ELSE aid[k]]
            /\ refRows' = refRows \union UNION {{k} \X PartsOf(k) : k \in made}
            /\ tagRow' = newTags
            /\ accRows' = accRows \union links
            /\ serial' = serial + 1
            /\ broken' = broken \union (IF Guarded(r, newTags) THEN {} ELSE {"immutable"})
                                 \union (IF CopiedWhole(r, made, newTags, links) THEN {} ELSE {"copy"})
            /\ Settle(r)
            /\ UNCHANGED labelled
    /\ UNCHANGED <<immutable, matcher>>
---------------------------------------------------------------------------
(* Deleting.                                                               *)

\* deleteDeeply: what goes with an artifact.  A root must not be listed by
\* others and loses its tags; a child stays when it has tags or is listed by
\* others; signatures go as roots.
RECURSIVE DeleteDeeply(_, _, _)
DeleteDeeply(D, k, isRoot) ==
    LET parents == {e \in refRows \ D.cut : e[2] = k /\ e[1] \notin D.gone}
        sigs == FoldSet(LAMBDA a, E : DeleteDeeply(E, a, TRUE), D, AccessoriesOf(k))
        kids == FoldSet(LAMBDA c, E : DeleteDeeply([E EXCEPT !.cut = @ \union {<<k, c>>}], c, FALSE), sigs, ChildrenOf(k))
    IN IF k \in D.gone \/ (~isRoot /\ (TagsOf(k) # {} \/ parents # {})) THEN D
       ELSE IF isRoot /\ parents # {} THEN [D EXCEPT !.err = TRUE]
       ELSE [kids EXCEPT !.gone = @ \union {k}, !.tags = IF isRoot THEN @ \union TagsOf(k) ELSE @]

\* DELETE of an artifact: all that goes is read before anything is deleted.
DeleteArtifact(r) ==
    LET k == ArtKey(r)
        plan == DeleteDeeply([gone |-> {}, cut |-> {}, tags |-> {}, err |-> FALSE], k, TRUE)
    IN
    /\ OrderAt(r, {"delete"}, "new")
    /\ IF k \notin Stored \/ plan.err THEN GiveUp(r)
       ELSE /\ ReadUp(r, [order[r] EXCEPT !.ensure = plan.gone, !.rows = RowsOf(plan.gone),
                                          !.wants = {<<t, tagRow[t].key>> : t \in plan.tags}])
            /\ UNCHANGED tables
    /\ UNCHANGED <<immutable, matcher>>

\* What is no longer needed once an artifact goes, said without an order.
Unneeded(k) ==
    LET more(S) == S \union UNION {AccessoriesOf(x) : x \in S}
                     \union {c \in UNION {ChildrenOf(x) : x \in S} :
                                TagsOf(c) = {} /\ \A e \in refRows : e[2] = c => e[1] \in S}
        grown[n \in Nat] == IF n = 0 THEN {k} ELSE more(grown[n - 1])
    IN grown[Cardinality(Contents)]

\* DeleteTags: every tag is still there and none is immutable.
TagsMayGo(r) == \A s \in order[r].seen : tagRow[s[1]].id = s[2].id /\ s[1][2] \notin matcher

\* The foreign keys: rows that stay refer to artifacts that go.
Referred(gone, tags) ==
    \/ \E t \in TagKeys \ tags : tagRow[t].key \in gone
    \/ \E e \in refRows \union accRows : e[2] \in gone /\ e[1] \notin gone

\* Tags go by their row, wherever they point now; rows that still refer to
\* what goes make the transaction fail.
EraseRows(r) ==
    LET q == order[r]
        gone == {k \in q.ensure : SameRow(r, k)}
        tags == {s[1] : s \in q.seen}
        newTags == [t \in TagKeys |-> IF t \in tags THEN NoTag ELSE tagRow[t]]
        fails == ArtKey(r) \notin gone \/ ~TagsMayGo(r) \/ Referred(gone, tags)
    IN
    /\ OrderAt(r, {"delete"}, "write")
    /\ IF fails THEN GiveUp(r)
       ELSE /\ aid' = [k \in ArtKeys |-> IF k \in gone THEN 0 ELSE aid[k]]
            /\ refRows' = {e \in refRows : e[1] \notin gone}
            /\ tagRow' = newTags
            /\ accRows' = {e \in accRows : e[1] \notin gone}
            /\ labelled' = labelled \ gone
            /\ broken' = broken \union (IF Guarded(r, newTags) THEN {} ELSE {"immutable"})
                                 \union (IF q.alone => gone = Unneeded(ArtKey(r)) THEN {} ELSE {"delete"})
            /\ Settle(r)
            /\ UNCHANGED serial
    /\ UNCHANGED <<immutable, matcher>>

---------------------------------------------------------------------------
(* Tags, labels and rules.                                                 *)

\* CreateTag and DeleteTag of the API find the artifact, and the tag on it.
FindTag(r) ==
    LET k == ArtKey(r)
        t == TagKey(r)
    IN
    /\ OrderAt(r, {"tag", "untag"}, "new")
    /\ IF k \notin Stored \/ (order[r].op = "untag" /\ tagRow[t].key # k) THEN GiveUp(r)
       ELSE /\ order' = [order EXCEPT ![r].pc = IF order[r].op = "tag" THEN "write" ELSE "match",
                                      ![r].rows = RowsOf({k}), ![r].wants = {<<t, k>>}]
            /\ UNCHANGED tables
    /\ UNCHANGED <<immutable, matcher>>

\* The insertion fails when the tag or not the artifact is there.
CreateTag(r) ==
    LET t == TagKey(r) IN
    /\ OrderAt(r, {"tag"}, "write")
    /\ IF tagRow[t] # NoTag \/ ~SameRow(r, ArtKey(r)) THEN GiveUp(r)
       ELSE /\ tagRow' = [tagRow EXCEPT ![t] = [key |-> ArtKey(r), id |-> serial]]
            /\ serial' = serial + 1 /\ Settle(r)
            /\ UNCHANGED <<aid, refRows, accRows, labelled, broken>>
    /\ UNCHANGED <<immutable, matcher>>

\* The row of the tag goes, whatever artifact it has come to point to.
DeleteTag(r) ==
    LET t == TagKey(r)
        newTags == [tagRow EXCEPT ![t] = NoTag]
    IN
    /\ OrderAt(r, {"untag"}, "write")
    /\ IF t[2] \in matcher \/ (\E s \in order[r].seen : s[2] = NoTag \/ s[2].id # tagRow[t].id) THEN GiveUp(r)
       ELSE /\ tagRow' = newTags
            /\ broken' = broken \union (IF Guarded(r, newTags) THEN {} ELSE {"immutable"})
            /\ Settle(r)
            /\ UNCHANGED <<aid, refRows, accRows, labelled, serial>>
    /\ UNCHANGED <<immutable, matcher>>

\* AddLabel: found, then labelled unless it has gone or is labelled.
AddLabel(r) ==
    \/ /\ OrderAt(r, {"label"}, "new") /\ ArtKey(r) \in Stored
       /\ order' = [order EXCEPT ![r].pc = "write", ![r].rows = RowsOf({ArtKey(r)})]
       /\ UNCHANGED <<tables, immutable, matcher>>
    \/ /\ OrderAt(r, {"label"}, "write")
       /\ IF ArtKey(r) \in labelled \/ ~SameRow(r, ArtKey(r)) THEN GiveUp(r)
          ELSE /\ labelled' = labelled \union {ArtKey(r)} /\ Settle(r)
               /\ UNCHANGED <<aid, refRows, tagRow, accRows, serial, broken>>
       /\ UNCHANGED <<immutable, matcher>>

\* An immutable rule is made or switched off.
ChangeRule(r) ==
    /\ OrderAt(r, {"rule"}, "new")
    /\ immutable' = [immutable EXCEPT ![order[r].repo] =
                        IF order[r].tag \in @ THEN @ \ {order[r].tag} ELSE @ \union {order[r].tag}]
    /\ Settle(r)
    /\ UNCHANGED <<tables, matcher>>

ArtNext ==
    \E r \in Orders : \/ HandlePush(r) \/ PutManifest(r) \/ CopyArtifact(r) \/ DeleteArtifact(r) \/ FindTag(r)
                      \/ AskMatcher(r) \/ EnsureAll(r) \/ EraseRows(r) \/ CreateTag(r) \/ DeleteTag(r)
                      \/ AddLabel(r) \/ ChangeRule(r)

---------------------------------------------------------------------------
(* Properties.                                                             *)

\* Whatever requests cross, an index keeps everything it lists, a signature
\* its subject, a tag and a label their artifact; the references are exactly
\* those of the manifests.
IndexWhole ==
    /\ \A k \in Stored : PartsOf(k) \subseteq Stored
    /\ refRows = UNION {{k} \X PartsOf(k) : k \in Stored}
    /\ \A e \in accRows : e[1] \in Stored /\ e[2] \in Stored
    /\ \A t \in TagKeys : tagRow[t] # NoTag => tagRow[t].key \in Stored
    /\ labelled \subseteq Stored

\* No request moves or deletes a tag that it found immutable, unless another
\* request has loaded the rules of another project into the matcher; and what
\* a copy takes, or a deletion deletes, is what the references say, however
\* deep and shared, when no request comes in between.
AsPlanned == broken = {}

\* Artifacts, tags and accessories stay together through every request.
ArtifactsSound ==
    /\ ArtTypeOK
    /\ IndexWhole
    /\ AsPlanned
=============================================================================
