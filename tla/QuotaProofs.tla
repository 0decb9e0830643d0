----------------------------- MODULE QuotaProofs ----------------------------
(***************************************************************************)
(* Theorems about Quota, for any blobs, sizes, limits and requests: the    *)
(* usage covers what is stored, and no update of it is lost.  First the    *)
(* inductive invariant and what of it is about the rows and their locks.   *)
(***************************************************************************)
EXTENDS Quota, TLAPS

-----------------------------------------------------------------------------
(* The inductive invariant.                                                *)

\* What each kind of request can be doing.  calc of a count is a sum of
\* sizes; a reservation of an upload is the size of its blob.
PhaseOf(r, q) ==
    /\ r \in Pushes => q.pc \notin {"calc", "reload", "retry", "sethard"}
    /\ r \in Uploads => q.pc # "commit"
    /\ r \in Counting => q.pc \notin {"work", "reload", "retry", "sethard"}
    /\ r \in Recounts => q.pc # "commit"
    /\ r \in Admins => q.pc \notin {"hard", "again", "used", "calc", "check", "work"}
    /\ q.pc \in {"hard", "again", "used", "calc", "check"} =>
          /\ q.op \in {"reserve", "rollback", "refresh"}
          /\ q.op = "refresh" <=> r \in Counting
          /\ q.op = "rollback" => r \in Uploads
    /\ r \in Counting /\ q.pc \in {"check", "commit"} => q.calc >= 0
    /\ r \in Admins => q.calc \in Limits \union {0} /\ q.lim.ver >= -1
    /\ r \notin Deletes => q.gone = {}
    /\ r \in Pushes => q.free \subseteq Content[r]
    /\ r \in Uploads /\ q.op # "none" => q.res = Bytes[{HeadOf[r]}]
    /\ q.op = "none" => q.res = 0
    /\ q.pc \in {"idle"} \union RequestOver => q = Ended(q.pc)

Phases == \A r \in Requests : PhaseOf(r, req[r])

\* Optimistic lock: a row that was read under the present version is the
\* present row; a row that was written and not committed is the next version,
\* and only one transaction has written it.
VersionOf(r, q, u) ==
    /\ q.pc \in {"calc", "check"} =>
          /\ q.seen.val >= 0 /\ q.seen.ver >= 0 /\ q.seen.ver <= u.ver
          /\ q.seen.ver = u.ver => q.seen = u
    /\ q.mine # NoRow =>
          /\ InTx(r) /\ q.pc \in {"work", "commit"}
          /\ q.mine.ver = u.ver + 1 /\ q.mine.val >= 0
          /\ r \in ManifestPuts => q.mine.val = u.val + q.res
    /\ r \in ManifestPuts /\ q.pc \in {"work", "commit"} /\ q.mine = NoRow => q.res = 0
    /\ r \in Deletes /\ q.pc = "commit" => q.mine # NoRow
    /\ r \in Admins => q.mine = NoRow
    /\ q.limit # NoRow => q.limit \in [val : Nat \union {-1}, ver : Nat]

Versions ==
    /\ \A r \in Requests : VersionOf(r, req[r], usage)
    /\ \A r, o \in Requests : req[r].mine # NoRow /\ req[o].mine # NoRow => r = o

\* A manifest and what it refers to stay together, also in the eyes of a
\* deletion that has not been committed.
Closed ==
    /\ \A m \in ArtifactPuts : HeadOf[m] \in assoc => Content[m] \subseteq assoc
    /\ \A d \in Deletes, m \in ArtifactPuts :
          req[d].gone \intersect Content[m] # {} => HeadOf[m] \notin assoc \ req[d].gone
    /\ \A d \in Deletes, p \in ManifestPuts : req[p].pc = "commit" => req[d].gone \intersect Content[p] = {}

\* The usage covers what is stored and what uploads have reserved; so does a
\* count that is still current; and a push has paid for what it adds.
Covered ==
    ~overlap =>
        /\ Bytes[assoc] + UploadBytes[Pending] <= usage.val
        /\ \A r \in Counting : req[r].pc = "check" /\ req[r].seen.ver = usage.ver =>
              Bytes[assoc \ req[r].gone] + UploadBytes[Pending] <= req[r].calc
        /\ \A r \in Deletes : req[r].mine # NoRow =>
              Bytes[assoc \ req[r].gone] + UploadBytes[Pending] <= req[r].mine.val
        /\ \A p \in ManifestPuts : req[p].pc = "commit" => req[p].free \subseteq assoc

Paid == \A p \in Pushes : req[p].pc \notin {"idle"} \union RequestOver => Bytes[Content[p] \ req[p].free] <= req[p].res

QuotaInv == QuotaTypeOK /\ Phases /\ Versions /\ Closed /\ Covered /\ Paid

-----------------------------------------------------------------------------
(* Type correctness.                                                       *)

\* Assignments to the fields of a request keep it well formed.
LEMMA RequestTypes ==
    ASSUME NEW q \in RequestType
    PROVE  /\ \A p \in {"used", "check", "work", "commit", "again", "retry"} : [q EXCEPT !.pc = p] \in RequestType
           /\ \A w \in Rows, p \in {"calc", "check"} : [q EXCEPT !.pc = p, !.seen = w] \in RequestType
           /\ \A w \in Rows, p \in {"used", "sethard"} : [q EXCEPT !.pc = p, !.lim = w] \in RequestType
           /\ \A w \in Rows, p \in {"work", "commit"} : [q EXCEPT !.pc = p, !.mine = w] \in RequestType
           /\ \A w \in Rows : [q EXCEPT !.pc = "commit", !.limit = w] \in RequestType
           /\ \A n \in Int : [q EXCEPT !.pc = "check", !.calc = n] \in RequestType
           /\ \A n \in Int, w \in Rows : [q EXCEPT !.pc = "reload", !.calc = n, !.seen = w] \in RequestType
           /\ \A S \in SUBSET Blobs : [q EXCEPT !.gone = S] \in RequestType /\ [q EXCEPT !.free = S] \in RequestType
           /\ \A op \in {"reserve", "rollback", "refresh"}, n \in Nat :
                  [q EXCEPT !.pc = "hard", !.op = op, !.res = n] \in RequestType
  <1>1. \A p \in {"used", "check", "work", "commit", "again", "retry"} : [q EXCEPT !.pc = p] \in RequestType
    BY Zenon DEF RequestType
  <1>2. \A w \in Rows, p \in {"calc", "check"} : [q EXCEPT !.pc = p, !.seen = w] \in RequestType
    BY Zenon DEF RequestType
  <1>3. \A w \in Rows, p \in {"used", "sethard"} : [q EXCEPT !.pc = p, !.lim = w] \in RequestType
    BY Zenon DEF RequestType
  <1>4. \A w \in Rows, p \in {"work", "commit"} : [q EXCEPT !.pc = p, !.mine = w] \in RequestType
    BY Zenon DEF RequestType
  <1>5. \A w \in Rows : [q EXCEPT !.pc = "commit", !.limit = w] \in RequestType
    BY Zenon DEF RequestType
  <1>6. \A n \in Int : [q EXCEPT !.pc = "check", !.calc = n] \in RequestType
    BY Zenon DEF RequestType
  <1>7. \A n \in Int, w \in Rows : [q EXCEPT !.pc = "reload", !.calc = n, !.seen = w] \in RequestType
    BY Zenon DEF RequestType
  <1>8. \A S \in SUBSET Blobs : [q EXCEPT !.gone = S] \in RequestType /\ [q EXCEPT !.free = S] \in RequestType
    BY Zenon DEF RequestType
  <1>9. \A op \in {"reserve", "rollback", "refresh"}, n \in Nat :
                  [q EXCEPT !.pc = "hard", !.op = op, !.res = n] \in RequestType
    BY Zenon DEF RequestType
  <1> QED BY <1>1, <1>2, <1>3, <1>4, <1>5, <1>6, <1>7, <1>8, <1>9, Zenon

\* So is a request that is over.
LEMMA EndedType == \A p \in {"idle"} \union RequestOver : Ended(p) \in RequestType
  BY DEF Ended, Fresh, RequestType, NoRow, Rows

\* A row that is written is well formed: a reservation and a count are not
\* negative, and a roll back is not allowed to be.
LEMMA NewUsageType ==
    ASSUME QuotaInv, NEW r \in Requests, req[r].pc = "check", Allowed(r)
    PROVE  NewUsage(r) \in Nat /\ req[r].seen.ver + 1 \in Nat
  <1>1. req[r] \in RequestType
    BY Zenon DEF QuotaInv, QuotaTypeOK
  <1>2. req[r].op \in {"reserve", "rollback", "refresh"} /\ (req[r].op = "refresh" => r \in Counting)
    BY Zenon DEF QuotaInv, Phases, PhaseOf
  <1>3. req[r].seen.val \in Nat /\ req[r].seen.ver \in Nat /\ req[r].res \in Nat
    BY <1>1 DEF QuotaInv, Versions, VersionOf, RequestType, Rows
  <1>4. req[r].op = "refresh" => req[r].calc \in Nat
    <2>1. req[r].op = "refresh" => req[r].calc >= 0
      BY <1>2, Zenon DEF QuotaInv, Phases, PhaseOf
    <2> QED BY <2>1, <1>1 DEF RequestType
  <1>5. CASE req[r].op = "reserve"
    BY <1>3, <1>5 DEF NewUsage
  <1>6. CASE req[r].op = "rollback"
    <2>1. NewUsage(r) = req[r].seen.val - req[r].res
      BY <1>6, Zenon DEF NewUsage
    <2>2. NewUsage(r) >= 0
      BY <1>6, Zenon DEF Allowed
    <2> QED BY <1>3, <2>1, <2>2
  <1>7. CASE req[r].op = "refresh"
    BY <1>3, <1>4, <1>7 DEF NewUsage
  <1> QED BY <1>2, <1>5, <1>6, <1>7, Zenon

\* Every step keeps the rows and the requests well formed.
LEMMA TypeStep == QuotaInv /\ [QuotaNext]_quotaVars => QuotaTypeOK'
  <1> SUFFICES ASSUME QuotaInv, [QuotaNext]_quotaVars PROVE QuotaTypeOK'
    BY Zenon
  <1>a. QuotaTypeOK /\ \A r \in Requests : req[r] \in RequestType
    BY Zenon DEF QuotaInv, QuotaTypeOK
  <1>b. \A p \in {"idle"} \union RequestOver : Ended(p) \in RequestType
    BY EndedType, Zenon
  <1>c. hard \in Rows /\ usage \in Rows
    BY <1>a DEF QuotaTypeOK, Rows
  <1>d. \A r \in Requests, q \in RequestType : [req EXCEPT ![r] = q] \in [Requests -> RequestType]
    BY <1>a, Zenon DEF QuotaTypeOK
  <1>1. ASSUME NEW r \in Requests, GetHard(r) PROVE QuotaTypeOK'
    <2>1. [req[r] EXCEPT !.pc = "used", !.lim = hard] \in RequestType
      BY <1>a, <1>c, RequestTypes, Zenon
    <2> QED BY <1>1, <2>1, <1>a, <1>d, Zenon DEF GetHard, QuotaTypeOK
  <1>2. ASSUME NEW r \in Requests, GetUsed(r) PROVE QuotaTypeOK'
    <2>1. UsageOf(r) \in Rows
      BY <1>a, <1>c, Zenon DEF UsageOf, RequestType
    <2>2. \A p \in {"calc", "check"} : [req[r] EXCEPT !.pc = p, !.seen = UsageOf(r)] \in RequestType
      BY <2>1, <1>a, RequestTypes, Zenon
    <2> QED BY <1>2, <2>2, <1>a, <1>d, Zenon DEF GetUsed, QuotaTypeOK
  <1>3. ASSUME NEW r \in Requests, CalculateUsage(r) PROVE QuotaTypeOK'
    <2>1. Bytes[AssocOf(r)] \in Int
      BY <1>a, QuotaAssumption DEF AssocOf, QuotaTypeOK
    <2>2. [req[r] EXCEPT !.pc = "check", !.calc = Bytes[AssocOf(r)]] \in RequestType
      BY <2>1, <1>a, RequestTypes, Zenon
    <2> QED BY <1>3, <2>2, <1>a, <1>d, Zenon DEF CalculateUsage, QuotaTypeOK
  <1>4. ASSUME NEW r \in Requests, Refuse(r) PROVE QuotaTypeOK'
    BY <1>4, <1>a, <1>b, <1>d, Zenon DEF Refuse, QuotaTypeOK, RequestOver
  <1>5. ASSUME NEW r \in Requests, UpdateUsage(r) PROVE QuotaTypeOK'
    <2> DEFINE row == [val |-> NewUsage(r), ver |-> req[r].seen.ver + 1]
    <2>1. row \in [val : Nat, ver : Nat] /\ row \in Rows
      BY <1>5, NewUsageType DEF UpdateUsage, Rows
    <2>2. AfterUpdate(r) \in {"work", "failed", "commit", "done"}
      BY Zenon DEF AfterUpdate
    <2>3. Stepped(req[r], AfterUpdate(r)) \in RequestType
      BY <2>2, <1>a, <1>b, RequestTypes, Zenon DEF Stepped, RequestOver
    <2>4. InTx(r) => AfterUpdate(r) \in {"work", "commit"}
      BY <1>5, QuotaAssumption, Zenon DEF QuotaInv, Phases, PhaseOf, AfterUpdate, UpdateUsage, InTx,
         Pushes, Counting
    <2>5. InTx(r) => [req[r] EXCEPT !.pc = AfterUpdate(r), !.mine = row] \in RequestType
      BY <2>1, <2>4, <1>a, RequestTypes, Zenon
    <2>6. [req[r] EXCEPT !.pc = "again"] \in RequestType
      BY <1>a, RequestTypes, Zenon
    <2> QED BY <1>5, <2>1, <2>3, <2>5, <2>6, <1>a, <1>d DEF UpdateUsage, QuotaTypeOK, Goto
  <1>6. ASSUME NEW r \in Requests, RetryTimeout(r) \/ UpdateTimeout(r) PROVE QuotaTypeOK'
    BY <1>6, <1>a, <1>b, <1>d DEF RetryTimeout, UpdateTimeout, QuotaTypeOK, RequestOver
  <1>7. ASSUME NEW r \in Pushes, Admit(r) PROVE QuotaTypeOK'
    <2>1. r \in Requests /\ Content[r] \subseteq Blobs /\ HeadOf[r] \in Blobs
      BY QuotaAssumption, SizesAssumption, Zenon DEF Requests
    <2>2. Charge(r) \in Nat
      <3>1. Bytes[{HeadOf[r]}] \in Nat /\ Bytes[Content[r] \ AssocOf(r)] \in Nat
        BY <2>1, QuotaAssumption
      <3> QED BY <3>1, Zenon DEF Charge, PutBlobUploadResources, PostInitiateBlobUploadResources,
                   PutManifestResources, CopyArtifactResources
    <2>3. Content[r] \intersect assoc \in SUBSET Blobs
      BY <2>1, Zenon
    <2>4. [req[r] EXCEPT !.pc = "work"] \in RequestType /\ Updating(r, "reserve", Charge(r)) \in RequestType
      BY <2>1, <2>2, <1>a, RequestTypes, Zenon DEF Updating
    <2> DEFINE q == IF Charge(r) = 0 /\ r \notin Copies THEN [req[r] EXCEPT !.pc = "work"]
                    ELSE Updating(r, "reserve", Charge(r))
    <2>5. [q EXCEPT !.free = Content[r] \intersect assoc] \in RequestType
      BY <2>3, <2>4, RequestTypes, Zenon
    <2> QED BY <1>7, <2>1, <2>5, <1>a, <1>d, Zenon DEF Admit, QuotaTypeOK
  <1>8. ASSUME NEW r \in Pushes, Store(r) PROVE QuotaTypeOK'
    <2>1. r \in Requests /\ Content[r] \subseteq Blobs
      BY QuotaAssumption, Zenon DEF Requests
    <2>2. Ended("done") \in RequestType /\ [req[r] EXCEPT !.pc = "commit"] \in RequestType
      BY <2>1, <1>a, <1>b, RequestTypes, Zenon DEF RequestOver
    <2> QED BY <1>8, <2>1, <2>2, <1>a, <1>d DEF Store, QuotaTypeOK, Goto
  <1>9. ASSUME NEW r \in Pushes, FailPush(r) PROVE QuotaTypeOK'
    <2>1. r \in Requests /\ req[r].res \in Nat
      BY <1>a, Zenon DEF Requests, RequestType
    <2>2. Ended("failed") \in RequestType /\ Updating(r, "rollback", req[r].res) \in RequestType
      BY <2>1, <1>a, <1>b, RequestTypes, Zenon DEF RequestOver, Updating
    <2> QED BY <1>9, <2>1, <2>2, <1>a, <1>d, Zenon DEF FailPush, QuotaTypeOK
  <1>10. ASSUME NEW r \in Counting, Unlink(r) \/ Recount(r) PROVE QuotaTypeOK'
    <2>1. r \in Requests
      BY Zenon DEF Requests
    <2>2. Updating(r, "refresh", 0) \in RequestType
      BY <2>1, <1>a, RequestTypes, Zenon DEF Updating
    <2>3. [Updating(r, "refresh", 0) EXCEPT !.gone = BlobsShouldUnassociated(r)] \in RequestType
      BY <2>2, <1>a, RequestTypes, ZenonT(60) DEF BlobsShouldUnassociated, QuotaTypeOK
    <2> QED BY <1>10, <2>1, <2>2, <2>3, <1>a, <1>d DEF Unlink, Recount, QuotaTypeOK
  <1>11. ASSUME NEW r \in Admins, LoadQuota(r) PROVE QuotaTypeOK'
    <2>1. r \in Requests /\ Limits \subseteq Int
      BY QuotaAssumption DEF Requests
    <2>2. \A n \in Limits : [req[r] EXCEPT !.pc = "reload", !.calc = n, !.seen = usage] \in RequestType
      BY <2>1, <1>a, <1>c, RequestTypes, Zenon
    <2> QED BY <1>11, <2>1, <2>2, <1>a, <1>d, ZenonT(60) DEF LoadQuota, QuotaTypeOK
  <1>12. ASSUME NEW r \in Admins, ReloadQuota(r) PROVE QuotaTypeOK'
    <2>1. r \in Requests
      BY Zenon DEF Requests
    <2>2. [req[r] EXCEPT !.pc = "retry"] \in RequestType /\ [req[r] EXCEPT !.pc = "sethard", !.lim = hard] \in RequestType
      BY <2>1, <1>a, <1>c, RequestTypes, Zenon
    <2> QED BY <1>12, <2>1, <2>2, <1>a, <1>d, Zenon DEF ReloadQuota, QuotaTypeOK
  <1>13. ASSUME NEW r \in Admins, UpdateHard(r) PROVE QuotaTypeOK'
    <2>1. r \in Requests
      BY DEF Requests
    <2>2. [val |-> req[r].calc, ver |-> req[r].lim.ver + 1] \in Rows
      BY <2>1, <1>a DEF RequestType, Rows
    <2>3. /\ [req[r] EXCEPT !.pc = "retry"] \in RequestType
          /\ [req[r] EXCEPT !.pc = "commit", !.limit = [val |-> req[r].calc, ver |-> req[r].lim.ver + 1]] \in RequestType
      BY <2>1, <2>2, <1>a, RequestTypes, Zenon
    <2> QED BY <1>13, <2>1, <2>3, <1>a, <1>d, Zenon DEF UpdateHard, QuotaTypeOK
  <1>14. ASSUME NEW r \in Requests, Commit(r) PROVE QuotaTypeOK'
    <2>1. UsageOf(r) \in [val : Nat, ver : Nat]
      <3>1. CASE req[r].mine = NoRow
        BY <3>1, <1>a, Zenon DEF UsageOf, QuotaTypeOK
      <3>2. CASE req[r].mine # NoRow
        <4>1. req[r].mine \in Rows /\ usage.ver \in Nat
          BY <1>a, Zenon DEF RequestType, QuotaTypeOK
        <4>2. req[r].mine.ver = usage.ver + 1 /\ req[r].mine.val >= 0
          BY <3>2, Zenon DEF QuotaInv, Versions, VersionOf
        <4> QED BY <3>2, <4>1, <4>2 DEF UsageOf, Rows
      <3> QED BY <3>1, <3>2, Zenon
    <2>2. req[r].limit # NoRow => req[r].limit \in [val : Nat \union {-1}, ver : Nat]
      BY Zenon DEF QuotaInv, Versions, VersionOf
    <2>3. (r \in ManifestPuts => Content[r] \subseteq Blobs) /\ Ended("done") \in RequestType
      BY <1>b, QuotaAssumption, Zenon DEF RequestOver, Pushes
    <2> QED BY <1>14, <2>1, <2>2, <2>3, <1>a, <1>d, Zenon DEF Commit, QuotaTypeOK, AssocOf
  <1>15. CASE DetectDeadlock
    BY <1>15, <1>a, <1>b, <1>d DEF DetectDeadlock, QuotaTypeOK, RequestOver, Requests, Pushes, Counting
  <1>16. ASSUME NEW r \in Requests, Crash(r) PROVE QuotaTypeOK'
    BY <1>16, <1>a, <1>b, <1>d, QuotaAssumption DEF Crash, QuotaTypeOK, RequestOver
  <1>17. CASE UNCHANGED quotaVars
    BY <1>17, <1>a, Zenon DEF quotaVars, QuotaTypeOK
  <1> QED
    BY <1>1, <1>2, <1>3, <1>4, <1>5, <1>6, <1>7, <1>8, <1>9, <1>10, <1>11, <1>12, <1>13, <1>14, <1>15,
       <1>16, <1>17, Zenon
       DEF QuotaNext, Begin, Proceed, UpdateLoop, Counting

-----------------------------------------------------------------------------
(* The kinds of requests.                                                  *)

\* Every step keeps a request within what its kind does.
LEMMA PhasesStep == QuotaInv /\ [QuotaNext]_quotaVars => Phases'
  <1> SUFFICES ASSUME QuotaInv, [QuotaNext]_quotaVars PROVE Phases'
    OBVIOUS
  <1>a. QuotaTypeOK /\ \A r \in Requests : req[r] \in RequestType
    BY DEF QuotaInv, QuotaTypeOK
  <1>b. Phases
    BY Zenon DEF QuotaInv
  <1>c. DOMAIN req = Requests
    BY <1>a, Zenon DEF QuotaTypeOK
  <1>d. ASSUME NEW r \in Requests, NEW q, req' = [req EXCEPT ![r] = q], PhaseOf(r, q)
        PROVE  Phases'
    BY <1>b, <1>c, <1>d, Zenon DEF Phases
  <1>1. ASSUME NEW r \in Requests, GetHard(r) PROVE Phases'
    <2>1. PhaseOf(r, [req[r] EXCEPT !.pc = "used", !.lim = hard])
      BY <1>1, <1>a, <1>b, SMTT(30) DEF GetHard, Phases, PhaseOf, RequestType, RequestOver, QuotaTypeOK
    <2> QED BY <1>1, <2>1, <1>d, Zenon DEF GetHard
  <1>2. ASSUME NEW r \in Requests, GetUsed(r) PROVE Phases'
    <2>1. PhaseOf(r, [req[r] EXCEPT !.pc = IF req[r].op = "refresh" THEN "calc" ELSE "check", !.seen = UsageOf(r)])
      BY <1>2, <1>a, <1>b, QuotaAssumption DEF GetUsed, Phases, PhaseOf, RequestType, RequestOver, QuotaTypeOK
    <2> QED BY <1>2, <2>1, <1>d, Zenon DEF GetUsed
  <1>3. ASSUME NEW r \in Requests, CalculateUsage(r) PROVE Phases'
    <2>1. Bytes[AssocOf(r)] \in Nat
      BY <1>a, QuotaAssumption, Zenon DEF AssocOf, QuotaTypeOK
    <2>2. r \in Counting
      BY <1>3, <1>b, Zenon DEF CalculateUsage, Phases, PhaseOf, Requests
    <2>3. r \notin Admins
      BY <2>2, QuotaAssumption, Zenon
    <2>4. PhaseOf(r, [req[r] EXCEPT !.pc = "check", !.calc = Bytes[AssocOf(r)]])
      BY <1>3, <2>1, <2>2, <2>3, <1>a, <1>b DEF CalculateUsage, Phases, PhaseOf, RequestType, RequestOver
    <2> QED BY <1>3, <2>4, <1>d, Zenon DEF CalculateUsage
  <1>e. ASSUME NEW r \in Requests, NEW p \in {"idle"} \union RequestOver PROVE PhaseOf(r, Ended(p))
    BY DEF PhaseOf, Ended, Fresh, NoRow, RequestOver
  <1>4. ASSUME NEW r \in Requests, Refuse(r) \/ RetryTimeout(r) \/ UpdateTimeout(r) PROVE Phases'
    BY <1>4, <1>d, <1>e, Zenon DEF Refuse, RetryTimeout, UpdateTimeout, RequestOver
  <1>5. ASSUME NEW r \in Requests, UpdateUsage(r) PROVE Phases'
    <2> DEFINE row == [val |-> NewUsage(r), ver |-> req[r].seen.ver + 1]
    <2>0. req[r].pc = "check" /\ PhaseOf(r, req[r])
      BY <1>5, <1>b, Zenon DEF UpdateUsage, Phases
    <2>1. /\ AfterUpdate(r) \in {"work", "failed", "commit", "done"}
          /\ r \in Pushes => AfterUpdate(r) \in {"work", "failed"}
          /\ r \in Counting => AfterUpdate(r) = IF r \in Deletes THEN "commit" ELSE "done"
      BY <2>0, QuotaAssumption, Zenon DEF AfterUpdate, PhaseOf
    <2>2. r \in Pushes \/ r \in Counting
      BY <2>0, Zenon DEF PhaseOf, Requests
    <2>3. InTx(r) => AfterUpdate(r) \in {"work", "commit"}
      BY <2>0, <2>1, <2>2, QuotaAssumption, Zenon DEF InTx, Pushes, Counting, PhaseOf, AfterUpdate
    <2>4. \A p \in {"work", "commit"} : AfterUpdate(r) = p => PhaseOf(r, [req[r] EXCEPT !.pc = p])
      BY <2>0, <2>1, <2>2, <1>a, QuotaAssumption DEF PhaseOf, RequestType, RequestOver, Pushes, Counting
    <2>5. PhaseOf(r, Stepped(req[r], AfterUpdate(r)))
      BY <2>1, <2>4, <1>e, Zenon DEF Stepped, RequestOver
    <2>6. InTx(r) => PhaseOf(r, [req[r] EXCEPT !.pc = AfterUpdate(r), !.mine = row])
      BY <2>0, <2>1, <2>2, <2>3, <1>a, QuotaAssumption DEF PhaseOf, RequestType, RequestOver, Pushes, Counting
    <2>7. PhaseOf(r, [req[r] EXCEPT !.pc = "again"])
      BY <2>0, <2>2, <1>a, QuotaAssumption DEF PhaseOf, RequestType, RequestOver
    <2> QED BY <1>5, <2>5, <2>6, <2>7, <1>d, Zenon DEF UpdateUsage, Goto
  <1>6. ASSUME NEW r \in Pushes, Admit(r) PROVE Phases'
    <2>1. r \in Requests /\ r \notin Counting /\ r \notin Admins /\ r \notin Deletes /\ PhaseOf(r, req[r]) /\ req[r].pc = "idle"
      BY <1>6, <1>b, QuotaAssumption, Zenon DEF Requests, Counting, Phases, Admit
    <2>2. req[r] = Ended("idle")
      BY <2>1, Zenon DEF PhaseOf
    <2>3. r \in Uploads /\ Charge(r) # 0 => Charge(r) = Bytes[{HeadOf[r]}]
      <3>1. r \in Uploads => Charge(r) = PutBlobUploadResources(r)
        BY QuotaAssumption, Zenon DEF Charge
      <3> QED BY <3>1, Zenon DEF PutBlobUploadResources
    <2>4. r \in Uploads => r \notin Copies
      BY QuotaAssumption, Zenon
    <2> DEFINE q == IF Charge(r) = 0 /\ r \notin Copies THEN [req[r] EXCEPT !.pc = "work"]
                    ELSE Updating(r, "reserve", Charge(r))
    <2>a. req[r].op = "none" /\ req[r].res = 0 /\ req[r].gone = {}
      BY <2>2, Zenon DEF Ended, Fresh
    <2>b. PhaseOf(r, [[req[r] EXCEPT !.pc = "work"] EXCEPT !.free = Content[r] \intersect assoc])
      BY <2>1, <2>a, <1>a DEF PhaseOf, RequestOver, RequestType
    <2>c. (Charge(r) # 0 \/ r \in Copies) => PhaseOf(r, [Updating(r, "reserve", Charge(r)) EXCEPT !.free = Content[r] \intersect assoc])
      BY <2>1, <2>a, <2>3, <2>4, <1>a DEF PhaseOf, Updating, RequestOver, RequestType
    <2>5. PhaseOf(r, [q EXCEPT !.free = Content[r] \intersect assoc])
      BY <2>b, <2>c, Zenon
    <2> QED BY <1>6, <2>1, <2>5, <1>d, Zenon DEF Admit
  <1>7. ASSUME NEW r \in Pushes, Store(r) PROVE Phases'
    <2>1. r \in Requests /\ r \notin Counting /\ r \notin Admins /\ r \notin Recounts /\ PhaseOf(r, req[r])
      BY <1>b, QuotaAssumption, Zenon DEF Requests, Counting, Phases
    <2>2. r \notin Uploads => PhaseOf(r, [req[r] EXCEPT !.pc = "commit"])
      BY <2>1, <1>a DEF PhaseOf, RequestType, RequestOver
    <2> QED BY <1>7, <2>1, <2>2, <1>d, <1>e, Zenon DEF Store, Goto, RequestOver
  <1>8. ASSUME NEW r \in Pushes, FailPush(r) PROVE Phases'
    <2>1. r \in Requests /\ r \notin Counting /\ r \notin Admins /\ PhaseOf(r, req[r])
      BY <1>b, QuotaAssumption, Zenon DEF Requests, Phases
    <2>2. r \in Uploads /\ req[r].res > 0 => PhaseOf(r, Updating(r, "rollback", req[r].res))
      BY <2>1, <1>a DEF PhaseOf, RequestType, RequestOver, Updating
    <2> QED BY <1>8, <2>1, <2>2, <1>d, <1>e, Zenon DEF FailPush, RequestOver
  <1>9. ASSUME NEW r \in Counting, (Unlink(r) /\ r \in Deletes) \/ Recount(r) PROVE Phases'
    <2>1. r \in Requests /\ r \notin Pushes /\ r \notin Uploads /\ r \notin Admins /\ PhaseOf(r, req[r])
      BY <1>b, QuotaAssumption, Zenon DEF Requests, Phases, Pushes
    <2>2. PhaseOf(r, Updating(r, "refresh", 0))
      BY <2>1, <1>a DEF PhaseOf, RequestType, RequestOver, Updating
    <2>3. r \in Deletes => PhaseOf(r, [Updating(r, "refresh", 0) EXCEPT !.gone = BlobsShouldUnassociated(r)])
      BY <2>1, <1>a DEF PhaseOf, RequestType, RequestOver, Updating
    <2> QED BY <1>9, <2>1, <2>2, <2>3, <1>d, Zenon DEF Unlink, Recount
  <1>10. ASSUME NEW r \in Admins, LoadQuota(r) \/ ReloadQuota(r) \/ UpdateHard(r) PROVE Phases'
    <2>1. r \in Requests /\ r \notin Pushes /\ r \notin Uploads /\ r \notin Counting /\ r \notin Recounts /\ PhaseOf(r, req[r])
      BY <1>b, QuotaAssumption, Zenon DEF Requests, Phases, Pushes, Counting
    <2>2. \A n \in Limits : PhaseOf(r, [req[r] EXCEPT !.pc = "reload", !.calc = n, !.seen = usage])
      BY <2>1, <1>a DEF PhaseOf, RequestType, RequestOver
    <2>3. PhaseOf(r, [req[r] EXCEPT !.pc = "retry"]) /\ PhaseOf(r, [req[r] EXCEPT !.pc = "sethard", !.lim = hard])
      BY <2>1, <1>a DEF PhaseOf, RequestType, RequestOver, QuotaTypeOK
    <2>4. PhaseOf(r, [req[r] EXCEPT !.pc = "commit", !.limit = [val |-> req[r].calc, ver |-> req[r].lim.ver + 1]])
      BY <2>1, <1>a DEF PhaseOf, RequestType, RequestOver
    <2> QED BY <1>10, <2>1, <2>2, <2>3, <2>4, <1>d, Zenon DEF LoadQuota, ReloadQuota, UpdateHard
  <1>11. ASSUME NEW r \in Requests, Commit(r) \/ Crash(r) PROVE Phases'
    BY <1>11, <1>d, <1>e, Zenon DEF Commit, Crash, RequestOver
  <1>12. CASE DetectDeadlock
    BY <1>12, <1>d, <1>e, Zenon DEF DetectDeadlock, RequestOver, Requests, Pushes, Counting
  <1>13. CASE UNCHANGED quotaVars
    BY <1>13, <1>b DEF quotaVars, Phases, PhaseOf, Ended
  <1> QED
    BY <1>1, <1>2, <1>3, <1>4, <1>5, <1>6, <1>7, <1>8, <1>9, <1>10, <1>11, <1>12, <1>13, Zenon
       DEF QuotaNext, Begin, Proceed, UpdateLoop, Counting

-----------------------------------------------------------------------------
(* The optimistic lock.                                                    *)

\* A usage with the next version leaves true what others know of theirs.
LEMMA NextVersion ==
    ASSUME QuotaInv, NEW r \in Requests, NEW u \in [val : Nat, ver : Nat], u.ver = usage.ver + 1,
           req[r].mine = NoRow
    PROVE  VersionOf(r, req[r], u)
  <1>1. VersionOf(r, req[r], usage) /\ req[r] \in RequestType /\ usage.ver \in Nat
    BY Zenon DEF QuotaInv, Versions, QuotaTypeOK
  <1> QED BY <1>1 DEF VersionOf, RequestType, Rows

\* Every step keeps the versions in order.
LEMMA VersionsStep == QuotaInv /\ [QuotaNext]_quotaVars => Versions'
  <1> SUFFICES ASSUME QuotaInv, [QuotaNext]_quotaVars PROVE Versions'
    OBVIOUS
  <1>a. /\ QuotaTypeOK /\ \A r \in Requests : req[r] \in RequestType
        /\ DOMAIN req = Requests /\ usage.val \in Nat /\ usage.ver \in Nat
    BY Zenon DEF QuotaInv, QuotaTypeOK
  <1>b. Versions /\ \A r \in Requests : PhaseOf(r, req[r]) /\ VersionOf(r, req[r], usage)
    BY Zenon DEF QuotaInv, Phases, Versions
  \* a step that leaves the usage alone and writes no row of it
  <1>c. ASSUME NEW r \in Requests, NEW q, req' = [req EXCEPT ![r] = q], usage' = usage,
               VersionOf(r, q, usage), q.mine \in {NoRow, req[r].mine}
        PROVE  Versions'
    BY <1>a, <1>b, <1>c, Zenon DEF Versions
  <1>d. \A u : \A r \in Requests, p \in {"idle"} \union RequestOver :
          VersionOf(r, Ended(p), u) /\ Ended(p).mine = NoRow
    BY DEF VersionOf, Ended, Fresh, NoRow, RequestOver
  <1>1. ASSUME NEW r \in Requests, GetHard(r) PROVE Versions'
    <2>1. VersionOf(r, [req[r] EXCEPT !.pc = "used", !.lim = hard], usage)
      BY <1>1, <1>a, <1>b DEF GetHard, VersionOf, RequestType
    <2> QED BY <1>1, <2>1, <1>a, <1>c, Zenon DEF GetHard, RequestType
  <1>2. ASSUME NEW r \in Requests, GetUsed(r) PROVE Versions'
    <2>1. req[r].mine = NoRow /\ UsageOf(r) = usage
      BY <1>2, <1>b, Zenon DEF GetUsed, VersionOf, UsageOf
    <2>2. \A p \in {"calc", "check"} : VersionOf(r, [req[r] EXCEPT !.pc = p, !.seen = usage], usage)
      BY <1>2, <2>1, <1>a, <1>b DEF GetUsed, VersionOf, RequestType
    <2> QED BY <1>2, <2>1, <2>2, <1>a, <1>c, Zenon DEF GetUsed, RequestType
  <1>3. ASSUME NEW r \in Requests, CalculateUsage(r) PROVE Versions'
    <2>1. VersionOf(r, [req[r] EXCEPT !.pc = "check", !.calc = Bytes[AssocOf(r)]], usage)
      BY <1>3, <1>a, <1>b DEF CalculateUsage, VersionOf, RequestType
    <2> QED BY <1>3, <2>1, <1>a, <1>c, Zenon DEF CalculateUsage, RequestType
  <1>4. ASSUME NEW r \in Requests, Refuse(r) \/ RetryTimeout(r) \/ UpdateTimeout(r) \/ Crash(r) PROVE Versions'
    BY <1>4, <1>c, <1>d, Zenon DEF Refuse, RetryTimeout, UpdateTimeout, Crash, RequestOver
  <1>5. ASSUME NEW r \in Requests, UpdateUsage(r) PROVE Versions'
    <2> DEFINE row == [val |-> NewUsage(r), ver |-> req[r].seen.ver + 1]
    <2>1. /\ req[r].pc = "check" /\ req[r].mine = NoRow /\ UsageOf(r) = usage
          /\ r \in Pushes \/ r \in Counting
      BY <1>5, <1>b, Zenon DEF UpdateUsage, VersionOf, UsageOf, PhaseOf, Requests
    <2>2. \A o \in Requests \ {r} : req[o].mine = NoRow
      BY <1>5, Zenon DEF UpdateUsage, UsageLocked
    <2>3. row \in [val : Nat, ver : Nat]
      BY <1>5, <2>1, NewUsageType, Zenon DEF UpdateUsage
    <2>4. CASE usage.ver # req[r].seen.ver
      <3>1. VersionOf(r, [req[r] EXCEPT !.pc = "again"], usage)
        BY <2>1, <1>a, <1>b DEF VersionOf, RequestType
      <3> QED BY <1>5, <2>1, <2>4, <3>1, <1>a, <1>c, Zenon DEF UpdateUsage, Goto, RequestType
    <2>5. CASE usage.ver = req[r].seen.ver /\ InTx(r)
      <3>1. req[r].seen = usage
        BY <2>1, <2>5, <1>b, Zenon DEF VersionOf
      <3>2. AfterUpdate(r) \in {"work", "commit"} /\ (r \in ManifestPuts => req[r].op = "reserve")
        BY <2>1, <2>5, <1>b, QuotaAssumption, Zenon DEF InTx, Pushes, Counting, PhaseOf, AfterUpdate
      <3>3. r \in ManifestPuts => NewUsage(r) = usage.val + req[r].res
        BY <3>1, <3>2, Zenon DEF NewUsage
      <3>4. row \in Rows /\ row # NoRow
        BY <2>3, <1>a, <2>5 DEF NoRow, Rows
      <3>5. VersionOf(r, [req[r] EXCEPT !.pc = AfterUpdate(r), !.mine = row], usage)
        BY <2>1, <2>3, <2>5, <3>1, <3>2, <3>3, <3>4, <1>a, <1>b, QuotaAssumption DEF VersionOf,
           RequestType, InTx, Counting, Pushes
      <3>6. req' = [req EXCEPT ![r] = [req[r] EXCEPT !.pc = AfterUpdate(r), !.mine = row]] /\ usage' = usage
        BY <1>5, <2>1, <2>5, Zenon DEF UpdateUsage
      <3> QED BY <2>2, <3>5, <3>6, <1>a, <1>b DEF Versions
    <2>6. CASE usage.ver = req[r].seen.ver /\ ~InTx(r)
      <3>1. req' = [req EXCEPT ![r] = Stepped(req[r], AfterUpdate(r))] /\ usage' = row
        BY <1>5, <2>1, <2>6, Zenon DEF UpdateUsage
      <3>2. AfterUpdate(r) \in {"work", "failed", "done"}
        BY <2>6, Zenon DEF InTx, AfterUpdate
      <3>3. Stepped(req[r], AfterUpdate(r)).mine = NoRow /\ VersionOf(r, Stepped(req[r], AfterUpdate(r)), row)
        <4>1. VersionOf(r, [req[r] EXCEPT !.pc = "work"], row) /\ [req[r] EXCEPT !.pc = "work"].mine = NoRow
          BY <2>1, <2>6, <1>a, <1>b DEF VersionOf, RequestType, InTx
        <4> QED BY <3>2, <4>1, <1>d, Zenon DEF Stepped, RequestOver
      <3>4. \A o \in Requests \ {r} : VersionOf(o, req[o], row)
        BY <2>2, <2>3, <2>6, NextVersion, Zenon
      <3> QED BY <2>2, <3>1, <3>3, <3>4, <1>a, Zenon DEF Versions
    <2> QED BY <2>4, <2>5, <2>6, Zenon
  <1>6. ASSUME NEW r \in Pushes, Admit(r) PROVE Versions'
    <2>1. r \in Requests /\ r \notin Deletes /\ r \notin Admins /\ req[r].pc = "idle" /\ req[r] = Ended("idle")
      BY <1>6, <1>b, QuotaAssumption, ZenonT(60) DEF Requests, Counting, PhaseOf, Admit
    <2>2. req[r].mine = NoRow /\ req[r].res = 0 /\ req[r].limit = NoRow
      BY <2>1, Zenon DEF Ended, Fresh
    <2>3. VersionOf(r, [[req[r] EXCEPT !.pc = "work"] EXCEPT !.free = Content[r] \intersect assoc], usage)
      BY <2>1, <2>2, <1>a DEF VersionOf, RequestType
    <2>4. VersionOf(r, [Updating(r, "reserve", Charge(r)) EXCEPT !.free = Content[r] \intersect assoc], usage)
      BY <2>1, <2>2, <1>a DEF VersionOf, RequestType, Updating
    <2> DEFINE q == IF Charge(r) = 0 /\ r \notin Copies THEN [req[r] EXCEPT !.pc = "work"]
                    ELSE Updating(r, "reserve", Charge(r))
    <2>5. VersionOf(r, [q EXCEPT !.free = Content[r] \intersect assoc], usage)
          /\ [q EXCEPT !.free = Content[r] \intersect assoc].mine = NoRow
      BY <2>1, <2>2, <2>3, <2>4, <1>a, Zenon DEF RequestType, Updating
    <2> QED BY <1>6, <2>1, <2>5, <1>c, Zenon DEF Admit
  <1>7. ASSUME NEW r \in Pushes, Store(r) \/ FailPush(r) PROVE Versions'
    <2>1. r \in Requests /\ r \notin Deletes /\ r \notin Admins /\ req[r].pc = "work"
      BY <1>7, QuotaAssumption, Zenon DEF Requests, Counting, Store, FailPush
    <2>2. r \notin Uploads => VersionOf(r, [req[r] EXCEPT !.pc = "commit"], usage)
      BY <2>1, <1>a, <1>b DEF VersionOf, RequestType
    <2>3. r \in Uploads => req[r].mine = NoRow
      BY <2>1, <1>b, QuotaAssumption, Zenon DEF VersionOf, InTx, Pushes
    <2>4. r \in Uploads => VersionOf(r, Updating(r, "rollback", req[r].res), usage)
      BY <2>1, <2>3, <1>a, <1>b, QuotaAssumption DEF VersionOf, RequestType, Updating
    <2>5. Updating(r, "rollback", req[r].res).mine = req[r].mine /\ [req[r] EXCEPT !.pc = "commit"].mine = req[r].mine
      BY <2>1, <1>a, Zenon DEF RequestType, Updating
    <2> QED BY <1>7, <2>1, <2>2, <2>4, <2>5, <1>c, <1>d, Zenon DEF Store, FailPush, Goto, RequestOver
  <1>8. ASSUME NEW r \in Counting, Unlink(r) \/ Recount(r) PROVE Versions'
    <2>0. r \in Requests /\ req[r].pc = "idle"
      BY <1>8, Zenon DEF Requests, Unlink, Recount
    <2>1. r \in Requests /\ req[r] = Ended("idle")
      BY <2>0, <1>b, Zenon DEF PhaseOf
    <2>2. req[r].mine = NoRow /\ req[r].res = 0 /\ req[r].limit = NoRow
      BY <2>1, Zenon DEF Ended, Fresh
    <2>3. VersionOf(r, Updating(r, "refresh", 0), usage) /\ Updating(r, "refresh", 0).mine = NoRow
      BY <2>1, <2>2, <1>a DEF VersionOf, RequestType, Updating
    <2>4. VersionOf(r, [Updating(r, "refresh", 0) EXCEPT !.gone = BlobsShouldUnassociated(r)], usage)
          /\ [Updating(r, "refresh", 0) EXCEPT !.gone = BlobsShouldUnassociated(r)].mine = NoRow
      BY <2>1, <2>2, <1>a DEF VersionOf, RequestType, Updating
    <2> QED BY <1>8, <2>1, <2>3, <2>4, <1>c, Zenon DEF Unlink, Recount
  <1>9. ASSUME NEW r \in Admins, LoadQuota(r) \/ ReloadQuota(r) \/ UpdateHard(r) PROVE Versions'
    <2>1. r \in Requests /\ r \notin ManifestPuts /\ r \notin Deletes /\ req[r].mine = NoRow
      BY <1>b, QuotaAssumption, Zenon DEF Requests, VersionOf, Pushes, Counting
    <2>2. /\ \A n \in Limits : /\ VersionOf(r, [req[r] EXCEPT !.pc = "reload", !.calc = n, !.seen = usage], usage)
                               /\ [req[r] EXCEPT !.pc = "reload", !.calc = n, !.seen = usage].mine = NoRow
          /\ VersionOf(r, [req[r] EXCEPT !.pc = "retry"], usage) /\ [req[r] EXCEPT !.pc = "retry"].mine = NoRow
          /\ VersionOf(r, [req[r] EXCEPT !.pc = "sethard", !.lim = hard], usage)
          /\ [req[r] EXCEPT !.pc = "sethard", !.lim = hard].mine = NoRow
      BY <2>1, <1>a, <1>b DEF VersionOf, RequestType
    <2> DEFINE new == [val |-> req[r].calc, ver |-> req[r].lim.ver + 1]
    <2>3. new \in [val : Nat \union {-1}, ver : Nat]
      <3>1. req[r].calc \in Limits \union {0} /\ req[r].lim.ver >= -1
        BY <2>1, <1>b, Zenon DEF PhaseOf
      <3>2. req[r].lim.ver \in Int
        BY <2>1, <1>a, Zenon DEF RequestType, Rows
      <3>a. Limits \subseteq Nat \union {-1}
        BY QuotaAssumption, Zenon
      <3>3. req[r].calc \in Nat \union {-1}
        <4>1. CASE req[r].calc \in Limits
          BY <4>1, <3>a, Zenon
        <4>2. CASE req[r].calc = 0
          BY <4>2
        <4> QED BY <3>1, <4>1, <4>2, Zenon
      <3>4. req[r].lim.ver + 1 \in Nat
        BY <3>1, <3>2
      <3> QED BY <3>3, <3>4, Zenon
    <2>4. /\ VersionOf(r, [req[r] EXCEPT !.pc = "commit", !.limit = new], usage)
          /\ [req[r] EXCEPT !.pc = "commit", !.limit = new].mine = NoRow
      BY <2>1, <2>3, <1>a, <1>b DEF VersionOf, RequestType
    <2> QED BY <1>9, <2>1, <2>2, <2>4, <1>c, Zenon DEF LoadQuota, ReloadQuota, UpdateHard
  <1>10. ASSUME NEW r \in Requests, Commit(r) PROVE Versions'
    <2>1. req' = [req EXCEPT ![r] = Ended("done")] /\ usage' = UsageOf(r)
      BY <1>10, Zenon DEF Commit
    <2>2. CASE req[r].mine = NoRow
      BY <2>1, <2>2, <1>c, <1>d, Zenon DEF UsageOf, RequestOver
    <2>3. CASE req[r].mine # NoRow
      <3>1. \A o \in Requests \ {r} : req[o].mine = NoRow
        BY <2>3, <1>b, Zenon DEF Versions
      <3>2. usage' = req[r].mine /\ req[r].mine \in [val : Nat, ver : Nat] /\ req[r].mine.ver = usage.ver + 1
        <4>1. req[r].mine \in Rows
          BY <1>a, Zenon DEF RequestType
        <4> QED BY <2>1, <2>3, <4>1, <1>a, <1>b DEF UsageOf, VersionOf, Rows
      <3>3. \A o \in Requests \ {r} : VersionOf(o, req[o], usage')
        BY <3>1, <3>2, NextVersion, Zenon
      <3> QED BY <2>1, <3>1, <3>3, <1>a, <1>d, Zenon DEF Versions, RequestOver
    <2> QED BY <2>2, <2>3, Zenon
  <1>11. CASE DetectDeadlock
    BY <1>11, <1>c, <1>d, Zenon DEF DetectDeadlock, RequestOver, Requests, Pushes, Counting
  <1>12. CASE UNCHANGED quotaVars
    BY <1>12, <1>b, Zenon DEF quotaVars, Versions
  <1> QED
    BY <1>1, <1>2, <1>3, <1>4, <1>5, <1>6, <1>7, <1>8, <1>9, <1>10, <1>11, <1>12, Zenon
       DEF QuotaNext, Begin, Proceed, UpdateLoop, Counting

-----------------------------------------------------------------------------
(* Manifests and what they refer to.                                       *)

\* Every step keeps a manifest and what it refers to together.
LEMMA ClosedStep == QuotaInv /\ [QuotaNext]_quotaVars => Closed'
  <1> SUFFICES ASSUME QuotaInv, [QuotaNext]_quotaVars PROVE Closed'
    OBVIOUS
  <1>a. /\ Closed /\ \A r \in Requests : req[r] \in RequestType
        /\ DOMAIN req = Requests
    BY Zenon DEF QuotaInv, QuotaTypeOK
  <1>b. \A r \in Requests : PhaseOf(r, req[r])
    BY Zenon DEF QuotaInv, Phases
  <1>k. /\ Deletes \subseteq Requests /\ ManifestPuts \subseteq Requests /\ Uploads \subseteq Requests
        /\ ArtifactPuts \subseteq Pushes /\ ArtifactPuts \subseteq ManifestPuts
        /\ Deletes \intersect Pushes = {} /\ Uploads \intersect ManifestPuts = {} /\ Admins \intersect ManifestPuts = {}
        /\ Admins \intersect Deletes = {}
    BY QuotaAssumption, Zenon DEF Requests, Pushes, Counting, ArtifactPuts
  \* a step that adds or deletes nothing
  <1>c. ASSUME NEW r \in Requests, \A o \in Requests \ {r} : req'[o] = req[o], assoc' = assoc,
               r \in Deletes => req'[r].gone \in {req[r].gone, {}},
               r \in ManifestPuts /\ req'[r].pc = "commit" => req[r].pc = "commit"
        PROVE  Closed'
    BY <1>a, <1>c, <1>k DEF Closed
  <1>d. \A p \in {"idle"} \union RequestOver : Ended(p).gone = {} /\ Ended(p).pc # "commit"
    BY Zenon DEF Ended, Fresh, RequestOver
  <1>1. ASSUME NEW r \in Requests, GetHard(r) \/ GetUsed(r) \/ CalculateUsage(r) PROVE Closed'
    <2>1. CASE GetHard(r)
      <3>1. /\ \A o \in Requests \ {r} : req'[o] = req[o]
            /\ assoc' = assoc /\ req'[r].gone = req[r].gone /\ req'[r].pc # "commit"
        BY <2>1, <1>a DEF GetHard, RequestType
      <3> QED BY <3>1, <1>c, Zenon
    <2>2. CASE GetUsed(r)
      <3>1. /\ \A o \in Requests \ {r} : req'[o] = req[o]
            /\ assoc' = assoc /\ req'[r].gone = req[r].gone /\ req'[r].pc # "commit"
        BY <2>2, <1>a DEF GetUsed, RequestType
      <3> QED BY <3>1, <1>c
    <2>3. CASE CalculateUsage(r)
      <3>1. /\ \A o \in Requests \ {r} : req'[o] = req[o]
            /\ assoc' = assoc /\ req'[r].gone = req[r].gone /\ req'[r].pc # "commit"
        BY <2>3, <1>a DEF CalculateUsage, RequestType
      <3> QED BY <3>1, <1>c
    <2> QED BY <1>1, <2>1, <2>2, <2>3, Zenon
  <1>2. ASSUME NEW r \in Requests, Refuse(r) \/ RetryTimeout(r) \/ UpdateTimeout(r) \/ Crash(r) PROVE Closed'
    <2>1. PICK p \in RequestOver : req' = [req EXCEPT ![r] = Ended(p)] /\ assoc' = assoc
      BY <1>2, Zenon DEF Refuse, RetryTimeout, UpdateTimeout, Crash, RequestOver
    <2>2. req'[r] = Ended(p) /\ \A o \in Requests \ {r} : req'[o] = req[o]
      BY <2>1, <1>a, Zenon
    <2> QED BY <2>1, <2>2, <1>c, <1>d, Zenon
  <1>3. ASSUME NEW r \in Requests, UpdateUsage(r) PROVE Closed'
    <2>1. r \in ManifestPuts => AfterUpdate(r) = "work"
      <3>1. r \in ManifestPuts => req[r].op = "reserve"
        BY <1>3, <1>b, <1>k, QuotaAssumption, Zenon DEF UpdateUsage, PhaseOf, Pushes, Counting
      <3> QED BY <3>1, Zenon DEF AfterUpdate
    <2>0. assoc' = assoc
      BY <1>3, Zenon DEF UpdateUsage
    <2>2. \/ req' = [req EXCEPT ![r] = [req[r] EXCEPT !.pc = "again"]]
          \/ req' = [req EXCEPT ![r] = Stepped(req[r], AfterUpdate(r))]
          \/ \E w : req' = [req EXCEPT ![r] = [req[r] EXCEPT !.pc = AfterUpdate(r), !.mine = w]]
      BY <1>3, <1>a, Zenon DEF UpdateUsage, Goto
    <2>3. CASE req' = [req EXCEPT ![r] = [req[r] EXCEPT !.pc = "again"]]
      <3>1. /\ \A o \in Requests \ {r} : req'[o] = req[o]
            /\ req'[r].gone = req[r].gone /\ req'[r].pc # "commit"
        BY <2>3, <1>a DEF RequestType
      <3> QED BY <3>1, <2>0, <1>c, Zenon
    <2>4. CASE req' = [req EXCEPT ![r] = Stepped(req[r], AfterUpdate(r))]
      <3>1. /\ \A o \in Requests \ {r} : req'[o] = req[o]
            /\ req'[r] = Stepped(req[r], AfterUpdate(r))
        BY <2>4, <1>a, Zenon
      <3>2. req'[r] = Ended(AfterUpdate(r)) \/ req'[r] = [req[r] EXCEPT !.pc = AfterUpdate(r)]
        BY <3>1, Zenon DEF Stepped
      <3>3. /\ req'[r].gone \in {req[r].gone, {}}
            /\ req'[r].pc = AfterUpdate(r)
        BY <3>2, <1>a DEF RequestType, Ended, Fresh
      <3> QED BY <3>1, <3>3, <2>1, <2>0, <1>c, Zenon
    <2>5. ASSUME NEW w, req' = [req EXCEPT ![r] = [req[r] EXCEPT !.pc = AfterUpdate(r), !.mine = w]] PROVE Closed'
      <3>1. /\ \A o \in Requests \ {r} : req'[o] = req[o]
            /\ req'[r].gone = req[r].gone /\ req'[r].pc = AfterUpdate(r)
        BY <2>5, <1>a DEF RequestType
      <3> QED BY <3>1, <2>1, <2>0, <1>c, Zenon
    <2> QED BY <2>2, <2>3, <2>4, <2>5, Zenon
  <1>4. ASSUME NEW r \in Pushes, Admit(r) \/ FailPush(r) PROVE Closed'
    <2>1. r \in Requests /\ r \notin Deletes
      BY <1>k, Zenon DEF Requests
    <2>2. CASE Admit(r)
      <3>1. /\ \A o \in Requests \ {r} : req'[o] = req[o]
            /\ assoc' = assoc /\ req'[r].pc # "commit"
        BY <2>1, <2>2, <1>a DEF Admit, Updating, RequestType
      <3> QED BY <3>1, <2>1, <1>c, Zenon
    <2>3. CASE FailPush(r)
      <3>1. /\ \A o \in Requests \ {r} : req'[o] = req[o]
            /\ assoc' = assoc /\ req'[r].pc # "commit"
        BY <2>1, <2>3, <1>a, <1>d DEF FailPush, Updating, RequestType, RequestOver
      <3> QED BY <3>1, <2>1, <1>c
    <2> QED BY <1>4, <2>2, <2>3, Zenon
  <1>5. ASSUME NEW r \in Pushes, Store(r) PROVE Closed'
    <2>1. r \in Requests /\ r \notin Deletes /\ \A d \in Deletes : req[d].gone \intersect Content[r] = {}
      BY <1>5, <1>k, Zenon DEF Requests, Store, Deleting
    <2>2. CASE r \in Uploads
      <3>1. req' = [req EXCEPT ![r] = Ended("done")] /\ assoc' = assoc \union Content[r] /\ r \notin ManifestPuts
        BY <1>5, <2>2, <1>k, Zenon DEF Store
      <3>2. \A m \in ArtifactPuts : HeadOf[m] \in Content[r] => Content[m] \subseteq Content[r]
        BY SizesAssumption, Zenon
      <3>3. \A m \in ArtifactPuts : HeadOf[m] \in assoc' => Content[m] \subseteq assoc'
        BY <3>1, <3>2, <1>a, Zenon DEF Closed
      <3>4. \A d \in Deletes : req'[d] = req[d]
        BY <3>1, <2>1, <1>a, <1>k, Zenon
      <3>5. \A d \in Deletes, m \in ArtifactPuts :
              req'[d].gone \intersect Content[m] # {} => HeadOf[m] \notin assoc' \ req'[d].gone
        BY <3>1, <3>2, <3>4, <2>1, <1>a DEF Closed
      <3>6. \A p \in ManifestPuts : req'[p] = req[p]
        BY <3>1, <1>a, <1>k, Zenon
      <3> QED BY <3>3, <3>4, <3>5, <3>6, <1>a DEF Closed
    <2>3. CASE r \notin Uploads
      <3>1. req' = [req EXCEPT ![r] = [req[r] EXCEPT !.pc = "commit"]] /\ assoc' = assoc
        BY <1>5, <2>3, <2>1, <1>a, Zenon DEF Store, Goto
      <3>2. \A d \in Deletes : req'[d] = req[d]
        BY <3>1, <2>1, <1>a, <1>k, Zenon
      <3>3. \A d \in Deletes, p \in ManifestPuts : req'[p].pc = "commit" => req'[d].gone \intersect Content[p] = {}
        BY <3>1, <3>2, <2>1, <1>a, <1>k DEF Closed
      <3> QED BY <3>1, <3>2, <3>3, <1>a, Zenon DEF Closed
    <2> QED BY <2>2, <2>3, Zenon
  <1>6. ASSUME NEW r \in Deletes, Unlink(r) PROVE Closed'
    <2> DEFINE S == BlobsShouldUnassociated(r)
    <2>1. /\ req' = [req EXCEPT ![r] = [Updating(r, "refresh", 0) EXCEPT !.gone = S]] /\ assoc' = assoc
          /\ r \in Requests /\ ~Adding(r, S)
      BY <1>6, <1>k, Zenon DEF Unlink
    <2>2. req'[r].gone = S /\ \A o \in Requests \ {r} : req'[o] = req[o]
      BY <2>1, <1>a, Zenon DEF Updating, RequestType
    <2>3. \A m \in ArtifactPuts : S \intersect Content[m] # {} => HeadOf[m] \notin assoc \ S
      <3> SUFFICES ASSUME NEW m \in ArtifactPuts, HeadOf[m] \in assoc, HeadOf[m] \notin S PROVE S \intersect Content[m] = {}
        BY Zenon
      <3>1. CASE HeadOf[m] \notin Content[r]
        BY <3>1, Zenon DEF BlobsShouldUnassociated
      <3>2. CASE HeadOf[m] \in Content[r]
        <4>1. PICK n \in ArtifactPuts : HeadOf[n] \in assoc \ Content[r] /\ HeadOf[m] \in Content[n]
          BY <3>2, Zenon DEF BlobsShouldUnassociated
        <4>2. Content[m] \subseteq Content[n]
          BY <4>1, <1>k, SizesAssumption, Zenon
        <4> QED BY <4>1, <4>2, Zenon DEF BlobsShouldUnassociated
      <3> QED BY <3>1, <3>2, Zenon
    <2>4. \A p \in ManifestPuts : req[p].pc = "commit" => S \intersect Content[p] = {}
      BY <2>1, <1>k, Zenon DEF Adding, Pushes
    <2>5. \A p \in ManifestPuts : req'[p] = req[p]
      BY <2>2, <1>k, Zenon DEF Pushes
    <2>6. /\ \A m \in ArtifactPuts : HeadOf[m] \in assoc => Content[m] \subseteq assoc
          /\ \A d \in Deletes, m \in ArtifactPuts :
                req[d].gone \intersect Content[m] # {} => HeadOf[m] \notin assoc \ req[d].gone
          /\ \A d \in Deletes, p \in ManifestPuts : req[p].pc = "commit" => req[d].gone \intersect Content[p] = {}
      BY <1>a, Zenon DEF Closed
    <2>7. \A d \in Deletes, m \in ArtifactPuts :
                req'[d].gone \intersect Content[m] # {} => HeadOf[m] \notin assoc' \ req'[d].gone
      BY <2>1, <2>2, <2>3, <2>6, <1>k
    <2>8. \A d \in Deletes, p \in ManifestPuts : req'[p].pc = "commit" => req'[d].gone \intersect Content[p] = {}
      BY <2>2, <2>4, <2>5, <2>6, <1>k
    <2> QED BY <2>1, <2>6, <2>7, <2>8, Zenon DEF Closed
  <1>7. ASSUME NEW r \in Recounts, Recount(r) PROVE Closed'
    <2>1. r \in Requests /\ r \notin Deletes /\ r \notin ManifestPuts
      BY <1>k, QuotaAssumption, Zenon DEF Requests, Counting, Pushes
    <2>2. assoc' = assoc /\ \A o \in Requests \ {r} : req'[o] = req[o]
      BY <1>7, <2>1, <1>a, Zenon DEF Recount
    <2> QED BY <2>1, <2>2, <1>c, Zenon
  <1>8. ASSUME NEW r \in Admins, LoadQuota(r) \/ ReloadQuota(r) \/ UpdateHard(r) PROVE Closed'
    <2>1. r \in Requests /\ r \notin Deletes /\ r \notin ManifestPuts
      BY <1>k, Zenon DEF Requests
    <2>2. assoc' = assoc /\ \A o \in Requests \ {r} : req'[o] = req[o]
      BY <1>8, <2>1, <1>a, Zenon DEF LoadQuota, ReloadQuota, UpdateHard
    <2> QED BY <2>1, <2>2, <1>c
  <1>9. ASSUME NEW r \in Requests, Commit(r) PROVE Closed'
    <2>1. /\ req[r].pc = "commit" /\ req' = [req EXCEPT ![r] = Ended("done")]
          /\ assoc' = IF r \in ManifestPuts THEN assoc \union Content[r] ELSE assoc \ req[r].gone
      BY <1>9, Zenon DEF Commit, AssocOf
    <2>2. req'[r].gone = {} /\ req'[r].pc = "done" /\ \A o \in Requests \ {r} : req'[o] = req[o]
      BY <2>1, <1>a, Zenon DEF Ended, Fresh
    <2>3. \A d \in Deletes, p \in ManifestPuts : req'[p].pc = "commit" => req'[d].gone \intersect Content[p] = {}
      BY <2>2, <1>a, <1>k DEF Closed
    <2>4. CASE r \in ManifestPuts
      <3>1. \A m \in ArtifactPuts : HeadOf[m] \in Content[r] => Content[m] \subseteq Content[r]
        BY <2>4, SizesAssumption, Zenon DEF Pushes
      <3>2. \A d \in Deletes : req[d].gone \intersect Content[r] = {} /\ req'[d] = req[d]
        BY <2>1, <2>2, <2>4, <1>a, <1>k DEF Closed, Pushes
      <3>3. \A m \in ArtifactPuts : HeadOf[m] \in assoc' => Content[m] \subseteq assoc'
        BY <2>1, <2>4, <3>1, <1>a, Zenon DEF Closed
      <3>4. \A d \in Deletes, m \in ArtifactPuts :
              req'[d].gone \intersect Content[m] # {} => HeadOf[m] \notin assoc' \ req'[d].gone
        BY <2>1, <2>4, <3>1, <3>2, <1>a DEF Closed
      <3> QED BY <2>3, <3>3, <3>4, Zenon DEF Closed
    <2>5. CASE r \notin ManifestPuts /\ r \in Deletes
      <3>1. assoc' = assoc \ req[r].gone
        BY <2>1, <2>5, Zenon
      <3>2. \A m \in ArtifactPuts : HeadOf[m] \in assoc' => Content[m] \subseteq assoc'
        BY <2>5, <3>1, <1>a, Zenon DEF Closed
      <3>3. \A d \in Deletes, m \in ArtifactPuts :
              req'[d].gone \intersect Content[m] # {} => HeadOf[m] \notin assoc' \ req'[d].gone
        BY <2>2, <3>1, <1>a, <1>k DEF Closed
      <3> QED BY <2>3, <3>2, <3>3 DEF Closed
    <2>6. CASE r \notin ManifestPuts /\ r \notin Deletes
      <3>1. assoc' = assoc
        BY <2>1, <2>6, <1>b, Zenon DEF PhaseOf
      <3> QED BY <2>2, <2>6, <3>1, <1>c, Zenon
    <2> QED BY <2>4, <2>5, <2>6, Zenon
  <1>10. CASE DetectDeadlock
    <2>1. PICK v \in ManifestPuts \union Deletes : req' = [req EXCEPT ![v] = Ended("failed")] /\ assoc' = assoc
      BY <1>10, Zenon DEF DetectDeadlock
    <2>2. v \in Requests /\ req'[v] = Ended("failed") /\ \A o \in Requests \ {v} : req'[o] = req[o]
      BY <2>1, <1>a, <1>k, Zenon
    <2> QED BY <2>1, <2>2, <1>c, <1>d DEF RequestOver
  <1>11. CASE UNCHANGED quotaVars
    BY <1>11, <1>a, Zenon DEF quotaVars, Closed
  <1> QED
    BY <1>1, <1>2, <1>3, <1>4, <1>5, <1>6, <1>7, <1>8, <1>9, <1>10, <1>11, Zenon
       DEF QuotaNext, Begin, Proceed, UpdateLoop

-----------------------------------------------------------------------------
(* Sums of sizes.                                                          *)

\* A set of blobs is as large as its parts, and no smaller than one of them.
LEMMA BytesAdd ==
    \A S, T \in SUBSET Blobs :
        /\ Bytes[S] \in Nat /\ Bytes[S \union T] = Bytes[S] + Bytes[T \ S]
        /\ S \subseteq T => Bytes[S] <= Bytes[T]
  <1> SUFFICES ASSUME NEW S \in SUBSET Blobs, NEW T \in SUBSET Blobs
               PROVE  /\ Bytes[S] \in Nat /\ Bytes[S \union T] = Bytes[S] + Bytes[T \ S]
                      /\ S \subseteq T => Bytes[S] <= Bytes[T]
    BY Zenon
  <1>1. Bytes[S] \in Nat /\ Bytes[T \ S] \in Nat
    BY QuotaAssumption, Zenon
  <1>2. Bytes[S \union T] = Bytes[S] + Bytes[T \ S]
    BY SizesAssumption, Zenon
  <1>3. ASSUME S \subseteq T PROVE Bytes[S] <= Bytes[T]
    <2>1. S \union T = T
      BY <1>3, Zenon
    <2>2. Bytes[T] = Bytes[S] + Bytes[T \ S]
      BY <1>2, <2>1, Zenon
    <2> QED BY <1>1, <2>2
  <1> QED BY <1>1, <1>2, <1>3, Zenon

\* Adding C to what is stored costs at most what C has beyond F, if F is there.
LEMMA BytesGrow ==
    ASSUME NEW A \in SUBSET Blobs, NEW C \in SUBSET Blobs, NEW F \in SUBSET Blobs, F \subseteq A
    PROVE  Bytes[A \union C] <= Bytes[A] + Bytes[C \ F]
  <1>1. Bytes[A \union C] = Bytes[A] + Bytes[C \ A] /\ Bytes[A] \in Nat
    BY BytesAdd, Zenon
  <1>2. C \ A \subseteq C \ F /\ C \ A \in SUBSET Blobs /\ C \ F \in SUBSET Blobs
    BY Zenon
  <1>3. Bytes[C \ A] <= Bytes[C \ F] /\ Bytes[C \ A] \in Nat /\ Bytes[C \ F] \in Nat
    BY <1>2, BytesAdd, Zenon
  <1> QED BY <1>1, <1>3

\* What uploads have reserved grows and shrinks with them.
LEMMA UploadsAdd ==
    ASSUME NEW S \in SUBSET Uploads, NEW u \in Uploads
    PROVE  /\ UploadBytes[S] \in Nat /\ UploadBytes[S \ {u}] <= UploadBytes[S]
           /\ u \notin S => UploadBytes[S \union {u}] = UploadBytes[S] + Bytes[{HeadOf[u]}]
           /\ u \in S => UploadBytes[S] = UploadBytes[S \ {u}] + Bytes[{HeadOf[u]}]
  <1>1. UploadBytes[S] \in Nat /\ UploadBytes[S \ {u}] \in Nat
    BY SizesAssumption, Zenon
  <1>2. u \notin S => UploadBytes[S \union {u}] = UploadBytes[S] + Bytes[{HeadOf[u]}]
    BY SizesAssumption, Zenon
  <1>3. ASSUME u \in S PROVE UploadBytes[S] = UploadBytes[S \ {u}] + Bytes[{HeadOf[u]}]
    <2>1. S = (S \ {u}) \union {u} /\ S \ {u} \in SUBSET Uploads /\ u \notin S \ {u}
      BY <1>3, Zenon
    <2>2. UploadBytes[(S \ {u}) \union {u}] = UploadBytes[S \ {u}] + Bytes[{HeadOf[u]}]
      BY <2>1, SizesAssumption, Zenon
    <2> QED BY <2>1, <2>2, Zenon
  <1>4. Bytes[{HeadOf[u]}] \in Nat
    <2>1. HeadOf[u] \in Content[u] /\ Content[u] \in SUBSET Blobs
      BY SizesAssumption, QuotaAssumption, Zenon DEF Pushes
    <2>2. {HeadOf[u]} \in SUBSET Blobs
      BY <2>1, Zenon
    <2> QED BY <2>2, BytesAdd, Zenon
  <1>5. ASSUME u \notin S PROVE UploadBytes[S \ {u}] = UploadBytes[S]
    <2>1. S \ {u} = S
      BY <1>5, Zenon
    <2> QED BY <2>1, Zenon
  <1> QED BY <1>1, <1>2, <1>3, <1>4, <1>5

\* A blob that an upload has reserved.
PendingOf(q) == q.res > 0 /\ (q.pc = "work" \/ q.op = "rollback")

\* A step of one request changes the pending uploads by that one at most.
LEMMA PendingStep ==
    ASSUME NEW r \in Requests, \A o \in Requests \ {r} : req'[o] = req[o]
    PROVE  /\ Pending \in SUBSET Uploads /\ Pending' \in SUBSET Uploads
           /\ r \notin Uploads \/ (PendingOf(req'[r]) <=> PendingOf(req[r])) => Pending' = Pending
           /\ r \in Uploads /\ ~PendingOf(req'[r]) => Pending' = Pending \ {r}
           /\ r \in Uploads /\ PendingOf(req'[r]) => Pending' = Pending \union {r}
           /\ r \in Uploads => (r \in Pending <=> PendingOf(req[r]))
  <1>1. Uploads \subseteq Requests
    BY Zenon DEF Requests, Pushes
  <1>2. \A u \in Uploads : (u \in Pending <=> PendingOf(req[u])) /\ (u \in Pending' <=> PendingOf(req'[u]))
    BY Zenon DEF Pending, PendingOf
  <1>3. Pending \in SUBSET Uploads /\ Pending' \in SUBSET Uploads
    BY Zenon DEF Pending
  <1>4. \A u \in Uploads \ {r} : u \in Pending' <=> u \in Pending
    BY <1>1, <1>2, Zenon
  <1> QED BY <1>2, <1>3, <1>4, Zenon

-----------------------------------------------------------------------------
(* The usage covers what is stored.                                        *)

\* Every step keeps the usage covering what is stored and reserved.
LEMMA CoveredStep == QuotaInv /\ [QuotaNext]_quotaVars => Covered'
  <1> SUFFICES ASSUME QuotaInv, [QuotaNext]_quotaVars PROVE Covered'
    BY Zenon
  <1>a. /\ \A r \in Requests : req[r] \in RequestType
        /\ DOMAIN req = Requests /\ usage.val \in Nat /\ usage.ver \in Nat
        /\ assoc \in SUBSET Blobs /\ Covered /\ Paid /\ Closed
    BY Zenon DEF QuotaInv, QuotaTypeOK
  <1>b. Versions /\ \A r \in Requests : PhaseOf(r, req[r]) /\ VersionOf(r, req[r], usage)
    BY Zenon DEF QuotaInv, Phases, Versions
  <1>k. /\ Deletes \subseteq Counting /\ Counting \subseteq Requests /\ ManifestPuts \subseteq Pushes
        /\ Uploads \subseteq Pushes /\ Pushes \subseteq Requests /\ Admins \subseteq Requests
        /\ Counting \intersect Pushes = {} /\ Uploads \intersect ManifestPuts = {}
        /\ Admins \intersect Pushes = {} /\ Admins \intersect Counting = {}
        /\ Recounts \intersect Deletes = {} /\ Counting = Deletes \union Recounts
    BY QuotaAssumption, Zenon DEF Requests, Pushes, Counting
  <1>p. /\ Pending \in SUBSET Uploads /\ UploadBytes[Pending] \in Nat
        /\ Pending' \in SUBSET Uploads /\ UploadBytes[Pending'] \in Nat
    BY SizesAssumption, Zenon DEF Pending
  <1>s. \A S : Bytes[assoc \ S] \in Nat
    <2>1. \A S : assoc \ S \in SUBSET Blobs
      BY <1>a, Zenon
    <2> QED BY <2>1, BytesAdd, Zenon
  <1>t. \A r \in Requests : req[r].calc \in Int /\ req[r].mine.val \in Int /\ req[r].seen.ver \in Int
                          /\ req[r].res \in Nat /\ req[r].gone \in SUBSET Blobs /\ req[r].free \in SUBSET Blobs
    BY <1>a, Zenon DEF RequestType, Rows
  \* a step that counts, adds and deletes nothing
  <1>c. ASSUME NEW r \in Requests, \A o \in Requests \ {r} : req'[o] = req[o],
               assoc' = assoc, usage' = usage, overlap' = overlap,
               UploadBytes[Pending'] <= UploadBytes[Pending],
               r \in Counting => req'[r].pc # "check",
               r \in Deletes => req'[r].mine = NoRow,
               r \in ManifestPuts => req'[r].pc # "commit"
        PROVE  Covered'
    <2> SUFFICES ASSUME ~overlap PROVE
           /\ Bytes[assoc'] + UploadBytes[Pending'] <= usage'.val
           /\ \A o \in Counting : req'[o].pc = "check" /\ req'[o].seen.ver = usage'.ver =>
                 Bytes[assoc' \ req'[o].gone] + UploadBytes[Pending'] <= req'[o].calc
           /\ \A o \in Deletes : req'[o].mine # NoRow =>
                 Bytes[assoc' \ req'[o].gone] + UploadBytes[Pending'] <= req'[o].mine.val
           /\ \A p \in ManifestPuts : req'[p].pc = "commit" => req'[p].free \subseteq assoc'
      BY <1>c, Zenon DEF Covered
    <2>1. Bytes[assoc'] + UploadBytes[Pending'] <= usage'.val
      <3>1. Bytes[assoc] + UploadBytes[Pending] <= usage.val /\ Bytes[assoc] \in Nat
        BY <1>a, BytesAdd, Zenon DEF Covered
      <3> QED BY <1>c, <3>1, <1>a, <1>p
    <2>2. ASSUME NEW o \in Counting, req'[o].pc = "check", req'[o].seen.ver = usage'.ver
          PROVE Bytes[assoc' \ req'[o].gone] + UploadBytes[Pending'] <= req'[o].calc
      <3>1. o \in Requests /\ o # r /\ req'[o] = req[o]
        BY <1>c, <2>2, <1>k, Zenon
      <3>2. Bytes[assoc \ req[o].gone] + UploadBytes[Pending] <= req[o].calc
        BY <1>c, <2>2, <3>1, <1>a, Zenon DEF Covered
      <3>3. Bytes[assoc \ req[o].gone] \in Nat /\ req[o].calc \in Int
        BY <3>1, <1>s, <1>t, Zenon
      <3>4. Bytes[assoc \ req[o].gone] + UploadBytes[Pending'] <= req[o].calc
        BY <1>c, <3>2, <3>3, <1>p
      <3> QED BY <1>c, <3>1, <3>4, Zenon
    <2>3. ASSUME NEW o \in Deletes, req'[o].mine # NoRow
          PROVE Bytes[assoc' \ req'[o].gone] + UploadBytes[Pending'] <= req'[o].mine.val
      <3>1. o \in Requests /\ o # r /\ req'[o] = req[o]
        BY <1>c, <2>3, <1>k, Zenon
      <3>2. Bytes[assoc \ req[o].gone] + UploadBytes[Pending] <= req[o].mine.val
        BY <1>c, <2>3, <3>1, <1>a, Zenon DEF Covered
      <3>3. Bytes[assoc \ req[o].gone] \in Nat /\ req[o].mine.val \in Int
        BY <3>1, <1>s, <1>t, Zenon
      <3>4. Bytes[assoc \ req[o].gone] + UploadBytes[Pending'] <= req[o].mine.val
        BY <1>c, <3>2, <3>3, <1>p
      <3> QED BY <1>c, <3>1, <3>4, Zenon
    <2>4. ASSUME NEW p \in ManifestPuts, req'[p].pc = "commit" PROVE req'[p].free \subseteq assoc'
      <3>1. p \in Requests /\ p # r /\ req'[p] = req[p]
        BY <1>c, <2>4, <1>k, Zenon
      <3> QED BY <1>c, <2>4, <3>1, <1>a, Zenon DEF Covered
    <2> QED BY <2>1, <2>2, <2>3, <2>4, Zenon
  \* such a step of a request that is not an upload, or does not begin or end a reservation
  <1>e. ASSUME NEW r \in Requests, \A o \in Requests \ {r} : req'[o] = req[o],
               r \in Uploads /\ PendingOf(req'[r]) => PendingOf(req[r])
        PROVE  UploadBytes[Pending'] <= UploadBytes[Pending]
    <2>1. Pending' = Pending \/ (r \in Uploads /\ Pending' = Pending \ {r})
      BY <1>e, PendingStep, Zenon
    <2>2. CASE Pending' = Pending
      BY <2>2, <1>p
    <2>3. CASE r \in Uploads /\ Pending' = Pending \ {r}
      BY <2>3, <1>p, UploadsAdd, Zenon
    <2> QED BY <2>1, <2>2, <2>3, Zenon
  <1>d. \A p \in {"idle"} \union RequestOver :
           Ended(p).pc = p /\ Ended(p).mine = NoRow /\ Ended(p).res = 0 /\ ~PendingOf(Ended(p)) /\ p # "check" /\ p # "commit"
    BY Zenon DEF Ended, Fresh, RequestOver, PendingOf
  \* a request that ends without having changed anything
  <1>f. ASSUME NEW r \in Requests, NEW p \in RequestOver, req' = [req EXCEPT ![r] = Ended(p)],
               assoc' = assoc, usage' = usage, overlap' = overlap
        PROVE  Covered'
    <2>1. req'[r] = Ended(p) /\ \A o \in Requests \ {r} : req'[o] = req[o]
      BY <1>f, <1>a, Zenon
    <2>2. req'[r].pc # "check" /\ req'[r].pc # "commit" /\ req'[r].mine = NoRow /\ ~PendingOf(req'[r])
      BY <2>1, <1>d, ZenonT(60)
    <2>3. UploadBytes[Pending'] <= UploadBytes[Pending]
      BY <2>1, <2>2, <1>e, Zenon
    <2> QED BY <1>f, <2>1, <2>2, <2>3, <1>c, Zenon
  \* a step that writes the usage
  <1>g. ASSUME NEW r \in Requests, \A o \in Requests \ {r} : req'[o] = req[o] /\ req[o].mine = NoRow,
               usage'.ver = usage.ver + 1, req'[r].mine = NoRow, req'[r].pc \notin {"check", "commit"},
               ~overlap' => /\ Bytes[assoc'] + UploadBytes[Pending'] <= usage'.val
                            /\ \A p \in ManifestPuts \ {r} : req[p].pc = "commit" => req[p].free \subseteq assoc'
        PROVE  Covered'
    <2>1. ASSUME NEW o \in Counting, req'[o].pc = "check" PROVE req'[o].seen.ver # usage'.ver
      <3>1. o \in Requests /\ o # r /\ req'[o] = req[o]
        BY <1>g, <2>1, <1>k, Zenon
      <3>2. req[o].seen.ver <= usage.ver /\ req[o].seen.ver \in Int
        BY <2>1, <3>1, <1>b, <1>t, Zenon DEF VersionOf
      <3> QED BY <3>1, <3>2, <1>g, <1>a
    <2>2. \A o \in Deletes : req'[o].mine = NoRow
      BY <1>g, <1>k, Zenon
    <2>3. \A p \in ManifestPuts : req'[p].pc = "commit" => p # r /\ req'[p] = req[p]
      BY <1>g, <1>k, Zenon
    <2> QED BY <1>g, <2>1, <2>2, <2>3, Zenon DEF Covered
  \* a step that adds C, of which F is there and the rest was reserved
  <1>h. ASSUME NEW r \in Requests, \A o \in Requests \ {r} : req'[o] = req[o],
               NEW C \in SUBSET Blobs, NEW F \in SUBSET C, assoc' = assoc \union C, usage' = usage,
               ~overlap' => ~overlap /\ F \subseteq assoc,
               \A d \in Deletes : req[d].gone \intersect C = {},
               req'[r].mine = NoRow, req'[r].pc \notin {"check", "commit"},
               Bytes[C \ F] + UploadBytes[Pending'] <= UploadBytes[Pending]
        PROVE  Covered'
    <2> SUFFICES ASSUME ~overlap, F \subseteq assoc PROVE
           /\ Bytes[assoc'] + UploadBytes[Pending'] <= usage'.val
           /\ \A o \in Counting : req'[o].pc = "check" /\ req'[o].seen.ver = usage'.ver =>
                 Bytes[assoc' \ req'[o].gone] + UploadBytes[Pending'] <= req'[o].calc
           /\ \A o \in Deletes : req'[o].mine # NoRow =>
                 Bytes[assoc' \ req'[o].gone] + UploadBytes[Pending'] <= req'[o].mine.val
           /\ \A p \in ManifestPuts : req'[p].pc = "commit" => req'[p].free \subseteq assoc'
      BY <1>h, Zenon DEF Covered
    <2>a. Bytes[C \ F] \in Nat /\ F \in SUBSET Blobs
      <3>1. C \ F \in SUBSET Blobs
        BY Zenon
      <3> QED BY <3>1, BytesAdd, Zenon
    <2>b. ASSUME NEW o \in Counting, NEW n \in Int, Bytes[assoc \ req[o].gone] + UploadBytes[Pending] <= n
          PROVE  Bytes[(assoc \union C) \ req[o].gone] + UploadBytes[Pending'] <= n
      <3>1. req[o].gone \intersect C = {}
        BY <1>h, <1>b, <1>k, Zenon DEF PhaseOf
      <3>2. (assoc \union C) \ req[o].gone = (assoc \ req[o].gone) \union C /\ F \subseteq assoc \ req[o].gone
        BY <3>1, Zenon
      <3>3. assoc \ req[o].gone \in SUBSET Blobs /\ (assoc \ req[o].gone) \union C \in SUBSET Blobs
        BY <1>a, Zenon
      <3>4. Bytes[(assoc \ req[o].gone) \union C] <= Bytes[assoc \ req[o].gone] + Bytes[C \ F]
        BY <3>2, <3>3, <2>a, BytesGrow, Zenon
      <3>5. Bytes[(assoc \ req[o].gone) \union C] \in Nat /\ Bytes[assoc \ req[o].gone] \in Nat
        BY <3>3, BytesAdd, Zenon
      <3>6. Bytes[(assoc \ req[o].gone) \union C] + UploadBytes[Pending'] <= n
        BY <2>a, <2>b, <3>4, <3>5, <1>p, <1>h
      <3> QED BY <3>2, <3>6, Zenon
    <2>1. Bytes[assoc'] + UploadBytes[Pending'] <= usage'.val
      <3>1. Bytes[assoc] + UploadBytes[Pending] <= usage.val /\ Bytes[assoc] \in Nat
        BY <1>a, BytesAdd, Zenon DEF Covered
      <3>2. Bytes[assoc \union C] <= Bytes[assoc] + Bytes[C \ F]
        BY <1>a, <2>a, BytesGrow, Zenon
      <3>3. Bytes[assoc \union C] \in Nat
        <4>1. assoc \union C \in SUBSET Blobs
          BY <1>a, Zenon
        <4> QED BY <4>1, BytesAdd, Zenon
      <3>4. Bytes[assoc \union C] + UploadBytes[Pending'] <= usage.val
        BY <3>1, <3>2, <3>3, <2>a, <1>a, <1>p, <1>h
      <3> QED BY <3>4, <1>h, Zenon
    <2>2. ASSUME NEW o \in Counting, req'[o].pc = "check", req'[o].seen.ver = usage'.ver
          PROVE Bytes[assoc' \ req'[o].gone] + UploadBytes[Pending'] <= req'[o].calc
      <3>1. o \in Requests /\ o # r /\ req'[o] = req[o]
        BY <1>h, <2>2, <1>k, Zenon
      <3>2. Bytes[assoc \ req[o].gone] + UploadBytes[Pending] <= req[o].calc /\ req[o].calc \in Int
        BY <1>h, <2>2, <3>1, <1>a, <1>t, Zenon DEF Covered
      <3>3. Bytes[(assoc \union C) \ req[o].gone] + UploadBytes[Pending'] <= req[o].calc
        BY <3>2, <2>b, Zenon
      <3> QED BY <3>1, <3>3, <1>h, Zenon
    <2>3. ASSUME NEW o \in Deletes, req'[o].mine # NoRow
          PROVE Bytes[assoc' \ req'[o].gone] + UploadBytes[Pending'] <= req'[o].mine.val
      <3>1. o \in Requests /\ o \in Counting /\ o # r /\ req'[o] = req[o]
        BY <1>h, <2>3, <1>k, Zenon
      <3>2. Bytes[assoc \ req[o].gone] + UploadBytes[Pending] <= req[o].mine.val /\ req[o].mine.val \in Int
        BY <1>h, <2>3, <3>1, <1>a, <1>t, Zenon DEF Covered
      <3>3. Bytes[(assoc \union C) \ req[o].gone] + UploadBytes[Pending'] <= req[o].mine.val
        BY <3>1, <3>2, <2>b, Zenon
      <3> QED BY <3>1, <3>3, <1>h, Zenon
    <2>4. ASSUME NEW p \in ManifestPuts, req'[p].pc = "commit" PROVE req'[p].free \subseteq assoc'
      <3>1. p \in Requests /\ p # r /\ req'[p] = req[p]
        BY <1>h, <2>4, <1>k, Zenon
      <3> QED BY <1>h, <2>4, <3>1, <1>a, Zenon DEF Covered
    <2> QED BY <2>1, <2>2, <2>3, <2>4, Zenon
  <1>1. ASSUME NEW r \in Requests, GetHard(r) PROVE Covered'
    <2>1. /\ (\A o \in Requests \ {r} : req'[o] = req[o]) /\ assoc' = assoc /\ usage' = usage /\ overlap' = overlap
          /\ req'[r].pc = "used" /\ req'[r].mine = req[r].mine /\ req'[r].op = req[r].op /\ req'[r].res = req[r].res
      BY <1>1, <1>a DEF GetHard, RequestType
    <2>2. r \in Deletes => req'[r].mine = NoRow
      BY <1>1, <2>1, <1>b, Zenon DEF VersionOf, GetHard
    <2>3. UploadBytes[Pending'] <= UploadBytes[Pending]
      BY <2>1, <1>e, Zenon DEF PendingOf
    <2> QED BY <2>1, <2>2, <2>3, <1>c, Zenon
  <1>2. ASSUME NEW r \in Requests, GetUsed(r) PROVE Covered'
    <2>0. r \in Counting => req[r].op = "refresh"
      BY <1>2, <1>b, Zenon DEF PhaseOf, GetUsed
    <2>1. /\ (\A o \in Requests \ {r} : req'[o] = req[o]) /\ assoc' = assoc /\ usage' = usage /\ overlap' = overlap
          /\ req'[r].pc \in {"calc", "check"} /\ req'[r].mine = req[r].mine /\ req'[r].op = req[r].op /\ req'[r].res = req[r].res
          /\ req[r].op = "refresh" => req'[r].pc = "calc"
      BY <1>2, <1>a DEF GetUsed, RequestType
    <2>2. r \in Deletes => req'[r].mine = NoRow
      BY <1>2, <2>1, <1>b, Zenon DEF VersionOf, GetUsed
    <2>3. UploadBytes[Pending'] <= UploadBytes[Pending]
      BY <2>1, <1>e, Zenon DEF PendingOf
    <2> QED BY <2>0, <2>1, <2>2, <2>3, <1>c, Zenon
  <1>3. ASSUME NEW r \in Requests, CalculateUsage(r) PROVE Covered'
    <2>1. /\ \A o \in Requests \ {r} : req'[o] = req[o]
          /\ assoc' = assoc /\ usage' = usage /\ overlap' = (overlap \/ Pending # {})
          /\ req'[r].pc = "check" /\ req'[r].mine = req[r].mine /\ req'[r].gone = req[r].gone
          /\ req'[r].calc = Bytes[assoc \ req[r].gone]
      BY <1>3, <1>a DEF CalculateUsage, RequestType, AssocOf
    <2>2. r \notin Pushes /\ r \notin Admins /\ req[r].mine = NoRow
      BY <1>3, <1>b, Zenon DEF CalculateUsage, PhaseOf, VersionOf
    <2>3. Pending' = Pending
      BY <2>1, <2>2, <1>k, PendingStep, Zenon
    <2> SUFFICES ASSUME ~overlap, Pending = {} PROVE Covered'
      BY <2>1, Zenon DEF Covered
    <2>4. UploadBytes[Pending] = 0
      BY SizesAssumption, Zenon
    <2>5. Bytes[assoc'] + UploadBytes[Pending'] <= usage'.val
      BY <2>1, <2>3, <1>a, Zenon DEF Covered
    <2>6. ASSUME NEW o \in Counting, req'[o].pc = "check", req'[o].seen.ver = usage'.ver
          PROVE Bytes[assoc' \ req'[o].gone] + UploadBytes[Pending'] <= req'[o].calc
      <3>1. CASE o = r
        <4>1. Bytes[assoc \ req[r].gone] \in Nat
          BY <1>s, Zenon
        <4>2. Bytes[assoc \ req[r].gone] + UploadBytes[Pending] <= Bytes[assoc \ req[r].gone]
          BY <4>1, <2>4
        <4> QED BY <3>1, <4>2, <2>1, <2>3, Zenon
      <3>2. CASE o # r
        <4>1. req'[o] = req[o]
          BY <3>2, <2>1, <1>k, Zenon
        <4> QED BY <4>1, <2>1, <2>3, <2>6, <1>a, Zenon DEF Covered
      <3> QED BY <3>1, <3>2, Zenon
    <2>7. ASSUME NEW o \in Deletes, req'[o].mine # NoRow
          PROVE Bytes[assoc' \ req'[o].gone] + UploadBytes[Pending'] <= req'[o].mine.val
      <3>1. req'[o] = req[o]
        BY <2>1, <2>2, <2>7, <1>k, Zenon
      <3> QED BY <3>1, <2>1, <2>3, <2>7, <1>a, Zenon DEF Covered
    <2>8. ASSUME NEW p \in ManifestPuts, req'[p].pc = "commit" PROVE req'[p].free \subseteq assoc'
      <3>1. req'[p] = req[p]
        BY <2>1, <2>2, <1>k, Zenon
      <3> QED BY <3>1, <2>1, <2>8, <1>a, Zenon DEF Covered
    <2> QED BY <2>5, <2>6, <2>7, <2>8, Zenon DEF Covered
  <1>4. ASSUME NEW r \in Requests, Refuse(r) \/ RetryTimeout(r) \/ UpdateTimeout(r) \/ Crash(r) PROVE Covered'
    <2>1. PICK p \in RequestOver : req' = [req EXCEPT ![r] = Ended(p)] /\ assoc' = assoc /\ usage' = usage /\ overlap' = overlap
      BY <1>4, Zenon DEF Refuse, RetryTimeout, UpdateTimeout, Crash, RequestOver
    <2> QED BY <2>1, <1>f, Zenon
  <1>5. ASSUME NEW r \in Pushes, Admit(r) PROVE Covered'
    <2>1. r \in Requests /\ r \notin Counting /\ r \notin Deletes /\ req[r].pc = "idle"
      BY <1>5, <1>k, Zenon DEF Admit
    <2>a. req[r] = Ended("idle")
      BY <2>1, <1>b, Zenon DEF PhaseOf
    <2>b. req[r].res = 0 /\ req[r].op = "none"
      BY <2>a, Zenon DEF Ended, Fresh
    <2>2. /\ (\A o \in Requests \ {r} : req'[o] = req[o]) /\ assoc' = assoc /\ usage' = usage /\ overlap' = overlap
          /\ req'[r].pc # "commit"
          /\ \/ req'[r].res = 0
             \/ req'[r].pc = "hard" /\ req'[r].op = "reserve"
      BY <1>5, <2>1, <2>b, <1>a DEF Admit, Updating, RequestType
    <2>3. UploadBytes[Pending'] <= UploadBytes[Pending]
      BY <2>1, <2>2, <1>e DEF PendingOf
    <2> QED BY <2>1, <2>2, <2>3, <1>c, Zenon
  <1>6. ASSUME NEW r \in Pushes, FailPush(r) PROVE Covered'
    <2>1. r \in Requests /\ r \notin Counting /\ r \notin Deletes /\ req[r].pc = "work"
      BY <1>6, <1>k, Zenon DEF FailPush
    <2>2. CASE r \in Uploads /\ req[r].res > 0
      <3>1. /\ (\A o \in Requests \ {r} : req'[o] = req[o]) /\ assoc' = assoc /\ usage' = usage /\ overlap' = overlap
            /\ req'[r].pc = "hard" /\ req'[r].res = req[r].res
        BY <1>6, <2>1, <2>2, <1>a DEF FailPush, Updating, RequestType
      <3>2. UploadBytes[Pending'] <= UploadBytes[Pending]
        BY <2>1, <2>2, <3>1, <1>e, Zenon DEF PendingOf
      <3> QED BY <2>1, <3>1, <3>2, <1>c, Zenon
    <2>3. CASE ~(r \in Uploads /\ req[r].res > 0)
      <3>1. req' = [req EXCEPT ![r] = Ended("failed")] /\ assoc' = assoc /\ usage' = usage /\ overlap' = overlap
        BY <1>6, <2>3, Zenon DEF FailPush
      <3> QED BY <2>1, <3>1, <1>f, Zenon DEF RequestOver
    <2> QED BY <2>2, <2>3, Zenon
  <1>7. ASSUME NEW r \in Counting, Unlink(r) \/ Recount(r) PROVE Covered'
    <2>1. r \in Requests /\ r \notin Pushes /\ req[r].pc = "idle"
      BY <1>7, <1>k, Zenon DEF Unlink, Recount
    <2>2. req[r].mine = NoRow
      BY <2>1, <1>b, Zenon DEF VersionOf
    <2>3. (\A o \in Requests \ {r} : req'[o] = req[o]) /\ assoc' = assoc /\ usage' = usage /\ overlap' = overlap /\ req'[r].pc = "hard" /\ req'[r].mine = req[r].mine
      BY <1>7, <2>1, <1>a, ZenonT(60) DEF Unlink, Recount, Updating, RequestType
    <2>4. UploadBytes[Pending'] <= UploadBytes[Pending]
      BY <2>1, <2>3, <1>e, <1>k, Zenon
    <2> QED BY <2>1, <2>2, <2>3, <2>4, <1>c, <1>k, Zenon
  <1>8. ASSUME NEW r \in Admins, LoadQuota(r) \/ ReloadQuota(r) \/ UpdateHard(r) PROVE Covered'
    <2>1. r \in Requests /\ r \notin Pushes /\ r \notin Counting
      BY <1>k, Zenon
    <2>2. (\A o \in Requests \ {r} : req'[o] = req[o]) /\ assoc' = assoc /\ usage' = usage /\ overlap' = overlap
      BY <1>8, <2>1, <1>a, Zenon DEF LoadQuota, ReloadQuota, UpdateHard
    <2>3. UploadBytes[Pending'] <= UploadBytes[Pending]
      BY <2>1, <2>2, <1>e, <1>k, Zenon
    <2> QED BY <2>1, <2>2, <2>3, <1>c, <1>k, Zenon
  <1>9. ASSUME NEW r \in Requests, UpdateUsage(r) PROVE Covered'
    <2> DEFINE row == [val |-> NewUsage(r), ver |-> req[r].seen.ver + 1]
    <2>1. /\ req[r].pc = "check" /\ req[r].mine = NoRow /\ UsageOf(r) = usage
          /\ r \in Pushes \/ r \in Counting
          /\ assoc' = assoc /\ overlap' = overlap
      BY <1>9, <1>b, Zenon DEF UpdateUsage, VersionOf, UsageOf, PhaseOf, Requests
    <2>2. \A o \in Requests \ {r} : req[o].mine = NoRow
      BY <1>9, Zenon DEF UpdateUsage, UsageLocked
    <2>3. /\ r \in ManifestPuts => req[r].op = "reserve"
          /\ r \in Uploads => req[r].op \in {"reserve", "rollback"} /\ req[r].res = Bytes[{HeadOf[r]}]
          /\ r \in Counting => req[r].op = "refresh"
      BY <2>1, <1>b, <1>k, Zenon DEF PhaseOf
    <2>4. CASE usage.ver # req[r].seen.ver
      <3>1. usage' = usage /\ req' = [req EXCEPT ![r] = [req[r] EXCEPT !.pc = "again"]]
        BY <1>9, <2>1, <2>4, <1>a, Zenon DEF UpdateUsage, Goto
      <3>2. (\A o \in Requests \ {r} : req'[o] = req[o]) /\ req'[r].pc = "again" /\ req'[r].mine = NoRow /\ req'[r].op = req[r].op /\ req'[r].res = req[r].res
        BY <3>1, <2>1, <1>a DEF RequestType
      <3>3. UploadBytes[Pending'] <= UploadBytes[Pending]
        BY <3>2, <1>e, Zenon DEF PendingOf
      <3> QED BY <2>1, <3>1, <3>2, <3>3, <1>c, Zenon
    <2>5. CASE usage.ver = req[r].seen.ver /\ r \in ManifestPuts
      <3>1. AfterUpdate(r) = "work" /\ r \notin Counting /\ r \notin Deletes /\ r \notin Uploads /\ InTx(r)
        BY <2>3, <2>5, <1>k, Zenon DEF AfterUpdate, InTx
      <3>2. usage' = usage /\ req' = [req EXCEPT ![r] = [req[r] EXCEPT !.pc = "work", !.mine = row]]
        BY <1>9, <2>1, <2>5, <3>1, Zenon DEF UpdateUsage
      <3>3. (\A o \in Requests \ {r} : req'[o] = req[o]) /\ req'[r].pc = "work"
        BY <3>2, <1>a, Zenon DEF RequestType
      <3>4. UploadBytes[Pending'] <= UploadBytes[Pending]
        BY <3>1, <3>3, <1>e, Zenon
      <3> QED BY <2>1, <3>1, <3>2, <3>3, <3>4, <1>c, Zenon
    <2>6. CASE usage.ver = req[r].seen.ver /\ r \in Deletes
      <3>1. r \in Counting /\ r \notin ManifestPuts /\ r \notin Uploads /\ InTx(r)
        BY <2>6, <1>k, Zenon DEF InTx
      <3>2. AfterUpdate(r) = "commit" /\ NewUsage(r) = req[r].calc
        BY <3>1, <2>3, <2>6, Zenon DEF AfterUpdate, NewUsage
      <3>3. usage' = usage /\ req' = [req EXCEPT ![r] = [req[r] EXCEPT !.pc = "commit", !.mine = row]]
        BY <1>9, <2>1, <2>6, <3>1, <3>2, Zenon DEF UpdateUsage
      <3>4. (\A o \in Requests \ {r} : req'[o] = req[o]) /\ req'[r].pc = "commit" /\ req'[r].mine.val = req[r].calc /\ req'[r].gone = req[r].gone
        BY <3>2, <3>3, <1>a DEF RequestType
      <3>5. Pending' = Pending
        BY <3>1, <3>4, PendingStep, Zenon
      <3> SUFFICES ASSUME ~overlap PROVE Covered'
        BY <2>1, Zenon DEF Covered
      <3>6. Bytes[assoc \ req[r].gone] + UploadBytes[Pending] <= req[r].calc
        BY <2>1, <2>6, <3>1, <1>a, Zenon DEF Covered
      <3>7. Bytes[assoc'] + UploadBytes[Pending'] <= usage'.val
        BY <2>1, <3>3, <3>5, <1>a, Zenon DEF Covered
      <3>8. ASSUME NEW o \in Counting, req'[o].pc = "check", req'[o].seen.ver = usage'.ver
            PROVE Bytes[assoc' \ req'[o].gone] + UploadBytes[Pending'] <= req'[o].calc
        <4>1. req'[o] = req[o]
          BY <3>4, <3>8, <1>k, Zenon
        <4> QED BY <4>1, <2>1, <3>3, <3>5, <3>8, <1>a, Zenon DEF Covered
      <3>9. ASSUME NEW o \in Deletes, req'[o].mine # NoRow
            PROVE Bytes[assoc' \ req'[o].gone] + UploadBytes[Pending'] <= req'[o].mine.val
        <4>1. o = r
          BY <3>4, <3>9, <2>2, <1>k, Zenon
        <4> QED BY <4>1, <2>1, <3>4, <3>5, <3>6, Zenon
      <3>10. ASSUME NEW p \in ManifestPuts, req'[p].pc = "commit" PROVE req'[p].free \subseteq assoc'
        <4>1. req'[p] = req[p]
          BY <3>1, <3>4, <1>k, Zenon
        <4> QED BY <4>1, <2>1, <3>10, <1>a, Zenon DEF Covered
      <3> QED BY <3>7, <3>8, <3>9, <3>10, Zenon DEF Covered
    <2>7. CASE usage.ver = req[r].seen.ver /\ r \notin ManifestPuts /\ r \notin Deletes
      <3>1. ~InTx(r) /\ (r \in Uploads \/ r \in Recounts)
        BY <2>1, <2>7, <1>k, Zenon DEF InTx, Pushes
      <3>2. usage' = row /\ req' = [req EXCEPT ![r] = Stepped(req[r], AfterUpdate(r))]
        BY <1>9, <2>1, <2>7, <3>1, Zenon DEF UpdateUsage
      <3>3. (\A o \in Requests \ {r} : req'[o] = req[o]) /\ req'[r] = Stepped(req[r], AfterUpdate(r)) /\ usage'.ver = usage.ver + 1 /\ usage'.val = NewUsage(r)
        BY <3>2, <2>7, <1>a, Zenon
      <3>4. req[r].seen = usage
        BY <2>1, <2>7, <1>b, Zenon DEF VersionOf
      <3>a. \A p \in ManifestPuts \ {r} : ~overlap' /\ req[p].pc = "commit" => req[p].free \subseteq assoc'
        BY <2>1, <1>a, Zenon DEF Covered
      <3>b. Bytes[assoc] \in Nat /\ (~overlap => Bytes[assoc] + UploadBytes[Pending] <= usage.val)
        BY <1>a, BytesAdd, Zenon DEF Covered
      <3>5. CASE r \in Uploads /\ req[r].op = "reserve"
        <4>1. AfterUpdate(r) = "work" /\ NewUsage(r) = usage.val + Bytes[{HeadOf[r]}]
          BY <3>4, <3>5, <2>3, Zenon DEF AfterUpdate, NewUsage
        <4>2. req'[r].pc = "work" /\ req'[r].mine = NoRow /\ req'[r].res = req[r].res /\ req'[r].op = "reserve"
          BY <3>3, <3>5, <4>1, <2>1, <1>a DEF Stepped, RequestOver, RequestType
        <4>3. r \notin Pending
          BY <2>1, <3>5, Zenon DEF Pending
        <4>4. Pending' = Pending \/ Pending' = Pending \union {r}
          <5>1. CASE PendingOf(req'[r])
            BY <5>1, <3>3, <3>5, PendingStep, Zenon
          <5>2. CASE ~PendingOf(req'[r])
            <6>1. Pending' = Pending \ {r}
              BY <5>2, <3>3, <3>5, PendingStep, Zenon
            <6> QED BY <6>1, <4>3, Zenon
          <5> QED BY <5>1, <5>2, Zenon
        <4>5. UploadBytes[Pending'] <= UploadBytes[Pending] + Bytes[{HeadOf[r]}] /\ Bytes[{HeadOf[r]}] \in Nat
          <5>1. Bytes[{HeadOf[r]}] \in Nat
            BY <2>3, <3>5, <1>t, Zenon
          <5>2. UploadBytes[Pending \union {r}] = UploadBytes[Pending] + Bytes[{HeadOf[r]}]
            BY <4>3, <3>5, <1>p, UploadsAdd, Zenon
          <5>3. CASE Pending' = Pending
            BY <5>1, <5>3, <1>p
          <5>4. CASE Pending' = Pending \union {r}
            BY <5>1, <5>2, <5>4, <1>p
          <5> QED BY <4>4, <5>1, <5>3, <5>4, Zenon
        <4>6. ~overlap' => Bytes[assoc'] + UploadBytes[Pending'] <= usage'.val
          BY <2>1, <3>3, <3>b, <4>1, <4>5, <1>a, <1>p
        <4> QED BY <2>2, <3>3, <3>a, <4>2, <4>6, <1>g, Zenon
      <3>6. CASE r \in Uploads /\ req[r].op = "rollback"
        <4>1. AfterUpdate(r) = "failed" /\ NewUsage(r) = usage.val - Bytes[{HeadOf[r]}]
          BY <3>4, <3>6, <2>3, Zenon DEF AfterUpdate, NewUsage
        <4>2. req'[r] = Ended("failed")
          BY <3>3, <4>1, Zenon DEF Stepped, RequestOver
        <4>3. Pending' = Pending \ {r} /\ Bytes[{HeadOf[r]}] \in Nat
          BY <2>3, <3>3, <3>6, <4>2, <1>d, <1>t, PendingStep DEF RequestOver
        <4>4. UploadBytes[Pending'] + Bytes[{HeadOf[r]}] <= UploadBytes[Pending]
          <5>1. CASE r \in Pending
            BY <5>1, <3>6, <4>3, <1>p, UploadsAdd
          <5>2. CASE r \notin Pending
            <6>1. Bytes[{HeadOf[r]}] = 0
              BY <5>2, <2>3, <3>6, <4>3 DEF Pending
            <6>2. Pending' = Pending
              BY <5>2, <4>3, Zenon
            <6> QED BY <6>1, <6>2, <1>p
          <5> QED BY <5>1, <5>2, Zenon
        <4>5. ~overlap' => Bytes[assoc'] + UploadBytes[Pending'] <= usage'.val
          BY <2>1, <3>3, <3>b, <4>1, <4>3, <4>4, <1>a, <1>p
        <4>6. req'[r].mine = NoRow /\ req'[r].pc \notin {"check", "commit"}
          BY <4>2, <1>d, Zenon DEF RequestOver
        <4> QED BY <2>2, <3>3, <3>a, <4>5, <4>6, <1>g, Zenon
      <3>7. CASE r \in Recounts
        <4>1. r \in Counting /\ r \notin Uploads /\ req[r].gone = {}
          BY <3>7, <2>7, <1>k, <1>b, Zenon DEF PhaseOf
        <4>2. AfterUpdate(r) = "done" /\ NewUsage(r) = req[r].calc
          BY <4>1, <2>3, <2>7, Zenon DEF AfterUpdate, NewUsage
        <4>3. req'[r] = Ended("done")
          BY <3>3, <4>2, Zenon DEF Stepped, RequestOver
        <4>4. Pending' = Pending
          BY <3>3, <4>1, PendingStep, Zenon
        <4>5. ~overlap => Bytes[assoc \ req[r].gone] + UploadBytes[Pending] <= req[r].calc
          BY <2>1, <2>7, <4>1, <1>a, Zenon DEF Covered
        <4>6. assoc \ req[r].gone = assoc
          BY <4>1, Zenon
        <4>7. ~overlap' => Bytes[assoc'] + UploadBytes[Pending'] <= usage'.val
          BY <2>1, <3>3, <4>2, <4>4, <4>5, <4>6, Zenon
        <4>8. req'[r].mine = NoRow /\ req'[r].pc \notin {"check", "commit"}
          BY <4>3, <1>d, Zenon DEF RequestOver
        <4> QED BY <2>2, <3>3, <3>a, <4>7, <4>8, <1>g
      <3> QED BY <3>1, <3>5, <3>6, <3>7, <2>3, Zenon
    <2> QED BY <2>4, <2>5, <2>6, <2>7, Zenon
  <1>10. ASSUME NEW r \in Pushes, Store(r) PROVE Covered'
    <2>1. /\ r \in Requests /\ r \notin Counting /\ r \notin Deletes /\ req[r].pc = "work"
          /\ \A d \in Deletes : req[d].gone \intersect Content[r] = {}
          /\ usage' = usage /\ overlap' = (overlap \/ ~(req[r].free \subseteq assoc))
      BY <1>10, <1>k, Zenon DEF Store, Deleting
    <2>2. CASE r \in Uploads
      <3>1. req' = [req EXCEPT ![r] = Ended("done")] /\ assoc' = assoc \union Content[r]
        BY <1>10, <2>2, Zenon DEF Store
      <3>2. (\A o \in Requests \ {r} : req'[o] = req[o]) /\ req'[r] = Ended("done")
        BY <2>1, <3>1, <1>a, Zenon
      <3>3. req'[r].mine = NoRow /\ req'[r].pc \notin {"check", "commit"} /\ ~PendingOf(req'[r])
        BY <3>2, <1>d, Zenon DEF RequestOver
      <3>4. Pending' = Pending \ {r}
        BY <2>1, <2>2, <3>2, <3>3, PendingStep, Zenon
      <3>5. Content[r] = {HeadOf[r]} /\ Content[r] \in SUBSET Blobs
        BY <2>2, SizesAssumption, QuotaAssumption, Zenon
      <3>6. CASE r \in Pending
        <4>1. UploadBytes[Pending] = UploadBytes[Pending'] + Bytes[Content[r]]
          BY <2>2, <3>4, <3>5, <3>6, <1>p, UploadsAdd, ZenonT(60)
        <4>2. Content[r] \ {} = Content[r] /\ Bytes[Content[r]] \in Nat
          BY <3>5, BytesAdd, Zenon
        <4>3. Bytes[Content[r] \ {}] + UploadBytes[Pending'] <= UploadBytes[Pending]
          BY <4>1, <4>2, <1>p
        <4>4. ~overlap' => ~overlap /\ {} \subseteq assoc
          BY <2>1, Zenon
        <4>5. {} \in SUBSET Content[r]
          BY Zenon
        <4> QED BY <2>1, <3>1, <3>2, <3>3, <3>5, <4>3, <4>4, <4>5, <1>h, Zenon
      <3>7. CASE r \notin Pending
        <4>0. ~(req[r].res > 0) /\ req[r].res \in Nat
          BY <2>1, <2>2, <3>7, <1>t, Zenon DEF Pending
        <4>a. req[r].res = 0
          BY <4>0
        <4>b. req[r].free \subseteq Content[r]
          BY <2>1, <1>b, Zenon DEF PhaseOf
        <4>1. req[r].res = 0 /\ req[r].free \in SUBSET Content[r]
          BY <4>a, <4>b, Zenon
        <4>2. Bytes[Content[r] \ req[r].free] <= 0
          BY <2>1, <4>1, <1>a, Zenon DEF Paid, RequestOver
        <4>3. Bytes[Content[r] \ req[r].free] \in Nat
          <5>1. Content[r] \ req[r].free \in SUBSET Blobs
            BY <3>5, Zenon
          <5> QED BY <5>1, BytesAdd, Zenon
        <4>4. Pending' = Pending
          BY <3>4, <3>7, Zenon
        <4>5. Bytes[Content[r] \ req[r].free] + UploadBytes[Pending'] <= UploadBytes[Pending]
          BY <4>2, <4>3, <4>4, <1>p
        <4>6. ~overlap' => ~overlap /\ req[r].free \subseteq assoc
          BY <2>1, Zenon
        <4> QED BY <2>1, <3>1, <3>2, <3>3, <3>5, <4>1, <4>5, <4>6, <1>h, Zenon
      <3> QED BY <3>6, <3>7, Zenon
    <2>3. CASE r \notin Uploads
      <3>1. req' = [req EXCEPT ![r] = [req[r] EXCEPT !.pc = "commit"]] /\ assoc' = assoc /\ r \in ManifestPuts
        BY <1>10, <2>1, <2>3, <1>a, Zenon DEF Store, Goto, Pushes
      <3>2. (\A o \in Requests \ {r} : req'[o] = req[o]) /\ req'[r].free = req[r].free
        BY <2>1, <3>1, <1>a, Zenon DEF RequestType
      <3>3. Pending' = Pending
        BY <2>1, <2>3, <3>2, PendingStep, Zenon
      <3>4. \A o \in Counting : req'[o] = req[o]
        BY <2>1, <3>2, <1>k, Zenon
      <3> SUFFICES ASSUME ~overlap, req[r].free \subseteq assoc PROVE Covered'
        BY <2>1, Zenon DEF Covered
      <3>5. \A p \in ManifestPuts : req'[p].pc = "commit" => req'[p].free \subseteq assoc'
        BY <3>1, <3>2, <1>a, <1>k, Zenon DEF Covered
      <3> QED BY <2>1, <3>1, <3>3, <3>4, <3>5, <1>a, <1>k DEF Covered
    <2> QED BY <2>2, <2>3, Zenon
  <1>11. ASSUME NEW r \in Requests, Commit(r) PROVE Covered'
    <2>1. /\ req[r].pc = "commit" /\ req' = [req EXCEPT ![r] = Ended("done")]
          /\ assoc' = IF r \in ManifestPuts THEN assoc \union Content[r] ELSE assoc \ req[r].gone
          /\ usage' = UsageOf(r) /\ overlap' = overlap
      BY <1>11, Zenon DEF Commit, AssocOf
    <2>2. (\A o \in Requests \ {r} : req'[o] = req[o]) /\ req'[r] = Ended("done")
      BY <2>1, <1>a, Zenon
    <2>3. req'[r].mine = NoRow /\ req'[r].pc \notin {"check", "commit"} /\ ~PendingOf(req'[r])
      BY <2>2, <1>d, Zenon DEF RequestOver
    <2>4. r \notin Uploads /\ r \notin Recounts
      BY <2>1, <1>b, Zenon DEF PhaseOf
    <2>5. Pending' = Pending
      BY <2>2, <2>4, PendingStep, Zenon
    <2>6. CASE r \in ManifestPuts
      <3>1. Content[r] \in SUBSET Blobs /\ req[r].free \in SUBSET Content[r] /\ r \in Pushes
        BY <2>6, <1>k, <1>b, QuotaAssumption, Zenon DEF PhaseOf
      <3>2. Bytes[Content[r] \ req[r].free] <= req[r].res
        BY <2>1, <3>1, <1>a, Zenon DEF Paid, RequestOver
      <3>3. ~overlap => req[r].free \subseteq assoc
        BY <2>1, <2>6, <1>a, Zenon DEF Covered
      <3>4. \A d \in Deletes : req[d].gone \intersect Content[r] = {}
        BY <2>1, <2>6, <1>a, Zenon DEF Closed
      <3>5. Bytes[Content[r] \ req[r].free] \in Nat
        <4>1. Content[r] \ req[r].free \in SUBSET Blobs
          BY <3>1, Zenon
        <4> QED BY <4>1, BytesAdd, Zenon
      <3>6. CASE req[r].mine = NoRow
        <4>1. req[r].res = 0 /\ usage' = usage
          BY <2>1, <2>6, <3>6, <1>b, Zenon DEF VersionOf, UsageOf
        <4>2. Bytes[Content[r] \ req[r].free] + UploadBytes[Pending'] <= UploadBytes[Pending]
          BY <4>1, <3>2, <3>5, <2>5, <1>p
        <4> QED BY <2>1, <2>2, <2>3, <2>6, <3>1, <3>3, <3>4, <4>1, <4>2, <1>h, Zenon
      <3>7. CASE req[r].mine # NoRow
        <4>1. /\ usage'.ver = usage.ver + 1 /\ usage'.val = usage.val + req[r].res
              /\ \A o \in Requests \ {r} : req[o].mine = NoRow
          BY <2>1, <2>6, <3>7, <1>b, Zenon DEF VersionOf, UsageOf, Versions
        <4>2. ASSUME ~overlap' PROVE Bytes[assoc'] + UploadBytes[Pending'] <= usage'.val
          <5>1. Bytes[assoc] + UploadBytes[Pending] <= usage.val /\ Bytes[assoc] \in Nat
            BY <2>1, <4>2, <1>a, BytesAdd, Zenon DEF Covered
          <5>2. Bytes[assoc \union Content[r]] <= Bytes[assoc] + Bytes[Content[r] \ req[r].free]
            BY <2>1, <4>2, <3>1, <3>3, <1>a, <1>t, BytesGrow, Zenon
          <5>3. Bytes[assoc \union Content[r]] \in Nat
            <6>1. assoc \union Content[r] \in SUBSET Blobs
              BY <3>1, <1>a, Zenon
            <6> QED BY <6>1, BytesAdd, Zenon
          <5>4. Bytes[assoc \union Content[r]] + UploadBytes[Pending] <= usage.val + req[r].res
            BY <5>1, <5>2, <5>3, <3>2, <3>5, <1>a, <1>p, <1>t
          <5> QED BY <5>4, <4>1, <2>1, <2>5, <2>6, Zenon
        <4>3. ASSUME ~overlap', NEW p \in ManifestPuts \ {r}, req[p].pc = "commit" PROVE req[p].free \subseteq assoc'
          BY <4>3, <2>1, <2>6, <1>a, Zenon DEF Covered
        <4> QED BY <2>2, <2>3, <4>1, <4>2, <4>3, <1>g, Zenon
      <3> QED BY <3>6, <3>7, Zenon
    <2>7. CASE r \in Deletes
      <3>1. r \notin ManifestPuts /\ assoc' = assoc \ req[r].gone /\ req[r].mine # NoRow
        BY <2>1, <2>7, <1>k, <1>b, Zenon DEF VersionOf
      <3>2. /\ usage'.ver = usage.ver + 1 /\ usage' = req[r].mine
            /\ \A o \in Requests \ {r} : req[o].mine = NoRow
        BY <2>1, <3>1, <1>b, Zenon DEF VersionOf, UsageOf, Versions
      <3>3. ~overlap' => Bytes[assoc'] + UploadBytes[Pending'] <= usage'.val
        BY <2>1, <2>5, <2>7, <3>1, <3>2, <1>a, Zenon DEF Covered
      <3>4. ASSUME ~overlap', NEW p \in ManifestPuts \ {r}, req[p].pc = "commit" PROVE req[p].free \subseteq assoc'
        <4>1. req[p].free \subseteq assoc /\ req[r].gone \intersect Content[p] = {}
          BY <2>1, <2>7, <3>4, <1>a, Zenon DEF Covered, Closed
        <4>2. req[p].free \subseteq Content[p]
          BY <3>4, <1>k, <1>b, Zenon DEF PhaseOf
        <4> QED BY <4>1, <4>2, <3>1, Zenon
      <3> QED BY <2>2, <2>3, <3>2, <3>3, <3>4, <1>g, Zenon
    <2>8. CASE r \notin ManifestPuts /\ r \notin Deletes
      <3>1. req[r].gone = {} /\ req[r].mine = NoRow
        BY <2>4, <2>8, <1>k, <1>b, Zenon DEF PhaseOf, VersionOf, InTx, Requests, Pushes
      <3>2. assoc' = assoc /\ usage' = usage
        BY <2>1, <2>8, <3>1, Zenon DEF UsageOf
      <3> QED BY <2>1, <3>2, <1>f, Zenon DEF RequestOver
    <2> QED BY <2>6, <2>7, <2>8, Zenon
  <1>12. CASE DetectDeadlock
    <2>1. PICK v \in ManifestPuts \union Deletes : req' = [req EXCEPT ![v] = Ended("failed")] /\ assoc' = assoc /\ usage' = usage /\ overlap' = overlap
      BY <1>12, Zenon DEF DetectDeadlock
    <2>2. v \in Requests
      BY <1>k, Zenon
    <2> QED BY <2>1, <2>2, <1>f, Zenon DEF RequestOver
  <1>13. CASE UNCHANGED quotaVars
    BY <1>13, <1>a, Zenon DEF quotaVars, Covered, Pending
  <1> QED
    BY <1>1, <1>2, <1>3, <1>4, <1>5, <1>6, <1>7, <1>8, <1>9, <1>10, <1>11, <1>12, <1>13, Zenon
       DEF QuotaNext, Begin, Proceed, UpdateLoop, Counting

-----------------------------------------------------------------------------
(* A push pays for what it adds.                                           *)

\* The charge covers the blobs the project does not have.
LEMMA ChargePays ==
    ASSUME QuotaInv, NEW r \in Pushes, req[r].gone = {}
    PROVE  /\ Bytes[Content[r] \ (Content[r] \intersect assoc)] <= Charge(r)
           /\ Charge(r) \in Nat
  <1>a. Content[r] \in SUBSET Blobs /\ assoc \in SUBSET Blobs /\ AssocOf(r) = assoc
    BY QuotaAssumption, Zenon DEF QuotaInv, QuotaTypeOK, AssocOf
  <1>b. Content[r] \ (Content[r] \intersect assoc) = Content[r] \ assoc
    BY Zenon
  <1>c. Bytes[Content[r] \ assoc] \in Nat
    <2>1. Content[r] \ assoc \in SUBSET Blobs
      BY <1>a, Zenon
    <2> QED BY <2>1, BytesAdd, Zenon
  <1>d. Content[r] \ assoc = {} => Bytes[Content[r] \ assoc] = 0
    BY SizesAssumption, Zenon
  <1>1. CASE r \in Uploads \union Mounts
    <2>1. Content[r] = {HeadOf[r]}
      BY <1>1, SizesAssumption, Zenon
    <2>2. Charge(r) = IF HeadOf[r] \in assoc THEN 0 ELSE Bytes[{HeadOf[r]}]
      <3>1. CASE r \in Uploads
        <4>1. r \notin Mounts /\ r \notin Copies
          BY <3>1, QuotaAssumption, Zenon
        <4> QED BY <3>1, <4>1, <1>a, Zenon DEF Charge, PutBlobUploadResources
      <3>2. CASE r \in Mounts /\ r \notin Uploads
        <4>1. Charge(r) = PostInitiateBlobUploadResources(r)
          BY <3>2, QuotaAssumption, Zenon DEF Charge
        <4> QED BY <4>1, <1>a, Zenon DEF PostInitiateBlobUploadResources
      <3> QED BY <1>1, <3>1, <3>2, Zenon
    <2>3. CASE HeadOf[r] \in assoc
      <3>1. Content[r] \ assoc = {}
        BY <2>1, <2>3, Zenon
      <3>2. Charge(r) = 0 /\ Bytes[Content[r] \ (Content[r] \intersect assoc)] = 0
        BY <3>1, <2>2, <2>3, <1>b, <1>d, Zenon
      <3> QED BY <3>2
    <2>4. CASE HeadOf[r] \notin assoc
      <3>1. Content[r] \ assoc = {HeadOf[r]}
        BY <2>1, <2>4, Zenon
      <3> QED BY <3>1, <2>2, <2>4, <1>b, <1>c
    <2> QED BY <2>3, <2>4, Zenon
  <1>2. CASE r \notin Uploads \union Mounts /\ r \in Copies
    <2>1. Charge(r) = Bytes[Content[r] \ assoc]
      BY <1>2, <1>a, Zenon DEF Charge, CopyArtifactResources
    <2> QED BY <2>1, <1>b, <1>c
  <1>3. CASE r \notin Uploads \union Mounts /\ r \notin Copies
    <2>1. Charge(r) = IF HeadOf[r] \in assoc THEN 0 ELSE Bytes[Content[r] \ assoc]
      BY <1>3, <1>a, Zenon DEF Charge, PutManifestResources
    <2>2. CASE HeadOf[r] \in assoc
      <3>1. Content[r] \ assoc = {}
        BY <1>3, <2>2, Zenon DEF QuotaInv, Closed, ArtifactPuts, Pushes
      <3>2. Charge(r) = 0 /\ Bytes[Content[r] \ (Content[r] \intersect assoc)] = 0
        BY <3>1, <2>1, <2>2, <1>b, <1>d, Zenon
      <3> QED BY <3>2
    <2>3. CASE HeadOf[r] \notin assoc
      BY <2>1, <2>3, <1>b, <1>c, SMTT(30)
    <2> QED BY <2>2, <2>3
  <1> QED BY <1>1, <1>2, <1>3, Zenon

\* Every step keeps what pushes have paid for.
LEMMA PaidStep == QuotaInv /\ [QuotaNext]_quotaVars => Paid'
  <1> SUFFICES ASSUME QuotaInv, [QuotaNext]_quotaVars PROVE Paid'
    OBVIOUS
  <1>a. /\ \A r \in Requests : req[r] \in RequestType
        /\ DOMAIN req = Requests /\ Paid
    BY Zenon DEF QuotaInv, QuotaTypeOK
  <1>b. \A r \in Requests : PhaseOf(r, req[r])
    BY Zenon DEF QuotaInv, Phases
  <1>k. Pushes \subseteq Requests /\ Counting \subseteq Requests /\ Admins \subseteq Requests
        /\ Pushes \intersect Counting = {} /\ Pushes \intersect Admins = {}
    BY QuotaAssumption, Zenon DEF Requests
  <1>c. ASSUME NEW r \in Requests, \A o \in Requests \ {r} : req'[o] = req[o],
               r \in Pushes /\ req'[r].pc \notin {"idle"} \union RequestOver =>
                  req'[r].free = req[r].free /\ req'[r].res = req[r].res /\ req[r].pc \notin {"idle"} \union RequestOver
        PROVE  Paid'
    BY <1>c, <1>a, <1>k, Zenon DEF Paid
  <1>d. \A p \in RequestOver : Ended(p).pc \in RequestOver
    BY Zenon DEF Ended, Fresh, RequestOver
  <1>1. ASSUME NEW r \in Requests, GetHard(r) PROVE Paid'
    <2>1. (\A o \in Requests \ {r} : req'[o] = req[o]) /\ req'[r].free = req[r].free /\ req'[r].res = req[r].res /\ req[r].pc \notin {"idle"} \union RequestOver
      BY <1>1, <1>a DEF GetHard, RequestType, RequestOver
    <2> QED BY <2>1, <1>c, Zenon
  <1>2. ASSUME NEW r \in Requests, GetUsed(r) PROVE Paid'
    <2>1. (\A o \in Requests \ {r} : req'[o] = req[o]) /\ req'[r].free = req[r].free /\ req'[r].res = req[r].res /\ req[r].pc \notin {"idle"} \union RequestOver
      BY <1>2, <1>a DEF GetUsed, RequestType, RequestOver
    <2> QED BY <2>1, <1>c
  <1>3. ASSUME NEW r \in Requests, CalculateUsage(r) PROVE Paid'
    <2>1. (\A o \in Requests \ {r} : req'[o] = req[o]) /\ req'[r].free = req[r].free /\ req'[r].res = req[r].res /\ req[r].pc \notin {"idle"} \union RequestOver
      BY <1>3, <1>a DEF CalculateUsage, RequestType, RequestOver
    <2> QED BY <2>1, <1>c
  <1>4. ASSUME NEW r \in Requests, NEW p \in RequestOver, req' = [req EXCEPT ![r] = Ended(p)] PROVE Paid'
    <2>1. (\A o \in Requests \ {r} : req'[o] = req[o]) /\ req'[r] = Ended(p)
      BY <1>4, <1>a, Zenon
    <2> QED BY <2>1, <1>c, <1>d, Zenon
  <1>5. ASSUME NEW r \in Requests, UpdateUsage(r) PROVE Paid'
    <2>1. req[r].pc = "check"
      BY <1>5, Zenon DEF UpdateUsage
    <2>2. \/ req' = [req EXCEPT ![r] = [req[r] EXCEPT !.pc = "again"]]
          \/ req' = [req EXCEPT ![r] = Stepped(req[r], AfterUpdate(r))]
          \/ \E w : req' = [req EXCEPT ![r] = [req[r] EXCEPT !.pc = AfterUpdate(r), !.mine = w]]
      BY <1>5, <1>a, Zenon DEF UpdateUsage, Goto
    <2>3. CASE req' = [req EXCEPT ![r] = [req[r] EXCEPT !.pc = "again"]]
      <3>1. (\A o \in Requests \ {r} : req'[o] = req[o]) /\ req'[r].free = req[r].free /\ req'[r].res = req[r].res
        BY <2>3, <1>a, Zenon DEF RequestType
      <3> QED BY <2>1, <3>1, <1>c, Zenon DEF RequestOver
    <2>4. CASE req' = [req EXCEPT ![r] = Stepped(req[r], AfterUpdate(r))]
      <3>1. (\A o \in Requests \ {r} : req'[o] = req[o]) /\ req'[r] = Stepped(req[r], AfterUpdate(r))
        BY <2>4, <1>a, Zenon
      <3>2. req'[r].pc \in RequestOver \/ (req'[r].free = req[r].free /\ req'[r].res = req[r].res)
        BY <3>1, <1>a, <1>d DEF Stepped, RequestType
      <3> QED BY <2>1, <3>1, <3>2, <1>c, Zenon DEF RequestOver
    <2>5. ASSUME NEW w, req' = [req EXCEPT ![r] = [req[r] EXCEPT !.pc = AfterUpdate(r), !.mine = w]] PROVE Paid'
      <3>1. (\A o \in Requests \ {r} : req'[o] = req[o]) /\ req'[r].free = req[r].free /\ req'[r].res = req[r].res
        BY <2>5, <1>a, Zenon DEF RequestType
      <3> QED BY <2>1, <3>1, <1>c DEF RequestOver
    <2> QED BY <2>2, <2>3, <2>4, <2>5, Zenon
  <1>6. ASSUME NEW r \in Pushes, Admit(r) PROVE Paid'
    <2>1. r \in Requests /\ req[r] = Ended("idle")
      BY <1>6, <1>b, <1>k, Zenon DEF Admit, PhaseOf
    <2>2. req[r].gone = {} /\ req[r].res = 0
      BY <2>1, Zenon DEF Ended, Fresh
    <2>3. (\A o \in Requests \ {r} : req'[o] = req[o]) /\ req'[r].free = Content[r] \intersect assoc
          /\ req'[r].res = IF Charge(r) = 0 /\ r \notin Copies THEN 0 ELSE Charge(r)
      BY <1>6, <2>1, <2>2, <1>a DEF Admit, Updating, RequestType
    <2>4. Bytes[Content[r] \ req'[r].free] <= req'[r].res
      BY <2>2, <2>3, ChargePays, Zenon
    <2>5. \A o \in Pushes \ {r} : req'[o] = req[o]
      BY <2>3, <1>k, Zenon
    <2> QED BY <2>4, <2>5, <1>a, Zenon DEF Paid
  <1>7. ASSUME NEW r \in Pushes, Store(r) PROVE Paid'
    <2>1. r \in Requests /\ req[r].pc = "work"
      BY <1>7, <1>k, Zenon DEF Store
    <2>2. CASE r \in Uploads
      BY <1>7, <2>1, <2>2, <1>4, Zenon DEF Store, RequestOver
    <2>3. CASE r \notin Uploads
      <3>1. (\A o \in Requests \ {r} : req'[o] = req[o]) /\ req'[r].free = req[r].free /\ req'[r].res = req[r].res
        BY <1>7, <2>1, <2>3, <1>a DEF Store, Goto, RequestType
      <3> QED BY <2>1, <3>1, <1>c, Zenon DEF RequestOver
    <2> QED BY <2>2, <2>3
  <1>8. ASSUME NEW r \in Pushes, FailPush(r) PROVE Paid'
    <2>1. r \in Requests /\ req[r].pc = "work"
      BY <1>8, <1>k, Zenon DEF FailPush
    <2>2. CASE r \in Uploads /\ req[r].res > 0
      <3>1. (\A o \in Requests \ {r} : req'[o] = req[o]) /\ req'[r].free = req[r].free /\ req'[r].res = req[r].res
        BY <1>8, <2>1, <2>2, <1>a, Zenon DEF FailPush, Updating, RequestType
      <3> QED BY <2>1, <3>1, <1>c DEF RequestOver
    <2>3. CASE ~(r \in Uploads /\ req[r].res > 0)
      BY <1>8, <2>1, <2>3, <1>4, Zenon DEF FailPush, RequestOver
    <2> QED BY <2>2, <2>3
  <1>9. ASSUME NEW r \in Counting \union Admins,
               Unlink(r) \/ Recount(r) \/ LoadQuota(r) \/ ReloadQuota(r) \/ UpdateHard(r) PROVE Paid'
    <2>1. r \in Requests /\ r \notin Pushes
      BY <1>k, Zenon
    <2>2. \A o \in Requests \ {r} : req'[o] = req[o]
      BY <1>9, <2>1, <1>a, Zenon DEF Unlink, Recount, LoadQuota, ReloadQuota, UpdateHard
    <2> QED BY <2>1, <2>2, <1>c, Zenon
  <1>10. ASSUME NEW r \in Requests, Refuse(r) \/ RetryTimeout(r) \/ UpdateTimeout(r) \/ Crash(r) \/ Commit(r) PROVE Paid'
    <2>1. PICK p \in RequestOver : req' = [req EXCEPT ![r] = Ended(p)]
      BY <1>10, Zenon DEF Refuse, RetryTimeout, UpdateTimeout, Crash, Commit, RequestOver
    <2> QED BY <2>1, <1>4, Zenon
  <1>11. CASE DetectDeadlock
    <2>1. PICK v \in ManifestPuts \union Deletes : req' = [req EXCEPT ![v] = Ended("failed")]
      BY <1>11, Zenon DEF DetectDeadlock
    <2>2. v \in Requests
      BY Zenon DEF Requests, Pushes, Counting
    <2> QED BY <2>1, <2>2, <1>4, Zenon DEF RequestOver
  <1>12. CASE UNCHANGED quotaVars
    BY <1>12, <1>a, Zenon DEF quotaVars, Paid
  <1> QED
    BY <1>1, <1>2, <1>3, <1>5, <1>6, <1>7, <1>8, <1>9, <1>10, <1>11, <1>12, Zenon
       DEF QuotaNext, Begin, Proceed, UpdateLoop, Counting

-----------------------------------------------------------------------------
(* The theorems.                                                           *)

\* The initial states satisfy the invariant.
LEMMA QuotaInitInv == QuotaInit => QuotaInv
  <1> SUFFICES ASSUME QuotaInit PROVE QuotaInv
    BY Zenon
  <1>1. PICK h \in Limits : hard = [val |-> h, ver |-> 0]
    BY Zenon DEF QuotaInit
  <1>2. PICK S \in SUBSET Blobs : /\ \A m \in ManifestPuts : HeadOf[m] \in S => Content[m] \subseteq S
                                 /\ assoc = S /\ usage = [val |-> Bytes[S], ver |-> 0]
    BY Zenon DEF QuotaInit
  <1>3. req \in [Requests -> {Fresh, Ended("done")}] /\ overlap = FALSE /\ crashes = 0
    BY Zenon DEF QuotaInit
  <1>4. Fresh = Ended("idle")
    BY SMTT(30) DEF Ended, Fresh
  <1>5. \A r \in Requests : \E p \in {"idle", "done"} : req[r] = Ended(p)
    BY <1>3, <1>4, Zenon
  <1>6. \A p \in {"idle", "done"} :
           /\ Ended(p).pc = p /\ Ended(p).op = "none" /\ Ended(p).res = 0 /\ Ended(p).mine = NoRow /\ Ended(p).limit = NoRow
           /\ Ended(p).gone = {} /\ Ended(p).free = {} /\ Ended(p).calc = 0 /\ Ended(p).lim.ver = -1
           /\ Ended(p) \in RequestType
    BY EndedType, Zenon DEF Ended, Fresh, NoRow, RequestOver
  <1>7. /\ \A r \in Requests : /\ req[r].pc \in {"idle", "done"} /\ req[r].op = "none" /\ req[r].res = 0
                               /\ req[r].mine = NoRow /\ req[r].limit = NoRow /\ req[r].gone = {} /\ req[r].free = {}
                               /\ req[r].calc = 0 /\ req[r].lim.ver = -1 /\ req[r] = Ended(req[r].pc) /\ req[r] \in RequestType
    BY <1>5, <1>6
  <1>8. QuotaTypeOK
    <2>1. hard \in [val : Nat \union {-1}, ver : Nat]
      <3>1. Limits \subseteq Nat \union {-1}
        BY QuotaAssumption, Zenon
      <3> QED BY <1>1, <3>1, Zenon
    <2>2. usage \in [val : Nat, ver : Nat]
      BY <1>2, BytesAdd, Zenon
    <2>3. req \in [Requests -> RequestType]
      BY <1>3, <1>7, Zenon
    <2>4. crashes \in 0..MaxCrashes
      BY <1>3, QuotaAssumption
    <2> QED BY <1>2, <1>3, <2>1, <2>2, <2>3, <2>4, Zenon DEF QuotaTypeOK
  <1>9. Phases
    <2> SUFFICES ASSUME NEW r \in Requests PROVE PhaseOf(r, req[r])
      BY Zenon DEF Phases
    <2> QED BY <1>7 DEF PhaseOf
  <1>10. Versions
    BY <1>7, Zenon DEF Versions, VersionOf
  <1>11. Closed
    BY <1>2, <1>7, Zenon DEF Closed, ArtifactPuts, Requests, Pushes, Counting
  <1>12. Paid
    BY <1>7, Zenon DEF Paid, RequestOver, Requests
  <1>13. Covered
    <2>1. Pending = {}
      BY <1>7, Zenon DEF Pending, Requests, Pushes
    <2>2. UploadBytes[Pending] = 0 /\ Bytes[S] \in Nat
      BY <2>1, SizesAssumption, BytesAdd, Zenon
    <2>3. Bytes[assoc] + UploadBytes[Pending] <= usage.val
      BY <2>2, <1>2
    <2> QED BY <2>3, <1>7, Zenon DEF Covered, Requests, Pushes, Counting
  <1> QED BY <1>8, <1>9, <1>10, <1>11, <1>12, <1>13, Zenon DEF QuotaInv

\* The invariant of the quota holds in every reachable state.
LEMMA QuotaInvariant == QuotaSpec => []QuotaInv
  <1>1. QuotaInv /\ [QuotaNext]_quotaVars => QuotaInv'
    BY TypeStep, PhasesStep, VersionsStep, ClosedStep, CoveredStep, PaidStep, Zenon DEF QuotaInv
  <1> QED BY QuotaInitInv, <1>1, PTL DEF QuotaSpec

\* Whatever pushes, deletions, recounts and changes of the limit run at once,
\* and wherever they fail, the usage covers what the project stores unless a
\* recount or a check overlapped an addition.
THEOREM QuotaSafe == QuotaSpec => []QuotaSound
  <1>1. QuotaInv => QuotaSound
    <2> SUFFICES ASSUME QuotaInv, ~overlap PROVE Bytes[assoc] <= usage.val
      BY Zenon DEF QuotaInv, QuotaSound, UsageCovers
    <2>1. assoc \in SUBSET Blobs /\ usage.val \in Nat /\ Pending \in SUBSET Uploads
      BY Zenon DEF QuotaInv, QuotaTypeOK, Pending
    <2>2. Bytes[assoc] \in Nat /\ UploadBytes[Pending] \in Nat
      BY <2>1, BytesAdd, SizesAssumption, Zenon
    <2>3. Bytes[assoc] + UploadBytes[Pending] <= usage.val
      BY Zenon DEF QuotaInv, Covered
    <2> QED BY <2>1, <2>2, <2>3
  <1> QED BY QuotaInvariant, <1>1, PTL

\* A request changes in its own steps and in those of the database alone.
LEMMA OwnSteps ==
    ASSUME QuotaInv, QuotaNext, NEW r \in Requests, req'[r] # req[r], ~DetectDeadlock
    PROVE  Begin(r) \/ Proceed(r) \/ RetryTimeout(r) \/ UpdateTimeout(r) \/ Crash(r)
  <1>1. DOMAIN req = Requests
    BY Zenon DEF QuotaInv, QuotaTypeOK
  <1>2. PICK o \in Requests : Begin(o) \/ Proceed(o) \/ RetryTimeout(o) \/ UpdateTimeout(o) \/ Crash(o)
    BY Zenon DEF QuotaNext
  <1>3. ASSUME NEW q, req' = [req EXCEPT ![o] = q] PROVE o = r
    BY <1>1, <1>3, Zenon
  <1>4. CASE Begin(o)
    <2>1. \E q : req' = [req EXCEPT ![o] = q]
      BY <1>4, Zenon DEF Begin, Admit, Unlink, Recount, LoadQuota
    <2> QED BY <1>2, <1>3, <2>1, Zenon
  <1>5. CASE Proceed(o)
    <2>1. \E q : req' = [req EXCEPT ![o] = q]
      BY <1>5, Zenon DEF Proceed, UpdateLoop, GetHard, GetUsed, CalculateUsage, Refuse, UpdateUsage,
         Store, FailPush,
                  ReloadQuota, UpdateHard, Commit, Goto
    <2> QED BY <1>2, <1>3, <2>1
  <1>6. CASE RetryTimeout(o) \/ UpdateTimeout(o) \/ Crash(o)
    <2>1. \E q : req' = [req EXCEPT ![o] = q]
      BY <1>6, Zenon DEF RetryTimeout, UpdateTimeout, Crash
    <2> QED BY <1>2, <1>3, <2>1
  <1> QED BY <1>2, <1>4, <1>5, <1>6, Zenon

\* No update of the usage overwrites another: the optimistic lock of dao.Update
\* and the database's row lock together make every reservation and every roll
\* back a difference of the committed values, for any number of requests.
THEOREM UpdatesKept == QuotaSpec => NoLostUpdate
  <1> DEFINE Kept(r) ==
         /\ (r \in Uploads /\ req[r].pc = "check" /\ usage' # usage /\ req'[r] # req[r]) =>
              usage'.val = usage.val + (IF req[r].op = "reserve" THEN 1 ELSE -1) * req[r].res
         /\ (r \in ManifestPuts /\ req[r].pc = "commit" /\ req'[r].pc = "done") =>
              usage'.val = usage.val + req[r].res
  <1>1. ASSUME QuotaInv, [QuotaNext]_quotaVars PROVE [\A r \in Pushes : Kept(r)]_quotaVars
    <2> SUFFICES ASSUME QuotaNext, NEW r \in Pushes PROVE Kept(r)
      BY <1>1, Zenon
    <2>0. r \in Requests /\ PhaseOf(r, req[r]) /\ VersionOf(r, req[r], usage) /\ req[r] \in RequestType
          /\ usage.val \in Nat
      BY <1>1, Zenon DEF Requests, QuotaInv, Phases, Versions, QuotaTypeOK
    <2>1. ASSUME DetectDeadlock PROVE usage' = usage
      BY <2>1, Zenon DEF DetectDeadlock
    <2>2. ASSUME r \in Uploads, req[r].pc = "check", usage' # usage, req'[r] # req[r]
          PROVE usage'.val = usage.val + (IF req[r].op = "reserve" THEN 1 ELSE -1) * req[r].res
      <3>1. Begin(r) \/ Proceed(r) \/ RetryTimeout(r) \/ UpdateTimeout(r) \/ Crash(r)
        BY <1>1, <2>0, <2>1, <2>2, OwnSteps, Zenon
      <3>2. UpdateUsage(r)
        BY <2>2, <3>1, Zenon DEF Begin, Admit, Unlink, Recount, LoadQuota, Proceed, UpdateLoop,
           GetHard, GetUsed,
             CalculateUsage, Refuse, Store, FailPush, ReloadQuota, UpdateHard, Commit, RetryTimeout, UpdateTimeout, Crash
      <3>3. UsageOf(r) = usage
        BY <2>0, <2>2, Zenon DEF VersionOf, UsageOf
      <3>4. usage' = [val |-> NewUsage(r), ver |-> req[r].seen.ver + 1] /\ usage.ver = req[r].seen.ver
        BY <2>2, <3>2, <3>3, Zenon DEF UpdateUsage
      <3>5. req[r].seen = usage
        BY <2>0, <2>2, <3>4, Zenon DEF VersionOf
      <3>6. req[r].op \in {"reserve", "rollback"}
        BY <2>0, <2>2, QuotaAssumption, Zenon DEF PhaseOf, Pushes
      <3>7. usage'.val = IF req[r].op = "reserve" THEN usage.val + req[r].res ELSE usage.val - req[r].res
        BY <3>4, <3>5, <3>6, Zenon DEF NewUsage
      <3>8. req[r].res \in Nat
        BY <2>0, Zenon DEF RequestType
      <3> QED BY <2>0, <3>7, <3>8
    <2>3. ASSUME r \in ManifestPuts, req[r].pc = "commit", req'[r].pc = "done"
          PROVE usage'.val = usage.val + req[r].res
      <3>1. req'[r] # req[r]
        BY <2>3, Zenon
      <3>2. CASE DetectDeadlock
        <4>1. PICK v \in ManifestPuts \union Deletes : req' = [req EXCEPT ![v] = Ended("failed")]
          BY <3>2, Zenon DEF DetectDeadlock
        <4>2. DOMAIN req = Requests
          BY <1>1, Zenon DEF QuotaInv, QuotaTypeOK
        <4>3. req'[r] = Ended("failed")
          BY <3>1, <4>1, <4>2, <2>0, Zenon
        <4> QED BY <4>3, <2>3, Zenon DEF Ended, Fresh
      <3>3. CASE ~DetectDeadlock
        <4>1. Begin(r) \/ Proceed(r) \/ RetryTimeout(r) \/ UpdateTimeout(r) \/ Crash(r)
          BY <1>1, <2>0, <3>1, <3>3, OwnSteps, Zenon
        <4>2. Commit(r) \/ Crash(r)
          BY <2>3, <4>1, Zenon DEF Begin, Admit, Unlink, Recount, LoadQuota, Proceed, UpdateLoop,
             GetHard, GetUsed,
               CalculateUsage, Refuse, UpdateUsage, Store, FailPush, ReloadQuota, UpdateHard, RetryTimeout, UpdateTimeout
        <4>3. ~Crash(r)
          <5> SUFFICES ASSUME Crash(r) PROVE FALSE
            BY Zenon
          <5>1. req' = [req EXCEPT ![r] = Ended("dead")] /\ DOMAIN req = Requests
            BY <1>1, Zenon DEF Crash, QuotaInv, QuotaTypeOK
          <5>2. req'[r] = Ended("dead")
            BY <5>1, <2>0, Zenon
          <5> QED BY <5>2, <2>3, Zenon DEF Ended, Fresh
        <4>4. usage' = UsageOf(r)
          BY <4>2, <4>3, Zenon DEF Commit
        <4>5. req[r].res \in Nat
          BY <2>0 DEF RequestType
        <4>6. CASE req[r].mine = NoRow
          <5>1. req[r].res = 0 /\ usage' = usage
            BY <2>0, <2>3, <4>4, <4>6, Zenon DEF UsageOf, VersionOf
          <5> QED BY <5>1, <2>0
        <4>7. CASE req[r].mine # NoRow
          BY <2>0, <2>3, <4>4, <4>7, Zenon DEF UsageOf, VersionOf
        <4> QED BY <4>6, <4>7, Zenon
      <3> QED BY <3>2, <3>3, Zenon
    <2> QED BY <2>2, <2>3, Zenon
  <1>2. QuotaInv /\ [QuotaNext]_quotaVars => [\A r \in Pushes : Kept(r)]_quotaVars
    BY <1>1, Zenon
  <1> QED BY QuotaInvariant, <1>2, PTL DEF QuotaSpec, NoLostUpdate
=============================================================================
