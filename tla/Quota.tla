-------------------------------- MODULE Quota -------------------------------
(***************************************************************************)
(* The storage quota of one project: tables quota and quota_usage, each    *)
(* with a version for optimistic locking, and the blobs associated with    *)
(* the project, whose sizes the usage is to add up to.                     *)
(*                                                                         *)
(* Requests that add blobs reserve their size before and give it back when *)
(* they fail; requests that delete artifacts, and the time after a garbage *)
(* collection, count again; an administrator changes the limit.  PUT of a  *)
(* blob and the recount run without a transaction, all others in one.      *)
(*                                                                         *)
(* Not represented: quotas switched off and on, foreign layers, warnings,  *)
(* the creation and deletion of the quota with its project.                *)
(***************************************************************************)
EXTENDS Integers, FiniteSets

CONSTANTS Blobs,      \* digests
          Bytes,      \* the size of every set of blobs
          Uploads,    \* PUT of a blob
          ManifestPuts, \* PUT of a manifest, a mount, a copy: in a transaction
          Mounts,     \* the mounts among them
          Copies,     \* the copies among them
          Deletes,    \* deletions of an artifact
          Recounts,   \* refreshes after a garbage collection or a retention
          Strict,     \* the recounts that respect the limit (retention)
          Admins,     \* changes of the limit
          Content,    \* the blobs that each request adds or deletes
          HeadOf,     \* the digest of the blob or the manifest pushed
          UploadBytes, \* what every set of uploads pays for
          Limits,     \* limits that an administrator sets; UNLIMITED is -1
          MaxCrashes  \* bound: requests whose process dies

Pushes == Uploads \union ManifestPuts
Counting == Deletes \union Recounts
ArtifactPuts == ManifestPuts \ Mounts
Requests == Pushes \union Counting \union Admins

ASSUME QuotaAssumption ==
    /\ Bytes \in [SUBSET Blobs -> Nat]
    /\ Content \in [Pushes \union Deletes -> SUBSET Blobs]
    /\ Limits \subseteq Nat \union {-1} /\ Limits # {}
    /\ Strict \subseteq Recounts
    /\ Mounts \union Copies \subseteq ManifestPuts /\ Mounts \intersect Copies = {}
    /\ Uploads \intersect ManifestPuts = {} /\ Deletes \intersect Recounts = {}
    /\ Pushes \intersect Counting = {}
    /\ Admins \intersect (Pushes \union Counting) = {}
    /\ MaxCrashes \in Nat

\* Sizes add up; an upload and a mount add one blob, and who adds a manifest
\* adds what it refers to.
ASSUME SizesAssumption ==
    /\ Bytes[{}] = 0
    /\ \A S, T \in SUBSET Blobs : Bytes[S \union T] = Bytes[S] + Bytes[T \ S]
    /\ UploadBytes \in [SUBSET Uploads -> Nat] /\ UploadBytes[{}] = 0
    /\ \A S \in SUBSET Uploads : \A u \in Uploads \ S :
          UploadBytes[S \union {u}] = UploadBytes[S] + Bytes[{HeadOf[u]}]
    /\ \A r \in Pushes : HeadOf[r] \in Content[r]
    /\ \A r \in Uploads \union Mounts : Content[r] = {HeadOf[r]}
    /\ \A m \in ArtifactPuts, p \in Pushes : HeadOf[m] \in Content[p] => Content[m] \subseteq Content[p]

VARIABLES
    hard,      \* row of table quota
    usage,     \* row of table quota_usage
    assoc,     \* blobs associated with the project
    req,       \* the requests
    overlap,   \* history: a count or a check was made while others were adding
    crashes

quotaVars == <<hard, usage, assoc, req, overlap, crashes>>

\* A request: pc; op, what it does to the usage; res, the bytes it reserved;
\* lim and seen, the rows it has read; calc, the usage it computed; mine and
\* limit, rows it has written and not committed; gone, associations it has
\* deleted and not committed; free, the blobs it does not pay for.
NoRow == [val |-> 0, ver |-> -1]
Fresh == [pc |-> "idle", op |-> "none", res |-> 0, lim |-> NoRow, seen |-> NoRow,
          calc |-> 0, mine |-> NoRow, limit |-> NoRow, gone |-> {}, free |-> {}]

RequestOver == {"done", "failed", "dead"}
InTx(r) == r \in ManifestPuts \union Deletes \union Admins

Ended(pc) == [Fresh EXCEPT !.pc = pc]

\* Requests that never come are over already.
QuotaInit ==
    /\ \E h \in Limits : hard = [val |-> h, ver |-> 0]
    /\ \E S \in SUBSET Blobs :
         /\ \A m \in ManifestPuts : HeadOf[m] \in S => Content[m] \subseteq S
         /\ assoc = S /\ usage = [val |-> Bytes[S], ver |-> 0]
    /\ req \in [Requests -> {Fresh, Ended("done")}]
    /\ overlap = FALSE /\ crashes = 0

Stepped(q, pc) == IF pc \in RequestOver THEN Ended(pc) ELSE [q EXCEPT !.pc = pc]
Goto(r, pc) == req' = [req EXCEPT ![r].pc = pc]

-----------------------------------------------------------------------------
(* What a request sees, and what it must wait for.                         *)

UsageOf(r) == IF req[r].mine # NoRow THEN req[r].mine ELSE usage
AssocOf(r) == assoc \ req[r].gone

\* Another transaction has written the row and not ended.
UsageLocked(r) == \E o \in Requests \ {r} : req[o].mine # NoRow
HardLocked(r) == \E o \in Requests \ {r} : req[o].limit # NoRow
Deleting(r, S) == \E o \in Requests \ {r} : req[o].gone \intersect S # {}
Adding(r, S) == \E o \in ManifestPuts \ {r} : req[o].pc = "commit" /\ Content[o] \intersect S # {}

-----------------------------------------------------------------------------
(* The rules of the quota.                                                 *)

IsSafe(limit, current, new, ignoreLimitation) ==
    limit = -1 \/ new = current \/ new <= limit \/ ignoreLimitation

\* Mutant: a manifest is charged for, its missing layers are not.
ManifestHeadOnly(r) == IF HeadOf[r] \in AssocOf(r) THEN 0 ELSE Bytes[{HeadOf[r]}]

\* The bytes a push asks for: of its blobs the project does not have, and
\* none at all when it has the one that stands for the request.
PutBlobUploadResources(r) == IF HeadOf[r] \in AssocOf(r) THEN 0 ELSE Bytes[{HeadOf[r]}]
PostInitiateBlobUploadResources(r) == IF HeadOf[r] \in AssocOf(r) THEN 0 ELSE Bytes[{HeadOf[r]}]
PutManifestResources(r) == IF HeadOf[r] \in AssocOf(r) THEN 0 ELSE Bytes[Content[r] \ AssocOf(r)]
CopyArtifactResources(r) == Bytes[Content[r] \ AssocOf(r)]

Charge(r) == CASE r \in Uploads -> PutBlobUploadResources(r)
               [] r \in Mounts  -> PostInitiateBlobUploadResources(r)
               [] r \in Copies  -> CopyArtifactResources(r)
               [] OTHER         -> PutManifestResources(r)

\* Mutant: a roll back writes the usage it read.
NewUsageKept(r) ==
    CASE req[r].op = "reserve"  -> req[r].seen.val + req[r].res
      [] req[r].op = "rollback" -> req[r].seen.val
      [] OTHER                  -> req[r].calc

NewUsage(r) ==
    CASE req[r].op = "reserve"  -> req[r].seen.val + req[r].res
      [] req[r].op = "rollback" -> req[r].seen.val - req[r].res
      [] OTHER                  -> req[r].calc

\* Mutant: nothing keeps a roll back from going below zero.
AllowedBelowZero(r) ==
    CASE req[r].op = "reserve"  -> IsSafe(req[r].lim.val, req[r].seen.val, NewUsage(r), FALSE)
      [] req[r].op = "rollback" -> TRUE
      [] OTHER                  -> IsSafe(req[r].lim.val, req[r].seen.val, NewUsage(r), r \notin Strict)

Allowed(r) ==
    CASE req[r].op = "reserve"  -> IsSafe(req[r].lim.val, req[r].seen.val, NewUsage(r), FALSE)
      [] req[r].op = "rollback" -> NewUsage(r) >= 0
      [] OTHER                  -> IsSafe(req[r].lim.val, req[r].seen.val, NewUsage(r), r \notin Strict)

-----------------------------------------------------------------------------
(* updateUsageWithRetry: read the two rows, compute, compare and set, and  *)
(* begin again when the version has changed, for five minutes at most.     *)

Updating(r, op, res) == [req[r] EXCEPT !.pc = "hard", !.op = op, !.res = res]

GetHard(r) ==
    /\ req[r].pc \in {"hard", "again"}
    /\ req' = [req EXCEPT ![r] = [@ EXCEPT !.pc = "used", !.lim = hard]]
    /\ UNCHANGED <<hard, usage, assoc, overlap, crashes>>

GetUsed(r) ==
    /\ req[r].pc = "used"
    /\ req' = [req EXCEPT ![r] = [@ EXCEPT !.pc = IF req[r].op = "refresh" THEN "calc" ELSE "check",
                                           !.seen = UsageOf(r)]]
    /\ UNCHANGED <<hard, usage, assoc, overlap, crashes>>

\* Uploads whose reservation is part of the usage and whose blob is not yet
\* associated, nor the reservation given back.
Pending == {u \in Uploads : req[u].res > 0 /\ (req[u].pc = "work" \/ req[u].op = "rollback")}

CalculateUsage(r) ==
    /\ req[r].pc = "calc"
    /\ req' = [req EXCEPT ![r] = [@ EXCEPT !.pc = "check", !.calc = Bytes[AssocOf(r)]]]
    /\ overlap' = (overlap \/ Pending # {})
    /\ UNCHANGED <<hard, usage, assoc, crashes>>

\* The operation refuses: the request fails, a failed roll back is ignored.
Refuse(r) ==
    /\ req[r].pc = "check" /\ ~Allowed(r)
    /\ req' = [req EXCEPT ![r] = Ended("failed")]
    /\ UNCHANGED <<hard, usage, assoc, overlap, crashes>>

AfterUpdate(r) ==
    CASE req[r].op = "reserve"  -> "work"
      [] req[r].op = "rollback" -> "failed"
      [] OTHER                  -> IF r \in Deletes THEN "commit" ELSE "done"

UpdateUsage(r) ==
    /\ req[r].pc = "check" /\ Allowed(r) /\ ~UsageLocked(r)
    /\ LET row == [val |-> NewUsage(r), ver |-> req[r].seen.ver + 1]
       IN  IF UsageOf(r).ver # req[r].seen.ver
           THEN Goto(r, "again") /\ UNCHANGED usage
           ELSE IF InTx(r)
           THEN /\ req' = [req EXCEPT ![r] = [@ EXCEPT !.pc = AfterUpdate(r), !.mine = row]]
                /\ UNCHANGED usage
           ELSE /\ usage' = row
                /\ req' = [req EXCEPT ![r] = Stepped(@, AfterUpdate(r))]
    /\ UNCHANGED <<hard, assoc, overlap, crashes>>

RetryTimeout(r) ==
    /\ req[r].pc = "again"
    /\ req' = [req EXCEPT ![r] = Ended("failed")]
    /\ UNCHANGED <<hard, usage, assoc, overlap, crashes>>

-----------------------------------------------------------------------------
(* Requests that add blobs.                                                *)

Admit(r) ==
    /\ req[r].pc = "idle"
    /\ LET q == IF Charge(r) = 0 /\ r \notin Copies THEN [req[r] EXCEPT !.pc = "work"]
                ELSE Updating(r, "reserve", Charge(r))
       IN  req' = [req EXCEPT ![r] = [q EXCEPT !.free = Content[r] \intersect assoc]]
    /\ UNCHANGED <<hard, usage, assoc, overlap, crashes>>

\* The registry has stored the content and the middleware associates it.
Store(r) ==
    /\ req[r].pc = "work"
    /\ ~Deleting(r, Content[r]) /\ ~Adding(r, Content[r])
    /\ IF r \in Uploads
       THEN /\ assoc' = assoc \union Content[r]
            /\ req' = [req EXCEPT ![r] = Ended("done")]
       ELSE Goto(r, "commit") /\ UNCHANGED assoc
    /\ overlap' = (overlap \/ ~(req[r].free \subseteq assoc))
    /\ UNCHANGED <<hard, usage, crashes>>

\* The request fails.  In a transaction the roll back of the resources is
\* undone together with the reservation.
FailPush(r) ==
    /\ req[r].pc = "work"
    /\ req' = [req EXCEPT ![r] = IF r \in Uploads /\ @.res > 0
                                 THEN Updating(r, "rollback", @.res) ELSE Ended("failed")]
    /\ UNCHANGED <<hard, usage, assoc, overlap, crashes>>

-----------------------------------------------------------------------------
(* Deletions and recounts.                                                 *)

\* The blobs of the artifact that no other artifact of the project uses.
BlobsShouldUnassociated(r) ==
    (Content[r] \intersect assoc) \ UNION {Content[m] : m \in {m \in ArtifactPuts : HeadOf[m] \in assoc \ Content[r]}}

Unlink(r) ==
    /\ req[r].pc = "idle"
    /\ LET S == BlobsShouldUnassociated(r)
       IN  /\ ~Deleting(r, S) /\ ~Adding(r, S)
           /\ req' = [req EXCEPT ![r] = [Updating(r, "refresh", 0) EXCEPT !.gone = S]]
    /\ UNCHANGED <<hard, usage, assoc, overlap, crashes>>

Recount(r) ==
    /\ req[r].pc = "idle"
    /\ req' = [req EXCEPT ![r] = Updating(r, "refresh", 0)]
    /\ UNCHANGED <<hard, usage, assoc, overlap, crashes>>

-----------------------------------------------------------------------------
(* A change of the limit.  The limit sent by the client and the one in the *)
(* row never compare equal, one being written by Go and the other by       *)
(* PostgreSQL; a change of both limit and usage is an error, and retried.  *)

LoadQuota(r) ==
    /\ req[r].pc = "idle"
    /\ \E n \in Limits : req' = [req EXCEPT ![r] = [@ EXCEPT !.pc = "reload", !.calc = n,
                                                             !.seen = usage]]
    /\ UNCHANGED <<hard, usage, assoc, overlap, crashes>>

ReloadQuota(r) ==
    /\ req[r].pc \in {"reload", "retry"}
    /\ req' = [req EXCEPT ![r] = IF usage.val # @.seen.val THEN [@ EXCEPT !.pc = "retry"]
                                 ELSE [@ EXCEPT !.pc = "sethard", !.lim = hard]]
    /\ UNCHANGED <<hard, usage, assoc, overlap, crashes>>

UpdateHard(r) ==
    /\ req[r].pc = "sethard" /\ ~HardLocked(r)
    /\ req' = [req EXCEPT ![r] =
                  IF hard.ver # @.lim.ver THEN [@ EXCEPT !.pc = "retry"]
                  ELSE [@ EXCEPT !.pc = "commit",
                                 !.limit = [val |-> req[r].calc, ver |-> req[r].lim.ver + 1]]]
    /\ UNCHANGED <<hard, usage, assoc, overlap, crashes>>

\* Mutant: no limit to the time of the retries.
UpdateNoTimeout(r) == FALSE /\ UNCHANGED quotaVars

UpdateTimeout(r) ==
    /\ req[r].pc = "retry"
    /\ req' = [req EXCEPT ![r] = Ended("failed")]
    /\ UNCHANGED <<hard, usage, assoc, overlap, crashes>>

-----------------------------------------------------------------------------
(* The end of a transaction.                                               *)

Commit(r) ==
    /\ req[r].pc = "commit"
    /\ usage' = UsageOf(r)
    /\ hard' = IF req[r].limit # NoRow THEN req[r].limit ELSE hard
    /\ assoc' = IF r \in ManifestPuts THEN assoc \union Content[r] ELSE AssocOf(r)
    /\ req' = [req EXCEPT ![r] = Ended("done")]
    /\ UNCHANGED <<overlap, crashes>>

\* The two wait for each other: a push holds the usage and wants an association
\* that a deletion has deleted, which wants the usage.  The database ends one.
Deadlocked(m, d) ==
    /\ m \in ManifestPuts /\ d \in Deletes
    /\ req[m].pc = "work" /\ req[m].mine # NoRow /\ req[d].gone \intersect Content[m] # {}
    /\ req[d].pc = "check"

DetectDeadlock ==
    /\ \E m \in ManifestPuts, d \in Deletes :
         /\ Deadlocked(m, d)
         /\ \E v \in {m, d} : req' = [req EXCEPT ![v] = Ended("failed")]
    /\ UNCHANGED <<hard, usage, assoc, overlap, crashes>>

\* The process of a request dies; the database rolls its transaction back.
Crash(r) ==
    /\ crashes < MaxCrashes /\ crashes' = crashes + 1
    /\ req[r].pc \notin RequestOver \union {"idle"}
    /\ req' = [req EXCEPT ![r] = Ended("dead")]
    /\ UNCHANGED <<hard, usage, assoc, overlap>>

-----------------------------------------------------------------------------
UpdateLoop(r) ==
    GetHard(r) \/ GetUsed(r) \/ CalculateUsage(r) \/ Refuse(r) \/ UpdateUsage(r)

Begin(r) ==
    \/ r \in Pushes /\ Admit(r)
    \/ r \in Deletes /\ Unlink(r)
    \/ r \in Recounts /\ Recount(r)
    \/ r \in Admins /\ LoadQuota(r)

Proceed(r) ==
    \/ UpdateLoop(r)
    \/ r \in Pushes /\ (Store(r) \/ FailPush(r))
    \/ r \in Admins /\ (ReloadQuota(r) \/ UpdateHard(r))
    \/ Commit(r)

QuotaNext ==
    \/ \E r \in Requests : Begin(r) \/ Proceed(r) \/ RetryTimeout(r) \/ UpdateTimeout(r) \/ Crash(r)
    \/ DetectDeadlock

QuotaSpec == QuotaInit /\ [][QuotaNext]_quotaVars

\* The system does not stop: some goroutine runs on, or the database detects
\* a deadlock; and the retries of a change of the limit end with their time.
QuotaFairness ==
    /\ WF_quotaVars(DetectDeadlock \/ \E r \in Requests : Proceed(r))
    /\ WF_quotaVars(\E r \in Admins : UpdateTimeout(r))

QuotaFairSpec == QuotaSpec /\ QuotaFairness

-----------------------------------------------------------------------------
(* Properties.                                                             *)

Rows == [val : Int, ver : Int]
RequestType ==
    [pc : {"idle", "hard", "again", "used", "calc", "check", "work",
           "reload", "retry", "sethard", "commit"} \union RequestOver,
     op : {"none", "reserve", "rollback", "refresh"},
     res : Nat, lim : Rows, seen : Rows, calc : Int, mine : Rows, limit : Rows,
     gone : SUBSET Blobs, free : SUBSET Blobs]

\* The rows are well formed; usage is never negative, whatever is rolled back.
QuotaTypeOK ==
    /\ hard \in [val : Nat \union {-1}, ver : Nat] /\ usage \in [val : Nat, ver : Nat]
    /\ assoc \subseteq Blobs /\ overlap \in BOOLEAN /\ crashes \in 0..MaxCrashes
    /\ req \in [Requests -> RequestType]

\* Quota is not given away: the usage covers everything associated with the
\* project, unless a recount (updateUsageWithRetry of a refresh) overlapped an
\* upload between its reservation and its association, or an association that
\* a push had relied on was deleted under it.
UsageCovers == overlap \/ Bytes[assoc] <= usage.val

\* No update of the usage is lost: what a reservation adds, or a roll back
\* takes away, is the difference of the committed values before and after
\* (the version in dao.Update, the lock of an open transaction).
NoLostUpdate ==
    [][\A r \in Pushes :
         /\ (r \in Uploads /\ req[r].pc = "check" /\ usage' # usage /\ req'[r] # req[r]) =>
              usage'.val = usage.val + (IF req[r].op = "reserve" THEN 1 ELSE -1) * req[r].res
         /\ (r \in ManifestPuts /\ req[r].pc = "commit" /\ req'[r].pc = "done") =>
              usage'.val = usage.val + req[r].res]_quotaVars

\* Every request that begins ends, deadlocks in the database, conflicts of versions and
\* changes of the limit that race a push included.
RequestsEnd == <>[](\A r \in Requests : req[r].pc \in RequestOver \union {"idle"})

\* The usage of a project is well formed and covers what it stores.
QuotaSound ==
    /\ QuotaTypeOK
    /\ UsageCovers
=============================================================================
