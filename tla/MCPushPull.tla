----------------------------- MODULE MCPushPull -----------------------------
(* Quota, scans and the proxy cache, one at a time, each in scenarios that *)
(* name the requests that come.                                            *)
(* Quota: a layer of 2 and a manifest of 1, any three of the requests,      *)
(* Scan: an index of two images, two images by themselves, a scan-all.     *)
(* Proxy cache: two images that share a blob, and one index of both.       *)
EXTENDS Quota, Scan, ProxyCache

VARIABLE which   \* the part that runs; the others keep their initial state

MCBlobs == {"layer", "manifest"}
MCBytes == [S \in SUBSET MCBlobs |-> MapThenSumSet(LAMBDA b : IF b = "layer" THEN 2 ELSE 1, S)]
MCContent == [r \in Pushes \union Deletes |->
                 IF r \in Uploads \union Mounts THEN {"layer"} ELSE MCBlobs]
MCHead == [r \in Pushes |-> IF r \in Uploads \union Mounts THEN "layer" ELSE "manifest"]
MCUploadBytes == [S \in SUBSET Uploads |-> 2 * Cardinality(S)]
MCLimits == {2, 4}

QuotaScenario(A) == req = [r \in Requests |-> IF r \in A THEN Fresh ELSE Ended("done")]

MCTargets == [s \in Scans |-> CASE s = "index" -> <<"c1", "c2">>
                                [] s = "other" -> <<"c2", "c1">>
                                [] OTHER -> <<"c1">>]
MCScanAlls == <<"all1", "all2">>
MCCheckOf == [p \in Checks |-> "c1"]

ScanScenarios == {{"index", "other"}, {"index", "image"}, {"image", "again", "delete"},
                  {"image", "again", "pull"}, {"image", "delete", "pull"}, {"all1", "all2", "image"}}

ScanScenario(A) ==
    /\ scan = [s \in Scans |-> IF s \in A THEN IdleScan ELSE [IdleScan EXCEPT !.pc = "failed"]]
    /\ artifact = [d \in Digests |->
                     [exists |-> TRUE, event |-> IF "delete" \in A /\ d = "c1" THEN "none" ELSE "over"]]
    /\ check = [p \in Checks |-> IF "pull" \in A THEN IdleCheck ELSE [IdleCheck EXCEPT !.pc = "refused"]]
    /\ all = [pc |-> IF "all1" \in A THEN "run" ELSE "over",
              i |-> 1, submit |-> 0, failed |-> 0, mark |-> "none"]
    /\ restarts = IF "index" \in A THEN MaxRestarts ELSE 0

MCImages  == {[kind |-> "image", of |-> {"b1"}], [kind |-> "image", of |-> {"b1", "b2"}]}
MCIndexes == {[kind |-> "index", of |-> MCImages]}
MCImage   == [kind |-> "image", of |-> {"b1"}]
MCPulls   == {"head", "get", "again", "image", "index", "dhead", "blob"}
MCKind    == [r \in MCPulls |->
    [method |-> CASE r \in {"head", "dhead"} -> "HEAD" [] r = "blob" -> "BLOB" [] OTHER -> "GET",
     ref    |-> CASE r \in {"head", "get", "again"} -> TagRef
                  [] r \in {"image", "dhead"} -> MCImage
                  [] r = "blob" -> [kind |-> "blob", of |-> {"b1"}]
                  [] OTHER -> [kind |-> "index", of |-> MCImages]]]

\* pulls of a tag with the goroutines they leave, pulls by digest, and the pulls
\* of what an index needs
ProxyScenarios == {{"head", "image"}, {"get", "again", "blob"}, {"get", "image"}, {"get", "index"},
                   {"image", "blob", "dhead"}, {"head", "index"}, {"image", "index", "again"}}

ProxyScenario(A) == pull = [r \in Pulls |-> IF r \in A THEN Idle ELSE Over(Idle)]

QuotaScenarios == kSubset(3, Requests \ {"t1", "c1"})
                  \union {{"t1", "c1"}, {"c1", "d1"}, {"t1", "m1"}, {"c1", "u1"}, {"t1", "a1"}}

\* One part runs, in one of the scenarios given for it.
Starting(Q, S, P) ==
    /\ \/ which = "quota" /\ (\E A \in Q : QuotaScenario(A)) /\ ScanScenario({}) /\ ProxyScenario({})
       \/ which = "scan" /\ (\E A \in S : ScanScenario(A)) /\ QuotaScenario({}) /\ ProxyScenario({})
       \/ which = "proxy" /\ (\E A \in P : ProxyScenario(A)) /\ QuotaScenario({}) /\ ScanScenario({})
    /\ QuotaInit /\ ScanInit /\ ProxyInit
    /\ which # "quota" => assoc = {} /\ hard.val = 2
    /\ which # "proxy" => upstream = <<MCImage>>

MCNext ==
    /\ UNCHANGED which
    /\ \/ which = "quota" /\ QuotaNext /\ UNCHANGED <<scanVars, pxVars>>
       \/ which = "scan" /\ ScanNext /\ UNCHANGED <<quotaVars, pxVars>>
       \/ which = "proxy" /\ ProxyNext /\ UNCHANGED <<quotaVars, scanVars>>

MCSpec == /\ Starting(QuotaScenarios, ScanScenarios, ProxyScenarios)
          /\ [][MCNext]_<<which, quotaVars, scanVars, pxVars>>

\* Fewer scenarios for the properties that need fairness.
LiveStarting == Starting({{"m1", "d1", "a1"}, {"u1", "m1", "a1"}, {"u1", "u2", "g1"}},
                         {{"index", "other"}, {"image", "again", "delete"}, {"all1", "all2"}},
                         {{"get", "image"}, {"head", "index"}, {"get", "blob"}})

LiveSpec == LiveStarting /\ [][MCNext]_<<which, quotaVars, scanVars, pxVars>>
            /\ QuotaFairness /\ ScanFairness /\ ProxyFairness
=============================================================================
