---------------------------- MODULE RobotsProofs ----------------------------
(***************************************************************************)
(* Robot accounts, for any robots, requests and permissions: row,          *)
(* permissions and secret of a robot stay together.                        *)
(***************************************************************************)
EXTENDS Robots, TLAPS

---------------------------------------------------------------------------
(* Shapes.                                                                 *)

RobotNames == {Want[r].name : r \in Requests} \union {"none", "r", "s"}
Secrets == Requests \union {"none", "first"}
Row == [name : RobotNames, secret : Secrets, days : Int, expires : Int, disabled : BOOLEAN]
Req == [pc : {"idle", "insert", "link", "write", "unlink", "commit", "erase", "drop", "mark", "dropProject",
              "permissions", "admitted", "done", "failed"},
        row : Row, new : Row, grants : SUBSET UNION Asked, gone : SUBSET Robots]

RobotTypes ==
    /\ project \in {"live", "deleted"} /\ crossed \subseteq Robots /\ dropped \subseteq Robots
    /\ robots \in [Robots -> Row] /\ perm \in [Robots -> Asked \union {{}}]
    /\ handed \in [Robots -> Secrets] /\ rq \in [Requests -> Req]

\* The expiry of a row is that of its duration.
GoodRow(x) == x.days # 0 /\ x.expires = ExpiresAt(x.days)
GoodRows == \A i \in Robots : Exists(i) => GoodRow(robots[i])

\* What a request has read and computed fits what it asks for: the row it is
\* to write is good and has the secret it should, and at the end it holds the
\* permissions it asked for or, under the lock, those there are.
Fits(r, q) ==
    /\ q.pc = "insert" => Want[r].op \in Creates
    /\ q.pc = "link" => Want[r].op \in Creates \union {"update"}
    /\ q.pc = "write" => Want[r].op \in {"update", "refresh", "disable"}
    /\ q.pc = "unlink" => Want[r].op = "update"
    /\ q.pc = "commit" => Want[r].op \in Creates \union {"update", "refresh", "disable"}
    /\ q.pc \in {"erase", "drop"} => Want[r].op \in {"delete", "deleteV1"}
    /\ q.pc \in {"mark", "dropProject"} => Want[r].op = "dropProject"
    /\ q.pc # "dropProject" => q.gone = {}
    /\ \A i \in q.gone : Level[i] = "project"
    /\ q.pc \in {"insert", "link", "write", "unlink", "commit"} =>
         /\ GoodRow(q.new)
         /\ q.new.secret = IF Want[r].op \in Creates \union {"refresh"} THEN r ELSE q.row.secret
         /\ Want[r].op \in Creates \union {"update"} => Want[r].perms # {}
    /\ q.pc = "commit" =>
         q.grants = IF Want[r].op \in {"refresh", "disable"} THEN perm[Want[r].id] ELSE Want[r].perms
    /\ q.pc = "admitted" => \E g \in Asked \union {{}} : q.grants \subseteq g

\* The rows a request in state q has locked.
HoldsBy(r, q, i) == \/ i \in q.gone
                    \/ Want[r].id = i /\ q.pc \in {"unlink", "link", "commit", "drop"}

\* A row is locked by one request at most; it is there unless it is being
\* created, and a row that is to be created is not.
OneHolder == \A r, s \in Requests, i \in Robots : HoldsBy(r, rq[r], i) /\ HoldsBy(s, rq[s], i) => r = s
HeldThere == \A r \in Requests, i \in Robots : HoldsBy(r, rq[r], i) /\ Want[r].op \notin Creates => Exists(i)
Coming(q) == q.pc \in {"idle", "insert", "link", "commit"}
NotYet == \A r \in Requests : Want[r].op \in Creates /\ Coming(rq[r]) => ~Exists(Want[r].id)

RobotInv ==
    /\ RobotTypes /\ GoodRows /\ GrantsWhole /\ GrantsGone /\ SecretKept
    /\ \A r \in Requests : Fits(r, rq[r])
    /\ OneHolder /\ HeldThere /\ NotYet

---------------------------------------------------------------------------
\* A duration and its expiry (RobotTokenDuration when none is given).
LEMMA DaysGood ==
    ASSUME NEW d \in Int
    PROVE  Days(d) \in Int /\ Days(d) # 0 /\ ExpiresAt(d) \in Int /\ ExpiresAt(d) = ExpiresAt(Days(d))
  BY RobotAssumption DEF Days, ExpiresAt

\* Rows and requests by their fields.
LEMMA ReqSet ==
    ASSUME NEW q \in Req
    PROVE  /\ q.pc \in {"idle", "insert", "link", "write", "unlink", "commit", "erase", "drop", "mark", "dropProject",
                        "permissions", "admitted", "done", "failed"}
           /\ q.row \in Row /\ q.new \in Row /\ q.grants \in SUBSET UNION Asked /\ q.gone \in SUBSET Robots
  BY DEF Req

\* The rest and the end of a request.
LEMMA RestTyped ==
    /\ NoRobot \in Row /\ IdleRequest \in Req /\ Closed("done") \in Req /\ Closed("failed") \in Req
    /\ Closed("done").pc = "done" /\ Closed("done").gone = {}
    /\ Closed("failed").pc = "failed" /\ Closed("failed").gone = {}
    /\ IdleRequest.pc = "idle" /\ IdleRequest.gone = {}
<1>1. NoRobot \in Row
  BY DEF NoRobot, Row, Secrets, RobotNames
<1>2. IdleRequest \in Req /\ IdleRequest.pc = "idle" /\ IdleRequest.gone = {}
  BY <1>1 DEF IdleRequest, Req
<1> QED
  BY <1>1, <1>2 DEF Closed, IdleRequest, Req

\* A request moves and nothing is committed: it is enough to look at what it
\* locks and holds now.
LEMMA Moves ==
    ASSUME RobotInv, NEW r \in Requests, NEW q \in Req, Fits(r, q), GoTo(r, q),
           \A i \in Robots : HoldsBy(r, q, i) => /\ Want[r].op \notin Creates => Exists(i)
                                                 /\ HoldsBy(r, rq[r], i) \/ ~Locked(r, i),
           Want[r].op \in Creates /\ Coming(q) => Coming(rq[r])
    PROVE  RobotInv'
<1>1. /\ rq' = [rq EXCEPT ![r] = q] /\ UNCHANGED <<project, robots, perm, handed, crossed, dropped>>
  BY Zenon DEF GoTo
<1>2. rq \in [Requests -> Req]
  BY Zenon DEF RobotInv, RobotTypes
<1>3. rq'[r] = q /\ \A s \in Requests \ {r} : rq'[s] = rq[s]
  BY <1>1, <1>2, Zenon
<1>4. RobotTypes' /\ GoodRows' /\ GrantsWhole' /\ GrantsGone' /\ SecretKept'
  <2>1. rq' \in [Requests -> Req]
    BY <1>1, <1>2, Zenon
  <2>2. RobotTypes'
    BY <1>1, <2>1, Zenon DEF RobotInv, RobotTypes
  <2> QED
    BY <1>1, <2>2, Zenon DEF RobotInv, GoodRows, GrantsWhole, GrantsGone, SecretKept, Exists
<1>5. \A s \in Requests : Fits(s, rq[s])'
  <2>1. ASSUME NEW s \in Requests PROVE Fits(s, rq[s])'
    <3>1. Fits(s, rq'[s])
      BY <1>3, Zenon DEF RobotInv
    <3> QED
      BY <1>1, <3>1, Zenon DEF Fits
  <2> QED
    BY <2>1, Zenon
<1>6. OneHolder'
  <2>1. \A s \in Requests \ {r}, i \in Robots : HoldsBy(s, rq[s], i) => Locked(r, i)
    BY Zenon DEF Locked, Holds, HoldsBy
  <2>2. \A s \in Requests \ {r}, i \in Robots : HoldsBy(s, rq[s], i) => ~HoldsBy(r, q, i)
    BY <2>1, Zenon DEF RobotInv, OneHolder
  <2> QED
    BY <1>3, <2>2, Zenon DEF RobotInv, OneHolder
<1>7. HeldThere'
  BY <1>1, <1>3, Zenon DEF RobotInv, HeldThere, Exists
<1>8. NotYet'
  BY <1>1, <1>3, ZenonT(60) DEF RobotInv, NotYet, Exists
<1> QED
  BY <1>4, <1>5, <1>6, <1>7, <1>8, Zenon DEF RobotInv

\* A transaction that fails rolls back.
LEMMA Fails ==
    ASSUME RobotInv, NEW r \in Requests, FailRobot(r)
    PROVE  RobotInv'
<1>1. PICK q : q = Closed("failed")
  BY Zenon
<1>2. q \in Req /\ q.pc = "failed" /\ q.gone = {}
  BY <1>1, RestTyped, Zenon
<1>3. Fits(r, q)
  BY <1>2, Zenon DEF Fits
<1>4. GoTo(r, q)
  BY <1>1, Zenon DEF FailRobot, GoTo
<1>5. \A i \in Robots : ~HoldsBy(r, q, i)
  BY <1>2, Zenon DEF HoldsBy
<1> QED
  BY <1>2, <1>3, <1>4, <1>5, Moves, Zenon DEF Coming

\* The row and the permissions of a robot are committed by a request that
\* has locked it.
LEMMA Commits ==
    ASSUME RobotInv, NEW r \in Requests, NEW new \in Row, NEW g \in Asked \union {{}}, CommitRobot(r, new, g),
           HoldsBy(r, rq[r], Want[r].id), rq[r].pc \in {"commit", "drop"},
           new = NoRobot => g = {},
           new # NoRobot => GoodRow(new) /\ (Want[r].id \notin Legacy => g # {}),
           new # NoRobot => new.secret = IF Want[r].op \in Creates \union {"refresh"} THEN r ELSE rq[r].row.secret
    PROVE  RobotInv'
<1> DEFINE i == Want[r].id
<1>a. i \in Robots
  BY RobotAssumption, Zenon
<1>b. /\ robots \in [Robots -> Row] /\ perm \in [Robots -> Asked \union {{}}] /\ handed \in [Robots -> Secrets]
      /\ rq \in [Requests -> Req]
  BY Zenon DEF RobotInv, RobotTypes
<1>c. /\ robots' = [robots EXCEPT ![i] = new] /\ perm' = [perm EXCEPT ![i] = g]
      /\ handed' = [handed EXCEPT ![i] = IF Want[r].op \in Creates \union {"refresh"} THEN r ELSE @]
      /\ crossed' = IF robots[i] # rq[r].row THEN crossed \union {i} ELSE crossed
      /\ dropped' = IF project = "deleted" /\ Level[i] = "project" THEN dropped \union {i} ELSE dropped
      /\ rq' = [rq EXCEPT ![r] = Closed("done")] /\ project' = project
  BY Zenon DEF CommitRobot
<1>d. HoldsBy(r, rq[r], i)
  BY Zenon
<1> HIDE DEF i
<1>1. /\ robots'[i] = new /\ perm'[i] = g
      /\ handed'[i] = IF Want[r].op \in Creates \union {"refresh"} THEN r ELSE handed[i]
      /\ rq'[r] = Closed("done")
  BY <1>a, <1>b, <1>c, Zenon
<1>2. /\ \A j \in Robots \ {i} : robots'[j] = robots[j] /\ perm'[j] = perm[j] /\ handed'[j] = handed[j]
      /\ \A s \in Requests \ {r} : rq'[s] = rq[s]
  BY <1>a, <1>b, <1>c, Zenon
<1>3. RobotTypes'
  <2>1. robots' \in [Robots -> Row] /\ perm' \in [Robots -> Asked \union {{}}] /\ rq' \in [Requests -> Req]
    BY <1>b, <1>c, RestTyped, Zenon
  <2>2. handed' \in [Robots -> Secrets]
    BY <1>b, <1>c, Zenon DEF Secrets
  <2>3. crossed' \subseteq Robots /\ dropped' \subseteq Robots
    BY <1>a, <1>c, Zenon DEF RobotInv, RobotTypes
  <2> QED
    BY <1>c, <2>1, <2>2, <2>3, Zenon DEF RobotInv, RobotTypes
<1>4. GoodRows' /\ GrantsWhole' /\ GrantsGone'
  <2>1. dropped \subseteq dropped'
    BY <1>c, Zenon
  <2> QED
    BY <1>1, <1>2, <2>1, ZenonT(60) DEF RobotInv, GoodRows, GrantsWhole, GrantsGone, Exists, i
<1>5. SecretKept'
  <2>1. crossed \subseteq crossed'
    BY <1>c, Zenon
  <2>2. ASSUME new # NoRobot, i \notin crossed' PROVE new.secret = handed'[i]
    <3>1. robots[i] = rq[r].row
      BY <1>c, <2>2, Zenon
    <3>2. CASE Want[r].op \in Creates \union {"refresh"}
      BY <1>1, <2>2, <3>2, Zenon
    <3>3. CASE Want[r].op \notin Creates \union {"refresh"}
      <4>1. Exists(i)
        BY <1>a, <1>d, <3>3, Zenon DEF RobotInv, HeldThere
      <4>2. robots[i].secret = handed[i]
        BY <1>a, <2>1, <2>2, <4>1, Zenon DEF RobotInv, SecretKept
      <4> QED
        BY <1>1, <2>2, <3>1, <3>3, <4>2, Zenon
    <3> QED
      BY <3>2, <3>3, Zenon
  <2> QED
    BY <1>1, <1>2, <2>1, <2>2, Zenon DEF RobotInv, SecretKept, Exists
<1>6. rq'[r].pc = "done" /\ rq'[r].gone = {}
  BY <1>1, RestTyped, Zenon
<1>7. \A s \in Requests \ {r} : ~HoldsBy(s, rq[s], i)
  BY <1>a, <1>d, Zenon DEF RobotInv, OneHolder
<1>8. \A s \in Requests : Fits(s, rq[s])'
  <2>1. ASSUME NEW s \in Requests \ {r} PROVE Fits(s, rq[s])'
    <3>1. rq'[s] = rq[s] /\ Fits(s, rq[s])
      BY <1>2, <2>1, Zenon DEF RobotInv
    <3>2. rq[s].pc = "commit" => Want[s].id \in Robots \ {i}
      BY <1>7, RobotAssumption, Zenon DEF HoldsBy
    <3>3. rq[s].pc = "commit" => perm'[Want[s].id] = perm[Want[s].id]
      BY <1>2, <3>2, Zenon
    <3> QED
      BY <3>1, <3>3, ZenonT(60) DEF Fits
  <2>2. Fits(r, rq[r])'
    BY <1>6, Zenon DEF Fits
  <2> QED
    BY <2>1, <2>2, Zenon
<1>9. OneHolder'
  <2>1. \A s \in Requests, j \in Robots : HoldsBy(s, rq'[s], j) => HoldsBy(s, rq[s], j)
    <3>1. \A j \in Robots : ~HoldsBy(r, rq'[r], j)
      BY <1>6, Zenon DEF HoldsBy
    <3> QED
      BY <1>2, <3>1, Zenon
  <2> QED
    BY <2>1, Zenon DEF RobotInv, OneHolder
<1>10. HeldThere'
  <2> SUFFICES ASSUME NEW s \in Requests, NEW j \in Robots, HoldsBy(s, rq'[s], j), Want[s].op \notin Creates
               PROVE  robots'[j] # NoRobot
    BY Zenon DEF HeldThere, HoldsBy, Exists
  <2>1. s # r
    BY <1>6, Zenon DEF HoldsBy
  <2>2. HoldsBy(s, rq[s], j)
    BY <1>2, <2>1, Zenon
  <2>3. j # i
    BY <1>7, <2>1, <2>2, Zenon
  <2> QED
    BY <1>2, <2>2, <2>3, Zenon DEF RobotInv, HeldThere, Exists
<1>11. NotYet'
  <2> SUFFICES ASSUME NEW s \in Requests, Want[s].op \in Creates, Coming(rq'[s]) PROVE robots'[Want[s].id] = NoRobot
    BY Zenon DEF NotYet, Exists, Coming
  <2>1. s # r
    BY <1>6, Zenon DEF Coming
  <2>2. Coming(rq[s]) /\ Want[s].id \in Robots
    BY <1>2, <2>1, RobotAssumption, Zenon
  <2>3. ~Exists(Want[s].id)
    BY <2>2, Zenon DEF RobotInv, NotYet
  <2>4. Want[s].id # i
    <3>1. CASE Want[r].op \in Creates
      BY <2>1, <3>1, RobotAssumption, Zenon DEF i
    <3>2. CASE Want[r].op \notin Creates
      BY <1>a, <1>d, <2>3, <3>2, Zenon DEF RobotInv, HeldThere
    <3> QED
      BY <3>1, <3>2, Zenon
  <2> QED
    BY <1>2, <2>2, <2>3, <2>4, Zenon DEF Exists
<1> QED
  BY <1>3, <1>4, <1>5, <1>8, <1>9, <1>10, <1>11, Zenon DEF RobotInv

---------------------------------------------------------------------------
\* A creation starts: Create and CreateRobotV1.
LEMMA CreateSteps ==
    ASSUME RobotInv, NEW r \in Requests, CreateRobot(r) \/ CreateRobotV1(r) PROVE RobotInv'
<1>1. CASE FailRobot(r)
  BY <1>1, Fails, Zenon
<1>2. CASE ~FailRobot(r)
  <2>1. PICK new : new = IF Want[r].op = "create" THEN NewRobot(r)
                         ELSE [NewRobot(r) EXCEPT !.days = Days(0), !.expires = ExpiresAt(0)]
    BY Zenon
  <2>2. new \in Row /\ new.secret = r /\ GoodRow(new)
    <3>1. Want[r].days \in Int /\ 0 \in Int
      BY RobotAssumption
    <3>2. NewRobot(r) \in Row /\ NewRobot(r).secret = r /\ GoodRow(NewRobot(r))
      BY <3>1, DaysGood DEF NewRobot, Row, RobotNames, Secrets, GoodRow
    <3>3. Days(0) \in Int /\ Days(0) # 0 /\ ExpiresAt(0) \in Int /\ ExpiresAt(0) = ExpiresAt(Days(0))
      BY <3>1, DaysGood, Zenon
    <3>4. [NewRobot(r) EXCEPT !.days = Days(0), !.expires = ExpiresAt(0)] \in Row
      BY <3>2, <3>3, Zenon DEF Row
    <3>5. /\ [NewRobot(r) EXCEPT !.days = Days(0), !.expires = ExpiresAt(0)].secret = r
          /\ GoodRow([NewRobot(r) EXCEPT !.days = Days(0), !.expires = ExpiresAt(0)])
      BY <3>2, <3>3 DEF Row, GoodRow
    <3> QED
      BY <2>1, <3>2, <3>4, <3>5, Zenon
  <2>3. PICK q : q = [IdleRequest EXCEPT !.pc = "insert", !.new = new]
    BY Zenon
  <2>4. q \in Req /\ q.pc = "insert" /\ q.new = new /\ q.gone = {}
    BY <2>2, <2>3, RestTyped, Zenon DEF Req
  <2>5. GoTo(r, q) /\ Want[r].op \in Creates /\ rq[r].pc = "idle" /\ Want[r].perms # {}
    <3>1. CASE CreateRobot(r)
      BY <1>2, <2>1, <2>3, <3>1, Zenon DEF CreateRobot, Creates, Validate
    <3>2. CASE CreateRobotV1(r)
      BY <1>2, <2>1, <2>3, <3>2, Zenon DEF CreateRobotV1, Creates
    <3> QED
      BY <3>1, <3>2, Zenon
  <2>6. Fits(r, q)
    BY <2>2, <2>4, <2>5, Zenon DEF Fits
  <2>7. \A i \in Robots : ~HoldsBy(r, q, i)
    BY <2>4, Zenon DEF HoldsBy
  <2> QED
    BY <2>4, <2>5, <2>6, <2>7, Moves, Zenon DEF Coming
<1> QED
  BY <1>1, <1>2, Zenon

\* The row of a new robot is inserted: nobody else has it.
LEMMA InsertStep ==
    ASSUME RobotInv, NEW r \in Requests, InsertRobot(r) PROVE RobotInv'
<1>1. CASE FailRobot(r)
  BY <1>1, Fails, Zenon
<1>2. CASE ~FailRobot(r)
  <2>1. rq[r] \in Req /\ Fits(r, rq[r]) /\ rq[r].pc = "insert" /\ GoTo(r, [rq[r] EXCEPT !.pc = "link"])
    BY <1>2, Zenon DEF InsertRobot, RobotInv, RobotTypes
  <2>2. PICK q : q = [rq[r] EXCEPT !.pc = "link"]
    BY Zenon
  <2>3. q \in Req /\ q.pc = "link" /\ q.new = rq[r].new /\ q.row = rq[r].row /\ q.gone = rq[r].gone
    BY <2>1, <2>2 DEF Req
  <2>4. Want[r].op \in Creates /\ Want[r].id \in Robots /\ ~Exists(Want[r].id) /\ q.gone = {}
    BY <2>1, <2>3, RobotAssumption, Zenon DEF Fits, RobotInv, NotYet, Coming
  <2>5. Fits(r, q)
    BY <2>1, <2>3, <2>4, Zenon DEF Fits
  <2>6. ~Locked(r, Want[r].id)
    <3> SUFFICES ASSUME NEW s \in Requests \ {r}, HoldsBy(s, rq[s], Want[r].id) PROVE FALSE
      BY Zenon DEF Locked, Holds, HoldsBy
    <3>1. Want[s].op \notin Creates
      <4> SUFFICES ASSUME Want[s].op \in Creates PROVE FALSE
        BY Zenon
      <4>1. Want[s].op # "dropProject"
        BY DEF Creates
      <4>2. rq[s].gone = {}
        BY <4>1, Zenon DEF RobotInv, Fits
      <4> QED
        BY <2>4, <4>2, RobotAssumption, Zenon DEF HoldsBy
    <3> QED
      BY <2>4, <3>1, Zenon DEF RobotInv, HeldThere
  <2>7. \A i \in Robots : HoldsBy(r, q, i) => i = Want[r].id
    BY <2>4, Zenon DEF HoldsBy
  <2> QED
    BY <2>1, <2>2, <2>3, <2>4, <2>5, <2>6, <2>7, Moves, Zenon DEF Coming
<1> QED
  BY <1>1, <1>2, Zenon

\* createPermission, and DeletePermissionsByRole before it in an update: the
\* row stays locked.
LEMMA LinkSteps ==
    ASSUME RobotInv, NEW r \in Requests, CreatePermission(r) \/ DeletePermissionsByRole(r) PROVE RobotInv'
<1>1. CASE FailRobot(r)
  BY <1>1, Fails, Zenon
<1>2. CASE ~FailRobot(r)
  <2>1. rq[r] \in Req /\ Fits(r, rq[r])
    BY Zenon DEF RobotInv, RobotTypes
  <2>2. PICK q : q = IF rq[r].pc = "unlink" THEN [rq[r] EXCEPT !.pc = "link"]
                     ELSE [rq[r] EXCEPT !.pc = "commit", !.grants = Want[r].perms]
    BY Zenon
  <2>3. rq[r].pc \in {"link", "unlink"} /\ GoTo(r, q)
    <3>1. CASE CreatePermission(r)
      BY <1>2, <2>2, <3>1 DEF CreatePermission
    <3>2. CASE DeletePermissionsByRole(r)
      BY <1>2, <2>2, <3>2 DEF DeletePermissionsByRole
    <3> QED
      BY <3>1, <3>2, Zenon
  <2>4. Want[r].perms \in SUBSET UNION Asked
    BY Zenon DEF Asked
  <2>5. /\ q \in Req /\ q.new = rq[r].new /\ q.row = rq[r].row /\ q.gone = rq[r].gone
        /\ q.pc = IF rq[r].pc = "unlink" THEN "link" ELSE "commit"
        /\ q.pc = "commit" => q.grants = Want[r].perms
    <3>1. CASE rq[r].pc = "unlink"
      BY <2>1, <2>2, <3>1 DEF Req
    <3>2. CASE rq[r].pc = "link"
      BY <2>1, <2>2, <2>4, <3>2, Zenon DEF Req
    <3> QED
      BY <2>3, <3>1, <3>2, Zenon
  <2>6. /\ Want[r].op \in Creates \union {"update"} /\ q.gone = {}
        /\ rq[r].pc = "unlink" => Want[r].op = "update"
    BY <2>1, <2>3, <2>5, Zenon DEF Fits
  <2>6a. Want[r].op \notin {"refresh", "disable"}
    BY <2>6 DEF Creates
  <2>7. Fits(r, q)
    BY <2>1, <2>3, <2>5, <2>6, <2>6a, Zenon DEF Fits
  <2>8. \A i \in Robots : HoldsBy(r, q, i) => HoldsBy(r, rq[r], i)
    BY <2>3, <2>5, <2>6, Zenon DEF HoldsBy
  <2>9. \A i \in Robots : HoldsBy(r, q, i) /\ Want[r].op \notin Creates => Exists(i)
    BY <2>8, Zenon DEF RobotInv, HeldThere
  <2>10. Want[r].op \in Creates => rq[r].pc = "link"
    BY <2>3, <2>6 DEF Creates
  <2> QED
    BY <2>3, <2>5, <2>7, <2>8, <2>9, <2>10, Moves, Zenon DEF Coming
<1> QED
  BY <1>1, <1>2, Zenon

\* An update reads the row and works out the new one: UpdateRobot,
\* RefreshSec, UpdateRobotV1.
LEMMA ReadSteps ==
    ASSUME RobotInv, NEW r \in Requests, UpdateRobot(r) \/ RefreshSec(r) \/ UpdateRobotV1(r) PROVE RobotInv'
<1>1. CASE FailRobot(r)
  BY <1>1, Fails, Zenon
<1>2. CASE ~FailRobot(r)
  <2>1. PICK row : row = robots[Want[r].id]
    BY Zenon
  <2>2. PICK new : new = CASE Want[r].op = "update" -> UpdateV2(row, Want[r])
                           [] Want[r].op = "refresh" -> [row EXCEPT !.secret = r]
                           [] Want[r].op = "disable" -> [row EXCEPT !.disabled = Want[r].dis]
    BY Zenon
  <2>3. \/ new = UpdateV2(row, Want[r]) /\ Want[r].op = "update" /\ Want[r].perms # {}
        \/ new = [row EXCEPT !.secret = r] /\ Want[r].op = "refresh"
        \/ new = [row EXCEPT !.disabled = Want[r].dis] /\ Want[r].op = "disable"
    <3>1. CASE UpdateRobot(r)
      <4>1. Want[r].op = "update" /\ Want[r].perms # {}
        BY <1>2, <3>1, Zenon DEF UpdateRobot, Validate
      <4> QED
        BY <2>2, <4>1
    <3>2. CASE RefreshSec(r)
      <4>1. Want[r].op = "refresh"
        BY <3>2, Zenon DEF RefreshSec
      <4> QED
        BY <2>2, <4>1
    <3>3. CASE UpdateRobotV1(r)
      <4>1. Want[r].op = "disable"
        BY <3>3, Zenon DEF UpdateRobotV1
      <4> QED
        BY <2>2, <4>1
    <3> QED
      BY <3>1, <3>2, <3>3, Zenon
  <2>4. PICK q : q = [IdleRequest EXCEPT !.pc = "write", !.row = row, !.new = new]
    BY Zenon
  <2>5. GoTo(r, q) /\ rq[r].pc = "idle" /\ row # NoRobot
    BY <1>2, <2>1, <2>2, <2>4, Zenon DEF UpdateRobot, RefreshSec, UpdateRobotV1, Exists
  <2>6. row \in Row /\ GoodRow(row) /\ Want[r].days \in Int /\ Want[r].dis \in BOOLEAN
    BY <2>1, <2>5, RobotAssumption, Zenon DEF RobotInv, RobotTypes, GoodRows, Exists
  <2>7. /\ new \in Row /\ GoodRow(new)
        /\ new.secret = IF Want[r].op \in Creates \union {"refresh"} THEN r ELSE row.secret
    <3>1. CASE new = UpdateV2(row, Want[r]) /\ Want[r].op = "update"
      <4>1. /\ Days(Want[r].days) \in Int /\ Days(Want[r].days) # 0 /\ ExpiresAt(Want[r].days) \in Int
            /\ ExpiresAt(Want[r].days) = ExpiresAt(Days(Want[r].days))
        BY <2>6, DaysGood, Zenon
      <4>2. new \in Row /\ new.secret = row.secret
        BY <2>6, <3>1, <4>1, Zenon DEF Row, UpdateV2
      <4>3. /\ new.days = IF Want[r].days # row.days THEN Days(Want[r].days) ELSE row.days
            /\ new.expires = IF Want[r].days # row.days THEN ExpiresAt(Want[r].days) ELSE row.expires
        BY <2>6, <3>1 DEF Row, UpdateV2
      <4>4. GoodRow(new)
        BY <2>6, <4>1, <4>3, Zenon DEF GoodRow
      <4> QED
        BY <3>1, <4>2, <4>4 DEF Creates
    <3>2. CASE new = [row EXCEPT !.secret = r] /\ Want[r].op = "refresh"
      BY <2>6, <3>2 DEF Row, GoodRow, Secrets
    <3>3. CASE new = [row EXCEPT !.disabled = Want[r].dis] /\ Want[r].op = "disable"
      BY <2>6, <3>3 DEF Row, GoodRow, Creates
    <3> QED
      BY <2>3, <3>1, <3>2, <3>3, Zenon
  <2>8. q \in Req /\ q.pc = "write" /\ q.row = row /\ q.new = new /\ q.gone = {}
    <3>1. /\ q = [pc |-> "write", row |-> row, new |-> new, grants |-> {}, gone |-> {}]
      BY <2>4, Zenon DEF IdleRequest
    <3> QED
      BY <2>6, <2>7, <3>1 DEF Req
  <2>9. Want[r].op \in {"update", "refresh", "disable"} /\ Want[r].op \notin Creates
        /\ (Want[r].op = "update" => Want[r].perms # {})
    BY <2>3 DEF Creates
  <2>10. Fits(r, q)
    BY <2>7, <2>8, <2>9, Zenon DEF Fits
  <2>11. \A i \in Robots : ~HoldsBy(r, q, i)
    BY <2>8, Zenon DEF HoldsBy
  <2> QED
    BY <2>5, <2>8, <2>9, <2>10, <2>11, Moves, Zenon
<1> QED
  BY <1>1, <1>2, Zenon

\* The row is updated, and locked from now on.
LEMMA WriteStep ==
    ASSUME RobotInv, NEW r \in Requests, WriteRobot(r) PROVE RobotInv'
<1>1. CASE FailRobot(r)
  BY <1>1, Fails, Zenon
<1>2. CASE ~FailRobot(r)
  <2>1. rq[r] \in Req /\ Fits(r, rq[r]) /\ rq[r].pc = "write" /\ ~Locked(r, Want[r].id) /\ Exists(Want[r].id)
    BY <1>2, Zenon DEF WriteRobot, RobotInv, RobotTypes
  <2>2. PICK pc : pc = IF Want[r].op = "update" THEN "unlink" ELSE "commit"
    BY Zenon
  <2>3. PICK g : g = perm[Want[r].id]
    BY Zenon
  <2>4. PICK q : q = [rq[r] EXCEPT !.pc = pc, !.grants = g]
    BY Zenon
  <2>5. GoTo(r, q)
    BY <1>2, <2>1, <2>2, <2>3, <2>4, Zenon DEF WriteRobot
  <2>6. g \in SUBSET UNION Asked
    BY <2>3, RobotAssumption, Zenon DEF RobotInv, RobotTypes
  <2>7. pc \in {"unlink", "commit"}
    BY <2>2, Zenon
  <2>8. /\ q \in Req /\ q.new = rq[r].new /\ q.row = rq[r].row /\ q.gone = rq[r].gone /\ q.pc = pc /\ q.grants = g
    BY <2>1, <2>4, <2>6, <2>7, Zenon DEF Req
  <2>9. Want[r].op \in {"update", "refresh", "disable"} /\ Want[r].op \notin Creates /\ q.gone = {}
    BY <2>1, <2>8 DEF Fits, Creates
  <2>10. Fits(r, q)
    <3>1. /\ GoodRow(q.new) /\ q.new.secret = IF Want[r].op \in Creates \union {"refresh"} THEN r ELSE q.row.secret
          /\ Want[r].op \in Creates \union {"update"} => Want[r].perms # {}
      BY <2>1, <2>8, Zenon DEF Fits
    <3>2. pc = "unlink" => Want[r].op = "update"
      BY <2>2
    <3>3. pc = "commit" => Want[r].op \in {"refresh", "disable"}
      BY <2>2, <2>9
    <3> QED
      BY <2>3, <2>7, <2>8, <2>9, <3>1, <3>2, <3>3, Zenon DEF Fits
  <2>11. \A i \in Robots : HoldsBy(r, q, i) => i = Want[r].id
    BY <2>9, Zenon DEF HoldsBy
  <2> QED
    BY <2>1, <2>5, <2>8, <2>9, <2>10, <2>11, Moves, Zenon
<1> QED
  BY <1>1, <1>2, Zenon

\* The end of a creation or an update.
LEMMA CommitStep ==
    ASSUME RobotInv, NEW r \in Requests, Commit(r) PROVE RobotInv'
<1>1. rq[r] \in Req /\ Fits(r, rq[r]) /\ rq[r].pc = "commit" /\ Want[r].id \in Robots
  BY RobotAssumption, Zenon DEF Commit, RobotInv, RobotTypes
<1>2. PICK new, g : new = rq[r].new /\ g = rq[r].grants
  BY Zenon
<1>3. CommitRobot(r, new, g)
  BY <1>2, Zenon DEF Commit
<1>4. new \in Row /\ GoodRow(new) /\ new # NoRobot
  <2>1. new \in Row /\ GoodRow(new)
    BY <1>1, <1>2, ReqSet, Zenon DEF Fits
  <2>2. NoRobot.days = 0
    BY DEF NoRobot
  <2> QED
    BY <2>1, <2>2, Zenon DEF GoodRow
<1>5. new.secret = IF Want[r].op \in Creates \union {"refresh"} THEN r ELSE rq[r].row.secret
  BY <1>1, <1>2, Zenon DEF Fits
<1>6. HoldsBy(r, rq[r], Want[r].id)
  BY <1>1, Zenon DEF HoldsBy
<1>7. g \in Asked \union {{}} /\ (Want[r].id \notin Legacy => g # {})
  <2>1. CASE Want[r].op \in {"refresh", "disable"}
    <3>1. g = perm[Want[r].id]
      BY <1>1, <1>2, <2>1, Zenon DEF Fits
    <3>2. Want[r].op \notin Creates
      BY <2>1 DEF Creates
    <3>3. Exists(Want[r].id)
      BY <1>1, <1>6, <3>2, Zenon DEF RobotInv, HeldThere
    <3> QED
      BY <1>1, <3>1, <3>3, Zenon DEF RobotInv, RobotTypes, GrantsWhole
  <2>2. CASE Want[r].op \notin {"refresh", "disable"}
    BY <1>1, <1>2, <2>2, Zenon DEF Fits, Asked
  <2> QED
    BY <2>1, <2>2, Zenon
<1> QED
  BY <1>1, <1>3, <1>4, <1>5, <1>6, <1>7, Commits, Zenon

\* A robot is looked up and its row deleted: DeleteRobot, DeleteRobotV1,
\* EraseRobot.
LEMMA DeleteSteps ==
    ASSUME RobotInv, NEW r \in Requests, DeleteRobot(r) \/ DeleteRobotV1(r) \/ EraseRobot(r) PROVE RobotInv'
<1>1. CASE FailRobot(r)
  BY <1>1, Fails, Zenon
<1>2. CASE ~FailRobot(r) /\ (DeleteRobot(r) \/ DeleteRobotV1(r))
  <2>1. PICK row : row = robots[Want[r].id]
    BY Zenon
  <2>2. PICK q : q = [IdleRequest EXCEPT !.pc = "erase", !.row = row]
    BY Zenon
  <2>3. GoTo(r, q) /\ Want[r].op \in {"delete", "deleteV1"}
    BY <1>2, <2>1, <2>2, Zenon DEF DeleteRobot, DeleteRobotV1
  <2>4. row \in Row
    BY <2>1, RobotAssumption, Zenon DEF RobotInv, RobotTypes
  <2>5. q \in Req /\ q.pc = "erase" /\ q.gone = {}
    BY <2>2, <2>4, RestTyped, Zenon DEF Req
  <2>6. Fits(r, q)
    BY <2>3, <2>5, Zenon DEF Fits
  <2> QED
    BY <2>3, <2>5, <2>6, Moves, Zenon DEF HoldsBy, Coming
<1>3. CASE ~FailRobot(r) /\ EraseRobot(r)
  <2>1. /\ rq[r] \in Req /\ Fits(r, rq[r]) /\ rq[r].pc = "erase" /\ ~Locked(r, Want[r].id)
        /\ \/ GoTo(r, Closed("done"))
           \/ Exists(Want[r].id) /\ GoTo(r, [rq[r] EXCEPT !.pc = "drop"])
    BY <1>3, Zenon DEF EraseRobot, RobotInv, RobotTypes
  <2>2. CASE GoTo(r, Closed("done"))
    <3>1. PICK q : q = Closed("done")
      BY Zenon
    <3>2. GoTo(r, q) /\ q \in Req /\ q.pc = "done" /\ q.gone = {}
      BY <2>2, <3>1, RestTyped, Zenon
    <3>3. Fits(r, q)
      BY <3>2, Zenon DEF Fits
    <3> QED
      BY <3>2, <3>3, Moves, Zenon DEF HoldsBy, Coming
  <2>3. CASE Exists(Want[r].id) /\ GoTo(r, [rq[r] EXCEPT !.pc = "drop"])
    <3>1. PICK q : q = [rq[r] EXCEPT !.pc = "drop"]
      BY Zenon
    <3>2. GoTo(r, q) /\ q \in Req /\ q.pc = "drop" /\ q.gone = rq[r].gone
      BY <2>1, <2>3, <3>1 DEF Req
    <3>3. Fits(r, q) /\ q.gone = {}
      BY <2>1, <3>2, Zenon DEF Fits
    <3>4. \A i \in Robots : HoldsBy(r, q, i) => i = Want[r].id
      BY <3>3, Zenon DEF HoldsBy
    <3> QED
      BY <2>1, <2>3, <3>2, <3>3, <3>4, Moves, Zenon DEF Coming
  <2> QED
    BY <2>1, <2>2, <2>3, Zenon
<1> QED
  BY <1>1, <1>2, <1>3, Zenon

\* The end of a deletion: row and permissions go together.
LEMMA CommitDeleteStep ==
    ASSUME RobotInv, NEW r \in Requests, CommitDelete(r) PROVE RobotInv'
<1>1. rq[r].pc = "drop" /\ CommitRobot(r, NoRobot, {}) /\ NoRobot \in Row
  BY RestTyped, Zenon DEF CommitDelete
<1>2. HoldsBy(r, rq[r], Want[r].id)
  BY <1>1, Zenon DEF HoldsBy
<1> QED
  BY <1>1, <1>2, Commits, Zenon

\* The deletion of the project begins, and takes the rows of its robots.
LEMMA DropSteps ==
    ASSUME RobotInv, NEW r \in Requests, DropProject(r) \/ DeleteByProjectID(r) PROVE RobotInv'
<1>1. CASE FailRobot(r)
  BY <1>1, Fails, Zenon
<1>2. CASE ~FailRobot(r) /\ DropProject(r)
  <2>1. PICK q : q = [IdleRequest EXCEPT !.pc = "mark"]
    BY Zenon
  <2>2. GoTo(r, q) /\ Want[r].op = "dropProject"
    BY <1>2, <2>1, Zenon DEF DropProject
  <2>3. q \in Req /\ q.pc = "mark" /\ q.gone = {}
    BY <2>1, RestTyped DEF Req
  <2>4. Fits(r, q)
    BY <2>2, <2>3, Zenon DEF Fits
  <2> QED
    BY <2>2, <2>3, <2>4, Moves, Zenon DEF HoldsBy, Coming
<1>3. CASE DeleteByProjectID(r)
  <2>1. PICK mine : mine = {i \in Robots : Level[i] = "project" /\ Exists(i)}
    BY Zenon
  <2>2. PICK q : q = [rq[r] EXCEPT !.pc = "dropProject", !.gone = mine]
    BY Zenon
  <2>3. /\ GoTo(r, q) /\ rq[r].pc = "mark" /\ \A i \in mine : ~Locked(r, i)
        /\ rq[r] \in Req /\ Fits(r, rq[r])
    BY <1>3, <2>1, <2>2, Zenon DEF DeleteByProjectID, RobotInv, RobotTypes
  <2>4. \A i \in mine : i \in Robots /\ Level[i] = "project" /\ Exists(i)
    BY <2>1, Zenon
  <2>5. mine \in SUBSET Robots
    BY <2>4, Zenon
  <2>6. q \in Req /\ q.pc = "dropProject" /\ q.gone = mine
    BY <2>2, <2>3, <2>5, Zenon DEF Req
  <2>7. Fits(r, q)
    BY <2>3, <2>4, <2>6, Zenon DEF Fits
  <2>8. \A i \in Robots : HoldsBy(r, q, i) => i \in mine
    BY <2>6, Zenon DEF HoldsBy
  <2>9. \A i \in Robots : HoldsBy(r, q, i) => Exists(i) /\ ~Locked(r, i)
    BY <2>3, <2>4, <2>8, Zenon
  <2>10. ~Coming(q) /\ q \in Req /\ GoTo(r, q)
    BY <2>3, <2>6 DEF Coming
  <2> QED
    BY <2>7, <2>9, <2>10, Moves, Zenon
<1> QED
  BY <1>1, <1>2, <1>3, Zenon

\* The deletion of the project is committed: its robots go, their
\* permissions stay behind.
LEMMA ProjectStep ==
    ASSUME RobotInv, NEW r \in Requests, CommitProject(r) PROVE RobotInv'
<1>1. PICK gone : gone = rq[r].gone
  BY Zenon
<1>2. /\ rq[r].pc = "dropProject" /\ project' = "deleted"
      /\ robots' = [i \in Robots |-> IF i \in gone THEN NoRobot ELSE robots[i]]
      /\ dropped' = dropped \union {i \in Robots : Level[i] = "project" /\ Exists(i)}
      /\ rq' = [rq EXCEPT ![r] = Closed("done")] /\ UNCHANGED <<perm, handed, crossed>>
  BY <1>1, Zenon DEF CommitProject
<1>3. /\ robots \in [Robots -> Row] /\ rq \in [Requests -> Req] /\ gone \subseteq Robots
  BY <1>1, ReqSet, Zenon DEF RobotInv, RobotTypes
<1>4. /\ \A i \in Robots : robots'[i] = IF i \in gone THEN NoRobot ELSE robots[i]
      /\ rq'[r] = Closed("done") /\ \A s \in Requests \ {r} : rq'[s] = rq[s]
  BY <1>2, <1>3, Zenon
<1>5. rq'[r].pc = "done" /\ rq'[r].gone = {}
  BY <1>4, RestTyped, Zenon
<1>6. \A i \in gone : Level[i] = "project" /\ Exists(i) /\ \A s \in Requests \ {r} : ~HoldsBy(s, rq[s], i)
  <2>1. Fits(r, rq[r])
    BY Zenon DEF RobotInv
  <2>2. Want[r].op \notin Creates
    <3>1. Want[r].op = "dropProject"
      BY <1>2, <2>1, Zenon DEF Fits
    <3> QED
      BY <3>1 DEF Creates
  <2>3. \A i \in gone : i \in Robots /\ HoldsBy(r, rq[r], i)
    BY <1>1, <1>3, Zenon DEF HoldsBy
  <2>4. \A i \in gone : Exists(i)
    BY <2>2, <2>3, Zenon DEF RobotInv, HeldThere
  <2>5. \A i \in gone : Level[i] = "project"
    BY <1>1, <2>1, Zenon DEF Fits
  <2>6. \A i \in gone : \A s \in Requests \ {r} : ~HoldsBy(s, rq[s], i)
    BY <2>3, Zenon DEF RobotInv, OneHolder
  <2> QED
    BY <2>4, <2>5, <2>6, Zenon
<1>7. RobotTypes'
  <2>1. robots' \in [Robots -> Row]
    <3>1. \A i \in Robots : (IF i \in gone THEN NoRobot ELSE robots[i]) \in Row
      BY <1>3, RestTyped, Zenon
    <3> QED
      BY <1>2, <3>1, Zenon
  <2>2. rq' \in [Requests -> Req]
    BY <1>2, <1>3, RestTyped, Zenon
  <2>3. dropped' \subseteq Robots
    BY <1>2, Zenon DEF RobotInv, RobotTypes
  <2> QED
    BY <1>2, <2>1, <2>2, <2>3, Zenon DEF RobotInv, RobotTypes
<1>8. GoodRows' /\ GrantsWhole' /\ SecretKept'
  BY <1>2, <1>4, Zenon DEF RobotInv, GoodRows, GrantsWhole, SecretKept, Exists
<1>9. GrantsGone'
  <2> SUFFICES ASSUME NEW i \in Robots, robots'[i] = NoRobot, perm[i] # {} PROVE i \in dropped'
    BY <1>2, Zenon DEF GrantsGone, Exists
  <2>1. CASE i \in gone
    BY <1>2, <1>6, <2>1, Zenon
  <2>2. CASE i \notin gone
    BY <1>2, <1>4, <2>2, Zenon DEF RobotInv, GrantsGone, Exists
  <2> QED
    BY <2>1, <2>2, Zenon
<1>10. \A s \in Requests : Fits(s, rq[s])'
  <2>1. ASSUME NEW s \in Requests \ {r} PROVE Fits(s, rq[s])'
    <3>1. Fits(s, rq'[s])
      BY <1>4, Zenon DEF RobotInv
    <3> QED
      BY <1>2, <3>1, Zenon DEF Fits
  <2>2. Fits(r, rq[r])'
    BY <1>5, Zenon DEF Fits
  <2> QED
    BY <2>1, <2>2, Zenon
<1>11. \A s \in Requests, j \in Robots : HoldsBy(s, rq'[s], j) => s # r /\ HoldsBy(s, rq[s], j)
  <2>1. \A j \in Robots : ~HoldsBy(r, rq'[r], j)
    BY <1>5, Zenon DEF HoldsBy
  <2> QED
    BY <1>4, <2>1, Zenon
<1>12. OneHolder'
  BY <1>11, Zenon DEF RobotInv, OneHolder
<1>13. HeldThere'
  <2> SUFFICES ASSUME NEW s \in Requests, NEW j \in Robots, HoldsBy(s, rq'[s], j), Want[s].op \notin Creates
               PROVE  robots'[j] # NoRobot
    BY Zenon DEF HeldThere, HoldsBy, Exists
  <2>1. j \notin gone
    BY <1>6, <1>11, Zenon
  <2> QED
    BY <1>4, <1>11, <2>1, Zenon DEF RobotInv, HeldThere, Exists
<1>14. NotYet'
  <2> SUFFICES ASSUME NEW s \in Requests, Want[s].op \in Creates, Coming(rq'[s]) PROVE robots'[Want[s].id] = NoRobot
    BY Zenon DEF NotYet, Exists, Coming
  <2>1. s # r
    BY <1>5, Zenon DEF Coming
  <2>2. Coming(rq[s]) /\ Want[s].id \in Robots
    BY <1>4, <2>1, RobotAssumption, Zenon
  <2> QED
    BY <1>4, <2>2, Zenon DEF RobotInv, NotYet, Exists
<1> QED
  BY <1>7, <1>8, <1>9, <1>10, <1>12, <1>13, <1>14, Zenon DEF RobotInv

\* A login reads the row, and then the permissions.
LEMMA LoginSteps ==
    ASSUME RobotInv, NEW r \in Requests, LoginRow(r) \/ PopulatePermissions(r) PROVE RobotInv'
<1>1. CASE FailRobot(r)
  BY <1>1, Fails, Zenon
<1>2. CASE ~FailRobot(r) /\ LoginRow(r)
  <2>1. PICK row : row = robots[Want[r].id]
    BY Zenon
  <2>2. PICK q : q = [IdleRequest EXCEPT !.pc = "permissions", !.row = row]
    BY Zenon
  <2>3. GoTo(r, q)
    BY <1>2, <2>1, <2>2, Zenon DEF LoginRow
  <2>4. row \in Row
    BY <2>1, RobotAssumption, Zenon DEF RobotInv, RobotTypes
  <2>5. q \in Req /\ q.pc = "permissions" /\ q.gone = {}
    BY <2>2, <2>4, RestTyped, Zenon DEF Req
  <2>6. Fits(r, q)
    BY <2>5, Zenon DEF Fits
  <2> QED
    BY <2>3, <2>5, <2>6, Moves, Zenon DEF HoldsBy, Coming
<1>3. CASE PopulatePermissions(r)
  <2>1. PICK g : g = {p \in perm[Want[r].id] : ConvertScopeFinds(p)}
    BY Zenon
  <2>2. PICK q : q = [rq[r] EXCEPT !.pc = "admitted", !.grants = g]
    BY Zenon
  <2>3. GoTo(r, q) /\ rq[r].pc = "permissions" /\ rq[r] \in Req /\ Fits(r, rq[r])
    BY <1>3, <2>1, <2>2, Zenon DEF PopulatePermissions, RobotInv, RobotTypes
  <2>4. perm[Want[r].id] \in Asked \union {{}} /\ g \subseteq perm[Want[r].id]
    BY <2>1, RobotAssumption, Zenon DEF RobotInv, RobotTypes
  <2>5. g \in SUBSET UNION Asked
    BY <2>4, Zenon
  <2>6. q \in Req /\ q.pc = "admitted" /\ q.grants = g /\ q.gone = rq[r].gone
    BY <2>2, <2>3, <2>5, Zenon DEF Req
  <2>7. q.gone = {}
    BY <2>3, <2>6, Zenon DEF Fits
  <2>8. Fits(r, q)
    BY <2>4, <2>6, <2>7, Zenon DEF Fits
  <2> QED
    BY <2>3, <2>6, <2>7, <2>8, Moves, Zenon DEF HoldsBy, Coming
<1> QED
  BY <1>1, <1>2, <1>3, Zenon

---------------------------------------------------------------------------
\* Robots there are at the start, and requests that have not begun.
LEMMA RobotInitInv == RobotInit => RobotInv
<1> SUFFICES ASSUME RobotInit PROVE RobotInv
  BY Zenon
<1>1. \A i \in Robots : robots[i] = NoRobot \/ robots[i] \in
         [name : {"r", "s"}, secret : {"none", "first"}, days : {DefaultDays}, expires : {DefaultDays}, disabled : {FALSE}]
  BY Zenon DEF RobotInit
<1>2. \A i \in Robots : robots[i] \in Row /\ (Exists(i) => GoodRow(robots[i]))
  <2>1. \A x \in [name : {"r", "s"}, secret : {"none", "first"}, days : {DefaultDays}, expires : {DefaultDays},
                   disabled : {FALSE}] : x \in Row /\ x.days = DefaultDays /\ x.expires = DefaultDays
    <3>1. DefaultDays \in Int
      BY RobotAssumption
    <3> QED
      BY <3>1, Zenon DEF Row, RobotNames, Secrets
  <2>2. DefaultDays # 0 /\ ExpiresAt(DefaultDays) = DefaultDays
    BY RobotAssumption DEF ExpiresAt, Days
  <2> QED
    BY <1>1, <2>1, <2>2, RestTyped, Zenon DEF Exists, GoodRow
<1>3. robots \in [Robots -> Row]
  BY <1>2, Zenon DEF RobotInit
<1>4. \A r \in Requests : rq[r] \in Req /\ rq[r].pc \in {"idle", "failed"} /\ rq[r].gone = {}
  <2>1. \A r \in Requests : rq[r] = IdleRequest \/ rq[r] = Closed("failed")
    BY Zenon DEF RobotInit
  <2> QED
    BY <2>1, RestTyped, Zenon
<1>5. perm \in [Robots -> Asked \union {{}}] /\ \A i \in Robots : perm[i] =
          IF Exists(i) /\ i \notin Legacy THEN {<<Project, "pull">>} ELSE {}
  BY Zenon DEF RobotInit, Asked
<1>6. handed \in [Robots -> Secrets] /\ \A i \in Robots : handed[i] = robots[i].secret
  <2>1. \A x \in Row : x.secret \in Secrets
    BY DEF Row
  <2> QED
    BY <1>3, <2>1, Zenon DEF RobotInit
<1>7. RobotTypes
  BY <1>3, <1>4, <1>5, <1>6, Zenon DEF RobotInit, RobotTypes
<1>8. GoodRows /\ GrantsGone /\ SecretKept
  BY <1>2, <1>5, <1>6, Zenon DEF GoodRows, GrantsGone, SecretKept
<1>9. GrantsWhole
  BY <1>5, Zenon DEF GrantsWhole, Asked
<1>10. \A r \in Requests : Fits(r, rq[r]) /\ \A i \in Robots : ~HoldsBy(r, rq[r], i)
  BY <1>4 DEF Fits, HoldsBy
<1>11. OneHolder /\ HeldThere
  BY <1>10, Zenon DEF OneHolder, HeldThere
<1>12. NotYet
  BY Zenon DEF RobotInit, NotYet
<1> QED
  BY <1>7, <1>8, <1>9, <1>10, <1>11, <1>12, Zenon DEF RobotInv

\* Row, permissions and secret of a robot stay together and what an admitted
\* robot can do comes from one request, whatever requests run at once
\* (controller/robot, pkg/robot, the security context of a robot).
THEOREM RobotsSafe == RobotSpec => []RobotsSound
<1>1. RobotInv /\ [RobotNext]_robotVars => RobotInv'
  <2> SUFFICES ASSUME RobotInv, [RobotNext]_robotVars PROVE RobotInv'
    BY Zenon
  <2>1. CASE UNCHANGED robotVars
    <3> USE <2>1 DEF robotVars, RobotInv
    <3>1. RobotTypes' /\ GoodRows' /\ GrantsWhole' /\ GrantsGone' /\ SecretKept'
      BY Zenon DEF RobotTypes, GoodRows, GrantsWhole, GrantsGone, SecretKept, Exists
    <3>2. \A r \in Requests : Fits(r, rq[r])'
      BY ZenonT(60) DEF Fits
    <3>3. OneHolder' /\ HeldThere' /\ NotYet'
      BY Zenon DEF OneHolder, HeldThere, NotYet, Exists
    <3> QED
      BY <3>1, <3>2, <3>3, Zenon
  <2>2. CASE RobotNext
    BY <2>2, CreateSteps, InsertStep, LinkSteps, ReadSteps, WriteStep, CommitStep, DeleteSteps, CommitDeleteStep, DropSteps,
       ProjectStep, LoginSteps, Zenon DEF RobotNext
  <2> QED
    BY <2>1, <2>2, Zenon
<1>2. RobotInv => RobotsSound
  <2> SUFFICES ASSUME RobotInv PROVE RobotsSound
    BY Zenon
  <2>1. RobotTypeOK
    BY Zenon DEF RobotInv, RobotTypes, RobotTypeOK, GoodRows, GoodRow
  <2>2. CanOnlyGranted
    <3> SUFFICES ASSUME NEW r \in Requests, rq[r].pc = "admitted"
                 PROVE  \E g \in Asked \union {{}} : \A p \in UNION Asked : Can(r, p) =>
                            \/ p \in g
                            \/ Level[Want[r].id] = "project" /\ Access(p) = "pull" /\ <<Scope(p), "push">> \in g
      BY Zenon DEF CanOnlyGranted
    <3>1. PICK g \in Asked \union {{}} : rq[r].grants \subseteq g
      BY Zenon DEF RobotInv, Fits
    <3>2. ASSUME NEW p \in UNION Asked, Can(r, p), p \notin g
          PROVE  Level[Want[r].id] = "project" /\ Access(p) = "pull" /\ <<Scope(p), "push">> \in g
      <4>1. Level[Want[r].id] = "project" /\ p \in FilterRobotPolicies(rq[r].grants)
        BY <3>1, <3>2, Zenon DEF Can
      <4>2. PICK x \in rq[r].grants : Access(x) = "push" /\ p = <<Scope(x), "pull">>
        BY <3>1, <3>2, <4>1, Zenon DEF FilterRobotPolicies
      <4>3. x \in g /\ x \in UNION Asked
        BY <3>1, <4>2, Zenon
      <4>4. x = <<x[1], x[2]>>
        BY <4>3, RobotAssumption DEF Asked
      <4>5. Access(p) = "pull" /\ Scope(p) = Scope(x) /\ x = <<Scope(x), "push">>
        BY <4>2, <4>4 DEF Access, Scope
      <4> QED
        BY <4>1, <4>3, <4>5, Zenon
    <3> QED
      BY <3>2, Zenon
  <2> QED
    BY <2>1, <2>2, Zenon DEF RobotInv, RobotsSound
<1> QED
  BY RobotInitInv, <1>1, <1>2, PTL DEF RobotSpec
=============================================================================
