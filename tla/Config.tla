------------------------------- MODULE Config -------------------------------
(***************************************************************************)
(* The configuration of the system: rows in the database, a copy of them   *)
(* in the cache for a minute, and in each core process the values that the *)
(* code reads.  Loading goes through FetchOrSave, where a mutex for each   *)
(* key keeps the requests of one process from building the copy at once.   *)
(* Updates run in the transaction of their request.                        *)
(***************************************************************************)
EXTENDS Integers, Sequences, FiniteSets

CONSTANTS
  CfgCalls,  \* numbers of the requests
  Cores      \* core processes

VARIABLES
  props,      \* committed table properties: Items -> text, NoText when there is no row
  propsPend,  \* CfgCalls -> uncommitted writes: [conf, cleaned]
  confCopy,       \* the entry "cfgs" of the cache: [val, late, kept], val = NoConfCopy when missing
  inCore,     \* Cores -> (Items -> text): ConfigStore.cfgValues
  readOnly,   \* Cores -> readOnlyForAll
  lockMap,    \* Cores -> the mutex in keyMutex.m, <<0, 0>> when there is none
  lockHeld,   \* the mutexes that are locked
  asks,       \* CfgCalls -> request, see CfgAsk
  people,     \* number of users
  upsets,     \* failures of the cache still to come
  cfgPast     \* history: committed tables, overlapping updates

cfgVars == <<props, propsPend, confCopy, inCore, readOnly, lockMap, lockHeld, asks, people, upsets, cfgPast>>

---------------------------------------------------------------------------
(* Texts, the types of items and what is kept of an item.                  *)

\* A text by what strconv, time and json make of it.
Text(form, n) == [form |-> form, n |-> n]
NoText == Text("none", 0)
Empty == Text("empty", 0)
Yes == Text("bool", 1)
No == Text("bool", 0)
Word(n) == Text("word", n)

ParseBool(t) == t.form = "bool" \/ (t.form = "int" /\ t.n \in {0, 1})
\* parseInt, parseInt64: whole numbers, also when written as a float.
parseInt(t) == t.form \in {"int", "whole"}
parseFloat(t) == t.form \in {"int", "whole", "float"}
ParseDuration(t) == t.form = "duration" \/ (t.form = "int" /\ t.n = 0)
ParseMap(t) == t.form \in {"map", "strmap"}

AuthModes == {1, 2, 3}
validText(type, t) ==
  CASE type = "string" -> TRUE
    [] type = "nonempty" -> t.form \notin {"empty", "blank"}
    [] type = "auth" -> t.form = "word" /\ t.n \in AuthModes
    [] type = "restriction" -> t.form = "word" /\ t.n \in {4, 5}
validNumber(type, t) ==
  CASE type \in {"int", "int64"} -> parseInt(t)
    [] type = "port" -> t.form = "int" /\ t.n >= 0 /\ t.n <= 65535
    [] type = "scope" -> t.form = "int" /\ t.n \in {0, 1, 2}
validOther(type, t) ==
  CASE type = "float64" -> parseFloat(t)
    [] type = "bool" -> ParseBool(t)
    [] type = "password" -> TRUE
    [] type = "map" -> ParseMap(t)
    [] type = "strmap" -> t.form = "strmap"
    [] type = "quota" -> parseInt(t) /\ (t.n > 0 \/ t.n = -1)
    [] type = "duration" -> ParseDuration(t)
validate(type, t) ==
  CASE type \in {"string", "nonempty", "auth", "restriction"} -> validText(type, t)
    [] type \in {"int", "int64", "port", "scope"} -> validNumber(type, t)
    [] OTHER -> validOther(type, t)

\* get: the value is read with the parser of the type it is built on.
GetOK(type, t) ==
  CASE type \in {"string", "password", "nonempty", "auth", "restriction", "duration"} -> TRUE
    [] type \in {"int", "int64", "port", "scope", "quota"} -> parseInt(t)
    [] type = "float64" -> parseFloat(t)
    [] type = "bool" -> ParseBool(t)
    [] type = "map" -> ParseMap(t)
    [] type = "strmap" -> t.form = "strmap"
\* GetInt, GetInt64, GetBool, GetDuration and the others: nothing when the value does not parse.
GetBool(t) == IF ParseBool(t) THEN t.n = 1 ELSE FALSE
GetInt(t) == IF parseInt(t) THEN t.n ELSE 0
GetDuration(t) == IF ParseDuration(t) THEN t.n ELSE 0
GetString(t) == IF t = NoText THEN Empty ELSE t

CfgItem(scope, type, default) == [scope |-> scope, type |-> type, default |-> default]
Metas == [auth |-> CfgItem("user", "auth", Word(1)), skip |-> CfgItem("user", "bool", No), endpoint |-> CfgItem("user", "string", NoText),
          days |-> CfgItem("user", "int", Text("int", 30)), secret |-> CfgItem("user", "password", NoText),
          filter |-> CfgItem("user", "string", NoText), attr |-> CfgItem("user", "string", NoText), sys |-> CfgItem("system", "port", Text("int", 5432))]
Items == DOMAIN Metas
Types == {"string", "password", "nonempty", "auth", "restriction", "int", "int64", "port", "scope", "float64", "bool", "map", "strmap", "quota", "duration"}
Texts == {NoText, Empty, Yes, No} \union {Text(f, n) : f \in {"blank", "word", "int", "whole", "float", "duration", "map", "strmap"}, n \in {-1, 0, 1, 4, 65536}}
NoConfCopy == [none |-> TRUE]

\* The values of a process at its start: defaults, and what the environment says of the
\* items of the system, when it is valid.
LoadDefault == [i \in Items |-> Metas[i].default]
LoadSystemConfigFromEnv(v, env) == [i \in Items |-> IF Metas[i].scope = "system" /\ validate(Metas[i].type, env) THEN env ELSE v[i]]
NoProps == [i \in Items |-> NoText]

---------------------------------------------------------------------------
(* Requests.                                                               *)

CfgAsk(op, core, conf) == [op |-> op, core |-> core, conf |-> conf, at |-> "start", got |-> NoProps, mutex |-> <<0, 0>>, turn |-> 0, out |-> "open"]
NoAsk == [CfgAsk("none", 1, NoProps) EXCEPT !.at = "over", !.out = "over"]
Goes(r, at) == asks' = [asks EXCEPT ![r].at = at]
GoesWith(r, at, got) == asks' = [asks EXCEPT ![r] = [@ EXCEPT !.at = at, !.got = got]]
AskFails(r) == asks' = [asks EXCEPT ![r] = [@ EXCEPT !.at = "finish", !.out = "refused"]]
Core(r) == asks[r].core
Upset == upsets > 0 /\ upsets' = upsets - 1
NoCfgPast == [boot |-> NoText, tables |-> {}, overlap |-> FALSE, dirty |-> FALSE, spoilt |-> FALSE, missed |-> FALSE, panics |-> FALSE, lost |-> {}]
Own(r) == <<r, asks[r].turn>>

Booted(r) == \A s \in CfgCalls \ {r} : asks[s].op = "overwrite" /\ Core(s) = Core(r) => asks[s].at = "over" /\ asks[s].out = "done"
\* UpdateUserConfigs, GetUserCfgs, GetAll, AuthMode and the others load first.  A process
\* answers requests once it has booted.
AskStarts(r) ==
  /\ asks[r].at = "start" /\ asks[r].op \in {"read", "internal", "setting", "update", "overwrite"}
  /\ Booted(r)
  /\ IF asks[r].op = "update" /\ readOnly[Core(r)] THEN AskFails(r)
     ELSE asks' = [asks EXCEPT ![r] = [@ EXCEPT !.at = "fetch", !.turn = @ + 1]]
  /\ cfgPast' = [cfgPast EXCEPT !.overlap = @ \/ (asks[r].op \in {"update", "overwrite"} /\ \E s \in CfgCalls \ {r} : asks[s].op \in {"update", "overwrite"} /\ asks[s].at \notin {"start", "over"})]
  /\ UNCHANGED <<props, propsPend, confCopy, inCore, readOnly, lockMap, lockHeld, people, upsets>>

Fetched == IF confCopy.val = NoConfCopy THEN NoConfCopy ELSE confCopy.val
\* FetchOrSave: before the lock, and again behind it; another failure of the cache ends it.
FetchFirst(r) ==
  /\ asks[r].at = "fetch"
  /\ \/ /\ IF Fetched # NoConfCopy THEN GoesWith(r, "apply", Fetched) ELSE Goes(r, "lock")
        /\ UNCHANGED upsets
     \/ Upset /\ AskFails(r)
  /\ UNCHANGED <<props, propsPend, confCopy, inCore, readOnly, lockMap, lockHeld, people, cfgPast>>

\* keyMutex.Lock: the mutex that is in the map, or one's own when there is none;
\* another's mutex is only waited for.
LockLoadOrStore(r) ==
  /\ asks[r].at = "lock"
  /\ IF lockMap[Core(r)] = <<0, 0>>
     THEN lockMap' = [lockMap EXCEPT ![Core(r)] = Own(r)] /\ asks' = [asks EXCEPT ![r] = [@ EXCEPT !.at = "wait", !.mutex = Own(r)]]
     ELSE asks' = [asks EXCEPT ![r] = [@ EXCEPT !.at = "wait", !.mutex = lockMap[Core(r)]]] /\ UNCHANGED lockMap
  /\ UNCHANGED <<props, propsPend, confCopy, inCore, readOnly, lockHeld, people, upsets, cfgPast>>

LockWaitAny(r) ==
  /\ asks[r].at = "wait" /\ asks[r].mutex \notin lockHeld
  /\ lockHeld' = lockHeld \union {asks[r].mutex}
  /\ Goes(r, "again")
  /\ UNCHANGED <<props, propsPend, confCopy, inCore, readOnly, lockMap, people, upsets, cfgPast>>

LockWait(r) ==
  /\ asks[r].at = "wait" /\ asks[r].mutex \notin lockHeld
  /\ lockHeld' = lockHeld \union {asks[r].mutex}
  /\ Goes(r, IF asks[r].mutex = Own(r) THEN "again" ELSE "letGo")
  /\ UNCHANGED <<props, propsPend, confCopy, inCore, readOnly, lockMap, people, upsets, cfgPast>>

LockLetGo(r) ==
  /\ asks[r].at = "letGo"
  /\ lockHeld' = lockHeld \ {asks[r].mutex}
  /\ Goes(r, "lock")
  /\ UNCHANGED <<props, propsPend, confCopy, inCore, readOnly, lockMap, people, upsets, cfgPast>>

FetchAgain(r) ==
  /\ asks[r].at = "again"
  /\ \/ /\ IF Fetched # NoConfCopy THEN GoesWith(r, "unlock", Fetched) ELSE Goes(r, "build")
        /\ UNCHANGED upsets
     \/ Upset /\ asks' = [asks EXCEPT ![r] = [@ EXCEPT !.at = "unlock", !.out = "refused"]]
  /\ UNCHANGED <<props, propsPend, confCopy, inCore, readOnly, lockMap, lockHeld, people, cfgPast>>

\* Database.Load: what is committed, without the items of the system and unknown ones.
Visible == [i \in Items |-> IF Metas[i].scope = "system" THEN NoText ELSE props[i]]
DatabaseLoad(r) ==
  /\ asks[r].at = "build"
  /\ GoesWith(r, "save", Visible)
  /\ UNCHANGED <<props, propsPend, confCopy, inCore, readOnly, lockMap, lockHeld, people, upsets, cfgPast>>

\* When saving fails the built value is used; otherwise it is fetched once more.
CopySave(r) ==
  /\ asks[r].at = "save"
  /\ \/ /\ confCopy' = [val |-> asks[r].got, late |-> asks[r].got # Visible \/ \E s \in CfgCalls : propsPend[s].cleaned, kept |-> FALSE]
        /\ cfgPast' = [cfgPast EXCEPT !.dirty = @ \/ confCopy'.late]
        /\ Goes(r, "refetch") /\ UNCHANGED upsets
     \/ Upset /\ Goes(r, "unlock") /\ UNCHANGED <<confCopy, cfgPast>>
  /\ UNCHANGED <<props, propsPend, inCore, readOnly, lockMap, lockHeld, people>>

FetchLast(r) ==
  /\ asks[r].at = "refetch"
  /\ IF Fetched # NoConfCopy THEN GoesWith(r, "unlock", Fetched) /\ UNCHANGED cfgPast
     ELSE asks' = [asks EXCEPT ![r] = [@ EXCEPT !.at = "unlock", !.out = "refused"]] /\ cfgPast' = [cfgPast EXCEPT !.missed = TRUE]
  /\ UNCHANGED <<props, propsPend, confCopy, inCore, readOnly, lockMap, lockHeld, people, upsets>>

\* keyMutex.Unlock: out of the map first, then unlocked.
UnlockMap(r) ==
  /\ asks[r].at = "unlock"
  /\ lockMap' = [lockMap EXCEPT ![Core(r)] = <<0, 0>>]
  /\ asks' = [asks EXCEPT ![r] = [@ EXCEPT !.at = "release", !.mutex = lockMap[Core(r)]]]
  /\ cfgPast' = [cfgPast EXCEPT !.panics = @ \/ lockMap[Core(r)] = <<0, 0>>]
  /\ UNCHANGED <<props, propsPend, confCopy, inCore, readOnly, lockHeld, people, upsets>>
UnlockRelease(r) ==
  /\ asks[r].at = "release"
  /\ lockHeld' = lockHeld \ {asks[r].mutex}
  /\ Goes(r, IF asks[r].out = "refused" THEN "finish" ELSE "apply")
  /\ UNCHANGED <<props, propsPend, confCopy, inCore, readOnly, lockMap, people, upsets, cfgPast>>

\* ConfigStore.Load: values that are valid replace those of the process; others stay.
\* Older values may replace what another request has just loaded.
ConfigStoreLoad(r) ==
  LET v == asks[r].got IN
  /\ asks[r].at = "apply"
  /\ inCore' = [inCore EXCEPT ![Core(r)] = [i \in Items |-> IF v[i] # NoText /\ validate(Metas[i].type, v[i]) THEN v[i] ELSE @[i]]]
  /\ Goes(r, IF asks[r].op \in {"update", "overwrite"} THEN "check" ELSE "show")
  /\ cfgPast' = [cfgPast EXCEPT !.spoilt = @ \/ \E s \in CfgCalls \ {r} : Core(s) = Core(r) /\ asks[s].at \in {"check", "write", "show"} /\ inCore' # inCore]
  /\ UNCHANGED <<props, propsPend, confCopy, readOnly, lockMap, lockHeld, people, upsets>>

---------------------------------------------------------------------------
(* Reading.                                                                *)

\* GetUserCfgs and ConvertForGet: items of the user without passwords, "" for strings
\* without a value; GetAll keeps all values, the internal configuration passwords too.
ShownCfg(op, c) ==
  [i \in {j \in Items : IF op = "read" THEN Metas[j].scope = "user" /\ Metas[j].type # "password" ELSE inCore[c][j] # NoText}
     |-> GetString(inCore[c][i])]
authModeCanBeModified == people = 0

\* One item or several, by their getters.
Setting(c, S) == [i \in Items |-> IF i \in S THEN GetString(inCore[c][i]) ELSE NoText]
Answers(r, v) == asks' = [asks EXCEPT ![r] = [@ EXCEPT !.at = "over", !.out = "done", !.got = v]]

ShowConfig(r) ==
  LET shown == ShownCfg(asks[r].op, Core(r)) IN
  /\ asks[r].at = "show" /\ asks[r].op \in {"read", "internal"}
  /\ Answers(r, [i \in Items |-> IF i \in DOMAIN shown THEN shown[i] ELSE NoText])
  /\ UNCHANGED <<props, propsPend, confCopy, inCore, readOnly, lockMap, lockHeld, people, upsets, cfgPast>>

\* AuthMode, LDAPConf, LDAPGroupConf, UAASettings and the others.
ShowSetting(r) ==
  /\ asks[r].at = "show" /\ asks[r].op = "setting"
  /\ Answers(r, Setting(Core(r), {"auth", "filter", "attr"}))
  /\ UNCHANGED <<props, propsPend, confCopy, inCore, readOnly, lockMap, lockHeld, people, upsets, cfgPast>>

\* Most settings are read without loading, also those of the system.
PeekSetting(r) ==
  /\ asks[r].at = "start" /\ asks[r].op = "peek" /\ Booted(r)
  /\ Answers(r, Setting(Core(r), {"days", "skip", "endpoint"}))
  /\ UNCHANGED <<props, propsPend, confCopy, inCore, readOnly, lockMap, lockHeld, people, upsets, cfgPast>>
SystemSetting(r) ==
  /\ asks[r].at = "start" /\ asks[r].op = "system" /\ Booted(r)
  /\ Answers(r, Setting(Core(r), {"sys"}))
  /\ UNCHANGED <<props, propsPend, confCopy, inCore, readOnly, lockMap, lockHeld, people, upsets, cfgPast>>

---------------------------------------------------------------------------
(* Updating.                                                               *)

Given(conf) == {i \in Items : conf[i] # NoText}
With(conf, i, c) == IF conf[i] # NoText THEN conf[i] ELSE GetString(inCore[c][i])
IsEmpty(t) == t.form \in {"none", "empty"}

\* The largest number of so many digits.
maxValueLimitedByLength(length) ==
  LET max[n \in Nat] == IF n = 0 THEN 0 ELSE max[n - 1] + 9 * 10 ^ (n - 1) IN IF length <= 0 THEN -1 ELSE max[length]
verifyValueLengthCfg(conf) == conf["days"].form \in {"int", "whole", "float"} => conf["days"].n > 0 /\ conf["days"].n <= maxValueLimitedByLength(9)
verifySkipAuditLogCfg(conf, c) ==
  {"skip", "endpoint"} \intersect Given(conf) # {} => ~ (GetBool(With(conf, "skip", c)) /\ IsEmpty(With(conf, "endpoint", c)))
LdapGroupRule(conf, c) ==
  {"filter", "attr"} \intersect Given(conf) # {} /\ ~ IsEmpty(With(conf, "filter", c)) => ~ IsEmpty(With(conf, "attr", c))
ValidateCfg(conf, c) ==
  /\ \A i \in Given(conf) : Metas[i].scope = "user" /\ validate(Metas[i].type, conf[i])
  /\ LdapGroupRule(conf, c)
validateCfg(conf, c) ==
  /\ conf["auth"] # NoText /\ conf["auth"] # GetString(inCore[c]["auth"]) => authModeCanBeModified
  /\ ValidateCfg(conf, c)
  /\ verifySkipAuditLogCfg(conf, c)
  /\ verifyValueLengthCfg(conf)

CheckConfig(r) ==
  /\ asks[r].at = "check"
  /\ IF validateCfg(asks[r].conf, Core(r)) THEN Goes(r, "write") ELSE AskFails(r)
  /\ UNCHANGED <<props, propsPend, confCopy, inCore, readOnly, lockMap, lockHeld, people, upsets, cfgPast>>

\* ConfigStore.Update: the values of the process change before the rows.
StoreUpdate(r) ==
  /\ asks[r].at = "write"
  /\ inCore' = [inCore EXCEPT ![Core(r)] = [i \in Items |-> IF i \in Given(asks[r].conf) THEN asks[r].conf[i] ELSE @[i]]]
  /\ Goes(r, "rows")
  /\ UNCHANGED <<props, propsPend, confCopy, readOnly, lockMap, lockHeld, people, upsets, cfgPast>>

Clashes(r) == {s \in CfgCalls \ {r} : Given(propsPend[s].conf) \intersect Given(asks[r].conf) # {}}
Into(conf) == [i \in Items |-> IF conf[i] # NoText THEN conf[i] ELSE props[i]]
\* SaveConfigEntries: rows of another transaction are waited for.  At boot there is no transaction.
SaveConfigEntries(r) ==
  /\ asks[r].at = "rows" /\ Clashes(r) = {}
  /\ IF asks[r].op = "overwrite"
     THEN props' = Into(asks[r].conf) /\ cfgPast' = [cfgPast EXCEPT !.tables = @ \union {props'}] /\ UNCHANGED propsPend
     ELSE propsPend' = [propsPend EXCEPT ![r].conf = asks[r].conf] /\ UNCHANGED <<props, cfgPast>>
  /\ Goes(r, "clean")
  /\ UNCHANGED <<confCopy, inCore, readOnly, lockMap, lockHeld, people, upsets>>

\* A row that another transaction inserts: waits for it, and fails when it commits.
InsertWaits(r) ==
  /\ asks[r].at = "rows"
  /\ \E s \in Clashes(r) : \E i \in Given(propsPend[s].conf) \intersect Given(asks[r].conf) : props[i] = NoText
  /\ Goes(r, "inserting")
  /\ UNCHANGED <<props, propsPend, confCopy, inCore, readOnly, lockMap, lockHeld, people, upsets, cfgPast>>
InsertGoesOn(r) ==
  /\ asks[r].at = "inserting" /\ Clashes(r) = {}
  /\ IF \E i \in Given(asks[r].conf) : props[i] # NoText THEN AskFails(r) ELSE Goes(r, "rows")
  /\ UNCHANGED <<props, propsPend, confCopy, inCore, readOnly, lockMap, lockHeld, people, upsets, cfgPast>>

\* Cache.Save: the copy goes before the transaction is over.
CopyDelete(r) ==
  /\ asks[r].at = "clean"
  /\ \/ confCopy' = [val |-> NoConfCopy, late |-> FALSE, kept |-> FALSE] /\ UNCHANGED <<upsets, cfgPast>>
     \/ Upset /\ confCopy' = [confCopy EXCEPT !.kept = TRUE] /\ cfgPast' = [cfgPast EXCEPT !.dirty = TRUE]
  /\ propsPend' = IF asks[r].op = "update" THEN [propsPend EXCEPT ![r].cleaned = TRUE] ELSE propsPend
  /\ Goes(r, "endpoint")
  /\ UNCHANGED <<props, inCore, readOnly, lockMap, lockHeld, people>>

\* updateLogEndpoint: a new endpoint must answer (word 9 does not).
updateLogEndpoint(r) ==
  /\ asks[r].at = "endpoint"
  /\ IF asks[r].conf["endpoint"] # NoText /\ inCore[Core(r)]["endpoint"] = Word(9) THEN AskFails(r)
     ELSE asks' = [asks EXCEPT ![r] = [@ EXCEPT !.at = "finish", !.out = "done"]]
  /\ UNCHANGED <<props, propsPend, confCopy, inCore, readOnly, lockMap, lockHeld, people, upsets, cfgPast>>

\* The transaction of the request commits, or rolls back when the answer is an error.
\* Values of the process stay.  A boot that was refused ends the process.
FinishAsk(r) ==
  /\ asks[r].at = "finish"
  /\ props' = IF asks[r].out = "done" THEN Into(propsPend[r].conf) ELSE props
  /\ propsPend' = [propsPend EXCEPT ![r] = [conf |-> NoProps, cleaned |-> FALSE]]
  /\ readOnly' = [readOnly EXCEPT ![Core(r)] = @ \/ (asks[r].op = "overwrite" /\ asks[r].out = "done")]
  /\ Goes(r, "over")
  /\ cfgPast' = [cfgPast EXCEPT !.tables = @ \union {props'},
                 !.lost = @ \union {<<Core(r), i, inCore[Core(r)][i]>> : i \in IF asks[r].out = "refused" THEN Given(asks[r].conf) ELSE {}}]
  /\ UNCHANGED <<confCopy, inCore, lockMap, lockHeld, people, upsets>>

CopyExpires ==
  /\ confCopy.val # NoConfCopy
  /\ confCopy' = [val |-> NoConfCopy, late |-> FALSE, kept |-> FALSE]
  /\ UNCHANGED <<props, propsPend, inCore, readOnly, lockMap, lockHeld, asks, people, upsets, cfgPast>>

UserSignsUp ==
  /\ people = 0 /\ people' = 1
  /\ UNCHANGED <<props, propsPend, confCopy, inCore, readOnly, lockMap, lockHeld, asks, upsets, cfgPast>>

ConfigNext ==
  \/ \E r \in CfgCalls :
       \/ AskStarts(r) \/ FetchFirst(r) \/ LockLoadOrStore(r) \/ LockWait(r) \/ LockLetGo(r) \/ FetchAgain(r)
       \/ DatabaseLoad(r) \/ CopySave(r) \/ FetchLast(r) \/ UnlockMap(r) \/ UnlockRelease(r) \/ ConfigStoreLoad(r)
       \/ ShowConfig(r) \/ ShowSetting(r) \/ PeekSetting(r) \/ SystemSetting(r) \/ CheckConfig(r) \/ StoreUpdate(r) \/ SaveConfigEntries(r) \/ InsertWaits(r) \/ InsertGoesOn(r)
       \/ CopyDelete(r) \/ updateLogEndpoint(r) \/ FinishAsk(r)
  \/ CopyExpires
  \/ UserSignsUp

---------------------------------------------------------------------------
(* Properties.                                                             *)

Behind == {"again", "build", "save", "refetch", "unlock"}
\* keyMutex: in a process one request at a time is behind the lock, a locked mutex has
\* somebody who will unlock it, the mutex in the map is that of a request still to unlock,
\* and nobody unlocks a mutex that is gone.
OneBuilder ==
  /\ \A c \in Cores : Cardinality({r \in CfgCalls : Core(r) = c /\ asks[r].at \in Behind}) <= 1
  /\ \A m \in lockHeld : \E r \in CfgCalls : asks[r].mutex = m /\ asks[r].at \in Behind \union {"letGo", "release"}
  /\ \A c \in Cores : lockMap[c] # <<0, 0>> => \E r \in CfgCalls : Own(r) = lockMap[c] /\ asks[r].at \in Behind \union {"wait"}
  /\ ~ cfgPast.panics

\* The copy in the cache is always a table that was committed once.  It differs from the
\* present one only when it was read before a commit and saved after the removal, when
\* removing it failed, or while a process that boots has yet to remove it.
CopyCoherent ==
  confCopy.val # NoConfCopy =>
    /\ \E t \in cfgPast.tables : \A i \in Items : confCopy.val[i] = IF Metas[i].scope = "system" THEN NoText ELSE t[i]
    /\ confCopy.val # Visible => confCopy.late \/ confCopy.kept \/ \E r \in CfgCalls : asks[r].op = "overwrite" /\ asks[r].at = "clean"

\* What a process works with is valid for its type; it is a default, was committed once, or
\* comes from an update of that process that is still going on or was refused.  Items of
\* the system are those of the start.
MemoryExplained ==
  \A c \in Cores, i \in Items :
    LET v == inCore[c][i] IN
    /\ Metas[i].scope = "system" => v = cfgPast.boot /\ props[i] = NoText
    /\ v # NoText => validate(Metas[i].type, v)
    /\ \/ v = Metas[i].default \/ Metas[i].scope = "system"
       \/ \E t \in cfgPast.tables : t[i] = v
       \/ <<c, i, v>> \in cfgPast.lost
       \/ \E r \in CfgCalls : Core(r) = c /\ asks[r].at # "over" /\ asks[r].conf[i] = v

\* The rules over several items hold of the rows, if updates did not overlap, no stale copy
\* or values of a refused update were used, and no older load came in between.
RulesKept ==
  ~ cfgPast.overlap /\ ~ cfgPast.dirty /\ ~ cfgPast.spoilt /\ cfgPast.lost = {} =>
    /\ props["skip"] = Yes => ~ IsEmpty(props["endpoint"])
    /\ ~ IsEmpty(props["filter"]) => ~ IsEmpty(props["attr"])

\* A request that loads fails only for the cache: it failed, or lost the entry at once.
LoadsWork ==
  \A r \in CfgCalls : asks[r].out = "refused" /\ asks[r].op \in {"read", "internal", "setting"} => cfgPast.missed \/ upsets = 0

\* What validates can be read, ports and quotas within their bounds; the limit is so many nines.
ReadsBack ==
  /\ \A y \in Types, t \in Texts : validate(y, t) => GetOK(y, t)
  /\ \A t \in Texts : validate("duration", t) => GetDuration(t) = t.n
  /\ \A t \in Texts : (validate("port", t) => GetInt(t) \in 0..65535) /\ (validate("quota", t) => GetInt(t) = -1 \/ GetInt(t) >= 1)
  /\ \A n \in 1..9 : maxValueLimitedByLength(n) + 1 = 10 ^ n

\* All of the configuration's properties.
ConfigSound == OneBuilder /\ CopyCoherent /\ MemoryExplained /\ RulesKept /\ LoadsWork /\ ReadsBack
=============================================================================
