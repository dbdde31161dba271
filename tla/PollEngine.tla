----------------------------- MODULE PollEngine -----------------------------
(***************************************************************************)
(* One ModbusPollEngine (core/ModbusPollEngine.cpp) polling one device     *)
(* into the real-time database: pollOnce as a sequence of steps, each one  *)
(* bus operation or one database operation, so that the device, the        *)
(* database, the process and the HMI may change between any two of them.   *)
(*                                                                         *)
(* A register value is abstracted to the version of the device's data it   *)
(* was read from; the points of one read request share its fate.  Every    *)
(* database operation may throw (throwDbError); an operation that throws   *)
(* may or may not have reached the table.  The exception leaves pollOnce   *)
(* and ends the round.                                                     *)
(***************************************************************************)
EXTENDS Integers

\* Where the ratio pt_ comes from.  "default": pt_ct_sync is off.  "device":
\* read_reg alone is configured.  "qt": pt_qt_addr, read_reg and pt_reg are.
PtModes == {"default", "device", "qt"}

\* What of a device profile changes what pollOnce does.
Profile ==
  [requests  : Nat \ {0}, \* the length of readPlan_
   useQt     : BOOLEAN,   \* enable.use_qt
   skipProbe : BOOLEAN,   \* skipProbe_: the owner of the engine probes for it
   comm      : BOOLEAN,   \* comm.enabled
   comAlarm  : BOOLEAN,   \* comm.com_alarm_addr >= 0
   ptMode    : PtModes]   \* pt_ct_sync

CONSTANTS
  Profiles,      \* the profiles engines are built with
  Threshold,     \* comm.fail_threshold
  DefaultPt,     \* default_pt
  PtValues,      \* the ratios the device or the qt table may hold
  PtRange,       \* those within min_value .. max_value
  MaxVersion,    \* bound: the versions of the device's data
  MaxRestarts    \* bound: how often the process is started again

ASSUME ConfigAssumption ==
  /\ Profiles \subseteq Profile
  /\ Threshold \in Nat
  /\ PtValues \subseteq Nat /\ DefaultPt \in PtValues \ {0}
  /\ PtRange \subseteq PtValues
  /\ MaxVersion \in Nat \ {0}
  /\ MaxRestarts \in Nat

VARIABLES
  profile,       \* profile_, fixed when the engine is built
  \* the thread that runs pollOnce
  pc,            \* the next step of the round
  next,          \* the next read request of the plan
  commErrCount,  \* commErrCount_, saturated above Threshold
  commFlag,      \* commFlag_
  cache,         \* regCache_ and bitCache_, per read request
  pt,            \* pt_
  inherit,       \* inheritCommFlag_
  \* the database
  rows,          \* the rows of write_points, per read request
  online,        \* row comm.mysql_online_addr
  alarm,         \* row comm.com_alarm_addr of com_alarm
  dbUp,          \* do database operations succeed?
  enabled,       \* does the enable row of qt hold enabled_value?
  qtPt,          \* row pt_qt_addr of qt
  \* the device
  dev,           \* version of its data
  devPt,         \* its PT register
  answering,     \* the registers that answer now
  \* history
  fetched,       \* the requests read since the process started
  restarts       \* the number of restarts so far

engineVars == <<pc, next, commErrCount, commFlag, cache, pt, fetched>>
dbVars     == <<rows, online, alarm>>
qtVars     == <<enabled, qtPt>>
vars == <<profile, engineVars, inherit, dbVars, dbUp, qtVars, dev, devPt,
          answering, restarts>>

Request == 1 .. profile.requests

\* The registers of the device that answer or fail independently: those of each
\* read request, of the probe, and of PT.
ProbeReg == 0
PtReg    == -1      \* read_reg
PtSetReg == -2      \* pt_reg
Register ==
  Request \cup (IF profile.comm /\ ~profile.skipProbe THEN {ProbeReg} ELSE {})
          \cup (IF profile.ptMode = "default" THEN {} ELSE {PtReg})
          \cup (IF profile.ptMode = "qt" THEN {PtSetReg} ELSE {})

\* Versions count from 1: 0 stands for a register that is not in the cache.
Unread == 0
Zero   == [ver |-> Unread, pt |-> 0]

PC  == {"idle", "comm", "markOnline", "markAlarm", "clearAlarm",
        "sync", "read", "write"}
Bit == {0, 1}
Row == [ver : 0 .. MaxVersion, pt : PtValues \cup {0}]

TypeOK ==
  /\ profile \in Profiles
  /\ pc \in PC
  /\ next \in Request
  /\ commErrCount \in 0 .. Threshold + 1
  /\ commFlag \in Bit
  /\ cache \in [Request -> 0 .. MaxVersion]
  /\ pt \in PtValues
  /\ inherit \in Bit
  /\ rows \in [Request -> Row]
  /\ online \in Bit /\ alarm \in Bit
  /\ dbUp \in BOOLEAN /\ enabled \in BOOLEAN
  /\ qtPt \in PtValues
  /\ dev \in 1 .. MaxVersion
  /\ devPt \in PtValues
  /\ answering \subseteq Register
  /\ fetched \subseteq Request
  /\ restarts \in 0 .. MaxRestarts

Init ==
  /\ profile \in Profiles
  /\ pc = "idle" /\ next = 1
  /\ commErrCount = 0 /\ commFlag = 0
  /\ cache = [r \in Request |-> Unread]
  /\ pt = DefaultPt
  /\ inherit = 0
  /\ rows = [r \in Request |-> Zero]
  /\ online = 0 /\ alarm = 0
  /\ dbUp = TRUE /\ enabled = TRUE
  /\ qtPt \in IF profile.ptMode = "qt" THEN PtValues ELSE {DefaultPt}
  /\ devPt \in IF profile.ptMode = "default" THEN {DefaultPt} ELSE PtValues
  /\ dev = 1
  /\ answering = Register
  /\ fetched = {}
  /\ restarts = 0

------------------------------------------------------------------------------
(* One round of pollOnce.                                                    *)

\* A database operation that throws ends the round; otherwise it goes on.
DbStepSwallowed(then) == pc' = then
DbStep(then) == pc' = IF dbUp THEN then ELSE "idle"

\* What a row holding old may hold after an operation that stores v in it: an
\* operation that throws may or may not have been carried out.
Stored(old, v) == IF dbUp THEN {v} ELSE {old, v}

\* checkEnabled: a row that says no, or a query that throws, ends the round
\* where it began.
CheckEnabled ==
  /\ pc = "idle"
  /\ profile.useQt => dbUp /\ enabled
  /\ pc' = "comm"
  /\ UNCHANGED <<profile, next, commErrCount, commFlag, cache, pt, fetched>>
  /\ UNCHANGED <<inherit, dbVars, dbUp, qtVars, dev, devPt, answering, restarts>>

\* checkComm goes on with clearComAlarm if there is an alarm row.
AfterAnswerUncleared == "sync"
AfterAnswer == IF profile.comAlarm THEN "clearAlarm" ELSE "sync"

\* checkComm under skipProbe_: the owner's verdict is taken over.
InheritComm ==
  /\ pc = "comm" /\ profile.skipProbe
  /\ commFlag' = inherit
  /\ pc' = IF inherit # 0 THEN "markOnline" ELSE AfterAnswer
  /\ UNCHANGED <<profile, next, commErrCount, cache, pt, fetched>>
  /\ UNCHANGED <<inherit, dbVars, dbUp, qtVars, dev, devPt, answering, restarts>>

\* checkComm with comm.enabled off.
CommOff ==
  /\ pc = "comm" /\ ~profile.skipProbe /\ ~profile.comm
  /\ commFlag' = 0
  /\ pc' = "sync"
  /\ UNCHANGED <<profile, next, commErrCount, cache, pt, fetched>>
  /\ UNCHANGED <<inherit, dbVars, dbUp, qtVars, dev, devPt, answering, restarts>>

ProbeAnswered ==
  /\ pc = "comm" /\ ~profile.skipProbe /\ profile.comm
  /\ ProbeReg \in answering
  /\ commErrCount' = 0
  /\ commFlag' = 0
  /\ pc' = AfterAnswer
  /\ UNCHANGED <<profile, next, cache, pt, fetched>>
  /\ UNCHANGED <<inherit, dbVars, dbUp, qtVars, dev, devPt, answering, restarts>>

\* Counting past Threshold + 1 would change nothing: the count is only ever
\* compared with Threshold.
SaturateEarly(n) == IF n >= Threshold THEN n ELSE n + 1
Saturate(n) == IF n > Threshold THEN n ELSE n + 1

ExceededEarly(n) == n >= Threshold
Exceeded(n) == n > Threshold

\* Where a round goes after its n-th unanswered probe in a row.
AfterMiss(n) == IF Exceeded(n) THEN "markOnline" ELSE "idle"

ProbeMissed ==
  /\ pc = "comm" /\ ~profile.skipProbe /\ profile.comm
  /\ ProbeReg \notin answering
  /\ commErrCount' = Saturate(commErrCount)
  /\ commFlag' = IF Exceeded(commErrCount') THEN 1 ELSE commFlag
  /\ pc' = AfterMiss(commErrCount')
  /\ UNCHANGED <<profile, next, cache, pt, fetched>>
  /\ UNCHANGED <<inherit, dbVars, dbUp, qtVars, dev, devPt, answering, restarts>>

\* markOffline, first half.
MarkOnline ==
  /\ pc = "markOnline"
  /\ DbStep(IF profile.comAlarm THEN "markAlarm" ELSE "idle")
  /\ online' \in Stored(online, 1)
  /\ UNCHANGED <<profile, next, commErrCount, commFlag, cache, pt, fetched>>
  /\ UNCHANGED <<inherit, rows, alarm, dbUp, qtVars, dev, devPt, answering, restarts>>

\* markOffline, second half.
MarkAlarm ==
  /\ pc = "markAlarm"
  /\ DbStep("idle")
  /\ alarm' \in Stored(alarm, 1)
  /\ UNCHANGED <<profile, next, commErrCount, commFlag, cache, pt, fetched>>
  /\ UNCHANGED <<inherit, rows, online, dbUp, qtVars, dev, devPt, answering, restarts>>

ClearComAlarm ==
  /\ pc = "clearAlarm"
  /\ DbStep("sync")
  /\ alarm' \in Stored(alarm, 0)
  /\ UNCHANGED <<profile, next, commErrCount, commFlag, cache, pt, fetched>>
  /\ UNCHANGED <<inherit, rows, online, dbUp, qtVars, dev, devPt, answering, restarts>>

\* The ratio syncPtCt sees in the device: 0 when the read fails.
ReadPt == IF PtReg \in answering THEN devPt ELSE 0

\* The branches of syncPtCt that use the default or the device's own ratio.
SyncFromDevice ==
  /\ \/ profile.ptMode = "default" /\ pt' = DefaultPt
     \/ /\ profile.ptMode = "device"
        /\ pt' = IF ReadPt > 0 THEN ReadPt ELSE DefaultPt
  /\ pc' = "read"
  /\ UNCHANGED devPt

\* The branch that takes the ratio from the qt table and sends it to the device
\* when it differs and is in range.  A write without an answer may have reached
\* the device.
SyncFromQt ==
  /\ profile.ptMode = "qt" /\ dbUp
  /\ pt' = qtPt
  /\ devPt' \in IF qtPt # ReadPt /\ qtPt \in PtRange
                THEN IF PtSetReg \in answering THEN {qtPt} ELSE {devPt, qtPt}
                ELSE {devPt}
  /\ pc' = "read"

\* readFloat throws.
SyncThrows ==
  /\ profile.ptMode = "qt" /\ ~dbUp
  /\ pc' = "idle"
  /\ UNCHANGED <<pt, devPt>>

\* syncPtCt, told for PT: the code for CT is the same with the names changed.
SyncPtCt ==
  /\ pc = "sync"
  /\ SyncFromDevice \/ SyncFromQt \/ SyncThrows
  /\ UNCHANGED <<profile, next, commErrCount, commFlag, cache, fetched>>
  /\ UNCHANGED <<inherit, dbVars, dbUp, qtVars, dev, answering, restarts>>

\* The cache of request r after its read: a failed one leaves it as it was.
CachedBlank(r) == IF r \in answering THEN dev ELSE Unread
Cached(r) == IF r \in answering THEN dev ELSE cache[r]

LastRequestEarly(r) == r + 1 >= profile.requests
LastRequest(r) == r = profile.requests

\* readAllFields, one request of the plan.
ReadBlock ==
  /\ pc = "read"
  /\ cache' = [cache EXCEPT ![next] = Cached(next)]
  /\ fetched' = IF next \in answering THEN fetched \cup {next} ELSE fetched
  /\ IF LastRequest(next)
       THEN next' = 1 /\ pc' = "write"
       ELSE next' = next + 1 /\ pc' = "read"
  /\ UNCHANGED <<profile, commErrCount, commFlag, pt>>
  /\ UNCHANGED <<inherit, dbVars, dbUp, qtVars, dev, devPt, answering, restarts>>

\* decodePoints: a register that is not in the cache decodes to 0.
Decode(c, p) == IF c = Unread THEN Zero ELSE [ver |-> c, pt |-> p]

\* decodePoints, the hook and writeRealtime: one UPDATE stores every point and
\* the Online row.
WriteRealtime ==
  /\ pc = "write"
  /\ pc' = "idle"
  /\ \E stored \in IF dbUp THEN {TRUE} ELSE BOOLEAN :
       /\ rows' = IF stored THEN [r \in Request |-> Decode(cache[r], pt)] ELSE rows
       /\ online' = IF stored /\ profile.comm THEN commFlag ELSE online
  /\ UNCHANGED <<profile, next, commErrCount, commFlag, cache, pt, fetched>>
  /\ UNCHANGED <<inherit, alarm, dbUp, qtVars, dev, devPt, answering, restarts>>

RoundStep ==
  \/ CheckEnabled
  \/ InheritComm \/ CommOff \/ ProbeAnswered \/ ProbeMissed
  \/ MarkOnline \/ MarkAlarm \/ ClearComAlarm
  \/ SyncPtCt \/ ReadBlock \/ WriteRealtime

------------------------------------------------------------------------------
(* Around the engine.                                                        *)

\* The owner of a probe-less engine hands down its verdict between rounds; an
\* engine with comm.enabled off is only ever handed 0 (Bamu.cpp).
SetInheritCommFlag ==
  /\ profile.skipProbe /\ profile.comm /\ pc = "idle"
  /\ inherit' = 1 - inherit
  /\ UNCHANGED <<profile, engineVars, dbVars, dbUp, qtVars, dev, devPt, answering, restarts>>

\* The process ends at any point and is started again: everything in memory
\* is lost, the database keeps its rows.  Without the database the process
\* does not come up: the constructor of the connection pool throws.
Restart ==
  /\ restarts < MaxRestarts /\ dbUp
  /\ restarts' = restarts + 1
  /\ pc' = "idle" /\ next' = 1
  /\ commErrCount' = 0 /\ commFlag' = 0
  /\ cache' = [r \in Request |-> Unread]
  /\ pt' = DefaultPt
  /\ inherit' = 0
  /\ fetched' = {}
  /\ UNCHANGED <<profile, dbVars, dbUp, qtVars, dev, devPt, answering>>

DeviceData ==
  /\ dev < MaxVersion
  /\ dev' = dev + 1
  /\ UNCHANGED <<profile, engineVars, inherit, dbVars, dbUp, qtVars, devPt, answering, restarts>>

\* A register of the device stops answering, or answers again.
DeviceLink ==
  /\ \E x \in Register : answering' = IF x \in answering THEN answering \ {x}
                                                       ELSE answering \cup {x}
  /\ UNCHANGED <<profile, engineVars, inherit, dbVars, dbUp, qtVars, dev, devPt, restarts>>

DatabaseLink ==
  /\ dbUp' = ~dbUp
  /\ UNCHANGED <<profile, engineVars, inherit, dbVars, qtVars, dev, devPt, answering, restarts>>

\* The HMI edits the qt table.
EditQt ==
  /\ \/ profile.useQt /\ enabled' = ~enabled /\ UNCHANGED qtPt
     \/ profile.ptMode = "qt" /\ qtPt' \in PtValues /\ UNCHANGED enabled
  /\ UNCHANGED <<profile, engineVars, inherit, dbVars, dbUp, dev, devPt, answering, restarts>>

Environment ==
  \/ SetInheritCommFlag \/ Restart
  \/ DeviceData \/ DeviceLink \/ DatabaseLink \/ EditQt

Next == RoundStep \/ Environment

\* The device threads of main.cpp loop for ever, so the round goes on; nothing
\* around the engine has to happen.
Spec == Init /\ [][Next]_vars /\ WF_vars(RoundStep)

------------------------------------------------------------------------------
(* Safety.                                                                   *)

\* Whoever sees com_alarm = 1 for this device also sees it offline: markOffline
\* writes Online before com_alarm, an answered round clears com_alarm before it
\* writes Online, and no exception, lost reply or restart in between leaves the
\* pair the other way round.
AlarmImpliesOffline == alarm = 1 => online = 1

\* Register values are only collected and published with the alarm down: the
\* round that publishes them has cleared com_alarm, and nothing raises it again
\* before writeRealtime.
PublishesWithoutAlarm == pc \in {"sync", "read", "write"} => commFlag = 0 /\ alarm = 0

\* The sticky cache (readAllFields) keeps every published point monotonic: the
\* row of a request that has been read since the process started never goes
\* back to an older reading, nor to the zero of a missing one, however many of
\* the later reads fail.
RowsNeverRegress ==
  [][\A r \in fetched : rows'[r].ver >= rows[r].ver]_rows

\* After a probe that was not answered the rows stay frozen until a probe is
\* answered again: checkComm returns false and pollOnce gives up the round.
FrozenWhileSilent == [][commErrCount > 0 => rows' = rows]_vars

\* The promise of module CommAlarm in terms of this engine.  It binds an engine
\* that probes for itself: the verdict of another one is its owner's.
Supervised == profile.comm /\ ~profile.skipProbe

Supervision == INSTANCE CommAlarm WITH
  misses  <- commErrCount,
  online  <- IF Supervised THEN online ELSE 0,
  alarm   <- IF Supervised THEN alarm ELSE 0,
  verdict <- CASE Supervised /\ pc \in {"markOnline", "markAlarm"} -> "offline"
               [] Supervised /\ pc \in {"clearAlarm", "sync", "read", "write"} -> "answered"
               [] OTHER -> "undecided"

\* checkComm and writeRealtime keep that promise: Online and com_alarm rise only
\* after more than fail_threshold unanswered probes in a row within one life of
\* the process, and fall only in a round whose probe was answered.
ImplementsCommAlarm == Supervision!Spec

------------------------------------------------------------------------------
(* Liveness, for a database and a device that settle down.                   *)

Well == IF profile.skipProbe THEN inherit = 0
                             ELSE profile.comm => ProbeReg \in answering

\* A device that does not answer, or does, while nothing stands in the engine's way.
Dead == ~Well /\ dbUp /\ enabled
Live == Well /\ dbUp /\ enabled

\* What the rows say of a dead device, and of a live one.
Reported == online = 1 /\ (profile.comAlarm => alarm = 1)
Restored == online = 0 /\ alarm = 0

\* A device that stays dead ends up marked offline, with its alarm raised, and
\* stays so: the threshold is reached although the database may have failed and
\* the process may have restarted on the way.
DeadDeviceReported == <>[]Dead => <>[]Reported

\* A device that stays alive ends up online without an alarm, whatever rows an
\* earlier failure, half-done round or restart left behind.
LiveDeviceRestored == <>[]Live => <>[]Restored

\* The ratio the readings of a settled device are published at.
TargetPt == CASE profile.ptMode = "qt" -> qtPt
              [] profile.ptMode = "device" /\ devPt > 0 -> devPt
              [] OTHER -> DefaultPt

\* Everything answers and the qt table asks for ratio q.
Settled(q) == Live /\ answering = Register /\ qtPt = q

\* The rows hold the device's data at the ratio in force, and the ratio asked for
\* is the device's own if it is within range.
RatioSent(q) == profile.ptMode = "qt" /\ q \in PtRange => devPt = q
Converged(q) ==
  /\ \A r \in Request : rows[r] = Decode(dev, TargetPt)
  /\ RatioSent(q)

\* When everything answers and nobody edits the qt table, the rows converge to
\* the device's current data at the ratio in force, and a target ratio within
\* range reaches the device (syncPtCt) even after writes that were lost.
DataConverges == \A q \in PtValues : <>[]Settled(q) => <>[]Converged(q)
==============================================================================
