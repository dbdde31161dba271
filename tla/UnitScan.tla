------------------------------ MODULE UnitScan ------------------------------
(***************************************************************************)
(* Scanning several units through one serial bus and one engine            *)
(* (devices/Agc.cpp: diesel gensets, devices/SunPv.cpp: inverters).  The   *)
(* scanner selects a unit, probes it by itself, and either counts the      *)
(* failure and writes the unit's Online and com_alarm rows, or hands the   *)
(* unit to pollOnce of the shared engine, which trusts it (skipProbe_).    *)
(* The scanners of the two files run in threads of their own and share the *)
(* table com_alarm.                                                        *)
(*                                                                         *)
(* A request reaches the unit selected or none (ModbusRTU!NeverWrongSlave) *)
(* and the readings of a unit are abstracted to the unit they came from.   *)
(***************************************************************************)
EXTENDS Integers

CONSTANTS
  Scanners,      \* the scanning threads
  Cap,           \* kMaxGensets, kMaxInverters: scanner -> number of units
  Base,          \* kComAlarmAddrBase: scanner -> address of its first unit
  Limit,         \* failures a unit may have in a row and still be online (3)
  Counts,        \* bound: the values the count row of qt may hold
  MaxRestarts    \* bound: how often the process is started again

ASSUME ScanAssumption ==
  /\ Cap \in [Scanners -> Nat \ {0}]
  /\ Base \in [Scanners -> Nat]
  /\ Limit \in Nat
  /\ Counts \subseteq Int
  /\ MaxRestarts \in Nat

UnitsOf(s) == 1 .. Cap[s]
Unit == UNION {{s} \X UnitsOf(s) : s \in Scanners}

\* com_alarm_addr of a unit.
Addr(x) == Base[x[1]] + x[2] - 1
Addresses == {Addr(x) : x \in Unit}

VARIABLES
  \* per scanner
  pc,         \* the next step of its round
  n,          \* the number of units it scans in this round
  unit,       \* the unit it is at
  cache,      \* whose registers are in the engine's caches: a unit, or 0
  errs,       \* commErrCount_, per unit, saturated above Limit
  \* the database
  online,     \* row 0 of the table of each unit
  data,       \* the readings in that table: whose they are, or 0
  alarm,      \* com_alarm, per address
  count,      \* row count_qt_addr of qt, per scanner
  dbUp,       \* do database operations succeed?
  \* the bus
  answering,  \* the units that answer
  \* history, which no step reads
  missed,     \* the probes of a unit left unanswered since it last answered one, or
              \* since the process was started; saturated above Limit
  restarts    \* the number of restarts

roundVars == <<pc, n, unit>>
rowVars   == <<online, data, alarm>>
vars == <<roundVars, cache, errs, rowVars, count, dbUp, answering, missed, restarts>>

PC == {"idle", "probe", "failOnline", "failAlarm", "clearAlarm", "read", "write"}

TypeOK ==
  /\ pc \in [Scanners -> PC]
  /\ \A s \in Scanners : /\ n[s] \in 0 .. Cap[s] /\ cache[s] \in 0 .. Cap[s]
                         /\ unit[s] \in UnitsOf(s)
                         /\ pc[s] # "idle" => unit[s] <= n[s]
  /\ errs \in [Unit -> 0 .. Limit + 1]
  /\ online \in [Unit -> {0, 1}]
  /\ \A x \in Unit : data[x] \in 0 .. Cap[x[1]]
  /\ alarm \in [Addresses -> {0, 1}]
  /\ count \in [Scanners -> Counts]
  /\ dbUp \in BOOLEAN
  /\ answering \subseteq Unit
  /\ missed \in [Unit -> 0 .. Limit + 1]
  /\ restarts \in 0 .. MaxRestarts

Init ==
  /\ pc = [s \in Scanners |-> "idle"]
  /\ n = [s \in Scanners |-> 0] /\ unit = [s \in Scanners |-> 1]
  /\ cache = [s \in Scanners |-> 0]
  /\ errs = [x \in Unit |-> 0]
  /\ online = [x \in Unit |-> 0] /\ data = [x \in Unit |-> 0]
  /\ alarm = [a \in Addresses |-> 0]
  /\ count \in [Scanners -> Counts]
  /\ dbUp = TRUE
  /\ answering = Unit
  /\ missed = [x \in Unit |-> 0]
  /\ restarts = 0

------------------------------------------------------------------------------

At(s, where) == pc[s] = where
Goto(s, where) == pc' = [pc EXCEPT ![s] = where]
Here(s) == <<s, unit[s]>>

\* After a unit comes the next one, or the end of the round.
NextUnitShort(s) ==
  IF unit[s] + 1 < n[s]
    THEN Goto(s, "probe") /\ unit' = [unit EXCEPT ![s] = unit[s] + 1]
    ELSE Goto(s, "idle") /\ unit' = [unit EXCEPT ![s] = 1]
NextUnit(s) ==
  IF unit[s] < n[s]
    THEN Goto(s, "probe") /\ unit' = [unit EXCEPT ![s] = unit[s] + 1]
    ELSE Goto(s, "idle") /\ unit' = [unit EXCEPT ![s] = 1]

\* A database operation that throws ends the round of all units.
Thrown(s) == Goto(s, "idle") /\ unit' = [unit EXCEPT ![s] = 1]

\* What a row holding old may hold after an operation that stores v in it.
Stored(old, v) == IF dbUp THEN {v} ELSE {old, v}

\* The number of units a count row asks for.
Scanned(s, c) == IF c < 0 THEN 0 ELSE IF c > Cap[s] THEN Cap[s] ELSE c

BeginRound(s) ==
  /\ At(s, "idle") /\ dbUp
  /\ Scanned(s, count[s]) > 0
  /\ n' = [n EXCEPT ![s] = Scanned(s, count[s])]
  /\ Goto(s, "probe")
  /\ UNCHANGED <<unit, cache, errs, rowVars, count, dbUp, answering, missed, restarts>>

\* The caches when the scanner turns to the next unit.
ClearedKept(s) == cache[s]
Cleared(s) == 0

Failed(e) == IF e > Limit THEN e ELSE e + 1

\* The count of a unit with e failures after one more probe.
ErrsAfterKept(e, ok) == IF ok THEN e ELSE Failed(e)
ErrsAfter(e, ok) == IF ok THEN 0 ELSE Failed(e)

\* pollOneGenset, pollOneInverter up to the probe.
ProbeUnit(s) ==
  /\ At(s, "probe")
  /\ cache' = [cache EXCEPT ![s] = Cleared(s)]
  /\ errs' = [errs EXCEPT ![Here(s)] = ErrsAfter(@, Here(s) \in answering)]
  /\ Goto(s, IF Here(s) \in answering THEN "clearAlarm" ELSE "failOnline")
  /\ missed' = [missed EXCEPT ![Here(s)] =
       IF Here(s) \in answering THEN 0 ELSE IF @ <= Limit THEN @ + 1 ELSE @]
  /\ UNCHANGED <<n, unit, rowVars, count, dbUp, answering, restarts>>

\* What a unit with e failures in a row is reported as.
OfflineNever(e) == IF e > Limit + 1 THEN 1 ELSE 0
OfflineExactly(e) == IF e = Limit THEN 1 ELSE 0
Offline(e) == IF e > Limit THEN 1 ELSE 0

FailOnline(s) ==
  /\ At(s, "failOnline")
  /\ \E v \in Stored(online[Here(s)], Offline(errs[Here(s)])) :
       online' = [online EXCEPT ![Here(s)] = v]
  /\ IF dbUp THEN Goto(s, "failAlarm") /\ UNCHANGED unit ELSE Thrown(s)
  /\ UNCHANGED <<n, cache, errs, data, alarm, count, dbUp, answering, missed, restarts>>

FailAlarm(s) ==
  /\ At(s, "failAlarm")
  /\ \E v \in Stored(alarm[Addr(Here(s))], Offline(errs[Here(s)])) :
       alarm' = [alarm EXCEPT ![Addr(Here(s))] = v]
  /\ IF dbUp THEN NextUnit(s) ELSE Thrown(s)
  /\ UNCHANGED <<n, cache, errs, online, data, count, dbUp, answering, missed, restarts>>

\* pollOnce under skipProbe_ with the verdict 0: checkComm clears the alarm.
ClearComAlarm(s) ==
  /\ At(s, "clearAlarm")
  /\ \E v \in Stored(alarm[Addr(Here(s))], 0) :
       alarm' = [alarm EXCEPT ![Addr(Here(s))] = v]
  /\ IF dbUp THEN Goto(s, "read") /\ UNCHANGED unit ELSE Thrown(s)
  /\ UNCHANGED <<n, cache, errs, online, data, count, dbUp, answering, missed, restarts>>

\* readAllFields: a unit that fell silent leaves the caches as they are.
ReadFields(s) ==
  /\ At(s, "read")
  /\ cache' = IF Here(s) \in answering THEN [cache EXCEPT ![s] = unit[s]] ELSE cache
  /\ Goto(s, "write")
  /\ UNCHANGED <<n, unit, errs, rowVars, count, dbUp, answering, missed, restarts>>

\* decodePoints and writeRealtime.
WriteRealtime(s) ==
  /\ At(s, "write")
  /\ \E stored \in IF dbUp THEN {TRUE} ELSE BOOLEAN :
       /\ data' = IF stored THEN [data EXCEPT ![Here(s)] = cache[s]] ELSE data
       /\ online' = IF stored THEN [online EXCEPT ![Here(s)] = 0] ELSE online
  /\ IF dbUp THEN NextUnit(s) ELSE Thrown(s)
  /\ UNCHANGED <<n, cache, errs, alarm, count, dbUp, answering, missed, restarts>>

Step(s) ==
  \/ BeginRound(s) \/ ProbeUnit(s)
  \/ FailOnline(s) \/ FailAlarm(s)
  \/ ClearComAlarm(s) \/ ReadFields(s) \/ WriteRealtime(s)

------------------------------------------------------------------------------

\* The process ends at any point and is started again; it needs the database to
\* come up.
Restart ==
  /\ restarts < MaxRestarts /\ dbUp
  /\ restarts' = restarts + 1
  /\ pc' = [s \in Scanners |-> "idle"]
  /\ n' = [s \in Scanners |-> 0] /\ unit' = [s \in Scanners |-> 1]
  /\ cache' = [s \in Scanners |-> 0]
  /\ errs' = [x \in Unit |-> 0]
  /\ missed' = [x \in Unit |-> 0]
  /\ UNCHANGED <<rowVars, count, dbUp, answering>>

EditCount ==
  /\ \E s \in Scanners, c \in Counts : count' = [count EXCEPT ![s] = c]
  /\ UNCHANGED <<roundVars, cache, errs, rowVars, dbUp, answering, missed, restarts>>

DatabaseLink ==
  /\ dbUp' = ~dbUp
  /\ UNCHANGED <<roundVars, cache, errs, rowVars, count, answering, missed, restarts>>

UnitLink ==
  /\ \E x \in Unit : answering' = IF x \in answering THEN answering \ {x}
                                                     ELSE answering \cup {x}
  /\ UNCHANGED <<roundVars, cache, errs, rowVars, count, dbUp, missed, restarts>>

Next ==
  \/ \E s \in Scanners : Step(s)
  \/ Restart \/ EditCount \/ DatabaseLink \/ UnitLink

\* The threads loop for ever.
Spec == Init /\ [][Next]_vars /\ \A s \in Scanners : WF_vars(Step(s))

------------------------------------------------------------------------------

\* The readings in a unit's table are its own, or 0: clearCaches keeps what the
\* unit before it left in the shared engine out of it, also when the unit answers
\* the probe and then falls silent.
NoResidue == \A x \in Unit : data[x] \in {0, x[2]}

\* A unit is reported on evidence: its Online row turns to offline only after it has
\* itself left more than Limit probes in a row unanswered in this life of the process
\* (not those of its neighbours, not those before it last answered), and a row of
\* com_alarm turns to alarm only for such a unit whose Online row already says so:
\* a round cut short between the two statements never leaves an alarm alone.
RaisedOnEvidence ==
  [][/\ \A x \in Unit : online[x] = 0 /\ online'[x] = 1 => missed[x] > Limit
     /\ \A a \in Addresses : alarm[a] = 0 /\ alarm'[a] = 1 =>
          \E x \in Unit : Addr(x) = a /\ missed[x] > Limit /\ online[x] = 1]_vars

\* Once a unit has missed more than Limit probes, its rows are not taken back before it
\* answers: not by a late step of the round that judged it, a failed write, or the
\* rounds of its neighbours.  (The first failures after a restart do take them back:
\* the count starts from 0 and 0 is written for as long as it is small.)
JudgementHeld ==
  [][\A x \in Unit : missed[x] > Limit /\ missed'[x] > Limit
       => online'[x] >= online[x] /\ alarm'[Addr(x)] >= alarm[Addr(x)]]_vars

\* The units a settled scanner looks at, those that are dead and those that are alive.
Watched(x) == dbUp /\ Scanned(x[1], count[x[1]]) >= x[2]
Dead(x) == Watched(x) /\ x \notin answering
Live(x) == Watched(x) /\ x \in answering

Reported(x) == online[x] = 1 /\ alarm[Addr(x)] = 1
Restored(x) == online[x] = 0 /\ alarm[Addr(x)] = 0 /\ data[x] = x[2]

\* A unit that stays dead ends up reported for good, although the database or the
\* process may have failed on the way and other units of its bus come and go.  It
\* takes rows of its own: with the addresses of Agc.h ("com_alarm 16~19") and SunPv.h
\* (8 units from 12) the 5th to 8th inverter write to the rows of the gensets.
DeadUnitReported == \A x \in Unit : <>[]Dead(x) => <>[]Reported(x)

\* A unit that stays alive ends up with both rows cleared and its own readings.
LiveUnitRestored == \A x \in Unit : <>[]Live(x) => <>[]Restored(x)
==============================================================================
