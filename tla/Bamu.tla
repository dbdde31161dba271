-------------------------------- MODULE Bamu --------------------------------
(***************************************************************************)
(* The battery thread (devices/Bamu.cpp): one round after the other, it    *)
(* polls the battery stack, publishes the logic and dodi rows, and goes    *)
(* through the clusters: a cluster's Online row follows the stack's        *)
(* verdict, the lead cluster of a pair takes their air unit along, and the *)
(* cells of a cluster are stored every 10 s, those that have changed.      *)
(* A step is one database operation with the Modbus operations before it.  *)
(*                                                                         *)
(* pollOnce of the three engines is the subject of module PollEngine: here *)
(* it is cut down to the verdict, the hook, and the row written by no one  *)
(* else.  One cell of each kind stands for the cells of a cluster, the EPO *)
(* signal for the four discrete inputs.                                    *)
(***************************************************************************)
EXTENDS Integers

CONSTANTS
  MaxCluster,   \* BAMU_MAX_BMS_CLUSTER
  PerAirUnit,   \* BMS_CLUSTERS_PER_AIR_UNIT
  Threshold,    \* fail_threshold of the stack
  QtInterval,   \* BAMU_QT_CONFIG_POLL_INTERVAL
  Counts,       \* bound: the values row count_qt_addr of qt may hold
  CellValues,   \* bound: the values a cell may have
  MaxChanges    \* bound: how often something around the battery thread changes

ASSUME BamuAssumption ==
  /\ MaxCluster \in Nat \ {0} /\ PerAirUnit \in Nat \ {0}
  /\ Threshold \in Nat /\ QtInterval \in Nat \ {0}
  /\ Counts \subseteq Int
  /\ CellValues \subseteq Nat \ {0} /\ CellValues # {}
  /\ MaxChanges \in Nat

Cluster == 1 .. MaxCluster
Kind == {"vol", "temp"}
Cell == Cluster \X Kind

Clamp(n) == IF n < 1 THEN 1 ELSE IF n > MaxCluster THEN MaxCluster ELSE n
AirUnitOf(c) == (c + PerAirUnit - 1) \div PerAirUnit
LeadsAirUnit(c) == (c - 1) % PerAirUnit = 0
AirUnit == 1 .. AirUnitOf(MaxCluster)

\* A cell that was never read is 0 in bmsCell_; a cell that was never handed to
\* the database has no entry in lastVolDb_, lastTempDb_ (hasVolSnap_, hasTempSnap_).
Unread == 0
NoSnap == -1

VARIABLES
  \* the battery thread
  pc, cl,         \* the next step of the round, the cluster it is at
  polls,          \* qtPollCounter_
  batteryNumber,  \* batteryNumber_
  misses,         \* commErrCount_ of the stack engine, saturated above Threshold
  commFlag,       \* commFlag_ of the stack engine
  epo,            \* diSignals_
  airOnline,      \* airOnline_
  cells,          \* bmsCell_
  last,           \* lastVolDb_, lastTempDb_
  due,            \* the clusters with 10 s gone since lastCellRealtime_
  \* the database
  clusterRow,     \* row Online of table bms<c>
  airRow,         \* com_alarm, per air unit
  logic,          \* rows 401, 406 and 201, 1201, ... of logic
  dodi,           \* row 4 of dodi
  cellRow,        \* tables bms_cellvol<c>, bms_celltemp<c>
  stop,           \* row 112 of data_total
  count,          \* row count_qt_addr of qt
  dbUp,
  \* the battery
  link,           \* does it answer: always, now and then, never
  cell,           \* the values of its cells
  airBit,         \* the bit Online of its air units
  epoBit,         \* its EPO input
  stopped,        \* register 503 holds 2
  \* history
  lost,           \* the cells whose last statement has failed
  changes         \* the number of changes; Calm once nothing fails or changes any more

roundVars == <<pc, cl, polls, batteryNumber>>
stackVars == <<misses, commFlag, epo>>
cellVars  == <<cells, last, lost>>
hmiVars   == <<stop, count>>
batteryVars == <<cell, airBit, epoBit>>
vars == <<roundVars, stackVars, airOnline, cellVars, due, clusterRow, airRow, logic, dodi,
          cellRow, hmiVars, dbUp, link, batteryVars, stopped, changes>>

PC == {"idle", "stack", "stop", "publish", "logic", "dodi", "cluster", "air", "cells",
       "temperatures"}
Bit == {0, 1}
Calm == MaxChanges + 1
LogicRows == [comm : Bit, epo : Bit, air : [AirUnit -> Bit]]

TypeOK ==
  /\ pc \in PC /\ cl \in Cluster
  /\ polls \in 0 .. QtInterval - 1
  /\ batteryNumber \in Counts \cup {1}
  /\ misses \in 0 .. Threshold + 1 /\ commFlag \in Bit /\ epo \in Bit
  /\ airOnline \in [AirUnit -> Bit] /\ airRow \in [AirUnit -> Bit]
  /\ airBit \in [AirUnit -> Bit]
  /\ cells \in [Cell -> CellValues \cup {Unread}]
  /\ last \in [Cell -> CellValues \cup {Unread, NoSnap}]
  /\ cellRow \in [Cell -> CellValues \cup {Unread}]
  /\ cell \in [Cell -> CellValues]
  /\ lost \subseteq Cell /\ due \subseteq Cluster
  /\ clusterRow \in [Cluster -> Bit]
  /\ logic \in LogicRows /\ dodi \in Bit
  /\ stop \in Bit /\ count \in Counts /\ dbUp \in BOOLEAN
  /\ link \in {"up", "flaky", "dead"}
  /\ epoBit \in Bit /\ stopped \in BOOLEAN
  /\ changes \in 0 .. Calm

Init ==
  /\ pc = "idle" /\ cl = 1 /\ polls = 0 /\ batteryNumber = 1
  /\ misses = 0 /\ commFlag = 0 /\ epo = 0
  /\ airOnline = [a \in AirUnit |-> 0]
  /\ cells = [x \in Cell |-> Unread] /\ last = [x \in Cell |-> NoSnap]
  /\ lost = {} /\ due = Cluster
  /\ clusterRow = [c \in Cluster |-> 0] /\ airRow = [a \in AirUnit |-> 0]
  /\ logic = [comm |-> 0, epo |-> 0, air |-> [a \in AirUnit |-> 0]] /\ dodi = 0
  /\ cellRow = [x \in Cell |-> Unread]
  /\ stop = 0 /\ count \in Counts /\ dbUp = TRUE
  /\ link = "up"
  /\ cell = [x \in Cell |-> CHOOSE v \in CellValues : TRUE]
  /\ airBit = [a \in AirUnit |-> 0] /\ epoBit = 0 /\ stopped = FALSE
  /\ changes = 0

------------------------------------------------------------------------------

Goto(where) == pc' = where

\* A database operation goes on, or throws and ends the round of all clusters.
DbStep(where) == pc' = IF dbUp THEN where ELSE "idle"

\* What a row holding old may hold after a statement that stores v in it.
Stored(old, v) == IF dbUp THEN {v} ELSE {old, v}

\* May a request be answered?  May it reach the battery?
Answers == CASE link = "up" -> {TRUE} [] link = "dead" -> {FALSE} [] OTHER -> BOOLEAN

\* runBamuDataThread: the clusters of a round are those of batteryNumber_.
NextCluster ==
  IF cl < Clamp(batteryNumber) THEN pc' = "cluster" /\ cl' = cl + 1
                               ELSE pc' = "idle" /\ cl' = 1

\* processStack: the count is read every QtInterval rounds, and in every round while
\* it makes no sense.  The counter starts over whether or not the query answers.
TimeToCount == polls + 1 >= QtInterval \/ batteryNumber < 1

BeginRound ==
  /\ pc = "idle"
  /\ polls' = IF TimeToCount THEN 0 ELSE polls + 1
  /\ IF TimeToCount
       THEN DbStep("stack") /\ batteryNumber' = IF dbUp THEN count ELSE batteryNumber
       ELSE Goto("stack") /\ UNCHANGED batteryNumber
  /\ cl' = 1
  /\ UNCHANGED <<stackVars, airOnline, cellVars, due, clusterRow, airRow, logic, dodi, cellRow,
                 hmiVars, dbUp, link, batteryVars, stopped, changes>>

\* pollOnce of the stack engine, checkComm.  An answer and more than Threshold misses in a
\* row lead to a database operation (clearComAlarm, markOffline), fewer misses to nothing.
PollStack ==
  /\ pc = "stack"
  /\ \E ok \in Answers :
       /\ misses' = IF ok THEN 0 ELSE IF misses > Threshold THEN misses ELSE misses + 1
       /\ commFlag' = IF ok THEN 0 ELSE IF misses' > Threshold THEN 1 ELSE commFlag
       /\ IF ok THEN DbStep("stop")
          ELSE IF misses' > Threshold THEN DbStep("logic") ELSE Goto("logic")
  /\ UNCHANGED <<cl, polls, batteryNumber, epo, airOnline, cellVars, due, clusterRow, airRow,
                 logic, dodi, cellRow, hmiVars, dbUp, link, batteryVars, stopped, changes>>

\* onAfterStack: the stop order is repeated in every round; nobody looks at the answer.
StopOrdered ==
  /\ pc = "stop"
  /\ DbStep("publish")
  /\ \E reached \in Answers : stopped' = (stopped \/ (dbUp /\ stop = 1 /\ reached))
  /\ UNCHANGED <<cl, polls, batteryNumber, stackVars, airOnline, cellVars, due, clusterRow,
                 airRow, logic, dodi, cellRow, hmiVars, dbUp, link, batteryVars, changes>>

\* writeRealtime of the stack engine: when it throws, the stop order is out, but the round
\* gets no further.
PublishStack ==
  /\ pc = "publish"
  /\ DbStep("logic")
  /\ UNCHANGED <<cl, polls, batteryNumber, stackVars, airOnline, cellVars, due, clusterRow,
                 airRow, logic, dodi, cellRow, hmiVars, dbUp, link, batteryVars, stopped, changes>>

\* writeLogicData, table logic: the air units of the clusters in use.
LogicRow(signal) ==
  [comm |-> commFlag, epo |-> signal,
   air |-> [a \in AirUnit |-> IF a <= AirUnitOf(Clamp(batteryNumber))
                                THEN airOnline[a] ELSE logic.air[a]]]

\* readDiSignals: a read that fails leaves the signals of an earlier round.
SignalInverted(ok) == IF ok THEN epo ELSE epoBit
Signal(ok) == IF ok THEN epoBit ELSE epo

WriteLogic ==
  /\ pc = "logic"
  /\ \E ok \in Answers : epo' = Signal(ok)
  /\ DbStep("dodi")
  /\ logic' \in Stored(logic, LogicRow(epo'))
  /\ UNCHANGED <<cl, polls, batteryNumber, misses, commFlag, airOnline, cellVars, due, clusterRow,
                 airRow, dodi, cellRow, hmiVars, dbUp, link, batteryVars, stopped, changes>>

WriteDodi ==
  /\ pc = "dodi"
  /\ DbStep("cluster")
  /\ dodi' \in Stored(dodi, epo)
  /\ UNCHANGED <<cl, polls, batteryNumber, stackVars, airOnline, cellVars, due, clusterRow,
                 airRow, logic, cellRow, hmiVars, dbUp, link, batteryVars, stopped, changes>>

\* processCluster hands the stack's verdict down to the cluster's engine, which stores it.
InheritedNever == 0
InheritedEarly == IF misses > 0 THEN 1 ELSE 0
Inherited == commFlag

PollCluster ==
  /\ pc = "cluster"
  /\ \E v \in Stored(clusterRow[cl], Inherited) : clusterRow' = [clusterRow EXCEPT ![cl] = v]
  /\ IF ~dbUp THEN Goto("idle") /\ cl' = 1
     ELSE IF commFlag # 0 THEN NextCluster
     ELSE Goto(IF LeadsAirUnit(cl) THEN "air" ELSE "cells") /\ UNCHANGED cl
  /\ UNCHANGED <<polls, batteryNumber, stackVars, airOnline, cellVars, due, airRow, logic, dodi,
                 cellRow, hmiVars, dbUp, link, batteryVars, stopped, changes>>

\* onAfterAir: the bit Online, which may be that of an earlier round.
PollAir ==
  /\ pc = "air"
  /\ LET a == AirUnitOf(cl) IN
       /\ \E ok \in Answers :
            airOnline' = [airOnline EXCEPT ![a] = IF ok THEN airBit[a] ELSE @]
       /\ \E v \in Stored(airRow[a], airOnline'[a]) : airRow' = [airRow EXCEPT ![a] = v]
  /\ IF dbUp THEN Goto("cells") /\ UNCHANGED cl ELSE Goto("idle") /\ cl' = 1
  /\ UNCHANGED <<polls, batteryNumber, stackVars, cellVars, due, clusterRow, logic, dodi, cellRow,
                 hmiVars, dbUp, link, batteryVars, stopped, changes>>

\* readBmsCellData: a block that is not answered keeps its cells.
BlocksReadNext(ok) == [x \in Cell |-> IF x[1] = cl + 1 /\ ok[x[2]] THEN cell[x] ELSE cells[x]]
BlocksRead(ok) == [x \in Cell |-> IF x[1] = cl /\ ok[x[2]] THEN cell[x] ELSE cells[x]]

\* writeCellData, one kind: a value unlike the last one handed over goes into the
\* statement, and counts as handed over before the statement is run.  Without such a
\* value there is no statement, and nothing that could fail.
Changed(x) == cells'[x] # last[x]

FlushCell(x) ==
  /\ last' = [last EXCEPT ![x] = cells'[x]]
  /\ \E v \in IF Changed(x) THEN Stored(cellRow[x], cells'[x]) ELSE {cellRow[x]} :
       cellRow' = [cellRow EXCEPT ![x] = v]
  /\ lost' = IF ~Changed(x) THEN lost ELSE IF dbUp THEN lost \ {x} ELSE lost \cup {x}
FlushThrows(x) == Changed(x) /\ ~dbUp

\* If 10 s are over since the timestamp, the cells are read and the voltages stored.
ReadCells ==
  /\ pc = "cells" /\ cl \in due
  /\ \E ok \in [Kind -> Answers] : cells' = BlocksRead(ok)
  /\ FlushCell(<<cl, "vol">>)
  /\ IF FlushThrows(<<cl, "vol">>) THEN Goto("idle") /\ cl' = 1
                                   ELSE Goto("temperatures") /\ UNCHANGED cl
  /\ UNCHANGED <<polls, batteryNumber, stackVars, airOnline, due, clusterRow, airRow, logic,
                 dodi, hmiVars, dbUp, link, batteryVars, stopped, changes>>

CellsNotDue ==
  /\ pc = "cells" /\ cl \notin due
  /\ NextCluster
  /\ UNCHANGED <<polls, batteryNumber, stackVars, airOnline, cellVars, due, clusterRow, airRow,
                 logic, dodi, cellRow, hmiVars, dbUp, link, batteryVars, stopped, changes>>

\* The timestamp is only taken when both kinds are through.
StoreTemperatures ==
  /\ pc = "temperatures"
  /\ UNCHANGED cells
  /\ FlushCell(<<cl, "temp">>)
  /\ IF FlushThrows(<<cl, "temp">>) THEN Goto("idle") /\ cl' = 1 /\ UNCHANGED due
                                    ELSE NextCluster /\ due' = due \ {cl}
  /\ UNCHANGED <<polls, batteryNumber, stackVars, airOnline, clusterRow, airRow, logic,
                 dodi, hmiVars, dbUp, link, batteryVars, stopped, changes>>

RoundStep ==
  \/ BeginRound \/ PollStack \/ StopOrdered \/ PublishStack \/ WriteLogic \/ WriteDodi
  \/ PollCluster \/ PollAir \/ ReadCells \/ CellsNotDue \/ StoreTemperatures

------------------------------------------------------------------------------
(* Around the thread.                                                        *)

\* 10 s have gone by, for all clusters alike.  The clock is read once per cluster and
\* round, so that it is all the same when before the round they were over.
ClockTick ==
  /\ pc = "idle" /\ due # Cluster
  /\ due' = Cluster
  /\ UNCHANGED <<roundVars, stackVars, airOnline, cellVars, clusterRow, airRow, logic, dodi,
                 cellRow, hmiVars, dbUp, link, batteryVars, stopped, changes>>

Changing == changes < MaxChanges /\ changes' = changes + 1

\* The process ends at any point and is started again.
Restart ==
  /\ Changing /\ dbUp
  /\ pc' = "idle" /\ cl' = 1 /\ polls' = 0 /\ batteryNumber' = 1
  /\ misses' = 0 /\ commFlag' = 0 /\ epo' = 0
  /\ airOnline' = [a \in AirUnit |-> 0]
  /\ cells' = [x \in Cell |-> Unread] /\ last' = [x \in Cell |-> NoSnap]
  /\ lost' = {} /\ due' = Cluster
  /\ UNCHANGED <<clusterRow, airRow, logic, dodi, cellRow, hmiVars, dbUp, link, batteryVars, stopped>>

\* Cells, the air units and the EPO input change; a stopped battery is started at site.
BatteryChanges ==
  /\ Changing
  /\ \/ \E v \in CellValues : cell' = [x \in Cell |-> v] /\ UNCHANGED <<airBit, epoBit, stopped>>
     \/ \E a \in AirUnit : airBit' = [airBit EXCEPT ![a] = 1 - @] /\ UNCHANGED <<cell, epoBit, stopped>>
     \/ epoBit' = 1 - epoBit /\ UNCHANGED <<cell, airBit, stopped>>
     \/ stopped /\ stopped' = FALSE /\ UNCHANGED <<cell, airBit, epoBit>>
  /\ UNCHANGED <<roundVars, stackVars, airOnline, cellVars, due, clusterRow, airRow, logic, dodi,
                 cellRow, hmiVars, dbUp, link>>

EditOrders ==
  /\ Changing
  /\ \/ stop' = 1 - stop /\ UNCHANGED count
     \/ count' \in Counts /\ UNCHANGED stop
  /\ UNCHANGED <<roundVars, stackVars, airOnline, cellVars, due, clusterRow, airRow, logic, dodi,
                 cellRow, dbUp, link, batteryVars, stopped>>

LinkChanges ==
  /\ Changing
  /\ \/ dbUp' = ~dbUp /\ UNCHANGED link
     \/ link' \in {"up", "flaky", "dead"} \ {link} /\ UNCHANGED dbUp
  /\ UNCHANGED <<roundVars, stackVars, airOnline, cellVars, due, clusterRow, airRow, logic, dodi,
                 cellRow, hmiVars, batteryVars, stopped>>

\* From some point on the database is well, the battery answers or is dead, and nothing
\* changes any more.
Settle ==
  /\ changes # Calm /\ changes' = Calm
  /\ dbUp' = TRUE /\ link' \in {"up", "dead"}
  /\ UNCHANGED <<roundVars, stackVars, airOnline, cellVars, due, clusterRow, airRow, logic, dodi,
                 cellRow, hmiVars, batteryVars, stopped>>

Next ==
  \/ RoundStep \/ ClockTick
  \/ Restart \/ BatteryChanges \/ EditOrders \/ LinkChanges \/ Settle

\* The thread loops for ever and time passes.
Spec ==
  /\ Init /\ [][Next]_vars
  /\ WF_vars(RoundStep) /\ SF_vars(ClockTick)

------------------------------------------------------------------------------

\* The clusters and air units the HMI asks for.
InUse == 1 .. Clamp(count)
AirInUse == 1 .. AirUnitOf(Clamp(count))

\* A cluster is only taken offline, and only taken back online, on the verdict of the
\* stack: more than Threshold probes in a row went unanswered, or none of them is open.
\* The rows are written several steps after the probe, and by a round that may have been
\* cut short between two clusters.
ClustersFollowStack ==
  [][\A c \in Cluster :
       /\ clusterRow[c] = 0 /\ clusterRow'[c] = 1 => misses > Threshold
       /\ clusterRow[c] = 1 /\ clusterRow'[c] = 0 => misses <= Threshold]_vars

\* Logic row 401 and every cluster in use show a dead stack.
DeadShown == logic.comm = 1 /\ \A c \in InUse : clusterRow[c] = 1

\* When the stack stays dead, the rows end up so, whichever rounds were cut short, counts
\* edited and processes restarted on the way.
DeadStackSpreads == changes = Calm /\ link = "dead" ~> []DeadShown

\* The rows show what the battery shows, and a stop order that stands (data_total 112) is
\* carried out.
LiveShown ==
  /\ logic.comm = 0 /\ logic.epo = epoBit /\ dodi = epoBit
  /\ \A c \in InUse : clusterRow[c] = 0
  /\ \A a \in AirInUse : airRow[a] = airBit[a] /\ logic.air[a] = airBit[a]
  /\ stop = 1 => stopped

\* When the stack answers for good, the rows end up so: no verdict, signal or air unit's
\* bit of an earlier round is left, and a battery that was started again after it had been
\* stopped is stopped again.
LiveStackShown == changes = Calm /\ link = "up" ~> []LiveShown

\* Every cell is in its row, except those whose last statement failed: they are taken for
\* stored (lastVolDb_ "上次写入数据库的值") and stay behind until they change again or the
\* process is restarted.
CellShown(x) == cellRow[x] = cell[x] \/ x \in lost
CellsShown == \A c \in InUse, k \in Kind : CellShown(<<c, k>>)

\* When the stack answers for good, the cells end up so.
CellsStored == changes = Calm /\ link = "up" ~> []CellsShown
==============================================================================
