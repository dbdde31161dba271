----------------------------- MODULE BamuProofs -----------------------------
(***************************************************************************)
(* Theorems of module Bamu, for any number of clusters and of clusters to  *)
(* an air unit, any threshold and any of the values the HMI may store:     *)
(* types; that a cluster's row never says anything but the stack's         *)
(* verdict; that the copies the cells are compared with are what their     *)
(* rows hold; and the safety halves of the three liveness properties: once *)
(* nothing changes, which rounds leave every row as it should be.          *)
(***************************************************************************)
EXTENDS Bamu, TLAPS

\* The verdict stands while more than Threshold probes in a row have failed.
StackInv ==
  /\ TypeOK
  /\ commFlag = 1 <=> misses > Threshold

------------------------------------------------------------------------------

\* What is assumed of the constants, as facts to cite.
LEMMA BoundsNat ==
  /\ MaxCluster \in Nat \ {0} /\ Threshold \in Nat /\ QtInterval \in Nat \ {0}
  /\ MaxChanges \in Nat /\ Counts \subseteq Int
  /\ CellValues \subseteq Nat \ {0} /\ CellValues # {}
BY BamuAssumption DEF BamuAssumption

\* A count brought within bounds is that of a cluster.
LEMMA ClampIn == ASSUME NEW k \in Int PROVE Clamp(k) \in Cluster
BY BoundsNat DEF Clamp, Cluster

\* The place a round goes on to is one, whether the database operation succeeds or not.
LEMMA DbStepIn == ASSUME NEW p \in PC, DbStep(p) PROVE pc' \in PC
BY DEF DbStep, PC

\* The loop over the clusters stays among them, whatever the count.
LEMMA NextClusterIn == ASSUME TypeOK, NextCluster PROVE pc' \in PC /\ cl' \in Cluster
<1>1. batteryNumber \in Int
  BY BoundsNat DEF TypeOK
<1>2. Clamp(batteryNumber) \in 1 .. MaxCluster /\ cl \in 1 .. MaxCluster
  BY <1>1, ClampIn DEF TypeOK, Cluster
<1> QED
  BY <1>2, BoundsNat DEF NextCluster, PC, Cluster

\* A row holds the old or the new value after a statement.
LEMMA StoredIn == ASSUME NEW S, NEW old \in S, NEW v \in S, NEW w \in Stored(old, v) PROVE w \in S
BY DEF Stored

------------------------------------------------------------------------------

\* The thread starts with the stack online.
LEMMA InitInv == Init => StackInv
<1> SUFFICES ASSUME Init PROVE StackInv
  OBVIOUS
<1> USE DEF Init
<1>1. 1 \in Cluster /\ 0 \in 0 .. QtInterval - 1 /\ 0 \in 0 .. Threshold + 1 /\ 0 \in 0 .. Calm
  BY BoundsNat DEF Cluster, Calm
<1>2. cell \in [Cell -> CellValues]
  <2>1. (CHOOSE v \in CellValues : TRUE) \in CellValues
    BY BoundsNat
  <2> QED
    BY <2>1
<1>3. TypeOK
  BY <1>1, <1>2 DEF TypeOK, PC, Bit, LogicRows
<1> QED
  BY <1>3, BoundsNat DEF StackInv

\* The count taken over is one the HMI may store.
LEMMA BeginRoundKeeps == ASSUME StackInv, BeginRound PROVE StackInv'
<1> USE DEF BeginRound
<1>1. 1 \in Cluster
  BY BoundsNat DEF Cluster
<1>2. polls' \in 0 .. QtInterval - 1
  BY BoundsNat DEF StackInv, TypeOK, TimeToCount
<1>3. batteryNumber' \in Counts \cup {1} /\ pc' \in PC
  BY DbStepIn DEF StackInv, TypeOK, PC, Goto
<1> QED
  BY <1>1, <1>2, <1>3 DEF StackInv, TypeOK, stackVars, cellVars, hmiVars, batteryVars

\* An answer ends the run of misses and the verdict, a miss beyond Threshold sets both.
LEMMA PollStackKeeps == ASSUME StackInv, PollStack PROVE StackInv'
<1> USE DEF PollStack
<1>1. PICK ok \in Answers :
        /\ misses' = IF ok THEN 0 ELSE IF misses > Threshold THEN misses ELSE misses + 1
        /\ commFlag' = IF ok THEN 0 ELSE IF misses' > Threshold THEN 1 ELSE commFlag
        /\ IF ok THEN DbStep("stop")
           ELSE IF misses' > Threshold THEN DbStep("logic") ELSE Goto("logic")
  OBVIOUS
<1>2. misses \in 0 .. Threshold + 1 /\ commFlag \in Bit /\ Threshold \in Nat
  BY BoundsNat DEF StackInv, TypeOK
<1>3. /\ misses' \in 0 .. Threshold + 1 /\ commFlag' \in Bit
      /\ commFlag' = 1 <=> misses' > Threshold
  BY <1>1, <1>2 DEF StackInv, Bit
<1>4. pc' \in PC
  BY <1>1, DbStepIn DEF Goto, PC
<1> QED
  BY <1>3, <1>4 DEF StackInv, TypeOK, cellVars, hmiVars, batteryVars

\* The stop order and the stack's rows leave the verdict alone.
LEMMA AfterStackKeeps == ASSUME StackInv, StopOrdered \/ PublishStack PROVE StackInv'
<1>1. pc' \in PC
  BY DbStepIn DEF StopOrdered, PublishStack, PC
<1>2. stopped' \in BOOLEAN
  BY DEF StopOrdered, PublishStack, StackInv, TypeOK
<1> QED
  BY <1>1, <1>2 DEF StopOrdered, PublishStack, StackInv, TypeOK, stackVars, cellVars, hmiVars,
                    batteryVars

\* The row has the verdict as it stands; signals and air units keep their types.
LEMMA WriteLogicKeeps == ASSUME StackInv, WriteLogic PROVE StackInv'
<1> USE DEF WriteLogic
<1>1. epo' \in Bit
  BY DEF StackInv, TypeOK, Signal
<1>2. LogicRow(epo') \in LogicRows
  BY <1>1 DEF LogicRow, LogicRows, StackInv, TypeOK
<1>3. logic' \in LogicRows
  BY <1>2, StoredIn DEF StackInv, TypeOK
<1>4. pc' \in PC
  BY DbStepIn DEF PC
<1> QED
  BY <1>1, <1>3, <1>4 DEF StackInv, TypeOK, cellVars, hmiVars, batteryVars

\* Only the row of the signal is written.
LEMMA WriteDodiKeeps == ASSUME StackInv, WriteDodi PROVE StackInv'
<1> USE DEF WriteDodi
<1>1. dodi' \in Bit
  BY StoredIn DEF StackInv, TypeOK
<1>2. pc' \in PC
  BY DbStepIn DEF PC
<1> QED
  BY <1>1, <1>2 DEF StackInv, TypeOK, stackVars, cellVars, hmiVars, batteryVars

\* Only the row of the cluster is written, with the stack's verdict.
LEMMA PollClusterKeeps == ASSUME StackInv, PollCluster PROVE StackInv'
<1> USE DEF PollCluster
<1>1. clusterRow' \in [Cluster -> Bit]
  BY StoredIn DEF StackInv, TypeOK, Inherited
<1>2. pc' \in PC /\ cl' \in Cluster
  BY NextClusterIn, BoundsNat DEF StackInv, TypeOK, Goto, PC, Cluster
<1> QED
  BY <1>1, <1>2 DEF StackInv, TypeOK, stackVars, cellVars, hmiVars, batteryVars

\* Only the air unit of the cluster is written.
LEMMA PollAirKeeps == ASSUME StackInv, PollAir PROVE StackInv'
<1> USE DEF PollAir
<1> DEFINE a == AirUnitOf(cl)
<1>1. PICK ok \in Answers : airOnline' = [airOnline EXCEPT ![a] = IF ok THEN airBit[a] ELSE @]
  OBVIOUS
<1>2. PICK v \in Stored(airRow[a], airOnline'[a]) : airRow' = [airRow EXCEPT ![a] = v]
  OBVIOUS
<1> HIDE DEF a
<1>3. airOnline' \in [AirUnit -> Bit]
  BY <1>1 DEF StackInv, TypeOK
<1>4. airRow' \in [AirUnit -> Bit]
  <2>1. CASE a \in AirUnit
    <3>1. v \in Bit
      BY <1>2, <1>3, <2>1, StoredIn DEF StackInv, TypeOK
    <3> QED
      BY <1>2, <3>1 DEF StackInv, TypeOK
  <2>2. CASE a \notin AirUnit
    BY <1>2, <2>2 DEF StackInv, TypeOK
  <2> QED
    BY <2>1, <2>2
<1>5. pc' \in PC /\ cl' \in Cluster
  BY BoundsNat DEF StackInv, TypeOK, Goto, PC, Cluster
<1> QED
  BY <1>3, <1>4, <1>5 DEF StackInv, TypeOK, stackVars, cellVars, hmiVars, batteryVars

\* A flush hands a value over and stores it or not.
LEMMA FlushKeeps ==
  ASSUME TypeOK, NEW x \in Cell, FlushCell(x), cells' \in [Cell -> CellValues \cup {Unread}]
  PROVE  /\ last' \in [Cell -> CellValues \cup {Unread, NoSnap}]
         /\ cellRow' \in [Cell -> CellValues \cup {Unread}]
         /\ lost' \subseteq Cell
<1> USE DEF FlushCell
<1>1. cells'[x] \in CellValues \cup {Unread} /\ cellRow[x] \in CellValues \cup {Unread}
  BY DEF TypeOK
<1>2. PICK v \in IF Changed(x) THEN Stored(cellRow[x], cells'[x]) ELSE {cellRow[x]} :
        cellRow' = [cellRow EXCEPT ![x] = v]
  OBVIOUS
<1>3. v \in CellValues \cup {Unread}
  BY <1>1, <1>2, StoredIn
<1>4. lost' \subseteq Cell
  BY DEF TypeOK
<1> QED
  BY <1>1, <1>2, <1>3, <1>4 DEF TypeOK

\* Voltages: what is read, handed over and stored has the type of a cell.
LEMMA ReadCellsKeeps == ASSUME StackInv, ReadCells PROVE StackInv'
<1> USE DEF ReadCells
<1>1. <<cl, "vol">> \in Cell
  BY DEF StackInv, TypeOK, Cell, Kind
<1>2. cells' \in [Cell -> CellValues \cup {Unread}]
  BY DEF StackInv, TypeOK, BlocksRead
<1>3. /\ last' \in [Cell -> CellValues \cup {Unread, NoSnap}]
      /\ cellRow' \in [Cell -> CellValues \cup {Unread}]
      /\ lost' \subseteq Cell
  BY <1>1, <1>2, FlushKeeps DEF StackInv
<1>4. pc' \in PC /\ cl' \in Cluster
  BY BoundsNat DEF StackInv, TypeOK, Goto, PC, Cluster
<1> QED
  BY <1>2, <1>3, <1>4 DEF StackInv, TypeOK, stackVars, hmiVars, batteryVars

\* A cluster whose cells are not due is passed.
LEMMA CellsNotDueKeeps == ASSUME StackInv, CellsNotDue PROVE StackInv'
<1> USE DEF CellsNotDue
<1>1. pc' \in PC /\ cl' \in Cluster
  BY NextClusterIn DEF StackInv
<1> QED
  BY <1>1 DEF StackInv, TypeOK, stackVars, cellVars, hmiVars, batteryVars

\* Temperatures, and the timestamp of the cluster.
LEMMA StoreTemperaturesKeeps == ASSUME StackInv, StoreTemperatures PROVE StackInv'
<1> USE DEF StoreTemperatures
<1>1. <<cl, "temp">> \in Cell
  BY DEF StackInv, TypeOK, Cell, Kind
<1>2. cells' \in [Cell -> CellValues \cup {Unread}]
  BY DEF StackInv, TypeOK
<1>3. /\ last' \in [Cell -> CellValues \cup {Unread, NoSnap}]
      /\ cellRow' \in [Cell -> CellValues \cup {Unread}]
      /\ lost' \subseteq Cell
  BY <1>1, <1>2, FlushKeeps DEF StackInv
<1>4. pc' \in PC /\ cl' \in Cluster
  <2>1. CASE FlushThrows(<<cl, "temp">>)
    BY <2>1, BoundsNat DEF Goto, PC, Cluster
  <2>2. CASE ~FlushThrows(<<cl, "temp">>)
    BY <2>2, NextClusterIn DEF StackInv
  <2> QED
    BY <2>1, <2>2
<1>5. due' \subseteq Cluster
  BY DEF StackInv, TypeOK
<1> QED
  BY <1>2, <1>3, <1>4, <1>5 DEF StackInv, TypeOK, stackVars, hmiVars, batteryVars

\* So every step of a round keeps types and verdict.
LEMMA RoundKeeps == ASSUME StackInv, RoundStep PROVE StackInv'
BY BeginRoundKeeps, PollStackKeeps, AfterStackKeeps, WriteLogicKeeps, WriteDodiKeeps,
   PollClusterKeeps, PollAirKeeps, ReadCellsKeeps, CellsNotDueKeeps, StoreTemperaturesKeeps
DEF RoundStep

\* A change is one more, up to the bound.
LEMMA ChangingIn == ASSUME TypeOK, Changing PROVE changes' \in 0 .. Calm
BY BoundsNat DEF TypeOK, Changing, Calm

\* What happens around the thread leaves its verdict alone, a restart forgets it.
LEMMA AroundKeeps ==
  ASSUME StackInv, ClockTick \/ Restart \/ BatteryChanges \/ EditOrders \/ LinkChanges \/ Settle
  PROVE  StackInv'
<1>1. CASE ClockTick
  BY <1>1 DEF ClockTick, StackInv, TypeOK, roundVars, stackVars, cellVars, hmiVars, batteryVars
<1>2. CASE Restart
  <2>1. /\ 1 \in Cluster /\ 0 \in 0 .. QtInterval - 1 /\ 0 \in 0 .. Threshold + 1
        /\ ~(0 > Threshold) /\ changes' \in 0 .. Calm
    BY <1>2, BoundsNat, ChangingIn DEF Restart, StackInv, Cluster
  <2> QED
    BY <1>2, <2>1 DEF Restart, StackInv, TypeOK, PC, Bit, hmiVars, batteryVars
<1>3. CASE BatteryChanges
  <2>1. changes' \in 0 .. Calm
    BY <1>3, ChangingIn DEF BatteryChanges, StackInv
  <2>2. /\ cell' \in [Cell -> CellValues] /\ airBit' \in [AirUnit -> Bit]
        /\ epoBit' \in Bit /\ stopped' \in BOOLEAN
    <3>1. CASE \E v \in CellValues : cell' = [x \in Cell |-> v] /\ UNCHANGED <<airBit, epoBit, stopped>>
      BY <3>1 DEF StackInv, TypeOK
    <3>2. CASE \E a \in AirUnit :
                 airBit' = [airBit EXCEPT ![a] = 1 - @] /\ UNCHANGED <<cell, epoBit, stopped>>
      BY <3>2 DEF StackInv, TypeOK, Bit
    <3>3. CASE epoBit' = 1 - epoBit /\ UNCHANGED <<cell, airBit, stopped>>
      BY <3>3 DEF StackInv, TypeOK, Bit
    <3>4. CASE stopped' = FALSE /\ UNCHANGED <<cell, airBit, epoBit>>
      BY <3>4 DEF StackInv, TypeOK
    <3> QED
      BY <1>3, <3>1, <3>2, <3>3, <3>4 DEF BatteryChanges
  <2> QED
    BY <1>3, <2>1, <2>2
    DEF BatteryChanges, StackInv, TypeOK, roundVars, stackVars, cellVars, hmiVars
<1>4. CASE EditOrders
  <2>1. changes' \in 0 .. Calm /\ stop' \in Bit /\ count' \in Counts
    BY <1>4, ChangingIn DEF EditOrders, StackInv, TypeOK, Bit
  <2> QED
    BY <1>4, <2>1 DEF EditOrders, StackInv, TypeOK, roundVars, stackVars, cellVars, batteryVars
<1>5. CASE LinkChanges
  <2>1. changes' \in 0 .. Calm /\ dbUp' \in BOOLEAN /\ link' \in {"up", "flaky", "dead"}
    BY <1>5, ChangingIn DEF LinkChanges, StackInv, TypeOK
  <2> QED
    BY <1>5, <2>1
    DEF LinkChanges, StackInv, TypeOK, roundVars, stackVars, cellVars, hmiVars, batteryVars
<1>6. CASE Settle
  <2>1. changes' \in 0 .. Calm /\ dbUp' \in BOOLEAN /\ link' \in {"up", "flaky", "dead"}
    BY <1>6, BoundsNat DEF Settle, Calm
  <2> QED
    BY <1>6, <2>1
    DEF Settle, StackInv, TypeOK, roundVars, stackVars, cellVars, hmiVars, batteryVars
<1> QED
  BY <1>1, <1>2, <1>3, <1>4, <1>5, <1>6

\* StackInv is inductive.
LEMMA NextInv == StackInv /\ [Next]_vars => StackInv'
<1> SUFFICES ASSUME StackInv, [Next]_vars PROVE StackInv'
  OBVIOUS
<1>1. CASE UNCHANGED vars
  BY <1>1 DEF vars, StackInv, TypeOK, roundVars, stackVars, cellVars, hmiVars, batteryVars
<1> QED
  BY <1>1, RoundKeeps, AroundKeeps DEF Next

\* Hence it holds of every behaviour.
LEMMA AlwaysStackInv == Spec => []StackInv
BY InitInv, NextInv, PTL DEF Spec

------------------------------------------------------------------------------

\* The state of the battery thread always has its type: also with a count row out of range
\* a round stays within the clusters there are.
THEOREM TypeCorrect == Spec => []TypeOK
<1>1. StackInv => TypeOK
  BY DEF StackInv
<1> QED
  BY <1>1, AlwaysStackInv, PTL

\* processCluster turns a cluster's row to offline only after more than Threshold probes of
\* the stack in a row went unanswered, and back only when that is over.
THEOREM RowsFollowStack == Spec => ClustersFollowStack
<1>1. ASSUME StackInv, [Next]_vars, NEW c \in Cluster
      PROVE  /\ clusterRow[c] = 0 /\ clusterRow'[c] = 1 => misses > Threshold
             /\ clusterRow[c] = 1 /\ clusterRow'[c] = 0 => misses <= Threshold
  <2>1. CASE PollCluster
    <3>1. PICK v \in Stored(clusterRow[cl], commFlag) : clusterRow' = [clusterRow EXCEPT ![cl] = v]
      BY <2>1 DEF PollCluster, Inherited
    <3>2. clusterRow'[c] = clusterRow[c] \/ clusterRow'[c] = commFlag
      BY <1>1, <3>1 DEF Stored, StackInv, TypeOK
    <3>3. misses \in Nat /\ Threshold \in Nat /\ commFlag \in {0, 1}
      BY <1>1, BoundsNat DEF StackInv, TypeOK, Bit
    <3> QED
      BY <1>1, <3>2, <3>3 DEF StackInv
  <2>2. CASE ~PollCluster
    <3>1. clusterRow' = clusterRow
      BY <1>1, <2>2
      DEF Next, RoundStep, BeginRound, PollStack, StopOrdered, PublishStack, WriteLogic,
          WriteDodi, PollAir, ReadCells, CellsNotDue, StoreTemperatures, ClockTick, Restart,
          BatteryChanges, EditOrders, LinkChanges, Settle, vars
    <3> QED
      BY <3>1
  <2> QED
    BY <2>1, <2>2
<1>2. StackInv /\ [Next]_vars =>
        [\A c \in Cluster :
           /\ clusterRow[c] = 0 /\ clusterRow'[c] = 1 => misses > Threshold
           /\ clusterRow[c] = 1 /\ clusterRow'[c] = 0 => misses <= Threshold]_vars
  BY <1>1
<1> QED
  BY <1>2, AlwaysStackInv, PTL DEF Spec, ClustersFollowStack

------------------------------------------------------------------------------
(* What is handed over to the database.                                      *)

\* A value handed over is in the row, unless its statement failed.
SnapInv == \A x \in Cell : last[x] # NoSnap /\ x \notin lost => cellRow[x] = last[x]

\* A flush keeps that, whether or not there is a statement and whether or not it fails.
LEMMA FlushSnaps ==
  ASSUME TypeOK, SnapInv, NEW y \in Cell, FlushCell(y),
         cells' \in [Cell -> CellValues \cup {Unread}]
  PROVE  SnapInv'
<1>1. PICK v \in IF Changed(y) THEN Stored(cellRow[y], cells'[y]) ELSE {cellRow[y]} :
        cellRow' = [cellRow EXCEPT ![y] = v]
  BY DEF FlushCell
<1>2. SUFFICES ASSUME NEW x \in Cell, last'[x] # NoSnap, x \notin lost'
               PROVE  cellRow'[x] = last'[x]
  BY DEF SnapInv
<1>3. /\ last' = [last EXCEPT ![y] = cells'[y]]
      /\ lost' = IF ~Changed(y) THEN lost ELSE IF dbUp THEN lost \ {y} ELSE lost \cup {y}
  BY DEF FlushCell
<1>4. CASE x # y
  <2>1. last'[x] = last[x] /\ cellRow'[x] = cellRow[x] /\ x \notin lost
    BY <1>1, <1>2, <1>3, <1>4 DEF TypeOK
  <2>. QED
    BY <1>2, <2>1 DEF SnapInv
<1>5. CASE x = y
  <2>1. last'[x] = cells'[x] /\ cellRow'[x] = v
    BY <1>1, <1>3, <1>5 DEF TypeOK
  <2>2. CASE Changed(y)
    <3>1. dbUp
      BY <1>2, <1>3, <1>5, <2>2
    <3>. QED
      BY <1>1, <1>5, <2>1, <2>2, <3>1 DEF Stored
  <2>3. CASE ~Changed(y)
    <3>1. v = cellRow[x] /\ last[x] = cells'[x] /\ x \notin lost
      BY <1>1, <1>2, <1>3, <1>5, <2>3 DEF Changed
    <3>. QED
      BY <1>2, <2>1, <3>1 DEF SnapInv
  <2>. QED
    BY <2>2, <2>3
<1>. QED
  BY <1>4, <1>5

\* Rows are only touched by flushes; a restart forgets what was handed over.
LEMMA SnapStep == StackInv /\ SnapInv /\ [Next]_vars => SnapInv'
<1>. SUFFICES ASSUME StackInv, SnapInv, [Next]_vars PROVE SnapInv'
  OBVIOUS
<1>1. CASE ReadCells
  <2>1. <<cl, "vol">> \in Cell /\ cells' \in [Cell -> CellValues \cup {Unread}]
    BY <1>1 DEF ReadCells, StackInv, TypeOK, Cell, Kind, BlocksRead
  <2>. QED
    BY <1>1, <2>1, FlushSnaps DEF ReadCells, StackInv
<1>2. CASE StoreTemperatures
  <2>1. <<cl, "temp">> \in Cell /\ cells' \in [Cell -> CellValues \cup {Unread}]
    BY <1>2 DEF StoreTemperatures, StackInv, TypeOK, Cell, Kind
  <2>. QED
    BY <1>2, <2>1, FlushSnaps DEF StoreTemperatures, StackInv
<1>3. CASE Restart
  BY <1>3 DEF Restart, SnapInv
<1>4. CASE UNCHANGED <<last, lost, cellRow>>
  BY <1>4 DEF SnapInv
<1>. QED
  BY <1>1, <1>2, <1>3, <1>4
  DEF Next, RoundStep, BeginRound, PollStack, StopOrdered, PublishStack, WriteLogic, WriteDodi,
      PollCluster, PollAir, CellsNotDue, ClockTick, BatteryChanges, EditOrders, LinkChanges,
      Settle, vars, cellVars

\* lastVolDb_ and lastTempDb_ are what was last written to the database ("上次写入数据库的值"),
\* except for the cells whose last statement failed.
THEOREM SnapshotsHold == Spec => []SnapInv
<1>1. Init => SnapInv
  BY DEF Init, SnapInv
<1>. QED
  BY <1>1, SnapStep, AlwaysStackInv, PTL DEF Spec

------------------------------------------------------------------------------
(* One round is enough.  Once nothing changes any more (Calm) and the count  *)
(* of clusters has been read, a round leaves the rows as they should be.     *)

\* When all is calm the database is up, and the battery answers always or never.
CalmInv == changes = Calm => dbUp /\ link \in {"up", "dead"}

\* Links go down in changes, and Calm settles them.
LEMMA CalmStep == StackInv /\ CalmInv /\ [Next]_vars => CalmInv'
<1>. SUFFICES ASSUME StackInv, CalmInv, [Next]_vars PROVE CalmInv'
  OBVIOUS
<1>1. CASE UNCHANGED <<changes, dbUp, link>>
  BY <1>1 DEF CalmInv, Calm
<1>2. CASE Changing
  <2>1. changes' # Calm
    BY <1>2, BoundsNat DEF Changing, Calm, StackInv, TypeOK
  <2>. QED
    BY <2>1 DEF CalmInv, Calm
<1>3. CASE dbUp' /\ link' \in {"up", "dead"}
  BY <1>3 DEF CalmInv
<1>. QED
  BY <1>1, <1>2, <1>3
  DEF Next, RoundStep, BeginRound, PollStack, StopOrdered, PublishStack, WriteLogic, WriteDodi,
      PollCluster, PollAir, ReadCells, CellsNotDue, StoreTemperatures, ClockTick, Restart,
      BatteryChanges, EditOrders, LinkChanges, Settle, vars

\* Nothing is calm at the start.
LEMMA CalmInit == Init => CalmInv
BY BoundsNat DEF Init, CalmInv, Calm

\* The calm, with the count of clusters read.
Quiet(l) == changes = Calm /\ dbUp /\ link = l /\ batteryNumber = count

\* In the calm only rounds and the clock go on, and the count that is read is no other.
LEMMA QuietSteps ==
  ASSUME StackInv, NEW l, Quiet(l), Next
  PROVE  (RoundStep \/ ClockTick) /\ Quiet(l)'
         /\ UNCHANGED <<batteryNumber, stop, count, cell, airBit, epoBit>>
<1>1. changes = MaxChanges + 1 /\ MaxChanges \in Nat
  BY BoundsNat DEF Quiet, Calm
<1>2. ~(changes < MaxChanges)
  BY <1>1
<1>3. RoundStep \/ ClockTick
  BY <1>2 DEF Next, Restart, BatteryChanges, EditOrders, LinkChanges, Settle, Changing, Quiet
<1>4. CASE BeginRound
  <2>1. batteryNumber' = batteryNumber
    BY <1>4 DEF BeginRound, Quiet
  <2>. QED
    BY <1>3, <1>4, <2>1 DEF BeginRound, Quiet, Calm, hmiVars, batteryVars
<1>5. CASE ~BeginRound
  BY <1>3, <1>5
  DEF RoundStep, PollStack, StopOrdered, PublishStack, WriteLogic, WriteDodi, PollCluster,
      PollAir, ReadCells, CellsNotDue, StoreTemperatures, ClockTick, Quiet, Calm, hmiVars,
      batteryVars, roundVars
<1>. QED
  BY <1>4, <1>5

\* The stack is dead, and counted out: logic and the clusters passed show it.
FreshDead ==
  /\ Quiet("dead") /\ commFlag = 1
  /\ pc \notin {"stop", "publish", "air", "cells", "temperatures"}
  /\ pc \in {"stack", "logic", "dodi"} => cl = 1
  /\ pc \in {"dodi", "cluster"} => logic.comm = 1
  /\ pc = "cluster" => \A c \in 1 .. cl - 1 : clusterRow[c] = 1

DeadRound ==
  /\ pc # "idle" /\ pc' = "idle" => DeadShown'
  /\ DeadShown => DeadShown'

\* A cluster is passed: the next one follows, or all in use are passed.
LEMMA NextInUse ==
  ASSUME StackInv, batteryNumber = count, NextCluster
  PROVE  /\ Clamp(count) \in Nat /\ cl \in Nat \ {0}
         /\ \/ pc' = "cluster" /\ cl' = cl + 1
            \/ pc' = "idle" /\ \A c \in InUse : c \in 1 .. cl
<1>1. Clamp(count) \in 1 .. MaxCluster /\ cl \in 1 .. MaxCluster
  <2>1. count \in Int
    BY BoundsNat DEF StackInv, TypeOK
  <2>. QED
    BY <2>1, ClampIn DEF StackInv, TypeOK, Cluster
<1>. QED
  BY <1>1, BoundsNat DEF NextCluster, InUse

\* Each step of such a round knows what is said of the place it leads to.
LEMMA FreshDeadStep ==
  ASSUME StackInv, FreshDead, Next
  PROVE  FreshDead' /\ DeadRound
<1>1. (RoundStep \/ ClockTick) /\ Quiet("dead")' /\ UNCHANGED <<batteryNumber, count>>
  BY QuietSteps DEF FreshDead
<1>2. InUse' = InUse
  BY <1>1 DEF InUse, Clamp
<1>3. misses > Threshold /\ dbUp /\ Answers = {FALSE} /\ batteryNumber = count
  BY DEF FreshDead, StackInv, Quiet, Answers
<1>4. CASE BeginRound
  <2>1. /\ pc' = "stack" /\ cl' = 1 /\ pc = "idle"
        /\ UNCHANGED <<commFlag, logic, clusterRow>>
    BY <1>3, <1>4 DEF BeginRound, DbStep, Goto, stackVars
  <2>. QED
    BY <1>1, <1>2, <2>1 DEF FreshDead, DeadRound, DeadShown
<1>5. CASE PollStack
  <2>1. /\ pc = "stack" /\ pc' = "logic" /\ commFlag' = 1
        /\ UNCHANGED <<cl, logic, clusterRow>>
    BY <1>3, <1>5 DEF PollStack, DbStep, FreshDead
  <2>. QED
    BY <1>1, <1>2, <2>1 DEF FreshDead, DeadRound, DeadShown
<1>15. ~StopOrdered /\ ~PublishStack
  BY DEF StopOrdered, PublishStack, FreshDead
<1>6. CASE WriteLogic
  <2>1. /\ pc = "logic" /\ pc' = "dodi" /\ logic' = LogicRow(epo')
        /\ UNCHANGED <<cl, commFlag, clusterRow>>
    BY <1>3, <1>6 DEF WriteLogic, DbStep, Stored
  <2>2. logic'.comm = 1
    BY <2>1 DEF LogicRow, FreshDead
  <2>. QED
    BY <1>1, <1>2, <2>1, <2>2 DEF FreshDead, DeadRound, DeadShown
<1>7. CASE WriteDodi
  <2>1. /\ pc = "dodi" /\ pc' = "cluster" /\ cl = 1
        /\ UNCHANGED <<cl, commFlag, logic, clusterRow>>
    BY <1>3, <1>7 DEF WriteDodi, DbStep, FreshDead, stackVars
  <2>2. \A c \in 1 .. cl' - 1 : FALSE
    BY <2>1
  <2>. QED
    BY <1>1, <1>2, <2>1, <2>2 DEF FreshDead, DeadRound, DeadShown
<1>8. CASE PollCluster
  <2>1. /\ pc = "cluster" /\ NextCluster /\ clusterRow' = [clusterRow EXCEPT ![cl] = 1]
        /\ UNCHANGED <<commFlag, logic>>
    BY <1>3, <1>8 DEF PollCluster, Stored, Inherited, FreshDead, stackVars
  <2>2. cl \in Nat \ {0} /\ clusterRow \in [Cluster -> Bit]
    BY <1>3, <2>1, NextInUse DEF StackInv, TypeOK
  <2>3. \A c \in 1 .. cl - 1 : clusterRow[c] = 1
    BY <2>1 DEF FreshDead
  <2>4. \A c \in Cluster : c \in 1 .. cl => clusterRow'[c] = 1
    BY <2>1, <2>2, <2>3
  <2>5. cl \in Cluster /\ \A c \in 1 .. cl : c \in Cluster
    BY BoundsNat DEF StackInv, TypeOK, Cluster
  <2>6. DeadShown => DeadShown'
    BY <1>2, <2>1, <2>2 DEF DeadShown
  <2>7. CASE pc' = "cluster" /\ cl' = cl + 1
    <3>1. \A c \in 1 .. cl' - 1 : c \in 1 .. cl
      BY <2>2, <2>7
    <3>. QED
      BY <1>1, <2>1, <2>4, <2>5, <2>6, <2>7, <3>1 DEF FreshDead, DeadRound
  <2>8. CASE pc' = "idle" /\ \A c \in InUse : c \in 1 .. cl
    <3>1. logic.comm = 1
      BY <2>1 DEF FreshDead
    <3>2. DeadShown'
      BY <1>2, <2>1, <2>4, <2>5, <2>8, <3>1 DEF DeadShown
    <3>. QED
      BY <1>1, <2>1, <2>8, <3>2 DEF FreshDead, DeadRound
  <2>. QED
    BY <1>3, <2>1, <2>7, <2>8, NextInUse
<1>9. CASE PollAir \/ ReadCells \/ CellsNotDue \/ StoreTemperatures
  BY <1>9 DEF FreshDead, PollAir, ReadCells, CellsNotDue, StoreTemperatures
<1>10. CASE ClockTick
  <2>1. pc = "idle" /\ UNCHANGED <<pc, cl, commFlag, logic, clusterRow>>
    BY <1>10 DEF ClockTick, roundVars, stackVars
  <2>. QED
    BY <1>1, <1>2, <2>1 DEF FreshDead, DeadRound, DeadShown
<1>. QED
  BY <1>1, <1>4, <1>5, <1>6, <1>7, <1>8, <1>9, <1>10, <1>15 DEF RoundStep

\* Once nothing changes any more, the stack is counted out and the count of clusters read,
\* one round of Bamu puts logic row 401 and every cluster in use at the alarm, and no later
\* round takes it back, for any number of clusters.  DeadStackSpreads adds that rounds end
\* and that the misses are counted.
THEOREM DeadRoundSuffices ==
  Spec => [](changes = Calm /\ link = "dead" /\ pc = "idle" /\ commFlag = 1
               /\ batteryNumber = count => [][DeadRound]_vars)
<1>1. CalmInv /\ changes = Calm /\ link = "dead" /\ pc = "idle" /\ commFlag = 1
        /\ batteryNumber = count => FreshDead
  BY DEF FreshDead, Quiet, CalmInv
<1>2. ASSUME StackInv, FreshDead, [Next]_vars PROVE FreshDead' /\ [DeadRound]_vars
  <2>1. CASE Next
    BY <1>2, <2>1, FreshDeadStep
  <2>2. CASE UNCHANGED vars
    BY <1>2, <2>2 DEF vars, roundVars, stackVars, hmiVars, FreshDead, Quiet, Calm
  <2>. QED
    BY <1>2, <2>1, <2>2
<1>. QED
  BY <1>1, <1>2, CalmInit, CalmStep, InitInv, NextInv, PTL DEF Spec

\* Division with remainder, and that there is only one.
LEMMA Quotient ==
  ASSUME NEW a \in Int, NEW b \in Nat \ {0}
  PROVE  /\ a \div b \in Int /\ a % b \in 0 .. b - 1
         /\ a = b * (a \div b) + (a % b)
OBVIOUS

\* The quotient of b * q + r by b is q, for a rest r below b.
LEMMA OneQuotient ==
  ASSUME NEW q \in Int, NEW r \in Int, NEW b \in Nat \ {0}, 0 <= r, r < b
  PROVE  (b * q + r) \div b = q
OBVIOUS

\* The clusters of an air unit are next to each other, its leader first.
LEMMA AirUnits ==
  ASSUME NEW c \in Nat \ {0}
  PROVE  /\ AirUnitOf(c) \in Nat \ {0} /\ AirUnitOf(c - 1) \in Nat
         /\ AirUnitOf(c) = IF LeadsAirUnit(c) THEN AirUnitOf(c - 1) + 1 ELSE AirUnitOf(c - 1)
<1>. DEFINE P == PerAirUnit
            m == c - 1
            q == m \div P
            r == m % P
<1>1. P \in Nat \ {0}
  BY BamuAssumption DEF BamuAssumption
<1>2. q \in Int /\ r \in 0 .. P - 1 /\ c - 1 = P * q + r
  <2>1. m \in Int
    OBVIOUS
  <2>. HIDE DEF m
  <2>2. q \in Int /\ r \in 0 .. P - 1 /\ m = P * q + r
    BY <1>1, <2>1, Quotient
  <2>. QED
    BY <2>2 DEF m
<1>. HIDE DEF q, r
<1>3. q >= 0
  BY <1>1, <1>2
<1>4. AirUnitOf(c) = q + 1
  <2>1. c + P - 1 = P * (q + 1) + r
    BY <1>1, <1>2
  <2>. QED
    BY <1>1, <1>2, <2>1, OneQuotient DEF AirUnitOf
<1>5. LeadsAirUnit(c) <=> r = 0
  BY DEF LeadsAirUnit, r
<1>6. CASE r = 0
  <2>1. (c - 1) + P - 1 = P * q + (P - 1)
    BY <1>1, <1>2, <1>6
  <2>2. AirUnitOf(c - 1) = q
    BY <1>1, <1>2, <2>1, OneQuotient DEF AirUnitOf
  <2>. QED
    BY <1>2, <1>3, <1>4, <1>5, <1>6, <2>2
<1>7. CASE r # 0
  <2>1. (c - 1) + P - 1 = P * (q + 1) + (r - 1)
    BY <1>1, <1>2
  <2>2. AirUnitOf(c - 1) = q + 1
    BY <1>1, <1>2, <1>7, <2>1, OneQuotient DEF AirUnitOf
  <2>. QED
    BY <1>2, <1>3, <1>4, <1>5, <1>7, <2>2
<1>. QED
  BY <1>6, <1>7

\* The first cluster leads the first air unit.
LEMMA NoAirBefore == AirUnitOf(0) = 0
<1>1. PerAirUnit \in Nat \ {0} /\ 0 + PerAirUnit - 1 = PerAirUnit * 0 + (PerAirUnit - 1)
  BY BamuAssumption DEF BamuAssumption
<1>. QED
  BY <1>1, OneQuotient DEF AirUnitOf

\* Later clusters have no earlier air units: those of the clusters are the air units.
LEMMA AirUnitsGrow ==
  ASSUME NEW c \in Nat, NEW d \in Nat, c <= d
  PROVE  AirUnitOf(c) <= AirUnitOf(d)
<1>. DEFINE P == PerAirUnit
            a == c + P - 1
            b == d + P - 1
<1>1. P \in Nat \ {0} /\ a \in Int /\ b \in Int /\ a <= b
  BY BamuAssumption DEF BamuAssumption
<1>. HIDE DEF a, b
<1>2. /\ a \div P \in Int /\ b \div P \in Int
      /\ P * (a \div P) <= a /\ b < P * (b \div P) + P
  BY <1>1, Quotient
<1>3. \A x, y \in Int : x <= y => P * x <= P * y
  BY <1>1
<1>4. a \div P <= b \div P
  <2>1. SUFFICES ASSUME (b \div P) + 1 <= a \div P PROVE FALSE
    BY <1>2
  <2>2. P * ((b \div P) + 1) <= P * (a \div P)
    BY <1>2, <1>3, <2>1
  <2>3. P * ((b \div P) + 1) = P * (b \div P) + P
    BY <1>1, <1>2
  <2>. QED
    BY <1>1, <1>2, <2>2, <2>3
<1>. QED
  BY <1>4 DEF AirUnitOf, a, b

\* The air unit of a cluster is one.
LEMMA AirUnitIn == ASSUME NEW c \in Cluster PROVE AirUnitOf(c) \in AirUnit
<1>1. c \in Nat \ {0} /\ MaxCluster \in Nat \ {0} /\ c <= MaxCluster
  BY BoundsNat DEF Cluster
<1>. QED
  BY <1>1, AirUnits, AirUnitsGrow DEF AirUnit

\* The row of an air unit and what the thread has of it are its bit.
AirShown(a) == airRow[a] = airBit[a] /\ airOnline[a] = airBit[a]

\* The stack answers: what the round has written so far is what the battery shows, for the
\* clusters passed and their air units.
FreshLive ==
  /\ Quiet("up")
  /\ pc \in {"stack", "stop", "publish", "logic", "dodi"} => cl = 1
  /\ pc \notin {"idle", "stack"} => commFlag = 0
  /\ pc \notin {"idle", "stack", "stop"} => (stop = 1 => stopped)
  /\ pc \notin {"idle", "stack", "stop", "publish", "logic"} =>
       logic.comm = 0 /\ logic.epo = epoBit /\ epo = epoBit
  /\ pc \in {"cluster", "air", "cells", "temperatures"} =>
       dodi = epoBit /\ \A c \in 1 .. cl - 1 : clusterRow[c] = 0
  /\ pc \in {"air", "cells", "temperatures"} => clusterRow[cl] = 0
  /\ pc = "air" => LeadsAirUnit(cl)
  /\ pc \in {"cluster", "air"} => \A a \in 1 .. AirUnitOf(cl - 1) : AirShown(a)
  /\ pc \in {"cells", "temperatures"} => \A a \in 1 .. AirUnitOf(cl) : AirShown(a)

\* Every cluster in use was passed.
AllPassed == (\A c \in InUse : clusterRow[c] = 0) /\ (\A a \in AirInUse : AirShown(a))

\* A cluster is passed after its air unit and its cells.
LEMMA PassCluster ==
  ASSUME StackInv, FreshLive, pc \in {"cells", "temperatures"}, NextCluster, Quiet("up")',
         UNCHANGED <<count, stop, stopped, commFlag, logic, epo, epoBit, dodi, clusterRow,
                     airRow, airOnline, airBit>>
  PROVE  FreshLive' /\ (pc' = "idle" => AllPassed')
<1>1. /\ Clamp(count) \in Nat /\ cl \in Nat \ {0}
      /\ \/ pc' = "cluster" /\ cl' = cl + 1
         \/ pc' = "idle" /\ \A c \in InUse : c \in 1 .. cl
  BY NextInUse DEF FreshLive, Quiet
<1>2. /\ \A c \in 1 .. cl : clusterRow[c] = 0
      /\ \A a \in 1 .. AirUnitOf(cl) : AirShown(a)
  BY <1>1 DEF FreshLive
<1>3. CASE pc' = "cluster" /\ cl' = cl + 1
  <2>1. cl' - 1 = cl
    BY <1>1, <1>3
  <2>2. /\ \A c \in 1 .. cl' - 1 : clusterRow'[c] = 0
        /\ \A a \in 1 .. AirUnitOf(cl' - 1) : AirShown(a)'
    BY <1>2, <2>1 DEF AirShown, AirUnitOf
  <2>. QED
    BY <1>3, <2>2 DEF FreshLive, AirUnitOf
<1>4. CASE pc' = "idle" /\ \A c \in InUse : c \in 1 .. cl
  <2>1. Clamp(count) <= cl
    <3>1. Clamp(count) \in InUse
      BY <1>1, BoundsNat DEF InUse, Clamp
    <3>. QED
      BY <1>1, <1>4, <3>1
  <2>2. AirUnitOf(Clamp(count)) <= AirUnitOf(cl)
    BY <1>1, <2>1, AirUnitsGrow
  <2>3. \A a \in AirInUse : a \in 1 .. AirUnitOf(cl)
    <3>1. AirUnitOf(cl) \in Int /\ AirUnitOf(Clamp(count)) \in Int
      BY <1>1, AirUnits, BoundsNat DEF Clamp
    <3>. QED
      BY <2>2, <3>1 DEF AirInUse
  <2>4. AllPassed
    BY <1>2, <1>4, <2>3 DEF AllPassed
  <2>5. AllPassed'
    BY <2>4 DEF AllPassed, AirShown, InUse, AirInUse, Clamp, AirUnitOf
  <2>. QED
    BY <1>4, <2>5 DEF FreshLive
<1>. QED
  BY <1>1, <1>3, <1>4

\* Each step of such a round knows what is said of the place it leads to.
LEMMA FreshLiveStep ==
  ASSUME StackInv, FreshLive, Next
  PROVE  FreshLive' /\ (pc # "idle" /\ pc' = "idle" => AllPassed')
<1>1. /\ RoundStep \/ ClockTick
      /\ Quiet("up")' /\ UNCHANGED <<batteryNumber, stop, count, cell, airBit, epoBit>>
  BY QuietSteps DEF FreshLive
<1>2. dbUp /\ Answers = {TRUE} /\ cl \in Cluster /\ cl \in Nat \ {0}
  BY BoundsNat DEF FreshLive, Quiet, Answers, StackInv, TypeOK, Cluster
<1>3. CASE BeginRound
  BY <1>1, <1>2, <1>3 DEF FreshLive, BeginRound, DbStep, Goto
<1>4. CASE PollStack
  <2>1. pc = "stack" /\ pc' = "stop" /\ commFlag' = 0 /\ UNCHANGED cl
    BY <1>2, <1>4 DEF PollStack, DbStep
  <2>. QED
    BY <1>1, <2>1 DEF FreshLive
<1>13. CASE StopOrdered
  <2>1. /\ pc = "stop" /\ pc' = "publish" /\ UNCHANGED <<cl, commFlag>>
        /\ stop = 1 => stopped'
    BY <1>2, <1>13 DEF StopOrdered, DbStep, stackVars
  <2>. QED
    BY <1>1, <2>1 DEF FreshLive
<1>14. CASE PublishStack
  <2>1. pc = "publish" /\ pc' = "logic" /\ UNCHANGED <<cl, commFlag, stopped>>
    BY <1>2, <1>14 DEF PublishStack, DbStep, stackVars
  <2>. QED
    BY <1>1, <2>1 DEF FreshLive
<1>5. CASE WriteLogic
  <2>1. /\ pc = "logic" /\ pc' = "dodi" /\ epo' = epoBit /\ logic' = LogicRow(epo')
        /\ UNCHANGED <<cl, commFlag, stopped>>
    BY <1>2, <1>5 DEF WriteLogic, DbStep, Stored, Signal
  <2>2. logic'.comm = 0 /\ logic'.epo = epoBit
    BY <2>1 DEF LogicRow, FreshLive
  <2>. QED
    BY <1>1, <2>1, <2>2 DEF FreshLive
<1>6. CASE WriteDodi
  <2>1. /\ pc = "dodi" /\ pc' = "cluster" /\ dodi' = epo /\ cl = 1
        /\ UNCHANGED <<cl, commFlag, stopped, epo, logic>>
    BY <1>2, <1>6 DEF WriteDodi, DbStep, Stored, FreshLive, stackVars
  <2>2. /\ \A c \in 1 .. cl' - 1 : FALSE
        /\ \A a \in 1 .. AirUnitOf(cl' - 1) : FALSE
    <3>1. cl' - 1 = 0
      BY <2>1
    <3>. QED
      BY <3>1, NoAirBefore
  <2>. QED
    BY <1>1, <2>1, <2>2 DEF FreshLive, AirUnitOf
<1>7. CASE PollCluster
  <2>1. /\ pc = "cluster" /\ clusterRow' = [clusterRow EXCEPT ![cl] = 0]
        /\ pc' = (IF LeadsAirUnit(cl) THEN "air" ELSE "cells")
        /\ UNCHANGED <<cl, commFlag, stopped, epo, logic, dodi, airRow, airOnline>>
    BY <1>2, <1>7 DEF PollCluster, Stored, Inherited, FreshLive, Goto, stackVars
  <2>2. clusterRow'[cl] = 0 /\ \A c \in 1 .. cl - 1 : clusterRow'[c] = 0
    BY <1>2, <2>1 DEF FreshLive, StackInv, TypeOK
  <2>3. \A a \in 1 .. AirUnitOf(cl - 1) : AirShown(a)'
    BY <1>1, <2>1 DEF FreshLive, AirShown
  <2>4. ~LeadsAirUnit(cl) => AirUnitOf(cl) = AirUnitOf(cl - 1)
    BY <1>2, AirUnits
  <2>5. CASE LeadsAirUnit(cl)
    BY <1>1, <2>1, <2>2, <2>3, <2>5 DEF FreshLive, AirUnitOf, LeadsAirUnit
  <2>6. CASE ~LeadsAirUnit(cl)
    BY <1>1, <2>1, <2>2, <2>3, <2>4, <2>6 DEF FreshLive, AirUnitOf
  <2>. QED
    BY <2>5, <2>6
<1>8. CASE PollAir
  <2>. DEFINE a == AirUnitOf(cl)
  <2>1. /\ pc = "air" /\ pc' = "cells"
        /\ airOnline' = [airOnline EXCEPT ![a] = airBit[a]]
        /\ airRow' = [airRow EXCEPT ![a] = airOnline'[a]]
        /\ UNCHANGED <<cl, commFlag, stopped, epo, logic, dodi, clusterRow>>
    BY <1>2, <1>8 DEF PollAir, Stored, Goto, stackVars
  <2>2. a \in AirUnit /\ a = AirUnitOf(cl - 1) + 1 /\ AirUnitOf(cl - 1) \in Nat
    BY <1>2, <2>1, AirUnits, AirUnitIn DEF FreshLive
  <2>3. \A b \in 1 .. AirUnitOf(cl - 1) : AirShown(b)
    BY <2>1 DEF FreshLive
  <2>. HIDE DEF a
  <2>4. AirShown(a)'
    BY <1>1, <2>1, <2>2 DEF AirShown, StackInv, TypeOK, a, AirUnitOf
  <2>5. \A b \in 1 .. AirUnitOf(cl - 1) : AirShown(b)'
    <3>1. \A b \in 1 .. AirUnitOf(cl - 1) : b # a
      BY <2>2
    <3>. QED
      BY <1>1, <2>1, <2>3, <3>1 DEF AirShown, StackInv, TypeOK
  <2>6. \A b \in 1 .. a : AirShown(b)'
    <3>1. \A b \in 1 .. a : b = a \/ b \in 1 .. AirUnitOf(cl - 1)
      BY <2>2
    <3>. QED
      BY <2>1, <2>4, <2>5, <3>1 DEF AirShown, a, AirUnitOf
  <2>7. \A b \in 1 .. AirUnitOf(cl') : AirShown(b)'
    BY <2>1, <2>6 DEF a
  <2>. QED
    BY <1>1, <2>1, <2>7 DEF FreshLive, AirUnitOf
<1>9. CASE ReadCells
  <2>1. /\ pc = "cells" /\ pc' = "temperatures"
        /\ UNCHANGED <<cl, commFlag, stopped, epo, logic, dodi, clusterRow, airRow, airOnline>>
    BY <1>2, <1>9 DEF ReadCells, FlushThrows, Goto, stackVars
  <2>. QED
    BY <1>1, <2>1 DEF FreshLive, AirShown, AirUnitOf
<1>10. CASE CellsNotDue
  <2>1. /\ pc = "cells" /\ NextCluster
        /\ UNCHANGED <<commFlag, stopped, epo, logic, dodi, clusterRow, airRow, airOnline>>
    BY <1>10 DEF CellsNotDue, stackVars
  <2>. QED
    BY <1>1, <2>1, PassCluster
<1>11. CASE StoreTemperatures
  <2>1. /\ pc = "temperatures" /\ NextCluster
        /\ UNCHANGED <<commFlag, stopped, epo, logic, dodi, clusterRow, airRow, airOnline>>
    BY <1>2, <1>11 DEF StoreTemperatures, FlushThrows, stackVars
  <2>. QED
    BY <1>1, <2>1, PassCluster
<1>12. CASE ClockTick
  BY <1>1, <1>12 DEF ClockTick, FreshLive, roundVars
<1>. QED
  BY <1>1, <1>3, <1>4, <1>5, <1>6, <1>7, <1>8, <1>9, <1>10, <1>11, <1>12, <1>13, <1>14
  DEF RoundStep

\* What the thread has of the air units in use are their bits.
AirSeen == \A a \in AirInUse : airOnline[a] = airBit[a]

\* The next round, which begins with that, also has it in the logic row.
FreshSeen ==
  /\ FreshLive /\ AirSeen
  /\ pc \notin {"idle", "stack", "stop", "publish", "logic"} =>
       \A a \in AirInUse : logic.air[a] = airBit[a]

FirstLiveRound == pc # "idle" /\ pc' = "idle" => AirSeen'

LiveRound ==
  /\ pc # "idle" /\ pc' = "idle" => LiveShown'
  /\ LiveShown => LiveShown'

\* In the calm, what the logic row shows of the air units in use is what the thread has of
\* them, and what the thread has of an air unit that answers is its bit.
LEMMA SeenStands ==
  ASSUME StackInv, FreshLive, AirSeen, Next
  PROVE  AirSeen'
<1>1. /\ RoundStep \/ ClockTick
      /\ Quiet("up")' /\ UNCHANGED <<batteryNumber, stop, count, cell, airBit, epoBit>>
  BY QuietSteps DEF FreshLive
<1>2. AirInUse' = AirInUse /\ Answers = {TRUE}
  BY <1>1 DEF AirInUse, Clamp, AirUnitOf, FreshLive, Quiet, Answers
<1>3. CASE PollAir
  <2>1. airOnline' = [airOnline EXCEPT ![AirUnitOf(cl)] = airBit[AirUnitOf(cl)]]
    BY <1>2, <1>3 DEF PollAir
  <2>2. \A a : airOnline'[a] = airOnline[a] \/ airOnline'[a] = airBit[a]
    BY <2>1 DEF StackInv, TypeOK
  <2>. QED
    BY <1>1, <1>2, <2>1, <2>2 DEF AirSeen, StackInv, TypeOK
<1>4. CASE UNCHANGED airOnline
  BY <1>1, <1>2, <1>4 DEF AirSeen
<1>. QED
  BY <1>1, <1>3, <1>4
  DEF RoundStep, BeginRound, PollStack, StopOrdered, PublishStack, WriteLogic, WriteDodi,
      PollCluster, ReadCells, CellsNotDue, StoreTemperatures, ClockTick

\* Each step of the next round knows what is said of the place it leads to.
LEMMA FreshSeenStep ==
  ASSUME StackInv, FreshSeen, Next
  PROVE  FreshSeen' /\ LiveRound
<1>1. /\ RoundStep \/ ClockTick
      /\ Quiet("up")' /\ UNCHANGED <<batteryNumber, stop, count, cell, airBit, epoBit>>
  BY QuietSteps DEF FreshSeen, FreshLive
<1>2. InUse' = InUse /\ AirInUse' = AirInUse /\ AirInUse \subseteq AirUnit
  <2>1. InUse' = InUse /\ AirInUse' = AirInUse
    BY <1>1 DEF InUse, AirInUse, Clamp, AirUnitOf
  <2>2. count \in Int
    BY BoundsNat DEF StackInv, TypeOK
  <2>3. Clamp(count) \in Cluster
    BY <2>2, ClampIn
  <2>4. AirUnitOf(Clamp(count)) \in AirUnit
    BY <2>3, AirUnitIn
  <2>5. AirInUse \subseteq AirUnit
    <3>1. AirUnitOf(MaxCluster) \in Int
      BY BoundsNat, AirUnits
    <3>. QED
      BY <2>4, <3>1 DEF AirInUse, AirUnit
  <2>. QED
    BY <2>1, <2>5
<1>3. FreshLive' /\ AirSeen' /\ (pc # "idle" /\ pc' = "idle" => AllPassed')
  BY FreshLiveStep, SeenStands DEF FreshSeen
<1>4. dbUp /\ Answers = {TRUE} /\ batteryNumber = count
  BY DEF FreshSeen, FreshLive, Quiet, Answers
<1>5. CASE BeginRound
  <2>1. /\ pc = "idle" /\ pc' = "stack"
        /\ UNCHANGED <<logic, dodi, stopped, clusterRow, airRow>>
    BY <1>4, <1>5 DEF BeginRound, DbStep, Goto
  <2>. QED
    BY <1>1, <1>2, <1>3, <2>1 DEF FreshSeen, LiveRound, LiveShown
<1>6. CASE PollStack
  <2>1. /\ pc = "stack" /\ pc' = "stop"
        /\ UNCHANGED <<logic, dodi, stopped, clusterRow, airRow>>
    BY <1>4, <1>6 DEF PollStack, DbStep
  <2>. QED
    BY <1>1, <1>2, <1>3, <2>1 DEF FreshSeen, LiveRound, LiveShown
<1>13. CASE StopOrdered \/ PublishStack
  <2>1. /\ pc \in {"stop", "publish"} /\ pc' \in {"publish", "logic"}
        /\ UNCHANGED <<logic, dodi, clusterRow, airRow>>
    BY <1>4, <1>13 DEF StopOrdered, PublishStack, DbStep
  <2>2. stop = 1 => stopped'
    BY <1>1, <1>3, <2>1 DEF FreshLive
  <2>. QED
    BY <1>1, <1>2, <1>3, <2>1, <2>2 DEF FreshSeen, LiveRound, LiveShown
<1>7. CASE WriteLogic
  <2>1. /\ pc = "logic" /\ pc' = "dodi" /\ logic' = LogicRow(epo')
        /\ UNCHANGED <<dodi, stopped, clusterRow, airRow>>
    BY <1>4, <1>7 DEF WriteLogic, DbStep, Stored
  <2>2. \A a \in AirInUse : logic'.air[a] = airBit[a]
    <3>1. \A a \in AirInUse : logic'.air[a] = airOnline[a]
      BY <1>2, <1>4, <2>1 DEF LogicRow, AirInUse
    <3>. QED
      BY <3>1 DEF FreshSeen, AirSeen
  <2>3. logic'.comm = 0 /\ logic'.epo = epoBit
    BY <1>1, <1>3, <2>1 DEF FreshLive
  <2>. QED
    BY <1>1, <1>2, <1>3, <2>1, <2>2, <2>3 DEF FreshSeen, LiveRound, LiveShown
<1>8. CASE WriteDodi
  <2>1. /\ pc = "dodi" /\ pc' = "cluster" /\ dodi' = epoBit
        /\ UNCHANGED <<logic, stopped, clusterRow, airRow>>
    BY <1>4, <1>8 DEF WriteDodi, DbStep, Stored, FreshSeen, FreshLive
  <2>. QED
    BY <1>1, <1>2, <1>3, <2>1 DEF FreshSeen, LiveRound, LiveShown
<1>9. CASE PollCluster
  <2>1. /\ pc = "cluster" /\ pc' \in {"air", "cells"}
        /\ clusterRow' = [clusterRow EXCEPT ![cl] = 0]
        /\ UNCHANGED <<logic, dodi, stopped, airRow>>
    BY <1>4, <1>9 DEF PollCluster, Stored, Inherited, FreshSeen, FreshLive, Goto
  <2>2. \A c \in InUse : clusterRow[c] = 0 => clusterRow'[c] = 0
    <3>1. \A c : clusterRow'[c] = clusterRow[c] \/ clusterRow'[c] = 0
      BY <2>1 DEF StackInv, TypeOK
    <3>. QED
      BY <3>1
  <2>. QED
    BY <1>1, <1>2, <1>3, <2>1, <2>2 DEF FreshSeen, LiveRound, LiveShown
<1>10. CASE PollAir
  <2>1. /\ pc = "air" /\ pc' = "cells"
        /\ airOnline' = [airOnline EXCEPT ![AirUnitOf(cl)] = airBit[AirUnitOf(cl)]]
        /\ airRow' = [airRow EXCEPT ![AirUnitOf(cl)] = airOnline'[AirUnitOf(cl)]]
        /\ UNCHANGED <<logic, dodi, stopped, clusterRow>>
    BY <1>4, <1>10 DEF PollAir, Stored, Goto
  <2>2. \A a \in AirUnit : airRow'[a] = airRow[a] \/ airRow'[a] = airBit[a]
    BY <2>1 DEF StackInv, TypeOK
  <2>. QED
    BY <1>1, <1>2, <1>3, <2>1, <2>2 DEF FreshSeen, LiveRound, LiveShown
<1>11. CASE ReadCells \/ CellsNotDue \/ StoreTemperatures
  <2>1. /\ pc \in {"cells", "temperatures"} /\ pc' \notin {"stack", "stop", "publish", "logic"}
        /\ UNCHANGED <<logic, dodi, stopped, clusterRow, airRow>>
    BY <1>11 DEF ReadCells, CellsNotDue, StoreTemperatures, Goto, NextCluster
  <2>2. LiveShown => LiveShown'
    BY <1>1, <1>2, <2>1 DEF LiveShown
  <2>3. pc' = "idle" => LiveShown'
    <3>1. SUFFICES ASSUME pc' = "idle" PROVE LiveShown'
      OBVIOUS
    <3>2. AllPassed'
      BY <1>3, <2>1, <3>1
    <3>3. /\ logic.comm = 0 /\ logic.epo = epoBit /\ dodi = epoBit /\ (stop = 1 => stopped)
          /\ \A a \in AirInUse : logic.air[a] = airBit[a]
      BY <2>1 DEF FreshSeen, FreshLive
    <3>. QED
      BY <1>1, <1>2, <2>1, <3>2, <3>3 DEF LiveShown, AllPassed, AirShown
  <2>. QED
    BY <1>1, <1>2, <1>3, <2>1, <2>2, <2>3 DEF FreshSeen, LiveRound
<1>12. CASE ClockTick
  <2>1. UNCHANGED <<pc, logic, dodi, stopped, clusterRow, airRow>>
    BY <1>12 DEF ClockTick, roundVars
  <2>. QED
    BY <1>1, <1>2, <1>3, <1>12, <2>1 DEF FreshSeen, LiveRound, LiveShown, ClockTick
<1>. QED
  BY <1>1, <1>5, <1>6, <1>7, <1>8, <1>9, <1>10, <1>11, <1>12, <1>13 DEF RoundStep

\* A behaviour without a step keeps what a round knows.
LEMMA LiveStands ==
  ASSUME UNCHANGED vars
  PROVE  (FreshLive => FreshLive') /\ (FreshSeen => FreshSeen')
BY DEF vars, roundVars, stackVars, hmiVars, batteryVars, FreshLive, FreshSeen, AirSeen, AirShown,
       AirInUse, AirUnitOf, Clamp, LeadsAirUnit, Quiet, Calm

\* Once nothing changes any more, the stack answers and the count of clusters was read, the
\* first round of Bamu that begins has the bits of all air units in use; one that begins
\* with them leaves every row of stack, clusters and air units and the stop order as they
\* should be, and no later one takes it back, for any number of clusters and of clusters to
\* an air unit.  LiveStackShown adds that rounds end.
THEOREM TwoLiveRoundsSuffice ==
  Spec => [](changes = Calm /\ link = "up" /\ pc = "idle" /\ batteryNumber = count
               => /\ [][FirstLiveRound]_vars
                  /\ AirSeen => [][LiveRound]_vars)
<1>1. CalmInv /\ changes = Calm /\ link = "up" /\ pc = "idle" /\ batteryNumber = count
        => FreshLive /\ (AirSeen => FreshSeen)
  BY DEF FreshLive, FreshSeen, Quiet, CalmInv
<1>2. ASSUME StackInv, FreshLive, [Next]_vars PROVE FreshLive' /\ [FirstLiveRound]_vars
  <2>1. AllPassed' => AirSeen'
    BY DEF AllPassed, AirSeen, AirShown
  <2>. QED
    BY <1>2, <2>1, FreshLiveStep, LiveStands DEF FirstLiveRound
<1>3. ASSUME StackInv, FreshSeen, [Next]_vars PROVE FreshSeen' /\ [LiveRound]_vars
  BY <1>3, FreshSeenStep, LiveStands
<1>. QED
  BY <1>1, <1>2, <1>3, CalmInit, CalmStep, InitInv, NextInv, PTL DEF Spec

------------------------------------------------------------------------------
(* The cells.                                                                *)

\* Until every cell in use is shown, the round takes the clusters that it has ahead for due,
\* and has the cells of those behind it in their rows.
CellsAhead ==
  /\ pc = "idle" => InUse \subseteq due
  /\ pc # "idle" => \A c \in InUse : c >= cl => c \in due
  /\ pc \in {"cluster", "air", "cells", "temperatures"} =>
       \A c \in 1 .. cl - 1, k \in Kind : CellShown(<<c, k>>)
  /\ pc = "temperatures" => CellShown(<<cl, "vol">>)

FreshCells ==
  /\ FreshLive
  /\ pc \in {"cluster", "air", "cells", "temperatures"} => cl \in InUse
  /\ pc = "temperatures" => cells[<<cl, "temp">>] = cell[<<cl, "temp">>]
  /\ CellsAhead \/ CellsShown

CellRound ==
  /\ pc # "idle" /\ pc' = "idle" => CellsShown'
  /\ CellsShown => CellsShown'

\* A flush of a cell that was read, with the database up, shows it, and touches no other.
LEMMA FlushShows ==
  ASSUME StackInv, SnapInv, NEW y \in Cell, FlushCell(y), dbUp, UNCHANGED cell,
         cells' \in [Cell -> CellValues \cup {Unread}], cells'[y] = cell[y]
  PROVE  CellShown(y)' /\ \A x \in Cell : CellShown(x) => CellShown(x)'
<1>1. PICK v \in IF Changed(y) THEN {cells'[y]} ELSE {cellRow[y]} :
        cellRow' = [cellRow EXCEPT ![y] = v]
  BY DEF FlushCell, Stored
<1>2. lost' = IF Changed(y) THEN lost \ {y} ELSE lost
  BY DEF FlushCell
<1>3. cellRow'[y] = v /\ \A x \in Cell : x # y => cellRow'[x] = cellRow[x]
  BY <1>1 DEF StackInv, TypeOK
<1>4. cellRow'[y] = cell[y] \/ y \in lost'
  <2>1. CASE Changed(y)
    BY <1>1, <1>3, <2>1
  <2>2. CASE ~Changed(y)
    <3>1. v = cellRow[y] /\ last[y] = cells'[y] /\ lost' = lost
      BY <1>1, <1>2, <2>2 DEF Changed
    <3>2. last[y] # NoSnap
      <4>1. cells'[y] \in CellValues \cup {Unread}
        OBVIOUS
      <4>. QED
        BY <3>1, <4>1, BoundsNat DEF Unread, NoSnap
    <3>. QED
      BY <1>3, <3>1, <3>2 DEF SnapInv
  <2>. QED
    BY <2>1, <2>2
<1>5. ASSUME NEW x \in Cell, CellShown(x), x # y PROVE CellShown(x)'
  BY <1>2, <1>3, <1>5 DEF CellShown
<1>. QED
  BY <1>4, <1>5 DEF CellShown

\* Cells stay shown while nothing is flushed.
LEMMA CellsStand ==
  ASSUME UNCHANGED <<cellRow, cell, lost, count>>
  PROVE  /\ \A x : CellShown(x)' <=> CellShown(x)
         /\ CellsShown' <=> CellsShown
BY DEF CellShown, CellsShown, InUse, Clamp

\* Each step of such a round knows what is said of the place it leads to.
LEMMA FreshCellsStep ==
  ASSUME StackInv, SnapInv, FreshCells, Next
  PROVE  FreshCells' /\ CellRound
<1>1. /\ RoundStep \/ ClockTick
      /\ UNCHANGED <<batteryNumber, stop, count, cell>>
  BY QuietSteps DEF FreshCells, FreshLive
<1>2. InUse' = InUse /\ InUse \subseteq Cluster
  <2>1. InUse' = InUse
    BY <1>1 DEF InUse, Clamp
  <2>2. Clamp(count) \in 1 .. MaxCluster
    BY BoundsNat, ClampIn DEF StackInv, TypeOK, Cluster
  <2>. QED
    BY <2>1, <2>2, BoundsNat DEF InUse, Cluster
<1>3. FreshLive'
  BY FreshLiveStep DEF FreshCells
<1>4. /\ dbUp /\ Answers = {TRUE} /\ batteryNumber = count
      /\ cl \in Cluster /\ cl \in Nat \ {0} /\ InUse \subseteq Nat /\ 1 \in InUse
      /\ Clamp(count) \in Nat \ {0}
  <2>1. Clamp(count) \in Nat \ {0}
    <3>1. count \in Int
      BY BoundsNat DEF StackInv, TypeOK
    <3>. QED
      BY <3>1, BoundsNat, ClampIn DEF Cluster
  <2>. QED
    BY <1>2, <2>1, BoundsNat DEF FreshCells, FreshLive, Quiet, Answers, StackInv, TypeOK, Cluster,
                                 InUse
<1>14. PICK n : n = cl
  OBVIOUS
<1>. DEFINE Around == UNCHANGED <<cellRow, lost>> /\ pc' # "temperatures"
<1>5. ASSUME Around, pc # "idle" => pc' # "idle", CellsAhead => CellsAhead',
             pc' \in {"cluster", "air", "cells", "temperatures"} => cl' \in InUse'
      PROVE  FreshCells' /\ CellRound
  <2>1. CellsShown' <=> CellsShown
    BY <1>1, <1>5, CellsStand
  <2>2. CellRound
    BY <1>5, <2>1 DEF CellRound
  <2>3. pc' # "temperatures"
    BY <1>5
  <2>. QED
    BY <1>3, <1>5, <2>1, <2>2, <2>3 DEF FreshCells
<1>. HIDE DEF Around
<1>6. CASE BeginRound
  <2>1. Around /\ pc = "idle" /\ pc' = "stack" /\ cl' = 1 /\ UNCHANGED due
    BY <1>4, <1>6 DEF BeginRound, DbStep, Goto, cellVars, Around
  <2>. QED
    BY <1>2, <1>5, <2>1 DEF CellsAhead
<1>7. CASE PollStack \/ StopOrdered \/ PublishStack \/ WriteLogic
  <2>1. /\ Around /\ pc # "idle" /\ pc' \in {"stop", "publish", "logic", "dodi"}
        /\ UNCHANGED <<cl, due>>
    BY <1>4, <1>7 DEF PollStack, StopOrdered, PublishStack, WriteLogic, DbStep, Goto, cellVars,
                      Around
  <2>. QED
    BY <1>2, <1>5, <2>1 DEF CellsAhead
<1>8. CASE WriteDodi
  <2>1. Around /\ pc = "dodi" /\ pc' = "cluster" /\ UNCHANGED <<cl, due>> /\ cl = 1
    BY <1>4, <1>8 DEF WriteDodi, DbStep, cellVars, Around, FreshCells, FreshLive
  <2>2. \A c \in 1 .. cl' - 1 : FALSE
    BY <2>1
  <2>. QED
    BY <1>2, <1>4, <1>5, <2>1, <2>2 DEF CellsAhead
<1>9. CASE PollCluster \/ PollAir
  <2>1. /\ Around /\ pc \in {"cluster", "air"} /\ pc' \in {"air", "cells"}
        /\ UNCHANGED <<cl, due, cellRow, lost>>
    BY <1>4, <1>9 DEF PollCluster, PollAir, Goto, cellVars, Around, FreshCells, FreshLive
  <2>2. \A x : CellShown(x)' <=> CellShown(x)
    BY <1>1, <2>1, CellsStand
  <2>3. ASSUME CellsAhead PROVE CellsAhead'
    BY <1>2, <2>1, <2>2, <2>3 DEF CellsAhead
  <2>4. cl' \in InUse'
    BY <1>2, <2>1 DEF FreshCells
  <2>5. CellsAhead => CellsAhead'
    BY <2>3
  <2>. QED
    BY <1>5, <2>1, <2>4, <2>5
<1>10. CASE ReadCells
  <2>. DEFINE y == <<n, "vol">>
  <2>1. /\ pc = "cells" /\ pc' = "temperatures" /\ UNCHANGED <<cl, due>> /\ cl' = n
        /\ FlushCell(y)
        /\ cells' = BlocksRead([k \in Kind |-> TRUE])
    BY <1>4, <1>10, <1>14 DEF ReadCells, FlushThrows, Goto
  <2>2. y \in Cell /\ <<n, "temp">> \in Cell
    BY <1>4, <1>14 DEF Cell, Kind
  <2>3. /\ cells' \in [Cell -> CellValues \cup {Unread}]
        /\ cells'[<<n, "vol">>] = cell[<<n, "vol">>]
        /\ cells'[<<n, "temp">>] = cell[<<n, "temp">>]
    BY <1>14, <2>1, <2>2 DEF BlocksRead, StackInv, TypeOK, Kind
  <2>4. CellShown(y)' /\ \A x \in Cell : CellShown(x) => CellShown(x)'
    BY <1>1, <1>4, <2>1, <2>2, <2>3, FlushShows
  <2>5. CellsShown => CellsShown'
    BY <1>2, <2>4 DEF CellsShown, Cell
  <2>6. ASSUME CellsAhead PROVE CellsAhead'
    <3>1. \A c \in 1 .. n - 1, k \in Kind : <<c, k>> \in Cell /\ CellShown(<<c, k>>)
      <4>1. \A c \in 1 .. n - 1 : c \in Cluster
        BY <1>4, <1>14, BoundsNat DEF Cluster
      <4>. QED
        BY <1>14, <2>1, <2>6, <4>1 DEF CellsAhead, Cell
    <3>2. \A c \in 1 .. n - 1, k \in Kind : CellShown(<<c, k>>)'
      BY <2>4, <3>1
    <3>3. \A c \in InUse' : c >= n => c \in due'
      BY <1>2, <1>14, <2>1, <2>6 DEF CellsAhead
    <3>. QED
      BY <2>1, <2>4, <3>2, <3>3 DEF CellsAhead
  <2>7. cl' \in InUse'
    BY <1>2, <2>1 DEF FreshCells
  <2>8. cells'[<<cl, "temp">>'] = (cell[<<cl, "temp">>])'
    BY <1>1, <2>1, <2>3
  <2>. QED
    BY <1>3, <2>1, <2>5, <2>6, <2>7, <2>8 DEF FreshCells, CellRound
<1>15. ASSUME NextCluster PROVE (pc' = "cluster" /\ cl' \in InUse') \/ pc' = "idle"
  <2>1. CASE cl < Clamp(batteryNumber)
    <3>1. pc' = "cluster" /\ cl' = cl + 1 /\ cl < Clamp(count)
      BY <1>4, <1>15, <2>1 DEF NextCluster
    <3>2. cl + 1 \in InUse
      BY <1>4, <3>1 DEF InUse
    <3>. QED
      BY <1>2, <3>1, <3>2
  <2>2. CASE ~(cl < Clamp(batteryNumber))
    BY <1>15, <2>2 DEF NextCluster
  <2>. QED
    BY <2>1, <2>2
<1>11. CASE CellsNotDue
  <2>1. /\ pc = "cells" /\ cl \notin due /\ NextCluster
        /\ UNCHANGED <<cellRow, lost, due>>
    BY <1>11 DEF CellsNotDue, cellVars
  <2>2. CellsShown
    BY <1>4, <2>1 DEF FreshCells, CellsAhead
  <2>. QED
    BY <1>1, <1>3, <1>15, <2>1, <2>2, CellsStand DEF FreshCells, CellRound
<1>12. CASE StoreTemperatures
  <2>. DEFINE y == <<n, "temp">>
  <2>1. /\ pc = "temperatures" /\ NextCluster /\ UNCHANGED cells
        /\ due' = due \ {n} /\ FlushCell(y)
    BY <1>4, <1>12, <1>14 DEF StoreTemperatures, FlushThrows
  <2>2. y \in Cell /\ cells' \in [Cell -> CellValues \cup {Unread}] /\ cells'[y] = cell[y]
    BY <1>4, <1>14, <2>1 DEF Cell, Kind, StackInv, TypeOK, FreshCells
  <2>3. CellShown(y)' /\ \A x \in Cell : CellShown(x) => CellShown(x)'
    BY <1>1, <1>4, <2>1, <2>2, FlushShows
  <2>4. CellsShown => CellsShown'
    BY <1>2, <2>3 DEF CellsShown, Cell
  <2>5. CASE CellsShown
    BY <1>3, <1>15, <2>1, <2>4, <2>5 DEF FreshCells, CellRound
  <2>6. CASE CellsAhead
    <3>1. \A c \in 1 .. n, k \in Kind : CellShown(<<c, k>>)'
      <4>1. SUFFICES ASSUME NEW c \in 1 .. n, NEW k \in Kind PROVE CellShown(<<c, k>>)'
        OBVIOUS
      <4>2. <<c, k>> \in Cell
        BY <1>4, <1>14, BoundsNat DEF Cluster, Cell
      <4>3. CASE c \in 1 .. n - 1
        BY <1>14, <2>1, <2>3, <2>6, <4>2, <4>3 DEF CellsAhead
      <4>4. CASE c = n /\ k = "vol"
        BY <1>14, <2>1, <2>3, <2>6, <4>2, <4>4 DEF CellsAhead
      <4>5. CASE c = n /\ k = "temp"
        BY <2>3, <4>5
      <4>. QED
        BY <1>4, <1>14, <4>3, <4>4, <4>5 DEF Kind
    <3>2. \/ pc' = "cluster" /\ cl' = n + 1
          \/ pc' = "idle" /\ \A c \in InUse : c \in 1 .. n
      BY <1>4, <1>14, <2>1, NextInUse
    <3>3. CASE pc' = "cluster" /\ cl' = n + 1
      <4>1. cl' - 1 = n /\ \A c \in InUse : c >= n + 1 => c >= n /\ c # n
        BY <1>4, <1>14, <3>3
      <4>2. \A c \in InUse' : c >= cl' => c \in due'
        BY <1>2, <1>14, <2>1, <2>6, <3>3, <4>1 DEF CellsAhead
      <4>3. CellsAhead'
        BY <3>1, <3>3, <4>1, <4>2 DEF CellsAhead
      <4>. QED
        BY <1>3, <1>15, <2>1, <2>4, <3>3, <4>3 DEF FreshCells, CellRound
    <3>4. CASE pc' = "idle" /\ \A c \in InUse : c \in 1 .. n
      <4>1. CellsShown'
        BY <1>2, <3>1, <3>4 DEF CellsShown
      <4>. QED
        BY <1>3, <3>4, <4>1 DEF FreshCells, CellRound
    <3>. QED
      BY <3>2, <3>3, <3>4
  <2>. QED
    BY <2>5, <2>6 DEF FreshCells
<1>13. CASE ClockTick
  <2>1. Around /\ pc = "idle" /\ pc' = "idle" /\ due' = Cluster
    BY <1>13 DEF ClockTick, roundVars, cellVars, Around
  <2>. QED
    BY <1>2, <1>5, <2>1 DEF CellsAhead
<1>. QED
  BY <1>1, <1>6, <1>7, <1>8, <1>9, <1>10, <1>11, <1>12, <1>13 DEF RoundStep

\* A behaviour without a step keeps what a round knows of the cells.
LEMMA CellsLie ==
  ASSUME UNCHANGED vars, FreshCells
  PROVE  FreshCells'
BY LiveStands, CellsStand
   DEF vars, roundVars, cellVars, hmiVars, batteryVars, FreshCells, CellsAhead, CellShown, InUse,
       Clamp

\* Once nothing changes any more, the stack answers and the count of clusters was read, a
\* round that begins with the cells of all clusters in use due leaves each of them in its
\* row or among those whose last statement failed, and no later one takes it back, although
\* a cell is compared with what was handed over and never with the row.  CellsStored adds
\* that such rounds come.
THEOREM CellRoundSuffices ==
  Spec => [](changes = Calm /\ link = "up" /\ pc = "idle" /\ batteryNumber = count
                 /\ InUse \subseteq due
               => [][CellRound]_vars)
<1>1. CalmInv /\ changes = Calm /\ link = "up" /\ pc = "idle" /\ batteryNumber = count
          /\ InUse \subseteq due
        => FreshCells
  BY DEF FreshCells, FreshLive, CellsAhead, Quiet, CalmInv
<1>2. ASSUME StackInv, SnapInv, FreshCells, [Next]_vars PROVE FreshCells' /\ [CellRound]_vars
  BY <1>2, FreshCellsStep, CellsLie
<1>3. Init => SnapInv
  BY DEF Init, SnapInv
<1>. QED
  BY <1>1, <1>2, <1>3, CalmInit, CalmStep, InitInv, NextInv, SnapStep, PTL DEF Spec
=============================================================================
