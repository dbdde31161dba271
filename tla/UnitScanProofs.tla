--------------------------- MODULE UnitScanProofs ---------------------------
(***************************************************************************)
(* Theorems of module UnitScan, for any number of scanners and units, any  *)
(* limit and any addresses: no readings of one unit in another's table,    *)
(* and who is declared offline, or taken back, on what evidence.           *)
(***************************************************************************)
EXTENDS UnitScan, TLAPS

\* What TypeOK leaves open: these are functions over all scanners and units.
Shapes ==
  /\ n \in [Scanners -> Nat] /\ unit \in [Scanners -> Nat] /\ cache \in [Scanners -> Nat]
  /\ data \in [Unit -> Nat]

\* A scanner that got an answer from its unit has counted no failure of it, and has
\* nothing in its caches but what that unit answered since.
Heard(s) ==
  pc[s] \in {"clearAlarm", "read", "write"} =>
    cache[s] \in {0, unit[s]} /\ errs[Here(s)] = 0

\* Before a scanner stores a verdict in com_alarm, it has stored it in the unit's Online row.
Shown(s) == pc[s] = "failAlarm" => online[Here(s)] = Offline(errs[Here(s)])

\* Between two rounds a scanner is at its first unit.
Rewound(s) == pc[s] = "idle" => unit[s] = 1

ScanInv ==
  /\ TypeOK /\ Shapes
  /\ \A s \in Scanners : Heard(s) /\ Shown(s) /\ Rewound(s)
  /\ NoResidue
  /\ missed = errs

------------------------------------------------------------------------------

LEMMA CapNat == ASSUME NEW s \in Scanners PROVE Cap[s] \in Nat \ {0}
BY ScanAssumption DEF ScanAssumption

LEMMA UnitIs ==
  ASSUME NEW s, NEW u
  PROVE  <<s, u>> \in Unit <=> s \in Scanners /\ u \in 1 .. Cap[s]
BY DEF Unit, UnitsOf

LEMMA UnitParts ==
  ASSUME NEW x \in Unit
  PROVE  x = <<x[1], x[2]>> /\ x[1] \in Scanners /\ x[2] \in 1 .. Cap[x[1]]
<1>1. x = <<x[1], x[2]>>
  BY DEF Unit
<1> QED
  BY <1>1, UnitIs

\* The unit a scanner is at is one of its units, with a row of com_alarm.
LEMMA HereUnit ==
  ASSUME ScanInv, NEW s \in Scanners
  PROVE  Here(s) \in Unit /\ Addr(Here(s)) \in Addresses /\ Here(s)[1] = s /\ Here(s)[2] = unit[s]
<1>1. unit[s] \in 1 .. Cap[s]
  BY DEF ScanInv, TypeOK, UnitsOf
<1>2. Here(s) \in Unit
  BY <1>1, UnitIs DEF Here
<1> QED
  BY <1>2 DEF Here, Addresses

\* Two scanners are never at the same unit.
LEMMA OwnUnits ==
  ASSUME NEW s \in Scanners, NEW t \in Scanners, s # t PROVE Here(s) # Here(t)
BY DEF Here

\* Scanner s went on to a place in its round where its unit is one it scans.
Moved(s, places) ==
  /\ pc' \in [Scanners -> PC] /\ unit' \in [Scanners -> Nat]
  /\ pc'[s] \in places
  /\ unit'[s] \in UnitsOf(s)
  /\ IF pc'[s] = "idle" THEN unit'[s] = 1 ELSE unit'[s] <= n'[s]
  /\ \A t \in Scanners \ {s} : pc'[t] = pc[t] /\ unit'[t] = unit[t]

LEMMA NextUnitMoves ==
  ASSUME ScanInv, NEW s \in Scanners, ~At(s, "idle"), UNCHANGED n, NextUnit(s) \/ Thrown(s)
  PROVE  Moved(s, {"idle", "probe"})
<1>1. /\ pc \in [Scanners -> PC] /\ unit \in [Scanners -> Nat] /\ n \in [Scanners -> Nat]
      /\ unit[s] \in 1 .. Cap[s] /\ n[s] \in 0 .. Cap[s] /\ Cap[s] \in Nat \ {0}
  BY CapNat DEF ScanInv, TypeOK, Shapes, UnitsOf
<1>2. CASE unit[s] < n[s] /\ NextUnit(s)
  BY <1>1, <1>2 DEF NextUnit, Goto, Moved, UnitsOf, PC
<1>3. CASE ~(unit[s] < n[s]) /\ NextUnit(s)
  BY <1>1, <1>3 DEF NextUnit, Goto, Moved, UnitsOf, PC
<1>4. CASE Thrown(s)
  BY <1>1, <1>4 DEF Thrown, Goto, Moved, UnitsOf, PC
<1> QED
  BY <1>2, <1>3, <1>4

LEMMA GotoMoves ==
  ASSUME ScanInv, NEW s \in Scanners, ~At(s, "idle"), UNCHANGED <<n, unit>>,
         NEW p \in PC \ {"idle"}, Goto(s, p)
  PROVE  Moved(s, {p})
BY DEF ScanInv, TypeOK, Shapes, At, Goto, Moved

\* The rest of the invariant is kept by a step that only moves s on and writes rows.
LEMMA MovedKeeps ==
  ASSUME ScanInv, NEW s \in Scanners, NEW places, Moved(s, places),
         UNCHANGED <<n, cache, errs, count, dbUp, answering, missed, restarts>>,
         online' \in [Unit -> {0, 1}], alarm' \in [Addresses -> {0, 1}],
         \A x \in Unit : x # Here(s) => online'[x] = online[x],
         data' \in [Unit -> Nat], NoResidue', Heard(s)', Shown(s)'
  PROVE  ScanInv'
<1>1. TypeOK'
  <2>1. \A x \in Unit : data'[x] \in 0 .. Cap[x[1]]
    <3> SUFFICES ASSUME NEW x \in Unit PROVE data'[x] \in 0 .. Cap[x[1]]
      OBVIOUS
    <3>1. data'[x] \in {0, x[2]}
      BY DEF NoResidue
    <3> QED
      BY <3>1, UnitParts, CapNat
  <2>2. \A t \in Scanners : /\ n'[t] \in 0 .. Cap[t] /\ cache'[t] \in 0 .. Cap[t]
                            /\ unit'[t] \in UnitsOf(t)
                            /\ pc'[t] # "idle" => unit'[t] <= n'[t]
    BY DEF ScanInv, TypeOK, Moved
  <2> QED
    BY <2>1, <2>2 DEF ScanInv, TypeOK, Moved
<1>2. Shapes'
  BY DEF ScanInv, Shapes, Moved
<1>3. ASSUME NEW t \in Scanners PROVE Heard(t)' /\ Shown(t)' /\ Rewound(t)'
  <2>1. CASE t = s
    BY <2>1 DEF Moved, Rewound
  <2>2. CASE t # s
    <3>1. Here(t) \in Unit /\ Here(t) # Here(s)
      BY <2>2, HereUnit, OwnUnits
    <3>2. Here(t)' = Here(t) /\ pc'[t] = pc[t] /\ online'[Here(t)] = online[Here(t)]
      BY <2>2, <3>1 DEF Moved, Here
    <3>3. Shown(t)'
      BY <3>2 DEF ScanInv, Shown
    <3> QED
      BY <2>2, <3>2, <3>3 DEF ScanInv, Heard, Rewound, Moved, Here
  <2> QED
    BY <2>1, <2>2
<1> QED
  BY <1>1, <1>2, <1>3 DEF ScanInv

------------------------------------------------------------------------------

LEMMA InitInv == Init => ScanInv
<1> SUFFICES ASSUME Init PROVE ScanInv
  OBVIOUS
<1> USE DEF Init
<1>1. \A s \in Scanners : Cap[s] \in Nat \ {0}
  BY CapNat
<1>2. \A x \in Unit : x[1] \in Scanners /\ Cap[x[1]] \in Nat \ {0}
  BY UnitParts, CapNat
<1>3. TypeOK
  BY <1>1, <1>2, ScanAssumption DEF TypeOK, PC, UnitsOf, ScanAssumption
<1> QED
  BY <1>3 DEF ScanInv, Shapes, Heard, Shown, Rewound, NoResidue

LEMMA BeginRoundKeeps ==
  ASSUME ScanInv, NEW s \in Scanners, BeginRound(s) PROVE ScanInv'
<1> USE DEF BeginRound
<1>1. Scanned(s, count[s]) \in 1 .. Cap[s] /\ Cap[s] \in Nat
  <2>1. count[s] \in Int
    BY ScanAssumption DEF ScanInv, TypeOK, ScanAssumption
  <2> QED
    BY <2>1, CapNat DEF Scanned
<1>2. unit[s] = 1
  BY DEF ScanInv, Rewound, At
<1>3. /\ n' \in [Scanners -> Nat] /\ n'[s] \in 1 .. Cap[s]
      /\ pc' \in [Scanners -> PC] /\ pc'[s] = "probe"
      /\ \A t \in Scanners \ {s} : n'[t] = n[t] /\ pc'[t] = pc[t]
  BY <1>1 DEF ScanInv, TypeOK, Shapes, Goto, PC
<1>4. TypeOK'
  <2>1. \A t \in Scanners : /\ n'[t] \in 0 .. Cap[t] /\ cache'[t] \in 0 .. Cap[t]
                            /\ unit'[t] \in UnitsOf(t)
                            /\ pc'[t] # "idle" => unit'[t] <= n'[t]
    BY <1>2, <1>3 DEF ScanInv, TypeOK
  <2> QED
    BY <1>3, <2>1 DEF ScanInv, TypeOK, rowVars
<1>5. Shapes'
  BY <1>3 DEF ScanInv, Shapes, rowVars
<1>6. \A t \in Scanners : Heard(t)' /\ Shown(t)' /\ Rewound(t)'
  BY <1>3 DEF ScanInv, Heard, Shown, Rewound, Here, rowVars
<1>7. NoResidue'
  BY DEF ScanInv, NoResidue, rowVars
<1> QED
  BY <1>4, <1>5, <1>6, <1>7 DEF ScanInv

LEMMA ProbeUnitKeeps ==
  ASSUME ScanInv, NEW s \in Scanners, ProbeUnit(s) PROVE ScanInv'
<1> USE DEF ProbeUnit
<1>1. Here(s) \in Unit
  BY HereUnit
<1>2. errs[Here(s)] \in 0 .. Limit + 1 /\ Limit \in Nat
  BY <1>1, ScanAssumption DEF ScanInv, TypeOK, ScanAssumption
<1>3. ErrsAfter(errs[Here(s)], Here(s) \in answering) \in 0 .. Limit + 1
  BY <1>2 DEF ErrsAfter, Failed
<1>4. /\ errs' \in [Unit -> 0 .. Limit + 1]
      /\ \A x \in Unit : x # Here(s) => errs'[x] = errs[x]
      /\ Here(s) \in answering => errs'[Here(s)] = 0
      /\ missed' = errs'
  <2>1. PICK e : /\ e = ErrsAfter(errs[Here(s)], Here(s) \in answering)
                 /\ errs' = [errs EXCEPT ![Here(s)] = e]
    OBVIOUS
  <2>2. e \in 0 .. Limit + 1 /\ (Here(s) \in answering => e = 0)
    BY <1>3, <2>1 DEF ErrsAfter
  <2>3. missed' = [errs EXCEPT ![Here(s)] = e]
    <3>1. missed = errs
      BY DEF ScanInv
    <3>2. PICK k : /\ k = (IF Here(s) \in answering THEN 0
                            ELSE IF missed[Here(s)] <= Limit THEN missed[Here(s)] + 1
                                                             ELSE missed[Here(s)])
                   /\ missed' = [missed EXCEPT ![Here(s)] = k]
      OBVIOUS
    <3>3. k = e
      BY <1>2, <2>1, <3>1, <3>2 DEF ErrsAfter, Failed
    <3> QED
      BY <3>1, <3>2, <3>3
  <2>4. errs \in [Unit -> 0 .. Limit + 1]
    BY DEF ScanInv, TypeOK
  <2> HIDE DEF ProbeUnit
  <2> QED
    BY <1>1, <2>1, <2>2, <2>3, <2>4
<1>5. /\ pc' \in [Scanners -> PC]
      /\ pc'[s] = IF Here(s) \in answering THEN "clearAlarm" ELSE "failOnline"
      /\ \A t \in Scanners \ {s} : pc'[t] = pc[t]
  BY DEF ScanInv, TypeOK, Goto, PC
<1>6. /\ cache' \in [Scanners -> Nat] /\ cache'[s] = 0
      /\ \A t \in Scanners \ {s} : cache'[t] = cache[t]
  BY DEF ScanInv, Shapes, Cleared
<1>7. TypeOK'
  <2>1. \A t \in Scanners : /\ n'[t] \in 0 .. Cap[t] /\ cache'[t] \in 0 .. Cap[t]
                            /\ unit'[t] \in UnitsOf(t)
                            /\ pc'[t] # "idle" => unit'[t] <= n'[t]
    BY <1>5, <1>6, CapNat DEF ScanInv, TypeOK, At
  <2> QED
    BY <1>4, <1>5, <2>1 DEF ScanInv, TypeOK, rowVars
<1>8. Shapes'
  BY <1>6 DEF ScanInv, Shapes, rowVars
<1>9. ASSUME NEW t \in Scanners PROVE Heard(t)' /\ Shown(t)' /\ Rewound(t)'
  <2>1. CASE t = s
    BY <1>4, <1>5, <1>6, <2>1 DEF Heard, Shown, Rewound, Here
  <2>2. CASE t # s
    <3>1. Here(t) \in Unit /\ Here(t) # Here(s)
      BY <2>2, HereUnit, OwnUnits
    <3> QED
      BY <1>4, <1>5, <1>6, <2>2, <3>1 DEF ScanInv, Heard, Shown, Rewound, Here, rowVars
  <2> QED
    BY <2>1, <2>2
<1>10. NoResidue'
  BY DEF ScanInv, NoResidue, rowVars
<1> QED
  BY <1>4, <1>7, <1>8, <1>9, <1>10 DEF ScanInv

\* A statement that is carried out or not leaves a row with a value of a row.
LEMMA StoredIn ==
  ASSUME NEW S, NEW old \in S, NEW v \in S, NEW w \in Stored(old, v) PROVE w \in S
BY DEF Stored

LEMMA OfflineBit == ASSUME NEW e PROVE Offline(e) \in {0, 1}
BY DEF Offline

LEMMA FailOnlineKeeps ==
  ASSUME ScanInv, NEW s \in Scanners, FailOnline(s) PROVE ScanInv'
<1> USE DEF FailOnline
<1>1. Here(s) \in Unit
  BY HereUnit
<1>2. online' \in [Unit -> {0, 1}]
  <2>1. PICK v \in Stored(online[Here(s)], Offline(errs[Here(s)])) :
          online' = [online EXCEPT ![Here(s)] = v]
    OBVIOUS
  <2>2. v \in {0, 1}
    BY <1>1, StoredIn, OfflineBit DEF ScanInv, TypeOK
  <2> QED
    BY <1>1, <2>1, <2>2 DEF ScanInv, TypeOK
<1>3. Moved(s, {"idle", "failAlarm", "probe"})
  <2>1. CASE dbUp
    BY <2>1, GotoMoves DEF At, Moved, PC
  <2>2. CASE ~dbUp
    BY <2>2, NextUnitMoves DEF At, Moved
  <2> QED
    BY <2>1, <2>2
<1>4. Heard(s)'
  BY <1>3 DEF Moved, Heard
<1>5. Shown(s)'
  <2>1. CASE dbUp
    BY <1>1, <2>1 DEF Stored, Shown, Here, ScanInv, TypeOK
  <2>2. CASE ~dbUp
    BY <2>2 DEF Thrown, Goto, Shown, ScanInv, TypeOK
  <2> QED
    BY <2>1, <2>2
<1>6. \A x \in Unit : x # Here(s) => online'[x] = online[x]
  BY DEF ScanInv, TypeOK
<1> QED
  BY <1>2, <1>3, <1>4, <1>5, <1>6, MovedKeeps DEF ScanInv, TypeOK, Shapes, NoResidue

LEMMA FailAlarmKeeps ==
  ASSUME ScanInv, NEW s \in Scanners, FailAlarm(s) PROVE ScanInv'
<1> USE DEF FailAlarm
<1>1. Addr(Here(s)) \in Addresses
  BY HereUnit
<1>2. alarm' \in [Addresses -> {0, 1}]
  <2>1. PICK v \in Stored(alarm[Addr(Here(s))], Offline(errs[Here(s)])) :
          alarm' = [alarm EXCEPT ![Addr(Here(s))] = v]
    OBVIOUS
  <2>2. v \in {0, 1}
    BY <1>1, StoredIn, OfflineBit DEF ScanInv, TypeOK
  <2> QED
    BY <1>1, <2>1, <2>2 DEF ScanInv, TypeOK
<1>3. Moved(s, {"idle", "probe"})
  BY NextUnitMoves DEF At
<1>4. Heard(s)' /\ Shown(s)'
  BY <1>3 DEF Moved, Heard, Shown
<1> QED
  BY <1>2, <1>3, <1>4, MovedKeeps DEF ScanInv, TypeOK, Shapes, NoResidue

LEMMA ClearComAlarmKeeps ==
  ASSUME ScanInv, NEW s \in Scanners, ClearComAlarm(s) PROVE ScanInv'
<1> USE DEF ClearComAlarm
<1>1. Addr(Here(s)) \in Addresses
  BY HereUnit
<1>2. alarm' \in [Addresses -> {0, 1}]
  <2>1. PICK v \in Stored(alarm[Addr(Here(s))], 0) : alarm' = [alarm EXCEPT ![Addr(Here(s))] = v]
    OBVIOUS
  <2>2. v \in {0, 1}
    BY <1>1, StoredIn DEF ScanInv, TypeOK
  <2> QED
    BY <1>1, <2>1, <2>2 DEF ScanInv, TypeOK
<1>3. Moved(s, {"idle", "read", "probe"})
  <2>1. CASE dbUp
    BY <2>1, GotoMoves DEF At, Moved, PC
  <2>2. CASE ~dbUp
    BY <2>2, NextUnitMoves DEF At, Moved
  <2> QED
    BY <2>1, <2>2
<1>4. Heard(s)'
  <2>1. CASE dbUp
    <3>1. Heard(s) /\ At(s, "clearAlarm")
      BY DEF ScanInv
    <3> QED
      BY <2>1, <3>1 DEF Heard, At, Here
  <2>2. CASE ~dbUp
    BY <2>2 DEF Thrown, Goto, Heard, ScanInv, TypeOK
  <2> QED
    BY <2>1, <2>2
<1>5. Shown(s)'
  BY <1>3 DEF Moved, Shown
<1> QED
  BY <1>2, <1>3, <1>4, <1>5, MovedKeeps DEF ScanInv, TypeOK, Shapes, NoResidue

LEMMA ReadFieldsKeeps ==
  ASSUME ScanInv, NEW s \in Scanners, ReadFields(s) PROVE ScanInv'
<1> USE DEF ReadFields
<1>1. /\ pc' \in [Scanners -> PC] /\ pc'[s] = "write" /\ pc[s] = "read"
      /\ \A t \in Scanners \ {s} : pc'[t] = pc[t]
  BY DEF ScanInv, TypeOK, Goto, At, PC
<1>2. unit[s] \in 1 .. Cap[s] /\ Cap[s] \in Nat
  BY CapNat DEF ScanInv, TypeOK, UnitsOf
<1>3. /\ cache' \in [Scanners -> Nat]
      /\ cache'[s] \in {0, unit[s]} \cap 0 .. Cap[s]
      /\ \A t \in Scanners \ {s} : cache'[t] = cache[t]
  BY <1>1, <1>2 DEF ScanInv, TypeOK, Shapes, Heard
<1>4. TypeOK'
  <2>1. \A t \in Scanners : /\ n'[t] \in 0 .. Cap[t] /\ cache'[t] \in 0 .. Cap[t]
                            /\ unit'[t] \in UnitsOf(t)
                            /\ pc'[t] # "idle" => unit'[t] <= n'[t]
    BY <1>1, <1>3 DEF ScanInv, TypeOK
  <2> QED
    BY <1>1, <2>1 DEF ScanInv, TypeOK, rowVars
<1>5. Shapes'
  BY <1>3 DEF ScanInv, Shapes, rowVars
<1>6. \A t \in Scanners : Heard(t)' /\ Shown(t)' /\ Rewound(t)'
  BY <1>1, <1>3 DEF ScanInv, Heard, Shown, Rewound, Here, rowVars
<1>7. NoResidue'
  BY DEF ScanInv, NoResidue, rowVars
<1> QED
  BY <1>4, <1>5, <1>6, <1>7 DEF ScanInv

LEMMA WriteRealtimeKeeps ==
  ASSUME ScanInv, NEW s \in Scanners, WriteRealtime(s) PROVE ScanInv'
<1> USE DEF WriteRealtime
<1>1. Here(s) \in Unit /\ Here(s)[2] = unit[s]
  BY HereUnit
<1>2. cache[s] \in {0, unit[s]} /\ cache[s] \in Nat
  BY DEF ScanInv, Heard, At, Shapes
<1>3. PICK stored \in BOOLEAN :
        /\ data' = IF stored THEN [data EXCEPT ![Here(s)] = cache[s]] ELSE data
        /\ online' = IF stored THEN [online EXCEPT ![Here(s)] = 0] ELSE online
  OBVIOUS
<1>4. online' \in [Unit -> {0, 1}] /\ data' \in [Unit -> Nat]
  BY <1>1, <1>2, <1>3 DEF ScanInv, TypeOK, Shapes
<1>5. NoResidue'
  BY <1>1, <1>2, <1>3 DEF ScanInv, NoResidue, Shapes
<1>6. Moved(s, {"idle", "probe"})
  BY NextUnitMoves DEF At
<1>7. Heard(s)' /\ Shown(s)'
  BY <1>6 DEF Moved, Heard, Shown
<1>8. \A x \in Unit : x # Here(s) => online'[x] = online[x]
  BY <1>3 DEF ScanInv, TypeOK
<1> QED
  BY <1>4, <1>5, <1>6, <1>7, <1>8, MovedKeeps DEF ScanInv, TypeOK

LEMMA StepKeeps == ASSUME ScanInv, NEW s \in Scanners, Step(s) PROVE ScanInv'
BY BeginRoundKeeps, ProbeUnitKeeps, FailOnlineKeeps, FailAlarmKeeps, ClearComAlarmKeeps,
   ReadFieldsKeeps, WriteRealtimeKeeps DEF Step

LEMMA NextInv == ScanInv /\ [Next]_vars => ScanInv'
<1> SUFFICES ASSUME ScanInv, [Next]_vars PROVE ScanInv'
  OBVIOUS
<1>1. CASE \E s \in Scanners : Step(s)
  BY <1>1, StepKeeps
<1>2. CASE Restart
  <2>1. /\ \A s \in Scanners : Cap[s] \in Nat \ {0}
        /\ restarts + 1 \in 0 .. MaxRestarts
        /\ Limit \in Nat
    BY <1>2, CapNat, ScanAssumption DEF Restart, ScanInv, TypeOK, ScanAssumption
  <2>2. TypeOK'
    BY <1>2, <2>1 DEF Restart, ScanInv, TypeOK, PC, UnitsOf, rowVars
  <2> QED
    BY <1>2, <2>2 DEF Restart, ScanInv, Shapes, Heard, Shown, Rewound, NoResidue, rowVars
<1>3. CASE EditCount
  <2>1. TypeOK'
    BY <1>3 DEF EditCount, ScanInv, TypeOK, roundVars, rowVars
  <2> QED
    BY <1>3, <2>1 DEF EditCount, ScanInv, Shapes, Heard, Shown, Rewound, Here, NoResidue, roundVars, rowVars
<1>4. CASE DatabaseLink
  <2>1. TypeOK'
    BY <1>4 DEF DatabaseLink, ScanInv, TypeOK, roundVars, rowVars
  <2> QED
    BY <1>4, <2>1 DEF DatabaseLink, ScanInv, Shapes, Heard, Shown, Rewound, Here, NoResidue, roundVars, rowVars
<1>5. CASE UnitLink
  <2>1. TypeOK'
    BY <1>5 DEF UnitLink, ScanInv, TypeOK, roundVars, rowVars
  <2> QED
    BY <1>5, <2>1 DEF UnitLink, ScanInv, Shapes, Heard, Shown, Rewound, Here, NoResidue, roundVars, rowVars
<1>6. CASE UNCHANGED vars
  <2>1. TypeOK'
    BY <1>6 DEF vars, ScanInv, TypeOK, roundVars, rowVars
  <2> QED
    BY <1>6, <2>1 DEF vars, ScanInv, Shapes, Heard, Shown, Rewound, Here, NoResidue, roundVars, rowVars
<1> QED
  BY <1>1, <1>2, <1>3, <1>4, <1>5, <1>6 DEF Next

LEMMA AlwaysScanInv == Spec => []ScanInv
BY InitInv, NextInv, PTL DEF Spec

------------------------------------------------------------------------------

\* The scanners' state always has its type: in a round a scanner is at a unit that the
\* HMI asks for and the tables have room for.
THEOREM TypeCorrect == Spec => []TypeOK
<1>1. ScanInv => TypeOK
  BY DEF ScanInv
<1> QED
  BY <1>1, AlwaysScanInv, PTL

\* pollOneGenset and pollOneInverter never store one unit's readings as another's.
THEOREM ReadingsStayApart == Spec => []NoResidue
<1>1. ScanInv => NoResidue
  BY DEF ScanInv
<1> QED
  BY <1>1, AlwaysScanInv, PTL

------------------------------------------------------------------------------

\* The Online row of a unit turns to offline in its own failure branch only, on what it
\* has itself left unanswered.
LEMMA OnlineRaised ==
  ASSUME ScanInv, [Next]_vars, NEW x \in Unit, online[x] = 0, online'[x] = 1
  PROVE  missed[x] > Limit
<1>1. ASSUME NEW s \in Scanners, FailOnline(s) PROVE missed[x] > Limit
  <2> USE <1>1 DEF FailOnline
  <2>1. PICK v \in Stored(online[Here(s)], Offline(errs[Here(s)])) :
          online' = [online EXCEPT ![Here(s)] = v]
    OBVIOUS
  <2>2. x = Here(s) /\ v = 1
    BY <2>1 DEF ScanInv, TypeOK
  <2> QED
    BY <2>1, <2>2 DEF Stored, Offline, ScanInv
<1>2. ASSUME NEW s \in Scanners, WriteRealtime(s) PROVE FALSE
  BY <1>2 DEF WriteRealtime, ScanInv, TypeOK
<1>3. CASE \E s \in Scanners : Step(s)
  <2>1. PICK s \in Scanners : Step(s)
    BY <1>3
  <2>2. FailOnline(s) \/ WriteRealtime(s) \/ online' = online
    BY <2>1 DEF Step, BeginRound, ProbeUnit, FailAlarm, ClearComAlarm, ReadFields, rowVars
  <2> QED
    BY <1>1, <1>2, <2>2
<1>4. online' = online \/ \E s \in Scanners : Step(s)
  BY DEF Next, Restart, EditCount, DatabaseLink, UnitLink, vars, rowVars
<1> QED
  BY <1>3, <1>4

\* A row of com_alarm turns to alarm behind the Online row of a unit that has missed enough
\* probes: the row was stored before, and no step of another scanner touched it since.
LEMMA AlarmRaised ==
  ASSUME ScanInv, [Next]_vars, NEW a \in Addresses, alarm[a] = 0, alarm'[a] = 1
  PROVE  \E x \in Unit : Addr(x) = a /\ missed[x] > Limit /\ online[x] = 1
<1>1. ASSUME NEW s \in Scanners, FailAlarm(s)
      PROVE  \E x \in Unit : Addr(x) = a /\ missed[x] > Limit /\ online[x] = 1
  <2> USE <1>1 DEF FailAlarm
  <2>1. PICK v \in Stored(alarm[Addr(Here(s))], Offline(errs[Here(s)])) :
          alarm' = [alarm EXCEPT ![Addr(Here(s))] = v]
    OBVIOUS
  <2>2. a = Addr(Here(s)) /\ v = 1
    BY <2>1 DEF ScanInv, TypeOK
  <2>3. Offline(errs[Here(s)]) = 1
    BY <2>1, <2>2 DEF Stored
  <2>4. online[Here(s)] = 1
    BY <2>3 DEF ScanInv, Shown, At
  <2> QED
    BY <2>2, <2>3, <2>4, HereUnit DEF Offline, ScanInv
<1>2. ASSUME NEW s \in Scanners, ClearComAlarm(s) PROVE FALSE
  BY <1>2 DEF ClearComAlarm, Stored, ScanInv, TypeOK
<1>3. CASE \E s \in Scanners : Step(s)
  <2>1. PICK s \in Scanners : Step(s)
    BY <1>3
  <2>2. FailAlarm(s) \/ ClearComAlarm(s) \/ alarm' = alarm
    BY <2>1 DEF Step, BeginRound, ProbeUnit, FailOnline, ReadFields, WriteRealtime, rowVars
  <2> QED
    BY <1>1, <1>2, <2>2
<1>4. alarm' = alarm \/ \E s \in Scanners : Step(s)
  BY DEF Next, Restart, EditCount, DatabaseLink, UnitLink, vars, rowVars
<1> QED
  BY <1>3, <1>4

\* Whatever its neighbours, the database and the other scanner do, a unit is reported on more
\* than Limit probes it has missed itself, in its Online row first and then in com_alarm
\* (pollOneGenset, pollOneInverter).  The history of missed probes is kept apart from the
\* counts the program decides by; that the two agree is part of ScanInv.
THEOREM ReportedOnEvidence == Spec => RaisedOnEvidence
<1>1. ScanInv /\ [Next]_vars =>
        [/\ \A x \in Unit : online[x] = 0 /\ online'[x] = 1 => missed[x] > Limit
         /\ \A a \in Addresses : alarm[a] = 0 /\ alarm'[a] = 1 =>
              \E x \in Unit : Addr(x) = a /\ missed[x] > Limit /\ online[x] = 1]_vars
  BY OnlineRaised, AlarmRaised
<1> QED
  BY <1>1, AlwaysScanInv, PTL DEF Spec, RaisedOnEvidence

\* Do all units have rows of com_alarm of their own?  The addresses of SunPv.h and Agc.h
\* do not see to it.
DisjointRows == \A x, y \in Unit : Addr(x) = Addr(y) => x = y

Held(x) == online'[x] >= online[x] /\ alarm'[Addr(x)] >= alarm[Addr(x)]

LEMMA StepHolds ==
  ASSUME ScanInv, DisjointRows, NEW s \in Scanners, Step(s),
         NEW x \in Unit, errs[x] > Limit, errs'[x] > Limit
  PROVE  Held(x)
<1>1. /\ online[x] \in {0, 1} /\ alarm[Addr(x)] \in {0, 1}
      /\ Here(s) \in Unit /\ Addr(Here(s)) \in Addresses
      /\ Limit \in Nat
  BY HereUnit, ScanAssumption DEF ScanInv, TypeOK, Addresses, ScanAssumption
<1>2. CASE FailOnline(s)
  <2> USE <1>2 DEF FailOnline
  <2>1. PICK v \in Stored(online[Here(s)], Offline(errs[Here(s)])) :
          online' = [online EXCEPT ![Here(s)] = v]
    OBVIOUS
  <2>2. x = Here(s) => v = online[x] \/ v = 1
    BY <2>1 DEF Stored, Offline
  <2> QED
    BY <1>1, <2>1, <2>2 DEF Held, ScanInv, TypeOK
<1>3. CASE FailAlarm(s)
  <2> USE <1>3 DEF FailAlarm
  <2>1. PICK v \in Stored(alarm[Addr(Here(s))], Offline(errs[Here(s)])) :
          alarm' = [alarm EXCEPT ![Addr(Here(s))] = v]
    OBVIOUS
  <2>2. x = Here(s) => v = alarm[Addr(x)] \/ v = 1
    BY <2>1 DEF Stored, Offline
  <2>3. x # Here(s) => Addr(x) # Addr(Here(s))
    BY <1>1 DEF DisjointRows
  <2>4. alarm'[Addr(x)] = alarm[Addr(x)] \/ alarm'[Addr(x)] = 1
    BY <1>1, <2>1, <2>2, <2>3 DEF ScanInv, TypeOK
  <2> QED
    BY <1>1, <2>4 DEF Held
<1>4. CASE ClearComAlarm(s)
  <2> USE <1>4 DEF ClearComAlarm
  <2>1. errs[Here(s)] = 0
    BY DEF ScanInv, Heard, At
  <2>2. x # Here(s)
    BY <1>1, <2>1
  <2>3. Addr(x) # Addr(Here(s))
    BY <1>1, <2>2 DEF DisjointRows
  <2> QED
    BY <1>1, <2>3 DEF Held, ScanInv, TypeOK
<1>5. CASE WriteRealtime(s)
  <2> USE <1>5 DEF WriteRealtime
  <2>1. errs[Here(s)] = 0
    BY DEF ScanInv, Heard, At
  <2>2. x # Here(s)
    BY <1>1, <2>1
  <2> QED
    BY <1>1, <2>2 DEF Held, ScanInv, TypeOK
<1>6. CASE BeginRound(s) \/ ProbeUnit(s) \/ ReadFields(s)
  BY <1>1, <1>6 DEF Held, BeginRound, ProbeUnit, ReadFields, rowVars
<1> QED
  BY <1>2, <1>3, <1>4, <1>5, <1>6 DEF Step

\* A verdict is not taken back before the unit answers, if no two units share a row of
\* com_alarm (with the addresses of the headers they do).
THEOREM VerdictStands == DisjointRows => (Spec => JudgementHeld)
<1> SUFFICES ASSUME DisjointRows PROVE Spec => JudgementHeld
  OBVIOUS
<1>1. ASSUME ScanInv, [Next]_vars, NEW x \in Unit, errs[x] > Limit, errs'[x] > Limit
      PROVE  Held(x)
  <2>1. CASE \E s \in Scanners : Step(s)
    BY <1>1, <2>1, StepHolds
  <2>2. CASE Restart
    BY <1>1, <2>2, ScanAssumption DEF Restart, ScanAssumption
  <2>3. CASE EditCount \/ DatabaseLink \/ UnitLink \/ UNCHANGED vars
    <3>1. UNCHANGED <<online, alarm>>
      BY <2>3 DEF EditCount, DatabaseLink, UnitLink, vars, rowVars
    <3>2. online[x] \in {0, 1} /\ alarm[Addr(x)] \in {0, 1}
      BY <1>1 DEF ScanInv, TypeOK, Addresses
    <3> QED
      BY <3>1, <3>2 DEF Held
  <2> QED
    BY <1>1, <2>1, <2>2, <2>3 DEF Next
<1>2. ScanInv /\ [Next]_vars =>
        [\A x \in Unit : missed[x] > Limit /\ missed'[x] > Limit
           => online'[x] >= online[x] /\ alarm'[Addr(x)] >= alarm[Addr(x)]]_vars
  <2>1. ScanInv /\ [Next]_vars => missed = errs /\ missed' = errs'
    BY NextInv DEF ScanInv
  <2> QED
    BY <1>1, <2>1 DEF Held
<1> QED
  BY <1>2, AlwaysScanInv, PTL DEF Spec, JudgementHeld
------------------------------------------------------------------------------
(* Which rounds are enough for a unit, while it stays as it is.              *)

\* A scanner leaves the rows and the count of the units alone that it is not at.
LEMMA RowsApart ==
  ASSUME ScanInv, DisjointRows, NEW t \in Scanners, Step(t), NEW x \in Unit, Here(t) # x
  PROVE  /\ online'[x] = online[x] /\ data'[x] = data[x] /\ errs'[x] = errs[x]
         /\ alarm'[Addr(x)] = alarm[Addr(x)]
<1>1. Here(t) \in Unit /\ Addr(x) # Addr(Here(t)) /\ Addr(x) \in Addresses
  BY HereUnit DEF DisjointRows, Addresses
<1>2. CASE BeginRound(t) \/ ReadFields(t)
  BY <1>2 DEF BeginRound, ReadFields, rowVars
<1>3. CASE ProbeUnit(t)
  BY <1>1, <1>3 DEF ProbeUnit, ScanInv, TypeOK, rowVars
<1>4. CASE FailOnline(t)
  BY <1>1, <1>4 DEF FailOnline, ScanInv, TypeOK
<1>5. CASE FailAlarm(t) \/ ClearComAlarm(t)
  BY <1>1, <1>5 DEF FailAlarm, ClearComAlarm, ScanInv, TypeOK
<1>6. CASE WriteRealtime(t)
  BY <1>1, <1>6 DEF WriteRealtime, ScanInv, TypeOK, Shapes
<1>. QED
  BY <1>2, <1>3, <1>4, <1>5, <1>6 DEF Step

\* Scanners leave each other's rounds alone.
LEMMA RoundsApart ==
  ASSUME ScanInv, NEW s \in Scanners, NEW t \in Scanners, s # t, Step(t)
  PROVE  pc'[s] = pc[s] /\ n'[s] = n[s] /\ unit'[s] = unit[s] /\ cache'[s] = cache[s]
BY DEF Step, BeginRound, ProbeUnit, FailOnline, FailAlarm, ClearComAlarm, ReadFields, WriteRealtime,
       Goto, NextUnit, Thrown, ScanInv, TypeOK, Shapes, rowVars

\* Where a scanner goes after a unit: with the database up, to the next one, or to the end
\* of the round, which is at least as far on as any unit the round was to visit.
LEMMA NextUnitPasses ==
  ASSUME ScanInv, NEW s \in Scanners, NextUnit(s)
  PROVE  \/ pc'[s] = "probe" /\ unit'[s] = unit[s] + 1
         \/ pc'[s] = "idle" /\ unit[s] >= n[s]
BY DEF NextUnit, Goto, ScanInv, TypeOK, Shapes

\* The scanner ends its round.
Ends(s) == restarts' = restarts /\ pc[s] # "idle" /\ pc'[s] = "idle"

\* What a round that began with unit x alive and looked after knows at each of its places:
\* behind x its rows are as they should be.
FreshLive(x) ==
  /\ pc[x[1]] # "idle" => n[x[1]] >= x[2] /\ (unit[x[1]] > x[2] => Restored(x))
  /\ pc[x[1]] # "idle" /\ unit[x[1]] = x[2] =>
       /\ pc[x[1]] \notin {"failOnline", "failAlarm"}
       /\ pc[x[1]] \in {"read", "write"} => alarm[Addr(x)] = 0
       /\ pc[x[1]] = "write" => cache[x[1]] = x[2]

LiveRound(x) ==
  /\ Ends(x[1]) => Restored(x)'
  /\ Restored(x) => Restored(x)'

\* A step that leaves rows and rounds alone.
LEMMA LiveStands ==
  ASSUME NEW x \in Unit, FreshLive(x),
         pc'[x[1]] = pc[x[1]], n'[x[1]] = n[x[1]], unit'[x[1]] = unit[x[1]],
         cache'[x[1]] = cache[x[1]], online'[x] = online[x], data'[x] = data[x],
         alarm'[Addr(x)] = alarm[Addr(x)]
  PROVE  FreshLive(x)' /\ LiveRound(x)
BY DEF FreshLive, LiveRound, Restored, Ends

\* Each step knows what is said of the place it leads to.
LEMMA FreshLiveStep ==
  ASSUME ScanInv, DisjointRows, NEW x \in Unit, Live(x), FreshLive(x), [Next]_vars
  PROVE  FreshLive(x)' /\ LiveRound(x)
<1>. DEFINE s == x[1]
            u == x[2]
<1>1. /\ s \in Scanners /\ u \in Nat \ {0} /\ x = <<s, u>>
      /\ pc \in [Scanners -> PC] /\ n \in [Scanners -> Nat] /\ unit \in [Scanners -> Nat]
      /\ cache \in [Scanners -> Nat] /\ dbUp /\ x \in answering
      /\ online \in [Unit -> {0, 1}] /\ alarm \in [Addresses -> {0, 1}] /\ data \in [Unit -> Nat]
      /\ Addr(x) \in Addresses
  BY UnitParts, CapNat DEF ScanInv, TypeOK, Shapes, Live, Watched, Addresses
<1>2. CASE EditCount \/ DatabaseLink \/ UnitLink \/ UNCHANGED vars
  BY <1>2, LiveStands DEF EditCount, DatabaseLink, UnitLink, vars, roundVars, rowVars
<1>3. CASE Restart
  BY <1>1, <1>3 DEF Restart, FreshLive, LiveRound, Ends, Restored, rowVars, ScanInv, TypeOK
<1>4. ASSUME NEW t \in Scanners, Step(t), t # s PROVE FreshLive(x)' /\ LiveRound(x)
  <2>1. Here(t) # x
    BY <1>1, <1>4 DEF Here
  <2>. QED
    BY <1>1, <1>4, <2>1, RowsApart, RoundsApart, LiveStands
<1>5. ASSUME Step(s), unit[s] # u PROVE FreshLive(x)' /\ LiveRound(x)
  <2>1. /\ online'[x] = online[x] /\ data'[x] = data[x] /\ alarm'[Addr(x)] = alarm[Addr(x)]
    <3>1. Here(s) # x
      BY <1>1, <1>5 DEF Here
    <3>. QED
      BY <1>1, <1>5, <3>1, RowsApart
  <2>2. Restored(x)' <=> Restored(x)
    BY <2>1 DEF Restored
  <2>3. CASE BeginRound(s)
    <3>1. pc[s] = "idle" /\ unit' = unit /\ n'[s] >= u /\ pc'[s] = "probe" /\ unit[s] = 1
      BY <1>1, <2>3 DEF BeginRound, At, Goto, Live, Watched, ScanInv, Rewound
    <3>. QED
      BY <1>1, <2>2, <3>1 DEF FreshLive, LiveRound, Ends
  <2>4. CASE ProbeUnit(s) \/ ReadFields(s)
    <3>1. pc[s] # "idle" /\ pc'[s] # "idle" /\ UNCHANGED <<n, unit>>
      BY <1>1, <2>4 DEF ProbeUnit, ReadFields, At, Goto
    <3>. QED
      BY <1>1, <1>5, <2>2, <3>1 DEF FreshLive, LiveRound, Ends
  <2>5. CASE FailOnline(s) \/ ClearComAlarm(s)
    <3>1. pc[s] # "idle" /\ pc'[s] # "idle" /\ UNCHANGED <<n, unit>>
      BY <1>1, <2>5 DEF FailOnline, ClearComAlarm, At, Goto
    <3>. QED
      BY <1>1, <1>5, <2>2, <3>1 DEF FreshLive, LiveRound, Ends
  <2>6. CASE FailAlarm(s) \/ WriteRealtime(s)
    <3>1. pc[s] # "idle" /\ NextUnit(s) /\ UNCHANGED n
      BY <1>1, <2>6 DEF FailAlarm, WriteRealtime, At
    <3>2. CASE pc'[s] = "probe" /\ unit'[s] = unit[s] + 1
      <4>1. unit'[s] > u => unit[s] > u
        BY <1>1, <1>5, <3>2
      <4>. QED
        BY <1>1, <2>2, <3>1, <3>2, <4>1 DEF FreshLive, LiveRound, Ends
    <3>3. CASE pc'[s] = "idle" /\ unit[s] >= n[s]
      <4>1. unit[s] > u
        BY <1>1, <1>5, <3>1, <3>3 DEF FreshLive
      <4>. QED
        BY <1>1, <2>2, <3>1, <3>3, <4>1 DEF FreshLive, LiveRound
    <3>. QED
      BY <1>1, <3>1, <3>2, <3>3, NextUnitPasses
  <2>. QED
    BY <1>5, <2>3, <2>4, <2>5, <2>6 DEF Step
<1>6. ASSUME Step(s), unit[s] = u PROVE FreshLive(x)' /\ LiveRound(x)
  <2>1. Here(s) = x
    BY <1>1, <1>6 DEF Here
  <2>2. CASE BeginRound(s)
    <3>1. /\ pc[s] = "idle" /\ unit' = unit /\ n'[s] >= u /\ pc'[s] = "probe"
          /\ UNCHANGED <<online, data, alarm>>
      BY <1>1, <2>2 DEF BeginRound, At, Goto, Live, Watched, rowVars
    <3>. QED
      BY <1>1, <1>6, <3>1 DEF FreshLive, LiveRound, Ends, Restored
  <2>3. CASE ProbeUnit(s)
    <3>1. /\ pc[s] # "idle" /\ pc'[s] = "clearAlarm"
          /\ UNCHANGED <<n, unit, online, data, alarm>>
      BY <1>1, <2>1, <2>3 DEF ProbeUnit, At, Goto, rowVars
    <3>. QED
      BY <1>1, <1>6, <3>1 DEF FreshLive, LiveRound, Ends, Restored
  <2>4. ~FailOnline(s) /\ ~FailAlarm(s)
    BY <1>1, <1>6 DEF FailOnline, FailAlarm, At, FreshLive
  <2>5. CASE ClearComAlarm(s)
    <3>1. /\ pc[s] # "idle" /\ pc'[s] = "read" /\ UNCHANGED <<n, unit, online, data>>
          /\ alarm'[Addr(x)] = 0
      BY <1>1, <2>1, <2>5 DEF ClearComAlarm, At, Goto, Stored
    <3>. QED
      BY <1>1, <1>6, <3>1 DEF FreshLive, LiveRound, Ends, Restored
  <2>6. CASE ReadFields(s)
    <3>1. /\ pc[s] = "read" /\ pc'[s] = "write" /\ UNCHANGED <<n, unit, online, data, alarm>>
          /\ cache'[s] = u
      BY <1>1, <1>6, <2>1, <2>6 DEF ReadFields, At, Goto, rowVars
    <3>. QED
      BY <1>1, <1>6, <3>1 DEF FreshLive, LiveRound, Ends, Restored
  <2>7. CASE WriteRealtime(s)
    <3>1. /\ pc[s] = "write" /\ NextUnit(s) /\ UNCHANGED <<n, alarm>>
          /\ data'[x] = cache[s] /\ online'[x] = 0
      BY <1>1, <2>1, <2>7 DEF WriteRealtime, At
    <3>2. Restored(x)'
      BY <1>1, <1>6, <3>1 DEF FreshLive, Restored
    <3>3. n'[s] >= u /\ pc'[s] \in {"probe", "idle"} /\ (pc'[s] = "probe" => unit'[s] = u + 1)
      BY <1>1, <1>6, <3>1, NextUnitPasses DEF FreshLive
    <3>. QED
      BY <1>1, <3>2, <3>3 DEF FreshLive, LiveRound
  <2>. QED
    BY <1>6, <2>2, <2>3, <2>4, <2>5, <2>6, <2>7 DEF Step
<1>. QED
  BY <1>1, <1>2, <1>3, <1>4, <1>5, <1>6 DEF Next

\* While a unit stays alive and looked after, the first round of its scanner that begins leaves
\* both its rows cleared and its own readings in its table, whatever was half done before and
\* whatever its neighbours do, and nothing takes them away, a restart neither; given rows of
\* com_alarm of its own.  LiveUnitRestored adds that rounds end.
THEOREM LiveRoundSuffices ==
  ASSUME DisjointRows, NEW x \in Unit
  PROVE  Spec => [](pc[x[1]] = "idle" /\ []Live(x) => [][LiveRound(x)]_vars)
<1>1. ScanInv /\ pc[x[1]] = "idle" => FreshLive(x)
  BY DEF FreshLive
<1>2. ScanInv /\ Live(x) /\ FreshLive(x) /\ [Next]_vars => FreshLive(x)' /\ [LiveRound(x)]_vars
  BY FreshLiveStep
<1>. QED
  BY <1>1, <1>2, AlwaysScanInv, PTL DEF Spec
\* One more failure than e is counted, or the verdict is out; a verdict is in the rows.
Counted(x, e) == errs[x] > e \/ errs[x] > Limit
Told(x) == errs[x] > Limit => Reported(x)

\* What a round that began with unit x dead, looked after, and failed e times in a row knows
\* at each of its places.
FreshDead(x, e) ==
  /\ errs[x] >= e
  /\ pc[x[1]] # "idle" => n[x[1]] >= x[2] /\ (unit[x[1]] > x[2] => Counted(x, e) /\ Told(x))
  /\ pc[x[1]] # "idle" /\ unit[x[1]] = x[2] =>
       /\ pc[x[1]] \notin {"clearAlarm", "read", "write"}
       /\ pc[x[1]] \in {"failOnline", "failAlarm"} => Counted(x, e)
       /\ pc[x[1]] = "failAlarm" /\ errs[x] > Limit => online[x] = 1

DeadRound(x, e) ==
  /\ Ends(x[1]) => Counted(x, e)' /\ Told(x)'
  /\ errs[x] > Limit /\ Reported(x) => errs'[x] > Limit /\ Reported(x)'

\* A step that leaves rows, counts and rounds alone.
LEMMA DeadStands ==
  ASSUME NEW x \in Unit, NEW e \in Nat, FreshDead(x, e),
         pc'[x[1]] = pc[x[1]], n'[x[1]] = n[x[1]], unit'[x[1]] = unit[x[1]],
         errs'[x] = errs[x], online'[x] = online[x], alarm'[Addr(x)] = alarm[Addr(x)]
  PROVE  FreshDead(x, e)' /\ DeadRound(x, e)
BY DEF FreshDead, DeadRound, Reported, Counted, Told, Ends

\* Each step knows what is said of the place it leads to.
LEMMA FreshDeadStep ==
  ASSUME ScanInv, DisjointRows, NEW x \in Unit, NEW e \in Nat, Dead(x), FreshDead(x, e),
         [Next]_vars, restarts' = restarts
  PROVE  FreshDead(x, e)' /\ DeadRound(x, e)
<1>. DEFINE s == x[1]
            u == x[2]
<1>1. /\ s \in Scanners /\ u \in Nat \ {0} /\ x = <<s, u>> /\ Limit \in Nat
      /\ pc \in [Scanners -> PC] /\ n \in [Scanners -> Nat] /\ unit \in [Scanners -> Nat]
      /\ dbUp /\ x \notin answering /\ errs \in [Unit -> 0 .. Limit + 1] /\ errs[x] \in Nat
      /\ online \in [Unit -> {0, 1}] /\ alarm \in [Addresses -> {0, 1}]
      /\ Addr(x) \in Addresses
  BY UnitParts, CapNat, ScanAssumption
     DEF ScanInv, TypeOK, Shapes, Dead, Watched, Addresses, ScanAssumption
<1>2. CASE EditCount \/ DatabaseLink \/ UnitLink \/ UNCHANGED vars
  BY <1>2, DeadStands DEF EditCount, DatabaseLink, UnitLink, vars, roundVars, rowVars
<1>3. ~Restart
  BY DEF Restart, ScanInv, TypeOK
<1>4. ASSUME NEW t \in Scanners, Step(t), t # s PROVE FreshDead(x, e)' /\ DeadRound(x, e)
  <2>1. Here(t) # x
    BY <1>1, <1>4 DEF Here
  <2>. QED
    BY <1>1, <1>4, <2>1, RowsApart, RoundsApart, DeadStands
<1>5. ASSUME Step(s), unit[s] # u PROVE FreshDead(x, e)' /\ DeadRound(x, e)
  <2>1. online'[x] = online[x] /\ errs'[x] = errs[x] /\ alarm'[Addr(x)] = alarm[Addr(x)]
    <3>1. Here(s) # x
      BY <1>1, <1>5 DEF Here
    <3>. QED
      BY <1>1, <1>5, <3>1, RowsApart
  <2>2. /\ Reported(x)' <=> Reported(x)
        /\ Counted(x, e)' <=> Counted(x, e)
        /\ Told(x)' <=> Told(x)
    BY <2>1 DEF Reported, Counted, Told
  <2>3. CASE BeginRound(s)
    <3>1. pc[s] = "idle" /\ unit' = unit /\ n'[s] >= u /\ pc'[s] = "probe" /\ unit[s] = 1
      BY <1>1, <2>3 DEF BeginRound, At, Goto, Dead, Watched, ScanInv, Rewound
    <3>. QED
      BY <1>1, <2>1, <2>2, <3>1 DEF FreshDead, DeadRound, Ends
  <2>4. CASE ProbeUnit(s) \/ ReadFields(s) \/ FailOnline(s) \/ ClearComAlarm(s)
    <3>1. pc[s] # "idle" /\ pc'[s] # "idle" /\ UNCHANGED <<n, unit>>
      BY <1>1, <2>4 DEF ProbeUnit, ReadFields, FailOnline, ClearComAlarm, At, Goto
    <3>. QED
      BY <1>1, <1>5, <2>1, <2>2, <3>1 DEF FreshDead, DeadRound, Ends
  <2>5. CASE FailAlarm(s) \/ WriteRealtime(s)
    <3>1. pc[s] # "idle" /\ NextUnit(s) /\ UNCHANGED n
      BY <1>1, <2>5 DEF FailAlarm, WriteRealtime, At
    <3>2. CASE pc'[s] = "probe" /\ unit'[s] = unit[s] + 1
      <4>1. unit'[s] > u => unit[s] > u
        BY <1>1, <1>5, <3>2
      <4>. QED
        BY <1>1, <2>1, <2>2, <3>1, <3>2, <4>1 DEF FreshDead, DeadRound, Ends
    <3>3. CASE pc'[s] = "idle" /\ unit[s] >= n[s]
      <4>1. unit[s] > u
        BY <1>1, <1>5, <3>1, <3>3 DEF FreshDead
      <4>. QED
        BY <1>1, <2>1, <2>2, <3>1, <3>3, <4>1 DEF FreshDead, DeadRound
    <3>. QED
      BY <1>1, <3>1, <3>2, <3>3, NextUnitPasses
  <2>. QED
    BY <1>5, <2>3, <2>4, <2>5 DEF Step
<1>6. ASSUME Step(s), unit[s] = u PROVE FreshDead(x, e)' /\ DeadRound(x, e)
  <2>1. Here(s) = x
    BY <1>1, <1>6 DEF Here
  <2>2. CASE BeginRound(s)
    <3>1. /\ pc[s] = "idle" /\ unit' = unit /\ n'[s] >= u /\ pc'[s] = "probe"
          /\ UNCHANGED <<online, errs, alarm>>
      BY <1>1, <2>2 DEF BeginRound, At, Goto, Dead, Watched, rowVars
    <3>. QED
      BY <1>1, <1>6, <3>1 DEF FreshDead, DeadRound, Ends, Reported
  <2>3. CASE ProbeUnit(s)
    <3>1. /\ pc[s] # "idle" /\ pc'[s] = "failOnline" /\ UNCHANGED <<n, unit, online, alarm>>
          /\ errs'[x] = Failed(errs[x])
      BY <1>1, <2>1, <2>3 DEF ProbeUnit, ErrsAfter, At, Goto, rowVars
    <3>2. errs'[x] >= e /\ Counted(x, e)' /\ (errs[x] > Limit => errs'[x] > Limit)
      BY <1>1, <3>1 DEF Failed, FreshDead, Counted
    <3>. QED
      BY <1>1, <1>6, <3>1, <3>2 DEF FreshDead, DeadRound, Ends, Reported
  <2>4. ~ClearComAlarm(s) /\ ~ReadFields(s) /\ ~WriteRealtime(s)
    BY <1>1, <1>6 DEF ClearComAlarm, ReadFields, WriteRealtime, At, FreshDead
  <2>5. CASE FailOnline(s)
    <3>1. /\ pc[s] = "failOnline" /\ pc'[s] = "failAlarm" /\ UNCHANGED <<n, unit, errs, alarm>>
          /\ online'[x] = Offline(errs[x])
      BY <1>1, <2>1, <2>5 DEF FailOnline, At, Goto, Stored
    <3>. QED
      BY <1>1, <1>6, <3>1 DEF FreshDead, DeadRound, Ends, Reported, Counted, Offline
  <2>6. CASE FailAlarm(s)
    <3>1. /\ pc[s] = "failAlarm" /\ NextUnit(s) /\ UNCHANGED <<n, errs, online>>
          /\ alarm'[Addr(x)] = Offline(errs[x])
      BY <1>1, <2>1, <2>6 DEF FailAlarm, At, Stored
    <3>2. Counted(x, e)' /\ Told(x)'
      BY <1>1, <1>6, <3>1 DEF FreshDead, Counted, Told, Reported, Offline
    <3>3. n'[s] >= u /\ pc'[s] \in {"probe", "idle"} /\ (pc'[s] = "probe" => unit'[s] = u + 1)
      BY <1>1, <1>6, <3>1, NextUnitPasses DEF FreshDead
    <3>. QED
      BY <1>1, <3>1, <3>2, <3>3 DEF FreshDead, DeadRound, Told
  <2>. QED
    BY <1>6, <2>2, <2>3, <2>4, <2>5, <2>6 DEF Step
<1>. QED
  BY <1>1, <1>2, <1>3, <1>4, <1>5, <1>6 DEF Next

\* The unit is dead, and the process has not been started again since the r-th time.
DeadSince(x, r) == Dead(x) /\ restarts = r

\* While a unit stays dead and looked after and the process runs, each round of its scanner
\* that begins adds a failure to its count until that is beyond Limit, and then leaves both
\* rows at the verdict; nothing takes that back; given rows of com_alarm of its own.  So
\* Limit + 1 rounds are enough.  DeadUnitReported adds that rounds end.
THEOREM DeadRoundsSuffice ==
  ASSUME DisjointRows, NEW x \in Unit, NEW e \in Nat, NEW r \in Nat
  PROVE  Spec => [](pc[x[1]] = "idle" /\ errs[x] = e /\ []DeadSince(x, r)
                      => [][DeadRound(x, e)]_vars)
<1>1. ScanInv /\ pc[x[1]] = "idle" /\ errs[x] = e => FreshDead(x, e)
  BY DEF FreshDead
<1>2. ScanInv /\ FreshDead(x, e) /\ [Next]_vars /\ DeadSince(x, r) /\ DeadSince(x, r)'
        => FreshDead(x, e)' /\ [DeadRound(x, e)]_vars
  BY FreshDeadStep DEF DeadSince
<1>. QED
  BY <1>1, <1>2, AlwaysScanInv, PTL DEF Spec
=============================================================================
