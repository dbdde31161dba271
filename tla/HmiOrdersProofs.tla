--------------------------- MODULE HmiOrdersProofs ---------------------------
(***************************************************************************)
(* Theorems about the threads that carry orders to devices: modules        *)
(* PcsDispatch, Dido and PowerLimit as module MCHmiOrders puts them        *)
(* together.  They hold for all powers, grid modes, outputs, inputs,       *)
(* inverters, limits and numbers of changes.                               *)
(***************************************************************************)
EXTENDS MCHmiOrders, TLAPS

------------------------------------------------------------------------------
(* PCS_Smarten.                                                              *)

\* Set values stay what the device can hold, orders what the HMI can store.
LEMMA PcsStep == TypeOK /\ Next => TypeOK'
<1>. SUFFICES ASSUME TypeOK, Next PROVE TypeOK'
  OBVIOUS
<1>. USE DispatchAssumption DEF TypeOK, DispatchAssumption, Calm, roundVars, dbVars, devVars,
         Settings, Orders, OnOff, NoOrder, EndRound
<1>1. CASE ReadSettings
  <2>1. \A got : Refreshed(got) \in Settings
    BY DEF Refreshed
  <2>. QED
    BY <1>1, <2>1 DEF ReadSettings, PC
<1>2. CASE ReadReset
  BY <1>2 DEF ReadReset, PC
<1>3. CASE ReadOrders
  BY <1>3 DEF ReadOrders, PC
<1>4. CASE SendOnOff
  BY <1>4 DEF SendOnOff, Sent, PC
<1>5. CASE SendGrid
  BY <1>5 DEF SendGrid, Sent, GridMode, PC
<1>6. CASE SendReset
  BY <1>6 DEF SendReset, AfterReset, PC
<1>7. CASE ClearReset
  <2>1. resetFlag' \in {0, 1}
    BY <1>7 DEF ClearReset
  <2>2. /\ pc' \in PC /\ target' \in Orders /\ resetWish' \in {0, 1}
        /\ heard' \subseteq {"reset", "orders"}
    <3>1. CASE dbUp
      BY <1>7, <3>1 DEF ClearReset, PC
    <3>2. CASE ~dbUp
      BY <1>7, <3>2 DEF ClearReset, PC
    <3>. QED
      BY <3>1, <3>2
  <2>. QED
    BY <1>7, <2>1, <2>2 DEF ClearReset
<1>8. CASE SendPower
  BY <1>8 DEF SendPower, Sent, PC
<1>9. CASE EditOrders \/ AskReset
  <2>1. order' \in Orders /\ resetFlag' \in {0, 1} /\ changes' \in 0 .. MaxChanges + 1
    BY <1>9 DEF EditOrders, AskReset, Changing
  <2>2. UNCHANGED <<pc, copy, target, resetWish, heard, dbUp, dev, busUp>>
    BY <1>9 DEF EditOrders, AskReset
  <2>. QED
    BY <2>1, <2>2
<1>10. CASE DeviceChanges
  BY <1>10 DEF DeviceChanges, Changing
<1>11. CASE LinkChanges
  <2>1. dbUp' \in BOOLEAN /\ busUp' \in BOOLEAN
    BY <1>11 DEF LinkChanges
  <2>. QED
    BY <1>11, <2>1 DEF LinkChanges, Changing
<1>12. CASE Settle
  BY <1>12 DEF Settle
<1>. QED
  BY <1>1, <1>2, <1>3, <1>4, <1>5, <1>6, <1>7, <1>8, <1>9, <1>10, <1>11, <1>12 DEF Next, RoundStep

------------------------------------------------------------------------------
(* Dido.                                                                     *)

\* The outputs whose order the round has been told so far: those read before `at`, and all
\* of them once the feedback is read.
DidoInv ==
  /\ DO!TypeOK
  /\ doPc \in {"idle", "feedback", "publish"} => at = 1
  /\ doPc \in {"orders", "write"} => at \in DO!Output
  /\ doPc = "logic" => at \in DO!Input
  /\ doPc = "orders" => \A k \in 1 .. at - 1 : DO!ReadNth(k) \in asked
  /\ doPc \in {"feedback", "write"} => asked = DO!Output

\* A switch that is turned is on or off.
LEMMA Turned ==
  ASSUME NEW k, NEW f \in [1 .. k -> {0, 1}], NEW o \in 1 .. k
  PROVE  [f EXCEPT ![o] = 1 - @] \in [1 .. k -> {0, 1}]
<1>1. 1 - f[o] \in {0, 1}
  <2>1. f[o] \in {0, 1}
    OBVIOUS
  <2>. QED
    BY <2>1
<1>. QED
  BY <1>1

\* The hook starts idle with every light off.
LEMMA DidoInit == DO!Init => DidoInv
BY DispatchAssumption, OrdersAssumption
   DEF DispatchAssumption, OrdersAssumption, DO!Init, DidoInv, DO!TypeOK, DO!AllOff, DO!Output,
       DO!Input, DO!Switch, DO!Calm

\* Read in the swapped order, every output is reached.
LEMMA AllRead ==
  ASSUME NEW S, \A k \in DO!Output : DO!ReadNth(k) \in S
  PROVE  DO!Output \subseteq S
<1>. SUFFICES ASSUME NEW o \in DO!Output PROVE o \in S
  OBVIOUS
<1>1. 1 \in DO!Output /\ 2 \in DO!Output /\ o \in Nat
  BY OrdersAssumption DEF OrdersAssumption, DO!Output
<1>2. DO!ReadNth(1) = 2 /\ DO!ReadNth(2) = 1 /\ (o # 1 /\ o # 2 => DO!ReadNth(o) = o)
  BY DEF DO!ReadNth
<1>. QED
  BY <1>1, <1>2

\* Every step of the hook keeps what the round was told.
LEMMA DidoStep == DidoInv /\ DO!Next => DidoInv'
<1>. SUFFICES ASSUME DidoInv, DO!Next PROVE DidoInv'
  OBVIOUS
<1>1. /\ Outputs \in Nat /\ Outputs >= 2 /\ Inputs \in Nat /\ Inputs >= 1 /\ MaxChanges \in Nat
  BY DispatchAssumption, OrdersAssumption DEF DispatchAssumption, OrdersAssumption
<1>. USE <1>1 DEF DidoInv, DO!TypeOK, DO!Output, DO!Input, DO!Switch, DO!Calm, DO!AllOff,
         DO!roundVars, DO!dbVars, DO!devVars, DO!EndRound, DO!Kept
<1>2. CASE DO!Poll
  BY <1>2 DEF DO!Poll
<1>3. CASE DO!ReadOrder
  <2>1. doPc = "orders" /\ at \in 1 .. Outputs /\ DO!ReadNth(at) \in 1 .. Outputs
    BY <1>3 DEF DO!ReadOrder, DO!ReadNth
  <2>2. CASE dbUp
    <3>1. /\ doTarget' \in [DO!Output -> {0, 1}]
          /\ asked' = asked \cup {DO!ReadNth(at)} /\ feedback' = feedback
      BY <1>3, <2>1, <2>2 DEF DO!ReadOrder, DO!Answered
    <3>2. \A k \in 1 .. at : DO!ReadNth(k) \in asked'
      BY <2>1, <3>1
    <3>3. CASE at < Outputs
      <4>1. doPc' = "orders" /\ at' = at + 1
        BY <1>3, <2>1, <2>2, <3>3 DEF DO!ReadOrder, DO!Answered
      <4>2. at' - 1 = at /\ at' \in 1 .. Outputs
        BY <2>1, <3>3, <4>1
      <4>. QED
        BY <1>3, <2>1, <3>1, <3>2, <4>1, <4>2 DEF DO!ReadOrder
    <3>4. CASE ~(at < Outputs)
      <4>1. doPc' = "feedback" /\ at' = 1
        BY <1>3, <2>1, <2>2, <3>4 DEF DO!ReadOrder, DO!Answered
      <4>2. at = Outputs
        BY <2>1, <3>4
      <4>3. asked' \subseteq 1 .. Outputs
        BY <2>1, <3>1
      <4>4. asked' = 1 .. Outputs
        BY <3>2, <4>2, <4>3, AllRead
      <4>. QED
        BY <1>3, <3>1, <4>1, <4>4 DEF DO!ReadOrder
    <3>. QED
      BY <3>3, <3>4
  <2>3. CASE ~dbUp
    BY <1>3, <2>3 DEF DO!ReadOrder, DO!Answered
  <2>. QED
    BY <2>2, <2>3
<1>4. CASE DO!ReadFeedback
  BY <1>4 DEF DO!ReadFeedback
<1>5. CASE DO!WriteOutput
  <2>1. doPc = "write" /\ at \in 1 .. Outputs
    BY <1>5 DEF DO!WriteOutput
  <2>2. PICK v : v \in {out[at], doTarget[at]} /\ out' = [out EXCEPT ![at] = v]
    BY <1>5 DEF DO!WriteOutput, DO!Sent
  <2>3. out' \in [1 .. Outputs -> {0, 1}]
    BY <2>1, <2>2
  <2>4. \/ at < Outputs /\ doPc' = doPc /\ at' = at + 1
        \/ at = Outputs /\ doPc' = "logic" /\ at' = 1
    BY <1>5, <2>1 DEF DO!WriteOutput
  <2>5. UNCHANGED <<doTarget, feedback, asked, seen, doOrder, logic, dodi, dbUp, in, doBusUp,
                    changes>>
    BY <1>5 DEF DO!WriteOutput
  <2>. QED
    BY <2>1, <2>3, <2>4, <2>5
<1>6. CASE DO!StoreInput
  <2>1. doPc = "logic" /\ at \in 1 .. Inputs
    BY <1>6 DEF DO!StoreInput
  <2>2. PICK v : v \in {logic[at], seen[at]} /\ logic' = [logic EXCEPT ![at] = v]
    BY <1>6 DEF DO!StoreInput, DO!Sent
  <2>3. logic' \in [1 .. Inputs -> {0, 1}]
    BY <2>1, <2>2
  <2>4. \/ DO!EndRound
        \/ at < Inputs /\ doPc' = doPc /\ at' = at + 1 /\ DO!Kept
        \/ doPc' = "publish" /\ at' = 1 /\ DO!Kept
    BY <1>6 DEF DO!StoreInput
  <2>5. UNCHANGED <<seen, doOrder, dodi, dbUp, out, in, doBusUp, changes>>
    BY <1>6 DEF DO!StoreInput
  <2>6. CASE DO!EndRound
    BY <2>3, <2>5, <2>6
  <2>7. CASE at < Inputs /\ doPc' = doPc /\ at' = at + 1 /\ DO!Kept
    BY <2>1, <2>3, <2>5, <2>7
  <2>8. CASE doPc' = "publish" /\ at' = 1 /\ DO!Kept
    BY <2>3, <2>5, <2>8
  <2>. QED
    BY <2>4, <2>6, <2>7, <2>8
<1>7. CASE DO!Publish
  <2>1. dodi' \in {dodi, [inputs |-> seen, outputs |-> doTarget]}
    BY <1>7 DEF DO!Publish, DO!Sent
  <2>. QED
    BY <1>7, <2>1 DEF DO!Publish
<1>8. CASE DO!EditOrder
  <2>1. PICK o \in 1 .. Outputs : doOrder' = [doOrder EXCEPT ![o] = 1 - @]
    BY <1>8 DEF DO!EditOrder
  <2>2. doOrder' \in [1 .. Outputs -> {0, 1}]
    BY <2>1, Turned, Zenon
  <2>3. changes' \in 0 .. MaxChanges + 1
    BY <1>8 DEF DO!EditOrder, DO!Changing
  <2>. QED
    BY <1>8, <2>2, <2>3 DEF DO!EditOrder
<1>9. CASE DO!DeviceChanges
  <2>1. changes' \in 0 .. MaxChanges + 1
    BY <1>9 DEF DO!DeviceChanges, DO!Changing
  <2>2. CASE UNCHANGED in
    <3>1. \/ UNCHANGED out
          \/ \E o \in 1 .. Outputs : out' = [out EXCEPT ![o] = 1 - @]
      BY <1>9 DEF DO!DeviceChanges
    <3>2. \A o \in 1 .. Outputs : [out EXCEPT ![o] = 1 - @] \in [1 .. Outputs -> {0, 1}]
      BY Turned, Zenon
    <3>3. out' \in [1 .. Outputs -> {0, 1}]
      BY <3>1, <3>2
    <3>. QED
      BY <1>9, <2>1, <2>2, <3>3 DEF DO!DeviceChanges
  <2>3. CASE UNCHANGED out
    <3>1. \/ UNCHANGED in
          \/ \E i \in 1 .. Inputs : in' = [in EXCEPT ![i] = 1 - @]
      BY <1>9 DEF DO!DeviceChanges
    <3>2. \A i \in 1 .. Inputs : [in EXCEPT ![i] = 1 - @] \in [1 .. Inputs -> {0, 1}]
      BY Turned, Zenon
    <3>3. in' \in [1 .. Inputs -> {0, 1}]
      BY <3>1, <3>2
    <3>. QED
      BY <1>9, <2>1, <2>3, <3>3 DEF DO!DeviceChanges
  <2>. QED
    BY <1>9, <2>2, <2>3 DEF DO!DeviceChanges
<1>10. CASE DO!LinkChanges \/ DO!Settle
  <2>1. dbUp' \in BOOLEAN /\ doBusUp' \in BOOLEAN
    BY <1>10 DEF DO!LinkChanges, DO!Settle
  <2>2. changes' \in 0 .. MaxChanges + 1
    BY <1>10 DEF DO!LinkChanges, DO!Settle, DO!Changing
  <2>3. UNCHANGED <<doPc, at, doTarget, feedback, asked, seen, doOrder, logic, dodi, out, in>>
    BY <1>10 DEF DO!LinkChanges, DO!Settle
  <2>. QED
    BY <2>1, <2>2, <2>3
<1>. QED
  BY <1>2, <1>3, <1>4, <1>5, <1>6, <1>7, <1>8, <1>9, <1>10 DEF DO!Next, DO!RoundStep

\* No output is switched by a step of the hook that was not told all orders.
LEMMA DidoSwitches ==
  ASSUME DidoInv, DO!Next, changes' = changes, NEW o \in DO!Output, out'[o] # out[o]
  PROVE  asked = DO!Output
<1>1. changes \in Nat
  BY DispatchAssumption DEF DispatchAssumption, DidoInv, DO!TypeOK, DO!Calm
<1>2. DO!WriteOutput
  BY <1>1 DEF DO!Next, DO!RoundStep, DO!Poll, DO!ReadOrder, DO!ReadFeedback, DO!StoreInput,
              DO!Publish, DO!EditOrder, DO!DeviceChanges, DO!LinkChanges, DO!Settle, DO!Changing,
              DO!devVars, DO!Calm
<1>. QED
  BY <1>2 DEF DO!WriteOutput, DidoInv

------------------------------------------------------------------------------
(* SunPv.                                                                    *)

\* A round that is past its counts has an inverter to deal with.
PvInv ==
  /\ PV!TypeOK
  /\ pvPc \in {"idle", "count"} => unit = 1
  /\ pvPc \in {"probe", "read", "limit", "publish"} => unit <= n

\* The thread starts idle, with every inverter at its full power.
LEMMA PvInit == PV!Init => PvInv
BY DispatchAssumption, OrdersAssumption
   DEF DispatchAssumption, OrdersAssumption, PV!Init, PvInv, PV!TypeOK, PV!Unit, PV!Word, PV!Calm

\* A share is a word, whatever the limit.
LEMMA ShareIsWord ==
  ASSUME NEW t \in Int, NEW k \in Nat \ {0} PROVE PV!Share(t, k) \in PV!Word
<1>. DEFINE a == 2000 * t + k * Rated
            b == 2 * k * Rated
<1>1. \A x, y \in Nat \ {0} : x * y \in Nat \ {0}
  BY SMT
<1>2. Rated \in Nat \ {0}
  BY OrdersAssumption DEF OrdersAssumption
<1>3. k * Rated \in Nat \ {0} /\ (2 * k) \in Nat \ {0}
  BY <1>1, <1>2
<1>4. a \in Int /\ b \in Nat \ {0}
  BY <1>1, <1>2, <1>3
<1>. HIDE DEF a, b
<1>5. a \div b \in Int
  BY <1>4
<1>6. \A x \in Int : x % 2^16 \in 0 .. 2^16 - 1
  BY SMT
<1>. QED
  BY <1>5, <1>6 DEF PV!Share, PV!Word, a, b

\* Every step of the round keeps registers words and the inverter within the count.
LEMMA PvStep == PvInv /\ PV!Next => PvInv'
<1>. SUFFICES ASSUME PvInv, PV!Next PROVE PvInv'
  OBVIOUS
<1>1. /\ MaxUnits \in Nat /\ MaxUnits >= 1 /\ MaxChanges \in Nat
      /\ Limits \subseteq Int /\ Counts \subseteq Int
  BY DispatchAssumption, OrdersAssumption DEF DispatchAssumption, OrdersAssumption
<1>2. /\ 0 \in PV!Word /\ 1000 \in PV!Word /\ \A x \in Int : x % 2^16 \in PV!Word
      /\ \A x \in PV!Word : x \in Int
  BY DEF PV!Word
<1>. USE <1>1, <1>2 DEF PvInv, PV!TypeOK, PV!Unit, PV!Calm, PV!roundVars
<1>3. ASSUME PV!EndRound, UNCHANGED <<limit, count, dbUp, reg, answering, changes>> PROVE PvInv'
  BY <1>3 DEF PV!EndRound
<1>4. ASSUME PV!NextUnit, UNCHANGED <<limit, count, dbUp, reg, answering, changes>> PROVE PvInv'
  BY <1>3, <1>4 DEF PV!NextUnit
<1>5. CASE PV!ReadLimit
  BY <1>5 DEF PV!ReadLimit
<1>6. CASE PV!ReadCount
  <2>1. PV!Clamped(count) \in 0 .. MaxUnits
    BY DEF PV!Clamped
  <2>. QED
    BY <1>3, <1>6, <2>1 DEF PV!ReadCount
<1>7. CASE PV!ProbeUnit
  <2>1. CASE ~dbUp
    <3>1. PV!EndRound /\ UNCHANGED <<limit, count, dbUp, reg, answering, changes>>
      BY <1>7, <2>1 DEF PV!ProbeUnit
    <3>. QED
      BY <1>3, <3>1
  <2>2. CASE dbUp /\ unit \in answering
    <3>1. /\ pvPc = "probe" /\ pvPc' = "read"
          /\ UNCHANGED <<total, n, unit, cur, limit, count, dbUp, reg, answering, changes>>
      BY <1>7, <2>2 DEF PV!ProbeUnit
    <3>. QED
      BY <3>1
  <2>3. CASE dbUp /\ unit \notin answering
    <3>1. PV!NextUnit /\ UNCHANGED <<limit, count, dbUp, reg, answering, changes>>
      BY <1>7, <2>3 DEF PV!ProbeUnit
    <3>. QED
      BY <1>4, <3>1
  <2>. QED
    BY <2>1, <2>2, <2>3
<1>8. CASE PV!ReadFields
  BY <1>8 DEF PV!ReadFields
<1>9. CASE PV!WritePowerLimit
  <2>0. pvPc = "limit"
    BY <1>9 DEF PV!WritePowerLimit
  <2>1. total \in Int /\ n \in Nat \ {0} /\ unit \in 1 .. MaxUnits
    <3>1. total \in PV!Word /\ unit \in 1 .. MaxUnits /\ unit <= n /\ n \in 0 .. MaxUnits
      BY <2>0
    <3>. QED
      BY <1>2, <3>1
  <2>2. PV!Share(total, n) \in PV!Word
    BY <2>1, ShareIsWord
  <2>3. reg' \in {reg, [reg EXCEPT ![unit] = PV!Share(total, n)]}
    BY <1>9 DEF PV!WritePowerLimit
  <2>4. reg' \in [1 .. MaxUnits -> PV!Word]
    BY <2>1, <2>2, <2>3
  <2>. QED
    BY <1>9, <2>4 DEF PV!WritePowerLimit
<1>10. CASE PV!Publish
  BY <1>3, <1>4, <1>10 DEF PV!Publish
<1>11. CASE PV!EditOrders
  BY <1>11 DEF PV!EditOrders, PV!Changing
<1>12. CASE PV!UnitChanges
  <2>1. reg' \in [1 .. MaxUnits -> PV!Word]
    BY <1>12 DEF PV!UnitChanges
  <2>2. changes' \in 0 .. MaxChanges + 1
    BY <1>12 DEF PV!UnitChanges, PV!Changing
  <2>3. UNCHANGED <<pvPc, total, n, unit, cur, limit, count, dbUp, answering>>
    BY <1>12 DEF PV!UnitChanges
  <2>. QED
    BY <2>1, <2>2, <2>3
<1>13. CASE PV!LinkChanges \/ PV!Settle
  <2>1. dbUp' \in BOOLEAN
    BY <1>13 DEF PV!LinkChanges, PV!Settle
  <2>2. answering' \subseteq 1 .. MaxUnits
    BY <1>13 DEF PV!LinkChanges, PV!Settle
  <2>4. changes' \in 0 .. MaxChanges + 1
    BY <1>13 DEF PV!LinkChanges, PV!Settle, PV!Changing
  <2>3. UNCHANGED <<pvPc, total, n, unit, cur, limit, count, reg>>
    BY <1>13 DEF PV!LinkChanges, PV!Settle
  <2>. QED
    BY <2>1, <2>2, <2>4, <2>3
<1>. QED
  BY <1>5, <1>6, <1>7, <1>8, <1>9, <1>10, <1>11, <1>12, <1>13 DEF PV!Next, PV!RoundStep

------------------------------------------------------------------------------
(* The three of them.                                                        *)

\* One thread is watched, and all that is known of each of the three holds.
OrdersInv ==
  /\ watched \in {"pcs", "dido", "pv"}
  /\ TypeOK /\ DidoInv /\ PvInv

\* All three start idle.
LEMMA OrdersInit == MCInit => OrdersInv
<1>1. Init => TypeOK
  BY DispatchAssumption DEF DispatchAssumption, Init, TypeOK, PC, Settings, Orders, OnOff, NoOrder,
                            Calm
<1>. QED
  BY <1>1, DidoInit, PvInit DEF MCInit, OrdersInv

\* A thread that is not watched sees the database go and come and the changes counted.
LEMMA OthersStand ==
  ASSUME OrdersInv, dbUp' \in BOOLEAN, changes' \in 0 .. MaxChanges + 1
  PROVE  /\ UNCHANGED pcsVars => TypeOK'
         /\ UNCHANGED doVars => DidoInv'
         /\ UNCHANGED pvVars => PvInv'
<1>1. ASSUME UNCHANGED pcsVars PROVE TypeOK'
  BY <1>1 DEF OrdersInv, pcsVars, TypeOK, Calm
<1>2. ASSUME UNCHANGED doVars PROVE DidoInv'
  BY <1>2 DEF OrdersInv, doVars, DidoInv, DO!TypeOK, DO!Calm
<1>3. ASSUME UNCHANGED pvVars PROVE PvInv'
  BY <1>3 DEF OrdersInv, pvVars, PvInv, PV!TypeOK, PV!Calm
<1>. QED
  BY <1>1, <1>2, <1>3

\* A step is one of the watched thread, or of nobody.
LEMMA OrdersStep == OrdersInv /\ [MCNext]_allVars => OrdersInv'
<1>. SUFFICES ASSUME OrdersInv, [MCNext]_allVars PROVE OrdersInv'
  OBVIOUS
<1>1. CASE Pcs(Next)
  <2>1. TypeOK' /\ UNCHANGED <<watched, doVars, pvVars>>
    BY <1>1, PcsStep DEF OrdersInv, Pcs
  <2>2. dbUp' \in BOOLEAN /\ changes' \in 0 .. MaxChanges + 1
    BY <2>1 DEF TypeOK, Calm
  <2>. QED
    BY <2>1, <2>2, OthersStand DEF OrdersInv
<1>2. CASE Do(DO!Next)
  <2>1. DidoInv' /\ UNCHANGED <<watched, pcsVars, pvVars>>
    BY <1>2, DidoStep DEF OrdersInv, Do
  <2>2. dbUp' \in BOOLEAN /\ changes' \in 0 .. MaxChanges + 1
    BY <2>1 DEF DidoInv, DO!TypeOK, DO!Calm
  <2>. QED
    BY <2>1, <2>2, OthersStand DEF OrdersInv
<1>3. CASE Pv(PV!Next)
  <2>1. PvInv' /\ UNCHANGED <<watched, pcsVars, doVars>>
    BY <1>3, PvStep DEF OrdersInv, Pv
  <2>2. dbUp' \in BOOLEAN /\ changes' \in 0 .. MaxChanges + 1
    BY <2>1 DEF PvInv, PV!TypeOK, PV!Calm
  <2>. QED
    BY <2>1, <2>2, OthersStand DEF OrdersInv
<1>4. CASE UNCHANGED allVars
  <2>1. UNCHANGED <<watched, dbUp, changes, pcsVars, doVars, pvVars>>
    BY <1>4 DEF allVars
  <2>2. dbUp' \in BOOLEAN /\ changes' \in 0 .. MaxChanges + 1
    BY <2>1 DEF OrdersInv, TypeOK, Calm
  <2>. QED
    BY <2>1, <2>2, OthersStand DEF OrdersInv
<1>. QED
  BY <1>1, <1>2, <1>3, <1>4 DEF MCNext

\* The three threads keep their types, for all outputs, inputs, inverters, orders and
\* changes.
THEOREM OrdersTyped == MCSpec => []MCTypeOK
<1>1. OrdersInv => MCTypeOK
  BY DEF OrdersInv, DidoInv, PvInv, MCTypeOK
<1>. QED
  BY <1>1, OrdersInit, OrdersStep, PTL DEF MCSpec

\* Dido switches no output in a round that could not read every order: an outage of the
\* database ends the round before anything is sent (Dido::onAfterDecode).
THEOREM NothingUnasked == MCSpec => DidoNotUnasked
<1>. DEFINE Asked ==
       \A o \in DO!Output : out'[o] # out[o] /\ changes' = changes => asked = DO!Output
<1>1. ASSUME OrdersInv, [MCNext]_allVars PROVE [Asked]_(DO!vars)
  <2>1. CASE Do(DO!Next)
    BY <1>1, <2>1, DidoSwitches DEF OrdersInv, Do
  <2>2. CASE UNCHANGED out
    BY <2>2
  <2>3. Do(DO!Next) \/ UNCHANGED out
    BY <1>1 DEF MCNext, Pcs, Pv, doVars, allVars
  <2>. QED
    BY <2>1, <2>2, <2>3
<1>. QED
  BY <1>1, OrdersInit, OrdersStep, PTL DEF MCSpec, DidoNotUnasked, DO!NotSwitchedUnasked

------------------------------------------------------------------------------
(* One round is enough.  Once nothing changes any more (Calm), the first     *)
(* round that begins leaves the orders where they belong, and no later one   *)
(* takes them away again.                                                    *)

\* When all is calm the links of the watched thread are up.
CalmInv ==
  changes = Calm =>
    dbUp /\ (watched = "pcs" => busUp) /\ (watched = "dido" => doBusUp)

\* Nothing is calm at the start.
LEMMA CalmInit == MCInit => CalmInv
BY DispatchAssumption DEF DispatchAssumption, MCInit, Init, CalmInv, Calm

\* Links go down in changes, and Calm puts them up.
LEMMA CalmStep == OrdersInv /\ CalmInv /\ [MCNext]_allVars => CalmInv'
<1>. SUFFICES ASSUME OrdersInv, CalmInv, [MCNext]_allVars PROVE CalmInv'
  OBVIOUS
<1>1. MaxChanges \in Nat
  BY DispatchAssumption DEF DispatchAssumption
<1>2. CASE Pcs(Next)
  <2>1. watched = "pcs" /\ watched' = watched
    BY <1>2 DEF Pcs
  <2>2. CASE UNCHANGED <<changes, dbUp, busUp>>
    BY <2>1, <2>2 DEF CalmInv, Calm
  <2>3. CASE Changing
    <3>1. changes' # Calm
      BY <1>1, <2>3 DEF Changing, Calm, OrdersInv, TypeOK
    <3>. QED
      BY <3>1 DEF CalmInv, Calm
  <2>4. CASE dbUp' /\ busUp'
    BY <2>1, <2>4 DEF CalmInv, Calm
  <2>5. UNCHANGED <<changes, dbUp, busUp>> \/ Changing \/ (dbUp' /\ busUp')
    BY <1>2 DEF Pcs, Next, RoundStep, ReadSettings, ReadReset, ReadOrders, SendOnOff, SendGrid,
                SendReset, ClearReset, SendPower, EditOrders, AskReset, DeviceChanges, LinkChanges,
                Settle, dbVars, devVars
  <2>. QED
    BY <2>2, <2>3, <2>4, <2>5
<1>3. CASE Do(DO!Next)
  <2>1. watched = "dido" /\ watched' = watched
    BY <1>3 DEF Do
  <2>2. CASE UNCHANGED <<changes, dbUp, doBusUp>>
    BY <2>1, <2>2 DEF CalmInv, Calm
  <2>3. CASE DO!Changing
    <3>1. changes' # Calm
      BY <1>1, <2>3 DEF DO!Changing, Calm, OrdersInv, TypeOK
    <3>. QED
      BY <3>1 DEF CalmInv, Calm
  <2>4. CASE dbUp' /\ doBusUp'
    BY <2>1, <2>4 DEF CalmInv, Calm
  <2>5. UNCHANGED <<changes, dbUp, doBusUp>> \/ DO!Changing \/ (dbUp' /\ doBusUp')
    BY <1>3 DEF Do, DO!Next, DO!RoundStep, DO!Poll, DO!ReadOrder, DO!ReadFeedback, DO!WriteOutput,
                DO!StoreInput, DO!Publish, DO!EditOrder, DO!DeviceChanges, DO!LinkChanges,
                DO!Settle, DO!dbVars, DO!devVars
  <2>. QED
    BY <2>2, <2>3, <2>4, <2>5
<1>4. CASE Pv(PV!Next)
  <2>1. watched = "pv" /\ watched' = watched
    BY <1>4 DEF Pv
  <2>2. CASE UNCHANGED <<changes, dbUp>>
    BY <2>1, <2>2 DEF CalmInv, Calm
  <2>3. CASE PV!Changing
    <3>1. changes' # Calm
      BY <1>1, <2>3 DEF PV!Changing, Calm, OrdersInv, TypeOK
    <3>. QED
      BY <3>1 DEF CalmInv, Calm
  <2>4. CASE dbUp'
    BY <2>1, <2>4 DEF CalmInv, Calm
  <2>5. UNCHANGED <<changes, dbUp>> \/ PV!Changing \/ dbUp'
    BY <1>4 DEF Pv, PV!Next, PV!RoundStep, PV!ReadLimit, PV!ReadCount, PV!ProbeUnit, PV!ReadFields,
                PV!WritePowerLimit, PV!Publish, PV!EditOrders, PV!UnitChanges, PV!LinkChanges,
                PV!Settle
  <2>. QED
    BY <2>2, <2>3, <2>4, <2>5
<1>5. CASE UNCHANGED allVars
  BY <1>5 DEF allVars, pcsVars, doVars, CalmInv, Calm
<1>. QED
  BY <1>2, <1>3, <1>4, <1>5 DEF MCNext

\* What a round of Dido that began in the calm knows at each of its places: orders told are
\* the orders in force, outputs written follow them, inputs stored are the device's.
FreshDido ==
  /\ watched = "dido" /\ changes = Calm /\ dbUp /\ doBusUp
  /\ doPc # "idle" => seen = in
  /\ doPc = "orders" =>
       \A k \in 1 .. at - 1 : doTarget[DO!ReadNth(k)] = doOrder[DO!ReadNth(k)]
  /\ doPc \in {"feedback", "write", "logic", "publish"} => doTarget = doOrder
  /\ doPc = "write" => \A o \in DO!Output : IF o < at THEN out[o] = doOrder[o]
                                                      ELSE feedback[o] = out[o]
  /\ doPc \in {"logic", "publish"} => out = doOrder
  /\ doPc = "logic" => \A i \in 1 .. at - 1 : logic[i] = in[i]
  /\ doPc = "publish" => logic = in

\* A round that ends leaves everything as ordered, and none takes it away.
DidoRound ==
  /\ doPc # "idle" /\ doPc' = "idle" => DO!Followed'
  /\ DO!Followed => DO!Followed'

\* In the calm only the round takes steps.
LEMMA CalmDido ==
  ASSUME OrdersInv, FreshDido, DO!Next
  PROVE  DO!RoundStep /\ UNCHANGED <<changes, dbUp, doBusUp, doOrder, in>>
<1>1. changes = MaxChanges + 1 /\ MaxChanges \in Nat
  BY DispatchAssumption DEF DispatchAssumption, FreshDido, Calm
<1>2. ~(changes < MaxChanges) /\ changes = DO!Calm
  BY <1>1 DEF DO!Calm
<1>3. DO!RoundStep
  BY <1>2 DEF DO!Next, DO!EditOrder, DO!DeviceChanges, DO!LinkChanges, DO!Settle, DO!Changing
<1>. QED
  BY <1>3 DEF DO!RoundStep, DO!Poll, DO!ReadOrder, DO!ReadFeedback, DO!WriteOutput,
              DO!StoreInput, DO!Publish, DO!dbVars, DO!devVars

\* Each step of such a round knows what is said of the place it leads to.
LEMMA FreshDidoStep ==
  ASSUME OrdersInv, FreshDido, Do(DO!Next)
  PROVE  FreshDido' /\ DidoRound
<1>1. DO!RoundStep /\ UNCHANGED <<watched, changes, dbUp, doBusUp, doOrder, in>>
  BY CalmDido DEF Do
<1>2. Outputs \in Nat /\ Inputs \in Nat
  BY OrdersAssumption DEF OrdersAssumption
<1>3. DidoInv
  BY DEF OrdersInv
<1>. DEFINE Calmly == watched' = "dido" /\ changes' = Calm' /\ dbUp' /\ doBusUp'
<1>4. Calmly
  BY <1>1 DEF FreshDido, Calm
<1>5. CASE DO!Poll
  <2>1. seen' = in' /\ doPc' = "orders" /\ at' = 1 /\ doPc = "idle"
        /\ UNCHANGED <<out, logic, dodi>>
    BY <1>1, <1>3, <1>5 DEF FreshDido, DidoInv, DO!Poll, DO!roundVars, DO!dbVars, DO!devVars
  <2>. QED
    BY <1>1, <1>4, <2>1 DEF FreshDido, DidoRound, DO!Followed
<1>6. CASE DO!ReadOrder
  <2>. DEFINE o == DO!ReadNth(at)
  <2>1. /\ doPc = "orders" /\ at \in DO!Output
        /\ doTarget' = [doTarget EXCEPT ![o] = doOrder[o]]
        /\ IF at < Outputs THEN doPc' = "orders" /\ at' = at + 1
                           ELSE doPc' = "feedback" /\ at' = 1
        /\ UNCHANGED <<seen, out, logic, dodi>>
    BY <1>3, <1>6 DEF FreshDido, DidoInv, DO!ReadOrder, DO!Answered, DO!dbVars, DO!devVars
  <2>2. \A k \in 1 .. at : doTarget'[DO!ReadNth(k)] = doOrder'[DO!ReadNth(k)]
    <3>1. \A k \in DO!Output : DO!ReadNth(k) \in DO!Output
      BY OrdersAssumption DEF OrdersAssumption, DO!Output, DO!ReadNth
    <3>2. at \in 1 .. Outputs /\ DO!Output = 1 .. Outputs
      BY <2>1 DEF DO!Output
    <3>3. \A k \in 1 .. at : k \in DO!Output /\ (k = at \/ k \in 1 .. at - 1)
      BY <3>2, <1>2
    <3>4. doTarget \in [DO!Output -> {0, 1}]
      BY <1>3 DEF DidoInv, DO!TypeOK, DO!Switch
    <3>5. \A k \in 1 .. at - 1 : doTarget[DO!ReadNth(k)] = doOrder[DO!ReadNth(k)]
      BY <2>1 DEF FreshDido
    <3>. HIDE DEF o
    <3>6. \A k \in 1 .. at : doTarget'[DO!ReadNth(k)] = doOrder[DO!ReadNth(k)]
      BY <2>1, <3>1, <3>3, <3>4, <3>5 DEF o
    <3>. QED
      BY <1>1, <3>6
  <2>3. CASE at < Outputs
    <3>1. doPc' = "orders" /\ at' - 1 = at
      BY <2>1, <2>3, <1>2 DEF DO!Output
    <3>. QED
      BY <1>1, <1>4, <2>1, <2>2, <3>1 DEF FreshDido, DidoRound, DO!Followed
  <2>4. CASE ~(at < Outputs)
    <3>1. doPc' = "feedback" /\ at = Outputs
      BY <2>1, <2>4, <1>2 DEF DO!Output
    <3>2. \A x \in DO!Output : doTarget'[x] = doOrder'[x]
      <4>. DEFINE S == {x \in DO!Output : doTarget'[x] = doOrder'[x]}
      <4>1. \A k \in DO!Output : DO!ReadNth(k) \in S
        BY <2>2, <3>1, OrdersAssumption DEF OrdersAssumption, DO!Output, DO!ReadNth
      <4>. HIDE DEF S
      <4>2. DO!Output \subseteq S
        BY <4>1, AllRead
      <4>. QED
        BY <4>2 DEF S
    <3>3. doTarget' \in [DO!Output -> {0, 1}] /\ doOrder' \in [DO!Output -> {0, 1}]
      <4>1. DidoInv'
        BY <1>3, DidoStep DEF Do
      <4>. QED
        BY <4>1 DEF DidoInv, DO!TypeOK, DO!Switch, DO!Output
    <3>4. doTarget' = doOrder'
      BY <3>2, <3>3
    <3>. QED
      BY <1>1, <1>4, <2>1, <3>1, <3>4 DEF FreshDido, DidoRound, DO!Followed
  <2>. QED
    BY <2>3, <2>4
<1>7. CASE DO!ReadFeedback
  <2>1. /\ feedback' = out /\ doPc' = "write" /\ doPc = "feedback" /\ at' = 1
        /\ UNCHANGED <<doTarget, seen, out, logic, dodi>>
    BY <1>3, <1>7 DEF FreshDido, DidoInv, DO!ReadFeedback, DO!dbVars, DO!devVars
  <2>2. \A x \in DO!Output : ~(x < at') /\ feedback'[x] = out'[x]
    BY <2>1, <1>2 DEF DO!Output
  <2>. QED
    BY <1>1, <1>4, <2>1, <2>2 DEF FreshDido, DidoRound, DO!Followed
<1>8. CASE DO!WriteOutput
  <2>1. /\ doPc = "write" /\ at \in DO!Output /\ doTarget = doOrder
        /\ IF at < Outputs THEN doPc' = "write" /\ at' = at + 1 ELSE doPc' = "logic" /\ at' = 1
        /\ UNCHANGED <<doTarget, feedback, seen, logic, dodi>>
    BY <1>3, <1>8 DEF FreshDido, DidoInv, DO!WriteOutput, DO!Kept, DO!dbVars
  <2>2. out' = [out EXCEPT ![at] = doOrder[at]]
    <3>1. feedback[at] = out[at]
      BY <2>1, <1>2 DEF FreshDido, DO!Output
    <3>2. \E v \in IF doTarget[at] # feedback[at] THEN {doTarget[at]} ELSE {out[at]} :
             out' = [out EXCEPT ![at] = v]
      BY <1>8 DEF FreshDido, DO!WriteOutput, DO!Differs, DO!Sent
    <3>. QED
      BY <2>1, <3>1, <3>2
  <2>3. out \in [DO!Output -> {0, 1}] /\ doOrder \in [DO!Output -> {0, 1}]
    BY <1>3 DEF DidoInv, DO!TypeOK, DO!Switch
  <2>4. \A x \in DO!Output : x < at \/ x = at => out'[x] = doOrder[x]
    BY <2>1, <2>2, <2>3 DEF FreshDido
  <2>5. \A x \in DO!Output : x # at => out'[x] = out[x]
    BY <2>2, <2>3
  <2>6. DO!Followed => DO!Followed'
    BY <1>1, <2>1, <2>2, <2>3 DEF DO!Followed
  <2>7. CASE at < Outputs
    <3>1. at' = at + 1 /\ doPc' = "write" /\ at \in Nat
      BY <2>1, <2>7 DEF DO!Output
    <3>2. \A x \in DO!Output : x \in Nat /\ (x < at' => x < at \/ x = at)
      BY <3>1 DEF DO!Output
    <3>3. \A x \in DO!Output : ~(x < at') => x # at /\ ~(x < at)
      BY <3>1 DEF DO!Output
    <3>4. \A x \in DO!Output : IF x < at' THEN out'[x] = doOrder'[x] ELSE feedback'[x] = out'[x]
      BY <1>1, <2>1, <2>4, <2>5, <3>2, <3>3 DEF FreshDido
    <3>. QED
      BY <1>1, <1>4, <2>1, <2>6, <3>1, <3>4 DEF FreshDido, DidoRound
  <2>8. CASE ~(at < Outputs)
    <3>1. doPc' = "logic" /\ at' = 1 /\ at = Outputs
      BY <2>1, <2>8, <1>2 DEF DO!Output
    <3>2. \A x \in DO!Output : x < at \/ x = at
      BY <3>1, <1>2 DEF DO!Output
    <3>3. out' \in [DO!Output -> {0, 1}]
      BY <2>1, <2>2, <2>3
    <3>4. out' = doOrder'
      BY <1>1, <2>3, <2>4, <3>2, <3>3
    <3>5. \A i \in 1 .. at' - 1 : logic'[i] = in'[i]
      BY <3>1
    <3>. QED
      BY <1>1, <1>4, <2>1, <2>6, <3>1, <3>4, <3>5 DEF FreshDido, DidoRound
  <2>. QED
    BY <2>7, <2>8
<1>9. CASE DO!StoreInput
  <2>1. /\ doPc = "logic" /\ at \in DO!Input /\ seen = in
        /\ logic' = [logic EXCEPT ![at] = in[at]]
        /\ IF at < Inputs THEN doPc' = "logic" /\ at' = at + 1
                          ELSE doPc' = "publish" /\ at' = 1
        /\ UNCHANGED <<doTarget, feedback, seen, dodi, out>>
    BY <1>3, <1>9 DEF FreshDido, DidoInv, DO!StoreInput, DO!Sent, DO!Kept, DO!devVars
  <2>2. logic \in [DO!Input -> {0, 1}] /\ in \in [DO!Input -> {0, 1}]
    BY <1>3 DEF DidoInv, DO!TypeOK, DO!Switch
  <2>3. \A i \in 1 .. at : logic'[i] = in'[i]
    <3>1. \A i \in 1 .. at : i \in DO!Input /\ (i = at \/ i \in 1 .. at - 1)
      BY <2>1, <1>2 DEF DO!Input
    <3>2. \A i \in 1 .. at - 1 : logic[i] = in[i]
      BY <2>1 DEF FreshDido
    <3>. QED
      BY <1>1, <2>1, <2>2, <3>1, <3>2
  <2>4. DO!Followed => DO!Followed'
    BY <1>1, <2>1, <2>2 DEF DO!Followed
  <2>5. CASE at < Inputs
    <3>1. doPc' = "logic" /\ at' - 1 = at
      BY <2>1, <2>5 DEF DO!Input
    <3>. QED
      BY <1>1, <1>4, <2>1, <2>3, <2>4, <3>1 DEF FreshDido, DidoRound
  <2>6. CASE ~(at < Inputs)
    <3>1. doPc' = "publish" /\ at = Inputs
      BY <2>1, <2>6, <1>2 DEF DO!Input
    <3>2. logic' \in [DO!Input -> {0, 1}] /\ in' \in [DO!Input -> {0, 1}]
      BY <1>1, <2>1, <2>2
    <3>3. logic' = in'
      <4>1. \A i \in DO!Input : logic'[i] = in'[i]
        BY <2>3, <3>1 DEF DO!Input
      <4>. QED
        BY <3>2, <4>1
    <3>. QED
      BY <1>1, <1>4, <2>1, <2>4, <3>1, <3>3 DEF FreshDido, DidoRound
  <2>. QED
    BY <2>5, <2>6
<1>10. CASE DO!Publish
  <2>1. /\ doPc = "publish" /\ doPc' = "idle"
        /\ dodi' = [inputs |-> in, outputs |-> doOrder]
        /\ logic = in /\ out = doOrder
        /\ UNCHANGED <<logic, out>>
    BY <1>10 DEF FreshDido, DO!Publish, DO!Sent, DO!EndRound, DO!devVars
  <2>. QED
    BY <1>1, <1>4, <2>1 DEF FreshDido, DidoRound, DO!Followed
<1>. QED
  BY <1>1, <1>5, <1>6, <1>7, <1>8, <1>9, <1>10 DEF DO!RoundStep

\* Once nothing changes any more, the first round of Dido that begins leaves every output
\* and every row as ordered, and they stay so: whatever was half done before, the second
\* round is never needed (Dido::onAfterDecode).  OutputsFollow adds that rounds end.
THEOREM DidoRoundSuffices ==
  MCSpec => [](watched = "dido" /\ changes = Calm /\ doPc = "idle" => [][DidoRound]_(DO!vars))
<1>1. OrdersInv /\ CalmInv /\ watched = "dido" /\ changes = Calm /\ doPc = "idle" => FreshDido
  BY DEF FreshDido, CalmInv
<1>2. ASSUME OrdersInv, FreshDido, [MCNext]_allVars PROVE FreshDido' /\ [DidoRound]_(DO!vars)
  <2>1. CASE Do(DO!Next)
    BY <1>2, <2>1, FreshDidoStep
  <2>2. CASE UNCHANGED allVars
    BY <1>2, <2>2 DEF allVars, doVars, FreshDido, Calm, DO!vars, DO!roundVars, DO!dbVars, DO!devVars
  <2>. QED
    BY <1>2, <2>1, <2>2 DEF MCNext, Pcs, Pv, FreshDido
<1>. QED
  BY <1>1, <1>2, CalmInit, OrdersInit, OrdersStep, CalmStep, PTL DEF MCSpec

\* What a round of the PCS that began in the calm knows at each of its places: the copy is
\* the device's until the field is sent, the targets are the orders in force.
FreshPcs ==
  /\ watched = "pcs" /\ changes = Calm /\ dbUp /\ busUp
  /\ pc # "idle" => copy.power = dev.power
  /\ pc \in {"readReset", "readOrders", "onOff"} => copy.onOff = dev.onOff
  /\ pc \in {"readReset", "readOrders", "onOff", "grid"} => copy.grid = dev.grid
  /\ pc \in {"readOrders", "onOff", "grid"} => resetWish = resetFlag
  /\ pc \in {"onOff", "grid", "reset", "clearReset", "power"} => target = order
  /\ pc \in {"grid", "reset", "clearReset", "power"} => dev.onOff = order.onOff
  /\ pc \in {"reset", "clearReset", "power"} => dev.grid = GridMode(order.grid)
  /\ pc = "power" => resetFlag = 0

\* A round that ends leaves the device as ordered and no reset pending, and none undoes it.
PcsRound ==
  /\ pc # "idle" /\ pc' = "idle" => Arrived' /\ resetFlag' = 0
  /\ Arrived => Arrived'
  /\ resetFlag = 0 => resetFlag' = 0

\* In the calm only the round takes steps.
LEMMA CalmPcs ==
  ASSUME OrdersInv, FreshPcs, Next
  PROVE  RoundStep /\ UNCHANGED <<changes, dbUp, busUp, order>>
<1>1. changes = MaxChanges + 1 /\ MaxChanges \in Nat
  BY DispatchAssumption DEF DispatchAssumption, FreshPcs, Calm
<1>2. ~(changes < MaxChanges) /\ changes = Calm
  BY <1>1 DEF Calm
<1>3. RoundStep
  BY <1>2 DEF Next, EditOrders, AskReset, DeviceChanges, LinkChanges, Settle, Changing
<1>. QED
  BY <1>3 DEF RoundStep, ReadSettings, ReadReset, ReadOrders, SendOnOff, SendGrid, SendReset,
              ClearReset, SendPower, dbVars, devVars

\* Each step of such a round knows what is said of the place it leads to.
LEMMA FreshPcsStep ==
  ASSUME OrdersInv, FreshPcs, Pcs(Next)
  PROVE  FreshPcs' /\ PcsRound
<1>1. RoundStep /\ UNCHANGED <<watched, changes, dbUp, busUp, order>>
  BY CalmPcs DEF Pcs
<1>2. watched' = "pcs" /\ changes' = Calm' /\ dbUp' /\ busUp'
  BY <1>1 DEF FreshPcs, Calm
<1>3. /\ dev \in Settings /\ copy \in Settings /\ order \in Orders
      /\ resetFlag \in {0, 1} /\ resetWish \in {0, 1}
  BY DEF OrdersInv, TypeOK
<1>4. Powers \subseteq Int /\ GridModes \subseteq Int /\ Deadband \in Nat
  BY DispatchAssumption DEF DispatchAssumption
<1>5. CASE ReadSettings
  <2>1. copy' = dev /\ pc = "idle" /\ pc' = "readReset" /\ UNCHANGED <<dev, resetFlag>>
    <3>1. copy' = Refreshed(DOMAIN copy)
      BY <1>5 DEF FreshPcs, ReadSettings
    <3>2. copy' = dev
      BY <1>3, <3>1 DEF Refreshed, Settings
    <3>. QED
      BY <1>5, <3>2 DEF ReadSettings, dbVars, devVars
  <2>. QED
    BY <1>1, <1>2, <2>1 DEF FreshPcs, PcsRound, Arrived
<1>6. CASE ReadReset
  <2>1. /\ pc = "readReset" /\ pc' = "readOrders" /\ resetWish' = resetFlag
        /\ UNCHANGED <<copy, dev, resetFlag>>
    BY <1>6 DEF FreshPcs, ReadReset, Answered, dbVars, devVars
  <2>. QED
    BY <1>1, <1>2, <2>1 DEF FreshPcs, PcsRound, Arrived
<1>7. CASE ReadOrders
  <2>1. /\ pc = "readOrders" /\ pc' = "onOff" /\ target' = order
        /\ UNCHANGED <<copy, resetWish, dev, resetFlag>>
    BY <1>7 DEF FreshPcs, ReadOrders, dbVars, devVars
  <2>. QED
    BY <1>1, <1>2, <2>1 DEF FreshPcs, PcsRound, Arrived
<1>8. CASE SendOnOff
  <2>1. /\ pc = "onOff" /\ pc' = "grid" /\ target = order
        /\ UNCHANGED <<copy, target, resetWish, resetFlag>>
    BY <1>8 DEF FreshPcs, SendOnOff, roundVars, dbVars
  <2>2. dev' = [dev EXCEPT !.onOff = order.onOff]
    <3>1. copy.onOff = dev.onOff
      BY <2>1 DEF FreshPcs
    <3>2. dev' \in IF order.onOff # copy.onOff THEN {[dev EXCEPT !.onOff = order.onOff]} ELSE {dev}
      BY <1>8, <2>1 DEF FreshPcs, SendOnOff, Sent
    <3>. QED
      BY <1>3, <3>1, <3>2 DEF Settings
  <2>3. dev'.onOff = order.onOff /\ dev'.grid = dev.grid /\ dev'.power = dev.power
    BY <1>3, <2>2 DEF Settings
  <2>. QED
    BY <1>1, <1>2, <2>1, <2>3 DEF FreshPcs, PcsRound, Arrived
<1>9. CASE SendGrid
  <2>1. /\ pc = "grid" /\ pc' = (IF resetWish = 1 THEN "reset" ELSE "power") /\ target = order
        /\ UNCHANGED <<copy, target, resetWish, resetFlag>>
    BY <1>9 DEF FreshPcs, SendGrid, roundVars, dbVars
  <2>2. dev' = [dev EXCEPT !.grid = GridMode(order.grid)]
    <3>1. copy.grid = dev.grid /\ dev.grid \in {0, 1}
      BY <1>3, <2>1 DEF FreshPcs, Settings
    <3>2. dev' \in IF order.grid # copy.grid THEN {[dev EXCEPT !.grid = GridMode(order.grid)]}
                                             ELSE {dev}
      BY <1>9, <2>1 DEF FreshPcs, SendGrid, Sent
    <3>3. order.grid = copy.grid => GridMode(order.grid) = dev.grid
      BY <3>1 DEF GridMode
    <3>. QED
      BY <1>3, <3>2, <3>3 DEF Settings
  <2>3. dev'.grid = GridMode(order.grid) /\ dev'.onOff = dev.onOff /\ dev'.power = dev.power
    BY <1>3, <2>2 DEF Settings
  <2>4. GridMode(order'.grid) = GridMode(order.grid)
    BY <1>1
  <2>5. pc' = "power" => resetFlag' = 0
    BY <1>3, <2>1 DEF FreshPcs
  <2>. QED
    BY <1>1, <1>2, <2>1, <2>3, <2>4, <2>5 DEF FreshPcs, PcsRound, Arrived
<1>10. CASE SendReset
  <2>1. /\ pc = "reset" /\ pc' = "clearReset"
        /\ UNCHANGED <<copy, target, resetWish, dev, resetFlag>>
    BY <1>10 DEF SendReset, AfterReset, roundVars, dbVars, devVars
  <2>. QED
    BY <1>1, <1>2, <2>1 DEF FreshPcs, PcsRound, Arrived, GridMode
<1>11. CASE ClearReset
  <2>1. /\ pc = "clearReset" /\ pc' = "power" /\ resetFlag' = 0
        /\ UNCHANGED <<copy, target, resetWish, dev>>
    BY <1>11 DEF FreshPcs, ClearReset, roundVars, devVars
  <2>. QED
    BY <1>1, <1>2, <2>1 DEF FreshPcs, PcsRound, Arrived, GridMode
<1>12. CASE SendPower
  <2>1. pc = "power" /\ pc' = "idle" /\ UNCHANGED resetFlag /\ target = order
    BY <1>12 DEF FreshPcs, SendPower, EndRound, dbVars
  <2>2. copy.power = dev.power /\ dev.power \in Int /\ order.power \in Int
    BY <1>3, <1>4, <2>1 DEF FreshPcs, Settings, Orders
  <2>3. dev' = IF Deviates(order.power) THEN [dev EXCEPT !.power = order.power] ELSE dev
    BY <1>12, <2>1 DEF FreshPcs, SendPower, Sent
  <2>4. dev'.onOff = dev.onOff /\ dev'.grid = dev.grid
    BY <1>3, <2>3 DEF Settings
  <2>5. dev'.power - order.power <= Deadband /\ order.power - dev'.power <= Deadband
    <3>1. CASE Deviates(order.power)
      BY <1>3, <1>4, <2>2, <2>3, <3>1 DEF Settings
    <3>2. CASE ~Deviates(order.power)
      BY <1>4, <2>2, <2>3, <3>2 DEF Deviates
    <3>. QED
      BY <3>1, <3>2
  <2>6. Arrived'
    BY <1>1, <2>1, <2>4, <2>5 DEF FreshPcs, Arrived, GridMode
  <2>. QED
    BY <1>1, <1>2, <2>1, <2>6 DEF FreshPcs, PcsRound
<1>. QED
  BY <1>1, <1>5, <1>6, <1>7, <1>8, <1>9, <1>10, <1>11, <1>12 DEF RoundStep

\* Once nothing changes any more, the first round of the PCS that begins leaves the device
\* switched, in its mode and within the dead band of the power ordered, with no reset
\* pending, and no later round undoes it, for any dead band: what is within it is not chased
\* (PCS_Smarten::dispatchHmiControlCommands).  OrdersArrive and ResetTakenDown add that
\* rounds end.
THEOREM PcsRoundSuffices ==
  MCSpec => [](watched = "pcs" /\ changes = Calm /\ pc = "idle" => [][PcsRound]_vars)
<1>1. OrdersInv /\ CalmInv /\ watched = "pcs" /\ changes = Calm /\ pc = "idle" => FreshPcs
  BY DEF FreshPcs, CalmInv
<1>2. ASSUME OrdersInv, FreshPcs, [MCNext]_allVars PROVE FreshPcs' /\ [PcsRound]_vars
  <2>1. CASE Pcs(Next)
    BY <1>2, <2>1, FreshPcsStep
  <2>2. CASE UNCHANGED allVars
    BY <1>2, <2>2 DEF allVars, pcsVars, FreshPcs, Calm, GridMode, vars, roundVars, dbVars, devVars
  <2>. QED
    BY <1>2, <2>1, <2>2 DEF MCNext, Do, Pv, FreshPcs
<1>. QED
  BY <1>1, <1>2, CalmInit, OrdersInit, OrdersStep, CalmStep, PTL DEF MCSpec

\* Products keep the order of their factors.
LEMMA Products ==
  ASSUME NEW x \in Int, NEW y \in Int, NEW k \in Nat, x <= y
  PROVE  x * k \in Int /\ y * k \in Int /\ x * k <= y * k
OBVIOUS

\* Division with remainder.
LEMMA Quotient ==
  ASSUME NEW a \in Int, NEW b \in Nat \ {0}
  PROVE  a \div b \in Int /\ b * (a \div b) <= a /\ a < b * (a \div b) + b
OBVIOUS

\* What an inverter is sent, or keeps since it is within the dead band, is its share of the
\* limit: the quotient is rounded to the nearest and none is cut to 16 bits.
LEMMA ShareIsNear ==
  ASSUME NEW c \in 1 .. MaxUnits, NEW t \in 0 .. c * Rated, NEW r \in Int,
         PV!Share(t, c) - r <= LimitDeadband, r - PV!Share(t, c) <= LimitDeadband
  PROVE  LET k == c * Rated
             off == r * k - 1000 * t
         IN  off <= (LimitDeadband + 1) * k /\ -off <= (LimitDeadband + 1) * k
<1>. DEFINE k == c * Rated
            a == 2000 * t + k
            b == 2 * k
            q == a \div b
<1>1. /\ MaxUnits \in Nat /\ Rated \in Nat \ {0} /\ LimitDeadband \in Nat
      /\ c \in Nat \ {0} /\ c <= MaxUnits
  BY OrdersAssumption DEF OrdersAssumption
<1>2. k \in Nat \ {0}
  <2>1. \A x, y \in Nat \ {0} : x * y \in Nat \ {0}
    OBVIOUS
  <2>. QED
    BY <1>1, <2>1
<1>3. 2 * c * Rated = 2 * k
  BY <1>1
<1>4. t \in Int /\ 0 <= t /\ t <= k
  BY <1>2
<1>5. PV!Share(t, c) = q % 2^16
  BY <1>3 DEF PV!Share
<1>. HIDE DEF k
<1>6. /\ q \in Int
      /\ (2 * k) * q <= 2000 * t + k /\ 2000 * t + k < (2 * k) * q + 2 * k
  <2>1. a \in Int /\ b \in Nat \ {0}
    BY <1>2, <1>4
  <2>. HIDE DEF a, b
  <2>2. q \in Int /\ b * q <= a /\ a < b * q + b
    BY <2>1, Quotient
  <2>. QED
    BY <2>2 DEF a, b
<1>. HIDE DEF q
<1>7. q * k \in Int /\ (2 * k) * q = 2 * (q * k)
  BY <1>2, <1>6
<1>8. q * k - 1000 * t <= k /\ 1000 * t - q * k <= k
  BY <1>2, <1>4, <1>6, <1>7
<1>9. q \in 0 .. 1000
  <2>1. 0 <= q
    <3>1. SUFFICES ASSUME q <= -1 PROVE FALSE
      BY <1>6
    <3>2. q * k <= (-1) * k
      BY <1>2, <1>6, <3>1, Products
    <3>. QED
      BY <1>2, <1>4, <1>6, <1>7, <3>2
  <2>2. q <= 1000
    <3>1. SUFFICES ASSUME 1001 <= q PROVE FALSE
      BY <1>6
    <3>2. 1001 * k <= q * k
      BY <1>2, <1>6, <3>1, Products
    <3>. QED
      BY <1>2, <1>4, <1>6, <1>7, <3>2
  <2>. QED
    BY <1>6, <2>1, <2>2
<1>10. PV!Share(t, c) = q
  BY <1>5, <1>9
<1>11. (r - q) * k <= LimitDeadband * k /\ (q - r) * k <= LimitDeadband * k
  BY <1>1, <1>2, <1>6, <1>10, Products
<1>12. /\ (r - q) * k = r * k - q * k /\ (q - r) * k = q * k - r * k
       /\ (LimitDeadband + 1) * k = LimitDeadband * k + k
       /\ r * k \in Int /\ LimitDeadband * k \in Int
  BY <1>1, <1>2, <1>6
<1>13. /\ r * k - 1000 * t <= (LimitDeadband + 1) * k
       /\ -(r * k - 1000 * t) <= (LimitDeadband + 1) * k
  BY <1>2, <1>4, <1>7, <1>8, <1>11, <1>12
<1>. QED
  BY <1>13 DEF k

\* What a round of SunPv that began in the calm knows at each of its places: limit and count
\* are those in force, and every inverter it has passed is at its share.
FreshPv ==
  /\ watched = "pv" /\ changes = Calm /\ dbUp /\ PV!Sensible
  /\ pvPc # "idle" => total = limit
  /\ pvPc \in {"probe", "read", "limit", "publish"} => n = PV!Clamped(count) /\ n >= 1
  /\ pvPc = "limit" /\ unit \in answering => cur = reg[unit]
  /\ pvPc \in {"probe", "read", "limit"} => \A u \in answering : u < unit => PV!AtShare(u)
  /\ pvPc = "publish" => \A u \in answering : u <= unit => PV!AtShare(u)

\* A round that ends leaves every inverter that answers at its share, and none undoes it.
PvRound ==
  /\ pvPc # "idle" /\ pvPc' = "idle" => PV!Shared'
  /\ PV!Shared => PV!Shared'

\* In the calm only the round takes steps.
LEMMA CalmPv ==
  ASSUME OrdersInv, FreshPv, PV!Next
  PROVE  PV!RoundStep /\ UNCHANGED <<changes, dbUp, limit, count, answering>>
<1>1. changes = MaxChanges + 1 /\ MaxChanges \in Nat
  BY DispatchAssumption DEF DispatchAssumption, FreshPv, Calm
<1>2. ~(changes < MaxChanges) /\ changes = PV!Calm
  BY <1>1 DEF PV!Calm
<1>3. PV!RoundStep
  BY <1>2 DEF PV!Next, PV!EditOrders, PV!UnitChanges, PV!LinkChanges, PV!Settle, PV!Changing
<1>. QED
  BY <1>3 DEF PV!RoundStep, PV!ReadLimit, PV!ReadCount, PV!ProbeUnit, PV!ReadFields,
              PV!WritePowerLimit, PV!Publish

\* A step that leaves limit, count and registers alone leaves every inverter where it is.
LEMMA SharesStand ==
  ASSUME UNCHANGED <<limit, count, answering, reg>>
  PROVE  /\ \A u \in answering : PV!AtShare(u)' <=> PV!AtShare(u)
         /\ PV!Shared' <=> PV!Shared
BY DEF PV!AtShare, PV!Shared, PV!Clamped

\* Once the last inverter is passed all are at their shares.
LEMMA AllPassed ==
  ASSUME OrdersInv, FreshPv, pvPc \in {"probe", "read", "limit", "publish"},
         \A u \in answering : u <= n => PV!AtShare(u)
  PROVE  PV!Shared
BY DEF FreshPv, PV!Shared

\* Where the round goes on or ends once an inverter is passed.
LEMMA PassedOn ==
  ASSUME OrdersInv, FreshPv, pvPc \in {"probe", "publish"}, PV!NextUnit,
         UNCHANGED <<watched, changes, dbUp, limit, count, answering, reg>>,
         \A u \in answering : u <= unit => PV!AtShare(u)
  PROVE  FreshPv' /\ PvRound
<1>1. unit \in Nat /\ n \in Nat /\ unit <= n /\ answering \subseteq Int
  BY OrdersAssumption DEF OrdersAssumption, OrdersInv, PvInv, PV!TypeOK, PV!Unit
<1>2. PV!Sensible' /\ Calm' = Calm
  BY DEF FreshPv, PV!Sensible, PV!Clamped, Calm
<1>3. CASE unit < n
  <2>1. pvPc' = "probe" /\ unit' = unit + 1 /\ UNCHANGED <<total, n>>
    BY <1>3 DEF PV!NextUnit
  <2>2. \A u \in answering' : u < unit' => PV!AtShare(u)'
    <3>1. \A u \in answering : u < unit + 1 => u <= unit
      BY <1>1
    <3>. QED
      BY <2>1, <3>1, SharesStand
  <2>3. n' = PV!Clamped(count') /\ n' >= 1 /\ total' = limit'
    BY <2>1 DEF FreshPv, PV!Clamped
  <2>. QED
    BY <1>2, <2>1, <2>2, <2>3, SharesStand DEF FreshPv, PvRound, PV!Clamped
<1>4. CASE ~(unit < n)
  <2>1. pvPc' = "idle"
    BY <1>4 DEF PV!NextUnit, PV!EndRound
  <2>2. unit = n
    BY <1>1, <1>4
  <2>3. PV!Shared
    BY <2>2, AllPassed
  <2>. QED
    BY <1>2, <2>1, <2>3, SharesStand DEF FreshPv, PvRound
<1>. QED
  BY <1>3, <1>4

\* Each step of such a round knows what is said of the place it leads to.
LEMMA FreshPvStep ==
  ASSUME OrdersInv, FreshPv, Pv(PV!Next)
  PROVE  FreshPv' /\ PvRound
<1>1. PV!RoundStep /\ UNCHANGED <<watched, changes, dbUp, limit, count, answering>>
  BY CalmPv DEF Pv
<1>2. PV!Sensible' /\ watched' = "pv" /\ changes' = Calm' /\ dbUp'
  BY <1>1 DEF FreshPv, PV!Sensible, PV!Clamped, Calm
<1>3. /\ MaxUnits \in Nat /\ Rated \in Nat \ {0} /\ LimitDeadband \in Nat
      /\ MaxUnits * Rated < 2^16
  BY OrdersAssumption DEF OrdersAssumption
<1>4. /\ unit \in 1 .. MaxUnits /\ n \in 0 .. MaxUnits /\ answering \subseteq 1 .. MaxUnits
      /\ reg \in [1 .. MaxUnits -> PV!Word] /\ count \in Int
      /\ pvPc \in {"idle", "count"} => unit = 1
      /\ pvPc \in {"probe", "read", "limit", "publish"} => unit <= n
  BY OrdersAssumption DEF OrdersAssumption, OrdersInv, PvInv, PV!TypeOK, PV!Unit
<1>5. PV!Clamped(count) \in 0 .. MaxUnits
  BY <1>3, <1>4 DEF PV!Clamped
<1>6. limit \in 0 .. 2^16 - 1
  <2>1. PV!Clamped(count) * Rated <= MaxUnits * Rated /\ PV!Clamped(count) * Rated \in Int
        /\ MaxUnits * Rated \in Int
    BY <1>3, <1>5, Products
  <2>2. limit \in 0 .. PV!Clamped(count) * Rated
    BY DEF FreshPv, PV!Sensible
  <2>. QED
    BY <1>3, <2>1, <2>2
<1>7. CASE PV!ReadLimit
  <2>1. pvPc = "idle" /\ pvPc' = "count" /\ total' = limit % 2^16 /\ UNCHANGED reg
    BY <1>7 DEF PV!ReadLimit
  <2>2. total' = limit
    BY <1>6, <2>1
  <2>. QED
    BY <1>1, <1>2, <2>1, <2>2, SharesStand DEF FreshPv, PvRound
<1>8. CASE PV!ReadCount
  <2>1. pvPc = "count" /\ UNCHANGED reg
    BY <1>8 DEF PV!ReadCount
  <2>2. CASE PV!Clamped(count) > 0
    <3>1. n' = PV!Clamped(count) /\ pvPc' = "probe" /\ UNCHANGED <<total, unit, cur>>
      BY <1>8, <2>2 DEF FreshPv, PV!ReadCount
    <3>2. n' = PV!Clamped(count') /\ n' >= 1 /\ total' = limit'
      BY <1>1, <1>5, <2>1, <2>2, <3>1 DEF FreshPv
    <3>3. \A u \in answering' : ~(u < unit')
      BY <1>1, <1>4, <2>1, <3>1
    <3>. QED
      BY <1>1, <1>2, <2>1, <3>1, <3>2, <3>3, SharesStand DEF FreshPv, PvRound
  <2>3. CASE ~(PV!Clamped(count) > 0)
    <3>1. pvPc' = "idle"
      BY <1>8, <2>3 DEF PV!ReadCount, PV!EndRound
    <3>2. PV!Shared
      BY <1>4, <1>5, <2>3 DEF PV!Shared
    <3>. QED
      BY <1>1, <1>2, <2>1, <3>1, <3>2, SharesStand DEF FreshPv, PvRound
  <2>. QED
    BY <2>2, <2>3
<1>9. CASE PV!ProbeUnit
  <2>1. pvPc = "probe" /\ UNCHANGED reg /\ \A u \in answering : u < unit => PV!AtShare(u)
    BY <1>9 DEF FreshPv, PV!ProbeUnit
  <2>2. CASE unit \in answering
    <3>1. pvPc' = "read" /\ UNCHANGED <<total, n, unit, cur>>
      BY <1>9, <2>2 DEF FreshPv, PV!ProbeUnit, PV!roundVars
    <3>2. n' = PV!Clamped(count') /\ n' >= 1 /\ total' = limit'
      BY <1>1, <2>1, <3>1 DEF FreshPv
    <3>. QED
      BY <1>1, <1>2, <2>1, <3>1, <3>2, SharesStand DEF FreshPv, PvRound
  <2>3. CASE unit \notin answering
    <3>1. PV!NextUnit
      BY <1>9, <2>3 DEF FreshPv, PV!ProbeUnit
    <3>2. \A u \in answering : u <= unit => PV!AtShare(u)
      <4>1. \A u \in answering : u <= unit => u < unit
        BY <1>4, <2>3
      <4>. QED
        BY <2>1, <4>1
    <3>. QED
      BY <1>1, <2>1, <3>1, <3>2, PassedOn
  <2>. QED
    BY <2>2, <2>3
<1>10. CASE PV!ReadFields
  <2>1. /\ pvPc = "read" /\ pvPc' = "limit" /\ UNCHANGED <<total, n, unit, reg>>
        /\ unit \in answering => cur' = reg[unit]
    BY <1>10 DEF PV!ReadFields
  <2>2. n' = PV!Clamped(count') /\ n' >= 1 /\ total' = limit'
    BY <1>1, <2>1 DEF FreshPv
  <2>3. unit' \in answering' => cur' = reg'[unit']
    BY <1>1, <2>1
  <2>4. \A u \in answering' : u < unit' => PV!AtShare(u)'
    BY <1>1, <2>1, SharesStand DEF FreshPv
  <2>. QED
    BY <1>1, <1>2, <2>1, <2>2, <2>3, <2>4, SharesStand DEF FreshPv, PvRound
<1>11. CASE PV!WritePowerLimit
  <2>. DEFINE share == PV!Share(total, n)
  <2>1. /\ pvPc = "limit" /\ pvPc' = "publish" /\ UNCHANGED <<total, n, unit, cur>>
        /\ total = limit /\ n = PV!Clamped(count) /\ n >= 1
    BY <1>11 DEF FreshPv, PV!WritePowerLimit, PV!roundVars
  <2>2. n \in 1 .. MaxUnits /\ total \in 0 .. n * Rated /\ share \in PV!Word
    <3>1. n \in 1 .. MaxUnits /\ total \in 0 .. n * Rated
      BY <1>4, <2>1 DEF FreshPv, PV!Sensible
    <3>2. total \in Int /\ n \in Nat \ {0}
      BY <1>6, <2>1, <3>1
    <3>. QED
      BY <3>1, <3>2, ShareIsWord
  <2>. HIDE DEF share
  <2>3. share \in Int /\ \A u \in 1 .. MaxUnits : reg[u] \in Int
    <3>1. \A x \in PV!Word : x \in Int
      BY DEF PV!Word
    <3>. QED
      BY <1>4, <2>2, <3>1
  <2>4. reg' \in {reg, [reg EXCEPT ![unit] = share]}
    BY <1>11 DEF PV!WritePowerLimit, share
  <2>5. unit \in answering => /\ share - reg'[unit] <= LimitDeadband
                              /\ reg'[unit] - share <= LimitDeadband
    <3>1. SUFFICES ASSUME unit \in answering
                   PROVE  /\ share - reg'[unit] <= LimitDeadband
                          /\ reg'[unit] - share <= LimitDeadband
      OBVIOUS
    <3>2. cur = reg[unit] /\ reg[unit] \in Int
      BY <1>4, <2>1, <2>3, <3>1 DEF FreshPv
    <3>3. CASE PV!Deviates(share)
      <4>1. reg' = [reg EXCEPT ![unit] = share]
        BY <1>11, <3>1, <3>3 DEF PV!WritePowerLimit, share
      <4>2. reg'[unit] = share
        BY <1>4, <4>1
      <4>. QED
        BY <1>3, <2>3, <4>2
    <3>4. CASE ~PV!Deviates(share)
      <4>1. reg' = reg
        BY <1>11, <3>4 DEF PV!WritePowerLimit, share
      <4>. QED
        BY <1>3, <2>3, <3>2, <3>4, <4>1 DEF PV!Deviates
    <3>. QED
      BY <3>3, <3>4
  <2>6. \A u \in answering : u = unit => PV!AtShare(u)'
    <3>1. SUFFICES ASSUME unit \in answering, NEW u \in answering, u = unit PROVE PV!AtShare(u)'
      OBVIOUS
    <3>2. reg'[unit] \in Int
      BY <1>4, <2>3, <2>4
    <3>3. LET k == n * Rated
              off == reg'[unit] * k - 1000 * total
          IN  off <= (LimitDeadband + 1) * k /\ -off <= (LimitDeadband + 1) * k
      BY <2>2, <2>5, <3>1, <3>2, ShareIsNear DEF share
    <3>4. PV!Clamped(count)' = n /\ limit' = total
      BY <1>1, <2>1 DEF PV!Clamped
    <3>. QED
      BY <3>1, <3>3, <3>4, <2>1 DEF PV!AtShare
  <2>7. \A u \in answering : u # unit => (PV!AtShare(u)' <=> PV!AtShare(u))
    <3>1. \A u \in answering : u # unit => reg'[u] = reg[u]
      BY <1>4, <2>4
    <3>. QED
      BY <1>1, <3>1 DEF PV!AtShare, PV!Clamped
  <2>8. \A u \in answering' : u <= unit' => PV!AtShare(u)'
    <3>1. \A u \in answering : u <= unit => u < unit \/ u = unit
      BY <1>4
    <3>. QED
      BY <1>1, <2>1, <2>6, <2>7, <3>1 DEF FreshPv
  <2>9. PV!Shared => PV!Shared'
    <3>1. SUFFICES ASSUME PV!Shared, NEW u \in answering', u <= PV!Clamped(count)'
                   PROVE  PV!AtShare(u)'
      BY DEF PV!Shared
    <3>2. u \in answering /\ u <= PV!Clamped(count)
      BY <1>1, <3>1 DEF PV!Clamped
    <3>3. PV!AtShare(u)
      BY <3>1, <3>2 DEF PV!Shared
    <3>. QED
      BY <2>6, <2>7, <3>2, <3>3
  <2>10. n' = PV!Clamped(count') /\ n' >= 1 /\ total' = limit'
    BY <1>1, <2>1
  <2>. QED
    BY <1>1, <1>2, <2>1, <2>8, <2>9, <2>10 DEF FreshPv, PvRound
<1>12. CASE PV!Publish
  <2>1. pvPc = "publish" /\ PV!NextUnit /\ UNCHANGED reg
        /\ \A u \in answering : u <= unit => PV!AtShare(u)
    BY <1>12 DEF FreshPv, PV!Publish
  <2>. QED
    BY <1>1, <2>1, PassedOn
<1>. QED
  BY <1>1, <1>7, <1>8, <1>9, <1>10, <1>11, <1>12 DEF PV!RoundStep

\* Once nothing changes any more and the limit is one the plant can be given, the first
\* round of SunPv that begins leaves every inverter that answers at its share, within the
\* dead band and the rounding, and no later round undoes it, for any rating, dead band and
\* number of inverters (SunPv::writePowerLimit).  LimitsArrive adds that rounds end.
THEOREM PvRoundSuffices ==
  MCSpec => [](watched = "pv" /\ changes = Calm /\ pvPc = "idle" /\ PV!Sensible
                 => [][PvRound]_(PV!vars))
<1>1. OrdersInv /\ CalmInv /\ watched = "pv" /\ changes = Calm /\ pvPc = "idle" /\ PV!Sensible
        => FreshPv
  BY DEF FreshPv, CalmInv
<1>2. ASSUME OrdersInv, FreshPv, [MCNext]_allVars PROVE FreshPv' /\ [PvRound]_(PV!vars)
  <2>1. CASE Pv(PV!Next)
    BY <1>2, <2>1, FreshPvStep
  <2>2. CASE UNCHANGED allVars
    <3>1. UNCHANGED PV!vars /\ UNCHANGED <<watched, dbUp, changes, pvPc, total, n, unit, cur, limit,
                                           count, reg, answering>>
      BY <2>2 DEF allVars, pvVars, PV!vars, PV!roundVars
    <3>. QED
      BY <1>2, <3>1 DEF FreshPv, Calm, PV!AtShare, PV!Sensible, PV!Clamped
  <2>. QED
    BY <1>2, <2>1, <2>2 DEF MCNext, Pcs, Do, FreshPv
<1>. QED
  BY <1>1, <1>2, CalmInit, OrdersInit, OrdersStep, CalmStep, PTL DEF MCSpec
=============================================================================
