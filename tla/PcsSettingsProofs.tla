-------------------------- MODULE PcsSettingsProofs --------------------------
(***************************************************************************)
(* Theorems of module PcsSettings, for any number of parameters, scaled or *)
(* not: what is stored was read from the device, and what is reported as   *)
(* written has been written.                                               *)
(***************************************************************************)
EXTENDS PcsSettings, TLAPS

\* The parameters refreshed so far are the device's.
CopyFollows ==
  quiet =>
    /\ pc = "refresh" => \A p \in Param : p < at => copy[p] = dev[p]
    /\ pc \in {"store", "clearRead", "load"} => \A p \in Param : copy[p] = dev[p]

\* The parameters written so far are as asked, the others as they were refreshed.
DeviceFollows ==
  quiet /\ ~unanswered =>
    /\ pc = "send" =>
         /\ \A p \in Param : p < at => dev[p] = Desired(p, asked[p])
         /\ \A p \in Param : p >= at => copy[p] = dev[p]
    /\ pc = "clearWrite" => \A p \in Param : dev[p] = Desired(p, asked[p])

SettingsInv ==
  /\ TypeOK
  /\ pc \in {"select", "store", "clearRead", "clearWrite"} => at = 1
  /\ CopyFollows
  /\ DeviceFollows

------------------------------------------------------------------------------

LEMMA ParamBounds == N \in Nat /\ N >= 1 /\ 1 \in Param /\ Param \subseteq Nat
BY SettingsAssumption DEF SettingsAssumption, Param

LEMMA ValuesNat == Values \subseteq Nat /\ MaxChanges \in Nat
BY SettingsAssumption DEF SettingsAssumption

LEMMA DesiredNat == ASSUME NEW p, NEW v \in Nat PROVE Desired(p, v) \in Nat
<1>1. 10 * (v \div 10) \in Nat
  OBVIOUS
<1> QED
  BY <1>1 DEF Desired

\* The end of a round leaves nothing to keep.
LEMMA EndKeeps ==
  ASSUME SettingsInv, EndRound, copy' \in [Param -> Nat], rows' \in [Param -> Nat],
         flags' \subseteq Flags, UNCHANGED <<dbUp, devVars, changes>>
  PROVE  SettingsInv'
<1>1. TypeOK'
  BY ParamBounds DEF EndRound, SettingsInv, TypeOK, devVars, PC, Blank
<1> QED
  BY <1>1 DEF EndRound, SettingsInv, CopyFollows, DeviceFollows

LEMMA InitInv == Init => SettingsInv
<1> SUFFICES ASSUME Init PROVE SettingsInv
  OBVIOUS
<1>1. TypeOK
  <2>1. 0 \in 0 .. Calm
    BY ValuesNat DEF Calm
  <2>2. dev \in [Param -> Nat] /\ Blank \in [Param -> Nat]
    BY ValuesNat DEF Init, Blank
  <2> QED
    BY <2>1, <2>2, ParamBounds DEF Init, TypeOK, PC, Flags
<1> QED
  BY <1>1 DEF Init, SettingsInv, CopyFollows, DeviceFollows

LEMMA SelectReadKeeps == ASSUME SettingsInv, SelectRead PROVE SettingsInv'
<1>1. TypeOK'
  BY ParamBounds DEF SelectRead, SettingsInv, TypeOK, dbVars, devVars, hist, PC, Flags
<1> QED
  BY <1>1 DEF SelectRead, SettingsInv, CopyFollows, DeviceFollows

LEMMA SelectWriteKeeps == ASSUME SettingsInv, SelectWrite PROVE SettingsInv'
<1> USE DEF SelectWrite
<1>1. CASE EndRound
  BY <1>1, EndKeeps DEF SettingsInv, TypeOK, dbVars
<1>2. CASE pc' = "refresh" /\ want' \subseteq Flags /\ UNCHANGED <<at, asked, hist>>
  <2>1. TypeOK'
    BY <1>2 DEF SettingsInv, TypeOK, dbVars, devVars, hist, PC
  <2>2. \A p \in Param : ~(p < at')
    BY <1>2, ParamBounds DEF SettingsInv, Param
  <2> QED
    BY <1>2, <2>1, <2>2 DEF SettingsInv, CopyFollows, DeviceFollows
<1>3. want \cup (flags \cap {"write"}) \subseteq Flags
  BY DEF SettingsInv, TypeOK
<1> QED
  BY <1>1, <1>2, <1>3

LEMMA RefreshKeeps == ASSUME SettingsInv, Refresh PROVE SettingsInv'
<1> USE DEF Refresh
<1>1. copy' \in [Param -> Nat] /\ at \in Param /\ at \in Nat
  BY ParamBounds DEF SettingsInv, TypeOK
<1>2. CASE EndRound
  BY <1>1, <1>2, EndKeeps DEF SettingsInv, TypeOK, dbVars
<1>3. CASE Refreshed /\ NextParam(AfterRefresh) /\ UNCHANGED <<callVars, hist>>
  <2>1. /\ copy' = [copy EXCEPT ![at] = dev[at]]
        /\ UNCHANGED <<dev, quiet>>
    BY <1>3 DEF Refreshed, devVars, hist
  <2>2. quiet => \A p \in Param : p <= at => copy'[p] = dev[p]
    BY <1>1, <2>1, ParamBounds DEF SettingsInv, CopyFollows, TypeOK
  <2>3. CASE Last(at)
    <3>1. pc' = AfterRefresh /\ at' = 1 /\ AfterRefresh \in {"store", "load"}
      BY <1>3, <2>3 DEF NextParam, AfterRefresh
    <3>2. TypeOK'
      BY <1>1, <1>3, <3>1, ParamBounds
      DEF SettingsInv, TypeOK, callVars, dbVars, devVars, hist, PC
    <3>3. \A p \in Param : p <= at
      BY <2>3, ParamBounds DEF Last, Param
    <3> QED
      BY <2>1, <2>2, <3>1, <3>2, <3>3 DEF SettingsInv, CopyFollows, DeviceFollows
  <2>4. CASE ~Last(at)
    <3>1. pc' = "refresh" /\ at' = at + 1 /\ at + 1 \in Param
      BY <1>1, <1>3, <2>4, ParamBounds DEF NextParam, Last, Param
    <3>2. TypeOK'
      BY <1>1, <1>3, <3>1 DEF SettingsInv, TypeOK, callVars, dbVars, devVars, hist, PC
    <3>3. \A p \in Param : p < at' => p <= at
      BY <1>1, <3>1, ParamBounds
    <3> QED
      BY <2>1, <2>2, <3>1, <3>2, <3>3 DEF SettingsInv, CopyFollows, DeviceFollows
  <2> QED
    BY <2>3, <2>4
<1> QED
  BY <1>2, <1>3

LEMMA StoreKeeps == ASSUME SettingsInv, Store PROVE SettingsInv'
<1> USE DEF Store
<1>1. rows' \in [Param -> Nat]
  BY DEF SettingsInv, TypeOK
<1>2. CASE EndRound
  BY <1>1, <1>2, EndKeeps DEF SettingsInv, TypeOK
<1>3. CASE Goto("clearRead")
  <2> USE <1>3 DEF Goto
  <2>1. TypeOK'
    BY <1>1, ParamBounds DEF SettingsInv, TypeOK, callVars, devVars, hist, PC
  <2> QED
    BY <2>1 DEF SettingsInv, CopyFollows, DeviceFollows, devVars, hist
<1> QED
  BY <1>2, <1>3

LEMMA ClearReadKeeps == ASSUME SettingsInv, ClearRead PROVE SettingsInv'
<1> USE DEF ClearRead
<1>1. flags' \subseteq Flags
  BY DEF SettingsInv, TypeOK, TakenDown
<1>2. CASE EndRound
  BY <1>1, <1>2, EndKeeps DEF SettingsInv, TypeOK
<1>3. CASE Goto("load")
  <2> USE <1>3 DEF Goto
  <2>1. TypeOK'
    BY <1>1, ParamBounds DEF SettingsInv, TypeOK, callVars, devVars, hist, PC
  <2> QED
    BY <2>1 DEF SettingsInv, CopyFollows, DeviceFollows, devVars, hist
<1> QED
  BY <1>2, <1>3

LEMMA LoadKeeps == ASSUME SettingsInv, Load PROVE SettingsInv'
<1> USE DEF Load
<1>1. CASE EndRound
  BY <1>1, EndKeeps DEF SettingsInv, TypeOK, dbVars
<1>2. CASE /\ asked' = [asked EXCEPT ![at] = rows[at]]
           /\ NextParam("send") /\ UNCHANGED <<want, hist>>
  <2>1. asked' \in [Param -> Nat] /\ at \in Param
    BY <1>2 DEF SettingsInv, TypeOK
  <2>2. CASE Last(at)
    <3>1. pc' = "send" /\ at' = 1
      BY <1>2, <2>2 DEF NextParam
    <3>2. TypeOK'
      BY <1>2, <2>1, <3>1, ParamBounds DEF SettingsInv, TypeOK, dbVars, devVars, hist, PC
    <3>3. \A p \in Param : ~(p < at')
      BY <3>1, ParamBounds DEF Param
    <3> QED
      BY <1>2, <3>1, <3>2, <3>3 DEF SettingsInv, CopyFollows, DeviceFollows, devVars, hist
  <2>3. CASE ~Last(at)
    <3>1. pc' = "load" /\ at' \in Param
      BY <1>2, <2>1, <2>3, ParamBounds DEF NextParam, Last, Param
    <3>2. TypeOK'
      BY <1>2, <2>1, <3>1 DEF SettingsInv, TypeOK, dbVars, devVars, hist, PC
    <3> QED
      BY <1>2, <3>1, <3>2 DEF SettingsInv, CopyFollows, DeviceFollows, devVars, hist
  <2> QED
    BY <2>2, <2>3
<1> QED
  BY <1>1, <1>2

LEMMA SendKeeps == ASSUME SettingsInv, Send PROVE SettingsInv'
<1> USE DEF Send
<1> DEFINE desired == Desired(at, asked[at])
<1>1. /\ at \in Param /\ at \in Nat /\ asked[at] \in Nat /\ desired \in Nat
      /\ dev \in [Param -> Nat]
  BY ParamBounds, DesiredNat DEF SettingsInv, TypeOK
<1>2. /\ UNCHANGED <<want, asked, copy, rows, flags, dbUp, busUp, quiet, changes>>
      /\ pc = "send"
  BY DEF callVars, dbVars
<1>3. /\ dev' \in [Param -> Nat] /\ unanswered' \in BOOLEAN
      /\ \A p \in Param : p # at => dev'[p] = dev[p]
      /\ ~unanswered' => ~unanswered
      /\ quiet /\ ~unanswered' => dev'[at] = desired
  <2>1. CASE desired = copy[at]
    <3>1. UNCHANGED <<dev, unanswered>>
      BY <2>1
    <3>2. quiet /\ ~unanswered => copy[at] = dev[at]
      BY <1>1, <1>2, ParamBounds DEF SettingsInv, DeviceFollows
    <3> QED
      BY <1>1, <2>1, <3>1, <3>2 DEF SettingsInv, TypeOK
  <2>2. CASE desired # copy[at]
    <3>1. /\ dev' \in IF busUp THEN {[dev EXCEPT ![at] = desired]}
                               ELSE {dev, [dev EXCEPT ![at] = desired]}
          /\ unanswered' = (unanswered \/ ~busUp)
      BY <2>2
    <3> HIDE DEF desired
    <3> QED
      BY <1>1, <3>1 DEF SettingsInv, TypeOK
  <2> QED
    BY <2>1, <2>2
<1>4. quiet /\ ~unanswered' =>
        /\ \A p \in Param : p <= at => dev'[p] = Desired(p, asked[p])
        /\ \A p \in Param : p > at => copy[p] = dev'[p]
  <2> SUFFICES ASSUME quiet, ~unanswered'
               PROVE  /\ \A p \in Param : p <= at => dev'[p] = Desired(p, asked[p])
                      /\ \A p \in Param : p > at => copy[p] = dev'[p]
    OBVIOUS
  <2>1. /\ \A p \in Param : p < at => dev[p] = Desired(p, asked[p])
        /\ \A p \in Param : p >= at => copy[p] = dev[p]
    BY <1>2, <1>3 DEF SettingsInv, DeviceFollows
  <2> QED
    BY <1>1, <1>3, <2>1, ParamBounds
<1> HIDE DEF desired
<1>5. CASE Last(at)
  <2>1. pc' = "clearWrite" /\ at' = 1
    BY <1>5 DEF NextParam
  <2>2. TypeOK'
    BY <1>2, <1>3, <2>1, ParamBounds DEF SettingsInv, TypeOK, PC
  <2>3. \A p \in Param : p <= at
    BY <1>5, ParamBounds DEF Last, Param
  <2> QED
    BY <1>2, <1>4, <2>1, <2>2, <2>3 DEF SettingsInv, CopyFollows, DeviceFollows
<1>6. CASE ~Last(at)
  <2>1. pc' = "send" /\ at' = at + 1 /\ at + 1 \in Param
    BY <1>1, <1>2, <1>6, ParamBounds DEF NextParam, Last, Param
  <2>2. TypeOK'
    BY <1>2, <1>3, <2>1 DEF SettingsInv, TypeOK, PC
  <2>3. \A p \in Param : (p < at' => p <= at) /\ (p >= at' => p > at)
    BY <1>1, <2>1, ParamBounds
  <2> QED
    BY <1>2, <1>4, <2>1, <2>2, <2>3 DEF SettingsInv, CopyFollows, DeviceFollows
<1> QED
  BY <1>5, <1>6

LEMMA ClearWriteKeeps == ASSUME SettingsInv, ClearWrite PROVE SettingsInv'
<1>1. flags' \subseteq Flags
  BY DEF ClearWrite, SettingsInv, TypeOK, TakenDown
<1> QED
  BY <1>1, EndKeeps DEF ClearWrite, SettingsInv, TypeOK

LEMMA RoundKeeps == ASSUME SettingsInv, RoundStep PROVE SettingsInv'
BY SelectReadKeeps, SelectWriteKeeps, RefreshKeeps, StoreKeeps, ClearReadKeeps, LoadKeeps,
   SendKeeps, ClearWriteKeeps DEF RoundStep

\* What happens around the thread ends what is known of the device, or touches none of it.
LEMMA AroundKeeps ==
  ASSUME SettingsInv, HmiEdits \/ DeviceChanges \/ LinkChanges \/ Settle PROVE SettingsInv'
<1>1. Values \subseteq Nat /\ \A k \in 0 .. Calm : k < MaxChanges => k + 1 \in 0 .. Calm
  BY ValuesNat DEF Calm
<1>2. Calm \in 0 .. Calm
  BY ValuesNat DEF Calm
<1>3. CASE HmiEdits
  <2>1. rows' \in [Param -> Nat] /\ flags' \subseteq Flags
    BY <1>1, <1>3 DEF HmiEdits, SettingsInv, TypeOK
  <2>2. TypeOK'
    BY <1>1, <1>3, <2>1 DEF HmiEdits, Changing, SettingsInv, TypeOK, callVars, devVars, hist
  <2> QED
    BY <1>3, <2>2 DEF HmiEdits, SettingsInv, CopyFollows, DeviceFollows, callVars, devVars, hist
<1>4. CASE DeviceChanges
  <2>1. dev' \in [Param -> Nat] /\ quiet' \in BOOLEAN
    BY <1>1, <1>4 DEF DeviceChanges, SettingsInv, TypeOK
  <2>2. TypeOK'
    BY <1>1, <1>4, <2>1 DEF DeviceChanges, Changing, SettingsInv, TypeOK, callVars, dbVars
  <2> QED
    BY <1>4, <2>2 DEF DeviceChanges, SettingsInv, CopyFollows, DeviceFollows
<1>5. CASE LinkChanges
  <2>1. TypeOK'
    BY <1>1, <1>5 DEF LinkChanges, Changing, SettingsInv, TypeOK, callVars, hist
  <2> QED
    BY <1>5, <2>1 DEF LinkChanges, SettingsInv, CopyFollows, DeviceFollows, callVars, hist
<1>6. CASE Settle
  <2>1. TypeOK'
    BY <1>2, <1>6 DEF Settle, SettingsInv, TypeOK, callVars, hist
  <2> QED
    BY <1>6, <2>1 DEF Settle, SettingsInv, CopyFollows, DeviceFollows, callVars, hist
<1> QED
  BY <1>3, <1>4, <1>5, <1>6

LEMMA NextInv == SettingsInv /\ [Next]_vars => SettingsInv'
<1> SUFFICES ASSUME SettingsInv, [Next]_vars PROVE SettingsInv'
  OBVIOUS
<1>1. CASE UNCHANGED vars
  <2>1. TypeOK'
    BY <1>1 DEF vars, callVars, dbVars, devVars, hist, SettingsInv, TypeOK
  <2> QED
    BY <1>1, <2>1 DEF vars, callVars, dbVars, devVars, hist, SettingsInv, CopyFollows, DeviceFollows
<1> QED
  BY <1>1, RoundKeeps, AroundKeeps DEF Next

LEMMA AlwaysSettingsInv == Spec => []SettingsInv
BY InitInv, NextInv, PTL DEF Spec

------------------------------------------------------------------------------

\* The state of pcsSetData and its surroundings always has its type.
THEOREM TypeCorrect == Spec => []TypeOK
<1>1. SettingsInv => TypeOK
  BY DEF SettingsInv
<1> QED
  BY <1>1, AlwaysSettingsInv, PTL

\* What pcsSetData stores on a read request is what the device holds, all of it, whatever
\* was left in deviceSet_ by rounds that broke off.
THEOREM StoredIsRead == Spec => RowsFromDevice
<1>1. SettingsInv /\ [Next]_vars =>
        [pc = "store" /\ rows' # rows /\ changes' = changes /\ quiet => rows' = dev]_vars
  <2> SUFFICES ASSUME SettingsInv, [Next]_vars,
                      pc = "store", rows' # rows, changes' = changes, quiet
               PROVE  rows' = dev
    OBVIOUS
  <2>1. Store
    <3>1. changes \in Int
      BY ValuesNat DEF SettingsInv, TypeOK, Calm
    <3>2. ~HmiEdits /\ ~DeviceChanges /\ ~LinkChanges /\ ~Settle
      BY <3>1 DEF HmiEdits, DeviceChanges, LinkChanges, Settle, Changing
    <3>3. rows' = rows \/ RoundStep
      BY <3>2 DEF Next, vars, dbVars
    <3> QED
      BY <3>3 DEF RoundStep, SelectRead, SelectWrite, Refresh, ClearRead, Load, Send, ClearWrite
  <2>2. copy = dev
    <3>1. \A p \in Param : copy[p] = dev[p]
      BY DEF SettingsInv, CopyFollows
    <3> QED
      BY <3>1 DEF SettingsInv, TypeOK
  <2> QED
    BY <2>1, <2>2 DEF Store
<1> QED
  BY <1>1, AlwaysSettingsInv, PTL DEF Spec, RowsFromDevice

\* When pcsSetData takes a write request down, every parameter has the value taken from
\* its row: those that were sent, and those that were found equal before.
THEOREM TakenDownIsWritten == Spec => WrittenThrough
<1>1. SettingsInv =>
        (pc = "clearWrite" /\ quiet /\ ~unanswered => \A p \in Param : dev[p] = Desired(p, asked[p]))
  BY DEF SettingsInv, DeviceFollows
<1>2. SettingsInv /\ [Next]_vars =>
        [pc = "clearWrite" /\ pc' = "idle" /\ quiet /\ ~unanswered
           => \A p \in Param : dev[p] = Desired(p, asked[p])]_vars
  BY <1>1
<1> QED
  BY <1>2, AlwaysSettingsInv, PTL DEF Spec, WrittenThrough
------------------------------------------------------------------------------
(* One round is enough.  Once nothing changes any more (Calm), the first     *)
(* round that begins serves what is requested, and no request is left.       *)

\* When all is calm the links are up; a round begins without a record of disturbances.
CalmInv ==
  /\ changes = Calm => dbUp /\ busUp
  /\ pc = "idle" => quiet /\ ~unanswered

\* Nothing is calm at the start.
LEMMA CalmInit == Init => CalmInv
BY ValuesNat DEF Init, CalmInv, Calm

\* Links go down in changes, and Calm puts them up; the end of a round forgets it.
LEMMA CalmStep == SettingsInv /\ CalmInv /\ [Next]_vars => CalmInv'
<1>. SUFFICES ASSUME SettingsInv, CalmInv, [Next]_vars PROVE CalmInv'
  OBVIOUS
<1>1. changes \in Int /\ MaxChanges \in Nat /\ Calm = MaxChanges + 1
  BY ValuesNat DEF SettingsInv, TypeOK, Calm
<1>2. CASE RoundStep
  <2>1. UNCHANGED <<dbUp, busUp, changes>>
    BY <1>2 DEF RoundStep, SelectRead, SelectWrite, Refresh, Store, ClearRead, Load, Send,
                ClearWrite, dbVars, devVars
  <2>2. EndRound \/ pc' # "idle"
    BY <1>2 DEF RoundStep, SelectRead, SelectWrite, Refresh, Store, ClearRead, Load, Send,
                ClearWrite, Goto, NextParam, AfterRefresh
  <2>. QED
    BY <2>1, <2>2 DEF CalmInv, EndRound, Calm
<1>3. CASE HmiEdits \/ DeviceChanges \/ LinkChanges
  <2>1. changes' = changes + 1 /\ changes < MaxChanges
    BY <1>3 DEF HmiEdits, DeviceChanges, LinkChanges, Changing
  <2>2. changes' # Calm'
    BY <1>1, <2>1 DEF Calm
  <2>3. pc' = "idle" => quiet' /\ ~unanswered'
    BY <1>3, Zenon DEF HmiEdits, DeviceChanges, LinkChanges, CalmInv, hist
  <2>. QED
    BY <2>2, <2>3 DEF CalmInv
<1>4. CASE Settle
  BY <1>4 DEF Settle, CalmInv, hist
<1>5. CASE UNCHANGED vars
  BY <1>5 DEF vars, dbVars, devVars, hist, CalmInv, Calm
<1>. QED
  BY <1>2, <1>3, <1>4, <1>5 DEF Next

\* What a round that began in the calm knows at each of its places: what it wants is what
\* is requested, what it was asked stands in the rows.
FreshSettings ==
  /\ changes = Calm /\ dbUp /\ busUp /\ quiet /\ ~unanswered
  /\ pc = "select" => want = flags \cap {"read"}
  /\ pc \in {"refresh", "store", "clearRead"} => want = flags /\ flags # {}
  /\ pc \in {"store", "clearRead"} => "read" \in want
  /\ pc \in {"load", "send", "clearWrite"} => "write" \in want /\ flags = {"write"}
  /\ pc = "clearRead" => rows = dev
  /\ pc = "load" => \A p \in Param : p < at => asked[p] = rows[p]
  /\ pc \in {"send", "clearWrite"} => asked = rows

\* A round that ends has served what it was asked for, and leaves no request; without a
\* request nothing is touched.
SettingsRound ==
  /\ pc # "idle" /\ pc' = "idle" =>
       /\ flags' = {}
       /\ want = {"read"} => rows' = dev'
       /\ "write" \in want => \A p \in Param : dev'[p] = Desired(p, rows'[p])
  /\ flags = {} => flags' = {} /\ UNCHANGED <<rows, dev>>

\* Each step of such a round knows what is said of the place it leads to.
LEMMA FreshSettingsStep ==
  ASSUME SettingsInv, FreshSettings, Next
  PROVE  FreshSettings' /\ SettingsRound
<1>1. RoundStep /\ UNCHANGED <<changes, dbUp, busUp>>
  <2>1. changes = MaxChanges + 1 /\ MaxChanges \in Nat
    BY ValuesNat DEF FreshSettings, Calm
  <2>2. ~(changes < MaxChanges) /\ changes = Calm
    BY <2>1 DEF Calm
  <2>3. RoundStep
    BY <2>2 DEF Next, HmiEdits, DeviceChanges, LinkChanges, Settle, Changing
  <2>. QED
    BY <2>3 DEF RoundStep, SelectRead, SelectWrite, Refresh, Store, ClearRead, Load, Send,
                ClearWrite, dbVars, devVars
<1>2. changes' = Calm' /\ dbUp' /\ busUp'
  BY <1>1 DEF FreshSettings, Calm
<1>3. flags \subseteq {"read", "write"} /\ want \subseteq {"read", "write"}
  BY DEF SettingsInv, TypeOK, Flags
<1>4. CASE SelectRead
  BY <1>2, <1>4 DEF SelectRead, FreshSettings, SettingsRound, dbVars, devVars, hist
<1>5. CASE SelectWrite
  <2>1. pc = "select" /\ UNCHANGED <<flags, rows, dev>> /\ want = flags \cap {"read"}
    BY <1>5 DEF SelectWrite, FreshSettings, dbVars, devVars
  <2>2. want \cup (flags \cap {"write"}) = flags
    BY <1>3, <2>1
  <2>3. CASE flags # {}
    <3>1. pc' = "refresh" /\ want' = flags /\ UNCHANGED hist
      BY <1>5, <2>2, <2>3 DEF SelectWrite, FreshSettings
    <3>. QED
      BY <1>2, <2>1, <2>3, <3>1 DEF FreshSettings, SettingsRound, hist
  <2>4. CASE flags = {}
    <3>1. EndRound
      BY <1>5, <2>2, <2>4 DEF SelectWrite
    <3>. QED
      BY <1>2, <2>1, <2>4, <3>1 DEF EndRound, FreshSettings, SettingsRound
  <2>. QED
    BY <2>3, <2>4
<1>6. CASE Refresh
  <2>1. /\ pc = "refresh" /\ NextParam(AfterRefresh)
        /\ UNCHANGED <<callVars, hist, flags, rows, dev>>
    BY <1>6 DEF Refresh, Refreshed, FreshSettings, dbVars, devVars
  <2>2. want = flags /\ flags # {}
    BY <2>1 DEF FreshSettings
  <2>3. CASE pc' = "refresh"
    BY <1>2, <2>1, <2>2, <2>3 DEF FreshSettings, SettingsRound, callVars, hist
  <2>4. CASE pc' = AfterRefresh /\ "read" \in want
    <3>1. pc' = "store"
      BY <2>4 DEF AfterRefresh
    <3>. QED
      BY <1>2, <2>1, <2>2, <2>4, <3>1 DEF FreshSettings, SettingsRound, callVars, hist
  <2>5. CASE pc' = AfterRefresh /\ "read" \notin want /\ at' = 1
    <3>1. pc' = "load" /\ flags = {"write"}
      BY <1>3, <2>2, <2>5 DEF AfterRefresh
    <3>2. \A p \in Param : ~(p < at')
      BY <2>5, ParamBounds DEF Param
    <3>. QED
      BY <1>2, <2>1, <2>2, <3>1, <3>2 DEF FreshSettings, SettingsRound, callVars, hist
  <2>. QED
    BY <2>1, <2>3, <2>4, <2>5 DEF NextParam
<1>7. CASE Store
  <2>1. /\ pc = "store" /\ pc' = "clearRead" /\ rows' = copy
        /\ UNCHANGED <<callVars, hist, flags, dev>>
    BY <1>7 DEF Store, Goto, FreshSettings, devVars
  <2>2. copy = dev
    <3>1. \A p \in Param : copy[p] = dev[p]
      BY <2>1 DEF SettingsInv, CopyFollows, FreshSettings
    <3>. QED
      BY <3>1 DEF SettingsInv, TypeOK
  <2>. QED
    BY <1>2, <2>1, <2>2 DEF FreshSettings, SettingsRound, callVars, hist
<1>8. CASE ClearRead
  <2>1. /\ pc = "clearRead" /\ flags' = flags \ {"read"} /\ UNCHANGED <<rows, dev>>
        /\ want = flags /\ "read" \in want /\ rows = dev
    BY <1>8 DEF ClearRead, TakenDown, FreshSettings, devVars
  <2>2. CASE "write" \in want
    <3>1. flags' = {"write"}
      BY <1>3, <2>1, <2>2
    <3>2. pc' = "load" /\ at' = 1 /\ UNCHANGED <<callVars, hist>>
      BY <1>8, <2>2 DEF ClearRead, Goto, FreshSettings
    <3>3. \A p \in Param : ~(p < at')
      BY <3>2, ParamBounds DEF Param
    <3>. QED
      BY <1>2, <2>1, <2>2, <3>1, <3>2, <3>3 DEF FreshSettings, SettingsRound, callVars, hist
  <2>3. CASE "write" \notin want
    <3>1. flags' = {} /\ flags # {}
      BY <1>3, <2>1, <2>3
    <3>2. EndRound
      BY <1>8, <2>3 DEF ClearRead
    <3>. QED
      BY <1>2, <2>1, <2>3, <3>1, <3>2 DEF EndRound, FreshSettings, SettingsRound
  <2>. QED
    BY <2>2, <2>3
<1>9. CASE Load
  <2>1. /\ pc = "load" /\ asked' = [asked EXCEPT ![at] = rows[at]] /\ NextParam("send")
        /\ UNCHANGED <<want, hist, flags, rows, dev>>
    BY <1>9 DEF Load, FreshSettings, dbVars, devVars
  <2>2. /\ "write" \in want /\ flags = {"write"}
        /\ \A p \in Param : p < at => asked[p] = rows[p]
    BY <2>1 DEF FreshSettings
  <2>3. \A p \in Param : p <= at => asked'[p] = rows[p]
    BY <2>1, <2>2, ParamBounds DEF SettingsInv, TypeOK
  <2>4. CASE Last(at)
    <3>1. pc' = "send" /\ \A p \in Param : p <= at
      BY <2>1, <2>4, ParamBounds DEF NextParam, Last, Param
    <3>2. asked' = rows
      BY <2>1, <2>3, <3>1 DEF SettingsInv, TypeOK
    <3>. QED
      BY <1>2, <2>1, <2>2, <3>1, <3>2 DEF FreshSettings, SettingsRound, hist
  <2>5. CASE ~Last(at)
    <3>1. pc' = "load" /\ at' = at + 1 /\ at \in Nat
      BY <2>1, <2>5, ParamBounds DEF NextParam, SettingsInv, TypeOK
    <3>2. \A p \in Param : p < at' => asked'[p] = rows[p]
      BY <2>3, <3>1, ParamBounds
    <3>. QED
      BY <1>2, <2>1, <2>2, <3>1, <3>2 DEF FreshSettings, SettingsRound, hist
  <2>. QED
    BY <2>4, <2>5
<1>10. CASE Send
  <2>1. /\ pc = "send" /\ pc' \in {"send", "clearWrite"} /\ ~unanswered'
        /\ UNCHANGED <<want, asked, flags, rows, quiet>>
    BY <1>10 DEF Send, NextParam, FreshSettings, callVars, dbVars
  <2>. QED
    BY <1>2, <2>1 DEF FreshSettings, SettingsRound
<1>11. CASE ClearWrite
  <2>1. /\ pc = "clearWrite" /\ flags = {"write"} /\ flags' = {} /\ EndRound
        /\ UNCHANGED <<rows, dev>> /\ asked = rows /\ "write" \in want
    BY <1>11 DEF ClearWrite, TakenDown, FreshSettings, devVars
  <2>2. \A p \in Param : dev[p] = Desired(p, rows[p])
    BY <2>1 DEF SettingsInv, DeviceFollows, FreshSettings
  <2>3. \A p \in Param : dev'[p] = Desired(p, rows'[p])
    BY <2>1, <2>2
  <2>4. want # {"read"}
    BY <2>1
  <2>. QED
    BY <1>2, <2>1, <2>3, <2>4 DEF EndRound, FreshSettings, SettingsRound
<1>. QED
  BY <1>1, <1>4, <1>5, <1>6, <1>7, <1>8, <1>9, <1>10, <1>11 DEF RoundStep

\* Once nothing changes any more, the first round of pcsSetData that begins serves what the
\* HMI has requested: rows read are the device's, parameters written are as their rows say,
\* and no request is left.  Later rounds then touch neither rows nor device.
\* RequestsTakenDown adds that rounds end.
THEOREM SettingsRoundSuffices ==
  Spec => [](changes = Calm /\ pc = "idle" => [][SettingsRound]_vars)
<1>1. CalmInv /\ changes = Calm /\ pc = "idle" => FreshSettings
  BY DEF CalmInv, FreshSettings
<1>2. ASSUME SettingsInv, FreshSettings, [Next]_vars PROVE FreshSettings' /\ [SettingsRound]_vars
  <2>1. CASE Next
    BY <1>2, <2>1, FreshSettingsStep
  <2>2. CASE UNCHANGED vars
    BY <1>2, <2>2 DEF vars, callVars, dbVars, devVars, hist, FreshSettings, Calm
  <2>. QED
    BY <1>2, <2>1, <2>2
<1>. QED
  BY <1>1, <1>2, CalmInit, CalmStep, InitInv, NextInv, PTL DEF Spec
=============================================================================
