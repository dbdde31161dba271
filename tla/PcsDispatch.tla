---------------------------- MODULE PcsDispatch ----------------------------
(***************************************************************************)
(* PCS_Smarten::dispatchHmiControlCommands (devices/PCS_Smarten.cpp): each *)
(* round the hook of the PCS engine compares the set values it reads from  *)
(* the device with what the HMI has ordered and sends the difference.      *)
(* Every step is one Modbus or one database operation.                     *)
(*                                                                         *)
(* Active and reactive power are handled alike, `power` stands for both;   *)
(* orders are taken in the device's unit and sign.                         *)
(***************************************************************************)
EXTENDS Integers

CONSTANTS
  Powers,     \* bound: the powers the HMI may order
  GridModes,  \* bound: the values the HMI may store for the grid mode
  Deadband,   \* kDeadband
  MaxChanges  \* bound: how often something around the PCS thread changes

ASSUME DispatchAssumption ==
  /\ Powers \subseteq Int /\ 0 \in Powers
  /\ GridModes \subseteq Nat /\ 0 \in GridModes
  /\ Deadband \in Nat
  /\ MaxChanges \in Nat

VARIABLES
  \* the PCS thread
  pc,
  copy,       \* deviceSet_: what was last read of the device's set values
  target,     \* hmiSet_, targetP: the orders this round has read (NoOrder before)
  resetWish,  \* hmiSet_.alarmReset_41378 (0 before it is read)
  \* the database
  order,      \* rows 108, 115, 109/113 of data_total
  resetFlag,  \* row 602 of qt
  dbUp,
  \* the device
  dev,        \* registers 41379, 41671, 41546/41547
  busUp,      \* do its registers answer?
  \* history
  heard,      \* the queries of this round that the database has answered
  changes     \* the number of changes; Calm once nothing fails or changes any more

roundVars == <<target, resetWish, heard>>
dbVars    == <<order, resetFlag, dbUp>>
devVars   == <<dev, busUp>>
vars == <<pc, copy, roundVars, dbVars, devVars, changes>>

PC == {"idle", "readReset", "readOrders", "onOff", "grid", "reset", "clearReset", "power"}
OnOff == {0, 1}
Settings == [onOff : OnOff, grid : {0, 1}, power : Powers]
Orders   == [onOff : OnOff, grid : GridModes, power : Powers]
Calm == MaxChanges + 1

\* What selectMultipleData returns for rows it could not query.
NoOrder == [onOff |-> 0, grid |-> 0, power |-> 0]

TypeOK ==
  /\ pc \in PC
  /\ copy \in Settings /\ dev \in Settings
  /\ target \in Orders /\ order \in Orders
  /\ resetWish \in {0, 1} /\ resetFlag \in {0, 1}
  /\ dbUp \in BOOLEAN /\ busUp \in BOOLEAN
  /\ heard \subseteq {"reset", "orders"}
  /\ changes \in 0 .. Calm

Init ==
  /\ pc = "idle"
  /\ copy = NoOrder /\ target = NoOrder /\ resetWish = 0 /\ heard = {}
  /\ order \in {o \in Orders : o.power = 0} /\ resetFlag = 0 /\ dbUp = TRUE
  /\ dev \in {d \in Settings : d.power = 0} /\ busUp = TRUE
  /\ changes = 0

------------------------------------------------------------------------------

\* What a round has read of the database is of no use after it.
EndRound == pc' = "idle" /\ target' = NoOrder /\ resetWish' = 0 /\ heard' = {}

\* The set values after reading those in `got`; a read that fails keeps the copy
\* of an earlier round.
RefreshedNever(got) == copy
Refreshed(got) == [f \in DOMAIN copy |-> IF f \in got THEN dev[f] ELSE copy[f]]

\* The three reads of set values.
ReadSettings ==
  /\ pc = "idle"
  /\ \E got \in IF busUp THEN {DOMAIN copy} ELSE SUBSET DOMAIN copy : copy' = Refreshed(got)
  /\ pc' = "readReset"
  /\ UNCHANGED <<roundVars, dbVars, devVars, changes>>

\* select(602, qt): a query that throws ends the round, the hook and pollOnce pass
\* the exception on.
Answered == dbUp
ReadReset ==
  /\ pc = "readReset"
  /\ IF Answered
       THEN /\ pc' = "readOrders"
            /\ resetWish' = resetFlag
            /\ heard' = IF dbUp THEN {"reset"} ELSE {}
            /\ UNCHANGED target
       ELSE EndRound
  /\ UNCHANGED <<copy, dbVars, devVars, changes>>

\* selectMultipleData(data_total): it catches its own exception, and every order
\* it could not get is 0.
ReadOrders ==
  /\ pc = "readOrders"
  /\ target' = IF dbUp THEN order ELSE NoOrder
  /\ heard' = IF dbUp THEN heard \cup {"orders"} ELSE heard
  /\ pc' = "onOff"
  /\ UNCHANGED <<copy, resetWish, dbVars, devVars, changes>>

\* writeRegister of set value f, whose result is ignored: without an answer it may
\* or may not have reached the device.
Sent(f, v) == IF busUp THEN {[dev EXCEPT ![f] = v]} ELSE {dev, [dev EXCEPT ![f] = v]}

SendOnOff ==
  /\ pc = "onOff"
  /\ dev' \in IF target.onOff # copy.onOff THEN Sent("onOff", target.onOff) ELSE {dev}
  /\ pc' = "grid"
  /\ UNCHANGED <<copy, roundVars, dbVars, busUp, changes>>

\* Any mode but 0 is sent as 1.
GridModeRaw(g) == g
GridMode(g) == IF g = 0 THEN 0 ELSE 1

SendGrid ==
  /\ pc = "grid"
  /\ dev' \in IF target.grid # copy.grid THEN Sent("grid", GridMode(target.grid)) ELSE {dev}
  /\ pc' = IF resetWish = 1 THEN "reset" ELSE "power"
  /\ UNCHANGED <<copy, roundVars, dbVars, busUp, changes>>

AfterResetForgotten == "power"
AfterReset == "clearReset"

\* writeRegister(41378, 0), which changes no set value.
SendReset ==
  /\ pc = "reset"
  /\ pc' = AfterReset
  /\ UNCHANGED <<copy, roundVars, dbVars, devVars, changes>>

\* update(602, 0, qt), whatever became of the reset.
ClearReset ==
  /\ pc = "clearReset"
  /\ resetFlag' \in IF dbUp THEN {0} ELSE {0, resetFlag}
  /\ IF dbUp THEN pc' = "power" /\ UNCHANGED roundVars ELSE EndRound
  /\ UNCHANGED <<copy, order, dbUp, devVars, changes>>

\* Is power p far enough from the device's to be sent?
DeviatesMore(p) == p - copy.power > Deadband + 1 \/ copy.power - p > Deadband + 1
Deviates(p) == p - copy.power > Deadband \/ copy.power - p > Deadband

SendPower ==
  /\ pc = "power"
  /\ dev' \in IF Deviates(target.power) THEN Sent("power", target.power) ELSE {dev}
  /\ EndRound
  /\ UNCHANGED <<copy, dbVars, busUp, changes>>

RoundStep ==
  \/ ReadSettings \/ ReadReset \/ ReadOrders
  \/ SendOnOff \/ SendGrid \/ SendReset \/ ClearReset \/ SendPower

------------------------------------------------------------------------------

Changing == changes < MaxChanges /\ changes' = changes + 1

EditOrders ==
  /\ Changing
  /\ order' \in Orders
  /\ UNCHANGED <<pc, copy, roundVars, resetFlag, dbUp, devVars>>

\* The operator asks for a reset of the device's alarms.
AskReset ==
  /\ Changing
  /\ resetFlag' = 1
  /\ UNCHANGED <<pc, copy, roundVars, order, dbUp, devVars>>

\* The device trips, or is switched at its panel.
DeviceChanges ==
  /\ Changing
  /\ \E v \in OnOff : dev' = [dev EXCEPT !.onOff = v]
  /\ UNCHANGED <<pc, copy, roundVars, dbVars, busUp>>

LinkChanges ==
  /\ Changing
  /\ \/ dbUp' = ~dbUp /\ UNCHANGED busUp
     \/ busUp' = ~busUp /\ UNCHANGED dbUp
  /\ UNCHANGED <<pc, copy, roundVars, order, resetFlag, dev>>

\* From some point on everything is well and nobody touches anything.
Settle ==
  /\ changes' = Calm /\ changes # Calm
  /\ dbUp' = TRUE /\ busUp' = TRUE
  /\ UNCHANGED <<pc, copy, roundVars, order, resetFlag, dev>>

Next == RoundStep \/ EditOrders \/ AskReset \/ DeviceChanges \/ LinkChanges \/ Settle

Spec == Init /\ [][Next]_vars /\ WF_vars(RoundStep)

------------------------------------------------------------------------------

\* The device is switched as ordered, in the grid mode ordered, and within the dead band
\* of the power ordered.
Arrived ==
  /\ dev.onOff = order.onOff
  /\ dev.grid = GridMode(order.grid)
  /\ dev.power - order.power <= Deadband /\ order.power - dev.power <= Deadband

\* Whatever failed before, a settled device ends up so: neither stale copies nor lost or
\* unanswered writes keep an order from arriving.
OrdersArrive == changes = Calm ~> []Arrived

\* A reset asked for at any time is taken up, and its flag taken down for good once
\* all is well, even if the database failed between the two.
ResetTakenDown == changes = Calm ~> [](resetFlag = 0)

\* The device is only switched to what the HMI orders, now or when the round asked: the
\* comment says that the HMI's values are compared and sent (PCS_Smarten.cpp:179).
\* A query of the orders that fails reads as the order 0, which is "off".
SwitchedOnlyAsOrdered ==
  [][dev'.onOff # dev.onOff /\ pc' # pc
       => dev'.onOff = order.onOff \/ "orders" \in heard]_vars
==============================================================================
