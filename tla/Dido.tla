-------------------------------- MODULE Dido --------------------------------
(***************************************************************************)
(* Dido::onAfterDecode (devices/Dido.cpp): the hook of the engine of the   *)
(* digital inputs and outputs.  Each round it reads the orders for the     *)
(* outputs one by one, compares them with what the device feeds back,      *)
(* sends the difference, stores the inputs in the table logic, and lets    *)
(* the engine publish inputs and orders in dodi.  Every step is one Modbus *)
(* or one database operation.                                              *)
(***************************************************************************)
EXTENDS Integers

CONSTANTS
  Outputs,    \* lights and switches, numbered as registers 200, 201, ... (5 in the code)
  Inputs,     \* the switches read back, in the order they are stored (4 in the code)
  MaxChanges  \* bound: how often something around the thread changes

VARIABLES
  \* the thread
  pc,
  at,         \* the output or input the step is about
  target,     \* yellowLed_, greenLed_, ...: the orders read
  feedback,   \* readYellow_, readGreen_, ...: what the device said its outputs are
  seen,       \* the engine's values of the inputs
  heard,      \* history: the outputs whose order this round has been told
  \* the database
  order,      \* rows 101, 102, ... of data_total
  logic,      \* rows 6, 9, 7, 451 of logic
  dodi,       \* rows of dodi: inputs and outputs
  dbUp,
  \* the device
  out,        \* registers 200, 201, ...
  in,         \* registers 0x64, 0x65, ...
  busUp,      \* do its registers answer?
  changes     \* the number of changes; Calm once nothing fails or changes any more

roundVars == <<at, target, feedback, heard>>
dbVars    == <<order, logic, dodi, dbUp>>
devVars   == <<out, in, busUp>>
vars == <<pc, roundVars, seen, dbVars, devVars, changes>>

Output == 1 .. Outputs
Input  == 1 .. Inputs
Switch == {0, 1}
Calm   == MaxChanges + 1
AllOff == [o \in Output |-> 0]

TypeOK ==
  /\ pc \in {"idle", "orders", "feedback", "write", "logic", "publish"}
  /\ at \in Output \cup Input
  /\ target \in [Output -> Switch] /\ feedback \in [Output -> Switch]
  /\ order \in [Output -> Switch] /\ out \in [Output -> Switch]
  /\ seen \in [Input -> Switch] /\ in \in [Input -> Switch] /\ logic \in [Input -> Switch]
  /\ dodi \in [inputs : [Input -> Switch], outputs : [Output -> Switch]]
  /\ heard \subseteq Output
  /\ dbUp \in BOOLEAN /\ busUp \in BOOLEAN
  /\ changes \in 0 .. Calm

Init ==
  /\ pc = "idle" /\ at = 1
  /\ target = AllOff /\ feedback = AllOff /\ heard = {}
  /\ order \in [Output -> Switch] /\ out = AllOff
  /\ seen = [i \in Input |-> 0] /\ logic = seen /\ in = seen
  /\ dodi = [inputs |-> seen, outputs |-> AllOff]
  /\ dbUp = TRUE /\ busUp = TRUE
  /\ changes = 0

------------------------------------------------------------------------------

\* Orders and feedback are read anew before they are used again.
EndRound ==
  pc' = "idle" /\ at' = 1 /\ target' = AllOff /\ feedback' = AllOff /\ heard' = {}

\* The green light's order is read before the yellow one's, which is written first.
ReadNth(k) == CASE k = 1 -> 2 [] k = 2 -> 1 [] OTHER -> k

Kept == UNCHANGED <<target, feedback, heard>>

\* What a row or a register holding old may hold once v has been sent to it.
Sent(up, old, v) == IF up THEN {v} ELSE {old, v}

\* pollOnce up to the hook: the probe was answered, and a block of inputs that then
\* is not leaves the values of an earlier round.
Poll ==
  /\ pc = "idle"
  /\ seen' \in IF busUp THEN {in} ELSE {in, seen}
  /\ pc' = "orders"
  /\ UNCHANGED <<roundVars, dbVars, devVars, changes>>

\* select of one order: it throws when the database does not answer, and the round is
\* over.
AnsweredAlways == TRUE
Answered == dbUp
ReadOrder ==
  /\ pc = "orders"
  /\ LET o == ReadNth(at)
     IN  IF Answered
           THEN /\ target' = [target EXCEPT ![o] = IF dbUp THEN order[o] ELSE 0]
                /\ heard' = IF dbUp THEN heard \cup {o} ELSE heard
                /\ IF at < Outputs THEN pc' = pc /\ at' = at + 1
                                   ELSE pc' = "feedback" /\ at' = 1
                /\ UNCHANGED feedback
           ELSE EndRound
  /\ UNCHANGED <<seen, dbVars, devVars, changes>>

\* Without the feedback nothing is sent.
ReadFeedback ==
  /\ pc = "feedback"
  /\ \/ feedback' = out /\ pc' = "write"
     \/ ~busUp /\ pc' = "logic" /\ UNCHANGED feedback
  /\ UNCHANGED <<at, target, heard, seen, dbVars, devVars, changes>>

\* writeDoIfChanged.
DiffersLit(o) == target[o] > feedback[o]
Differs(o) == target[o] # feedback[o]
WriteOutput ==
  /\ pc = "write"
  /\ \E v \in IF Differs(at) THEN Sent(busUp, out[at], target[at]) ELSE {out[at]} :
       out' = [out EXCEPT ![at] = v]
  /\ IF at < Outputs THEN pc' = pc /\ at' = at + 1 ELSE pc' = "logic" /\ at' = 1
  /\ Kept
  /\ UNCHANGED <<seen, dbVars, in, busUp, changes>>

\* update of one row of logic, which throws.
StoreInput ==
  /\ pc = "logic"
  /\ \E v \in Sent(dbUp, logic[at], seen[at]) : logic' = [logic EXCEPT ![at] = v]
  /\ CASE ~dbUp              -> EndRound
       [] dbUp /\ at < Inputs -> pc' = pc /\ at' = at + 1 /\ Kept
       [] OTHER               -> pc' = "publish" /\ at' = 1 /\ Kept
  /\ UNCHANGED <<seen, order, dodi, dbUp, devVars, changes>>

\* writeRealtime: the orders are published as the states of the outputs.
Publish ==
  /\ pc = "publish"
  /\ dodi' \in Sent(dbUp, dodi, [inputs |-> seen, outputs |-> target])
  /\ EndRound
  /\ UNCHANGED <<seen, order, logic, dbUp, devVars, changes>>

RoundStep == Poll \/ ReadOrder \/ ReadFeedback \/ WriteOutput \/ StoreInput \/ Publish

------------------------------------------------------------------------------

Changing == changes < MaxChanges /\ changes' = changes + 1

EditOrder ==
  /\ Changing
  /\ \E o \in Output : order' = [order EXCEPT ![o] = 1 - @]
  /\ UNCHANGED <<pc, roundVars, seen, logic, dodi, dbUp, devVars>>

\* A switch moves, or an output is changed at the device.
DeviceChanges ==
  /\ Changing
  /\ \/ \E o \in Output : out' = [out EXCEPT ![o] = 1 - @] /\ UNCHANGED in
     \/ \E i \in Input : in' = [in EXCEPT ![i] = 1 - @] /\ UNCHANGED out
  /\ UNCHANGED <<pc, roundVars, seen, dbVars, busUp>>

LinkChanges ==
  /\ Changing
  /\ \/ dbUp' = ~dbUp /\ UNCHANGED busUp
     \/ busUp' = ~busUp /\ UNCHANGED dbUp
  /\ UNCHANGED <<pc, roundVars, seen, order, logic, dodi, out, in>>

Settle ==
  /\ changes # Calm /\ changes' = Calm
  /\ dbUp' = TRUE /\ busUp' = TRUE
  /\ UNCHANGED <<pc, roundVars, seen, order, logic, dodi, out, in>>

Next == RoundStep \/ EditOrder \/ DeviceChanges \/ LinkChanges \/ Settle

------------------------------------------------------------------------------

\* Every output is as ordered, the rows of dodi say so, and both tables agree with the
\* inputs.
Followed ==
  /\ out = order
  /\ dodi = [inputs |-> in, outputs |-> order]
  /\ logic = in

\* Once all is well, outputs and rows end up so, whatever was lost or half done before.
OutputsFollow == changes = Calm ~> []Followed

\* No output is switched in a round that was not told its order by the database: an
\* outage ends the round before anything is sent, where PCS_Smarten takes the orders
\* it could not read for "off".
NotSwitchedUnasked ==
  [][\A o \in Output : out'[o] # out[o] /\ changes' = changes => heard = Output]_vars
==============================================================================
