---------------------------- MODULE PcsSettings ----------------------------
(***************************************************************************)
(* PCS_Smarten::pcsSetData (devices/PCS_Smarten.cpp): on request of the    *)
(* HMI the parameters of the PCS are read into the table pcsset, or the    *)
(* values the HMI has stored there are written to the device.  Every step  *)
(* is one Modbus or one database operation.                                *)
(*                                                                         *)
(* A parameter stands for the registers one request reads and for their    *)
(* rows; the three bits of control word 41696 are one parameter.  Rows are *)
(* given in the unit of the register, so that a row of a scaled parameter  *)
(* counts tenths.                                                          *)
(***************************************************************************)
EXTENDS Integers

CONSTANTS
  N,          \* the number of parameters, in the order they are read
  Scaled,     \* those with scale 10
  Values,     \* bound: the values of registers and rows
  MaxChanges  \* bound: how often something around the PCS thread changes

Param == 1 .. N

ASSUME SettingsAssumption ==
  /\ N \in Nat \ {0}
  /\ Scaled \subseteq Param
  /\ Values \subseteq Nat /\ 0 \in Values
  /\ MaxChanges \in Nat

VARIABLES
  \* the PCS thread
  pc, at,     \* the next step of pcsSetData, and the parameter it is about
  want,       \* which of pcsRead_, pcsWrite_ are 1
  copy,       \* deviceSet_
  asked,      \* the rows hmiSet_ was taken from in this round (0 before)
  \* the database
  rows,       \* rows 1..18 of pcsset
  flags,      \* which of its rows 19 ("read") and 20 ("write") are 1
  dbUp,
  \* the device
  dev, busUp,
  \* history
  quiet,      \* in this round the device has not changed by itself,
  unanswered, \* nor has a write to it gone without an answer
  changes     \* the number of changes; Calm once nothing fails or changes any more

callVars == <<want, asked>>
dbVars   == <<rows, flags, dbUp>>
devVars  == <<dev, busUp>>
hist     == <<quiet, unanswered>>
vars == <<pc, at, callVars, copy, dbVars, devVars, hist, changes>>

PC == {"idle", "select", "refresh", "store", "clearRead", "load", "send", "clearWrite"}
Flags == {"read", "write"}
Calm == MaxChanges + 1

\* What a row becomes on its way through select, which returns an int, and the
\* scale of its parameter.
Desired(p, v) == IF p \in Scaled THEN 10 * (v \div 10) ELSE v

TypeOK ==
  /\ pc \in PC /\ at \in Param
  /\ want \subseteq Flags /\ flags \subseteq Flags
  /\ copy \in [Param -> Nat] /\ dev \in [Param -> Nat]
  /\ asked \in [Param -> Nat] /\ rows \in [Param -> Nat]
  /\ dbUp \in BOOLEAN /\ busUp \in BOOLEAN
  /\ quiet \in BOOLEAN /\ unanswered \in BOOLEAN
  /\ changes \in 0 .. Calm

Blank == [p \in Param |-> 0]

Init ==
  /\ pc = "idle" /\ at = 1
  /\ want = {} /\ copy = Blank /\ asked = Blank
  /\ rows = Blank /\ flags = {} /\ dbUp = TRUE
  /\ dev \in [Param -> Values] /\ busUp = TRUE
  /\ quiet = TRUE /\ unanswered = FALSE
  /\ changes = 0

------------------------------------------------------------------------------

EndRound ==
  /\ pc' = "idle" /\ at' = 1
  /\ want' = {} /\ asked' = Blank
  /\ quiet' = TRUE /\ unanswered' = FALSE

\* On to a step, about the first parameter.
Goto(where) == pc' = where /\ at' = 1 /\ UNCHANGED <<callVars, hist>>

LastEarly(p) == p >= N - 1
Last(p) == p = N

\* On with the next parameter, or to a step after the last one.
NextParam(then) ==
  IF Last(at) THEN pc' = then /\ at' = 1
              ELSE at' = at + 1 /\ UNCHANGED pc

\* select(19, pcsset), select(20, pcsset): any query that throws ends the round.
SelectRead ==
  /\ pc = "idle" /\ dbUp
  /\ pc' = "select" /\ at' = 1
  /\ want' = flags \cap {"read"}
  /\ UNCHANGED <<asked, copy, dbVars, devVars, hist, changes>>

SelectWrite ==
  /\ pc = "select"
  /\ LET all == want \cup (flags \cap {"write"})
     IN IF dbUp /\ all # {}
          THEN pc' = "refresh" /\ want' = all /\ UNCHANGED <<at, asked, hist>>
          ELSE EndRound
  /\ UNCHANGED <<copy, dbVars, devVars, changes>>

AfterRefresh == IF "read" \in want THEN "store" ELSE "load"

RefreshedHasty == TRUE
Refreshed == busUp

\* refresh reads one parameter; a read that fails ends the round, and what was read
\* before stays in deviceSet_.
Refresh ==
  /\ pc = "refresh"
  /\ copy' = IF busUp THEN [copy EXCEPT ![at] = dev[at]] ELSE copy
  /\ IF Refreshed THEN NextParam(AfterRefresh) /\ UNCHANGED <<callVars, hist>>
                  ELSE EndRound
  /\ UNCHANGED <<dbVars, devVars, changes>>

\* insert of all rows in one statement, which may have been carried out when it throws.
Store ==
  /\ pc = "store"
  /\ rows' \in IF dbUp THEN {copy} ELSE {rows, copy}
  /\ IF dbUp THEN Goto("clearRead") ELSE EndRound
  /\ UNCHANGED <<copy, flags, dbUp, devVars, changes>>

\* update(19, 0, pcsset), update(20, 0, pcsset).
TakenDownSwapped(f) == flags \ (Flags \ {f})
TakenDown(f) == flags \ {f}

ClearRead ==
  /\ pc = "clearRead"
  /\ flags' \in IF dbUp THEN {TakenDown("read")} ELSE {flags, TakenDown("read")}
  /\ IF dbUp /\ "write" \in want THEN Goto("load") ELSE EndRound
  /\ UNCHANGED <<copy, rows, dbUp, devVars, changes>>

\* select of one row.
Load ==
  /\ pc = "load"
  /\ IF dbUp
       THEN /\ asked' = [asked EXCEPT ![at] = rows[at]]
            /\ NextParam("send")
            /\ UNCHANGED <<want, hist>>
       ELSE EndRound
  /\ UNCHANGED <<copy, dbVars, devVars, changes>>

\* writeRegister of a parameter that differs; its result is ignored, and without an
\* answer it may or may not have reached the device.
Send ==
  /\ pc = "send"
  /\ LET desired == Desired(at, asked[at])
         sent    == [dev EXCEPT ![at] = desired]
     IN IF desired = copy[at]
          THEN UNCHANGED <<dev, unanswered>>
          ELSE /\ dev' \in IF busUp THEN {sent} ELSE {dev, sent}
               /\ unanswered' = (unanswered \/ ~busUp)
  /\ NextParam("clearWrite")
  /\ UNCHANGED <<callVars, copy, dbVars, busUp, quiet, changes>>

ClearWrite ==
  /\ pc = "clearWrite"
  /\ flags' \in IF dbUp THEN {TakenDown("write")} ELSE {flags, TakenDown("write")}
  /\ EndRound
  /\ UNCHANGED <<copy, rows, dbUp, devVars, changes>>

RoundStep ==
  \/ SelectRead \/ SelectWrite \/ Refresh
  \/ Store \/ ClearRead
  \/ Load \/ Send \/ ClearWrite

------------------------------------------------------------------------------

Changing == changes < MaxChanges /\ changes' = changes + 1

\* The operator edits a row, or asks for the rows to be read or written.
HmiEdits ==
  /\ Changing
  /\ \/ \E p \in Param, v \in Values : rows' = [rows EXCEPT ![p] = v] /\ UNCHANGED flags
     \/ \E f \in Flags : flags' = flags \cup {f} /\ UNCHANGED rows
  /\ UNCHANGED <<pc, at, callVars, copy, dbUp, devVars, hist>>

\* A parameter is changed at the panel of the device.
DeviceChanges ==
  /\ Changing
  /\ \E p \in Param, v \in Values : dev' = [dev EXCEPT ![p] = v]
  /\ quiet' = (pc = "idle")
  /\ UNCHANGED <<pc, at, callVars, copy, dbVars, busUp, unanswered>>

LinkChanges ==
  /\ Changing
  /\ \/ dbUp' = ~dbUp /\ UNCHANGED busUp
     \/ busUp' = ~busUp /\ UNCHANGED dbUp
  /\ UNCHANGED <<pc, at, callVars, copy, rows, flags, dev, hist>>

\* From some point on everything is well and nobody touches anything.
Settle ==
  /\ changes # Calm /\ changes' = Calm
  /\ dbUp' = TRUE /\ busUp' = TRUE
  /\ UNCHANGED <<pc, at, callVars, copy, rows, flags, dev, hist>>

Next == RoundStep \/ HmiEdits \/ DeviceChanges \/ LinkChanges \/ Settle

\* runPcsThread loops for ever.
Spec == Init /\ [][Next]_vars /\ WF_vars(RoundStep)

------------------------------------------------------------------------------

\* A round that stores what it has read stores what the device holds, all of it and
\* nothing older: a refresh that broke off does not leave values of an earlier round
\* among the new ones.
RowsFromDevice ==
  [][pc = "store" /\ rows' # rows /\ changes' = changes /\ quiet => rows' = dev]_vars

\* The write request is only taken down with every parameter of the device at the
\* value taken from its row, provided no write went unanswered: also those found
\* equal, and whatever was edited, requested or failed in this or earlier rounds.
WrittenThrough ==
  [][pc = "clearWrite" /\ pc' = "idle" /\ quiet /\ ~unanswered
       => \A p \in Param : dev[p] = Desired(p, asked[p])]_vars

\* Once all is well every request is taken down, for good.
RequestsTakenDown == changes = Calm ~> [](flags = {})

\* The register is the value the HMI has stored times the scale (PCS_Smarten.cpp:273).
\* The int that select returns cuts the tenths off first: reading the parameters and
\* writing them back unedited changes the device.
WrittenAsStored ==
  [][pc = "send" /\ changes' = changes /\ dev' # dev => dev'[at] = asked[at]]_vars
==============================================================================
