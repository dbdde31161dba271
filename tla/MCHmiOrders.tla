----------------------------- MODULE MCHmiOrders -----------------------------
(***************************************************************************)
(* The three threads that carry orders of the HMI to devices: PCS_Smarten, *)
(* Dido and SunPv.  They read different rows of data_total and qt and      *)
(* command different devices, so that a behaviour watches one of them, and *)
(* the two others stand still in it.                                       *)
(***************************************************************************)
EXTENDS PcsDispatch

CONSTANTS Outputs, Inputs, MaxUnits, Rated, LimitDeadband, Limits, Counts

\* The orders of the first two outputs are read in the other order: there are two.  The
\* rated powers of all inverters together fit a register.
ASSUME OrdersAssumption ==
  /\ Outputs \in Nat \ {0, 1} /\ Inputs \in Nat \ {0}
  /\ MaxUnits \in Nat \ {0} /\ Rated \in Nat \ {0} /\ LimitDeadband \in Nat
  /\ MaxUnits * Rated < 2^16
  /\ Limits \subseteq Int /\ 100 \in Limits
  /\ Counts \subseteq Int /\ 1 \in Counts

VARIABLES
  watched,  \* the thread watched: "pcs", "dido" or "pv"
  doPc, at, feedback, seen, asked, doTarget, doOrder, logic, dodi, out, in, doBusUp,
  pvPc, total, n, unit, cur, limit, count, reg, answering

\* Orders and counts below, within and beyond what the code expects.
MCLimits == {-1, 1, 100}
MCCounts == {-1, 1, 3}

DO == INSTANCE Dido
        WITH pc <- doPc, heard <- asked, target <- doTarget, order <- doOrder, busUp <- doBusUp
PV == INSTANCE PowerLimit WITH pc <- pvPc, Deadband <- LimitDeadband

pcsVars == <<pc, copy, target, resetWish, heard, order, resetFlag, dev, busUp>>
doVars  == <<doPc, at, feedback, seen, asked, doTarget, doOrder, logic, dodi, out, in, doBusUp>>
pvVars  == <<pvPc, total, n, unit, cur, limit, count, reg, answering>>
allVars == <<watched, dbUp, changes, pcsVars, doVars, pvVars>>

\* A thread that is not watched starts in one state only.
MCInit ==
  /\ watched \in {"pcs", "dido", "pv"}
  /\ Init /\ DO!Init /\ PV!Init
  /\ watched # "pcs"  => order = NoOrder /\ dev = NoOrder
  /\ watched # "dido" => doOrder = DO!AllOff
  /\ watched # "pv"   => limit = 100 /\ count = 1

Pcs(A) == watched = "pcs"  /\ A /\ UNCHANGED <<watched, doVars, pvVars>>
Do(A)  == watched = "dido" /\ A /\ UNCHANGED <<watched, pcsVars, pvVars>>
Pv(A)  == watched = "pv"   /\ A /\ UNCHANGED <<watched, pcsVars, doVars>>

MCNext == Pcs(Next) \/ Do(DO!Next) \/ Pv(PV!Next)

\* The threads loop for ever.
MCSpec ==
  /\ MCInit /\ [][MCNext]_allVars
  /\ WF_allVars(Pcs(RoundStep)) /\ WF_allVars(Do(DO!RoundStep)) /\ WF_allVars(Pv(PV!RoundStep))

------------------------------------------------------------------------------

\* Types of the three threads.
MCTypeOK == TypeOK /\ DO!TypeOK /\ PV!TypeOK

\* PCS_Smarten: orders arrive at the device, whatever failed before (PcsDispatch).
PcsOrdersArrive == watched = "pcs" => OrdersArrive

\* PCS_Smarten: requests for a reset are taken down for good (PcsDispatch).
PcsResetTakenDown == watched = "pcs" => ResetTakenDown

\* Dido: outputs, and the rows about outputs and inputs, follow (Dido).
DidoOutputsFollow == watched = "dido" => DO!OutputsFollow

\* Dido: nothing is switched in a round that could not read the orders (Dido).
DidoNotUnasked == DO!NotSwitchedUnasked

\* SunPv: every inverter that answers gets its share of the limit (PowerLimit).
PvLimitsArrive == watched = "pv" => PV!LimitsArrive
==============================================================================
