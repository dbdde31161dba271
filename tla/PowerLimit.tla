----------------------------- MODULE PowerLimit -----------------------------
(***************************************************************************)
(* The limit on active power of the inverters (devices/SunPv.cpp): each    *)
(* round reads the limit for the whole plant and the number of inverters,  *)
(* and the hook of the engine gives every inverter that answers its share, *)
(* in thousandths of the rated power, unless it is near it already.  What  *)
(* the round does to the alarm rows is in UnitScan.                        *)
(***************************************************************************)
EXTENDS Integers

CONSTANTS
  MaxUnits,   \* kMaxInverters
  Rated,      \* kRatedPowerKw
  Deadband,   \* kDeadband
  Limits,     \* bound: the limits the HMI may order
  Counts,     \* bound: the values the count row of qt may hold
  MaxChanges  \* bound: how often something around the thread changes

VARIABLES
  \* the thread
  pc,
  total,      \* himActivePowerLimit_
  n,          \* numberOfModules_
  unit,       \* the inverter it is at
  cur,        \* the engine's value of _ActivePowerLimit
  \* the database
  limit,      \* the row of data_total
  count,      \* the row of qt
  dbUp,
  \* the inverters
  reg,        \* register 5007 of each
  answering,  \* those that answer
  changes     \* the number of changes; Calm once nothing fails or changes any more

roundVars == <<total, n, unit, cur>>
vars == <<pc, roundVars, limit, count, dbUp, reg, answering, changes>>

Unit == 1 .. MaxUnits
Word == 0 .. 2^16 - 1
Calm == MaxChanges + 1

TypeOK ==
  /\ pc \in {"idle", "count", "probe", "read", "limit", "publish"}
  /\ total \in Word /\ cur \in Word /\ reg \in [Unit -> Word]
  /\ n \in 0 .. MaxUnits /\ unit \in Unit
  /\ limit \in Limits /\ count \in Counts
  /\ dbUp \in BOOLEAN /\ answering \subseteq Unit
  /\ changes \in 0 .. Calm

Init ==
  /\ pc = "idle" /\ total = 0 /\ n = 0 /\ unit = 1 /\ cur = 0
  /\ limit \in Limits /\ count \in Counts /\ dbUp = TRUE
  /\ reg = [u \in Unit |-> 1000] /\ answering = Unit
  /\ changes = 0

------------------------------------------------------------------------------

\* The members are set anew before they are used again.
EndRound == pc' = "idle" /\ total' = 0 /\ n' = 0 /\ unit' = 1 /\ cur' = 0

NextUnit ==
  IF unit < n
    THEN pc' = "probe" /\ unit' = unit + 1 /\ cur' = 0 /\ UNCHANGED <<total, n>>
    ELSE EndRound

\* The row is cast to uint16_t.
ReadLimit ==
  /\ pc = "idle" /\ dbUp
  /\ total' = limit % 2^16
  /\ pc' = "count"
  /\ UNCHANGED <<n, unit, cur, limit, count, dbUp, reg, answering, changes>>

Clamped(c) == IF c < 0 THEN 0 ELSE IF c > MaxUnits THEN MaxUnits ELSE c

ReadCount ==
  /\ pc = "count"
  /\ IF dbUp /\ Clamped(count) > 0
       THEN n' = Clamped(count) /\ pc' = "probe" /\ UNCHANGED <<total, unit, cur>>
       ELSE EndRound
  /\ UNCHANGED <<limit, count, dbUp, reg, answering, changes>>

\* The probe, and the statements on the alarm rows that follow it; one that throws
\* ends the round.
ProbeUnit ==
  /\ pc = "probe"
  /\ CASE ~dbUp                     -> EndRound
       [] dbUp /\ unit \in answering -> pc' = "read" /\ UNCHANGED roundVars
       [] OTHER                     -> NextUnit
  /\ UNCHANGED <<limit, count, dbUp, reg, answering, changes>>

\* The caches were cleared for the unit: a register that is not answered reads 0.
ReadFields ==
  /\ pc = "read"
  /\ cur' = IF unit \in answering THEN reg[unit] ELSE 0
  /\ pc' = "limit"
  /\ UNCHANGED <<total, n, unit, limit, count, dbUp, reg, answering, changes>>

\* std::round of total / n / Rated * 1000, cast to uint16_t.  Of a number beyond 16 bits
\* the cast is undefined; builds for x86-64 keep its lower bits.
ShareOfAll(t, k) == ((2000 * t + Rated) \div (2 * Rated)) % 2^16
Share(t, k) == ((2000 * t + k * Rated) \div (2 * k * Rated)) % 2^16

Deviates(target) == target - cur > Deadband \/ cur - target > Deadband

\* writePowerLimit, whose result is ignored.
WritePowerLimit ==
  /\ pc = "limit"
  /\ LET target == Share(total, n)
     IN  reg' \in IF ~Deviates(target) THEN {reg}
                  ELSE {[reg EXCEPT ![unit] = target]}
                         \cup (IF unit \in answering THEN {} ELSE {reg})
  /\ pc' = "publish"
  /\ UNCHANGED <<roundVars, limit, count, dbUp, answering, changes>>

\* writeRealtime.
Publish ==
  /\ pc = "publish"
  /\ IF dbUp THEN NextUnit ELSE EndRound
  /\ UNCHANGED <<limit, count, dbUp, reg, answering, changes>>

RoundStep == ReadLimit \/ ReadCount \/ ProbeUnit \/ ReadFields \/ WritePowerLimit \/ Publish

------------------------------------------------------------------------------

Changing == changes < MaxChanges /\ changes' = changes + 1

EditOrders ==
  /\ Changing
  /\ limit' \in Limits /\ count' \in Counts
  /\ UNCHANGED <<pc, roundVars, dbUp, reg, answering>>

\* An inverter is replaced, or set at its panel.
UnitChanges ==
  /\ Changing
  /\ \E u \in Unit : reg' = [reg EXCEPT ![u] = 1000]
  /\ UNCHANGED <<pc, roundVars, limit, count, dbUp, answering>>

LinkChanges ==
  /\ Changing
  /\ \/ dbUp' = ~dbUp /\ UNCHANGED answering
     \/ \E u \in Unit : /\ answering' = IF u \in answering THEN answering \ {u}
                                                           ELSE answering \cup {u}
                        /\ UNCHANGED dbUp
  /\ UNCHANGED <<pc, roundVars, limit, count, reg>>

\* From some point on the database is up and the units stay as they are.
Settle ==
  /\ changes # Calm /\ changes' = Calm
  /\ dbUp' = TRUE
  /\ UNCHANGED <<pc, roundVars, limit, count, reg, answering>>

Next == RoundStep \/ EditOrders \/ UnitChanges \/ LinkChanges \/ Settle

------------------------------------------------------------------------------

\* The limits the plant can be given: up to the rated power of the inverters counted.
Sensible == limit \in 0 .. Clamped(count) * Rated

\* Is inverter u, within the dead band and the rounding, at its share of the limit ordered?
AtShare(u) ==
  LET k == Clamped(count) * Rated
      off == reg[u] * k - 1000 * limit
  IN  off <= (Deadband + 1) * k /\ -off <= (Deadband + 1) * k

Shared == \A u \in answering : u <= Clamped(count) => AtShare(u)

\* Once all is well, every inverter that answers ends up at its share, also when one beside
\* it is dead, when a write was lost, or when it was replaced by one with a limit of its own.
LimitsArrive == changes = Calm /\ Sensible ~> []Shared
==============================================================================
