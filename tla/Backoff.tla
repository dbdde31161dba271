------------------------------- MODULE Backoff -------------------------------
(***************************************************************************)
(* The exponential back-off of reconnects that both transports of          *)
(* core/ModbusRtu.cpp use: reconnectDelayMs_ is 0 while the connection is  *)
(* healthy, DelayInit after the first failure, and doubles up to DelayMax. *)
(***************************************************************************)
EXTENDS Integers

CONSTANTS
  DelayInit,   \* kReconnectInitMs
  DelayMax,    \* kReconnectMaxMs
  MaxFails     \* bound: failed attempts in a row that history counts apart

ASSUME DelayAssumption ==
  /\ DelayInit \in Nat \ {0}
  /\ DelayMax \in Nat /\ DelayMax >= DelayInit
  /\ MaxFails \in Nat \ {0}

VARIABLES
  delay,       \* reconnectDelayMs_
  window,      \* how much of it is left: nextReconnectAt_ - now
  \* history
  failed,      \* attempts that failed since the port or the connection was last open
  idle         \* time since the last attempt began

NextDelayFlat(d) == DelayInit
NextDelay(d) == IF d = 0 THEN DelayInit
                         ELSE IF 2 * d <= DelayMax THEN 2 * d ELSE DelayMax

PowerOf2[n \in Nat] == IF n = 0 THEN 1 ELSE 2 * PowerOf2[n - 1]

\* The wait that the n-th failure in a row calls for.
Wait(n) == LET d == DelayInit * PowerOf2[n - 1] IN IF d <= DelayMax THEN d ELSE DelayMax
==============================================================================
