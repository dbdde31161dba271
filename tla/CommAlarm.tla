------------------------------ MODULE CommAlarm ------------------------------
(***************************************************************************)
(* What the communication supervision of one device promises to whoever    *)
(* reads the real-time database: the rows Online and com_alarm go to 1     *)
(* only on the strength of more than Threshold unanswered probes in a row, *)
(* and go back to 0 only on the strength of an answered one.               *)
(*                                                                         *)
(* ModbusPollEngine::checkComm and writeRealtime (module PollEngine)       *)
(* implement this specification.                                           *)
(***************************************************************************)
EXTENDS Naturals

CONSTANT Threshold      \* comm.fail_threshold, a natural number

VARIABLES
  verdict,  \* what the current round has concluded about the device:
            \* "undecided", "answered" or "offline"
  misses,   \* unanswered probes since the last answer or start, saturated
  online,   \* row mysql_online_addr of the device's table: 0 online, 1 not
  alarm     \* row com_alarm_addr of the table com_alarm

vars == <<verdict, misses, online, alarm>>

Init ==
  /\ verdict = "undecided"
  /\ misses = 0
  /\ online = 0
  /\ alarm = 0

\* Counting past Threshold + 1 changes nothing: the count is only ever
\* compared with Threshold.
Saturate(n) == IF n > Threshold THEN n ELSE n + 1

\* The probe of a round is answered.
Answered ==
  /\ verdict = "undecided"
  /\ verdict' = "answered"
  /\ misses' = 0
  /\ UNCHANGED <<online, alarm>>

\* The probe of a round is not answered; past the threshold the device is
\* declared offline.
Missed ==
  /\ verdict = "undecided"
  /\ misses' = Saturate(misses)
  /\ verdict' = IF misses' > Threshold THEN "offline" ELSE "undecided"
  /\ UNCHANGED <<online, alarm>>

\* A step that writes a row may be the last one of its round.
MayEnd == verdict' \in {verdict, "undecided"}

RaiseOnline ==
  /\ verdict = "offline"
  /\ online' = 1
  /\ MayEnd
  /\ UNCHANGED <<misses, alarm>>

RaiseAlarm ==
  /\ verdict = "offline" /\ online = 1
  /\ alarm' = 1
  /\ MayEnd
  /\ UNCHANGED <<misses, online>>

ClearAlarm ==
  /\ verdict = "answered"
  /\ alarm' = 0
  /\ MayEnd
  /\ UNCHANGED <<misses, online>>

ClearOnline ==
  /\ verdict = "answered" /\ alarm = 0
  /\ online' = 0
  /\ MayEnd
  /\ UNCHANGED <<misses, alarm>>

\* A round ends without writing anything more.
EndRound ==
  /\ verdict' = "undecided"
  /\ UNCHANGED <<misses, online, alarm>>

\* The process starts again: the count is lost, the rows are not.
Restart ==
  /\ verdict' = "undecided"
  /\ misses' = 0
  /\ UNCHANGED <<online, alarm>>

Next ==
  \/ Answered \/ Missed
  \/ RaiseOnline \/ RaiseAlarm
  \/ ClearAlarm \/ ClearOnline
  \/ EndRound \/ Restart

Spec == Init /\ [][Next]_vars
==============================================================================
