---------------------------- MODULE MCPollEngine ----------------------------
(* Module PollEngine for TLC: the profiles of the shipped devices.json and   *)
(* the ones the engine supports beyond it.                                   *)
EXTENDS PollEngine

\* load_meter, dg_meter, pv_meter and ess_meter.
Meter == [requests |-> 1, useQt |-> FALSE, skipProbe |-> FALSE, comm |-> TRUE,
          comAlarm |-> TRUE, ptMode |-> "device"]
\* sun_pv and agc below their owner's probe, and bamu_stack's clusters.
Inherits == [Meter EXCEPT !.requests = 2, !.skipProbe = TRUE, !.ptMode = "default"]
\* dido, which has no alarm row, with the enable row the engine also supports.
Dido == [Meter EXCEPT !.requests = 2, !.useQt = TRUE, !.comAlarm = FALSE, !.ptMode = "default"]
\* An engine without supervision that takes its ratio from the qt table.
FromQt == [Meter EXCEPT !.comm = FALSE, !.comAlarm = FALSE, !.ptMode = "qt"]

JustMeter  == {Meter}
MCProfiles == {Meter, Inherits, Dido, FromQt}
==============================================================================
