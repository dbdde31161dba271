------------------------------ MODULE ModbusRTU ------------------------------
(***************************************************************************)
(* The serial transport (core/ModbusRtu.cpp, class ModbusRTU): the life of *)
(* the libmodbus context, the back-off between attempts to open the port,  *)
(* and the slave address the context carries.  io_mutex_ makes every       *)
(* public operation one step; the thread that owns the instance selects a  *)
(* slave, whether or not setSlave succeeds, and then exchanges requests.   *)
(*                                                                         *)
(* Time passes in Tick.  A handle that outlives its port (a USB adapter    *)
(* that was unplugged, or came back under the same name) is "stale".       *)
(***************************************************************************)
EXTENDS Backoff

CONSTANTS
  Slaves,      \* the slave addresses on this line
  NoSlave,     \* a new context carries no address (libmodbus: -1)
  HardLimit    \* kHardErrorThreshold

ASSUME LineAssumption ==
  /\ NoSlave \notin Slaves
  /\ HardLimit \in Nat \ {0}

VARIABLES
  ctx,         \* the context: "none", "live" or "stale"
  slave,       \* the address it carries
  hardErrors,  \* hardErrorCount_
  \* the owner
  wanted,      \* the slave it selected last
  \* the line
  port,        \* "gone": no device file; "broken": it cannot be opened; "ok"
  noise,       \* do requests fail with hard errors on a live handle?
  \* history
  last,        \* the last request: the address it carried, the slave meant
  opened,      \* flips with every attempt to open the port
  hardRun      \* hard errors since the last answer or opening

ctxVars  == <<ctx, slave, delay, window, hardErrors>>
lineVars == <<port, noise>>
openHist == <<opened, failed, idle>>
vars == <<ctxVars, wanted, lineVars, last, openHist, hardRun>>

Address == Slaves \cup {NoSlave}

TypeOK ==
  /\ ctx \in {"none", "live", "stale"}
  /\ slave \in Address
  /\ delay \in 0 .. DelayMax
  /\ window \in 0 .. delay
  /\ hardErrors \in 0 .. HardLimit - 1
  /\ wanted \in Address
  /\ port \in {"gone", "broken", "ok"}
  /\ noise \in BOOLEAN
  /\ last \in [to : Address, for : Address]
  /\ opened \in {0, 1}
  /\ failed \in 0 .. MaxFails
  /\ idle \in 0 .. DelayMax
  /\ hardRun \in 0 .. HardLimit

\* The constructor tries the port once and ignores the result: it leaves no
\* window behind.
Init ==
  /\ port \in {"gone", "broken", "ok"}
  /\ ctx = IF port = "ok" THEN "live" ELSE "none"
  /\ slave = NoSlave
  /\ delay = 0 /\ window = 0 /\ hardErrors = 0
  /\ wanted = NoSlave
  /\ noise = FALSE
  /\ last = [to |-> NoSlave, for |-> NoSlave]
  /\ opened = 0 /\ failed = 0 /\ idle = DelayMax
  /\ hardRun = 0

------------------------------------------------------------------------------
(* The connection.                                                           *)

\* The address of a context that openPort makes.
FreshSlaveKept == slave
FreshSlave == NoSlave

AttemptNow ==
  /\ opened' = 1 - opened
  /\ idle' = 0

\* ensureConnected on an open context.  Its socket is never -1, so a stale
\* handle passes too.
Healthy ==
  /\ ctx # "none"
  /\ delay' = 0 /\ window' = 0

\* ensureConnected when openPort succeeds: the context is new.
Reopened ==
  /\ ctx = "none" /\ window = 0 /\ port = "ok"
  /\ ctx' = "live"
  /\ delay' = 0 /\ window' = 0
  /\ AttemptNow
  /\ failed' = 0

\* ensureConnected when openPort fails: access finds no file, or
\* modbus_connect fails.
OpenFails ==
  /\ ctx = "none" /\ window = 0 /\ port # "ok"
  /\ delay' = NextDelay(delay) /\ window' = delay'
  /\ AttemptNow
  /\ failed' = IF failed < MaxFails THEN failed + 1 ELSE failed
  /\ UNCHANGED <<ctx, slave, hardErrors, hardRun>>

\* ensureConnected within the window.
FailFast ==
  /\ ctx = "none" /\ window > 0
  /\ UNCHANGED <<ctxVars, openHist, hardRun>>

------------------------------------------------------------------------------
(* The operations.                                                           *)

\* setSlave: nothing remembers the address when there is no context.
SetSlave ==
  \E s \in Slaves :
    /\ wanted' = s
    /\ \/ Healthy /\ slave' = s /\ UNCHANGED <<ctx, hardErrors, openHist, hardRun>>
       \/ Reopened /\ slave' = s /\ hardErrors' = 0 /\ hardRun' = 0
       \/ OpenFails
       \/ FailFast
    /\ UNCHANGED <<lineVars, last>>

\* noteHardError after `errors` hard ones and `run` of them in a row, on handle
\* h: the HardLimit-th releases the context.
HardNotedHasty(h, errors, run) ==
  /\ ctx' = "none"
  /\ hardErrors' = 0
  /\ hardRun' = run + 1

HardNotedUncounted(h, errors, run) ==
  /\ ctx' = h
  /\ hardErrors' = errors
  /\ hardRun' = run

HardNoted(h, errors, run) ==
  /\ ctx' = IF errors + 1 < HardLimit THEN h ELSE "none"
  /\ hardErrors' = IF errors + 1 < HardLimit THEN errors + 1 ELSE 0
  /\ hardRun' = run + 1

\* What an operation notes of its outcome: noteIoSuccess, noteHardError, or
\* nothing for the errors isSoftError tells apart.
Noted(outcome, h, errors, run) ==
  \/ outcome = "ok"   /\ ctx' = h /\ hardErrors' = 0 /\ hardRun' = 0
  \/ outcome = "soft" /\ ctx' = h /\ hardErrors' = errors /\ hardRun' = run
  \/ outcome = "hard" /\ HardNoted(h, errors, run)

\* How a request that carries address a on handle h can end.
Outcomes(h, a) ==
  IF h = "stale" THEN {"hard"}
  ELSE {"soft"} \cup (IF a # NoSlave THEN {"ok"} ELSE {})
                \cup (IF noise THEN {"hard"} ELSE {})

\* A request on an open context.
Send ==
  /\ Healthy
  /\ last' = [to |-> slave, for |-> wanted]
  /\ \E outcome \in Outcomes(ctx, slave) : Noted(outcome, ctx, hardErrors, hardRun)
  /\ UNCHANGED <<slave, openHist>>

\* A request that finds the port closed and opens it first: the new context has
\* no address until the next setSlave.
ReopenAndSend ==
  /\ ctx = "none" /\ window = 0 /\ port = "ok"
  /\ delay' = 0 /\ window' = 0
  /\ AttemptNow
  /\ failed' = 0
  /\ slave' = FreshSlave
  /\ last' = [to |-> FreshSlave, for |-> wanted]
  /\ \E outcome \in Outcomes("live", FreshSlave) : Noted(outcome, "live", 0, 0)

\* readRegisters, readInputRegisters, readBits, readInputBits, writeRegister,
\* writeRegisters, writeCoil, writeBits and probe differ in the libmodbus call
\* alone.  The owner has selected a slave before.
Exchange ==
  /\ wanted # NoSlave
  /\ \/ Send
     \/ ReopenAndSend
     \/ (OpenFails \/ FailFast) /\ UNCHANGED last
  /\ UNCHANGED <<wanted, lineVars>>

------------------------------------------------------------------------------
(* Time and the line.                                                        *)

Tick ==
  /\ window > 0 \/ idle < DelayMax
  /\ window' = IF window > 0 THEN window - 1 ELSE 0
  /\ idle' = IF idle < DelayMax THEN idle + 1 ELSE idle
  /\ UNCHANGED <<ctx, slave, delay, hardErrors, wanted, lineVars, last,
                 opened, failed, hardRun>>

\* The port goes away, comes back broken, or is usable again; a handle from
\* before stays stale.
PortChanges ==
  /\ port' \in {"gone", "broken", "ok"} \ {port}
  /\ ctx' = IF ctx = "live" THEN "stale" ELSE ctx
  /\ UNCHANGED <<slave, delay, window, hardErrors, wanted, noise, last,
                 openHist, hardRun>>

NoiseChanges ==
  /\ noise' = ~noise
  /\ UNCHANGED <<ctxVars, wanted, port, last, openHist, hardRun>>

Next == SetSlave \/ Exchange \/ Tick \/ PortChanges \/ NoiseChanges

\* The owner's loop and the clock go on.
Spec ==
  /\ Init /\ [][Next]_vars
  /\ WF_vars(SetSlave) /\ WF_vars(Exchange) /\ WF_vars(Tick)

------------------------------------------------------------------------------
(* Properties.                                                               *)

\* No request ever goes to a slave the owner did not mean.  A setSlave that
\* fails is not retried or remembered, but it fails only without a context, and
\* the next context carries no address at all: openPort does not apply the slave
\* again (ModbusTCP::create_context does), so that the request that reopens the port
\* is sent to nobody.
NeverWrongSlave == last.to \in {NoSlave, last.for}

\* However calls, ticks and the port's changes interleave, the port is never
\* tried again before the back-off of the failures so far has passed.
OpensArePaced ==
  [][opened' # opened /\ failed > 0 => idle >= Wait(failed)]_vars

\* An open context is only given up after HardLimit hard errors with neither an
\* answer nor a new context between them: soft errors and a single glitch never
\* cost the connection.
ReleaseNeedsHardRun ==
  [][ctx # "none" /\ ctx' = "none" => hardRun' >= HardLimit]_vars

\* Once the port stays usable and the line clean, the context is eventually live
\* and carries the slave the owner means for ever, whatever stale handle,
\* window or missing address the failures left behind.
PortRecovers ==
  <>[](port = "ok" /\ ~noise) => <>[](ctx = "live" /\ slave = wanted)
==============================================================================
