------------------------------ MODULE ModbusTCP ------------------------------
(***************************************************************************)
(* The TCP transport (core/ModbusRtu.cpp, class ModbusTCP): the life of    *)
(* the connection, the connect attempt that blocks its caller, and the     *)
(* back-off between attempts.  io_mutex_ makes every public operation one  *)
(* step, except that an operation that has to connect is two, with time    *)
(* passing between them.                                                   *)
(*                                                                         *)
(* `link` is the context and its socket as they are on this side:          *)
(*   "none"    no context                "closed"  a context, no socket    *)
(*   "up"      connected                 "hup"     the peer has reset it   *)
(*   "fin"     the peer has closed it: poll is not asked for POLLRDHUP,    *)
(*             so the socket looks healthy                                 *)
(*   "orphan"  the peer lost it silently: nothing tells, requests time out *)
(*                                                                         *)
(* Names that ModbusRTU has too begin with Tcp, so that one module can     *)
(* reason about both.                                                      *)
(***************************************************************************)
EXTENDS Backoff

CONSTANTS
  Units,           \* the unit identifiers behind this address
  ConnectTimeout   \* kConnectTimeoutMs, in the unit of DelayInit

ASSUME LinkAssumption == ConnectTimeout \in Nat

VARIABLES
  link,
  slaveId,   \* slave_id_
  ctxSlave,  \* the identifier the context carries, if there is a context
  pc,        \* "ready", or "connecting" inside connectWithTimeout
  spent,     \* the time since ensureConnected took `now`
  \* the network
  peer,      \* "up", "refuses" connections, or "silent"
  faulty,    \* do answered requests fail with hard errors (exception codes)?
  \* history
  sent       \* the last request: the identifier it carried, the one selected

linkVars  == <<link, ctxSlave, delay, window>>
callVars  == <<pc, spent>>
netVars   == <<peer, faulty>>
clockHist == <<failed, idle>>
tcpVars == <<linkVars, slaveId, callVars, netVars, sent, clockHist>>

TcpTypeOK ==
  /\ link \in {"none", "closed", "up", "fin", "hup", "orphan"}
  /\ slaveId \in Units /\ ctxSlave \in Units
  /\ delay \in 0 .. DelayMax
  /\ window \in 0 .. delay
  /\ pc \in {"ready", "connecting"}
  /\ spent \in 0 .. ConnectTimeout
  /\ peer \in {"up", "refuses", "silent"}
  /\ faulty \in BOOLEAN
  /\ sent \in [to : Units, for : Units]
  /\ failed \in 0 .. MaxFails
  /\ idle \in 0 .. DelayMax

\* The constructor connects to nothing.
TcpInit ==
  /\ link = "none"
  /\ slaveId \in Units /\ ctxSlave = slaveId
  /\ delay = 0 /\ window = 0
  /\ pc = "ready" /\ spent = 0
  /\ peer \in {"up", "refuses", "silent"} /\ faulty = FALSE
  /\ sent = [to |-> slaveId, for |-> slaveId]
  /\ failed = 0 /\ idle = DelayMax

------------------------------------------------------------------------------
(* The operations.                                                           *)

\* setSlave: remembered for contexts to come, and told to the present one.
TcpSetSlave ==
  /\ pc = "ready"
  /\ \E s \in Units :
       /\ slaveId' = s
       /\ ctxSlave' = IF link # "none" THEN s ELSE ctxSlave
  /\ UNCHANGED <<link, delay, window, callVars, netVars, sent, clockHist>>

\* check_connection: a socket without POLLERR, POLLHUP or POLLNVAL.
CheckConnection == link \in {"up", "fin", "orphan"}

\* How a request on connection l ends: answered, a soft error that keeps the
\* connection, or a hard error that drops it.  A peer that lost the connection
\* resets it when the request arrives; one that closed it reads as ECONNRESET.
AfterKept(l) ==
  CASE l = "orphan" /\ peer # "silent" -> {"hup"}
    [] OTHER -> {l}

After(l) ==
  CASE l = "up" /\ peer # "silent" -> {"up"} \cup (IF faulty THEN {"closed"} ELSE {})
    [] l = "orphan" /\ peer # "silent" -> {"hup", "closed"}
    [] l \in {"fin", "hup"} -> {"closed"}
    [] OTHER -> {l}

\* The reads, the writes and probe on a connection that passes the check; they
\* differ in the libmodbus call alone.
TcpSend ==
  /\ pc = "ready" /\ CheckConnection
  /\ delay' = 0 /\ window' = 0
  /\ sent' = [to |-> ctxSlave, for |-> slaveId]
  /\ link' \in After(link)
  /\ UNCHANGED <<ctxSlave, slaveId, callVars, netVars, clockHist>>

\* ensureConnected within the window.
TcpFailFast ==
  /\ pc = "ready" /\ ~CheckConnection /\ window > 0
  /\ UNCHANGED tcpVars

\* create_context: the new context is told the slave at once.
CreatedSlaveKept == ctxSlave
CreatedSlave == slaveId

\* try_connect up to the blocking connect.
StartConnect ==
  /\ pc = "ready" /\ ~CheckConnection /\ window = 0
  /\ link' = "closed"
  /\ ctxSlave' = CreatedSlave
  /\ pc' = "connecting" /\ spent' = 0
  /\ idle' = 0
  /\ UNCHANGED <<slaveId, delay, window, netVars, sent, failed>>

\* connectWithTimeout succeeds and the operation goes on with its request.
Connected ==
  /\ pc = "connecting" /\ peer = "up"
  /\ pc' = "ready" /\ spent' = 0
  /\ delay' = 0 /\ window' = 0
  /\ sent' = [to |-> ctxSlave, for |-> slaveId]
  /\ link' \in After("up")
  /\ failed' = 0
  /\ UNCHANGED <<ctxSlave, slaveId, netVars, idle>>

\* What is left of delay d when t of it went by while the connect blocked: the
\* window is counted from the `now` taken before it.
Remaining(d, t) == IF d > t THEN d - t ELSE 0

\* connectWithTimeout is refused or times out: try_connect frees the context and
\* the operation fails.
ConnectFails ==
  /\ pc = "connecting"
  /\ peer = "refuses" \/ spent = ConnectTimeout
  /\ pc' = "ready" /\ spent' = 0
  /\ link' = "none"
  /\ delay' = NextDelay(delay)
  /\ window' = Remaining(delay', spent)
  /\ failed' = IF failed < MaxFails THEN failed + 1 ELSE failed
  /\ UNCHANGED <<ctxSlave, slaveId, netVars, sent, idle>>

TcpExchange == TcpSend \/ TcpFailFast \/ StartConnect
ConnectEnds == Connected \/ ConnectFails

------------------------------------------------------------------------------
(* Time and the network.                                                     *)

Upto(n, bound) == IF n < bound THEN n + 1 ELSE n

TcpTick ==
  /\ \/ pc = "connecting" /\ spent < ConnectTimeout /\ spent' = spent + 1
     \/ pc = "ready" /\ UNCHANGED spent
  /\ window' = Remaining(window, 1)
  /\ idle' = Upto(idle, DelayMax)
  /\ UNCHANGED <<link, ctxSlave, slaveId, delay, pc, netVars, sent, failed>>

\* The peer goes away, comes back or restarts.  A connection it had survives, or
\* is closed, reset, or forgotten without a word.
PeerChanges ==
  /\ peer' \in {"up", "refuses", "silent"} \ {peer}
  /\ link' \in IF link = "up" THEN {"up", "fin", "hup", "orphan"} ELSE {link}
  /\ UNCHANGED <<ctxSlave, delay, window, slaveId, callVars, faulty, sent, clockHist>>

\* A peer that is up drops the connection.
PeerDrops ==
  /\ peer = "up" /\ link = "up"
  /\ link' \in {"fin", "hup"}
  /\ UNCHANGED <<ctxSlave, delay, window, slaveId, callVars, netVars, sent, clockHist>>

FaultChanges ==
  /\ faulty' = ~faulty
  /\ UNCHANGED <<linkVars, slaveId, callVars, peer, sent, clockHist>>

TcpNext ==
  \/ TcpSetSlave \/ TcpExchange \/ ConnectEnds
  \/ TcpTick \/ PeerChanges \/ PeerDrops \/ FaultChanges

\* The owner's loop, the kernel's connect and the clock go on, and attempts to
\* connect to a peer that is up do not time out for ever.
TcpSpec ==
  /\ TcpInit /\ [][TcpNext]_tcpVars
  /\ WF_tcpVars(TcpExchange) /\ WF_tcpVars(ConnectEnds) /\ WF_tcpVars(TcpTick)
  /\ SF_tcpVars(Connected)

------------------------------------------------------------------------------
(* Properties.                                                               *)

\* Every request carries the slave selected last, also when setSlave met no
\* connection, or the connection was made anew in between.
RequestsAddressed == sent.to = sent.for

\* However calls, blocking connects, ticks and the peer's changes interleave, an
\* attempt does not begin before the back-off of the failures so far has passed
\* since the last one began.
ConnectsArePaced ==
  [][pc = "ready" /\ pc' = "connecting" /\ failed > 0 => idle >= Wait(failed)]_tcpVars

\* With a peer that stays up, every broken connection is replaced, whether it was
\* closed, reset or silently forgotten, and whatever back-off had built up: a
\* peer that drops connections for ever is connected to again and again.
PeerRecovers == <>[](peer = "up" /\ ~faulty) => []<>(link = "up")
==============================================================================
