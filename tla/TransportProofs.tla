-------------------------- MODULE TransportProofs --------------------------
(***************************************************************************)
(* Proofs about the two transports behind IModbusBus, modules ModbusRTU    *)
(* and ModbusTCP, for all slaves, limits, time-outs and back-offs.         *)
(***************************************************************************)
EXTENDS ModbusRTU, ModbusTCP, WellFoundedInduction, TLAPS

------------------------------------------------------------------------------
(* Powers of two, and the waits they stand for (module Backoff).             *)

\* Induction over a set: a set of naturals that is not empty has a least element.
LEMMA LeastNatural ==
  ASSUME NEW T \in SUBSET Nat, T # {}
  PROVE  \E n \in T : \A m \in T : n <= m
<1>1. PICK n \in T : \A m \in T : ~(<<m, n>> \in OpToRel(<, Nat))
  BY NatLessThanWellFounded, WFMin
<1>2. \A m \in T : ~(m < n)
  BY <1>1 DEF OpToRel
<1>. QED
  BY <1>2

\* f tells the powers of two up to n.
Powers(f, n) ==
  /\ f \in [0 .. n -> Nat]
  /\ f[0] = 1
  /\ \A k \in 1 .. n : f[k] = 2 * f[k - 1]

LEMMA PowersExist == ASSUME NEW n \in Nat PROVE \E f : Powers(f, n)
<1>. DEFINE T == {k \in Nat : ~(\E f : Powers(f, k))}
<1>1. ASSUME T # {} PROVE FALSE
  <2>1. PICK k \in T : \A m \in T : k <= m
    BY <1>1, LeastNatural
  <2>2. CASE k = 0
    <3>1. Powers([i \in 0 .. 0 |-> 1], 0)
      BY DEF Powers
    <3>. QED
      BY <2>1, <2>2, <3>1
  <2>3. CASE k # 0
    <3>1. k - 1 \in Nat /\ k - 1 \notin T
      BY <2>1, <2>3
    <3>2. PICK f : Powers(f, k - 1)
      BY <3>1
    <3>3. k \in Nat /\ k >= 1 /\ f \in [0 .. k - 1 -> Nat]
      BY <2>1, <2>3, <3>2 DEF Powers
    <3>. DEFINE g == [i \in 0 .. k |-> IF i = k THEN 2 * f[k - 1] ELSE f[i]]
    <3>4. f[k - 1] \in Nat
      BY <3>3
    <3>5. Powers(g, k)
      BY <3>2, <3>3, <3>4 DEF Powers
    <3>. QED
      BY <2>1, <3>5
  <2>. QED
    BY <2>2, <2>3
<1>. QED
  BY <1>1

LEMMA PowersUnique ==
  ASSUME NEW n \in Nat, NEW m \in Nat, NEW f, NEW g, Powers(f, n), Powers(g, m), NEW i \in Nat, i <= n, i <= m
  PROVE  f[i] = g[i]
<1>. DEFINE T == {k \in Nat : k <= n /\ k <= m /\ f[k] # g[k]}
<1>1. ASSUME T # {} PROVE FALSE
  <2>1. PICK k \in T : \A j \in T : k <= j
    BY <1>1, LeastNatural
  <2>2. CASE k = 0
    BY <2>1, <2>2 DEF Powers
  <2>3. CASE k # 0
    <3>1. k - 1 \in Nat /\ k - 1 \notin T /\ k \in 1 .. n /\ k \in 1 .. m
      BY <2>1, <2>3
    <3>2. f[k - 1] = g[k - 1]
      BY <3>1
    <3>. QED
      BY <2>1, <3>1, <3>2 DEF Powers
  <2>. QED
    BY <2>2, <2>3
<1>. QED
  BY <1>1

LEMMA PowerOf2Steps ==
  /\ PowerOf2 \in [Nat -> Nat]
  /\ PowerOf2[0] = 1
  /\ \A n \in Nat : PowerOf2[n + 1] = 2 * PowerOf2[n]
<1>. DEFINE F(n) == CHOOSE f : Powers(f, n)
            P == [n \in Nat |-> F(n)[n]]
<1>1. \A n \in Nat : Powers(F(n), n)
  BY PowersExist
<1>2. \A n \in Nat : F(n) \in [0 .. n -> Nat]
  BY <1>1 DEF Powers
<1>3. P[0] = 1
  BY <1>1 DEF Powers
<1>4. ASSUME NEW n \in Nat PROVE P[n + 1] = 2 * P[n]
  <2>1. F(n + 1)[n + 1] = 2 * F(n + 1)[n]
    <3>1. n + 1 \in Nat /\ n + 1 \in 1 .. n + 1 /\ (n + 1) - 1 = n
      OBVIOUS
    <3>2. Powers(F(n + 1), n + 1)
      BY <1>1, <3>1
    <3>. QED
      BY <3>1, <3>2 DEF Powers
  <2>2. F(n + 1)[n] = F(n)[n]
    BY <1>1, PowersUnique
  <2>. QED
    BY <2>1, <2>2
<1>. HIDE DEF F
<1>5. P = [n \in Nat |-> IF n = 0 THEN 1 ELSE 2 * P[n - 1]]
  <2>. SUFFICES ASSUME NEW n \in Nat PROVE P[n] = IF n = 0 THEN 1 ELSE 2 * P[n - 1]
    OBVIOUS
  <2>1. CASE n = 0
    BY <1>3, <2>1
  <2>2. CASE n # 0
    <3>1. n - 1 \in Nat /\ (n - 1) + 1 = n
      BY <2>2
    <3>2. P[(n - 1) + 1] = 2 * P[n - 1]
      BY <1>4, <3>1
    <3>. QED
      BY <2>2, <3>1, <3>2
  <2>. QED
    BY <2>1, <2>2
<1>. HIDE DEF P
<1>6. PowerOf2 = [n \in Nat |-> IF n = 0 THEN 1 ELSE 2 * PowerOf2[n - 1]]
  BY <1>5, Zenon DEF PowerOf2
<1>7. \A n \in Nat : PowerOf2[n + 1] = 2 * PowerOf2[n]
  <2>. SUFFICES ASSUME NEW n \in Nat PROVE PowerOf2[n + 1] = 2 * PowerOf2[n]
    OBVIOUS
  <2>1. n + 1 \in Nat /\ n + 1 # 0 /\ (n + 1) - 1 = n
    OBVIOUS
  <2>. QED
    BY <1>6, <2>1
<1>8. PowerOf2[0] = 1
  BY <1>6
<1>9. ASSUME NEW n \in Nat PROVE PowerOf2[n] \in Nat
  <2>. DEFINE T == {k \in Nat : PowerOf2[k] \notin Nat}
  <2>1. ASSUME T # {} PROVE FALSE
    <3>1. PICK k \in T : \A j \in T : k <= j
      BY <2>1, LeastNatural
    <3>2. k # 0
      BY <1>8, <3>1
    <3>3. k - 1 \in Nat /\ k - 1 \notin T /\ (k - 1) + 1 = k
      BY <3>1, <3>2
    <3>. QED
      BY <1>7, <3>1, <3>3
  <2>. QED
    BY <2>1
<1>10. PowerOf2 \in [Nat -> Nat]
  BY <1>6, <1>9
<1>. QED
  BY <1>7, <1>8, <1>10

\* A wait is the first one, doubled for every failure after the first, up to
\* DelayMax.
LEMMA WaitSteps ==
  /\ Wait(1) <= DelayInit
  /\ \A n \in Nat \ {0} :
       /\ Wait(n) \in 0 .. DelayMax
       /\ \/ Wait(n) = DelayMax
          \/ 2 * Wait(n) >= Wait(n + 1)
<1>. DEFINE D(n) == DelayInit * PowerOf2[n - 1]
<1>1. ASSUME NEW n \in Nat \ {0} PROVE D(n) \in Nat /\ D(n + 1) = 2 * D(n)
  <2>1. /\ n - 1 \in Nat /\ (n - 1) + 1 = n /\ (n + 1) - 1 = n
        /\ PowerOf2[n] = 2 * PowerOf2[n - 1] /\ PowerOf2[n - 1] \in Nat
    BY PowerOf2Steps
  <2>2. ASSUME NEW p \in Nat, NEW i \in Nat PROVE i * p \in Nat /\ i * (2 * p) = 2 * (i * p)
    OBVIOUS
  <2>. QED
    BY <2>1, <2>2, DelayAssumption
<1>2. D(1) = DelayInit
  BY PowerOf2Steps, DelayAssumption
<1>3. \A n : Wait(n) = IF D(n) <= DelayMax THEN D(n) ELSE DelayMax
  BY DEF Wait
<1>. HIDE DEF D
<1>. QED
  BY <1>1, <1>2, <1>3, DelayAssumption

\* The back-off never exceeds its maximum (nextReconnectDelay).
LEMMA NextDelayBounded ==
  ASSUME NEW d \in 0 .. DelayMax
  PROVE  NextDelay(d) \in 0 .. DelayMax
BY DelayAssumption DEF NextDelay

\* A delay that is long enough after n failures is so after one more: the
\* doubling of nextReconnectDelay keeps up with the powers of two.
LEMMA NextDelayKeepsUp ==
  ASSUME NEW d \in 0 .. DelayMax
  PROVE  /\ NextDelay(d) >= d
         /\ d = 0 => NextDelay(d) >= Wait(1)
         /\ \A n \in Nat \ {0} : d >= Wait(n) => NextDelay(d) >= Wait(n + 1) /\ NextDelay(d) >= Wait(n)
<1>1. NextDelay(d) >= d /\ (d = 0 => NextDelay(d) >= Wait(1))
  <2>1. NextDelay(d) >= d /\ (d = 0 => NextDelay(d) = DelayInit)
    BY DelayAssumption DEF NextDelay
  <2>2. 1 \in Nat \ {0} /\ Wait(1) \in 0 .. DelayMax /\ Wait(1) <= DelayInit
    BY WaitSteps
  <2>. QED
    BY <2>1, <2>2, DelayAssumption
<1>2. ASSUME NEW n \in Nat \ {0}, d >= Wait(n)
      PROVE  NextDelay(d) >= Wait(n + 1) /\ NextDelay(d) >= Wait(n)
  <2>1. /\ Wait(n) \in 0 .. DelayMax /\ Wait(n + 1) \in 0 .. DelayMax
        /\ Wait(n) = DelayMax \/ 2 * Wait(n) >= Wait(n + 1)
    BY WaitSteps
  <2>. QED
    BY <1>1, <1>2, <2>1, DelayAssumption DEF NextDelay
<1>. QED
  BY <1>1, <1>2

------------------------------------------------------------------------------
(* ModbusRTU.                                                                *)

\* While there is a context, the count of hard errors is what history says, and the
\* context carries no address or the one the owner selected last.
ContextInv ==
  /\ ctx # "none" => hardErrors = hardRun
  /\ ctx # "none" => slave \in {NoSlave, wanted}

LineInv == TypeOK /\ ContextInv /\ NeverWrongSlave

\* The invariants hold from the start.
LEMMA LineInit == Init => LineInv
<1>. SUFFICES ASSUME Init PROVE LineInv
  OBVIOUS
<1>1. TypeOK
  <2>1. last \in [to : Address, for : Address]
    BY DEF Init, Address
  <2>2. ctx \in {"none", "live", "stale"} /\ port \in {"gone", "broken", "ok"}
    BY DEF Init
  <2>3. hardErrors \in 0 .. HardLimit - 1 /\ hardRun \in 0 .. HardLimit /\ failed \in 0 .. MaxFails
    BY DelayAssumption, LineAssumption DEF Init
  <2>4. delay \in 0 .. DelayMax /\ window \in 0 .. delay /\ idle \in 0 .. DelayMax
    BY DelayAssumption DEF Init
  <2>. QED
    BY <2>1, <2>2, <2>3, <2>4 DEF Init, TypeOK, Address
<1>2. ContextInv /\ NeverWrongSlave
  BY DEF Init, ContextInv, NeverWrongSlave
<1>. QED
  BY <1>1, <1>2 DEF LineInv

\* What a request notes of its outcome keeps the counts right, and gives up the
\* context only after a full run of hard errors.
LEMMA NotedKeeps ==
  ASSUME NEW h \in {"live", "stale"},
         NEW errors \in 0 .. HardLimit - 1,
         NEW outcome \in {"ok", "soft", "hard"},
         Noted(outcome, h, errors, errors)
  PROVE  /\ ctx' \in {h, "none"}
         /\ hardErrors' \in 0 .. HardLimit - 1
         /\ hardRun' \in 0 .. HardLimit
         /\ ctx' # "none" => hardErrors' = hardRun'
         /\ ctx' = "none" => hardRun' = HardLimit
BY LineAssumption DEF Noted, HardNoted

\* The outcomes of a request are the three that Noted knows.
LEMMA OutcomesKnown ==
  ASSUME NEW h, NEW a, NEW outcome \in Outcomes(h, a)
  PROVE  outcome \in {"ok", "soft", "hard"}
BY DEF Outcomes

\* Every step keeps the invariants.
LEMMA LineStep == LineInv /\ [Next]_vars => LineInv'
<1>. SUFFICES ASSUME LineInv, [Next]_vars PROVE LineInv'
  OBVIOUS
<1>. USE DelayAssumption, LineAssumption
     DEF LineInv, TypeOK, ContextInv, NeverWrongSlave, Address
<1>0. delay \in 0 .. DelayMax => NextDelay(delay) \in 0 .. DelayMax
  BY NextDelayBounded
<1>1. CASE SetSlave
  <2>1. PICK s \in Slaves :
          /\ wanted' = s
          /\ \/ Healthy /\ slave' = s /\ UNCHANGED <<ctx, hardErrors, openHist, hardRun>>
             \/ Reopened /\ slave' = s /\ hardErrors' = 0 /\ hardRun' = 0
             \/ OpenFails
             \/ FailFast
          /\ UNCHANGED <<lineVars, last>>
    BY <1>1 DEF SetSlave
  <2>2. CASE Healthy /\ slave' = s /\ UNCHANGED <<ctx, hardErrors, openHist, hardRun>>
    BY <2>1, <2>2 DEF Healthy, openHist, lineVars
  <2>3. CASE Reopened /\ slave' = s /\ hardErrors' = 0 /\ hardRun' = 0
    BY <2>1, <2>3 DEF Reopened, AttemptNow, lineVars
  <2>4. CASE OpenFails
    BY <1>0, <2>1, <2>4 DEF OpenFails, AttemptNow, lineVars
  <2>5. CASE FailFast
    BY <2>1, <2>5 DEF FailFast, ctxVars, openHist, lineVars
  <2>. QED
    BY <2>1, <2>2, <2>3, <2>4, <2>5
<1>2. CASE Exchange
  <2>1. CASE Send
    <3>1. PICK outcome \in Outcomes(ctx, slave) : Noted(outcome, ctx, hardErrors, hardRun)
      BY <2>1 DEF Send
    <3>2. ctx \in {"live", "stale"} /\ hardRun = hardErrors /\ slave \in {NoSlave, wanted}
      BY <2>1 DEF Send, Healthy
    <3>3. outcome \in {"ok", "soft", "hard"}
      BY OutcomesKnown
    <3>4. /\ ctx' \in {ctx, "none"}
          /\ hardErrors' \in 0 .. HardLimit - 1
          /\ hardRun' \in 0 .. HardLimit
          /\ ctx' # "none" => hardErrors' = hardRun'
      BY <3>1, <3>2, <3>3, NotedKeeps
    <3>. QED
      BY <1>2, <2>1, <3>2, <3>4 DEF Send, Healthy, Exchange, openHist, lineVars
  <2>2. CASE ReopenAndSend
    <3>1. PICK outcome \in Outcomes("live", FreshSlave) : Noted(outcome, "live", 0, 0)
      BY <2>2 DEF ReopenAndSend
    <3>2. outcome \in {"ok", "soft", "hard"}
      BY OutcomesKnown
    <3>3. /\ ctx' \in {"live", "none"}
          /\ hardErrors' \in 0 .. HardLimit - 1
          /\ hardRun' \in 0 .. HardLimit
          /\ ctx' # "none" => hardErrors' = hardRun'
      BY <3>1, <3>2, NotedKeeps
    <3>. QED
      BY <1>2, <2>2, <3>3 DEF ReopenAndSend, FreshSlave, AttemptNow, Exchange, lineVars
  <2>3. CASE OpenFails /\ UNCHANGED last
    BY <1>0, <1>2, <2>3 DEF OpenFails, AttemptNow, Exchange, lineVars
  <2>4. CASE FailFast /\ UNCHANGED last
    BY <1>2, <2>4 DEF FailFast, ctxVars, openHist, Exchange, lineVars
  <2>. QED
    BY <1>2, <2>1, <2>2, <2>3, <2>4 DEF Exchange
<1>3. CASE Tick
  BY <1>3 DEF Tick, lineVars
<1>4. CASE PortChanges
  BY <1>4 DEF PortChanges, openHist
<1>5. CASE NoiseChanges
  BY <1>5 DEF NoiseChanges, ctxVars, openHist
<1>6. CASE UNCHANGED vars
  BY <1>6 DEF vars, ctxVars, lineVars, openHist
<1>. QED
  BY <1>1, <1>2, <1>3, <1>4, <1>5, <1>6 DEF Next

\* LineInv is an invariant.
LEMMA LineInvariant == Spec => []LineInv
BY LineInit, LineStep, PTL DEF Spec

\* The variables of the transport keep their types: the window stays within the
\* back-off, and the count of hard errors below its limit.
THEOREM RtuTypeCorrect == Spec => []TypeOK
BY LineInvariant, PTL DEF LineInv

\* No request goes to a slave its owner did not mean, whatever fails in between.
THEOREM RightSlaveOrNone == Spec => []NeverWrongSlave
BY LineInvariant, PTL DEF LineInv

\* A context is only given up after HardLimit hard errors in a row.
THEOREM HardRunReleases == Spec => ReleaseNeedsHardRun
<1>1. LineInv /\ [Next]_vars => [ctx # "none" /\ ctx' = "none" => hardRun' >= HardLimit]_vars
  <2>. SUFFICES ASSUME LineInv, [Next]_vars, ctx # "none", ctx' = "none"
                PROVE  hardRun' >= HardLimit
    OBVIOUS
  <2>1. Send
    BY DEF Next, SetSlave, Exchange, Healthy, Reopened, ReopenAndSend, OpenFails, FailFast,
           Tick, PortChanges, NoiseChanges, vars, ctxVars
  <2>2. PICK outcome \in Outcomes(ctx, slave) : Noted(outcome, ctx, hardErrors, hardRun)
    BY <2>1 DEF Send
  <2>3. ctx \in {"live", "stale"} /\ hardRun = hardErrors /\ hardErrors \in 0 .. HardLimit - 1
    BY DEF LineInv, TypeOK, ContextInv
  <2>4. outcome \in {"ok", "soft", "hard"}
    BY OutcomesKnown
  <2>. QED
    BY <2>2, <2>3, <2>4, NotedKeeps, LineAssumption
<1>. QED
  BY <1>1, LineInvariant, PTL DEF Spec, ReleaseNeedsHardRun

\* The back-off kept is long enough for the failures since the port was last
\* open, and what is left of it and the time since the last attempt make it up.
PaceInv ==
  /\ ctx # "none" => failed = 0
  /\ failed = 0 => delay = 0
  /\ failed > 0 => delay >= Wait(failed) /\ idle + window >= delay

\* The back-off counts from the start.
LEMMA PaceInit == Init => PaceInv
BY DEF Init, PaceInv

\* Every step keeps the back-off long enough.
LEMMA PaceStep == LineInv /\ PaceInv /\ [Next]_vars => PaceInv'
<1>. SUFFICES ASSUME LineInv, PaceInv, [Next]_vars PROVE PaceInv'
  OBVIOUS
<1>. USE DelayAssumption, LineAssumption DEF PaceInv
<1>0. /\ delay \in 0 .. DelayMax /\ window \in 0 .. delay /\ idle \in 0 .. DelayMax
      /\ failed \in 0 .. MaxFails /\ ctx \in {"none", "live", "stale"}
  BY DEF LineInv, TypeOK
<1>1. CASE OpenFails
  <2>1. /\ ctx' = "none" /\ delay' = NextDelay(delay) /\ window' = delay' /\ idle' = 0
        /\ failed' = IF failed < MaxFails THEN failed + 1 ELSE failed
    BY <1>1 DEF OpenFails, AttemptNow
  <2>2. delay' \in 0 .. DelayMax
    BY <1>0, <2>1, NextDelayBounded
  <2>3. failed' > 0 /\ delay' >= Wait(failed')
    <3>1. CASE failed = 0
      BY <1>0, <2>1, <3>1, NextDelayKeepsUp
    <3>2. CASE failed > 0
      <4>1. failed \in Nat \ {0} /\ delay >= Wait(failed)
        BY <1>0, <3>2
      <4>2. delay' >= Wait(failed + 1) /\ delay' >= Wait(failed)
        BY <1>0, <2>1, <4>1, NextDelayKeepsUp
      <4>. QED
        BY <1>0, <2>1, <4>1, <4>2
    <3>. QED
      BY <1>0, <3>1, <3>2
  <2>. QED
    BY <2>1, <2>2, <2>3
<1>2. CASE FailFast
  BY <1>0, <1>2 DEF FailFast, ctxVars, openHist
<1>3. CASE Healthy /\ UNCHANGED openHist
  BY <1>0, <1>3 DEF Healthy, openHist
<1>4. CASE delay' = 0 /\ failed' = 0
  BY <1>4
<1>5. CASE Tick
  BY <1>0, <1>5 DEF Tick
<1>6. CASE PortChanges
  BY <1>0, <1>6 DEF PortChanges, openHist
<1>7. CASE NoiseChanges \/ UNCHANGED vars
  BY <1>0, <1>7 DEF NoiseChanges, vars, ctxVars, openHist
<1>8. CASE SetSlave
  BY <1>1, <1>2, <1>3, <1>4, <1>8 DEF SetSlave, Reopened
<1>9. CASE Exchange
  BY <1>1, <1>2, <1>3, <1>4, <1>9 DEF Exchange, Send, ReopenAndSend
<1>. QED
  BY <1>5, <1>6, <1>7, <1>8, <1>9 DEF Next

\* The port is never tried again before the back-off of the failures so far has
\* passed, however many they are and however long the waits.
THEOREM PortNotHammered == Spec => OpensArePaced
<1>1. LineInv /\ PaceInv /\ [Next]_vars
        => [opened' # opened /\ failed > 0 => idle >= Wait(failed)]_vars
  <2>. SUFFICES ASSUME LineInv, PaceInv, [Next]_vars, opened' # opened, failed > 0
                PROVE  idle >= Wait(failed)
    OBVIOUS
  <2>1. window = 0
    BY DEF Next, SetSlave, Exchange, Healthy, Reopened, Send, ReopenAndSend, OpenFails, FailFast,
           Tick, PortChanges, NoiseChanges, vars, ctxVars, openHist
  <2>2. delay \in 0 .. DelayMax /\ idle \in 0 .. DelayMax /\ failed \in Nat \ {0}
    BY LineAssumption DEF LineInv, TypeOK
  <2>3. Wait(failed) \in 0 .. DelayMax
    BY <2>2, WaitSteps
  <2>. QED
    BY <2>1, <2>2, <2>3, DelayAssumption DEF PaceInv
<1>. QED
  BY <1>1, PaceInit, PaceStep, LineInvariant, PTL DEF Spec, OpensArePaced

\* The port is usable and the line clean; the context is as the owner means it.
Clean     == port = "ok" /\ ~noise
Recovered == ctx = "live" /\ slave = wanted

\* What stands between the transport and its recovery: the hard errors a stale handle is still
\* good for, or the rest of the window.
Arrears == CASE ctx = "stale" -> HardLimit - hardErrors
             [] ctx = "none"  -> window
             [] OTHER         -> 0

RecoveryStep ==
  /\ Recovered => Recovered'
  /\ Arrears' <= Arrears
  /\ Exchange /\ ctx = "stale" => Arrears' < Arrears
  /\ Tick /\ ctx = "none" /\ window > 0 => Arrears' < Arrears
  /\ SetSlave /\ Arrears = 0 => Recovered'

\* A request on a clean line: a stale handle gets closer to its release, a live one stays.
LEMMA CleanExchange ==
  ASSUME LineInv, Clean, Exchange
  PROVE  /\ wanted' = wanted /\ Arrears' <= Arrears
         /\ ctx = "stale" => Arrears' < Arrears
         /\ ctx = "live" => ctx' = "live" /\ slave' = slave
<1>0. /\ ctx \in {"none", "live", "stale"} /\ window \in Nat
      /\ hardErrors \in 0 .. HardLimit - 1 /\ HardLimit \in Nat \ {0}
  BY DelayAssumption, LineAssumption DEF LineInv, TypeOK
<1>1. wanted' = wanted
  BY DEF Exchange
<1>2. CASE Send
  <2>1. PICK outcome \in Outcomes(ctx, slave) : Noted(outcome, ctx, hardErrors, hardRun)
    BY <1>2 DEF Send
  <2>2. ctx # "none" /\ slave' = slave /\ window' = 0
    BY <1>2 DEF Send, Healthy
  <2>3. CASE ctx = "stale"
    <3>1. HardNoted("stale", hardErrors, hardRun)
      BY <2>1, <2>3 DEF Outcomes, Noted
    <3>. QED
      BY <1>0, <1>1, <2>2, <2>3, <3>1 DEF HardNoted, Arrears
  <2>4. CASE ctx = "live"
    <3>1. ctx' = "live"
      BY <2>1, <2>4 DEF Outcomes, Noted, Clean
    <3>. QED
      BY <1>0, <1>1, <2>2, <2>4, <3>1 DEF Arrears
  <2>. QED
    BY <1>0, <2>2, <2>3, <2>4
<1>3. CASE ReopenAndSend
  <2>1. PICK outcome \in Outcomes("live", FreshSlave) : Noted(outcome, "live", 0, 0)
    BY <1>3 DEF ReopenAndSend
  <2>2. ctx = "none" /\ ctx' = "live"
    BY <1>3, <2>1 DEF ReopenAndSend, Outcomes, Noted, Clean
  <2>. QED
    BY <1>0, <1>1, <2>2 DEF Arrears
<1>4. CASE FailFast
  BY <1>0, <1>1, <1>4 DEF FailFast, ctxVars, Arrears
<1>5. ~OpenFails
  BY DEF OpenFails, Clean
<1>. QED
  BY <1>2, <1>3, <1>4, <1>5 DEF Exchange

\* Selecting a slave on a clean line: with nothing in arrears the context carries it.
LEMMA CleanSelection ==
  ASSUME LineInv, Clean, SetSlave
  PROVE  /\ Arrears' <= Arrears
         /\ ctx = "live" \/ Arrears = 0 => Recovered'
<1>0. /\ ctx \in {"none", "live", "stale"} /\ window \in Nat
      /\ hardErrors \in 0 .. HardLimit - 1 /\ HardLimit \in Nat \ {0}
  BY DelayAssumption, LineAssumption DEF LineInv, TypeOK
<1>1. PICK s \in Slaves :
        /\ wanted' = s
        /\ \/ Healthy /\ slave' = s /\ UNCHANGED <<ctx, hardErrors, openHist, hardRun>>
           \/ Reopened /\ slave' = s /\ hardErrors' = 0 /\ hardRun' = 0
           \/ OpenFails
           \/ FailFast
  BY DEF SetSlave
<1>2. CASE Healthy /\ slave' = s /\ UNCHANGED <<ctx, hardErrors, openHist, hardRun>>
  BY <1>0, <1>1, <1>2 DEF Healthy, Arrears, Recovered
<1>3. CASE Reopened /\ slave' = s
  BY <1>0, <1>1, <1>3 DEF Reopened, Arrears, Recovered
<1>4. CASE FailFast
  BY <1>0, <1>1, <1>4 DEF FailFast, ctxVars, Arrears, Recovered
<1>5. ~OpenFails
  BY DEF OpenFails, Clean
<1>. QED
  BY <1>1, <1>2, <1>3, <1>4, <1>5

\* While the port is usable and the line clean, nothing takes a recovered context away, what is
\* in arrears only ever falls, each request on a stale handle and each tick of the window takes
\* it down, and with nothing in arrears the next setSlave brings context and address.  So
\* HardLimit requests, or the window, and one setSlave are enough.  PortRecovers adds that these
\* steps are taken.
THEOREM CleanLineRecovers == Spec => []([]Clean => [][RecoveryStep]_vars)
<1>1. LineInv /\ Clean /\ Clean' /\ [Next]_vars => [RecoveryStep]_vars
  <2>. SUFFICES ASSUME LineInv, Clean, Clean', [Next]_vars PROVE [RecoveryStep]_vars
    OBVIOUS
  <2>0. /\ ctx \in {"none", "live", "stale"} /\ window \in Nat
        /\ hardErrors \in 0 .. HardLimit - 1 /\ HardLimit \in Nat \ {0}
    BY DelayAssumption, LineAssumption DEF LineInv, TypeOK
  <2>1. ASSUME Tick
        PROVE  /\ Recovered => Recovered'
               /\ Arrears' <= Arrears
               /\ ctx = "none" /\ window > 0 => Arrears' < Arrears
    BY <2>0, <2>1 DEF Tick, Recovered, Arrears
  <2>2. (Recovered => Recovered') /\ Arrears' <= Arrears
    <3>1. CASE Exchange
      BY <3>1, CleanExchange DEF Recovered
    <3>2. CASE SetSlave
      BY <3>2, CleanSelection DEF Recovered
    <3>3. ~PortChanges /\ ~NoiseChanges
      BY DEF PortChanges, NoiseChanges, Clean
    <3>4. CASE UNCHANGED vars
      BY <2>0, <3>4 DEF vars, ctxVars, Recovered, Arrears
    <3>. QED
      BY <2>1, <3>1, <3>2, <3>3, <3>4 DEF Next
  <2>. QED
    BY <2>1, <2>2, CleanExchange, CleanSelection DEF RecoveryStep
<1>. QED
  BY <1>1, LineInvariant, PTL DEF Spec

------------------------------------------------------------------------------
(* ModbusTCP.                                                                *)

\* A context carries the identifier selected last, and so did every request.
AddressInv ==
  /\ link # "none" => ctxSlave = slaveId
  /\ pc = "connecting" => link # "none"
  /\ RequestsAddressed

LinkInv == TcpTypeOK /\ AddressInv

\* A connection that a request was sent on is still a connection, or closed.
LEMMA AfterIsContext ==
  ASSUME NEW l \in {"up", "fin", "hup", "orphan"}, NEW r \in After(l)
  PROVE  r \in {"closed", "up", "fin", "hup", "orphan"}
BY DEF After

\* The invariants hold from the start.
LEMMA LinkInit == TcpInit => LinkInv
<1>. SUFFICES ASSUME TcpInit PROVE LinkInv
  OBVIOUS
<1>1. sent \in [to : Units, for : Units] /\ RequestsAddressed
  BY DEF TcpInit, RequestsAddressed
<1>2. /\ delay \in 0 .. DelayMax /\ window \in 0 .. delay /\ idle \in 0 .. DelayMax
      /\ spent \in 0 .. ConnectTimeout /\ failed \in 0 .. MaxFails
  BY DelayAssumption, LinkAssumption DEF TcpInit
<1>3. AddressInv
  BY <1>1 DEF TcpInit, AddressInv
<1>. QED
  BY <1>1, <1>2, <1>3 DEF TcpInit, LinkInv, TcpTypeOK

\* Every step keeps the invariants.
LEMMA LinkStep == LinkInv /\ [TcpNext]_tcpVars => LinkInv'
<1>. SUFFICES ASSUME LinkInv, [TcpNext]_tcpVars PROVE LinkInv'
  OBVIOUS
<1>. USE DelayAssumption, LinkAssumption
     DEF LinkInv, TcpTypeOK, AddressInv, RequestsAddressed, Remaining, Upto
<1>1. CASE TcpSetSlave
  BY <1>1 DEF TcpSetSlave, callVars, netVars, clockHist
<1>2. CASE TcpSend
  <2>1. link \in {"up", "fin", "orphan"} /\ link' \in After(link)
    BY <1>2 DEF TcpSend, CheckConnection
  <2>2. link' \in {"closed", "up", "fin", "hup", "orphan"}
    BY <2>1, AfterIsContext
  <2>. QED
    BY <1>2, <2>1, <2>2 DEF TcpSend, callVars, netVars, clockHist
<1>3. CASE TcpFailFast
  BY <1>3 DEF TcpFailFast, tcpVars, linkVars, callVars, netVars, clockHist
<1>4. CASE StartConnect
  BY <1>4 DEF StartConnect, CreatedSlave, netVars
<1>5. CASE Connected
  <2>1. link' \in {"closed", "up", "fin", "hup", "orphan"}
    BY <1>5, AfterIsContext DEF Connected
  <2>. QED
    BY <1>5, <2>1 DEF Connected, netVars
<1>6. CASE ConnectFails
  <2>1. delay' \in 0 .. DelayMax
    BY <1>6 DEF ConnectFails, NextDelay
  <2>. QED
    BY <1>6, <2>1 DEF ConnectFails, netVars
<1>7. CASE TcpTick
  BY <1>7 DEF TcpTick, netVars
<1>8. CASE PeerChanges
  BY <1>8 DEF PeerChanges, callVars, clockHist
<1>9. CASE PeerDrops
  BY <1>9 DEF PeerDrops, callVars, netVars, clockHist
<1>10. CASE FaultChanges
  BY <1>10 DEF FaultChanges, linkVars, callVars, clockHist
<1>11. CASE UNCHANGED tcpVars
  BY <1>11 DEF tcpVars, linkVars, callVars, netVars, clockHist
<1>. QED
  BY <1>1, <1>2, <1>3, <1>4, <1>5, <1>6, <1>7, <1>8, <1>9, <1>10, <1>11
     DEF TcpNext, TcpExchange, ConnectEnds

\* LinkInv is an invariant.
LEMMA LinkInvariant == TcpSpec => []LinkInv
BY LinkInit, LinkStep, PTL DEF TcpSpec

\* The variables of the transport keep their types.
THEOREM TcpTypeCorrect == TcpSpec => []TcpTypeOK
BY LinkInvariant, PTL DEF LinkInv

\* Every request carries the identifier selected last, for any number of identifiers,
\* reconnections and interleavings.
THEOREM AlwaysAddressed == TcpSpec => []RequestsAddressed
BY LinkInvariant, PTL DEF LinkInv, AddressInv

\* Without a connection, the back-off kept is long enough for the failures since
\* the last one, and what is left of it and the time since the last attempt began
\* make it up: the time an attempt blocks its caller counts.
TcpPaceInv ==
  /\ link \in {"up", "fin", "hup", "orphan"} => failed = 0
  /\ failed = 0 => delay = 0
  /\ failed > 0 => delay >= Wait(failed)
  /\ failed > 0 /\ pc = "ready" => idle + window >= delay
  /\ pc = "connecting" =>
       link = "closed" /\ idle = IF spent < DelayMax THEN spent ELSE DelayMax

\* The back-off counts from the start.
LEMMA TcpPaceInit == TcpInit => TcpPaceInv
BY DEF TcpInit, TcpPaceInv

\* Every step keeps the back-off long enough.
LEMMA TcpPaceStep == LinkInv /\ TcpPaceInv /\ [TcpNext]_tcpVars => TcpPaceInv'
<1>. SUFFICES ASSUME LinkInv, TcpPaceInv, [TcpNext]_tcpVars PROVE TcpPaceInv'
  OBVIOUS
<1>. USE DelayAssumption, LinkAssumption DEF TcpPaceInv
<1>0. /\ delay \in 0 .. DelayMax /\ window \in 0 .. delay /\ idle \in 0 .. DelayMax
      /\ failed \in 0 .. MaxFails /\ spent \in 0 .. ConnectTimeout
      /\ link \in {"none", "closed", "up", "fin", "hup", "orphan"} /\ pc \in {"ready", "connecting"}
  BY DEF LinkInv, TcpTypeOK
<1>1. CASE TcpSetSlave
  BY <1>1 DEF TcpSetSlave, callVars, clockHist
<1>2. CASE TcpSend
  BY <1>2 DEF TcpSend, CheckConnection, callVars, clockHist
<1>3. CASE TcpFailFast
  BY <1>3 DEF TcpFailFast, tcpVars, linkVars, callVars, clockHist
<1>4. CASE StartConnect
  BY <1>0, <1>4 DEF StartConnect
<1>5. CASE Connected
  BY <1>5 DEF Connected
<1>6. CASE ConnectFails
  <2>1. /\ link' = "none" /\ pc' = "ready" /\ delay' = NextDelay(delay)
        /\ window' = IF delay' > spent THEN delay' - spent ELSE 0
        /\ failed' = IF failed < MaxFails THEN failed + 1 ELSE failed
        /\ idle' = IF spent < DelayMax THEN spent ELSE DelayMax
    BY <1>6 DEF ConnectFails, Remaining
  <2>2. delay' \in 0 .. DelayMax
    BY <1>0, <2>1, NextDelayBounded
  <2>3. failed' > 0 /\ delay' >= Wait(failed')
    <3>1. CASE failed = 0
      BY <1>0, <2>1, <3>1, NextDelayKeepsUp
    <3>2. CASE failed > 0
      <4>1. failed \in Nat \ {0} /\ delay >= Wait(failed)
        BY <1>0, <3>2
      <4>2. delay' >= Wait(failed + 1) /\ delay' >= Wait(failed)
        BY <1>0, <2>1, <4>1, NextDelayKeepsUp
      <4>. QED
        BY <1>0, <2>1, <4>1, <4>2
    <3>. QED
      BY <1>0, <3>1, <3>2
  <2>. QED
    BY <1>0, <2>1, <2>2, <2>3
<1>7. CASE TcpTick
  BY <1>0, <1>7 DEF TcpTick, Remaining, Upto
<1>8. CASE PeerChanges
  BY <1>8 DEF PeerChanges, callVars, clockHist
<1>9. CASE PeerDrops
  BY <1>9 DEF PeerDrops, callVars, clockHist
<1>10. CASE FaultChanges
  BY <1>10 DEF FaultChanges, linkVars, callVars, clockHist
<1>11. CASE UNCHANGED tcpVars
  BY <1>11 DEF tcpVars, linkVars, callVars, clockHist
<1>. QED
  BY <1>1, <1>2, <1>3, <1>4, <1>5, <1>6, <1>7, <1>8, <1>9, <1>10, <1>11
     DEF TcpNext, TcpExchange, ConnectEnds

\* No attempt to connect begins before the back-off of the failures so far has
\* passed since the last one began, whatever the time-out of an attempt.
THEOREM PeerNotHammered == TcpSpec => ConnectsArePaced
<1>1. LinkInv /\ TcpPaceInv /\ [TcpNext]_tcpVars
        => [pc = "ready" /\ pc' = "connecting" /\ failed > 0
              => idle >= Wait(failed)]_tcpVars
  <2>. SUFFICES ASSUME LinkInv, TcpPaceInv, [TcpNext]_tcpVars,
                       pc = "ready", pc' = "connecting", failed > 0
                PROVE  idle >= Wait(failed)
    OBVIOUS
  <2>1. window = 0
    BY DEF TcpNext, TcpSetSlave, TcpExchange, ConnectEnds, TcpSend, TcpFailFast,
           StartConnect, Connected, ConnectFails, TcpTick, PeerChanges,
           PeerDrops, FaultChanges, tcpVars, callVars
  <2>2. delay \in 0 .. DelayMax /\ idle \in 0 .. DelayMax /\ failed \in Nat \ {0}
    BY DEF LinkInv, TcpTypeOK
  <2>3. Wait(failed) \in 0 .. DelayMax
    BY <2>2, WaitSteps
  <2>. QED
    BY <2>1, <2>2, <2>3, DelayAssumption DEF TcpPaceInv
<1>. QED
  BY <1>1, LinkInvariant, TcpPaceInit, TcpPaceStep, PTL DEF TcpSpec, ConnectsArePaced
============================================================================
