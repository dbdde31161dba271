-------------------------- MODULE PollEngineProofs --------------------------
(***************************************************************************)
(* Proofs about module PollEngine, for every configuration of the engine.  *)
(***************************************************************************)
EXTENDS PollEngine, TLAPS

\* TypeOK is an inductive invariant of every engine.
THEOREM TypeCorrect == Spec => []TypeOK
<1>. USE ConfigAssumption DEF TypeOK, PC, Bit, Request, Row, Profile
<1>1. Init => TypeOK
  BY DEF Init, Unread, Zero
<1>2. TypeOK /\ [Next]_vars => TypeOK'
  <2>. SUFFICES ASSUME TypeOK, [Next]_vars PROVE TypeOK'
    OBVIOUS
  <2>. USE DEF vars, engineVars, dbVars, qtVars, Register
  <2>1. CASE CheckEnabled
    BY <2>1 DEF CheckEnabled
  <2>2. CASE InheritComm
    BY <2>2 DEF InheritComm, AfterAnswer
  <2>3. CASE CommOff
    BY <2>3 DEF CommOff
  <2>4. CASE ProbeAnswered
    BY <2>4 DEF ProbeAnswered, AfterAnswer
  <2>5. CASE ProbeMissed
    BY <2>5 DEF ProbeMissed, Saturate, Exceeded, AfterMiss
  <2>6. CASE MarkOnline
    BY <2>6 DEF MarkOnline, DbStep, Stored
  <2>7. CASE MarkAlarm
    BY <2>7 DEF MarkAlarm, DbStep, Stored
  <2>8. CASE ClearComAlarm
    BY <2>8 DEF ClearComAlarm, DbStep, Stored
  <2>9. CASE SyncPtCt
    BY <2>9 DEF SyncPtCt, SyncFromDevice, SyncFromQt, SyncThrows, ReadPt
  <2>10. CASE ReadBlock
    <3>1. profile' = profile /\ cache' = [cache EXCEPT ![next] = Cached(next)]
      BY <2>10 DEF ReadBlock
    <3>2. Cached(next) \in 0 .. MaxVersion
      BY DEF Cached
    <3>3. cache' \in [Request' -> 0 .. MaxVersion]
      BY <3>1, <3>2
    <3>4. next' \in Request' /\ pc' \in PC /\ fetched' \subseteq Request'
      BY <2>10 DEF ReadBlock, LastRequest
    <3>. QED
      BY <2>10, <3>1, <3>3, <3>4 DEF ReadBlock, Register
  <2>11. CASE WriteRealtime
    BY <2>11 DEF WriteRealtime, Decode, Zero, Unread, Row
  <2>12. CASE SetInheritCommFlag
    BY <2>12 DEF SetInheritCommFlag
  <2>13. CASE Restart
    BY <2>13 DEF Restart, Unread
  <2>14. CASE DeviceData
    BY <2>14 DEF DeviceData
  <2>15. CASE DeviceLink
    BY <2>15 DEF DeviceLink
  <2>16. CASE DatabaseLink
    BY <2>16 DEF DatabaseLink
  <2>17. CASE EditQt
    BY <2>17 DEF EditQt
  <2>18. CASE UNCHANGED vars
    BY <2>18
  <2>. QED
    BY <2>1, <2>2, <2>3, <2>4, <2>5, <2>6, <2>7, <2>8, <2>9, <2>10, <2>11,
       <2>12, <2>13, <2>14, <2>15, <2>16, <2>17, <2>18
       DEF Next, RoundStep, Environment
<1>. QED
  BY <1>1, <1>2, PTL DEF Spec

------------------------------------------------------------------------------
(* Online and com_alarm.                                                     *)

\* AlarmImpliesOffline is not inductive: it rests on what the round knows at
\* each step.  markOffline stores com_alarm only once Online is stored; the
\* steps that publish run with the alarm down; and nobody ever writes an alarm
\* row that is not configured, or for an engine that does not supervise.
AlarmInv ==
  /\ AlarmImpliesOffline
  /\ PublishesWithoutAlarm
  /\ pc = "markAlarm" => online = 1 /\ profile.comAlarm
  /\ pc = "clearAlarm" => commFlag = 0
  /\ profile.comAlarm \/ alarm = 0
  /\ (profile.skipProbe \/ profile.comm) \/ (alarm = 0 /\ pc \notin {"markOnline", "markAlarm"})

\* AlarmInv is inductive: one step per action.
LEMMA AlarmInductive == Spec => []AlarmInv
<1>1. Init => AlarmInv
  BY DEF Init, AlarmInv, AlarmImpliesOffline, PublishesWithoutAlarm
<1>2. TypeOK /\ AlarmInv /\ [Next]_vars => AlarmInv'
  <2>. SUFFICES ASSUME TypeOK, AlarmInv, [Next]_vars PROVE AlarmInv'
    OBVIOUS
  <2>. USE ConfigAssumption
       DEF AlarmInv, AlarmImpliesOffline, PublishesWithoutAlarm, TypeOK, Bit,
           vars, engineVars, dbVars, qtVars
  <2>1. CASE CheckEnabled
    BY <2>1 DEF CheckEnabled
  <2>2. CASE InheritComm
    BY <2>2 DEF InheritComm, AfterAnswer
  <2>3. CASE CommOff
    BY <2>3 DEF CommOff
  <2>4. CASE ProbeAnswered
    BY <2>4 DEF ProbeAnswered, AfterAnswer
  <2>5. CASE ProbeMissed
    BY <2>5 DEF ProbeMissed, Saturate, Exceeded, AfterMiss
  <2>6. CASE MarkOnline
    BY <2>6 DEF MarkOnline, DbStep, Stored
  <2>7. CASE MarkAlarm
    BY <2>7 DEF MarkAlarm, DbStep, Stored
  <2>8. CASE ClearComAlarm
    BY <2>8 DEF ClearComAlarm, DbStep, Stored
  <2>9. CASE SyncPtCt
    BY <2>9 DEF SyncPtCt, SyncFromDevice, SyncFromQt, SyncThrows, ReadPt
  <2>10. CASE ReadBlock
    BY <2>10 DEF ReadBlock
  <2>11. CASE WriteRealtime
    BY <2>11 DEF WriteRealtime
  <2>12. CASE SetInheritCommFlag
    BY <2>12 DEF SetInheritCommFlag
  <2>13. CASE Restart
    BY <2>13 DEF Restart, Unread
  <2>14. CASE DeviceData
    BY <2>14 DEF DeviceData
  <2>15. CASE DeviceLink
    BY <2>15 DEF DeviceLink
  <2>16. CASE DatabaseLink
    BY <2>16 DEF DatabaseLink
  <2>17. CASE EditQt
    BY <2>17 DEF EditQt
  <2>18. CASE UNCHANGED vars
    BY <2>18
  <2>. QED
    BY <2>1, <2>2, <2>3, <2>4, <2>5, <2>6, <2>7, <2>8, <2>9, <2>10, <2>11,
       <2>12, <2>13, <2>14, <2>15, <2>16, <2>17, <2>18
       DEF Next, RoundStep, Environment
<1>. QED
  BY <1>1, <1>2, TypeCorrect, PTL DEF Spec

\* com_alarm is only ever 1 for a device whose Online row says offline, and
\* readings are only published with the alarm down: markOffline, clearComAlarm
\* and writeRealtime keep their order under every failure of the database and
\* every restart.
THEOREM AlarmSafety == Spec => [](AlarmImpliesOffline /\ PublishesWithoutAlarm)
<1>1. AlarmInv => AlarmImpliesOffline /\ PublishesWithoutAlarm
  BY DEF AlarmInv
<1>. QED
  BY <1>1, AlarmInductive, PTL

\* Whatever pollOnce publishes, it publishes with com_alarm down.
THEOREM PublishedWithoutAlarm == Spec => []PublishesWithoutAlarm
BY AlarmSafety, PTL
------------------------------------------------------------------------------
(* The rows.                                                                 *)

\* The readings flow one way: nothing is newer than the device's data, and a
\* request that has been read since the start has a cached value at least as new
\* as its row.  A restart empties fetched together with the cache.
StickyInv ==
  \A r \in Request :
    /\ rows[r].ver <= dev /\ cache[r] <= dev
    /\ r \in fetched => rows[r].ver <= cache[r]
    /\ r \notin fetched => cache[r] = Unread

\* The row of a request that was read since the start never goes back to an
\* older reading or to the zero of a missing one: readAllFields keeps the cache
\* of a request that failed.
THEOREM StickyRows == Spec => RowsNeverRegress
<1>. DEFINE NoRegress == \A r \in fetched : rows'[r].ver >= rows[r].ver
<1>1. Init => StickyInv
  BY ConfigAssumption DEF Init, StickyInv, Zero, Unread
<1>2. TypeOK /\ StickyInv /\ [Next]_vars => StickyInv' /\ NoRegress
  <2>. SUFFICES ASSUME TypeOK, StickyInv, [Next]_vars
                PROVE  StickyInv' /\ NoRegress
    OBVIOUS
  <2>0. /\ \A r \in Request : /\ cache[r] \in Nat
                               /\ rows[r].ver \in Nat
        /\ dev \in Nat /\ fetched \subseteq Request
    BY ConfigAssumption DEF TypeOK, Row
  <2>. DEFINE Same == /\ profile' = profile /\ rows' = rows /\ dev' = dev
                      /\ cache' = cache /\ fetched' = fetched
  <2>a. ASSUME Same PROVE StickyInv' /\ NoRegress
    BY <2>a, <2>0 DEF StickyInv, Request
  <2>. HIDE DEF NoRegress
  <2>. USE DEF vars, engineVars, dbVars, qtVars
  <2>1. CASE CheckEnabled
    BY <2>1, <2>a DEF CheckEnabled
  <2>2. CASE InheritComm
    BY <2>2, <2>a DEF InheritComm
  <2>3. CASE CommOff
    BY <2>3, <2>a DEF CommOff
  <2>4. CASE ProbeAnswered
    BY <2>4, <2>a DEF ProbeAnswered
  <2>5. CASE ProbeMissed
    BY <2>5, <2>a DEF ProbeMissed
  <2>6. CASE MarkOnline
    BY <2>6, <2>a DEF MarkOnline
  <2>7. CASE MarkAlarm
    BY <2>7, <2>a DEF MarkAlarm
  <2>8. CASE ClearComAlarm
    BY <2>8, <2>a DEF ClearComAlarm
  <2>9. CASE SyncPtCt
    BY <2>9, <2>a DEF SyncPtCt
  <2>10. CASE ReadBlock
    <3>1. /\ profile' = profile /\ rows' = rows /\ dev' = dev
          /\ next \in Request
          /\ cache' = [cache EXCEPT ![next] = Cached(next)]
          /\ fetched' = IF next \in answering THEN fetched \cup {next} ELSE fetched
      BY <2>10 DEF ReadBlock, TypeOK
    <3>2. \A r \in Request : cache'[r] = IF r = next /\ r \in answering THEN dev ELSE cache[r]
      BY <3>1 DEF TypeOK, Cached
    <3>3. StickyInv'
      BY <3>1, <3>2, <2>0 DEF StickyInv, Request
    <3>. QED
      BY <3>1, <3>3, <2>0 DEF NoRegress
  <2>11. CASE WriteRealtime
    <3>1. /\ profile' = profile /\ cache' = cache /\ dev' = dev /\ fetched' = fetched
          /\ \/ rows' = rows
             \/ rows' = [r \in Request |-> Decode(cache[r], pt)]
      BY <2>11 DEF WriteRealtime
    <3>2. \A r \in Request : Decode(cache[r], pt).ver = cache[r]
      BY DEF Decode, Zero
    <3>3. \A r \in Request : rows'[r].ver = rows[r].ver \/ rows'[r].ver = cache[r]
      BY <3>1, <3>2
    <3>. QED
      BY <3>1, <3>3, <2>0 DEF StickyInv, NoRegress, Request
  <2>12. CASE SetInheritCommFlag
    BY <2>12, <2>a DEF SetInheritCommFlag
  <2>13. CASE Restart
    <3>1. /\ profile' = profile /\ rows' = rows /\ dev' = dev /\ fetched' = {}
          /\ cache' = [r \in Request |-> Unread]
      BY <2>13 DEF Restart
    <3>. QED
      BY <3>1, <2>0 DEF StickyInv, NoRegress, Request, Unread
  <2>14. CASE DeviceData
    <3>1. /\ profile' = profile /\ rows' = rows /\ dev' = dev + 1
          /\ cache' = cache /\ fetched' = fetched
      BY <2>14 DEF DeviceData
    <3>. QED
      BY <3>1, <2>0 DEF StickyInv, NoRegress, Request
  <2>15. CASE DeviceLink
    BY <2>15, <2>a DEF DeviceLink
  <2>16. CASE DatabaseLink
    BY <2>16, <2>a DEF DatabaseLink
  <2>17. CASE EditQt
    BY <2>17, <2>a DEF EditQt
  <2>18. CASE UNCHANGED vars
    BY <2>18, <2>a
  <2>. QED
    BY <2>1, <2>2, <2>3, <2>4, <2>5, <2>6, <2>7, <2>8, <2>9, <2>10, <2>11,
       <2>12, <2>13, <2>14, <2>15, <2>16, <2>17, <2>18
       DEF Next, RoundStep, Environment
<1>3. NoRegress => [\A r \in fetched : rows'[r].ver >= rows[r].ver]_rows
  OBVIOUS
<1>. QED
  BY <1>1, <1>2, <1>3, TypeCorrect, PTL DEF Spec, RowsNeverRegress

\* Past the probe the count of unanswered probes is 0.
AnsweredInv ==
  pc \in {"clearAlarm", "sync", "read", "write"} => commErrCount = 0

\* A round whose probe went unanswered, and every later one up to the next
\* answer, leaves the rows alone.
THEOREM FrozenRows == Spec => FrozenWhileSilent
<1>. DEFINE Frozen == commErrCount > 0 => rows' = rows
<1>1. Init => AnsweredInv /\ (~Supervised => commErrCount = 0)
  BY DEF Init, AnsweredInv
<1>2. /\ TypeOK /\ AnsweredInv /\ (~Supervised => commErrCount = 0)
      /\ [Next]_vars
      => /\ AnsweredInv' /\ (~Supervised => commErrCount = 0)'
         /\ Frozen
  <2>. SUFFICES ASSUME TypeOK, AnsweredInv, [Next]_vars,
                       ~Supervised => commErrCount = 0
                PROVE  /\ AnsweredInv'
                       /\ (~Supervised => commErrCount = 0)'
                       /\ Frozen
    OBVIOUS
  <2>. USE ConfigAssumption
       DEF AnsweredInv, Supervised, vars, engineVars, dbVars, qtVars
  <2>1. CASE CheckEnabled
    BY <2>1 DEF CheckEnabled
  <2>2. CASE InheritComm
    BY <2>2 DEF InheritComm, AfterAnswer
  <2>3. CASE CommOff
    BY <2>3 DEF CommOff
  <2>4. CASE ProbeAnswered
    BY <2>4 DEF ProbeAnswered, AfterAnswer
  <2>5. CASE ProbeMissed
    BY <2>5 DEF ProbeMissed, Saturate, Exceeded, AfterMiss
  <2>6. CASE MarkOnline
    BY <2>6 DEF MarkOnline, DbStep, Stored
  <2>7. CASE MarkAlarm
    BY <2>7 DEF MarkAlarm, DbStep, Stored
  <2>8. CASE ClearComAlarm
    BY <2>8 DEF ClearComAlarm, DbStep, Stored
  <2>9. CASE SyncPtCt
    BY <2>9 DEF SyncPtCt, SyncFromDevice, SyncFromQt, SyncThrows
  <2>10. CASE ReadBlock
    BY <2>10 DEF ReadBlock
  <2>11. CASE WriteRealtime
    BY <2>11 DEF WriteRealtime
  <2>12. CASE SetInheritCommFlag
    BY <2>12 DEF SetInheritCommFlag
  <2>13. CASE Restart
    BY <2>13 DEF Restart, Unread
  <2>14. CASE DeviceData
    BY <2>14 DEF DeviceData
  <2>15. CASE DeviceLink
    BY <2>15 DEF DeviceLink
  <2>16. CASE DatabaseLink
    BY <2>16 DEF DatabaseLink
  <2>17. CASE EditQt
    BY <2>17 DEF EditQt
  <2>18. CASE UNCHANGED vars
    BY <2>18
  <2>. QED
    BY <2>1, <2>2, <2>3, <2>4, <2>5, <2>6, <2>7, <2>8, <2>9, <2>10, <2>11,
       <2>12, <2>13, <2>14, <2>15, <2>16, <2>17, <2>18
       DEF Next, RoundStep, Environment
<1>. QED
  BY <1>1, <1>2, TypeCorrect, PTL DEF Spec, FrozenWhileSilent

------------------------------------------------------------------------------
(* The promise of module CommAlarm.                                          *)

\* An engine that probes for itself raises and clears Online and com_alarm as
\* module CommAlarm promises: every step of the engine is a step of that module
\* or leaves its variables alone.
THEOREM SupervisionRefinement == Spec => ImplementsCommAlarm
<1>1. Init => Supervision!Init
  BY DEF Init, Supervision!Init, Supervised
<1>2. TypeOK /\ AlarmInv /\ [Next]_vars => [Supervision!Next]_(Supervision!vars)
  <2>. SUFFICES ASSUME TypeOK, AlarmInv, [Next]_vars
                PROVE  [Supervision!Next]_(Supervision!vars)
    OBVIOUS
  <2>. USE ConfigAssumption DEF AlarmInv, AlarmImpliesOffline, PublishesWithoutAlarm,
           vars, engineVars, dbVars, qtVars, Supervised,
           Supervision!vars, Supervision!MayEnd, Supervision!Next
  <2>1. CASE CheckEnabled
    BY <2>1 DEF CheckEnabled
  <2>2. CASE InheritComm
    BY <2>2 DEF InheritComm, AfterAnswer
  <2>3. CASE CommOff
    BY <2>3 DEF CommOff
  <2>4. CASE ProbeAnswered
    BY <2>4 DEF ProbeAnswered, AfterAnswer, Supervision!Answered
  <2>5. CASE ProbeMissed
    BY <2>5 DEF ProbeMissed, Saturate, Exceeded, AfterMiss, Supervision!Missed, Supervision!Saturate
  <2>6. CASE MarkOnline
    BY <2>6 DEF MarkOnline, DbStep, Stored, TypeOK, Bit,
                Supervision!RaiseOnline, Supervision!EndRound
  <2>7. CASE MarkAlarm
    BY <2>7 DEF MarkAlarm, DbStep, Stored, TypeOK, Bit,
                Supervision!RaiseAlarm, Supervision!EndRound
  <2>8. CASE ClearComAlarm
    BY <2>8 DEF ClearComAlarm, DbStep, Stored,
                Supervision!ClearAlarm, Supervision!EndRound
  <2>9. CASE SyncPtCt
    BY <2>9 DEF SyncPtCt, SyncFromDevice, SyncFromQt, SyncThrows,
                Supervision!EndRound
  <2>10. CASE ReadBlock
    BY <2>10 DEF ReadBlock
  <2>11. CASE WriteRealtime
    BY <2>11 DEF WriteRealtime, Supervision!ClearOnline, Supervision!EndRound
  <2>12. CASE SetInheritCommFlag
    BY <2>12 DEF SetInheritCommFlag
  <2>13. CASE Restart
    BY <2>13 DEF Restart, Supervision!Restart
  <2>14. CASE DeviceData
    BY <2>14 DEF DeviceData
  <2>15. CASE DeviceLink
    BY <2>15 DEF DeviceLink
  <2>16. CASE DatabaseLink
    BY <2>16 DEF DatabaseLink
  <2>17. CASE EditQt
    BY <2>17 DEF EditQt
  <2>18. CASE UNCHANGED vars
    BY <2>18
  <2>. QED
    BY <2>1, <2>2, <2>3, <2>4, <2>5, <2>6, <2>7, <2>8, <2>9, <2>10, <2>11,
       <2>12, <2>13, <2>14, <2>15, <2>16, <2>17, <2>18
       DEF Next, RoundStep, Environment
<1>. QED
  BY <1>1, <1>2, AlarmInductive, TypeCorrect, PTL
     DEF Spec, ImplementsCommAlarm, Supervision!Spec
------------------------------------------------------------------------------
(* Rounds that settle a device: the safety half of the liveness properties.  *)

\* The engine that does not supervise never says offline, and a plan is read from its start.
RoundInv ==
  /\ ~profile.comm => online = 0 /\ inherit = 0 /\ pc \notin {"markOnline", "markAlarm"}
  /\ pc # "read" => next = 1

\* RoundInv is inductive: one step per action.
LEMMA RoundInductive == Spec => []RoundInv
<1>1. Init => RoundInv
  BY DEF Init, RoundInv
<1>2. TypeOK /\ AlarmInv /\ RoundInv /\ [Next]_vars => RoundInv'
  <2>. SUFFICES ASSUME TypeOK, AlarmInv, RoundInv, [Next]_vars PROVE RoundInv'
    OBVIOUS
  <2>. USE DEF RoundInv, vars, engineVars, dbVars, qtVars
  <2>1. CASE CheckEnabled
    BY <2>1 DEF CheckEnabled
  <2>2. CASE InheritComm
    BY <2>2 DEF InheritComm, AfterAnswer
  <2>3. CASE CommOff
    BY <2>3 DEF CommOff
  <2>4. CASE ProbeAnswered
    BY <2>4 DEF ProbeAnswered, AfterAnswer
  <2>5. CASE ProbeMissed
    BY <2>5 DEF ProbeMissed, AfterMiss
  <2>6. CASE MarkOnline
    BY <2>6 DEF MarkOnline, DbStep
  <2>7. CASE MarkAlarm
    BY <2>7 DEF MarkAlarm, DbStep
  <2>8. CASE ClearComAlarm
    BY <2>8 DEF ClearComAlarm, DbStep
  <2>9. CASE SyncPtCt
    BY <2>9 DEF SyncPtCt, SyncFromDevice, SyncFromQt, SyncThrows
  <2>10. CASE ReadBlock
    BY <2>10 DEF ReadBlock
  <2>11. CASE WriteRealtime
    BY <2>11 DEF WriteRealtime
  <2>12. CASE SetInheritCommFlag
    BY <2>12 DEF SetInheritCommFlag
  <2>13. CASE Restart
    BY <2>13 DEF Restart
  <2>14. CASE DeviceData
    BY <2>14 DEF DeviceData
  <2>15. CASE DeviceLink
    BY <2>15 DEF DeviceLink
  <2>16. CASE DatabaseLink
    BY <2>16 DEF DatabaseLink
  <2>17. CASE EditQt
    BY <2>17 DEF EditQt
  <2>18. CASE UNCHANGED vars
    BY <2>18
  <2>. QED
    BY <2>1, <2>2, <2>3, <2>4, <2>5, <2>6, <2>7, <2>8, <2>9, <2>10, <2>11,
       <2>12, <2>13, <2>14, <2>15, <2>16, <2>17, <2>18
       DEF Next, RoundStep, Environment
<1>. QED
  BY <1>1, <1>2, TypeCorrect, AlarmInductive, PTL DEF Spec

\* A round comes to its end, by itself and not by a restart.
Ends == restarts' = restarts /\ pc # "idle" /\ pc' = "idle"

\* A round that began with the device alive never sets out to mark it offline.
FreshLive == pc \notin {"markOnline", "markAlarm"}

LiveRound ==
  /\ Ends => Restored'
  /\ Restored => Restored'

\* Each step knows what is said of the place it leads to.
LEMMA FreshLiveStep ==
  ASSUME TypeOK, AlarmInv, RoundInv, Live, FreshLive, [Next]_vars
  PROVE  FreshLive' /\ LiveRound
<1>. USE DEF AlarmInv, AlarmImpliesOffline, PublishesWithoutAlarm, RoundInv, TypeOK, Bit,
             Live, Well, FreshLive, LiveRound, Restored, Ends,
             vars, engineVars, dbVars, qtVars
<1>1. CASE CheckEnabled
  BY <1>1 DEF CheckEnabled
<1>2. CASE InheritComm
  BY <1>2 DEF InheritComm, AfterAnswer
<1>3. CASE CommOff
  BY <1>3 DEF CommOff
<1>4. CASE ProbeAnswered
  BY <1>4 DEF ProbeAnswered, AfterAnswer
<1>5. ~ProbeMissed /\ ~MarkOnline /\ ~MarkAlarm
  BY DEF ProbeMissed, MarkOnline, MarkAlarm
<1>6. CASE ClearComAlarm
  BY <1>6 DEF ClearComAlarm, DbStep, Stored
<1>7. CASE SyncPtCt
  BY <1>7 DEF SyncPtCt, SyncFromDevice, SyncFromQt, SyncThrows
<1>8. CASE ReadBlock
  BY <1>8 DEF ReadBlock
<1>9. CASE WriteRealtime
  BY <1>9 DEF WriteRealtime
<1>10. CASE Restart
  <2>1. restarts' # restarts /\ pc' = "idle" /\ UNCHANGED <<online, alarm>>
    BY <1>10, ConfigAssumption DEF Restart
  <2>. QED
    BY <2>1
<1>11. CASE SetInheritCommFlag \/ DeviceData \/ DeviceLink \/ DatabaseLink \/ EditQt
  BY <1>11 DEF SetInheritCommFlag, DeviceData, DeviceLink, DatabaseLink, EditQt
<1>12. CASE UNCHANGED vars
  BY <1>12
<1>. QED
  BY <1>1, <1>2, <1>3, <1>4, <1>5, <1>6, <1>7, <1>8, <1>9, <1>10, <1>11, <1>12
     DEF Next, RoundStep, Environment

\* While a device stays alive with the database up, the first round of its engine that begins
\* leaves Online and com_alarm cleared, whatever an earlier failure, half-done round or restart
\* left behind, and nothing sets them again, a restart neither.  LiveDeviceRestored adds that
\* rounds end.
THEOREM LiveRoundSuffices == Spec => [](pc = "idle" /\ []Live => [][LiveRound]_vars)
<1>1. pc = "idle" => FreshLive
  BY DEF FreshLive
<1>2. /\ TypeOK /\ AlarmInv /\ RoundInv
      /\ Live /\ FreshLive /\ [Next]_vars
      => FreshLive' /\ [LiveRound]_vars
  BY FreshLiveStep
<1>. QED
  BY <1>1, <1>2, TypeCorrect, AlarmInductive, RoundInductive, PTL DEF Spec

\* The verdict is out: the owner's, or the engine's own.  One more miss than e is counted, or
\* the verdict is out.  A verdict is in the rows.
Judged     == profile.skipProbe \/ commErrCount > Threshold
Counted(e) == Judged \/ commErrCount > e
Told       == Judged => Reported

\* What a round that began with the device dead after e misses in a row knows at each place.
FreshDead(e) ==
  /\ commErrCount >= e
  /\ pc \in {"idle", "comm", "markOnline", "markAlarm"}
  /\ pc \in {"markOnline", "markAlarm"} => Judged

DeadRound(e) ==
  /\ Ends => Counted(e)' /\ Told'
  /\ Judged /\ Reported => Judged' /\ Reported'

\* Each step knows what is said of the place it leads to.
LEMMA FreshDeadStep ==
  ASSUME TypeOK, AlarmInv, NEW e \in Nat, Dead, FreshDead(e), [Next]_vars, restarts' = restarts
  PROVE  FreshDead(e)' /\ DeadRound(e)
<1>0. Threshold \in Nat /\ commErrCount \in Nat
  BY ConfigAssumption DEF TypeOK
<1>. USE <1>0
     DEF FreshDead, DeadRound, Judged, Counted, Told, Reported, Ends, Dead, Well,
         vars, engineVars, dbVars, qtVars
<1>1. CASE CheckEnabled
  BY <1>1 DEF CheckEnabled
<1>2. CASE InheritComm
  BY <1>2 DEF InheritComm, AfterAnswer
<1>3. CASE ProbeMissed
  <2>1. /\ profile' = profile /\ UNCHANGED <<online, alarm>>
        /\ pc = "comm" /\ ~profile.skipProbe
        /\ commErrCount' = Saturate(commErrCount)
        /\ pc' = AfterMiss(commErrCount')
    BY <1>3 DEF ProbeMissed
  <2>2. /\ commErrCount' \in Nat /\ commErrCount' >= commErrCount
        /\ commErrCount' > Threshold \/ commErrCount' > e
    BY <2>1 DEF Saturate
  <2>. QED
    BY <2>1, <2>2 DEF AfterMiss, Exceeded
<1>4. ~CommOff /\ ~ProbeAnswered /\ ~ClearComAlarm /\ ~SyncPtCt /\ ~ReadBlock /\ ~WriteRealtime
  BY DEF CommOff, ProbeAnswered, ClearComAlarm, SyncPtCt, ReadBlock, WriteRealtime
<1>5. CASE MarkOnline
  BY <1>5 DEF MarkOnline, DbStep, Stored
<1>6. CASE MarkAlarm
  BY <1>6 DEF MarkAlarm, DbStep, Stored, AlarmInv
<1>7. ~Restart
  <2>1. restarts \in Nat
    BY ConfigAssumption DEF TypeOK
  <2>2. Restart => restarts' = restarts + 1
    BY DEF Restart
  <2>. QED
    BY <2>1, <2>2
<1>8. CASE SetInheritCommFlag \/ DeviceData \/ DeviceLink \/ DatabaseLink \/ EditQt
  BY <1>8 DEF SetInheritCommFlag, DeviceData, DeviceLink, DatabaseLink, EditQt
<1>9. CASE UNCHANGED vars
  BY <1>9
<1>. QED
  BY <1>1, <1>2, <1>3, <1>4, <1>5, <1>6, <1>7, <1>8, <1>9 DEF Next, RoundStep, Environment

\* The device is dead, and the process has not been started again since the r-th time.
DeadSince(r) == Dead /\ restarts = r

\* While a device stays dead with the database up and the process runs, each round of its engine
\* that begins adds a miss to the count until that is beyond Threshold, and then, as every round
\* under an owner's verdict, leaves Online and com_alarm set; nothing takes that back.  So
\* Threshold + 1 rounds are enough.  DeadDeviceReported adds that rounds end.
THEOREM DeadRoundsSuffice ==
  ASSUME NEW e \in Nat, NEW r \in Nat
  PROVE  Spec => [](pc = "idle" /\ commErrCount = e /\ []DeadSince(r) => [][DeadRound(e)]_vars)
<1>1. pc = "idle" /\ commErrCount = e => FreshDead(e)
  BY DEF FreshDead
<1>2. /\ TypeOK /\ AlarmInv
      /\ FreshDead(e) /\ [Next]_vars /\ DeadSince(r) /\ DeadSince(r)'
      => FreshDead(e)' /\ [DeadRound(e)]_vars
  BY FreshDeadStep DEF DeadSince
<1>. QED
  BY <1>1, <1>2, TypeCorrect, AlarmInductive, PTL DEF Spec

\* What a round that began with everything answering and ratio q asked for knows at each place.
FreshData(q) ==
  /\ pc \in {"read", "write"} => pt = TargetPt /\ RatioSent(q)
  /\ pc = "read" => \A r \in Request : r < next => cache[r] = dev
  /\ pc = "write" => \A r \in Request : cache[r] = dev

DataRound(q) ==
  /\ Ends => Converged(q)'
  /\ Converged(q) => Converged(q)'

\* What makes the rows converged stands while rows, device and qt table do.
LEMMA ConvergedStands ==
  ASSUME NEW q, UNCHANGED <<profile, rows, dev, devPt, qtPt>>
  PROVE  /\ TargetPt' = TargetPt
         /\ RatioSent(q)' <=> RatioSent(q)
         /\ Converged(q)' <=> Converged(q)
<1>1. TargetPt' = TargetPt
  BY DEF TargetPt
<1>2. RatioSent(q)' <=> RatioSent(q)
  BY DEF RatioSent
<1>. QED
  BY <1>1, <1>2 DEF Converged, Request, Decode, Zero, Unread

\* A step that does not read, decode or end the round.
LEMMA DataStands ==
  ASSUME NEW q, FreshData(q), UNCHANGED <<profile, rows, dev, devPt, qtPt, next, cache, pt>>,
         pc' = pc \/ pc' \notin {"read", "write"}, ~Ends
  PROVE  FreshData(q)' /\ DataRound(q)
BY ConvergedStands DEF FreshData, DataRound, Request

\* syncPtCt of a device that answers: the ratio in force becomes the one of the round.
LEMMA RatioTaken ==
  ASSUME TypeOK, NEW q \in PtValues, Settled(q), SyncPtCt
  PROVE  /\ pc' = "read" /\ UNCHANGED <<profile, rows, dev, next, qtPt>>
         /\ TargetPt' = TargetPt /\ pt' = TargetPt /\ RatioSent(q)'
<1>1. /\ pc' = "read" /\ UNCHANGED <<profile, rows, dev, next, qtPt>>
      /\ SyncFromDevice \/ SyncFromQt
  BY DEF SyncPtCt, SyncFromDevice, SyncFromQt, SyncThrows, Settled, Live, dbVars, qtVars
<1>2. profile.ptMode # "default" => ReadPt = devPt
  BY DEF ReadPt, Settled, Register
<1>3. CASE SyncFromDevice
  BY <1>1, <1>2, <1>3 DEF SyncFromDevice, TargetPt, RatioSent
<1>4. CASE SyncFromQt
  <2>1. profile.ptMode = "qt" /\ pt' = qtPt /\ qtPt = q /\ PtSetReg \in answering
    BY <1>4 DEF SyncFromQt, Settled, Register
  <2>2. q \in PtRange => devPt' = q
    BY <1>2, <1>4, <2>1 DEF SyncFromQt
  <2>. QED
    BY <1>1, <2>1, <2>2 DEF TargetPt, RatioSent
<1>. QED
  BY <1>1, <1>3, <1>4

\* Each step knows what is said of the place it leads to.
LEMMA FreshDataStep ==
  ASSUME TypeOK, RoundInv, NEW q \in PtValues, FreshLive, FreshData(q), [Next]_vars,
         Settled(q), Settled(q)', dev' = dev
  PROVE  FreshData(q)' /\ DataRound(q)
<1>0. /\ dbUp /\ (profile.comm /\ ~profile.skipProbe => ProbeReg \in answering)
      /\ profile.skipProbe => inherit = 0
      /\ Request \subseteq answering /\ qtPt = q /\ qtPt' = q
  BY DEF Settled, Live, Well, Register
<1>1. CASE CheckEnabled \/ InheritComm \/ CommOff \/ ProbeAnswered \/ ClearComAlarm
  <2>1. /\ UNCHANGED <<profile, rows, dev, devPt, qtPt, next, cache, pt>>
        /\ pc' \notin {"idle", "read", "write"}
    BY <1>0, <1>1 DEF CheckEnabled, InheritComm, CommOff, ProbeAnswered, ClearComAlarm,
                      AfterAnswer, DbStep, dbVars, qtVars
  <2>. QED
    BY <2>1, DataStands DEF Ends
<1>2. ~ProbeMissed /\ ~MarkOnline /\ ~MarkAlarm
  BY <1>0 DEF ProbeMissed, MarkOnline, MarkAlarm, FreshLive
<1>3. CASE SyncPtCt
  <2>1. /\ pc' = "read" /\ UNCHANGED <<profile, rows, dev, next, qtPt>>
        /\ TargetPt' = TargetPt /\ pt' = TargetPt /\ RatioSent(q)'
    BY <1>3, RatioTaken
  <2>2. \A r \in Request' : ~(r < next')
    BY <1>3, <2>1 DEF SyncPtCt, RoundInv, Request
  <2>3. Converged(q) => Converged(q)'
    BY <2>1 DEF Converged, Request, Decode, Zero, Unread
  <2>. QED
    BY <2>1, <2>2, <2>3 DEF FreshData, DataRound, Ends
<1>4. CASE ReadBlock
  <2>1. /\ pc = "read" /\ UNCHANGED <<profile, rows, dev, devPt, qtPt, pt>>
        /\ cache' = [cache EXCEPT ![next] = Cached(next)]
        /\ \/ next = profile.requests /\ pc' = "write"
           \/ next' = next + 1 /\ pc' = "read"
    BY <1>4 DEF ReadBlock, LastRequest, dbVars, qtVars
  <2>2. Cached(next) = dev
    BY <1>0 DEF Cached, TypeOK
  <2>3. \A r \in Request : r <= next => cache'[r] = dev
    <3>1. profile.requests \in Nat /\ next \in Nat /\ cache \in [Request -> Nat]
      BY ConfigAssumption DEF TypeOK, Profile, Request
    <3>. QED
      BY <2>1, <2>2, <3>1 DEF FreshData, Request
  <2>4. /\ TargetPt' = TargetPt /\ (RatioSent(q)' <=> RatioSent(q))
        /\ Converged(q)' <=> Converged(q)
    BY <2>1, ConvergedStands
  <2>5. Request' = Request /\ profile.requests \in Nat /\ next \in Nat
    BY <2>1, ConfigAssumption DEF TypeOK, Profile, Request
  <2>. QED
    BY <2>1, <2>3, <2>4, <2>5 DEF FreshData, DataRound, Ends, Request
<1>5. CASE WriteRealtime
  <2>1. /\ pc = "write" /\ pc' = "idle" /\ UNCHANGED <<profile, dev, devPt, qtPt>>
        /\ rows' = [r \in Request |-> Decode(cache[r], pt)]
    BY <1>0, <1>5 DEF WriteRealtime, qtVars
  <2>2. \A r \in Request : rows'[r] = Decode(dev, TargetPt)
    BY <2>1 DEF FreshData
  <2>3. TargetPt' = TargetPt /\ Request' = Request /\ RatioSent(q)'
    BY <2>1 DEF TargetPt, Request, FreshData, RatioSent
  <2>4. Converged(q)'
    BY <2>1, <2>2, <2>3 DEF Converged, Decode, Zero, Unread
  <2>. QED
    BY <2>1, <2>4 DEF FreshData, DataRound
<1>6. CASE Restart
  <2>1. /\ pc' = "idle" /\ UNCHANGED <<profile, rows, dev, devPt, qtPt>>
        /\ restarts' = restarts + 1 /\ restarts \in Nat
    BY <1>6, ConfigAssumption DEF Restart, TypeOK, dbVars, qtVars
  <2>. QED
    BY <2>1, ConvergedStands DEF FreshData, DataRound, Ends
<1>7. CASE \/ SetInheritCommFlag \/ DeviceData \/ DeviceLink \/ DatabaseLink \/ EditQt
           \/ UNCHANGED vars
  <2>1. UNCHANGED <<profile, rows, dev, devPt, qtPt, next, cache, pt>> /\ pc' = pc
    BY <1>0, <1>7 DEF SetInheritCommFlag, DeviceData, DeviceLink, DatabaseLink, EditQt,
                      vars, engineVars, dbVars, qtVars
  <2>. QED
    BY <2>1, DataStands DEF Ends
<1>. QED
  BY <1>1, <1>2, <1>3, <1>4, <1>5, <1>6, <1>7 DEF Next, RoundStep, Environment

\* While everything answers, the device's data stand at version d and ratio q is asked for, the
\* first round of the engine that begins leaves in the rows of every request the device's data at
\* the ratio in force, and in the device the ratio asked for if it is within range; no later round
\* and no restart takes that back.  DataConverges adds that rounds end.
THEOREM DataRoundSuffices ==
  ASSUME NEW q \in PtValues, NEW d \in Nat
  PROVE  Spec => [](pc = "idle" /\ [](Settled(q) /\ dev = d) => [][DataRound(q)]_vars)
<1>. DEFINE Still == Settled(q) /\ dev = d
<1>1. pc = "idle" => FreshLive /\ FreshData(q)
  BY DEF FreshLive, FreshData
<1>2. /\ TypeOK /\ AlarmInv /\ RoundInv
      /\ FreshLive /\ FreshData(q) /\ [Next]_vars /\ Still /\ Still'
      => FreshLive' /\ FreshData(q)' /\ [DataRound(q)]_vars
  BY FreshLiveStep, FreshDataStep DEF Settled
<1>. QED
  BY <1>1, <1>2, TypeCorrect, AlarmInductive, RoundInductive, PTL DEF Spec
==============================================================================
