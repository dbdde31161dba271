# EMS_VSG: a verification project in TLA+

EMS_VSG polls the devices of a microgrid (energy meters, a PCS, a battery, inverters,
diesel gensets, digital I/O) over Modbus RTU and TCP, stores the readings and the
communication state in a MySQL database, and carries out orders that the HMI leaves in
the same database. This directory holds TLA+ models of that program, the TLC
configurations that check them, and TLAPS proofs about them. Paths below are relative
to `src/`.

## 1. The system

Seven detached threads, one per device group, each a loop "round, sleep". They share
nothing but the connection pool, the database and the log. Each owns its buses and its
engines.

| Component | State it keeps | Operations | Hard behaviour | What makes it correct |
|---|---|---|---|---|
| `core/ModbusPollEngine.cpp` | read plan, sticky caches `regCache_`/`bitCache_`, `commErrCount_`, `commFlag_`, `pt_`/`ct_`, `inheritCommFlag_` | `pollOnce` = checkEnabled, checkComm, syncPtCt, readAllFields, decodePoints, hook, writeRealtime | an exception of any statement ends the round anywhere; single blocks fail; restarts empty the cache and the counters but not the rows | Online and com_alarm rise and fall only on evidence, in an order that readers can rely on; rows never go back; everything converges |
| `core/ModbusRtu.cpp` `ModbusRTU` | libmodbus context with its slave, `hardErrorCount_`, `reconnectDelayMs_`, `nextReconnectAt_` | setSlave, reads, writes, probe | ports disappear and re-enumerate, handles go stale, back-off against the clock | right slave or none; attempts paced; recovery |
| `core/ModbusRtu.cpp` `ModbusTCP` | context, socket, `slave_id_`, back-off | as above, with a connect that blocks its caller | peers that close, reset, forget, refuse, ignore | as above |
| `db/MySQLDB_1.cpp` `MySQLConnectionPool` | queue of connections, mutex, condition variable | getConnection (30 s), releaseConnection | wake-ups, overtaking, time-outs, connections that die | one owner per connection, no lost wake-up, no waiting in `main`'s configuration |
| `db/MySQLDB_1.cpp` `MySQLDatabase` | a borrowed connection | update, insert, select, select_float, selectMultipleData | throws; except selectMultipleData, which returns zeros | seen through its callers |
| `devices/Agc.cpp`, `devices/SunPv.cpp` | `commErrCount_` per unit, one engine and one bus for all units | a round over the units that qt asks for | residue of one unit in the next one's rows; an exception abandons the rest of the round; both write `com_alarm` | units are judged by their own failures, and end up reported as what they are |
| `devices/SunPv.cpp` `writePowerLimit` | limit and count of the round, register 5007 of each inverter | share the limit, compare, write | comparison with a cleared cache, writes nobody checks | every inverter that answers ends up at its share |
| `devices/PCS_Smarten.cpp` dispatch | `deviceSet_`, `hmiSet_` | read set values, read orders, send the differences | orders, device and links change between the steps | orders arrive |
| `devices/PCS_Smarten.cpp` `pcsSetData` | the same, and request rows 19/20 of pcsset | read the parameters to the table, write the table to the device | many registers per request, partial failure, edits in between | stored means read, written means written, requests end |
| `devices/Dido.cpp` | engine with its hook `onAfterDecode`, orders and feedback of the round | read five orders and the feedback, write differences, store inputs, publish | every one of these can fail with the rest left undone | outputs follow the orders, and nothing is switched on half an answer |
| `devices/Bamu.cpp` | verdict and signals of the stack, `batteryNumber_`, snapshots `lastVolDb_`/`lastTempDb_`, 10 s timestamps | round = stack, logic, dodi, then per cluster: verdict, air unit, cells | clusters inherit the verdict several steps later; an exception ends the round between two clusters; snapshots run ahead of the table | clusters show the verdict on the stack, rows end up with what the battery shows |
| `core/ModbusConfigLoader.cpp` | none | JSON of template, device and sink to a profile and its map of rows | device over template, lists of either, three ways to find the map | points are multiplied as fields and lists say, rows go through the right map |
| `core/ModbusPollEngine.cpp` `rebuildReadPlan` | points, read plan, cluster | sort spans, merge into blocks, move to another cluster | block limits, overlaps, equal spans | all points read, whole, in few and readable blocks |
| `devices/AMC_Meter.cpp` | two engines on one bus | meters in pairs, rows of logic | an exception of one engine skips the other | its engines are a profile of `PollEngine` |
| `db/logger.cpp`, `db/crash_handler.cpp`, `include/common/ThreadManager.h` | files; the manager is not used by `main` | | rotation without a lock | not modelled |

How they interact: a device thread borrows one connection per round from the pool,
selects a slave on its bus, lets the engine poll, and the engine calls the device's
hook before it writes the rows. The HMI is another process: it edits rows of `qt`,
`data_total` and `pcsset` at any time. No component calls another thread's objects.

`PROJECT.json` lists under "hazards" what is hard to test here, each at its line.

## 2. The modules

| Module | Models | Composition |
|---|---|---|
| `PollEngine` | one engine with its device, its rows and the HMI | instantiates `CommAlarm` for its refinement |
| `CommAlarm` | what the supervision promises to a reader of the rows (abstract) | |
| `Backoff` | the delay both transports share | extended by the next two |
| `ModbusRTU`, `ModbusTCP` | the two transports with clock, line and peer | |
| `ConnectionPool` | pool and threads | |
| `UnitScan` | Agc and SunPv with the shared table com_alarm | uses what `ModbusRTU` shows: a request reaches its slave or none |
| `PcsDispatch`, `PcsSettings` | the two halves of the PCS hook | |
| `Dido`, `PowerLimit` | the hook of the digital outputs; the power limit of the inverters | |
| `MCHmiOrders` | the three threads that carry orders, side by side on one database | extends `PcsDispatch`, instantiates `Dido` and `PowerLimit` |
| `Bamu` | the battery thread | stands on what `PollEngine` shows of an engine |
| `ReadPlan` | how an engine plans its reads | |
| `DeviceConfig` | from the entry in devices.json to the engine with its plan | extends `ReadPlan`, whose `Next` is its last stage |
| `MCPollEngine`, `MCUnitScan`, `MCDeviceConfig` | values of the constants for TLC | |
| `TransportProofs` | theorems about `ModbusRTU` and `ModbusTCP` | extends both |
| `DeviceConfigProofs` | theorems about `DeviceConfig` and `ReadPlan` | extends `DeviceConfig` |
| `HmiOrdersProofs` | theorems about `PcsDispatch`, `Dido` and `PowerLimit` | extends `MCHmiOrders` |
| `PollEngineProofs`, `ConnectionPoolProofs`, `UnitScanProofs`, `PcsSettingsProofs`, `BamuProofs` | theorems | extend the module of the same name |

A step of a model is what the code does between two points at which something else can
happen: one bus operation, one statement, one critical section. The environment (device,
database, process, HMI, clock) may take steps between any two of them.

**PollEngine.** `pc` is the place in `pollOnce`; `CheckEnabled` .. `WriteRealtime` are its
steps in the order of the code. A register value is abstracted to the version of the
device's data it was read from; the points of one read request share its fate, and each
request answers or fails by itself (`answering`). `profile` is what of
`ModbusDeviceProfile` decides the control flow: probe or inherited verdict (`skipProbe_`),
alarm row or none, `use_qt`, where PT comes from. CT runs through the same code as PT and
is left out. `commErrCount` is saturated just above the threshold it is compared with. A
statement that throws may have been carried out or not (`Stored`): the reply can be lost.
`Restart` loses memory and keeps rows, and needs the database since the constructor of the
pool throws without it.

**ModbusRTU.** `ctx` is the context: none, live, or stale (a handle that outlived its
port); `slave` the address it carries, `wanted` the one the owner selected. All public
operations lock `io_mutex_` and run to their end, so each is one action: `SetSlave`,
`Exchange` (request on an open context, request that reopens, failing reopening, failing
fast inside the window). `Noted` is the bookkeeping of outcomes: success, soft error
(nothing), hard error (counts, and the HardLimit-th releases). `last`, `failed`, `idle`
and `hardRun` are history.

**ModbusTCP.** The same with `link`, which tells what of a broken connection this side can
see: `POLLHUP` after a reset is seen by `check_connection`, an orderly close is not
(`POLLRDHUP` is not asked for), a silent loss never. An operation that connects is two
steps, `StartConnect` and `Connected`/`ConnectFails`, with `Tick`s between them, since
`now` is taken before the blocking connect.

**ConnectionPool.** Steps are what runs under the mutex. `waiting` is a thread inside
`wait_for`, `woken` one that was notified and has not got the mutex back: another may take
the connection first. Spurious wake-ups are `Recheck` from `waiting`.

**UnitScan.** Per scanner the place in the round, the unit, whose readings are in the one
cache, failure counts (`errs`, the program's). `missed` is history: the probes a unit has left
unanswered since it last answered one or the process was started, counted from the units and not
from `errs`. `com_alarm` is one table over addresses, so that the two scanners
of the code can be put side by side with the addresses the headers give them.

**PcsDispatch, PcsSettings.** One action per statement or Modbus request; active and
reactive power are handled alike and are one order; a parameter of pcsset stands for the
registers one request reads. Rows of scaled parameters are counted in tenths, which keeps
the truncation of `select` (an `atoi`) visible.

**Dido.** Each query, write and statement of the hook is a step. `ReadNth` is the order
in which the code reads the orders (green before yellow). `heard` is history: the outputs
whose order this round has been told.

**PowerLimit.** Numbers keep their 16 bits. `Share` is the rounding of the code done in
integers. `cur` is what the engine has of register 5007, 0 when it was not answered, since
the caches were cleared for the unit. The alarm rows of the same round are in `UnitScan`.

**MCHmiOrders.** The three threads read different rows and command different devices, and
what they have in common (the pool) is modelled elsewhere, so their product would only
multiply states. A behaviour picks one (`watched`) and lets it run among edits and faults;
the others stand still in it.

**Bamu.** One action per database operation with the Modbus operations before it; the stack's
`pollOnce` is three: the verdict (`PollStack`), the hook with the stop order (`StopOrdered`), and the
publishing (`PublishStack`), whose exception leaves the stop order sent.
`pollOnce` of the three engines is cut down to what this thread adds: the verdict, the
hook, and rows no engine writes. One cell per kind stands for the cells of a cluster,
`epo` for the four inputs, which are read and stored alike. `due` holds the clusters whose
10 s are over; `ClockTick` adds them between rounds. `lost` is history: cells whose last statement failed.

**ReadPlan.** `SortSpans` allows every order that `std::sort` may leave equal spans in.
`MergeSpan` handles one span; areas stand for function code and kind, with the block
limits 125 and 2000 as a constant. `SetClusterIndex` is the way Bamu turns an engine to
another cluster.

**DeviceConfig.** A configuration is what was parsed of the files; `Malformed` is anything
the loader throws at. The stages follow `parseDeviceObject`, each may refuse the device,
and the last one is the engine of `ReadPlan` with the points that came out.

Operators that stand next to another one and differ from it by a word (`ClearedKept`,
`DiffersLit`, `LastEarly`, ...) are not part of the model. Each is a plausible slip in the
code it stands beside; `PROJECT.json` says under "mutants" which property fails when it
takes the place of its neighbour. They show that the properties depend on that code.

## 3. What the runs check

| Run | Checks | Outcome |
|---|---|---|
| `poll_engine` | `AlarmImpliesOffline`, `RowsNeverRegress`, the refinement `ImplementsCommAlarm`, `DeadDeviceReported`, `LiveDeviceRestored`, `DataConverges` | hold |
| `modbus_rtu` | `NeverWrongSlave`, `OpensArePaced`, `ReleaseNeedsHardRun`, `PortRecovers` | hold |
| `modbus_tcp` | `RequestsAddressed`, `ConnectsArePaced`, `PeerRecovers` | hold |
| `connection_pool` | `Partition`, `NoLostWakeup`, `NobodyWaits`, `RotatesConnections` | hold |
| `unit_scan` | `NoResidue`, `RaisedOnEvidence`, `JudgementHeld`, `DeadUnitReported`, `LiveUnitRestored` | hold |
| `unit_scan_overlap` | `DeadUnitReported` with both scanners | violated |
| `hmi_orders` | `PcsOrdersArrive`, `PcsResetTakenDown`, `DidoOutputsFollow`, `DidoNotUnasked`, `PvLimitsArrive`, and the types of the three modules (`MCTypeOK`) | hold |
| `pcs_dispatch_switch` | `SwitchedOnlyAsOrdered` | violated |
| `pcs_settings` | `RowsFromDevice`, `WrittenThrough`, `RequestsTakenDown` | hold |
| `pcs_settings_scale` | `WrittenAsStored` | violated |
| `bamu` | `ClustersFollowStack`, `DeadStackSpreads`, `LiveStackShown`, `CellsStored` | hold |
| `device_config` | `PlanCovers`, `PlanReadable`, `PlanMinimal`, `MultipliedAsConfigured`, `RoutedByRank` | hold |

Every `TypeOK` is proved, see section 4.

What the violated ones say (lines and quotations in `PROJECT.json`, "findings"):

- *Shared alarm rows.* `SunPv.h` gives inverters 5 to 8 the rows 16 to 19 of `com_alarm`,
  which `Agc.h` gives to the gensets. Once a live inverter and a dead genset share a row,
  the alarm flaps for ever.
- *Zero orders.* `selectMultipleData` hides its failure behind zeros: a query that fails
  between two that succeed switches the PCS off. `Dido`, which reads its orders with a `select` that
  throws, does not have this flaw (`DidoNotUnasked` holds).
- *Lost tenths.* Parameters with scale 10 lose their tenths on the way from row to register.

### Behaviour on record, without a run

Where code and comments disagree on something no property is about, or where no document takes a side:

- After a restart, a block that does not answer in the first rounds is decoded as 0 and
  stored over the good rows of the run before (ModbusPollEngine.cpp:431). Within one life
  of the process the caches hold (`RowsNeverRegress`, which ends at a restart).
- The request that reopens a serial port goes out with no slave set (ModbusRtu.cpp:96). It
  fails, and the next `setSlave` repairs it (`PortRecovers`); it can never reach a wrong
  slave (`NeverWrongSlave`). `ModbusTCP` applies the slave in `create_context` (`RequestsAddressed`).
- The rows YellowLight to QacSplit show the orders and not the feedback (Dido.cpp:105),
  so that they are ahead of the device while writes fail.
- When the HMI lowers a count, the rows of units no longer scanned keep what they showed,
  and inverters no longer scanned keep their limit.
- The first failures of a unit after a restart write 0 to its rows although nothing was
  answered (Agc.cpp:55-60); `RaisedOnEvidence` speaks of rows that rise, `JudgementHeld` of units that have passed the limit
  again.
- After a restart Bamu stores 0 for cells whose block is not answered, in tables with good
  values; cells whose flush failed stay behind until they change (Bamu.cpp:301, the exception of `CellsStored`);
  temperatures below zero wrap (Bamu.cpp:271); a single dead cluster of a live stack is
  never reported, since clusters have no verdict of their own.
- `PCS_Smarten.h:21` says that writing 1 resets the alarm, the dispatch writes 0.
  `SunPv.h:76` gives the limit in W, the formula divides it by a rating in kW.
- `loadSinkWriteMap` takes the first entry of `tables` that matches in either way; the
  comment above it ranks exact entries first. `RoutedByRank` says for which files both agree.
  Field names may occur twice: then the first point is multiplied and the last one
  published, which `MultipliedAsConfigured` leaves out by `NamesUnique`. A list sets the exponent
  of a point to 1, whatever its field declared in `pt_exp` or `ct_exp` (ModbusConfigLoader.cpp:192),
  and exponents of 0 and below all mean "not multiplied" (ModbusPollEngine.cpp:502).

### Bounds, and why they are enough

- `poll_engine`: up to 2 requests (one that answers while the other fails), threshold 1
  (a count below, at and above it), 2 versions of data (older and newer), ratios {0,1,2}
  with 2 in range (invalid, default, other), 1 restart, and no bound on failures of the
  database, on lost answers or on edits. Four profiles between them take every branch of
  the code that is modelled.
- `modbus_rtu`, `modbus_tcp`: 2 slaves (selected and not selected), delays 1, 2, 4, 5
  (doubling, and the cap, which is no power of two, as 1 s to 30 s in the code), 3 hard errors,
  connect time-out 2 (longer than the first window, shorter than the last). MaxFails
  bounds the history variable `failed` alone: from 4 on `Wait` is at its cap.
- `connection_pool`: 4 threads on 3 connections, so both the abundant case (3 started) and
  the scarce one occur. The proofs cover every size.
- `unit_scan`: 2 units (residue and abandonment need a unit and a next one), limit 1,
  count rows below 0, in range, and too large, 1 restart. `unit_scan_overlap`: two
  inverters and one genset with the overlap of the real addresses, cut down to these.
- `hmi_orders`, `pcs_dispatch_switch`, `pcs_settings`, `pcs_settings_scale`: `MaxChanges` counts everything around
  the thread that changes (edits, trips, links), 3 or 4 of them at any steps, then `Settle`. Three are a
  failure, its repair and an edit in between; initial states cover every mismatch of device and orders.
  Two parameters, one of them scaled: one that is read or written before a failure, one
  after; two outputs and two inputs for the same reason, with every order of theirs. Limits -1, 1 and 100 (wraps, rounds,
  and is shared), counts below, at and beyond the two inverters, with the rating 125 and
  the dead band 10 of the code.
- `bamu`: 2 clusters that share 1 air unit (a leader and one that is not; a round cut short
  between them), threshold 1, the count read every 2 rounds with values below and beyond the range,
  2 values of cells, 2 changes, restarts and links that answer now and then among them, then
  `Settle`. Two are a failure and its repair, or a failure and a restart; `BamuProofs` has no bound.
- `device_config`: up to 3 points of every geometry on words 0 to 5, with blocks of 3
  words and 2 bits, so that points meet, overlap, leave gaps and overrun a block, for the first and second cluster (and 0, which
  is taken for the first); every combination of lists with fields of template and device, whose own exponents are 2, 1, -1 or none; up to
  2 sink entries and 2 maps. Plans of more points are a matter of `DeviceConfigProofs`.
  `CHECK_DEADLOCK FALSE` since a refused device is the end.

### Fairness, and why the code justifies it

Device threads loop for ever with sleeps in between and catch what their rounds throw, so
weak fairness of a round's steps is assumed (`WF(RoundStep)`, `WF(Step(s))` per thread,
`WF(SetSlave)` and `WF(Exchange)` for the owner of a bus) and of the clock. A blocking connect
ends, refused or timed out (`WF(ConnectEnds)`); that a peer that stays up is reached some time when it is
tried over and over (`SF(Connected)`) is an assumption on the network, without which no code could
recover. In `Bamu` the 10 s pass again and again while rounds go on (`SF(ClockTick)`: the model lets
them pass between rounds only, where they are noticed just the same). In `hmi_orders` each
watched thread has its own weak fairness. Nothing is assumed of devices, database and HMI: liveness properties begin
with a premise `<>[](...)` that says which of them settle (or `changes = Calm`, after `Settle`).

## 4. What is proved

For every value of the constants, from the assumptions named in the modules
(`ConfigAssumption`, `DelayAssumption`, `LineAssumption`, `LinkAssumption`, `PoolAssumption`,
`ScanAssumption`, `DispatchAssumption`, `OrdersAssumption`, `SettingsAssumption`,
`BamuAssumption`, `PlanAssumption`: constants are naturals, sets are what they are called,
delays are ordered, the pool and its threads are finite, a block takes at least the two words
of the longest point, what the HMI may store fits the type it is read into, and all inverters
together are rated below 2^16 kW, as the cast in `writePowerLimit` needs).
Each module's `TypeOK` is proved (`TypeCorrect`, `OrdersTyped`, ...), and so is every safety
property of a passing run, invariant or action property.

### Safety

- `PollEngineProofs`. `AlarmSafety`: `AlarmImpliesOffline` is not inductive: a step that raises
  com_alarm must know that Online was stored before. `AlarmInv` adds what each place in the
  round knows: at `markAlarm` Online is 1; from `sync` to `write` the verdict is "online" and
  the alarm is down, which is also `PublishedWithoutAlarm`. `StickyRows`: `StickyInv` orders
  row, cache and device (`rows <= cache <= dev` for requests read since the start).
  `FrozenRows`: past the probe the count is 0 (`AnsweredInv`). `SupervisionRefinement`: initial
  states map to initial states and every step to a step of `CommAlarm` or a stutter.
- `TransportProofs`. `RightSlaveOrNone` and `HardRunReleases`, from `LineInv`: a context carries
  no slave or the wanted one, and `hardErrors` is the number of hard errors in a row.
  `AlwaysAddressed`, from `LinkInv`: a TCP context that exists carries `slave_id_`.
  `PortNotHammered` and `PeerNotHammered`: no attempt before the back-off of the failures so
  far has passed. `PaceInv` and `TcpPaceInv` say that the delay kept is at least what the number
  of failures asks for, and that the rest of the window and the time gone by make it up; on
  TCP the window is counted from before a connect that blocks, which the invariant has to
  follow through `Tick`s. What the failures ask for is a power of two, a recursive function:
  `PowerOf2Steps` shows that it exists and doubles, from `LeastNatural`, since
  induction over numbers can be had from a least counterexample.
- `ConnectionPoolProofs`. `ConnectionsPartitioned`, and `EnoughForAll`: with no more started
  threads than connections nobody is ever made to wait. The argument counts: were the queue
  empty, each connection would have a holder of its own, and the thread that asks is one more.
  `WakeupsArrive` counts too: free connections against threads that were woken or are awake.
  `LoansRotate`: `Rotation` adds, for each connection in the queue, the loans it has sat out,
  those ahead of it and the started threads, and finds at least all connections.
- `UnitScanProofs`. `ReadingsStayApart`: `NoResidue` speaks of rows; `ScanInv` adds whose
  readings are in the shared cache at each place of the round. `ReportedOnEvidence`: it
  adds that `errs` is what `missed` counts, and that a scanner between the two rows of a unit it judged
  has Online stored (`Shown`); it needs no rows of one's own.
  `VerdictStands` needs `DisjointRows`, that no two units share a row of com_alarm: the
  addresses in the code do not meet it, which is the first finding, and the proof shows that
  nothing else is in the way.
- `PcsSettingsProofs`. `StoredIsRead` and `TakenDownIsWritten`, from `SettingsInv`: in a round
  that nothing disturbs, the copy agrees with the device up to the parameter that is being read
  (`CopyFollows`), and the device with the targets up to the one being written (`DeviceFollows`).
- `HmiOrdersProofs`. `OrdersTyped`: what is sent to a device or cast stays what its register
  can hold. `NothingUnasked`: `DidoInv` adds that past the orders every output was heard, which
  holds since the swapped order of reading leaves none out (`AllRead`).
- `BamuProofs`. `RowsFollowStack`, from `StackInv`: the verdict that is handed down says that
  more than Threshold probes in a row have failed, at whatever step it is used.
  `SnapshotsHold`: a cell's copy in `lastVolDb_`, `lastTempDb_`, against which later values are
  compared, is what its row holds, unless its last statement failed.
- `DeviceConfigProofs`. `PlanAlwaysCovers`, `PlanAlwaysReadable` and `PlanAlwaysMinimal`, both for
  any lists of points and for the points of any entry. `PlanInv`: the merged spans are
  covered, each address of a request belongs to a merged span, the last request starts no
  later than the next span, which is where the sorting comes in; and each request begins with
  a span that could not join the one before it (`RequestsBroken`): no readable request of
  whatever plan holds the first spans of two of them, so that a plan of fewer misses one.
  `ExponentsAreConfigured` and `SinkIsRouted`, from `ConfigInv`: at each
  stage of `parseDeviceObject` the points have the exponents of their fields, except the first of each name in the
  lists gone through, which has 1 (`MarkedBy`), and the entry found is the one the rank picks.

### The safety half of liveness

Most liveness properties here have the form `P ~> []Q` or `<>[]P => <>[]Q`: the rows end up right, for good. That
rounds end is a matter of fairness and stays with TLC; that a round which ends leaves `Q`
behind, and that none takes it away again, is a matter of steps, and is proved for every value
of the constants. The theorems read `Spec => [](calm and at the start of a round => [][XRound]_vars)`
with `XRound == (the round ends => Q') /\ (Q => Q')`.

- `DidoRoundSuffices`, `PcsRoundSuffices`, `PvRoundSuffices` (`HmiOrdersProofs`): one round is enough, whatever
  was half done before. `FreshDido`, `FreshPcs` and `FreshPv` say what a
  round knows at each of its places. For the inverters that rests on arithmetic: the rounded
  share, with a dead band around it, is near the exact one, and no inverter within it is
  touched again (`ShareIsNear`, with the 16 bits of the cast).
- `DeadRoundSuffices` (`BamuProofs`): one round whose count of clusters is the one in force
  marks all clusters and the logic row.
- `TwoLiveRoundsSuffice`: the bits of the air units are read after logic row 201 was
  written, so that it takes a first round to know them (`FreshLive`) and a second to show them (`FreshSeen`).
  A unit is read with its leading cluster, the others follow it: that every unit in use has its
  leader among the clusters in use is arithmetic on `AirUnitOf` (`AirUnits`, `AirUnitIn`, `NoAirBefore`).
- `CellRoundSuffices`: one round with all cells due stores them all, except those of failed
  statements. A value equal to its copy is not stored: that the row
  has it nevertheless is `SnapInv`.
- `LiveRoundSuffices`, `DeadRoundsSuffice` and `DataRoundSuffices` (`PollEngineProofs`), for every
  profile: one round restores the rows of a live device, or brings in its data at the ratio in force
  (`RatioTaken`: `syncPtCt` of a device that answers); of a dead one each round counts a miss until
  the verdict and then leaves the verdict in the rows, so that `Threshold + 1` are enough.
  `RoundInv`: an engine that does not supervise never says offline, and each reading of the plan
  starts at its first request.
- `LiveRoundSuffices` and `DeadRoundsSuffice` (`UnitScanProofs`): the same for a unit, whatever
  its neighbours on the same engine and the other scanner do meanwhile (`RowsApart`,
  `RoundsApart`), and however the HMI changes the number of units as long as this one is
  looked after. They need `DisjointRows`, like `VerdictStands`.
- `SettingsRoundSuffices` (`PcsSettingsProofs`): one round serves the requests on record and takes
  them down, and later ones touch neither rows nor device.
- `CleanLineRecovers` (`TransportProofs`), which counts steps instead of rounds: on a clean line
  `Arrears`, the hard errors a stale handle is still good for or the rest of the window, only
  fall, and with none left the next `setSlave` brings context and address for good.

A dead device needs the process to run: a restart loses the count. So `DeadRoundsSuffice` speaks
of a stretch between restarts, while the verdict of a live device and its data, which are in the
rows alone, are shown to survive them.

Two definitions had to change for these proofs: `ProbeUnit` (`PowerLimit`) and `StoreInput` (`Dido`)
had a CASE whose guards overlapped, and the value of such a CASE is any of the arms that
apply; the guards are disjoint now. TLC takes the first arm and does not notice.

### Only model-checked

Everything under fairness, and `ENABLED` with it (out of the prover's reach): that rounds begin and
end, and with it the liveness properties themselves, of which the theorems above are the other
half; `PeerRecovers`, which has none: a peer may drop connections for ever, and whether an
attempt to connect times out is left to strong fairness; and the three violations.

## 5. Not modelled

Formatting of SQL, log lines and JSON; insertion of history rows and `checkAndCleanTable`;
which bits and words make up a number; `frameGap`; fault and alarm words of the inverter (5044)
and MPPT states, `computeAlarmLevel`, fan and pump states, `fillVirtual`, `writeLogic` of the meters and `writeLogicData`
of the PCS: they have no state and copy or combine fields of one round into rows. The
alternation of the two meters of a pair on one bus. `Logger` and `CrashHandler` (files only; nothing
reads them), `ThreadManager` and the run loops nobody starts.

External parts are modelled as the code
uses them: libmodbus and the line (a request ends well, with a soft or with a hard error),
MySQL (a statement is carried out, or throws and may have been carried out), the HMI, the
devices. Assumed: each bus has one owner thread, as in `main.cpp`. A late answer to a
request that timed out belongs to libmodbus and is left out.

## 6. Plan

Done: the engine first (every device depends on it), then the transports
below it, the pool, the scanners above it, the devices that carry out orders, the battery,
and the way from the configuration to the read plan; proofs in the same order.

Left:

1. A composition of `PollEngine` with `ModbusRTU` for a reopening inside a round, and of a
   round with a pool connection that is dead.
2. The pair of meters on one bus, whose second engine is skipped by an exception of the first.
3. The width of power orders (int16/uint16) in `PcsDispatch`, once it is known what
   the HMI lets an operator order.

## 7. Running it

    tlc -workers 2 -config PollEngine.cfg MCPollEngine
    tlapm PollEngineProofs.tla

The longest run takes about a minute and a half, the proofs of a module up to two minutes.
