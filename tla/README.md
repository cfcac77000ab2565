# A verification model of the ALMA front end control library

The repository is the C++ library that monitors and controls the ALMA front end
receiver: a LabVIEW user interface loads it as a DLL, and it talks over a CAN bus
to the firmware (the FEMC module) that drives the cartridges, their power
supply, the cryostat and the switches. These TLA+ modules model the parts of it
where threads, failures and the order of calls matter, and the tables that
must agree with the hardware. TLC checks each module on a small instance; TLAPS
proves all their safety properties for every value of the constants.

Paths below are relative to `src/`; `FE2` stands for `FrontEndControl2`.

## 1. The system

Three kinds of threads run in the program:

* the **host** threads: LabVIEW calling the exported functions, which call
  `FrontEndImpl` and from there the cartridges, the power modules, the switches
  and the measurements;
* one **monitor thread** per device, which reads the device's registers in turn;
* one **worker thread** per measurement, and one per CAN bus.

All of them end in a transaction on the bus, and there they wait on a semaphore
that the bus worker posts. Almost everything else they share is a plain `bool`
or `int` member without a lock. `PROJECT.json` lists the components with the
modules that model them, and the hazards, each with the line at which it bites.

### Inventory

| component | state it keeps | operations | interacts with | module |
|---|---|---|---|---|
| **CAN bus** `FrontEndAMBLib`: `AmbInterface`, `CANBusInterface`, `AmbQueue`, `ChannelNodeMap`, `NICANBusInterface` | queue of messages, handle and open flag per channel, `dieNow`, `deadNow`, the bus pointer | `monitor`, `command`, `sendMessage`, queue thread, `shutdown`, `findNodes` | callers' stack frames and semaphores, the driver | `AmbBus` |
| **Transaction helpers** `FE2/FEBASE/FEHardwareDevice.h`, `MonCtrlMacros` | none | `syncMonitor`, `syncCommand` (with readback), the `SYNCMON` and `SYNCCMD` macros | the bus | `AmbBus`, `DevicePoints` |
| **Monitor threads** `FE2/FEBASE/FEHardwareDevice.*` | `running_m`, `stopped_m`, `paused_m`, `errorCount_m`, `exceededErrorCount_m`, the monitor registry | `startMonitor`, `stopMonitor`, `pauseMonitor`, `resetErrorCount`, the thread, `addMon`, `executeNextMon` | every device derives from it; measurements pause it | `MonitorThread`, `DevicePoints` |
| **Register sets** the `*ImplBase` classes | cached monitor values, monitor phase | one call per register | monitor threads, bus | `Registers`, `DevicePoints` |
| **Acceptance tests** `FrontEndICDTest` | the tables of the interface documents | one test per register | the hardware | `ICDTests` |
| **Cartridge control** `FrontEndImpl`, `CartridgesContainer`, `PowerModulesContainer`, `PowerModuleImpl` | `enabled_m` and command status per power module, `numEnabled_m`, `observingPort_m`, whether there is a CPDS | `setCartridgeOn/Off/Standby2/Observing`, `cartPauseMonitor`, `queryCartridgeState` | firmware, assemblies, switches | `Cartridges` |
| **Cartridge assembly** `CartAssembly`, `WCAImpl`, `ColdCartImpl` | `enable_m`, `observing_m`, what was set last, the heating process, the measurements | enable, observe, pause; bias, LO tuning; start and stop measurements | monitor threads, workers | `Cartridges`, `CartMeasure` |
| **Switches** `LPRImpl`, `IFSwitchImpl` | the band last switched to | set band, EDFA, attenuators, servo | bus | `Cartridges` |
| **LabVIEW interface** `FE2/DLL`: `lv_wrapper` and one wrapper each for the front end, the LORTM, the signal source and the compressor | a count of clients and a valid flag per module, the shared bus | initialise, reconfigure, shut down; some 150 exports | everything | `Sessions`, `Calls` |
| **Power firmware** (outside the repository, described by its tests) | OFF, ON, STANDBY2 per port | accepts or refuses a command | bus | `Cartridges` |
| **Workers** `FE2/OPTIMIZE/OptimizeBase` and its twelve subclasses | `start_m`, `stop_m`, `stopped_m`, `finished_m`, `success_m` | start, request stop, worker loop, destructor | assemblies, monitor threads | `OptimizeWorker`, `CartMeasure` |
| **Searches** `Maximizer`, `MaximizeIFPower` | three (control, value) pairs, direction, control history, last meter reading | `maximize`, `setIFPower` | power meter thread, hardware | `Maximizer` |
| **Locking** `LockingStrategy`, `LOCK_ONLINE_2021JUL_B`, `ICT_19283_LOCK_CV_Points`, `WCAImpl::adjustPLL` | step of the search, points, best tuning | lock search, adjustment | WCA, events | `LockSearch` |
| **Cryostat** `CryostatImpl`, `CryostatPumping` | valve and pump states, retries | start and stop pumping, cool-down plot | worker, events, database | `Cryostat`, `HealthCheck` |
| **Event queue** `FEMCEventQueue` | a deque, sequence number, count of subscribers | add, get, subscribe | all workers, LabVIEW | `EventQueue` |
| **Health checks** `CartHealthCheck`, `MeasureFineLOSweep`, the `FrontEndImpl` side of both; `ThermalLogger` | data status, header of the records | prepare, start, record | assemblies, database | `HealthCheck`, `CartMeasure` |
| **Database** `FEICDBLib`, `FE2/CONFIG/FrontEndDatabase` | one connection | create or find a header, insert rows | health checks | `HealthCheck` |
| **Configuration** `FE2/CONFIG` | tables read from files and SQL | look up, interpolate | start-up | not modelled |
| **Wire format** `messagePackUnpack`; **other buses** `SocketClientBusInterface`, `XMLClient`, `NIXNet`; **bus DLL** `FrontEndAMBDLL`; **logging** | none that matters | | | not modelled |

### What is hard, and what would make each part correct

* **Bus.** Clients, the worker and `shutdown` interleave; the worker writes
  into the stack frame of a caller; channels are opened by whoever comes first.
  Correct: every request answered once, with data of its own, on an open handle,
  also while the bus closes.
* **Monitor threads.** Unlocked flags, a stop that gives up after 25 s, a
  restart while the old thread lives, a registry that two threads change.
  Correct: a stopped device has no threads, an error stop is a pause, the
  registry stays whole.
* **Register sets.** Ten tables of hand-written offsets; gates that suppress a
  reading; locals that a failed reading leaves unset. Correct: what the program
  shows is what is at the point's own address, sooner or later.
* **Cartridge control.** State is kept in four places (firmware, power
  module, assembly, container) and every command can fail between two of them.
  Correct: what the host is told agrees with what is powered, also after a
  restart of the program.
* **Measurements.** A start does not ask whether a worker is running, a deletion
  waits for a flag others write, pauses do not nest, every measurement moves
  the bias. Correct: monitoring is resumed, the bias is put back on every way
  out, a stop is obeyed, the heaters go off.
* **Searches and locking.** Direction changes, a slow meter, steps that are cut
  off at the borders. Correct: success is a peak; the whole window is searched;
  the best found is what is tuned; the search ends.
* **Pumping.** A failed reading looks like a closed valve. Correct: the turbo
  pump stops behind closed valves and the backing pump behind the turbo pump.
* **Sessions.** Four modules count their clients and share a bus; any step of an
  initialisation may fail. Correct: whoever is connected has a bus and the
  objects its calls use; the last one out leaves nothing behind.
* **Events, records.** Subscriber counts outside the lock; headers that are kept
  from one record to the next. Correct: nothing lost, nothing misfiled.

## 2. Plan

The order is that of what everything else rests on.

| | module | composes / refines | checked | proved |
|---|---|---|---|---|
| 1 | `AmbBus`, abstract `BusService` | refines `BusService` | yes | yes |
| 2 | `MonitorThread` | | yes | yes |
| 3 | `Cartridges` | firmware, power modules, container, switches | yes | yes |
| 4 | `Maximizer` | | yes | yes |
| 5 | `OptimizeWorker` | with the monitor pause of its cartridge | yes | yes |
| 6 | `DevicePoints` | `Registers`, `ICDTests`, monitor thread, host | yes | yes |
| 7 | `EventQueue`, abstract `EventChannel` | refines `EventChannel` | yes | yes |
| 8 | `Cryostat` | `OptimizeWorker`'s protocol, plant, host | yes | yes |
| 9 | `LockSearch` | three strategies and `adjustPLL` | yes | yes |
| 10 | `CartMeasure` | assembly, nine kinds of worker, host | yes | yes |
| 11 | `Sessions` | `Calls`, four modules | yes | yes |
| 12 | `HealthCheck` | host, workers, database, plot | yes | yes |
| 13 | life cycle of `AmbInterface`: reference count, static mutex and semaphore | `AmbBus` | next | |
| 14 | `findNodes`; the tuning protocol of `LORTMImpl`; `messagePackUnpack` and the interpolation of `LookupTables` as checked algorithms | | later | |

Abstract specifications: the bus as a first-come-first-served service, the event
queue as a channel that is opened, closed and renewed.

## 3. The modules and the code

Each step of a module is a stretch of code between two accesses to state that
another thread can see; what is local to a thread is merged into the step next
to it. `PROJECT.json` names the lines of every definition.

### `AmbBus` (refines `BusService`)

A *client* is a thread inside `syncMonitor` or `syncCommand`. Its stack frame is
`request`, `status`, `data`, `posts` (the semaphore); the completion structure
is a set of pointers into it, so the worker writes straight into these. `pc[c]`
follows the call through `sendMessage`: dereference the bus, test `dieNow`, test
whether the channel is open and open it if not (object, handle, flag: three
steps, since the flag is read without the lock that guards the map), append,
wait. `syncCommand` does this twice, for the command and for the readback with
the NULL status. The *worker* (`wpc`) tests `dieNow`, takes the head of the
queue, looks the handle up, transacts (any outcome the driver can report, bytes
read from the device or not), writes the answer, posts. *Shutdown* (`spc`) sets
`dieNow`, spins on `deadNow`, flushes the queue, closes the channels one after
the other, sets the bus pointer to NULL.

Abstractions: the payload is one of "junk" (uninitialised), "payload" (what the
caller sent), "reply" (read from the device) or "empty"; a reply is any frame
with the right address, whichever request caused it, as in `NICANBusInterface`.
`findNodes`, the reference count of `AmbInterface` and the transmission delay
are left out.

### `MonitorThread`

`running`, `stopped`, `paused`, `exceeded`, `errors` are the members of
`FEHardwareDevice`; each read and each write is a step. The *owner* starts and
stops, and may give up its poll (`StopGivesUp`) and start again, so several
monitor threads can be alive. *Measurements* call `pauseMonitor` from their own
threads; the monitor thread calls it on itself after too many errors. Errors are
counted by the monitor thread only (a read, then a write of the increment).
The destructor is left out; the registry and the
minimal monitoring mode are in `DevicePoints`.

### `Cartridges`

The host calls one control function at a time; `pc`, `op`, `port`, `cmd` say
where it stands. `power` is what the firmware has, `poweredOn` and `statusOk`
the members of the power module, `enable` and `observing` those of the assembly,
`observingPort` and `numEnabled` those of the container, `lprPort` and `ifPort`
the bands the switches were sent to. `MonitorAction` is the power module's
monitor thread, which stores the status of its own read in the member that the
control function is about to test. `FEControlInit` may come at any point: it is
a restart of the program, orderly or not; the objects are new, the firmware keeps
its power, and `QueryPort` reads it back. The firmware's rules (a limit on the
cartridges ON, STANDBY2 only at port 6) are external, from
`FrontEndICDTest/STANDBY2TestFixture.h` and how the code uses them. `faulted` is
a ghost: some transaction failed since the start.

### `OptimizeWorker`

The host starts, stops and deletes one measurement; a start may come while
workers of earlier starts live, for `CartAssembly` does not ask. `wpc[t]` walks
the worker loop: test `stop_m`, suspend the monitoring, measure, resume,
`setFinished`, test `finished()`, `exitAction`, acknowledge. The measurement is
that of `MeasureIVCurve`, the base case all the others follow. `reset` writes
its five flags under the mutex and is one step. After the deletion a worker that
is still alive reads freed memory: it may do anything (`Astray`).

### `Maximizer`

`maximize` looks at three pairs `a`, `p`, decides whether the function rises
along the search, falls or has a crest between them, and takes a fourth. `pc`
goes through its steps: set the control value, wait, drain the input, request,
await, analyse. `immediate` tells the two ways a value can come: from the call
itself, the contract of `Maximizer::requestDependentValue`, or later from
another thread through `setIFPower`, which is what `MaximizeIFPower` does; then
`ReadMeter` and `SetDependentValue` deliver readings that may be old. The
control history and the oscillation test are those of `MaximizeIFPower`. Control
values are integers and the power is a function of them: noise is not modelled.
Locals a new search overwrites before it reads them are set to a fixed value
by `BeginSearch`.

### `DevicePoints`, on `Registers` and `ICDTests`

`Registers` is the tables of nine device classes: for each the offset of every
point, how an address is put together from it, the order of the monitor
registry, the digital points of each phase of `monitorAction`, the points a
host commands. `ICDTests` is the hardware as the acceptance tests take it to be:
where a point is, which ones a band has, when a command is refused. A point
that has a test is, in the model, where its test finds it.

A behaviour begins by choosing one device and one point of it, the *probe*; only
it (and the point that gates it) ever moves, so that any value that shows
elsewhere came through a wrong address. The monitor thread walks `registry` with
`nextMon` and then the digital points; `Fetch`, `Read` and `Store` are separate
steps, and between them `addMon` may push a temporary entry and set the
iterator back. A value is zero or not, and is at first what the constructor of
the class sets it to (valve states and alarms are not 0); for points that do not
move that value is left out. A failed reading gives 0 or anything, depending on
the macro. `minimalMonitor` and STANDBY2 of band 6 are modelled.

### `EventQueue` (refines `EventChannel`)

An event is its number. A sender finds the instance, takes the lock, takes a
number, and keeps the event if anybody is subscribed: the count is read in a
step of its own, since `addClient` and `removeClient` read and write it in two
steps without the lock. `createInstance` and `destroyInstance` renew the queue;
the model assumes that no worker is inside `addEvent` when the host destroys it,
which the code does not enforce (section 5).

### `Cryostat`

`pc` of a worker follows `optimizeThread` and `optimizeAction`: wait until
the temperatures last read are below their targets, or time is up; close the
gate valve and wait; close the solenoid valve and wait; test the gate again; stop
the turbo pump; stop the backing pump; finish. The plant is two pumps and two
valves, which may take their time. The host may start again, stop, or work
pumps and valves by hand. A transaction that fails reads as 0, which is "no
pump", "closed" and "cold". `trust` is a ghost: since the start nothing failed
and no hand interfered.

### `LockSearch`

`lockPLL` with the strategies `LOCK_Normal` (a window searched alternately up and
down), `ICT_19283_LOCK_CV_Points` (a row of points, and a fit) and
`LOCK_ONLINE_2021JUL_B` (two scans and a binary search for IF power), each of
which may end in `adjustPLL`. Tunings are integers cut off at 0 and `MaxTune`.
What the hardware answers is open: locked or not, the sign of the correction
voltage, the power; a tuning that cannot be read is 0. The EDFA loops are left
out, as no caller allows them.

### `CartMeasure`

One cartridge with SIS mixers, magnets and heaters, the host, and the workers
of nine kinds (`IV`, `VErr`, `SISCurr`, `IFPower`, `FineLO`, `LOPA`, `Deflux`,
`Heat`, `Health`), each with the phases in which it pauses, saves, moves, puts
back and resumes. A setting is "host" (what the host asked for last), "zero"
(off though the host asked for more), "other" (a point of a sweep) or "lost"
(two actors moved it, or one of the exceptions that `Lose` and the comment of
`BiasRestored` name). A worker record has `saved`, what it read before it
moved anything, `magWas`, and `stop`. Stops, refusals and the host's own calls
come between any two steps.

### `Sessions`, on `Calls`

`Calls` lists, for every export that uses an object of a module, what it tests
(module valid, port exists, enabled, has the half) and what it then dereferences;
the few others are named at its head. `Sessions` says which
objects exist: four modules with `connectedXClients`, the flag `valid`, the device
object; the shared bus with `connectedModules`; the front end's subsystems and
cartridges. `FEControlInit` and its siblings are a few steps each, every one of
which may fail and leave the counts raised, as the code does; the front end may
bring the compressor up with it. The two exports that load a configuration test
nothing: on a module without an object they call a method through NULL, as does
an initialisation that finds no node in its ini file and no object of an earlier
attempt; the process then ends (`ProcessEnds`) and the next begins with
everything as it was at first. An empty configuration calls no method, and
`FELoadConfiguration` marks the front end valid all the same; the next export
that uses it ends the process (`UseNothing`). The names of the ini files are
taken to be known. `owed` and `served` are ghosts: the sessions
clients still have to shut down, and those that found their module valid.

### `HealthCheck`

Host, one worker per cartridge check, one per sweep and the thermal logger, on
one database connection. A job is a list of operations (create or find a
header, insert rows, make a sub-header) in the order of `FrontEndDatabase` and
`CartHealthCheck`; each query is one step and may fail. A header is abstracted
to its type, its band and its data status. `LastInsertID` hands out the last
ID of the connection, so a step of another thread in between gives "lost".
A port stands for its band, which decides what the cold cartridge has: `hasSb2`
(bands 1 to 8), `hasSIS` (3 to 10), `hasMagnet` (5 to 10).
`prepare` gives the tables that are applied before the first that is empty, and
`Recorded` what the worker later looks up anew.

## 4. What each run checks

| run | properties | shows |
|---|---|---|
| `AmbBus` | `AnsweredOnce`, `MonitorIsReply`, `HandleIsOpen`, `QueuedIsAnswered`, `ShutdownReturns`, `ServiceSpec` | no write into a dead frame and no double answer; a good status means data of this call; no use of a closed handle; nobody queued in time waits for ever; shutdown ends; the bus implements `BusService` |
| `MonitorThread` | `ErrorStopIsPaused`, `StopReturns`, `StoppedThreadsExit` | an error stop is a pause or about to be one; the poll of `stopMonitor` ends without its time limit; after the last stop all threads exit |
| `DevicePoints` | `OwnValueShows`, `PermanentsStay`, `CatchesUp` | no two points share a register and no value shows at another point; the registry stays whole under `addMon`; once nothing moves the program has the value of every point it monitors |
| `Cartridges` | `ObservingIsEnabled`, `CountIsRight`, `RestartFindsPower`, `PowerIsKnown`, `ObservedIsSwitched` | the four records of the power and observing state agree through failures, refusals and restarts |
| `CartMeasure` | `BiasRestored`, `MonitorsResumed`, `HeatersGoOff` | measurements, alone and overlapping, put back what they moved and resume what they paused; the heaters do not stay on |
| `OptimizeWorker` | `MonitoringResumed`, `StopIsObeyed`, `DeleteReturns` | no overlap of workers leaves the cartridge unmonitored; a stop ends them; the destructor returns |
| `Maximizer` (module `MCMaximizer`) | `SuccessIsPeak`, `NoRunaway`, `SearchReturns` | success is a local maximum inside the range at which the hardware stands; no endless climb; `maximize` returns |
| `LockSearch` | `WindowIsSearched`, `MonitorsResumed`, `BestIsTuned`, `SearchEnds` | a search that found nothing has tested its whole window; the monitors go on; the maximization ends at the best tuning it measured; every search ends |
| `Cryostat` | `PumpsStopInOrder`, `PumpingEnds` | the order of valves and pumps; pumping ends if nobody interferes |
| `EventQueue` | `NothingLost`, `IsAChannel` | every event sent while somebody is subscribed is in the queue or taken, in order; the queue implements `EventChannel` |
| `HealthCheck` | `RowsAreFiled`, `RecordedIsApplied` | rows stand under a header of their type, band and status whatever fails; the bias recorded is the bias applied |
| `Sessions` (module `MCSessions`) | `LiveHaveBus`, `SessionIsServed`, `EverythingIsReleased`, `CallsFindObjects` | a valid module has a bus; a session stays served until it is shut down; the last shutdown releases everything; an export that passes its tests dereferences only what is there, but for the four of `Unguarded` and for a front end that `FELoadConfiguration` marked valid while nobody had it open |

### Bounds, and why they are enough

* **AmbBus**: 2 clients, 1 channel, 2 calls, 2 openings. Two clients give every
  race that involves two callers, the worker and the shutdown (a fourth
  thread); the races found and excluded involve at most two callers. With more
  channels the clients interfere less. The proofs lift the bounds on clients and
  channels for the safety properties.
* **MonitorThread**: 1 measurement, 2 monitor threads (one given up by a stop, one
  of the next start), error limit 1, 1 pause; the thread pauses itself besides.
* **DevicePoints** (237,270 states): every class with all ten ports fitted, so that
  a wrong port or band shift hits a neighbour; the devices at port 6 run. Two temporary entries, so that one may be pushed while another is being
  served. `Unprobed` leaves out `PA_HAS_TELEDYNE_CHIP` (read once, never
  monitored) and `SIGNAL_LASER_TEMP_MON` (section 5, disagreements). STANDBY2
  only comes while a point that it affects is probed.
* **Cartridges**: one port with STANDBY2 and one without, and a limit of 1 (the
  firmware's is 3), so that commands are refused, entered and left, and observing
  moves from one port to the other.
* **CartMeasure** (170,536 states): all nine workers alone, and the pairs `IV` with
  `SISCurr`, `VErr` with `FineLO`, `Health` with `LOPA`: every setting and
  both monitors are in at least one pair. The proofs of the two invariants
  hold for any `Overlaps`. One turn of the heating loop.
* **OptimizeWorker**: three workers, one late, one running, one just started;
  `Slow` lets a measurement outlast the 25 s of the stop.
* **Maximizer**: six control values leave room for a climb, a change of direction, a
  crest in the middle and both borders; three powers give rise, fall and plateau
  in every combination: all 729 functions, every start, both directions.
  `MaxIter = 8` is above what `NoRunaway` allows. `TimeOut = 2` separates no,
  some and too much waiting. Two functions are read from a meter.
* **LockSearch** (103,834 states): tunings 0..9, a window of 4 steps of 2, so that
  a window is cut off at neither, one or both ends; three points at a distance of
  3, which also leave the range; a span of 3 for the binary search; powers
  0..2 give equal and different readings; 10 retries and a distance of 3 for
  `adjustPLL`, so that each of its limits is met before the other.
* **Cryostat** (413,712 states): 2 workers (one stopped late, one of the next
  start), timeout 0 (time is up or not at any cycle).
* **EventQueue** (126,725 states): 2 senders, 2 clients, 4 events, counts of
  subscribers from -2 to 2, so that two clients lose each other's change and the
  count goes below zero.
* **HealthCheck** (1,064,829 states): a cold cartridge of band 6, which has two
  sidebands, mixers and magnets (bands 2, 4 and 9 in its place pass as well, with
  141,247 states for band 2; the proofs take any bands), one empty table (`LNA02`, in the middle of the order), 2 threads at
  work at once, one data status beside that of plots and sweeps.
* **Sessions** (375,662 states): 2 sessions each for the front end and the signal
  source, 1 for the others, at most 4 connected; port 1 with both halves, port 2
  with a cold cartridge only, port 3 empty; cryostat and IF switch configured and
  the other subsystems not, so that each kind of missing object occurs. One
  caller: LabVIEW calls the initialisation from one place. No configuration is
  loaded, but by the initialisation itself, while one is under way.

### Deadlock

`DevicePoints`, `Cartridges`, `CartMeasure`, `Maximizer`, `LockSearch`,
`EventQueue` and `HealthCheck` are checked for deadlock. The others may stop: the
bus is down and its callers are done, the device is stopped for good, the
measurement is deleted, pumping has ended and the host does nothing, or the
clients have used up the sessions they are allowed; there `CHECK_DEADLOCK FALSE`.

### Fairness, and why the code justifies it

Only threads that are inside a call or a loop and able to move are assumed to move
(weak fairness); the operating system schedules them and no step holds a lock
another waits for beyond its own end. `Cartridges`, `EventQueue`, `HealthCheck`
and `Sessions` state no fairness.

* `AmbBus`: the worker, a shutdown that has begun, and clients inside
  `sendMessage` or with their semaphore posted. Nobody has to begin a transaction or the
  shutdown; opening a channel may always fail.
* `MonitorThread`: the owner inside a call, callers inside `pauseMonitor`, the
  threads. `StopGivesUp` (the 25 s limit) is not fair, so `StopReturns` is not
  met by giving up.
* `DevicePoints`: the monitor thread. `CatchesUp` excludes behaviours in which
  something moves, or readings fail, or monitoring is minimal, for ever.
* `CartMeasure`: each worker by itself.
* `Maximizer`: the searching thread. The meter and the user who stops are not fair.
  The drain loop (`Maximizer.cpp:522`) has neither a time limit nor a stop test; a
  meter that is faster than its turns keeps `maximize` in it, and
  `SearchReturns` says so.
* `LockSearch`: the searching thread.
* `OptimizeWorker`: the host inside a call and the workers. A measurement need not
  end by itself (`MeasureEnough`) and the host need not lose its patience
  (`PollGivesUp`).
* `Cryostat`: each worker, whose transactions do not fail for ever; the valves
  move when told. `PumpingEnds` needs the latter, since the wait for a valve
  has no end.

## 5. What is proved, and what does not hold

The proofs are in the modules named `...Proofs` (section 7 says which is where).
Each assumes only the named assumptions on the constants of its module (ranges are
integers, bounds are naturals, sets of threads are disjoint or not empty; for
`DevicePoints` also that the tables keep the registers apart, see there), and
each invariant has one step per action.

* **Bus.** `TypeCorrect`. `AnsweredOnceHolds`: `AnsweredOnce` is inductive
  beside the types. `HandleIsOpenHolds` needs `HandlesBound`: while the worker
  lives no channel has been closed; a channel marked open, a message queued, or a
  caller about to queue one, has a handle that was created. `MonitorIsReplyHolds`
  needs `FrameIsHonest`: a monitor call whose answer is written and whose status
  is good has the data with it. `ServiceImplemented`: every step of the bus is a
  step of `BusService` or leaves `lineBar` and `stageBar` alone; the line is the
  queue with the message the worker holds in front.
* **Monitor.** `TypeCorrect`; `ErrorStopIsPausedHolds` from `ErrorStopInv`: the
  flag is up only while paused, or while some caller stands at a step of
  `pauseMonitor` that will pause or clear it (`Settling`), which is what the
  weaker "somebody is in the call" does not preserve.
* **Register sets.** `PermanentsRemain` (`PermanentsStay`) from `RegistryInv`: the
  registry is some temporary entries and then the permanent ones in their order,
  and an entry taken as temporary is one that the iterator still points in front
  of, for `addMon` sets it back to the first. `OwnValuesShow` (`OwnValueShows`)
  from `ShowInv`: the registers that are not 0 are those of the probe and its
  gate, the thread serves points of its own device (the lists of nine classes are
  lists, and `at` and `nextMon` stay inside them), and what it has read and not
  yet stored is 0 or of the probe. Its `TablesAssumption` says of the tables alone
  that what moves with a point has registers of its own. The tables are finite
  and TLC evaluates the assumption over all of them, nine classes at ten ports,
  before it starts; a slip in an offset or a shift makes it false. The proof
  adds what no table shows: that no interleaving, overtaking or failed reading
  carries a value elsewhere.
* **Cartridges.** `TypeCorrect`, `ObservingIsEnabledHolds` and
  `CountIsRightHolds`. `ObservedIsSwitchedHolds` from `Aligned`: the switches
  follow the steps done. `PowerIsKnownHolds` from `Commanding` (which command is
  under way) and `Known` (the power module is behind its port only between a
  command that powered it and the test of its status). `RestartFindsPowerHolds`
  from `Catching`: during the queries modules agree with the firmware and the
  carts with the modules as far as the loop has come.
* **Maximizer.** `TypeCorrect`, which includes that only values in the range are
  commanded. `SuccessIsPeakHolds` from `PeakInv`: the hardware has the control
  value whose power is being measured, and the three pairs are a row of
  neighbours, in search order, or folded back after a change of direction
  (`Line`, `Fold`); a crest is only accepted in a row. `SearchIsBounded`
  (`NoRunaway`) from `EndInv`, beside the other two: but for two of them, each
  round of analysis has taken the search one step further from the end of the
  range it came from (`Bounded`), so that they are at most as many as the range
  has steps; a fall in the first round and a flat top use up the two, and what
  would step back and up again is ended by the oscillation test, for which the
  invariant follows the last control values (`Been`). For every range, step and function.
* **Workers.** `TypeCorrect` and `MonitoringResumedHolds`, for any number of
  workers.
* **Locking.** `LockTyped`, `WindowSearched` (`WindowIsSearched`), `MonitorsComeBack`
  (`MonitorsResumed`) and `TunedToTheBest` (`BestIsTuned`), from one invariant of
  six parts: types; the monitors are off during a call and only the ends of a row
  that share one tuning leave them off (`PausesFit`); the points of the row are in
  its order and those before `index` were tested (`RowInOrder`, `RowIsTested`); the
  window is tested as far to one side as to the other, or one step further
  (`WindowToAndFro`); what was measured lies within the span, `best` has the most
  power of it, and the next tuning is far enough away (`SpanIsHalved`). For any
  window, step, row and span; `MaxTune` below 65536 (4095 in the code), as a tuning
  is sent as an unsigned short.
* **Event queue.** `TypeCorrect`; `NothingLostHolds` and `ChannelImplemented` from
  one invariant: the queue and what was taken are consecutive numbers up to the
  next one for as long as the count of subscribers was positive (`Numbered`),
  and the number of the sender that holds the lock between its steps is still
  to come (`Pending`). For any number of senders and clients.
* **Cryostat.** `TypeCorrect`; `PumpsStopInOrderHolds` from `OrderInv`: while nothing
  has failed and no hand interfered, a worker past the wait for a valve
  (`Behind`) finds that valve shut (`Shut`) and so does every other, as no
  worker opens one (`Kept`). For any number of workers.
* **Sessions.** `SessionsTyped`, `BusIsThere`, `BusOutlives` (`LiveHaveBus`),
  `ServedStayValid` (`SessionIsServed`), `LastSessionReleases`
  (`EverythingIsReleased`) and `GuardsSuffice` (`CallsFindObjects`), for any
  configuration and number of clients. For a front end `GuardsSuffice` needs that
  it has an object or a client whose initialisation succeeded, and proves that
  with such a client the object is there: `ObjectsAreHeld` and
  `SessionsAreCounted` hold of modules that are valid and have an object (`Up`),
  as valid alone does not survive `ReloadFrontEnd`. They are proved of behaviours in which one
  thread at a time is inside an initialisation (`[]OneAtATime`), as it is with one
  caller (`OneThread`); the race of two, `lv_wrapper.cpp:249`, is outside and breaks
  `BusIsThere` (below, `ValidIsCreated`).
* **Health checks.** `HealthTyped`, `RowsFiled` (`RowsAreFiled`) and
  `AppliedIsRecorded` (`RecordedIsApplied`) from `HealthInv`: every operation that
  inserts rows will find its header, for either an operation just before it leaves
  that header or the one now held is right (`Fit`); steps of other threads leave
  a job so, and the headers of plot and sweeps, which outlive their jobs, stay what
  they are (`HeldOK`).
  For cartridges of any bands, any tables, threads and failing queries.
* **Measurements.** `TypeCorrect`; `MonitorsResumedHolds` from `PauseInv`: a paused
  monitor has a live worker whose remaining phases resume it.
  `BiasRestoredHolds` from `BiasInv`: each setting is lost, or as the host
  left it with no worker about to move it back, or moved by exactly one live
  worker that has saved the host's value and will put it back. For any set of
  overlapping kinds: the restriction `Overlaps` plays no part.

### Only model-checked

Liveness (`QueuedIsAnswered`, `ShutdownReturns`, `StopReturns`,
`StoppedThreadsExit`, `CatchesUp`, `HeatersGoOff`, `SearchReturns`, `SearchEnds`,
`StopIsObeyed`, `DeleteReturns`, `PumpingEnds`): the prover does not handle
fairness or `ENABLED`. `TablesAssumption` is about tables of constants, which TLC
goes through completely.

### Statements of the code and its documents that do not hold

These predicates are in the modules, each with a comment that quotes what it is
taken from. They are not part of a run, for the code violates them; adding one
to the `.cfg` as an INVARIANT (a PROPERTY for `RetriesEnd`) shows the steps.
`KeptApart` is an assumption: TLC says that it is false.

| predicate | instance | what happens |
|---|---|---|
| `AmbBus!SafeToQueue` | | a sender past the `dieNow` test appends after the flush and waits for ever (`CANBusInterface.cpp:90`) |
| `AmbBus!CommandIsReadBack` | | `syncCommand` reports its own payload as the readback when the bus refused it |
| `MonitorThread!StartedIsMonitored` | | the new thread reads `running_m` before `startMonitor` sets it, and exits |
| `Cartridges!OffIsOff` | `Port = {6}` | after STANDBY2 was left, turning band 6 off sends no command |
| `Cartridges!OnIsOn` | `Port = {1, 2}` | a refused power-on is overlooked because the monitor thread overwrote its status |
| `Cartridges!EnabledIsMonitored` | `Port = {2}` | a cartridge turned off and on again stays paused |
| `OptimizeWorker!DestructorStops` | `Slow = FALSE` | an object deleted just after `setFinished` is freed under its worker |
| `Sessions!ValidIsCreated` | two callers | of two threads that initialise at once one destroys the bus the other made |
| `Sessions!ValidIsConnected` | | `FELoadConfiguration` marks a front end valid that was shut down, if the configuration is empty (`lv_wrapper_FE.cpp:602`); what `lv_wrapper_FE.cpp:64` says of `FEValid` fails |
| `Cryostat!RetriesEnd` | | the retry counter of the valve loops is never decremented |
| `DevicePoints!KeptApart` | `SIGNAL_LASER_TEMP_MON` not in `Unprobed` | laser temperatures 3 and 4 are read from the register of laser 1 (`LORTMImplBase.cpp:280`, `:284`) |

The exceptions that properties make are of the same kind and stand in their
comments: the port with STANDBY2 in `PowerIsKnown`, a stopped `MixerDeflux` that
leaves the monitors paused in `MonitorsResumed`, two measurements that move the
same setting in `BiasRestored`, an ID handed to the wrong thread in
`RowsAreFiled` (`MySQLConnection.cpp:142`), magnet currents listed for a band
without magnets in `RecordedIsApplied`, `cartGetLocked`, `cartGetXYData`,
`FELoadConfiguration` and `sigSrcLoadConfiguration` in `CallsFindObjects`, and
there a front end that is valid and that nobody has open, a compressor whose session the front end holds in
`SessionIsServed`.

### Seen in the code and outside the properties

* `ambInterface.cpp:165`: once the bus object is gone a message is dropped
  without an answer. `ambInterface.cpp:106`: the last client destroys the static
  mutex that the next one uses.
* `lv_wrapper_FE.cpp:601`, `lv_wrapper_sigSrc.cpp:262` to `269`: a configuration
  that is loaded after the last shutdown is applied through a NULL pointer.
  `lv_wrapper_FE.cpp:251`, `lv_wrapper_sigSrc.cpp:146`: so is one when the ini
  file names no node (for the signal source: with `CAN_noTransmit`). The model
  has these ends of the process; no property forbids them.
* A pause is not counted (`FEHardwareDevice.cpp:56`): of two measurements the
  first to finish resumes the monitoring under the other. A valve that does not
  close is waited for without end, and a reading that fails counts as a closed
  valve (`CryostatPumping.cpp:99`, `:119`); `trust` keeps both out of the
  properties of `Cryostat`. A meter that is fast enough keeps a search draining
  its input (`Maximizer.cpp:522`).
* `FEMCEventQueue`: `destroyInstance` deletes the queue while a worker may be
  inside `addEvent`.
* `PowerModulesContainer.cpp:160`: `setStandby2` reports success whatever the
  status was. `FrontEndImpl.cpp:564`: a read of the IF switch that times out yields
  an observing band that is not real. `CartridgesContainer.cpp:104`: an assembly
  replaced at its port is not disabled first.
* `FrontEndImpl.cpp:549` resets the facility to 0, which `FEICDataBase.cpp:186`
  says means "any". `startHealthCheck` sets the EDFA to 1.9 V (line 251) before
  it looks at the cryostat's temperatures, and leaves it there when it refuses.
* `CartHealthCheck.cpp:43`: `prepare` overwrites the members of a running worker;
  the model has the host wait, as the user interface does.
* `WCAImplBase.cpp:401`: `paHasTeledyneChip` sends a command to the drain voltage
  (it has no caller). `FrontEndImplBase.cpp:141`: a mode is returned
  read at an address that is never initialised. `LOCK_ONLINE_2021JUL_B.cpp:97` discards a result.
* `adjustPLL`: its limit of 50 counts is not reached within its 50 retries.
  `LOCK_ONLINE_2021JUL_B.cpp:46`: one case gives `spanFreq` in Hz where the others
  have GHz, and the conversion at line 53 overflows `int`.
* `ThermalLogger.cpp:70`: `stop` waits five seconds for the file to close and
  then returns while the thread may still write to it.
* The acceptance tests have slips of their own: `lnaPol1Sb1St5` uses the offsets of
  LNA 4, `ctrllnaPol1Sb2St1DrainCurrent` the RCA of the voltage, the suites turn
  off the LNA of polarization 0 where they mean 1, `testGET_AUX_2` reads AUX 1,
  `unpackU32` multiplies by 0xFF.

## 6. What is not modelled, and why

* `findNodes`: runs before the other threads exist. The reference count of
  `AmbInterface` and the destructors of devices: planned.
* The tuning protocol of the laser reference (`LORTMImpl`): its registers are
  modelled, its sequence of phases is planned.
* Registers: the suites of bands 1 and 2 (six LNA stages numbered differently), of
  the supply, the CPDS and the FETIM; versions, serial numbers and modes of the
  FEMC module; the side effect of the LPR's shutter, the command to all
  attenuators at once, limits of the power amplifiers, scaling of readings.
* Sweeps: which points they visit, their files, the statistics. `MaximizeIFPower`'s
  phases over the two polarizations.
* Sockets, XML and NI-XNET: the same queue and worker over other transports that
  wait in the operating system; `FrontEndAMBDLL`: a second client of the bus.
* Configuration files, interpolation of tables, logging: no protocol state.
* Floating point: the searches use integer control values.
* Unpacking of results into the structures of LabVIEW.

## 7. Files

`<Module>.tla` the model with its properties; `<Module>.cfg` its run;
`MC<Module>.tla` the functions TLC needs where a `.cfg` cannot state them;
`<Module>Proofs.tla` the theorems of a module, but that `MonitoringProofs.tla` has
those of `MonitorThread` and `DevicePoints`, `MeasurementProofs.tla` of `Maximizer`
and `HealthCheck`, `PausedWorkProofs.tla` of `OptimizeWorker` and `LockSearch`,
`LibraryProofs.tla` of `EventQueue` and `Sessions`; `BusService.tla` and
`EventChannel.tla` the abstract specifications; `Calls.tla`, `Registers.tla` and `ICDTests.tla` the tables;
`PROJECT.json` components, runs, source map, mutants, hazards and theorems. An
operator with the comment "Mutant" is a plausible error in the code, which one
of the properties must notice.

    tlc -workers 2 -config AmbBus.cfg AmbBus
    tlapm AmbBusProofs.tla
