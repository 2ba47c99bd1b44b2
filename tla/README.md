# Verification of the rover's EtherCAT driver, velocity relay and map saver

This directory holds TLA+ models of the program logic of the rover workspace,
the TLC runs that check them on small instances, and proofs, checked by TLAPS,
of the theorems that hold for every instance. Paths below are relative to the
workspace's `src/` directory (`src/src/` from the root of the repository).

## The system

The rover is driven by six SIMCO servo drives on an EtherCAT bus. Velocity
commands take this way:

    Nav2 --/cmd_vel--> nav2_cmd_vel_relay --> diff drive controller (ros2_control)
       --> EthercatDriver::write --> EcMaster::writeData --> EcSlave::processData
       --> process data --> EtherCAT frame --> drive

and states come back through `EthercatDriver::read`. The components:

| Component | Source | State | Operations | Module |
|---|---|---|---|---|
| CiA 402 drive plugin `EcCiA402Drive` | `ethercat_generic_cia402_drive` | device state, last status word, fault reset latch, mode display, last position, defaults of its channels | `processData` per channel and pass, `setupSlave` | `CiA402Drive` |
| `EthercatDriver` (ros2_control system) | `ethercat_driver.cpp` | `ec_mutex_`, `activated_`, command and state vectors | `on_init`, `on_activate`, `on_deactivate`, `read`, `write` | `EthercatDriver`, `ProcessData` |
| `EcMaster` | `ec_master.{hpp,cpp}` | slaves, domain entries and registrations, `update_counter_` | `addSlave`, `configSlaveSdo`, `activate`, `update`, `readData`, `writeData` | `EthercatDriver`, `ProcessData`, `CiA402Drive` |
| `EcPdoChannelManager` | `ec_pdo_channel_manager.hpp` | a channel: object, type, mask, factor, offset, default, interface index | `load_from_config`, `ec_update`, `ec_read`, `ec_write` | `ProcessData`, `PdoTypes` |
| `GenericEcSlave` | `ethercat_generic_slave` | channels, PDOs, sync managers, domain map | `setupSlave` and what it calls, `processData` | `ProcessData` |
| SDO and sync manager configuration | `ec_sdo_manager.hpp`, `ec_sync_manager.hpp` | one configured SDO, one sync manager | `load_from_config`, `buffer_write` | `ProcessData` |
| velocity relay | `nav2_cmd_vel_relay.py` | `last_cmd_time`, `zero_sent` | `on_cmd_vel`, `on_timer` | `CmdVelRelay` |
| SDO services | `ethercat_manager` | none between requests; in one, the buffer and the device | `upload`, `download`, data conversion | `SdoServer` |
| map saver | `map_saver_watchdog.py` | two timers, the save that runs | `_on_initial_timer`, `_save_map` | `MapSaver` |
| launch file of the navigation | `navigation.launch.py` | which nodes are started | conditions on arguments, staged start by delays | `NavigationLaunch` |

`PROJECT.json` lists also the parts that are data, generated or documentation.

### How the parts interact, and what is hard about it

* **Two threads share the master.** Lifecycle transitions run in the service
  thread and hold `ec_mutex_` throughout, including a startup loop of up to 500
  cycles. The real-time thread calls `read`, the controllers and `write` in
  turn, and skips a handler whose `try_lock` fails or that finds the driver not
  activated. Each handler locks separately, so a transition may come between.
* **Two passes per cycle.** `readData` and `writeData` both run `processData`
  over every channel, inputs and outputs: a command is looked at twice, and the
  state vector is rewritten by `writeData` from the old inputs.
* **A value crosses five indirections** between an interface and a bit of the
  frame: the index of the interface, the channel in the file, the registration
  of those channels that are no gap (`domain_map_`), the entry of the master, and
  the byte address the master hands out, with a mask where several channels
  share a byte. Each is a loop with a counter of its own, in another class.
* **The drive's state machine runs on stale words.** The control word channel
  comes before the status word in a pass, so `transition` sees the state of the
  pass before; a frame is lost now and then; the slave leaves OP; and the reset
  bit is computed from the control word that was sent before.
* **Signs are inverted in two layers**, in place, by the driver
  (`invert_velocity`) and by the plugin (right side wheels).
* **The relay's watchdog** is a timer next to a queue of commands in one
  executor.
* **The map saver blocks its only thread.** While a save runs no timer is served,
  and the kill at its timeout reaches `ros2` but not the `map_saver_cli` that
  `ros2` started, which may go on writing beside the next save.
* **The launch file splits one decision over many conditions**: whether a map is
  made or used decides about `slam_toolbox`, `map_server`, `amcl`, the map saver and
  the list of the lifecycle manager, each with a condition of its own.

`PROJECT.json` lists the hazards with the line where each bites and the
properties aimed at it, or why there is none.

## Modules

### CiA402Drive

One plugin, the passes it is called in, and the drive. State: the plugin's
members under their names; `image`, the process data; `command`, the command
interfaces; `pass` and `next`, where the control loop is; `bus` and `reply`, the
frame under way; `drive` and `al_op`, the drive and its EtherCAT state. Words are
sets of bit numbers, so the masks of `deviceState` and `transition` are
intersections.

One action per step of the loop: `BeginUpdate` (before activation) and
`BeginRead` receive and poll the slave state, `ProcessControlWord` ... `ProcessOther` are
`processData` on a channel of each kind, `Controllers` is the controllers'
update, `BeginWrite` filters the commands and starts the second pass, `Send`
ends it. `CheckStateChange` runs within the step of the last configured channel,
as in the code. The drive answers in `Exchange`; `LoseFrame`, `FaultOccurs`,
`AlDown`, `QuickStopSignal` are bounded; `Boot`, `FaultReactionEnds`,
`CauseClears`, `Move`, `AlUp` are free. The drive is the state machine tabulated in
`developer_guide/cia402_drive.rst`; it keeps the last control word, since a fault
reset is a rising edge, and obeys nothing unless its slave is in OP.

History variables: `presses` and `resets` count rising edges of `reset_fault` and
successful resets.

Left out: velocity and torque data (channels of kind `other`), `counter_`, and the
console output. The configuration code is that of the generic slave, in
`ProcessData`; here the channel list, flags, scalings and defaults are CONSTANTS. A
channel list may end in gaps (`NumMapped`).

### EthercatDriver

The driver, its master and modules of one joint each, run by two threads.
`service` is the program counter of the service thread (`at` and `cycle` are its
loop counters), `rt` that of the real-time thread, `ec_mutex_` the mutex.
`CallActivate` and `CallDeactivate` are the framework, `Lock` the `lock_guard`,
`AddSlave`, `ConfigSlaveSdo`, `Activate`, `StartupCycle` the phases of
`on_activate` with their early returns, `NoDomain` the exception out of
`domain_info_.at`, `Deactivate` the rest of `on_deactivate`, `Complete` the
framework again: a transition in error finalizes the component, since the driver
has no `on_error`. An exception that leaves `on_activate` is taken to end the
process (`terminated`); a framework that catches it finalizes the component,
which for this model is the same: nothing is called afterwards. `EnterRead` and
`EnterWrite` are the `try_lock` and the test of `activated_`, `Read` and `Write`
the bodies, each an atomic step since they hold the mutex. The controllers write
without it; in the model they do so in one step between the handlers.

Each call of the IgH master that may fail does so nondeterministically within
the bound `MaxFailures`. `LearnReady` is a plugin that overrides `initialized()`,
which today none of the repository's does (see the findings): the driver's own
logic is checked for such plugins too.

Left out: the integrated joint position, sensors and GPIOs (their way into the
frame is in `ProcessData`), the frames' timing, and parameters' parsing, except
that it may fail (`ParameterInvalid`).

History variables: `downloaded` (modules whose SDOs this activation downloaded),
`unreceived` (frames sent since the last receive), `mismatch` (passes since a
watched slave and its module disagree), `asked` (what the controllers wrote last),
`turned` (an odd number of writes inverted it since), `sent` (the modules that were
registered in the last write and whose commands have not been rewritten since),
`fresh` (the states are those of a read: in the one cycle between the startup loop
and the first read they are those of `update`, which `read` has not inverted yet).

`write` inverts in place, so the command of an inverted joint that its controller
leaves unwritten alternates from one write to the next. `CommandsCarried` says so:
the process data carries what was asked for, turned around as often as `write` turned
it and by nothing else, until it is asked for anew. A command whose own `write` was
skipped and that a startup loop sends next is outside `sent`: it leaves without the
joint's inversion, since only `write` inverts.

### PdoTypes, SlaveObjects, ProcessData

From the hardware description to the bits of a frame. `PdoTypes` has the numbers:
data types, two's complement, what a `static_cast` keeps, a double as a multiple
of 1/`Resolution` or NaN. A byte is the set of its bits that are one.

`ProcessData` follows the code from `on_init` to the control loop. `Init` picks a
description from `Setups`. `SetupModule` is one round of the loop of `on_init` with the
whole of `setupSlave`: the channels of both PDO lists, gaps and the `domain_map_`
around them, the PDOs with pointers into the channel array, the sync managers,
the interface indices; a missing tag of an `ec_module` throws out of `on_init`, a
plugin that cannot be set up is its error. `AddSlave` is
`EcMaster::addSlave` with `registerPDOInDomain` (a slave the master refuses registers
nothing, and the driver goes on), `ConfigSlaveSdo` one SDO and `NextSlaveSdos` the end of
a module's list, `Activate` the rest of `on_activate`. `Receive`, `ProcessData`, `NextEntry` and
`Send` are a pass: one `ProcessData` step per registration, one `NextEntry` per slave.
`at` is the counter of the outer loop at hand and `inner` that of the loop in it.
`Controllers` and `Write` are what lies between the passes; the controllers write any of
the interfaces, or none. `ec_read` and
`ec_write` read and write whole bytes under a mask as the code does, with the
undefined conversion of a double that the type does not have as any bits.

The IgH master is external: it lays out the entries it was told of one after the
other, each direction of a slave from a byte of its own on, and hands out byte
addresses for the registrations. That the master's layout is a byte address and
the channels know only masks is why a `WellFormed` description has what the
documentation asks for: two entries share a byte only if each has a mask of its
own bits, a wide entry begins at a byte, and no two inputs feed one interface.
These are conditions on the descriptions (`SetupsAssumption`), not on the code; with
the types of a configuration's fields they stand at the end of the module.

`SlaveObjects` is what the driver promises: objects and named interfaces, and now
and then one object takes the command of its interface (or its default), or one
interface shows its object. There are no bytes, registrations or indices in it.
`ObjectsExchanged` says that `ProcessData` implements it, where an object is the bits
the *description* gives it (`Declared`), computed without the driver's own tables.

`SlaveObjects` looks at the interfaces as the plugins find them. What the controllers
meant is the history `given`, and `FrameCarriesCommands` compares the frame with that
(`Intended`): the number a controller wrote last, through every cycle in which it writes
nothing; for a joint without one the zero `write` makes of its NaN, from the first
`write` on; and only for what `write` does not touch (no joint, no interface, a startup
frame) the default of the channel.

Left out: the joints' inversion and position, and the failures of the master
except for those a description brings about, which are in `EthercatDriver`; how
YAML text becomes a value (a channel's or SDO's index, sub-index and type are taken
as well-formed where they are there at all); factors that are no whole
numbers; sensors, which read as GPIOs do without commands.

### MapSaver and NavigationLaunch

`MapSaver` is the node of `map_saver_watchdog.py`. `Construct` is the constructor with its
early return for an empty path, `_on_initial_timer` and `OnPeriodicTimer` the callbacks
up to the start of the process, `SaveCompleted`, `SaveFailed`, `TimeoutExpired` and
`NodeEnds` the ways `_save_map` ends. The node has one thread, so the end of the
save is the end of the callback, and `_on_initial_timer` creates the periodic timer
only then. A timer counts down below zero while it is overdue; when it is called,
the next call is where rcl puts it: a period later, or at the first multiple of
the period that is not past. `map_saver_cli` writes the image, then the YAML file;
one that is left behind by a timeout (`orphans`) may do so at any time, or end.
History: `since` (seconds since the last save began), `initial` (it was that of the initial
timer) and `lasted` (how long the last save took).

`NavigationLaunch` is `navigation.launch.py` with the map saver in it. `Execute` evaluates
the conditions as `IfCondition` does: true, 1, false and 0 in any case, and everything
else is an error that ends the launch; the map saver's own condition is text in an
expression, for which only "true" is true. `StartNode` is a `TimerAction` that is due;
`StartMapSaver` passes the arguments to the node's constructor; `Tick` is a second.
Delays are whole seconds: the 0.1 s of `map_server` and the least initial delay of
the map saver count as one. The file writes the nodes of a mode down twice, once as names
for the lifecycle manager (`mapping_nodes`, `localization_nodes`) and once as timers
(`_navigation_nodes`, `localization_timers`, `_lifecycle_manager`); the model keeps both apart,
and `ManagerComesLast` compares what the timers have started with the list of the mode.

Left out: `use_rviz` and `start_robot_bringup`, which start nodes that no other condition
looks at.

### CmdVelRelay and SafeVelocity

The relay's two callbacks, with Python's `min` and `max` modelled by what they do
to a NaN, and time counted in periods of the 50 ms timer. `SafeVelocity` is what
the relay promises: only safe commands, and none but rest in force for longer
than the timeout and one period without a new one. `CmdVelRelay` instantiates it
with a refinement mapping (the age of the last command becomes the silence) and
checks and proves `SafeVelocityHeld`.

Two assumptions: a callback of the timer runs within its period, and Nav2's
queueing delay is not counted, as the code does not count it: `last_cmd_time` is
the time of the callback, not of the message. The clock runs evenly; a system clock
that is set meanwhile is not modelled.

### SdoServer

The services `get_sdo` and `set_sdo`, with one action for each way a handler returns,
each with the `delete[]` and the destructor of `EcMasterAsync` (`Free`, `CloseDevice`) of its own
path, so that a path that forgets one would show. `Serve` is a handler up to the lookup of
the type, `Encode` the conversion `data2buffer` with what each type accepts, and
`ValueRefused` and `ConversionThrows` its two exceptions; `Open` opens the device,
`VersionMatches` goes on, `UploadNotOpened` and `DownloadNotOpened` are a device that does not
open or is of another version; `Download`, `Upload`, `DownloadTransferFails`,
`UploadTransferFails` and `AbortUnknown` are the call of the kernel module; `SizeDiffers`
and `Convert` end an upload, the latter with `buffer2data`. An exception that nothing
catches (a type `data2buffer` does not convert) or an abort code that is not in the
table is the `End` of the node. `download` also catches a `SizeException`, which
`data2buffer` never throws there: its buffer is as long as the text.

One object stands for the slave's dictionary: it refuses a download of
another size, and may change by itself (`SlaveChanges`).

Numbers are integers, and a byte has `ByteBits` bits, so that the instance
checked has int8 from -4 to 3 and an int64 of 24 bits; the code's literal limits
(127, 0xff) become those of `ByteBits`. `ToDouble` rounds as a double does, to
`DoubleBits` bits. What a stream extraction accepts is modelled for the types it
is used with: an unsigned one takes a negative number and wraps it. The bytes of
a float are an arbitrary function of the number, and are reported as they are,
as in the code. `data2buffer` writes the size of the type into a buffer of the
length of the text; the model takes the write to succeed, as it does when the
allocator hands out at least eight bytes.

History variables: `set` (what a client has set and nothing has changed since),
`seen` (the same when the object was uploaded), `exchanged` (the request reached
the slave).

### How they compose

Three modules look at the same passes from three sides. `CiA402Drive` has one
drive with its state machine, without a second thread; `EthercatDriver` has the
threads and the failures, with modules that only carry a velocity; `ProcessData`
has any configuration down to the bits, without threads. The seams are checked:

* the sequence of passes (`update` until activation, then read, controllers,
  write) that `CiA402Drive` and `ProcessData` assume is what `EthercatDriver` produces,
  except that it may skip one of a pair, which `SendsAreReceived` bounds and
  `CommandsCarried` shows to do no harm to a command;
* that a channel's value reaches its own object and no other, which both
  `CiA402Drive` (whose `image` is by name of the channel) and `EthercatDriver` (whose
  inputs and outputs are by module) take for granted, is `ObjectsExchanged`.

`NavigationLaunch` EXTENDS `MapSaver`; every step of it is a step of the map saver or
none to it. `SdoServer` shares only the bus with the driver, through the kernel
module: `SlaveChanges` stands for the driver's own `configSlaveSdo`. `CmdVelRelay` ends
where the commands of `EthercatDriver` begin, at the controller.

## Runs

`MC*.tla` only give names to the constants' values.

| Run | Instance | Shows | Distinct states |
|---|---|---|---|
| `reset` | rover layout, manual reset, 2 faults, 1 lost frame, 1 loss of OP, 2 presses | types; resets never exceed presses; never enabled unknown to the plugin; the decoded state is current; the driver never disables | 1.56 million |
| `enable` | the same with automatic reset | a drive is brought into operation and left there; the first reset succeeds | 257 thousand |
| `position` | six channels, scaled by -1 with an offset, two positions, two modes, 1 lost frame | the hold position outside cyclic position mode | 844 thousand |
| `threads` | 2 modules, one that has to become ready, 2 activations, 2 failing calls, 3 startup cycles | exclusion, SDOs before frames, frames received, state polling in time, transitions return, frames keep flowing | 280 thousand |
| `signs` | 2 modules, one right side wheel and one inverted joint, commands 1 or NaN, written in a cycle or not | the sign of every command, however often it is sent, and of its feedback | 494 thousand |
| `slave` | 8 descriptions of a wheel and a digital output, bytes of 2 bits | what the controllers gave, states and SDOs reach their own object only; a sound description comes to run | 29 thousand |
| `watchdog` | speeds -5, 1, infinite (9) and NaN, timeout 2 periods, queue of 2 | limits, refinement of the watchdog, rest after silence | 33 thousand |
| `sdo` | thirteen types, numbers at the edges of one, two and eight bytes and of a double, objects of 1, 2, 4 and 8 bytes | what was set is what is read, out of range numbers are refused, every return gives back buffer and device, success only after an exchange | 80 thousand |
| `mapping` | 4 x 2 values of the conditions, two paths, periods 0 and 3, timeout 2, 1 orphan | saves come in time and for ever, one source of the map, the manager comes last and knows all it manages | 82 thousand |
| `auto_reset`, `activation`, `not_finite` | the smallest instance that shows it | the findings below | |

Why the bounds are enough:

* Drive: two faults let the second one meet what the first one left behind (a
  latch, a reset bit); a lost frame and a loss of OP in any place cover every
  alignment of stale words with the state machine, whose memory is one pass; two
  presses let one be early.
* Driver: two activations meet everything the first session left; two modules let
  one succeed where the other fails, and two failing calls leave the master
  without any domain. A state check every 2 passes instead of 10 keeps what
  matters, that it is not in every pass (`signs` checks in every pass, it does not
  depend on it).
* Process data: a byte of two bits is the smallest that several channels can
  share, so one-byte, two-byte, boolean and bit field channels all meet the
  borders of bytes and masks; the wheel has a gap in front of its velocity (the
  domain map differs from the identity), a channel nobody commands, a factor and an
  offset; the digital output has masks that share a byte, inputs named before
  outputs, and two PDOs; a variant has outputs that are nothing but gaps, so that a
  direction with entries has no bytes in the domain. The other six descriptions are
  the ways such a configuration goes wrong: a slave the master refuses before one it takes, a
  missing tag, a plugin without a usable `slave_config`, a PDO list that no sync
  manager carries, an SDO of the wrong size, one of a type without a size.
* Map saver: a period of 3 is longer than the timeout of 2 and one of 0 (which
  counts as 1) shorter, so saves fit into the period or outlast it; with one orphan
  a save can run beside another process, and the node is seen to go on.

Counters of faults, losses, drops, presses, activations and failures are bounded
in the guards of the actions that spend them, never by a constraint, so liveness
is checked on complete behaviours.

`EthercatDriver`, `SdoServer`, `ProcessData` and `NavigationLaunch` are checked without
deadlock detection: a finalized component is not called any more, with no
activation left nothing need happen, an exception ends the SDO node, a description
that cannot be set up ends the driver, and a launch file whose condition is an
error ends the launch.

### Fairness

* `CiA402Drive`: weak fairness on the control loop as a whole (a periodic real-time
  thread), on the frame exchange, and on what the drive does by itself (boot, end
  of a fault reaction, the cause of a fault going away, reaching OP again). None
  on faults, losses, presses or commands.
* `EthercatDriver`: weak fairness on the service thread and on the real-time
  thread; strong fairness on `Lock`. The real-time thread takes the mutex again and
  again, so a blocked `lock_guard` is not continuously enabled; but it sleeps for
  most of each period with the mutex free, so the blocked thread gets it. No
  fairness on `CallActivate`: an operator need not.
* `ProcessData`: weak fairness on its one step, a set-up that runs to its end and a
  control loop that is periodic.
* `NavigationLaunch`: weak fairness on the launch system (`Execute`, `StartNode`), on the start of
  the map saver's process, on time, and on `Serve`: the thread serves a timer that is
  due, and `subprocess.run` keeps its timeout. How a save ends is left open, and
  nothing makes `map_saver_cli` write or return: the timeout has to do it.
* `SdoServer`: none; it has safety properties only.
* `CmdVelRelay`: weak fairness on both callbacks (one executor, no callback blocks) and
  on time. None on Nav2.

## Findings

1. **Automatic reset works once per edge** (`auto_reset`). The reset bit is ORed into
   the control word read back and stays set; if the drive refused the first edge
   because the cause persisted, there is no second.
2. **Activation waits for nothing** (`activation`). `EcCiA402Drive::initialized() const`
   hides `EcSlave::initialized()` instead of overriding it.
3. **NaN becomes full speed** (`not_finite`). The relay clamps before it tests for
   finite values, and `max(low, min(high, nan))` is `high`.

The rover's configuration (the SIMCO drives' YAML, `simco_ros2_control.xacro`) sets
`auto_fault_reset` and commands velocities: all three apply to it as it is.

Contradicting a document too, and visible in the models, but without a run of
their own:

* A press of `reset_fault` while there is no fault is kept in `fault_reset_` and resets a
  later fault; `config_cia402_drive.rst:26` speaks of a reset on the rising edge of
  the command (`CiA402Drive!ProcessControlWord` keeps the latch as the code does; the
  bound of `ResetsNeverExceedPresses` holds all the same).
* `EthercatDriver::write` turns NaN into 0.0 before `ec_update` tests for NaN, so a default,
  and the last read position with it, is not sent for an interface that exists.
  `config_cia402_drive.rst:36` promises it in all modes. The plugin's own override
  holds outside cyclic position mode (`HoldsOutsideCsp`); in that mode nothing does.
* The same zero reaches a joint on a generic slave: `config_generic_slave.rst:79` has the
  default sent when the command is NaN. `FrameCarriesCommands` states what the code does
  (`Intended`, in `slave`), which is the default only where `write` has no joint to look at.
* `config_generic_slave.rst:47` names `bool` and `bitN` among the types of an SDO; for both
  `data_size` is 0, the buffer is empty, and the activation fails (one of the
  descriptions of `slave`).

Seen, contradicting no document, and so modelled as the code does it:

* A second `on_activate` registers every module again with an active master.
* `ec_write` with a mask of several bits clears the rest of the byte, where one with a
  single bit keeps it. `WellFormed` therefore gives such a field a byte of its own.
* `processData` of the CiA 402 plugin indexes its channels without `domain_map_`, against
  its base class. It makes no difference while gaps come last, as they do in the
  rover's files.
* `map_save_period` given as a whole number is not the `double` the node declares.
* Mapping mode without `auto_save_map` makes a map that nobody saves. With it, a
  `map_saver_cli` that outlives its timeout may tear the files of a later save, so that
  the image is of one map and the YAML file of another. The model has that
  interleaving; no property excludes it, because the code does not, and no document
  promises it.
* A command whose `write` is skipped for the mutex and that the startup loop of an
  activation sends next is sent with the sign of the plugin only; and a command of an inverted
  joint that is not rewritten in every cycle alternates.
* An unsigned SDO type accepts a negative number; the number reported for a float
  is its bit pattern.

## Theorems

Proved for every value of the constants that satisfies the modules' named
assumptions; TLC evaluates those on every run.

### CiA402DriveProofs

* `TypeCorrect`: the type invariant. One lemma per group of actions.
* `NoResetWithoutPress`: `[]ResetsNeverExceedPresses`. The bare
  statement is not inductive: a press travels through the latch, the control word
  default, the process data and the drive before it resets. `ResetInv`
  strengthens it: resets already done, plus the press latched in `fault_reset_`,
  plus a command that no pass has looked at yet, plus the reset bit on its way to
  a drive that has not seen it, never exceed the presses (`PressesAccounted`), and
  the default of the control word holds every reset bit of the process data
  (`DefaultHoldsBit`), so that a bit once raised yields no second edge.
  `TransitionRaisesBit` and `ControlWordAccounts` are the heart. The argument covers any
  number of faults, losses and presses. It assumes manual reset and no controller
  on the control word (`ManualReset`), and a configured default without bit 7.
* `StateFollowsStatusWord`: `[]StateIsCurrent`, for any order of the channels, if the
  status word and the last channel are mapped (`StatusWordMapped`: the state is checked
  with the last channel of the configuration). `StateInv`: from the first walk on
  `state_` decodes `last_status_word_`, and a channel that was passed has copied its
  word. It starts from a word with all bits set, which no drive reports.
* `TargetFollowsPosition`: `[]HoldsOutsideCsp`, for any order of the channels and any
  scaling, if target, position and mode are mapped (`PositionMapped`). `HoldInv`: what
  the pass of `read` has copied is that of the frame, and the pass of `write` runs over
  the same inputs. Both rest on `WalkInv`: no frame arrives during a pass.
* `EnabledKnowingly`: `[]EnabledOnlyKnowingly`, and `NeverDisabled`: `DriverNeverDisables`, for any
  order of the channels, configured default, faults, lost frames and losses of OP. They
  assume that the status word and the last channel are mapped (`StatusWordMapped`) and that
  no controller writes the control word (`WordIsThePlugins`).
* Neither is inductive: the plugin acts on a state that is up to a frame old, and
  the drive on a word that is older still. `EnableInv` says how far the three may be
  apart. Between resets a drive only goes forward (`Stage`), and the plugin, with the
  reply on its way, is behind it (`Behind`); a fault the plugin sees persists, or was
  reset by a bit that is still high (`FaultSeen`); an edge of that bit is on its way
  only while the plugin sees the fault (`EdgeKnown`), so that no late edge resets a drive
  unseen; and in each state of the enabling sequence the word is no step ahead of
  the drive and none behind it (`WordFits`). TLC confirmed `EnableInv` on the instances of
  the drive's runs before it was proved.

### EthercatDriverProofs

One inductive invariant, `DriverInv`, for any number of modules, any joints and
bounds. Its parts, each needed because the property after it is not inductive
alone:

* `MutexHeld` and `ActivatedWhen` (who holds `ec_mutex_`, and in which states of the
  transitions the driver is activated, with a domain) give `ThreadsExclude`
  (`[]PassesAreExclusive`).
* `DownloadedSoFar` (the loop counter's share of the SDOs) gives `SdosBeforeFrames`.
* `FramesOutstanding` (a second unreceived frame means that `read` comes next, or the
  driver is being deactivated) gives `FramesBounded`.
* `ToldWhatWasSeen` and `PassesSinceCheck` (a plugin that was registered several times knows
  the best of its watched entries; a disagreement is younger than
  `update_counter_`) give `ChangesLearned`.
* `OnlyInverted`, `CommandsPending`, `CommandsHeld` and `StatesFresh` (the command vector is
  what the controllers asked for, turned around as often as `write` did, and only for
  inverted joints; the process data is in step with it from a `write` on; the states
  are the inputs' after a `read`) give `CommandsReachSlaves` and `SignsCancel`, whatever the
  joint's inversion and side and however many cycles pass without a new command.

### ProcessData: DataFacts, ProcessDataMapping, ProcessDataProofs

For every set of well-formed descriptions, width of a byte and resolution of a
double (`UnitAssumption`, `SetupsAssumption`): any number of modules, PDOs, channels, gaps
and SDOs.

What such a description becomes is sums and enumerations over lists, and the
library's induction theorems take an operator, which the provers cannot
instantiate. `DataFacts` states them with sets and functions instead, `Induction` for
a set of numbers and `Recursion` for a function that a step function defines, and
proves both from the least element of a set of numbers. From them come the facts
the model's operators rest on: `TotalAdds`, `TotalGrows` (offsets in a list),
`IncreasingEnumerates` (the loop that skips gaps reaches every channel that is none, once
and in order), `FlattenSizes` (PDOs cut a list into pieces that make it up),
`PatternStandsFor` and `NumberOfPattern` (two's complement there and back, at any width),
`EntriesFollow`, `EntryByte` and `RegionsApart` (entries, bytes and directions do not overlap),
and `ObjectsApart`: no two objects of a description share a bit of the process data.

`ProcessDataMapping!MappingHolds` is the inductive invariant `IInv` (TLC confirmed it over
the states of `slave` first), one lemma per action. Its parts:

* `CountersInv`: where the two loop counters may be in each phase.
* `PluginsInv`: the plugins set up so far are those of the description.
* `SlavesInv`: a slave maps the lists its sync managers carry, or nothing if it was
  refused, so entries and modules are not numbered alike.
* `EntriesInv` and `RegsInv`: the entries are the slaves that were not refused, and
  `domain_regs` is their registrations in order with exactly one terminating element
  at the end, which the next `registerPDOInDomain` overwrites.
* `AddressesInv`: after `activate` each registration has the byte address the description
  gives its object, and the slaves write no bit of an output.

`AddSlaveKeeps` (the index arithmetic around the terminator) and `ActivateKeeps` (`AddressDeclared`:
the layout computed from what was *registered* is the one computed from the file)
are the long ones. On it rest, in `ProcessDataProofs`:

* `TypeHolds`: `[]TypeOK`. `ValuesInv` adds that interfaces hold numbers or NaN.
* `ExchangesObjects`: `Spec => ObjectsExchanged`, the refinement of `SlaveObjects`. `ProcessDataEffect` says
  what a call of `processData` does to the declared bits: it reads or writes those of
  its object, and by `OthersKept` and `ObjectsApart` no other's, though the whole byte is
  written. `OutputRefines`, `InputRefines`, `ReceiveRefines`, `ControllersRefine` and `WriteRefines` map
  each step to `TakeCommand`, `ShowState`, `Measure`, `Control` and `Rest`; all others stutter.
* `FramesCarryCommands` and `StatesAreCurrent`. `GivenHolds` (its invariant is `GivenInv`) relates
  the interface vectors to what the controllers gave: they are equal, but for the NaN
  of a joint, which is 0 in a pass of `write`; `IntendedIsWanted` concludes that what a frame
  should carry is what the plugins find. The bare statements hold at the end of a pass
  only; `FreshInv` says for each registration the loop has passed that its object or
  interface is up to date, and `FreshKept` that the calls after it leave it so. For
  the states it is the assumption that no two inputs feed one interface that makes
  it true (`OneFeeds`).
* `SdosAreApplied`: `[]SdosApplied`. `SdosInv` says that the objects have the values of those SDOs
  that were downloaded so far, later ones over earlier ones.
* `SoundSetupsGoOn`: a description with the properties `Sound` lists never ends in an
  error. It is the safety half of `SoundSetupsRun`; the other half is fairness.

### SDO services, relay, map saver and launch

* `SdoServerProofs!HandlersReleaseEverything` and `SuccessIsHonest`: from `HandlerInv`,
  what holds between the steps of a handler (where the buffer is allocated, the
  device is open exactly from `Open` to a return, an unfinished request has no
  success); `StepKeeps` has a step for each return.
* `SdoServerProofs!SignedStaysInRange`: `[]OutOfRangeRefused`, for bytes of any width.
  `RangeInv` adds that a `set_sdo` under way carries an accepted value, and
  `AcceptedIsRepresented` that the limits written by hand for the one-byte types
  and those of the extraction for the wider ones leave no gap.
* `SdoServerProofs!ValueSurvives`: `[]GetReturnsWhatWasSet`, and `TypeCorrect`, for bytes and doubles
  of any width. `ValueInv` follows a value from the request that sets it through the
  object to the answer of the one that gets it; `RoundTrip` composes the conversions:
  `BytesKeepNumber` (the remainder modulo the width, and two's complement back) and
  `DoubleExact` (up to 2^`DoubleBits` no rounding). The provers know nothing of powers, so
  `DataFacts!PowerDoubles` and `PowerGrows` count the subsets of `1..n`, of which the library
  says that there are 2^n.
* `CmdVelRelayProofs!OutputWithinLimits`: the type invariant, in which the output is
  within the limits whatever comes in; rests on `ClampInRange`, which holds for NaN
  and infinities.
* `CmdVelRelayProofs!RelayImplementsWatchdog`: `SafeVelocityHeld` for a relay with
  `publish_zero_on_timeout`. The invariant `RelayInv` says that while the watchdog is
  disarmed the output is at rest, and that an overdue command means that the
  timer's callback is pending; `RelayStepRefines` maps every step to a step of
  `SafeVelocity` or a stutter.
* `NavigationLaunchProofs!SavesInTime`: `[]SavesComeInTime` for every delay, period, timeout and
  number of orphans. `TimersInStep` ties what is left of the periodic timer to the time
  since the last save began. `CallInPeriod` is the fact about rcl's multiple of the period.
* `NavigationLaunchProofs!TypeCorrect`, `MapHasOneSource` and `ManagerLast`, from the map
  saver's invariant, carried over by `StepOfSaver`, and `StartedInTime` and `SaverWithSlam`.

### Only model-checked

Every invariant and action property of the passing runs is a theorem, for the
instances the assumptions admit. Liveness under fairness is out of the prover's
reach: `EventuallyEnabled`, `FirstResetSucceeds`, `ActivationReturns`, `FramesKeepFlowing`, `SilenceEndsAtRest`,
`SavesGoOn` and `SoundSetupsRun` are shown by TLC alone, on the instances of their runs. Fairness
is stated with ENABLED, which the provers do not have.

## Plan

Done: the drive, the driver and its threads, the path from a description to the
bits of a frame, the relay, the SDO services, the map saver and the launch of the
navigation; an inductive invariant for each, and both refinements step by step.
Left, in this order:

1. What the liveness properties rest on that is safety: a bound on the startup
   cycles and on the passes until a transition returns, and that from each stage
   of the enabling sequence a received frame leads to the next one.
2. `EthercatDriver` composed with the drive of `CiA402Drive`, for the first frames of a
   session and for commands of the session before.
3. The odometry position.

## Not modelled

* `EcMaster::run`, its thread, signal handler and setters: nothing in the driver
  calls them. The distributed clocks are set once and not looked at again.
* The position integrated in `EthercatDriver::read` (`ethercat_driver.cpp:492-508`): the code
  has no reference it could be compared to.
* The launch files of `my_robot_bringup`: no condition of one depends on another's.
* Messages and services (generated), robot description, controller parameters and
  EtherCAT YAML files (data; constants of the models are taken from them),
  documentation and packaging.
* What an active IgH master makes of a second registration, and a torn read of a
  double shared between threads: neither is decided by this code.
