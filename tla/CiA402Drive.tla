---------------------------- MODULE CiA402Drive ----------------------------
(***************************************************************************)
(* One EcCiA402Drive plugin, the passes in which EcMaster calls it, and    *)
(* the CiA 402 drive at the other end of the bus.                          *)
(*                                                                         *)
(* The plugin is called once per mapped PDO channel in each pass           *)
(* (processData).  While the driver activates, one pass per cycle runs in  *)
(* EcMaster::update; afterwards each control cycle runs two, one in        *)
(* readData and one, after the controllers, in writeData.  Control and     *)
(* status words are sets of bit numbers, so `&' is \cap and `|' is \cup.   *)
(* The drive, the bus and the controllers are external: they are modelled  *)
(* from the CiA 402 tables the repository documents                        *)
(* (developer_guide/cia402_drive.rst) and from how the code uses them.     *)
(***************************************************************************)
EXTENDS Integers, Sequences

CONSTANTS
  Channels,                 \* PDO channels in configuration order
  NumMapped,                \* channels kept by the domain map (gaps come last)
  CommandInterfaces,        \* channels with a command interface, "reset_fault"
  CommandValues,            \* what a controller may write to each interface
  NaN,                      \* the not-a-number a command or default may be
  auto_fault_reset_,        \* configuration flags of the plugin
  auto_state_transitions_,
  DefaultControlWord,       \* configured default of channel 0x6040
  DefaultPosition,          \* configured default of channel 0x607A, or NaN
  ConfiguredMode,           \* mode_of_operation_ or the default of 0x6060
  PosFactor, PosOffset,     \* scaling of the target position channel
  ActFactor, ActOffset,     \* scaling of the actual position channel
  check_state_frequency_,   \* passes between two checks of the slave state
  StatusExtras,             \* status bits the state decoding ignores
  Positions,                \* encoder values
  MaxFaults, MaxLosses, MaxDrops, MaxPresses   \* bounds on the environment

Bits == 0..15

ChannelKinds ==
  {"controlword", "position", "mode", "statusword", "actual", "modedisplay", "other"}

NO_MODE == 0
MODE_CYCLIC_SYNC_POSITION == 8

ASSUME ChannelAssumption ==
  /\ Channels \in Seq(ChannelKinds)
  /\ NumMapped \in 1..Len(Channels)
  /\ CommandInterfaces \subseteq {"controlword", "position", "mode", "reset_fault"}

ASSUME ValueAssumption ==
  /\ NaN \notin Int
  /\ \A word \in SUBSET Bits : NaN # word
  /\ CommandValues.controlword \subseteq SUBSET Bits
  /\ CommandValues.position \subseteq Int
  /\ CommandValues.mode \subseteq Int
  /\ CommandValues.reset_fault \subseteq {0, 1}
  /\ Positions \subseteq Int
  /\ Positions # {}
  /\ StatusExtras \subseteq SUBSET ({4} \cup 7..15)
  /\ StatusExtras # {}

ASSUME ConfigAssumption ==
  /\ auto_fault_reset_ \in BOOLEAN
  /\ auto_state_transitions_ \in BOOLEAN
  /\ DefaultControlWord \in SUBSET Bits
  /\ 7 \notin DefaultControlWord
  /\ DefaultPosition \in Int \cup {NaN}
  /\ ConfiguredMode \in Int
  /\ PosFactor \in Int /\ PosOffset \in Int
  /\ ActFactor \in Int /\ ActOffset \in Int
  /\ check_state_frequency_ \in Nat \ {0}

ASSUME BoundAssumption ==
  /\ MaxFaults \in Nat /\ MaxLosses \in Nat /\ MaxDrops \in Nat
  /\ MaxPresses \in Nat

VARIABLES
  \* members of EcCiA402Drive and of its channels
  is_operational_, state_, last_state_, status_word_, last_status_word_,
  initialized_, fault_reset_, last_fault_reset_command_,
  mode_of_operation_display_, last_position_,
  default_value,            \* of the control word and target position channels
  override_command,         \* of the target position channel
  \* EcMaster and EthercatDriver, as far as this drive sees them
  image,                    \* process data of the domain
  update_counter_,          \* modulo check_state_frequency_
  activated_,
  pass, next,               \* the pass being run, the channel it is at
  command,                  \* the command interfaces
  \* the bus and the drive
  bus, reply, al_op, drive, budget,
  \* history, read by properties only
  presses, resets

pluginVars == <<is_operational_, state_, last_state_, status_word_, last_status_word_,
                initialized_, fault_reset_, last_fault_reset_command_,
                mode_of_operation_display_, last_position_, default_value,
                override_command>>
masterVars == <<image, update_counter_, activated_, pass, next>>
busVars == <<bus, reply, al_op, drive, budget>>
historyVars == <<presses, resets>>
vars == <<pluginVars, masterVars, command, busVars, historyVars>>

-----------------------------------------------------------------------------
(***************************************************************************)
(* The CiA 402 words                                                       *)
(***************************************************************************)

DriveStates == {"NOT_READY", "SWITCH_ON_DISABLED", "READY_TO_SWITCH_ON", "SWITCH_ON",
                "OPERATION_ENABLED", "QUICK_STOP", "FAULT_REACTION", "FAULT"}

DeviceStates == DriveStates \cup {"START", "UNDEFINED"}

\* What deviceState makes of a status word.
deviceState(word) ==
  LET low == word \cap {0, 1, 2, 3, 6}
      mid == word \cap {0, 1, 2, 3, 5, 6}
  IN  CASE low = {}             -> "NOT_READY"
        [] low = {6}            -> "SWITCH_ON_DISABLED"
        [] mid = {0, 5}         -> "READY_TO_SWITCH_ON"
        [] mid = {0, 1, 5}      -> "SWITCH_ON"
        [] mid = {0, 1, 2, 5}   -> "OPERATION_ENABLED"
        [] mid = {0, 1, 2}      -> "QUICK_STOP"
        [] low = {0, 1, 2, 3}   -> "FAULT_REACTION"
        [] low = {3}            -> "FAULT"
        [] OTHER                -> "UNDEFINED"

\* Variants of transition, each with one slip: it enables operation straight
\* from READY_TO_SWITCH_ON; it masks an enabled drive's word like a ready one's;
\* it forgets the step from SWITCH_ON; it never sets the reset bit.
TransitionSkippingSwitchOn(state, word, reset) ==
  CASE state = "SWITCH_ON_DISABLED"           -> (word \cap 1..6) \cup {1, 2}
    [] state \in {"READY_TO_SWITCH_ON", "SWITCH_ON", "QUICK_STOP"} -> (word \cap 0..6) \cup 0..3
    [] state = "FAULT" /\ reset               -> (word \cap 0..7) \cup {7}
    [] OTHER                                  -> word

TransitionDisablingOperation(state, word, reset) ==
  CASE state = "SWITCH_ON_DISABLED"           -> (word \cap 1..6) \cup {1, 2}
    [] state \in {"READY_TO_SWITCH_ON", "OPERATION_ENABLED"} ->
         (word \cap {0, 1, 2, 4, 5, 6}) \cup {0, 1, 2}
    [] state \in {"SWITCH_ON", "QUICK_STOP"}  -> (word \cap 0..6) \cup 0..3
    [] state = "FAULT" /\ reset               -> (word \cap 0..7) \cup {7}
    [] OTHER                                  -> word

TransitionStoppingAtSwitchOn(state, word, reset) ==
  CASE state = "SWITCH_ON_DISABLED"           -> (word \cap 1..6) \cup {1, 2}
    [] state = "READY_TO_SWITCH_ON"           -> (word \cap {0, 1, 2, 4, 5, 6}) \cup {0, 1, 2}
    [] state = "FAULT" /\ reset               -> (word \cap 0..7) \cup {7}
    [] OTHER                                  -> word

TransitionWithoutReset(state, word, reset) ==
  CASE state = "SWITCH_ON_DISABLED"           -> (word \cap 1..6) \cup {1, 2}
    [] state = "READY_TO_SWITCH_ON"           -> (word \cap {0, 1, 2, 4, 5, 6}) \cup {0, 1, 2}
    [] state \in {"SWITCH_ON", "QUICK_STOP"}  -> (word \cap 0..6) \cup 0..3
    [] OTHER                                  -> word

\* The control word transition returns; reset tells whether it may reset a fault.
transition(state, word, reset) ==
  CASE state = "SWITCH_ON_DISABLED"           -> (word \cap 1..6) \cup {1, 2}
    [] state = "READY_TO_SWITCH_ON"           -> (word \cap {0, 1, 2, 4, 5, 6}) \cup {0, 1, 2}
    [] state \in {"SWITCH_ON", "QUICK_STOP"}  -> (word \cap 0..6) \cup 0..3
    [] state = "FAULT" /\ reset               -> (word \cap 0..7) \cup {7}
    [] OTHER                                  -> word

\* The status word a drive in a state reports, up to the bits nobody decodes.
StatusBits(state) ==
  CASE state = "NOT_READY"          -> {}
    [] state = "SWITCH_ON_DISABLED" -> {6}
    [] state = "READY_TO_SWITCH_ON" -> {0, 5}
    [] state = "SWITCH_ON"          -> {0, 1, 5}
    [] state = "OPERATION_ENABLED"  -> {0, 1, 2, 5}
    [] state = "QUICK_STOP"         -> {0, 1, 2}
    [] state = "FAULT_REACTION"     -> {0, 1, 2, 3}
    [] OTHER                        -> {3}

\* The command a control word is.
Command(word) ==
  CASE 7 \in word                       -> "fault_reset"
    [] 7 \notin word /\ 1 \notin word   -> "disable_voltage"
    [] 7 \notin word /\ 1 \in word /\ 2 \notin word -> "quick_stop"
    [] 7 \notin word /\ {1, 2} \subseteq word /\ 0 \notin word -> "shutdown"
    [] 7 \notin word /\ 0..2 \subseteq word /\ 3 \notin word -> "switch_on"
    [] OTHER                            -> "enable_operation"

\* Where a command takes a drive that is in no fault.
Obey(state, cmd) ==
  CASE state = "SWITCH_ON_DISABLED" /\ cmd = "shutdown" -> "READY_TO_SWITCH_ON"
    [] state = "READY_TO_SWITCH_ON" /\ cmd = "switch_on" -> "SWITCH_ON"
    [] state = "READY_TO_SWITCH_ON" /\ cmd = "enable_operation" -> "OPERATION_ENABLED"
    [] state = "SWITCH_ON" /\ cmd = "enable_operation" -> "OPERATION_ENABLED"
    [] state \in {"SWITCH_ON", "OPERATION_ENABLED"} /\ cmd = "shutdown" -> "READY_TO_SWITCH_ON"
    [] state = "OPERATION_ENABLED" /\ cmd = "switch_on" -> "SWITCH_ON"
    [] state = "OPERATION_ENABLED" /\ cmd = "quick_stop" -> "QUICK_STOP"
    [] state = "QUICK_STOP" /\ cmd = "enable_operation" -> "OPERATION_ENABLED"
    [] state \in {"READY_TO_SWITCH_ON", "SWITCH_ON"} /\ cmd \in {"disable_voltage", "quick_stop"}
         -> "SWITCH_ON_DISABLED"
    [] state \in {"OPERATION_ENABLED", "QUICK_STOP"} /\ cmd = "disable_voltage"
         -> "SWITCH_ON_DISABLED"
    [] OTHER -> state

-----------------------------------------------------------------------------
(***************************************************************************)
(* Initial state                                                           *)
(***************************************************************************)

PluginInit ==
  /\ is_operational_ = FALSE
  /\ state_ = "START" /\ last_state_ = "START"
  /\ status_word_ = {} /\ last_status_word_ = Bits
  /\ initialized_ = FALSE
  /\ fault_reset_ = FALSE /\ last_fault_reset_command_ = FALSE
  /\ mode_of_operation_display_ = NO_MODE
  /\ last_position_ = NaN
  /\ default_value = [controlword |-> DefaultControlWord, position |-> DefaultPosition]
  /\ override_command = FALSE

MasterInit ==
  /\ image = [controlword |-> {}, position |-> 0, mode |-> NO_MODE,
              statusword |-> {}, actual |-> 0, modedisplay |-> NO_MODE]
  /\ update_counter_ = 0
  /\ activated_ = FALSE
  /\ pass = "idle" /\ next = 1
  /\ command = [controlword |-> NaN, position |-> NaN, mode |-> NaN, reset_fault |-> NaN]

\* A drive whose power stage is off: it has just booted, or reports a fault.
BusInit ==
  /\ bus = "none"
  /\ reply = [statusword |-> {}, actual |-> 0, modedisplay |-> NO_MODE]
  /\ al_op = FALSE
  /\ \E s \in {"NOT_READY", "SWITCH_ON_DISABLED", "FAULT"}, p \in Positions :
       drive = [state |-> s, word |-> {}, cause |-> FALSE, mode |-> NO_MODE, position |-> p]
  /\ budget = [faults |-> MaxFaults, losses |-> MaxLosses, drops |-> MaxDrops]

Init ==
  /\ PluginInit
  /\ MasterInit
  /\ BusInit
  /\ presses = 0 /\ resets = 0

-----------------------------------------------------------------------------
(***************************************************************************)
(* Beginning of a pass that receives: update while activating, read after  *)
(***************************************************************************)

\* ecrt_master_receive and ecrt_domain_process: a frame that came back
\* refreshes the inputs, otherwise the image keeps the old ones.
ReceiveFrame ==
  /\ bus \in {"none", "reply"}
  /\ bus' = "none"
  /\ image' = IF bus = "reply"
                THEN [image EXCEPT !.statusword = reply.statusword,
                                   !.actual = reply.actual,
                                   !.modedisplay = reply.modedisplay]
                ELSE image

\* Every check_state_frequency_ passes the plugin learns the slave's state.
CheckSlaveStates ==
  /\ is_operational_' = IF update_counter_ = 0 THEN al_op ELSE is_operational_
  /\ update_counter_' = (update_counter_ + 1) % check_state_frequency_

BeginPass(kind) ==
  /\ pass = "idle"
  /\ ReceiveFrame
  /\ CheckSlaveStates
  /\ pass' = kind
  /\ UNCHANGED <<state_, last_state_, status_word_, last_status_word_, initialized_,
                 fault_reset_, last_fault_reset_command_, mode_of_operation_display_,
                 last_position_, default_value, override_command, activated_, next,
                 command, reply, al_op, drive, budget, historyVars>>

BeginUpdate == ~activated_ /\ BeginPass("update")
BeginRead == activated_ /\ BeginPass("read")

-----------------------------------------------------------------------------
(***************************************************************************)
(* processData, one step per mapped channel                                *)
(***************************************************************************)

\* A variant of Advance that counts one channel too many.
AdvancePastEnd ==
  IF next <= NumMapped
    THEN next' = next + 1 /\ pass' = pass
    ELSE next' = 1 /\ pass' = IF pass = "read" THEN "control" ELSE "send"

\* The channel list is walked to the end of the domain map, then the pass ends.
Advance ==
  IF next < NumMapped
    THEN next' = next + 1 /\ pass' = pass
    ELSE next' = 1 /\ pass' = IF pass = "read" THEN "control" ELSE "send"

\* A variant of CheckStateChange that decodes the status word of the last pass.
CheckOldStatusWord ==
  IF next = Len(Channels)
    THEN /\ state_' = IF status_word_' # last_status_word_
                        THEN deviceState(last_status_word_) ELSE state_
         /\ initialized_' = (state_' = "OPERATION_ENABLED" /\ last_state_ = "OPERATION_ENABLED")
         /\ last_status_word_' = status_word_'
         /\ last_state_' = state_'
    ELSE UNCHANGED <<state_, initialized_, last_status_word_, last_state_>>

\* On the last channel of the configuration the device state is evaluated.
CheckStateChange ==
  IF next = Len(Channels)
    THEN /\ state_' = IF status_word_' # last_status_word_
                        THEN deviceState(status_word_') ELSE state_
         /\ initialized_' = (state_' = "OPERATION_ENABLED" /\ last_state_ = "OPERATION_ENABLED")
         /\ last_status_word_' = status_word_'
         /\ last_state_' = state_'
    ELSE UNCHANGED <<state_, initialized_, last_status_word_, last_state_>>

At(channel) ==
  /\ pass \in {"update", "read", "write"}
  /\ Channels[next] = channel

EndOfChannel ==
  /\ CheckStateChange
  /\ Advance
  /\ UNCHANGED <<is_operational_, update_counter_, activated_, command, busVars, historyVars>>

\* ec_update of an output channel: the command unless it is NaN or overridden,
\* else the default unless that is NaN, else what the image holds.
Output(channel, scaled, override, default) ==
  IF channel \in CommandInterfaces /\ command[channel] # NaN /\ ~override
    THEN scaled
    ELSE IF default # NaN THEN default ELSE image[channel]

HasReset == "reset_fault" \in CommandInterfaces

\* The reset_fault interface went from 0 to 1 since it was last looked at.
ResetEdge == HasReset /\ ~last_fault_reset_command_ /\ command.reset_fault = 1

\* A variant of LatchAfter that keeps the latch.
LatchKept(request) == request

\* fault_reset_ once transition has been called with a request latched or not:
\* transition takes the request when it finds the drive in FAULT.
LatchAfter(request) == request /\ ~(auto_state_transitions_ /\ state_ = "FAULT")

ProcessControlWord ==
  /\ At("controlword")
  /\ LET request == fault_reset_ \/ ResetEdge
         reset   == auto_fault_reset_ \/ request
     IN  IF is_operational_
           THEN /\ last_fault_reset_command_' =
                     (ResetEdge \/ (last_fault_reset_command_
                                      /\ ~(HasReset /\ command.reset_fault = 0)))
                /\ fault_reset_' = LatchAfter(request)
                /\ default_value' =
                     IF auto_state_transitions_
                       THEN [default_value EXCEPT !.controlword =
                               transition(state_, image.controlword, reset)]
                       ELSE default_value
           ELSE UNCHANGED <<last_fault_reset_command_, fault_reset_, default_value>>
  /\ image' = [image EXCEPT !.controlword =
                 Output("controlword", command.controlword, FALSE, default_value'.controlword)]
  /\ UNCHANGED <<status_word_, mode_of_operation_display_, last_position_, override_command>>
  /\ EndOfChannel

\* A variant of OverridesCommand that overrides only while no mode is reported.
OverridesInNoMode(mode) == mode = NO_MODE

\* The command is overridden in every mode but cyclic synchronous position.
OverridesCommand(mode) == mode # MODE_CYCLIC_SYNC_POSITION

\* The position to hold, in the units of the target position channel.
HoldPosition(position) ==
  IF position = NaN THEN NaN ELSE PosFactor * position + PosOffset

ProcessPosition ==
  /\ At("position")
  /\ default_value' =
       IF mode_of_operation_display_ # NO_MODE
         THEN [default_value EXCEPT !.position = HoldPosition(last_position_)]
         ELSE default_value
  /\ override_command' = OverridesCommand(mode_of_operation_display_)
  /\ image' = [image EXCEPT !.position =
                 Output("position", PosFactor * command.position + PosOffset,
                        override_command', default_value'.position)]
  /\ UNCHANGED <<status_word_, fault_reset_, last_fault_reset_command_,
                 mode_of_operation_display_, last_position_>>
  /\ EndOfChannel

ProcessMode ==
  /\ At("mode")
  /\ image' = [image EXCEPT !.mode = Output("mode", command.mode, FALSE, ConfiguredMode)]
  /\ UNCHANGED <<status_word_, fault_reset_, last_fault_reset_command_, default_value,
                 mode_of_operation_display_, last_position_, override_command>>
  /\ EndOfChannel

ProcessStatusWord ==
  /\ At("statusword")
  /\ status_word_' = image.statusword
  /\ UNCHANGED <<fault_reset_, last_fault_reset_command_, default_value, image,
                 mode_of_operation_display_, last_position_, override_command>>
  /\ EndOfChannel

ProcessActual ==
  /\ At("actual")
  /\ last_position_' = ActFactor * image.actual + ActOffset
  /\ UNCHANGED <<status_word_, fault_reset_, last_fault_reset_command_, default_value, image,
                 mode_of_operation_display_, override_command>>
  /\ EndOfChannel

ProcessModeDisplay ==
  /\ At("modedisplay")
  /\ mode_of_operation_display_' = image.modedisplay
  /\ UNCHANGED <<status_word_, fault_reset_, last_fault_reset_command_, default_value, image,
                 last_position_, override_command>>
  /\ EndOfChannel

\* Velocity, torque and vendor channels: their data is not modelled.
ProcessOther ==
  /\ At("other")
  /\ UNCHANGED <<status_word_, fault_reset_, last_fault_reset_command_, default_value, image,
                 mode_of_operation_display_, last_position_, override_command>>
  /\ EndOfChannel

ProcessData ==
  \/ ProcessControlWord
  \/ ProcessPosition
  \/ ProcessMode
  \/ ProcessStatusWord
  \/ ProcessActual
  \/ ProcessModeDisplay
  \/ ProcessOther

-----------------------------------------------------------------------------
(***************************************************************************)
(* Between the passes: the controllers, write, and sending the frame       *)
(***************************************************************************)

\* The controllers write any of their command interfaces, or leave them; a
\* press of reset_fault is a step of it from another value to 1.
Controllers ==
  /\ pass = "control"
  /\ \E c \in [controlword : {command.controlword, NaN} \cup CommandValues.controlword,
               position    : {command.position, NaN} \cup CommandValues.position,
               mode        : {command.mode, NaN} \cup CommandValues.mode,
               reset_fault : {command.reset_fault, NaN} \cup CommandValues.reset_fault] :
       /\ \A k \in DOMAIN c \ CommandInterfaces : c[k] = command[k]
       /\ command' = c
       /\ IF c.reset_fault = 1 /\ command.reset_fault # 1
            THEN /\ presses < MaxPresses
                 /\ presses' = presses + 1
            ELSE UNCHANGED presses
  /\ pass' = "command"
  /\ UNCHANGED <<pluginVars, image, update_counter_, activated_, next, busVars, resets>>

\* write() stores 0.0 over every command that is not finite, then runs its pass.
BeginWrite ==
  /\ pass = "command"
  /\ command' = [k \in DOMAIN command |->
                   IF command[k] # NaN THEN command[k]
                   ELSE IF k = "controlword" THEN {} ELSE 0]
  /\ pass' = "write"
  /\ UNCHANGED <<pluginVars, image, update_counter_, activated_, next, busVars, historyVars>>

\* initialized() as on_activate reaches it, through a pointer to EcSlave: the
\* plugin's own function of that name is const and does not override it.
EcSlaveInitialized == TRUE

\* The end of update and of writeData.  on_activate polls initialized() after
\* each update and activates once it holds.
Send ==
  /\ pass = "send"
  /\ bus' = "sent"
  /\ pass' = "idle"
  /\ activated_' = (activated_ \/ EcSlaveInitialized)
  /\ UNCHANGED <<pluginVars, image, update_counter_, next, command, reply, al_op, drive,
                 budget, historyVars>>

-----------------------------------------------------------------------------
(***************************************************************************)
(* The bus and the drive                                                   *)
(***************************************************************************)

\* A fault reset is a rising edge of bit 7, and needs the cause to be gone.
Resets(d, word) == d.state = "FAULT" /\ 7 \in word /\ 7 \notin d.word /\ ~d.cause

NextDriveState(d, word) ==
  IF d.state \in {"FAULT", "FAULT_REACTION"}
    THEN IF Resets(d, word) THEN "SWITCH_ON_DISABLED" ELSE d.state
    ELSE Obey(d.state, Command(word))

\* The frame reaches the drive, which takes the outputs if it is operational
\* and returns its inputs.
Exchange ==
  /\ bus = "sent"
  /\ bus' = "reply"
  /\ \E mode \in {drive.mode, image.mode} :
       drive' = IF al_op
                  THEN [drive EXCEPT !.state = NextDriveState(drive, image.controlword),
                                     !.word = image.controlword,
                                     !.mode = mode]
                  ELSE drive
  /\ resets' = IF al_op /\ Resets(drive, image.controlword) THEN resets + 1 ELSE resets
  /\ \E extra \in StatusExtras :
       reply' = [statusword |-> StatusBits(drive'.state) \cup extra,
                 actual |-> drive.position, modedisplay |-> drive'.mode]
  /\ UNCHANGED <<pluginVars, masterVars, command, al_op, budget, presses>>

\* The frame is lost on its way to the drive or on its way back.
LoseFrame ==
  /\ bus \in {"sent", "reply"}
  /\ budget.losses > 0
  /\ bus' = "none"
  /\ budget' = [budget EXCEPT !.losses = @ - 1]
  /\ UNCHANGED <<pluginVars, masterVars, command, reply, al_op, drive, historyVars>>

Drive(d) ==
  /\ drive' = d
  /\ UNCHANGED <<pluginVars, masterVars, command, bus, reply, presses, resets>>

Boot ==
  /\ drive.state = "NOT_READY"
  /\ Drive([drive EXCEPT !.state = "SWITCH_ON_DISABLED"])
  /\ UNCHANGED <<al_op, budget>>

FaultOccurs ==
  /\ drive.state \notin {"FAULT", "FAULT_REACTION"}
  /\ budget.faults > 0
  /\ budget' = [budget EXCEPT !.faults = @ - 1]
  /\ Drive([drive EXCEPT !.state = "FAULT_REACTION", !.cause = TRUE])
  /\ UNCHANGED al_op

FaultReactionEnds ==
  /\ drive.state = "FAULT_REACTION"
  /\ Drive([drive EXCEPT !.state = "FAULT"])
  /\ UNCHANGED <<al_op, budget>>

CauseClears ==
  /\ drive.cause
  /\ Drive([drive EXCEPT !.cause = FALSE])
  /\ UNCHANGED <<al_op, budget>>

\* A local signal (a limit switch) stops an enabled drive.
QuickStopSignal ==
  /\ drive.state = "OPERATION_ENABLED"
  /\ budget.faults > 0
  /\ budget' = [budget EXCEPT !.faults = @ - 1]
  /\ Drive([drive EXCEPT !.state = "QUICK_STOP"])
  /\ UNCHANGED al_op

Move ==
  /\ \E p \in Positions \ {drive.position} : Drive([drive EXCEPT !.position = p])
  /\ UNCHANGED <<al_op, budget>>

\* The slave leaves and reaches the EtherCAT state OP; losing it while the
\* power stage is on is a fault of the drive.
AlDown ==
  /\ al_op
  /\ budget.drops > 0
  /\ al_op' = FALSE
  /\ budget' = [budget EXCEPT !.drops = @ - 1]
  /\ IF drive.state \in {"OPERATION_ENABLED", "QUICK_STOP"}
       THEN Drive([drive EXCEPT !.state = "FAULT_REACTION"])
       ELSE Drive(drive)

AlUp ==
  /\ ~al_op
  /\ al_op' = TRUE
  /\ Drive(drive)
  /\ UNCHANGED budget

-----------------------------------------------------------------------------

DriverStep ==
  \/ BeginUpdate
  \/ BeginRead
  \/ ProcessData
  \/ Controllers
  \/ BeginWrite
  \/ Send

DriveStep ==
  \/ Boot
  \/ FaultReactionEnds
  \/ CauseClears
  \/ FaultOccurs
  \/ QuickStopSignal
  \/ Move
  \/ AlDown
  \/ AlUp

Next == DriverStep \/ Exchange \/ LoseFrame \/ DriveStep

Spec == Init /\ [][Next]_vars

\* The control loop runs periodically in a real-time thread, the bus carries
\* each frame unless it is lost, and the drive completes what it has begun.
Fairness ==
  /\ WF_vars(DriverStep)
  /\ WF_vars(Exchange)
  /\ WF_vars(Boot)
  /\ WF_vars(FaultReactionEnds)
  /\ WF_vars(CauseClears)
  /\ WF_vars(AlUp)

FairSpec == Spec /\ Fairness

-----------------------------------------------------------------------------
(***************************************************************************)
(* Types                                                                   *)
(***************************************************************************)

Word == SUBSET Bits
IntOrNaN == Int \cup {NaN}

PluginTypeOK ==
  /\ is_operational_ \in BOOLEAN
  /\ state_ \in DeviceStates /\ last_state_ \in DeviceStates
  /\ status_word_ \in Word /\ last_status_word_ \in Word
  /\ initialized_ \in BOOLEAN
  /\ fault_reset_ \in BOOLEAN /\ last_fault_reset_command_ \in BOOLEAN
  /\ mode_of_operation_display_ \in Int
  /\ last_position_ \in IntOrNaN
  /\ default_value \in [controlword : Word, position : IntOrNaN]
  /\ override_command \in BOOLEAN

MasterTypeOK ==
  /\ image \in [controlword : Word, position : Int, mode : Int,
                statusword : Word, actual : Int, modedisplay : Int]
  /\ update_counter_ \in 0..(check_state_frequency_ - 1)
  /\ activated_ \in BOOLEAN
  /\ pass \in {"idle", "update", "read", "control", "command", "write", "send"}
  /\ next \in 1..NumMapped
  /\ command \in [controlword : {NaN} \cup Word, position : IntOrNaN, mode : IntOrNaN,
                  reset_fault : {0, 1, NaN}]

BusTypeOK ==
  /\ bus \in {"none", "sent", "reply"}
  /\ reply \in [statusword : Word, actual : Int, modedisplay : Int]
  /\ al_op \in BOOLEAN
  /\ drive \in [state : DriveStates, word : Word, cause : BOOLEAN, mode : Int, position : Int]
  /\ budget \in [faults : Nat, losses : Nat, drops : Nat]

\* Every variable has its type: the plugin's members, the process data, the
\* command interfaces, the bus and the drive.
TypeOK ==
  /\ PluginTypeOK
  /\ MasterTypeOK
  /\ BusTypeOK
  /\ presses \in Nat /\ resets \in Nat

-----------------------------------------------------------------------------
(***************************************************************************)
(* Properties                                                              *)
(***************************************************************************)

\* Faults are left to the operator, who has no other way to drive bit 7.
ManualReset == ~auto_fault_reset_ /\ "controlword" \notin CommandInterfaces

\* The fault_reset_ latch, the bit it puts into the control word and the edge
\* detection around them never multiply a command: without auto_fault_reset
\* the drive is not reset more often than reset_fault was pressed, whatever
\* is lost on the bus and however often a pass sees the same press.
ResetsNeverExceedPresses == ManualReset => resets <= presses

\* Once a drive is enabled, no control word the plugin sends, computed as it
\* is from a stale device state, takes it out of operation again: only a
\* fault, a local signal or the loss of the slave does.
DriverNeverDisables ==
  [][(bus = "sent" /\ bus' = "reply" /\ drive.state = "OPERATION_ENABLED")
       => drive'.state = "OPERATION_ENABLED"]_vars

\* A drive is never in operation behind the plugin's back: while the power
\* stage is on, the state the plugin holds is the one it enabled from or a
\* later one, never one from before the enabling sequence.
EnabledOnlyKnowingly ==
  drive.state = "OPERATION_ENABLED"
    => state_ \in {"SWITCH_ON", "OPERATION_ENABLED", "QUICK_STOP"}

\* The pass has just ended.
PassDone == pass \in {"control", "send"}

\* When a pass ends the device state is the one of the status word in the
\* process data: the shortcut for an unchanged status word loses no change.
StateIsCurrent ==
  PassDone => state_ = deviceState(image.statusword)

\* While the drive reports a mode other than cyclic position, every frame of
\* the control loop carries the position measured in the same cycle as the
\* target, so that entering position mode finds no distance to cover.
HoldsOutsideCsp ==
  (activated_ /\ bus = "sent" /\ image.modedisplay \notin {NO_MODE, MODE_CYCLIC_SYNC_POSITION})
    => image.position = PosFactor * (ActFactor * image.actual + ActOffset) + PosOffset

\* A drive that does not stay faulted is brought into operation and left
\* there, however frames are lost and whenever the slave reaches OP.
EventuallyEnabled ==
  <>[](drive.state \notin {"FAULT", "FAULT_REACTION"})
     => <>[](drive.state = "OPERATION_ENABLED")

\* With auto_fault_reset the first attempt at a fault whose cause is gone
\* succeeds: the bit is raised, reaches the drive and resets it.
FirstResetSucceeds ==
  (auto_fault_reset_ /\ drive.state = "FAULT" /\ ~drive.cause
     /\ 7 \notin drive.word /\ 7 \notin image.controlword)
    ~> (drive.state # "FAULT")

\* What the documentation says of auto_fault_reset: a fault whose cause is
\* gone is reset.
FaultsAreReset ==
  (drive.state = "FAULT" /\ ~drive.cause) ~> (drive.state # "FAULT")

\* What the comment on initialized says, and what on_activate waits for: the
\* driver is active once the drive has reached operation enabled.
ActivatedMeansEnabled == [][(~activated_ /\ activated_') => initialized_]_vars
=============================================================================
