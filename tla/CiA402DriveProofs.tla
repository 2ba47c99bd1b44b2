------------------------- MODULE CiA402DriveProofs -------------------------
(***************************************************************************)
(* Proofs about CiA402Drive, for every channel layout, configuration and   *)
(* bound: the type invariant, that the reset latch never multiplies a      *)
(* press of reset_fault, that the device state is the one of the status    *)
(* word, that the target follows the position, and how far the plugin and  *)
(* the drive may be apart while it is enabled.                             *)
(***************************************************************************)
EXTENDS CiA402Drive, TLAPS

-----------------------------------------------------------------------------
(***************************************************************************)
(* Types                                                                   *)
(***************************************************************************)

\* A word that transition returns is a word, whatever the device state is.
LEMMA TransitionIsWord ==
  ASSUME NEW state, NEW word \in Word, NEW reset \in BOOLEAN
  PROVE  transition(state, word, reset) \in Word
  BY DEF transition, Word, Bits

\* deviceState decodes every status word to a device state.
LEMMA DeviceStateIsState ==
  ASSUME NEW word
  PROVE  deviceState(word) \in DeviceStates
  BY DEF deviceState, DeviceStates, DriveStates

\* Obeying a command keeps a drive in a drive state.
LEMMA ObeyIsState ==
  ASSUME NEW state \in DriveStates, NEW cmd
  PROVE  Obey(state, cmd) \in DriveStates
  BY DEF Obey, DriveStates

\* Walking the channels stays within the domain map.
LEMMA AdvanceType ==
  ASSUME pass \in {"update", "read", "write"}, next \in 1..NumMapped, Advance
  PROVE  /\ pass' \in {"update", "read", "write", "control", "send"}
         /\ next' \in 1..NumMapped
  BY ChannelAssumption DEF Advance

\* Decoding at the last channel keeps the types of the state members.
LEMMA CheckStateChangeType ==
  ASSUME TypeOK, CheckStateChange, status_word_' \in Word
  PROVE  /\ state_' \in DeviceStates /\ last_state_' \in DeviceStates
         /\ last_status_word_' \in Word /\ initialized_' \in BOOLEAN
  BY DeviceStateIsState DEF TypeOK, PluginTypeOK, CheckStateChange

\* What a channel's step shares: its own part, the decoding and the walk.
LEMMA EndOfChannelType ==
  ASSUME TypeOK, pass \in {"update", "read", "write"}, EndOfChannel,
         status_word_' \in Word, fault_reset_' \in BOOLEAN,
         last_fault_reset_command_' \in BOOLEAN,
         mode_of_operation_display_' \in Int, last_position_' \in IntOrNaN,
         default_value' \in [controlword : Word, position : IntOrNaN],
         override_command' \in BOOLEAN,
         image' \in [controlword : Word, position : Int, mode : Int,
                     statusword : Word, actual : Int, modedisplay : Int]
  PROVE  TypeOK'
<1>1. PluginTypeOK'
  BY CheckStateChangeType DEF EndOfChannel, TypeOK, PluginTypeOK
<1>2. MasterTypeOK'
  BY AdvanceType DEF EndOfChannel, TypeOK, MasterTypeOK
<1>3. BusTypeOK' /\ presses' \in Nat /\ resets' \in Nat
  BY DEF EndOfChannel, TypeOK, BusTypeOK, busVars, historyVars
<1>4. QED
  BY <1>1, <1>2, <1>3 DEF TypeOK

\* Each channel's step keeps every type.
LEMMA ProcessDataType ==
  ASSUME TypeOK, ProcessData
  PROVE  TypeOK'
<1> USE DEF TypeOK, PluginTypeOK, MasterTypeOK, At
<1>1. CASE ProcessControlWord
  <2>1. (auto_fault_reset_ \/ fault_reset_ \/ ResetEdge) \in BOOLEAN
    OBVIOUS
  <2>2. \A reset \in BOOLEAN : transition(state_, image.controlword, reset) \in Word
    BY TransitionIsWord
  <2>3. default_value' \in [controlword : Word, position : IntOrNaN]
    BY <1>1, <2>1, <2>2 DEF ProcessControlWord
  <2>4. command.controlword # NaN => command.controlword \in Word
    OBVIOUS
  <2>5. Output("controlword", command.controlword, FALSE, default_value'.controlword) \in Word
    BY <2>3, <2>4 DEF Output
  <2>6. image' \in [controlword : Word, position : Int, mode : Int,
                    statusword : Word, actual : Int, modedisplay : Int]
    BY <1>1, <2>5 DEF ProcessControlWord
  <2>7. fault_reset_' \in BOOLEAN /\ last_fault_reset_command_' \in BOOLEAN
    BY <1>1 DEF ProcessControlWord, LatchAfter
  <2>8. QED
    BY <1>1, <2>3, <2>6, <2>7, EndOfChannelType DEF ProcessControlWord
<1>2. CASE ProcessPosition
  <2>1. HoldPosition(last_position_) \in IntOrNaN
    BY ConfigAssumption DEF HoldPosition, IntOrNaN
  <2>2. default_value' \in [controlword : Word, position : IntOrNaN]
    BY <1>2, <2>1 DEF ProcessPosition
  <2>3. command.position # NaN => PosFactor * command.position + PosOffset \in Int
    BY ConfigAssumption DEF IntOrNaN
  <2>4. Output("position", PosFactor * command.position + PosOffset,
               override_command', default_value'.position) \in Int
    BY <2>2, <2>3 DEF Output, IntOrNaN
  <2>5. image' \in [controlword : Word, position : Int, mode : Int,
                    statusword : Word, actual : Int, modedisplay : Int]
    BY <1>2, <2>4 DEF ProcessPosition
  <2>6. override_command' \in BOOLEAN
    BY <1>2 DEF ProcessPosition, OverridesCommand
  <2>7. QED
    BY <1>2, <2>2, <2>5, <2>6, EndOfChannelType DEF ProcessPosition
<1>3. CASE ProcessMode
  <2>1. Output("mode", command.mode, FALSE, ConfiguredMode) \in Int
    BY ConfigAssumption DEF Output, IntOrNaN
  <2>2. image' \in [controlword : Word, position : Int, mode : Int,
                    statusword : Word, actual : Int, modedisplay : Int]
    BY <1>3, <2>1 DEF ProcessMode
  <2>3. QED
    BY <1>3, <2>2, EndOfChannelType DEF ProcessMode
<1>4. CASE ProcessStatusWord
  BY <1>4, EndOfChannelType DEF ProcessStatusWord
<1>5. CASE ProcessActual
  <2>1. last_position_' \in IntOrNaN
    BY <1>5, ConfigAssumption DEF ProcessActual, IntOrNaN
  <2>2. QED
    BY <1>5, <2>1, EndOfChannelType DEF ProcessActual
<1>6. CASE ProcessModeDisplay
  BY <1>6, EndOfChannelType DEF ProcessModeDisplay
<1>7. CASE ProcessOther
  BY <1>7, EndOfChannelType DEF ProcessOther
<1>8. QED
  BY <1>1, <1>2, <1>3, <1>4, <1>5, <1>6, <1>7 DEF ProcessData

\* Beginning a pass keeps every type.
LEMMA BeginPassType ==
  ASSUME TypeOK, NEW kind \in {"update", "read"}, BeginPass(kind)
  PROVE  TypeOK'
<1> USE DEF TypeOK, MasterTypeOK, BusTypeOK, BeginPass
<1>1. image' \in [controlword : Word, position : Int, mode : Int,
                  statusword : Word, actual : Int, modedisplay : Int]
      /\ bus' \in {"none", "sent", "reply"}
  BY DEF ReceiveFrame
<1>2. is_operational_' \in BOOLEAN
  BY DEF CheckSlaveStates, PluginTypeOK
<1>3. update_counter_' \in 0..(check_state_frequency_ - 1)
  <2>1. update_counter_ + 1 \in Nat /\ check_state_frequency_ \in Nat \ {0}
    BY ConfigAssumption
  <2>2. (update_counter_ + 1) % check_state_frequency_ \in 0..(check_state_frequency_ - 1)
    BY <2>1
  <2>3. QED
    BY <2>2 DEF CheckSlaveStates
<1>4. PluginTypeOK'
  BY <1>2 DEF PluginTypeOK
<1>5. MasterTypeOK'
  BY <1>1, <1>3
<1>6. BusTypeOK' /\ presses' \in Nat /\ resets' \in Nat
  BY <1>1 DEF historyVars
<1>7. QED
  BY <1>4, <1>5, <1>6

\* The controllers and write keep every type.
LEMMA CommandType ==
  ASSUME TypeOK, Controllers \/ BeginWrite
  PROVE  TypeOK'
<1> USE DEF TypeOK, MasterTypeOK
<1>1. CASE Controllers
  <2>1. command' \in [controlword : {NaN} \cup Word, position : IntOrNaN,
                      mode : IntOrNaN, reset_fault : {0, 1, NaN}]
    BY <1>1, ValueAssumption DEF Controllers, IntOrNaN, Word
  <2>2. presses' \in Nat
    <3>1. presses' \in {presses, presses + 1}
      BY <1>1, Zenon DEF Controllers
    <3>2. QED
      BY <3>1
  <2>3. PluginTypeOK'
    BY <1>1 DEF Controllers, PluginTypeOK, pluginVars
  <2>4. BusTypeOK' /\ resets' \in Nat
    BY <1>1 DEF Controllers, BusTypeOK, busVars
  <2>5. MasterTypeOK'
    BY <1>1, <2>1 DEF Controllers
  <2>6. QED
    BY <2>2, <2>3, <2>4, <2>5
<1>2. CASE BeginWrite
  <2>1. command' \in [controlword : {NaN} \cup Word, position : IntOrNaN,
                      mode : IntOrNaN, reset_fault : {0, 1, NaN}]
    BY <1>2 DEF BeginWrite, IntOrNaN, Word
  <2>2. PluginTypeOK'
    BY <1>2 DEF BeginWrite, PluginTypeOK, pluginVars
  <2>3. BusTypeOK' /\ resets' \in Nat /\ presses' \in Nat
    BY <1>2 DEF BeginWrite, BusTypeOK, busVars, historyVars
  <2>4. MasterTypeOK'
    BY <1>2, <2>1 DEF BeginWrite
  <2>5. QED
    BY <2>2, <2>3, <2>4
<1>3. QED
  BY <1>1, <1>2

\* Sending a frame, and what happens to it, keep every type.
LEMMA FrameType ==
  ASSUME TypeOK, Send \/ Exchange \/ LoseFrame
  PROVE  TypeOK'
<1> USE DEF TypeOK, BusTypeOK
<1>1. CASE Send
  BY <1>1 DEF Send, MasterTypeOK, PluginTypeOK, EcSlaveInitialized, pluginVars, historyVars
<1>2. CASE Exchange
  <2>1. NextDriveState(drive, image.controlword) \in DriveStates
    BY ObeyIsState DEF NextDriveState, DriveStates
  <2>2. drive' \in [state : DriveStates, word : Word, cause : BOOLEAN, mode : Int,
                    position : Int]
    BY <1>2, <2>1 DEF Exchange, MasterTypeOK
  <2>3. \A extra \in StatusExtras : StatusBits(drive'.state) \cup extra \in Word
    <3>1. StatusBits(drive'.state) \in Word
      BY DEF StatusBits, Word, Bits
    <3>2. \A extra \in StatusExtras : extra \in Word
      BY ValueAssumption DEF Word, Bits
    <3>3. QED
      BY <3>1, <3>2 DEF Word
  <2>4. reply' \in [statusword : Word, actual : Int, modedisplay : Int]
    <3>1. PICK extra \in StatusExtras :
            reply' = [statusword |-> StatusBits(drive'.state) \cup extra,
                      actual |-> drive.position, modedisplay |-> drive'.mode]
      BY <1>2 DEF Exchange
    <3>2. QED
      BY <2>2, <2>3, <3>1
  <2>5. PluginTypeOK' /\ MasterTypeOK'
    BY <1>2 DEF Exchange, PluginTypeOK, MasterTypeOK, pluginVars, masterVars
  <2>6. QED
    BY <1>2, <2>2, <2>4, <2>5 DEF Exchange
<1>3. CASE LoseFrame
  <2>1. PluginTypeOK' /\ MasterTypeOK'
    BY <1>3 DEF LoseFrame, PluginTypeOK, MasterTypeOK, pluginVars, masterVars
  <2>2. budget' \in [faults : Nat, losses : Nat, drops : Nat]
    BY <1>3 DEF LoseFrame
  <2>3. QED
    BY <1>3, <2>1, <2>2 DEF LoseFrame, historyVars
<1>4. QED
  BY <1>1, <1>2, <1>3

\* What the drive does on its own leaves the driver's side alone, and keeps
\* the word it obeyed last.
LEMMA DriveStepFrame ==
  ASSUME DriveStep
  PROVE  /\ UNCHANGED <<pluginVars, masterVars, command, bus, reply, presses, resets>>
         /\ drive' \in {drive} \cup {[drive EXCEPT !.state = s] : s \in DriveStates}
                         \cup {[drive EXCEPT !.state = "FAULT_REACTION", !.cause = TRUE],
                               [drive EXCEPT !.cause = FALSE]}
                         \cup {[drive EXCEPT !.position = p] : p \in Positions}
         /\ budget' \in {budget}
              \cup (IF budget.faults > 0 THEN {[budget EXCEPT !.faults = @ - 1]} ELSE {})
              \cup (IF budget.drops > 0 THEN {[budget EXCEPT !.drops = @ - 1]} ELSE {})
         /\ al_op' \in {al_op, TRUE, FALSE}
<1> USE DEF Drive, DriveStates
<1>1. CASE Boot
  BY <1>1 DEF Boot
<1>2. CASE FaultReactionEnds
  BY <1>2 DEF FaultReactionEnds
<1>3. CASE CauseClears
  BY <1>3 DEF CauseClears
<1>4. CASE FaultOccurs
  BY <1>4 DEF FaultOccurs
<1>5. CASE QuickStopSignal
  BY <1>5 DEF QuickStopSignal
<1>6. CASE Move
  BY <1>6 DEF Move
<1>7. CASE AlDown
  BY <1>7 DEF AlDown
<1>8. CASE AlUp
  BY <1>8 DEF AlUp
<1>9. QED
  BY <1>1, <1>2, <1>3, <1>4, <1>5, <1>6, <1>7, <1>8 DEF DriveStep

\* The drive's own steps keep every type.
LEMMA DriveStepType ==
  ASSUME TypeOK, DriveStep
  PROVE  TypeOK'
<1> USE DriveStepFrame DEF TypeOK
<1>1. PluginTypeOK' /\ MasterTypeOK'
  BY DEF PluginTypeOK, MasterTypeOK, pluginVars, masterVars
<1>2. drive' \in [state : DriveStates, word : Word, cause : BOOLEAN, mode : Int,
                  position : Int]
  <2>1. \A p \in Positions : p \in Int
    BY ValueAssumption
  <2>2. "FAULT_REACTION" \in DriveStates
    BY DEF DriveStates
  <2>3. CASE \E s \in DriveStates : drive' = [drive EXCEPT !.state = s]
    BY <2>3 DEF BusTypeOK
  <2>4. CASE drive' = [drive EXCEPT !.state = "FAULT_REACTION", !.cause = TRUE]
    BY <2>2, <2>4 DEF BusTypeOK
  <2>5. CASE drive' = [drive EXCEPT !.cause = FALSE]
    BY <2>5 DEF BusTypeOK
  <2>6. CASE \E p \in Positions : drive' = [drive EXCEPT !.position = p]
    BY <2>1, <2>6 DEF BusTypeOK
  <2>7. CASE drive' = drive
    BY <2>7 DEF BusTypeOK
  <2>8. QED
    BY <2>3, <2>4, <2>5, <2>6, <2>7, Zenon
<1>3. budget' \in [faults : Nat, losses : Nat, drops : Nat]
  BY DEF BusTypeOK
<1>4. BusTypeOK'
  BY <1>2, <1>3 DEF BusTypeOK
<1>5. QED
  BY <1>1, <1>4

\* Every variable keeps its type, for every layout of the process data, every
\* configuration of the plugin and every bound on faults and losses.
THEOREM TypeCorrect == Spec => []TypeOK
<1>1. Init => TypeOK
  <2> SUFFICES ASSUME Init PROVE TypeOK
    OBVIOUS
  <2>1. PluginTypeOK
    <3>1. DefaultControlWord \in Word /\ DefaultPosition \in IntOrNaN
      BY ConfigAssumption DEF Word, IntOrNaN
    <3>2. "START" \in DeviceStates /\ {} \in Word /\ Bits \in Word
      BY DEF DeviceStates, Word
    <3>3. NO_MODE \in Int /\ NaN \in IntOrNaN
      BY DEF NO_MODE, IntOrNaN
    <3>4. QED
      BY <3>1, <3>2, <3>3 DEF Init, PluginInit, PluginTypeOK
  <2>2. MasterTypeOK
    <3>1. 0 \in 0..(check_state_frequency_ - 1) /\ 1 \in 1..NumMapped
      BY ConfigAssumption, ChannelAssumption
    <3>2. {} \in Word
      BY DEF Word
    <3>3. image \in [controlword : Word, position : Int, mode : Int,
                     statusword : Word, actual : Int, modedisplay : Int]
      BY <3>2 DEF Init, MasterInit, NO_MODE
    <3>4. command \in [controlword : {NaN} \cup Word, position : IntOrNaN,
                       mode : IntOrNaN, reset_fault : {0, 1, NaN}]
      BY DEF Init, MasterInit, IntOrNaN
    <3>5. QED
      BY <3>1, <3>3, <3>4 DEF Init, MasterInit, MasterTypeOK
  <2>3. BusTypeOK
    <3>1. {} \in Word
      BY DEF Word
    <3>2. reply \in [statusword : Word, actual : Int, modedisplay : Int]
      BY <3>1 DEF Init, BusInit, NO_MODE
    <3>3. \A p \in Positions : p \in Int
      BY ValueAssumption
    <3>4. drive \in [state : DriveStates, word : Word, cause : BOOLEAN, mode : Int,
                     position : Int]
      BY <3>1, <3>3 DEF Init, BusInit, DriveStates, NO_MODE
    <3>5. QED
      BY <3>2, <3>4, BoundAssumption DEF Init, BusInit, BusTypeOK
  <2>4. QED
    BY <2>1, <2>2, <2>3 DEF Init, TypeOK
<1>2. TypeOK /\ [Next]_vars => TypeOK'
  <2> SUFFICES ASSUME TypeOK, [Next]_vars PROVE TypeOK'
    OBVIOUS
  <2>1. CASE BeginUpdate \/ BeginRead
    BY <2>1, BeginPassType DEF BeginUpdate, BeginRead
  <2>2. CASE ProcessData
    BY <2>2, ProcessDataType
  <2>3. CASE Controllers \/ BeginWrite
    BY <2>3, CommandType
  <2>4. CASE Send \/ Exchange \/ LoseFrame
    BY <2>4, FrameType
  <2>5. CASE DriveStep
    BY <2>5, DriveStepType
  <2>6. CASE UNCHANGED vars
    BY <2>6 DEF vars, pluginVars, masterVars, busVars, historyVars,
                TypeOK, PluginTypeOK, MasterTypeOK, BusTypeOK
  <2>7. QED
    BY <2>1, <2>2, <2>3, <2>4, <2>5, <2>6 DEF Next, DriverStep
<1>3. QED
  BY <1>1, <1>2, PTL DEF Spec

-----------------------------------------------------------------------------
(***************************************************************************)
(* The inductive invariant behind ResetsNeverExceedPresses: every press is *)
(* in one of four places.  It is still on the interface, it is latched, it *)
(* is the rising edge the control word holds and the drive has not seen,   *)
(* or it has been used up.                                                 *)
(***************************************************************************)

Pending == HasReset /\ command.reset_fault = 1 /\ ~last_fault_reset_command_

Raised == 7 \in image.controlword /\ 7 \notin drive.word

PressesAccounted ==
  resets + (IF Raised THEN 1 ELSE 0)
         + (IF fault_reset_ THEN 1 ELSE 0)
         + (IF Pending THEN 1 ELSE 0) <= presses

\* The default the plugin writes has the reset bit only if the word in the
\* process data has it: a pass that writes an old default raises no edge.
DefaultHoldsBit == 7 \in default_value.controlword => 7 \in image.controlword

ResetInv == ManualReset => (PressesAccounted /\ DefaultHoldsBit)

\* transition introduces the reset bit in FAULT only, when a reset is asked for.
LEMMA TransitionRaisesBit ==
  ASSUME NEW state, NEW word, NEW reset \in BOOLEAN,
         7 \in transition(state, word, reset), 7 \notin word
  PROVE  state = "FAULT" /\ reset
<1> USE DEF transition
<1>1. CASE state = "SWITCH_ON_DISABLED"
  BY <1>1
<1>2. CASE state = "READY_TO_SWITCH_ON"
  BY <1>2
<1>3. CASE state \in {"SWITCH_ON", "QUICK_STOP"}
  BY <1>3
<1>4. CASE state = "FAULT" /\ reset
  BY <1>4
<1>5. CASE /\ state \notin {"SWITCH_ON_DISABLED", "READY_TO_SWITCH_ON", "SWITCH_ON", "QUICK_STOP"}
           /\ ~(state = "FAULT" /\ reset)
  BY <1>5
<1>6. QED
  BY <1>1, <1>2, <1>3, <1>4, <1>5

\* The step of the control word: a press moves from the interface to the latch
\* and from the latch into the word, and is at no point in two places.
LEMMA ControlWordAccounts ==
  ASSUME TypeOK, ManualReset, PressesAccounted, DefaultHoldsBit, ProcessControlWord
  PROVE  PressesAccounted' /\ DefaultHoldsBit'
<1> USE DEF TypeOK
<1>1. image'.controlword = default_value'.controlword
  <2>1. default_value'.controlword \in Word
    BY ProcessDataType DEF ProcessData, PluginTypeOK
  <2>2. default_value'.controlword # NaN
    BY <2>1, ValueAssumption DEF Word
  <2>3. "controlword" \notin CommandInterfaces
    BY DEF ManualReset
  <2>4. QED
    BY <2>2, <2>3 DEF ProcessControlWord, Output, MasterTypeOK
<1>2. UNCHANGED <<command, drive, resets, presses>>
  BY DEF ProcessControlWord, EndOfChannel, busVars, historyVars
<1>3. CASE ~is_operational_
  <2>1. UNCHANGED <<fault_reset_, last_fault_reset_command_, default_value>>
    BY <1>3 DEF ProcessControlWord
  <2>2. Raised' => Raised
    BY <1>1, <1>2, <2>1 DEF Raised, DefaultHoldsBit
  <2>3. Pending' <=> Pending
    BY <1>2, <2>1 DEF Pending
  <2>4. QED
    BY <1>1, <1>2, <2>1, <2>2, <2>3 DEF PressesAccounted, DefaultHoldsBit
<1>4. CASE is_operational_
  <2> DEFINE request == fault_reset_ \/ ResetEdge
  <2>1. request \in BOOLEAN
    OBVIOUS
  <2>2. Pending' => Pending /\ ~ResetEdge
    <3> SUFFICES ASSUME Pending' PROVE Pending /\ ~ResetEdge
      OBVIOUS
    <3>1. HasReset /\ command.reset_fault = 1 /\ ~last_fault_reset_command_'
      BY <1>2, Zenon DEF Pending, HasReset
    <3>2. command.reset_fault # 0
      BY <3>1
    <3>3. ~(ResetEdge \/ (last_fault_reset_command_ /\ ~(HasReset /\ command.reset_fault = 0)))
      BY <1>4, <3>1, Zenon DEF ProcessControlWord
    <3>4. QED
      BY <3>1, <3>2, <3>3, Zenon DEF Pending
  <2>3. ResetEdge => Pending
    BY DEF ResetEdge, Pending
  <2>4. fault_reset_' = LatchAfter(request)
    BY <1>4 DEF ProcessControlWord
  <2>5. Raised' /\ ~Raised => request /\ ~fault_reset_'
    <3> SUFFICES ASSUME Raised', ~Raised PROVE request /\ ~fault_reset_'
      OBVIOUS
    <3>1. 7 \in default_value'.controlword /\ 7 \notin image.controlword
      BY <1>1, <1>2 DEF Raised
    <3>2. auto_state_transitions_
             /\ default_value'.controlword = transition(state_, image.controlword, request)
      BY <1>4, <3>1, ConfigAssumption, Zenon
      DEF ProcessControlWord, ManualReset, DefaultHoldsBit, PluginTypeOK
    <3>3. state_ = "FAULT" /\ request
      BY <2>1, <3>1, <3>2, TransitionRaisesBit
    <3>4. QED
      BY <2>4, <3>2, <3>3 DEF LatchAfter
  <2>6. fault_reset_' => request
    BY <2>4 DEF LatchAfter
  <2>7. PressesAccounted'
    BY <1>2, <2>2, <2>3, <2>5, <2>6 DEF PressesAccounted
  <2>8. QED
    BY <1>1, <2>7 DEF DefaultHoldsBit
<1>5. QED
  BY <1>3, <1>4

\* The other channels leave the reset, the word and the latch alone.
LEMMA OtherChannelsAccount ==
  ASSUME TypeOK, ResetInv,
         ProcessPosition \/ ProcessMode \/ ProcessStatusWord \/ ProcessActual
           \/ ProcessModeDisplay \/ ProcessOther
  PROVE  ResetInv'
<1> USE DEF TypeOK, PluginTypeOK, MasterTypeOK
<1>1. UNCHANGED <<command, drive, resets, presses>>
  BY DEF ProcessPosition, ProcessMode, ProcessStatusWord, ProcessActual,
         ProcessModeDisplay, ProcessOther, EndOfChannel, busVars, historyVars
<1>2. UNCHANGED <<fault_reset_, last_fault_reset_command_>>
  BY DEF ProcessPosition, ProcessMode, ProcessStatusWord, ProcessActual,
         ProcessModeDisplay, ProcessOther
<1>3. image'.controlword = image.controlword
  BY DEF ProcessPosition, ProcessMode, ProcessStatusWord, ProcessActual,
         ProcessModeDisplay, ProcessOther
<1>4. default_value'.controlword = default_value.controlword
  BY DEF ProcessPosition, ProcessMode, ProcessStatusWord, ProcessActual,
         ProcessModeDisplay, ProcessOther
<1>5. QED
  BY <1>1, <1>2, <1>3, <1>4
  DEF ResetInv, PressesAccounted, DefaultHoldsBit, Raised, Pending, HasReset, ManualReset

\* A pass that begins, a frame that is sent or lost, and what the drive does
\* on its own move no press.
LEMMA QuietStepsAccount ==
  ASSUME TypeOK, ResetInv,
         BeginUpdate \/ BeginRead \/ Send \/ LoseFrame \/ DriveStep \/ UNCHANGED vars
  PROVE  ResetInv'
<1> USE DEF TypeOK, BusTypeOK
<1>1. /\ UNCHANGED <<command, resets, presses, fault_reset_, last_fault_reset_command_,
                     default_value>>
      /\ image'.controlword = image.controlword
      /\ drive'.word = drive.word
  <2>1. CASE BeginUpdate \/ BeginRead
    BY <2>1 DEF BeginUpdate, BeginRead, BeginPass, ReceiveFrame, historyVars, MasterTypeOK
  <2>2. CASE Send \/ LoseFrame \/ UNCHANGED vars
    BY <2>2 DEF Send, LoseFrame, vars, pluginVars, masterVars, busVars, historyVars
  <2>3. CASE DriveStep
    BY <2>3, DriveStepFrame DEF pluginVars, masterVars
  <2>4. QED
    BY <2>1, <2>2, <2>3
<1>2. QED
  BY <1>1 DEF ResetInv, PressesAccounted, DefaultHoldsBit, Raised, Pending, HasReset, ManualReset

\* The controllers add a press where they count one; write() adds none.
LEMMA CommandsAccount ==
  ASSUME TypeOK, ResetInv, Controllers \/ BeginWrite
  PROVE  ResetInv'
<1> USE DEF TypeOK, MasterTypeOK
<1>1. UNCHANGED <<image, drive, resets, fault_reset_, last_fault_reset_command_, default_value>>
  BY DEF Controllers, BeginWrite, pluginVars, busVars, historyVars
<1>2. \/ presses' = presses + 1
      \/ presses' = presses /\ (Pending' => Pending)
  <2>1. CASE Controllers
    <3>1. command'.reset_fault = 1 /\ command.reset_fault # 1 => presses' = presses + 1
      BY <2>1 DEF Controllers
    <3>2. presses' \in {presses, presses + 1}
      BY <2>1, Zenon DEF Controllers
    <3>3. QED
      BY <1>1, <3>1, <3>2 DEF Pending, HasReset
  <2>2. CASE BeginWrite
    <3>1. command'.reset_fault = 1 => command.reset_fault = 1
      BY <2>2 DEF BeginWrite
    <3>2. QED
      BY <1>1, <2>2, <3>1 DEF BeginWrite, Pending, HasReset, historyVars
  <2>3. QED
    BY <2>1, <2>2
<1>3. QED
  BY <1>1, <1>2 DEF ResetInv, PressesAccounted, DefaultHoldsBit, Raised, ManualReset

\* A drive that is reset has just seen the edge that was raised for it.
LEMMA ExchangeAccounts ==
  ASSUME TypeOK, ResetInv, Exchange
  PROVE  ResetInv'
<1> USE DEF TypeOK, BusTypeOK
<1>1. UNCHANGED <<command, image, presses, fault_reset_, last_fault_reset_command_, default_value>>
  BY DEF Exchange, pluginVars, masterVars
<1>2. CASE al_op
  <2>1. drive'.word = image.controlword
    BY <1>2 DEF Exchange
  <2>2. resets' = resets \/ (resets' = resets + 1 /\ Raised)
    BY <1>2 DEF Exchange, Resets, Raised
  <2>3. ~Raised'
    BY <1>1, <2>1 DEF Raised
  <2>4. QED
    BY <1>1, <2>2, <2>3
    DEF ResetInv, PressesAccounted, DefaultHoldsBit, Pending, HasReset, ManualReset
<1>3. CASE ~al_op
  <2>1. UNCHANGED <<drive, resets>>
    BY <1>3 DEF Exchange
  <2>2. QED
    BY <1>1, <2>1
    DEF ResetInv, PressesAccounted, DefaultHoldsBit, Raised, Pending, HasReset, ManualReset
<1>4. QED
  BY <1>2, <1>3

\* Without auto_fault_reset the drive is not reset more often than reset_fault
\* was pressed, for every layout, every bus and every number of presses.
THEOREM NoResetWithoutPress == Spec => []ResetsNeverExceedPresses
<1>1. Init => ResetInv
  <2> SUFFICES ASSUME Init PROVE ResetInv
    OBVIOUS
  <2>1. ~Raised /\ ~fault_reset_ /\ ~Pending /\ resets = 0 /\ presses = 0
    BY ValueAssumption DEF Init, PluginInit, MasterInit, Raised, Pending
  <2>2. 7 \notin default_value.controlword
    BY ConfigAssumption DEF Init, PluginInit
  <2>3. QED
    BY <2>1, <2>2 DEF ResetInv, PressesAccounted, DefaultHoldsBit
<1>2. TypeOK /\ ResetInv /\ [Next]_vars => ResetInv'
  <2> SUFFICES ASSUME TypeOK, ResetInv, [Next]_vars PROVE ResetInv'
    OBVIOUS
  <2>1. CASE BeginUpdate \/ BeginRead \/ Send \/ LoseFrame \/ DriveStep \/ UNCHANGED vars
    BY <2>1, QuietStepsAccount
  <2>2. CASE ProcessControlWord
    <3>1. ManualReset' <=> ManualReset
      BY DEF ManualReset
    <3>2. QED
      BY <2>2, <3>1, ControlWordAccounts DEF ResetInv
  <2>3. CASE ProcessPosition \/ ProcessMode \/ ProcessStatusWord \/ ProcessActual
               \/ ProcessModeDisplay \/ ProcessOther
    BY <2>3, OtherChannelsAccount
  <2>4. CASE Controllers \/ BeginWrite
    BY <2>4, CommandsAccount
  <2>5. CASE Exchange
    BY <2>5, ExchangeAccounts
  <2>6. QED
    BY <2>1, <2>2, <2>3, <2>4, <2>5 DEF Next, DriverStep, ProcessData
<1>3. TypeOK /\ ResetInv => ResetsNeverExceedPresses
  BY DEF TypeOK, ResetInv, PressesAccounted, ResetsNeverExceedPresses
<1>4. QED
  BY <1>1, <1>2, <1>3, TypeCorrect, PTL DEF Spec

-----------------------------------------------------------------------------
(***************************************************************************)
(* The walk over the channels, which both of the next invariants rest on   *)
(***************************************************************************)

Walking == pass \in {"update", "read", "write"}

\* Between the passes the walk is at its beginning, and a frame that is under way
\* meets no pass: the inputs change only where a pass begins.
WalkInv ==
  /\ ~Walking => next = 1
  /\ bus = "sent" => pass = "idle"
  /\ pass = "update" => ~activated_
  /\ pass \in {"read", "control", "command", "write"} => activated_

\* A channel that has been passed in this walk.
Passed(i) == Walking /\ i < next

\* What a step of the walk leaves alone, and where it goes.
LEMMA ChannelStep ==
  ASSUME TypeOK, ProcessData
  PROVE  /\ Walking /\ CheckStateChange /\ Advance
         /\ UNCHANGED <<activated_, bus, reply, drive>>
         /\ UNCHANGED <<image.statusword, image.actual, image.modedisplay>>
<1> USE DEF TypeOK, MasterTypeOK, At, EndOfChannel, Walking, busVars
<1>1. CASE ProcessControlWord
  BY <1>1 DEF ProcessControlWord
<1>2. CASE ProcessPosition
  BY <1>2 DEF ProcessPosition
<1>3. CASE ProcessMode
  BY <1>3 DEF ProcessMode
<1>4. CASE ProcessStatusWord \/ ProcessActual \/ ProcessModeDisplay \/ ProcessOther
  BY <1>4 DEF ProcessStatusWord, ProcessActual, ProcessModeDisplay, ProcessOther
<1> QED
  BY <1>1, <1>2, <1>3, <1>4 DEF ProcessData

\* A step of the walk passes the channel it was at, or ends the pass there.
LEMMA StepPasses ==
  ASSUME TypeOK, Walking, Advance
  PROVE  \/ next < NumMapped /\ next' = next + 1 /\ pass' = pass
         \/ next = NumMapped /\ next' = 1 /\ pass = "read" /\ pass' = "control"
         \/ next = NumMapped /\ next' = 1 /\ pass # "read" /\ pass' = "send"
BY ChannelAssumption DEF TypeOK, MasterTypeOK, Advance, Walking

\* Every pass walks the channels once, alone on the bus.
LEMMA WalkKept ==
  ASSUME TypeOK, WalkInv, [Next]_vars
  PROVE  WalkInv'
<1> USE DEF WalkInv, Walking
<1>1. CASE BeginUpdate \/ BeginRead
  BY <1>1 DEF BeginUpdate, BeginRead, BeginPass, ReceiveFrame
<1>2. CASE ProcessData
  BY <1>2, ChannelStep, StepPasses DEF TypeOK, MasterTypeOK
<1>3. CASE Controllers \/ BeginWrite \/ Send
  BY <1>3 DEF Controllers, BeginWrite, Send, EcSlaveInitialized, busVars
<1>4. CASE Exchange \/ LoseFrame
  BY <1>4 DEF Exchange, LoseFrame, masterVars
<1>5. CASE DriveStep
  BY <1>5, DriveStepFrame DEF masterVars
<1>6. CASE UNCHANGED vars
  BY <1>6 DEF vars, masterVars, busVars
<1> QED
  BY <1>1, <1>2, <1>3, <1>4, <1>5, <1>6 DEF Next, DriverStep

\* WalkInv holds throughout.
LEMMA WalkHolds == Spec => []WalkInv
<1>1. Init => WalkInv
  BY DEF Init, MasterInit, BusInit, WalkInv, Walking
<1>2. TypeOK /\ WalkInv /\ [Next]_vars => WalkInv'
  BY WalkKept
<1> QED
  BY <1>1, <1>2, TypeCorrect, PTL DEF Spec

-----------------------------------------------------------------------------
(***************************************************************************)
(* The invariant behind StateIsCurrent.  last_status_word_ starts as a     *)
(* word no drive reports, so the first walk decodes, and from then on the  *)
(* state is that of the last word.                                         *)
(***************************************************************************)

\* The status word is in the process data, and so is the last channel.
StatusWordMapped ==
  NumMapped = Len(Channels) /\ \E i \in 1..NumMapped : Channels[i] = "statusword"

StateInv ==
  /\ last_status_word_ # Bits => state_ = deviceState(last_status_word_)
  /\ image.statusword # Bits /\ reply.statusword # Bits
  /\ \A i \in 1..NumMapped : Channels[i] = "statusword" /\ Passed(i) => status_word_ = image.statusword
  /\ PassDone => state_ = deviceState(image.statusword)

\* A drive never reports a word with all bits set.
LEMMA StatusNeverFull ==
  ASSUME NEW state, NEW extra \in StatusExtras
  PROVE  StatusBits(state) \cup extra # Bits
<1>1. extra \subseteq {4} \cup 7..15
  BY ValueAssumption
<1>2. 3 \notin StatusBits(state) \/ 5 \notin StatusBits(state)
  BY DEF StatusBits
<1>3. 3 \in Bits /\ 5 \in Bits /\ 3 \notin extra /\ 5 \notin extra
  BY <1>1 DEF Bits
<1> QED
  BY <1>2, <1>3

\* The walk decodes the status word it has copied, at the last channel.
LEMMA WalkDecodes ==
  ASSUME TypeOK, StateInv, StatusWordMapped, ProcessData
  PROVE  StateInv'
<1> USE DEF TypeOK, PluginTypeOK, MasterTypeOK
<1>1. /\ Walking /\ CheckStateChange /\ Advance /\ reply' = reply
      /\ image'.statusword = image.statusword
  BY ChannelStep
<1>2. \/ next < NumMapped /\ next' = next + 1 /\ pass' = pass
      \/ next = NumMapped /\ next' = 1 /\ ~Walking'
  BY <1>1, StepPasses DEF Walking
<1>3. status_word_' = status_word_ \/ status_word_' = image.statusword
  BY DEF ProcessData, ProcessControlWord, ProcessPosition, ProcessMode, ProcessStatusWord, ProcessActual,
         ProcessModeDisplay, ProcessOther
<1>4. Channels[next] = "statusword" => status_word_' = image.statusword
  BY DEF ProcessData, ProcessControlWord, ProcessPosition, ProcessMode, ProcessStatusWord, ProcessActual,
         ProcessModeDisplay, ProcessOther, At
<1>5. \A i \in 1..NumMapped : Channels[i] = "statusword" /\ i <= next => status_word_' = image.statusword
  <2> SUFFICES ASSUME NEW i \in 1..NumMapped, Channels[i] = "statusword", i <= next
               PROVE  status_word_' = image.statusword
    OBVIOUS
  <2>1. CASE i = next
    BY <1>4, <2>1
  <2>2. CASE i < next
    BY <1>1, <1>3, <2>2 DEF StateInv, Passed
  <2> QED
    BY <2>1, <2>2, ChannelAssumption
<1>6. CASE next < NumMapped
  <2>1. UNCHANGED <<state_, last_status_word_>> /\ pass' = pass /\ next' = next + 1
    BY <1>1, <1>2, <1>6, ChannelAssumption DEF CheckStateChange, StatusWordMapped
  <2>2. ~PassDone'
    BY <1>1, <2>1 DEF PassDone, Walking
  <2> QED
    BY <1>1, <1>5, <2>1, <2>2, ChannelAssumption DEF StateInv, Passed
<1>7. CASE next = NumMapped
  <2>1. PICK i \in 1..NumMapped : Channels[i] = "statusword"
    BY DEF StatusWordMapped
  <2>2. status_word_' = image.statusword
    BY <1>5, <1>7, <2>1, ChannelAssumption
  <2>3. /\ state_' = IF status_word_' # last_status_word_ THEN deviceState(status_word_') ELSE state_
        /\ last_status_word_' = status_word_'
    BY <1>1, <1>7 DEF CheckStateChange, StatusWordMapped
  <2>4. state_' = deviceState(image.statusword)
    BY <2>2, <2>3 DEF StateInv
  <2>5. ~Walking'
    BY <1>2, <1>7
  <2> QED
    BY <1>1, <2>2, <2>3, <2>4, <2>5 DEF StateInv, Passed
<1> QED
  BY <1>6, <1>7, ChannelAssumption

\* The decoded state stays that of the last status word.
LEMMA StateKept ==
  ASSUME TypeOK, WalkInv, StateInv, StatusWordMapped, [Next]_vars
  PROVE  StateInv'
<1> USE DEF TypeOK, MasterTypeOK, BusTypeOK
<1>1. CASE BeginUpdate \/ BeginRead
  <2>1. /\ UNCHANGED <<state_, last_status_word_, status_word_, reply, next>> /\ next = 1
        /\ pass' \in {"update", "read"}
        /\ image'.statusword \in {image.statusword, reply.statusword}
    BY <1>1 DEF BeginUpdate, BeginRead, BeginPass, ReceiveFrame, WalkInv, Walking
  <2> QED
    BY <2>1, ChannelAssumption DEF StateInv, Passed, PassDone
<1>2. CASE ProcessData
  BY <1>2, WalkDecodes
<1>3. CASE Controllers \/ BeginWrite \/ Send
  BY <1>3 DEF Controllers, BeginWrite, Send, pluginVars, busVars, StateInv, Passed, Walking, PassDone,
              WalkInv
<1>4. CASE Exchange
  <2>1. PICK extra \in StatusExtras : reply'.statusword = StatusBits(drive'.state) \cup extra
    BY <1>4 DEF Exchange
  <2>2. reply'.statusword # Bits
    BY <2>1, StatusNeverFull
  <2> QED
    BY <1>4, <2>2 DEF Exchange, pluginVars, masterVars, StateInv, Passed, Walking, PassDone
<1>5. CASE LoseFrame
  BY <1>5 DEF LoseFrame, pluginVars, masterVars, StateInv, Passed, Walking, PassDone
<1>6. CASE DriveStep
  BY <1>6, DriveStepFrame DEF pluginVars, masterVars, StateInv, Passed, Walking, PassDone
<1>7. CASE UNCHANGED vars
  BY <1>7 DEF vars, pluginVars, masterVars, busVars, StateInv, Passed, Walking, PassDone
<1> QED
  BY <1>1, <1>2, <1>3, <1>4, <1>5, <1>6, <1>7 DEF Next, DriverStep

\* What the state members hold, they hold throughout.
LEMMA StateHolds ==
  ASSUME StatusWordMapped
  PROVE  Spec => []StateInv
<1>1. Init => StateInv
  <2> SUFFICES ASSUME Init PROVE StateInv
    OBVIOUS
  <2>1. Bits # {}
    BY DEF Bits
  <2> QED
    BY <2>1, ChannelAssumption
    DEF Init, PluginInit, MasterInit, BusInit, StateInv, Passed, Walking, PassDone
<1>2. TypeOK /\ WalkInv /\ StateInv /\ [Next]_vars => StateInv'
  BY StateKept
<1> QED
  BY <1>1, <1>2, TypeCorrect, WalkHolds, PTL DEF Spec

\* Whatever the order of the channels, the device state at the end of a pass is
\* that of the status word in the process data, if the status word and the last
\* channel of the configuration are mapped (checkStateChange in processData).
THEOREM StateFollowsStatusWord ==
  ASSUME StatusWordMapped
  PROVE  Spec => []StateIsCurrent
<1>1. StateInv => StateIsCurrent
  BY DEF StateInv, StateIsCurrent
<1> QED
  BY <1>1, StateHolds, PTL

-----------------------------------------------------------------------------
(***************************************************************************)
(* The invariant behind HoldsOutsideCsp.  The pass of write computes the   *)
(* target from what the pass of read has copied, and both run over the     *)
(* inputs of one frame: the order of the channels does not matter then.    *)
(***************************************************************************)

\* The target, the position and the mode of operation are in the process data.
PositionMapped ==
  \A channel \in {"position", "actual", "modedisplay"} :
    \E i \in 1..NumMapped : Channels[i] = channel

\* A mode is reported, and is not cyclic synchronous position.
OutsideCsp == image.modedisplay \notin {NO_MODE, MODE_CYCLIC_SYNC_POSITION}

HeldTarget == PosFactor * (ActFactor * image.actual + ActOffset) + PosOffset

HoldInv ==
  /\ ~activated_ => bus = "none" /\ image.modedisplay = NO_MODE
  /\ \A i \in 1..NumMapped :
       pass = "read" /\ i < next =>
         /\ Channels[i] = "actual" => last_position_ = ActFactor * image.actual + ActOffset
         /\ Channels[i] = "modedisplay" => mode_of_operation_display_ = image.modedisplay
  /\ pass \in {"control", "command", "write"} =>
       /\ last_position_ = ActFactor * image.actual + ActOffset
       /\ mode_of_operation_display_ = image.modedisplay
  /\ \A i \in 1..NumMapped :
       pass = "write" /\ i < next /\ Channels[i] = "position" /\ OutsideCsp
         => image.position = HeldTarget
  /\ (pass = "send" \/ bus = "sent") /\ OutsideCsp => image.position = HeldTarget

\* A step of a channel copies its input, and leaves the other inputs alone.
LEMMA ChannelCopies ==
  ASSUME TypeOK, ProcessData
  PROVE  /\ last_position_' \in {last_position_, ActFactor * image.actual + ActOffset}
         /\ Channels[next] = "actual" => last_position_' = ActFactor * image.actual + ActOffset
         /\ mode_of_operation_display_' \in {mode_of_operation_display_, image.modedisplay}
         /\ Channels[next] = "modedisplay" => mode_of_operation_display_' = image.modedisplay
         /\ Channels[next] # "position" => image'.position = image.position
<1> USE DEF TypeOK, MasterTypeOK, At
<1>1. CASE ProcessControlWord
  BY <1>1 DEF ProcessControlWord
<1>2. CASE ProcessPosition
  BY <1>2 DEF ProcessPosition
<1>3. CASE ProcessMode
  BY <1>3 DEF ProcessMode
<1>4. CASE ProcessStatusWord \/ ProcessActual \/ ProcessModeDisplay \/ ProcessOther
  BY <1>4 DEF ProcessStatusWord, ProcessActual, ProcessModeDisplay, ProcessOther
<1> QED
  BY <1>1, <1>2, <1>3, <1>4 DEF ProcessData

\* In another mode the target channel overrides any command by the position.
LEMMA TargetHolds ==
  ASSUME TypeOK, ProcessPosition, OutsideCsp,
         mode_of_operation_display_ = image.modedisplay,
         last_position_ = ActFactor * image.actual + ActOffset
  PROVE  image'.position = HeldTarget
<1> USE DEF TypeOK, PluginTypeOK, MasterTypeOK
<1>1. HeldTarget \in Int /\ HeldTarget # NaN /\ last_position_ # NaN
  BY ConfigAssumption, ValueAssumption DEF HeldTarget
<1>2. HoldPosition(last_position_) = HeldTarget
  BY <1>1 DEF HoldPosition, HeldTarget
<1>3. default_value'.position = HeldTarget
  BY <1>2 DEF ProcessPosition, OutsideCsp
<1>4. override_command' = TRUE
  BY DEF ProcessPosition, OverridesCommand, OutsideCsp
<1>5. Output("position", PosFactor * command.position + PosOffset, override_command',
             default_value'.position) = HeldTarget
  BY <1>1, <1>3, <1>4 DEF Output
<1> QED
  BY <1>5 DEF ProcessPosition

\* The pass of read copies position and mode, the pass of write computes the target.
LEMMA WalkHoldsTarget ==
  ASSUME TypeOK, WalkInv, HoldInv, PositionMapped, ProcessData
  PROVE  HoldInv'
<1> USE DEF TypeOK, MasterTypeOK
<1>0. /\ Walking /\ Advance /\ UNCHANGED <<activated_, bus>> /\ bus # "sent"
      /\ UNCHANGED <<image.actual, image.modedisplay>>
      /\ next \in 1..NumMapped /\ NumMapped \in Nat
  BY ChannelStep, ChannelAssumption DEF WalkInv, Walking
<1>1. \/ next < NumMapped /\ next' = next + 1 /\ pass' = pass
      \/ next = NumMapped /\ next' = 1 /\ pass = "read" /\ pass' = "control"
      \/ next = NumMapped /\ next' = 1 /\ pass # "read" /\ pass' = "send"
  BY <1>0, StepPasses
<1>2. ~activated_' => bus' = "none" /\ image'.modedisplay = NO_MODE
  BY <1>0 DEF HoldInv
<1>3. ASSUME NEW i \in 1..NumMapped, i <= next, pass = "read"
      PROVE  /\ Channels[i] = "actual" => last_position_' = ActFactor * image.actual + ActOffset
             /\ Channels[i] = "modedisplay" => mode_of_operation_display_' = image.modedisplay
  <2>1. CASE i = next
    BY <2>1, ChannelCopies
  <2>2. CASE i < next
    BY <1>3, <2>2, ChannelCopies DEF HoldInv
  <2> QED
    BY <1>0, <1>3, <2>1, <2>2
<1>4. ASSUME pass = "write"
      PROVE  /\ last_position_' = ActFactor * image.actual + ActOffset
             /\ mode_of_operation_display_' = image.modedisplay
  BY <1>4, ChannelCopies DEF HoldInv
<1>5. HeldTarget' = HeldTarget /\ (OutsideCsp' <=> OutsideCsp)
  BY <1>0 DEF HeldTarget, OutsideCsp
<1>6. ASSUME NEW i \in 1..NumMapped, i <= next, pass = "write", Channels[i] = "position", OutsideCsp
      PROVE  image'.position = HeldTarget
  <2>1. CASE Channels[next] = "position"
    <3>1. ProcessPosition
      BY <2>1 DEF ProcessData, ProcessControlWord, ProcessMode, ProcessStatusWord, ProcessActual,
                  ProcessModeDisplay, ProcessOther, At
    <3> QED
      BY <1>6, <3>1, TargetHolds DEF HoldInv
  <2>2. CASE Channels[next] # "position"
    <3>1. i < next
      BY <1>0, <1>6, <2>2
    <3> QED
      BY <1>6, <2>2, <3>1, ChannelCopies DEF HoldInv
  <2> QED
    BY <2>1, <2>2
<1>7. CASE next < NumMapped
  <2>1. next' = next + 1 /\ pass' = pass
    BY <1>0, <1>1, <1>7
  <2> QED
    BY <1>0, <1>2, <1>3, <1>4, <1>5, <1>6, <2>1 DEF HoldInv, Walking
<1>8. CASE next = NumMapped /\ pass = "read"
  <2>1. PICK i \in 1..NumMapped : Channels[i] = "actual"
    BY DEF PositionMapped
  <2>2. PICK j \in 1..NumMapped : Channels[j] = "modedisplay"
    BY DEF PositionMapped
  <2>3. /\ last_position_' = ActFactor * image.actual + ActOffset
        /\ mode_of_operation_display_' = image.modedisplay
    BY <1>0, <1>3, <1>8, <2>1, <2>2
  <2>4. pass' = "control"
    BY <1>0, <1>1, <1>8
  <2> QED
    BY <1>0, <1>2, <2>3, <2>4 DEF HoldInv
<1>9. CASE next = NumMapped /\ pass = "write"
  <2>1. PICK i \in 1..NumMapped : Channels[i] = "position"
    BY DEF PositionMapped
  <2>2. OutsideCsp => image'.position = HeldTarget
    BY <1>0, <1>6, <1>9, <2>1
  <2>3. pass' = "send"
    BY <1>0, <1>1, <1>9
  <2> QED
    BY <1>0, <1>2, <1>5, <2>2, <2>3 DEF HoldInv
<1>10. CASE next = NumMapped /\ pass = "update"
  <2>1. pass' = "send" /\ ~OutsideCsp'
    BY <1>0, <1>1, <1>2, <1>10 DEF WalkInv, OutsideCsp
  <2> QED
    BY <1>0, <1>2, <2>1 DEF HoldInv
<1> QED
  BY <1>0, <1>7, <1>8, <1>9, <1>10 DEF Walking

\* Only the walk of write changes the target, and only a new pass the inputs.
LEMMA HoldKept ==
  ASSUME TypeOK, WalkInv, HoldInv, PositionMapped, [Next]_vars
  PROVE  HoldInv'
<1> USE DEF TypeOK, MasterTypeOK, BusTypeOK
<1>1. CASE BeginUpdate
  <2>1. /\ ~activated_ /\ activated_' = activated_ /\ pass' = "update"
        /\ bus = "none" /\ bus' = "none" /\ image' = image
    BY <1>1 DEF BeginUpdate, BeginPass, ReceiveFrame, HoldInv
  <2> QED
    BY <2>1 DEF HoldInv
<1>2. CASE BeginRead
  <2>1. activated_' /\ pass' = "read" /\ next' = 1 /\ bus' = "none"
    BY <1>2 DEF BeginRead, BeginPass, ReceiveFrame, WalkInv, Walking
  <2> QED
    BY <2>1, ChannelAssumption DEF HoldInv
<1>3. CASE ProcessData
  BY <1>3, WalkHoldsTarget
<1>4. CASE Controllers
  <2>1. /\ UNCHANGED <<image, activated_, next, bus, last_position_, mode_of_operation_display_>>
        /\ pass = "control" /\ pass' = "command"
    BY <1>4 DEF Controllers, pluginVars, busVars
  <2> QED
    BY <2>1 DEF HoldInv, OutsideCsp, HeldTarget
<1>5. CASE BeginWrite
  <2>1. /\ UNCHANGED <<image, activated_, next, bus, last_position_, mode_of_operation_display_>>
        /\ pass = "command" /\ pass' = "write" /\ next = 1
    BY <1>5 DEF BeginWrite, pluginVars, busVars, WalkInv, Walking
  <2> QED
    BY <2>1, ChannelAssumption DEF HoldInv, OutsideCsp, HeldTarget
<1>6. CASE Send
  <2>1. /\ UNCHANGED <<image, next, last_position_, mode_of_operation_display_>>
        /\ pass = "send" /\ pass' = "idle" /\ activated_'
    BY <1>6 DEF Send, EcSlaveInitialized, pluginVars
  <2> QED
    BY <2>1 DEF HoldInv, OutsideCsp, HeldTarget
<1>7. CASE Exchange \/ LoseFrame
  <2>1. /\ UNCHANGED <<image, pass, next, activated_, last_position_, mode_of_operation_display_>>
        /\ bus # "none" /\ bus' # "sent"
    BY <1>7 DEF Exchange, LoseFrame, pluginVars, masterVars
  <2> QED
    BY <2>1 DEF HoldInv, OutsideCsp, HeldTarget
<1>8. CASE UNCHANGED <<image, pass, next, activated_, bus, last_position_, mode_of_operation_display_>>
  BY <1>8 DEF HoldInv, OutsideCsp, HeldTarget
<1>9. CASE DriveStep
  BY <1>8, <1>9, DriveStepFrame DEF pluginVars, masterVars
<1>10. CASE UNCHANGED vars
  BY <1>8, <1>10 DEF vars, pluginVars, masterVars, busVars
<1> QED
  BY <1>1, <1>2, <1>3, <1>4, <1>5, <1>6, <1>7, <1>9, <1>10 DEF Next, DriverStep

\* In every mode but cyclic position the frames of the control loop carry the
\* position they measured as the target, for any order of the channels, any
\* scaling and whatever the controllers command (the override in processData).
THEOREM TargetFollowsPosition ==
  ASSUME PositionMapped
  PROVE  Spec => []HoldsOutsideCsp
<1>1. Init => HoldInv
  BY DEF Init, PluginInit, MasterInit, BusInit, HoldInv, OutsideCsp
<1>2. TypeOK /\ WalkInv /\ HoldInv /\ [Next]_vars => HoldInv'
  BY HoldKept
<1>3. HoldInv => HoldsOutsideCsp
  BY DEF HoldInv, HoldsOutsideCsp, OutsideCsp, HeldTarget
<1> QED
  BY <1>1, <1>2, <1>3, TypeCorrect, WalkHolds, PTL DEF Spec


-----------------------------------------------------------------------------
(***************************************************************************)
(* A drive is enabled and kept enabled by a plugin that knows of it: how   *)
(* far the state the plugin holds and the control word it sends may be     *)
(* from the state of the drive, whatever is lost in between.               *)
(***************************************************************************)

\* No controller writes the control word: it is the plugin's own.
WordIsThePlugins == "controlword" \notin CommandInterfaces

-----------------------------------------------------------------------------
(***************************************************************************)
(* The inductive invariant                                                 *)
(***************************************************************************)

\* How far a drive has come since it booted or was reset.
Stage(state) ==
  CASE state \in {"START", "NOT_READY"}              -> 0
    [] state = "SWITCH_ON_DISABLED"                  -> 1
    [] state = "READY_TO_SWITCH_ON"                  -> 2
    [] state = "SWITCH_ON"                           -> 3
    [] state \in {"OPERATION_ENABLED", "QUICK_STOP"} -> 4
    [] state = "FAULT_REACTION"                      -> 5
    [] OTHER                                         -> 6

Seen == deviceState(image.statusword)

\* What the next pass will see.
Told == IF bus = "reply" THEN deviceState(reply.statusword) ELSE Seen

\* The words of the inputs are a drive's, and out of a receiving pass the plugin
\* has decoded the one there is.
InputsDecoded ==
  /\ Seen \in DriveStates /\ deviceState(reply.statusword) \in DriveStates
  /\ bus # "none" => pass = "idle"
  /\ pass \notin {"update", "read"} => state_ = Seen \/ (state_ = "START" /\ Seen = "NOT_READY")

\* Unless the plugin sees a fault, it is behind the drive, which went forward.
Behind ==
  state_ # "FAULT" => Stage(state_) <= Stage(Told) /\ Stage(Told) <= Stage(drive.state)

\* A fault it sees persists, or was reset by the bit that is still high.
FaultSeen ==
  state_ = "FAULT" =>
    \/ Told = "FAULT" /\ drive.state = "FAULT"
    \/ /\ 7 \in image.controlword /\ 7 \in drive.word
       /\ drive.state \in {"FAULT", "SWITCH_ON_DISABLED", "FAULT_REACTION"}
       /\ Told = "FAULT" \/ Stage(Told) <= Stage(drive.state)

\* An edge of the reset bit is on its way only while the plugin sees the fault.
EdgeKnown == 7 \in image.controlword /\ 7 \notin drive.word => state_ = "FAULT"

\* The default is the control word, but for the one of the configuration before
\* the first pass.
DefaultSent ==
  \/ default_value.controlword = image.controlword
  \/ image.controlword = {} /\ 7 \notin default_value.controlword

\* The control word is no step ahead of the drive, and none behind.
WordFits ==
  LET word == image.controlword
  IN  /\ drive.state = "READY_TO_SWITCH_ON" =>
           /\ {1, 2} \subseteq word /\ 7 \notin word
           /\ 0 \in word => 3 \notin word /\ state_ = "READY_TO_SWITCH_ON"
      /\ drive.state = "SWITCH_ON" =>
           /\ {0, 1, 2} \subseteq word /\ 7 \notin word
           /\ state_ \in {"READY_TO_SWITCH_ON", "SWITCH_ON"}
           /\ 3 \in word => state_ = "SWITCH_ON"
      /\ drive.state \in {"OPERATION_ENABLED", "QUICK_STOP"} =>
           /\ {0, 1, 2, 3} \subseteq word /\ 7 \notin word
           /\ state_ \in {"SWITCH_ON", "OPERATION_ENABLED", "QUICK_STOP"}

EnableInv ==
  InputsDecoded /\ Behind /\ FaultSeen /\ EdgeKnown /\ DefaultSent /\ WordFits

-----------------------------------------------------------------------------
(***************************************************************************)
(* Words and commands                                                      *)
(***************************************************************************)

\* The plugin decodes the status of a drive to the state it is in, whatever the
\* bits are that it ignores.
LEMMA StatusDecodes ==
  ASSUME NEW state \in DriveStates, NEW extra \in StatusExtras
  PROVE  deviceState(StatusBits(state) \cup extra) = state
<1>1. extra \subseteq {4} \cup 7..15
  BY ValueAssumption
<1>2. \A b \in {0, 1, 2, 3, 5, 6} : b \notin extra
  BY <1>1
<1> DEFINE word == StatusBits(state) \cup extra
           low == word \cap {0, 1, 2, 3, 6}
           mid == word \cap {0, 1, 2, 3, 5, 6}
<1>3. CASE state = "NOT_READY"
  <2>1. low = {} /\ mid = {}
    BY <1>2, <1>3 DEF StatusBits
  <2> QED
    BY <1>3, <2>1 DEF deviceState
<1>4. CASE state = "SWITCH_ON_DISABLED"
  <2>1. low = {6} /\ mid = {6}
    BY <1>2, <1>4 DEF StatusBits
  <2> QED
    BY <1>4, <2>1 DEF deviceState
<1>5. CASE state = "READY_TO_SWITCH_ON"
  <2>1. low = {0} /\ mid = {0, 5}
    BY <1>2, <1>5 DEF StatusBits
  <2> QED
    BY <1>5, <2>1 DEF deviceState
<1>6. CASE state = "SWITCH_ON"
  <2>1. low = {0, 1} /\ mid = {0, 1, 5}
    BY <1>2, <1>6 DEF StatusBits
  <2> QED
    BY <1>6, <2>1 DEF deviceState
<1>7. CASE state = "OPERATION_ENABLED"
  <2>1. low = {0, 1, 2} /\ mid = {0, 1, 2, 5}
    BY <1>2, <1>7 DEF StatusBits
  <2> QED
    BY <1>7, <2>1 DEF deviceState
<1>8. CASE state = "QUICK_STOP"
  <2>1. low = {0, 1, 2} /\ mid = {0, 1, 2}
    BY <1>2, <1>8 DEF StatusBits
  <2> QED
    BY <1>8, <2>1 DEF deviceState
<1>9. CASE state = "FAULT_REACTION"
  <2>1. low = {0, 1, 2, 3} /\ mid = {0, 1, 2, 3}
    BY <1>2, <1>9 DEF StatusBits
  <2> QED
    BY <1>9, <2>1 DEF deviceState
<1>10. CASE state = "FAULT"
  <2>1. low = {3} /\ mid = {3}
    BY <1>2, <1>10 DEF StatusBits
  <2> QED
    BY <1>10, <2>1 DEF deviceState
<1> QED
  BY <1>3, <1>4, <1>5, <1>6, <1>7, <1>8, <1>9, <1>10 DEF DriveStates

\* What transition does to the bits that make a command.
LEMMA TransitionBits ==
  ASSUME NEW state, NEW word \in Word, NEW reset \in BOOLEAN
  PROVE  LET sent == transition(state, word, reset)
         IN  /\ state = "SWITCH_ON_DISABLED" => {1, 2} \subseteq sent /\ 0 \notin sent /\ 7 \notin sent
             /\ state = "READY_TO_SWITCH_ON" => {0, 1, 2} \subseteq sent /\ 3 \notin sent /\ 7 \notin sent
             /\ state \in {"SWITCH_ON", "QUICK_STOP"} => {0, 1, 2, 3} \subseteq sent /\ 7 \notin sent
             /\ state = "FAULT" /\ 7 \in word => 7 \in sent
             /\ state \notin {"SWITCH_ON_DISABLED", "READY_TO_SWITCH_ON", "SWITCH_ON", "QUICK_STOP",
                              "FAULT"} => sent = word
BY DEF transition, Word, Bits

\* A step of a pass leaves the control word, or sends the default, kept or made
\* from the control word by transition.
LEMMA WordStep ==
  ASSUME TypeOK, WordIsThePlugins, ProcessData
  PROVE  \/ /\ image'.controlword = image.controlword
            /\ default_value'.controlword = default_value.controlword
         \/ /\ image'.controlword = default_value'.controlword
            /\ \/ default_value'.controlword = default_value.controlword
               \/ \E reset \in BOOLEAN :
                    default_value'.controlword = transition(state_, image.controlword, reset)
<1> USE DEF TypeOK, PluginTypeOK, MasterTypeOK
<1>1. CASE ProcessControlWord
  <2>1. (auto_fault_reset_ \/ (fault_reset_ \/ ResetEdge)) \in BOOLEAN
    BY ConfigAssumption DEF ResetEdge, HasReset
  <2>2. \/ default_value'.controlword = default_value.controlword
        \/ \E reset \in BOOLEAN :
             default_value'.controlword = transition(state_, image.controlword, reset)
    BY <1>1, <2>1 DEF ProcessControlWord
  <2>3. default_value'.controlword \in Word
    BY <2>2, TransitionIsWord
  <2>4. default_value'.controlword # NaN
    BY <2>3, ValueAssumption DEF Word
  <2>5. image'.controlword = default_value'.controlword
    BY <1>1, <2>4 DEF ProcessControlWord, Output, WordIsThePlugins
  <2> QED
    BY <2>2, <2>5
<1>2. CASE ProcessPosition
  BY <1>2 DEF ProcessPosition
<1>3. CASE ProcessMode
  BY <1>3 DEF ProcessMode
<1>4. CASE ProcessStatusWord \/ ProcessActual \/ ProcessModeDisplay \/ ProcessOther
  BY <1>4 DEF ProcessStatusWord, ProcessActual, ProcessModeDisplay, ProcessOther
<1> QED
  BY <1>1, <1>2, <1>3, <1>4 DEF ProcessData

\* A step of a pass leaves the state, or ends the pass with what it has seen.
LEMMA StateStep ==
  ASSUME TypeOK, WalkInv, StateInv, StatusWordMapped, ProcessData
  PROVE  \/ state_' = state_ /\ pass' = pass
         \/ state_' = Seen /\ pass' \notin {"update", "read"}
<1>1. Walking /\ CheckStateChange /\ Advance /\ image'.statusword = image.statusword
  BY ChannelStep
<1>2. StateInv'
  BY WalkDecodes
<1>3. CASE next < NumMapped
  BY <1>1, <1>3, StepPasses, ChannelAssumption DEF TypeOK, MasterTypeOK, CheckStateChange, StatusWordMapped
<1>4. CASE next = NumMapped
  BY <1>1, <1>2, <1>4, StepPasses, ChannelAssumption DEF StateInv, PassDone, Seen
<1> QED
  BY <1>3, <1>4, ChannelAssumption DEF TypeOK, MasterTypeOK

-----------------------------------------------------------------------------
(***************************************************************************)
(* Every step keeps the invariant                                          *)
(***************************************************************************)

USE DEF EnableInv

\* Stages are numbers, and can be compared.
LEMMA StageIsNat == \A state : Stage(state) \in Nat
BY DEF Stage

\* It holds before the first pass, whatever the drive reports.
LEMMA EnableInit == Init => EnableInv
<1> SUFFICES ASSUME Init PROVE EnableInv
  OBVIOUS
<1>1. deviceState({}) = "NOT_READY"
  BY DEF deviceState
<1>2. Seen = "NOT_READY" /\ Told = "NOT_READY" /\ deviceState(reply.statusword) = "NOT_READY"
  BY <1>1 DEF Init, MasterInit, BusInit, Seen, Told
<1>3. /\ state_ = "START" /\ bus = "none" /\ image.controlword = {}
      /\ default_value.controlword = DefaultControlWord
  BY DEF Init, PluginInit, MasterInit, BusInit
<1>4. drive.state \in {"NOT_READY", "SWITCH_ON_DISABLED", "FAULT"} /\ drive.word = {}
  BY DEF Init, BusInit
<1> QED
  BY <1>2, <1>3, <1>4, ConfigAssumption
  DEF InputsDecoded, Behind, FaultSeen, EdgeKnown, DefaultSent, WordFits, Stage, DriveStates

\* A pass begins: what the plugin was to see is what it sees.
LEMMA BeginKeepsEnable ==
  ASSUME TypeOK, EnableInv, BeginUpdate \/ BeginRead
  PROVE  EnableInv'
<1>1. /\ UNCHANGED <<state_, reply, drive, default_value>> /\ bus' = "none" /\ pass' \in {"update", "read"}
      /\ image'.controlword = image.controlword
      /\ image'.statusword = IF bus = "reply" THEN reply.statusword ELSE image.statusword
  BY DEF BeginUpdate, BeginRead, BeginPass, ReceiveFrame, TypeOK, MasterTypeOK
<1>2. Seen' = Told /\ Told' = Told
  BY <1>1 DEF Seen, Told
<1>3. InputsDecoded'
  BY <1>1, <1>2 DEF InputsDecoded, Told
<1> QED
  BY <1>1, <1>2, <1>3 DEF Behind, FaultSeen, EdgeKnown, DefaultSent, WordFits

\* A step of a pass: the word follows the state, the state what is seen.
LEMMA ProcessKeepsEnable ==
  ASSUME TypeOK, WalkInv, StateInv, EnableInv, StatusWordMapped, WordIsThePlugins, ProcessData
  PROVE  EnableInv'
<1> DEFINE word == image.controlword
           sent == image'.controlword
<1>1. /\ Walking /\ UNCHANGED <<bus, reply, drive>> /\ Advance
      /\ image'.statusword = image.statusword
  BY ChannelStep
<1>2. bus = "none" /\ Told = Seen /\ Seen' = Seen /\ Told' = Seen
  BY <1>1 DEF InputsDecoded, Walking, Told, Seen, TypeOK, BusTypeOK
<1>3. \/ state_' = state_ /\ pass' = pass
      \/ state_' = Seen /\ pass' \notin {"update", "read"}
  BY StateStep
<1>4. word \in Word /\ state_ \in DeviceStates
  BY DEF TypeOK, MasterTypeOK, PluginTypeOK
<1>5. \/ sent = word
      \/ word = {} /\ 7 \notin sent
      \/ /\ state_ = "SWITCH_ON_DISABLED" => {1, 2} \subseteq sent /\ 0 \notin sent /\ 7 \notin sent
         /\ state_ = "READY_TO_SWITCH_ON" => {0, 1, 2} \subseteq sent /\ 3 \notin sent /\ 7 \notin sent
         /\ state_ \in {"SWITCH_ON", "QUICK_STOP"} => {0, 1, 2, 3} \subseteq sent /\ 7 \notin sent
         /\ state_ = "FAULT" /\ 7 \in word => 7 \in sent
         /\ state_ \notin {"SWITCH_ON_DISABLED", "READY_TO_SWITCH_ON", "SWITCH_ON", "QUICK_STOP", "FAULT"}
              => sent = word
  BY <1>4, WordStep, TransitionBits DEF DefaultSent
<1>6. DefaultSent'
  BY WordStep DEF DefaultSent
<1>7. InputsDecoded'
  BY <1>1, <1>2, <1>3 DEF InputsDecoded, Walking
<1>8. Behind'
  BY <1>1, <1>2, <1>3, <1>4 DEF Behind, FaultSeen, Stage, InputsDecoded, DriveStates
<1>9. EdgeKnown'
  BY <1>1, <1>2, <1>3, <1>5 DEF EdgeKnown, FaultSeen
<1>10. FaultSeen'
  <2>1. CASE state_ = "FAULT"
    <3>1. 7 \in word => 7 \in sent
      BY <1>5, <2>1
    <3> QED
      BY <1>1, <1>2, <2>1, <3>1 DEF FaultSeen
  <2>2. CASE state_ # "FAULT" /\ state_' = "FAULT"
    <3>1. Seen = "FAULT" /\ Told = "FAULT"
      BY <1>2, <1>3, <2>2
    <3>2. drive.state = "FAULT"
      BY <2>2, <3>1 DEF Behind, Stage, TypeOK, BusTypeOK, DriveStates
    <3> QED
      BY <1>1, <1>2, <3>1, <3>2 DEF FaultSeen
  <2>3. CASE state_' # "FAULT"
    BY <2>3 DEF FaultSeen
  <2> QED
    BY <2>1, <2>2, <2>3
<1>11. WordFits'
  <2>1. drive.state = "READY_TO_SWITCH_ON" =>
          /\ {1, 2} \subseteq sent /\ 7 \notin sent
          /\ 0 \in sent => 3 \notin sent /\ state_' = "READY_TO_SWITCH_ON"
    <3> SUFFICES ASSUME drive.state = "READY_TO_SWITCH_ON"
                 PROVE  /\ {1, 2} \subseteq sent /\ 7 \notin sent
                        /\ 0 \in sent => 3 \notin sent /\ state_' = "READY_TO_SWITCH_ON"
      OBVIOUS
    <3>1. state_ \in {"START", "NOT_READY", "SWITCH_ON_DISABLED", "READY_TO_SWITCH_ON"}
      BY <1>2, <1>4 DEF Behind, FaultSeen, Stage, InputsDecoded, DriveStates, DeviceStates
    <3>2. state_ = "READY_TO_SWITCH_ON" => state_' = "READY_TO_SWITCH_ON"
      BY <1>2, <1>3 DEF Behind, Stage, InputsDecoded, DriveStates
    <3> QED
      BY <1>5, <3>1, <3>2 DEF WordFits
  <2>2. drive.state = "SWITCH_ON" =>
          /\ {0, 1, 2} \subseteq sent /\ 7 \notin sent
          /\ state_' \in {"READY_TO_SWITCH_ON", "SWITCH_ON"}
          /\ 3 \in sent => state_' = "SWITCH_ON"
    <3> SUFFICES ASSUME drive.state = "SWITCH_ON"
                 PROVE  /\ {0, 1, 2} \subseteq sent /\ 7 \notin sent
                        /\ state_' \in {"READY_TO_SWITCH_ON", "SWITCH_ON"}
                        /\ 3 \in sent => state_' = "SWITCH_ON"
      OBVIOUS
    <3>1. state_ \in {"READY_TO_SWITCH_ON", "SWITCH_ON"}
      BY DEF WordFits
    <3>2. state_' = state_ \/ state_' = "SWITCH_ON"
      BY <1>2, <1>3, <3>1 DEF Behind, Stage, InputsDecoded, DriveStates
    <3> QED
      BY <1>5, <3>1, <3>2 DEF WordFits
  <2>3. drive.state \in {"OPERATION_ENABLED", "QUICK_STOP"} =>
          /\ {0, 1, 2, 3} \subseteq sent /\ 7 \notin sent
          /\ state_' \in {"SWITCH_ON", "OPERATION_ENABLED", "QUICK_STOP"}
    <3> SUFFICES ASSUME drive.state \in {"OPERATION_ENABLED", "QUICK_STOP"}
                 PROVE  /\ {0, 1, 2, 3} \subseteq sent /\ 7 \notin sent
                        /\ state_' \in {"SWITCH_ON", "OPERATION_ENABLED", "QUICK_STOP"}
      OBVIOUS
    <3>1. state_ \in {"SWITCH_ON", "OPERATION_ENABLED", "QUICK_STOP"}
      BY DEF WordFits
    <3>2. state_' \in {"SWITCH_ON", "OPERATION_ENABLED", "QUICK_STOP"}
      BY <1>2, <1>3, <3>1 DEF Behind, Stage, InputsDecoded, DriveStates
    <3> QED
      BY <1>5, <3>1, <3>2 DEF WordFits
  <2> QED
    BY <1>1, <2>1, <2>2, <2>3 DEF WordFits
<1> QED
  BY <1>6, <1>7, <1>8, <1>9, <1>10, <1>11

\* Between the passes nothing is learned.
LEMMA LoopKeepsEnable ==
  ASSUME TypeOK, EnableInv, Controllers \/ BeginWrite \/ Send
  PROVE  EnableInv'
<1>1. /\ UNCHANGED <<state_, image, default_value, reply, drive>>
      /\ pass \notin {"idle", "update", "read"} /\ pass' \notin {"update", "read"}
      /\ bus' # bus => bus' = "sent" /\ pass' = "idle"
  BY DEF Controllers, BeginWrite, Send, pluginVars, busVars
<1>2. Seen' = Seen /\ Told' = Told
  BY <1>1 DEF Seen, Told, InputsDecoded
<1> QED
  BY <1>1, <1>2 DEF InputsDecoded, Behind, FaultSeen, EdgeKnown, DefaultSent, WordFits

\* A frame that is lost leaves the plugin with what it has seen already.
LEMMA LoseKeepsEnable ==
  ASSUME TypeOK, EnableInv, LoseFrame
  PROVE  EnableInv'
<1>1. UNCHANGED <<state_, image, default_value, reply, drive, pass>> /\ bus # "none" /\ bus' = "none"
  BY DEF LoseFrame, pluginVars, masterVars
<1>2. Seen' = Seen /\ Told' = Seen
  BY <1>1 DEF Seen, Told
<1>3. state_ = Seen \/ (state_ = "START" /\ Seen = "NOT_READY")
  BY <1>1 DEF InputsDecoded
<1>4. Behind'
  BY <1>1, <1>2, <1>3 DEF Behind, Stage
<1>5. FaultSeen'
  BY <1>1, <1>2, <1>3 DEF FaultSeen
<1> QED
  BY <1>1, <1>2, <1>4, <1>5 DEF InputsDecoded, EdgeKnown, DefaultSent, WordFits

\* What a drive does by itself takes it forward, or leaves its state.
LEMMA DriveForward ==
  ASSUME TypeOK, DriveStep
  PROVE  /\ drive'.word = drive.word
         /\ \/ drive'.state = drive.state
            \/ drive.state = "NOT_READY" /\ drive'.state = "SWITCH_ON_DISABLED"
            \/ drive.state = "FAULT_REACTION" /\ drive'.state = "FAULT"
            \/ drive.state = "OPERATION_ENABLED" /\ drive'.state = "QUICK_STOP"
            \/ drive.state \notin {"FAULT", "FAULT_REACTION"} /\ drive'.state = "FAULT_REACTION"
<1> USE DEF TypeOK, BusTypeOK, Drive
<1>1. CASE Boot \/ FaultReactionEnds \/ CauseClears
  BY <1>1 DEF Boot, FaultReactionEnds, CauseClears
<1>2. CASE FaultOccurs \/ QuickStopSignal
  BY <1>2 DEF FaultOccurs, QuickStopSignal
<1>3. CASE Move \/ AlDown \/ AlUp
  BY <1>3 DEF Move, AlDown, AlUp
<1> QED
  BY <1>1, <1>2, <1>3 DEF DriveStep

\* The drive's own steps leave the plugin further behind, and the word fitting.
LEMMA DriveKeepsEnable ==
  ASSUME TypeOK, EnableInv, DriveStep
  PROVE  EnableInv'
<1>1. UNCHANGED <<state_, image, default_value, reply, bus, pass>>
  BY DriveStepFrame DEF pluginVars, masterVars
<1>2. Seen' = Seen /\ Told' = Told
  BY <1>1 DEF Seen, Told
<1>3. drive.state \in DriveStates
  BY DEF TypeOK, BusTypeOK
<1>4. Behind' /\ FaultSeen'
  BY <1>1, <1>2, <1>3, DriveForward DEF Behind, FaultSeen, Stage, DriveStates
<1>5. WordFits'
  BY <1>1, <1>3, DriveForward DEF WordFits, DriveStates
<1> QED
  BY <1>1, <1>2, <1>4, <1>5, DriveForward DEF InputsDecoded, EdgeKnown, DefaultSent

\* The frame reaches the drive: the word takes it one step on, or resets it, and
\* the plugin is told.
LEMMA ExchangeKeepsEnable ==
  ASSUME TypeOK, WalkInv, EnableInv, Exchange
  PROVE  EnableInv'
<1> DEFINE word == image.controlword
<1>1. UNCHANGED <<state_, image, default_value, pass>> /\ bus = "sent" /\ bus' = "reply" /\ pass = "idle"
  BY DEF Exchange, pluginVars, masterVars, WalkInv
<1>2. PICK mode \in {drive.mode, image.mode} :
        drive' = IF al_op THEN [drive EXCEPT !.state = NextDriveState(drive, word),
                                             !.word = word, !.mode = mode]
                          ELSE drive
  BY DEF Exchange
<1>3. drive.state \in DriveStates /\ drive'.state \in DriveStates
  BY <1>2, ObeyIsState DEF TypeOK, BusTypeOK, NextDriveState, DriveStates
<1>4. /\ Seen' = Seen /\ Told = Seen /\ Told' = drive'.state
      /\ deviceState(reply'.statusword) \in DriveStates
  <2>1. PICK extra \in StatusExtras : reply'.statusword = StatusBits(drive'.state) \cup extra
    BY DEF Exchange
  <2> QED
    BY <1>1, <1>3, <2>1, StatusDecodes DEF Seen, Told
<1>5. InputsDecoded'
  BY <1>1, <1>4 DEF InputsDecoded
<1>6. CASE drive'.state = drive.state /\ drive'.word = drive.word
  <2>1. Behind' /\ FaultSeen'
    BY <1>1, <1>4, <1>6, StageIsNat DEF Behind, FaultSeen
  <2> QED
    BY <1>1, <1>5, <1>6, <2>1 DEF EdgeKnown, DefaultSent, WordFits
<1>7. CASE al_op
  <2>1. drive'.word = word /\ drive'.state = NextDriveState(drive, word)
    BY <1>2, <1>7 DEF TypeOK, BusTypeOK
  <2>2. EdgeKnown' /\ DefaultSent'
    BY <1>1, <2>1 DEF EdgeKnown, DefaultSent
  <2>3. CASE Resets(drive, word)
    <3>1. drive'.state = "SWITCH_ON_DISABLED" /\ 7 \in word /\ state_ = "FAULT"
      BY <2>1, <2>3 DEF NextDriveState, Resets, EdgeKnown
    <3> QED
      BY <1>1, <1>4, <1>5, <2>1, <2>2, <3>1 DEF Behind, FaultSeen, WordFits, Stage
  <2>4. CASE drive.state \in {"FAULT", "FAULT_REACTION"} /\ ~Resets(drive, word)
    <3>1. drive'.state = drive.state
      BY <2>1, <2>4 DEF NextDriveState
    <3>2. state_ = "FAULT" => drive'.state = "FAULT" \/ (7 \in word /\ 7 \in drive'.word)
      BY <2>1, <2>4, <3>1 DEF FaultSeen
    <3>3. Behind' /\ FaultSeen'
      BY <1>1, <1>4, <2>4, <3>1, <3>2 DEF Behind, FaultSeen, Stage
    <3> QED
      BY <1>1, <1>5, <2>2, <2>4, <3>1, <3>3 DEF WordFits
  <2>5. CASE drive.state \notin {"FAULT", "FAULT_REACTION"}
    <3>1. drive'.state = Obey(drive.state, Command(word))
      BY <2>1, <2>5 DEF NextDriveState
    <3>2. \/ drive'.state = drive.state
          \/ /\ drive.state = "SWITCH_ON_DISABLED" /\ drive'.state = "READY_TO_SWITCH_ON"
             /\ Command(word) = "shutdown"
          \/ /\ drive.state = "READY_TO_SWITCH_ON" /\ drive'.state = "SWITCH_ON"
             /\ Command(word) = "switch_on"
          \/ /\ drive.state = "SWITCH_ON" /\ drive'.state = "OPERATION_ENABLED"
             /\ Command(word) = "enable_operation"
          \/ /\ drive.state = "QUICK_STOP" /\ drive'.state = "OPERATION_ENABLED"
             /\ Command(word) = "enable_operation"
      <4>1. CASE drive.state \in {"NOT_READY", "SWITCH_ON_DISABLED"}
        BY <3>1, <4>1 DEF Obey
      <4>2. CASE drive.state = "READY_TO_SWITCH_ON"
        <5>1. {1, 2} \subseteq word /\ 7 \notin word /\ (0 \in word => 3 \notin word)
          BY <4>2 DEF WordFits
        <5>2. Command(word) \in {"shutdown", "switch_on"}
          BY <5>1 DEF Command
        <5> QED
          BY <3>1, <4>2, <5>2 DEF Obey
      <4>3. CASE drive.state = "SWITCH_ON"
        <5>1. {0, 1, 2} \subseteq word /\ 7 \notin word
          BY <4>3 DEF WordFits
        <5>2. Command(word) \in {"switch_on", "enable_operation"}
          BY <5>1 DEF Command
        <5> QED
          BY <3>1, <4>3, <5>2 DEF Obey
      <4>4. CASE drive.state \in {"OPERATION_ENABLED", "QUICK_STOP"}
        <5>1. {0, 1, 2, 3} \subseteq word /\ 7 \notin word
          BY <4>4 DEF WordFits
        <5>2. Command(word) = "enable_operation"
          BY <5>1 DEF Command
        <5> QED
          BY <3>1, <4>4, <5>2 DEF Obey
      <4> QED
        BY <1>3, <2>5, <4>1, <4>2, <4>3, <4>4 DEF DriveStates
    <3>3. state_ = "FAULT" => 7 \in word /\ drive.state = "SWITCH_ON_DISABLED"
      BY <2>5 DEF FaultSeen
    <3>4. Command(word) = "shutdown" => {1, 2} \subseteq word /\ 0 \notin word /\ 7 \notin word
      BY DEF Command
    <3>5. Command(word) = "switch_on" => {0, 1, 2} \subseteq word /\ 3 \notin word /\ 7 \notin word
      BY DEF Command
    <3>6. Command(word) = "enable_operation" => {0, 1, 2, 3} \subseteq word /\ 7 \notin word
      BY DEF Command
    <3>7. Behind'
      BY <1>1, <1>4, <3>2 DEF Behind, Stage
    <3>8. FaultSeen'
      BY <1>1, <1>4, <2>1, <3>2, <3>3, <3>4 DEF FaultSeen, Stage
    <3>9. WordFits'
      BY <1>1, <3>2, <3>4, <3>5, <3>6 DEF WordFits
    <3> QED
      BY <1>5, <2>2, <3>7, <3>8, <3>9
  <2> QED
    BY <2>3, <2>4, <2>5
<1> QED
  BY <1>2, <1>6, <1>7

\* Every step keeps the invariant.
LEMMA EnableKept ==
  ASSUME TypeOK, WalkInv, StateInv, EnableInv, StatusWordMapped, WordIsThePlugins, [Next]_vars
  PROVE  EnableInv'
<1>1. CASE UNCHANGED vars
  BY <1>1 DEF vars, pluginVars, masterVars, busVars, InputsDecoded, Behind, FaultSeen, EdgeKnown,
              DefaultSent, WordFits, Seen, Told
<1> QED
  BY <1>1, BeginKeepsEnable, ProcessKeepsEnable, LoopKeepsEnable, ExchangeKeepsEnable, LoseKeepsEnable,
     DriveKeepsEnable DEF Next, DriverStep

\* What a plugin holds of its drive and what it commands fit the drive throughout,
\* whatever is lost and however the drive fares.
THEOREM EnableInvariant ==
  ASSUME StatusWordMapped, WordIsThePlugins
  PROVE  Spec => []EnableInv
<1>1. TypeOK /\ WalkInv /\ StateInv /\ EnableInv /\ [Next]_vars => EnableInv'
  BY EnableKept
<1> QED
  BY <1>1, EnableInit, TypeCorrect, WalkHolds, StateHolds, PTL DEF Spec

\* A drive whose power stage is on is one of which the plugin holds a state at or
\* after the enabling, for any configuration whose status word is mapped and any
\* number of faults, lost frames and losses of OP (transition, checkStateChange).
THEOREM EnabledKnowingly ==
  ASSUME StatusWordMapped, WordIsThePlugins
  PROVE  Spec => []EnabledOnlyKnowingly
<1>1. EnableInv => EnabledOnlyKnowingly
  BY DEF WordFits, EnabledOnlyKnowingly
<1> QED
  BY <1>1, EnableInvariant, PTL

\* No control word the plugin computes from stale states takes an enabled drive out
\* of operation, with the same generality (transition, processData).
THEOREM NeverDisabled ==
  ASSUME StatusWordMapped, WordIsThePlugins
  PROVE  Spec => DriverNeverDisables
<1>1. ASSUME TypeOK, EnableInv, [Next]_vars, bus = "sent", bus' = "reply",
             drive.state = "OPERATION_ENABLED"
      PROVE  drive'.state = "OPERATION_ENABLED"
  <2>1. Exchange
    <3>1. ~(DriverStep \/ LoseFrame \/ DriveStep \/ UNCHANGED vars)
      BY <1>1, ChannelStep, DriveStepFrame
      DEF DriverStep, BeginUpdate, BeginRead, BeginPass, ReceiveFrame, Controllers, BeginWrite, Send,
          LoseFrame, vars, busVars
    <3> QED
      BY <1>1, <3>1 DEF Next
  <2>2. {0, 1, 2, 3} \subseteq image.controlword /\ 7 \notin image.controlword
    BY <1>1 DEF WordFits
  <2>3. Command(image.controlword) = "enable_operation"
    BY <2>2 DEF Command
  <2>4. NextDriveState(drive, image.controlword) = "OPERATION_ENABLED"
    BY <1>1, <2>3 DEF NextDriveState, Obey
  <2> QED
    BY <1>1, <2>1, <2>4 DEF Exchange, TypeOK, BusTypeOK
<1>2. TypeOK /\ EnableInv /\ [Next]_vars
        => [(bus = "sent" /\ bus' = "reply" /\ drive.state = "OPERATION_ENABLED")
              => drive'.state = "OPERATION_ENABLED"]_vars
  BY <1>1
<1> QED
  BY <1>2, TypeCorrect, EnableInvariant, PTL DEF Spec, DriverNeverDisables
=============================================================================
