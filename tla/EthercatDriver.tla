--------------------------- MODULE EthercatDriver ---------------------------
(***************************************************************************)
(* The ros2_control system EthercatDriver and the EcMaster it owns, run by *)
(* two threads.                                                            *)
(*                                                                         *)
(* The service thread carries out the lifecycle transitions: on_activate   *)
(* registers the slaves, downloads their SDOs, activates the master and    *)
(* cycles it until every module is initialized; on_deactivate stops it.    *)
(* Both hold ec_mutex_ throughout.  The real-time thread calls read, the   *)
(* controllers and write in turn, whatever the lifecycle state, and skips  *)
(* read or write when it cannot take ec_mutex_ at once.                    *)
(*                                                                         *)
(* Each module is a GenericEcSlave of one joint with a velocity command    *)
(* and a velocity state.  The framework that calls the driver, the IgH     *)
(* master and the slaves are external, modelled from how the code uses     *)
(* them; frames always return (CiA402Drive loses them).                    *)
(***************************************************************************)
EXTENDS Integers, Sequences, FiniteSets

CONSTANTS
  NumModules,               \* ec_modules_, in the order of the URDF
  Inverted,                 \* modules whose joint has invert_velocity
  RightSide,                \* modules whose joint is a right side wheel
  Overriding,               \* modules whose plugin overrides initialized()
  Velocities,               \* what controllers command
  Measurements,             \* velocities the slaves report
  NaN,
  DefaultVelocity,          \* default of the velocity channel
  max_startup_cycles,
  check_state_frequency_,
  MaxActivations, MaxFailures    \* bounds on the environment

Modules == 1..NumModules

ASSUME ModuleAssumption ==
  /\ NumModules \in Nat \ {0}
  /\ Inverted \subseteq Modules
  /\ RightSide \subseteq Modules
  /\ Overriding \subseteq Modules

ASSUME ValueAssumption ==
  /\ NaN \notin Int
  /\ Velocities \subseteq Int \cup {NaN}
  /\ Measurements \subseteq Int
  /\ Measurements # {}
  /\ DefaultVelocity \in Int \cup {NaN}

ASSUME BoundAssumption ==
  /\ max_startup_cycles \in Nat \ {0}
  /\ check_state_frequency_ \in Nat \ {0}
  /\ MaxActivations \in Nat
  /\ MaxFailures \in Nat

VARIABLES
  \* the framework and the two threads
  lifecycle,                \* state of the hardware component
  service, at, cycle,       \* the service thread and its loop counters
  rt,                       \* the real-time thread
  ec_mutex_,
  \* EthercatDriver and its modules
  activated_,
  hw_joint_commands_, hw_joint_states_,
  is_operational_,
  \* EcMaster
  slave_info_,              \* slaves whose state is watched, with the last one seen
  entries,                  \* registrations of modules in domain 0, in order
  update_counter_,          \* modulo check_state_frequency_
  outputs, inputs,          \* process data
  \* the IgH master and the slaves
  master_active, al_op, ready, budget,
  \* history, read by properties only
  downloaded, unreceived, mismatch, fresh,
  asked,                    \* what the controllers wrote last
  turned,                   \* an odd number of writes inverted it since
  sent                      \* modules registered in the last of these writes

serviceVars == <<lifecycle, service, at, cycle>>
driverVars == <<activated_, hw_joint_commands_, hw_joint_states_, is_operational_>>
masterVars == <<slave_info_, entries, update_counter_, outputs, inputs>>
externalVars == <<master_active, al_op, ready, budget>>
commandHistory == <<asked, turned, sent>>
historyVars == <<downloaded, unreceived, mismatch, fresh, commandHistory>>
vars == <<serviceVars, rt, ec_mutex_, driverVars, masterVars, externalVars, historyVars>>

-----------------------------------------------------------------------------

Init ==
  /\ lifecycle = "inactive"
  /\ service = "idle" /\ at = 1 /\ cycle = 0
  /\ rt = "read"
  /\ ec_mutex_ = "free"
  /\ activated_ = FALSE
  /\ hw_joint_commands_ = [m \in Modules |-> NaN]
  /\ hw_joint_states_ = [m \in Modules |-> NaN]
  /\ is_operational_ = [m \in Modules |-> FALSE]
  /\ slave_info_ = <<>>
  /\ entries = <<>>
  /\ update_counter_ = 0
  /\ outputs = [m \in Modules |-> 0]
  /\ inputs = [m \in Modules |-> 0]
  /\ master_active = FALSE
  /\ al_op \in [Modules -> BOOLEAN]
  /\ ready = [m \in Modules |-> m \notin Overriding]
  /\ budget = [activations |-> MaxActivations, failures |-> MaxFailures]
  /\ downloaded = {}
  /\ unreceived = 0
  /\ mismatch = [m \in Modules |-> 0]
  /\ fresh = FALSE
  /\ asked = [m \in Modules |-> NaN]
  /\ turned = [m \in Modules |-> FALSE]
  /\ sent = {}

Watched == {slave_info_[i].slave : i \in DOMAIN slave_info_}
Registered == {entries[i] : i \in DOMAIN entries}

-----------------------------------------------------------------------------
(***************************************************************************)
(* EcMaster: one pass over the process data                                *)
(***************************************************************************)

Negated(v) == IF v = NaN THEN NaN ELSE -v

Multiplier(m) == IF m \in RightSide THEN -1 ELSE 1

\* ec_update of the velocity command channel: the command, or the default, or
\* what the process data already holds.
CommandOutput(m, command) ==
  CASE command # NaN                           -> Multiplier(m) * command
    [] command = NaN /\ DefaultVelocity # NaN  -> DefaultVelocity
    [] OTHER                                   -> outputs[m]

\* processData of every registered channel, over the commands given.
ProcessOutputs(commands) ==
  outputs' = [m \in Modules |->
                IF m \in Registered THEN CommandOutput(m, commands[m]) ELSE outputs[m]]

ProcessedStates(data) ==
  [m \in Modules |->
     IF m \in Registered THEN Multiplier(m) * data[m] ELSE hw_joint_states_[m]]

\* ecrt_master_receive and ecrt_domain_process.
Receive == inputs' \in [Modules -> Measurements]

\* A plugin that overrides initialized() reports it once it has found its
\* slave operational in a pass.
LearnReady ==
  ready' \in {r \in [Modules -> BOOLEAN] :
                \A m \in Modules :
                  /\ ready[m] => r[m]
                  /\ r[m] /\ ~ready[m] => m \in Registered /\ is_operational_'[m]}

\* Modules whose slave was seen to change state since its last check.
Changed == {m \in Modules : \E i \in DOMAIN slave_info_ :
              slave_info_[i].slave = m /\ slave_info_[i].operational # al_op[m]}

\* Every check_state_frequency_ passes changed states are passed to the plugins.
CheckSlaveStates ==
  /\ IF update_counter_ = 0
       THEN /\ is_operational_' = [m \in Modules |->
                 IF m \in Changed THEN al_op[m] ELSE is_operational_[m]]
            /\ slave_info_' = [i \in DOMAIN slave_info_ |->
                 [slave_info_[i] EXCEPT !.operational = al_op[slave_info_[i].slave]]]
       ELSE UNCHANGED <<is_operational_, slave_info_>>
  /\ mismatch' = [m \in Modules |->
                    IF m \in Watched /\ is_operational_'[m] # al_op[m]
                      THEN mismatch[m] + 1 ELSE 0]

\* A variant of CountPass that counts the passes of update only.
CountUpdates ==
  update_counter_' = IF service = "start" THEN (update_counter_ + 1) % check_state_frequency_
                                          ELSE update_counter_

CountPass == update_counter_' = (update_counter_ + 1) % check_state_frequency_

-----------------------------------------------------------------------------
(***************************************************************************)
(* The framework                                                           *)
(***************************************************************************)

CallActivate ==
  /\ service = "idle" /\ lifecycle = "inactive"
  /\ budget.activations > 0
  /\ budget' = [budget EXCEPT !.activations = @ - 1]
  /\ service' = "on_activate"
  /\ UNCHANGED <<lifecycle, at, cycle, rt, ec_mutex_, driverVars, masterVars,
                 master_active, al_op, ready, historyVars>>

CallDeactivate ==
  /\ service = "idle" /\ lifecycle = "active"
  /\ service' = "on_deactivate"
  /\ UNCHANGED <<lifecycle, at, cycle, rt, ec_mutex_, driverVars, masterVars,
                 externalVars, historyVars>>

\* A transition that returned an error finalizes the component: the driver
\* does not define on_error.
Complete ==
  /\ service \in {"activated", "deactivated", "error"}
  /\ lifecycle' = CASE service = "activated"   -> "active"
                    [] service = "deactivated" -> "inactive"
                    [] OTHER                   -> "finalized"
  /\ service' = "idle"
  /\ UNCHANGED <<at, cycle, rt, ec_mutex_, driverVars, masterVars, externalVars, historyVars>>

-----------------------------------------------------------------------------
(***************************************************************************)
(* on_activate and on_deactivate                                           *)
(***************************************************************************)

\* Both handlers lock first; on_activate returns at once if it finds the
\* driver activated.
Lock ==
  /\ service \in {"on_activate", "on_deactivate"}
  /\ ec_mutex_ = "free"
  /\ service' = CASE service = "on_deactivate"             -> "stop"
                  [] service = "on_activate" /\ activated_ -> "error"
                  [] OTHER                                 -> "add"
  /\ ec_mutex_' = IF service' = "error" THEN "free" ELSE "service"
  /\ at' = 1 /\ cycle' = 0
  /\ downloaded' = IF service = "on_activate" THEN {} ELSE downloaded
  /\ UNCHANGED <<lifecycle, rt, driverVars, masterVars, externalVars,
                 unreceived, mismatch, fresh, commandHistory>>

\* The handler returns and its lock_guard unlocks the mutex.
Return(result) ==
  /\ service' = result
  /\ ec_mutex_' = "free"
  /\ UNCHANGED <<lifecycle, at, cycle, rt>>

\* A call that may fail, as often as the bound allows.
Fails ==
  /\ budget.failures > 0
  /\ budget' = [budget EXCEPT !.failures = @ - 1]
  /\ UNCHANGED <<master_active, al_op, ready>>

\* An invalid control_frequency, alias or position; it is so from the first time.
ParameterInvalid ==
  /\ service = "add"
  /\ ~master_active
  /\ Fails
  /\ Return("error")
  /\ UNCHANGED <<driverVars, masterVars, historyVars>>

\* The next step of on_activate over the modules, or the one after the loop.
NextModule(after) ==
  /\ IF at < NumModules THEN at' = at + 1 /\ service' = service
                        ELSE at' = 1 /\ service' = after
  /\ UNCHANGED <<lifecycle, cycle, rt, ec_mutex_>>

\* addSlave returns early, with a warning only, when the slave cannot be
\* configured or its PDOs cannot; a second activation adds everything again.
AddSlave ==
  /\ service = "add"
  /\ \/ /\ slave_info_' = Append(slave_info_, [slave |-> at, operational |-> FALSE])
        /\ entries' = Append(entries, at)
        /\ UNCHANGED externalVars
     \/ /\ slave_info_' = Append(slave_info_, [slave |-> at, operational |-> FALSE])
        /\ entries' = entries
        /\ Fails
     \/ /\ UNCHANGED <<slave_info_, entries>>
        /\ Fails
  /\ NextModule("sdo")
  /\ UNCHANGED <<driverVars, update_counter_, outputs, inputs, historyVars>>

\* A variant of AbortsOn that carries on when a download fails.
AbortsNever(ret) == FALSE

\* What on_activate makes of the return value of configSlaveSdo.
AbortsOn(ret) == ret # 0

\* The configured SDOs of one module are downloaded, or one of them fails.
ConfigSlaveSdo ==
  /\ service = "sdo"
  /\ \E ret \in {0, -1} :
       /\ IF ret = 0 THEN downloaded' = downloaded \cup {at} /\ UNCHANGED externalVars
                     ELSE downloaded' = downloaded /\ Fails
       /\ IF AbortsOn(ret) THEN Return("error") ELSE NextModule("activate")
  /\ UNCHANGED <<driverVars, masterVars, unreceived, mismatch, fresh, commandHistory>>

Activate ==
  /\ service = "activate"
  /\ master_active' = TRUE
  /\ service' = "start"
  /\ UNCHANGED <<lifecycle, at, cycle, rt, ec_mutex_, driverVars, masterVars,
                 al_op, ready, budget, historyVars>>

ActivateFails ==
  /\ service = "activate"
  /\ Fails
  /\ Return("error")
  /\ UNCHANGED <<driverVars, masterVars, historyVars>>

\* is_all_init, after the pass of update.
AllInitialized == \A m \in Modules : ready'[m]

\* A variant of StartupLeft that runs one cycle too many.
StartupOneMore == cycle < max_startup_cycles

StartupLeft == cycle + 1 < max_startup_cycles

\* A variant of CountCycle that forgets to count.
CountNothing == cycle' = cycle

CountCycle == cycle' = cycle + 1

\* The part that update shares with a variant of it that sends without
\* having received.
ProcessAndSend ==
  /\ CheckSlaveStates
  /\ hw_joint_states_' = ProcessedStates(inputs')
  /\ ProcessOutputs(hw_joint_commands_)
  /\ LearnReady
  /\ CountPass
  /\ fresh' = FALSE
  /\ UNCHANGED <<entries, hw_joint_commands_, master_active, al_op, budget,
                 downloaded, commandHistory>>

SendOnly == inputs' = inputs /\ unreceived' = unreceived + 1 /\ ProcessAndSend

\* EcMaster::update: receive, process and send.
Update == Receive /\ unreceived' = 1 /\ ProcessAndSend

\* One cycle of the startup loop.
StartupCycle ==
  /\ service = "start"
  /\ entries # <<>>
  /\ Update
  /\ \/ /\ AllInitialized
        /\ activated_' = TRUE
        /\ Return("activated")
     \/ /\ ~AllInitialized /\ StartupLeft
        /\ CountCycle
        /\ UNCHANGED <<lifecycle, service, at, rt, ec_mutex_, activated_>>
     \/ /\ ~AllInitialized /\ ~StartupLeft
        /\ activated_' = FALSE
        /\ Return("error")

\* With no slave in domain 0, update throws and on_activate lets it through.
NoDomain ==
  /\ service = "start"
  /\ entries = <<>>
  /\ service' = "idle"
  /\ lifecycle' = "terminated"
  /\ ec_mutex_' = "free"
  /\ UNCHANGED <<at, cycle, rt, driverVars, masterVars, externalVars, historyVars>>

Deactivate ==
  /\ service = "stop"
  /\ activated_' = FALSE
  /\ Return("deactivated")
  /\ UNCHANGED <<hw_joint_commands_, hw_joint_states_, is_operational_, masterVars,
                 externalVars, historyVars>>

-----------------------------------------------------------------------------
(***************************************************************************)
(* The real-time thread: read, the controllers, write                      *)
(***************************************************************************)

\* A variant of TryLock that trusts the lock alone.
TryLockOnly == ec_mutex_ = "free"

\* The handler runs if it owns the lock and the driver is activated.
TryLock == ec_mutex_ = "free" /\ activated_

\* The framework calls the component while it is inactive or active.
Called == lifecycle \in {"inactive", "active"}

Enter(handler, body, skipped) ==
  /\ Called
  /\ rt = handler
  /\ IF TryLock THEN ec_mutex_' = "rt" /\ rt' = body
                ELSE ec_mutex_' = ec_mutex_ /\ rt' = skipped
  /\ UNCHANGED <<serviceVars, driverVars, masterVars, externalVars, historyVars>>

EnterRead == Enter("read", "reading", "controllers")
EnterWrite == Enter("write", "writing", "read")

Inverts(m, v) == IF m \in Inverted THEN Negated(v) ELSE v

\* A variant of StatesRead that inverts before the pass, which undoes it.
StatesReadEarly(states) == states

\* The states read() leaves: those of the pass, inverted where asked for.
StatesRead(states) == [m \in Modules |-> Inverts(m, states[m])]

\* readData runs its pass over the commands too, and sends nothing.
Read ==
  /\ rt = "reading"
  /\ Receive /\ unreceived' = 0
  /\ CheckSlaveStates
  /\ hw_joint_states_' = StatesRead(ProcessedStates(inputs'))
  /\ ProcessOutputs(hw_joint_commands_)
  /\ LearnReady
  /\ CountPass
  /\ fresh' = TRUE
  /\ ec_mutex_' = "free" /\ rt' = "controllers"
  /\ UNCHANGED <<serviceVars, activated_, hw_joint_commands_, entries, master_active,
                 al_op, budget, downloaded, commandHistory>>

\* While the component is active the controllers write some of the commands;
\* they may write a NaN.
Controllers ==
  /\ Called
  /\ rt = "controllers"
  /\ \E W \in IF lifecycle = "active" THEN SUBSET Modules ELSE {{}} :
       \E c \in [W -> Velocities] :
         /\ hw_joint_commands_' =
              [m \in Modules |-> IF m \in W THEN c[m] ELSE hw_joint_commands_[m]]
         /\ asked' = [m \in Modules |-> IF m \in W THEN c[m] ELSE asked[m]]
         /\ turned' = [m \in Modules |-> turned[m] /\ m \notin W]
         /\ sent' = sent \ W
  /\ fresh' = FALSE
  /\ rt' = "write"
  /\ UNCHANGED <<serviceVars, ec_mutex_, activated_, hw_joint_states_, is_operational_,
                 masterVars, externalVars, downloaded, unreceived, mismatch>>

Finite(v) == IF v = NaN THEN 0 ELSE v

\* A variant of CommandsWritten that filters and does not invert.
CommandsFiltered == [m \in Modules |-> Finite(hw_joint_commands_[m])]

\* write() filters and inverts the commands in place.
CommandsWritten == [m \in Modules |-> Inverts(m, Finite(hw_joint_commands_[m]))]

\* A variant of Unlock that forgets to when every joint is at rest.
UnlockUnlessStill ==
  ec_mutex_' = IF \A m \in Modules : outputs'[m] = 0 THEN ec_mutex_ ELSE "free"

Unlock == ec_mutex_' = "free"

\* writeData runs its pass over the old inputs and sends.
Write ==
  /\ rt = "writing"
  /\ hw_joint_commands_' = CommandsWritten
  /\ hw_joint_states_' = ProcessedStates(inputs)
  /\ ProcessOutputs(CommandsWritten)
  /\ unreceived' = unreceived + 1
  /\ turned' = [m \in Modules |-> m \in Inverted /\ ~turned[m]]
  /\ sent' = Registered
  /\ Unlock /\ rt' = "read"
  /\ UNCHANGED <<serviceVars, activated_, is_operational_, slave_info_, entries,
                 update_counter_, inputs, externalVars, downloaded, mismatch, fresh, asked>>

\* The slave reaches or leaves the EtherCAT state OP.
AlChange(m) ==
  /\ al_op' = [al_op EXCEPT ![m] = ~@]
  /\ UNCHANGED <<serviceVars, rt, ec_mutex_, driverVars, masterVars,
                 master_active, ready, budget, historyVars>>

-----------------------------------------------------------------------------

ServiceStep ==
  \/ CallDeactivate
  \/ Complete
  \/ ParameterInvalid
  \/ AddSlave
  \/ ConfigSlaveSdo
  \/ Activate
  \/ ActivateFails
  \/ StartupCycle
  \/ NoDomain
  \/ Deactivate

RtStep ==
  \/ EnterRead
  \/ Read
  \/ Controllers
  \/ EnterWrite
  \/ Write

Next ==
  \/ CallActivate
  \/ ServiceStep
  \/ Lock
  \/ RtStep
  \/ \E m \in Modules : AlChange(m)

Spec == Init /\ [][Next]_vars

\* The service thread runs on; the real-time thread is called periodically and
\* leaves ec_mutex_ free for most of its period, so that a blocked lock_guard
\* gets it in the end.
FairSpec == Spec /\ WF_vars(ServiceStep) /\ SF_vars(Lock) /\ WF_vars(RtStep)

-----------------------------------------------------------------------------
(***************************************************************************)
(* Types                                                                   *)
(***************************************************************************)

IntOrNaN == Int \cup {NaN}

ThreadTypeOK ==
  /\ lifecycle \in {"inactive", "active", "finalized", "terminated"}
  /\ service \in {"idle", "on_activate", "add", "sdo", "activate", "start", "activated",
                  "on_deactivate", "stop", "deactivated", "error"}
  /\ at \in Modules
  /\ cycle \in 0..(max_startup_cycles - 1)
  /\ rt \in {"read", "reading", "controllers", "write", "writing"}
  /\ ec_mutex_ \in {"free", "service", "rt"}

DriverTypeOK ==
  /\ activated_ \in BOOLEAN
  /\ hw_joint_commands_ \in [Modules -> IntOrNaN]
  /\ hw_joint_states_ \in [Modules -> IntOrNaN]
  /\ is_operational_ \in [Modules -> BOOLEAN]

MasterTypeOK ==
  /\ slave_info_ \in Seq([slave : Modules, operational : BOOLEAN])
  /\ entries \in Seq(Modules)
  /\ update_counter_ \in 0..(check_state_frequency_ - 1)
  /\ outputs \in [Modules -> Int]
  /\ inputs \in [Modules -> Int]

ExternalTypeOK ==
  /\ master_active \in BOOLEAN
  /\ al_op \in [Modules -> BOOLEAN]
  /\ ready \in [Modules -> BOOLEAN]
  /\ budget \in [activations : Nat, failures : Nat]

HistoryTypeOK ==
  /\ downloaded \subseteq Modules
  /\ unreceived \in Nat
  /\ mismatch \in [Modules -> Nat]
  /\ fresh \in BOOLEAN
  /\ asked \in [Modules -> IntOrNaN]
  /\ turned \in [Modules -> BOOLEAN]
  /\ sent \subseteq Modules

\* Every variable has its type: the threads, the driver, the master, the slaves.
TypeOK ==
  /\ ThreadTypeOK
  /\ DriverTypeOK
  /\ MasterTypeOK
  /\ ExternalTypeOK
  /\ HistoryTypeOK

-----------------------------------------------------------------------------
(***************************************************************************)
(* Properties                                                              *)
(***************************************************************************)

\* While read or write runs its pass no lifecycle transition is under way, the
\* driver is activated, and there is a domain to run the pass over: the two
\* threads never touch the master together and readData never throws.
PassesAreExclusive ==
  rt \in {"reading", "writing"}
    => /\ service \notin {"add", "sdo", "activate", "start", "stop"}
       /\ activated_
       /\ entries # <<>>

\* However the transitions make read or write skip, frames never pile up
\* unreceived: the last frame of the startup loop and one of write at most.
SendsAreReceived == unreceived <= 2

\* A module whose slave is watched learns within check_state_frequency_ passes
\* that it reached or left OP, over deactivations and repeated registrations.
OperationalKnownInTime ==
  \A m \in Watched : mismatch[m] < check_state_frequency_

\* write sends commands only when every SDO configured for every module was
\* downloaded in the activation it follows.
FramesOnlyAfterSdo == rt = "writing" => downloaded = Modules

\* What the controllers asked for, as often turned around as write inverted it:
\* each write does so in place (ethercat_driver.cpp:537), and the command of an
\* inverted joint that the controllers do not write again alternates.
Carried(m) == IF turned[m] THEN -Finite(asked[m]) ELSE Finite(asked[m])

\* From the write that sends a command on, the process data carries it, with the
\* sign of the joint, until the controllers write that joint again, however many
\* cycles, skipped handlers, deactivations and startup loops come between.  Only
\* a write turns an inverted command around: the passes of read and of a startup
\* loop over the commands inverted in place invert nothing.
CommandsCarried == \A m \in sent : outputs[m] = Multiplier(m) * Carried(m)

\* A slave that moves as it is told is seen to move as the controllers asked:
\* the inversions of the command path and of the state path cancel.  What is left
\* is that of an inverted command that an even number of writes went over.
FeedbackMatchesCommand ==
  (rt = "controllers" /\ fresh)
    => \A m \in sent :
         inputs[m] = outputs[m] =>
           hw_joint_states_[m] = IF m \in Inverted /\ ~turned[m] THEN -Finite(asked[m])
                                                                ELSE Finite(asked[m])

\* on_activate returns, or ends the process: no failure, and no module that is
\* never initialized, keeps it in a loop.
ActivationReturns == (service = "add") ~> (service = "idle")

\* A driver that stays activated keeps sending: no other transition that is tried
\* meanwhile, nor a skipped handler, leaves ec_mutex_ locked.  (A transition that
\* fails finalizes the component, and nothing is sent any more.)
FramesKeepFlowing == <>[]activated_ => []<>(rt = "writing")
=============================================================================
