------------------------ MODULE EthercatDriverProofs ------------------------
(***************************************************************************)
(* What holds of the driver and its two threads for any number of modules, *)
(* any joints and any bounds, by one inductive invariant.                  *)
(***************************************************************************)
EXTENDS EthercatDriver, TLAPS

USE ModuleAssumption, ValueAssumption, BoundAssumption

-----------------------------------------------------------------------------
(***************************************************************************)
(* Types                                                                   *)
(***************************************************************************)

\* Sequences of any elements: what one holds, how one is made and extended.
LEMMA SequenceHolds ==
  ASSUME NEW S, NEW s \in Seq(S)
  PROVE  /\ Len(s) \in Nat /\ DOMAIN s = 1..Len(s)
         /\ \A i \in DOMAIN s : s[i] \in S
OBVIOUS

\* A function over the indices of a sequence is one.
LEMMA SequenceMade ==
  ASSUME NEW S, NEW n \in Nat, NEW f \in [1..n -> S]
  PROVE  f \in Seq(S)
OBVIOUS

\* What Append adds, and what it leaves.
LEMMA SequenceExtended ==
  ASSUME NEW S, NEW s \in Seq(S), NEW e \in S
  PROVE  /\ Append(s, e) \in Seq(S)
         /\ DOMAIN Append(s, e) = DOMAIN s \cup {Len(s) + 1}
         /\ \A i \in DOMAIN s : Append(s, e)[i] = s[i]
         /\ Append(s, e)[Len(s) + 1] = e
OBVIOUS

\* The record of a watched slave, and what a check makes of it.
LEMMA SlaveRecord ==
  ASSUME NEW m \in Modules, NEW b \in BOOLEAN
  PROVE  [slave |-> m, operational |-> b] \in [slave : Modules, operational : BOOLEAN]
OBVIOUS

\* A check changes the state in a record, and nothing else.
LEMMA SlaveChecked ==
  ASSUME NEW s \in [slave : Modules, operational : BOOLEAN], NEW b \in BOOLEAN
  PROVE  /\ [s EXCEPT !.operational = b] \in [slave : Modules, operational : BOOLEAN]
         /\ [s EXCEPT !.operational = b].slave = s.slave
         /\ [s EXCEPT !.operational = b].operational = b
OBVIOUS

\* What the checks of a pass leave of the types.
LEMMA CheckTypes ==
  ASSUME TypeOK, CheckSlaveStates
  PROVE  /\ is_operational_' \in [Modules -> BOOLEAN]
         /\ slave_info_' \in Seq([slave : Modules, operational : BOOLEAN])
         /\ mismatch' \in [Modules -> Nat]
<1> USE DEF TypeOK, DriverTypeOK, MasterTypeOK, ExternalTypeOK, HistoryTypeOK
<1>1. mismatch' \in [Modules -> Nat]
  <2>1. mismatch' = [m \in Modules |-> IF m \in Watched /\ is_operational_'[m] # al_op[m]
                                         THEN mismatch[m] + 1 ELSE 0]
    BY DEF CheckSlaveStates
  <2> QED
    BY <2>1
<1>2. CASE update_counter_ = 0
  <2>1. is_operational_' = [m \in Modules |-> IF m \in Changed THEN al_op[m] ELSE is_operational_[m]]
    BY <1>2 DEF CheckSlaveStates
  <2>2. \A m \in Modules : (IF m \in Changed THEN al_op[m] ELSE is_operational_[m]) \in BOOLEAN
    OBVIOUS
  <2>3. is_operational_' \in [Modules -> BOOLEAN]
    BY <2>1, <2>2
  <2>4. slave_info_' = [i \in DOMAIN slave_info_ |->
                          [slave_info_[i] EXCEPT !.operational = al_op[slave_info_[i].slave]]]
    BY <1>2 DEF CheckSlaveStates
  <2>5. \A i \in DOMAIN slave_info_ :
          [slave_info_[i] EXCEPT !.operational = al_op[slave_info_[i].slave]]
            \in [slave : Modules, operational : BOOLEAN]
    <3> TAKE i \in DOMAIN slave_info_
    <3>1. slave_info_[i] \in [slave : Modules, operational : BOOLEAN]
      BY SequenceHolds
    <3>2. al_op[slave_info_[i].slave] \in BOOLEAN
      BY <3>1
    <3> QED
      BY <3>1, <3>2, SlaveChecked
  <2>6. slave_info_' \in Seq([slave : Modules, operational : BOOLEAN])
    <3>1. DOMAIN slave_info_ = 1..Len(slave_info_) /\ Len(slave_info_) \in Nat
      BY SequenceHolds
    <3>2. slave_info_' \in [1..Len(slave_info_) -> [slave : Modules, operational : BOOLEAN]]
      BY <2>4, <2>5, <3>1
    <3> QED
      BY <3>1, <3>2, SequenceMade
  <2> QED
    BY <1>1, <2>3, <2>6
<1>3. CASE update_counter_ # 0
  BY <1>1, <1>3 DEF CheckSlaveStates
<1> QED
  BY <1>2, <1>3

\* A command in the process data is a number.
LEMMA CommandOutputType ==
  ASSUME TypeOK, NEW m \in Modules, NEW command \in IntOrNaN
  PROVE  CommandOutput(m, command) \in Int
BY DEF CommandOutput, Multiplier, IntOrNaN, TypeOK, MasterTypeOK

\* The commands of a pass leave numbers in the process data.
LEMMA OutputTypes ==
  ASSUME TypeOK, NEW commands \in [Modules -> IntOrNaN], ProcessOutputs(commands)
  PROVE  outputs' \in [Modules -> Int]
<1>1. \A m \in Modules : CommandOutput(m, commands[m]) \in Int
  BY CommandOutputType
<1> QED
  BY <1>1 DEF ProcessOutputs, TypeOK, MasterTypeOK

\* The states of a pass are numbers, or what they were.
LEMMA StateTypes ==
  ASSUME TypeOK, NEW data \in [Modules -> Int]
  PROVE  ProcessedStates(data) \in [Modules -> IntOrNaN]
BY DEF ProcessedStates, Multiplier, IntOrNaN, TypeOK, DriverTypeOK

\* Inverting a velocity leaves a velocity.
LEMMA InvertsType ==
  ASSUME NEW m \in Modules, NEW v \in IntOrNaN
  PROVE  Inverts(m, v) \in IntOrNaN
BY DEF Inverts, Negated, IntOrNaN

\* What write makes of the commands are numbers.
LEMMA CommandsWrittenType ==
  ASSUME TypeOK
  PROVE  CommandsWritten \in [Modules -> Int]
BY DEF CommandsWritten, Inverts, Negated, Finite, IntOrNaN, TypeOK, DriverTypeOK

\* The counter of the passes stays below the frequency of the checks.
LEMMA CountPassType ==
  ASSUME TypeOK, CountPass
  PROVE  update_counter_' \in 0..(check_state_frequency_ - 1)
<1>1. update_counter_ + 1 \in Nat
  BY DEF TypeOK, MasterTypeOK
<1> QED
  BY <1>1 DEF CountPass

\* Received inputs are numbers.
LEMMA ReceiveType == Receive => inputs' \in [Modules -> Int]
BY DEF Receive

\* Each module is initialized or is not.
LEMMA LearnReadyType == LearnReady => ready' \in [Modules -> BOOLEAN]
BY DEF LearnReady

\* The driver starts with the types it keeps.
LEMMA InitTypes == Init => TypeOK
<1> SUFFICES ASSUME Init PROVE TypeOK
  OBVIOUS
<1>1. ThreadTypeOK
  BY DEF Init, ThreadTypeOK, Modules
<1>2. DriverTypeOK
  BY DEF Init, DriverTypeOK, IntOrNaN
<1>3. MasterTypeOK
  BY DEF Init, MasterTypeOK
<1>4. ExternalTypeOK
  BY DEF Init, ExternalTypeOK
<1>5. HistoryTypeOK
  BY DEF Init, HistoryTypeOK, IntOrNaN
<1> QED
  BY <1>1, <1>2, <1>3, <1>4, <1>5 DEF TypeOK

\* What the framework makes of the result of a transition.
LEMMA Results ==
  ASSUME Complete
  PROVE  /\ service \in {"activated", "deactivated", "error"} /\ service' = "idle"
         /\ service = "activated" => lifecycle' = "active"
         /\ service = "deactivated" => lifecycle' = "inactive"
         /\ service = "error" => lifecycle' = "finalized"
         /\ UNCHANGED <<at, cycle, rt, ec_mutex_, driverVars, masterVars, externalVars, historyVars>>
<1>1. CASE service = "activated"
  BY <1>1 DEF Complete
<1>2. CASE service = "deactivated"
  BY <1>2 DEF Complete
<1>3. CASE service = "error"
  BY <1>3 DEF Complete
<1> QED
  BY <1>1, <1>2, <1>3 DEF Complete

\* What a handler does with the lock once it has it.
LEMMA LockEffect ==
  ASSUME TypeOK, Lock
  PROVE  \/ /\ service = "on_deactivate" /\ service' = "stop" /\ ec_mutex_' = "service"
            /\ downloaded' = downloaded
         \/ /\ service = "on_activate" /\ activated_ /\ service' = "error" /\ ec_mutex_' = "free"
            /\ downloaded' = {}
         \/ /\ service = "on_activate" /\ ~activated_ /\ service' = "add" /\ ec_mutex_' = "service"
            /\ downloaded' = {}
<1>1. activated_ \in BOOLEAN
  BY DEF TypeOK, DriverTypeOK
<1>2. CASE service = "on_deactivate"
  BY <1>2 DEF Lock
<1>3. CASE service = "on_activate" /\ activated_
  BY <1>3 DEF Lock
<1>4. CASE service = "on_activate" /\ ~activated_
  BY <1>4 DEF Lock
<1> QED
  BY <1>1, <1>2, <1>3, <1>4 DEF Lock

\* A step of a loop over the modules.
LEMMA NextModuleType ==
  ASSUME TypeOK, NEW after, NextModule(after)
  PROVE  at' \in Modules /\ service' \in {service, after}
BY DEF NextModule, TypeOK, ThreadTypeOK, Modules

\* A call that fails leaves the types of what is outside the driver.
LEMMA FailsType ==
  ASSUME TypeOK, Fails
  PROVE  ExternalTypeOK'
BY DEF Fails, TypeOK, ExternalTypeOK

\* What a pass of either thread leaves of the types.
LEMMA PassTypes ==
  ASSUME TypeOK, Receive, CheckSlaveStates, ProcessOutputs(hw_joint_commands_), LearnReady,
         CountPass, UNCHANGED <<entries, hw_joint_commands_, master_active, al_op, budget,
                                downloaded, commandHistory>>
  PROVE  /\ MasterTypeOK' /\ ExternalTypeOK'
         /\ is_operational_' \in [Modules -> BOOLEAN]
         /\ hw_joint_commands_' \in [Modules -> IntOrNaN]
         /\ ProcessedStates(inputs') \in [Modules -> IntOrNaN]
         /\ unreceived' \in Nat /\ fresh' \in BOOLEAN => HistoryTypeOK'
<1>1. hw_joint_commands_ \in [Modules -> IntOrNaN]
  BY DEF TypeOK, DriverTypeOK
<1>2. MasterTypeOK'
  BY <1>1, CheckTypes, OutputTypes, CountPassType, ReceiveType DEF TypeOK, MasterTypeOK
<1>3. ExternalTypeOK'
  BY LearnReadyType DEF TypeOK, ExternalTypeOK
<1>4. ProcessedStates(inputs') \in [Modules -> IntOrNaN]
  BY ReceiveType, StateTypes
<1>5. unreceived' \in Nat /\ fresh' \in BOOLEAN => HistoryTypeOK'
  BY CheckTypes DEF TypeOK, HistoryTypeOK, commandHistory
<1> QED
  BY <1>1, <1>2, <1>3, <1>4, <1>5, CheckTypes

\* What the controllers change, in which joints.
LEMMA ControllersWrite ==
  ASSUME TypeOK, Controllers
  PROVE  \E W \in SUBSET Modules :
           /\ hw_joint_commands_' \in [Modules -> Int \cup {NaN}]
           /\ asked' \in [Modules -> Int \cup {NaN}]
           /\ turned' = [m \in Modules |-> turned[m] /\ m \notin W]
           /\ sent' = sent \ W
           /\ \A m \in W : hw_joint_commands_'[m] = asked'[m]
           /\ \A m \in Modules \ W :
                hw_joint_commands_'[m] = hw_joint_commands_[m] /\ asked'[m] = asked[m]
<1> DEFINE Writes(W, c) ==
      /\ hw_joint_commands_' = [m \in Modules |-> IF m \in W THEN c[m] ELSE hw_joint_commands_[m]]
      /\ asked' = [m \in Modules |-> IF m \in W THEN c[m] ELSE asked[m]]
      /\ turned' = [m \in Modules |-> turned[m] /\ m \notin W]
      /\ sent' = sent \ W
<1>1. PICK W \in IF lifecycle = "active" THEN SUBSET Modules ELSE {{}} :
        \E c \in [W -> Velocities] : Writes(W, c)
  BY DEF Controllers
<1>2. PICK c \in [W -> Velocities] : Writes(W, c)
  BY <1>1
<1>3. W \in SUBSET Modules /\ \A m \in W : c[m] \in Int \cup {NaN}
  OBVIOUS
<1>4. /\ hw_joint_commands_ \in [Modules -> Int \cup {NaN}]
      /\ asked \in [Modules -> Int \cup {NaN}]
  BY DEF TypeOK, DriverTypeOK, HistoryTypeOK, IntOrNaN
<1>5. /\ hw_joint_commands_' \in [Modules -> Int \cup {NaN}]
      /\ asked' \in [Modules -> Int \cup {NaN}]
  BY <1>2, <1>3, <1>4
<1>6. WITNESS W \in SUBSET Modules
<1> QED
  BY <1>2, <1>3, <1>5

\* Every step of either thread, and of a slave, keeps the types.
LEMMA TypesKept ==
  ASSUME TypeOK, [Next]_vars
  PROVE  TypeOK'
<1> USE DEF TypeOK
<1>1. CASE CallActivate \/ CallDeactivate \/ Complete
  <2>1. ExternalTypeOK'
    BY <1>1 DEF CallActivate, CallDeactivate, Complete, ExternalTypeOK, externalVars
  <2>2. ThreadTypeOK'
    BY <1>1, Results DEF CallActivate, CallDeactivate, ThreadTypeOK
  <2>3. DriverTypeOK' /\ MasterTypeOK' /\ HistoryTypeOK'
    BY <1>1 DEF CallActivate, CallDeactivate, Complete, DriverTypeOK, MasterTypeOK, HistoryTypeOK,
                driverVars, masterVars, historyVars, commandHistory
  <2> QED
    BY <2>1, <2>2, <2>3
<1>2. CASE Lock
  <2>1. ThreadTypeOK'
    BY <1>2, LockEffect DEF Lock, ThreadTypeOK, Modules
  <2>2. HistoryTypeOK'
    BY <1>2, LockEffect DEF Lock, HistoryTypeOK, commandHistory
  <2> QED
    BY <1>2, <2>1, <2>2 DEF Lock, DriverTypeOK, MasterTypeOK, ExternalTypeOK, driverVars, masterVars,
                            externalVars
<1>3. CASE ParameterInvalid \/ ActivateFails
  <2>1. ExternalTypeOK'
    BY <1>3, FailsType DEF ParameterInvalid, ActivateFails
  <2> QED
    BY <1>3, <2>1 DEF ParameterInvalid, ActivateFails, Return, ThreadTypeOK, DriverTypeOK,
                      MasterTypeOK, HistoryTypeOK, driverVars, masterVars, historyVars, commandHistory
<1>4. CASE AddSlave
  <2>1. ThreadTypeOK'
    BY <1>4, NextModuleType DEF AddSlave, NextModule, ThreadTypeOK
  <2>2. ExternalTypeOK'
    BY <1>4, FailsType DEF AddSlave, ExternalTypeOK, externalVars
  <2>3. slave_info_' \in Seq([slave : Modules, operational : BOOLEAN]) /\ entries' \in Seq(Modules)
    <3>1. at \in Modules /\ [slave |-> at, operational |-> FALSE] \in [slave : Modules, operational : BOOLEAN]
      BY SlaveRecord DEF ThreadTypeOK
    <3>2. /\ Append(slave_info_, [slave |-> at, operational |-> FALSE])
               \in Seq([slave : Modules, operational : BOOLEAN])
          /\ Append(entries, at) \in Seq(Modules)
      BY <3>1, SequenceExtended DEF MasterTypeOK
    <3>3. \/ slave_info_' = Append(slave_info_, [slave |-> at, operational |-> FALSE])
          \/ slave_info_' = slave_info_
      BY <1>4 DEF AddSlave
    <3>4. entries' = Append(entries, at) \/ entries' = entries
      BY <1>4 DEF AddSlave
    <3> QED
      BY <3>2, <3>3, <3>4 DEF MasterTypeOK
  <2> QED
    BY <1>4, <2>1, <2>2, <2>3 DEF AddSlave, DriverTypeOK, MasterTypeOK, HistoryTypeOK, driverVars,
                                  historyVars, commandHistory
<1>5. CASE ConfigSlaveSdo
  <2>1. PICK ret \in {0, -1} :
          /\ IF ret = 0 THEN downloaded' = downloaded \cup {at} /\ UNCHANGED externalVars
                        ELSE downloaded' = downloaded /\ Fails
          /\ IF AbortsOn(ret) THEN Return("error") ELSE NextModule("activate")
    BY <1>5 DEF ConfigSlaveSdo
  <2>2. ThreadTypeOK'
    BY <2>1, NextModuleType DEF Return, NextModule, ThreadTypeOK
  <2>3. ExternalTypeOK'
    BY <2>1, FailsType DEF ExternalTypeOK, externalVars
  <2>4. downloaded' \subseteq Modules
    BY <2>1 DEF ThreadTypeOK, HistoryTypeOK
  <2> QED
    BY <1>5, <2>2, <2>3, <2>4 DEF ConfigSlaveSdo, DriverTypeOK, MasterTypeOK, HistoryTypeOK,
                                  driverVars, masterVars, commandHistory
<1>6. CASE Activate \/ NoDomain \/ Deactivate
  BY <1>6 DEF Activate, NoDomain, Deactivate, Return, ThreadTypeOK, DriverTypeOK, MasterTypeOK,
              ExternalTypeOK, HistoryTypeOK, driverVars, masterVars, externalVars, historyVars, commandHistory
<1>7. CASE StartupCycle
  <2>1. /\ Receive /\ CheckSlaveStates /\ ProcessOutputs(hw_joint_commands_) /\ LearnReady
        /\ CountPass /\ UNCHANGED <<entries, hw_joint_commands_, master_active, al_op, budget,
                                    downloaded, commandHistory>>
        /\ hw_joint_states_' = ProcessedStates(inputs') /\ unreceived' = 1 /\ fresh' = FALSE
    BY <1>7 DEF StartupCycle, Update, ProcessAndSend
  <2>2. ThreadTypeOK'
    BY <1>7 DEF StartupCycle, StartupLeft, CountCycle, Return, ThreadTypeOK
  <2>3. activated_' \in BOOLEAN
    BY <1>7 DEF StartupCycle, DriverTypeOK
  <2> QED
    BY <2>1, <2>2, <2>3, PassTypes DEF DriverTypeOK
<1>8. CASE EnterRead \/ EnterWrite
  BY <1>8 DEF EnterRead, EnterWrite, Enter, ThreadTypeOK, DriverTypeOK, MasterTypeOK, ExternalTypeOK,
              HistoryTypeOK, serviceVars, driverVars, masterVars, externalVars, historyVars, commandHistory
<1>9. CASE Read
  <2>1. /\ Receive /\ CheckSlaveStates /\ ProcessOutputs(hw_joint_commands_) /\ LearnReady
        /\ CountPass /\ UNCHANGED <<entries, hw_joint_commands_, master_active, al_op, budget,
                                    downloaded, commandHistory>>
        /\ hw_joint_states_' = StatesRead(ProcessedStates(inputs'))
        /\ unreceived' = 0 /\ fresh' = TRUE /\ activated_' = activated_
    BY <1>9 DEF Read
  <2>2. ProcessedStates(inputs') \in [Modules -> IntOrNaN]
    BY <2>1, PassTypes
  <2>3. hw_joint_states_' \in [Modules -> IntOrNaN]
    BY <2>1, <2>2, InvertsType DEF StatesRead
  <2>4. ThreadTypeOK'
    BY <1>9 DEF Read, ThreadTypeOK, serviceVars
  <2> QED
    BY <2>1, <2>3, <2>4, PassTypes DEF DriverTypeOK
<1>10. CASE Controllers
  <2>1. PICK W \in SUBSET Modules :
          /\ hw_joint_commands_' \in [Modules -> IntOrNaN]
          /\ asked' \in [Modules -> IntOrNaN]
          /\ turned' = [m \in Modules |-> turned[m] /\ m \notin W]
          /\ sent' = sent \ W
    BY <1>10, ControllersWrite DEF IntOrNaN
  <2>2. turned' \in [Modules -> BOOLEAN] /\ sent' \subseteq Modules
    BY <2>1 DEF HistoryTypeOK
  <2> QED
    BY <1>10, <2>1, <2>2 DEF Controllers, ThreadTypeOK, DriverTypeOK, MasterTypeOK,
       ExternalTypeOK, HistoryTypeOK, serviceVars, masterVars, externalVars
<1>11. CASE Write
  <2>1. CommandsWritten \in [Modules -> Int] /\ CommandsWritten \in [Modules -> IntOrNaN]
    BY CommandsWrittenType DEF IntOrNaN
  <2>2. outputs' \in [Modules -> Int] /\ hw_joint_states_' \in [Modules -> IntOrNaN]
    BY <1>11, <2>1, OutputTypes, StateTypes DEF Write, MasterTypeOK
  <2>3. Registered \subseteq Modules
    BY DEF Registered, MasterTypeOK
  <2>4. turned' \in [Modules -> BOOLEAN] /\ sent' \subseteq Modules
    BY <1>11, <2>3 DEF Write
  <2> QED
    BY <1>11, <2>1, <2>2, <2>3, <2>4 DEF Write, Unlock, ThreadTypeOK, DriverTypeOK, MasterTypeOK,
       ExternalTypeOK, HistoryTypeOK, serviceVars, externalVars
<1>12. ASSUME NEW m \in Modules, AlChange(m) PROVE TypeOK'
  <2>1. al_op' \in [Modules -> BOOLEAN]
    BY <1>12 DEF AlChange, ExternalTypeOK
  <2> QED
    BY <1>12, <2>1 DEF AlChange, ThreadTypeOK, DriverTypeOK, MasterTypeOK, ExternalTypeOK,
       HistoryTypeOK, serviceVars, driverVars, masterVars, historyVars, commandHistory
<1>13. CASE UNCHANGED vars
  BY <1>13 DEF vars, ThreadTypeOK, DriverTypeOK, MasterTypeOK, ExternalTypeOK, HistoryTypeOK,
     serviceVars, driverVars, masterVars, externalVars, historyVars, commandHistory
<1> QED
  BY <1>1, <1>2, <1>3, <1>4, <1>5, <1>6, <1>7, <1>8, <1>9, <1>10, <1>11, <1>12, <1>13
     DEF Next, ServiceStep, RtStep
-----------------------------------------------------------------------------
(***************************************************************************)
(* The inductive invariant                                                 *)
(***************************************************************************)

\* Who holds the mutex.
MutexHeld ==
  /\ ec_mutex_ = "rt" <=> rt \in {"reading", "writing"}
  /\ ec_mutex_ = "service" <=> service \in {"add", "sdo", "activate", "start", "stop"}

\* When the driver is activated: from the end of on_activate, through the whole
\* active state, to on_deactivate; and it has a domain then.
ActivatedWhen ==
  /\ activated_ => \/ lifecycle = "active" /\ service \in {"idle", "on_deactivate", "stop"}
                   \/ lifecycle = "inactive" /\ service = "activated"
  /\ service \in {"on_activate", "add", "sdo", "activate", "start", "activated"}
       => lifecycle = "inactive"
  /\ rt \in {"reading", "writing"} => activated_
  /\ activated_ => entries # <<>>

\* What was downloaded at each point of on_activate.
DownloadedSoFar ==
  /\ service = "sdo" => 1..(at - 1) \subseteq downloaded
  /\ service \in {"activate", "start"} => Modules \subseteq downloaded
  /\ activated_ => Modules \subseteq downloaded

\* The second unreceived frame is received by the read that follows, which is
\* skipped only if the driver is being deactivated.
FramesOutstanding ==
  /\ unreceived <= 2
  /\ unreceived <= 1 \/ rt \in {"read", "reading"} \/ ~activated_ \/ service = "stop"

\* What a plugin was told is what its watched slaves were last seen in.
ToldWhatWasSeen ==
  \A m \in Modules :
    is_operational_[m] <=> \E i \in DOMAIN slave_info_ :
                             slave_info_[i].slave = m /\ slave_info_[i].operational

\* A mismatch began after the last check of the states.
PassesSinceCheck ==
  \A m \in Modules :
    mismatch[m] <= IF update_counter_ = 0 THEN check_state_frequency_ - 1 ELSE update_counter_ - 1

\* Commands of other joints are not turned around.
OnlyInverted == \A m \in Modules : turned[m] => m \in Inverted

\* The driver keeps what the controllers asked for, turned around by the writes.
CommandsPending == \A m \in Modules : Finite(hw_joint_commands_[m]) = Carried(m)

\* Once write has sent it, it is a number, and what the process data carries.
CommandsHeld ==
  \A m \in sent :
    /\ m \in Registered
    /\ hw_joint_commands_[m] \in Int
    /\ outputs[m] = Multiplier(m) * Carried(m)

\* The states the controllers find are those of the inputs.
StatesFresh ==
  fresh => /\ rt = "controllers"
           /\ \A m \in sent :
                hw_joint_states_[m] = Inverts(m, Multiplier(m) * inputs[m])

DriverInv ==
  /\ TypeOK
  /\ MutexHeld /\ ActivatedWhen /\ DownloadedSoFar /\ FramesOutstanding
  /\ ToldWhatWasSeen /\ PassesSinceCheck
  /\ OnlyInverted /\ CommandsPending /\ CommandsHeld /\ StatesFresh

\* The invariant holds before the first transition.
LEMMA InitInv == Init => DriverInv
<1> SUFFICES ASSUME Init PROVE DriverInv
  OBVIOUS
<1>1. TypeOK
  BY InitTypes
<1>2. MutexHeld /\ ActivatedWhen /\ DownloadedSoFar /\ FramesOutstanding
  BY DEF Init, MutexHeld, ActivatedWhen, DownloadedSoFar, FramesOutstanding
<1>3. ToldWhatWasSeen
  <2>1. \A m \in Modules : ~is_operational_[m]
    BY DEF Init
  <2>2. DOMAIN slave_info_ = {}
    BY DEF Init
  <2> QED
    BY <2>1, <2>2 DEF ToldWhatWasSeen
<1>4. PassesSinceCheck
  BY DEF Init, PassesSinceCheck
<1>5. OnlyInverted /\ CommandsPending /\ CommandsHeld /\ StatesFresh
  BY DEF Init, OnlyInverted, CommandsPending, CommandsHeld, StatesFresh, Carried, Finite
<1> QED
  BY <1>1, <1>2, <1>3, <1>4, <1>5 DEF DriverInv

\* The lock is taken when free and released by whoever holds it.
LEMMA MutexKept ==
  ASSUME DriverInv, [Next]_vars
  PROVE  MutexHeld'
<1> USE DEF DriverInv, MutexHeld
<1>1. CASE CallActivate \/ CallDeactivate \/ ParameterInvalid \/ ActivateFails \/ Activate
  BY <1>1 DEF CallActivate, CallDeactivate, ParameterInvalid, ActivateFails, Activate, Return
<1>2. CASE Complete
  BY <1>2, Results
<1>3. CASE Lock
  BY <1>3, LockEffect DEF Lock
<1>4. CASE AddSlave
  BY <1>4, NextModuleType DEF AddSlave, NextModule
<1>5. CASE ConfigSlaveSdo
  <2>1. \/ Return("error")
        \/ NextModule("activate")
    BY <1>5 DEF ConfigSlaveSdo
  <2> QED
    BY <1>5, <2>1, NextModuleType DEF ConfigSlaveSdo, NextModule, Return
<1>6. CASE StartupCycle \/ NoDomain \/ Deactivate
  BY <1>6 DEF StartupCycle, NoDomain, Deactivate, Return
<1>7. CASE EnterRead \/ EnterWrite
  BY <1>7 DEF EnterRead, EnterWrite, Enter, TryLock, serviceVars
<1>8. CASE Read \/ Controllers \/ Write
  BY <1>8 DEF Read, Controllers, Write, Unlock, serviceVars
<1>9. ASSUME NEW m \in Modules, AlChange(m) PROVE MutexHeld'
  BY <1>9 DEF AlChange, serviceVars
<1>10. CASE UNCHANGED vars
  BY <1>10 DEF vars, serviceVars
<1> QED
  BY <1>1, <1>2, <1>3, <1>4, <1>5, <1>6, <1>7, <1>8, <1>9, <1>10 DEF Next, ServiceStep, RtStep

\* An activation leaves the driver activated with a domain, and only then.
LEMMA ActivatedKept ==
  ASSUME DriverInv, [Next]_vars
  PROVE  ActivatedWhen'
<1> USE DEF DriverInv, ActivatedWhen, MutexHeld
<1>0. activated_ \in BOOLEAN
  BY DEF TypeOK, DriverTypeOK
<1>1. CASE CallActivate \/ CallDeactivate \/ ParameterInvalid \/ ActivateFails \/ Activate
  BY <1>1 DEF CallActivate, CallDeactivate, ParameterInvalid, ActivateFails, Activate, Return,
              driverVars, masterVars
<1>2. CASE Complete
  BY <1>2, Results DEF driverVars, masterVars
<1>3. CASE Lock
  BY <1>3, LockEffect DEF Lock, driverVars, masterVars
<1>4. CASE AddSlave
  <2>1. ~activated_ /\ lifecycle = "inactive" /\ rt \notin {"reading", "writing"}
    BY <1>4 DEF AddSlave
  <2>2. activated_' = activated_ /\ lifecycle' = lifecycle /\ rt' = rt /\ service' \in {"add", "sdo"}
    BY <1>4, NextModuleType DEF AddSlave, NextModule, driverVars
  <2> QED
    BY <2>1, <2>2
<1>5. CASE ConfigSlaveSdo
  <2>1. \/ Return("error")
        \/ NextModule("activate")
    BY <1>5 DEF ConfigSlaveSdo
  <2> QED
    BY <1>5, <2>1, NextModuleType DEF ConfigSlaveSdo, NextModule, Return, driverVars, masterVars
<1>6. CASE StartupCycle
  <2>1. entries' = entries /\ entries # <<>> /\ rt' = rt /\ lifecycle' = lifecycle
    BY <1>6 DEF StartupCycle, Update, ProcessAndSend, Return
  <2>2. ~activated_ /\ lifecycle = "inactive" /\ rt \notin {"reading", "writing"}
    BY <1>6 DEF StartupCycle
  <2>3. \/ activated_' /\ service' = "activated"
        \/ activated_' = activated_ /\ service' = "start"
        \/ ~activated_' /\ service' = "error"
    BY <1>6 DEF StartupCycle, Return
  <2> QED
    BY <2>1, <2>2, <2>3
<1>7. CASE NoDomain \/ Deactivate
  BY <1>7 DEF NoDomain, Deactivate, Return, driverVars, masterVars
<1>8. CASE EnterRead \/ EnterWrite
  BY <1>8 DEF EnterRead, EnterWrite, Enter, TryLock, serviceVars, driverVars, masterVars
<1>9. CASE Read \/ Controllers \/ Write
  BY <1>9 DEF Read, Controllers, Write, serviceVars, masterVars
<1>10. ASSUME NEW m \in Modules, AlChange(m) PROVE ActivatedWhen'
  BY <1>10 DEF AlChange, serviceVars, driverVars, masterVars
<1>11. CASE UNCHANGED vars
  BY <1>11 DEF vars, serviceVars, driverVars, masterVars
<1> QED
  BY <1>1, <1>2, <1>3, <1>4, <1>5, <1>6, <1>7, <1>8, <1>9, <1>10, <1>11 DEF Next, ServiceStep, RtStep

\* A failed download ends on_activate, so the loop ends with all of them.
LEMMA DownloadsKept ==
  ASSUME DriverInv, [Next]_vars
  PROVE  DownloadedSoFar'
<1> USE DEF DriverInv, DownloadedSoFar, ActivatedWhen
<1>0. activated_ \in BOOLEAN
  BY DEF TypeOK, DriverTypeOK
<1>1. CASE CallActivate \/ CallDeactivate \/ ParameterInvalid \/ ActivateFails \/ Activate
  BY <1>1 DEF CallActivate, CallDeactivate, ParameterInvalid, ActivateFails, Activate, Return,
              driverVars, historyVars
<1>2. CASE Complete
  BY <1>2, Results DEF driverVars, historyVars
<1>3. CASE Lock
  BY <1>3, LockEffect DEF Lock, driverVars
<1>4. CASE AddSlave
  <2>1. /\ service' = service \/ (at' = 1 /\ service' = "sdo")
        /\ UNCHANGED <<activated_, downloaded>> /\ service = "add"
    BY <1>4 DEF AddSlave, NextModule, driverVars, historyVars
  <2> QED
    BY <2>1
<1>5. CASE ConfigSlaveSdo
  <2>1. service = "sdo" /\ UNCHANGED activated_ /\ ~activated_ /\ at \in 1..NumModules
    BY <1>5 DEF ConfigSlaveSdo, driverVars, TypeOK, ThreadTypeOK, Modules
  <2>2. CASE service' = "error"
    BY <2>1, <2>2
  <2>3. CASE downloaded' = downloaded \cup {at} /\ NextModule("activate")
    <3>1. 1..at \subseteq downloaded'
      BY <2>1, <2>3
    <3>2. CASE at < NumModules
      BY <2>1, <2>3, <3>1, <3>2 DEF NextModule
    <3>3. CASE at = NumModules
      BY <2>1, <2>3, <3>1, <3>3 DEF NextModule, Modules
    <3> QED
      BY <2>1, <3>2, <3>3
  <2> QED
    BY <1>5, <2>2, <2>3 DEF ConfigSlaveSdo, AbortsOn, Return
<1>6. CASE StartupCycle
  BY <1>6 DEF StartupCycle, Update, ProcessAndSend, Return
<1>7. CASE NoDomain \/ Deactivate
  BY <1>7 DEF NoDomain, Deactivate, Return, driverVars, historyVars
<1>8. CASE EnterRead \/ EnterWrite
  BY <1>8 DEF EnterRead, EnterWrite, Enter, serviceVars, driverVars, historyVars
<1>9. CASE Read \/ Controllers \/ Write
  BY <1>9 DEF Read, Controllers, Write, serviceVars
<1>10. ASSUME NEW m \in Modules, AlChange(m) PROVE DownloadedSoFar'
  BY <1>10 DEF AlChange, serviceVars, driverVars, historyVars
<1>11. CASE UNCHANGED vars
  BY <1>11 DEF vars, serviceVars, driverVars, historyVars
<1> QED
  BY <1>1, <1>2, <1>3, <1>4, <1>5, <1>6, <1>7, <1>8, <1>9, <1>10, <1>11 DEF Next, ServiceStep, RtStep

\* write sends a frame after a read that received one, or after the startup loop.
LEMMA FramesKept ==
  ASSUME DriverInv, [Next]_vars
  PROVE  FramesOutstanding'
<1> USE DEF DriverInv, FramesOutstanding
<1>0. activated_ \in BOOLEAN /\ unreceived \in Nat
  BY DEF TypeOK, DriverTypeOK, HistoryTypeOK
<1>1. CASE CallActivate \/ CallDeactivate \/ ParameterInvalid \/ ActivateFails \/ Activate
  BY <1>1 DEF CallActivate, CallDeactivate, ParameterInvalid, ActivateFails, Activate, Return,
              driverVars, historyVars
<1>2. CASE Complete
  BY <1>2, Results DEF driverVars, historyVars
<1>3. CASE Lock
  BY <1>3, LockEffect DEF Lock, driverVars
<1>4. CASE AddSlave
  BY <1>4 DEF AddSlave, NextModule, driverVars, historyVars
<1>5. CASE ConfigSlaveSdo
  <2>1. \/ Return("error")
        \/ NextModule("activate")
    BY <1>5 DEF ConfigSlaveSdo
  <2> QED
    BY <1>5, <2>1 DEF ConfigSlaveSdo, NextModule, Return, driverVars
<1>6. CASE StartupCycle
  BY <1>6 DEF StartupCycle, Update
<1>7. CASE NoDomain \/ Deactivate
  BY <1>7 DEF NoDomain, Deactivate, Return, driverVars, historyVars
<1>8. CASE EnterRead \/ EnterWrite
  <2>1. /\ UNCHANGED <<unreceived, activated_, service>>
        /\ rt = "write" => rt' \in {"writing", "read"}
        /\ rt = "read" => rt' = "reading" \/ (rt' = "controllers" /\ ~(ec_mutex_ = "free" /\ activated_))
        /\ rt \in {"read", "write"}
    BY <1>8 DEF EnterRead, EnterWrite, Enter, TryLock, serviceVars, driverVars, historyVars
  <2>2. rt = "read" /\ ec_mutex_ # "free" => service = "stop" \/ ~activated_
    BY DEF TypeOK, ThreadTypeOK, MutexHeld, ActivatedWhen
  <2> QED
    BY <1>0, <2>1, <2>2
<1>9. CASE Read \/ Controllers
  BY <1>9 DEF Read, Controllers, serviceVars
<1>10. CASE Write
  <2>1. unreceived <= 1
    BY <1>0, <1>10 DEF Write, MutexHeld, ActivatedWhen
  <2> QED
    BY <1>0, <1>10, <2>1 DEF Write
<1>11. ASSUME NEW m \in Modules, AlChange(m) PROVE FramesOutstanding'
  BY <1>11 DEF AlChange, serviceVars, driverVars, historyVars
<1>12. CASE UNCHANGED vars
  BY <1>12 DEF vars, serviceVars, driverVars, historyVars
<1> QED
  BY <1>1, <1>2, <1>3, <1>4, <1>5, <1>6, <1>7, <1>8, <1>9, <1>10, <1>11, <1>12
     DEF Next, ServiceStep, RtStep

\* The records after a check all hold the state of their slave; before, one that
\* differs makes the check tell the plugin.
LEMMA CheckTells ==
  ASSUME DriverInv, CheckSlaveStates
  PROVE  /\ ToldWhatWasSeen'
         /\ update_counter_ = 0 => \A m \in Watched : is_operational_'[m] = al_op[m]
         /\ update_counter_ # 0 => UNCHANGED <<is_operational_, slave_info_>>
<1> USE DEF DriverInv
<1>0. /\ Len(slave_info_) \in Nat /\ DOMAIN slave_info_ = 1..Len(slave_info_)
      /\ \A i \in DOMAIN slave_info_ : slave_info_[i] \in [slave : Modules, operational : BOOLEAN]
      /\ al_op \in [Modules -> BOOLEAN] /\ is_operational_ \in [Modules -> BOOLEAN]
  BY SequenceHolds DEF TypeOK, DriverTypeOK, MasterTypeOK, ExternalTypeOK
<1>1. CASE update_counter_ # 0
  <2>1. UNCHANGED <<is_operational_, slave_info_>>
    BY <1>1 DEF CheckSlaveStates
  <2> QED
    BY <1>1, <2>1 DEF ToldWhatWasSeen
<1>2. CASE update_counter_ = 0
  <2>1. /\ is_operational_' = [m \in Modules |-> IF m \in Changed THEN al_op[m] ELSE is_operational_[m]]
        /\ slave_info_' = [i \in DOMAIN slave_info_ |->
                             [slave_info_[i] EXCEPT !.operational = al_op[slave_info_[i].slave]]]
    BY <1>2 DEF CheckSlaveStates
  <2>2. \A i \in DOMAIN slave_info_ : /\ slave_info_'[i].slave = slave_info_[i].slave
                                      /\ slave_info_'[i].operational = al_op[slave_info_[i].slave]
    <3> TAKE i \in DOMAIN slave_info_
    <3>1. al_op[slave_info_[i].slave] \in BOOLEAN
      BY <1>0
    <3> QED
      BY <1>0, <2>1, <3>1, SlaveChecked
  <2>3. DOMAIN slave_info_' = DOMAIN slave_info_
    BY <2>1
  <2>4. \A m \in Watched : is_operational_'[m] = al_op[m]
    <3> SUFFICES ASSUME NEW m \in Watched PROVE is_operational_'[m] = al_op[m]
      OBVIOUS
    <3>1. PICK i \in DOMAIN slave_info_ : slave_info_[i].slave = m
      BY DEF Watched
    <3>2. m \in Modules /\ slave_info_[i].operational \in BOOLEAN
      BY <1>0, <3>1
    <3>3. CASE m \in Changed
      BY <2>1, <3>2, <3>3
    <3>4. CASE m \notin Changed
      <4>1. \A j \in DOMAIN slave_info_ : slave_info_[j].slave = m => slave_info_[j].operational = al_op[m]
        BY <3>2, <3>4 DEF Changed
      <4>2. is_operational_[m] <=> al_op[m]
        BY <3>1, <3>2, <4>1 DEF ToldWhatWasSeen
      <4>3. is_operational_'[m] = is_operational_[m]
        BY <2>1, <3>2, <3>4
      <4>4. is_operational_[m] \in BOOLEAN /\ al_op[m] \in BOOLEAN
        BY <1>0, <3>2
      <4> QED
        BY <4>2, <4>3, <4>4
    <3> QED
      BY <3>3, <3>4
  <2>5. ToldWhatWasSeen'
    <3> SUFFICES ASSUME NEW m \in Modules
                 PROVE  is_operational_'[m] <=> \E i \in DOMAIN slave_info_' :
                                  slave_info_'[i].slave = m /\ slave_info_'[i].operational
      BY DEF ToldWhatWasSeen
    <3>1. CASE m \in Watched
      <4>1. PICK i \in DOMAIN slave_info_ : slave_info_[i].slave = m
        BY <3>1 DEF Watched
      <4>2. is_operational_'[m] = al_op[m]
        BY <2>4, <3>1
      <4>3. \A j \in DOMAIN slave_info_ : slave_info_'[j].slave = m => slave_info_'[j].operational = al_op[m]
        BY <2>2
      <4>4. slave_info_'[i].slave = m /\ slave_info_'[i].operational = al_op[m]
        BY <2>2, <4>1
      <4> QED
        BY <2>3, <4>2, <4>3, <4>4
    <3>2. CASE m \notin Watched
      <4>1. \A j \in DOMAIN slave_info_ : slave_info_[j].slave # m
        BY <3>2 DEF Watched
      <4>2. m \notin Changed
        BY <4>1 DEF Changed
      <4>3. is_operational_'[m] = is_operational_[m]
        BY <2>1, <4>2
      <4>4. ~is_operational_[m]
        BY <4>1 DEF ToldWhatWasSeen
      <4>5. \A j \in DOMAIN slave_info_' : slave_info_'[j].slave # m
        BY <2>2, <2>3, <4>1
      <4> QED
        BY <4>3, <4>4, <4>5
    <3> QED
      BY <3>1, <3>2
  <2> QED
    BY <1>2, <2>4, <2>5
<1> QED
  BY <1>1, <1>2

\* Only a pass tells the plugins, and only addSlave adds a record, of a slave
\* not seen yet.
LEMMA ToldKept ==
  ASSUME DriverInv, [Next]_vars
  PROVE  ToldWhatWasSeen'
<1> USE DEF DriverInv
<1>1. CASE UNCHANGED <<is_operational_, slave_info_>>
  BY <1>1 DEF ToldWhatWasSeen
<1>2. CASE AddSlave
  <2>1. is_operational_' = is_operational_
    BY <1>2 DEF AddSlave, driverVars
  <2>2. CASE slave_info_' = slave_info_
    BY <1>1, <2>1, <2>2
  <2>3. CASE slave_info_' = Append(slave_info_, [slave |-> at, operational |-> FALSE])
    <3> DEFINE new == [slave |-> at, operational |-> FALSE]
               old == Len(slave_info_)
    <3>1. slave_info_ \in Seq([slave : Modules, operational : BOOLEAN]) /\ at \in Modules
      BY DEF TypeOK, MasterTypeOK, ThreadTypeOK
    <3>2. new \in [slave : Modules, operational : BOOLEAN] /\ ~new.operational
      BY <3>1, SlaveRecord
    <3> HIDE DEF new
    <3>3. /\ DOMAIN slave_info_' = DOMAIN slave_info_ \cup {old + 1}
          /\ \A i \in DOMAIN slave_info_ : slave_info_'[i] = slave_info_[i]
          /\ slave_info_'[old + 1] = new
      BY <2>3, <3>1, <3>2, SequenceExtended DEF new
    <3> QED
      BY <2>1, <3>2, <3>3 DEF ToldWhatWasSeen
  <2> QED
    BY <1>2, <2>2, <2>3 DEF AddSlave
<1>3. CASE StartupCycle \/ Read
  BY <1>3, CheckTells DEF StartupCycle, Update, ProcessAndSend, Read
<1>4. CASE Controllers \/ Write
  BY <1>1, <1>4 DEF Controllers, Write, masterVars
<1>5. CASE Complete
  BY <1>1, <1>5, Results DEF driverVars, masterVars
<1>6. CASE ~AddSlave /\ ~StartupCycle /\ ~Read /\ ~Controllers /\ ~Write /\ ~Complete
  BY <1>1, <1>6 DEF Next, ServiceStep, RtStep, vars, CallActivate, CallDeactivate, ParameterInvalid, Lock,
     ConfigSlaveSdo, Activate, ActivateFails, NoDomain, Deactivate, EnterRead, EnterWrite, Enter,
     AlChange, driverVars, masterVars
<1> QED
  BY <1>2, <1>3, <1>4, <1>5, <1>6

\* The passes are counted in turn.
LEMMA CounterNext ==
  ASSUME NEW f \in Nat \ {0}, NEW u \in 0..(f - 1)
  PROVE  (u + 1) % f = IF u + 1 = f THEN 0 ELSE u + 1
<1>1. CASE u + 1 = f
  BY <1>1
<1>2. CASE u + 1 < f
  BY <1>2
<1> QED
  BY <1>1, <1>2

\* A check ends every mismatch, and a pass that does not check adds one to it
\* and to the counter.
LEMMA PassCounts ==
  ASSUME DriverInv, CheckSlaveStates, CountPass
  PROVE  PassesSinceCheck'
<1> USE DEF DriverInv
<1>1. /\ update_counter_ \in 0..(check_state_frequency_ - 1) /\ check_state_frequency_ \in Nat \ {0}
      /\ mismatch \in [Modules -> Nat]
  BY DEF TypeOK, MasterTypeOK, HistoryTypeOK
<1>2. update_counter_' = IF update_counter_ + 1 = check_state_frequency_ THEN 0 ELSE update_counter_ + 1
  BY <1>1, CounterNext DEF CountPass
<1>3. mismatch' = [m \in Modules |-> IF m \in Watched /\ is_operational_'[m] # al_op[m]
                                       THEN mismatch[m] + 1 ELSE 0]
  BY DEF CheckSlaveStates
<1> SUFFICES ASSUME NEW m \in Modules
             PROVE  mismatch'[m] <= IF update_counter_' = 0 THEN check_state_frequency_ - 1
                                                             ELSE update_counter_' - 1
  BY DEF PassesSinceCheck
<1>4. CASE update_counter_ = 0
  <2>1. mismatch'[m] = 0
    BY <1>3, <1>4, CheckTells
  <2> QED
    BY <1>1, <1>2, <1>4, <2>1
<1>5. CASE update_counter_ # 0
  <2>1. mismatch[m] \in Nat /\ mismatch[m] <= update_counter_ - 1
    BY <1>1, <1>5 DEF PassesSinceCheck
  <2>2. mismatch'[m] = mismatch[m] + 1 \/ mismatch'[m] = 0
    BY <1>3
  <2> QED
    BY <1>1, <1>2, <1>5, <2>1, <2>2
<1> QED
  BY <1>4, <1>5

\* A mismatch is never older than the passes since the last check.
LEMMA MismatchKept ==
  ASSUME DriverInv, [Next]_vars
  PROVE  PassesSinceCheck'
<1> USE DEF DriverInv
<1>1. CASE UNCHANGED <<update_counter_, mismatch>>
  BY <1>1 DEF PassesSinceCheck
<1>2. CASE StartupCycle \/ Read
  BY <1>2, PassCounts DEF StartupCycle, Update, ProcessAndSend, Read
<1>3. CASE Controllers \/ Write
  BY <1>1, <1>3 DEF Controllers, Write, masterVars
<1>4. CASE Complete
  BY <1>1, <1>4, Results DEF historyVars, masterVars
<1>5. CASE ~StartupCycle /\ ~Read /\ ~Controllers /\ ~Write /\ ~Complete
  BY <1>1, <1>5 DEF Next, ServiceStep, RtStep, vars, CallActivate, CallDeactivate, ParameterInvalid, Lock,
     AddSlave, ConfigSlaveSdo, Activate, ActivateFails, NoDomain, Deactivate, EnterRead, EnterWrite, Enter,
     AlChange, masterVars, historyVars
<1> QED
  BY <1>2, <1>3, <1>4, <1>5

\* Arithmetic of the signs: what write sends and read inverts again.
LEMMA Signs ==
  ASSUME NEW m \in Modules, NEW v \in IntOrNaN
  PROVE  /\ Finite(v) \in Int
         /\ Inverts(m, Finite(v)) \in Int
         /\ Inverts(m, Finite(v)) # NaN
         /\ Multiplier(m) * Inverts(m, Finite(v)) \in Int
         /\ Inverts(m, Multiplier(m) * (Multiplier(m) * Inverts(m, Finite(v)))) = Finite(v)
<1>1. Finite(v) \in Int
  BY DEF Finite, IntOrNaN
<1>2. \A n \in Int : n # NaN /\ Negated(n) = -n /\ -n \in Int /\ -(-n) = n
  BY DEF Negated
<1>3. Inverts(m, Finite(v)) \in Int
  BY <1>1, <1>2 DEF Inverts
<1>4. Inverts(m, Inverts(m, Finite(v))) = Finite(v)
  BY <1>1, <1>2 DEF Inverts
<1>5. \A n \in Int : Multiplier(m) * n \in Int /\ Multiplier(m) * (Multiplier(m) * n) = n
  BY DEF Multiplier
<1> QED
  BY <1>1, <1>2, <1>3, <1>4, <1>5

\* A command that is a number reaches the process data.
LEMMA CommandSent ==
  ASSUME NEW m \in Modules, NEW command \in Int
  PROVE  CommandOutput(m, command) = Multiplier(m) * command
<1>1. command # NaN
  OBVIOUS
<1> QED
  BY <1>1 DEF CommandOutput

\* No registration is ever taken back.
LEMMA RegisteredGrow ==
  ASSUME DriverInv, [Next]_vars
  PROVE  Registered \subseteq Registered'
<1>1. CASE entries' = entries
  BY <1>1 DEF Registered
<1>2. CASE entries' = Append(entries, at)
  <2>1. entries \in Seq(Modules) /\ at \in Modules
    BY DEF DriverInv, TypeOK, MasterTypeOK, ThreadTypeOK
  <2>2. /\ DOMAIN entries' = DOMAIN entries \cup {Len(entries) + 1}
        /\ \A i \in DOMAIN entries : entries'[i] = entries[i]
    BY <1>2, <2>1, SequenceExtended
  <2> QED
    BY <2>2 DEF Registered
<1>3. CASE StartupCycle \/ Read \/ Controllers \/ Write
  BY <1>1, <1>3 DEF StartupCycle, Update, ProcessAndSend, Read, Controllers, Write, masterVars
<1>4. CASE Complete
  BY <1>1, <1>4, Results DEF masterVars
<1>5. CASE AddSlave
  BY <1>1, <1>2, <1>5 DEF AddSlave
<1>6. CASE ~StartupCycle /\ ~Read /\ ~Controllers /\ ~Write /\ ~Complete /\ ~AddSlave
  BY <1>1, <1>6 DEF Next, ServiceStep, RtStep, vars, CallActivate, CallDeactivate, ParameterInvalid, Lock,
     ConfigSlaveSdo, Activate, ActivateFails, NoDomain, Deactivate, EnterRead, EnterWrite, Enter,
     AlChange, masterVars
<1> QED
  BY <1>3, <1>4, <1>5, <1>6

\* What the controllers asked for is a number, and so is what becomes of it.
LEMMA CarriedType ==
  ASSUME TypeOK, NEW m \in Modules
  PROVE  Carried(m) \in Int
<1>1. asked[m] \in IntOrNaN
  BY DEF TypeOK, HistoryTypeOK
<1>2. Finite(asked[m]) \in Int
  BY <1>1, Signs
<1> QED
  BY <1>2 DEF Carried

\* What write makes of the command it finds is what is carried from then on.
LEMMA WriteTurns ==
  ASSUME TypeOK, OnlyInverted, CommandsPending, Write, NEW m \in Modules
  PROVE  /\ hw_joint_commands_'[m] \in Int
         /\ hw_joint_commands_'[m] = Carried(m)'
         /\ Finite(hw_joint_commands_'[m]) = Carried(m)'
<1>1. hw_joint_commands_'[m] = Inverts(m, Carried(m))
  BY DEF Write, CommandsWritten, CommandsPending
<1>2. Carried(m) \in Int
  BY CarriedType
<1>3. \A n \in Int : n # NaN /\ Negated(n) = -n /\ -n \in Int /\ Finite(n) = n
  BY DEF Negated, Finite
<1>4. asked' = asked /\ turned'[m] = (m \in Inverted /\ ~turned[m])
  BY DEF Write
<1>5. asked[m] \in IntOrNaN
  BY DEF TypeOK, HistoryTypeOK
<1>6. Finite(asked[m]) \in Int
  BY <1>5, Signs
<1>7. CASE m \in Inverted
  <2>1. hw_joint_commands_'[m] = -Carried(m)
    BY <1>1, <1>2, <1>3, <1>7 DEF Inverts
  <2>2. Carried(m) = IF turned[m] THEN -Finite(asked[m]) ELSE Finite(asked[m])
    BY <1>7 DEF Carried
  <2>3. Carried(m)' = IF ~turned[m] THEN -Finite(asked[m]) ELSE Finite(asked[m])
    BY <1>4, <1>7 DEF Carried
  <2> QED
    BY <1>3, <1>6, <2>1, <2>2, <2>3
<1>8. CASE m \notin Inverted
  <2>1. hw_joint_commands_'[m] = Carried(m) /\ Carried(m)' = Finite(asked[m])
        /\ Carried(m) = Finite(asked[m])
    BY <1>1, <1>4, <1>8 DEF Inverts, Carried, CommandsPending, OnlyInverted
  <2> QED
    BY <1>2, <1>3, <2>1
<1> QED
  BY <1>7, <1>8

\* Nobody but the controllers and write touches the commands.
LEMMA PendingKept ==
  ASSUME DriverInv, [Next]_vars
  PROVE  OnlyInverted' /\ CommandsPending'
<1> USE DEF DriverInv
<1>1. CASE UNCHANGED <<asked, turned, hw_joint_commands_>>
  BY <1>1 DEF OnlyInverted, CommandsPending, Carried
<1>2. CASE StartupCycle \/ Read
  BY <1>1, <1>2 DEF StartupCycle, Update, ProcessAndSend, Read, commandHistory
<1>3. CASE Controllers
  <2>1. PICK W \in SUBSET Modules :
          /\ turned' = [m \in Modules |-> turned[m] /\ m \notin W]
          /\ \A m \in W : hw_joint_commands_'[m] = asked'[m]
          /\ \A m \in Modules \ W :
               hw_joint_commands_'[m] = hw_joint_commands_[m] /\ asked'[m] = asked[m]
    BY <1>3, ControllersWrite
  <2> SUFFICES ASSUME NEW m \in Modules
               PROVE  /\ turned'[m] => m \in Inverted
                      /\ Finite(hw_joint_commands_'[m]) = Carried(m)'
    BY DEF OnlyInverted, CommandsPending
  <2>2. CASE m \in W
    BY <2>1, <2>2 DEF Carried
  <2>3. CASE m \notin W
    BY <2>1, <2>3 DEF Carried, OnlyInverted, CommandsPending
  <2> QED
    BY <2>2, <2>3
<1>4. CASE Write
  <2>1. OnlyInverted'
    BY <1>4 DEF Write, OnlyInverted
  <2> QED
    BY <1>4, <2>1, WriteTurns DEF CommandsPending
<1>5. CASE Complete
  BY <1>1, <1>5, Results DEF driverVars, historyVars, commandHistory
<1>6. CASE ~StartupCycle /\ ~Read /\ ~Controllers /\ ~Write /\ ~Complete
  BY <1>1, <1>6 DEF Next, ServiceStep, RtStep, vars, CallActivate, CallDeactivate, ParameterInvalid, Lock,
     AddSlave, ConfigSlaveSdo, Activate, ActivateFails, NoDomain, Deactivate, EnterRead, EnterWrite, Enter,
     AlChange, driverVars, historyVars, commandHistory
<1> QED
  BY <1>2, <1>3, <1>4, <1>5, <1>6

\* The pass of read and that of the startup loop repeat what write sent.
LEMMA HeldByPass ==
  ASSUME DriverInv, ProcessOutputs(hw_joint_commands_), Registered' = Registered,
         UNCHANGED <<hw_joint_commands_, commandHistory>>
  PROVE  CommandsHeld'
<1> USE DEF DriverInv
<1>1. UNCHANGED <<asked, turned, sent>>
  BY DEF commandHistory
<1> SUFFICES ASSUME NEW m \in sent
             PROVE  /\ m \in Registered
                    /\ hw_joint_commands_[m] \in Int
                    /\ outputs'[m] = Multiplier(m) * Carried(m)
  BY <1>1 DEF CommandsHeld, Carried
<1>2. m \in Modules /\ m \in Registered /\ hw_joint_commands_[m] \in Int
  BY DEF TypeOK, HistoryTypeOK, CommandsHeld
<1>3. hw_joint_commands_[m] = Carried(m)
  BY <1>2 DEF CommandsPending, Finite
<1>4. outputs'[m] = CommandOutput(m, hw_joint_commands_[m])
  BY <1>2 DEF ProcessOutputs
<1> QED
  BY <1>2, <1>3, <1>4, CommandSent

\* What write sent stays in the process data, and the inverted command in place.
LEMMA HeldKept ==
  ASSUME DriverInv, [Next]_vars
  PROVE  CommandsHeld'
<1> USE DEF DriverInv
<1>1. CASE UNCHANGED <<asked, turned, sent, hw_joint_commands_, outputs>>
  BY <1>1, RegisteredGrow DEF CommandsHeld, Carried
<1>2. CASE StartupCycle \/ Read
  BY <1>2, HeldByPass DEF StartupCycle, Update, ProcessAndSend, Read, Registered
<1>3. CASE Controllers
  <2>1. PICK W \in SUBSET Modules :
          /\ turned' = [m \in Modules |-> turned[m] /\ m \notin W]
          /\ sent' = sent \ W
          /\ \A m \in Modules \ W :
               hw_joint_commands_'[m] = hw_joint_commands_[m] /\ asked'[m] = asked[m]
    BY <1>3, ControllersWrite
  <2>2. outputs' = outputs /\ Registered' = Registered
    BY <1>3 DEF Controllers, masterVars, Registered
  <2> SUFFICES ASSUME NEW m \in sent, m \notin W
               PROVE  /\ m \in Registered'
                      /\ hw_joint_commands_'[m] \in Int
                      /\ outputs'[m] = Multiplier(m) * Carried(m)'
    BY <2>1 DEF CommandsHeld
  <2>3. m \in Modules
    BY DEF TypeOK, HistoryTypeOK
  <2>4. Carried(m)' = Carried(m)
    BY <2>1, <2>3 DEF Carried
  <2> QED
    BY <2>1, <2>2, <2>3, <2>4 DEF CommandsHeld
<1>4. CASE Write
  <2>1. /\ hw_joint_commands_' = CommandsWritten /\ ProcessOutputs(CommandsWritten)
        /\ sent' = Registered /\ Registered' = Registered
    BY <1>4 DEF Write, Registered
  <2> SUFFICES ASSUME NEW m \in Registered
               PROVE  /\ hw_joint_commands_'[m] \in Int
                      /\ outputs'[m] = Multiplier(m) * Carried(m)'
    BY <2>1 DEF CommandsHeld
  <2>2. m \in Modules
    BY DEF TypeOK, MasterTypeOK, Registered
  <2>3. hw_joint_commands_'[m] \in Int /\ hw_joint_commands_'[m] = Carried(m)'
    BY <1>4, <2>2, WriteTurns
  <2>4. outputs'[m] = CommandOutput(m, hw_joint_commands_'[m])
    BY <2>1, <2>2 DEF ProcessOutputs
  <2> QED
    BY <2>2, <2>3, <2>4, CommandSent
<1>5. CASE Complete
  BY <1>1, <1>5, Results DEF driverVars, masterVars, historyVars, commandHistory
<1>6. CASE ~StartupCycle /\ ~Read /\ ~Controllers /\ ~Write /\ ~Complete
  BY <1>1, <1>6 DEF Next, ServiceStep, RtStep, vars, CallActivate, CallDeactivate, ParameterInvalid, Lock,
     AddSlave, ConfigSlaveSdo, Activate, ActivateFails, NoDomain, Deactivate, EnterRead, EnterWrite, Enter,
     AlChange, driverVars, masterVars, historyVars, commandHistory
<1> QED
  BY <1>2, <1>3, <1>4, <1>5, <1>6

\* A pass of the startup loop ends what read left for the controllers.
LEMMA StatesKept ==
  ASSUME DriverInv, [Next]_vars
  PROVE  StatesFresh'
<1> USE DEF DriverInv
<1>1. CASE UNCHANGED <<fresh, sent, hw_joint_states_, inputs, rt>>
  BY <1>1 DEF StatesFresh
<1>2. CASE StartupCycle \/ Controllers
  BY <1>2 DEF StartupCycle, Update, ProcessAndSend, Controllers, StatesFresh
<1>3. CASE Read
  <2>1. /\ hw_joint_states_' = StatesRead(ProcessedStates(inputs')) /\ sent' = sent
        /\ rt' = "controllers" /\ fresh' = TRUE
    BY <1>3 DEF Read, commandHistory
  <2> SUFFICES ASSUME NEW m \in sent
               PROVE  hw_joint_states_'[m] = Inverts(m, Multiplier(m) * inputs'[m])
    BY <2>1 DEF StatesFresh
  <2>2. m \in Modules /\ m \in Registered
    BY DEF TypeOK, HistoryTypeOK, CommandsHeld
  <2> QED
    BY <2>1, <2>2 DEF StatesRead, ProcessedStates
<1>4. CASE Write
  BY <1>4 DEF Write, StatesFresh
<1>5. CASE EnterRead \/ EnterWrite
  BY <1>5 DEF EnterRead, EnterWrite, Enter, StatesFresh, historyVars, commandHistory
<1>6. CASE Complete
  BY <1>1, <1>6, Results DEF driverVars, masterVars, historyVars, commandHistory
<1>7. CASE /\ ~StartupCycle /\ ~Read /\ ~Controllers /\ ~Write /\ ~Complete
           /\ ~EnterRead /\ ~EnterWrite
  BY <1>1, <1>7 DEF Next, ServiceStep, RtStep, vars, CallActivate, CallDeactivate, ParameterInvalid, Lock,
     AddSlave, NextModule, ConfigSlaveSdo, Activate, ActivateFails, NoDomain, Deactivate, Return,
     AlChange, driverVars, masterVars, historyVars, commandHistory
<1> QED
  BY <1>2, <1>3, <1>4, <1>5, <1>6, <1>7

\* The invariant of the driver and its two threads holds in every state: its
\* parts are about the mutex, activation, the downloads, the frames, what the
\* plugins were told, and the commands and states of the joints.
THEOREM DriverInvariant == Spec => []DriverInv
<1>1. DriverInv /\ [Next]_vars => DriverInv'
  <2> SUFFICES ASSUME DriverInv, [Next]_vars PROVE DriverInv'
    OBVIOUS
  <2>1. TypeOK'
    BY TypesKept DEF DriverInv
  <2> QED
    BY <2>1, MutexKept, ActivatedKept, DownloadsKept, FramesKept, ToldKept, MismatchKept, PendingKept,
       HeldKept, StatesKept DEF DriverInv
<1> QED
  BY <1>1, InitInv, PTL DEF Spec

-----------------------------------------------------------------------------
(***************************************************************************)
(* What follows                                                            *)
(***************************************************************************)

\* The threads, the driver, the master and the slaves keep their types, for any
\* number of modules and any sequence of transitions.
THEOREM TypeCorrect == Spec => []TypeOK
<1>1. DriverInv => TypeOK
  BY DEF DriverInv
<1> QED
  BY <1>1, DriverInvariant, PTL

\* A pass of read or write never meets a lifecycle transition, nor a driver that
\* is not activated or has no domain (ec_mutex_ and activated_ in read and write).
THEOREM ThreadsExclude == Spec => []PassesAreExclusive
<1>1. DriverInv => PassesAreExclusive
  BY DEF DriverInv, MutexHeld, ActivatedWhen, PassesAreExclusive
<1> QED
  BY <1>1, DriverInvariant, PTL

\* At most two frames are under way, whatever read and write skip: write sends one
\* only in a cycle that received the one before, except after the startup loop.
THEOREM FramesBounded == Spec => []SendsAreReceived
<1>1. DriverInv => SendsAreReceived
  BY DEF DriverInv, FramesOutstanding, SendsAreReceived
<1> QED
  BY <1>1, DriverInvariant, PTL

\* checkSlaveStates tells a module of its slave within check_state_frequency_
\* passes, over any number of activations.
THEOREM ChangesLearned == Spec => []OperationalKnownInTime
<1>1. DriverInv => OperationalKnownInTime
  <2> SUFFICES ASSUME DriverInv, NEW m \in Watched PROVE mismatch[m] < check_state_frequency_
    BY DEF OperationalKnownInTime
  <2>1. m \in Modules
    <3>1. \A i \in DOMAIN slave_info_ : slave_info_[i] \in [slave : Modules, operational : BOOLEAN]
      BY SequenceHolds DEF DriverInv, TypeOK, MasterTypeOK
    <3> QED
      BY <3>1 DEF Watched
  <2>2. update_counter_ \in 0..(check_state_frequency_ - 1) /\ mismatch[m] \in Nat
    BY <2>1 DEF DriverInv, TypeOK, MasterTypeOK, HistoryTypeOK
  <2>3. mismatch[m] <= IF update_counter_ = 0 THEN check_state_frequency_ - 1 ELSE update_counter_ - 1
    BY <2>1 DEF DriverInv, PassesSinceCheck
  <2> QED
    BY <2>2, <2>3
<1> QED
  BY <1>1, DriverInvariant, PTL

\* No command is sent to a module whose configured SDOs were not all downloaded
\* in this activation: configSlaveSdo failing ends on_activate.
THEOREM SdosBeforeFrames == Spec => []FramesOnlyAfterSdo
<1>1. DriverInv => FramesOnlyAfterSdo
  BY DEF DriverInv, TypeOK, HistoryTypeOK, ActivatedWhen, DownloadedSoFar, FramesOnlyAfterSdo
<1> QED
  BY <1>1, DriverInvariant, PTL

\* From the write that sends it until the controllers write again, the process
\* data carries a command with the sign of the joint, turned around by further
\* writes only, for any inverted joints and right side wheels, whatever handlers,
\* transitions and startup loops come between (read, write, update).
THEOREM CommandsReachSlaves == Spec => []CommandsCarried
<1>1. DriverInv => CommandsCarried
  BY DEF DriverInv, CommandsHeld, CommandsCarried
<1> QED
  BY <1>1, DriverInvariant, PTL

\* A slave that does what it is told is read back as commanded: the two signs of
\* the command path cancel those of the state path, whichever joints have them.
THEOREM SignsCancel == Spec => []FeedbackMatchesCommand
<1>1. DriverInv => FeedbackMatchesCommand
  <2> SUFFICES ASSUME DriverInv, rt = "controllers", fresh, NEW m \in sent,
                      inputs[m] = outputs[m]
               PROVE  hw_joint_states_[m] = IF m \in Inverted /\ ~turned[m]
                                              THEN -Finite(asked[m]) ELSE Finite(asked[m])
    BY DEF FeedbackMatchesCommand
  <2>1. TypeOK /\ OnlyInverted /\ m \in Modules
    BY DEF DriverInv, TypeOK, HistoryTypeOK
  <2>2. outputs[m] = Multiplier(m) * Carried(m)
    BY DEF DriverInv, CommandsHeld
  <2>3. hw_joint_states_[m] = Inverts(m, Multiplier(m) * (Multiplier(m) * Carried(m)))
    BY <2>2 DEF DriverInv, StatesFresh
  <2>4. \A n \in Int : Multiplier(m) * (Multiplier(m) * n) = n
    BY DEF Multiplier
  <2>5. hw_joint_states_[m] = Inverts(m, Carried(m))
    BY <2>1, <2>3, <2>4, CarriedType
  <2>6. asked[m] \in IntOrNaN
    BY <2>1 DEF TypeOK, HistoryTypeOK
  <2>7. Finite(asked[m]) \in Int
    BY <2>1, <2>6, Signs
  <2>8. \A n \in Int : n # NaN /\ Negated(n) = -n /\ -n \in Int /\ -(-n) = n
    BY DEF Negated
  <2> QED
    BY <2>1, <2>5, <2>7, <2>8 DEF Inverts, Carried, OnlyInverted
<1> QED
  BY <1>1, DriverInvariant, PTL

=============================================================================
