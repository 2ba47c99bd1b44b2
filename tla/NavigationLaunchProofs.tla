----------------------- MODULE NavigationLaunchProofs -----------------------
(***************************************************************************)
(* The map saver node by itself, for every period, delay and timeout, and  *)
(* the launch file started with any arguments: what runs beside what and   *)
(* when, and what the map saver keeps in it.                               *)
(***************************************************************************)
EXTENDS NavigationLaunch, FiniteSetTheorems, TLAPS

-----------------------------------------------------------------------------
(***************************************************************************)
(* The map saver node                                                      *)
(***************************************************************************)

USE ParametersAssumption, RunsAssumption

\* Outside a save there is no child.
ChildOnlyInSave == node # "saving" => child = Nobody

\* How a timer, the time since the last save and the length of a save go
\* together: the periodic timer was set when the save began, or right after the
\* first one.
TimersInStep ==
  /\ node = "none" => since = Off /\ _periodic_timer = Off /\ ~initial
  /\ _initial_timer # Off => since = Off /\ _periodic_timer = Off /\ ~initial
  /\ since = Off => node # "saving"
  /\ node = "saving" => since <= _save_timeout
  /\ node = "saving" => (initial <=> _periodic_timer = Off)
  /\ node = "saving" /\ ~initial => _periodic_timer + since \in 0.._save_period
  /\ node = "spinning" /\ since # Off =>
       /\ _periodic_timer # Off
       /\ _periodic_timer > 0 =>
            since + _periodic_timer <= IF initial THEN lasted + _save_period ELSE _save_period
       /\ _periodic_timer <= 0 =>
            since <= IF initial THEN lasted + _save_period ELSE Larger(_save_period, lasted)

SaverInv ==
  /\ SaverTypeOK
  /\ ChildOnlyInSave
  /\ TimersInStep

\* The next call of a timer is within a period.
LEMMA CallInPeriod ==
  ASSUME NEW left \in Int, left <= 0, NEW period \in Nat \ {0}
  PROVE  rcl_timer_call(left, period) \in 0..period
<1>1. left % period \in 0..(period - 1)
  OBVIOUS
<1> QED
  BY <1>1 DEF rcl_timer_call

\* What a parameter becomes is a whole second or more.
LEMMA AtLeastOne == \A value \in Nat : AtLeastASecond(value) \in Nat \ {0}
BY DEF AtLeastASecond, Larger

\* The orphans can be counted.
LEMMA OrphansFinite ==
  ASSUME SaverTypeOK
  PROVE  IsFiniteSet(orphans) /\ Cardinality(orphans) \in Nat
BY FS_Subset, FS_CardinalityType DEF SaverTypeOK

\* There is always a name for a new run.
LEMMA FreeRun ==
  ASSUME SaverTypeOK
  PROVE  (CHOOSE r \in Runs : r \notin orphans) \in Runs \ orphans
<1>1. Runs \subseteq orphans => Cardinality(Runs) <= Cardinality(orphans)
  BY OrphansFinite, FS_Subset
<1>2. Cardinality(Runs) \in Nat
  BY FS_CardinalityType
<1>3. PICK r \in Runs : r \notin orphans
  BY <1>1, <1>2, OrphansFinite DEF SaverTypeOK
<1> QED
  BY <1>3

\* A save that begins gets a name of its own, or no process.
LEMMA BeginsFresh ==
  ASSUME SaverTypeOK, BeginSave
  PROVE  child' \in (Runs \ orphans) \cup {Nobody}
BY FreeRun DEF BeginSave

\* What a killed save leaves: at most MaxOrphans runs, none of them new.
LEMMA KillLeaves ==
  ASSUME SaverTypeOK, NEW left \in AfterKill
  PROVE  /\ left \subseteq Runs /\ left \subseteq orphans \cup {child}
         /\ Cardinality(left) <= MaxOrphans
<1>1. CASE left = orphans
  BY <1>1 DEF SaverTypeOK
<1>2. CASE left # orphans
  <2>1. child \in Runs /\ child \notin orphans /\ left = orphans \cup {child}
        /\ Cardinality(orphans) < MaxOrphans
    BY <1>2 DEF AfterKill, SaverTypeOK
  <2>2. Cardinality(left) = Cardinality(orphans) + 1
    BY <2>1, OrphansFinite, FS_AddElement
  <2> QED
    BY <2>1, <2>2, OrphansFinite DEF SaverTypeOK
<1> QED
  BY <1>1, <1>2

\* The end of a save keeps the types, and the periodic timer in step.
LEMMA EndKeepsTimers ==
  ASSUME SaverTypeOK, ChildOnlyInSave, TimersInStep,
         NEW left, left \subseteq Runs, Cardinality(left) <= MaxOrphans,
         EndSave(left)
  PROVE  SaverTypeOK' /\ ChildOnlyInSave' /\ TimersInStep'
<1>0. /\ node = "saving" /\ node' = "spinning" /\ child' = Nobody /\ orphans' = left
      /\ UNCHANGED <<_save_period, _save_timeout, _initial_timer, initial, since, image, yaml>>
      /\ lasted' = since
  BY DEF EndSave, LeaveRunning, parameters
<1>1. /\ initial => _periodic_timer' = _save_period
      /\ ~initial => _periodic_timer' = _periodic_timer /\ _periodic_timer # Off
  BY <1>0 DEF EndSave, create_timer, TimersInStep
<1>2. _periodic_timer' \in -_save_timeout.._save_period /\ _periodic_timer' # Off
  BY <1>0, <1>1 DEF SaverTypeOK
<1>3. wrote' \in [Runs -> {"nothing", "image", "yaml"}]
  BY DEF EndSave, LeaveRunning, SaverTypeOK
<1>4. SaverTypeOK'
  BY <1>0, <1>2, <1>3 DEF SaverTypeOK, TimersInStep
<1>5. ChildOnlyInSave'
  BY <1>0 DEF ChildOnlyInSave
<1>6. TimersInStep'
  <2>1. since # Off /\ since \in Nat /\ since <= _save_timeout
    BY <1>0 DEF TimersInStep, SaverTypeOK
  <2>2. CASE initial
    BY <1>0, <1>1, <1>2, <2>1, <2>2 DEF TimersInStep, SaverTypeOK
  <2>3. CASE ~initial
    BY <1>0, <1>1, <1>2, <2>1, <2>3 DEF TimersInStep, SaverTypeOK, Larger
  <2> QED
    BY <2>2, <2>3
<1> QED
  BY <1>4, <1>5, <1>6

\* The invariant holds before the node is constructed.
LEMMA SaverInitially == SaverInit => SaverInv
<1> SUFFICES ASSUME SaverInit PROVE SaverInv
  OBVIOUS
<1>1. Cardinality(orphans) <= MaxOrphans
  BY FS_EmptySet DEF SaverInit
<1>2. _periodic_timer # Off => _periodic_timer \in -_save_timeout.._save_period
  BY DEF SaverInit
<1>3. wrote \in [Runs -> {"nothing", "image", "yaml"}]
  BY DEF SaverInit
<1>4. initial \in BOOLEAN
  BY DEF SaverInit
<1>5. SaverTypeOK
  BY <1>1, <1>2, <1>3, <1>4 DEF SaverInit, SaverTypeOK
<1> QED
  BY <1>5 DEF SaverInit, SaverInv, ChildOnlyInSave, TimersInStep

-----------------------------------------------------------------------------

\* Every step of the node, of a map_saver_cli and of time keeps the invariant.
LEMMA SaverStepKeepsInv ==
  ASSUME SaverInv, [SaverNext]_saverVars
  PROVE  SaverInv'
<1> USE DEF SaverInv
<1>1. ASSUME NEW path \in Paths, NEW initialDelay \in Delays, NEW period \in Periods,
             NEW timeout \in Timeouts, Construct(path, initialDelay, period, timeout)
      PROVE  SaverInv'
  <2>1. /\ node = "none" /\ node' \in {"spinning", "ended"}
        /\ UNCHANGED <<_periodic_timer, initial, since, child, orphans, wrote, image, yaml,
                       lasted>>
    BY <1>1 DEF Construct, timers, files
  <2>2. \/ UNCHANGED <<_save_period, _save_timeout, _initial_timer>>
        \/ /\ _save_period' \in Nat \ {0} /\ _save_timeout' \in Nat \ {0}
           /\ _initial_timer' \in Nat
    <3>1. CASE UNCHANGED <<parameters, timers>>
      BY <3>1 DEF parameters, timers
    <3>2. CASE /\ _save_period' = AtLeastASecond(period) /\ _save_timeout' = AtLeastASecond(timeout)
               /\ _initial_timer' = AtLeastASecond(initialDelay)
      BY <3>2, AtLeastOne
    <3> QED
      BY <1>1, <3>1, <3>2 DEF Construct
  <2> QED
    BY <2>1, <2>2 DEF SaverTypeOK, ChildOnlyInSave, TimersInStep
<1>2. CASE _on_initial_timer
  <2>0. child' \in (Runs \ orphans) \cup {Nobody}
    BY <1>2, BeginsFresh DEF _on_initial_timer
  <2>1. SaverTypeOK'
    BY <1>2, <2>0 DEF _on_initial_timer, BeginSave, parameters, files, SaverTypeOK
  <2>2. ChildOnlyInSave'
    BY <1>2 DEF _on_initial_timer, BeginSave, ChildOnlyInSave
  <2>3. TimersInStep'
    BY <1>2 DEF _on_initial_timer, BeginSave, parameters, SaverTypeOK, TimersInStep
  <2> QED
    BY <2>1, <2>2, <2>3
<1>3. CASE OnPeriodicTimer
  <2>0. child' \in (Runs \ orphans) \cup {Nobody}
    BY <1>3, BeginsFresh DEF OnPeriodicTimer
  <2>a. _periodic_timer' \in 0.._save_period
    BY <1>3, CallInPeriod DEF OnPeriodicTimer, SaverTypeOK
  <2>b. _periodic_timer' \in Int /\ _periodic_timer' \in -_save_timeout'.._save_period'
    BY <1>3, <2>a DEF OnPeriodicTimer, parameters, SaverTypeOK
  <2>c. /\ UNCHANGED <<_save_period, _save_timeout, _initial_timer, orphans, wrote, image, yaml, lasted>>
        /\ node' = "saving" /\ initial' = FALSE /\ since' = 0
    BY <1>3 DEF OnPeriodicTimer, BeginSave, parameters, files
  <2>1. SaverTypeOK'
    <3>1. initial' \in BOOLEAN
      BY <2>c
    <3> QED
      BY <2>0, <2>b, <2>c, <3>1 DEF SaverTypeOK
  <2>2. ChildOnlyInSave'
    BY <1>3 DEF OnPeriodicTimer, BeginSave, ChildOnlyInSave
  <2>3. TimersInStep'
    BY <1>3, <2>a DEF OnPeriodicTimer, BeginSave, parameters, SaverTypeOK, TimersInStep
  <2> QED
    BY <2>1, <2>2, <2>3
<1>4. CASE SaveCompleted
  <2>e. EndSave(orphans)
    BY <1>4 DEF SaveCompleted
  <2>1. SaverTypeOK' /\ ChildOnlyInSave' /\ TimersInStep'
    BY <2>e, EndKeepsTimers DEF SaverTypeOK
  <2> QED
    BY <2>1
<1>5. CASE SaveFailed
  <2>e. EndSave(orphans)
    BY <1>5 DEF SaveFailed
  <2>1. SaverTypeOK' /\ ChildOnlyInSave' /\ TimersInStep'
    BY <2>e, EndKeepsTimers DEF SaverTypeOK
  <2> QED
    BY <2>1
<1>6. CASE TimeoutExpired
  <2>e. PICK left \in AfterKill : EndSave(left)
    BY <1>6 DEF TimeoutExpired
  <2>k. /\ left \subseteq Runs /\ left \subseteq orphans \cup {child}
        /\ Cardinality(left) <= MaxOrphans
    BY KillLeaves
  <2>1. SaverTypeOK' /\ ChildOnlyInSave' /\ TimersInStep'
    BY <2>e, <2>k, EndKeepsTimers
  <2> QED
    BY <2>1
<1>7. CASE NodeEnds
  <2>e. PICK left \in AfterKill : LeaveRunning(left)
    BY <1>7 DEF NodeEnds
  <2>k. /\ left \subseteq Runs /\ left \subseteq orphans \cup {child}
        /\ Cardinality(left) <= MaxOrphans
    BY KillLeaves
  <2>w. wrote' \in [Runs -> {"nothing", "image", "yaml"}]
    BY <2>e DEF LeaveRunning, SaverTypeOK
  <2>1. SaverTypeOK'
    BY <1>7, <2>e, <2>k, <2>w DEF NodeEnds, LeaveRunning, parameters, timers, SaverTypeOK
  <2>2. ChildOnlyInSave'
    BY <2>e DEF LeaveRunning, ChildOnlyInSave
  <2>3. TimersInStep'
    BY <1>7 DEF NodeEnds, parameters, timers, TimersInStep
  <2> QED
    BY <2>1, <2>2, <2>3
<1>8. CASE MapSaverCli
  <2>1. SaverTypeOK'
    BY <1>8 DEF MapSaverCli, WriteImage, WriteYaml, parameters, timers, SaverTypeOK
  <2>2. ChildOnlyInSave'
    BY <1>8 DEF MapSaverCli, ChildOnlyInSave
  <2>3. TimersInStep'
    BY <1>8 DEF MapSaverCli, parameters, timers, TimersInStep
  <2> QED
    BY <2>1, <2>2, <2>3
<1>9. CASE OrphanEnds
  <2>1. SaverTypeOK'
    <3>1. PICK r \in orphans : orphans' = orphans \ {r}
      BY <1>9 DEF OrphanEnds
    <3>2. Cardinality(orphans') <= Cardinality(orphans) /\ Cardinality(orphans') \in Nat
      BY <3>1, OrphansFinite, FS_Subset, FS_CardinalityType
    <3>3. wrote' \in [Runs -> {"nothing", "image", "yaml"}]
      BY <1>9 DEF OrphanEnds, SaverTypeOK
    <3> QED
      BY <1>9, <3>1, <3>2, <3>3, OrphansFinite DEF OrphanEnds, parameters, timers, SaverTypeOK
  <2>2. ChildOnlyInSave'
    BY <1>9 DEF OrphanEnds, ChildOnlyInSave
  <2>3. TimersInStep'
    BY <1>9 DEF OrphanEnds, parameters, timers, TimersInStep
  <2> QED
    BY <2>1, <2>2, <2>3
<1>10. CASE SaverTick
  <2>1. SaverTypeOK'
    BY <1>10 DEF SaverTick, Due, parameters, timers, files, SaverTypeOK, TimersInStep
  <2>2. ChildOnlyInSave'
    BY <1>10 DEF SaverTick, ChildOnlyInSave
  <2>3. TimersInStep'
    BY <1>10 DEF SaverTick, Due, Larger, parameters, timers, SaverTypeOK, TimersInStep
  <2> QED
    BY <2>1, <2>2, <2>3
<1>11. CASE UNCHANGED saverVars
  BY <1>11 DEF saverVars, parameters, timers, files, SaverTypeOK, ChildOnlyInSave, TimersInStep
<1> QED
  BY <1>1, <1>2, <1>3, <1>4, <1>5, <1>6, <1>7, <1>8, <1>9, <1>10, <1>11 DEF SaverNext, SaverStep

\* The invariant bounds the time between saves.
LEMMA SaverInvBounds == SaverInv => SavesComeInTime
BY DEF SaverInv, SaverTypeOK, TimersInStep, SavesComeInTime, Larger

-----------------------------------------------------------------------------

\* SaverInv holds throughout.
THEOREM SaverInvariant == SaverSpec => []SaverInv
<1>1. SaverInit => SaverInv
  BY SaverInitially
<1>2. SaverInv /\ [SaverNext]_saverVars => SaverInv'
  BY SaverStepKeepsInv
<1> QED
  BY <1>1, <1>2, PTL DEF SaverSpec

\* Whatever the parameters and however the saves end, the next save comes in time
\* (_on_initial_timer, _save_map).
THEOREM SavesInTime == SaverSpec => []SavesComeInTime
BY SaverInvariant, SaverInvBounds, PTL

-----------------------------------------------------------------------------
(***************************************************************************)
(* The launch file                                                         *)
(***************************************************************************)

LaunchTypeOK ==
  /\ args \in Arguments
  /\ launch \in {"parsed", "running", "failed"}
  /\ elapsed \in 0..LastDelay
  /\ started \subseteq Undelayed \cup Delayed

\* What was due before now was started.
StartedInTime ==
  /\ launch # "running" => elapsed = 0 /\ started = {}
  /\ \A timer \in TimerActions : timer.period < elapsed => timer.name \in started
  /\ manager \in started => _lifecycle_manager.period <= elapsed

\* Without its process the map saver does nothing, and its process comes with
\* slam_toolbox.
SaverWithSlam ==
  /\ node = "none" => child = Nobody /\ orphans = {} /\ image = Nobody /\ yaml = Nobody
  /\ node # "none" => "map_saver_watchdog" \in started
  /\ "map_saver_watchdog" \in started => "slam_toolbox" \in started

LaunchInv == LaunchTypeOK /\ StartedInTime /\ SaverWithSlam

\* A step of the launch is a step of the map saver, or none to it.
LEMMA StepOfSaver ==
  ASSUME LaunchTypeOK, [Next]_vars
  PROVE  [SaverNext]_saverVars
<1>1. CASE Execute \/ \E timer \in TimerActions : StartNode(timer)
  BY <1>1 DEF Execute, StartNode
<1>2. CASE StartMapSaver
  BY <1>2, ArgumentsAssumption DEF StartMapSaver, SaverNext, LaunchTypeOK
<1>3. CASE RunMapSaver
  BY <1>3 DEF RunMapSaver, SaverNext
<1>4. CASE Tick
  BY <1>4 DEF Tick, SaverNext
<1>5. CASE UNCHANGED vars
  BY <1>5 DEF vars
<1> QED
  BY <1>1, <1>2, <1>3, <1>4, <1>5 DEF Next

\* The delayed nodes, by name, and the manager's delay, which no other node has.
LEMMA DelayedNodes ==
  /\ Delayed = {"controller_server", "planner_server", "bt_navigator", "behavior_server",
                "smoother_server", "waypoint_follower", "velocity_smoother", manager}
                 \cup IF localization_condition THEN {"map_server", "amcl"} ELSE {}
  /\ \A timer \in TimerActions :
       /\ timer.period \in 1..LastDelay
       /\ timer = _lifecycle_manager \/ (timer.name # manager /\ timer.period < LastDelay)
  /\ _lifecycle_manager \in TimerActions
  /\ _lifecycle_manager.name = manager /\ _lifecycle_manager.period = LastDelay
<1>1. {timer.name : timer \in _navigation_nodes} =
        {"controller_server", "planner_server", "bt_navigator", "behavior_server",
         "smoother_server", "waypoint_follower", "velocity_smoother"}
  BY DEF _navigation_nodes
<1>2. {timer.name : timer \in localization_timers} = {"map_server", "amcl"}
  BY DEF localization_timers
<1>3. _lifecycle_manager.name = manager /\ _lifecycle_manager.period = LastDelay
  BY DEF _lifecycle_manager, LastDelay
<1>4. Delayed = {timer.name : timer \in _navigation_nodes} \cup {_lifecycle_manager.name}
                  \cup IF localization_condition THEN {timer.name : timer \in localization_timers}
                                                 ELSE {}
  BY DEF Delayed, TimerActions
<1>5. \A timer \in _navigation_nodes \cup localization_timers :
        timer.period \in 1..16 /\ timer.name # manager
  BY DEF _navigation_nodes, localization_timers, manager
<1>6. /\ TimerActions \subseteq _navigation_nodes \cup localization_timers \cup {_lifecycle_manager}
      /\ _lifecycle_manager \in TimerActions
  BY DEF TimerActions
<1> QED
  BY <1>1, <1>2, <1>3, <1>4, <1>5, <1>6 DEF LastDelay

\* The invariant holds before the launch.
LEMMA LaunchInitially == Init => LaunchInv
<1> SUFFICES ASSUME Init PROVE LaunchInv
  OBVIOUS
<1>1. \A timer \in TimerActions : ~(timer.period < 0)
  BY DelayedNodes DEF LastDelay
<1> QED
  BY <1>1 DEF Init, SaverInit, LaunchInv, LaunchTypeOK, StartedInTime, SaverWithSlam, LastDelay

\* The map saver is chosen with slam_toolbox only, and both have no delay.
LEMMA ChosenTogether ==
  /\ "map_saver_watchdog" \in Undelayed => "slam_toolbox" \in Undelayed
  /\ "slam_toolbox" \in Undelayed => mapping_condition
  /\ Undelayed \cap Delayed = {}
<1>1. auto_save_condition => mapping_condition
  BY DEF auto_save_condition, mapping_condition, IfCondition
<1> QED
  BY <1>1, DelayedNodes DEF Undelayed, manager

\* A timer's node is a delayed one.
LEMMA TimerName == \A timer \in TimerActions : timer.name \in Delayed
BY DEF Delayed

\* What the arguments choose does not change while they do not.
LEMMA ChoiceIsFixed ==
  ASSUME args' = args
  PROVE  TimerActions' = TimerActions /\ Delayed' = Delayed /\ Undelayed' = Undelayed
<1>1. TimerActions' = TimerActions
  BY DEF TimerActions, localization_condition
<1>2. Delayed' = Delayed
  BY <1>1 DEF Delayed
<1> QED
  BY <1>1, <1>2 DEF Undelayed, mapping_condition, auto_save_condition

\* Every step of the launch keeps the invariant.
LEMMA LaunchStepKeepsInv ==
  ASSUME LaunchInv, [Next]_vars
  PROVE  LaunchInv'
<1> USE DEF LaunchInv
<1>1. args' = args
  BY DEF Next, Execute, StartNode, StartMapSaver, RunMapSaver, Tick, launchVars, vars
<1>2. TimerActions' = TimerActions /\ Delayed' = Delayed /\ Undelayed' = Undelayed
  BY <1>1, ChoiceIsFixed
<1>3. CASE Execute
  <2>1. started' \in {{}, Undelayed} /\ elapsed' = elapsed /\ elapsed = 0 /\ launch' # "parsed"
        /\ (launch' = "failed" => started' = {}) /\ UNCHANGED saverVars
    BY <1>3 DEF Execute, StartedInTime
  <2>2. LaunchTypeOK'
    BY <1>1, <1>2, <1>3, <2>1 DEF Execute, LaunchTypeOK
  <2>3. StartedInTime'
    <3>1. manager \notin started'
      BY <2>1, ChosenTogether, DelayedNodes
    <3>2. \A timer \in TimerActions : ~(timer.period < 0)
      BY DelayedNodes DEF LastDelay
    <3> QED
      BY <1>2, <1>3, <2>1, <3>1, <3>2 DEF Execute, StartedInTime
  <2>4. SaverWithSlam'
    BY <1>3, <2>1, ChosenTogether DEF Execute, StartedInTime, SaverWithSlam, saverVars, files
  <2> QED
    BY <2>2, <2>3, <2>4
<1>4. ASSUME NEW timer \in TimerActions, StartNode(timer)
      PROVE  LaunchInv'
  <2>1. LaunchTypeOK'
    BY <1>1, <1>2, <1>4, TimerName DEF StartNode, LaunchTypeOK
  <2>2. StartedInTime'
    BY <1>2, <1>4, DelayedNodes DEF StartNode, IsDue, StartedInTime
  <2>3. SaverWithSlam'
    <3>1. started' = started \cup {timer.name} /\ timer.name # "map_saver_watchdog"
      BY <1>4, DelayedNodes, TimerName DEF StartNode, manager
    <3> QED
      BY <1>4, <3>1 DEF StartNode, SaverWithSlam, saverVars, files
  <2> QED
    BY <2>1, <2>2, <2>3
<1>5. CASE StartMapSaver \/ RunMapSaver
  <2>1. UNCHANGED launchVars
    BY <1>5 DEF StartMapSaver, RunMapSaver
  <2>2. LaunchTypeOK' /\ StartedInTime'
    BY <1>2, <2>1 DEF launchVars, LaunchTypeOK, StartedInTime
  <2>3. SaverWithSlam'
    <3>1. CASE StartMapSaver
      BY <2>1, <3>1 DEF StartMapSaver, Construct, launchVars, files, SaverWithSlam
    <3>2. CASE RunMapSaver /\ node = "none"
      <4>1. node' = "none" /\ UNCHANGED <<child, orphans, image, yaml>>
        BY <3>2 DEF RunMapSaver, SaverStep, _on_initial_timer, OnPeriodicTimer, SaveCompleted,
             SaveFailed, TimeoutExpired, EndSave, NodeEnds, MapSaverCli, OrphanEnds, SaverWithSlam
      <4> QED
        BY <2>1, <3>2, <4>1 DEF SaverWithSlam, launchVars
    <3>3. CASE RunMapSaver /\ node # "none"
      <4>1. node' # "none"
        BY <3>3 DEF RunMapSaver, SaverStep, _on_initial_timer, OnPeriodicTimer, BeginSave,
             SaveCompleted, SaveFailed, TimeoutExpired, EndSave, NodeEnds, MapSaverCli, OrphanEnds
      <4> QED
        BY <2>1, <3>3, <4>1 DEF SaverWithSlam, launchVars
    <3> QED
      BY <1>5, <3>1, <3>2, <3>3
  <2> QED
    BY <2>2, <2>3
<1>6. CASE Tick
  <2>1. LaunchTypeOK'
    BY <1>1, <1>2, <1>6 DEF Tick, LaunchTypeOK, LastDelay
  <2>2. StartedInTime'
    BY <1>2, <1>6, DelayedNodes DEF Tick, IsDue, LaunchTypeOK, StartedInTime, LastDelay
  <2>3. SaverWithSlam'
    BY <1>6 DEF Tick, SaverTick, files, SaverWithSlam
  <2> QED
    BY <2>1, <2>2, <2>3
<1>7. CASE UNCHANGED vars
  BY <1>2, <1>7 DEF vars, launchVars, saverVars, files, LaunchTypeOK, StartedInTime, SaverWithSlam
<1> QED
  BY <1>3, <1>4, <1>5, <1>6, <1>7 DEF Next

-----------------------------------------------------------------------------

\* The launch keeps LaunchInv and runs the map saver as it is specified.
THEOREM LaunchInvariant == Spec => []LaunchInv /\ SaverSpec
<1>1. Init => LaunchInv
  BY LaunchInitially
<1>2. LaunchInv /\ [Next]_vars => LaunchInv'
  BY LaunchStepKeepsInv
<1>3. LaunchInv /\ [Next]_vars => [SaverNext]_saverVars
  BY StepOfSaver DEF LaunchInv
<1>4. Init => SaverInit
  BY DEF Init
<1> QED
  BY <1>1, <1>2, <1>3, <1>4, PTL DEF Spec, SaverSpec

\* Every variable of the launch and the map saver keeps its type.
THEOREM TypeCorrect == Spec => []TypeOK
<1>1. LaunchInv /\ SaverInv => TypeOK
  BY DEF LaunchInv, LaunchTypeOK, SaverInv, TypeOK
<1> QED
  BY <1>1, LaunchInvariant, SaverInvariant, PTL

\* No arguments make a rover localize in a map that is being written, or run
\* SLAM and AMCL side by side (mapping_condition, auto_save_condition).
THEOREM MapHasOneSource == Spec => []OneMapSource
<1>1. LaunchInv /\ SaverInv => OneMapSource
  <2> SUFFICES ASSUME LaunchInv, SaverInv PROVE OneMapSource
    OBVIOUS
  <2>1. "slam_toolbox" \in started => mapping_condition
    <3>1. "slam_toolbox" \notin Delayed
      BY DelayedNodes DEF manager
    <3> QED
      BY <3>1, ChosenTogether DEF LaunchInv, LaunchTypeOK
  <2>2. mapping_condition => started \cap {"map_server", "amcl"} = {}
    <3>1. started \subseteq Undelayed \cup Delayed
      BY DEF LaunchInv, LaunchTypeOK
    <3>2. Undelayed \cap {"map_server", "amcl"} = {}
      BY DEF Undelayed
    <3>3. mapping_condition => Delayed \cap {"map_server", "amcl"} = {}
      BY DelayedNodes DEF mapping_condition, localization_condition, manager
    <3> QED
      BY <3>1, <3>2, <3>3
  <2>3. localization_condition => ~mapping_condition
    BY DEF localization_condition, mapping_condition
  <2> QED
    BY <2>1, <2>2, <2>3 DEF OneMapSource, LaunchInv, SaverWithSlam
<1> QED
  BY <1>1, LaunchInvariant, SaverInvariant, PTL

\* When the lifecycle manager starts, every node with a delay has been started,
\* and these are the ones whose names it has, in both modes (_navigation_nodes,
\* _lifecycle_manager, mapping_nodes, localization_nodes).
THEOREM ManagerLast == Spec => []ManagerComesLast
<1>1. LaunchInv => ManagerComesLast
  <2> SUFFICES ASSUME LaunchInv, manager \in started
               PROVE  started \ Undelayed = node_names \cup {manager}
    BY DEF ManagerComesLast
  <2>1. elapsed = LastDelay
    BY DelayedNodes DEF LaunchInv, LaunchTypeOK, StartedInTime, LastDelay
  <2>2. ASSUME NEW timer \in TimerActions PROVE timer.name \in started
    BY <2>1, <2>2, DelayedNodes DEF LaunchInv, StartedInTime
  <2>3. Delayed \subseteq started
    BY <2>2 DEF Delayed
  <2>4. started \ Undelayed = Delayed
    BY <2>3, ChosenTogether DEF LaunchInv, LaunchTypeOK
  <2>5. localization_condition <=> ~mapping_condition
    BY DEF localization_condition, mapping_condition
  <2>6. Delayed = node_names \cup {manager}
    BY <2>5, DelayedNodes DEF node_names, mapping_nodes, localization_nodes
  <2> QED
    BY <2>4, <2>6
<1> QED
  BY <1>1, LaunchInvariant, PTL
=============================================================================
