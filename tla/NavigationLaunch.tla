-------------------------- MODULE NavigationLaunch --------------------------
(***************************************************************************)
(* navigation.launch.py: which nodes the arguments choose and when they    *)
(* are started, with the map saver among them.                             *)
(*                                                                         *)
(* Delays are whole seconds: the 0.1 s of map_server counts as one.  The   *)
(* actions that are due are executed before time goes on.                  *)
(***************************************************************************)
EXTENDS MapSaver

CONSTANT
  Arguments                 \* values of the launch arguments

ASSUME ArgumentsAssumption ==
  \A a \in Arguments : /\ a.map \in Paths
                       /\ a.map_save_initial_delay \in Delays
                       /\ a.map_save_period \in Periods

VARIABLES
  args,
  launch,                   \* "parsed", "running" or "failed"
  elapsed,                  \* seconds since the description was executed
  started                   \* nodes whose process was started

launchVars == <<args, launch, elapsed, started>>
vars == <<launchVars, saverVars>>

\* str.lower, on the values that occur.
lower(value) == CASE value = "True"  -> "true"
                  [] value = "False" -> "false"
                  [] OTHER           -> value

\* IfCondition of an argument: what is neither true nor false is an error.
IsCondition(value) == lower(value) \in {"true", "1", "false", "0"}
IfCondition(value) == lower(value) \in {"true", "1"}

mapping_condition == IfCondition(args.generate_new_map)
localization_condition == ~IfCondition(args.generate_new_map)

\* A variant of auto_save_condition that forgets the mode.
AutoSaveAlone == lower(args.auto_save_map) = "true"

auto_save_condition ==
  lower(args.generate_new_map) = "true" /\ lower(args.auto_save_map) = "true"

manager == "lifecycle_manager_navigation"

\* A variant of mapping_nodes without the last name of the list.
NamesShort ==
  {"planner_server", "controller_server", "bt_navigator", "behavior_server",
   "smoother_server", "waypoint_follower"}

\* The names the launch file lists for the lifecycle manager in either mode.
mapping_nodes ==
  {"planner_server", "controller_server", "bt_navigator", "behavior_server",
   "smoother_server", "waypoint_follower", "velocity_smoother"}

localization_nodes == {"map_server", "amcl"} \cup mapping_nodes

node_names == IF mapping_condition THEN mapping_nodes ELSE localization_nodes

\* The nodes without a delay, and what the conditions leave of them.
Undelayed ==
  {"pointcloud_to_laserscan", "nav2_cmd_vel_relay"}
    \cup (IF mapping_condition THEN {"slam_toolbox"} ELSE {})
    \cup (IF auto_save_condition THEN {"map_saver_watchdog"} ELSE {})

\* The TimerActions: which nodes each mode starts, and after how many seconds.
_navigation_nodes ==
  {[name |-> "controller_server", period |-> 4], [name |-> "planner_server", period |-> 6],
   [name |-> "bt_navigator", period |-> 8], [name |-> "behavior_server", period |-> 10],
   [name |-> "smoother_server", period |-> 12], [name |-> "waypoint_follower", period |-> 14],
   [name |-> "velocity_smoother", period |-> 16]}

localization_timers == {[name |-> "map_server", period |-> 1], [name |-> "amcl", period |-> 2]}

_lifecycle_manager == [name |-> manager, period |-> 18]

TimerActions ==
  _navigation_nodes \cup {_lifecycle_manager}
    \cup IF localization_condition THEN localization_timers ELSE {}

Delayed == {timer.name : timer \in TimerActions}

LastDelay == 18

Init ==
  /\ args \in Arguments
  /\ launch = "parsed"
  /\ elapsed = 0
  /\ started = {}
  /\ SaverInit

\* The description is executed; a condition that is none makes it fail at the
\* first node that has it, after pointcloud_to_laserscan.
Execute ==
  /\ launch = "parsed"
  /\ \/ /\ IsCondition(args.generate_new_map)
        /\ launch' = "running"
        /\ started' = Undelayed
     \/ /\ ~IsCondition(args.generate_new_map)
        /\ launch' = "failed"
        /\ UNCHANGED started
  /\ UNCHANGED <<args, elapsed, saverVars>>

IsDue(timer) == timer.name \notin started /\ timer.period <= elapsed

StartNode(timer) ==
  /\ launch = "running"
  /\ IsDue(timer)
  /\ started' = started \cup {timer.name}
  /\ UNCHANGED <<args, launch, elapsed, saverVars>>

\* The process of the map saver comes to its constructor.
StartMapSaver ==
  /\ "map_saver_watchdog" \in started
  /\ \E timeout \in Timeouts :
       Construct(args.map, args.map_save_initial_delay, args.map_save_period, timeout)
  /\ UNCHANGED launchVars

RunMapSaver == SaverStep /\ UNCHANGED launchVars

Tick ==
  /\ launch = "running"
  /\ \A timer \in TimerActions : ~IsDue(timer)
  /\ elapsed' = IF elapsed < LastDelay THEN elapsed + 1 ELSE elapsed
  /\ SaverTick
  /\ UNCHANGED <<args, launch, started>>

Next ==
  \/ Execute
  \/ \E timer \in TimerActions : StartNode(timer)
  \/ StartMapSaver
  \/ RunMapSaver
  \/ Tick

Spec == Init /\ [][Next]_vars

\* Processes start, time goes on, the thread of the node serves what is due and
\* subprocess.run keeps its timeout.  How a save ends is left open.
Serve ==
  /\ _on_initial_timer \/ OnPeriodicTimer \/ TimeoutExpired
     \/ (child = Nobody /\ SaveFailed)
  /\ UNCHANGED launchVars

FairSpec ==
  /\ Spec
  /\ WF_vars(Execute)
  /\ WF_vars(\E timer \in TimerActions : StartNode(timer))
  /\ WF_vars(StartMapSaver)
  /\ WF_vars(Serve)
  /\ WF_vars(Tick)

-----------------------------------------------------------------------------
(***************************************************************************)
(* Properties                                                              *)
(***************************************************************************)

TypeOK ==
  /\ args \in Arguments
  /\ launch \in {"parsed", "running", "failed"}
  /\ elapsed \in 0..LastDelay
  /\ started \subseteq Undelayed \cup Delayed
  /\ SaverTypeOK

\* The map a rover localizes in is never written, and whoever writes it runs
\* beside slam_toolbox, without map_server and amcl: the conditions of the nodes
\* leave one source of the map.
OneMapSource ==
  /\ localization_condition => image = Nobody /\ yaml = Nobody
  /\ child # Nobody => "slam_toolbox" \in started
  /\ "slam_toolbox" \in started => started \cap {"map_server", "amcl"} = {}

\* When the lifecycle manager starts, the nodes started by a timer are those it
\* is told to configure: none of them is still to come, and none is left out of
\* its list and would stay unconfigured.  The timers (_navigation_nodes), the
\* lists of names and the conditions of both are written down apart.
ManagerComesLast == manager \in started => started \ Undelayed = node_names \cup {manager}

\* A map that is to be saved is saved again and again, unless the node ends: no
\* save, however it ends, is the last one, and none, whatever map_saver_cli does,
\* goes on for ever (_on_initial_timer, _save_map).
SavesGoOn ==
  (auto_save_condition /\ args.map # "") =>
    (([]<>(node = "saving") /\ []<>(node = "spinning")) \/ <>(node = "ended"))
=============================================================================
