------------------------------ MODULE MapSaver ------------------------------
(***************************************************************************)
(* map_saver_watchdog.py: a node that runs map_saver_cli again and again.  *)
(*                                                                         *)
(* The node has one thread, so while a save runs no timer is served; a     *)
(* timer that is overdue is called as soon as the thread is free.  What is *)
(* left of a delay is counted down in seconds, to below zero when it is    *)
(* overdue.  What is due happens before time goes on.                      *)
(*                                                                         *)
(* External, from how the node uses them: rcl moves the next call of a     *)
(* timer on when it calls it, and subprocess.run kills `ros2' at the       *)
(* timeout but not the map_saver_cli it started, which writes the image    *)
(* and then the YAML file.                                                 *)
(***************************************************************************)
EXTENDS Integers, FiniteSets

CONSTANTS
  Paths,                      \* values of map_yaml_path
  Delays, Periods, Timeouts,  \* values of the other parameters, in seconds
  Runs,                       \* names for runs of map_saver_cli
  MaxOrphans,                 \* how many of them a timeout may leave behind
  Nobody,                     \* no run
  Off                         \* no timer

ASSUME ParametersAssumption ==
  /\ Delays \subseteq Nat /\ Periods \subseteq Nat /\ Timeouts \subseteq Nat
  /\ Off \notin Int

ASSUME RunsAssumption ==
  /\ MaxOrphans \in Nat
  /\ IsFiniteSet(Runs) /\ Cardinality(Runs) > MaxOrphans
  /\ Nobody \notin Runs

VARIABLES
  node,                       \* "none", "spinning", "saving" or "ended"
  _save_period, _save_timeout,
  _initial_timer,             \* what is left of a timer, or Off
  _periodic_timer,
  initial,                    \* the last save was that of the initial timer
  since,                      \* seconds since the last save began, or Off
  lasted,                     \* how long the last save took that ended
  child,                      \* the map_saver_cli of the save that runs, or Nobody
  orphans,                    \* the ones left behind
  wrote,                      \* what each run there is has written
  image, yaml                 \* the run that wrote the file, or Nobody

parameters == <<_save_period, _save_timeout>>
timers == <<_initial_timer, _periodic_timer>>
files == <<wrote, image, yaml>>
saverVars == <<node, parameters, timers, initial, since, lasted, child, orphans, files>>

Larger(a, b) == IF a > b THEN a ELSE b

SaverInit ==
  /\ node = "none"
  /\ _save_period = 1 /\ _save_timeout = 1
  /\ _initial_timer = Off /\ _periodic_timer = Off
  /\ initial = FALSE
  /\ since = Off /\ lasted = 0
  /\ child = Nobody
  /\ orphans = {}
  /\ wrote = [r \in Runs |-> "nothing"]
  /\ image = Nobody /\ yaml = Nobody

-----------------------------------------------------------------------------
(***************************************************************************)
(* The node                                                                *)
(***************************************************************************)

\* A variant of AtLeastASecond without the lower limit.
Unclamped(value) == value

\* The least period and timeout; the least delay, 0.1 s, counts as a second too.
AtLeastASecond(value) == Larger(1, value)

\* The constructor: an empty path ends the node.
Construct(map_yaml_path, delay, period, timeout) ==
  /\ node = "none"
  /\ \/ /\ map_yaml_path = ""
        /\ node' = "ended"
        /\ UNCHANGED <<parameters, timers>>
     \/ /\ map_yaml_path # ""
        /\ node' = "spinning"
        /\ _save_period' = AtLeastASecond(period)
        /\ _save_timeout' = AtLeastASecond(timeout)
        /\ _initial_timer' = AtLeastASecond(delay)
        /\ UNCHANGED _periodic_timer
  /\ UNCHANGED <<initial, since, lasted, child, orphans, files>>

\* _save_map up to the start of the process, which may not be possible.
BeginSave ==
  /\ node' = "saving"
  /\ since' = 0
  /\ child' \in {CHOOSE r \in Runs : r \notin orphans, Nobody}

_on_initial_timer ==
  /\ node = "spinning"
  /\ _initial_timer # Off /\ _initial_timer <= 0
  /\ _initial_timer' = Off
  /\ initial' = TRUE
  /\ BeginSave
  /\ UNCHANGED <<parameters, _periodic_timer, lasted, orphans, files>>

\* When rcl calls a timer next: a period after it was due or, when that is over,
\* at the first multiple of the period that is not.
rcl_timer_call(left, period) == IF left = 0 THEN period ELSE left % period

OnPeriodicTimer ==
  /\ node = "spinning"
  /\ _periodic_timer # Off /\ _periodic_timer <= 0
  /\ _periodic_timer' = rcl_timer_call(_periodic_timer, _save_period)
  /\ initial' = FALSE
  /\ BeginSave
  /\ UNCHANGED <<parameters, _initial_timer, lasted, orphans, files>>

\* A variant of create_timer that leaves the periodic timer out.
NoTimer == _periodic_timer

\* The initial timer creates the periodic one after its save.
create_timer == IF initial THEN _save_period ELSE _periodic_timer

\* Of the runs only some orphans are left.
LeaveRunning(left) ==
  /\ child' = Nobody
  /\ orphans' = left
  /\ wrote' = [r \in Runs |-> IF r \in left THEN wrote[r] ELSE "nothing"]
  /\ UNCHANGED <<image, yaml>>

\* The orphans there may be once ros2 was killed: map_saver_cli may live on.
AfterKill ==
  {orphans} \cup IF child # Nobody /\ Cardinality(orphans) < MaxOrphans
                   THEN {orphans \cup {child}} ELSE {}

\* The save ends in one of the ways after which the node goes on.
EndSave(left) ==
  /\ node = "saving"
  /\ node' = "spinning"
  /\ _periodic_timer' = create_timer
  /\ lasted' = since
  /\ LeaveRunning(left)
  /\ UNCHANGED <<parameters, _initial_timer, initial, since>>

\* subprocess.run returns zero once the process has written both files.
SaveCompleted ==
  /\ child # Nobody /\ wrote[child] = "yaml"
  /\ EndSave(orphans)

\* map_saver_cli gives up on its own, or ros2 is not found.
SaveFailed ==
  /\ child # Nobody => wrote[child] # "yaml"
  /\ EndSave(orphans)

\* A variant of TimeoutExpired for subprocess.run without a timeout.
NoTimeout == FALSE

TimeoutExpired ==
  /\ child # Nobody
  /\ since = _save_timeout
  /\ \E left \in AfterKill : EndSave(left)

\* An exception _save_map does not catch, or an interrupt, ends the node.
NodeEnds ==
  /\ node \in {"spinning", "saving"}
  /\ node' = "ended"
  /\ \E left \in AfterKill : LeaveRunning(left)
  /\ UNCHANGED <<parameters, timers, initial, since, lasted>>

-----------------------------------------------------------------------------
(***************************************************************************)
(* map_saver_cli and time                                                  *)
(***************************************************************************)

WriteImage(r) ==
  /\ wrote[r] = "nothing"
  /\ wrote' = [wrote EXCEPT ![r] = "image"]
  /\ image' = r
  /\ UNCHANGED yaml

WriteYaml(r) ==
  /\ wrote[r] = "image"
  /\ wrote' = [wrote EXCEPT ![r] = "yaml"]
  /\ yaml' = r
  /\ UNCHANGED image

MapSaverCli ==
  /\ \E r \in orphans \cup ({child} \ {Nobody}) : WriteImage(r) \/ WriteYaml(r)
  /\ UNCHANGED <<node, parameters, timers, initial, since, lasted, child, orphans>>

OrphanEnds ==
  /\ \E r \in orphans : orphans' = orphans \ {r}
  /\ wrote' = [r \in Runs |-> IF r \in orphans' \cup {child} THEN wrote[r] ELSE "nothing"]
  /\ UNCHANGED <<node, parameters, timers, initial, since, lasted, child, image, yaml>>

\* Something of the node is to happen before time goes on: a timer is due, the
\* process did not start, or has run for too long.
Due ==
  \/ node = "spinning" /\ _initial_timer # Off /\ _initial_timer <= 0
  \/ node = "spinning" /\ _periodic_timer # Off /\ _periodic_timer <= 0
  \/ node = "saving" /\ (child = Nobody \/ since = _save_timeout)

SaverTick ==
  /\ ~Due
  /\ IF node \in {"spinning", "saving"}
       THEN /\ _initial_timer' = IF _initial_timer = Off THEN Off ELSE _initial_timer - 1
            /\ _periodic_timer' = IF _periodic_timer = Off THEN Off ELSE _periodic_timer - 1
            /\ since' = IF since = Off THEN Off ELSE since + 1
       ELSE UNCHANGED <<timers, since>>
  /\ UNCHANGED <<node, parameters, initial, lasted, child, orphans, files>>

SaverStep ==
  \/ _on_initial_timer
  \/ OnPeriodicTimer
  \/ SaveCompleted
  \/ SaveFailed
  \/ TimeoutExpired
  \/ NodeEnds
  \/ MapSaverCli
  \/ OrphanEnds

SaverNext ==
  \/ \E path \in Paths, delay \in Delays, period \in Periods, timeout \in Timeouts :
       Construct(path, delay, period, timeout)
  \/ SaverStep
  \/ SaverTick

SaverSpec == SaverInit /\ [][SaverNext]_saverVars

-----------------------------------------------------------------------------
(***************************************************************************)
(* Properties                                                              *)
(***************************************************************************)

\* Type invariant of the node; a timer is never overdue by more than a save takes.
SaverTypeOK ==
  /\ node \in {"none", "spinning", "saving", "ended"}
  /\ _save_period \in Nat \ {0} /\ _save_timeout \in Nat \ {0}
  /\ _initial_timer \in Nat \cup {Off}
  /\ _periodic_timer \in {Off} \cup Int
  /\ _periodic_timer # Off => _periodic_timer \in -_save_timeout.._save_period
  /\ initial \in BOOLEAN
  /\ since \in Nat \cup {Off} /\ lasted \in Nat
  /\ child \in Runs \cup {Nobody}
  /\ orphans \subseteq Runs /\ child \notin orphans /\ Cardinality(orphans) <= MaxOrphans
  /\ wrote \in [Runs -> {"nothing", "image", "yaml"}]
  /\ image \in Runs \cup {Nobody} /\ yaml \in Runs \cup {Nobody}

\* While the node lives, no save exceeds its timeout, and the next one begins
\* within the period of the last one's beginning or, when that one took longer,
\* as soon as it is over; only the second save may come a period after the end of
\* the first (_on_initial_timer).
SavesComeInTime ==
  /\ node = "saving" => since <= _save_timeout
  /\ node = "spinning" /\ since # Off =>
       since <= IF initial THEN lasted + _save_period ELSE Larger(_save_period, lasted)
=============================================================================
