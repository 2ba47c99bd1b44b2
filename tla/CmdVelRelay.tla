---------------------------- MODULE CmdVelRelay ----------------------------
(***************************************************************************)
(* The node nav2_cmd_vel_relay: it clamps the velocity commands of Nav2,   *)
(* republishes them to the drive controller, and publishes a zero command  *)
(* when none has come for command_timeout.                                 *)
(*                                                                         *)
(* One executor thread runs both callbacks.  Time advances in periods of   *)
(* the node's 50 ms timer; the timer's callback runs within its period.    *)
(* Speeds are integers in a unit in which 1e-6 lies between two of them.   *)
(* Nav2 and the subscription's queue are external.                         *)
(***************************************************************************)
EXTENDS Integers, Sequences

CONSTANTS
  Speeds,                       \* what Nav2 may send in a component
  NaN, Infinity,
  Epsilon,                      \* 1e-6: anything below it counts as zero
  max_linear_x, max_angular_z,
  command_timeout,              \* in periods of the timer
  publish_zero_on_timeout,
  QueueDepth                    \* of the subscription

ASSUME SpeedAssumption ==
  /\ NaN \notin Int
  /\ Speeds \subseteq Int \cup {NaN}
  /\ Infinity \in Nat

ASSUME ParameterAssumption ==
  /\ Epsilon \in Nat \ {0}
  /\ max_linear_x \in Nat /\ max_linear_x < Infinity
  /\ max_angular_z \in Nat /\ max_angular_z < Infinity
  /\ command_timeout \in Nat
  /\ publish_zero_on_timeout \in BOOLEAN
  /\ QueueDepth \in Nat \ {0}

VARIABLES
  queue,                        \* commands of Nav2 not yet handled
  due,                          \* the timer's callback has to run
  age,                          \* periods since last_cmd_time, or None
  zero_sent,
  output,                       \* the last command published
  input                         \* history: the command it comes from

vars == <<queue, due, age, zero_sent, output, input>>

None == -1
Twists == [x : Speeds, z : Speeds]
Zero == [x |-> 0, z |-> 0]

\* Ages above command_timeout + 1 are alike.
AgeCap == command_timeout + 2

-----------------------------------------------------------------------------
(***************************************************************************)
(* Clamping, as Python's min and max order a NaN: no comparison with it    *)
(* holds, and each keeps its first argument unless the second is better.   *)
(***************************************************************************)

PyLess(a, b) == a # NaN /\ b # NaN /\ a < b
PyMin(a, b) == IF PyLess(b, a) THEN b ELSE a
PyMax(a, b) == IF PyLess(a, b) THEN b ELSE a

isfinite(v) == v \notin {NaN, Infinity, -Infinity}

\* A variant of clamp that forgets the lower limit.
ClampAbove(v, low, high) == PyMin(high, v)

clamp(v, low, high) == PyMax(low, PyMin(high, v))

FiniteOrZero(v) == IF isfinite(v) THEN v ELSE 0

clamp_twist(msg) ==
  [x |-> FiniteOrZero(clamp(msg.x, -max_linear_x, max_linear_x)),
   z |-> FiniteOrZero(clamp(msg.z, -max_angular_z, max_angular_z))]

Small(v) == -Epsilon < v /\ v < Epsilon

is_zero(msg) == Small(msg.x) /\ Small(msg.z)

-----------------------------------------------------------------------------

Init ==
  /\ queue = <<>>
  /\ due = FALSE
  /\ age = None
  /\ zero_sent = TRUE
  /\ output = Zero
  /\ input = Zero

\* Nav2 publishes; a full queue loses its oldest command.
Nav2Publish(msg) ==
  /\ queue' = IF Len(queue) < QueueDepth THEN Append(queue, msg)
                                         ELSE Append(Tail(queue), msg)
  /\ UNCHANGED <<due, age, zero_sent, output, input>>

\* A variant of ZeroSentAfter that only ever sets the flag.
ZeroSentSticks(safe) == zero_sent \/ is_zero(safe)

\* zero_sent after a command has been relayed.
ZeroSentAfter(safe) == is_zero(safe)

on_cmd_vel ==
  /\ queue # <<>>
  /\ LET safe == clamp_twist(Head(queue))
     IN  /\ output' = safe
         /\ zero_sent' = ZeroSentAfter(safe)
  /\ input' = Head(queue)
  /\ queue' = Tail(queue)
  /\ age' = 0
  /\ UNCHANGED due

\* A variant of TimedOut that wakes up one period late.
TimedOutLate == age > command_timeout + 1

TimedOut == age > command_timeout

on_timer ==
  /\ due
  /\ due' = FALSE
  /\ IF publish_zero_on_timeout /\ age # None /\ ~zero_sent /\ TimedOut
       THEN output' = Zero /\ input' = Zero /\ zero_sent' = TRUE
       ELSE UNCHANGED <<output, input, zero_sent>>
  /\ UNCHANGED <<queue, age>>

\* A period of the timer passes.
Tick ==
  /\ ~due
  /\ due' = TRUE
  /\ age' = IF age \in 0..(AgeCap - 1) THEN age + 1 ELSE age
  /\ UNCHANGED <<queue, zero_sent, output, input>>

Next ==
  \/ \E msg \in Twists : Nav2Publish(msg)
  \/ on_cmd_vel
  \/ on_timer
  \/ Tick

Spec == Init /\ [][Next]_vars

\* The executor serves both callbacks and time goes on; Nav2 may fall silent.
FairSpec == Spec /\ WF_vars(on_cmd_vel) /\ WF_vars(on_timer) /\ WF_vars(Tick)

-----------------------------------------------------------------------------

SafeTwists == [x : -max_linear_x..max_linear_x, z : -max_angular_z..max_angular_z]

\* Every variable has its type; what is published is always within the limits.
TypeOK ==
  /\ queue \in Seq(Twists) /\ Len(queue) <= QueueDepth
  /\ due \in BOOLEAN
  /\ age \in {None} \cup 0..AgeCap
  /\ zero_sent \in BOOLEAN
  /\ output \in SafeTwists
  /\ input \in Twists \cup {Zero}

-----------------------------------------------------------------------------
(***************************************************************************)
(* Properties                                                              *)
(***************************************************************************)

\* The node implements the watchdog the drive controller relies on: whatever
\* comes in, only commands within the limits go out, and none but rest stays
\* in force when Nav2 is silent for longer than the timeout and one period.
Watchdog == INSTANCE SafeVelocity
  WITH Safe     <- SafeTwists,
       Rest     <- {t \in SafeTwists : is_zero(t)},
       Timeout  <- command_timeout,
       velocity <- output,
       silence  <- IF age = None THEN 0 ELSE age

\* What the README says of the relay: incoming velocities are clamped, and a
\* silent Nav2 leaves a zero velocity within the timeout.  (For a node whose
\* publish_zero_on_timeout is set, as it is by default.)
SafeVelocityHeld == Watchdog!Spec

\* After Nav2 falls silent the rover is told to rest, and stays so, however
\* often it had timed out before.
SilenceEndsAtRest == <>[](queue = <<>>) => <>[]is_zero(output)

\* What the guard after the clamp says: a component that is not finite is
\* published as zero.
NotFiniteIsZero ==
  /\ ~isfinite(input.x) => output.x = 0
  /\ ~isfinite(input.z) => output.z = 0
=============================================================================
