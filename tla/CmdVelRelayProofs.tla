------------------------- MODULE CmdVelRelayProofs -------------------------
(***************************************************************************)
(* Proofs about CmdVelRelay, for every limit, timeout, queue and set of    *)
(* speeds: what is published is within the limits, and the node implements *)
(* the watchdog of SafeVelocity.                                           *)
(***************************************************************************)
EXTENDS CmdVelRelay, TLAPS

-----------------------------------------------------------------------------
(***************************************************************************)
(* Clamping                                                                *)
(***************************************************************************)

\* Python's clamp keeps every number, and a NaN too, between the limits.
LEMMA ClampInRange ==
  ASSUME NEW v \in Int \cup {NaN}, NEW low \in Int, NEW high \in Int, low <= high
  PROVE  clamp(v, low, high) \in low..high
<1>1. PyMin(high, v) \in Int /\ PyMin(high, v) <= high
  BY SpeedAssumption DEF PyMin, PyLess
<1>2. QED
  BY <1>1, SpeedAssumption DEF clamp, PyMax, PyLess

\* The guard after the clamp keeps a value between limits that enclose zero.
LEMMA FiniteOrZeroInRange ==
  ASSUME NEW limit \in Nat, NEW v \in -limit..limit
  PROVE  FiniteOrZero(v) \in -limit..limit
  BY DEF FiniteOrZero

\* Every command of Nav2 is made a safe one.
LEMMA ClampTwistIsSafe ==
  ASSUME NEW msg \in Twists
  PROVE  clamp_twist(msg) \in SafeTwists
<1>1. /\ msg.x \in Int \cup {NaN} /\ msg.z \in Int \cup {NaN}
  BY SpeedAssumption DEF Twists
<1>2. \A limit \in {max_linear_x, max_angular_z} :
        limit \in Int /\ -limit \in Int /\ -limit <= limit
  BY ParameterAssumption
<1>3. /\ clamp(msg.x, -max_linear_x, max_linear_x) \in -max_linear_x..max_linear_x
      /\ clamp(msg.z, -max_angular_z, max_angular_z) \in -max_angular_z..max_angular_z
  BY <1>1, <1>2, ClampInRange
<1>4. QED
  BY <1>3, ParameterAssumption, FiniteOrZeroInRange DEF clamp_twist, SafeTwists

\* No command at all is a safe one.
LEMMA ZeroIsSafe == Zero \in SafeTwists /\ is_zero(Zero)
  BY ParameterAssumption DEF Zero, SafeTwists, is_zero, Small

-----------------------------------------------------------------------------
(***************************************************************************)
(* Types                                                                   *)
(***************************************************************************)

\* The subscription's queue holds commands, and no more than it has room for.
LEMMA QueueType ==
  ASSUME TypeOK, NEW msg \in Twists, Nav2Publish(msg)
  PROVE  queue' \in Seq(Twists) /\ Len(queue') <= QueueDepth
<1> USE ParameterAssumption DEF TypeOK
<1>1. CASE Len(queue) < QueueDepth
  BY <1>1 DEF Nav2Publish
<1>2. CASE ~(Len(queue) < QueueDepth)
  <2>1. Len(queue) = QueueDepth /\ queue # <<>>
    BY <1>2
  <2>2. Tail(queue) \in Seq(Twists) /\ Len(Tail(queue)) = Len(queue) - 1
    BY <2>1
  <2>3. QED
    BY <1>2, <2>1, <2>2 DEF Nav2Publish
<1>3. QED
  BY <1>1, <1>2

\* What the relay publishes stays within max_linear_x and max_angular_z, for
\* every input, a NaN and an infinity included.
THEOREM OutputWithinLimits == Spec => []TypeOK
<1>1. Init => TypeOK
  <2>1. <<>> \in Seq(Twists) /\ Len(<<>>) <= QueueDepth
    BY ParameterAssumption
  <2>2. QED
    BY <2>1, ZeroIsSafe DEF Init, TypeOK
<1>2. TypeOK /\ [Next]_vars => TypeOK'
  <2> SUFFICES ASSUME TypeOK, [Next]_vars PROVE TypeOK'
    OBVIOUS
  <2>1. ASSUME NEW msg \in Twists, Nav2Publish(msg) PROVE TypeOK'
    <3>1. queue' \in Seq(Twists) /\ Len(queue') <= QueueDepth
      BY <2>1, QueueType
    <3>2. QED
      BY <2>1, <3>1 DEF Nav2Publish, TypeOK
  <2>2. CASE on_cmd_vel
    <3>1. Head(queue) \in Twists /\ Tail(queue) \in Seq(Twists)
          /\ Len(Tail(queue)) = Len(queue) - 1
      BY <2>2 DEF on_cmd_vel, TypeOK
    <3>2. clamp_twist(Head(queue)) \in SafeTwists
      BY <3>1, ClampTwistIsSafe
    <3>3. zero_sent' \in BOOLEAN
      BY <2>2 DEF on_cmd_vel, ZeroSentAfter, is_zero
    <3>4. QED
      BY <2>2, <3>1, <3>2, <3>3, ParameterAssumption DEF on_cmd_vel, TypeOK, AgeCap
  <2>3. CASE on_timer
    BY <2>3, ZeroIsSafe DEF on_timer, TypeOK
  <2>4. CASE Tick
    BY <2>4, ParameterAssumption DEF Tick, TypeOK, AgeCap, None
  <2>5. CASE UNCHANGED vars
    BY <2>5 DEF vars, TypeOK
  <2>6. QED
    BY <2>1, <2>2, <2>3, <2>4, <2>5 DEF Next
<1>3. QED
  BY <1>1, <1>2, PTL DEF Spec

-----------------------------------------------------------------------------
(***************************************************************************)
(* The refinement                                                          *)
(***************************************************************************)

\* A node that has sent a zero, or has had no command yet, is at rest; and one
\* whose timer's callback has run does not let a command outlast the timeout.
RelayInv ==
  /\ zero_sent => is_zero(output)
  /\ age = None => zero_sent
  /\ (~due /\ age > command_timeout) => zero_sent

\* Each step of the node keeps the invariant.
LEMMA RelayInvStep ==
  ASSUME publish_zero_on_timeout, TypeOK, RelayInv, [Next]_vars
  PROVE  RelayInv'
<1> USE DEF RelayInv
<1>1. CASE \E msg \in Twists : Nav2Publish(msg)
  BY <1>1 DEF Nav2Publish
<1>2. CASE on_cmd_vel
  <2>1. age' = 0 /\ (zero_sent' <=> is_zero(output'))
    BY <1>2 DEF on_cmd_vel, ZeroSentAfter
  <2>2. QED
    BY <2>1, ParameterAssumption DEF None
<1>3. CASE on_timer
  <2>1. CASE age # None /\ ~zero_sent /\ TimedOut
    BY <1>3, <2>1, ZeroIsSafe DEF on_timer
  <2>2. CASE ~(age # None /\ ~zero_sent /\ TimedOut)
    BY <1>3, <2>2 DEF on_timer, TimedOut
  <2>3. QED
    BY <2>1, <2>2
<1>4. CASE Tick
  BY <1>4, ParameterAssumption DEF Tick, TypeOK, AgeCap, None
<1>5. CASE UNCHANGED vars
  BY <1>5 DEF vars
<1>6. QED
  BY <1>1, <1>2, <1>3, <1>4, <1>5 DEF Next

\* Each step of the node is one of the watchdog, or leaves what it sees alone.
LEMMA RelayStepRefines ==
  ASSUME publish_zero_on_timeout, TypeOK, TypeOK', RelayInv, RelayInv', [Next]_vars
  PROVE  [Watchdog!Next]_<<output, IF age = None THEN 0 ELSE age>>
<1> USE ParameterAssumption DEF None
<1>1. CASE \E msg \in Twists : Nav2Publish(msg)
  BY <1>1 DEF Nav2Publish
<1>2. CASE on_cmd_vel
  <2>1. output' \in SafeTwists /\ age' = 0
    BY <1>2 DEF on_cmd_vel, TypeOK
  <2>2. QED
    BY <2>1 DEF Watchdog!Next, Watchdog!Command
<1>3. CASE on_timer
  <2>1. CASE age # None /\ ~zero_sent /\ TimedOut
    <3>1. output' \in {t \in SafeTwists : is_zero(t)} /\ age' = age /\ age > command_timeout
      BY <1>3, <2>1, ZeroIsSafe DEF on_timer, TimedOut
    <3>2. QED
      BY <2>1, <3>1 DEF Watchdog!Next, Watchdog!Stop
  <2>2. CASE ~(age # None /\ ~zero_sent /\ TimedOut)
    BY <1>3, <2>2 DEF on_timer
  <2>3. QED
    BY <2>1, <2>2
<1>4. CASE Tick
  <2>1. CASE age = None
    BY <1>4, <2>1 DEF Tick
  <2>2. CASE age # None
    <3>1. age \in 0..AgeCap /\ output' = output
      BY <1>4, <2>2 DEF Tick, TypeOK
    <3>2. age > command_timeout => output \in {t \in SafeTwists : is_zero(t)}
      BY <1>4 DEF Tick, TypeOK, RelayInv
    <3>3. age' = IF age < command_timeout + 2 THEN age + 1 ELSE age
      BY <1>4, <3>1 DEF Tick, AgeCap
    <3>4. age' # None
      BY <3>1, <3>3
    <3>5. QED
      BY <2>2, <3>1, <3>2, <3>3, <3>4 DEF Watchdog!Next, Watchdog!Pass
  <2>3. QED
    BY <2>1, <2>2
<1>5. CASE UNCHANGED vars
  BY <1>5 DEF vars
<1>6. QED
  BY <1>1, <1>2, <1>3, <1>4, <1>5 DEF Next

\* The node implements the watchdog: for all limits, timeouts and inputs, only
\* safe commands take force, and none but rest outlasts Nav2's silence.
THEOREM RelayImplementsWatchdog ==
  ASSUME publish_zero_on_timeout
  PROVE  Spec => SafeVelocityHeld
<1>1. Init => RelayInv /\ Watchdog!Init
  <2> SUFFICES ASSUME Init PROVE RelayInv /\ Watchdog!Init
    OBVIOUS
  <2>1. output = Zero /\ zero_sent /\ age = None
    BY DEF Init
  <2>2. RelayInv
    BY <2>1, ZeroIsSafe, ParameterAssumption DEF RelayInv, None
  <2>3. Watchdog!Init
    BY <2>1, ZeroIsSafe DEF Watchdog!Init
  <2>4. QED
    BY <2>2, <2>3
<1>2. TypeOK /\ RelayInv /\ [Next]_vars => RelayInv'
  BY RelayInvStep
<1>3. TypeOK /\ TypeOK' /\ RelayInv /\ RelayInv' /\ [Next]_vars
        => [Watchdog!Next]_<<output, IF age = None THEN 0 ELSE age>>
  BY RelayStepRefines
<1>4. QED
  BY <1>1, <1>2, <1>3, OutputWithinLimits, PTL DEF Spec, SafeVelocityHeld, Watchdog!Spec

=============================================================================
