---------------------------- MODULE SafeVelocity ----------------------------
(***************************************************************************)
(* What the velocity relay promises the drive controller: the command in   *)
(* force is a safe one, and no command but rest stays in force longer than *)
(* Timeout without a new one.  Time passes in ticks of the relay's timer,  *)
(* silence counts them since the last command, up to Timeout + 2.          *)
(***************************************************************************)
EXTENDS Integers

CONSTANTS Safe, Rest, Timeout

VARIABLES velocity, silence

Init == velocity \in Rest /\ silence = 0

\* A command takes force.
Command == velocity' \in Safe /\ silence' = 0

\* A command that was not renewed is replaced by rest.
Stop == silence > Timeout /\ velocity' \in Rest /\ silence' = silence

\* Time passes, except for a command that should have been replaced.
Pass ==
  /\ silence > Timeout => velocity \in Rest
  /\ velocity' = velocity
  /\ silence' = IF silence < Timeout + 2 THEN silence + 1 ELSE silence

Next == Command \/ Stop \/ Pass

Spec == Init /\ [][Next]_<<velocity, silence>>
=============================================================================
