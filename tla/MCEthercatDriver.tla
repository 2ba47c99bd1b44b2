-------------------------- MODULE MCEthercatDriver --------------------------
(***************************************************************************)
(* Instances of EthercatDriver for TLC.                                    *)
(***************************************************************************)
EXTENDS EthercatDriver

None == {}
First == {1}
Second == {2}
Both == {1, 2}

\* A command, and a controller's not-a-number.
DriveOrNaN == {1, NaN}
NoVelocity == {}
\* What follows the command, and the opposite.
EitherWay == {-1, 1}
Still == {0}
=============================================================================
