--------------------------- MODULE MCCmdVelRelay ---------------------------
(***************************************************************************)
(* Instances of CmdVelRelay for TLC.                                       *)
(***************************************************************************)
EXTENDS CmdVelRelay

\* Below the lower limits, small, infinite, and a NaN.
MixedSpeeds == {-5, 1, 9, NaN}
NotANumber == {0, NaN}
=============================================================================
