--------------------------- MODULE MCCiA402Drive ---------------------------
(***************************************************************************)
(* Instances of CiA402Drive for TLC: the layout of the rover's drives (two *)
(* outputs, two inputs, velocity not modelled) and a position drive with   *)
(* the mode of operation in its process data.                              *)
(***************************************************************************)
EXTENDS CiA402Drive

RoverChannels == <<"controlword", "other", "statusword", "other">>

PositionChannels ==
  <<"controlword", "position", "mode", "statusword", "actual", "modedisplay">>

NoInterfaces == {}
ResetInterface == {"reset_fault"}
PositionInterfaces == {"position", "mode"}

\* A controller presses and releases reset_fault and switches between cyclic
\* position and cyclic velocity; position targets are one apart.
ControllerValues ==
  [controlword |-> {}, position |-> {2}, mode |-> {8, 9}, reset_fault |-> {0, 1}]

NoBits == {}
PlainStatus == {{}}
WarningStatus == {{}, {7, 9}}
OnePosition == {0}
TwoPositions == {0, 1}

\* An encoder counting backwards from an offset, and its inverse.
Backwards == -1
=============================================================================
