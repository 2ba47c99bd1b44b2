---------------------------- MODULE MCSdoServer ----------------------------
(***************************************************************************)
(* Instances of SdoServer for TLC: bytes of three bits, so that int8 goes  *)
(* from -4 to 3 and int64 has 24 bits, and doubles of 20.                  *)
(***************************************************************************)
EXTENDS SdoServer

\* Around the limits of one, two, four and eight bytes, and of a double.
EdgeNumbers == {-63, -33, -5, -4, -1, 1, 3, 7, 8, 31, 64, 2^20 + 1, 2^23}

\* Patterns that differ from the number, as those of floats do.
FloatBytes == [v \in EdgeNumbers |-> (2 * v + 1) % 2^12]
DoubleBytes == [v \in EdgeNumbers |-> (2 * v + 1) % 2^24]

\* A type of each kind and width, and a name of none.
SomeTypes ==
  {"bool", "int8", "uint8", "sm8", "int16", "uint16", "int64", "uint64",
   "float", "double", "string", "int24", "raw", "integer"}

NativeSizes == {1, 2, 4, 8}
=============================================================================
