------------------------------ MODULE PdoTypes ------------------------------
(***************************************************************************)
(* Numbers as the process data holds them.  A double is an integer number  *)
(* of 1/Resolution, or NaN; a byte has ByteBits bits; what an address      *)
(* holds is the set of its bits that are one, so that a mask is a set and  *)
(* `&' is \cap.  A data type is a record of its kind and its width:        *)
(* [kind |-> "int", bits |-> 2 * ByteBits] is int16.                       *)
(***************************************************************************)
EXTENDS Integers, FiniteSets

CONSTANTS ByteBits, Resolution, NaN

ASSUME UnitAssumption ==
  /\ ByteBits \in Nat \ {0}
  /\ Resolution \in Nat \ {0}
  /\ NaN \notin Int

Double == Int \cup {NaN}

DataType == [kind : {"int", "uint", "bool", "bit"}, bits : Nat \ {0}]

uint8 == [kind |-> "uint", bits |-> ByteBits]

IsInteger(type) == type.kind \in {"int", "uint"}

\* The bits of a number in two's complement, and the number bits stand for.
Pattern(n, width) == {b \in 0..(width - 1) : (n \div 2 ^ b) % 2 = 1}

\* The sum of the first n weights.
Total(weights, n) ==
  LET sum[x \in 0..n] == IF x = 0 THEN 0 ELSE sum[x - 1] + weights[x] IN sum[n]

Unsigned(bits, width) ==
  Total([b \in 1..width |-> IF b - 1 \in bits THEN 2 ^ (b - 1) ELSE 0], width)

Number(bits, type) ==
  Unsigned(bits, type.bits)
    - (IF type.kind = "int" /\ type.bits - 1 \in bits THEN 2 ^ type.bits ELSE 0)

\* What a conversion of a double to an integer type keeps.
Truncated(value) ==
  IF value >= 0 THEN value \div Resolution ELSE -((-value) \div Resolution)

InRange(n, type) ==
  IF type.kind = "int" THEN n \in (-(2 ^ (type.bits - 1)))..(2 ^ (type.bits - 1) - 1)
                       ELSE n \in 0..(2 ^ type.bits - 1)

\* static_cast of a double to an integer type: the bits it may yield.  A value
\* the type does not have is undefined behaviour, and may yield any.
Cast(value, type) ==
  IF InRange(Truncated(value), type) THEN {Pattern(Truncated(value), type.bits)}
                                     ELSE SUBSET (0..(type.bits - 1))
=============================================================================
