-------------------------- MODULE SdoServerProofs --------------------------
(***************************************************************************)
(* The SDO service server gives back what a handler takes, and answers     *)
(* success only after an exchange with the slave; and what get_sdo reports *)
(* of a value that set_sdo wrote. For any types, numbers, sizes and widths *)
(* of bytes and doubles.                                                   *)
(***************************************************************************)
EXTENDS SdoServer, DataFacts

\* What the handlers rely on between their steps: the device is open from its
\* opening to the end of the transfer, an unfinished request has not been
\* answered with success, and a conversion follows an upload.
HandlerInv ==
  /\ at \in {"idle", "encode", "open", "check", "transfer", "convert", "ended"}
  /\ at # "ended" => (fd <=> at \in {"check", "transfer"})
  /\ at = "idle" => buffer = None
  /\ at \in {"encode", "open", "check", "transfer", "convert"} => ~response.success
  /\ at = "convert" => exchanged
  /\ (at = "idle" /\ response.success) => exchanged

\* The returns of the handlers that report a failure.
Failures ==
  \/ ValueRefused
  \/ UploadNotOpened
  \/ DownloadNotOpened
  \/ DownloadTransferFails
  \/ UploadTransferFails
  \/ SizeDiffers

\* Every handler's step preserves HandlerInv: each return frees the buffer, and
\* the device is open at none of those that leave it alone.
LEMMA StepKeeps ==
  ASSUME HandlerInv, [Next]_vars
  PROVE  HandlerInv'
  <1>1. CASE Serve
    BY <1>1 DEF Serve, HandlerInv
  <1>2. CASE Encode
    BY <1>2 DEF Encode, dealtWith, HandlerInv
  <1>3. CASE ValueRefused
    BY <1>3 DEF ValueRefused, Reply, Free, dealtWith, HandlerInv
  <1>4. CASE ConversionThrows \/ AbortUnknown
    BY <1>4 DEF ConversionThrows, AbortUnknown, End, HandlerInv
  <1>5. CASE Open \/ VersionMatches
    BY <1>5 DEF Open, VersionMatches, dealtWith, HandlerInv
  <1>6. CASE UploadNotOpened
    BY <1>6 DEF UploadNotOpened, Reply, Free, CloseDevice, dealtWith, HandlerInv
  <1>7. CASE DownloadNotOpened
    BY <1>7 DEF DownloadNotOpened, Reply, Free, CloseDevice, dealtWith, HandlerInv
  <1>8. CASE Download
    BY <1>8 DEF Download, Reply, Free, CloseDevice, HandlerInv
  <1>9. CASE DownloadTransferFails
    BY <1>9 DEF DownloadTransferFails, Reply, Free, CloseDevice, dealtWith, HandlerInv
  <1>10. CASE Upload
    BY <1>10 DEF Upload, CloseDevice, HandlerInv
  <1>11. CASE UploadTransferFails
    BY <1>11 DEF UploadTransferFails, Reply, Free, CloseDevice, dealtWith, HandlerInv
  <1>12. CASE SizeDiffers
    BY <1>12 DEF SizeDiffers, Reply, Free, dealtWith, HandlerInv
  <1>13. CASE Convert
    BY <1>13 DEF Convert, Reply, Free, dealtWith, HandlerInv
  <1>14. CASE SlaveChanges
    BY <1>14 DEF SlaveChanges, HandlerInv
  <1>15. CASE UNCHANGED vars
    BY <1>15 DEF vars, HandlerInv
  <1> QED
    BY <1>1, <1>2, <1>3, <1>4, <1>5, <1>6, <1>7, <1>8, <1>9, <1>10, <1>11, <1>12, <1>13, <1>14, <1>15
       DEF Next

\* HandlerInv holds throughout.
LEMMA HandlersKeepTheirInvariant == Spec => []HandlerInv
  <1>1. Init => HandlerInv
    BY DEF Init, HandlerInv
  <1>2. HandlerInv /\ [Next]_vars => HandlerInv'
    BY StepKeeps
  <1>3. QED
    BY <1>1, <1>2, PTL DEF Spec

\* Between two requests the server holds neither a buffer nor the device: each of
\* the ten returns has its delete[], and the device is closed by then.
THEOREM HandlersReleaseEverything == Spec => []NothingHeldWhenIdle
  <1>1. HandlerInv => NothingHeldWhenIdle
    BY DEF HandlerInv, NothingHeldWhenIdle
  <1>2. QED
    BY <1>1, HandlersKeepTheirInvariant, PTL

\* No client is told success for a request that did not reach the slave.
THEOREM SuccessIsHonest == Spec => []SuccessMeansExchanged
  <1>1. HandlerInv => SuccessMeansExchanged
    BY DEF HandlerInv, SuccessMeansExchanged
  <1>2. QED
    BY <1>1, HandlersKeepTheirInvariant, PTL

-----------------------------------------------------------------------------

Narrow == Signed \cup {"bool"}

\* The number of values of a type is a number.
LEMMA WidthIsInt == Width(1) \in Int
  BY WidthAssumption DEF Width

\* What data2buffer accepts for a signed type or a bool, it can represent: the
\* limits written for the one-byte types and those of the extraction for the
\* wider ones leave no gap.
LEMMA AcceptedIsRepresented ==
  ASSUME NEW type \in Narrow, NEW v, Accepts(type, v)
  PROVE  Represents(type, v)
  <1>1. CASE type = "bool"
    <2>1. AcceptsByte("bool", v)
      BY <1>1 DEF Accepts, Textual, Signed, Unsigned
    <2>2. v \in Int /\ v <= 1 /\ v >= 0
      BY <2>1 DEF AcceptsByte, ReadsSigned
    <2>3. QED
      BY <1>1, <2>2 DEF Represents
  <1>2. CASE type = "int8"
    <2>1. AcceptsByte("int8", v) /\ byteSize("int8") = 1
      BY <1>2 DEF Accepts, Textual, Signed, Unsigned, byteSize, dataTypes
    <2>2. v \in Int /\ 2 * v < Width(1) /\ 2 * v >= -Width(1)
      BY <2>1 DEF AcceptsByte, ReadsSigned
    <2>3. QED
      BY <1>2, <2>1, <2>2, WidthIsInt DEF Represents, Signed
  <1>3. CASE type \in Signed \ {"int8"}
    <2>1. ReadsSigned(v, byteSize(type))
      BY <1>3 DEF Accepts, Textual, Signed, Unsigned
    <2>2. QED
      BY <1>3, <2>1 DEF ReadsSigned, Represents, Signed
  <1>4. QED
    BY <1>1, <1>2, <1>3 DEF Narrow

\* A set_sdo that is under way carries a value data2buffer has accepted.
RangeInv ==
  /\ (at \in {"open", "check", "transfer"} /\ request.kind = "set")
       => Accepts(request.type, request.value)
  /\ OutOfRangeRefused

\* Every handler's step preserves RangeInv.
LEMMA StepKeepsRange ==
  ASSUME RangeInv, [Next]_vars
  PROVE  RangeInv'
  <1>1. CASE Serve
    BY <1>1 DEF Serve, RangeInv, OutOfRangeRefused
  <1>2. CASE Download
    <2>1. Accepts(request.type, request.value)
      BY <1>2 DEF Download, RangeInv
    <2>2. request.type \in Narrow => Represents(request.type, request.value)
      BY <2>1, AcceptedIsRepresented
    <2>3. OutOfRangeRefused'
      BY <1>2, <2>2 DEF Download, OutOfRangeRefused, Narrow
    <2>4. at' = "idle"
      BY <1>2 DEF Download, Reply
    <2>5. QED
      BY <2>3, <2>4 DEF RangeInv
  <1>3. CASE SlaveChanges
    BY <1>3 DEF SlaveChanges, RangeInv, OutOfRangeRefused
  <1>4. CASE Encode \/ Open \/ VersionMatches
    BY <1>4 DEF Encode, Open, VersionMatches, dealtWith, RangeInv, OutOfRangeRefused
  <1>6. CASE Failures \/ ConversionThrows \/ AbortUnknown \/ Upload \/ Convert
    <2>1. set' = set
      BY <1>6 DEF Failures, ValueRefused, UploadNotOpened, DownloadNotOpened, DownloadTransferFails,
         UploadTransferFails, SizeDiffers, ConversionThrows, AbortUnknown, Upload, Convert, dealtWith
    <2>2. at' \notin {"open", "check", "transfer"}
      BY <1>6 DEF Failures, ValueRefused, UploadNotOpened, DownloadNotOpened, DownloadTransferFails,
         UploadTransferFails, SizeDiffers, ConversionThrows, AbortUnknown, Upload, Convert, Reply, End
    <2>3. QED
      BY <2>1, <2>2 DEF RangeInv, OutOfRangeRefused
  <1>5. CASE UNCHANGED vars
    BY <1>5 DEF vars, RangeInv, OutOfRangeRefused
  <1>7. QED
    BY <1>1, <1>2, <1>3, <1>4, <1>5, <1>6 DEF Next, Failures

\* Of the integer types only the unsigned ones ever reach the slave with a
\* number they do not stand for, for bytes of any width.
THEOREM SignedStaysInRange == Spec => []OutOfRangeRefused
  <1>1. Init => RangeInv
    BY DEF Init, RangeInv, OutOfRangeRefused
  <1>2. RangeInv /\ [Next]_vars => RangeInv'
    BY StepKeepsRange
  <1>3. RangeInv => OutOfRangeRefused
    BY DEF RangeInv
  <1>4. QED
    BY <1>1, <1>2, <1>3, PTL DEF Spec

-----------------------------------------------------------------------------
(***************************************************************************)
(* What get_sdo reports of a value that set_sdo wrote: the conversion to   *)
(* the bytes of an object, the slave, and the conversion back through a    *)
(* double.                                                                 *)
(***************************************************************************)

-----------------------------------------------------------------------------
(***************************************************************************)
(* The conversions                                                         *)
(***************************************************************************)

\* The remainder of a number less than a width away from zero.
LEMMA RemainderNearZero ==
  ASSUME NEW w \in Nat \ {0}, NEW v \in Int
  PROVE  /\ v % w \in 0..(w - 1)
         /\ 0 <= v /\ v < w => v % w = v
         /\ v < 0 /\ -w <= v => v % w = v + w
OBVIOUS

\* An object of some size has values, and one byte at least four.
LEMMA WidthPositive ==
  /\ \A bytes \in Nat : Width(bytes) \in Nat \ {0}
  /\ Width(1) >= 4
<1>1. ASSUME NEW bytes \in Nat
      PROVE  Width(bytes) \in Nat \ {0}
  <2>1. bytes * ByteBits \in Nat
    BY WidthAssumption
  <2> QED
    BY <2>1, PowerPositive DEF Width
<1>2. Width(1) >= 4
  <2>1. ByteBits \in Nat /\ 2 <= ByteBits /\ 1 * ByteBits = ByteBits
    BY WidthAssumption
  <2>2. 2^2 <= 2^ByteBits
    BY <2>1, PowerGrows
  <2>3. 2^2 = 4
    OBVIOUS
  <2> QED
    BY <2>1, <2>2, <2>3 DEF Width
<1> QED
  BY <1>1, <1>2

\* Numbers of DoubleBits bits, and the next one, are doubles.
LEMMA DoubleExact ==
  ASSUME NEW v \in -(2^DoubleBits)..2^DoubleBits, v \in Int
  PROVE  ToDouble(v) = v
<1> DEFINE m == IF v < 0 THEN -v ELSE v
           Fits(k) == /\ m < 2^(DoubleBits + k)
                      /\ k > 0 => m >= 2^(DoubleBits + k - 1)
           e == CHOOSE k \in 0..(8 * ByteBits) : Fits(k)
           q == m \div 2^e
           r == m % 2^e
           up == 2 * r > 2^e \/ (2 * r = 2^e /\ q % 2 = 1)
           near == (IF up THEN q + 1 ELSE q) * 2^e
<1>1. DoubleBits \in Nat /\ DoubleBits - 1 \in Nat /\ 8 * ByteBits \in Nat /\ 1 <= 8 * ByteBits
  BY WidthAssumption
<1>2. 2^DoubleBits \in Nat /\ 2^(DoubleBits - 1) \in Nat
  BY <1>1, PowerPositive
<1>3. m \in Nat /\ m <= 2^DoubleBits
  BY <1>2
<1>4. 2^DoubleBits = 2 * 2^(DoubleBits - 1)
  <2>1. (DoubleBits - 1) + 1 = DoubleBits
    BY <1>1
  <2> QED
    BY <1>1, <2>1, PowerDoubles
<1>5. ToDouble(v) = IF v < 0 THEN -near ELSE near
  BY DEF ToDouble
<1> SUFFICES near = m
  <2> HIDE DEF near
  <2> QED
    BY <1>5
<1>6. CASE m < 2^DoubleBits
  <2>1. Fits(0)
    <3>1. DoubleBits + 0 = DoubleBits
      BY <1>1
    <3> QED
      BY <1>6, <3>1
  <2>2. ASSUME NEW k \in 0..(8 * ByteBits), Fits(k)
        PROVE  k = 0
    <3> SUFFICES ASSUME k > 0
                 PROVE  FALSE
      OBVIOUS
    <3>1. DoubleBits + k - 1 \in Nat /\ DoubleBits <= DoubleBits + k - 1
      BY <1>1
    <3>2. 2^DoubleBits <= 2^(DoubleBits + k - 1) /\ 2^(DoubleBits + k - 1) \in Nat
      BY <1>1, <3>1, PowerGrows, PowerPositive
    <3> QED
      BY <1>2, <1>3, <1>6, <2>2, <3>2
  <2>3. e = 0
    BY <1>1, <2>1, <2>2
  <2> HIDE DEF e, m
  <2>4. 2^e = 1
    BY <2>3
  <2>5. q = m /\ r = 0
    BY <1>3, <2>4
  <2> HIDE DEF q, r
  <2>6. ~up
    BY <2>4, <2>5
  <2> QED
    BY <1>3, <2>4, <2>5, <2>6
<1>7. CASE m = 2^DoubleBits
  <2>1. Fits(1)
    <3>1. DoubleBits + 1 - 1 = DoubleBits
      BY <1>1
    <3>2. 2^(DoubleBits + 1) = 2 * 2^DoubleBits /\ 2^DoubleBits > 0
      BY <1>1, PowerDoubles, PowerPositive
    <3> QED
      BY <1>2, <1>7, <3>1, <3>2
  <2>2. ASSUME NEW k \in 0..(8 * ByteBits), Fits(k)
        PROVE  k = 1
    <3>1. k # 0
      <4> SUFFICES ASSUME k = 0
                   PROVE  FALSE
        OBVIOUS
      <4>1. DoubleBits + k = DoubleBits
        BY <1>1
      <4> QED
        BY <1>2, <1>7, <2>2, <4>1
    <3>2. ASSUME k > 1
          PROVE  FALSE
      <4>1. DoubleBits + k - 1 \in Nat /\ DoubleBits + 1 <= DoubleBits + k - 1
        BY <1>1, <3>2
      <4>2. 2^(DoubleBits + 1) <= 2^(DoubleBits + k - 1) /\ 2^(DoubleBits + k - 1) \in Nat
        BY <1>1, <4>1, PowerGrows, PowerPositive
      <4>3. 2^(DoubleBits + 1) = 2 * 2^DoubleBits /\ 2^DoubleBits > 0
        BY <1>1, PowerDoubles, PowerPositive
      <4>4. m >= 2^(DoubleBits + k - 1)
        BY <2>2, <3>2
      <4> QED
        BY <1>2, <1>7, <4>2, <4>3, <4>4
    <3> QED
      BY <3>1, <3>2
  <2>3. e = 1
    BY <1>1, <2>1, <2>2
  <2> HIDE DEF e, m
  <2>4. 2^e = 2
    BY <2>3
  <2>5. q = 2^(DoubleBits - 1) /\ r = 0
    BY <1>2, <1>3, <1>4, <1>7, <2>4
  <2> HIDE DEF q, r
  <2>6. ~up
    BY <2>4, <2>5
  <2> QED
    BY <1>2, <1>4, <1>7, <2>4, <2>5, <2>6
<1> QED
  BY <1>2, <1>3, <1>6, <1>7

Whole == Signed \cup Unsigned \cup {"bool"}

\* Of a whole number the type stands for, the bytes of the type say which it is.
LEMMA BytesKeepNumber ==
  ASSUME NEW type \in Whole, NEW v \in Int, Represents(type, v)
  PROVE  Read(type, data2buffer(type, v).bits) = v
<1> DEFINE w == Width(byteSize(type))
           bits == v % w
<1>1. byteSize(type) \in Nat /\ (type = "bool" => byteSize(type) = 1)
  BY DEF Whole, Signed, Unsigned, byteSize, dataTypes
<1>2. w \in Nat \ {0} /\ (type = "bool" => w >= 4)
  BY <1>1, WidthPositive
<1>3. data2buffer(type, v).bits = bits
  BY DEF data2buffer, Whole, Signed, Unsigned, Textual
<1>4. /\ bits \in 0..(w - 1)
      /\ 0 <= v /\ v < w => bits = v
      /\ v < 0 /\ -w <= v => bits = v + w
  <2> HIDE DEF w
  <2> QED
    BY <1>2, RemainderNearZero
<1>5. CASE type \in Unsigned
  <2>1. Read(type, bits) = bits
    BY <1>5 DEF Read, Unsigned, Signed, SignMagnitude
  <2>2. 0 <= v /\ v < w
    BY <1>5 DEF Represents, Unsigned, Signed
  <2> QED
    BY <1>3, <1>4, <2>1, <2>2
<1>6. CASE type \in Signed \cup {"bool"}
  <2>1. Read(type, bits) = IF 2 * bits < w THEN bits ELSE bits - w
    <3>1. Read(type, bits) = TwosComplement(bits, byteSize(type))
      BY <1>6 DEF Read, Signed, SignMagnitude
    <3> QED
      BY <3>1 DEF TwosComplement
  <2>2. -w <= 2 * v /\ 2 * v < w
    <3>1. CASE type = "bool"
      <4>1. v \in {0, 1}
        BY <3>1 DEF Represents, Signed, Unsigned
      <4> HIDE DEF w
      <4> QED
        BY <1>2, <3>1, <4>1
    <3>2. CASE type \in Signed
      BY <3>2 DEF Represents, Signed, Unsigned
    <3> QED
      BY <1>6, <3>1, <3>2
  <2> HIDE DEF w, bits
  <2> QED
    BY <1>2, <1>3, <1>4, <2>1, <2>2
<1> QED
  BY <1>5, <1>6 DEF Whole

\* A client that reads a number back as the type it was set as is told the
\* number, if the type and a double can hold it.
LEMMA RoundTrip ==
  ASSUME NEW type, NEW v, Accepts(type, v), Represents(type, v),
         v \in -(2^DoubleBits)..2^DoubleBits
  PROVE  buffer2data(type, data2buffer(type, v).bits) = v
<1>1. type \in Whole
  BY DEF Represents, Whole
<1>2. v \in Int
  <2>1. type \notin Textual
    BY <1>1 DEF Textual, Whole, Signed, Unsigned
  <2> QED
    BY <2>1 DEF Accepts, AcceptsByte, ReadsSigned, ReadsUnsigned
<1>3. Read(type, data2buffer(type, v).bits) = v
  BY <1>1, <1>2, BytesKeepNumber
<1>4. buffer2data(type, data2buffer(type, v).bits) = ToDouble(v)
  BY <1>1, <1>3 DEF buffer2data, Whole, Signed, Unsigned, Textual, NotNative
<1> QED
  BY <1>2, <1>4, DoubleExact

-----------------------------------------------------------------------------
(***************************************************************************)
(* From the request to the answer                                          *)
(***************************************************************************)

\* The bytes are those of a value that data2buffer took.
Holds(contents, setting) ==
  /\ Accepts(setting.type, setting.value)
  /\ contents = data2buffer(setting.type, setting.value)

\* Where the bytes of a setting are on their way from one client to another:
\* in the buffer of the request that sets it, in the object, in the buffer of
\* the request that gets it, and in its answer.
ValueInv ==
  /\ at \in {"open", "check", "transfer"} /\ request.kind = "set" => Holds(buffer, request)
  /\ set # None => Holds(object, set)
  /\ at = "convert" /\ seen # None => Holds(buffer, seen)
  /\ at = "idle" /\ request.kind = "get" /\ response.success /\ seen # None /\ seen.type = request.type
       => /\ Accepts(seen.type, seen.value)
          /\ response.value = buffer2data(seen.type, data2buffer(seen.type, seen.value).bits)

\* Every handler's step preserves ValueInv.
LEMMA StepKeepsValue ==
  ASSUME ValueInv, [Next]_vars
  PROVE  ValueInv'
<1>1. CASE Serve
  <2>1. seen' = None /\ UNCHANGED <<object, set>>
    BY <1>1 DEF Serve
  <2>2. at' # "convert" /\ ~response'.success
    BY <1>1 DEF Serve
  <2>3. ~(at' \in {"open", "check", "transfer"} /\ request'.kind = "set")
    BY <1>1 DEF Serve
  <2> QED
    BY <2>1, <2>2, <2>3 DEF ValueInv, Holds
<1>2. CASE Encode
  BY <1>2 DEF Encode, dealtWith, ValueInv, Holds
<1>3. CASE Open \/ VersionMatches
  BY <1>3 DEF Open, VersionMatches, dealtWith, ValueInv, Holds
<1>4. CASE Download
  <2>1. Holds(buffer, request)
    BY <1>4 DEF Download, ValueInv
  <2>2. set'.type = request.type /\ set'.value = request.value /\ object' = buffer
    BY <1>4 DEF Download
  <2>3. Holds(object', set')
    BY <2>1, <2>2 DEF Holds
  <2>4. at' = "idle" /\ request'.kind = "set"
    BY <1>4 DEF Download, Reply
  <2> QED
    BY <2>3, <2>4 DEF ValueInv
<1>5. CASE Upload
  BY <1>5 DEF Upload, ValueInv, Holds
<1>6. CASE Failures
  <2>1. UNCHANGED <<object, set>> /\ at' = "idle" /\ ~response'.success
    BY <1>6 DEF Failures, ValueRefused, UploadNotOpened, DownloadNotOpened, DownloadTransferFails,
       UploadTransferFails, SizeDiffers, Reply, dealtWith
  <2> QED
    BY <2>1 DEF ValueInv, Holds
<1>10. CASE ConversionThrows \/ AbortUnknown
  BY <1>10 DEF ConversionThrows, AbortUnknown, End, dealtWith, ValueInv, Holds
<1>7. CASE Convert
  <2>1. UNCHANGED <<request, object, set, seen>> /\ at = "convert" /\ at' = "idle"
    BY <1>7 DEF Convert, Reply, dealtWith
  <2>2. ASSUME response'.success, seen # None, seen.type = request.type
        PROVE  /\ Accepts(seen.type, seen.value)
               /\ response'.value = buffer2data(seen.type, data2buffer(seen.type, seen.value).bits)
    <3>1. Holds(buffer, seen)
      BY <2>1, <2>2 DEF ValueInv
    <3>2. response'.value = buffer2data(request.type, buffer.bits)
      BY <1>7, <2>2 DEF Convert, Reply
    <3> QED
      BY <2>2, <3>1, <3>2 DEF Holds
  <2> QED
    BY <2>1, <2>2 DEF ValueInv, Holds
<1>8. CASE SlaveChanges
  BY <1>8 DEF SlaveChanges, ValueInv, Holds
<1>9. CASE UNCHANGED vars
  BY <1>9 DEF vars, ValueInv, Holds
<1> QED
  BY <1>1, <1>2, <1>3, <1>4, <1>5, <1>6, <1>7, <1>8, <1>9, <1>10 DEF Next, Failures

\* A get_sdo that follows a set_sdo of the same type is told the number that was
\* set, if the type and a double can hold it, for bytes and doubles of any width
\* and whatever was requested in between.
THEOREM ValueSurvives == Spec => []GetReturnsWhatWasSet
<1>1. Init => ValueInv
  BY DEF Init, ValueInv
<1>2. ValueInv /\ [Next]_vars => ValueInv'
  BY StepKeepsValue
<1>3. ValueInv => GetReturnsWhatWasSet
  BY RoundTrip DEF ValueInv, GetReturnsWhatWasSet
<1> QED
  BY <1>1, <1>2, <1>3, PTL DEF Spec

-----------------------------------------------------------------------------
(***************************************************************************)
(* Types                                                                   *)
(***************************************************************************)

\* A magnitude of at most eight bytes has an exponent.
LEMMA ExponentExists ==
  ASSUME NEW m \in Nat, m <= Width(8)
  PROVE  \E k \in 0..(8 * ByteBits) :
           /\ m < 2^(DoubleBits + k)
           /\ k > 0 => m >= 2^(DoubleBits + k - 1)
<1> DEFINE n == 8 * ByteBits
           Enough == {k \in 0..n : m < 2^(DoubleBits + k)}
<1>1. n \in Nat /\ DoubleBits \in Nat /\ DoubleBits > 0
  BY WidthAssumption
<1>2. n \in Enough
  <2>1. DoubleBits + n \in Nat /\ n + 1 <= DoubleBits + n /\ n + 1 \in Nat
    BY <1>1
  <2>2. 2^(n + 1) <= 2^(DoubleBits + n) /\ 2^(n + 1) = 2 * 2^n
    BY <1>1, <2>1, PowerGrows, PowerDoubles
  <2>3. 2^n \in Nat \ {0} /\ 2^(DoubleBits + n) \in Nat
    BY <1>1, <2>1, PowerPositive
  <2>4. m <= 2^n
    BY DEF Width
  <2> HIDE DEF n
  <2>5. m < 2^(DoubleBits + n)
    BY <2>2, <2>3, <2>4
  <2> QED
    BY <1>1, <2>5
<1>3. Enough \subseteq Nat /\ Enough # {}
  BY <1>1, <1>2
<1> HIDE DEF Enough
<1>4. PICK k \in Enough : \A j \in Enough : <<j, k>> \notin OpToRel(<, Nat)
  BY <1>3, NatLessThanWellFounded, WFMin
<1>5. \A j \in Enough : ~(j < k)
  BY <1>3, <1>4 DEF OpToRel
<1>6. k \in 0..n /\ m < 2^(DoubleBits + k)
  BY DEF Enough
<1>7. ASSUME k > 0
      PROVE  m >= 2^(DoubleBits + k - 1)
  <2>1. k - 1 \in 0..n /\ DoubleBits + (k - 1) = DoubleBits + k - 1 /\ DoubleBits + k - 1 \in Nat
    BY <1>1, <1>6, <1>7
  <2>2. k - 1 \notin Enough
    BY <1>3, <1>5, <2>1
  <2>3. 2^(DoubleBits + k - 1) \in Nat
    BY <2>1, PowerPositive
  <2>4. ~(m < 2^(DoubleBits + (k - 1)))
    BY <2>1, <2>2 DEF Enough
  <2> QED
    BY <2>1, <2>3, <2>4
<1> QED
  BY <1>6, <1>7

\* The double of a whole number of at most eight bytes is a whole number.
LEMMA DoubleIsWhole ==
  ASSUME NEW v \in Int, -Width(8) <= v, v <= Width(8)
  PROVE  ToDouble(v) \in Int
<1> DEFINE m == IF v < 0 THEN -v ELSE v
           Fits(k) == /\ m < 2^(DoubleBits + k)
                      /\ k > 0 => m >= 2^(DoubleBits + k - 1)
           e == CHOOSE k \in 0..(8 * ByteBits) : Fits(k)
           q == m \div 2^e
           r == m % 2^e
           up == 2 * r > 2^e \/ (2 * r = 2^e /\ q % 2 = 1)
           near == (IF up THEN q + 1 ELSE q) * 2^e
<1>1. m \in Nat /\ m <= Width(8)
  BY WidthPositive
<1>2. \E k \in 0..(8 * ByteBits) : Fits(k)
  <2> HIDE DEF m
  <2> QED
    BY <1>1, ExponentExists
<1>3. e \in Nat
  <2>1. e \in 0..(8 * ByteBits)
    BY <1>2
  <2> QED
    BY <2>1
<1>4. ToDouble(v) = IF v < 0 THEN -near ELSE near
  BY DEF ToDouble
<1> HIDE DEF e, m
<1>5. 2^e \in Nat \ {0}
  BY <1>3, PowerPositive
<1>6. q \in Int
  BY <1>1, <1>5
<1> HIDE DEF q, up
<1>7. near \in Int
  BY <1>5, <1>6
<1> HIDE DEF near
<1> QED
  BY <1>4, <1>7

\* The bytes are a value of their size.
Filled(contents) == contents \in Contents /\ contents.bits < Width(contents.size)

\* data2buffer fills as many bytes as it allocates.
LEMMA BufferIsFilled ==
  ASSUME NEW type \in DataTypes, NEW v \in Numbers \cup {Text}, ~Throws(type), Accepts(type, v)
  PROVE  Filled(data2buffer(type, v))
<1>1. CASE type \in Textual
  <2>1. data2buffer(type, v) = [size |-> TextSize, bits |-> 0]
    BY <1>1 DEF data2buffer, Textual
  <2>2. TextSize \in Nat /\ Width(TextSize) > 0
    BY WidthAssumption, WidthPositive
  <2> QED
    BY <2>1, <2>2 DEF Filled, Contents
<1>2. CASE type \in {"float", "double"}
  <2>1. v \in Numbers
    BY <1>2, RequestAssumption DEF Accepts, Textual, AcceptsByte, Signed, Unsigned
  <2>2. Width(4) \in Nat /\ Width(8) \in Nat
    BY WidthPositive
  <2>3. CASE type = "float"
    <3>1. data2buffer(type, v) = [size |-> 4, bits |-> FloatPattern[v]]
      BY <2>3 DEF data2buffer, Textual
    <3>2. FloatPattern[v] \in 0..(Width(4) - 1)
      BY <2>1, RequestAssumption DEF Width
    <3> QED
      BY <2>2, <3>1, <3>2 DEF Filled, Contents
  <2>4. CASE type = "double"
    <3>1. data2buffer(type, v) = [size |-> 8, bits |-> DoublePattern[v]]
      BY <2>4 DEF data2buffer, Textual
    <3>2. DoublePattern[v] \in 0..(Width(8) - 1)
      BY <2>1, RequestAssumption DEF Width
    <3> QED
      BY <2>2, <3>1, <3>2 DEF Filled, Contents
  <2> QED
    BY <1>2, <2>3, <2>4
<1>3. CASE type \notin Textual \cup {"float", "double"}
  <2> DEFINE w == Width(byteSize(type))
  <2>1. data2buffer(type, v) = [size |-> byteSize(type), bits |-> v % w]
    BY <1>3 DEF data2buffer
  <2>2. byteSize(type) \in Nat
    BY DEF DataTypes, byteSize, dataTypes
  <2>3. w \in Nat \ {0}
    BY <2>2, WidthPositive
  <2>4. v \in Int
    BY <1>3 DEF Accepts, AcceptsByte, ReadsSigned, ReadsUnsigned
  <2> HIDE DEF w
  <2>5. v % w \in 0..(w - 1)
    BY <2>3, <2>4, RemainderNearZero
  <2>6. v % w \in Nat /\ v % w < w
    BY <2>3, <2>5
  <2> QED
    BY <2>1, <2>2, <2>6 DEF Filled, Contents, w
<1> QED
  BY <1>1, <1>2, <1>3

\* Bytes of the size of a type are a number, or none.
LEMMA ReportIsNumber ==
  ASSUME NEW type \in DataTypes, NEW contents, Filled(contents), SizeMatches(type, contents.size)
  PROVE  buffer2data(type, contents.bits) \in Int \cup {NaN}
<1> SUFFICES ASSUME type \notin Textual \cup NotNative \cup {"raw"}
             PROVE  ToDouble(Read(type, contents.bits)) \in Int
  BY DEF buffer2data
<1> DEFINE bits == contents.bits
           w == Width(byteSize(type))
<1>1. byteSize(type) \in 1..8
  BY DEF DataTypes, byteSize, dataTypes, Textual, NotNative
<1>2. bits \in Nat /\ bits < w
  BY <1>1 DEF Filled, Contents, SizeMatches
<1>3. w \in Nat \ {0} /\ Width(8) \in Nat \ {0}
  BY <1>1, WidthPositive
<1>4. w <= Width(8)
  <2>1. byteSize(type) * ByteBits <= 8 * ByteBits /\ byteSize(type) * ByteBits \in Nat /\ 8 * ByteBits \in Nat
    <3> DEFINE s == byteSize(type)
    <3>1. s \in {1, 2, 3, 4, 5, 6, 7, 8}
      BY <1>1
    <3> HIDE DEF s
    <3> QED
      BY <3>1, WidthAssumption DEF s
  <2> QED
    BY <2>1, PowerGrows DEF Width
<1>5. Read(type, bits) \in -w..w
  <2> HIDE DEF w, bits
  <2>1. TwosComplement(bits, byteSize(type)) \in -w..w
    BY <1>2, <1>3 DEF TwosComplement, w
  <2>2. SignAndMagnitude(bits, byteSize(type)) \in -w..w
    <3>1. w \div 2 \in Nat /\ w \div 2 <= w
      BY <1>3
    <3>2. CASE 2 * bits < w
      BY <1>2, <1>3, <3>2 DEF SignAndMagnitude, w
    <3>3. CASE ~(2 * bits < w)
      <4>1. w \div 2 > 0
        BY <1>2, <1>3, <3>3
      <4>2. bits % (w \div 2) \in 0..((w \div 2) - 1)
        BY <1>2, <3>1, <4>1, RemainderNearZero
      <4>3. SignAndMagnitude(bits, byteSize(type)) = -(bits % (w \div 2))
        BY <3>3 DEF SignAndMagnitude, w
      <4> QED
        BY <1>3, <3>1, <4>2, <4>3
    <3> QED
      BY <3>2, <3>3
  <2>3. bits \in -w..w
    BY <1>2, <1>3
  <2> QED
    BY <2>1, <2>2, <2>3 DEF Read
<1> HIDE DEF w, bits
<1>6. /\ Read(type, bits) \in Int
      /\ -Width(8) <= Read(type, bits) /\ Read(type, bits) <= Width(8)
  BY <1>3, <1>4, <1>5
<1> QED
  BY <1>6, DoubleIsWhole DEF bits

\* The request under way has a type of the table, and its bytes fill its buffer.
TypeInv ==
  /\ TypeOK
  /\ at \in {"encode", "open", "check", "transfer", "convert"}
       => request.type \in DataTypes /\ buffer \in Contents
  /\ at = "encode" => request.value \in Numbers \cup {Text}
  /\ at \in {"open", "check", "transfer"} /\ request.kind = "set" => Filled(buffer)
  /\ at = "convert" => Filled(buffer)

\* The types of the initial state.
LEMMA InitTyped == Init => TypeInv
<1> SUFFICES ASSUME Init
             PROVE  TypeInv
  OBVIOUS
<1>1. "bool" \in DataTypes
  BY DEF DataTypes, dataTypes
<1>2. object \in Contents /\ object.bits < Width(object.size)
  <2>1. PICK size \in ObjectSizes : object = [size |-> size, bits |-> 0]
    BY DEF Init
  <2>2. size \in Nat /\ Width(size) > 0
    BY WidthAssumption, WidthPositive
  <2> QED
    BY <2>1, <2>2 DEF Contents
<1> QED
  BY <1>1, <1>2 DEF Init, TypeInv, TypeOK

\* A request is of the types of a request, and its buffer has a size.
LEMMA ServeTyped ==
  ASSUME TypeInv, Serve
  PROVE  TypeInv'
<1> DEFINE type == request'.type
<1>1. /\ request' \in Requests
      /\ exchanged' = FALSE /\ seen' = None /\ response' = [success |-> FALSE, value |-> NaN]
      /\ UNCHANGED <<fd, object, set>>
  BY DEF Serve
<1>2. /\ request'.kind \in {"get", "set"} /\ request'.value \in Numbers \cup {Text}
      /\ request' \in [kind : {"get", "set"}, type : RequestedTypes \cup {"bool"}, value : Int \cup {Text}]
  BY <1>1, RequestAssumption DEF Requests
<1>3. CASE type \notin DataTypes /\ UNCHANGED <<at, buffer>>
  <2>1. at' = "idle" /\ buffer' = buffer
    BY <1>3 DEF Serve
  <2>2. response' \in [success : BOOLEAN, value : Int \cup {NaN}]
    BY <1>1
  <2> QED
    BY <1>1, <1>2, <2>1, <2>2 DEF TypeInv, TypeOK
<1>4. ASSUME type \in DataTypes, buffer' \in Contents,
             \/ at' = "encode"
             \/ at' = "open" /\ request'.kind = "get"
      PROVE  TypeInv'
  BY <1>1, <1>2, <1>4 DEF TypeInv, TypeOK
<1>5. CASE /\ type \in DataTypes /\ request'.kind = "get"
           /\ buffer' = [size |-> byteSize(type), bits |-> 0]
           /\ at' = "open"
  <2>1. byteSize(type) \in Nat
    BY <1>5 DEF DataTypes, byteSize, dataTypes
  <2>2. buffer' \in Contents
    BY <1>5, <2>1 DEF Contents
  <2> QED
    BY <1>4, <1>5, <2>2
<1>6. CASE /\ type \in DataTypes /\ request'.kind = "set"
           /\ buffer' = [size |-> 0, bits |-> 0]
           /\ at' = "encode"
  BY <1>4, <1>6 DEF Contents
<1> QED
  BY <1>3, <1>5, <1>6 DEF Serve

\* So is an answer.
LEMMA ReplyTyped ==
  ASSUME TypeInv, NEW s \in BOOLEAN, NEW v \in Int \cup {NaN}, Reply(s, v), buffer' = None,
         fd' \in BOOLEAN, UNCHANGED dealtWith
  PROVE  TypeInv'
BY DEF Reply, dealtWith, TypeInv, TypeOK

\* Every handler's step preserves the types.
LEMMA StepKeepsTypes ==
  ASSUME TypeInv, [Next]_vars
  PROVE  TypeInv'
<1>0. fd \in BOOLEAN
  BY DEF TypeInv, TypeOK
<1>1. CASE Serve
  BY <1>1, ServeTyped
<1>2. CASE Encode
  <2>1. Filled(data2buffer(request.type, request.value))
    BY <1>2, BufferIsFilled DEF Encode, TypeInv
  <2> QED
    BY <1>2, <2>1 DEF Encode, dealtWith, TypeInv, TypeOK, Filled
<1>3. CASE Open \/ VersionMatches
  BY <1>3 DEF Open, VersionMatches, dealtWith, TypeInv, TypeOK, Filled
<1>4. CASE Download
  <2>1. Filled(buffer) /\ request.type \in DataTypes /\ request.value \in Int \cup {Text}
    BY <1>4 DEF Download, TypeInv, TypeOK
  <2>2. set' \in Settings
    BY <1>4, <2>1 DEF Download, Settings
  <2> QED
    BY <1>4, <2>1, <2>2 DEF Download, Reply, Free, CloseDevice, TypeInv, TypeOK, Filled
<1>5. CASE Upload
  BY <1>5 DEF Upload, CloseDevice, TypeInv, TypeOK, Filled
<1>6. CASE Failures
  <2>1. Reply(FALSE, NaN) /\ buffer' = None /\ fd' \in {fd, FALSE} /\ UNCHANGED dealtWith
    BY <1>6 DEF Failures, ValueRefused, UploadNotOpened, DownloadNotOpened, DownloadTransferFails,
       UploadTransferFails, SizeDiffers, Free, CloseDevice
  <2> QED
    BY <1>0, <2>1, ReplyTyped
<1>10. CASE ConversionThrows \/ AbortUnknown
  BY <1>10 DEF ConversionThrows, AbortUnknown, End, dealtWith, TypeInv, TypeOK
<1>7. CASE Convert
  <2>1. request.type \in DataTypes /\ Filled(buffer)
    BY <1>7 DEF Convert, TypeInv
  <2>2. buffer2data(request.type, buffer.bits) \in Int \cup {NaN}
    BY <1>7, <2>1, ReportIsNumber DEF Convert
  <2> QED
    BY <1>0, <1>7, <2>2, ReplyTyped DEF Convert, Free
<1>8. CASE SlaveChanges
  <2>1. object.size \in Nat /\ Width(object.size) > 0
    BY WidthPositive DEF TypeInv, TypeOK, Contents
  <2>2. object' \in Contents /\ object'.bits < Width(object'.size)
    BY <1>8, <2>1 DEF SlaveChanges, TypeInv, TypeOK, Contents
  <2> QED
    BY <1>8, <2>2 DEF SlaveChanges, TypeInv, TypeOK, Filled
<1>9. CASE UNCHANGED vars
  BY <1>9 DEF vars, TypeInv, TypeOK, Filled
<1> QED
  BY <1>1, <1>2, <1>3, <1>4, <1>5, <1>6, <1>7, <1>8, <1>9, <1>10 DEF Next, Failures

\* Every variable keeps its type: in particular the object always holds a value
\* of its size, and what is reported for a type with a number is a number.
THEOREM TypeCorrect == Spec => []TypeOK
<1>1. TypeInv /\ [Next]_vars => TypeInv'
  BY StepKeepsTypes
<1>2. TypeInv => TypeOK
  BY DEF TypeInv
<1> QED
  BY <1>1, <1>2, InitTyped, PTL DEF Spec
=============================================================================
