----------------------------- MODULE SdoServer -----------------------------
(***************************************************************************)
(* The node ethercat_sdo_srv_server: the services get_sdo (upload) and     *)
(* set_sdo (download), with the conversions between a value and the bytes  *)
(* of an object, and the device EcMasterAsync opens for each request.      *)
(*                                                                         *)
(* One executor thread serves one request at a time and keeps nothing      *)
(* between two, so any sequence of requests is one of single requests, and *)
(* one object of the slave stands for all.  The contents of an object are  *)
(* its size in bytes and the unsigned number its bytes are.  A byte has    *)
(* ByteBits bits, so that the widest type stays within TLC's integers.     *)
(* The kernel module and the slave are external.                           *)
(***************************************************************************)
EXTENDS Integers

CONSTANTS
  ByteBits,                 \* 8
  DoubleBits,               \* of the significand of a double, 53
  Numbers,                  \* what sdo_value may spell
  Text,                     \* an sdo_value that spells no number
  TextSize,                 \* its length
  NaN,
  FloatPattern,             \* the bytes of each number as a float,
  DoublePattern,            \* and as a double
  RequestedTypes,           \* what sdo_data_type may be
  ObjectSizes

Signed == {"int8", "int16", "int32", "int64"}
Unsigned == {"uint8", "uint16", "uint32", "uint64"}
SignMagnitude == {"sm8", "sm16", "sm32", "sm64"}
Textual == {"string", "octet_string", "unicode_string"}
NotNative == {"int24", "int40", "int48", "int56", "uint24", "uint40", "uint48", "uint56"}

\* The size of each type in bytes; a text and raw bytes have any size, which
\* the table says as 0.
dataTypes ==
  [bool |-> 1, int8 |-> 1, int16 |-> 2, int32 |-> 4, uint8 |-> 1, uint16 |-> 2,
   uint32 |-> 4, float |-> 4, string |-> 0, octet_string |-> 0,
   unicode_string |-> 0, int24 |-> 3, double |-> 8, int40 |-> 5, int48 |-> 6,
   int56 |-> 7, int64 |-> 8, uint24 |-> 3, uint40 |-> 5, uint48 |-> 6,
   uint56 |-> 7, uint64 |-> 8, sm8 |-> 1, sm16 |-> 2, sm32 |-> 4, sm64 |-> 8,
   raw |-> 0]

byteSize(type) == dataTypes[type]

\* The names get_data_type finds.
DataTypes == DOMAIN dataTypes

ASSUME WidthAssumption ==
  /\ ByteBits \in Nat \ {0, 1}
  /\ DoubleBits \in Nat \ {0}
  /\ TextSize \in Nat \ {0}
  /\ ObjectSizes \subseteq Nat \ {0}

ASSUME RequestAssumption ==
  /\ Numbers \subseteq Int
  /\ Text \notin Int /\ NaN \notin Int
  /\ FloatPattern \in [Numbers -> 0..(2^(4 * ByteBits) - 1)]
  /\ DoublePattern \in [Numbers -> 0..(2^(8 * ByteBits) - 1)]

VARIABLES
  at,                       \* where the server is in a handler, or "ended"
  request,                  \* the request being served, or the last one
  buffer,                   \* the bytes allocated for it, or None
  fd,                       \* the master's device is open
  response,                 \* to the last request
  object,                   \* in the slave's dictionary
  set,                      \* history: what a client has set in it, or None
  seen,                     \* history: set when the object was uploaded
  exchanged                 \* history: this request reached the slave

vars == <<at, request, buffer, fd, response, object, set, seen, exchanged>>

None == [type |-> "none"]

Requests ==
  [kind : {"set"}, type : RequestedTypes, value : Numbers \cup {Text}]
    \cup [kind : {"get"}, type : RequestedTypes, value : {Text}]

-----------------------------------------------------------------------------
(***************************************************************************)
(* Conversions                                                             *)
(***************************************************************************)

Width(bytes) == 2^(bytes * ByteBits)

\* What an extraction from a stream takes for a variable of that many bytes.
\* An unsigned one takes a negative number of no greater magnitude, and wraps.
ReadsSigned(v, bytes) == v \in Int /\ -Width(bytes) <= 2 * v /\ 2 * v < Width(bytes)
ReadsUnsigned(v, bytes) == v \in Int /\ -Width(bytes) < v /\ v < Width(bytes)

\* A variant of AcceptsByte that checks the upper limit only.
AcceptsByteBelow(type, v) ==
  \/ type = "bool" /\ ReadsSigned(v, 2) /\ v <= 1
  \/ type = "int8" /\ ReadsSigned(v, 2) /\ 2 * v < Width(1)
  \/ type = "uint8" /\ ReadsUnsigned(v, 2) /\ v % Width(2) < Width(1)

\* The types of one byte are read as two bytes, and checked.
AcceptsByte(type, v) ==
  \/ type = "bool" /\ ReadsSigned(v, 2) /\ v <= 1 /\ v >= 0
  \/ type = "int8" /\ ReadsSigned(v, 2) /\ 2 * v < Width(1) /\ 2 * v >= -Width(1)
  \/ type = "uint8" /\ ReadsUnsigned(v, 2) /\ v % Width(2) < Width(1)

\* data2buffer converts the value, or reports it as invalid.
Accepts(type, v) ==
  \/ type \in Textual
  \/ type \in {"float", "double"} /\ v \in Int
  \/ type \in {"bool", "int8", "uint8"} /\ AcceptsByte(type, v)
  \/ type \in Signed \ {"int8"} /\ ReadsSigned(v, byteSize(type))
  \/ type \in Unsigned \ {"uint8"} /\ ReadsUnsigned(v, byteSize(type))

\* The types data2buffer does not convert: it throws what download does not catch.
Throws(type) == type \in NotNative \cup SignMagnitude \cup {"raw"}

\* A variant of data2buffer that does not narrow the number to its type.
Data2bufferWide(type, v) ==
  IF type \in Textual THEN [size |-> TextSize, bits |-> 0] ELSE [size |-> byteSize(type), bits |-> v]

\* The bytes data2buffer produces, of which a text's are not told apart.
data2buffer(type, v) ==
  CASE type \in Textual  -> [size |-> TextSize, bits |-> 0]
    [] type = "float"    -> [size |-> 4, bits |-> FloatPattern[v]]
    [] type = "double"   -> [size |-> 8, bits |-> DoublePattern[v]]
    [] OTHER             -> [size |-> byteSize(type), bits |-> v % Width(byteSize(type))]

TwosComplement(bits, bytes) ==
  IF 2 * bits < Width(bytes) THEN bits ELSE bits - Width(bytes)

SignAndMagnitude(bits, bytes) ==
  IF 2 * bits < Width(bytes) THEN bits ELSE -(bits % (Width(bytes) \div 2))

\* A double is the nearest number of DoubleBits significant bits, an even one
\* of two.
ToDouble(v) ==
  LET m    == IF v < 0 THEN -v ELSE v
      e    == CHOOSE k \in 0..(8 * ByteBits) :
                /\ m < 2^(DoubleBits + k)
                /\ k > 0 => m >= 2^(DoubleBits + k - 1)
      q    == m \div 2^e
      r    == m % 2^e
      up   == 2 * r > 2^e \/ (2 * r = 2^e /\ q % 2 = 1)
      near == (IF up THEN q + 1 ELSE q) * 2^e
  IN  IF v < 0 THEN -near ELSE near

\* A variant of Read that takes a signed type's bytes as they are.
ReadUnsigned(type, bits) ==
  IF type \in SignMagnitude THEN SignAndMagnitude(bits, byteSize(type)) ELSE bits

\* The number the bytes are for a type; a float's are taken as they are.
Read(type, bits) ==
  CASE type \in Signed \cup {"bool"}  -> TwosComplement(bits, byteSize(type))
    [] type \in SignMagnitude         -> SignAndMagnitude(bits, byteSize(type))
    [] OTHER                          -> bits

\* The value buffer2data reports: none for a text and for raw bytes.
buffer2data(type, bits) ==
  IF type \in Textual \cup NotNative \cup {"raw"} THEN NaN ELSE ToDouble(Read(type, bits))

\* buffer2data wants the size of the type, if it has one.
SizeMatches(type, size) == byteSize(type) = 0 \/ size = byteSize(type)

-----------------------------------------------------------------------------

Init ==
  /\ at = "idle"
  /\ request = [kind |-> "get", type |-> "bool", value |-> Text]
  /\ buffer = None
  /\ fd = FALSE
  /\ response = [success |-> FALSE, value |-> NaN]
  /\ \E size \in ObjectSizes : object = [size |-> size, bits |-> 0]
  /\ set = None /\ seen = None
  /\ exchanged = FALSE

\* The handler returns its answer.
Reply(success, value) ==
  /\ response' = [success |-> success, value |-> value]
  /\ at' = "idle"

\* delete[] of data.target or data.data.
Free == buffer' = None

\* close of the master: called by the handler, or by ~EcMasterAsync at its end.
CloseDevice == fd' = FALSE

\* An exception nobody catches ends the node where it is.
End ==
  /\ at' = "ended"
  /\ UNCHANGED <<response, buffer, fd>>

dealtWith == <<request, object, set, seen, exchanged>>

\* A request comes in and its type is looked up; get_sdo allocates the bytes of
\* the type, set_sdo as many as its text has characters.
Serve ==
  /\ at = "idle"
  /\ request' \in Requests
  /\ response' = [success |-> FALSE, value |-> NaN]
  /\ exchanged' = FALSE /\ seen' = None
  /\ LET type == request'.type
     IN  \/ type \notin DataTypes /\ UNCHANGED <<at, buffer>>
         \/ /\ type \in DataTypes /\ request'.kind = "get"
            /\ buffer' = [size |-> byteSize(type), bits |-> 0]
            /\ at' = "open"
         \/ /\ type \in DataTypes /\ request'.kind = "set"
            /\ buffer' = [size |-> 0, bits |-> 0]
            /\ at' = "encode"
  /\ UNCHANGED <<fd, object, set>>

\* set_sdo converts its value before anything else.
Encode ==
  /\ at = "encode"
  /\ ~Throws(request.type) /\ Accepts(request.type, request.value)
  /\ buffer' = data2buffer(request.type, request.value)
  /\ at' = "open"
  /\ UNCHANGED <<fd, response, dealtWith>>

\* The value is none of the type.  The other exception download catches, of a
\* text too long for the buffer, never comes: the buffer is as long as the text.
ValueRefused ==
  /\ at = "encode"
  /\ ~Throws(request.type) /\ ~Accepts(request.type, request.value)
  /\ Reply(FALSE, NaN)
  /\ Free
  /\ UNCHANGED <<fd, dealtWith>>

ConversionThrows ==
  /\ at = "encode"
  /\ Throws(request.type)
  /\ End
  /\ UNCHANGED dealtWith

\* EcMasterAsync::open opens the device, and then asks it for its version.
Open ==
  /\ at = "open"
  /\ fd' = TRUE
  /\ at' = "check"
  /\ UNCHANGED <<buffer, response, dealtWith>>

VersionMatches ==
  /\ at = "check"
  /\ at' = "transfer"
  /\ UNCHANGED <<buffer, fd, response, dealtWith>>

\* open throws: the device cannot be opened, or is open and another version.
UploadNotOpened ==
  /\ at \in {"open", "check"} /\ request.kind = "get"
  /\ Reply(FALSE, NaN)
  /\ Free
  /\ CloseDevice
  /\ UNCHANGED dealtWith

DownloadNotOpened ==
  /\ at \in {"open", "check"} /\ request.kind = "set"
  /\ Reply(FALSE, NaN)
  /\ Free
  /\ CloseDevice
  /\ UNCHANGED dealtWith

\* A slave refuses other sizes than an object's.
Download ==
  /\ at = "transfer" /\ request.kind = "set"
  /\ buffer.size = object.size
  /\ object' = buffer
  /\ set' = [type |-> request.type, value |-> request.value]
  /\ exchanged' = TRUE
  /\ CloseDevice
  /\ Reply(TRUE, NaN)
  /\ Free
  /\ UNCHANGED <<request, seen>>

\* A variant of DownloadTransferFails that goes on to report success.
DownloadGoesOn ==
  /\ at = "transfer" /\ request.kind = "set"
  /\ CloseDevice
  /\ Reply(TRUE, NaN)
  /\ Free
  /\ UNCHANGED dealtWith

DownloadTransferFails ==
  /\ at = "transfer" /\ request.kind = "set"
  /\ Reply(FALSE, NaN)
  /\ Free
  /\ CloseDevice
  /\ UNCHANGED dealtWith

\* The kernel copies what fits into the target, and fails if it does not fit.
\* The master is closed before the conversion.
Upload ==
  /\ at = "transfer" /\ request.kind = "get"
  /\ object.size <= buffer.size
  /\ buffer' = object
  /\ seen' = set
  /\ exchanged' = TRUE
  /\ CloseDevice
  /\ at' = "convert"
  /\ UNCHANGED <<request, response, object, set>>

\* A variant of UploadTransferFails that returns without freeing the target.
UploadLeaves ==
  /\ at = "transfer" /\ request.kind = "get"
  /\ Reply(FALSE, NaN)
  /\ CloseDevice
  /\ UNCHANGED <<buffer, dealtWith>>

UploadTransferFails ==
  /\ at = "transfer" /\ request.kind = "get"
  /\ Reply(FALSE, NaN)
  /\ Free
  /\ CloseDevice
  /\ UNCHANGED dealtWith

\* A transfer that fails with an abort code that is not in the table looks it up
\* all the same: that ends the node, or makes up a message and fails as above.
AbortUnknown ==
  /\ at = "transfer"
  /\ End
  /\ UNCHANGED dealtWith

\* buffer2data refuses the size, before anything else, or converts.
SizeDiffers ==
  /\ at = "convert"
  /\ ~SizeMatches(request.type, buffer.size)
  /\ Reply(FALSE, NaN)
  /\ Free
  /\ UNCHANGED <<fd, dealtWith>>

Convert ==
  /\ at = "convert"
  /\ SizeMatches(request.type, buffer.size)
  /\ Reply(TRUE, buffer2data(request.type, buffer.bits))
  /\ Free
  /\ UNCHANGED <<fd, dealtWith>>

\* The slave, or the driver's own configuration, changes the object.
SlaveChanges ==
  /\ set # None
  /\ object' = [object EXCEPT !.bits = 0]
  /\ set' = None
  /\ UNCHANGED <<at, request, buffer, fd, response, seen, exchanged>>

Next ==
  \/ Serve
  \/ Encode
  \/ ValueRefused
  \/ ConversionThrows
  \/ Open
  \/ VersionMatches
  \/ UploadNotOpened
  \/ DownloadNotOpened
  \/ Download
  \/ DownloadTransferFails
  \/ Upload
  \/ UploadTransferFails
  \/ AbortUnknown
  \/ SizeDiffers
  \/ Convert
  \/ SlaveChanges

Spec == Init /\ [][Next]_vars

-----------------------------------------------------------------------------

Contents == [size : Nat, bits : Nat]
Settings == [type : DataTypes, value : Int \cup {Text}]

\* Every variable has its type.
TypeOK ==
  /\ at \in {"idle", "encode", "open", "check", "transfer", "convert", "ended"}
  /\ request \in [kind : {"get", "set"}, type : RequestedTypes \cup {"bool"},
                  value : Int \cup {Text}]
  /\ buffer \in Contents \cup {None}
  /\ fd \in BOOLEAN
  /\ response \in [success : BOOLEAN, value : Int \cup {NaN}]
  /\ object \in Contents /\ object.bits < Width(object.size)
  /\ set \in Settings \cup {None} /\ seen \in Settings \cup {None}
  /\ exchanged \in BOOLEAN

-----------------------------------------------------------------------------
(***************************************************************************)
(* Properties                                                              *)
(***************************************************************************)

\* The numbers a type stands for.
Represents(type, v) ==
  \/ type = "bool" /\ v \in {0, 1}
  \/ type \in Signed /\ -Width(byteSize(type)) <= 2 * v /\ 2 * v < Width(byteSize(type))
  \/ type \in Unsigned /\ 0 <= v /\ v < Width(byteSize(type))

\* data2buffer, the slave and buffer2data fit together: a client that reads an
\* object as the type another has set it as is told the number that was set, if
\* the type and a double can hold it, whatever was requested in between.
GetReturnsWhatWasSet ==
  (at = "idle" /\ request.kind = "get" /\ response.success /\ exchanged
     /\ seen # None /\ seen.type = request.type)
    => (Represents(seen.type, seen.value) /\ seen.value \in -(2^DoubleBits)..2^DoubleBits
          => response.value = seen.value)

\* The range checks around the extractions are complete: of the integer types
\* only the unsigned ones, which wrap a negative number, ever reach the slave
\* with a number they do not stand for.
OutOfRangeRefused ==
  (set # None /\ set.type \in Signed \cup {"bool"}) => Represents(set.type, set.value)

\* Whichever of its returns a handler takes, its own delete[] and the master's
\* destructor have given back what it held before the next request is served;
\* an exception that leaves a handler ends the node, and with it what it held.
NothingHeldWhenIdle == at = "idle" => buffer = None /\ ~fd

\* A client is told success only if the request reached the slave.
SuccessMeansExchanged == (at = "idle" /\ response.success) => exchanged
=============================================================================
