------------------------- MODULE ProcessDataProofs --------------------------
(***************************************************************************)
(* The exchange of objects with interfaces, for every description, byte    *)
(* and resolution: the type invariant, that the driver implements          *)
(* SlaveObjects, that a pass leaves no object behind, that every SDO is    *)
(* applied, and that a sound description is brought up.                    *)
(***************************************************************************)
EXTENDS ProcessDataMapping

-----------------------------------------------------------------------------
(***************************************************************************)
(* Reading and writing                                                     *)
(***************************************************************************)

\* Both modules have the same numbers.
LEMMA SameNumbers ==
  /\ \A S : Abstract!Cardinality(S) = Cardinality(S)
  /\ \A w, n : Abstract!Total(w, n) = Total(w, n)
  /\ \A bits, width : Abstract!Unsigned(bits, width) = Unsigned(bits, width)
  /\ \A bits, type : Abstract!Number(bits, type) = Number(bits, type)
  /\ \A value, type : Abstract!Cast(value, type) = Cast(value, type)
<1>1. \A w, n : Abstract!Total(w, n) = Total(w, n)
  BY DEF Abstract!Total, Total
<1>2. \A bits, width : Abstract!Unsigned(bits, width) = Unsigned(bits, width)
  BY <1>1 DEF Abstract!Unsigned, Unsigned
<1>3. \A bits, type : Abstract!Number(bits, type) = Number(bits, type)
  BY <1>2 DEF Abstract!Number, Number
<1>4. \A value, type : Abstract!Cast(value, type) = Cast(value, type)
  BY DEF Abstract!Cast, Cast, Abstract!InRange, InRange, Abstract!Truncated, Truncated,
         Abstract!Pattern, Pattern
<1>5. \A S : Abstract!Cardinality(S) = Cardinality(S)
  BY DEF Abstract!Cardinality, Cardinality
<1> QED
  BY <1>1, <1>2, <1>3, <1>4, <1>5

\* The index of a name is where the name is.
LEMMA IndexOfName ==
  ASSUME NEW names \in Seq(STRING), NEW name
  PROVE  /\ name \in ToSet(names) =>
              /\ InterfaceIndex(names, name) \in DOMAIN names
              /\ names[InterfaceIndex(names, name)] = name
              /\ InterfaceIndex(names, name) # -1
         /\ name \notin ToSet(names) => InterfaceIndex(names, name) = -1
<1>1. DOMAIN names = 1..Len(names) /\ -1 \notin 1..Len(names)
  BY LenProperties
<1>2. ASSUME name \in ToSet(names)
      PROVE  /\ InterfaceIndex(names, name) \in DOMAIN names
             /\ names[InterfaceIndex(names, name)] = name
  <2>1. \E x \in DOMAIN names : names[x] = name
    BY <1>2 DEF ToSet
  <2> QED
    BY <1>2, <2>1 DEF InterfaceIndex
<1>3. name \notin ToSet(names) => InterfaceIndex(names, name) = -1
  BY DEF InterfaceIndex
<1> QED
  BY <1>1, <1>2, <1>3

\* The bits a conversion yields are those of the type.
LEMMA CastBits ==
  ASSUME NEW type \in DataType, NEW value, NEW bits \in Cast(value, type)
  PROVE  bits \subseteq 0..(type.bits - 1)
<1>1. Pattern(Truncated(value), type.bits) \subseteq 0..(type.bits - 1)
  BY DEF Pattern
<1> QED
  BY <1>1 DEF Cast

\* A byte is a data type.
LEMMA ByteType == uint8 \in DataType /\ uint8.bits = ByteBits
BY UnitAssumption DEF uint8, DataType

\* What overwriting does to the process data.
LEMMA OverwrittenBits ==
  ASSUME NEW address \in Nat, NEW width \in Nat, NEW bits \in SUBSET (0..(width - 1))
  PROVE  /\ \A b \in 0..(width - 1) : address * ByteBits + b \in Overwritten(address, width, bits) <=> b \in bits
         /\ \A n : (\A b \in 0..(width - 1) : n # address * ByteBits + b) =>
              (n \in Overwritten(address, width, bits) <=> n \in domain_pd)
         /\ domain_pd \subseteq Nat => Overwritten(address, width, bits) \subseteq Nat
<1> DEFINE base == address * ByteBits
<1>1. base \in Nat
  BY UnitAssumption
<1> HIDE DEF base
<1>2. Overwritten(address, width, bits)
        = (domain_pd \ {base + b : b \in 0..(width - 1)}) \cup {base + b : b \in bits}
  BY DEF Overwritten, Placed, base
<1>3. \A b, c \in 0..(width - 1) : base + b = base + c => b = c
  BY <1>1
<1>4. \A b \in 0..(width - 1) : base + b \in Nat
  BY <1>1
<1>5. \A b \in 0..(width - 1) : base + b \in Overwritten(address, width, bits) <=> b \in bits
  BY <1>2, <1>3
<1>6. \A n : (\A b \in 0..(width - 1) : n # base + b) =>
              (n \in Overwritten(address, width, bits) <=> n \in domain_pd)
  BY <1>2
<1>7. domain_pd \subseteq Nat => Overwritten(address, width, bits) \subseteq Nat
  BY <1>2, <1>4
<1> QED
  BY <1>5, <1>6, <1>7 DEF base

\* The bits of its byte that stand for an object.
BitsOf(entry, address, data) == {b \in ObjectBit(entry) : address * ByteBits + b \in data}

\* A write leaves the object with bits that stand for the value, and every bit
\* outside of what it replaces alone.
LEMMA WriteEffect ==
  ASSUME NEW entry \in EntryType, ~IsInteger(entry.type) => entry.mask # {},
         NEW address \in Nat, NEW value, NEW data \in ec_write(entry, address, value)
  PROVE  /\ BitsOf(entry, address, data) \in Abstract!Encodings(entry, value)
         /\ \A n : (\A b \in Footprint(entry) : n # address * ByteBits + b) =>
              (n \in data <=> n \in domain_pd)
         /\ domain_pd \subseteq Nat => data \subseteq Nat
<1> DEFINE type == entry.type
           mask == entry.mask
<1>1. type \in DataType /\ mask \subseteq 0..(ByteBits - 1) /\ type.bits \in Nat
  BY DEF EntryType, DataType
<1>2. IsFiniteSet(mask) /\ Cardinality(mask) \in Nat /\ (Cardinality(mask) = 0 <=> mask = {})
  <2>1. IsFiniteSet(0..(ByteBits - 1))
    BY UnitAssumption, FS_Interval
  <2>2. IsFiniteSet(mask)
    BY <1>1, <2>1, FS_Subset
  <2> QED
    BY <2>2, FS_CardinalityType, FS_EmptySet
<1>3. CASE IsInteger(type)
  <2>1. PICK bits \in Cast(value, type) : data = Overwritten(address, type.bits, bits)
    BY <1>3 DEF ec_write
  <2>2. bits \in SUBSET (0..(type.bits - 1))
    BY <1>1, CastBits
  <2>3. ObjectBit(entry) = 0..(type.bits - 1) /\ Footprint(entry) = 0..(type.bits - 1)
    BY <1>3 DEF ObjectBit, Footprint
  <2>4. BitsOf(entry, address, data) = bits
    BY <1>1, <2>1, <2>2, <2>3, OverwrittenBits DEF BitsOf
  <2>5. Abstract!Encodings(entry, value) = Cast(value, type)
    BY <1>3, SameNumbers DEF Abstract!Encodings, Abstract!IsInteger, IsInteger
  <2> QED
    BY <1>1, <2>1, <2>2, <2>3, <2>4, <2>5, OverwrittenBits
<1>4. CASE ~IsInteger(type) /\ Cardinality(mask) = 1
  <2> DEFINE buffer == BitsAt(address, ByteBits) \ mask
             bits == IF value # 0 THEN buffer \cup mask ELSE buffer
  <2>1. data = Overwritten(address, ByteBits, bits)
    BY <1>4 DEF ec_write, WrittenBit
  <2>2. buffer \in SUBSET (0..(ByteBits - 1)) /\ bits \in SUBSET (0..(ByteBits - 1))
        /\ bits \cap mask = IF value # 0 THEN mask ELSE {}
    BY <1>1 DEF BitsAt
  <2>3. ObjectBit(entry) = mask /\ Footprint(entry) = mask
    BY <1>4 DEF ObjectBit, Footprint
  <2>4. /\ \A b \in 0..(ByteBits - 1) : address * ByteBits + b \in data <=> b \in bits
        /\ \A n : (\A b \in 0..(ByteBits - 1) : n # address * ByteBits + b) =>
              (n \in data <=> n \in domain_pd)
        /\ domain_pd \subseteq Nat => data \subseteq Nat
    <3> HIDE DEF bits
    <3> QED
      BY <2>1, <2>2, OverwrittenBits, UnitAssumption
  <2>5. BitsOf(entry, address, data) = IF value # 0 THEN mask ELSE {}
    <3> HIDE DEF bits
    <3> QED
      BY <1>1, <2>2, <2>3, <2>4 DEF BitsOf
  <2>6. (IF value # 0 THEN mask ELSE {}) \in Abstract!Encodings(entry, value)
    BY <1>4, SameNumbers DEF Abstract!Encodings, Abstract!IsInteger, IsInteger
  <2>7. ASSUME NEW n, \A b \in mask : n # address * ByteBits + b
        PROVE  n \in data <=> n \in domain_pd
    <3>1. CASE \E b \in 0..(ByteBits - 1) : n = address * ByteBits + b
      <4>1. PICK b \in 0..(ByteBits - 1) : n = address * ByteBits + b
        BY <3>1
      <4>2. b \notin mask
        BY <2>7, <4>1
      <4>3. b \in bits <=> address * ByteBits + b \in domain_pd
        BY <4>2 DEF BitsAt
      <4> HIDE DEF bits
      <4> QED
        BY <2>4, <4>1, <4>3
    <3>2. CASE ~\E b \in 0..(ByteBits - 1) : n = address * ByteBits + b
      BY <2>4, <3>2
    <3> QED
      BY <3>1, <3>2
  <2> QED
    BY <2>3, <2>4, <2>5, <2>6, <2>7
<1>5. CASE ~IsInteger(type) /\ Cardinality(mask) > 1
  <2>1. PICK bits \in Cast(value, uint8) : data = Overwritten(address, ByteBits, bits \cap mask)
    BY <1>5 DEF ec_write
  <2>2. bits \cap mask \in SUBSET (0..(ByteBits - 1))
    BY <1>1
  <2>3. ObjectBit(entry) = mask /\ Footprint(entry) = 0..(ByteBits - 1)
    BY <1>5 DEF ObjectBit, Footprint
  <2>4. /\ \A b \in 0..(ByteBits - 1) : address * ByteBits + b \in data <=> b \in bits \cap mask
        /\ \A n : (\A b \in 0..(ByteBits - 1) : n # address * ByteBits + b) =>
              (n \in data <=> n \in domain_pd)
        /\ domain_pd \subseteq Nat => data \subseteq Nat
    BY <2>1, <2>2, OverwrittenBits, UnitAssumption
  <2>5. BitsOf(entry, address, data) = bits \cap mask
    BY <1>1, <2>3, <2>4 DEF BitsOf
  <2>6. bits \cap mask \in Abstract!Encodings(entry, value)
    <3>1. Cardinality(mask) # 1
      BY <1>2, <1>5
    <3>2. Abstract!uint8 = uint8
      BY DEF Abstract!uint8, uint8
    <3>3. Abstract!Encodings(entry, value) = {x \cap mask : x \in Cast(value, uint8)}
      BY <1>5, <3>1, <3>2, SameNumbers DEF Abstract!Encodings, Abstract!IsInteger, IsInteger
    <3> QED
      BY <3>3
  <2> QED
    BY <2>3, <2>4, <2>5, <2>6
<1>6. IsInteger(type) \/ Cardinality(mask) = 1 \/ Cardinality(mask) > 1
  BY <1>2
<1> QED
  BY <1>3, <1>4, <1>5, <1>6

-----------------------------------------------------------------------------
(***************************************************************************)
(* Types                                                                   *)
(***************************************************************************)

\* What processData is called with: an object of the configuration, its channel
\* and the byte it was declared with.
LEMMA ProcessedObject ==
  ASSUME IInv, pass # "none", NEW e \in 1..Len(entries), NEW j \in 1..entries[e].num_pdos
  PROVE  LET m == entries[e].slave
             c == ChannelOf(setup, m, j)
             config == setup.modules[m].config
             k == setup.modules[m].component
         IN  /\ setup \in Setups /\ m \in 1..Len(setup.modules) /\ m \in DOMAIN setup.modules
             /\ IsObject(setup, <<m, c>>) /\ ~setup.modules[m].refused
             /\ k \in Components /\ setup.components[k] \in ComponentType
             /\ c \in DOMAIN AllChannels(config) /\ AllChannels(config)[c] \in EntryType
             /\ ~IsInteger(AllChannels(config)[c].type) => AllChannels(config)[c].mask # {}
             /\ ProcessedChannel(m, j) =
                  PdoChannel(AllChannels(config)[c],
                             IF c <= Len(config.rpdo) THEN "RPDO" ELSE "TPDO",
                             setup.components[k])
             /\ entries[e].offset[j] = DeclaredByte(setup, m, c)
             /\ DeclaredByte(setup, m, c) \in Nat
<1> DEFINE m == entries[e].slave
           c == ChannelOf(setup, m, j)
           config == setup.modules[m].config
           k == setup.modules[m].component
           o == <<m, c>>
<1>1. /\ setup \in Setups /\ m \in 1..Len(setup.modules) /\ ~setup.modules[m].refused
      /\ j \in 1..Registrations(setup, m)
      /\ entries[e].offset[j] = DeclaredByte(setup, m, c)
  BY EntriesThere DEF IInv, PluginsInv, EntriesInv, AddressesInv
<1>2. /\ m \in DOMAIN setup.modules /\ k \in Components /\ setup.components[k] \in ComponentType
  BY <1>1, Configured DEF Components
<1>3. IsObject(setup, o) /\ c \in DOMAIN AllChannels(config)
  BY <1>1, RegisteredObjects
<1>4. o[1] = m /\ o[2] = c
  OBVIOUS
<1> HIDE DEF o
<1>5. /\ AllChannels(config)[c] \in EntryType
      /\ ~IsInteger(AllChannels(config)[c].type) => AllChannels(config)[c].mask # {}
  <2> DEFINE list == config[DirectionOf(config, c)]
             p == PlaceOf(config, c)
  <2>1. /\ list \in Seq(EntryType) /\ p \in 1..Len(list) /\ AllChannels(config)[c] = list[p]
        /\ AllChannels(config)[c] \in EntryType /\ AllChannels(config)[c].object # 0
        /\ WellPlaced(list)
    BY <1>1, <1>3, <1>4, ObjectOf DEF EntryOf
  <2> HIDE DEF list, p
  <2>2. p \in DOMAIN list
    BY <2>1, LenProperties
  <2> QED
    BY <2>1, <2>2 DEF WellPlaced
<1>6. ProcessedChannel(m, j) = Plugin(setup, m).channels[c]
  <2>1. /\ IsSequence(ec_modules_) /\ Len(ec_modules_) = Len(setup.modules)
        /\ \A x \in 1..Len(ec_modules_) : ec_modules_[x] = Plugin(setup, x)
    BY DEF IInv, CountersInv, PluginsInv, Running
  <2> QED
    BY <1>1, <2>1 DEF ProcessedChannel, ChannelOf
<1>7. Plugin(setup, m).channels[c] =
        PdoChannel(AllChannels(config)[c], IF c <= Len(config.rpdo) THEN "RPDO" ELSE "TPDO",
                   setup.components[k])
  BY <1>1, <1>2, <1>3, PluginChannels
<1>8. DeclaredByte(setup, m, c) \in Nat
  <2> DEFINE pdo == DirectionOf(setup.modules[o[1]].config, o[2])
             start == Start(DirectionSizes(setup), o[1], pdo)
             q == BitsBefore(setup.modules[o[1]].config[pdo],
                             PlaceOf(setup.modules[o[1]].config, o[2])) \div ByteBits
  <2>1. setup \in Setups /\ IsObject(setup, o) /\ ~setup.modules[o[1]].refused
    BY <1>1, <1>3, <1>4
  <2>2. DeclaredByte(setup, o[1], o[2]) = start + q /\ start \in Nat /\ q \in Nat
    BY <2>1, PlaceOfObject
  <2>3. DeclaredByte(setup, o[1], o[2]) \in Nat
    <3> HIDE DEF start, q
    <3> QED
      BY <2>2
  <2> QED
    BY <2>3, <1>4
<1> QED
  BY <1>1, <1>2, <1>3, <1>5, <1>6, <1>7, <1>8 DEF o

\* What ec_read takes from the process data is a number.
LEMMA ReadNumber ==
  ASSUME NEW entry \in EntryType, NEW address
  PROVE  ec_read(entry, address) \in Int
<1> DEFINE type == entry.type
           byte == BitsAt(address, ByteBits)
<1>1. /\ type \in DataType /\ entry.factor \in Int /\ entry.offset \in Int
      /\ Resolution \in Int /\ ByteBits \in Nat
  BY UnitAssumption DEF EntryType
<1>2. IsInteger(type) \/ type.kind = "bool" \/ type.kind = "bit"
  BY <1>1 DEF DataType, IsInteger
<1>3. /\ Number(BitsAt(address, type.bits), type) \in Int
      /\ Unsigned(byte \cap entry.mask, ByteBits) \in Int
  BY <1>1, NumberType
<1>4. ASSUME NEW raw \in Int
      PROVE  entry.factor * raw * Resolution + entry.offset \in Int
  BY <1>1
<1>5. CASE IsInteger(type)
  <2>1. ec_read(entry, address)
          = entry.factor * Number(BitsAt(address, type.bits), type) * Resolution + entry.offset
    BY <1>5 DEF ec_read, IsInteger
  <2> QED
    BY <1>3, <1>4, <2>1
<1>6. CASE type.kind = "bool"
  <2>1. ec_read(entry, address)
          = entry.factor * (IF byte \cap entry.mask # {} THEN 1 ELSE 0) * Resolution + entry.offset
    BY <1>6 DEF ec_read, IsInteger
  <2> QED
    BY <1>4, <2>1
<1>7. CASE type.kind = "bit"
  <2>1. ec_read(entry, address)
          = entry.factor * Unsigned(byte \cap entry.mask, ByteBits) * Resolution + entry.offset
    BY <1>7 DEF ec_read, IsInteger
  <2> QED
    BY <1>3, <1>4, <2>1
<1> QED
  BY <1>2, <1>5, <1>6, <1>7

\* The interface vectors and the process data hold numbers.
ValuesInv ==
  /\ DOMAIN hw_commands = Components /\ DOMAIN hw_states = Components
  /\ \A k \in Components :
       /\ hw_commands[k] \in [DOMAIN setup.components[k].commands -> Double]
       /\ hw_states[k] \in [DOMAIN setup.components[k].states -> Double]
  /\ domain_pd \subseteq Nat

\* The interfaces begin with zero or NaN, the process data is empty.
LEMMA InitValues == Init => ValuesInv
BY DEF Init, ValuesInv, Double, Components

\* A call writes numbers.
LEMMA ProcessDataValues == IInv /\ ValuesInv /\ ProcessData => ValuesInv'
<1> SUFFICES ASSUME IInv, ValuesInv, ProcessData
             PROVE  ValuesInv'
  OBVIOUS
<1> DEFINE m == entries[at].slave
           c == ChannelOf(setup, m, inner)
           config == setup.modules[m].config
           entry == AllChannels(config)[c]
           k == setup.modules[m].component
           ch == ProcessedChannel(m, inner)
           D == DeclaredByte(setup, m, c)
<1>1. pass # "none" /\ at \in 1..Len(entries) /\ inner \in 1..entries[at].num_pdos
  <2>1. /\ phase = "process" /\ inner <= entries[at].num_pdos
        /\ pass # "none" /\ at \in 1..Len(entries) /\ inner \in 1..(entries[at].num_pdos + 1)
    BY DEF ProcessData, IInv, CountersInv, Running
  <2>2. entries[at].num_pdos \in Nat
    BY <2>1, EntriesThere
  <2> QED
    BY <2>1, <2>2
<1>2. /\ k \in Components /\ setup.components[k] \in ComponentType
      /\ entry \in EntryType /\ (~IsInteger(entry.type) => entry.mask # {})
      /\ ch = PdoChannel(entry, IF c <= Len(config.rpdo) THEN "RPDO" ELSE "TPDO",
                         setup.components[k])
      /\ entries[at].offset[inner] = D /\ D \in Nat
  BY <1>1, ProcessedObject
<1>3. UNCHANGED <<setup, hw_commands>> /\ ec_update(ch, k, D)
  BY <1>2 DEF ProcessData
<1> HIDE DEF m, c, config, entry, k, ch, D
<1>4. ch.config = entry /\ ch.multiplier \in Int
  BY <1>2 DEF PdoChannel, Multiplier
<1>5. CASE UNCHANGED <<domain_pd, hw_states>>
  BY <1>3, <1>5 DEF ValuesInv, Components
<1>6. CASE /\ ch.pdo_type = "RPDO" /\ domain_pd' \in ec_write(entry, D, ValueToWrite(ch, k))
           /\ UNCHANGED hw_states
  <2>1. domain_pd' \subseteq Nat
    BY <1>2, <1>6, WriteEffect DEF ValuesInv
  <2> QED
    BY <1>3, <1>6, <2>1 DEF ValuesInv, Components
<1>7. CASE /\ ch.pdo_type = "TPDO" /\ UNCHANGED domain_pd
           /\ ch.interface_index # -1
           /\ hw_states' = [hw_states EXCEPT ![k][ch.interface_index] =
                              ch.multiplier * ec_read(entry, D)]
  <2>1. ch.multiplier * ec_read(entry, D) \in Double
    <3>1. ec_read(entry, D) \in Int
      BY <1>2, ReadNumber
    <3> QED
      BY <1>4, <3>1 DEF Double
  <2>2. /\ DOMAIN hw_states' = Components
        /\ \A x \in Components : hw_states'[x] \in [DOMAIN setup.components[x].states -> Double]
    BY <1>2, <1>7, <2>1 DEF ValuesInv
  <2> QED
    BY <1>3, <1>7, <2>2 DEF ValuesInv, Components
<1> QED
  BY <1>3, <1>4, <1>5, <1>6, <1>7 DEF ec_update

\* Controllers write numbers or NaN.
LEMMA ControllersValues == IInv /\ ValuesInv /\ Controllers => ValuesInv'
<1> SUFFICES ASSUME IInv, ValuesInv, Controllers
             PROVE  ValuesInv'
  OBVIOUS
<1>1. UNCHANGED <<setup, hw_states, domain_pd>>
  BY DEF Controllers
<1>2. CASE UNCHANGED hw_commands
  BY <1>1, <1>2 DEF ValuesInv, Components
<1>3. CASE \E k \in Components : \E x \in DOMAIN hw_commands[k] :
             \E value \in CommandValues[setup.components[k].commands[x]] :
               hw_commands' = [hw_commands EXCEPT ![k][x] = value]
  <2>1. PICK k \in Components : \E x \in DOMAIN hw_commands[k] :
             \E value \in CommandValues[setup.components[k].commands[x]] :
               hw_commands' = [hw_commands EXCEPT ![k][x] = value]
    BY <1>3
  <2>2. PICK x \in DOMAIN hw_commands[k] :
             \E value \in CommandValues[setup.components[k].commands[x]] :
               hw_commands' = [hw_commands EXCEPT ![k][x] = value]
    BY <2>1
  <2>3. PICK value \in CommandValues[setup.components[k].commands[x]] :
               hw_commands' = [hw_commands EXCEPT ![k][x] = value]
    BY <2>2
  <2>4. value \in Double
    <3>1. x \in DOMAIN setup.components[k].commands
      BY <2>2 DEF ValuesInv
    <3>2. setup.components[k].commands[x] \in ToSet(setup.components[k].commands)
      BY <3>1 DEF ToSet
    <3>3. \A name \in ToSet(setup.components[k].commands) : CommandValues[name] \subseteq Double
      BY Configured DEF IInv, PluginsInv, Components
    <3> QED
      BY <2>3, <3>2, <3>3
  <2>5. /\ DOMAIN hw_commands' = Components
        /\ \A y \in Components : hw_commands'[y] \in [DOMAIN setup.components[y].commands -> Double]
    BY <2>1, <2>2, <2>3, <2>4 DEF ValuesInv
  <2> QED
    BY <1>1, <2>5 DEF ValuesInv, Components
<1> QED
  BY <1>2, <1>3 DEF Controllers

\* The slaves fill bits of the process data.
LEMMA ReceiveBits ==
  ASSUME IInv, Receive
  PROVE  /\ domain_pd \subseteq Nat => domain_pd' \subseteq Nat
         /\ \A n : OutputBit(setup, n) => (n \in domain_pd' <=> n \in domain_pd)
<1> DEFINE fed == UNION {Range(inputs[o]) : o \in DOMAIN inputs}
           got(input) == UNION {{inputs[o][b] : b \in Pattern(input[o], Cardinality(DOMAIN inputs[o]))}
                                  : o \in DOMAIN inputs}
<1>1. PICK input : domain_pd' = (domain_pd \ fed) \cup got(input)
  BY DEF Receive
<1>2. \A o \in DOMAIN inputs :
        /\ DOMAIN inputs[o] = 0..(Cardinality(DOMAIN inputs[o]) - 1)
        /\ \A b \in DOMAIN inputs[o] : inputs[o][b] \in Nat /\ ~OutputBit(setup, inputs[o][b])
  BY DEF IInv, AddressesInv
<1>3. \A n \in got(input) : n \in Nat /\ ~OutputBit(setup, n)
  <2> SUFFICES ASSUME NEW o \in DOMAIN inputs,
                      NEW b \in Pattern(input[o], Cardinality(DOMAIN inputs[o]))
               PROVE  inputs[o][b] \in Nat /\ ~OutputBit(setup, inputs[o][b])
    OBVIOUS
  <2>1. b \in DOMAIN inputs[o]
    BY <1>2 DEF Pattern
  <2> QED
    BY <1>2, <2>1
<1>4. \A n \in fed : ~OutputBit(setup, n)
  <2> SUFFICES ASSUME NEW o \in DOMAIN inputs, NEW n \in Range(inputs[o])
               PROVE  ~OutputBit(setup, n)
    OBVIOUS
  <2>1. \E b \in DOMAIN inputs[o] : n = inputs[o][b]
    BY DEF Range
  <2> QED
    BY <1>2, <2>1
<1> HIDE DEF fed, got
<1> QED
  BY <1>1, <1>3, <1>4

\* Every step keeps numbers numbers.
LEMMA ValuesKept == IInv /\ ValuesInv /\ [Step]_vars => ValuesInv'
<1> SUFFICES ASSUME IInv, ValuesInv, [Step]_vars
             PROVE  ValuesInv'
  OBVIOUS
<1>1. CASE UNCHANGED <<setup, hw_commands, hw_states, domain_pd>>
  BY <1>1 DEF ValuesInv, Components
<1>2. CASE ProcessData
  BY <1>2, ProcessDataValues
<1>3. CASE Controllers
  BY <1>3, ControllersValues
<1>4. CASE Receive
  <2>1. domain_pd' \subseteq Nat
    BY <1>4, ReceiveBits DEF ValuesInv
  <2>2. UNCHANGED <<setup, hw_commands, hw_states>>
    BY <1>4 DEF Receive
  <2> QED
    BY <2>1, <2>2 DEF ValuesInv, Components
<1>5. CASE Write
  <2> DEFINE value(k, x) == IF setup.components[k].joint /\ hw_commands[k][x] = NaN
                              THEN 0 ELSE hw_commands[k][x]
  <2>1. /\ hw_commands' = [k \in Components |-> [x \in DOMAIN hw_commands[k] |-> value(k, x)]]
        /\ UNCHANGED <<setup, hw_states, domain_pd>>
    BY <1>5 DEF Write
  <2>2. \A k \in Components : \A x \in DOMAIN hw_commands[k] : value(k, x) \in Double
    BY DEF ValuesInv, Double
  <2>3. \A k \in Components : DOMAIN hw_commands[k] = DOMAIN setup.components[k].commands
    BY DEF ValuesInv
  <2> HIDE DEF value
  <2>4. /\ DOMAIN hw_commands' = Components
        /\ \A k \in Components : hw_commands'[k] \in [DOMAIN setup.components[k].commands -> Double]
    BY <2>1, <2>2, <2>3
  <2> QED
    BY <2>1, <2>4 DEF ValuesInv, Components
<1>6. [Step]_vars => \/ UNCHANGED <<setup, hw_commands, hw_states, domain_pd>>
                     \/ ProcessData \/ Controllers \/ Receive \/ Write
  BY DEF Step, vars, SetupModule, AddSlave, ConfigSlaveSdo, NextSlaveSdos, Activate, NextEntry, Send
<1> QED
  BY <1>1, <1>2, <1>3, <1>4, <1>5, <1>6

\* The invariants imply the type invariant.
LEMMA TypeOfInvariants == IInv /\ ValuesInv => TypeOK
<1> SUFFICES ASSUME IInv, ValuesInv
             PROVE  TypeOK
  OBVIOUS
<1>1. /\ setup \in Setups /\ DOMAIN setup.modules = 1..Len(setup.modules)
      /\ IsSequence(ec_modules_) /\ DOMAIN ec_modules_ = 1..Len(ec_modules_)
      /\ DOMAIN entries = 1..Len(entries)
  BY Configured, SequenceShape, EntriesThere DEF IInv, PluginsInv
<1>2. /\ phase \in {"on_init", "add", "sdo", "activate", "receive", "process", "send",
                    "controllers", "write", "error", "terminated"}
      /\ pass \in {"none", "update", "read", "write"}
      /\ phase \in {"receive", "process", "send"} => pass # "none"
  BY DEF IInv, CountersInv, Running
<1>3. at \in CASE phase = "on_init"        -> Modules
               [] phase \in {"add", "sdo"} -> DOMAIN ec_modules_
               [] phase = "process"        -> DOMAIN entries
               [] OTHER                    -> Nat
  BY <1>1 DEF IInv, CountersInv, Modules
<1>4. inner \in CASE phase = "sdo"     -> 1..(Len(ec_modules_[at].sdo_config) + 1)
                  [] phase = "process" -> 1..(entries[at].num_pdos + 1)
                  [] OTHER             -> Nat
  <2>1. phase = "sdo" => ec_modules_[at] = Plugin(setup, at)
    BY DEF IInv, CountersInv, PluginsInv
  <2> QED
    BY <2>1 DEF IInv, CountersInv
<1>5. ASSUME NEW e \in DOMAIN entries
      PROVE  entries[e].offset \in
               [1..entries[e].num_pdos -> IF pass = "none" THEN {Unset} ELSE Nat]
  <2>1. entries[e].offset \in [1..entries[e].num_pdos -> Nat \cup {Unset}]
    BY <1>1 DEF IInv, EntriesInv
  <2>2. \A j \in 1..entries[e].num_pdos :
          IF pass = "none" THEN entries[e].offset[j] = Unset ELSE entries[e].offset[j] \in Nat
    <3> SUFFICES ASSUME NEW j \in 1..entries[e].num_pdos
                 PROVE  IF pass = "none" THEN entries[e].offset[j] = Unset
                                         ELSE entries[e].offset[j] \in Nat
      OBVIOUS
    <3>1. CASE pass = "none"
      BY <1>1, <3>1 DEF IInv, EntriesInv
    <3>2. CASE pass # "none"
      <4>1. /\ entries[e].offset[j]
                 = DeclaredByte(setup, entries[e].slave, ChannelOf(setup, entries[e].slave, j))
            /\ DeclaredByte(setup, entries[e].slave, ChannelOf(setup, entries[e].slave, j)) \in Nat
        BY <1>1, <3>2, ProcessedObject
      <4> QED
        BY <3>2, <4>1
    <3> QED
      BY <3>1, <3>2
  <2> QED
    BY <2>1, <2>2
<1>6. Len(ec_modules_) <= Len(setup.modules)
  BY DEF IInv, PluginsInv
<1> QED
  BY <1>1, <1>2, <1>3, <1>4, <1>5, <1>6 DEF TypeOK, ValuesInv

\* The driver's data always has its types.
THEOREM TypeHolds == Spec => []TypeOK
<1>1. Init => ValuesInv
  BY InitValues
<1>2. IInv /\ ValuesInv /\ [Step]_vars => ValuesInv'
  BY ValuesKept
<1>3. IInv /\ ValuesInv => TypeOK
  BY TypeOfInvariants
<1> QED
  BY <1>1, <1>2, <1>3, MappingHolds, PTL DEF Spec

-----------------------------------------------------------------------------
(***************************************************************************)
(* A call of processData in the terms of SlaveObjects                      *)
(***************************************************************************)

\* The bits of an object in some process data.
ObjectIn(s, o, data) ==
  LET place == Declared[s][o] IN {b \in DOMAIN place : place[b] \in data}

IsOutput(s, o) == o[2] <= Len(s.modules[o[1]].config.rpdo)

Refused(s, o) == s.modules[o[1]].refused

\* What the abstract specification says of an object in the terms of the driver.
LEMMA AbstractTerms ==
  ASSUME NEW o
  PROVE  /\ Abstract!Channel(o[1], o[2]) = EntryOf(setup, o)
         /\ Abstract!IsOutput(o[1], o[2]) <=> IsOutput(setup, o)
         /\ Abstract!Component(o[1]) = setup.modules[o[1]].component
         /\ \A s : Abstract!ToSet(s) = ToSet(s)
         /\ \A pdo : Abstract!Sign(o[1], EntryOf(setup, o))
              = Multiplier(pdo, EntryOf(setup, o).interface,
                           setup.components[setup.modules[o[1]].component].right)
<1>1. \A s : Abstract!ToSet(s) = ToSet(s)
  BY DEF Abstract!ToSet, ToSet
<1>2. Abstract!Channel(o[1], o[2]) = EntryOf(setup, o)
  BY DEF Abstract!Channel, Abstract!Declared, EntryOf, AllChannels
<1>3. Abstract!IsOutput(o[1], o[2]) <=> IsOutput(setup, o)
  BY DEF Abstract!IsOutput, IsOutput
<1>4. Abstract!Component(o[1]) = setup.modules[o[1]].component
  BY DEF Abstract!Component
<1>5. \A pdo : Abstract!Sign(o[1], EntryOf(setup, o))
              = Multiplier(pdo, EntryOf(setup, o).interface,
                           setup.components[setup.modules[o[1]].component].right)
  BY <1>4 DEF Abstract!Sign, Multiplier
<1> QED
  BY <1>1, <1>2, <1>3, <1>4, <1>5

\* An object of a slave the master did not take has no bits.
LEMMA ObjectInBits ==
  ASSUME NEW s \in Setups, NEW o, IsObject(s, o), NEW data
  PROVE  /\ Refused(s, o) => ObjectIn(s, o, data) = {}
         /\ ~Refused(s, o) =>
              ObjectIn(s, o, data) = BitsOf(EntryOf(s, o), DeclaredByte(s, o[1], o[2]), data)
<1>1. Declared[s][o] = IF Refused(s, o) THEN <<>>
                       ELSE [b \in ObjectBit(EntryOf(s, o)) |->
                               DeclaredByte(s, o[1], o[2]) * ByteBits + b]
  BY DEF Declared, IsObject, Refused, EntryOf
<1>2. DOMAIN <<>> = {}
  OBVIOUS
<1>3. CASE Refused(s, o)
  BY <1>1, <1>2, <1>3 DEF ObjectIn
<1>4. CASE ~Refused(s, o)
  BY <1>1, <1>4 DEF ObjectIn, BitsOf
<1> QED
  BY <1>3, <1>4

\* What leaves all bits outside of what a write of an object replaces alone
\* leaves the other objects alone.
LEMMA OthersKept ==
  ASSUME NEW s \in Setups, NEW o, NEW r, IsObject(s, o), IsObject(s, r), o # r,
         ~Refused(s, o), NEW old, NEW data,
         \A n : (\A b \in Footprint(EntryOf(s, o)) :
                   n # DeclaredByte(s, o[1], o[2]) * ByteBits + b)
                  => (n \in data <=> n \in old)
  PROVE  ObjectIn(s, r, data) = ObjectIn(s, r, old)
<1>1. CASE Refused(s, r)
  BY <1>1, ObjectInBits
<1>2. CASE ~Refused(s, r)
  <2>1. ASSUME NEW a \in ObjectBit(EntryOf(s, r))
        PROVE  DeclaredByte(s, r[1], r[2]) * ByteBits + a \in data
                 <=> DeclaredByte(s, r[1], r[2]) * ByteBits + a \in old
    <3>1. \A b \in Footprint(EntryOf(s, o)) :
            DeclaredByte(s, r[1], r[2]) * ByteBits + a # DeclaredByte(s, o[1], o[2]) * ByteBits + b
      BY <1>2, ObjectsApart DEF Refused
    <3> QED
      BY <3>1
  <2>2. BitsOf(EntryOf(s, r), DeclaredByte(s, r[1], r[2]), data)
          = BitsOf(EntryOf(s, r), DeclaredByte(s, r[1], r[2]), old)
    BY <2>1 DEF BitsOf
  <2> QED
    BY <1>2, <2>2, ObjectInBits
<1> QED
  BY <1>1, <1>2

\* The interface an output takes its value from, by name and by index.
LEMMA CommandOf ==
  ASSUME IInv, ValuesInv, NEW k \in Components, NEW name
  PROVE  LET names == setup.components[k].commands
             index == InterfaceIndex(names, name)
         IN  /\ name \in ToSet(names) <=> index # -1
             /\ name \in ToSet(names) =>
                  /\ export_command_interfaces[k][name] = hw_commands[k][index]
                  /\ hw_commands[k][index] \in Double
<1>1. setup.components[k] \in ComponentType
  BY Configured DEF IInv, PluginsInv, Components
<1>2. setup.components[k].commands \in Seq(STRING)
  BY <1>1 DEF ComponentType
<1>3. hw_commands[k] \in [DOMAIN setup.components[k].commands -> Double]
  BY DEF ValuesInv
<1> QED
  BY <1>2, <1>3, IndexOfName DEF export_command_interfaces, ByName

\* processData writes what the abstract specification wants.
LEMMA WantedIsWritten ==
  ASSUME IInv, ValuesInv, NEW o, IsObject(setup, o),
         NEW k \in Components, k = setup.modules[o[1]].component
  PROVE  ValueToWrite(PdoChannel(EntryOf(setup, o), "RPDO", setup.components[k]), k)
           = Abstract!Wanted(o[1], o[2])
<1> DEFINE entry == EntryOf(setup, o)
           names == setup.components[k].commands
           index == InterfaceIndex(names, entry.interface)
           sign == Multiplier("RPDO", entry.interface, setup.components[k].right)
<1>1. ValueToWrite(PdoChannel(entry, "RPDO", setup.components[k]), k)
        = IF index # -1 /\ hw_commands[k][index] # NaN
            THEN entry.factor * sign * hw_commands[k][index] + entry.offset
            ELSE entry.default
  BY DEF ValueToWrite, PdoChannel
<1>2. /\ entry.interface \in ToSet(names) <=> index # -1
      /\ entry.interface \in ToSet(names) =>
           export_command_interfaces[k][entry.interface] = hw_commands[k][index]
  BY CommandOf
<1>3. Abstract!Wanted(o[1], o[2])
        = IF entry.interface \in ToSet(names) /\ export_command_interfaces[k][entry.interface] # NaN
            THEN entry.factor * sign * export_command_interfaces[k][entry.interface] + entry.offset
            ELSE entry.default
  <2>1. /\ Abstract!Channel(o[1], o[2]) = entry /\ Abstract!Component(o[1]) = k
        /\ Abstract!Sign(o[1], entry) = sign
        /\ Abstract!CommandNames(k) = ToSet(names)
    BY AbstractTerms DEF Abstract!CommandNames
  <2> HIDE DEF entry, names, sign
  <2> QED
    BY <2>1 DEF Abstract!Wanted
<1> QED
  BY <1>1, <1>2, <1>3

\* processData reads what the abstract specification decodes.
LEMMA DecodedIsRead ==
  ASSUME NEW s \in Setups, setup = s, NEW o, IsObject(s, o), ~Refused(s, o)
  PROVE  LET entry == EntryOf(s, o)
             k == s.modules[o[1]].component
         IN  Multiplier("TPDO", entry.interface, s.components[k].right)
               * ec_read(entry, DeclaredByte(s, o[1], o[2]))
             = Abstract!Decoded(o[1], entry, ObjectIn(s, o, domain_pd))
<1> DEFINE entry == EntryOf(s, o)
           type == entry.type
           D == DeclaredByte(s, o[1], o[2])
           bits == BitsOf(entry, D, domain_pd)
           byte == BitsAt(D, ByteBits)
<1>1. entry \in EntryType /\ type \in DataType /\ entry.mask \subseteq 0..(ByteBits - 1)
  BY ObjectOf DEF EntryType
<1>2. ObjectIn(s, o, domain_pd) = bits
  BY ObjectInBits
<1>3. IsInteger(type) => BitsAt(D, type.bits) = bits
  BY DEF BitsAt, BitsOf, ObjectBit
<1>4. ~IsInteger(type) => byte \cap entry.mask = bits
  BY <1>1 DEF BitsAt, BitsOf, ObjectBit
<1> HIDE DEF bits
<1>5. IsInteger(type) \/ type.kind = "bool" \/ type.kind = "bit"
  BY <1>1 DEF DataType, IsInteger
<1> DEFINE raw == CASE IsInteger(type)     -> Number(bits, type)
                    [] type.kind = "bool"  -> IF bits # {} THEN 1 ELSE 0
                    [] OTHER               -> Unsigned(bits, ByteBits)
<1>6. Abstract!Decoded(o[1], entry, bits)
        = Abstract!Sign(o[1], entry) * (entry.factor * raw * Resolution + entry.offset)
  BY SameNumbers DEF Abstract!Decoded, Abstract!IsInteger, IsInteger
<1>7. ec_read(entry, D) = entry.factor * raw * Resolution + entry.offset
  <2>1. CASE IsInteger(type)
    BY <1>3, <2>1 DEF ec_read, IsInteger
  <2>2. CASE type.kind = "bool"
    BY <1>4, <2>2 DEF ec_read, IsInteger
  <2>3. CASE type.kind = "bit"
    BY <1>4, <2>3 DEF ec_read, IsInteger
  <2> QED
    BY <1>5, <2>1, <2>2, <2>3
<1>8. Abstract!Sign(o[1], entry)
        = Multiplier("TPDO", entry.interface, s.components[s.modules[o[1]].component].right)
  BY AbstractTerms
<1> QED
  BY <1>2, <1>6, <1>7, <1>8

\* The object of the next call of processData.
Current == <<entries[at].slave, ChannelOf(setup, entries[at].slave, inner)>>

\* A call of processData exchanges one object with one interface.
LEMMA ProcessDataEffect ==
  ASSUME IInv, ValuesInv, ProcessData
  PROVE  LET o == Current
             k == setup.modules[o[1]].component
             entry == EntryOf(setup, o)
             value == Abstract!Wanted(o[1], o[2])
             index == InterfaceIndex(setup.components[k].states, entry.interface)
         IN  /\ IsObject(setup, o) /\ ~Refused(setup, o) /\ k \in Components
             /\ UNCHANGED <<setup, hw_commands>>
             /\ IsOutput(setup, o) =>
                  /\ UNCHANGED hw_states
                  /\ value = NaN => UNCHANGED domain_pd
                  /\ value # NaN =>
                       ObjectIn(setup, o, domain_pd') \in Abstract!Encodings(entry, value)
                  /\ \A r : IsObject(setup, r) /\ r # o =>
                       ObjectIn(setup, r, domain_pd') = ObjectIn(setup, r, domain_pd)
             /\ ~IsOutput(setup, o) =>
                  /\ UNCHANGED domain_pd
                  /\ hw_states' = IF index = -1 THEN hw_states
                                  ELSE [hw_states EXCEPT ![k][index] =
                                          Abstract!Decoded(o[1], entry, ObjectIn(setup, o, domain_pd))]
<1> DEFINE m == entries[at].slave
           c == ChannelOf(setup, m, inner)
           o == Current
           k == setup.modules[o[1]].component
           entry == EntryOf(setup, o)
           pdo_type == IF IsOutput(setup, o) THEN "RPDO" ELSE "TPDO"
           ch == ProcessedChannel(m, inner)
           D == DeclaredByte(setup, o[1], o[2])
           value == Abstract!Wanted(o[1], o[2])
           index == InterfaceIndex(setup.components[k].states, entry.interface)
<1>1. pass # "none" /\ at \in 1..Len(entries) /\ inner \in 1..entries[at].num_pdos
  <2>1. /\ phase = "process" /\ inner <= entries[at].num_pdos
        /\ pass # "none" /\ at \in 1..Len(entries) /\ inner \in 1..(entries[at].num_pdos + 1)
    BY DEF ProcessData, IInv, CountersInv, Running
  <2>2. entries[at].num_pdos \in Nat
    BY <2>1, EntriesThere
  <2> QED
    BY <2>1, <2>2
<1>2. o = <<m, c>> /\ o[1] = m /\ o[2] = c
  BY DEF Current
<1>3. /\ setup \in Setups /\ IsObject(setup, o) /\ ~Refused(setup, o)
      /\ k \in Components /\ entry \in EntryType
      /\ ~IsInteger(entry.type) => entry.mask # {}
      /\ ch = PdoChannel(entry, pdo_type, setup.components[k])
      /\ entries[at].offset[inner] = D /\ D \in Nat
  BY <1>1, <1>2, ProcessedObject DEF Refused, IsOutput, EntryOf
<1>4. UNCHANGED <<setup, hw_commands>> /\ ec_update(ch, k, D)
  BY <1>2, <1>3 DEF ProcessData
<1> HIDE DEF m, c, o, k, entry, ch, D, value, index
<1>5. ASSUME IsOutput(setup, o)
      PROVE  /\ UNCHANGED hw_states
             /\ value = NaN => UNCHANGED domain_pd
             /\ value # NaN =>
                  ObjectIn(setup, o, domain_pd') \in Abstract!Encodings(entry, value)
             /\ \A r : IsObject(setup, r) /\ r # o =>
                  ObjectIn(setup, r, domain_pd') = ObjectIn(setup, r, domain_pd)
  <2>1. ch = PdoChannel(entry, "RPDO", setup.components[k])
        /\ ch.pdo_type = "RPDO" /\ ch.config = entry
    BY <1>3, <1>5 DEF PdoChannel
  <2>2. ValueToWrite(ch, k) = value
    BY <1>3, <2>1, WantedIsWritten DEF entry, value, k
  <2>3. /\ UNCHANGED hw_states
        /\ value = NaN => UNCHANGED domain_pd
        /\ value # NaN => domain_pd' \in ec_write(entry, D, value)
    BY <1>4, <2>1, <2>2 DEF ec_update
  <2>4. CASE value = NaN
    BY <2>3, <2>4
  <2>5. CASE value # NaN
    <3>1. /\ BitsOf(entry, D, domain_pd') \in Abstract!Encodings(entry, value)
          /\ \A n : (\A b \in Footprint(entry) : n # D * ByteBits + b) =>
               (n \in domain_pd' <=> n \in domain_pd)
      BY <1>3, <2>3, <2>5, WriteEffect
    <3>2. ObjectIn(setup, o, domain_pd') = BitsOf(entry, D, domain_pd')
      BY <1>3, ObjectInBits DEF entry, D
    <3>3. ASSUME NEW r, IsObject(setup, r), r # o
          PROVE  ObjectIn(setup, r, domain_pd') = ObjectIn(setup, r, domain_pd)
      BY <1>3, <3>1, <3>3, OthersKept DEF entry, D
    <3> QED
      BY <2>3, <2>5, <3>1, <3>2, <3>3
  <2> QED
    BY <2>4, <2>5
<1>6. ASSUME ~IsOutput(setup, o)
      PROVE  /\ UNCHANGED domain_pd
             /\ hw_states' = IF index = -1 THEN hw_states
                             ELSE [hw_states EXCEPT ![k][index] =
                                     Abstract!Decoded(o[1], entry, ObjectIn(setup, o, domain_pd))]
  <2>1. /\ ch.pdo_type = "TPDO" /\ ch.config = entry
        /\ ch.interface_index = index
        /\ ch.multiplier = Multiplier("TPDO", entry.interface, setup.components[k].right)
    BY <1>3, <1>6 DEF PdoChannel, index
  <2>2. ch.multiplier * ec_read(entry, D)
          = Abstract!Decoded(o[1], entry, ObjectIn(setup, o, domain_pd))
    BY <1>3, <2>1, DecodedIsRead DEF entry, D, k
  <2> QED
    BY <1>4, <2>1, <2>2 DEF ec_update
<1> QED
  BY <1>3, <1>4, <1>5, <1>6 DEF o, k, entry, value, index

\* The abstract variables.
Exchanged(s, data) == [o \in ConfiguredObjects[s] |-> ObjectIn(s, o, data)]

\* The abstract objects are what the process data holds of them.
LEMMA AbstractVariables ==
  /\ [o \in ConfiguredObjects[setup] |-> ObjectBits(o)] = Exchanged(setup, domain_pd)
  /\ [o \in ConfiguredObjects[setup'] |-> ObjectBits(o)'] = Exchanged(setup', domain_pd')
BY DEF ObjectBits, ObjectIn, Exchanged

\* Both specifications have the same objects.
LEMMA AbstractObjects == setup \in Setups => Abstract!Objects = ConfiguredObjects[setup]
<1> SUFFICES ASSUME setup \in Setups
             PROVE  Abstract!Objects = ConfiguredObjects[setup]
  OBVIOUS
<1>1. Abstract!Objects =
        {o \in UNION {{m} \X DOMAIN AllChannels(setup.modules[m].config) : m \in DOMAIN setup.modules} :
           AllChannels(setup.modules[o[1]].config)[o[2]].object # 0}
  BY DEF Abstract!Objects, Abstract!Declared, Abstract!IsGap, Abstract!Channel, AllChannels
<1> QED
  BY <1>1 DEF ConfiguredObjects

\* A step that changes neither the interfaces nor the objects.
LEMMA Stutters ==
  UNCHANGED <<setup, hw_commands, hw_states, domain_pd>> => UNCHANGED Abstract!vars
BY AbstractVariables
DEF Abstract!vars, export_command_interfaces, export_state_interfaces, Components

-----------------------------------------------------------------------------
(***************************************************************************)
(* The driver implements SlaveObjects                                      *)
(***************************************************************************)

\* What the controllers see depends on the interface vectors only.
LEMMA ExportedStates ==
  ASSUME IInv, NEW k \in Components, NEW name \in ToSet(setup.components[k].states)
  PROVE  /\ InterfaceIndex(setup.components[k].states, name) \in DOMAIN setup.components[k].states
         /\ setup.components[k].states[InterfaceIndex(setup.components[k].states, name)] = name
         /\ InterfaceIndex(setup.components[k].states, name) # -1
         /\ export_state_interfaces[k][name]
              = hw_states[k][InterfaceIndex(setup.components[k].states, name)]
<1>1. setup.components[k] \in ComponentType
  BY Configured DEF IInv, PluginsInv, Components
<1>2. setup.components[k].states \in Seq(STRING)
  BY <1>1 DEF ComponentType
<1> QED
  BY <1>2, IndexOfName DEF export_state_interfaces, ByName

\* A call for an output is the abstract step in which its object takes its value.
LEMMA OutputRefines ==
  ASSUME IInv, ValuesInv, ProcessData, IsOutput(setup, Current)
  PROVE  Abstract!TakeCommand(Current[1], Current[2]) \/ UNCHANGED Abstract!vars
<1> DEFINE o == Current
           value == Abstract!Wanted(o[1], o[2])
<1>1. /\ setup \in Setups /\ IsObject(setup, o) /\ UNCHANGED <<setup, hw_commands, hw_states>>
      /\ value = NaN => UNCHANGED domain_pd
      /\ value # NaN =>
           ObjectIn(setup, o, domain_pd') \in Abstract!Encodings(EntryOf(setup, o), value)
      /\ \A r : IsObject(setup, r) /\ r # o =>
           ObjectIn(setup, r, domain_pd') = ObjectIn(setup, r, domain_pd)
  BY ProcessDataEffect DEF IInv, PluginsInv
<1>2. o = <<o[1], o[2]>>
  BY DEF Current
<1> HIDE DEF o
<1>3. CASE value = NaN
  BY <1>1, <1>3, Stutters
<1>4. CASE value # NaN
  <2>1. Abstract!IsOutput(o[1], o[2]) /\ Abstract!Channel(o[1], o[2]) = EntryOf(setup, o)
    BY AbstractTerms DEF o
  <2>2. Exchanged(setup, domain_pd')
          = [Exchanged(setup, domain_pd) EXCEPT ![o] = ObjectIn(setup, o, domain_pd')]
    BY <1>1 DEF Exchanged, IsObject
  <2>3. UNCHANGED <<setup, export_command_interfaces, export_state_interfaces>>
    BY <1>1 DEF export_command_interfaces, export_state_interfaces, Components
  <2> HIDE DEF value
  <2>4. Abstract!TakeCommand(o[1], o[2])
    BY <1>1, <1>2, <1>4, <2>1, <2>2, <2>3, AbstractVariables DEF Abstract!TakeCommand, value
  <2> QED
    BY <2>4 DEF o
<1> QED
  BY <1>3, <1>4

\* A call for an input is the abstract step in which its interface takes what the
\* object holds.
LEMMA InputRefines ==
  ASSUME IInv, ValuesInv, ProcessData, ~IsOutput(setup, Current)
  PROVE  Abstract!ShowState(Current[1], Current[2]) \/ UNCHANGED Abstract!vars
<1> DEFINE o == Current
           k == setup.modules[o[1]].component
           entry == EntryOf(setup, o)
           names == setup.components[k].states
           index == InterfaceIndex(names, entry.interface)
           decoded == Abstract!Decoded(o[1], entry, ObjectIn(setup, o, domain_pd))
<1>1. /\ setup \in Setups /\ IsObject(setup, o) /\ UNCHANGED <<setup, hw_commands, domain_pd>>
      /\ k \in Components
      /\ hw_states' = IF index = -1 THEN hw_states ELSE [hw_states EXCEPT ![k][index] = decoded]
  BY ProcessDataEffect DEF IInv, PluginsInv
<1>2. o = <<o[1], o[2]>>
  BY DEF Current
<1>3. names \in Seq(STRING)
  <2>1. setup.components[k] \in ComponentType
    BY <1>1, Configured DEF Components
  <2> QED
    BY <2>1 DEF ComponentType
<1>4. /\ Abstract!Channel(o[1], o[2]) = entry /\ Abstract!Component(o[1]) = k
      /\ ~Abstract!IsOutput(o[1], o[2]) /\ Abstract!StateNames(k) = ToSet(names)
  BY AbstractTerms DEF Abstract!StateNames
<1>5. [r \in ConfiguredObjects[setup] |-> ObjectBits(r)][<<o[1], o[2]>>]
        = ObjectIn(setup, o, domain_pd)
  BY <1>1, <1>2 DEF ObjectBits, ObjectIn, IsObject
<1>6. UNCHANGED <<setup, export_command_interfaces, [r \in ConfiguredObjects[setup] |-> ObjectBits(r)]>>
  BY <1>1, AbstractVariables DEF export_command_interfaces, Components
<1> HIDE DEF o, entry, decoded
<1>7. CASE index = -1
  BY <1>1, <1>7, Stutters
<1>8. CASE index # -1
  <2>1. entry.interface \in ToSet(names) /\ index \in DOMAIN names
    BY <1>3, <1>8, IndexOfName
  <2>2. /\ DOMAIN hw_states = Components
        /\ \A j \in Components : DOMAIN hw_states[j] = DOMAIN setup.components[j].states
    BY DEF ValuesInv
  <2>3. /\ DOMAIN hw_states' = Components
        /\ \A j \in Components : \A x \in DOMAIN setup.components[j].states :
             hw_states'[j][x] = IF j = k /\ x = index THEN decoded ELSE hw_states[j][x]
    BY <1>1, <1>8, <2>1, <2>2
  <2>4. ASSUME NEW j \in Components, NEW name \in ToSet(setup.components[j].states)
        PROVE  hw_states'[j][InterfaceIndex(setup.components[j].states, name)]
                 = IF j = k /\ name = entry.interface THEN decoded
                   ELSE hw_states[j][InterfaceIndex(setup.components[j].states, name)]
    <3> DEFINE x == InterfaceIndex(setup.components[j].states, name)
    <3>1. x \in DOMAIN setup.components[j].states /\ setup.components[j].states[x] = name
      BY ExportedStates
    <3>2. names[index] = entry.interface
      BY <1>3, <2>1, IndexOfName
    <3>3. j = k => (x = index <=> name = entry.interface)
      BY <3>1, <3>2
    <3> HIDE DEF x, index, names
    <3>4. hw_states'[j][x] = IF j = k /\ name = entry.interface THEN decoded ELSE hw_states[j][x]
      BY <2>3, <3>1, <3>3
    <3> QED
      BY <3>4 DEF x
  <2>5. export_state_interfaces'
          = [export_state_interfaces EXCEPT ![k][entry.interface] = decoded]
    <3> DEFINE shown(j, values) == ByName(setup.components[j].states, values[j])
    <3>1. ASSUME NEW j \in Components
          PROVE  shown(j, hw_states')
                   = IF j = k THEN [shown(j, hw_states) EXCEPT ![entry.interface] = decoded]
                     ELSE shown(j, hw_states)
      BY <2>1, <2>4 DEF ByName
    <3>2. /\ export_state_interfaces = [j \in Components |-> shown(j, hw_states)]
          /\ export_state_interfaces' = [j \in Components |-> shown(j, hw_states')]
      BY <1>1 DEF export_state_interfaces, Components
    <3> HIDE DEF shown
    <3> QED
      BY <1>1, <3>1, <3>2
  <2>6. Abstract!ShowState(o[1], o[2])
    BY <1>4, <1>5, <1>6, <2>1, <2>5 DEF Abstract!ShowState, decoded
  <2> QED
    BY <2>6 DEF o
<1> QED
  BY <1>7, <1>8

\* What the slaves send changes no output.
LEMMA ReceiveRefines ==
  ASSUME IInv, Receive
  PROVE  Abstract!Measure
<1>1. /\ setup \in Setups /\ UNCHANGED <<setup, hw_commands, hw_states>>
      /\ \A n : OutputBit(setup, n) => (n \in domain_pd' <=> n \in domain_pd)
  BY ReceiveBits DEF IInv, PluginsInv, Receive
<1>2. ASSUME NEW o, IsObject(setup, o), IsOutput(setup, o)
      PROVE  ObjectIn(setup, o, domain_pd') = ObjectIn(setup, o, domain_pd)
  <2>1. \A b \in DOMAIN Declared[setup][o] : OutputBit(setup, Declared[setup][o][b])
    BY <1>2 DEF OutputBit, IsObject, IsOutput
  <2> QED
    BY <1>1, <2>1 DEF ObjectIn
<1>3. \A o : Abstract!IsOutput(o[1], o[2]) <=> IsOutput(setup, o)
  BY AbstractTerms
<1>4. \A o \in ConfiguredObjects[setup] : Abstract!IsOutput(o[1], o[2]) =>
        Exchanged(setup, domain_pd')[o] = Exchanged(setup, domain_pd)[o]
  BY <1>2, <1>3 DEF Exchanged, IsObject
<1>5. /\ DOMAIN Exchanged(setup, domain_pd) = ConfiguredObjects[setup]
      /\ DOMAIN Exchanged(setup, domain_pd') = ConfiguredObjects[setup]
  BY DEF Exchanged
<1>6. UNCHANGED <<setup, export_command_interfaces, export_state_interfaces>>
  BY <1>1 DEF export_command_interfaces, export_state_interfaces, Components
<1> QED
  BY <1>1, <1>4, <1>5, <1>6, AbstractVariables DEF Abstract!Measure

\* An unchanged process data is unchanged objects.
LEMMA SameObjects ==
  UNCHANGED <<setup, hw_states, domain_pd>> =>
    UNCHANGED <<setup, export_state_interfaces, [o \in ConfiguredObjects[setup] |-> ObjectBits(o)]>>
BY AbstractVariables DEF export_state_interfaces, Components

\* What the controllers write by index they write by name.
LEMMA ControllersRefine ==
  ASSUME IInv, ValuesInv, Controllers
  PROVE  Abstract!Control
<1>1. UNCHANGED <<setup, hw_states, domain_pd>>
  BY DEF Controllers
<1>2. ASSUME NEW k \in Components, NEW name \in ToSet(setup.components[k].commands)
      PROVE  export_command_interfaces'[k][name]
               \in CommandValues[name] \cup {export_command_interfaces[k][name]}
  <2> DEFINE names == setup.components[k].commands
             index == InterfaceIndex(names, name)
  <2>1. names \in Seq(STRING)
    <3>1. setup.components[k] \in ComponentType
      BY Configured DEF IInv, PluginsInv, Components
    <3> QED
      BY <3>1 DEF ComponentType
  <2>2. index \in DOMAIN names /\ names[index] = name
    BY <2>1, IndexOfName
  <2>3. /\ export_command_interfaces[k][name] = hw_commands[k][index]
        /\ export_command_interfaces'[k][name] = hw_commands'[k][index]
    BY <1>1 DEF export_command_interfaces, ByName, Components
  <2>4. hw_commands'[k][index] = hw_commands[k][index] \/ hw_commands'[k][index] \in CommandValues[name]
    <3>1. CASE UNCHANGED hw_commands
      BY <3>1
    <3>2. CASE \E j \in Components : \E x \in DOMAIN hw_commands[j] :
                 \E value \in CommandValues[setup.components[j].commands[x]] :
                   hw_commands' = [hw_commands EXCEPT ![j][x] = value]
      <4>1. PICK j \in Components : \E x \in DOMAIN hw_commands[j] :
                 \E value \in CommandValues[setup.components[j].commands[x]] :
                   hw_commands' = [hw_commands EXCEPT ![j][x] = value]
        BY <3>2
      <4>2. PICK x \in DOMAIN hw_commands[j] :
                 \E value \in CommandValues[setup.components[j].commands[x]] :
                   hw_commands' = [hw_commands EXCEPT ![j][x] = value]
        BY <4>1
      <4>3. PICK value \in CommandValues[setup.components[j].commands[x]] :
                   hw_commands' = [hw_commands EXCEPT ![j][x] = value]
        BY <4>2
      <4>4. DOMAIN hw_commands = Components /\ DOMAIN hw_commands[k] = DOMAIN names
        BY DEF ValuesInv
      <4>5. hw_commands'[k][index]
              = IF j = k /\ x = index THEN value ELSE hw_commands[k][index]
        BY <2>2, <4>3, <4>4
      <4>6. j = k /\ x = index => value \in CommandValues[name]
        BY <2>2, <4>3
      <4> QED
        BY <4>5, <4>6
    <3> QED
      BY <3>1, <3>2 DEF Controllers
  <2> QED
    BY <2>3, <2>4
<1>3. \A k \in Components : Abstract!CommandNames(k) = ToSet(setup.components[k].commands)
  BY AbstractTerms DEF Abstract!CommandNames
<1> QED
  BY <1>1, <1>2, <1>3, SameObjects DEF Abstract!Control, Abstract!Components, Components

\* A joint without a command is brought to rest under every name.
LEMMA WriteRefines ==
  ASSUME IInv, ValuesInv, Write
  PROVE  Abstract!Rest
<1> DEFINE rest(k, value) == IF setup.components[k].joint /\ value = NaN THEN 0 ELSE value
<1>1. /\ UNCHANGED <<setup, hw_states, domain_pd>>
      /\ hw_commands' = [k \in Components |-> [x \in DOMAIN hw_commands[k] |->
                           rest(k, hw_commands[k][x])]]
  BY DEF Write
<1>2. ASSUME NEW k \in Components
      PROVE  ByName(setup.components[k].commands, hw_commands'[k])
               = [n \in Abstract!CommandNames(k) |-> rest(k, export_command_interfaces[k][n])]
  <2> DEFINE names == setup.components[k].commands
  <2>1. names \in Seq(STRING)
    <3>1. setup.components[k] \in ComponentType
      BY Configured DEF IInv, PluginsInv, Components
    <3> QED
      BY <3>1 DEF ComponentType
  <2>2. Abstract!CommandNames(k) = ToSet(names)
    BY AbstractTerms DEF Abstract!CommandNames
  <2>3. DOMAIN hw_commands[k] = DOMAIN names
    BY DEF ValuesInv
  <2>4. ASSUME NEW n \in ToSet(names)
        PROVE  hw_commands'[k][InterfaceIndex(names, n)] = rest(k, export_command_interfaces[k][n])
    <3>1. InterfaceIndex(names, n) \in DOMAIN hw_commands[k]
      BY <2>1, <2>3, IndexOfName
    <3>2. export_command_interfaces[k][n] = hw_commands[k][InterfaceIndex(names, n)]
      BY DEF export_command_interfaces, ByName
    <3> HIDE DEF rest, names
    <3> QED
      BY <1>1, <3>1, <3>2
  <2> HIDE DEF rest
  <2> QED
    BY <2>2, <2>4 DEF ByName
<1>3. export_command_interfaces'
        = [k \in Components |-> ByName(setup.components[k].commands, hw_commands'[k])]
  BY <1>1 DEF export_command_interfaces, Components
<1>4. export_command_interfaces'
        = [k \in Components |-> [n \in Abstract!CommandNames(k) |->
             rest(k, export_command_interfaces[k][n])]]
  <2> HIDE DEF rest
  <2> QED
    BY <1>2, <1>3
<1>5. UNCHANGED <<setup, export_state_interfaces, [o \in ConfiguredObjects[setup] |-> ObjectBits(o)]>>
  BY <1>1, SameObjects
<1> QED
  BY <1>4, <1>5 DEF Abstract!Rest, Abstract!Components, Components

\* The driver begins as the abstract specification does.
LEMMA InitRefines == Init => Abstract!Initially
<1> SUFFICES ASSUME Init
             PROVE  Abstract!Initially
  OBVIOUS
<1> DEFINE first(k, n) == IF setup.components[k].joint /\ n = "position" THEN 0 ELSE NaN
<1>1. /\ setup \in Setups /\ domain_pd = {}
      /\ hw_commands = [k \in Components |-> [x \in DOMAIN setup.components[k].commands |-> NaN]]
      /\ hw_states = [k \in Components |-> [x \in DOMAIN setup.components[k].states |->
                        first(k, setup.components[k].states[x])]]
  BY DEF Init
<1>2. \A k \in Components : /\ setup.components[k].commands \in Seq(STRING)
                            /\ setup.components[k].states \in Seq(STRING)
  <2>1. \A k \in Components : setup.components[k] \in ComponentType
    BY <1>1, Configured DEF Components
  <2> QED
    BY <2>1 DEF ComponentType
<1>3. ASSUME NEW k \in Components
      PROVE  /\ ByName(setup.components[k].commands, hw_commands[k])
                  = [n \in Abstract!CommandNames(k) |-> NaN]
             /\ ByName(setup.components[k].states, hw_states[k])
                  = [n \in Abstract!StateNames(k) |-> first(k, n)]
  <2> DEFINE commands == setup.components[k].commands
             states == setup.components[k].states
  <2>1. Abstract!CommandNames(k) = ToSet(commands) /\ Abstract!StateNames(k) = ToSet(states)
    BY AbstractTerms DEF Abstract!CommandNames, Abstract!StateNames
  <2> HIDE DEF first
  <2>2. \A n \in ToSet(commands) : hw_commands[k][InterfaceIndex(commands, n)] = NaN
    BY <1>1, <1>2, IndexOfName
  <2>3. \A n \in ToSet(states) : hw_states[k][InterfaceIndex(states, n)] = first(k, n)
    <3> SUFFICES ASSUME NEW n \in ToSet(states)
                 PROVE  hw_states[k][InterfaceIndex(states, n)] = first(k, n)
      OBVIOUS
    <3>1. InterfaceIndex(states, n) \in DOMAIN states /\ states[InterfaceIndex(states, n)] = n
      BY <1>2, IndexOfName
    <3> QED
      BY <1>1, <3>1
  <2> QED
    BY <2>1, <2>2, <2>3 DEF ByName
<1>4. Exchanged(setup, domain_pd) = [o \in Abstract!Objects |-> {}]
  BY <1>1, AbstractObjects DEF Exchanged, ObjectIn
<1>5. export_command_interfaces = [k \in Components |-> [n \in Abstract!CommandNames(k) |-> NaN]]
  BY <1>3 DEF export_command_interfaces
<1>6. export_state_interfaces = [k \in Components |-> [n \in Abstract!StateNames(k) |-> first(k, n)]]
  <2> HIDE DEF first
  <2> QED
    BY <1>3 DEF export_state_interfaces
<1> QED
  BY <1>4, <1>5, <1>6, AbstractVariables DEF Abstract!Initially, Abstract!Components, Components

\* Every step of the driver is one of the abstract specification, or none.
LEMMA StepRefines == IInv /\ ValuesInv /\ [Step]_vars => [Abstract!Next]_(Abstract!vars)
<1> SUFFICES ASSUME IInv, ValuesInv, [Step]_vars
             PROVE  [Abstract!Next]_(Abstract!vars)
  OBVIOUS
<1>1. CASE UNCHANGED <<setup, hw_commands, hw_states, domain_pd>>
  BY <1>1, Stutters
<1>2. CASE ProcessData
  <2>1. Current \in Abstract!Objects
    BY <1>2, ProcessDataEffect, AbstractObjects DEF IInv, PluginsInv, IsObject
  <2>2. \/ Abstract!TakeCommand(Current[1], Current[2])
        \/ Abstract!ShowState(Current[1], Current[2])
        \/ UNCHANGED Abstract!vars
    BY <1>2, OutputRefines, InputRefines
  <2> QED
    BY <2>1, <2>2 DEF Abstract!Next
<1>3. CASE Receive
  BY <1>3, ReceiveRefines DEF Abstract!Next
<1>4. CASE Controllers
  BY <1>4, ControllersRefine DEF Abstract!Next
<1>5. CASE Write
  BY <1>5, WriteRefines DEF Abstract!Next
<1>6. [Step]_vars => \/ UNCHANGED <<setup, hw_commands, hw_states, domain_pd>>
                     \/ ProcessData \/ Controllers \/ Receive \/ Write
  BY DEF Step, vars, SetupModule, AddSlave, ConfigSlaveSdo, NextSlaveSdos, Activate, NextEntry, Send
<1> QED
  BY <1>1, <1>2, <1>3, <1>4, <1>5, <1>6

\* The interface vectors and the process data always hold numbers.
THEOREM ValuesHold == Spec => []ValuesInv
<1>1. Init => ValuesInv
  BY InitValues
<1>2. IInv /\ ValuesInv /\ [Step]_vars => ValuesInv'
  BY ValuesKept
<1> QED
  BY <1>1, <1>2, MappingHolds, PTL DEF Spec

\* The driver implements the exchange of objects with interfaces.
THEOREM ExchangesObjects == Spec => ObjectsExchanged
<1>1. Init => Abstract!Initially
  BY InitRefines
<1>2. IInv /\ ValuesInv /\ [Step]_vars => [Abstract!Next]_(Abstract!vars)
  BY StepRefines
<1> QED
  BY <1>1, <1>2, MappingHolds, ValuesHold, PTL DEF Spec, ObjectsExchanged, Abstract!Spec

-----------------------------------------------------------------------------
(***************************************************************************)
(* A pass leaves no object behind                                          *)
(***************************************************************************)

\* An output holds what the abstract specification wants of it, an interface an
\* input feeds shows what it holds.
Fresh(o) ==
  LET entry == EntryOf(setup, o)
      k == setup.modules[o[1]].component
  IN  IF IsOutput(setup, o)
        THEN Abstract!Wanted(o[1], o[2]) # NaN =>
               ObjectIn(setup, o, domain_pd)
                 \in Abstract!Encodings(entry, Abstract!Wanted(o[1], o[2]))
        ELSE entry.interface \in ToSet(setup.components[k].states) =>
               export_state_interfaces[k][entry.interface]
                 = Abstract!Decoded(o[1], entry, ObjectIn(setup, o, domain_pd))

\* The calls a pass has made are those of the entries before the counters; after
\* the last every object of a slave the master took was exchanged.
FreshInv ==
  /\ phase = "process" =>
       \A e \in 1..Len(entries) : \A j \in 1..entries[e].num_pdos :
         e < at \/ (e = at /\ j < inner) =>
           Fresh(<<entries[e].slave, ChannelOf(setup, entries[e].slave, j)>>)
  /\ phase \in {"send", "controllers"} =>
       \A o \in ConfiguredObjects[setup] : ~Refused(setup, o) => Fresh(o)

\* What is wanted of an object depends on the commands only, what it stands for on
\* nothing that changes.
LEMMA WantedKept ==
  UNCHANGED <<setup, hw_commands>> => \A m, c : Abstract!Wanted(m, c)' = Abstract!Wanted(m, c)
BY DEF Abstract!Wanted, Abstract!Channel, Abstract!Component, Abstract!CommandNames,
       Abstract!Sign, export_command_interfaces, Components

\* So does what the bits of an object stand for.
LEMMA DecodedKept ==
  UNCHANGED setup =>
    \A m, ch, bits : Abstract!Decoded(m, ch, bits)' = Abstract!Decoded(m, ch, bits)
BY DEF Abstract!Decoded, Abstract!Sign, Abstract!Component

\* What a step that changes neither the commands, nor the object, nor what is
\* shown of it leaves as it was.
LEMMA FreshKept ==
  ASSUME NEW o, UNCHANGED <<setup, hw_commands>>,
         ObjectIn(setup, o, domain_pd') = ObjectIn(setup, o, domain_pd),
         LET k == setup.modules[o[1]].component
             name == EntryOf(setup, o).interface
         IN  ~IsOutput(setup, o) /\ name \in ToSet(setup.components[k].states) =>
               export_state_interfaces'[k][name] = export_state_interfaces[k][name],
         Fresh(o)
  PROVE  Fresh(o)'
BY WantedKept, DecodedKept DEF Fresh

\* An interface is fed by one object.
LEMMA OneFeeds ==
  ASSUME NEW s \in Setups, NEW o, NEW r, IsObject(s, o), IsObject(s, r),
         ~IsOutput(s, o), ~IsOutput(s, r),
         NEW k, k = s.modules[o[1]].component, k = s.modules[r[1]].component,
         NEW name \in ToSet(s.components[k].states),
         EntryOf(s, o).interface = name, EntryOf(s, r).interface = name
  PROVE  o = r
<1> DEFINE config(x) == s.modules[x[1]].config
           place(x) == x[2] - Len(config(x).rpdo)
<1>1. ASSUME NEW x, IsObject(s, x), ~IsOutput(s, x)
      PROVE  /\ x = <<x[1], x[2]>> /\ x[1] \in DOMAIN s.modules
             /\ x[2] \in Int /\ Len(config(x).rpdo) \in Int
             /\ place(x) \in DOMAIN config(x).tpdo
             /\ EntryOf(s, x) = config(x).tpdo[place(x)]
  <2>1. /\ x = <<x[1], x[2]>> /\ x[1] \in DOMAIN s.modules
        /\ config(x) \in ConfigType /\ x[2] \in DOMAIN AllChannels(config(x))
    BY <1>1, ObjectOf
  <2>2. DirectionOf(config(x), x[2]) = "tpdo" /\ PlaceOf(config(x), x[2]) = place(x)
    BY <1>1 DEF IsOutput, DirectionOf, PlaceOf
  <2> DEFINE g == config(x)
  <2>3. g \in ConfigType /\ x[2] \in DOMAIN AllChannels(g)
    BY <2>1
  <2>4. DirectionOf(g, x[2]) = "tpdo" /\ PlaceOf(g, x[2]) = place(x)
    BY <2>2
  <2> HIDE DEF g
  <2>5. /\ Len(g.rpdo) \in Nat /\ Len(g.tpdo) \in Nat
        /\ DOMAIN AllChannels(g) = 1..(Len(g.rpdo) + Len(g.tpdo))
        /\ g.tpdo = g["tpdo"]
        /\ PlaceOf(g, x[2]) \in DOMAIN g[DirectionOf(g, x[2])]
        /\ AllChannels(g)[x[2]] = g[DirectionOf(g, x[2])][PlaceOf(g, x[2])]
    BY <2>3, ChannelsOfLists DEF Directions
  <2>6. x[2] \in Int
    BY <2>3, <2>5
  <2>7. place(x) \in DOMAIN g.tpdo /\ AllChannels(g)[x[2]] = g.tpdo[place(x)]
    BY <2>4, <2>5
  <2> QED
    BY <2>1, <2>5, <2>6, <2>7 DEF g, EntryOf
<1>2. OneSource(s, o[1], r[1])
  BY <1>1, Configured
<1>3. o[1] = r[1] /\ place(o) = place(r)
  <2>1. /\ place(o) \in DOMAIN config(o).tpdo /\ EntryOf(s, o) = config(o).tpdo[place(o)]
        /\ place(r) \in DOMAIN config(r).tpdo /\ EntryOf(s, r) = config(r).tpdo[place(r)]
    BY <1>1
  <2> DEFINE from == config(o).tpdo
             to == config(r).tpdo
  <2>2. \A c \in DOMAIN from, d \in DOMAIN to :
          from[c].interface = to[d].interface /\ from[c].interface \in ToSet(s.components[k].states)
            => o[1] = r[1] /\ c = d
    BY <1>2 DEF OneSource
  <2>3. /\ from[place(o)].interface = name /\ to[place(r)].interface = name
        /\ place(o) \in DOMAIN from /\ place(r) \in DOMAIN to
    BY <2>1
  <2> HIDE DEF from, to, place
  <2> QED
    BY <2>2, <2>3
<1>4. o[2] = r[2]
  <2>1. config(o) = config(r)
    BY <1>3
  <2> HIDE DEF config
  <2> QED
    BY <1>1, <1>3, <2>1
<1>5. o[1] = r[1]
  BY <1>3
<1>6. o = <<o[1], o[2]>> /\ r = <<r[1], r[2]>>
  BY <1>1
<1> HIDE DEF config, place
<1> QED
  BY <1>4, <1>5, <1>6

\* The object a call was for is fresh after it, and the others stay so.
LEMMA CallFreshens ==
  ASSUME IInv, ValuesInv, ProcessData, NEW o, o = Current
  PROVE  /\ Fresh(o)'
         /\ \A r : IsObject(setup, r) /\ Fresh(r) => Fresh(r)'
<1> DEFINE k == setup.modules[o[1]].component
           entry == EntryOf(setup, o)
           value == Abstract!Wanted(o[1], o[2])
           names == setup.components[k].states
           index == InterfaceIndex(names, entry.interface)
           decoded == Abstract!Decoded(o[1], entry, ObjectIn(setup, o, domain_pd))
<1>1. /\ setup \in Setups /\ IsObject(setup, o) /\ ~Refused(setup, o) /\ k \in Components
      /\ UNCHANGED <<setup, hw_commands>>
      /\ IsOutput(setup, o) =>
           /\ UNCHANGED hw_states
           /\ value = NaN => UNCHANGED domain_pd
           /\ value # NaN => ObjectIn(setup, o, domain_pd') \in Abstract!Encodings(entry, value)
           /\ \A r : IsObject(setup, r) /\ r # o =>
                ObjectIn(setup, r, domain_pd') = ObjectIn(setup, r, domain_pd)
      /\ ~IsOutput(setup, o) =>
           /\ UNCHANGED domain_pd
           /\ hw_states' = IF index = -1 THEN hw_states ELSE [hw_states EXCEPT ![k][index] = decoded]
  BY ProcessDataEffect DEF IInv, PluginsInv
<1>2. Components' = Components
  BY <1>1 DEF Components
<1>3. \A r : IsObject(setup, r) => setup.modules[r[1]].component \in Components
  BY <1>1, ObjectOf, Configured DEF Components
<1>4. CASE IsOutput(setup, o)
  <2>1. Fresh(o)'
    BY <1>1, <1>4, WantedKept DEF Fresh
  <2>2. export_state_interfaces' = export_state_interfaces
    BY <1>1, <1>4 DEF export_state_interfaces, Components
  <2> HIDE DEF value
  <2>3. ASSUME NEW r, IsObject(setup, r), Fresh(r), r # o
        PROVE  Fresh(r)'
    <3>1. ObjectIn(setup, r, domain_pd') = ObjectIn(setup, r, domain_pd)
      BY <1>1, <1>4, <2>3
    <3> QED
      BY <1>1, <2>2, <2>3, <3>1, FreshKept
  <2> QED
    BY <2>1, <2>3
<1>5. CASE ~IsOutput(setup, o)
  <2>1. UNCHANGED domain_pd
    BY <1>1, <1>5
  <2>2. \A j \in Components : \A name \in ToSet(setup.components[j].states) :
          export_state_interfaces'[j][name]
            = hw_states'[j][InterfaceIndex(setup.components[j].states, name)]
    BY <1>1 DEF export_state_interfaces, ByName, Components
  <2>3. /\ DOMAIN hw_states = Components
        /\ \A j \in Components : DOMAIN hw_states[j] = DOMAIN setup.components[j].states
    BY DEF ValuesInv
  <2>4. entry.interface \in ToSet(names) =>
          /\ index \in DOMAIN names /\ names[index] = entry.interface
          /\ index # -1
    BY <1>1, ExportedStates
  <2>5. index # -1 => entry.interface \in ToSet(names)
    BY DEF InterfaceIndex
  <2>6. Fresh(o)'
    <3>1. entry.interface \in ToSet(names) => export_state_interfaces'[k][entry.interface] = decoded
      <4> SUFFICES ASSUME entry.interface \in ToSet(names)
                   PROVE  export_state_interfaces'[k][entry.interface] = decoded
        OBVIOUS
      <4>1. export_state_interfaces'[k][entry.interface] = hw_states'[k][index]
        BY <1>1, <2>2
      <4> HIDE DEF decoded, index
      <4>2. hw_states'[k][index] = decoded
        BY <1>1, <1>5, <2>3, <2>4
      <4> QED
        BY <4>1, <4>2
    <3>2. Abstract!Decoded(o[1], entry, ObjectIn(setup, o, domain_pd))' = decoded
      BY <1>1, <2>1, DecodedKept
    <3> QED
      BY <1>1, <1>5, <3>1, <3>2 DEF Fresh
  <2>7. ASSUME NEW r, IsObject(setup, r), Fresh(r), r # o
        PROVE  Fresh(r)'
    <3> DEFINE j == setup.modules[r[1]].component
               name == EntryOf(setup, r).interface
    <3>1. ASSUME ~IsOutput(setup, r), name \in ToSet(setup.components[j].states)
          PROVE  export_state_interfaces'[j][name] = export_state_interfaces[j][name]
      <4> DEFINE x == InterfaceIndex(setup.components[j].states, name)
      <4>1. j \in Components
        BY <1>3, <2>7
      <4>2. /\ x \in DOMAIN setup.components[j].states /\ setup.components[j].states[x] = name
            /\ export_state_interfaces[j][name] = hw_states[j][x]
        BY <3>1, <4>1, ExportedStates
      <4>3. ~(j = k /\ x = index)
        <5> SUFFICES ASSUME j = k, x = index
                     PROVE  FALSE
          OBVIOUS
        <5>1. index # -1
          BY <3>1, <4>1, ExportedStates
        <5>2. name = entry.interface
          BY <2>4, <2>5, <4>2, <5>1
        <5>3. /\ setup \in Setups /\ IsObject(setup, o) /\ IsObject(setup, r)
              /\ ~IsOutput(setup, o) /\ ~IsOutput(setup, r)
          BY <1>1, <1>5, <2>7, <3>1
        <5>4. /\ EntryOf(setup, o).interface = name /\ EntryOf(setup, r).interface = name
              /\ name \in ToSet(setup.components[k].states)
          BY <3>1, <5>2
        <5>5. k = setup.modules[o[1]].component /\ k = setup.modules[r[1]].component
          OBVIOUS
        <5> HIDE DEF k, j, name
        <5>6. o = r
          BY <5>3, <5>4, <5>5, OneFeeds
        <5> QED
          BY <2>7, <5>6
      <4>4. hw_states'[j][x] = hw_states[j][x]
        <5> HIDE DEF x, index, j, k, decoded
        <5> QED
          BY <1>1, <1>5, <2>3, <4>1, <4>2, <4>3
      <4> QED
        BY <2>2, <3>1, <4>1, <4>2, <4>4
    <3> QED
      BY <1>1, <2>1, <2>7, <3>1, FreshKept
  <2> QED
    BY <2>6, <2>7
<1> QED
  BY <1>4, <1>5

\* When the last call was made, every object of a slave the master took was
\* exchanged.
LEMMA AllCalled ==
  ASSUME IInv, Len(slaves) = Len(setup.modules), NEW o, IsObject(setup, o), ~Refused(setup, o)
  PROVE  \E e \in 1..Len(entries) : \E j \in 1..entries[e].num_pdos :
           o = <<entries[e].slave, ChannelOf(setup, entries[e].slave, j)>>
<1>1. setup \in Setups
  BY DEF IInv, PluginsInv
<1>2. o = <<o[1], o[2]>> /\ o[1] \in 1..Len(setup.modules)
  BY <1>1, ObjectOf
<1>3. PICK e \in 1..Len(entries) : entries[e].slave = o[1]
  BY <1>2 DEF IInv, EntriesInv, Refused
<1>4. entries[e].num_pdos = Registrations(setup, o[1])
  BY <1>3 DEF IInv, EntriesInv
<1>5. PICK j \in 1..Registrations(setup, o[1]) : ChannelOf(setup, o[1], j) = o[2]
  BY <1>1, <1>2, RegisteredObjects
<1> QED
  BY <1>2, <1>3, <1>4, <1>5

\* Nothing is less fresh when neither the interfaces nor the data change.
LEMMA FreshSame ==
  ASSUME UNCHANGED <<setup, hw_commands, hw_states, domain_pd>>, NEW o, Fresh(o)
  PROVE  Fresh(o)'
<1>1. UNCHANGED <<setup, hw_commands>> /\ export_state_interfaces' = export_state_interfaces
      /\ ObjectIn(setup, o, domain_pd') = ObjectIn(setup, o, domain_pd)
  BY DEF export_state_interfaces, Components
<1> QED
  BY <1>1, FreshKept

\* A call adds its object to those that were exchanged.
LEMMA ProcessDataFreshens == IInv /\ ValuesInv /\ FreshInv /\ ProcessData => FreshInv'
<1> SUFFICES ASSUME IInv, ValuesInv, FreshInv, ProcessData
             PROVE  FreshInv'
  OBVIOUS
<1> DEFINE object(e, j) == <<entries[e].slave, ChannelOf(setup, entries[e].slave, j)>>
<1>1. /\ phase = "process" /\ UNCHANGED <<setup, phase, at, entries>> /\ inner' = inner + 1
      /\ inner \in Nat
  BY DEF ProcessData, mapping, IInv, CountersInv
<1>2. /\ setup \in Setups
      /\ \A e \in 1..Len(entries) : /\ entries[e].slave \in 1..Len(setup.modules)
                                    /\ entries[e].num_pdos = Registrations(setup, entries[e].slave)
  BY EntriesThere DEF IInv, PluginsInv, EntriesInv
<1>3. ASSUME NEW e \in 1..Len(entries), NEW j \in 1..entries[e].num_pdos,
             e < at \/ (e = at /\ j < inner + 1)
      PROVE  Fresh(object(e, j))'
  <2> DEFINE r == <<entries[e].slave, ChannelOf(setup, entries[e].slave, j)>>
  <2>1. CASE e = at /\ j = inner
    <3>1. r = Current
      BY <2>1 DEF Current
    <3> HIDE DEF r
    <3>2. PICK o : o = r
      OBVIOUS
    <3>3. Fresh(o)'
      BY <3>1, <3>2, CallFreshens
    <3> QED
      BY <1>1, <3>2, <3>3 DEF r
  <2>2. CASE e < at \/ (e = at /\ j < inner)
    <3>1. Fresh(r)
      BY <1>1, <2>2 DEF FreshInv
    <3>2. IsObject(setup, r)
      BY <1>2, RegisteredObjects
    <3>3. PICK o : o = r
      OBVIOUS
    <3>4. Fresh(o)'
      BY <3>1, <3>2, <3>3, CallFreshens
    <3> QED
      BY <1>1, <3>3, <3>4
  <2>3. j \in Int
    BY <1>2, RegisteredObjects
  <2> QED
    BY <1>1, <1>3, <2>1, <2>2, <2>3
<1> QED
  BY <1>1, <1>3 DEF FreshInv

\* The call after the last one of an entry is the first of the next entry; after
\* the last entry all objects were exchanged.
LEMMA NextEntryFreshens == IInv /\ FreshInv /\ NextEntry => FreshInv'
<1> SUFFICES ASSUME IInv, FreshInv, NextEntry
             PROVE  FreshInv'
  OBVIOUS
<1>1. /\ phase = "process" /\ inner' = 1 /\ inner > entries[at].num_pdos
      /\ UNCHANGED <<setup, hw_commands, hw_states, entries, domain_pd>>
      /\ \/ at < Len(entries) /\ at' = at + 1 /\ phase' = phase
         \/ ~(at < Len(entries)) /\ at' = 1 /\ phase' \in {"controllers", "send"}
  BY DEF NextEntry, NextOf, mapping
<1>2. \A o : Fresh(o) => Fresh(o)'
  BY <1>1, FreshSame
<1>3. /\ Len(slaves) = Len(setup.modules) /\ at \in 1..Len(entries) /\ Len(entries) \in Nat
      /\ inner \in Nat /\ \A e \in 1..Len(entries) : entries[e].num_pdos \in Nat
  BY <1>1, EntriesThere DEF IInv, SlavesInv, CountersInv, Running
<1>4. ASSUME NEW e \in 1..Len(entries), NEW j \in 1..entries[e].num_pdos, e <= at
      PROVE  Fresh(<<entries[e].slave, ChannelOf(setup, entries[e].slave, j)>>)
  <2>1. e < at \/ (e = at /\ j < inner)
    BY <1>1, <1>3, <1>4
  <2> QED
    BY <1>1, <2>1 DEF FreshInv
<1>5. CASE at < Len(entries) /\ at' = at + 1 /\ phase' = phase
  <2>1. ASSUME NEW e \in 1..Len(entries), NEW j \in 1..entries[e].num_pdos,
               e < at + 1 \/ (e = at + 1 /\ j < 1)
        PROVE  e <= at
    BY <1>3, <2>1
  <2>2. ASSUME NEW e \in 1..Len(entries), NEW j \in 1..entries[e].num_pdos,
               e < at + 1 \/ (e = at + 1 /\ j < 1)
        PROVE  Fresh(<<entries[e].slave, ChannelOf(setup, entries[e].slave, j)>>)'
    <3>1. Fresh(<<entries[e].slave, ChannelOf(setup, entries[e].slave, j)>>)
      BY <1>4, <2>1, <2>2
    <3> DEFINE r == <<entries[e].slave, ChannelOf(setup, entries[e].slave, j)>>
    <3>2. PICK o : o = r
      OBVIOUS
    <3>3. Fresh(o)'
      BY <1>2, <3>1, <3>2
    <3> QED
      BY <1>1, <3>2, <3>3
  <2> QED
    BY <1>1, <1>5, <2>2 DEF FreshInv
<1>6. CASE ~(at < Len(entries)) /\ phase' \in {"controllers", "send"}
  <2>1. ASSUME NEW o \in ConfiguredObjects[setup], ~Refused(setup, o)
        PROVE  Fresh(o)'
    <3>1. PICK e \in 1..Len(entries) : \E j \in 1..entries[e].num_pdos :
             o = <<entries[e].slave, ChannelOf(setup, entries[e].slave, j)>>
      BY <1>3, <2>1, AllCalled DEF IsObject
    <3>2. e <= at
      BY <1>3, <1>6
    <3>3. Fresh(o)
      BY <1>4, <3>1, <3>2
    <3> QED
      BY <1>2, <3>3
  <2> QED
    BY <1>1, <1>6, <2>1 DEF FreshInv
<1> QED
  BY <1>1, <1>5, <1>6

\* Every step keeps what was exchanged fresh as long as the pass lasts.
LEMMA FreshInvKept == IInv /\ ValuesInv /\ FreshInv /\ [Step]_vars => FreshInv'
<1> SUFFICES ASSUME IInv, ValuesInv, FreshInv, [Step]_vars
             PROVE  FreshInv'
  OBVIOUS
<1>1. CASE ProcessData
  BY <1>1, ProcessDataFreshens
<1>2. CASE NextEntry
  BY <1>2, NextEntryFreshens
<1>3. CASE phase' = "process" /\ at' = 1 /\ inner' = 1
  <2>1. \A e \in 1..Len(entries)' : \A j \in 1..entries'[e].num_pdos : ~(e < 1 \/ (e = 1 /\ j < 1))
    OBVIOUS
  <2> QED
    BY <1>3, <2>1 DEF FreshInv
<1>4. CASE phase' \notin {"process", "send", "controllers"}
  BY <1>4 DEF FreshInv
<1>5. CASE UNCHANGED vars
  <2>1. \A o : Fresh(o) => Fresh(o)'
    BY <1>5, FreshSame DEF vars
  <2>2. ASSUME phase = "process", NEW e \in 1..Len(entries), NEW j \in 1..entries[e].num_pdos,
               e < at \/ (e = at /\ j < inner)
        PROVE  Fresh(<<entries[e].slave, ChannelOf(setup, entries[e].slave, j)>>)'
    <3>1. PICK o : o = <<entries[e].slave, ChannelOf(setup, entries[e].slave, j)>>
      OBVIOUS
    <3>2. Fresh(o)'
      BY <2>1, <2>2, <3>1 DEF FreshInv
    <3> QED
      BY <1>5, <3>1, <3>2 DEF vars
  <2> QED
    BY <1>5, <2>1, <2>2 DEF FreshInv, vars
<1>6. [Step]_vars => \/ ProcessData \/ NextEntry \/ UNCHANGED vars
                     \/ phase' = "process" /\ at' = 1 /\ inner' = 1
                     \/ phase' \notin {"process", "send", "controllers"}
  BY DEF Step, SetupModule, AddSlave, ConfigSlaveSdo, NextSlaveSdos, Activate, Receive, Send,
         Controllers, Write, NextOf, Fail
<1> QED
  BY <1>1, <1>2, <1>3, <1>4, <1>5, <1>6

\* What a pass has been through is fresh.
THEOREM PassesFreshen == Spec => []FreshInv
<1>1. Init => FreshInv
  BY DEF Init, FreshInv
<1>2. IInv /\ ValuesInv /\ FreshInv /\ [Step]_vars => FreshInv'
  BY FreshInvKept
<1> QED
  BY <1>1, <1>2, MappingHolds, ValuesHold, PTL DEF Spec

\* What the interface vectors have of the commands that were given: the same, or
\* the zero of write for a joint's NaN.  From a write to the frame it sends there is
\* none of the NaN left.
GivenInv ==
  /\ DOMAIN given = Components
  /\ \A k \in Components : DOMAIN given[k] = DOMAIN setup.components[k].commands
  /\ \A k \in Components : \A x \in DOMAIN setup.components[k].commands :
       \/ hw_commands[k][x] = given[k][x]
       \/ setup.components[k].joint /\ given[k][x] = NaN /\ hw_commands[k][x] = 0
  /\ pass \in {"none", "update"} =>
       \A k \in Components : \A x \in DOMAIN setup.components[k].commands :
         given[k][x] = NaN /\ hw_commands[k][x] = NaN
  /\ pass = "write" =>
       \A k \in Components : \A x \in DOMAIN setup.components[k].commands :
         setup.components[k].joint => hw_commands[k][x] # NaN
  /\ phase = "send" => pass \in {"update", "write"}
  /\ phase \in {"controllers", "write"} => pass = "read"

\* Nothing was given before the first pass of the control loop.
LEMMA InitGiven == Init => GivenInv
<1> SUFFICES ASSUME Init
             PROVE  GivenInv
  OBVIOUS
<1>1. /\ given = [k \in Components |-> [x \in DOMAIN setup.components[k].commands |-> NaN]]
      /\ hw_commands = given
      /\ phase = "on_init" /\ pass = "none"
  BY DEF Init
<1> QED
  BY <1>1 DEF GivenInv

\* The controllers give a command and write it to its interface.
LEMMA ControllersGive == ValuesInv /\ GivenInv /\ Controllers => GivenInv'
<1> SUFFICES ASSUME ValuesInv, GivenInv, Controllers
             PROVE  GivenInv'
  OBVIOUS
<1>1. UNCHANGED <<setup, pass>> /\ pass = "read" /\ phase' = "write"
  BY DEF Controllers, GivenInv
<1>2. CASE UNCHANGED <<hw_commands, given>>
  BY <1>1, <1>2 DEF GivenInv, Components
<1>3. CASE \E k \in Components : \E x \in DOMAIN hw_commands[k] :
             \E value \in CommandValues[setup.components[k].commands[x]] :
               /\ hw_commands' = [hw_commands EXCEPT ![k][x] = value]
               /\ given' = [given EXCEPT ![k][x] = value]
  <2>1. PICK k \in Components : \E x \in DOMAIN hw_commands[k] :
             \E value \in CommandValues[setup.components[k].commands[x]] :
               /\ hw_commands' = [hw_commands EXCEPT ![k][x] = value]
               /\ given' = [given EXCEPT ![k][x] = value]
    BY <1>3
  <2>2. PICK x \in DOMAIN hw_commands[k] :
             \E value \in CommandValues[setup.components[k].commands[x]] :
               /\ hw_commands' = [hw_commands EXCEPT ![k][x] = value]
               /\ given' = [given EXCEPT ![k][x] = value]
    BY <2>1
  <2>3. PICK value \in CommandValues[setup.components[k].commands[x]] :
               /\ hw_commands' = [hw_commands EXCEPT ![k][x] = value]
               /\ given' = [given EXCEPT ![k][x] = value]
    BY <2>2
  <2>4. /\ DOMAIN hw_commands = Components
        /\ \A y \in Components : DOMAIN hw_commands[y] = DOMAIN setup.components[y].commands
    BY DEF ValuesInv
  <2>5. /\ DOMAIN given' = Components
        /\ \A y \in Components : DOMAIN given'[y] = DOMAIN setup.components[y].commands
    BY <2>1, <2>2, <2>3, <2>4 DEF GivenInv
  <2>6. ASSUME NEW y \in Components, NEW z \in DOMAIN setup.components[y].commands
        PROVE  \/ hw_commands'[y][z] = given'[y][z]
               \/ /\ setup.components[y].joint /\ given'[y][z] = NaN
                  /\ hw_commands'[y][z] = 0
    <3>1. CASE y = k /\ z = x
      BY <2>3, <2>4, <2>6, <3>1 DEF GivenInv
    <3>2. CASE ~(y = k /\ z = x)
      <4>1. hw_commands'[y][z] = hw_commands[y][z] /\ given'[y][z] = given[y][z]
        BY <2>3, <2>4, <2>6, <3>2 DEF GivenInv
      <4> QED
        BY <2>6, <4>1 DEF GivenInv
    <3> QED
      BY <3>1, <3>2
  <2> QED
    BY <1>1, <2>5, <2>6 DEF GivenInv, Components
<1> QED
  BY <1>2, <1>3 DEF Controllers

\* Every other step gives nothing, and only write replaces anything.
LEMMA GivenInvKept == IInv /\ ValuesInv /\ GivenInv /\ [Step]_vars => GivenInv'
<1> SUFFICES ASSUME IInv, ValuesInv, GivenInv, [Step]_vars
             PROVE  GivenInv'
  OBVIOUS
<1>1. CASE Controllers
  BY <1>1, ControllersGive
<1>2. CASE Write
  <2> DEFINE rest(k, v) == IF setup.components[k].joint /\ v = NaN THEN 0 ELSE v
  <2>1. /\ hw_commands' = [k \in Components |-> [x \in DOMAIN hw_commands[k] |->
                             rest(k, hw_commands[k][x])]]
        /\ UNCHANGED <<setup, given>> /\ pass' = "write" /\ phase' = "process"
    BY <1>2 DEF Write
  <2>2. ASSUME NEW k \in Components, NEW x \in DOMAIN setup.components[k].commands
        PROVE  /\ \/ hw_commands'[k][x] = given[k][x]
                  \/ /\ setup.components[k].joint /\ given[k][x] = NaN
                     /\ hw_commands'[k][x] = 0
               /\ setup.components[k].joint => hw_commands'[k][x] # NaN
    <3>1. hw_commands'[k][x] = rest(k, hw_commands[k][x])
      BY <2>1, <2>2 DEF ValuesInv
    <3>2. 0 # NaN
      BY UnitAssumption
    <3> QED
      BY <2>2, <3>1, <3>2 DEF GivenInv
  <2>3. /\ UNCHANGED <<setup, given>> /\ Components' = Components
        /\ pass' = "write" /\ phase' = "process"
    BY <2>1 DEF Components
  <2> HIDE DEF rest
  <2> QED
    BY <2>2, <2>3 DEF GivenInv
<1>3. CASE NextEntry
  <2>1. UNCHANGED <<setup, pass, hw_commands, given>> /\ phase = "process"
    BY <1>3 DEF NextEntry
  <2>2. phase' \in {"process", IF pass = "read" THEN "controllers" ELSE "send"}
    BY <1>3, <2>1 DEF NextEntry, NextOf
  <2>3. pass # "none" /\ pass \in {"none", "update", "read", "write"}
    BY <2>1 DEF IInv, CountersInv, Running
  <2> QED
    BY <2>1, <2>2, <2>3 DEF GivenInv, Components
<1>4. CASE UNCHANGED vars
  BY <1>4 DEF GivenInv, Components, vars
<1>5. CASE /\ UNCHANGED <<setup, hw_commands, given>>
           /\ phase' \notin {"send", "controllers", "write"}
           /\ \/ pass' \in {pass, "read"}
              \/ pass = "none" /\ pass' = "update"
  BY <1>5 DEF GivenInv, Components
<1>6. CASE Activate
  <2>1. pass = "none"
    BY <1>6 DEF Activate, IInv, CountersInv, Running
  <2>2. /\ UNCHANGED <<setup, hw_commands, given>>
        /\ phase' \notin {"send", "controllers", "write"}
        /\ pass' \in {pass, "update"}
    BY <1>6 DEF Activate, Fail
  <2> QED
    BY <1>5, <2>1, <2>2
<1>7. [Step]_vars => \/ Controllers \/ Write \/ NextEntry \/ Activate \/ UNCHANGED vars
                     \/ /\ UNCHANGED <<setup, hw_commands, given>>
                        /\ phase' \notin {"send", "controllers", "write"}
                        /\ pass' \in {pass, "read"}
  BY DEF Step, SetupModule, AddSlave, ConfigSlaveSdo, NextSlaveSdos, Receive, ProcessData, Send,
         NextOf, Fail
<1> QED
  BY <1>1, <1>2, <1>3, <1>4, <1>5, <1>6, <1>7

\* What was given stays in the interfaces until the frame that carries it.
THEOREM GivenHolds == Spec => []GivenInv
<1>1. IInv /\ ValuesInv /\ GivenInv /\ [Step]_vars => GivenInv'
  BY GivenInvKept
<1> QED
  BY <1>1, InitGiven, MappingHolds, ValuesHold, PTL DEF Spec

\* What processData writes, once write has run, is what the controllers and the
\* configuration mean an output to have.
LEMMA IntendedIsWanted ==
  ASSUME IInv, ValuesInv, GivenInv, phase = "send", NEW o \in ConfiguredObjects[setup]
  PROVE  Intended(o[1], o[2]) = Abstract!Wanted(o[1], o[2])
<1> DEFINE entry == EntryOf(setup, o)
           k == setup.modules[o[1]].component
           names == setup.components[k].commands
           index == InterfaceIndex(names, entry.interface)
           sign == Abstract!Sign(o[1], entry)
           rests == setup.components[k].joint /\ pass = "write" /\ entry.interface \in ToSet(names)
           value == IF entry.interface \in ToSet(names) THEN given[k][index] ELSE NaN
           command == IF value = NaN /\ rests THEN 0 ELSE value
<1>1. setup \in Setups /\ IsObject(setup, o)
  BY DEF IInv, PluginsInv, IsObject
<1>2. k \in Components /\ setup.components[k] \in ComponentType
  BY <1>1, ObjectOf, Configured DEF Components
<1>3. /\ Abstract!Channel(o[1], o[2]) = entry /\ Abstract!Component(o[1]) = k
      /\ Abstract!CommandNames(k) = ToSet(names)
  BY AbstractTerms DEF Abstract!CommandNames
<1>4. Intended(o[1], o[2]) = IF command # NaN THEN entry.factor * sign * command + entry.offset
                             ELSE entry.default
  <2>1. Given(o[1], o[2]) = value
    BY <1>3 DEF Given
  <2>2. Intended(o[1], o[2]) = IF value # NaN THEN entry.factor * sign * value + entry.offset
                               ELSE IF rests THEN entry.factor * sign * 0 + entry.offset
                               ELSE entry.default
    BY <1>3, <2>1 DEF Intended
  <2>3. 0 # NaN
    BY UnitAssumption
  <2> HIDE DEF value, rests, entry, sign
  <2> QED
    BY <2>2, <2>3
<1>5. /\ Abstract!Wanted(o[1], o[2])
           = IF entry.interface \in ToSet(names) /\ export_command_interfaces[k][entry.interface] # NaN
               THEN entry.factor * sign * export_command_interfaces[k][entry.interface] + entry.offset
               ELSE entry.default
  BY <1>3 DEF Abstract!Wanted
<1>6. entry.interface \in ToSet(names) =>
        /\ export_command_interfaces[k][entry.interface] = hw_commands[k][index]
        /\ index \in DOMAIN names
  <2>1. names \in Seq(STRING)
    BY <1>2 DEF ComponentType
  <2> QED
    BY <1>2, <2>1, CommandOf, IndexOfName
<1>7. ASSUME entry.interface \in ToSet(names)
      PROVE  command = hw_commands[k][index]
  <2>1. k \in Components /\ index \in DOMAIN setup.components[k].commands
    BY <1>2, <1>6, <1>7
  <2> HIDE DEF index, k, entry
  <2>2. /\ \/ hw_commands[k][index] = given[k][index]
           \/ setup.components[k].joint /\ given[k][index] = NaN /\ hw_commands[k][index] = 0
        /\ pass = "write" /\ setup.components[k].joint => hw_commands[k][index] # NaN
        /\ pass = "update" => given[k][index] = NaN /\ hw_commands[k][index] = NaN
        /\ pass \in {"update", "write"}
    BY <2>1 DEF GivenInv
  <2> HIDE DEF names
  <2>3. CASE pass = "write"
    BY <1>7, <2>2, <2>3
  <2>4. CASE pass = "update"
    BY <1>7, <2>2, <2>4
  <2> QED
    BY <2>2, <2>3, <2>4
<1>8. entry.interface \notin ToSet(names) => command = NaN
  OBVIOUS
<1> HIDE DEF entry, k, names, index, sign, command
<1> QED
  BY <1>4, <1>5, <1>6, <1>7, <1>8

\* The frame of a pass holds every command.
THEOREM FramesCarryCommands == Spec => []FrameCarriesCommands
<1>1. IInv /\ ValuesInv /\ GivenInv /\ FreshInv => FrameCarriesCommands
  <2> SUFFICES ASSUME IInv, ValuesInv, GivenInv, FreshInv, phase = "send",
                      NEW o \in ConfiguredObjects[setup],
                      ~setup.modules[o[1]].refused, Abstract!IsOutput(o[1], o[2]),
                      Intended(o[1], o[2]) # NaN
               PROVE  ObjectBits(o) \in Abstract!Encodings(Abstract!Channel(o[1], o[2]),
                                                           Intended(o[1], o[2]))
    BY DEF FrameCarriesCommands
  <2>1. Fresh(o)
    BY DEF FreshInv, Refused
  <2>2. IsOutput(setup, o) /\ Abstract!Channel(o[1], o[2]) = EntryOf(setup, o)
    BY AbstractTerms
  <2>3. ObjectBits(o) = ObjectIn(setup, o, domain_pd)
    BY DEF ObjectBits, ObjectIn
  <2>4. Intended(o[1], o[2]) = Abstract!Wanted(o[1], o[2])
    BY IntendedIsWanted
  <2> QED
    BY <2>1, <2>2, <2>3, <2>4 DEF Fresh
<1> QED
  BY <1>1, MappingHolds, ValuesHold, GivenHolds, PassesFreshen, PTL

\* The controllers run on what the last frame brought.
THEOREM StatesAreCurrent == Spec => []ShownStatesAreCurrent
<1>1. IInv /\ FreshInv => ShownStatesAreCurrent
  <2> SUFFICES ASSUME IInv, FreshInv, phase = "controllers", NEW o \in ConfiguredObjects[setup],
                      ~setup.modules[o[1]].refused, ~Abstract!IsOutput(o[1], o[2]),
                      Abstract!Channel(o[1], o[2]).interface
                        \in DOMAIN export_state_interfaces[Abstract!Component(o[1])]
               PROVE  export_state_interfaces[Abstract!Component(o[1])]
                        [Abstract!Channel(o[1], o[2]).interface]
                        = Abstract!Decoded(o[1], Abstract!Channel(o[1], o[2]), ObjectBits(o))
    BY DEF ShownStatesAreCurrent
  <2> DEFINE k == setup.modules[o[1]].component
  <2>1. Fresh(o)
    BY DEF FreshInv, Refused
  <2>2. /\ ~IsOutput(setup, o) /\ Abstract!Channel(o[1], o[2]) = EntryOf(setup, o)
        /\ Abstract!Component(o[1]) = k
    BY AbstractTerms
  <2>3. ObjectBits(o) = ObjectIn(setup, o, domain_pd)
    BY DEF ObjectBits, ObjectIn
  <2>4. k \in Components
    <3>1. setup \in Setups /\ IsObject(setup, o)
      BY DEF IInv, PluginsInv, IsObject
    <3> QED
      BY <3>1, ObjectOf, Configured DEF Components
  <2>5. DOMAIN export_state_interfaces[k] = ToSet(setup.components[k].states)
    BY <2>4 DEF export_state_interfaces, ByName
  <2> QED
    BY <2>1, <2>2, <2>3, <2>5 DEF Fresh
<1> QED
  BY <1>1, MappingHolds, PassesFreshen, PTL

-----------------------------------------------------------------------------
(***************************************************************************)
(* The SDOs                                                                *)
(***************************************************************************)

Sdos(s, m) == Plugin(s, m).sdo_config

\* Each object has the value of the last of the first n SDOs that names it.
Applied(values, sdos, n) ==
  \A object \in DOMAIN values : \A x \in 1..n :
    /\ sdos[x].object = object
    /\ \A y \in (x + 1)..n : sdos[y].object # object
    => values[object] = sdos[x].value

\* The SDOs of the slaves before the counter were all downloaded, those of the
\* slave at the counter up to the inner one.
SdosInv ==
  /\ DOMAIN dictionary = DOMAIN setup.modules
  /\ \A m \in DOMAIN setup.modules : DOMAIN dictionary[m] = DOMAIN setup.modules[m].objects
  /\ phase = "sdo" =>
       /\ \A m \in 1..(at - 1) : Applied(dictionary[m], Sdos(setup, m), Len(Sdos(setup, m)))
       /\ Applied(dictionary[at], Sdos(setup, at), inner - 1)
  /\ phase \in {"activate"} \cup Running =>
       \A m \in 1..Len(setup.modules) :
         Applied(dictionary[m], Sdos(setup, m), Len(Sdos(setup, m)))

\* One more download.
LEMMA AppliedNext ==
  ASSUME NEW values, NEW sdos, NEW n \in Nat, Applied(values, sdos, n)
  PROVE  Applied([values EXCEPT ![sdos[n + 1].object] = sdos[n + 1].value], sdos, n + 1)
<1> DEFINE new == [values EXCEPT ![sdos[n + 1].object] = sdos[n + 1].value]
<1> SUFFICES ASSUME NEW object \in DOMAIN new, NEW x \in 1..(n + 1),
                    sdos[x].object = object,
                    \A y \in (x + 1)..(n + 1) : sdos[y].object # object
             PROVE  new[object] = sdos[x].value
  BY DEF Applied
<1>1. object \in DOMAIN values
  OBVIOUS
<1>2. CASE x = n + 1
  BY <1>1, <1>2
<1>3. CASE x # n + 1
  <2>1. x \in 1..n /\ n + 1 \in (x + 1)..(n + 1)
    BY <1>3
  <2>2. sdos[n + 1].object # object
    BY <2>1
  <2>3. \A y \in (x + 1)..n : y \in (x + 1)..(n + 1)
    OBVIOUS
  <2>4. values[object] = sdos[x].value
    BY <1>1, <2>1, <2>3 DEF Applied
  <2> QED
    BY <1>1, <2>2, <2>4
<1> QED
  BY <1>2, <1>3

\* Nothing is left to be done before the first download.
LEMMA AppliedNone == \A values, sdos : Applied(values, sdos, 0)
<1>1. 1..0 = {}
  OBVIOUS
<1> QED
  BY <1>1 DEF Applied

\* What the SDOs of a configuration are.
LEMMA SdosConfigured ==
  ASSUME NEW s \in Setups, NEW m \in 1..Len(s.modules), NEW x \in 1..Len(Sdos(s, m))
  PROVE  /\ Sdos(s, m)[x].object \in DOMAIN s.modules[m].objects
         /\ Sdos(s, m)[x].type \in DataType /\ Sdos(s, m)[x].value \in Int
         /\ IsInteger(Sdos(s, m)[x].type) => InRange(Sdos(s, m)[x].value, Sdos(s, m)[x].type)
<1> DEFINE list == s.modules[m].config.sdo
           kept == Increasing({y \in DOMAIN list : list[y].loads})
<1>1. kept[x] \in DOMAIN list /\ list[kept[x]].loads /\ Sdos(s, m)[x] = list[kept[x]]
  BY LoadingShape DEF Sdos
<1>2. WellConfigured(s.modules[m])
  BY Configured
<1>3. list[kept[x]].type \in DataType /\ list[kept[x]].value \in Int
  <2>1. s.modules[m].config \in ConfigType
    BY <1>2 DEF WellConfigured
  <2>2. list \in Seq([loads : BOOLEAN, object : STRING, type : DataType, value : Int])
    BY <2>1 DEF ConfigType
  <2> HIDE DEF list, kept
  <2>3. kept[x] \in 1..Len(list)
    BY <1>1, <2>2, LenProperties
  <2>4. list[kept[x]] \in [loads : BOOLEAN, object : STRING, type : DataType, value : Int]
    BY <2>2, <2>3, ElementOfSeq
  <2> QED
    BY <2>4
<1>4. /\ list[kept[x]].object \in DOMAIN s.modules[m].objects
      /\ IsInteger(list[kept[x]].type) => InRange(list[kept[x]].value, list[kept[x]].type)
  <2> DEFINE p == kept[x]
  <2>1. p \in DOMAIN list /\ list[p].loads
    BY <1>1
  <2> HIDE DEF p
  <2>2. /\ list[p].object \in DOMAIN s.modules[m].objects
        /\ IsInteger(list[p].type) => InRange(list[p].value, list[p].type)
    BY <1>2, <2>1 DEF WellConfigured
  <2> QED
    BY <2>2 DEF p
<1> QED
  BY <1>1, <1>3, <1>4

\* A download, and the end of the downloads of a slave.
LEMMA SdosInvNext == IInv /\ SdosInv /\ (ConfigSlaveSdo \/ NextSlaveSdos) => SdosInv'
<1> SUFFICES ASSUME IInv, SdosInv, ConfigSlaveSdo \/ NextSlaveSdos
             PROVE  SdosInv'
  OBVIOUS
<1> DEFINE sdos == Sdos(setup, at)
<1>1. /\ phase = "sdo" /\ at \in 1..Len(setup.modules) /\ at \in Nat
      /\ ec_modules_[at].sdo_config = sdos /\ Len(ec_modules_) = Len(setup.modules)
      /\ inner \in 1..(Len(sdos) + 1)
      /\ UNCHANGED setup
  BY DEF ConfigSlaveSdo, NextSlaveSdos, IInv, CountersInv, PluginsInv, Running, Sdos
<1>2. /\ setup \in Setups /\ Len(setup.modules) \in Nat
      /\ DOMAIN setup.modules = 1..Len(setup.modules)
  BY Configured DEF IInv, PluginsInv
<1>3. Len(sdos) \in Nat /\ inner \in Nat \ {0} /\ inner - 1 \in Nat /\ (inner - 1) + 1 = inner
  <2>1. Len(sdos) \in Nat
    BY <1>1, <1>2, LoadingShape DEF Sdos
  <2> HIDE DEF sdos
  <2> QED
    BY <1>1, <2>1
<1>4. /\ \A m \in 1..(at - 1) : Applied(dictionary[m], Sdos(setup, m), Len(Sdos(setup, m)))
      /\ Applied(dictionary[at], sdos, inner - 1)
      /\ DOMAIN dictionary = DOMAIN setup.modules
      /\ \A m \in DOMAIN setup.modules : DOMAIN dictionary[m] = DOMAIN setup.modules[m].objects
  BY <1>1 DEF SdosInv
<1>5. CASE phase' = "error" /\ UNCHANGED dictionary
  BY <1>1, <1>4, <1>5 DEF SdosInv, Running
<1>6. CASE NextSlaveSdos
  <2>1. /\ inner > Len(sdos) /\ inner' = 1 /\ UNCHANGED dictionary
        /\ \/ at < Len(setup.modules) /\ at' = at + 1 /\ phase' = phase
           \/ ~(at < Len(setup.modules)) /\ phase' = "activate"
    BY <1>1, <1>6 DEF NextSlaveSdos, NextOf
  <2>2. inner - 1 = Len(sdos)
    <3> HIDE DEF sdos
    <3> QED
      BY <1>1, <1>3, <2>1
  <2>3. \A m \in 1..at : m \in 1..(at - 1) \/ m = at
    BY <1>1
  <2>4. \A m \in 1..at : Applied(dictionary[m], Sdos(setup, m), Len(Sdos(setup, m)))
    BY <1>4, <2>2, <2>3
  <2>5. CASE at < Len(setup.modules) /\ at' = at + 1 /\ phase' = phase
    <3>1. at' - 1 = at /\ inner' - 1 = 0
      BY <1>1, <2>1, <2>5
    <3>2. Applied(dictionary[at'], Sdos(setup, at'), 0)
      BY AppliedNone
    <3> QED
      BY <1>1, <1>4, <2>1, <2>4, <2>5, <3>1, <3>2 DEF SdosInv, Running
  <2>6. CASE ~(at < Len(setup.modules)) /\ phase' = "activate"
    <3>1. at = Len(setup.modules)
      BY <1>1, <1>2, <2>6
    <3> QED
      BY <1>1, <1>4, <2>1, <2>4, <2>6, <3>1 DEF SdosInv, Running
  <2> QED
    BY <2>1, <2>5, <2>6
<1>7. CASE /\ inner <= Len(sdos) /\ data_size(sdos[inner]) > 0
           /\ dictionary' = [dictionary EXCEPT ![at][sdos[inner].object] = buffer_write(sdos[inner])]
           /\ inner' = inner + 1 /\ UNCHANGED <<phase, at>>
  <2>1. inner \in 1..Len(sdos)
    <3> HIDE DEF sdos
    <3> QED
      BY <1>3, <1>7
  <2>2. /\ sdos[inner].object \in DOMAIN setup.modules[at].objects
        /\ buffer_write(sdos[inner]) = sdos[inner].value
    <3>1. /\ sdos[inner].object \in DOMAIN setup.modules[at].objects
          /\ sdos[inner].type \in DataType /\ sdos[inner].value \in Int
          /\ IsInteger(sdos[inner].type) => InRange(sdos[inner].value, sdos[inner].type)
      BY <1>1, <1>2, <2>1, SdosConfigured
    <3> DEFINE sdo == sdos[inner]
    <3>2. sdo.type \in DataType /\ sdo.value \in Int /\ data_size(sdo) > 0
          /\ (IsInteger(sdo.type) => InRange(sdo.value, sdo.type))
      BY <1>7, <3>1
    <3> HIDE DEF sdo
    <3>3. IsInteger(sdo.type)
      BY <3>2 DEF data_size
    <3>4. buffer_write(sdo) = sdo.value
      BY <3>2, <3>3, NumberOfPattern DEF buffer_write
    <3> QED
      BY <3>1, <3>4 DEF sdo
  <2> DEFINE new == [dictionary[at] EXCEPT ![sdos[inner].object] = sdos[inner].value]
  <2>3. dictionary' = [dictionary EXCEPT ![at] = new]
    BY <1>7, <2>2
  <2>4. Applied(new, sdos, inner)
    <3>1. Applied([dictionary[at] EXCEPT ![sdos[(inner - 1) + 1].object] = sdos[(inner - 1) + 1].value],
                  sdos, (inner - 1) + 1)
      BY <1>3, <1>4, AppliedNext
    <3> QED
      BY <1>3, <3>1
  <2>5. at \in DOMAIN dictionary /\ DOMAIN new = DOMAIN dictionary[at]
    BY <1>1, <1>2, <1>4
  <2> HIDE DEF new, sdos
  <2>6. /\ DOMAIN dictionary' = DOMAIN dictionary /\ dictionary'[at] = new
        /\ \A m \in DOMAIN dictionary : m # at => dictionary'[m] = dictionary[m]
    BY <2>3, <2>5
  <2>7. inner' - 1 = inner
    BY <1>3, <1>7
  <2>8. \A m \in 1..(at - 1) : m \in DOMAIN dictionary /\ m # at
    BY <1>1, <1>2, <1>4
  <2>9. \A m \in DOMAIN setup.modules : DOMAIN dictionary'[m] = DOMAIN setup.modules[m].objects
    BY <1>4, <2>5, <2>6
  <2>10. /\ \A m \in 1..(at - 1) : Applied(dictionary'[m], Sdos(setup, m), Len(Sdos(setup, m)))
         /\ Applied(dictionary'[at], Sdos(setup, at), inner' - 1)
    BY <1>4, <2>4, <2>6, <2>7, <2>8 DEF sdos
  <2> QED
    BY <1>1, <1>4, <1>7, <2>6, <2>9, <2>10 DEF SdosInv, Running
<1>8. CASE ConfigSlaveSdo
  <2>1. \/ phase' = "error" /\ UNCHANGED dictionary
        \/ /\ inner <= Len(sdos) /\ data_size(sdos[inner]) > 0
           /\ dictionary' = [dictionary EXCEPT ![at][sdos[inner].object] = buffer_write(sdos[inner])]
           /\ inner' = inner + 1 /\ UNCHANGED <<phase, at>>
    BY <1>1, <1>8 DEF ConfigSlaveSdo, Fail
  <2> QED
    BY <1>5, <1>7, <2>1
<1> QED
  BY <1>6, <1>8

\* Every step keeps the downloads; none is undone.
LEMMA SdosInvKept == IInv /\ SdosInv /\ [Step]_vars => SdosInv'
<1> SUFFICES ASSUME IInv, SdosInv, [Step]_vars
             PROVE  SdosInv'
  OBVIOUS
<1>1. CASE ConfigSlaveSdo \/ NextSlaveSdos
  BY <1>1, SdosInvNext
<1>2. CASE UNCHANGED <<setup, dictionary>> /\ phase' \in {"on_init", "add", "error", "terminated"}
  BY <1>2 DEF SdosInv, Running
<1>3. CASE AddSlave
  <2>1. /\ UNCHANGED <<setup, dictionary>> /\ inner = 1 /\ inner' = 1
        /\ phase' = "add" \/ (phase' = "sdo" /\ at' = 1)
    BY <1>3 DEF AddSlave, NextOf, IInv, CountersInv
  <2>2. CASE phase' = "sdo" /\ at' = 1
    <3>1. inner' - 1 = 0 /\ 1..(at' - 1) = {}
      BY <2>1, <2>2
    <3>2. Applied(dictionary'[at'], Sdos(setup', at'), inner' - 1)
      BY <3>1, AppliedNone
    <3> QED
      BY <2>1, <2>2, <3>1, <3>2 DEF SdosInv, Running
  <2>3. CASE phase' = "add"
    BY <2>1, <2>3 DEF SdosInv, Running
  <2> QED
    BY <2>1, <2>2, <2>3
<1>4. CASE /\ UNCHANGED <<setup, dictionary>> /\ phase \in {"activate"} \cup Running
           /\ phase' \in Running \cup {"error"}
  BY <1>4 DEF SdosInv, Running
<1>5. CASE UNCHANGED vars
  BY <1>5 DEF SdosInv, Running, vars
<1>6. SetupModule => UNCHANGED <<setup, dictionary>> /\ phase' \in {"on_init", "add", "error", "terminated"}
  BY DEF SetupModule, Fail, NextOf
<1>7. Activate \/ Receive \/ ProcessData \/ NextEntry \/ Send \/ Controllers \/ Write =>
        /\ UNCHANGED <<setup, dictionary>> /\ phase \in {"activate"} \cup Running
        /\ phase' \in Running \cup {"error"}
  BY DEF Activate, Receive, ProcessData, NextEntry, Send, Controllers, Write, Fail, NextOf, Running
<1> QED
  BY <1>1, <1>2, <1>3, <1>4, <1>5, <1>6, <1>7 DEF Step

\* A set of positions that has a member has a last one.
LEMMA LastExists ==
  ASSUME NEW N \in Nat, NEW S \in SUBSET (1..N), S # {}
  PROVE  \E x \in S : \A y \in S : x >= y
<1> DEFINE k == Cardinality(S)
           f == Increasing(S)
<1>1. /\ k \in Nat /\ f \in [1..k -> S] /\ Rises(f)
      /\ \A s \in S : \E x \in 1..k : f[x] = s
  BY IncreasingEnumerates
<1> HIDE DEF k, f
<1>2. k \in 1..k
  <2>1. \E x \in 1..k : TRUE
    BY <1>1
  <2> QED
    BY <1>1, <2>1
<1>3. ASSUME NEW y \in S
      PROVE  f[k] >= y
  <2>1. PICK x \in 1..k : f[x] = y
    BY <1>1
  <2>2. x < k \/ x = k
    BY <1>1
  <2>3. f[x] \in Int /\ f[k] \in Int
    <3>1. f[x] \in S /\ f[k] \in S
      BY <1>1, <1>2
    <3>2. S \subseteq Int
      OBVIOUS
    <3> QED
      BY <3>1, <3>2
  <2>4. x < k => f[x] < f[k]
    BY <1>1, <1>2 DEF Rises
  <2> QED
    BY <2>1, <2>2, <2>3, <2>4
<1> QED
  BY <1>1, <1>2, <1>3

\* What every object is when no SDO is left is what the last of its SDOs says.
LEMMA SdosInvApplies == IInv /\ SdosInv => SdosApplied
<1> SUFFICES ASSUME IInv, SdosInv, pass # "none", NEW m \in Modules
             PROVE  LET list == setup.modules[m].config.sdo
                        of(object) == {x \in DOMAIN list : list[x].loads /\ list[x].object = object}
                    IN  \A object \in DOMAIN dictionary[m] :
                          of(object) # {} => dictionary[m][object] = list[Max(of(object))].value
  BY DEF SdosApplied
<1> DEFINE list == setup.modules[m].config.sdo
           of(object) == {x \in DOMAIN list : list[x].loads /\ list[x].object = object}
           kept == Increasing({x \in DOMAIN list : list[x].loads})
           sdos == Sdos(setup, m)
<1> SUFFICES ASSUME NEW object \in DOMAIN dictionary[m], of(object) # {}
             PROVE  dictionary[m][object] = list[Max(of(object))].value
  OBVIOUS
<1>1. /\ setup \in Setups /\ m \in 1..Len(setup.modules)
      /\ Applied(dictionary[m], sdos, Len(sdos))
  BY Configured DEF IInv, PluginsInv, SdosInv, CountersInv, Modules
<1>2. /\ DOMAIN list = 1..Len(list) /\ Len(list) \in Nat /\ Len(sdos) \in Nat
      /\ \A x \in 1..Len(sdos) :
           kept[x] \in DOMAIN list /\ list[kept[x]].loads /\ sdos[x] = list[kept[x]]
      /\ \A x, y \in 1..Len(sdos) : x < y => kept[x] < kept[y]
      /\ \A x \in DOMAIN list : list[x].loads => \E y \in 1..Len(sdos) : kept[y] = x
  BY <1>1, LoadingShape DEF Sdos
<1> DEFINE S == of(object)
           p == Max(S)
<1>3. S # {} /\ S \in SUBSET (1..Len(list))
  BY <1>2
<1>4. p \in S /\ \A x \in S : p >= x
  <2> HIDE DEF S
  <2>1. \E x \in S : \A y \in S : x >= y
    BY <1>2, <1>3, LastExists
  <2> QED
    BY <2>1 DEF Max
<1>5. p \in DOMAIN list /\ list[p].loads /\ list[p].object = object
  BY <1>4
<1>6. \A x \in DOMAIN list : list[x].loads /\ list[x].object = object => p >= x
  BY <1>4
<1> HIDE DEF p, S, kept, sdos, list
<1>7. PICK x \in 1..Len(sdos) : kept[x] = p
  BY <1>2, <1>5
<1>8. ASSUME NEW y \in (x + 1)..Len(sdos)
      PROVE  sdos[y].object # object
  <2>1. y \in 1..Len(sdos) /\ x < y
    BY <1>2
  <2>2. /\ kept[x] < kept[y] /\ kept[y] \in DOMAIN list /\ list[kept[y]].loads
        /\ sdos[y] = list[kept[y]]
    BY <1>2, <2>1
  <2>3. ~(p >= kept[y])
    BY <1>2, <1>5, <1>7, <2>2
  <2> QED
    BY <1>6, <2>2, <2>3
<1>9. sdos[x] = list[p]
  BY <1>2, <1>7
<1>10. dictionary[m][object] = sdos[x].value
  BY <1>1, <1>5, <1>8, <1>9 DEF Applied
<1> QED
  BY <1>9, <1>10 DEF p, S, list

\* No frame leaves before the slaves have the configuration.
THEOREM SdosAreApplied == Spec => []SdosApplied
<1>1. Init => SdosInv
  BY DEF Init, SdosInv, Running
<1>2. IInv /\ SdosInv /\ [Step]_vars => SdosInv'
  BY SdosInvKept
<1>3. IInv /\ SdosInv => SdosApplied
  BY SdosInvApplies
<1> QED
  BY <1>1, <1>2, <1>3, MappingHolds, PTL DEF Spec

-----------------------------------------------------------------------------
(***************************************************************************)
(* A sound description is brought up                                       *)
(***************************************************************************)

\* A sound description is never given up.
SoundGoesOn == Sound => phase \notin {"error", "terminated"}

\* The sync managers of a sound description carry the direction of every object.
LEMMA SoundCarries ==
  ASSUME Sound, setup \in Setups, NEW o, IsObject(setup, o), ~setup.modules[o[1]].refused
  PROVE  LET config == setup.modules[o[1]].config
         IN  DirectionOf(config, o[2]) \in setup_syncs(config)
<1> DEFINE m == o[1]
           c == o[2]
           config == setup.modules[m].config
           d == DirectionOf(config, c)
           p == PlaceOf(config, c)
<1>1. m \in DOMAIN setup.modules /\ config \in ConfigType
  BY ObjectOf, Configured DEF WellConfigured
<1>2. /\ d \in Directions /\ p \in DOMAIN config[d] /\ config[d][p].object # 0
      /\ config["rpdo"] = config.rpdo /\ config["tpdo"] = config.tpdo
  <2>1. c \in DOMAIN AllChannels(config) /\ AllChannels(config)[c].object # 0
    BY ObjectOf DEF EntryOf
  <2> QED
    BY <1>1, <2>1, ChannelsOfLists
<1>3. \/ {sm \in ToSet(config.sm) : sm.loads} = {}
      \/ \E sm \in ToSet(config.sm) : sm.loads /\ sm.pdo = d
  <2>1. /\ \/ {x \in DOMAIN config.rpdo : config.rpdo[x].object # 0} = {}
           \/ {sm \in ToSet(config.sm) : sm.loads} = {}
           \/ \E sm \in {sm \in ToSet(config.sm) : sm.loads} : sm.pdo = "rpdo"
        /\ \/ {x \in DOMAIN config.tpdo : config.tpdo[x].object # 0} = {}
           \/ {sm \in ToSet(config.sm) : sm.loads} = {}
           \/ \E sm \in {sm \in ToSet(config.sm) : sm.loads} : sm.pdo = "tpdo"
    BY <1>1 DEF Sound, Modules
  <2>2. CASE d = "rpdo"
    BY <1>2, <2>1, <2>2
  <2>3. CASE d = "tpdo"
    BY <1>2, <2>1, <2>3
  <2> QED
    BY <1>2, <2>2, <2>3 DEF Directions
<1> DEFINE list == config.sm
           loading == Loading(list)
<1>4. IsSequence(list)
  BY <1>1, SequenceOver DEF ConfigType
<1>5. setup_syncs(config) = IF loading = <<>> THEN {"null", "rpdo", "tpdo"}
                            ELSE {loading[x].pdo : x \in DOMAIN loading}
  BY DEF setup_syncs
<1>6. \A sm : sm \in ToSet(list) <=> \E x \in DOMAIN list : sm = list[x]
  BY DEF ToSet
<1> HIDE DEF list, d
<1> DEFINE kept == Increasing({x \in DOMAIN list : list[x].loads})
<1>7. /\ Len(loading) \in Nat /\ DOMAIN loading = 1..Len(loading)
      /\ \A x \in 1..Len(loading) :
           kept[x] \in DOMAIN list /\ list[kept[x]].loads /\ loading[x] = list[kept[x]]
      /\ \A x \in DOMAIN list :
           list[x].loads => \E y \in 1..Len(loading) : kept[y] = x
  BY <1>4, LoadingOf
<1> HIDE DEF kept, loading
<1>8. ASSUME loading = <<>>
      PROVE  d \in setup_syncs(config)
  BY <1>2, <1>5, <1>8 DEF Directions
<1>9. ASSUME loading # <<>>
      PROVE  d \in setup_syncs(config)
  <2>1. \E y \in DOMAIN loading : TRUE
    <3>1. Len(loading) # 0
      BY <1>7, <1>9
    <3> QED
      BY <1>7, <3>1
  <2>2. \E sm \in ToSet(list) : sm.loads
    BY <1>6, <1>7, <2>1
  <2>3. PICK sm \in ToSet(list) : sm.loads /\ sm.pdo = d
    BY <1>3, <2>2 DEF list
  <2>4. PICK x \in DOMAIN list : sm = list[x]
    BY <1>6, <2>3
  <2>5. PICK y \in 1..Len(loading) : kept[y] = x
    BY <1>7, <2>3, <2>4
  <2>6. loading[y].pdo = d /\ y \in DOMAIN loading
    BY <1>7, <2>3, <2>4, <2>5
  <2> QED
    BY <1>5, <1>9, <2>6 
<1>10. d \in setup_syncs(config)
  BY <1>8, <1>9
<1> QED
  BY <1>10 DEF d

\* Its registrations all find their entries: the master lays out what was asked for.
LEMMA SoundMapped ==
  ASSUME IInv, Sound, Len(slaves) = Len(setup.modules)
  PROVE  AllMapped
<1> SUFFICES ASSUME NEW x \in Requested
             PROVE  \E pdo \in Directions : Positions(domain_regs[x], pdo) # {}
  BY DEF AllMapped
<1>1. setup \in Setups /\ x \in 1..(Len(domain_regs) - 1)
  BY RequestedAll DEF IInv, PluginsInv
<1>2. PICK e \in 1..Len(entries) : \E j \in 1..entries[e].num_pdos :
           domain_regs[x] = Registration(setup, entries[e].slave, e, j)
  BY <1>1 DEF IInv, RegsInv
<1>3. PICK j \in 1..entries[e].num_pdos :
           domain_regs[x] = Registration(setup, entries[e].slave, e, j)
  BY <1>2
<1> DEFINE m == entries[e].slave
           c == ChannelOf(setup, m, j)
           config == setup.modules[m].config
           d == DirectionOf(config, c)
           reg == domain_regs[x]
<1>4. m \in 1..Len(setup.modules) /\ ~setup.modules[m].refused /\ j \in 1..Registrations(setup, m)
  BY <1>3 DEF IInv, EntriesInv
<1>5. IsObject(setup, <<m, c>>) /\ c \in DOMAIN AllChannels(config)
  BY <1>1, <1>4, RegisteredObjects
<1>6. reg.module = m /\ reg.object = AllChannels(config)[c].object
  BY <1>3 DEF Registration
<1>7. config \in ConfigType /\ d \in Directions /\ PlaceOf(config, c) \in DOMAIN config[d]
  <2>1. m \in DOMAIN setup.modules
    BY <1>1, <1>4, Configured
  <2>2. config \in ConfigType
    BY <1>1, <2>1, Configured DEF WellConfigured
  <2> QED
    BY <1>5, <2>2, ChannelsOfLists
<1>8. d \in setup_syncs(config)
  <2> DEFINE o == <<m, c>>
  <2>1. o[1] = m /\ o[2] = c
    OBVIOUS
  <2>2. IsObject(setup, o) /\ ~setup.modules[o[1]].refused
    BY <1>4, <1>5
  <2> HIDE DEF o
  <2>3. DirectionOf(setup.modules[o[1]].config, o[2]) \in setup_syncs(setup.modules[o[1]].config)
    BY <1>1, <2>2, SoundCarries
  <2> QED
    BY <2>1, <2>3
<1>9. slaves[m][d] = config[d] /\ slaves[m][d] # <<>>
  <2>1. slaves[m][d] = ListOf(setup, m, d)
    BY <1>4, <1>7 DEF IInv, SlavesInv
  <2> QED
    BY <1>4, <1>7, <1>8, <2>1 DEF ListOf
<1> HIDE DEF reg, m
<1>10. /\ reg.module \in 1..Len(setup.modules) /\ ~setup.modules[reg.module].refused
       /\ IsObject(setup, <<reg.module, c>>)
       /\ reg.object = AllChannels(setup.modules[reg.module].config)[c].object
  BY <1>4, <1>5, <1>6
<1>11. Positions(reg, d) =
         IF d = DirectionOf(setup.modules[reg.module].config, c) /\ slaves[reg.module][d] # <<>>
           THEN {PlaceOf(setup.modules[reg.module].config, c)} ELSE {}
  <2> HIDE DEF c, d
  <2> QED
    BY <1>7, <1>10, PositionsOf
<1>12. Positions(reg, d) # {}
  BY <1>6, <1>9, <1>11
<1> QED
  BY <1>7, <1>12 DEF reg

\* An SDO of a plugin is one of the configuration that loads.
LEMMA SdoLoads ==
  ASSUME NEW s \in Setups, NEW m \in 1..Len(s.modules), NEW x \in 1..Len(Sdos(s, m))
  PROVE  LET list == s.modules[m].config.sdo
         IN  \E p \in DOMAIN list : list[p].loads /\ Sdos(s, m)[x] = list[p]
<1> DEFINE list == s.modules[m].config.sdo
           kept == Increasing({y \in DOMAIN list : list[y].loads})
<1>1. kept[x] \in DOMAIN list /\ list[kept[x]].loads /\ Sdos(s, m)[x] = list[kept[x]]
  BY LoadingShape DEF Sdos
<1> HIDE DEF kept
<1> QED
  BY <1>1

\* No step gives a sound description up.
LEMMA SoundStep == IInv /\ SoundGoesOn /\ [Step]_vars => SoundGoesOn'
<1> SUFFICES ASSUME IInv, SoundGoesOn, [Step]_vars, Sound'
             PROVE  phase' \notin {"error", "terminated"}
  BY DEF SoundGoesOn
<1>1. setup' = setup
  BY DEF vars, Step, SetupModule, AddSlave, ConfigSlaveSdo, NextSlaveSdos, Activate, Receive,
         ProcessData, NextEntry, Send, Controllers, Write
<1>2. Sound /\ phase \notin {"error", "terminated"} /\ setup \in Setups
  <2>1. Sound
    BY <1>1 DEF Sound, Modules
  <2> QED
    BY <2>1 DEF SoundGoesOn, IInv, PluginsInv
<1>3. /\ DOMAIN setup.modules = 1..Len(setup.modules)
      /\ \A m \in 1..Len(setup.modules) : setup.modules[m].complete /\ setup.modules[m].lacks = {}
  <2>1. DOMAIN setup.modules = 1..Len(setup.modules)
    BY <1>2, Configured
  <2> QED
    BY <1>2, <2>1 DEF Sound, Modules
<1>4. CASE SetupModule
  <2>1. at \in 1..Len(setup.modules)
    BY <1>4 DEF SetupModule, IInv, CountersInv
  <2>2. /\ ~(\E m \in Modules : ~setup.modules[m].complete)
        /\ setup.modules[at].lacks = {}
    BY <1>3, <2>1 DEF Modules
  <2>3. phase' = phase \/ phase' = "add"
    BY <1>4, <2>2 DEF SetupModule, NextOf
  <2> QED
    BY <1>2, <2>3
<1>5. CASE AddSlave
  BY <1>2, <1>5 DEF AddSlave, NextOf
<1>6. CASE ConfigSlaveSdo
  <2>1. /\ at \in 1..Len(ec_modules_) /\ Len(ec_modules_) = Len(setup.modules)
        /\ ec_modules_[at] = Plugin(setup, at)
        /\ inner \in Nat /\ inner \in 1..(Len(Plugin(setup, at).sdo_config) + 1)
    BY <1>6 DEF ConfigSlaveSdo, IInv, CountersInv, PluginsInv
  <2> DEFINE sdos == Plugin(setup, at).sdo_config
             list == setup.modules[at].config.sdo
             sdo == ec_modules_[at].sdo_config[inner]
  <2>2. inner \in 1..Len(sdos)
    <3>1. Len(sdos) \in Nat
      BY <1>2, <2>1, LoadingShape
    <3>2. inner <= Len(sdos)
      BY <1>6, <2>1 DEF ConfigSlaveSdo
    <3> QED
      BY <2>1, <3>1, <3>2
  <2>3. PICK p \in DOMAIN list : list[p].loads /\ sdo = list[p]
    <3>1. setup \in Setups /\ at \in 1..Len(setup.modules) /\ inner \in 1..Len(Sdos(setup, at))
          /\ sdo = Sdos(setup, at)[inner]
      BY <1>2, <2>1, <2>2 DEF Sdos
    <3> HIDE DEF sdo
    <3> QED
      BY <3>1, SdoLoads
  <2>4. sdo.type \in DataType
    BY <1>2, <2>1, <2>2, SdosConfigured DEF Sdos
  <2>5. IsInteger(sdo.type) /\ sdo.type.bits = setup.modules[at].objects[sdo.object]
    <3>1. at \in Modules
      BY <1>3, <2>1 DEF Modules
    <3>2. IsInteger(list[p].type) /\ list[p].type.bits = setup.modules[at].objects[list[p].object]
      BY <1>2, <2>3, <3>1 DEF Sound
    <3> QED
      BY <2>3, <3>2
  <2>6. data_size(sdo) > 0 /\ data_size(sdo) = setup.modules[at].objects[sdo.object]
    <3>1. sdo.type.bits > 0
      BY <2>4 DEF DataType
    <3> QED
      BY <2>5, <3>1 DEF data_size
  <2>7. phase' = phase
    BY <1>6, <2>6 DEF ConfigSlaveSdo
  <2> QED
    BY <1>2, <2>7
<1>7. CASE NextSlaveSdos
  BY <1>2, <1>7 DEF NextSlaveSdos, NextOf
<1>8. CASE Activate
  <2>1. Len(slaves) = Len(setup.modules)
    BY <1>8 DEF Activate, IInv, SlavesInv
  <2>2. AllMapped
    BY <1>2, <2>1, SoundMapped
  <2>3. {x \in Requested : \A pdo \in Directions : Positions(domain_regs[x], pdo) = {}} = {}
    BY <2>2 DEF AllMapped
  <2>4. phase' = "receive"
    BY <1>8, <2>3 DEF Activate
  <2> QED
    BY <2>4
<1>9. CASE Receive \/ ProcessData \/ NextEntry \/ Send \/ Controllers \/ Write
  BY <1>2, <1>9 DEF Receive, ProcessData, NextEntry, NextOf, Send, Controllers, Write
<1>10. CASE UNCHANGED vars
  BY <1>2, <1>10 DEF vars
<1> QED
  BY <1>4, <1>5, <1>6, <1>7, <1>8, <1>9, <1>10 DEF Step

\* A description whose tags are there, whose SDOs have the sizes of their objects
\* and whose sync managers carry what has objects is brought up without an error:
\* no step of on_init or on_activate fails on it.
THEOREM SoundSetupsGoOn == Spec => []SoundGoesOn
<1>1. Init => SoundGoesOn
  BY DEF Init, SoundGoesOn
<1>2. IInv /\ SoundGoesOn /\ [Step]_vars => SoundGoesOn'
  BY SoundStep
<1> QED
  BY <1>1, <1>2, MappingHolds, PTL DEF Spec
=============================================================================
