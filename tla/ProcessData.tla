---------------------------- MODULE ProcessData ----------------------------
(***************************************************************************)
(* From the hardware description to the bits of the process data: what     *)
(* on_init, GenericEcSlave, EcPdoChannelManager and EcMaster make of the   *)
(* configuration, and the passes that run over it.                         *)
(*                                                                         *)
(* on_init sets up a plugin for every ec_module, which turns the YAML file *)
(* into channels, PDOs and sync managers and maps the channels to indices  *)
(* of the interface vectors.  on_activate registers them in the domain,    *)
(* downloads the SDOs and activates the master, which fills in the address *)
(* of every registered channel.  Each pass then calls processData once per *)
(* registration.  EthercatDriver has the threads, the failures of the      *)
(* master and the joints with invert_velocity or a position, which are     *)
(* left out here.  The IgH master is external: it lays out the entries it  *)
(* was given one after the other, each direction of a slave from a byte of *)
(* its own on, and hands out byte addresses.                               *)
(***************************************************************************)
EXTENDS PdoTypes, Sequences, SequencesExt

CONSTANTS
  Setups,                   \* hardware descriptions with the slaves' configurations
  CommandValues,            \* what controllers write, by name of the interface
  Samples                   \* numbers the slaves put into their input objects

VARIABLES
  setup,                    \* the description at hand; never changes
  phase, pass,              \* where the driver is, and which pass it runs
  at,                       \* loop counter: the module or the slave's entry
  inner,                    \* inner loop counter: the SDO or the registration
  ec_modules_,              \* the plugins that are set up, in order
  hw_commands, hw_states,   \* the interface vectors, by component and index
  given,                    \* history: what the controllers wrote last, or NaN
  entries, domain_regs,     \* EcMaster::DomainInfo
  slaves,                   \* the entries every slave maps in each direction
  inputs,                   \* where the slaves write: bits, by module and entry
  domain_pd,                \* the process data: bits that are one
  dictionary                \* values of the objects the SDOs configure

vars == <<setup, phase, pass, at, inner, ec_modules_, hw_commands, hw_states,
          given, entries, domain_regs, slaves, inputs, domain_pd, dictionary>>

\* What nothing changes once the master is active.
mapping == <<ec_modules_, entries, domain_regs, slaves, inputs>>

Components == DOMAIN setup.components

Unset == -1                 \* an offset that nothing was written to

Init ==
  /\ setup \in Setups
  /\ phase = "on_init" /\ pass = "none"
  /\ at = 1 /\ inner = 1
  /\ ec_modules_ = <<>>
  /\ hw_commands = [k \in Components |-> [x \in DOMAIN setup.components[k].commands |-> NaN]]
  /\ hw_states = [k \in Components |-> [x \in DOMAIN setup.components[k].states |->
                    IF setup.components[k].joint /\ setup.components[k].states[x] = "position"
                      THEN 0 ELSE NaN]]
  /\ given = hw_commands
  /\ entries = <<>>
  /\ domain_regs = <<>>
  /\ slaves = <<>>
  /\ inputs = <<>>
  /\ domain_pd = {}
  /\ dictionary = [m \in DOMAIN setup.modules |->
                     [object \in DOMAIN setup.modules[m].objects |-> 0]]

-----------------------------------------------------------------------------
(***************************************************************************)
(* GenericEcSlave::setupSlave                                              *)
(***************************************************************************)

\* all_channels_: the entries of a configuration, as the loops over the PDOs push
\* them.
AllChannels(config) == config.rpdo \o config.tpdo

\* A variant of reserved that forgets the inputs.
ReservedForOutputs(config) == Len(config.rpdo)

\* How many entries all_channels_ can take without moving.
reserved(config) == Len(config.rpdo) + Len(config.tpdo)

\* A PDO as the master gets it: how many entries, and a pointer to the first.
\* The pointer dangles if all_channels_ moves after it was taken.
PdoInfo(config, sizes, before) ==
  [p \in DOMAIN sizes |->
     LET first == before + Total(sizes, p - 1)
         total == Len(config.rpdo) + Len(config.tpdo)
     IN  [n |-> sizes[p], first |-> first,
          dangles |-> total > reserved(config) /\ first + sizes[p] <= reserved(config)]]

\* The members of a set of positions in their order.
Increasing(S) ==
  CHOOSE f \in [1..Cardinality(S) -> S] : \A x, y \in DOMAIN f : x < y => f[x] < f[y]

\* The channels that are registered: gaps are not.
domain_map(channels) == Increasing({c \in DOMAIN channels : channels[c].object # 0})

\* The entries of a list that load, in their order.
Loading(list) ==
  LET kept == Increasing({x \in DOMAIN list : list[x].loads})
  IN  [x \in DOMAIN kept |-> list[kept[x]]]

\* The PDO lists the sync managers of the file that load carry, or those of the
\* default ones.
setup_syncs(config) ==
  IF Loading(config.sm) = <<>>
    THEN {"null", "rpdo", "tpdo"}
    ELSE {Loading(config.sm)[x].pdo : x \in DOMAIN Loading(config.sm)}

\* The index the parameter "command_interface/<name>" or its counterpart gives.
InterfaceIndex(names, name) ==
  IF name \in ToSet(names) THEN CHOOSE x \in DOMAIN names : names[x] = name ELSE -1

\* A variant of Multiplier that turns around the commands only.
MultiplierOfCommand(pdo_type, interface, right) ==
  IF right /\ interface = "velocity" /\ pdo_type = "RPDO" THEN -1 ELSE 1

Multiplier(pdo_type, interface, right) == IF right /\ interface = "velocity" THEN -1 ELSE 1

\* A channel: what load_from_config took from the file, its direction, and what
\* setup_interface_mapping adds.
PdoChannel(entry, pdo_type, component) ==
  [config |-> entry,
   pdo_type |-> pdo_type,
   interface_index |->
     InterfaceIndex(IF pdo_type = "RPDO" THEN component.commands ELSE component.states,
                    entry.interface),
   multiplier |-> Multiplier(pdo_type, entry.interface, component.right)]

\* The plugin the m-th configuration of a description makes.
Plugin(s, m) ==
  LET config == s.modules[m].config
      all == AllChannels(config)
  IN  [all_channels |-> all,
       channels |-> [c \in DOMAIN all |->
         PdoChannel(all[c], IF c <= Len(config.rpdo) THEN "RPDO" ELSE "TPDO",
                    s.components[s.modules[m].component])],
       domain_map |-> domain_map(all),
       rpdos |-> PdoInfo(config, config.rpdos, 0),
       tpdos |-> PdoInfo(config, config.tpdos, Len(config.rpdo)),
       syncs |-> setup_syncs(config),
       sdo_config |-> Loading(config.sdo)]

-----------------------------------------------------------------------------
(***************************************************************************)
(* on_init                                                                 *)
(***************************************************************************)

Modules == DOMAIN setup.modules

\* A variant of NextOf whose loop runs once too often.
NextPastTheEnd(list, after) ==
  IF at <= Len(list) THEN at' = at + 1 /\ phase' = phase
                     ELSE at' = 1 /\ phase' = after

\* The next turn of a loop over a sequence, or the phase after it.
NextOf(list, after) ==
  IF at < Len(list) THEN at' = at + 1 /\ phase' = phase
                    ELSE at' = 1 /\ phase' = after

Fail(outcome) == phase' = outcome /\ at' = at

\* getEcModuleParam throws out of on_init when an ec_module of the component
\* lacks a tag; a plugin that does not load, or whose setupSlave finds no usable
\* slave_config, is an error.
SetupModule ==
  LET module == setup.modules[at]
      siblings == {m \in Modules : setup.modules[m].component = module.component}
  IN  /\ phase = "on_init"
      /\ \/ /\ \E m \in siblings : ~setup.modules[m].complete
            /\ Fail("terminated")
            /\ UNCHANGED ec_modules_
         \/ /\ \A m \in siblings : setup.modules[m].complete
            /\ module.lacks # {}
            /\ Fail("error")
            /\ UNCHANGED ec_modules_
         \/ /\ \A m \in siblings : setup.modules[m].complete
            /\ module.lacks = {}
            /\ ec_modules_' = Append(ec_modules_, Plugin(setup, at))
            /\ NextOf(setup.modules, "add")
      /\ UNCHANGED <<setup, pass, inner, hw_commands, hw_states, given, entries,
                     domain_regs, slaves, inputs, domain_pd, dictionary>>

-----------------------------------------------------------------------------
(***************************************************************************)
(* on_activate: registration, SDOs, activation                             *)
(***************************************************************************)

Terminator == [module |-> 0, object |-> 0, entry |-> 0, i |-> 0]

\* Where the registrations of a slave begin: on the terminating element.
FirstRegistration == IF domain_regs = <<>> THEN 1 ELSE Len(domain_regs)

\* registerPDOInDomain.
Register(plugin) ==
  LET map == plugin.domain_map
      regs == [x \in DOMAIN map |->
                 [module |-> at, object |-> plugin.all_channels[map[x]].object,
                  entry |-> Len(entries) + 1, i |-> x]]
  IN  /\ entries' = Append(entries, [slave |-> at, num_pdos |-> Len(map),
                                     offset |-> [x \in DOMAIN map |-> Unset]])
      /\ domain_regs' =
           Append(SubSeq(domain_regs, 1, FirstRegistration - 1) \o regs, Terminator)

\* The entries a slave maps in one direction, read through the PDOs' pointers.
MappedEntries(plugin, pdo, pdos) ==
  IF pdo \notin plugin.syncs THEN <<>>
  ELSE FlattenSeq([p \in DOMAIN pdos |->
         IF pdos[p].dangles THEN <<>>
         ELSE SubSeq(plugin.all_channels, pdos[p].first + 1, pdos[p].first + pdos[p].n)])

\* addSlave returns early, with no more than a warning, when the master does not
\* take the slave's configuration or its PDOs; the driver goes on without it.
AddSlave ==
  LET plugin == ec_modules_[at]
  IN  /\ phase = "add"
      /\ \/ /\ ~setup.modules[at].refused
            /\ Register(plugin)
            /\ slaves' = Append(slaves, [rpdo |-> MappedEntries(plugin, "rpdo", plugin.rpdos),
                                         tpdo |-> MappedEntries(plugin, "tpdo", plugin.tpdos)])
         \/ /\ setup.modules[at].refused
            /\ UNCHANGED <<entries, domain_regs>>
            /\ slaves' = Append(slaves, [rpdo |-> <<>>, tpdo |-> <<>>])
      /\ NextOf(ec_modules_, "sdo")
      /\ UNCHANGED <<setup, pass, inner, ec_modules_, hw_commands, hw_states, given,
                     inputs, domain_pd, dictionary>>

\* SdoConfigEntry::data_size, in bits; a type without a size gives zero.
data_size(sdo) == IF IsInteger(sdo.type) THEN sdo.type.bits ELSE 0

\* A variant of buffer_write that takes every number for an unsigned one.
UnsignedOf(sdo) ==
  Unsigned(Pattern(sdo.value, sdo.type.bits), sdo.type.bits)

\* What the bits buffer_write leaves in the buffer stand for, for an object of
\* the same kind.
buffer_write(sdo) == Number(Pattern(sdo.value, sdo.type.bits), sdo.type)

\* The next SDO of a slave; a slave takes no other size than that of its object.
ConfigSlaveSdo ==
  LET sdo == ec_modules_[at].sdo_config[inner]
      accepted == /\ data_size(sdo) > 0
                  /\ data_size(sdo) = setup.modules[at].objects[sdo.object]
  IN  /\ phase = "sdo"
      /\ inner <= Len(ec_modules_[at].sdo_config)
      /\ \/ /\ accepted
            /\ dictionary' = [dictionary EXCEPT ![at][sdo.object] = buffer_write(sdo)]
            /\ inner' = inner + 1
            /\ UNCHANGED <<phase, at>>
         \/ /\ ~accepted
            /\ Fail("error")
            /\ UNCHANGED <<dictionary, inner>>
      /\ UNCHANGED <<setup, pass, hw_commands, hw_states, given, mapping, domain_pd>>

NextSlaveSdos ==
  /\ phase = "sdo"
  /\ inner > Len(ec_modules_[at].sdo_config)
  /\ inner' = 1
  /\ NextOf(ec_modules_, "activate")
  /\ UNCHANGED <<setup, pass, hw_commands, hw_states, given, mapping, domain_pd, dictionary>>

-----------------------------------------------------------------------------
(***************************************************************************)
(* The IgH master: layout of the domain                                    *)
(***************************************************************************)

\* Bits of the entries before the c-th, and the bytes of a direction.
BitsBefore(list, c) == Total([x \in DOMAIN list |-> list[x].type.bits], c - 1)

Bytes(list) == (BitsBefore(list, Len(list) + 1) + ByteBits - 1) \div ByteBits

Directions == {"rpdo", "tpdo"}

\* Where a direction of a slave begins: one slave after the other, outputs first.
Start(sizes, m, pdo) ==
  Total([n \in DOMAIN sizes |-> sizes[n]["rpdo"] + sizes[n]["tpdo"]], m - 1)
    + (IF pdo = "tpdo" THEN sizes[m]["rpdo"] ELSE 0)

\* ecrt_domain_reg_pdo_entry_list stops at the first registration without object.
Requested ==
  {x \in DOMAIN domain_regs : \A y \in 1..x : domain_regs[y].object # 0}

\* The places of a registered object in a direction of its slave.
Positions(reg, pdo) ==
  {c \in DOMAIN slaves[reg.module][pdo] : slaves[reg.module][pdo][c].object = reg.object}

\* A direction is in the domain when something of it is registered.
RegionSizes ==
  [m \in DOMAIN slaves |-> [pdo \in Directions |->
     IF \E x \in Requested : domain_regs[x].module = m /\ Positions(domain_regs[x], pdo) # {}
       THEN Bytes(slaves[m][pdo]) ELSE 0]]

Base(m, pdo) == Start(RegionSizes, m, pdo)

\* The byte in which a registered entry begins.
ByteAddress(reg) ==
  LET pdo == CHOOSE pdo \in Directions : Positions(reg, pdo) # {}
      c == CHOOSE c \in Positions(reg, pdo) : TRUE
  IN  Base(reg.module, pdo) + BitsBefore(slaves[reg.module][pdo], c) \div ByteBits

\* The bits of the input entries in the domain.
InputBits ==
  LET objects == {o \in UNION {{m} \X DOMAIN slaves[m].tpdo : m \in DOMAIN slaves} :
                    slaves[o[1]].tpdo[o[2]].object # 0}
      first == [o \in objects |->
                  Base(o[1], "tpdo") * ByteBits + BitsBefore(slaves[o[1]].tpdo, o[2])]
  IN  [o \in objects |->
         [b \in 0..(slaves[o[1]].tpdo[o[2]].type.bits - 1) |-> first[o] + b]]

\* EcMaster::activate: every registration gets its address, unless the slave
\* does not map one of them.
Activate ==
  LET unmapped == {x \in Requested : \A pdo \in Directions :
                                       Positions(domain_regs[x], pdo) = {}}
      registrations(e, j) ==
        {x \in Requested : domain_regs[x].entry = e /\ domain_regs[x].i = j}
      offset(e, j) ==
        IF registrations(e, j) = {} THEN Unset
        ELSE ByteAddress(domain_regs[CHOOSE x \in registrations(e, j) : TRUE])
  IN  /\ phase = "activate"
      /\ \/ /\ unmapped # {}
            /\ Fail("error")
            /\ UNCHANGED <<entries, inputs, pass>>
         \/ /\ unmapped = {}
            /\ inputs' = InputBits
            /\ entries' = [e \in DOMAIN entries |->
                 [entries[e] EXCEPT !.offset =
                    [j \in DOMAIN entries[e].offset |-> offset(e, j)]]]
            /\ phase' = "receive" /\ pass' = "update" /\ at' = at
      /\ UNCHANGED <<setup, inner, ec_modules_, hw_commands, hw_states, given,
                     domain_regs, slaves, domain_pd, dictionary>>

-----------------------------------------------------------------------------
(***************************************************************************)
(* EcPdoChannelManager                                                     *)
(***************************************************************************)

\* The bits at an address, relative to it, and back.
BitsAt(address, width) ==
  {b \in 0..(width - 1) : address * ByteBits + b \in domain_pd}

Placed(address, bits) == {address * ByteBits + b : b \in bits}

\* The process data with the bits at an address overwritten.
Overwritten(address, width, bits) ==
  (domain_pd \ Placed(address, 0..(width - 1))) \cup Placed(address, bits)

ec_read(config, address) ==
  LET byte == BitsAt(address, ByteBits)
      type == config.type
      raw == CASE IsInteger(type)       -> Number(BitsAt(address, type.bits), type)
               [] type.kind = "bool"    -> IF byte \cap config.mask # {} THEN 1 ELSE 0
               [] type.kind = "bit"     -> Unsigned(byte \cap config.mask, ByteBits)
  IN  config.factor * raw * Resolution + config.offset

\* A variant of WrittenBit that keeps nothing of the byte.
WrittenBitAlone(mask, address, value) ==
  Overwritten(address, ByteBits, IF value # 0 THEN mask ELSE {})

\* A channel with one bit keeps the others of its byte.
WrittenBit(mask, address, value) ==
  LET buffer == BitsAt(address, ByteBits) \ mask
  IN  Overwritten(address, ByteBits, IF value # 0 THEN buffer \cup mask ELSE buffer)

\* What the process data may be after a value was written: a channel with a
\* mask of several bits overwrites the byte, one without a mask nothing.
ec_write(config, address, value) ==
  LET type == config.type
      mask == config.mask
  IN  CASE IsInteger(type) ->
             {Overwritten(address, type.bits, bits) : bits \in Cast(value, type)}
        [] ~IsInteger(type) /\ Cardinality(mask) = 1 ->
             {WrittenBit(mask, address, value)}
        [] ~IsInteger(type) /\ Cardinality(mask) > 1 ->
             {Overwritten(address, ByteBits, bits \cap mask) : bits \in Cast(value, uint8)}
        [] OTHER -> {domain_pd}

\* The command, or the default; NaN when there is neither.
ValueToWrite(ch, k) ==
  IF ch.interface_index # -1 /\ hw_commands[k][ch.interface_index] # NaN
    THEN ch.config.factor * ch.multiplier * hw_commands[k][ch.interface_index]
           + ch.config.offset
    ELSE ch.config.default

ec_update(ch, k, address) ==
  \/ /\ ch.pdo_type = "TPDO"
     /\ hw_states' = IF ch.interface_index = -1 THEN hw_states
                     ELSE [hw_states EXCEPT ![k][ch.interface_index] =
                             ch.multiplier * ec_read(ch.config, address)]
     /\ UNCHANGED domain_pd
  \/ /\ ch.pdo_type = "RPDO"
     /\ ValueToWrite(ch, k) # NaN
     /\ domain_pd' \in ec_write(ch.config, address, ValueToWrite(ch, k))
     /\ UNCHANGED hw_states
  \/ /\ ch.pdo_type = "RPDO"
     /\ ValueToWrite(ch, k) = NaN
     /\ UNCHANGED <<domain_pd, hw_states>>

-----------------------------------------------------------------------------
(***************************************************************************)
(* The passes                                                              *)
(***************************************************************************)

\* ecrt_master_receive: the slaves' inputs come in.
Receive ==
  /\ phase = "receive"
  /\ \E input \in [DOMAIN inputs -> Samples] :
       domain_pd' =
         (domain_pd \ UNION {Range(inputs[o]) : o \in DOMAIN inputs})
           \cup UNION {{inputs[o][b] : b \in Pattern(input[o], Cardinality(DOMAIN inputs[o]))}
                         : o \in DOMAIN inputs}
  /\ phase' = "process" /\ at' = 1 /\ inner' = 1
  /\ UNCHANGED <<setup, pass, hw_commands, hw_states, given, mapping, dictionary>>

\* GenericEcSlave::processData: the channel of a registration.
ProcessedChannel(m, index) == ec_modules_[m].channels[ec_modules_[m].domain_map[index]]

\* The next registration of a slave's entry.
ProcessData ==
  LET entry == entries[at]
  IN  /\ phase = "process"
      /\ inner <= entry.num_pdos
      /\ entry.offset[inner] # Unset
      /\ ec_update(ProcessedChannel(entry.slave, inner), setup.modules[entry.slave].component,
                   entry.offset[inner])
      /\ inner' = inner + 1
      /\ UNCHANGED <<setup, phase, pass, at, hw_commands, given, mapping, dictionary>>

\* The next entry; the last one ends the pass.
NextEntry ==
  /\ phase = "process"
  /\ inner > entries[at].num_pdos
  /\ inner' = 1
  /\ NextOf(entries, IF pass = "read" THEN "controllers" ELSE "send")
  /\ UNCHANGED <<setup, pass, hw_commands, hw_states, given, mapping, domain_pd, dictionary>>

\* The frame leaves; the plugins report at once that they are initialized.
Send ==
  /\ phase = "send"
  /\ phase' = "receive" /\ pass' = "read" /\ at' = 1
  /\ UNCHANGED <<setup, inner, hw_commands, hw_states, given, mapping, domain_pd, dictionary>>

\* The controllers may write any of the interfaces they command.
Controllers ==
  /\ phase = "controllers"
  /\ \/ UNCHANGED <<hw_commands, given>>
     \/ \E k \in Components : \E x \in DOMAIN hw_commands[k] :
          \E value \in CommandValues[setup.components[k].commands[x]] :
            /\ hw_commands' = [hw_commands EXCEPT ![k][x] = value]
            /\ given' = [given EXCEPT ![k][x] = value]
  /\ phase' = "write" /\ at' = at
  /\ UNCHANGED <<setup, pass, inner, hw_states, mapping, domain_pd, dictionary>>

\* A variant of Write that treats every component as a joint.
WriteEverywhere ==
  /\ phase = "write"
  /\ hw_commands' = [k \in Components |-> [x \in DOMAIN hw_commands[k] |->
                       IF hw_commands[k][x] = NaN THEN 0 ELSE hw_commands[k][x]]]
  /\ phase' = "process" /\ pass' = "write" /\ at' = 1 /\ inner' = 1
  /\ UNCHANGED <<setup, hw_states, given, mapping, domain_pd, dictionary>>

\* write replaces what is not finite in the joints' commands, and only there.
Write ==
  /\ phase = "write"
  /\ hw_commands' = [k \in Components |-> [x \in DOMAIN hw_commands[k] |->
                       IF setup.components[k].joint /\ hw_commands[k][x] = NaN
                         THEN 0 ELSE hw_commands[k][x]]]
  /\ phase' = "process" /\ pass' = "write" /\ at' = 1 /\ inner' = 1
  /\ UNCHANGED <<setup, hw_states, given, mapping, domain_pd, dictionary>>

-----------------------------------------------------------------------------

Step ==
  \/ SetupModule
  \/ AddSlave
  \/ ConfigSlaveSdo
  \/ NextSlaveSdos
  \/ Activate
  \/ Receive
  \/ ProcessData
  \/ NextEntry
  \/ Send
  \/ Controllers
  \/ Write

Spec == Init /\ [][Step]_vars

\* on_init and on_activate run to their end, and the control loop is periodic.
FairSpec == Spec /\ WF_vars(Step)

-----------------------------------------------------------------------------
(***************************************************************************)
(* The configurations in the scope of the model                            *)
(***************************************************************************)

\* An entry of the file: a channel or a gap.
EntryType == [object : Nat, type : DataType, mask : SUBSET (0..(ByteBits - 1)),
              interface : STRING, factor : Int, offset : Int, default : Double]

ConfigType == [rpdo : Seq(EntryType), rpdos : Seq(Nat),
               tpdo : Seq(EntryType), tpdos : Seq(Nat),
               sm : Seq([loads : BOOLEAN, pdo : {"null", "rpdo", "tpdo"}]),
               sdo : Seq([loads : BOOLEAN, object : STRING, type : DataType, value : Int])]

ComponentType == [joint : BOOLEAN, right : BOOLEAN, commands : Seq(STRING), states : Seq(STRING)]

\* The bits an entry has in its direction, and those that stand for its object.
EntryBits(list, c) == BitsBefore(list, c)..(BitsBefore(list, c) + list[c].type.bits - 1)

ObjectBit(entry) == IF IsInteger(entry.type) THEN 0..(entry.type.bits - 1) ELSE entry.mask

ByteOf(list, c, bits) == {(BitsBefore(list, c) \div ByteBits) * ByteBits + b : b \in bits}

\* An integer begins on a byte, a mask stays within the bits of its entry, and the
\* byte of an output with a mask of several bits, all of which a write replaces,
\* holds no other object.
WellPlaced(list) ==
  \A c \in DOMAIN list : list[c].object # 0 =>
    /\ ByteOf(list, c, ObjectBit(list[c])) \subseteq EntryBits(list, c)
    /\ ~IsInteger(list[c].type) => list[c].mask # {}
    /\ ~IsInteger(list[c].type) /\ Cardinality(list[c].mask) > 1 =>
         \A d \in DOMAIN list \ {c} : list[d].object # 0 =>
           ByteOf(list, c, 0..(ByteBits - 1)) \cap EntryBits(list, d) = {}

\* Every object is mapped once, the PDOs divide the entries among them, and an
\* SDO names an object of the slave with a value of its type.
WellConfigured(module) ==
  LET config == module.config
      all == AllChannels(config)
  IN  /\ config \in ConfigType
      /\ \E c \in DOMAIN all : all[c].object # 0
      /\ \A c, d \in DOMAIN all : all[c].object = all[d].object => c = d \/ all[c].object = 0
      /\ WellPlaced(config.rpdo) /\ WellPlaced(config.tpdo)
      /\ Total(config.rpdos, Len(config.rpdos)) = Len(config.rpdo)
      /\ Total(config.tpdos, Len(config.tpdos)) = Len(config.tpdo)
      /\ \A x \in DOMAIN config.sdo :
           /\ config.sdo[x].object \in DOMAIN module.objects
           /\ config.sdo[x].loads /\ IsInteger(config.sdo[x].type) =>
                InRange(config.sdo[x].value, config.sdo[x].type)

\* No two inputs of a component feed the same interface.
OneSource(s, m, n) ==
  LET tpdo(x) == s.modules[x].config.tpdo
      k == s.modules[m].component
  IN  s.modules[n].component = k =>
        \A c \in DOMAIN tpdo(m), d \in DOMAIN tpdo(n) :
          /\ tpdo(m)[c].interface = tpdo(n)[d].interface
          /\ tpdo(m)[c].interface \in ToSet(s.components[k].states)
          => m = n /\ c = d

WellFormed(s) ==
  /\ s.modules \in Seq(ToSet(s.modules)) \ {<<>>}
  /\ \E m \in DOMAIN s.modules : ~s.modules[m].refused
  /\ \A m \in DOMAIN s.modules : /\ s.modules[m].component \in DOMAIN s.components
                                 /\ WellConfigured(s.modules[m])
                                 /\ \A n \in DOMAIN s.modules : OneSource(s, m, n)
  /\ \A k \in DOMAIN s.components :
       /\ s.components[k] \in ComponentType
       /\ \A name \in ToSet(s.components[k].commands) : CommandValues[name] \subseteq Double

ASSUME SetupsAssumption == \A s \in Setups : WellFormed(s)

-----------------------------------------------------------------------------
(***************************************************************************)
(* Properties                                                              *)
(***************************************************************************)

\* Type invariant of the driver's data; the loop counters never leave the lists
\* they run over, and every registration of an active master has its address.
TypeOK ==
  /\ setup \in Setups
  /\ phase \in {"on_init", "add", "sdo", "activate", "receive", "process", "send",
                "controllers", "write", "error", "terminated"}
  /\ pass \in {"none", "update", "read", "write"}
  /\ phase \in {"receive", "process", "send"} => pass # "none"
  /\ at \in CASE phase = "on_init"        -> Modules
              [] phase \in {"add", "sdo"} -> DOMAIN ec_modules_
              [] phase = "process"        -> DOMAIN entries
              [] OTHER                    -> Nat
  /\ inner \in CASE phase = "sdo"     -> 1..(Len(ec_modules_[at].sdo_config) + 1)
                 [] phase = "process" -> 1..(entries[at].num_pdos + 1)
                 [] OTHER             -> Nat
  /\ DOMAIN hw_commands = Components /\ DOMAIN hw_states = Components
  /\ \A k \in Components :
       /\ hw_commands[k] \in [DOMAIN setup.components[k].commands -> Double]
       /\ hw_states[k] \in [DOMAIN setup.components[k].states -> Double]
  /\ \A e \in DOMAIN entries :
       entries[e].offset \in [1..entries[e].num_pdos -> IF pass = "none" THEN {Unset} ELSE Nat]
  /\ domain_pd \subseteq Nat
  /\ Len(ec_modules_) <= Len(setup.modules)

\* What the controllers see: interfaces by name.
ByName(names, values) == [n \in ToSet(names) |-> values[InterfaceIndex(names, n)]]

export_command_interfaces ==
  [k \in Components |-> ByName(setup.components[k].commands, hw_commands[k])]

export_state_interfaces ==
  [k \in Components |-> ByName(setup.components[k].states, hw_states[k])]

\* The objects of a configuration, and where they lie: every direction of every
\* slave the master took that has an object is after the one before.
ConfiguredObjects ==
  [s \in Setups |->
     {o \in UNION {{m} \X DOMAIN AllChannels(s.modules[m].config) : m \in DOMAIN s.modules} :
        AllChannels(s.modules[o[1]].config)[o[2]].object # 0}]

DirectionSizes(s) ==
  [m \in DOMAIN s.modules |-> [pdo \in Directions |->
     LET list == s.modules[m].config[pdo]
     IN  IF ~s.modules[m].refused /\ \E c \in DOMAIN list : list[c].object # 0
           THEN Bytes(list) ELSE 0]]

DeclaredByte(s, m, c) ==
  LET config == s.modules[m].config
      outputs == Len(config.rpdo)
      byte(pdo, x) == Start(DirectionSizes(s), m, pdo)
                        + BitsBefore(config[pdo], x) \div ByteBits
  IN  IF c <= outputs THEN byte("rpdo", c) ELSE byte("tpdo", c - outputs)

\* The bits of an object in the process data, by their number in its byte and in
\* those after it.
Declared ==
  [s \in Setups |-> [o \in ConfiguredObjects[s] |->
     IF s.modules[o[1]].refused THEN <<>>
     ELSE [b \in ObjectBit(AllChannels(s.modules[o[1]].config)[o[2]]) |->
             DeclaredByte(s, o[1], o[2]) * ByteBits + b]]]

ObjectBits(o) ==
  LET place == Declared[setup][o] IN {b \in DOMAIN place : place[b] \in domain_pd}

Abstract ==
  INSTANCE SlaveObjects WITH commands <- export_command_interfaces,
                             states <- export_state_interfaces,
                             objects <- [o \in ConfiguredObjects[setup] |-> ObjectBits(o)]

\* Every step of the driver is an exchange of one object with one interface, or
\* nothing at all to the controllers and the slaves: the registrations, the
\* indices and the bytes in between (ec_pdo_channel_manager.hpp,
\* generic_ec_slave.cpp, ec_master.cpp) never reach another object.
ObjectsExchanged == Abstract!Spec

\* The command an output's controller wrote last, if it has one and has written.
Given(m, c) ==
  LET ch == Abstract!Channel(m, c)
      k == Abstract!Component(m)
  IN  IF ch.interface \in Abstract!CommandNames(k)
        THEN given[k][InterfaceIndex(setup.components[k].commands, ch.interface)] ELSE NaN

\* What a frame is to bring an output.  Without a number from its controller it
\* has its default; a joint's command has the zero of write instead, from the
\* first write on.
Intended(m, c) ==
  LET ch == Abstract!Channel(m, c)
      k == Abstract!Component(m)
      rests == /\ setup.components[k].joint /\ pass = "write"
               /\ ch.interface \in Abstract!CommandNames(k)
      encoded(command) == ch.factor * Abstract!Sign(m, ch) * command + ch.offset
  IN  IF Given(m, c) # NaN THEN encoded(Given(m, c))
      ELSE IF rests THEN encoded(0)
      ELSE ch.default

\* The frame of a pass holds, for every output of every slave the master took,
\* the number its controller wrote last, whatever the position of its channel;
\* without one, the default of its channel, or for a joint, once write has run,
\* rest (write, writeData, processData, ec_update).
FrameCarriesCommands ==
  phase = "send" =>
    \A o \in ConfiguredObjects[setup] :
      LET value == Intended(o[1], o[2])
      IN  ~setup.modules[o[1]].refused /\ Abstract!IsOutput(o[1], o[2]) /\ value # NaN
            => ObjectBits(o) \in Abstract!Encodings(Abstract!Channel(o[1], o[2]), value)

\* When the controllers run, each interface an input feeds shows what the slave
\* sent in the last frame (read, readData, processData, ec_update).
ShownStatesAreCurrent ==
  phase = "controllers" =>
    \A o \in ConfiguredObjects[setup] :
      LET ch == Abstract!Channel(o[1], o[2])
          shown == export_state_interfaces[Abstract!Component(o[1])]
      IN  ~setup.modules[o[1]].refused /\ ~Abstract!IsOutput(o[1], o[2])
          /\ ch.interface \in DOMAIN shown
            => shown[ch.interface] = Abstract!Decoded(o[1], ch, ObjectBits(o))

\* Before any frame leaves, every object the SDOs of a slave's configuration
\* name has the value of the last of them that loads, also when an object is
\* configured several times (load_from_config, on_activate, configSlaveSdo).
SdosApplied ==
  pass # "none" =>
    \A m \in Modules :
      LET list == setup.modules[m].config.sdo
          of(object) == {x \in DOMAIN list : list[x].loads /\ list[x].object = object}
      IN  \A object \in DOMAIN dictionary[m] :
            of(object) # {} => dictionary[m][object] = list[Max(of(object))].value

\* A description whose tags are there, whose SDOs have the sizes of their objects
\* and whose sync managers carry every PDO list with an object in it.
Sound ==
  \A m \in Modules :
    LET module == setup.modules[m]
        loading == {sm \in ToSet(module.config.sm) : sm.loads}
        named(pdo) == loading = {} \/ \E sm \in loading : sm.pdo = pdo
        objects(list) == {c \in DOMAIN list : list[c].object # 0}
    IN  /\ module.complete /\ module.lacks = {}
        /\ \A x \in DOMAIN module.config.sdo :
             LET sdo == module.config.sdo[x]
             IN  sdo.loads => IsInteger(sdo.type) /\ sdo.type.bits = module.objects[sdo.object]
        /\ module.refused \/ /\ objects(module.config.rpdo) = {} \/ named("rpdo")
                             /\ objects(module.config.tpdo) = {} \/ named("tpdo")

\* A sound description comes to exchange process data with the slaves again and
\* again: no step between on_init and the control loop is lost on it.
SoundSetupsRun == Sound => []<>(phase = "send" /\ pass = "write")
=============================================================================
