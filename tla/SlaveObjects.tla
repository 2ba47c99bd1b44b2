---------------------------- MODULE SlaveObjects ----------------------------
(***************************************************************************)
(* What the driver promises the controllers about the slaves' objects.     *)
(*                                                                         *)
(* A slave has one object per channel of its configuration that is not a   *)
(* gap.  A controller sees named interfaces.  From time to time an output  *)
(* object takes the command of the interface its channel names, or the     *)
(* channel's default, and the interface an input channel names takes what  *)
(* the object holds; each without any effect on another object or          *)
(* interface.  There are no bytes here, no registrations and no indices.   *)
(***************************************************************************)
EXTENDS PdoTypes, Sequences, SequencesExt

CONSTANT
  CommandValues             \* what controllers write, by name of the interface

VARIABLES
  setup,                    \* the hardware description and the configurations
  commands, states,         \* by component and name
  objects                   \* the bits of each object, by module and channel

vars == <<setup, commands, states, objects>>

Components == DOMAIN setup.components
CommandNames(k) == ToSet(setup.components[k].commands)
StateNames(k) == ToSet(setup.components[k].states)

\* The channels of a configuration, as the file lists them.
Declared(config) == config.rpdo \o config.tpdo

Channel(m, c) == Declared(setup.modules[m].config)[c]
IsOutput(m, c) == c <= Len(setup.modules[m].config.rpdo)
IsGap(ch) == ch.object = 0
Component(m) == setup.modules[m].component

Objects ==
  {o \in UNION {{m} \X DOMAIN Declared(setup.modules[m].config) : m \in DOMAIN setup.modules} :
     ~IsGap(Channel(o[1], o[2]))}

\* Both layers of the driver turn a right side wheel's velocity around here.
Sign(m, ch) ==
  IF setup.components[Component(m)].right /\ ch.interface = "velocity" THEN -1 ELSE 1

Initially ==
  /\ commands = [k \in Components |-> [n \in CommandNames(k) |-> NaN]]
  /\ states = [k \in Components |-> [n \in StateNames(k) |->
                 IF setup.components[k].joint /\ n = "position" THEN 0 ELSE NaN]]
  /\ objects = [o \in Objects |-> {}]

-----------------------------------------------------------------------------

\* The value an output object is to take, or NaN to leave it.
Wanted(m, c) ==
  LET ch == Channel(m, c)
      k == Component(m)
  IN  IF ch.interface \in CommandNames(k) /\ commands[k][ch.interface] # NaN
        THEN ch.factor * Sign(m, ch) * commands[k][ch.interface] + ch.offset
        ELSE ch.default

\* The bits that stand for a value in an object.  A single bit tells zero from
\* not zero; a field keeps the bits of its mask.
Encodings(ch, value) ==
  IF IsInteger(ch.type) THEN Cast(value, ch.type)
  ELSE IF Cardinality(ch.mask) = 1 THEN {IF value # 0 THEN ch.mask ELSE {}}
  ELSE {bits \cap ch.mask : bits \in Cast(value, uint8)}

\* The value an interface takes from the bits of an object.
Decoded(m, ch, bits) ==
  LET raw == CASE IsInteger(ch.type)     -> Number(bits, ch.type)
               [] ch.type.kind = "bool"  -> IF bits # {} THEN 1 ELSE 0
               [] OTHER                  -> Unsigned(bits, ByteBits)
  IN  Sign(m, ch) * (ch.factor * raw * Resolution + ch.offset)

\* An output object takes its value.
TakeCommand(m, c) ==
  /\ IsOutput(m, c)
  /\ Wanted(m, c) # NaN
  /\ \E bits \in Encodings(Channel(m, c), Wanted(m, c)) :
       objects' = [objects EXCEPT ![<<m, c>>] = bits]
  /\ UNCHANGED <<setup, commands, states>>

\* An interface takes what an input object holds.
ShowState(m, c) ==
  LET ch == Channel(m, c)
      k == Component(m)
  IN  /\ ~IsOutput(m, c)
      /\ ch.interface \in StateNames(k)
      /\ states' = [states EXCEPT ![k][ch.interface] = Decoded(m, ch, objects[<<m, c>>])]
      /\ UNCHANGED <<setup, commands, objects>>

\* The slaves change their input objects.
Measure ==
  /\ \A o \in DOMAIN objects : IsOutput(o[1], o[2]) => objects'[o] = objects[o]
  /\ DOMAIN objects' = DOMAIN objects
  /\ UNCHANGED <<setup, commands, states>>

\* The controllers write the interfaces they command.
Control ==
  /\ \A k \in Components : \A n \in CommandNames(k) :
       commands'[k][n] \in CommandValues[n] \cup {commands[k][n]}
  /\ UNCHANGED <<setup, states, objects>>

\* A joint that is not commanded is brought to rest.
Rest ==
  /\ commands' = [k \in Components |-> [n \in CommandNames(k) |->
                    IF setup.components[k].joint /\ commands[k][n] = NaN
                      THEN 0 ELSE commands[k][n]]]
  /\ UNCHANGED <<setup, states, objects>>

Next ==
  \/ \E o \in Objects : TakeCommand(o[1], o[2]) \/ ShowState(o[1], o[2])
  \/ Measure
  \/ Control
  \/ Rest

Spec == Initially /\ [][Next]_vars
=============================================================================
