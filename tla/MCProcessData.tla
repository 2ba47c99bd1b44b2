--------------------------- MODULE MCProcessData ---------------------------
(***************************************************************************)
(* Small hardware descriptions: bytes of two bits, halves as the fraction. *)
(***************************************************************************)
EXTENDS ProcessData

int8 == [kind |-> "int", bits |-> 2]
int16 == [kind |-> "int", bits |-> 4]
bool == [kind |-> "bool", bits |-> 1]
bit1 == [kind |-> "bit", bits |-> 1]
bit2 == [kind |-> "bit", bits |-> 2]

Entry(object, type, mask, interface) ==
  [object |-> object, type |-> type, mask |-> mask, interface |-> interface,
   factor |-> 1, offset |-> 0, default |-> NaN]

Gap(type) == Entry(0, type, {0, 1}, "none")

Sdo(loads, object, type, value) ==
  [loads |-> loads, object |-> object, type |-> type, value |-> value]

Module(component, config) ==
  [component |-> component, complete |-> TRUE, lacks |-> {}, refused |-> FALSE,
   objects |-> ("mode" :> 2 @@ "limit" :> 4), config |-> config]

\* A wheel on the right side: a gap before its velocity, which has a default of
\* its own, and a control word nobody commands.
wheel ==
  [rpdo |-> <<Gap(int8), [Entry(1, int16, {}, "velocity") EXCEPT !.factor = 2, !.offset = 2,
                                                                  !.default = 6],
              [Entry(2, uint8, {}, "none") EXCEPT !.default = 4]>>,
   rpdos |-> <<3>>,
   tpdo |-> <<Entry(3, int8, {}, "velocity")>>,
   tpdos |-> <<1>>,
   sm |-> <<>>,
   sdo |-> <<Sdo(TRUE, "mode", uint8, 1), Sdo(FALSE, "mode", uint8, 3),
             Sdo(TRUE, "limit", int16, -3), Sdo(TRUE, "mode", uint8, 2)>>]

\* Two digital outputs in one byte, one PDO each, and a field in the next one;
\* the sync managers name the inputs first.
outputs ==
  [rpdo |-> <<Entry(1, bool, {0}, "lamp"), [Entry(2, bit1, {1}, "horn") EXCEPT !.default = 2],
              Entry(3, bit2, {0, 1}, "tone")>>,
   rpdos |-> <<1, 1, 1>>,
   tpdo |-> <<Gap(bit1), Entry(4, bool, {1}, "button"), Entry(5, bit2, {0, 1}, "dial")>>,
   tpdos |-> <<2, 1>>,
   sm |-> <<[loads |-> TRUE, pdo |-> "tpdo"], [loads |-> FALSE, pdo |-> "null"],
            [loads |-> TRUE, pdo |-> "rpdo"]>>,
   sdo |-> <<Sdo(TRUE, "limit", int16, 5)>>]

\* Outputs with nothing but gaps in front of inputs.
padded == [outputs EXCEPT !.rpdo = <<Gap(int8), Gap(int8)>>, !.rpdos = <<1, 1>>]

joint == [joint |-> TRUE, right |-> TRUE, commands |-> <<"effort", "velocity">>,
          states |-> <<"position", "velocity">>]
gpio == [joint |-> FALSE, right |-> FALSE, commands |-> <<"lamp", "horn", "tone">>,
         states |-> <<"dial", "button">>]

Described(modules) == [components |-> <<joint, gpio>>, modules |-> modules]

rover == Described(<<Module(1, wheel), Module(2, outputs)>>)

MCSetups ==
  {rover,
   Described(<<Module(2, padded), Module(1, wheel)>>),
   Described(<<[Module(2, outputs) EXCEPT !.refused = TRUE], Module(1, wheel)>>),
   Described(<<Module(1, wheel), [Module(2, outputs) EXCEPT !.complete = FALSE]>>),
   Described(<<Module(2, outputs), [Module(1, wheel) EXCEPT !.lacks = {"slave_config"}]>>),
   Described(<<Module(1, [wheel EXCEPT !.sm = <<[loads |-> TRUE, pdo |-> "rpdo"]>>])>>),
   Described(<<Module(1, [wheel EXCEPT !.sdo = <<Sdo(TRUE, "limit", uint8, 1)>>])>>),
   Described(<<Module(1, [wheel EXCEPT !.sdo = <<Sdo(TRUE, "mode", bool, 1)>>])>>)}

MCCommandValues ==
  [effort |-> {NaN}, velocity |-> {NaN, 3}, lamp |-> {2}, horn |-> {0}, tone |-> {8}]

MCSamples == {1, 2}
=============================================================================
