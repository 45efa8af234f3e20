----------------------------- MODULE MCDevices -----------------------------
(* Devices on answers of up to three objects: one that fills three cells, one
   that fills one, and one for each way out of addDevice(), put before and
   after one that is accepted. *)
EXTENDS Devices

CONSTANTS u1, u2, n1, n2

(* Two labels that are stored alike. *)
TypedLabels == {<<"x", " ", "y">>, <<"x", "_", "y">>}

Device(label, url, commands, states) ==
  [label |-> label, url |-> url, commands |-> commands, states |-> states]

Full  == Device(<<"x", " ", "y">>, u1, <<n1>>, <<n2>>)
Plain == Device(<<"x", "_", "y">>, u2, <<>>, <<>>)

GatewayObjects == {
  Full, Plain, NULL,
  [Plain EXCEPT !.label = NULL],
  [Plain EXCEPT !.commands = NULL],
  [Full EXCEPT !.commands = <<n1, NULL>>],
  [Full EXCEPT !.commands = <<n1, Nameless>>],
  [Full EXCEPT !.states = NotArray],
  [Full EXCEPT !.states = <<n2, NULL>>] }

GatewayAnswers ==
  {<<>>, NotArray} \cup {<<o>> : o \in GatewayObjects}
  \cup {<<o, Full>> : o \in GatewayObjects}
  \cup {<<Plain, o>> : o \in GatewayObjects}
  \cup {<<Plain, Plain, Plain>>}

Symmetry == Permutations(Cells)
=============================================================================
