----------------------------- MODULE MCApiCall -----------------------------
(* ApiCall on two gateways.  Allocations do not fail here: MCConnection
   looks at what is left of the lists when one does. *)
EXTENDS ApiCall

TypedPorts == {0, 8443}
(* One refused on each side of the range of libcurl. *)
TypedTimeouts == {-1, 5, 6}
LongestTimeout == 5
TimeoutOnOff == {0, 5}

GatewayAdverts ==
  {[host |-> CHOOSE h \in Hosts : TRUE, ip |-> CHOOSE a \in Addrs : TRUE,
    port |-> 443]}

(* A good answer, no answer, and a transfer cut off after the status line.
   What a refusal's code would be makes no difference to a request. *)
TransferEnds ==
  {[ok |-> TRUE, code |-> 200], [ok |-> FALSE, code |-> 0], [ok |-> FALSE, code |-> 200]}

(* Every answer that arrives is whole. *)
WholeAnswers == {out \in TransferEnds : out.ok \/ out.code = 0}
=============================================================================
