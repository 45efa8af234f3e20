---------------------------- MODULE MCDiscovery ----------------------------
(* Discovery with one gateway announced over IPv4 and IPv6, and reachable
   by an address of each family. *)
EXTENDS Discovery

CONSTANTS h1, a4, a6

GatewayServices == {[host |-> h1, over |-> "v4"], [host |-> h1, over |-> "v6"]}

GatewayAdverts ==
  {[host |-> h1, ip |-> a4, port |-> 8443], [host |-> h1, ip |-> a6, port |-> 8443]}

(* 65979 is 443 once cast to uint16_t. *)
TypedPorts == {0, 65979}
=============================================================================
