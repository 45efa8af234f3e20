---------------------------- MODULE MCConnection ----------------------------
(* Connection on a small set of settings, with allocations that may fail. *)
EXTENDS Connection

(* 0 and 65536 both leave port at 0; 73979 wraps to the 8443 of a gateway. *)
TypedPorts == {0, 443, 65536, 73979}

(* Two gateways advertise themselves, one of them with port 0. *)
GatewayAdverts ==
  LET host == CHOOSE h \in Hosts : TRUE
      other == CHOOSE h \in Hosts \ {host} : TRUE
      addr == CHOOSE a \in Addrs : TRUE
  IN  {[host |-> host, ip |-> addr, port |-> 8443],
       [host |-> other, ip |-> addr, port |-> 0]}
=============================================================================
