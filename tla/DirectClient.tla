---------------------------- MODULE DirectClient ----------------------------
(***************************************************************************)
(* What the connection layer promises: a client without caches.  There is  *)
(* one configuration, any part of which may change at any time, and a      *)
(* request, when one is sent, is made of the configuration of that moment. *)
(* ApiCall, with its base URL, lists and easy handle, implements it.       *)
(***************************************************************************)
CONSTANTS Hosts, Addrs, Tokens, Ports, NULL

VARIABLES
  config,   \* [host, ip, port, token]
  request   \* the last request sent, or NULL

Configs == [host : Hosts \cup {NULL}, ip : Addrs \cup {NULL},
            port : Ports, token : Tokens \cup {NULL}]

Ready(c) == c.host # NULL /\ c.ip # NULL /\ c.port # 0 /\ c.token # NULL

(* The address called, the pinned name resolution and the two headers that
   depend on the configuration. *)
RequestOf(c) ==
  [url |-> [ip |-> c.ip, port |-> c.port],
   pinned |-> [host |-> c.host, port |-> c.port, ip |-> c.ip],
   bearer |-> c.token,
   hostHeader |-> [host |-> c.host, port |-> c.port]]

Init == config \in Configs /\ ~Ready(config) /\ request = NULL

Configure == config' \in Configs /\ UNCHANGED request

Send ==
  /\ Ready(config)
  /\ request' = RequestOf(config)
  /\ UNCHANGED config

Spec == Init /\ [][Configure \/ Send]_<<config, request>>
=============================================================================
