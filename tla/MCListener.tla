----------------------------- MODULE MCListener -----------------------------
(* Listener with two identifiers, so that one Event may meet what another
   has left on the gateway. *)
EXTENDS Listener
=============================================================================
