----------------------------- MODULE Discovery -----------------------------
(***************************************************************************)
(* scan_TaHoma: the mDNS scan and its callbacks.  While its event loop     *)
(* runs, services come and go on the network and Avahi reports them; the   *)
(* scan ends with the first one that is resolved, or on a failure of       *)
(* Avahi.  There is no timeout.                                            *)
(*                                                                         *)
(* Discovery refines Connection, where a scan is one step that may set     *)
(* what was advertised: here are the steps that lead to it.                *)
(***************************************************************************)
EXTENDS Connection

CONSTANTS
  Services,   \* announcements of a gateway: [host, over], over being "v4" or "v6"
  V6          \* the addresses of Addrs that are IPv6 ones

ASSUME ServicesAssumption ==
  /\ Services \subseteq [host : Hosts, over : {"v4", "v6"}]
  /\ V6 \subseteq Addrs

VARIABLES
  avahiIP,   \* "any", or what the last of the options -4 and -6 asked for
  loop,      \* simple_poll: "none", "new", "running" or "quit"
  lan,       \* the services on the network
  known,     \* those the browser has reported and not removed
  pending,   \* those a resolver was created for that has not answered
  missed     \* a service was reported in this scan and could not be resolved

scanVars == <<loop, known, pending, missed>>
discVars == <<connVars, avahiIP, scanVars, lan>>

DiscInit ==
  /\ Init
  /\ avahiIP = "any"
  /\ loop = "none" /\ known = {} /\ pending = {} /\ missed = FALSE
  /\ lan \in SUBSET Services

(* The browser listens on the protocol asked for. *)
Visible(s) == avahiIP \in {"any", s.over}

OptionFamily(f) ==
  /\ phase = "options"
  /\ avahiIP' = f
  /\ UNCHANGED <<connVars, scanVars, lan>>

-----------------------------------------------------------------------------
(* func_scan() up to its event loop *)

StartScan ==
  /\ func_scan
  /\ loop' = "new" /\ known' = {} /\ pending' = {} /\ missed' = FALSE
  /\ UNCHANGED <<avahiIP, lan>>

(* No poll object, client or browser: func_scan() skips buildURL(), which
   would find no host. *)
StartFails ==
  /\ loop = "new"
  /\ loop' = "none" /\ phase' = "run"
  /\ UNCHANGED <<settings, built, avahiIP, known, pending, missed, lan>>

EnterLoop ==
  /\ loop = "new"
  /\ loop' = "running"
  /\ UNCHANGED <<connVars, avahiIP, known, pending, missed, lan>>

-----------------------------------------------------------------------------
(* Callbacks.  The loop dispatches one at a time and tests for the end in
   between, so that none is called once another has asked it to quit. *)

(* AVAHI_BROWSER_NEW; a resolver that cannot be created is only reported. *)
browse_new(s) ==
  /\ loop = "running"
  /\ s \in lan \ known /\ Visible(s)
  /\ known' = known \cup {s}
  /\ \/ pending' = pending \cup {s} /\ UNCHANGED missed
     \/ missed' = TRUE /\ UNCHANGED pending
  /\ UNCHANGED <<connVars, avahiIP, loop, lan>>

(* AVAHI_BROWSER_REMOVE; its resolver, if any, goes on. *)
browse_remove(s) ==
  /\ loop = "running"
  /\ s \in known \ lan
  /\ known' = known \ {s}
  /\ UNCHANGED <<connVars, avahiIP, loop, pending, missed, lan>>

(* A callback that frees the loop it is called from. *)
FailureFreesLoop ==
  /\ loop = "running"
  /\ loop' = "none"
  /\ UNCHANGED <<connVars, avahiIP, known, pending, missed, lan>>

(* AVAHI_BROWSER_FAILURE, AVAHI_CLIENT_FAILURE or an error of poll(). *)
avahi_failure ==
  /\ loop = "running"
  /\ loop' = "quit"
  /\ UNCHANGED <<connVars, avahiIP, known, pending, missed, lan>>

(* A callback that does not end the loop. *)
FoundGoesOn(s, advert) ==
  /\ loop = "running" /\ s \in pending /\ advert.host = s.host
  /\ resolve_found(advert)
  /\ pending' = pending \ {s}
  /\ UNCHANGED <<avahiIP, loop, known, missed, lan>>

(* A callback that keeps the port. *)
FoundKeepsPort(s, advert) ==
  /\ loop = "running" /\ s \in pending /\ advert.host = s.host
  /\ tahoma' = advert.host /\ ip' = advert.ip
  /\ loop' = "quit" /\ pending' = pending \ {s}
  /\ UNCHANGED <<phase, port, token, built, avahiIP, known, missed, lan>>

(* AVAHI_RESOLVER_FOUND.  The resolver takes addresses of any family. *)
resolver_found(s, advert) ==
  /\ loop = "running" /\ s \in pending /\ advert.host = s.host
  /\ resolve_found(advert)
  /\ loop' = "quit" /\ pending' = pending \ {s}
  /\ UNCHANGED <<avahiIP, known, missed, lan>>

(* AVAHI_RESOLVER_FAILURE: the service timed out and is not tried again. *)
resolver_failure(s) ==
  /\ loop = "running" /\ s \in pending
  /\ pending' = pending \ {s} /\ missed' = TRUE
  /\ UNCHANGED <<connVars, avahiIP, loop, known, lan>>

(* The end of func_scan(); freeing the client frees its resolvers. *)
LoopReturns ==
  /\ loop = "quit"
  /\ ScanReturns
  /\ loop' = "none" /\ known' = {} /\ pending' = {} /\ missed' = FALSE
  /\ UNCHANGED <<avahiIP, lan>>

(* Gateways are switched on and off; it only matters during a scan. *)
NetworkChanges(s) ==
  /\ phase = "scanning"
  /\ lan' = IF s \in lan THEN lan \ {s} ELSE lan \cup {s}
  /\ UNCHANGED <<connVars, avahiIP, scanVars>>

-----------------------------------------------------------------------------
OtherCommand ==
  /\ \/ \E h \in Hosts : OptionHost(h)
     \/ \E n \in PortArgs : OptionPort(n)
     \/ OptionsRead
     \/ SetSetting
     \/ Exit
  /\ UNCHANGED <<avahiIP, scanVars, lan>>

Resolved(s) == (\E advert \in Adverts : resolver_found(s, advert)) \/ resolver_failure(s)

DiscNext ==
  \/ OtherCommand
  \/ \E f \in {"v4", "v6"} : OptionFamily(f)
  \/ StartScan \/ StartFails \/ EnterLoop
  \/ \E s \in Services :
       \/ browse_new(s)
       \/ browse_remove(s)
       \/ Resolved(s)
       \/ NetworkChanges(s)
  \/ avahi_failure
  \/ LoopReturns

(* The program keeps running its own steps; Avahi reports a service that
   stays on the network, and each resolver ends with an answer or with
   Avahi's own timeout.  Nothing is assumed of the user or the network. *)
Fairness ==
  /\ WF_discVars(StartFails \/ EnterLoop)
  /\ WF_discVars(LoopReturns)
  /\ \A s \in Services : WF_discVars(browse_new(s)) /\ WF_discVars(Resolved(s))

DiscSpec == DiscInit /\ [][DiscNext]_discVars /\ Fairness

-----------------------------------------------------------------------------
(* Types; and the loop exists exactly as long as func_scan() runs, so that no
   callback is left to change the settings behind a prompt. *)
DiscTypeOK ==
  /\ TypeOK
  /\ avahiIP \in {"any", "v4", "v6"}
  /\ loop \in {"none", "new", "running", "quit"}
  /\ lan \subseteq Services /\ known \subseteq Services /\ pending \subseteq Services
  /\ missed \in BOOLEAN
  /\ loop = "none" <=> phase # "scanning"

(* Seen from its settings a scan is the one of Connection, so all that is
   proved there holds with the callbacks in place. *)
ImplementsConnection == Spec

(* With a gateway that is on the network for good, a scan ends unless one of
   the services it reported could not be resolved.  Nothing bounds a scan
   otherwise: without gateway, or after such a failure, it waits for ever. *)
ScanEnds ==
  (\E s \in Services : <>[](s \in lan /\ Visible(s)))
    => (phase = "scanning" ~> phase # "scanning" \/ missed)

(* "-4 : resolve Avahi advertisement in IPv4 only", "-6 : ... in IPv6 only":
   a scan leaves an address of the family asked for. *)
FamilyRespected ==
  [][phase = "scanning" /\ phase' = "run" /\ tahoma' # NULL =>
       /\ avahiIP = "v4" => ip' \notin V6
       /\ avahiIP = "v6" => ip' \in V6]_discVars
=============================================================================
