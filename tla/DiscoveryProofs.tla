-------------------------- MODULE DiscoveryProofs --------------------------
(***************************************************************************)
(* Discovery refines Connection for all services and advertisements, so    *)
(* that the callbacks of a scan do not disturb what is proved of the       *)
(* settings and of the objects built from them.                            *)
(***************************************************************************)
EXTENDS Discovery, ConnectionProofs

USE DEF connVars, settings, built, discVars, scanVars

(* The event loop exists during a scan only, and until it runs there is no
   host: an early failure therefore has nothing to build. *)
LoopInv ==
  /\ loop \in {"none", "new", "running", "quit"}
  /\ loop = "none" <=> phase # "scanning"
  /\ loop = "new" => tahoma = NULL

LEMMA LoopInvInit == DiscInit => LoopInv
  BY DEF DiscInit, Init, LoopInv

LEMMA LoopInvStep == LoopInv /\ [DiscNext]_discVars => LoopInv'
<1> SUFFICES ASSUME LoopInv, [DiscNext]_discVars PROVE LoopInv'
  OBVIOUS
<1>1. CASE OtherCommand
  BY <1>1 DEF LoopInv, OtherCommand, OptionHost, OptionPort, OptionsRead, SetSetting,
              func_THost, func_TAddr, func_TPort, func_token, Exit
<1>2. CASE \E f \in {"v4", "v6"} : OptionFamily(f)
  BY <1>2 DEF LoopInv, OptionFamily
<1>3. CASE StartScan \/ StartFails \/ EnterLoop
  BY <1>3 DEF LoopInv, StartScan, func_scan, StartFails, EnterLoop
<1>4. ASSUME NEW s \in Services,
             browse_new(s) \/ browse_remove(s) \/ Resolved(s) \/ NetworkChanges(s)
      PROVE  LoopInv'
  BY <1>4 DEF LoopInv, browse_new, browse_remove, Resolved, resolver_found,
              resolve_found, resolver_failure, NetworkChanges
<1>5. CASE avahi_failure
  BY <1>5 DEF LoopInv, avahi_failure
<1>6. CASE LoopReturns
  BY <1>6 DEF LoopInv, LoopReturns, ScanReturns
<1>7. CASE UNCHANGED discVars
  BY <1>7 DEF LoopInv
<1> QED BY <1>1, <1>2, <1>3, <1>4, <1>5, <1>6, <1>7 DEF DiscNext

(* Each step of a scan is one of Connection, or leaves the settings and what
   is built from them alone. *)
LEMMA DiscStepIsConnStep == LoopInv /\ [DiscNext]_discVars => [Next]_connVars
<1> SUFFICES ASSUME LoopInv, [DiscNext]_discVars PROVE [Next]_connVars
  OBVIOUS
<1>1. CASE OtherCommand
  BY <1>1 DEF OtherCommand, Next
<1>2. CASE \E f \in {"v4", "v6"} : OptionFamily(f)
  BY <1>2 DEF OptionFamily
<1>3. CASE StartScan
  BY <1>3 DEF StartScan, Next
<1>4. CASE StartFails
  <2>1. phase = "scanning" /\ tahoma = NULL
    BY <1>4 DEF LoopInv, StartFails
  <2>2. ~IsComplete(tahoma, ip, port, token)
    BY <2>1 DEF IsComplete
  <2>3. BuildURL(tahoma, ip, port, token, url)
    BY <1>4, <2>2 DEF StartFails, BuildURL
  <2> QED BY <1>4, <2>1, <2>3 DEF StartFails, ScanReturns, Next
<1>5. CASE EnterLoop
  BY <1>5 DEF EnterLoop
<1>6. ASSUME NEW s \in Services,
             browse_new(s) \/ browse_remove(s) \/ Resolved(s) \/ NetworkChanges(s)
      PROVE  [Next]_connVars
  <2>1. CASE \E advert \in Adverts : resolver_found(s, advert)
    BY <2>1 DEF resolver_found, Next
  <2>2. CASE browse_new(s) \/ browse_remove(s) \/ resolver_failure(s) \/ NetworkChanges(s)
    BY <2>2 DEF browse_new, browse_remove, resolver_failure, NetworkChanges
  <2> QED BY <1>6, <2>1, <2>2 DEF Resolved
<1>7. CASE avahi_failure
  BY <1>7 DEF avahi_failure
<1>8. CASE LoopReturns
  BY <1>8 DEF LoopReturns, Next
<1>9. CASE UNCHANGED discVars
  BY <1>9
<1> QED BY <1>1, <1>2, <1>3, <1>4, <1>5, <1>6, <1>7, <1>8, <1>9 DEF DiscNext

(* The scan with its event loop and callbacks is a scan of Connection. *)
THEOREM RefinesConnection == DiscSpec => ImplementsConnection
<1>1. DiscInit => Init
  BY DEF DiscInit
<1> QED BY <1>1, LoopInvInit, LoopInvStep, DiscStepIsConnStep, PTL
        DEF DiscSpec, Spec, ImplementsConnection

(* So whatever Avahi reports, and in whatever order, callAPI() finds the URL
   of the current settings. *)
THEOREM URLCurrentInScans == DiscSpec => []URLCurrent
  BY RefinesConnection, URLAlwaysCurrent DEF ImplementsConnection

-----------------------------------------------------------------------------
(* Types: only announced services are known, resolved or waited for. *)

ScanTypeOK ==
  /\ avahiIP \in {"any", "v4", "v6"}
  /\ loop \in {"none", "new", "running", "quit"}
  /\ lan \subseteq Services /\ known \subseteq Services /\ pending \subseteq Services
  /\ missed \in BOOLEAN

LEMMA ScanTypeStep == ScanTypeOK /\ [DiscNext]_discVars => ScanTypeOK'
<1> SUFFICES ASSUME ScanTypeOK, [DiscNext]_discVars PROVE ScanTypeOK'
  OBVIOUS
<1>1. CASE OtherCommand
  BY <1>1 DEF ScanTypeOK, OtherCommand
<1>2. CASE \E f \in {"v4", "v6"} : OptionFamily(f)
  BY <1>2 DEF ScanTypeOK, OptionFamily
<1>3. CASE StartScan \/ StartFails \/ EnterLoop
  BY <1>3 DEF ScanTypeOK, StartScan, StartFails, EnterLoop
<1>4. ASSUME NEW s \in Services,
             browse_new(s) \/ browse_remove(s) \/ Resolved(s) \/ NetworkChanges(s)
      PROVE  ScanTypeOK'
  <2>1. CASE browse_new(s)
    BY <2>1 DEF ScanTypeOK, browse_new
  <2>2. CASE browse_remove(s)
    BY <2>2 DEF ScanTypeOK, browse_remove
  <2>3. CASE Resolved(s)
    BY <2>3 DEF ScanTypeOK, Resolved, resolver_found, resolver_failure
  <2>4. CASE NetworkChanges(s)
    BY <2>4 DEF ScanTypeOK, NetworkChanges
  <2> QED BY <1>4, <2>1, <2>2, <2>3, <2>4
<1>5. CASE avahi_failure
  BY <1>5 DEF ScanTypeOK, avahi_failure
<1>6. CASE LoopReturns
  BY <1>6 DEF ScanTypeOK, LoopReturns
<1>7. CASE UNCHANGED discVars
  BY <1>7 DEF ScanTypeOK
<1> QED BY <1>1, <1>2, <1>3, <1>4, <1>5, <1>6, <1>7 DEF DiscNext

(* Discovery keeps its types: those of the settings, and of what Avahi
   reported and the program waits for; a loop exists during scans only. *)
THEOREM DiscTypeCorrect == DiscSpec => []DiscTypeOK
<1>1. DiscInit => ScanTypeOK
  BY DEF DiscInit, ScanTypeOK
<1>2. DiscSpec => []ScanTypeOK
  BY <1>1, ScanTypeStep, PTL DEF DiscSpec
<1>3. DiscSpec => []TypeOK
  BY RefinesConnection, TypeCorrect DEF ImplementsConnection
<1>4. DiscSpec => []LoopInv
  BY LoopInvInit, LoopInvStep, PTL DEF DiscSpec
<1>5. TypeOK /\ ScanTypeOK /\ LoopInv => DiscTypeOK
  BY DEF DiscTypeOK, ScanTypeOK, LoopInv
<1> QED BY <1>2, <1>3, <1>4, <1>5, PTL
=============================================================================
