-------------------------- MODULE ConnectionProofs --------------------------
(***************************************************************************)
(* Proofs about Connection, for every set of hosts, addresses, tokens,     *)
(* port arguments and advertisements, whether or not allocations fail.     *)
(***************************************************************************)
EXTENDS Connection, TLAPS

USE DEF connVars, settings, built

(* uint16_t holds what the cast of an int leaves. *)
LEMMA CastInRange == \A n \in Int : UInt16(n) \in Ports
<1> SUFFICES ASSUME NEW n \in Int
             PROVE  UInt16(n) \in Ports
  OBVIOUS
<1> QED BY Z3T(30) DEF UInt16, Ports

(* The appends build a header list of the current token, host and port, or
   none at all; when none fails, the list holds all four lines. *)
LEMMA HeaderListType ==
  ASSUME NEW h \in Hosts, NEW p \in Ports, NEW t \in Tokens,
         NEW f \in {0, 2, 3, 4}
  PROVE  /\ HeaderList(f, h, p, t) \in HeaderLists \cup {NULL}
         /\ HeaderList(f, h, p, t) # NULL =>
              /\ HeaderList(f, h, p, t).token = t
              /\ HeaderList(f, h, p, t).host = h
              /\ HeaderList(f, h, p, t).port = p
         /\ f = 0 => /\ HeaderList(f, h, p, t) # NULL
                      /\ HeaderList(f, h, p, t).names = AllHeaders
<1>1. CASE f = 4
  BY <1>1 DEF HeaderList
<1>2. CASE f # 4
  <2>1. {HeaderNames[i] : i \in (f + 1) .. 4} \in SUBSET AllHeaders
    BY <1>2 DEF AllHeaders
  <2>2. HeaderList(f, h, p, t) \in HeaderLists
    BY <2>1, <1>2 DEF HeaderList, HeaderLists
  <2>3. HeaderList(f, h, p, t) # NULL
    BY <2>2, PointerAssumption
  <2>4. f = 0 => HeaderList(f, h, p, t).names = AllHeaders
    BY <1>2 DEF HeaderList, AllHeaders
  <2> QED BY <2>2, <2>3, <2>4, <1>2 DEF HeaderList
<1> QED BY <1>1, <1>2

(* A list that was freed leaves at most a dangling pointer in the handle. *)
LEMMA FreedType == \A pointer : Freed(pointer) \in {NULL, Dangling}
  BY DEF Freed

BuiltTypeOK ==
  /\ url \in URLs \cup {NULL}
  /\ resolve \in Overrides \cup {NULL}
  /\ headers \in HeaderLists \cup {NULL}
  /\ curl \in [resolve : Overrides \cup {NULL, Dangling},
               headers : HeaderLists \cup {NULL, Dangling}]
  /\ appendFailed \in BOOLEAN

(* What buildURL() guarantees on settings of the right types: it keeps the
   types; when they are complete it leaves the URL of these settings and
   their lists, whole unless an append failed; and the handle never keeps a
   list other than the two that stand. *)
LEMMA BuildURLLemma ==
  ASSUME NEW h \in Hosts \cup {NULL}, NEW a \in Addrs \cup {NULL},
         NEW p \in Ports, NEW t \in Tokens \cup {NULL},
         BuiltTypeOK, HandleHoldsLiveLists, BuildURL(h, a, p, t, url)
  PROVE  /\ BuiltTypeOK'
         /\ HandleHoldsLiveLists'
         /\ IsComplete(h, a, p, t) =>
              /\ url' = [ip |-> a, port |-> p]
              /\ resolve' \in {NULL, [host |-> h, port |-> p, ip |-> a]}
              /\ ListsComplete' =>
                   headers'.token = t /\ headers'.host = h /\ headers'.port = p
              /\ ~appendFailed' => /\ ListsComplete'
                                   /\ headers'.names = AllHeaders
<1>1. CASE ~IsComplete(h, a, p, t)
  BY <1>1 DEF BuildURL, BuiltTypeOK, HandleHoldsLiveLists, ListsComplete
<1>2. CASE IsComplete(h, a, p, t)
  <2> DEFINE override == [host |-> h, port |-> p, ip |-> a]
  <2>1. h \in Hosts /\ a \in Addrs /\ t \in Tokens
    BY <1>2 DEF IsComplete
  <2>2. url' = [ip |-> a, port |-> p] /\ url' \in URLs
    BY <1>2, <2>1 DEF BuildURL, URLs
  <2>3. override \in Overrides
    BY <2>1 DEF Overrides
  <2>4. \/ ResolveFails
        \/ AuthorizationFails(override)
        \/ ListsBuilt(override, h, p, t)
    BY <1>2 DEF BuildURL
  <2> HIDE DEF override
  <2>5. CASE ResolveFails
    <3>1. appendFailed' /\ appendFailed' \in BOOLEAN
      BY <2>5, Zenon DEF ResolveFails
    <3> QED BY <3>1, <2>2, <2>5, FreedType
            DEF ResolveFails, BuiltTypeOK, HandleHoldsLiveLists, ListsComplete
  <2>6. CASE AuthorizationFails(override)
    <3>1. appendFailed' /\ appendFailed' \in BOOLEAN
      BY <2>6, Zenon DEF AuthorizationFails
    <3>2. resolve' = override /\ headers' = NULL
          /\ curl' = [resolve |-> override, headers |-> Freed(curl.headers)]
      BY <2>6 DEF AuthorizationFails
    <3> QED BY <3>1, <3>2, <2>2, <2>3, FreedType
            DEF BuiltTypeOK, HandleHoldsLiveLists, ListsComplete, override
  <2>7. CASE ListsBuilt(override, h, p, t)
    <3>1. PICK f \in {0, 2, 3, 4} : /\ headers' = HeaderList(f, h, p, t)
                                     /\ appendFailed' = (f # 0)
      BY <2>7 DEF ListsBuilt
    <3>2. /\ headers' \in HeaderLists \cup {NULL}
          /\ headers' # NULL => /\ headers'.token = t
                                /\ headers'.host = h
                                /\ headers'.port = p
          /\ f = 0 => headers' # NULL /\ headers'.names = AllHeaders
      BY <3>1, <2>1, HeaderListType
    <3>3. resolve' = override /\ curl' = [resolve |-> override, headers |-> headers']
      BY <2>7 DEF ListsBuilt
    <3>4. override # NULL
      BY <2>3, PointerAssumption
    <3>5. appendFailed' \in BOOLEAN /\ (~appendFailed' => f = 0)
      BY <3>1
    <3> QED BY <3>2, <3>3, <3>4, <3>5, <2>2, <2>3
            DEF BuiltTypeOK, HandleHoldsLiveLists, ListsComplete, override
  <2> QED BY <2>4, <2>5, <2>6, <2>7
<1> QED BY <1>1, <1>2

-----------------------------------------------------------------------------
(* The options can set neither an address nor a token, and a scan has either
   cleared the host or copied one advertisement: without these two facts the
   properties are not inductive. *)
OptionsIncomplete == phase = "options" => ip = NULL /\ token = NULL

ScanHoldsAdvert ==
  phase = "scanning" =>
    \/ tahoma = NULL
    \/ [host |-> tahoma, ip |-> ip, port |-> port] \in Adverts

ConnInv ==
  /\ TypeOK
  /\ OptionsIncomplete
  /\ ScanHoldsAdvert
  /\ URLCurrent
  /\ ListsCurrent
  /\ HandleHoldsLiveLists

LEMMA TypeSplit ==
  TypeOK <=> /\ phase \in {"options", "run", "scanning", "exited"}
             /\ tahoma \in Hosts \cup {NULL}
             /\ ip \in Addrs \cup {NULL}
             /\ port \in Ports
             /\ token \in Tokens \cup {NULL}
             /\ BuiltTypeOK
  BY DEF TypeOK, BuiltTypeOK

(* The shape shared by the four setters and by the end of a scan: back at
   the prompt, with the lists built from the settings that are now there. *)
LEMMA Rebuilt ==
  ASSUME ConnInv, phase' = "run",
         tahoma' \in Hosts \cup {NULL}, ip' \in Addrs \cup {NULL},
         port' \in Ports, token' \in Tokens \cup {NULL},
         BuildURL(tahoma', ip', port', token', url)
  PROVE  ConnInv'
<1>1. BuiltTypeOK /\ HandleHoldsLiveLists
  BY TypeSplit DEF ConnInv
<1>2. /\ BuiltTypeOK'
      /\ HandleHoldsLiveLists'
      /\ Complete' =>
           /\ url' = [ip |-> ip', port |-> port']
           /\ resolve' \in {NULL, [host |-> tahoma', port |-> port', ip |-> ip']}
           /\ ListsComplete' =>
                /\ headers'.token = token' /\ headers'.host = tahoma'
                /\ headers'.port = port'
           /\ ~appendFailed' => ListsComplete' /\ headers'.names = AllHeaders
  BY <1>1, BuildURLLemma DEF Complete
<1>3. TypeOK'
  BY <1>2 DEF TypeOK, BuiltTypeOK
<1>4. URLCurrent' /\ ListsCurrent'
  BY <1>2 DEF URLCurrent, ListsCurrent, Usable
<1> QED BY <1>2, <1>3, <1>4 DEF ConnInv, OptionsIncomplete, ScanHoldsAdvert

LEMMA ConnInvInit == Init => ConnInv
<1> SUFFICES ASSUME Init PROVE ConnInv
  OBVIOUS
<1>1. TypeOK
  <2>1. appendFailed \in BOOLEAN
    BY Zenon DEF Init
  <2> QED BY <2>1 DEF Init, TypeOK, Ports
<1> QED BY <1>1 DEF Init, ConnInv, OptionsIncomplete, ScanHoldsAdvert,
            URLCurrent, ListsCurrent, HandleHoldsLiveLists, Usable, ListsComplete

LEMMA ConnInvStep == ConnInv /\ [Next]_connVars => ConnInv'
<1> SUFFICES ASSUME ConnInv, [Next]_connVars PROVE ConnInv'
  OBVIOUS
<1>0. /\ tahoma \in Hosts \cup {NULL} /\ ip \in Addrs \cup {NULL}
      /\ port \in Ports /\ token \in Tokens \cup {NULL}
  BY DEF ConnInv, TypeOK
<1>1. CASE \E h \in Hosts : OptionHost(h)
  <2>1. TypeOK'
    BY <1>1 DEF ConnInv, TypeOK, OptionHost
  <2> QED BY <2>1, <1>1 DEF ConnInv, OptionHost, OptionsIncomplete, ScanHoldsAdvert,
            URLCurrent, ListsCurrent, HandleHoldsLiveLists, Usable, ListsComplete
<1>2. CASE \E n \in PortArgs : OptionPort(n)
  <2>1. TypeOK'
    BY <1>2, CastInRange, SettingsAssumption DEF ConnInv, TypeOK, OptionPort
  <2> QED BY <2>1, <1>2 DEF ConnInv, OptionPort, OptionsIncomplete, ScanHoldsAdvert,
            URLCurrent, ListsCurrent, HandleHoldsLiveLists, Usable, ListsComplete
<1>3. CASE OptionsRead
  <2>1. ~Complete'
    BY <1>3 DEF ConnInv, OptionsRead, OptionsIncomplete, Complete, IsComplete
  <2>2. TypeOK' /\ HandleHoldsLiveLists'
    BY <1>3 DEF ConnInv, TypeOK, OptionsRead, HandleHoldsLiveLists, ListsComplete
  <2> QED BY <2>1, <2>2, <1>3 DEF ConnInv, OptionsRead, OptionsIncomplete,
            ScanHoldsAdvert, URLCurrent, ListsCurrent, Usable
<1>4. CASE SetSetting
  <2>1. CASE \E h \in Hosts : func_THost(h)
    BY <2>1, <1>0, Rebuilt DEF func_THost
  <2>2. CASE \E a \in Addrs : func_TAddr(a)
    BY <2>2, <1>0, Rebuilt DEF func_TAddr
  <2>3. CASE \E n \in PortArgs : func_TPort(n)
    <3>1. PICK n \in PortArgs : func_TPort(n)
      BY <2>3
    <3>2. port' \in Ports
      BY <3>1, CastInRange, SettingsAssumption DEF func_TPort
    <3> QED BY <3>1, <3>2, <1>0, Rebuilt DEF func_TPort
  <2>4. CASE \E t \in Tokens : func_token(t)
    BY <2>4, <1>0, Rebuilt DEF func_token
  <2> QED BY <1>4, <2>1, <2>2, <2>3, <2>4 DEF SetSetting
<1>5. CASE func_scan
  <2>1. TypeOK'
    BY <1>5 DEF ConnInv, TypeOK, func_scan
  <2> QED BY <2>1, <1>5 DEF ConnInv, func_scan, OptionsIncomplete, ScanHoldsAdvert,
            URLCurrent, ListsCurrent, HandleHoldsLiveLists, Usable, ListsComplete
<1>6. CASE \E advert \in Adverts : resolve_found(advert)
  <2>1. PICK advert \in Adverts : resolve_found(advert)
    BY <1>6
  <2>2. advert \in [host : Hosts, ip : Addrs, port : Ports]
    BY SettingsAssumption
  <2>3. TypeOK'
    BY <2>1, <2>2 DEF ConnInv, TypeOK, resolve_found
  <2>4. [host |-> tahoma', ip |-> ip', port |-> port'] = advert
    BY <2>1, <2>2 DEF resolve_found
  <2> QED BY <2>1, <2>3, <2>4 DEF ConnInv, resolve_found, OptionsIncomplete,
            ScanHoldsAdvert, URLCurrent, ListsCurrent, HandleHoldsLiveLists,
            Usable, ListsComplete
<1>7. CASE ScanReturns
  BY <1>7, <1>0, Rebuilt DEF ScanReturns
<1>8. CASE Exit
  <2>1. TypeOK'
    BY <1>8 DEF ConnInv, TypeOK, Exit
  <2> QED BY <2>1, <1>8 DEF ConnInv, Exit, OptionsIncomplete, ScanHoldsAdvert,
            URLCurrent, ListsCurrent, HandleHoldsLiveLists, Usable, ListsComplete
<1>9. CASE UNCHANGED connVars
  BY <1>9 DEF ConnInv, TypeOK, OptionsIncomplete, ScanHoldsAdvert, URLCurrent,
            ListsCurrent, HandleHoldsLiveLists, Usable, ListsComplete, Complete
<1> QED BY <1>1, <1>2, <1>3, <1>4, <1>5, <1>6, <1>7, <1>8, <1>9 DEF Next

(* The inductive invariant holds throughout. *)
THEOREM ConnInvariant == Spec => []ConnInv
  BY ConnInvInit, ConnInvStep, PTL DEF Spec

(* Types: in particular the port is always one of uint16_t, and the handle
   holds a list, nothing or a dangling pointer. *)
THEOREM TypeCorrect == Spec => []TypeOK
<1>1. ConnInv => TypeOK
  BY DEF ConnInv
<1> QED BY <1>1, ConnInvariant, PTL

(* callAPI() never copies a missing or outdated base URL, in any order of
   options, commands and scans. *)
THEOREM URLAlwaysCurrent == Spec => []URLCurrent
<1>1. ConnInv => URLCurrent
  BY DEF ConnInv
<1> QED BY <1>1, ConnInvariant, PTL

(* The DNS override and the headers are those of the settings whenever a
   request can be made, and are whole unless an append of the last
   buildURL() failed. *)
THEOREM ListsAlwaysCurrent == Spec => []ListsCurrent
<1>1. ConnInv => ListsCurrent
  BY DEF ConnInv
<1> QED BY <1>1, ConnInvariant, PTL

(* Unless buildURL() was cut short, the easy handle never points at a list
   the program has freed. *)
THEOREM HandleNeverDangles == Spec => []HandleHoldsLiveLists
<1>1. ConnInv => HandleHoldsLiveLists
  BY DEF ConnInv
<1> QED BY <1>1, ConnInvariant, PTL

(* A scan mixes nothing advertised with what was configured before it. *)
THEOREM ScanTakesOneAdvert == Spec => ScanIsAllOrNothing
<1>1. ASSUME ConnInv, [Next]_connVars
      PROVE  [phase = "scanning" /\ phase' = "run" =>
                \/ tahoma' = NULL
                \/ [host |-> tahoma', ip |-> ip', port |-> port'] \in Adverts]_connVars
  <2> SUFFICES ASSUME phase = "scanning", phase' = "run", Next
               PROVE  \/ tahoma' = NULL
                      \/ [host |-> tahoma', ip |-> ip', port |-> port'] \in Adverts
    BY <1>1
  <2>1. ScanReturns
    BY DEF Next, OptionHost, OptionPort, OptionsRead, SetSetting, func_THost,
           func_TAddr, func_TPort, func_token, func_scan, resolve_found, Exit
  <2> QED BY <1>1, <2>1 DEF ScanReturns, ConnInv, ScanHoldsAdvert
<1> QED BY <1>1, ConnInvariant, PTL DEF Spec, ScanIsAllOrNothing
=============================================================================
