----------------------------- MODULE Connection -----------------------------
(***************************************************************************)
(* The connection settings of TaHomaCtl and what is built from them.       *)
(*                                                                         *)
(* The program keeps four settings (host name, address, port and bearer    *)
(* token).  From them buildURL() derives three cached objects: the base    *)
(* URL, the DNS override list and the header list; the last two are handed *)
(* to the libcurl easy handle, which keeps the pointer and not a copy.     *)
(* callAPI() tests the settings and then uses what was derived, so each    *)
(* path that changes a setting has to keep the derived objects in step.    *)
(*                                                                         *)
(* One step is one command or one mDNS callback: the program is single     *)
(* threaded, and a scan is the only command during which others' events    *)
(* interleave.  Commands that only display a setting change nothing and    *)
(* are left out.                                                           *)
(***************************************************************************)
EXTENDS Integers

CONSTANTS
  Hosts,         \* host names that can be typed or advertised
  Addrs,         \* textual addresses
  Tokens,        \* bearer tokens
  PortArgs,      \* what atoi() reads from a port argument (a C int)
  Adverts,       \* resolved services: [host, ip, port]
  AllocMayFail,  \* whether curl_slist_append() may return NULL
  NULL,          \* the C null pointer
  Dangling       \* a pointer to a freed list

(* A port that keeps all the bits of the int. *)
NoWrap(n) == n

UInt16(n) == n % 65536
Ports == 0 .. 65535

ASSUME SettingsAssumption ==
  /\ NULL \notin Hosts \cup Addrs \cup Tokens
  /\ PortArgs \subseteq Int
  /\ Adverts \subseteq [host : Hosts, ip : Addrs, port : Ports]
  /\ AllocMayFail \in BOOLEAN

URLs      == [ip : Addrs, port : Ports]
Overrides == [host : Hosts, port : Ports, ip : Addrs]

(* The header list is appended to in this order; see HeaderLists. *)
HeaderNames == <<"Authorization", "Host", "Content-Type", "accept">>
AllHeaders  == {HeaderNames[i] : i \in 1 .. 4}
HeaderLists == [names : SUBSET AllHeaders,
                token : Tokens, host : Hosts, port : Ports]

ASSUME PointerAssumption ==
  /\ NULL # Dangling
  /\ {NULL, Dangling} \cap (URLs \cup Overrides \cup HeaderLists) = {}

VARIABLES
  phase,     \* "options", "run" (at the prompt or in a script), "scanning", "exited"
  tahoma,    \* host name, or NULL
  ip,        \* address, or NULL
  port,      \* port, 0 when unset
  token,     \* bearer token, or NULL
  url,       \* base URL built by buildURL(), or NULL
  resolve,   \* global_resolve_list
  headers,   \* global_headers
  curl,      \* the pointers the easy handle holds: CURLOPT_RESOLVE, CURLOPT_HTTPHEADER
  appendFailed \* history: an append of the last buildURL() that made lists failed

settings == <<tahoma, ip, port, token>>
built    == <<url, resolve, headers, curl, appendFailed>>
connVars == <<phase, settings, built>>

Init ==
  /\ phase = "options"
  /\ tahoma = NULL /\ ip = NULL /\ port = 0 /\ token = NULL
  /\ url = NULL /\ resolve = NULL /\ headers = NULL
  /\ curl = [resolve |-> NULL, headers |-> NULL]
  /\ appendFailed = FALSE

-----------------------------------------------------------------------------
(* buildURL() *)

IsComplete(h, a, p, t) == h # NULL /\ a # NULL /\ p # 0 /\ t # NULL

(* What a pointer held by the handle becomes when its list is freed. *)
Freed(pointer) == IF pointer = NULL THEN NULL ELSE Dangling

(* The list left by the four appends when the last one that fails is the
   f-th (0: none).  A failing append returns NULL, which the next append
   takes for an empty list, so the lines before it are lost. *)
HeaderList(f, h, p, t) ==
  IF f = 4 THEN NULL
  ELSE [names |-> {HeaderNames[i] : i \in (f + 1) .. 4},
        token |-> t, host |-> h, port |-> p]

(* Each of the two tests of an append returns from buildURL() early: what
   was freed before stays freed, what comes after keeps its old value. *)
ResolveFails ==
  /\ AllocMayFail
  /\ resolve' = NULL
  /\ curl' = [curl EXCEPT !.resolve = Freed(@)]
  /\ appendFailed' = TRUE
  /\ UNCHANGED headers

AuthorizationFails(override) ==
  /\ AllocMayFail
  /\ resolve' = override
  /\ headers' = NULL
  /\ curl' = [resolve |-> override, headers |-> Freed(curl.headers)]
  /\ appendFailed' = TRUE

(* A buildURL() that never tells the handle of the new header list. *)
ListsBuiltNotGiven(override, h, p, t) ==
  /\ resolve' = override
  /\ \E f \in IF AllocMayFail THEN {0, 2, 3, 4} ELSE {0} :
       headers' = HeaderList(f, h, p, t) /\ appendFailed' = (f # 0)
  /\ curl' = [resolve |-> override, headers |-> Freed(curl.headers)]

(* A buildURL() that keeps the header list once there is one. *)
HeadersBuiltOnce(override, h, p, t) ==
  /\ resolve' = override
  /\ headers' = IF headers = NULL THEN HeaderList(0, h, p, t) ELSE headers
  /\ curl' = [resolve |-> override, headers |-> headers']
  /\ appendFailed' = FALSE

(* A buildURL() whose second append starts a list instead of going on with
   the one that holds Authorization. *)
ListBegunTwice(override, h, p, t) ==
  /\ resolve' = override
  /\ \E f \in IF AllocMayFail THEN {0, 2, 3, 4} ELSE {0} :
       /\ headers' = HeaderList(IF f = 0 THEN 1 ELSE f, h, p, t)
       /\ appendFailed' = (f # 0)
  /\ curl' = [resolve |-> override, headers |-> headers']

ListsBuilt(override, h, p, t) ==
  /\ resolve' = override
  /\ \E f \in IF AllocMayFail THEN {0, 2, 3, 4} ELSE {0} :
       headers' = HeaderList(f, h, p, t) /\ appendFailed' = (f # 0)
  /\ curl' = [resolve |-> override, headers |-> headers']

(* buildURL() on the settings h, a, p and t when the base URL is u. *)
BuildURL(h, a, p, t, u) ==
  \/ /\ ~IsComplete(h, a, p, t)
     /\ url' = u
     /\ UNCHANGED <<resolve, headers, curl, appendFailed>>
  \/ /\ IsComplete(h, a, p, t)
     /\ url' = [ip |-> a, port |-> p]
     /\ LET override == [host |-> h, port |-> p, ip |-> a]
        IN  \/ ResolveFails
            \/ AuthorizationFails(override)
            \/ ListsBuilt(override, h, p, t)

-----------------------------------------------------------------------------
(* Start and end of the program *)

OptionHost(h) ==
  /\ phase = "options"
  /\ tahoma' = h
  /\ UNCHANGED <<phase, ip, port, token, built>>

OptionPort(n) ==
  /\ phase = "options"
  /\ port' = UInt16(n)
  /\ UNCHANGED <<phase, tahoma, ip, token, built>>

OptionsRead ==
  /\ phase = "options"
  /\ phase' = "run"
  /\ UNCHANGED <<settings, built>>

(* exit() from a command, a script or the end of input: curl_cleanup()
   frees the handle and both lists. *)
Exit ==
  /\ phase \in {"options", "run"}
  /\ phase' = "exited"
  /\ resolve' = NULL /\ headers' = NULL
  /\ curl' = [resolve |-> NULL, headers |-> NULL]
  /\ UNCHANGED <<settings, url, appendFailed>>

-----------------------------------------------------------------------------
(* Commands that set one setting *)

(* Commands that forget to rebuild. *)
HostNotRebuilt(h) ==
  /\ phase = "run"
  /\ tahoma' = h
  /\ UNCHANGED <<phase, ip, port, token, built>>

TokenNotRebuilt(t) ==
  /\ phase = "run"
  /\ token' = t
  /\ UNCHANGED <<phase, tahoma, ip, port, built>>

func_THost(h) ==
  /\ phase = "run"
  /\ tahoma' = h
  /\ BuildURL(h, ip, port, token, url)
  /\ UNCHANGED <<phase, ip, port, token>>

func_TAddr(a) ==
  /\ phase = "run"
  /\ ip' = a
  /\ BuildURL(tahoma, a, port, token, url)
  /\ UNCHANGED <<phase, tahoma, port, token>>

func_TPort(n) ==
  /\ phase = "run"
  /\ port' = UInt16(n)
  /\ BuildURL(tahoma, ip, port', token, url)
  /\ UNCHANGED <<phase, tahoma, ip, token>>

(* A token typed, or read from the file named after '@'; when that file
   cannot be opened or holds no line nothing changes. *)
func_token(t) ==
  /\ phase = "run"
  /\ token' = t
  /\ BuildURL(tahoma, ip, port, t, url)
  /\ UNCHANGED <<phase, tahoma, ip, port>>

-----------------------------------------------------------------------------
(* scan_TaHoma: the settings it touches; module Discovery has the callbacks *)

(* A scan that keeps the host name it is about to look for. *)
ScanKeepsHost ==
  /\ phase = "run"
  /\ phase' = "scanning"
  /\ url' = NULL
  /\ UNCHANGED <<settings, resolve, headers, curl, appendFailed>>

func_scan ==
  /\ phase = "run"
  /\ phase' = "scanning"
  /\ tahoma' = NULL
  /\ url' = NULL
  /\ UNCHANGED <<ip, port, token, resolve, headers, curl, appendFailed>>

resolve_found(advert) ==
  /\ phase = "scanning"
  /\ tahoma' = advert.host
  /\ ip' = advert.ip
  /\ port' = advert.port
  /\ UNCHANGED <<phase, token, built>>

(* The event loop ended.  When it ended on an error before it began nothing
   was resolved, tahoma is NULL and buildURL() would do nothing either. *)
ScanReturns ==
  /\ phase = "scanning"
  /\ phase' = "run"
  /\ BuildURL(tahoma, ip, port, token, url)
  /\ UNCHANGED settings

-----------------------------------------------------------------------------
SetSetting ==
  \/ \E h \in Hosts : func_THost(h)
  \/ \E a \in Addrs : func_TAddr(a)
  \/ \E n \in PortArgs : func_TPort(n)
  \/ \E t \in Tokens : func_token(t)

Next ==
  \/ \E h \in Hosts : OptionHost(h)
  \/ \E n \in PortArgs : OptionPort(n)
  \/ OptionsRead
  \/ SetSetting
  \/ func_scan
  \/ \E advert \in Adverts : resolve_found(advert)
  \/ ScanReturns
  \/ Exit

Spec == Init /\ [][Next]_connVars

-----------------------------------------------------------------------------
TypeOK ==
  /\ phase \in {"options", "run", "scanning", "exited"}
  /\ tahoma \in Hosts \cup {NULL}
  /\ ip \in Addrs \cup {NULL}
  /\ port \in Ports
  /\ token \in Tokens \cup {NULL}
  /\ url \in URLs \cup {NULL}
  /\ resolve \in Overrides \cup {NULL}
  /\ headers \in HeaderLists \cup {NULL}
  /\ curl \in [resolve : Overrides \cup {NULL, Dangling},
               headers : HeaderLists \cup {NULL, Dangling}]
  /\ appendFailed \in BOOLEAN

(* The test at the head of callAPI() lets a request through. *)
Complete == IsComplete(tahoma, ip, port, token)
Usable   == phase = "run" /\ Complete

(* Whenever callAPI() passes its test, the base URL it copies without a
   further test exists and is the one of the current address and port: no
   order of options, commands and scans leaves it NULL or out of date,
   whether or not an allocation failed. *)
URLCurrent == Usable => url = [ip |-> ip, port |-> port]

(* Neither list is missing. *)
ListsComplete == resolve # NULL /\ headers # NULL

(* The lists of a request that passes the test are those of the current
   settings.  The DNS override is the current one or, after its append
   failed, none; header lines beside it are of the current token, host and
   port; and unless an append of the last buildURL() failed both lists are
   there and all four header lines with them.  What a failing append leaves
   is not claimed: a request without Authorization, Host or both may follow
   (APIrequest.c:120-122 go on with whatever list is left). *)
ListsCurrent ==
  Usable =>
    /\ resolve \in {NULL, [host |-> tahoma, port |-> port, ip |-> ip]}
    /\ ListsComplete =>
         headers.token = token /\ headers.host = tahoma /\ headers.port = port
    /\ ~appendFailed => ListsComplete /\ headers.names = AllHeaders

(* libcurl keeps the caller's pointers: unless an append failed in the last
   buildURL(), they point at the lists the program still owns. *)
HandleHoldsLiveLists ==
  ListsComplete => curl = [resolve |-> resolve, headers |-> headers]

(* A scan ends either without a host, so that every request is refused, or
   with host, address and port all taken from one advertisement: never with
   an advertised value beside one that was there before. *)
ScanIsAllOrNothing ==
  [][phase = "scanning" /\ phase' = "run" =>
       \/ tahoma' = NULL
       \/ [host |-> tahoma', ip |-> ip', port |-> port'] \in Adverts]_connVars
=============================================================================
