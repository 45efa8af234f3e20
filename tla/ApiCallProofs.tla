--------------------------- MODULE ApiCallProofs ---------------------------
(***************************************************************************)
(* Proofs about ApiCall: what is proved of Connection also holds while     *)
(* requests are made, a request carries its own body, and, as long as no   *)
(* allocation fails, the cached objects implement the client without       *)
(* caches of DirectClient.                                                 *)
(***************************************************************************)
EXTENDS ApiCall, ConnectionProofs

USE DEF apiVars, callVars, connVars, settings, built

(* No request and no timeout command touches the connection settings. *)
LEMMA ApiStepIsConnStep == [ApiNext]_apiVars => [Next]_connVars
  BY DEF ApiNext, func_timeout, Query, EventCall, internal_Command

(* The settings evolve as Connection says: by the shape of ApiNext. *)
LEMMA ImplementsConnection == ApiSpec => Spec
<1>1. ApiInit => Init
  BY DEF ApiInit
<1> QED BY <1>1, ApiStepIsConnStep, PTL DEF ApiSpec, Spec

-----------------------------------------------------------------------------
(* The options that a call leaves for the transfer: of the right types, and
   such that what libcurl sends is what was posted, whatever the options
   were before. *)
LEMMA CallOptionsLemma ==
  ASSUME easy \in Options, timeout \in Int,
         NEW post \in Bodies \cup {NoData, NULL}
  PROVE  /\ CallOptions(easy, post) \in Options
         /\ CallOptions(easy, post).method = "GET" => CallOptions(easy, post).body = NULL
         /\ Carried(CallOptions(easy, post)) = post
<1> DEFINE o == IF post = NULL THEN GetOptions(easy) ELSE PostOptions(easy, post)
<1>1. o \in Options
  BY DEF Options, GetOptions, PostOptions, SetPost, SetFields, SetSize, SetGet
<1>2. Carried(o) = post
  BY DEF Options, Carried, GetOptions, PostOptions, SetPost, SetFields, SetSize, SetGet
<1>22. o.method = "GET" => o.body = NULL
  BY DEF Options, GetOptions, PostOptions, SetPost, SetFields, SetSize, SetGet
<1>3. CASE timeout \in 1 .. MaxTimeout
  <2>1. CallOptions(easy, post) = [o EXCEPT !.timeout = timeout]
    BY <1>3 DEF CallOptions
  <2>2. timeout \in 0 .. MaxTimeout
    BY <1>3
  <2> HIDE DEF o
  <2> QED BY <1>1, <1>2, <1>22, <2>1, <2>2 DEF Options, Carried
<1>4. CASE timeout \notin 1 .. MaxTimeout
  <2>1. CallOptions(easy, post) = o
    BY <1>4 DEF CallOptions
  <2> QED BY <1>1, <1>2, <1>22, <2>1
<1> QED BY <1>3, <1>4

(* callAPI() keeps the types, and the request it performs carries its own
   body. *)
LEMMA CallAPILemma ==
  ASSUME ApiTypeOK, BodyIsOwn,
         NEW post \in Bodies \cup {NoData, NULL}, NEW out \in Outcomes,
         NEW caller, caller = "frees" => post # NULL, CallAPI(post, out, caller)
  PROVE  /\ easy' \in Options /\ code' \in Nat
         /\ easy'.method = "GET" => easy'.body = NULL
         /\ sent' \in Requests \cup {NULL}
         /\ BodyIsOwn'
<1>1. CASE ~Complete
  <2>1. UNCHANGED <<easy, code, sent>>
    BY <1>1 DEF CallAPI
  <2> QED BY <2>1 DEF ApiTypeOK, BodyIsOwn
<1>2. CASE Complete
  <2> DEFINE o == CallOptions(easy, post)
  <2>1. /\ sent' = Request(o, post)
        /\ code' = out.code
        /\ easy' = IF caller = "frees" THEN [o EXCEPT !.body = Dangling] ELSE o
    BY <1>2 DEF CallAPI
  <2>2. timeout \in Int /\ easy \in Options
    BY CallAssumption DEF ApiTypeOK
  <2>3. /\ o \in Options /\ Carried(o) = post
        /\ o.method = "GET" => o.body = NULL
    BY <2>2, CallOptionsLemma
  <2> HIDE DEF o
  <2>4. /\ easy' \in Options
        /\ easy'.method = "GET" => easy'.body = NULL
    <3>1. CASE caller = "frees"
      <4>1. post # NULL /\ o.method # "GET"
        BY <2>3, <3>1 DEF Carried
      <4> QED BY <2>1, <2>3, <3>1, <4>1 DEF Options
    <3>2. CASE caller # "frees"
      BY <2>1, <2>3, <3>2
    <3> QED BY <3>1, <3>2
  <2>5. code' \in Nat
    BY <2>1, CallAssumption
  <2>6. /\ url \in URLs \cup {NULL}
        /\ curl.resolve \in Overrides \cup {NULL, Dangling}
        /\ curl.headers \in HeaderLists \cup {NULL, Dangling}
    BY DEF ApiTypeOK, TypeOK
  <2>7. o.timeout \in 0 .. MaxTimeout
    BY <2>3 DEF Options
  <2>8. Request(o, post) \in Requests
    BY <2>2, <2>3, <2>6, <2>7 DEF Request, Requests
  <2>9. BodyIsOwn'
    BY <2>1, <2>3 DEF BodyIsOwn, Request
  <2> QED BY <2>1, <2>4, <2>5, <2>8, <2>9
<1> QED BY <1>1, <1>2

ApiInv == ConnInv /\ ApiTypeOK /\ BodyIsOwn

LEMMA ApiInvInit == ApiInit => ApiInv
<1> SUFFICES ASSUME ApiInit PROVE ApiInv
  OBVIOUS
<1>1. ConnInv /\ TypeOK
  BY ConnInvInit DEF ApiInit, ConnInv
<1> QED BY <1>1, CallAssumption DEF ApiInit, ApiInv, ApiTypeOK, BodyIsOwn, Options

LEMMA ApiInvStep == ApiInv /\ [ApiNext]_apiVars => ApiInv'
<1> SUFFICES ASSUME ApiInv, [ApiNext]_apiVars PROVE ApiInv'
  OBVIOUS
<1>0. ConnInv' /\ TypeOK'
  BY ConnInvStep, ApiStepIsConnStep DEF ApiInv, ConnInv
<1>1. CASE UNCHANGED callVars
  BY <1>0, <1>1 DEF ApiInv, ApiTypeOK, BodyIsOwn
<1>2. CASE \E n \in TimeoutArgs : func_timeout(n)
  BY <1>0, <1>2 DEF ApiInv, ApiTypeOK, BodyIsOwn, func_timeout
<1>3. CASE \E out \in Outcomes : Query(out)
  <2>1. PICK out \in Outcomes : Query(out)
    BY <1>3
  <2>2. /\ easy' \in Options /\ code' \in Nat
        /\ easy'.method = "GET" => easy'.body = NULL
        /\ sent' \in Requests \cup {NULL}
        /\ BodyIsOwn'
    BY <2>1, "keeps" # "frees", CallAPILemma DEF Query, ApiInv
  <2> QED BY <1>0, <2>1, <2>2 DEF ApiInv, ApiTypeOK, Query
<1>4. CASE \E out \in Outcomes : EventCall(out)
  <2>1. PICK out \in Outcomes : EventCall(out)
    BY <1>4
  <2>2. /\ easy' \in Options /\ code' \in Nat
        /\ easy'.method = "GET" => easy'.body = NULL
        /\ sent' \in Requests \cup {NULL}
        /\ BodyIsOwn'
    BY <2>1, "keeps" # "frees", CallAPILemma DEF EventCall, ApiInv
  <2> QED BY <1>0, <2>1, <2>2 DEF ApiInv, ApiTypeOK, EventCall
<1>5. CASE \E out \in Outcomes, b \in Bodies : internal_Command(b, out)
  <2>1. PICK out \in Outcomes, b \in Bodies : internal_Command(b, out)
    BY <1>5
  <2>2. /\ easy' \in Options /\ code' \in Nat
        /\ easy'.method = "GET" => easy'.body = NULL
        /\ sent' \in Requests \cup {NULL}
        /\ BodyIsOwn'
    BY <2>1, CallAssumption, CallAPILemma DEF internal_Command, ApiInv
  <2>3. command' \in [said : {"Successful", "nothing"}, done : BOOLEAN]
    <3>1. (Complete /\ out.ok /\ out.code = 200) \in BOOLEAN
      OBVIOUS
    <3> QED BY <2>1, <3>1 DEF internal_Command
  <2> QED BY <1>0, <2>1, <2>2, <2>3 DEF ApiInv, ApiTypeOK, internal_Command
<1> QED BY <1>1, <1>2, <1>3, <1>4, <1>5 DEF ApiNext

(* Whatever was requested before on the one handle, a request carries the
   body of its own command: never one that an earlier command freed. *)
THEOREM RequestsCarryOwnBody == ApiSpec => []BodyIsOwn
<1>1. ApiInv => BodyIsOwn
  BY DEF ApiInv
<1> QED BY <1>1, ApiInvInit, ApiInvStep, PTL DEF ApiSpec

(* Types of the handle's options and of what is sent. *)
THEOREM ApiTypeCorrect == ApiSpec => []ApiTypeOK
<1>1. ApiInv => ApiTypeOK
  BY DEF ApiInv
<1> QED BY <1>1, ApiInvInit, ApiInvStep, PTL DEF ApiSpec

-----------------------------------------------------------------------------
(* When allocations do not fail, no append does, and ListsCurrent says that
   both lists are whole.  (When one does, a request may go out without its
   headers: the abstract client is not implemented then.) *)
LEMMA AppendsSucceed ==
  ASSUME ~AllocMayFail, ~appendFailed, [Next]_connVars
  PROVE  ~appendFailed'
<1>1. ASSUME NEW h, NEW a, NEW p, NEW t, NEW u, BuildURL(h, a, p, t, u)
      PROVE  ~appendFailed'
  BY <1>1 DEF BuildURL, ResolveFails, AuthorizationFails, ListsBuilt
<1>2. \/ BuildURL(tahoma', ip', port', token', url)
      \/ appendFailed' = appendFailed
  BY DEF Next, OptionHost, OptionPort, OptionsRead, SetSetting, func_THost,
         func_TAddr, func_TPort, func_token, func_scan, resolve_found,
         ScanReturns, Exit
<1> QED BY <1>1, <1>2

(* A request that callAPI() performs is the one the abstract client sends. *)
LEMMA CallIsSend ==
  ASSUME ConnInv, ~appendFailed, ApiTypeOK, phase = "run", UNCHANGED connVars,
         NEW post \in Bodies \cup {NoData, NULL}, NEW out \in Outcomes,
         NEW caller, CallAPI(post, out, caller),
         sent' \in Requests \cup {NULL}
  PROVE  [Direct!Send]_<<[host |-> tahoma, ip |-> ip, port |-> port, token |-> token],
                         SentRequest>>
<1>1. CASE ~Complete
  <2>1. sent' = sent
    BY <1>1 DEF CallAPI
  <2> QED BY <2>1 DEF SentRequest
<1>2. CASE Complete
  <2>1. /\ url = [ip |-> ip, port |-> port]
        /\ resolve = [host |-> tahoma, port |-> port, ip |-> ip]
        /\ headers.token = token /\ headers.host = tahoma /\ headers.port = port
        /\ headers.names = AllHeaders
        /\ curl = [resolve |-> resolve, headers |-> headers]
    BY <1>2 DEF ConnInv, Usable, URLCurrent, ListsCurrent, ListsComplete,
                HandleHoldsLiveLists
  <2>2. sent' = Request(CallOptions(easy, post), post)
    BY <1>2 DEF CallAPI
  <2>3. /\ sent'.url = url
        /\ sent'.resolve = curl.resolve
        /\ sent'.headers = curl.headers
    BY <2>2 DEF Request
  <2>4. sent' # NULL
    <3>1. timeout \in Int /\ easy \in Options
      BY CallAssumption DEF ApiTypeOK
    <3>2. CallOptions(easy, post) \in Options /\ Carried(CallOptions(easy, post)) = post
      BY <3>1, CallOptionsLemma
    <3>3. /\ url \in URLs \cup {NULL}
          /\ curl.resolve \in Overrides \cup {NULL, Dangling}
          /\ curl.headers \in HeaderLists \cup {NULL, Dangling}
      BY DEF ConnInv, TypeOK
    <3>4. CallOptions(easy, post).timeout \in 0 .. MaxTimeout
      BY <3>2 DEF Options
    <3>5. sent' \in Requests
      BY <2>2, <3>1, <3>2, <3>3, <3>4 DEF Request, Requests
    <3> QED BY <3>5, RequestAssumption
  <2>5. SentRequest' =
          [url |-> [ip |-> ip, port |-> port],
           pinned |-> [host |-> tahoma, port |-> port, ip |-> ip],
           bearer |-> token,
           hostHeader |-> [host |-> tahoma, port |-> port]]
    <3>1. "Authorization" \in AllHeaders /\ "Host" \in AllHeaders
      <4>1. HeaderNames[1] \in AllHeaders /\ HeaderNames[2] \in AllHeaders
        BY DEF AllHeaders
      <4> QED BY <4>1 DEF HeaderNames
    <3> QED BY <2>1, <2>3, <2>4, <3>1 DEF SentRequest
  <2> QED BY <1>2, <2>5
          DEF Direct!Send, Direct!Ready, Direct!RequestOf, Complete, IsComplete
<1> QED BY <1>1, <1>2

(* As long as no allocation fails, TaHomaCtl sends what a client would send
   that keeps no URL, no lists and no handle, and builds each request out of
   the settings of that moment. *)
THEOREM RefinesDirectClient == ~AllocMayFail /\ ApiSpec => ImplementsDirectClient
<1> DEFINE config == [host |-> tahoma, ip |-> ip, port |-> port, token |-> token]
<1> SUFFICES ASSUME ~AllocMayFail PROVE ApiSpec => ImplementsDirectClient
  OBVIOUS
<1>1. ApiInit => ~appendFailed /\ Direct!Init
  <2> SUFFICES ASSUME ApiInit PROVE ~appendFailed /\ Direct!Init
    OBVIOUS
  <2>1. config \in Direct!Configs /\ ~Direct!Ready(config)
    BY DEF ApiInit, Init, Direct!Configs, Direct!Ready, Ports
  <2> QED BY <2>1 DEF ApiInit, Init, Direct!Init, SentRequest
<1>2. ASSUME ApiInv, ~appendFailed, ApiInv', [ApiNext]_apiVars
      PROVE  ~appendFailed' /\ [Direct!Configure \/ Direct!Send]_<<config, SentRequest>>
  <2>1. ~appendFailed'
    BY <1>2, AppendsSucceed, ApiStepIsConnStep
  <2>2. CASE UNCHANGED <<sent>>
    <3>1. config' \in Direct!Configs
      BY <1>2 DEF ApiInv, ConnInv, TypeOK, Direct!Configs
    <3>2. SentRequest' = SentRequest
      BY <2>2 DEF SentRequest
    <3> QED BY <2>1, <3>1, <3>2 DEF Direct!Configure
  <2>3. CASE \E out \in Outcomes :
               \/ Query(out)
               \/ EventCall(out)
               \/ \E b \in Bodies : internal_Command(b, out)
    <3>1. ConnInv /\ ApiTypeOK /\ sent' \in Requests \cup {NULL}
      BY <1>2 DEF ApiInv, ApiTypeOK
    <3>2. [Direct!Send]_<<config, SentRequest>>
      BY <1>2, <2>3, <3>1, CallIsSend DEF Query, EventCall, internal_Command
    <3> QED BY <2>1, <3>2
  <2> QED BY <1>2, <2>2, <2>3 DEF ApiNext, func_timeout
<1> QED BY <1>1, <1>2, ApiInvInit, ApiInvStep, PTL
        DEF ApiSpec, ImplementsDirectClient, Direct!Spec
=============================================================================
