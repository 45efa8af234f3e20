------------------------------ MODULE ApiCall ------------------------------
(***************************************************************************)
(* callAPI() on the one easy handle of the program, and the commands seen  *)
(* as the requests they make.  The options of the handle outlive a         *)
(* request: what a request carries depends on those set for the ones       *)
(* before it.  Connection is extended with the handle's options, with the  *)
(* response code that libcurl remembers and with the last request.         *)
(***************************************************************************)
EXTENDS Connection

CONSTANTS
  Bodies,        \* JSON commands; each is freed when its command returns
  NoData,        \* the literal "" posted by Event
  TimeoutArgs,   \* what atol() reads from the argument of timeout
  MaxTimeout,    \* the longest timeout libcurl accepts, INT_MAX / 1000 seconds
  Outcomes       \* how a transfer may end: [ok, code]

ASSUME CallAssumption ==
  /\ TimeoutArgs \subseteq Int /\ MaxTimeout \in Nat
  /\ Outcomes \subseteq [ok : BOOLEAN, code : Nat]
  /\ {NULL, Dangling} \cap (Bodies \cup {NoData}) = {} /\ NoData \notin Bodies

(* What a request carries, and what its command meant it to carry. *)
Requests ==
  [url : URLs \cup {NULL},
   resolve : Overrides \cup {NULL, Dangling},
   headers : HeaderLists \cup {NULL, Dangling},
   timeout : 0 .. MaxTimeout,
   body : Bodies \cup {NoData, NULL, Dangling},
   wanted : [timeout : Int, body : Bodies \cup {NoData, NULL}]]

ASSUME RequestAssumption == NULL \notin Requests

VARIABLES
  timeout,   \* the setting, 0 when unset
  easy,      \* options of the handle: [timeout, method, body, size]
  code,      \* CURLINFO_RESPONSE_CODE: that of the last transfer
  sent,      \* the last request performed, or NULL
  command    \* what the last Command or NCommand printed and what happened to it

callVars == <<timeout, easy, code, sent, command>>
apiVars  == <<connVars, callVars>>

ApiInit ==
  /\ Init
  /\ timeout = 0
  /\ easy = [timeout |-> 0, method |-> "GET", body |-> NULL, size |-> -1]
  /\ code = 0
  /\ sent = NULL
  /\ command = [said |-> "nothing", done |-> FALSE]

-----------------------------------------------------------------------------
(* The options of libcurl that callAPI() sets.  CURLOPT_POSTFIELDS makes
   the request a POST, even with a NULL pointer. *)

SetPost(e)      == [e EXCEPT !.method = "POST"]
SetFields(e, b) == [e EXCEPT !.body = b, !.method = "POST"]
SetSize(e, n)   == [e EXCEPT !.size = n]
SetGet(e)       == [e EXCEPT !.method = "GET"]

(* A post that leaves the size where a GET before it put it. *)
PostKeepsSize(e, b) == SetFields(SetPost(e), b)

(* A GET that leaves the pointer of the post before it on the handle. *)
GetKeepsFields(e) == SetGet(SetSize(e, 0))

PostOptions(e, b) == SetSize(SetFields(SetPost(e), b), -1)
GetOptions(e)     == SetGet(SetSize(SetFields(e, NULL), 0))

(* libcurl refuses a timeout that is negative or too long, and callAPI()
   skips a null one: all leave the option as it was. *)
CallOptions(e, post) ==
  LET o == IF post = NULL THEN GetOptions(e) ELSE PostOptions(e, post)
  IN  IF timeout \in 1 .. MaxTimeout THEN [o EXCEPT !.timeout = timeout] ELSE o

(* The bytes libcurl sends: size -1 means up to the end of the string. *)
Carried(o) ==
  IF o.method = "GET" THEN NULL ELSE IF o.size = -1 THEN o.body ELSE NoData

Request(o, post) ==
  [url |-> url, resolve |-> curl.resolve, headers |-> curl.headers,
   timeout |-> o.timeout, body |-> Carried(o),
   wanted |-> [timeout |-> timeout, body |-> post]]

(* callAPI(): without connection information it returns at once, and leaves
   the handle and the remembered response code alone.  caller tells whether
   the command frees what it posted when it returns. *)
CallAPI(post, out, caller) ==
  \/ /\ ~Complete
     /\ UNCHANGED <<easy, code, sent>>
  \/ /\ Complete
     /\ LET o == CallOptions(easy, post)
        IN  /\ sent' = Request(o, post)
            /\ code' = out.code
            /\ easy' = IF caller = "frees" THEN [o EXCEPT !.body = Dangling]
                       ELSE o

-----------------------------------------------------------------------------
func_timeout(n) ==
  /\ phase = "run"
  /\ timeout' = n
  /\ UNCHANGED <<connVars, easy, code, sent, command>>

(* Gateway, scan_Devices, States, NStates and Current *)
Query(out) ==
  /\ phase = "run"
  /\ CallAPI(NULL, out, "keeps")
  /\ UNCHANGED <<connVars, timeout, command>>

(* Each of the three kinds of request of Event *)
EventCall(out) ==
  /\ phase = "run"
  /\ CallAPI(NoData, out, "keeps")
  /\ UNCHANGED <<connVars, timeout, command>>

(* Command and NCommand on a device that is known: the response code is
   read back from the handle whether or not the request was sent, and told
   of when verbose is on. *)
internal_Command(b, out) ==
  /\ phase = "run"
  /\ CallAPI(b, out, "frees")
  /\ \E verbose \in BOOLEAN :
       command' = [said |-> IF code' = 200 /\ verbose THEN "Successful" ELSE "nothing",
                   done |-> Complete /\ out.ok /\ out.code = 200]
  /\ UNCHANGED <<connVars, timeout>>

ApiNext ==
  \/ Next /\ UNCHANGED callVars
  \/ \E n \in TimeoutArgs : func_timeout(n)
  \/ \E out \in Outcomes :
       \/ Query(out)
       \/ EventCall(out)
       \/ \E b \in Bodies : internal_Command(b, out)

ApiSpec == ApiInit /\ [][ApiNext]_apiVars

-----------------------------------------------------------------------------
Options == [timeout : 0 .. MaxTimeout, method : {"GET", "POST"},
            body : Bodies \cup {NoData, NULL, Dangling}, size : {0, -1}]

(* Types; and once the request to come is a GET, the handle points at no
   data, freed or not: callAPI() clears what the last post left there. *)
ApiTypeOK ==
  /\ TypeOK
  /\ timeout \in TimeoutArgs \cup {0}
  /\ easy \in Options
  /\ easy.method = "GET" => easy.body = NULL
  /\ code \in Nat
  /\ sent \in Requests \cup {NULL}
  /\ command \in [said : {"Successful", "nothing"}, done : BOOLEAN]

(* Whatever was requested before on the same handle, a request carries
   exactly the body its command asked for: a GET carries none, a post all
   of its own, and none reads the body an earlier command has freed. *)
BodyIsOwn == sent # NULL => sent.body = sent.wanted.body

(* What was sent, as a client without any cache sees it: the header lines
   that are missing from the list are NULL, and so is the request while none
   was sent. *)
SentRequest ==
  LET list == sent.headers
  IN  IF sent = NULL THEN NULL
      ELSE [url |-> sent.url, pinned |-> sent.resolve,
            bearer |-> IF "Authorization" \in list.names THEN list.token ELSE NULL,
            hostHeader |-> IF "Host" \in list.names
                           THEN [host |-> list.host, port |-> list.port] ELSE NULL]

Direct == INSTANCE DirectClient WITH
  config <- [host |-> tahoma, ip |-> ip, port |-> port, token |-> token],
  request <- SentRequest

(* While no allocation fails, the cached URL, lists and handle cannot be
   told from building each request out of the current settings. *)
ImplementsDirectClient == Direct!Spec

(* "[value] specify API call timeout (seconds)": the request is bounded by
   the timeout in force when it is sent, 0 standing for none. *)
TimeoutIsCurrent ==
  sent # NULL => sent.timeout = (IF sent.wanted.timeout \in 1 .. MaxTimeout
                                 THEN sent.wanted.timeout ELSE 0)

(* "*I* Successful" is printed for a command that was sent and whose
   transfer ended well with status 200. *)
SuccessMeansDone == command.said = "Successful" => command.done
=============================================================================
