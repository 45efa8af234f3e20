------------------------------ MODULE Listener ------------------------------
(***************************************************************************)
(* Event: a listener is registered on the gateway, fetched again and again *)
(* until a key is pressed, and unregistered.  Requests and answers may be  *)
(* lost, the listener may expire, the user may interrupt the program or    *)
(* have typed ahead, and the answers may be errors.                        *)
(*                                                                         *)
(* One step is one transfer, or what the program does between two of them: *)
(* events raised during a transfer come before or after it.                *)
(***************************************************************************)
EXTENDS Integers, SequencesExt

CONSTANTS
  Ids,        \* identifiers of listeners
  MaxEvents,  \* bound on the events raised
  MaxKeys,    \* bound on the keys that wait to be read
  NULL

ASSUME ListenerAssumption ==
  NULL \notin Ids \cup Nat /\ MaxEvents \in Nat /\ MaxKeys \in Nat

VARIABLES
  pc,        \* "prompt", a point of func_Event(), or "dead"
  id,        \* idobj
  buff,      \* what was received, in pieces
  printed,   \* events printed by the last Event
  keys,      \* keys typed that the program has not read
  stdin,     \* keys that stdio has read ahead
  ended,     \* the input is closed once its keys are read
  limited,   \* the handle has a timeout, which bounds every transfer
  raised,    \* the gateway: how many events it has seen
  at,        \* the gateway: for each listener the events seen when it was
             \* last fetched, NULL when it does not exist
  from,      \* history: the events seen when the listener was registered
  missing,   \* history: events of answers that did not arrive whole
  orphans    \* history: listeners left by a lost call or by the end of the program

program   == <<pc, id, buff, printed>>
input     == <<keys, stdin, ended, limited>>
gateway   == <<raised, at>>
history   == <<from, missing, orphans>>
eventVars == <<program, input, gateway, history>>

Init ==
  /\ pc = "prompt" /\ id = NULL /\ buff = <<>> /\ printed = <<>>
  /\ keys = 0 /\ stdin = 0 /\ ended = FALSE /\ limited = FALSE
  /\ raised = 0 /\ at = [l \in Ids |-> NULL]
  /\ from = 0 /\ missing = {} /\ orphans = {}

-----------------------------------------------------------------------------
(* Answers and the response buffer *)

IdBody(l)         == [kind |-> "id", id |-> l]
EventsBody(a, b)  == [kind |-> "events", after |-> a, last |-> b]
ErrorBody         == [kind |-> "error"]
Broken            == [kind |-> "broken"]

(* A body arrives in two pieces; each is appended to what is there. *)
Piece(body, n) == [body |-> body, part |-> n]
WriteCallback(mem, body, n) == mem \o [i \in 1 .. n |-> Piece(body, i)]

(* A freeResponse() that does not reset the buffer. *)
FreeKeeps(mem) == mem

freeResponse(mem) == <<>>

(* json_tokener_parse() reads one value and ignores what follows it. *)
Parsed(mem) ==
  IF Len(mem) >= 2 /\ mem[2] = Piece(mem[1].body, 2) THEN mem[1].body ELSE Broken

EventsOf(body) ==
  IF body.kind = "events"
  THEN [i \in 1 .. (body.last - body.after) |-> body.after + i]
  ELSE <<>>

(* callAPI() when no answer comes, and when n pieces of one do. *)
NoAnswer == buff' = freeResponse(buff)
Answered(body, n) == buff' = WriteCallback(freeResponse(buff), body, n)

-----------------------------------------------------------------------------
(* func_Event() *)

(* Typed, or read from a script, whose end is not the one of the input.
   Without a timeout, the default, libcurl waits for a silent gateway as
   long as it takes.  One may have been given since the last Event; none is
   taken away, see TimeoutIsCurrent of ApiCall. *)
func_Event ==
  /\ pc = "prompt"
  /\ pc' = "register"
  /\ limited' \in {limited, TRUE}
  /\ buff' = <<>> /\ printed' = <<>>
  /\ missing' = {}
  /\ UNCHANGED <<id, keys, stdin, ended, gateway, from, orphans>>

(* Connection information missing, or the request is lost. *)
RegisterLost ==
  /\ pc = "register"
  /\ NoAnswer
  /\ pc' = "registered"
  /\ UNCHANGED <<id, printed, input, gateway, history>>

RegisterRefused(n) ==
  /\ pc = "register"
  /\ Answered(ErrorBody, n)
  /\ pc' = "registered"
  /\ UNCHANGED <<id, printed, input, gateway, history>>

Register(l, n) ==
  /\ pc = "register" /\ at[l] = NULL
  /\ at' = [at EXCEPT ![l] = raised]
  /\ from' = raised
  /\ Answered(IdBody(l), n)
  /\ orphans' = IF n = 2 THEN orphans ELSE orphans \cup {l}
  /\ pc' = "registered"
  /\ UNCHANGED <<id, printed, input, raised, missing>>

(* An identifier that is used without having been looked at. *)
IdNotTested ==
  /\ pc = "registered"
  /\ IF buff = <<>> THEN pc' = "prompt" /\ UNCHANGED id
     ELSE /\ pc' = "poll"
          /\ id' = IF Parsed(buff).kind = "id" THEN Parsed(buff).id ELSE NULL
  /\ buff' = freeResponse(buff)
  /\ UNCHANGED <<printed, input, gateway, history>>

(* An answer without id is a null pointer for strdup(). *)
Registered ==
  /\ pc = "registered"
  /\ \/ /\ buff = <<>>
        /\ pc' = "prompt" /\ UNCHANGED <<id, buff>>
     \/ /\ buff # <<>> /\ Parsed(buff).kind = "id"
        /\ pc' = "poll" /\ id' = Parsed(buff).id
        /\ buff' = freeResponse(buff)
     \/ /\ buff # <<>> /\ Parsed(buff).kind # "id"
        /\ pc' = "dead" /\ UNCHANGED <<id, buff>>
  /\ UNCHANGED <<printed, input, gateway, history>>

(* inkey$(): a key that stdio has read before, or all that were typed, of
   which stdio keeps the others.  The end of the input is taken for no key. *)
KeyPressed ==
  \/ stdin > 0 /\ stdin' = stdin - 1 /\ UNCHANGED keys
  \/ stdin = 0 /\ keys > 0 /\ stdin' = keys - 1 /\ keys' = 0

Poll ==
  /\ pc = "poll"
  /\ \/ KeyPressed /\ pc' = "unregister"
     \/ stdin = 0 /\ keys = 0 /\ pc' = "fetch" /\ UNCHANGED <<keys, stdin>>
  /\ UNCHANGED <<id, buff, printed, ended, limited, gateway, history>>

FetchLost ==
  /\ pc = "fetch"
  /\ NoAnswer
  /\ pc' = "fetched"
  /\ UNCHANGED <<id, printed, input, gateway, history>>

(* The gateway forgets the events it sends, and rejects an expired listener. *)
Fetch(n) ==
  /\ pc = "fetch"
  /\ \/ /\ at[id] # NULL
        /\ at' = [at EXCEPT ![id] = raised]
        /\ Answered(EventsBody(at[id], raised), n)
        /\ missing' = IF n = 2 THEN missing ELSE missing \cup ((at[id] + 1) .. raised)
     \/ /\ at[id] = NULL
        /\ Answered(ErrorBody, n)
        /\ UNCHANGED <<at, missing>>
  /\ pc' = "fetched"
  /\ UNCHANGED <<id, printed, input, raised, from, orphans>>

(* What is not an array is only reported. *)
Fetched ==
  /\ pc = "fetched"
  /\ printed' = printed \o EventsOf(Parsed(buff))
  /\ buff' = freeResponse(buff)
  /\ pc' = "sleeping"
  /\ UNCHANGED <<id, input, gateway, history>>

(* A loop that looks at the keyboard only once. *)
WakeFetches ==
  /\ pc = "sleeping"
  /\ pc' = "fetch"
  /\ UNCHANGED <<id, buff, printed, input, gateway, history>>

Wake ==
  /\ pc = "sleeping"
  /\ pc' = "poll"
  /\ UNCHANGED <<id, buff, printed, input, gateway, history>>

UnregisterLost ==
  /\ pc = "unregister"
  /\ pc' = "prompt" /\ id' = NULL /\ buff' = <<>>
  /\ orphans' = IF at[id] = NULL THEN orphans ELSE orphans \cup {id}
  /\ UNCHANGED <<printed, input, gateway, from, missing>>

(* An Event that ends without unregistering. *)
UnregisterForgotten ==
  /\ pc = "unregister"
  /\ pc' = "prompt" /\ id' = NULL /\ buff' = <<>>
  /\ UNCHANGED <<printed, input, gateway, history>>

(* Whatever the answer, it is freed. *)
Unregister ==
  /\ pc = "unregister"
  /\ at' = [at EXCEPT ![id] = NULL]
  /\ pc' = "prompt" /\ id' = NULL /\ buff' = <<>>
  /\ UNCHANGED <<printed, input, raised, history>>

-----------------------------------------------------------------------------
(* The user and the gateway *)

Running == pc \notin {"prompt", "dead"}

(* The listener of the Event that runs, once its answer is on its way. *)
Mine ==
  IF id # NULL THEN {id}
  ELSE IF pc = "registered" /\ Parsed(buff).kind = "id" THEN {Parsed(buff).id}
  ELSE {}

TypeKey ==
  /\ Running /\ ~ended /\ keys < MaxKeys
  /\ keys' = keys + 1
  /\ UNCHANGED <<program, stdin, ended, limited, gateway, history>>

(* readline() takes what was typed during Event for the start of a line,
   but does not see what stdio has read. *)
ReadLine ==
  /\ pc = "prompt" /\ keys > 0
  /\ keys' = 0
  /\ UNCHANGED <<program, stdin, ended, limited, gateway, history>>

CloseInput ==
  /\ ~ended /\ pc # "dead"
  /\ ended' = TRUE
  /\ UNCHANGED <<program, keys, stdin, limited, gateway, history>>

(* Control-C, which inkey$() leaves to the terminal; or, at the prompt, the
   end of the input. *)
Terminate ==
  /\ Running \/ (pc = "prompt" /\ ended)
  /\ pc' = "dead"
  /\ orphans' = orphans \cup {l \in Mine : at[l] # NULL}
  /\ UNCHANGED <<id, buff, printed, input, gateway, from, missing>>

Restart ==
  /\ pc = "dead"
  /\ pc' = "prompt" /\ id' = NULL /\ buff' = <<>> /\ printed' = <<>>
  /\ keys' = 0 /\ stdin' = 0 /\ ended' = FALSE /\ limited' = FALSE
  /\ UNCHANGED <<gateway, history>>

Raise ==
  /\ raised < MaxEvents
  /\ raised' = raised + 1
  /\ UNCHANGED <<program, input, at, history>>

Expire(l) ==
  /\ at[l] # NULL
  /\ at' = [at EXCEPT ![l] = NULL]
  /\ orphans' = orphans \ {l}
  /\ UNCHANGED <<program, input, raised, from, missing>>

-----------------------------------------------------------------------------
Pieces == 0 .. 2

(* What the program does by itself, the pause of Event included. *)
LocalStep == Registered \/ Poll \/ Fetched \/ Wake

(* curl_easy_perform() returns. *)
TransferEnds ==
  \/ RegisterLost
  \/ \E n \in Pieces : RegisterRefused(n) \/ \E l \in Ids : Register(l, n)
  \/ FetchLost
  \/ \E n \in Pieces : Fetch(n)
  \/ UnregisterLost
  \/ Unregister

Next ==
  \/ func_Event
  \/ LocalStep
  \/ TransferEnds
  \/ TypeKey \/ ReadLine \/ CloseInput
  \/ Terminate \/ Restart
  \/ Raise
  \/ \E l \in Ids : Expire(l)

(* The program goes on when it can, and libcurl ends a transfer that has a
   timeout.  Nothing makes the others end; the user and the gateway are free. *)
Fairness == WF_eventVars(LocalStep) /\ WF_eventVars(limited /\ TransferEnds)

Spec == Init /\ [][Next]_eventVars /\ Fairness

-----------------------------------------------------------------------------
Listening == pc \in {"poll", "fetch", "fetched", "sleeping", "unregister"}

Bodies ==
  {IdBody(l) : l \in Ids} \cup {ErrorBody}
  \cup {EventsBody(a, b) : a, b \in 0 .. MaxEvents}

(* Types; an Event has an identifier once it listens. *)
TypeOK ==
  /\ pc \in {"prompt", "register", "registered", "poll", "fetch", "fetched",
             "sleeping", "unregister", "dead"}
  /\ id \in Ids \cup {NULL}
  /\ Listening => id # NULL
  /\ buff \in Seq([body : Bodies, part : {1, 2}])
  /\ printed \in Seq(1 .. MaxEvents)
  /\ keys \in 0 .. MaxKeys /\ stdin \in 0 .. MaxKeys
  /\ ended \in BOOLEAN /\ limited \in BOOLEAN
  /\ raised \in 0 .. MaxEvents
  /\ at \in [Ids -> 0 .. MaxEvents \cup {NULL}]
  /\ from \in 0 .. MaxEvents
  /\ missing \subseteq 1 .. MaxEvents
  /\ orphans \subseteq Ids

Arriving == IF pc = "fetched" THEN EventsOf(Parsed(buff)) ELSE <<>>

(* An Event prints events in the order in which they were raised and each
   once; while its listener lives, those are all that were fetched since it
   was registered, save those of answers that did not arrive whole. *)
EventsShown ==
  Listening =>
    LET shown == printed \o Arriving
    IN  /\ \A i, j \in DOMAIN shown : i < j => shown[i] < shown[j]
        /\ at[id] # NULL => ToSet(shown) = ((from + 1) .. at[id]) \ missing

(* Between two Events the gateway has no listener of ours but those of
   which a register or an unregister was lost, or during which the program
   was ended. *)
NoListenerLeft ==
  ~Running => {l \in Ids : at[l] # NULL} = orphans

(* With a timeout on the handle, a key typed during an Event or read ahead
   of it ends it, whatever happens to its requests.  Without one, a transfer
   that hangs keeps the key from being looked at; and the end of the input
   is not a key, so it ends no Event (APIprocess.c:727-747). *)
KeyEndsEvent == Running /\ limited /\ keys + stdin > 0 ~> ~Running
=============================================================================
