--------------------------- MODULE ListenerProofs ---------------------------
(***************************************************************************)
(* Proofs about Listener: what an Event prints and what it leaves on the   *)
(* gateway, for any number of listeners, events and keys.                  *)
(***************************************************************************)
EXTENDS Listener, SequenceTheorems, TLAPS

USE DEF eventVars, program, input, gateway, history

Increasing(s) == \A i, j \in DOMAIN s : i < j => s[i] < s[j]
UpTo(s, n)    == \A i \in DOMAIN s : s[i] <= n
Block(a, b)   == [i \in 1 .. (b - a) |-> a + i]

(* Before it listens, an Event has no identifier and has shown nothing; an
   identifier that arrives is that of a listener without fetched events. *)
StartInv ==
  /\ pc \in {"prompt", "register", "registered"} => id = NULL
  /\ pc \in {"register", "registered"} => printed = <<>> /\ missing = {}
  /\ pc = "registered" /\ Parsed(buff).kind = "id" => at[Parsed(buff).id] \in {NULL, from}

(* A listener has been fetched up to an event that was raised; what is
   missing was fetched. *)
FetchInv ==
  /\ \A l \in Ids : at[l] # NULL => at[l] <= raised
  /\ from <= raised
  /\ Listening /\ at[id] # NULL => from <= at[id] /\ missing \subseteq 1 .. at[id]

(* Events that arrive come after those printed. *)
ArrivingInv ==
  pc = "fetched" /\ Parsed(buff).kind = "events" =>
    /\ Parsed(buff).after <= Parsed(buff).last
    /\ UpTo(printed, Parsed(buff).after)

(* The listeners on the gateway are that of the Event that runs, unless it
   has expired, and those that were left there. *)
Held == IF pc = "dead" THEN {} ELSE Mine
OwnedInv ==
  /\ {l \in Ids : at[l] # NULL} = orphans \cup {l \in Held : at[l] # NULL}
  /\ Held \cap orphans = {}

(* EventsShown in terms of sets: what was printed and what is about to be. *)
ArrivingSet ==
  IF pc = "fetched" /\ Parsed(buff).kind = "events"
  THEN (Parsed(buff).after + 1) .. Parsed(buff).last ELSE {}
ShownInv ==
  Listening =>
    /\ Increasing(printed)
    /\ at[id] # NULL =>
         ToSet(printed) \cup ArrivingSet = ((from + 1) .. at[id]) \ missing

ListenerInv ==
  TypeOK /\ StartInv /\ FetchInv /\ ArrivingInv /\ OwnedInv /\ ShownInv

-----------------------------------------------------------------------------
(* Sequences of events and pieces of answers *)

(* A block of later events continues an increasing sequence. *)
LEMMA BlockContinues ==
  ASSUME NEW s \in Seq(Nat), NEW a \in Nat, NEW b \in Nat, a <= b,
         Increasing(s), UpTo(s, a)
  PROVE  /\ s \o Block(a, b) \in Seq(Nat)
         /\ Increasing(s \o Block(a, b))
         /\ ToSet(s \o Block(a, b)) = ToSet(s) \cup ((a + 1) .. b)
<1> DEFINE e == Block(a, b)
           t == s \o e
           n == Len(s)
           m == b - a
<1>1. n \in Nat /\ m \in Nat /\ DOMAIN s = 1 .. n /\ b = a + m
  BY LenProperties
<1>2. e \in Seq(Nat) /\ Len(e) = m /\ \A i \in 1 .. m : e[i] = a + i
  BY <1>1 DEF Block
<1>3. t \in Seq(Nat) /\ Len(t) = n + m /\ DOMAIN t = 1 .. n + m
  <2> HIDE DEF e, n, m
  <2>1. t \in Seq(Nat) /\ Len(t) = Len(s) + Len(e)
    BY <1>2, ConcatProperties
  <2>2. Len(t) = n + m
    BY <2>1, <1>2 DEF n
  <2> HIDE DEF t
  <2> QED BY <2>1, <2>2, LenProperties
<1>4. \A i \in 1 .. n + m : t[i] = IF i <= n THEN s[i] ELSE e[i - n]
  BY <1>2, ConcatProperties
<1>5. \A i \in 1 .. n : s[i] \in Nat /\ s[i] <= a
  BY <1>1, ElementOfSeq DEF UpTo
<1>6. \A i, j \in 1 .. n : i < j => s[i] < s[j]
  BY <1>1 DEF Increasing
<1> HIDE DEF e, t, n, m
<1>7. \A i \in 1 .. n : i \in 1 .. n + m /\ t[i] = s[i]
  BY <1>1, <1>4
<1>8. \A i \in 1 .. n + m : ~(i <= n) => i - n \in 1 .. m /\ t[i] = a + (i - n)
  <2> SUFFICES ASSUME NEW i \in 1 .. n + m, ~(i <= n)
               PROVE  i - n \in 1 .. m /\ t[i] = a + (i - n)
    OBVIOUS
  <2>1. i - n \in 1 .. m
    BY <1>1
  <2>2. t[i] = e[i - n]
    BY <1>4
  <2> QED BY <2>1, <2>2, <1>2
<1>9. Increasing(t)
  <2> SUFFICES ASSUME NEW i \in 1 .. n + m, NEW j \in 1 .. n + m, i < j
               PROVE  t[i] < t[j]
    BY <1>3 DEF Increasing
  <2>1. CASE j <= n
    <3>1. i \in 1 .. n /\ j \in 1 .. n
      BY <2>1, <1>1
    <3> QED BY <3>1, <1>6, <1>7
  <2>2. CASE i <= n /\ ~(j <= n)
    <3>1. i \in 1 .. n
      BY <2>2, <1>1
    <3>2. t[i] \in Nat /\ t[i] <= a
      BY <3>1, <1>5, <1>7
    <3>3. j - n \in 1 .. m /\ t[j] = a + (j - n)
      BY <2>2, <1>8
    <3> QED BY <3>2, <3>3, <1>1
  <2>3. CASE ~(i <= n)
    <3>1. ~(j <= n)
      BY <2>3, <1>1
    <3>2. t[i] = a + (i - n) /\ t[j] = a + (j - n)
      BY <2>3, <3>1, <1>8
    <3> QED BY <3>2, <1>1
  <2> QED BY <2>1, <2>2, <2>3
<1>10. ToSet(t) = ToSet(s) \cup ((a + 1) .. b)
  <2>1. ASSUME NEW i \in 1 .. n + m
        PROVE  t[i] \in ToSet(s) \cup ((a + 1) .. b)
    <3>1. CASE i <= n
      <4>1. i \in 1 .. n
        BY <3>1, <1>1
      <4> QED BY <4>1, <1>7, <1>1 DEF ToSet
    <3>2. CASE ~(i <= n)
      BY <3>2, <1>8, <1>1
    <3> QED BY <3>1, <3>2
  <2>2. ASSUME NEW i \in 1 .. n
        PROVE  s[i] \in ToSet(t)
    BY <1>7, <1>3 DEF ToSet
  <2>3. ASSUME NEW x \in (a + 1) .. b
        PROVE  x \in ToSet(t)
    <3>1. n + (x - a) \in 1 .. n + m /\ ~(n + (x - a) <= n)
      BY <1>1
    <3>2. t[n + (x - a)] = a + ((n + (x - a)) - n)
      BY <3>1, <1>8
    <3>3. a + ((n + (x - a)) - n) = x
      BY <1>1
    <3> QED BY <3>1, <3>2, <3>3, <1>3 DEF ToSet
  <2>4. \A x \in ToSet(t) : x \in ToSet(s) \cup ((a + 1) .. b)
    BY <2>1, <1>3 DEF ToSet
  <2>5. \A x \in ToSet(s) : x \in ToSet(t)
    BY <2>2, <1>1 DEF ToSet
  <2> QED BY <2>3, <2>4, <2>5
<1> QED BY <1>3, <1>9, <1>10 DEF t, e

(* What is received of an answer of two pieces: nothing, something that
   does not parse, or the answer, whatever was in the buffer before. *)
LEMMA Received ==
  ASSUME NEW mem, NEW body, NEW n \in Pieces
  PROVE  LET m == WriteCallback(freeResponse(mem), body, n)
         IN  /\ body \in Bodies => m \in Seq([body : Bodies, part : {1, 2}])
             /\ m = <<>> <=> n = 0
             /\ Parsed(m) = IF n = 2 THEN body ELSE Broken
<1> DEFINE m == WriteCallback(freeResponse(mem), body, n)
<1>1. Len(m) = n /\ \A i \in 1 .. n : m[i] = Piece(body, i)
  BY DEF WriteCallback, freeResponse, Pieces
<1>2. body \in Bodies => m \in Seq([body : Bodies, part : {1, 2}])
  BY DEF WriteCallback, freeResponse, Pieces, Piece
<1>3. m = <<>> <=> n = 0
  BY <1>1 DEF WriteCallback, freeResponse, Pieces
<1> HIDE DEF m
<1>4. Parsed(m) = IF n = 2 THEN body ELSE Broken
  BY <1>1 DEF Parsed, Piece, Pieces
<1> QED BY <1>2, <1>3, <1>4 DEF m

(* The block of events of an answer has their type. *)
LEMMA BlockType ==
  ASSUME NEW a \in 0 .. MaxEvents, NEW b \in 0 .. MaxEvents
  PROVE  Block(a, b) \in Seq(1 .. MaxEvents)
BY ListenerAssumption DEF Block

(* What is parsed is an answer of the gateway, or nothing readable. *)
LEMMA ParsedType ==
  ASSUME TypeOK
  PROVE  /\ Parsed(buff).kind = "id" => \E l \in Ids : Parsed(buff) = IdBody(l)
         /\ Parsed(buff).kind = "events" =>
              \E a, b \in 0 .. MaxEvents : Parsed(buff) = EventsBody(a, b)
<1>1. Parsed(buff) \in Bodies \cup {Broken}
  <2> DEFINE T == [body : Bodies, part : {1, 2}]
  <2>1. buff \in Seq(T)
    BY DEF TypeOK
  <2>2. \A x \in T : x.body \in Bodies
    OBVIOUS
  <2> HIDE DEF T
  <2>3. Len(buff) >= 2 => 1 \in 1 .. Len(buff)
    BY <2>1, LenProperties
  <2>4. Len(buff) >= 2 => buff[1] \in T
    BY <2>1, <2>3, ElementOfSeq
  <2> QED BY <2>2, <2>4 DEF Parsed
<1> QED BY <1>1 DEF Bodies, Broken, IdBody, EventsBody, ErrorBody

(* There is nothing in an empty sequence. *)
LEMMA EmptyToSet == ToSet(<<>>) = {}
  BY DEF ToSet

(* The invariant says of sequences what EventsShown says. *)
LEMMA InvariantShows == ListenerInv => EventsShown
<1> SUFFICES ASSUME ListenerInv, Listening
             PROVE  LET shown == printed \o Arriving
                    IN  /\ Increasing(shown)
                        /\ at[id] # NULL => ToSet(shown) = ((from + 1) .. at[id]) \ missing
  BY DEF EventsShown, Increasing
<1> USE DEF ListenerInv
<1>1. printed \in Seq(Nat)
  BY ListenerAssumption DEF TypeOK
<1>2. CASE pc = "fetched" /\ Parsed(buff).kind = "events"
  <2>1. PICK a \in 0 .. MaxEvents, b \in 0 .. MaxEvents : Parsed(buff) = EventsBody(a, b)
    BY <1>2, ParsedType
  <2>2. a <= b /\ UpTo(printed, a) /\ Arriving = Block(a, b) /\ ArrivingSet = (a + 1) .. b
    BY <1>2, <2>1 DEF ArrivingInv, Arriving, EventsOf, EventsBody, Block, ArrivingSet
  <2>3. Increasing(printed)
    BY DEF ShownInv
  <2>4. /\ Increasing(printed \o Block(a, b))
        /\ ToSet(printed \o Block(a, b)) = ToSet(printed) \cup ((a + 1) .. b)
    BY <1>1, <2>2, <2>3, BlockContinues, ListenerAssumption
  <2> QED BY <2>2, <2>4 DEF ShownInv
<1>3. CASE ~(pc = "fetched" /\ Parsed(buff).kind = "events")
  <2>1. Arriving = <<>> /\ ArrivingSet = {}
    BY <1>3 DEF Arriving, EventsOf, ArrivingSet
  <2>2. printed \o Arriving = printed
    BY <1>1, <2>1, ConcatEmptySeq
  <2> QED BY <2>1, <2>2 DEF ShownInv
<1> QED BY <1>2, <1>3

-----------------------------------------------------------------------------
(* The invariant is inductive. *)

(* The program starts without listener. *)
LEMMA InitInv == Init => ListenerInv
<1> SUFFICES ASSUME Init PROVE ListenerInv
  OBVIOUS
<1>1. buff \in Seq([body : Bodies, part : {1, 2}]) /\ printed \in Seq(1 .. MaxEvents)
  BY DEF Init
<1>2. TypeOK
  <2>1. /\ pc = "prompt" /\ id = NULL /\ keys = 0 /\ stdin = 0
        /\ raised = 0 /\ at = [l \in Ids |-> NULL] /\ from = 0 /\ missing = {} /\ orphans = {}
    BY DEF Init
  <2>2. ended \in BOOLEAN /\ limited \in BOOLEAN
    BY DEF Init
  <2> QED BY <1>1, <2>1, <2>2, ListenerAssumption DEF TypeOK, Listening
<1>3. StartInv /\ FetchInv /\ ArrivingInv /\ ShownInv
  BY ListenerAssumption DEF Init, StartInv, FetchInv, ArrivingInv, ShownInv, Listening
<1>4. OwnedInv
  BY DEF Init, OwnedInv, Held, Mine
<1> QED BY <1>2, <1>3, <1>4 DEF ListenerInv

(* Each step of the program, the user and the gateway keeps the invariant. *)
LEMMA StepInv == ListenerInv /\ [Next]_eventVars => ListenerInv'
<1> SUFFICES ASSUME ListenerInv, [Next]_eventVars PROVE ListenerInv'
  OBVIOUS
<1> USE ListenerAssumption DEF ListenerInv
<1>1. CASE func_Event
  <2>1. TypeOK'
    <3>1. limited' \in BOOLEAN
      BY <1>1, Zenon DEF func_Event, TypeOK
    <3>2. /\ pc' = "register" /\ buff' = <<>> /\ printed' = <<>> /\ missing' = {}
          /\ UNCHANGED <<id, keys, stdin, ended, gateway, from, orphans>>
      BY <1>1 DEF func_Event
    <3> QED BY <3>1, <3>2, EmptyToSet DEF TypeOK, Listening
  <2>2. StartInv'
    BY <1>1, EmptyToSet DEF func_Event, TypeOK, StartInv, Listening
  <2>3. FetchInv' /\ ArrivingInv'
    BY <1>1, EmptyToSet DEF func_Event, TypeOK, StartInv, FetchInv, ArrivingInv, Listening
  <2>4. OwnedInv'
    BY <1>1, EmptyToSet DEF func_Event, TypeOK, StartInv, OwnedInv, Held, Mine, Listening
  <2>5. ShownInv'
    BY <1>1, EmptyToSet DEF func_Event, TypeOK, StartInv, FetchInv, ShownInv, ArrivingSet, Listening, Increasing
  <2> QED BY <2>1, <2>2, <2>3, <2>4, <2>5
<1>2. CASE RegisterLost
  <2>1. TypeOK'
    BY <1>2 DEF RegisterLost, NoAnswer, freeResponse, Parsed, Broken, TypeOK, Listening
  <2>2. StartInv'
    BY <1>2 DEF RegisterLost, NoAnswer, freeResponse, Parsed, Broken, TypeOK, StartInv, Listening
  <2>3. FetchInv' /\ ArrivingInv'
    BY <1>2 DEF RegisterLost, NoAnswer, freeResponse, Parsed, Broken, TypeOK, StartInv, FetchInv, ArrivingInv, Listening
  <2>4. OwnedInv'
    BY <1>2 DEF RegisterLost, NoAnswer, freeResponse, Parsed, Broken, TypeOK, StartInv, OwnedInv, Held, Mine, Listening
  <2>5. ShownInv'
    BY <1>2 DEF RegisterLost, NoAnswer, freeResponse, Parsed, Broken, TypeOK, StartInv, FetchInv, ShownInv, ArrivingSet, Listening, Increasing
  <2> QED BY <2>1, <2>2, <2>3, <2>4, <2>5
<1>3. ASSUME NEW n \in Pieces, RegisterRefused(n) PROVE ListenerInv'
  <2>1. TypeOK'
    BY <1>3, Received DEF RegisterRefused, Answered, ErrorBody, Broken, Bodies, TypeOK, Listening
  <2>2. StartInv'
    BY <1>3, Received DEF RegisterRefused, Answered, ErrorBody, Broken, Bodies, TypeOK, StartInv, Listening
  <2>3. FetchInv' /\ ArrivingInv'
    BY <1>3, Received DEF RegisterRefused, Answered, ErrorBody, Broken, Bodies, TypeOK, StartInv, FetchInv, ArrivingInv, Listening
  <2>4. OwnedInv'
    BY <1>3, Received DEF RegisterRefused, Answered, ErrorBody, Broken, Bodies, TypeOK, StartInv, OwnedInv, Held, Mine, Listening
  <2>5. ShownInv'
    BY <1>3, Received DEF RegisterRefused, Answered, ErrorBody, Broken, Bodies, TypeOK, StartInv, FetchInv, ShownInv, ArrivingSet, Listening, Increasing
  <2> QED BY <2>1, <2>2, <2>3, <2>4, <2>5
<1>4. ASSUME NEW n \in Pieces, NEW l \in Ids, Register(l, n) PROVE ListenerInv'
  <2>1. TypeOK'
    <3>1. IdBody(l) \in Bodies
      BY <1>4 DEF Register, TypeOK, Bodies
    <3>2. buff' \in Seq([body : Bodies, part : {1, 2}])
      BY <1>4, <3>1, Received DEF Register, Answered
    <3> HIDE DEF Bodies
    <3> QED BY <1>4, <3>2 DEF Register, TypeOK, Listening
  <2>2. StartInv'
    <3>1. Parsed(buff') = IF n = 2 THEN IdBody(l) ELSE Broken
      BY <1>4, Received DEF Register, Answered
    <3>2. /\ pc = "register" /\ pc' = "registered" /\ id' = id /\ printed' = printed
          /\ missing' = missing /\ at' = [at EXCEPT ![l] = raised] /\ from' = raised
      BY <1>4 DEF Register
    <3>3. at'[l] = raised
      BY <3>2 DEF TypeOK
    <3> QED BY <3>1, <3>2, <3>3 DEF StartInv, IdBody, Broken
  <2>3. FetchInv' /\ ArrivingInv'
    BY <1>4, Received DEF Register, Answered, IdBody, Broken, Bodies, Pieces, TypeOK, StartInv, FetchInv, ArrivingInv, Listening
  <2>4. OwnedInv'
    <3>1. id = NULL /\ Held \subseteq {} /\ l \notin orphans
      BY <1>4 DEF Register, StartInv, OwnedInv, Held, Mine
    <3>2. Parsed(buff') = IF n = 2 THEN IdBody(l) ELSE Broken
      BY <1>4, Received DEF Register, Answered
    <3>3. Held' = IF n = 2 THEN {l} ELSE {}
      BY <1>4, <3>1, <3>2, ListenerAssumption DEF Register, Held, Mine, IdBody, Broken
    <3>4. {m \in Ids : at[m] # NULL} = orphans
      BY <3>1 DEF OwnedInv
    <3>5. at' = [at EXCEPT ![l] = raised] /\ at'[l] # NULL
      BY <1>4 DEF Register, TypeOK
    <3>6. {m \in Ids : at'[m] # NULL} = orphans \cup {l}
      BY <3>4, <3>5 DEF TypeOK
    <3>7. orphans' = IF n = 2 THEN orphans ELSE orphans \cup {l}
      BY <1>4 DEF Register
    <3> QED BY <3>1, <3>3, <3>5, <3>6, <3>7 DEF OwnedInv
  <2>5. ShownInv'
    BY <1>4, Received DEF Register, Answered, IdBody, Broken, Bodies, Pieces, TypeOK, StartInv, FetchInv, ShownInv, ArrivingSet, Listening, Increasing
  <2> QED BY <2>1, <2>2, <2>3, <2>4, <2>5
<1>5. CASE Registered
  <2>1. TypeOK'
    <3>1. buff' \in Seq([body : Bodies, part : {1, 2}])
      <4>1. buff \in Seq([body : Bodies, part : {1, 2}])
        BY DEF TypeOK
      <4>2. buff' = buff \/ buff' = <<>>
        BY <1>5 DEF Registered, freeResponse
      <4>3. <<>> \in Seq([body : Bodies, part : {1, 2}])
        BY EmptySeq
      <4> QED BY <4>1, <4>2, <4>3
    <3>2. pc' = "poll" => id' \in Ids
      BY <1>5, ParsedType DEF Registered, IdBody, TypeOK
    <3>3. pc' # "poll" => id' = id
      BY <1>5 DEF Registered
    <3> QED BY <1>5, <3>1, <3>2, <3>3 DEF Registered, TypeOK, Listening
  <2>2. StartInv'
    BY <1>5, ParsedType, EmptyToSet DEF Registered, freeResponse, IdBody, Parsed, Broken, TypeOK, StartInv, Listening
  <2>3. FetchInv' /\ ArrivingInv'
    BY <1>5, ParsedType, EmptyToSet DEF Registered, freeResponse, IdBody, Parsed, Broken, TypeOK, StartInv, FetchInv, ArrivingInv, Listening
  <2>4. OwnedInv'
    BY <1>5, ParsedType, EmptyToSet DEF Registered, freeResponse, IdBody, Parsed, Broken, TypeOK, StartInv, OwnedInv, Held, Mine, Listening
  <2>5. ShownInv'
    BY <1>5, ParsedType, EmptyToSet DEF Registered, freeResponse, IdBody, Parsed, Broken, TypeOK, StartInv, FetchInv, ShownInv, ArrivingSet, Listening, Increasing
  <2> QED BY <2>1, <2>2, <2>3, <2>4, <2>5
<1>6. CASE Poll
  <2>1. TypeOK'
    BY <1>6 DEF Poll, KeyPressed, TypeOK, Listening
  <2>2. StartInv'
    BY <1>6 DEF Poll, KeyPressed, TypeOK, StartInv, Listening
  <2>3. FetchInv' /\ ArrivingInv'
    BY <1>6 DEF Poll, KeyPressed, TypeOK, StartInv, FetchInv, ArrivingInv, Listening
  <2>4. OwnedInv'
    BY <1>6 DEF Poll, KeyPressed, TypeOK, StartInv, OwnedInv, Held, Mine, Listening
  <2>5. ShownInv'
    BY <1>6 DEF Poll, KeyPressed, TypeOK, StartInv, FetchInv, ShownInv, ArrivingSet, Listening, Increasing
  <2> QED BY <2>1, <2>2, <2>3, <2>4, <2>5
<1>7. CASE FetchLost
  <2>1. TypeOK'
    BY <1>7 DEF FetchLost, NoAnswer, freeResponse, Parsed, Broken, TypeOK, Listening
  <2>2. StartInv'
    BY <1>7 DEF FetchLost, NoAnswer, freeResponse, Parsed, Broken, TypeOK, StartInv, Listening
  <2>3. FetchInv' /\ ArrivingInv'
    BY <1>7 DEF FetchLost, NoAnswer, freeResponse, Parsed, Broken, TypeOK, StartInv, FetchInv, ArrivingInv, Listening
  <2>4. OwnedInv'
    BY <1>7 DEF FetchLost, NoAnswer, freeResponse, Parsed, Broken, TypeOK, StartInv, OwnedInv, Held, Mine, Listening
  <2>5. ShownInv'
    BY <1>7 DEF FetchLost, NoAnswer, freeResponse, Parsed, Broken, TypeOK, StartInv, FetchInv, ShownInv, ArrivingSet, Listening, Increasing
  <2> QED BY <2>1, <2>2, <2>3, <2>4, <2>5
<1>8. ASSUME NEW n \in Pieces, Fetch(n) PROVE ListenerInv'
  <2>1. TypeOK'
    <3>1. raised \in 0 .. MaxEvents /\ id \in Ids
      <4>1. Listening
        BY <1>8 DEF Fetch, Listening
      <4> QED BY <4>1 DEF TypeOK
    <3>2. buff' \in Seq([body : Bodies, part : {1, 2}])
      <4>1. CASE at[id] # NULL
        <5>1. EventsBody(at[id], raised) \in Bodies
          BY <3>1, <4>1 DEF TypeOK, Bodies
        <5>2. buff' = WriteCallback(freeResponse(buff), EventsBody(at[id], raised), n)
          BY <1>8, <4>1 DEF Fetch, Answered
        <5> QED BY <5>1, <5>2, Received
      <4>2. CASE at[id] = NULL
        <5>1. ErrorBody \in Bodies
          BY DEF Bodies
        <5> QED BY <1>8, <4>2, <5>1, Received DEF Fetch, Answered
      <4> QED BY <4>1, <4>2
    <3>3. at' \in [Ids -> 0 .. MaxEvents \cup {NULL}] /\ missing' \subseteq 1 .. MaxEvents
      <4>1. CASE at[id] # NULL
        <5>1. at[id] \in 0 .. MaxEvents /\ missing \subseteq 1 .. MaxEvents
          BY <3>1, <4>1 DEF TypeOK
        <5>2. (at[id] + 1) .. raised \subseteq 1 .. MaxEvents
          BY <3>1, <5>1
        <5>3. /\ at' = [at EXCEPT ![id] = raised]
              /\ missing' = IF n = 2 THEN missing ELSE missing \cup ((at[id] + 1) .. raised)
          BY <1>8, <4>1 DEF Fetch
        <5>4. missing' \subseteq 1 .. MaxEvents
          BY <5>1, <5>2, <5>3
        <5> QED BY <3>1, <5>3, <5>4 DEF TypeOK
      <4>2. CASE at[id] = NULL
        BY <1>8, <4>2 DEF Fetch, TypeOK
      <4> QED BY <4>1, <4>2
    <3> QED BY <1>8, <3>1, <3>2, <3>3 DEF Fetch, TypeOK, Listening
  <2>2. StartInv'
    BY <1>8, Received DEF Fetch, Answered, EventsBody, ErrorBody, Broken, Bodies, Pieces, TypeOK, StartInv, Listening
  <2>3. FetchInv' /\ ArrivingInv'
    <3>1. id \in Ids /\ id' = id /\ pc' = "fetched" /\ printed' = printed
      BY <1>8 DEF Fetch, TypeOK, Listening
    <3>2. CASE at[id] # NULL
      <4>1. /\ at' = [at EXCEPT ![id] = raised]
            /\ missing' = IF n = 2 THEN missing ELSE missing \cup ((at[id] + 1) .. raised)
        BY <1>8, <3>2 DEF Fetch
      <4>2. Parsed(buff') = IF n = 2 THEN EventsBody(at[id], raised) ELSE Broken
        BY <1>8, <3>2, Received DEF Fetch, Answered
      <4>3. /\ at[id] \in Nat /\ raised \in Nat /\ at[id] <= raised /\ from <= at[id]
            /\ from \in Nat /\ missing \subseteq 1 .. at[id] /\ raised' = raised /\ from' = from
        BY <1>8, <3>1, <3>2 DEF Fetch, TypeOK, FetchInv, Listening
      <4>4. missing' \subseteq 1 .. raised
        <5>1. CASE n = 2
          BY <4>1, <4>3, <5>1
        <5>2. CASE n # 2
          <6>1. (at[id] + 1) .. raised \subseteq 1 .. raised /\ missing \subseteq 1 .. raised
            BY <4>3
          <6> QED BY <4>1, <5>2, <6>1
        <5> QED BY <5>1, <5>2
      <4>5. at'[id] = raised /\ \A l \in Ids : at'[l] # NULL => at'[l] <= raised
        BY <3>1, <4>1, <4>3 DEF TypeOK, FetchInv
      <4>6. FetchInv'
        BY <3>1, <4>3, <4>4, <4>5 DEF FetchInv
      <4>7. UpTo(printed, at[id])
        <5>1. ToSet(printed) \subseteq (from + 1) .. at[id]
          BY <1>8, <3>2 DEF Fetch, ShownInv, ArrivingSet, Listening
        <5> QED BY <5>1, <4>3 DEF UpTo, ToSet
      <4>8. ArrivingInv'
        BY <3>1, <4>2, <4>3, <4>7 DEF ArrivingInv, EventsBody, Broken
      <4> QED BY <4>6, <4>8
    <3>3. CASE at[id] = NULL
      <4>1. Parsed(buff') = IF n = 2 THEN ErrorBody ELSE Broken
        BY <1>8, <3>3, Received DEF Fetch, Answered
      <4> QED BY <1>8, <3>1, <3>3, <4>1
            DEF Fetch, TypeOK, FetchInv, ArrivingInv, ErrorBody, Broken, Listening
    <3> QED BY <3>2, <3>3
  <2>4. OwnedInv'
    BY <1>8, Received DEF Fetch, Answered, EventsBody, ErrorBody, Broken, Bodies, Pieces, TypeOK, StartInv, OwnedInv, Held, Mine, Listening
  <2>5. ShownInv'
    <3>1. /\ id \in Ids /\ id' = id /\ pc = "fetch" /\ pc' = "fetched"
          /\ printed' = printed /\ from' = from
      BY <1>8 DEF Fetch, TypeOK, Listening
    <3>2. ArrivingSet = {} /\ Increasing(printed)
      BY <3>1 DEF ArrivingSet, ShownInv, Listening
    <3>3. CASE at[id] # NULL
      <4>1. /\ at' = [at EXCEPT ![id] = raised]
            /\ missing' = IF n = 2 THEN missing ELSE missing \cup ((at[id] + 1) .. raised)
        BY <1>8, <3>3 DEF Fetch
      <4>2. Parsed(buff') = IF n = 2 THEN EventsBody(at[id], raised) ELSE Broken
        BY <1>8, <3>3, Received DEF Fetch, Answered
      <4>3. /\ at[id] \in Nat /\ raised \in Nat /\ at[id] <= raised /\ from <= at[id]
            /\ from \in Nat /\ missing \subseteq 1 .. at[id]
        BY <3>1, <3>3 DEF TypeOK, FetchInv, Listening
      <4>4. ToSet(printed) = ((from + 1) .. at[id]) \ missing
        BY <3>1, <3>2, <3>3 DEF ShownInv, Listening
      <4>5. at'[id] = raised
        BY <3>1, <4>1 DEF TypeOK
      <4>6. ArrivingSet' = IF n = 2 THEN (at[id] + 1) .. raised ELSE {}
        BY <3>1, <4>2 DEF ArrivingSet, EventsBody, Broken
      <4>7. ToSet(printed) \cup ArrivingSet' = ((from + 1) .. raised) \ missing'
        BY <4>1, <4>3, <4>4, <4>6
      <4> QED BY <3>1, <3>2, <4>5, <4>7 DEF ShownInv
    <3>4. CASE at[id] = NULL
      <4>1. at' = at
        BY <1>8, <3>4 DEF Fetch
      <4> QED BY <3>1, <3>2, <3>4, <4>1 DEF ShownInv
    <3> QED BY <3>3, <3>4
  <2> QED BY <2>1, <2>2, <2>3, <2>4, <2>5
<1>9. CASE Fetched
  <2>1. TypeOK'
    <3>1. EventsOf(Parsed(buff)) \in Seq(1 .. MaxEvents)
      <4>1. CASE Parsed(buff).kind = "events"
        <5>1. PICK a, b \in 0 .. MaxEvents : Parsed(buff) = EventsBody(a, b)
          BY <4>1, ParsedType
        <5>2. EventsOf(Parsed(buff)) = Block(a, b)
          BY <5>1 DEF EventsOf, EventsBody, Block
        <5> QED BY <5>2, BlockType
      <4>2. CASE Parsed(buff).kind # "events"
        BY <4>2 DEF EventsOf
      <4> QED BY <4>1, <4>2
    <3>2. printed \in Seq(1 .. MaxEvents)
      BY DEF TypeOK
    <3>3. printed \o EventsOf(Parsed(buff)) \in Seq(1 .. MaxEvents)
      BY <3>1, <3>2, ConcatProperties
    <3>4. buff' \in Seq([body : Bodies, part : {1, 2}])
      BY <1>9 DEF Fetched, freeResponse
    <3>5. printed' \in Seq(1 .. MaxEvents)
      BY <1>9, <3>3 DEF Fetched
    <3> QED BY <1>9, <3>4, <3>5 DEF Fetched, TypeOK, Listening
  <2>2. StartInv'
    BY <1>9, ParsedType DEF Fetched, freeResponse, TypeOK, StartInv, Listening
  <2>3. FetchInv' /\ ArrivingInv'
    BY <1>9, ParsedType DEF Fetched, freeResponse, TypeOK, StartInv, FetchInv, ArrivingInv, Listening
  <2>4. OwnedInv'
    BY <1>9, ParsedType DEF Fetched, freeResponse, TypeOK, StartInv, OwnedInv, Held, Mine, Listening
  <2>5. ShownInv'
    <3>1. /\ Listening /\ at' = at /\ id' = id /\ from' = from /\ missing' = missing
          /\ ArrivingSet' = {}
      BY <1>9 DEF Fetched, Listening, ArrivingSet
    <3>2. /\ Increasing(printed)
          /\ at[id] # NULL =>
               ToSet(printed) \cup ArrivingSet = ((from + 1) .. at[id]) \ missing
      BY <3>1 DEF ShownInv
    <3>3. printed \in Seq(Nat)
      BY DEF TypeOK
    <3>4. CASE Parsed(buff).kind = "events"
      <4>1. PICK a, b \in 0 .. MaxEvents : Parsed(buff) = EventsBody(a, b)
        BY <3>4, ParsedType
      <4>2. /\ a <= b /\ UpTo(printed, a) /\ printed' = printed \o Block(a, b)
            /\ ArrivingSet = (a + 1) .. b
        BY <1>9, <4>1 DEF Fetched, ArrivingInv, EventsOf, EventsBody, Block, ArrivingSet
      <4>3. /\ Increasing(printed')
            /\ ToSet(printed') = ToSet(printed) \cup ((a + 1) .. b)
        BY <3>2, <3>3, <4>2, BlockContinues
      <4> QED BY <3>1, <3>2, <4>2, <4>3 DEF ShownInv
    <3>5. CASE Parsed(buff).kind # "events"
      <4>1. printed' = printed \o <<>> /\ ArrivingSet = {}
        BY <1>9, <3>5 DEF Fetched, EventsOf, ArrivingSet
      <4>2. printed' = printed
        BY <4>1, <3>3, ConcatEmptySeq
      <4> QED BY <3>1, <3>2, <4>1, <4>2 DEF ShownInv
    <3> QED BY <3>4, <3>5
  <2> QED BY <2>1, <2>2, <2>3, <2>4, <2>5
<1>10. CASE Wake
  <2>1. TypeOK'
    BY <1>10 DEF Wake, TypeOK, Listening
  <2>2. StartInv'
    BY <1>10 DEF Wake, TypeOK, StartInv, Listening
  <2>3. FetchInv' /\ ArrivingInv'
    BY <1>10 DEF Wake, TypeOK, StartInv, FetchInv, ArrivingInv, Listening
  <2>4. OwnedInv'
    BY <1>10 DEF Wake, TypeOK, StartInv, OwnedInv, Held, Mine, Listening
  <2>5. ShownInv'
    BY <1>10 DEF Wake, TypeOK, StartInv, FetchInv, ShownInv, ArrivingSet, Listening, Increasing
  <2> QED BY <2>1, <2>2, <2>3, <2>4, <2>5
<1>11. CASE UnregisterLost
  <2>1. TypeOK'
    BY <1>11 DEF UnregisterLost, Parsed, Broken, TypeOK, Listening
  <2>2. StartInv'
    BY <1>11 DEF UnregisterLost, Parsed, Broken, TypeOK, StartInv, Listening
  <2>3. FetchInv' /\ ArrivingInv'
    BY <1>11 DEF UnregisterLost, Parsed, Broken, TypeOK, StartInv, FetchInv, ArrivingInv, Listening
  <2>4. OwnedInv'
    BY <1>11 DEF UnregisterLost, Parsed, Broken, TypeOK, StartInv, OwnedInv, Held, Mine, Listening
  <2>5. ShownInv'
    BY <1>11 DEF UnregisterLost, Parsed, Broken, TypeOK, StartInv, FetchInv, ShownInv, ArrivingSet, Listening, Increasing
  <2> QED BY <2>1, <2>2, <2>3, <2>4, <2>5
<1>12. CASE Unregister
  <2>1. TypeOK'
    BY <1>12 DEF Unregister, Parsed, Broken, TypeOK, Listening
  <2>2. StartInv'
    BY <1>12 DEF Unregister, Parsed, Broken, TypeOK, StartInv, Listening
  <2>3. FetchInv' /\ ArrivingInv'
    BY <1>12 DEF Unregister, Parsed, Broken, TypeOK, StartInv, FetchInv, ArrivingInv, Listening
  <2>4. OwnedInv'
    BY <1>12 DEF Unregister, Parsed, Broken, TypeOK, StartInv, OwnedInv, Held, Mine, Listening
  <2>5. ShownInv'
    BY <1>12 DEF Unregister, Parsed, Broken, TypeOK, StartInv, FetchInv, ShownInv, ArrivingSet, Listening, Increasing
  <2> QED BY <2>1, <2>2, <2>3, <2>4, <2>5
<1>13. CASE TypeKey \/ ReadLine \/ CloseInput
  <2>1. TypeOK'
    <3>1. keys' \in 0 .. MaxKeys /\ ended' \in BOOLEAN /\ UNCHANGED <<stdin, limited>>
      <4>1. CASE TypeKey
        BY <4>1 DEF TypeKey, TypeOK
      <4>2. CASE ReadLine
        BY <4>2 DEF ReadLine, TypeOK
      <4>3. CASE CloseInput
        BY <4>3 DEF CloseInput, TypeOK
      <4> QED BY <1>13, <4>1, <4>2, <4>3
    <3>2. UNCHANGED <<program, gateway, history>>
      BY <1>13 DEF TypeKey, ReadLine, CloseInput
    <3> QED BY <3>1, <3>2 DEF TypeOK, Listening
  <2>2. StartInv'
    BY <1>13 DEF TypeKey, ReadLine, CloseInput, Running, TypeOK, StartInv, Listening
  <2>3. FetchInv' /\ ArrivingInv'
    BY <1>13 DEF TypeKey, ReadLine, CloseInput, Running, TypeOK, StartInv, FetchInv, ArrivingInv, Listening
  <2>4. OwnedInv'
    BY <1>13 DEF TypeKey, ReadLine, CloseInput, Running, TypeOK, StartInv, OwnedInv, Held, Mine, Listening
  <2>5. ShownInv'
    BY <1>13 DEF TypeKey, ReadLine, CloseInput, Running, TypeOK, StartInv, FetchInv, ShownInv, ArrivingSet, Listening, Increasing
  <2> QED BY <2>1, <2>2, <2>3, <2>4, <2>5
<1>14. CASE Terminate
  <2>1. TypeOK'
    <3>1. Mine \subseteq Ids
      BY ParsedType DEF Mine, IdBody, TypeOK
    <3>2. orphans' \subseteq Ids
      BY <1>14, <3>1 DEF Terminate, TypeOK
    <3> QED BY <1>14, <3>2 DEF Terminate, TypeOK, Listening
  <2>2. StartInv'
    BY <1>14 DEF Terminate, Running, TypeOK, StartInv, Listening
  <2>3. FetchInv' /\ ArrivingInv'
    BY <1>14 DEF Terminate, Running, TypeOK, StartInv, FetchInv, ArrivingInv, Listening
  <2>4. OwnedInv'
    BY <1>14 DEF Terminate, Running, TypeOK, StartInv, OwnedInv, Held, Mine, Listening
  <2>5. ShownInv'
    BY <1>14 DEF Terminate, Running, TypeOK, StartInv, FetchInv, ShownInv, ArrivingSet, Listening, Increasing
  <2> QED BY <2>1, <2>2, <2>3, <2>4, <2>5
<1>15. CASE Restart
  <2>1. TypeOK'
    <3>1. buff' \in Seq([body : Bodies, part : {1, 2}]) /\ printed' \in Seq(1 .. MaxEvents)
      BY <1>15 DEF Restart
    <3>2. /\ pc' = "prompt" /\ id' = NULL /\ keys' = 0 /\ stdin' = 0
          /\ ended' = FALSE /\ limited' = FALSE
          /\ UNCHANGED <<gateway, history>>
      BY <1>15 DEF Restart
    <3>3. ended' \in BOOLEAN /\ limited' \in BOOLEAN
      BY <3>2
    <3>4. /\ pc' = "prompt" /\ id' = NULL /\ keys' = 0 /\ stdin' = 0
          /\ UNCHANGED <<gateway, history>>
      BY <3>2
    <3> QED BY <3>1, <3>3, <3>4 DEF TypeOK, Listening
  <2>2. StartInv'
    BY <1>15, EmptyToSet DEF Restart, Parsed, Broken, TypeOK, StartInv, Listening
  <2>3. FetchInv' /\ ArrivingInv'
    BY <1>15, EmptyToSet DEF Restart, Parsed, Broken, TypeOK, StartInv, FetchInv, ArrivingInv, Listening
  <2>4. OwnedInv'
    BY <1>15, EmptyToSet DEF Restart, Parsed, Broken, TypeOK, StartInv, OwnedInv, Held, Mine, Listening
  <2>5. ShownInv'
    BY <1>15, EmptyToSet DEF Restart, Parsed, Broken, TypeOK, StartInv, FetchInv, ShownInv, ArrivingSet, Listening, Increasing
  <2> QED BY <2>1, <2>2, <2>3, <2>4, <2>5
<1>16. CASE Raise
  <2>1. TypeOK'
    BY <1>16 DEF Raise, TypeOK, Listening
  <2>2. StartInv'
    BY <1>16 DEF Raise, TypeOK, StartInv, Listening
  <2>3. FetchInv' /\ ArrivingInv'
    BY <1>16 DEF Raise, TypeOK, StartInv, FetchInv, ArrivingInv, Listening
  <2>4. OwnedInv'
    BY <1>16 DEF Raise, TypeOK, StartInv, OwnedInv, Held, Mine, Listening
  <2>5. ShownInv'
    BY <1>16 DEF Raise, TypeOK, StartInv, FetchInv, ShownInv, ArrivingSet, Listening, Increasing
  <2> QED BY <2>1, <2>2, <2>3, <2>4, <2>5
<1>17. ASSUME NEW l \in Ids, Expire(l) PROVE ListenerInv'
  <2>1. TypeOK'
    BY <1>17 DEF Expire, TypeOK, Listening
  <2>2. StartInv'
    BY <1>17 DEF Expire, TypeOK, StartInv, Listening
  <2>3. FetchInv' /\ ArrivingInv'
    BY <1>17 DEF Expire, TypeOK, StartInv, FetchInv, ArrivingInv, Listening
  <2>4. OwnedInv'
    BY <1>17 DEF Expire, TypeOK, StartInv, OwnedInv, Held, Mine, Listening
  <2>5. ShownInv'
    BY <1>17 DEF Expire, TypeOK, StartInv, FetchInv, ShownInv, ArrivingSet, Listening, Increasing
  <2> QED BY <2>1, <2>2, <2>3, <2>4, <2>5
<1>18. CASE UNCHANGED eventVars
  <2>1. TypeOK'
    BY <1>18 DEF Next, TypeOK, Listening
  <2>2. StartInv'
    BY <1>18 DEF Next, TypeOK, StartInv, Listening
  <2>3. FetchInv' /\ ArrivingInv'
    BY <1>18 DEF Next, TypeOK, StartInv, FetchInv, ArrivingInv, Listening
  <2>4. OwnedInv'
    BY <1>18 DEF Next, TypeOK, StartInv, OwnedInv, Held, Mine, Listening
  <2>5. ShownInv'
    BY <1>18 DEF Next, TypeOK, StartInv, FetchInv, ShownInv, ArrivingSet, Listening, Increasing
  <2> QED BY <2>1, <2>2, <2>3, <2>4, <2>5
<1> QED
  BY <1>1, <1>2, <1>3, <1>4, <1>5, <1>6, <1>7, <1>8, <1>9, <1>10, <1>11, <1>12, <1>13, <1>14, <1>15, <1>16, <1>17, <1>18 DEF Next, LocalStep, TransferEnds

-----------------------------------------------------------------------------
(* The inductive invariant of Listener. *)
THEOREM ListenerInvariant == Spec => []ListenerInv
BY InitInv, StepInv, PTL DEF Spec

(* An Event that listens has an identifier, its counters stay in their
   bounds, and the buffer holds pieces of answers. *)
THEOREM TypeCorrect == Spec => []TypeOK
<1>1. ListenerInv => TypeOK
  BY DEF ListenerInv
<1> QED BY <1>1, ListenerInvariant, PTL

(* Events are printed once and in order, whatever is lost. *)
THEOREM EventsAlwaysShown == Spec => []EventsShown
BY InvariantShows, ListenerInvariant, PTL

(* Only a lost call or the end of the program leaves a listener behind. *)
THEOREM NoListenerIsLeft == Spec => []NoListenerLeft
<1>1. ListenerInv => NoListenerLeft
  <2> SUFFICES ASSUME ListenerInv, ~Running
               PROVE  {l \in Ids : at[l] # NULL} = orphans
    BY DEF NoListenerLeft
  <2>1. Held = {}
    BY DEF Held, Mine, Running, ListenerInv, StartInv
  <2> QED BY <2>1 DEF ListenerInv, OwnedInv
<1> QED BY <1>1, ListenerInvariant, PTL
=============================================================================
