------------------------------ MODULE Devices ------------------------------
(***************************************************************************)
(* The list of devices: how scan_Devices frees it and builds it again out  *)
(* of the gateway's answer, and how the commands and the completion of     *)
(* readline walk it.  Lists are linked through malloc'ed cells, a freed    *)
(* cell may be handed out again, and two pointers outlive the command that *)
(* set them: the global dev and the static cursor of a generator.          *)
(*                                                                         *)
(* One step is one turn of a loop of the source.  The program is single    *)
(* threaded: nothing else runs between the steps of a command.             *)
(***************************************************************************)
EXTENDS SequencesExt

CONSTANTS
  Cells,     \* what malloc() may return: the bound on the memory in use
  Labels,    \* labels as the gateway writes them: sequences of characters
  DevURLs,
  Names,     \* names of commands and states
  Answers,   \* answers to setup/devices: arrays of objects, or not an array
  NULL,      \* the C null pointer, a JSON null, an absent field
  Junk,      \* an uninitialized pointer
  Free,      \* the content of a cell that is not allocated
  NotArray,  \* JSON of another type
  Nameless   \* a command or a state without a name

(* An absent label, URL or name and one that is not a string are alike. *)
Items     == Names \cup {NULL, Nameless}
ItemLists == Seq(Items) \cup {NULL, NotArray}
Objects   == [label : Labels \cup {NULL}, url : DevURLs \cup {NULL},
              commands : ItemLists, states : ItemLists]

Pointers == Cells \cup {NULL, Junk}

(* The spaces of a label become underscores when it is stored. *)
Underscored(label) ==
  [i \in DOMAIN label |-> IF label[i] = " " THEN "_" ELSE label[i]]

(* What a cell holds: a struct Device with its label and URL, or a struct
   Command or State with its name. *)
DeviceCells == [kind : {"device"}, next : Pointers,
                label : {Underscored(l) : l \in Labels}, url : DevURLs,
                commands : Pointers, states : Pointers]
ItemCells   == [kind : {"command", "state"}, next : Pointers, name : Names]

ASSUME AnswersAssumption ==
  /\ Answers \subseteq Seq(Objects \cup {NULL}) \cup {NotArray}
  /\ NULL # NotArray /\ {NULL, Nameless} \cap Names = {}

ASSUME MemoryAssumption ==
  /\ IsFiniteSet(Cells)
  /\ NULL \notin Cells /\ Junk \notin Cells /\ NULL # Junk
  /\ Free \notin DeviceCells \cup ItemCells

VARIABLES
  pc,            \* "prompt", the loop that runs, or "aborted" by an assert()
  heap,          \* content of each cell
  devices_list,  \* first device
  cursor,        \* pointer of the loop that walks a list
  answer,        \* the last array received
  done,          \* how many of its objects were processed
  new,           \* the device under construction, or NULL
  todo,          \* commands or states of its object not read yet
  dev,           \* the device that Device, NDevice and completion looked up last
  asked,         \* [row, field]: command completed and names that are offered
  offered        \* candidates returned to readline so far

devVars == <<pc, heap, devices_list, cursor, answer, done, new, todo, dev, asked, offered>>

DeviceCell(label, url) ==
  [kind |-> "device", next |-> Junk, label |-> label, url |-> url,
   commands |-> NULL, states |-> Junk]
ItemCell(kind, name, next) == [kind |-> kind, next |-> next, name |-> name]

(* The commands that take a device: the argument completion offers, the
   field by which the command looks it up, its second argument. *)
Row(devarg, finds, autofunc) == [devarg |-> devarg, finds |-> finds, autofunc |-> autofunc]
Commands == {
  Row("url",   "url",   "none"),        \* Device
  Row("url",   "url",   "states"),      \* States
  Row("label", "url",   "commands"),    \* Command
  Row("label", "label", "none"),        \* NDevice
  Row("label", "label", "states"),      \* NStates
  Row("label", "label", "commands") }   \* NCommand

NotAsked == [row |-> Row("url", "url", "none"), field |-> "url"]

Init ==
  /\ pc = "prompt"
  /\ heap = [c \in Cells |-> Free]
  /\ devices_list = NULL /\ cursor = NULL /\ new = NULL /\ dev = NULL
  /\ answer = <<>> /\ done = 0 /\ todo = <<>>
  /\ asked = NotAsked /\ offered = <<>>

-----------------------------------------------------------------------------
(* The cells met from p on in a heap h.  A walk ends at the first freed one. *)
WalkIn(h, p) ==
  LET from[n \in 0 .. Cardinality(Cells)] ==
        [q \in Pointers |->
           IF n = 0 \/ q \notin Cells THEN <<>>
           ELSE IF h[q] = Free THEN <<q>>
           ELSE <<q>> \o from[n - 1][h[q].next]]
  IN  from[Cardinality(Cells)][p]

Walk(p) == WalkIn(heap, p)

(* findDevice(), findDeviceByURLSS(): the first device whose field is key. *)
Find(field, key) ==
  LET list == Walk(devices_list)
      i == SelectInSeq(list, LAMBDA d : heap[d][field] = key)
  IN  IF i = 0 THEN NULL ELSE list[i]

Available == {c \in Cells : heap[c] = Free}

Release(h, cells) == [c \in Cells |-> IF c \in cells THEN Free ELSE h[c]]

-----------------------------------------------------------------------------
(* scan_Devices *)

(* Without an answer, or with one that is not an array, the list stays. *)
func_scandevs(a) ==
  /\ pc = "prompt"
  /\ a # NotArray
  /\ pc' = "freeing"
  /\ cursor' = devices_list
  /\ answer' = a /\ done' = 0
  /\ UNCHANGED <<heap, devices_list, new, todo, dev, asked, offered>>

(* A freeDeviceList() that forgets to reset the list. *)
ListNotReset ==
  /\ pc = "freeing"
  /\ IF cursor # NULL
     THEN /\ heap' = Release(heap, {cursor})
          /\ cursor' = heap[cursor].next
          /\ UNCHANGED <<pc, devices_list>>
     ELSE /\ pc' = "object"
          /\ UNCHANGED <<heap, cursor, devices_list>>
  /\ UNCHANGED <<answer, done, new, todo, dev, asked, offered>>

(* freeDevice() frees the label and the URL, kept in the cell here, but not
   the commands and the states, which stay allocated. *)
freeDeviceList ==
  /\ pc = "freeing"
  /\ IF cursor # NULL
     THEN /\ heap' = Release(heap, {cursor})
          /\ cursor' = heap[cursor].next
          /\ UNCHANGED <<pc, devices_list>>
     ELSE /\ devices_list' = NULL
          /\ pc' = "object"
          /\ UNCHANGED <<heap, cursor>>
  /\ UNCHANGED <<answer, done, new, todo, dev, asked, offered>>

Object == answer[done + 1]

Scanning == UNCHANGED <<cursor, answer, dev, asked, offered>>

(* An error exit after which the loop counts the object twice. *)
SkipTwice(freed) ==
  /\ heap' = Release(heap, freed)
  /\ pc' = "object" /\ done' = done + 2
  /\ new' = NULL /\ todo' = <<>>
  /\ UNCHANGED devices_list

(* addDevice() returns, or was not called, without having linked a device. *)
Skip(freed) ==
  /\ heap' = Release(heap, freed)
  /\ pc' = "object" /\ done' = done + 1
  /\ new' = NULL /\ todo' = <<>>
  /\ UNCHANGED devices_list

(* An assert() fails: on an object without label or URL, on an item without
   name, or when malloc() returns NULL. *)
Abort ==
  /\ pc' = "aborted"
  /\ UNCHANGED <<heap, devices_list, done, new, todo>>

Identified(object) == object.label # NULL /\ object.url # NULL

(* addDevice() up to the commands. *)
StartDevice ==
  /\ pc = "object" /\ done < Len(answer)
  /\ \/ Object = NULL /\ Skip({})
     \/ Object # NULL /\ (Available = {} \/ ~Identified(Object)) /\ Abort
     \/ /\ Object # NULL /\ Available # {} /\ Identified(Object)
        /\ Object.commands \in {NULL, NotArray}
        /\ Skip({})
     \/ /\ Object # NULL /\ Identified(Object)
        /\ Object.commands \notin {NULL, NotArray}
        /\ \E c \in Available :
             /\ heap' = [heap EXCEPT ![c] = DeviceCell(Underscored(Object.label), Object.url)]
             /\ new' = c
        /\ pc' = "commands" /\ todo' = Object.commands
        /\ UNCHANGED <<devices_list, done>>
  /\ Scanning

(* Chains an item in front of one of the two lists of the new device. *)
Chain(field, kind) ==
  \E c \in Available :
    /\ heap' = [heap EXCEPT ![c] = ItemCell(kind, Head(todo), heap[new][field]),
                            ![new][field] = c]
    /\ todo' = Tail(todo)
    /\ UNCHANGED <<pc, devices_list, done, new>>

(* The commands chained so far are not freed when one of them is null. *)
ReadCommand ==
  /\ pc = "commands" /\ todo # <<>>
  /\ \/ Head(todo) = NULL /\ Skip({new})
     \/ Head(todo) # NULL /\ (Head(todo) = Nameless \/ Available = {}) /\ Abort
     \/ Head(todo) \in Names /\ Chain("commands", "command")
  /\ Scanning

(* An error exit that forgets the device itself. *)
CommandsOnly == ToSet(Walk(heap[new].commands))

NewAndCommands == {new} \cup ToSet(Walk(heap[new].commands))

(* From the commands to the states. *)
StartStates ==
  /\ pc = "commands" /\ todo = <<>>
  /\ \/ Object.states \in {NULL, NotArray} /\ Skip(NewAndCommands)
     \/ /\ Object.states \notin {NULL, NotArray}
        /\ heap' = [heap EXCEPT ![new].states = NULL]
        /\ pc' = "states" /\ todo' = Object.states
        /\ UNCHANGED <<devices_list, done, new>>
  /\ Scanning

(* When a state is null the commands are freed, but not the states before it. *)
ReadState ==
  /\ pc = "states" /\ todo # <<>>
  /\ \/ Head(todo) = NULL /\ Skip(NewAndCommands)
     \/ Head(todo) # NULL /\ (Head(todo) = Nameless \/ Available = {}) /\ Abort
     \/ Head(todo) \in Names /\ Chain("states", "state")
  /\ Scanning

(* A device linked in front of the first but not made the first. *)
LinkBehind ==
  /\ pc = "states" /\ todo = <<>>
  /\ IF devices_list = NULL
     THEN /\ heap' = [heap EXCEPT ![new].next = NULL]
          /\ devices_list' = new
     ELSE /\ heap' = [heap EXCEPT ![new].next = heap[devices_list].next,
                                  ![devices_list].next = new]
          /\ UNCHANGED devices_list
  /\ pc' = "object" /\ done' = done + 1 /\ new' = NULL
  /\ UNCHANGED todo
  /\ Scanning

LinkDevice ==
  /\ pc = "states" /\ todo = <<>>
  /\ heap' = [heap EXCEPT ![new].next = devices_list]
  /\ devices_list' = new
  /\ pc' = "object" /\ done' = done + 1 /\ new' = NULL
  /\ UNCHANGED todo
  /\ Scanning

ScanReturns ==
  /\ pc = "object" /\ done = Len(answer)
  /\ pc' = "prompt"
  /\ UNCHANGED <<heap, devices_list, done, new, todo>>
  /\ Scanning

-----------------------------------------------------------------------------
(* Device and NDevice with an argument leave what they found in dev. *)
internal_Devs(field, key) ==
  /\ pc = "prompt"
  /\ dev' = Find(field, key)
  /\ UNCHANGED <<pc, heap, devices_list, cursor, answer, done, new, todo, asked, offered>>

(* command_completion(): TAB on the first argument of a command ... *)
CompleteDevice(row) ==
  /\ pc = "prompt"
  /\ pc' = "offering"
  /\ cursor' = devices_list
  /\ asked' = [row |-> row, field |-> row.devarg]
  /\ UNCHANGED <<heap, devices_list, answer, done, new, todo, dev, offered>>

(* A completion that trusts the device it found before. *)
ItemOfCached(row, key) ==
  /\ pc = "prompt" /\ row.autofunc # "none"
  /\ dev' = IF dev = NULL THEN Find(row.devarg, key) ELSE dev
  /\ dev' # NULL
  /\ pc' = "offering"
  /\ cursor' = IF heap[dev'] = Free \/ heap[dev'].kind # "device" THEN Junk
               ELSE heap[dev'][row.autofunc]
  /\ asked' = [row |-> row, field |-> row.autofunc]
  /\ UNCHANGED <<heap, devices_list, answer, done, new, todo, offered>>

(* ... and on a later one, after the device named key. *)
CompleteItem(row, key) ==
  /\ pc = "prompt" /\ row.autofunc # "none"
  /\ dev' = Find(row.devarg, key)
  /\ IF dev' # NULL
     THEN /\ pc' = "offering"
          /\ cursor' = heap[dev'][row.autofunc]
          /\ asked' = [row |-> row, field |-> row.autofunc]
     ELSE UNCHANGED <<pc, cursor, asked>>
  /\ UNCHANGED <<heap, devices_list, answer, done, new, todo, offered>>

NameIn(cell, field) == IF field \in {"label", "url"} THEN cell[field] ELSE cell.name

(* dev_generator(), URL_generator(), state_generator(), action_generator():
   one more candidate, then the end.  The prefix already typed only filters
   the candidates and is taken to be empty. *)
Generator ==
  /\ pc = "offering"
  /\ IF cursor # NULL
     THEN /\ offered' = Append(offered, NameIn(heap[cursor], asked.field))
          /\ cursor' = heap[cursor].next
          /\ UNCHANGED <<pc, asked>>
     ELSE /\ offered' = <<>> /\ asked' = NotAsked
          /\ pc' = "prompt"
          /\ UNCHANGED cursor
  /\ UNCHANGED <<heap, devices_list, answer, done, new, todo, dev>>

-----------------------------------------------------------------------------
Keys(field) == IF field = "url" THEN DevURLs ELSE {Underscored(l) : l \in Labels}

Next ==
  \/ \E a \in Answers : func_scandevs(a)
  \/ freeDeviceList
  \/ StartDevice
  \/ ReadCommand
  \/ StartStates
  \/ ReadState
  \/ LinkDevice
  \/ ScanReturns
  \/ \E field \in {"label", "url"} : \E key \in Keys(field) : internal_Devs(field, key)
  \/ \E row \in Commands :
       \/ CompleteDevice(row)
       \/ \E key \in Keys(row.devarg) : CompleteItem(row, key)
  \/ Generator

Spec == Init /\ [][Next]_devVars

-----------------------------------------------------------------------------
TypeOK ==
  /\ pc \in {"prompt", "freeing", "object", "commands", "states", "offering", "aborted"}
  /\ heap \in [Cells -> {Free} \cup DeviceCells \cup ItemCells]
  /\ {devices_list, cursor, new, dev} \subseteq Cells \cup {NULL}
  /\ answer \in Answers \cup {<<>>}
  /\ done \in 0 .. Len(answer)
  /\ todo \in Seq(Items)
  /\ asked \in [row : Commands, field : {"label", "url", "commands", "states"}]
  /\ \A i \in DOMAIN offered : offered[i] \in {Underscored(l) : l \in Labels} \cup DevURLs \cup Names

IsA(kind, c) == heap[c] # Free /\ heap[c].kind = kind

(* A chain of allocated cells of one kind that ends in NULL. *)
IsChain(p, kind) ==
  LET list == Walk(p)
  IN  /\ p # Junk
      /\ IsInjective(list)
      /\ \A c \in ToSet(list) : IsA(kind, c)
      /\ list # <<>> => heap[Last(list)].next = NULL

(* The devices that are listed; during freeDeviceList(), those left of them. *)
Listed == Walk(IF pc = "freeing" THEN cursor ELSE devices_list)
Owned  == ToSet(Listed) \cup ({new} \ {NULL})

ItemsOf(d) == ToSet(Walk(heap[d].commands)) \cup
              IF heap[d].states = Junk THEN {} ELSE ToSet(Walk(heap[d].states))

(* What the commands and the completion walk is allocated memory: a chain of
   devices, each with its own chains of commands and states, shared with no
   other, whatever was freed and handed out again by the scans before. *)
HeapSound ==
  /\ IsChain(IF pc = "freeing" THEN cursor ELSE devices_list, "device")
  /\ \A d \in Owned :
       /\ IsA("device", d)
       /\ IsChain(heap[d].commands, "command")
       /\ (d = new /\ pc # "states" /\ heap[d].states = Junk) \/ IsChain(heap[d].states, "state")
       /\ \A e \in Owned \ {d} : ItemsOf(d) \cap ItemsOf(e) = {}

(* Each allocated device is listed or under construction: however addDevice()
   leaves, and however often the list is replaced, none is lost.  (Commands
   and states are: freeDevice() does not free them.) *)
NoDeviceLost == {c \in Cells : IsA("device", c)} = Owned

ItemNames(p) == LET list == Walk(p) IN [i \in DOMAIN list |-> heap[list[i]].name]

Inventory ==
  [i \in DOMAIN Listed |->
     LET d == heap[Listed[i]]
     IN  [label |-> d.label, url |-> d.url,
          commands |-> ItemNames(d.commands), states |-> ItemNames(d.states)]]

(* The objects of an array that make a device, and the device they make. *)
MakesDevice(o) ==
  /\ o # NULL
  /\ o.commands \notin {NULL, NotArray} /\ o.states \notin {NULL, NotArray}
  /\ NULL \notin ToSet(o.commands) \cup ToSet(o.states)
DeviceOf(o) == [label |-> Underscored(o.label), url |-> o.url,
                commands |-> Reverse(o.commands), states |-> Reverse(o.states)]

(* The devices that the first n objects of an array make, the last one first. *)
Made(array) ==
  LET made[n \in 0 .. Len(array)] ==
        IF n = 0 THEN <<>>
        ELSE IF MakesDevice(array[n]) THEN <<DeviceOf(array[n])>> \o made[n - 1]
        ELSE made[n - 1]
  IN  made

(* The list is made of the objects processed so far of the last array, the
   last one first, without those that were rejected half-way and with nothing
   left of earlier answers: in particular between two scans. *)
InventoryIsAnswer ==
  pc \notin {"freeing", "aborted"} =>
    HeapSound /\ Inventory = Made(answer)[done]

(* The list that the generator in use is asked to enumerate. *)
Candidates ==
  IF asked.field \in {"label", "url"} THEN Walk(devices_list)
  ELSE Walk(heap[dev][asked.field])

NamesOf(list) == [i \in DOMAIN list |-> NameIn(heap[list[i]], asked.field)]

(* A completion enumerates a device that is still listed, although dev and
   the generators' cursors survive the scans that free what they point at,
   and it offers each name of the list once and in order. *)
CompletionIsExact ==
  pc = "offering" =>
    /\ HeapSound
    /\ asked.field \in {"commands", "states"} => dev \in ToSet(Listed)
    /\ offered \o NamesOf(Walk(cursor)) = NamesOf(Candidates)

(* "<device URL> <command name> [argument]": what completion offers as the
   device of a command is what the command looks a device up by. *)
OffersAddressable ==
  pc = "offering" /\ asked.field = asked.row.devarg =>
    \A i \in DOMAIN offered : Find(asked.row.finds, offered[i]) # NULL
=============================================================================
