------------------------------- MODULE Prompt -------------------------------
(***************************************************************************)
(* From the line that is edited at the prompt to what is printed: readline *)
(* asks command_completion() for candidates and puts one of them into the  *)
(* line, the line is executed, its words choose a device, a state or a     *)
(* command, and the answer of the gateway is displayed.                    *)
(*                                                                         *)
(* How the list of devices is built in memory is the subject of Devices:   *)
(* here it is a sequence, the first of the list first.  The settings of    *)
(* the connection are in Connection and ApiCall: an answer that does not   *)
(* come, or is not JSON, is NULL.  The commands of this module are those   *)
(* that take a device or display an answer; Other stands for the rest.     *)
(***************************************************************************)
EXTENDS Words, Answers

CONSTANTS
  Space,    \* the blank that readline appends to what it completed
  Breaks,   \* readline's word breaks that are not blank: quotes, "=", ...
  NameOf,   \* the name of each command, a word
  Lines,    \* lines that are typed
  Replies,  \* for each command, what the gateway may answer
  MaxTabs   \* bound on the completions of a line

Row(does, devarg, finds, autofunc) ==
  [does |-> does, devarg |-> devarg, finds |-> finds, autofunc |-> autofunc]

(* The table Commands: the argument completion offers, the field by which
   the function of the row looks the device up, the second argument. *)
Commands == {
  Row("Device",   "url",   "url",   "none"),
  Row("States",   "url",   "url",   "states"),
  Row("Command",  "label", "url",   "commands"),
  Row("NDevice",  "label", "label", "none"),
  Row("NStates",  "label", "label", "states"),
  Row("NCommand", "label", "label", "commands"),
  Row("scan_Devices", "none", "none", "none"),
  Row("Gateway",      "none", "none", "none"),
  Row("Current",      "none", "none", "none"),
  Row("status",       "none", "none", "none"),
  Row("Other",        "none", "none", "none") }

IsWord(w) == w # <<>> /\ \A i \in DOMAIN w : w[i] \notin Blanks

Label   == {w \in Seq(Chars) : \A i \in DOMAIN w : w[i] # Space}
Device  == [label : Label, url : Seq(Chars), commands : Seq(Texts), states : Seq(Texts)]
Paths   == {"setup/devices", "setup/gateways", "/exec/current", "setup/devices/states", "exec/apply"}
Request == [path : Paths, url : Seq(Chars) \cup {NULL}, name : Seq(Chars) \cup {NULL},
            parameters : Seq(Seq(Chars))]

(* No line was executed: one that is has a word. *)
NoRun == [line |-> <<>>, row |-> NULL, reply |-> NULL, device |-> NULL, request |-> NULL, shown |-> <<>>]

ASSUME PromptAssumption ==
  /\ Space \in Blanks /\ "_" \in Graphs /\ Breaks \subseteq Graphs
  /\ DOMAIN NameOf = {row.does : row \in Commands}
  /\ \A does \in DOMAIN NameOf : NameOf[does] \in Seq(Graphs \ Breaks) \ {<<>>}
  /\ IsInjective(NameOf)
  /\ DOMAIN Replies = {"scan_Devices", "Gateway", "Current", "States"}
  /\ \A does \in DOMAIN Replies : Replies[does] \subseteq Json
  /\ Lines \subseteq Seq(Chars) /\ Texts \subseteq Seq(Chars)
  /\ NULL \notin Seq(Chars) \cup Commands \cup Device \cup Request
  /\ MaxTabs \in Nat

VARIABLES
  devices,  \* devices_list: [label, url, commands, states]
  line,     \* rl_line_buffer
  tabs,     \* completions of this line
  offer,    \* the last completion of this line, or NULL
  ran,      \* the last line executed and what came of it, or NoRun
  crashed   \* whether a null pointer was read, or an assertion failed

promptVars == <<devices, line, tabs, offer, ran, crashed>>

PromptInit ==
  /\ devices = <<>> /\ line = <<>> /\ tabs = 0 /\ offer = NULL
  /\ ran = NoRun /\ crashed = FALSE

-----------------------------------------------------------------------------
(* Devices *)

ItemNames(json, name) ==
  [i \in DOMAIN json |-> getObjString(json[i], <<name>>)]

(* A label that is stored as it was sent. *)
DeviceAsSent(json) ==
  [label    |-> getObjString(json, <<"label">>),
   url      |-> getObjString(json, <<"deviceURL">>),
   commands |-> Reverse(ItemNames(getObj(json, <<"definition", "commands">>).array, "commandName")),
   states   |-> Reverse(ItemNames(getObj(json, <<"definition", "states">>).array, "name"))]

(* The device that addDevice() adds to the list. *)
DeviceOf(json) ==
  [label    |-> ReplaceAll(getObjString(json, <<"label">>), Space, "_"),
   url      |-> getObjString(json, <<"deviceURL">>),
   commands |-> Reverse(ItemNames(getObj(json, <<"definition", "commands">>).array, "commandName")),
   states   |-> Reverse(ItemNames(getObj(json, <<"definition", "states">>).array, "name"))]

(* How addDevice() gets over a list of the definition: it gives the device up
   for what is no array and for an item that is null, and asserts that each
   item before has a name. *)
Listed(json, list, name) ==
  LET array   == getObj(json, <<"definition", list>>)
      unnamed == {i \in DOMAIN array.array : getObjString(array.array[i], <<name>>) = NULL}
  IN  IF ~Is("array", array) THEN "skip"
      ELSE IF unnamed = {} THEN "made"
      ELSE IF array.array[Min(unnamed)] = NULL THEN "skip" ELSE "crash"

(* addDevice() on an object of an answer, in which a null is passed over:
   Devices has what each of its exits leaves in memory. *)
addDevice(json) ==
  LET commands == Listed(json, "commands", "commandName")
  IN  CASE json = NULL -> "skip"
        [] NULL \in {getObjString(json, <<"label">>), getObjString(json, <<"deviceURL">>)} -> "crash"
        [] commands # "made" -> commands
        [] OTHER -> Listed(json, "states", "name")

ScanCrashes(reply) == \E json \in ToSet(Elements(reply)) : addDevice(json) = "crash"

(* findDevice() and findDeviceByURLSS() on a token of the line. *)
Find(l, token, field) ==
  LET i == SelectInSeq(devices, LAMBDA d : Same(l, token, d[field]))
  IN  IF i = 0 THEN NULL ELSE devices[i]

-----------------------------------------------------------------------------
(* command_completion() *)

Prefixed(text, names) == {name \in names : IsPrefix(text, name)}

NoOffer == [row |-> NULL, number |-> 0, device |-> NULL, names |-> {}, null |-> FALSE]

(* A findCommand() that a prefix satisfies. *)
RowsFrom(l, token) == {row \in Commands : SamePrefix(l, token, NameOf[row.does])}

(* findCommand() *)
RowOf(l, token) == {row \in Commands : Same(l, token, NameOf[row.does])}

(* The states or commands of the device the first argument names. *)
OfferItems(l, row, text, number) ==
  LET cmd == extractTokenSub(l, 1)
      d   == IF cmd.arg = 0 THEN NULL ELSE Find(l, extractTokenSub(l, cmd.arg), row.devarg)
  IN  [row |-> row, number |-> number, device |-> d, null |-> cmd.arg = 0,
       names |-> IF d = NULL THEN {} ELSE Prefixed(text, ToSet(d[row.autofunc]))]

(* What is offered for text, which begins after start characters.  The
   branch of the second argument serves each argument but the first. *)
command_completion(l, start, text) ==
  IF start = 0 THEN [NoOffer EXCEPT !.names = Prefixed(text, Range(NameOf))]
  ELSE
    LET rows   == {row \in RowOf(l, extractTokenSub(l, 1)) : row.devarg # "none"}
        row    == CHOOSE r \in rows : TRUE
        number == ArgumentNumber(l, start)
    IN  IF rows = {} THEN NoOffer
        ELSE IF LeadingSpaceBug(l, start) THEN [NoOffer EXCEPT !.null = TRUE]
        ELSE IF number = 1
             THEN [NoOffer EXCEPT !.row = row, !.number = 1,
                     !.names = Prefixed(text, {d[row.devarg] : d \in ToSet(devices)})]
        ELSE IF row.autofunc # "none" THEN OfferItems(l, row, text, number)
        ELSE NoOffer

-----------------------------------------------------------------------------
(* Editing *)

(* readline() is called again. *)
NextPrompt ==
  /\ ~crashed /\ ran # NoRun
  /\ tabs' = 0 /\ offer' = NULL /\ ran' = NoRun
  /\ UNCHANGED <<devices, line, crashed>>

TypeLine(l) ==
  /\ ran = NoRun /\ line = <<>>
  /\ line' = l
  /\ UNCHANGED <<devices, tabs, offer, ran, crashed>>

(* TAB behind the first end characters.  readline completes the text from
   the last word break on.  When there is a candidate, the user has it put
   into the line, after more letters if there are several. *)
Complete(end) ==
  /\ ran = NoRun /\ tabs < MaxTabs /\ end \in 0 .. Len(line)
  /\ LET start == Max({i \in 1 .. end : line[i] \in Blanks \cup Breaks} \cup {0})
         o     == command_completion(line, start, SubSeq(line, start + 1, end))
         rest  == SubSeq(line, end + 1, Len(line))
     IN  \/ \E name \in o.names :
            /\ line' = SubSeq(line, 1, start) \o name
                       \o (IF rest # <<>> /\ rest[1] = Space THEN <<>> ELSE <<Space>>) \o rest
            /\ offer' = [row |-> o.row, number |-> o.number, device |-> o.device,
                         name |-> name, null |-> FALSE,
                         word |-> /\ start > 0 /\ line[start] \in Blanks
                                  /\ rest # <<>> => rest[1] \in Blanks]
         \/ /\ o.names = {} /\ (o.row # NULL \/ o.null)
            /\ offer' = [row |-> o.row, number |-> o.number, device |-> o.device,
                         name |-> <<>>, null |-> o.null, word |-> FALSE]
            /\ UNCHANGED line
  /\ tabs' = tabs + 1
  /\ UNCHANGED <<devices, ran, crashed>>

-----------------------------------------------------------------------------
(* Commands.  Each yields the device it found, what it asked of callAPI()
   and what it printed of the answer. *)

Nothing == [device |-> NULL, request |-> NULL, shown |-> <<>>]

Asked(path, url, name, parameters) ==
  [path |-> path, url |-> url, name |-> name, parameters |-> parameters]
Query(path, shown) ==
  [device |-> NULL, request |-> Asked(path, NULL, NULL, <<>>), shown |-> shown]

DeviceAt(l, arg, row) == Find(l, extractTokenSub(l, arg), row.finds)

(* internal_States(): without a name, all the states. *)
internal_States(l, arg, row, reply) ==
  LET d    == DeviceAt(l, arg, row)
      next == extractTokenSub(l, arg).arg
      name == IF More(l, next) THEN Text(l, extractTokenSub(l, next)) ELSE NULL
  IN  IF arg = 0 \/ d = NULL THEN Nothing
      ELSE [device |-> d, request |-> Asked("setup/devices/states", d.url, NULL, <<>>),
            shown |-> ShowStates(reply, name)]

(* internal_Command(): the words behind the name are its parameters. *)
internal_Command(l, arg, row) ==
  LET d       == DeviceAt(l, arg, row)
      next    == extractTokenSub(l, arg).arg
      command == extractTokenSub(l, next)
  IN  IF arg = 0 \/ d = NULL \/ ~More(l, next) THEN Nothing
      ELSE [device |-> d, shown |-> <<>>,
            request |-> Asked("exec/apply", d.url, Text(l, command), Remaining(l, command.arg))]

device_info(d) == [i \in DOMAIN (d.commands \o d.states) |-> [key |-> (d.commands \o d.states)[i]]]

(* internal_Devs(): all the devices, or one with its commands and states. *)
internal_Devs(l, arg, row, more) ==
  LET d         == DeviceAt(l, arg, row)
      listed(e) == <<[label |-> e.label, url |-> e.url]>>
  IN  IF arg = 0
      THEN [Nothing EXCEPT !.shown =
              FlattenSeq([i \in DOMAIN devices |-> listed(devices[i]) \o
                            (IF more THEN device_info(devices[i]) ELSE <<>>)])]
      ELSE IF d = NULL THEN Nothing
      ELSE [device |-> d, request |-> NULL, shown |-> listed(d) \o device_info(d)]

(* What a command does with its argument, 0 for none, and an answer; more is
   the higher verbosity. *)
Effect(row, l, arg, reply, more) ==
  CASE row.does \in {"Device", "NDevice"}   -> internal_Devs(l, arg, row, more)
    [] row.does \in {"States", "NStates"}   -> internal_States(l, arg, row, reply)
    [] row.does \in {"Command", "NCommand"} -> internal_Command(l, arg, row)
    [] row.does = "scan_Devices" /\ arg = 0 ->
         Query("setup/devices", IF more THEN ShowScan(reply) ELSE <<>>)
    [] row.does = "Gateway" /\ arg = 0 -> Query("setup/gateways", ShowGateway(reply))
    [] row.does = "Current" /\ arg = 0 -> Query("/exec/current", ShowCurrent(reply, devices))
    [] row.does = "status" -> [Nothing EXCEPT !.shown = <<[count |-> Len(devices)]>>]
    [] OTHER -> Nothing

RepliesTo(row) ==
  LET to == IF row.does = "NStates" THEN "States" ELSE row.does
  IN  IF to \in DOMAIN Replies THEN Replies[to] ELSE {NULL}

(* scan_Devices: an answer that is no array leaves the devices as they are. *)
func_scandevs(reply) ==
  LET made(json) == IF addDevice(json) = "made" THEN <<DeviceOf(json)>> ELSE <<>>
  IN  IF Is("array", reply)
      THEN Reverse(FlattenSeq([i \in DOMAIN reply.array |-> made(reply.array[i])]))
      ELSE devices

(* ENTER on a line of which nothing is left, or that begins with no command;
   readline() is called again. *)
Ignore ==
  /\ line # <<>>
  /\ Stripped(line) = <<>> \/ RowOf(Stripped(line), extractTokenSub(Stripped(line), 1)) = {}
  /\ line' = <<>> /\ tabs' = 0 /\ offer' = NULL
  /\ UNCHANGED <<devices, ran, crashed>>

(* ENTER: execline() on what is left of the line once it is stripped. *)
Execute ==
  /\ Stripped(line) # <<>>
  /\ LET l   == Stripped(line)
         cmd == extractTokenSub(l, 1)
         arg == IF More(l, cmd.arg) THEN cmd.arg ELSE 0
     IN  \E row \in RowOf(l, cmd), more \in BOOLEAN : \E reply \in RepliesTo(row) :
           LET did == Effect(row, l, arg, reply, more)
           IN  /\ ran' = [line |-> l, row |-> row, reply |-> reply, device |-> did.device,
                          request |-> did.request, shown |-> did.shown]
               /\ devices' = IF did.request # NULL /\ row.does = "scan_Devices"
                             THEN func_scandevs(reply) ELSE devices
               /\ crashed' = \/ row.does = "Current" /\ arg = 0 /\ CurrentCrashes(reply, devices)
                             \/ row.does = "scan_Devices" /\ arg = 0 /\ ScanCrashes(reply)
  /\ line' = <<>>
  /\ UNCHANGED <<tabs, offer>>

PromptNext ==
  \/ NextPrompt
  \/ \E l \in Lines : TypeLine(l)
  \/ \E end \in 0 .. Len(line) : Complete(end)
  \/ Ignore
  \/ Execute

PromptSpec == PromptInit /\ [][PromptNext]_promptVars

-----------------------------------------------------------------------------
(* Whatever objects a scan is sent, those that addDevice() takes leave devices
   of which no label has a space, so that a label the user gave as several
   words is one word of a line. *)
PromptTypeOK ==
  /\ devices \in Seq(Device)
  /\ line \in Seq(Chars)
  /\ tabs \in 0 .. MaxTabs
  /\ offer # NULL =>
       offer \in [row : Commands \cup {NULL}, number : Nat, device : Device \cup {NULL},
                  name : Seq(Chars), null : BOOLEAN, word : BOOLEAN]
  /\ ran # NoRun =>
       /\ ran.line \in Seq(Chars) /\ ran.row \in Commands /\ ran.reply \in Json
       /\ ran.device \in ToSet(devices) \cup {NULL} /\ ran.request \in Request \cup {NULL}
  /\ crashed \in BOOLEAN

(* Completion counts the words in front of the cursor by their blanks, the
   commands take one word after the other: on a line of words and blanks both
   give the word behind the cursor the same number, and that is its place. *)
CountsLikeCommands == CountedAlike(line)

(* "Should never happen": completion meets neither the leading blanks of
   which the code says so, nor a command without the word it would read. *)
NeverWithoutWord == offer # NULL => ~offer.null

(* What completion puts into a line is meant for the device the command then
   addresses: the device itself as the first argument, afterwards a state or
   a command of that device.  A label or a URL that holds another blank is no
   word and cannot be typed.  (The row of Command completes by label what the
   command finds by URL: see OffersAddressable of Devices.) *)
OfferedIsAddressed ==
  /\ ran # NoRun /\ offer # NULL /\ Plain(ran.line)
  /\ offer.word /\ offer.name # <<>> /\ offer.row # NULL /\ offer.row.devarg = offer.row.finds
  =>
      LET d == DeviceAt(ran.line, extractTokenSub(ran.line, 1).arg, offer.row)
      IN  IF offer.number = 1
          THEN IsWord(offer.name) => d # NULL /\ d[offer.row.devarg] = offer.name
          ELSE d # NULL /\ d = offer.device

(* A line of States, NStates, Command or NCommand makes a request exactly when
   its second word names a known device and no word is missing; the request
   concerns such a device, and a command carries the words behind it, as they
   were typed. *)
RequestIsTheLine ==
  ran # NoRun /\ Plain(ran.line) /\ ran.row.autofunc # "none" =>
    LET words  == WordsOf(ran.line)
        needed == IF ran.row.autofunc = "commands" THEN 3 ELSE 2
        meant  == {d \in ToSet(devices) : Len(words) >= needed /\ d[ran.row.finds] = words[2]}
    IN  /\ ran.request # NULL <=> meant # {}
        /\ ran.request # NULL =>
             /\ ran.request.url \in {d.url : d \in meant}
             /\ ran.request.path = "exec/apply" =>
                  /\ ran.request.name = words[3]
                  /\ ran.request.parameters = SubSeq(words, 4, Len(words))

Pieces(field) == {piece \in ToSet(ran.shown) : field \in DOMAIN piece}
Values == {piece.value : piece \in Pieces("value")}

(* The states of which a title is printed, in order. *)
Titles(pieces) ==
  LET title(piece) == IF "state" \in DOMAIN piece THEN <<piece.state>> ELSE <<>>
  IN  FlattenSeq([i \in DOMAIN pieces |-> title(pieces[i])])

NamesOf(states) ==
  LET name(e) == getObjString(e, <<"name">>)
  IN  FlattenSeq([i \in DOMAIN states |->
                    IF name(states[i]) # NULL THEN <<name(states[i])>> ELSE <<>>])

(* Each value that Gateway, scan_Devices, States and Current print was sent,
   with the type it is printed with, unless it is one of the defaults. *)
ShownIsSent == ran # NoRun => Values \subseteq Printable({ran.reply})

(* States prints values of the states that the third word of the line names,
   or of all those that have a name, and then each of their names in order. *)
StatesAreTheOnesNamed ==
  ran # NoRun /\ ran.device # NULL /\ Plain(ran.line) /\ ran.row.does \in {"States", "NStates"} =>
    LET words   == WordsOf(ran.line)
        name(e) == getObjString(e, <<"name">>)
        meant   == {e \in ToSet(Elements(ran.reply)) :
                      name(e) # NULL /\ (Len(words) > 2 => name(e) = words[3])}
    IN  /\ Values \subseteq Printable(meant)
        /\ Len(words) = 2 => Titles(ran.shown) = NamesOf(Elements(ran.reply))

(* The label that Current prints beside a URL is that of a known device with
   that URL, and is missing only when no device has it. *)
CurrentNamesDevices ==
  ran # NoRun /\ ~crashed /\ ran.row.does = "Current" =>
    \A piece \in Pieces("label") :
      LET owners == {d \in ToSet(devices) : d.url = piece.url}
      IN  IF piece.label = NULL THEN owners = {}
          ELSE piece.label \in {d.label : d \in owners}
=============================================================================
