# A TLA+ verification of TaHomaCtl

TaHomaCtl (`src/`) is a command line client for Somfy's TaHoma gateway: one C
program, one thread, which reads commands with readline, finds the gateway with
Avahi, talks to it over HTTPS with libcurl and reads its answers with json-c.
The modules of this directory model what it keeps in memory between commands and
what its commands do to it, the runs check them with TLC on small instances, and
the proofs, checked by TLAPS, carry the main results to all instances.

Paths are those of the repository; definitions carry the names of the functions
they stand for where there is one. `PROJECT.json` gives the lines behind each.

## 1. The system

Components, the state each keeps, and what makes each correct.

| Component | Code | State | Operations | Correct when |
|---|---|---|---|---|
| Connection | `APIrequest.c` `buildURL`, `TaHomaCtl.c` setters and options | `tahoma`, `ip`, `port`, `token`; derived: `url`, `global_resolve_list`, `global_headers`, and the pointers the curl handle keeps | `-H`, `-p`, `TaHoma_host/address/port/token`, `scan_TaHoma`, exit | whenever `callAPI()` lets a request through, what was derived is that of the current settings, and libcurl holds no freed list |
| API calls | `APIrequest.c` `callAPI`, its callers in `APIprocess.c` | options of the one curl handle, its response code, `timeout` | `timeout`, each request | a request carries its own body, the timeout in force and the current settings; success is printed for what succeeded |
| Discovery | `AvahiScaning.c` | poll loop, browser, resolvers | `scan_TaHoma`; browser, resolver and client callbacks | a scan ends with one whole advertisement or none, ends when it can, and respects `-4`/`-6` |
| Devices | `APIprocess.c` `func_scandevs`, `addDevice`, `freeDevice*`, `findDevice*`; generators of `TaHomaCtl.c` | `devices_list`, each device's commands and states, `dev`, cursors of the generators | `scan_Devices`, `Device`, `NDevice`, TAB | the list is the last answer; nothing walks freed memory; no device is lost; completion offers what the command accepts |
| Event listener | `APIprocess.c` `func_Event`, `Utilities.c` `inkey$` | listener id, keys waiting in stdin; on the gateway: listeners and queues | `Event` | events are printed once, in order; a key ends it when its requests end; no listener is left behind |
| Command interpreter | `TaHomaCtl.c` `execline`, `execscript`, `main` | `ascript`, `nostartup`, open scripts, the command table, flags | options, prompt, `script`, startup, `quit`, `verbose`, `trace`, `debug` | whatever is called from where, `main()` and the connection agree on what may be done, scripts end unless what they wait for stays away, and a request is what its line says |
| Tokenizer, completion positions | `Utilities.c` `extractTokenSub`, `TaHomaCtl.c` `command_completion` | none (pure) | split a line, count the argument under the cursor | both number the words of a line alike, and what is offered is what the command then finds |
| Saving | `TaHomaCtl.c` `func_save` | the startup file | `save_config`, next start | what was saved comes back |
| Displays | `APIprocess.c` accessors, `Gateway`, `States`, `Current`, `printObject` | none | print an answer | what is printed was sent, belongs to the states asked for, and beside the device it concerns |
| Helpers | `history`, help, `spent`, `dynstring*`, `FreeAndSet` | none | | left out: they print or build what the models have as values |
| `TestCodes/` | prototypes | | | left out: the Makefile does not build them |

How they interact. Everything is a direct call in one thread, through globals:
the interpreter calls a command; a command that changes a setting calls
`buildURL()`; a command that asks the gateway calls `callAPI()`, which tests the
settings but uses what `buildURL()` derived from them earlier. The curl handle
outlives every request: options, and pointers to the program's own lists, are
carried from one request to the next. A scan runs Avahi's event loop, whose
callbacks change the settings. `scan_Devices` replaces the list which completion,
called back by readline between two commands, walks.

What is hard here is therefore not parallelism but *sequences*: values cached
from settings that change one at a time; options left by an earlier request;
early returns that leave half of the work; memory freed by one command and
reached from a global by another; callbacks in whatever order the network
produces; loops that wait for someone who may not answer. `PROJECT.json` lists
these hazards, each at its line with the properties that would catch it.

## 2. Modules

```
DirectClient            (abstract: a client without caches)
     ^ implemented by
ApiCall --------extends----> Connection <----extends-------- Discovery
     ^                          ^                               ^
ApiCallProofs           ConnectionProofs                DiscoveryProofs
MCApiCall               MCConnection                    MCDiscovery

Connection <----extends---- Shell <-- MCShell, ShellProofs

Words   <--extends---- Prompt <-- MCPrompt, PromptProofs
Answers <--extends-------'

Devices <-- MCDevices, DevicesProofs      Listener <-- MCListener, ListenerProofs

Numbers: facts about natural numbers, for DevicesProofs and PromptProofs
```

### Connection

`phase` says who may act: `"options"` while `main()` reads its arguments,
`"run"` at the prompt or in a script, `"scanning"` during `scan_TaHoma`,
`"exited"`. The four settings and the derived objects are variables of the same
name; `curl` is what the easy handle holds. A freed list that somebody still
points at is `Dangling`. `appendFailed` is a history variable: an append of the last
build of the lists failed.

`BuildURL` has all exits of `buildURL()`: settings incomplete (nothing changes),
the resolve entry or the first header cannot be allocated (early return, with
what was freed left freed), and the three later appends, which the code does not
test: one that returns NULL makes the next start a new list, so `HeaderList(f)`
holds only the headers after the last failure. `UInt16` is the cast of the port.
An option sets its value without `BuildURL`; each command calls it, on the new
value. `func_scan` drops host and URL, `resolve_found` takes an advertisement,
`ScanReturns` rebuilds. A step is one command or one callback: nothing else runs
in the middle of one. Commands without argument only print and are left out.

### ApiCall and DirectClient

ApiCall adds the options of the handle (`easy`), the response code it remembers
(`code`), the `timeout` setting and the last request (`sent`). `CallAPI` is
`callAPI()`: refused at once when the settings are incomplete, otherwise the
options are set in the order of the code (`PostOptions`, `GetOptions`, the
timeout only when it is not 0, libcurl refusing one that is negative or exceeds
`MaxTimeout`), the request is
what the handle then holds, and the code is the transfer's. `internal_Command`
frees its body when it returns, which leaves the handle with a dangling pointer
until the next request; it reports success only when the program is `verbose`, which
is a choice of the step. libcurl's semantics (`SetPost`, `SetFields`, ...) are
external: CURLOPT_POSTFIELDS makes the request a POST, size -1 sends the whole
string.

DirectClient is what the layer promises: one configuration, and each request made
from the configuration of the moment. `ImplementsDirectClient` says ApiCall
implements it under the mapping `config <-` the four settings, `request <-
SentRequest`.

### Devices

The heap is explicit: `heap` maps each of `Cells` to its content or `Free`;
`malloc` returns *any* free cell, so a cell freed by one scan turns up again
elsewhere in the next. One step is one turn of a loop of the source:
`freeDeviceList` frees one device, `StartDevice` is `addDevice()` up to its loop
over the commands, `ReadCommand` and `ReadState` read one item, `LinkDevice`
links the device. All exits of `addDevice()` are there: no label or URL (the
assertion ends the program: `"aborted"`), `definition`, `commands` or `states`
missing or of another type, an item that is null or nameless. `states` of a new
device is `Junk` until it is set, as after `malloc`. Commands and states are not freed
with their device, as in the code.

`dev` is the global that `Device`, `NDevice` and completion leave behind; the
generators walk with `cursor`, one candidate per step. The table of commands is
`Commands`: which field completion offers, by which field the command looks up.
Labels are short sequences of characters because their blanks are replaced when
they are stored; URLs and names are model values. The prefix the user typed only
filters candidates and is taken to be empty.

### Discovery

Discovery refines the scan of Connection into its event loop. Gateways come and
go on `lan`; the browser reports what it sees (`browse_new`, `browse_remove`),
each new service gets a resolver, resolvers answer or fail in any order, the
first answer or an Avahi failure asks the loop to quit. `StartFails` is each
failure before the loop. Avahi and the network are external.

### Listener

`pc` follows `func_Event()`: `"register"`, `"fetch"` and `"unregister"` are the
points before a request, `"registered"` and `"fetched"` those after the transfer,
`"poll"` the test of the keyboard, `"sleeping"` the sleep. A transfer is one
step: refused or lost (`...Lost`), or handled by the gateway, with `n` of the two
pieces of its answer received. `WriteCallback` appends pieces to `buff`, and
`Parsed` reads the *first* value of what is there, as json-c does, so a buffer
that is not freed shows. An answer to register without an id ends the program
(`strdup` of a null pointer), as `"dead"`.

The gateway (external) numbers the events it sees; a listener is the number
fetched last (`at`), since a fetch empties its queue; it may expire at any time.
The terminal (external) has `keys` not yet read and the ones stdio has read ahead
(`stdin`): `inkey$()` reads all that were typed, returns one and leaves the others
to the *next* Event, which they end at once; readline does not see them. The end
of the input is no key for `inkey$()`. Control-C ends the program, which may be
started again. `limited` says that a timeout is set on the curl handle, so that libcurl
ends each transfer: none is by default, one may have been given before any Event, and
none is taken away again while the program runs (finding 1). `from`, `missing` and `orphans` are history variables for the
properties: where this Event began, which events were in answers that did not
arrive whole, and which listeners were left by a lost call or by the end of the
program.

### Shell

Shell composes Connection with what surrounds it: the life of the process. `at`
is where `main()` is; Connection's `phase` stays what it was, and `ShellTypeOK`
ties the two. `calls` is the stack of `execscript()`: for each open script the
lines it has still to read. `NextLine` reads one line of the innermost script and
executes it *whole*: a command of Connection, a scan (whose callbacks are
`ScanGoesOn`; nothing else moves meanwhile), a flag, `script` (which pushes, or
ends the program when the file cannot be opened, from any depth), `save_config`,
`quit`, or something that only prints (`Other`). `Asks` are the commands among these that
ask for the gateway; the step that executes one is its end, which need not come
(`Waiting`). A line typed at the prompt is
the same `execline` with an empty stack. A line that begins with a blank is a
command at the prompt, where leading blanks are removed, and none in a script,
where the first token is then empty (`blank`).

`files` is the disk, which survives: `Restart` is the next start of the program,
with all variables of the process as the loader sets them. A script that is saved
over while it is read goes on, behind the lines it had when it was opened, in
the middle of the new content (`ReadsOn`): stdio reads it in one piece, which
scripts of a few lines fit into. `MaxOpen` is the limit of open files of a process,
which alone bounds a script that calls itself. `given` and `saved` are history
variables: what the options left, what the startup file held when this life
began, and what was saved last.

### Words, Answers and Prompt

Words has the two ways in which the program finds the words of a line:
`extractTokenSub()` with its pointers as positions (0 is the null pointer), and
the count of `command_completion()`. Lines are sequences of characters here,
because the question is where a word begins; what skips to the next word is
`isgraph()`, what ends one is a blank, and characters that are neither are in
`Others`. `WordsOf` is the reference: maximal runs of what is not blank.

Answers has the accessors of `APIprocess.c` with their defaults and every display
built on them, as functions from a JSON value to the pieces printed. `Json` is the set
of values that are met, closed under going into an object or an array, and `Depth` how
deep each is nested: json-c refuses what is nested deeper than a limit (`MaxDepth`), so
that `printObject()`, which calls itself, comes to an end. What a JSON
type conversion does is kept (a double is no int, an int that does not fit becomes
the nearest one, a boolean of another type is false); titles, tabs, dates and
punctuation are not.

Prompt puts both around the device list: a line is typed, TAB may be hit behind
any of its characters and puts a candidate into it as readline does, ENTER
executes it, the gateway answers, something is printed. A line that is blank or begins
with no command changes nothing (`Ignore`). `ran` remembers the last
line executed, with the device found, the request made and the pieces shown, and is
`NoRun` while a line is edited; `offer` is the last completion. What the exits
of `addDevice()` leave in memory is the subject of Devices; here the list is a sequence,
and `scan_Devices` may be answered by any value. `addDevice` says what becomes of an object
of it: it is made a device, given up (`"skip"`), or ends the program by an assertion
(`"crash"`). The source replaces spaces only, so that a stored label may hold a tab, or be
empty, and a URL any blank: such a name is offered but cannot be typed, and
`OfferedIsAddressed` claims nothing of it (`IsWord`).

## 3. Runs

`tlc -config <cfg> <module>`; counts are distinct states.

| Run | Checks | Instance and why it is enough |
|---|---|---|
| `connection` (`MCConnection`) | `TypeOK`, `URLCurrent`, `ListsCurrent`, `HandleHoldsLiveLists`, `ScanIsAllOrNothing` | 5 452 states, allocations may fail. Two values per setting, so that a stale one differs from the current one; ports 0, 443, 65536 and 73979, that is unset, plain, wrapping to unset and wrapping to 8443; two gateways, one advertising port 0 |
| `api` (`MCApiCall`) | `ApiTypeOK`, `BodyIsOwn`, `ImplementsDirectClient` | 920 816 states. Two addresses and tokens, one command body beside Event's empty one, a timeout that is negative, one that libcurl takes and one that is too long for it, three ends of a transfer, messages on and off. No allocation fails here: a request after one that does may lack Authorization or Host, and the layer does not promise more than `connection` checks |
| `devices` (`MCDevices`) | `TypeOK`, `HeapSound`, `NoDeviceLost`, `InventoryIsAnswer`, `CompletionIsExact` | 44 895 states up to symmetry of the cells. Six cells: two full devices take them all, shorter lists leave room for items that leak and let freed cells come back. Every exit of `addDevice()` before and after an accepted object |
| `discovery` (`MCDiscovery`) | `DiscTypeOK`, `ImplementsConnection`, `ScanEnds` | 14 496 states. One gateway announced over IPv4 and IPv6 and reachable by an address of each: the smallest case with two racing resolvers |
| `listener` (`MCListener`) | `TypeOK`, `EventsShown`, `NoListenerLeft`, `KeyEndsEvent` | 128 952 states, with and without a timeout. Three events: one shown, one lost, one after it; two keys: one is left over; two identifiers, so that an Event may meet what another one left |
| `shell` (`MCShell`) | `ShellTypeOK`, `SaveRestores`, `ScriptsEnd` | 664 788 states. Two lives: what the first saves the second reads. Three files open at once: the smallest depth at which a script called by a script calls one more that fails. Three files, of which one calls itself and then another, one saves over the startup script that may have called it, one makes `Event`; a fourth name is missing. A host may be empty by `-H ''`; one port wraps |
| `prompt` (`MCPrompt`) | `PromptTypeOK`, `CountsLikeCommands`, `NeverWithoutWord`, `OfferedIsAddressed`, `RequestIsTheLine`, `StatesAreTheOnesNamed`, `ShownIsSent`, `CurrentNamesDevices` | 161 688 states. Two devices, the label of one beginning with that of the other, the longer label listed behind the shorter and, with a tab in it, before it; objects that are given up for a missing list or a null item, and two that fail an assertion; lines with single, double and trailing blanks, a tab, a quote, a character that is not ASCII; two completions of a line, so that a word is completed on a line that was completed before; states of each type the code knows with values of that type and of another |
| `api_timeout` | `TimeoutIsCurrent` is violated | see finding 1 |
| `api_success` | `SuccessMeansDone` is violated | see finding 2 |
| `devices_offered` | `OffersAddressable` is violated | see finding 3 |
| `discovery_family` | `FamilyRespected` is violated | see finding 4 |
| `shell_token` | `SaveRestoresToken` is violated | see finding 5 |

What the passing runs show. `connection`: no order of options, setters, failed
or successful scans and failed allocations lets a request through with a URL that
is missing or old, with an override or header lines of other settings, or, unless an
append of the last build failed, without one of the four headers; and when both lists
are there, libcurl holds them. `api`: whatever was requested before on the same handle, a
request has its own body and cannot be told from one built afresh. `devices`: the
list is always the readable objects of the last array, last one first, in sound
memory, and completion enumerates devices that are still listed although `dev`
and the cursors outlive them. `discovery`: the callbacks in any order do no more
than Connection's scan, and the scan ends when it can. `listener`: whatever is
lost, cut off, refused or expires, events are printed once and in order, those
missing are those of answers cut off, only a lost call or the end of the program
leaves a listener on the gateway, and, with a timeout in force, a key ends an Event.
`shell`: whatever options, startup script, nested scripts and restarts do, a start that
reads what an earlier life saved has its host, address and port again; and scripts end,
those too that call themselves, unless something they wait for stays away. `prompt`: completion and commands
agree on which word is which on lines of words and blanks, what completion puts
into a line is meant for the device the command addresses, requests carry the
words of the line, and what is displayed was sent, for the states and devices it
is displayed for.

In `devices`, `malloc()` needs a free cell; without one it returns a null pointer, and
the assertion behind it ends the program (`Abort`). Scans may therefore end it in the
middle once leaked items fill the six cells: that it happens so soon is the bound, not
a claim about the program. The program may stop, by `quit` or an assertion: deadlock is
not checked.

Every property of a passing run has a mutant: a plausible bug in one definition
(a setter that does not rebuild, a list not reset, a device linked behind the
list's head, ...) with which TLC finds the property violated.

### Fairness

`discovery`, `listener` and `shell` need it. In `discovery`, weak fairness of `StartFails \/ EnterLoop` and of
`LoopReturns`: the program does not stop between two statements. Weak fairness of
`browse_new(s)` and of the end of each resolver: Avahi reports a service that
stays announced, and its resolvers answer or time out by themselves. Nothing is
assumed of the user, of gateways staying on the network, or of resolvers
succeeding; so `ScanEnds` has as premise a visible gateway that stays, and as
way out a service that was reported and could not be resolved (`missed`): the
code does not try it again and has no timeout, and a scan may then wait for ever.

In `listener`, weak fairness of `LocalStep`: what the program does between two transfers,
its sleep included, goes on. Transfers end by themselves only under a timeout: weak
fairness of `limited /\ TransferEnds`. `callAPI()` sets CURLOPT_TIMEOUT only when the user
gave one (`APIrequest.c:160`), and without it `curl_easy_perform()` waits on a silent
connection for ever. So `KeyEndsEvent` has `limited` as a premise, which some behaviours of
the run meet and others do not. It speaks of keys that were typed: the end of the input is
no key for `inkey$()`, and once it has come nothing but an interrupt or a key read ahead
ends an Event.

In `shell`, weak fairness of `~Waiting /\ (NextLine \/ ScriptReturns \/ ReadsOn)`: a program
in the middle of a script goes on by itself, but neither where a scan waits for the
network nor where the next line is one of `Asks`, a request without a timeout or an Event
that loops until a key. Nothing is assumed of the user or of the network. `ScriptsEnd`
therefore says that scripts end *if* the program is again and again not waiting
(`[]<>~Waiting`): nothing else keeps a script from ending, neither that it calls itself,
nor that it is saved over while it is read.

## 4. Proofs

`tlapm <module>Proofs.tla`. Every leaf is checked; there is no other assumption
than the named ones of the modules:

* `SettingsAssumption`, `PointerAssumption`, `CallAssumption`, `RequestAssumption`,
  `ServicesAssumption`, `ListenerAssumption`, `ShellAssumption`: special values are not
  values, an advertised port fits 16 bits, a response code is a natural number, what is
  saved can be read back.
* `AnswersAssumption`, `MemoryAssumption` (Devices): the memory is finite, and its cells
  are neither the null pointer nor what an uninitialized pointer holds.
* `CharsAssumption` (Words): no character is of two classes.
* `JsonAssumption` (Answers): JSON values are those json-c builds, nested at most `MaxDepth` deep.
* `PromptAssumption`: the commands have different names without blanks and quotes, as in
  the table `Commands`; lines and answers are made of characters. What `scan_Devices` is
  answered is not restricted further.

They hold for any set of hosts, addresses, tokens, ports, bodies, services, outcomes,
identifiers, labels, names, lines and answers, finite or not, any finite memory, and any
bound on events, keys and completions.

**Connection.** The invariants are not inductive alone. `URLCurrent` and
`ListsCurrent` speak of `phase = "run"`, and what makes them true after options
and scans is what those leave *un*set: while options are read no token and no
address is set, so the settings cannot be complete behind `buildURL()`'s back
(`OptionsIncomplete`), and a scan is either without a host or holds the address,
port and host of one advertisement, to be built when it returns
(`ScanHoldsAdvert`). `ConnInv` is the conjunction of these with `TypeOK` and the
three safety properties; `ConnInvariant` proves it inductive, action by action,
on two lemmas about `BuildURL` (what each of its exits leaves). From it follow
`TypeCorrect`, `URLAlwaysCurrent`, `ListsAlwaysCurrent`, `HandleNeverDangles` and
the action property `ScanTakesOneAdvert`.

**ApiCall.** Every step of ApiCall is a step of Connection or leaves its
variables alone, by construction, so ConnInv holds there too. That a
request carries its own body (`RequestsCarryOwnBody`) needs no history: both
branches of `CallOptions` set body, method and size. `RefinesDirectClient`
additionally needs that no append fails under its assumption (`AppendsSucceed`), so that
`ListsCurrent` gives both lists whole; then the three cached objects and the
pointers of the handle agree with the settings when a request is sent.

**Discovery.** `RefinesConnection` needs `LoopInv`: the loop exists exactly
during a scan, and before it runs nothing was resolved, so that the early exit
that skips `buildURL()` is the step in which `buildURL()` would find no host.
`URLCurrentInScans` carries `URLCurrent` over, and `DiscTypeCorrect` adds the types of
what Avahi reported, and that the loop exists exactly during a scan.

**Listener.** `EventsShown` needs to know, before an Event listens, that nothing
was shown and that the identifier on its way is that of a listener not yet
fetched (`StartInv`); while it listens, that what is missing was fetched
(`FetchInv`) and that events on their way come after those printed
(`ArrivingInv`). `NoListenerLeft` needs whose each listener on the gateway is
(`OwnedInv`): that of the running Event, which may be known from an answer only,
or an orphan. `ListenerInv` is their conjunction, with `EventsShown` restated for
sets (`ShownInv`); `InvariantShows` leads back to the sequence by the lemma
`BlockContinues`.

**Shell.** `ShellInv` is `ConnInv`, which each step preserves because it is a step of
Connection, one that leaves the connection alone, or a restart, which establishes
`Init` again; `ShellTypeOK`; that a script that was saved over is in a file
(`OverIsThere`), so that reading on is reading lines; and that a port is one that was
given (`PortWasGiven`), so that what is saved is again made of lines. Each kind of
line has its lemma, stated for any rest of the stack, so that the prompt and a script
use the same ones. With `ConnInv` come `URLCurrentInScripts` and `ListsCurrentInScripts`: what
is proved of Connection holds in each life.

`SavedComesBack` is about many steps, and needs an invariant that says how far the
reading is (`RestoreInv`): the startup file holds the lines of what was saved last
(`FileHoldsSaved`); and while a start reads it, the settings are what the options
left, changed by the lines already read, and the lines still in the stack are those
of the rest (`RestoreGoesOn`). Its step is four lemmas, one per line `save_config` may
write, the token being the one that does nothing. That needs only that an argument
saved can be read back, which `ShellAssumption` states.

**Devices.** The heap is a function and the lists are chains of `next` pointers in it;
`Walk` is a recursive function, about which nothing can be proved by the library's
induction. So `List(h, p, s, kind)` says by the pointers alone that the cells of the
sequence `s` are a list of that kind beginning at `p`, without a cell twice, and
`WalkOfList` shows that a walk from `p` then yields `s`. With it the effect of each step
on a list is that of one cell taken from the front, put before it, or touched outside of
it (`RestOfList`, `LongerList`, `SameList`). None of the properties of `devices` is
inductive. `DevInv` adds what they hide:

* `ListWhole`: the devices that are linked are a chain, each with two chains of items;
* `NewWhole`: so is the device under construction, apart from the field that is still
  `Junk`, and no list holds it;
* `NothingShared`: no item belongs to two devices, else reading one would change another;
* `ReadSoFar`, `ListIsAnswer`: what was read of the present object, reversed, with what
  is left of it, is that object, and the list is what the objects read before make;
* `OffersSoFar`: what the generator offered, with what its cursor still has to meet, is
  the list it was asked for, of a device that is still listed.

From it follow `DevTypeCorrect`, `HeapAlwaysSound`, `NoDeviceIsLost`,
`InventoryAlwaysAnswer` and `CompletionAlwaysExact`, for a memory of any size, in which
`malloc` may return any free cell, and for any sequence of answers.

**Numbers.** The library states induction and recursive definition with an operator as
parameter, which no installed prover can instantiate. Here sets and functions take its
place: a set with 0 and all successors has all numbers (`InductionUpTo`,
`InductionFromPrevious`), a function on `0 .. N` may be defined from its previous value
(`RecursionUpTo`), and one on nested data of bounded depth from values of lower rank
(`RecursionByRank`, `InductionByRank`). All rest on `LeastNumber`, proved by counting.
That is enough for the recursive functions of this project, whose data are bounded: a
walk by the cells there are, a fold by its sequence, a display by the depth of its value.

**Words.** For lines of any length over any characters: `extractTokenSub()` leaves a
pointer past the token or a null one (`PointerAdvances`); at a word it finds the word, and
on lines of words and blanks the pointer it leaves stands on the next one, with none
in between (`TokenIsWord`, `NextIsNextWord`); a stripped line begins with a word
(`StrippedBegins`); where completion has counted an argument there is a pointer to
follow (`CountedWordIsThere`); and the number completion gives to the word under the
cursor is that of the word the commands find there (`CompletionCounts`). What a command
takes from a pointer on is the rest of the words of the line (`RemainingAreWords`,
`WordsTaken`).

**Answers and Prompt.** `PromptInv` has four parts. `Known` and `OneLine` are types, and
that the line is empty once it was executed. `Executed`: what was found, asked and shown
is the effect of the command of the line *on the present devices*. That is
not how it came about, since `scan_Devices` replaces them in the same step, and is what
makes the properties, which speak of the present list, hold behind a scan
(`ScanStays`). `OffersHold`: the row completion served is still that of the command the line
begins with, and what was put into the line is addressed to the device it was offered
for. A later completion of the same line must leave that so: `SecondInCommon` and
`PutAsSecond` show what two lines with a common beginning have in common, and what
becomes of the second word when something is put there, by the number
of the word under the cursor (`CompletionPlace`). On it rest the eight properties of `prompt`:
`PromptTyped`, `CountedLikeCommands`, `NeverWithoutItsWord`, `OfferedAddressesDevice`,
`RequestSaysTheLine`, `StatesNamed`, `ShownWasSent`, `CurrentLabels`. Those about
displays use that `printObject()` prints leaves of its value and nothing else
(`PrintsLeaves`, by the depth of the value), that a display of an array is that of its
elements one after the other (`FlattenEach`), and that the titles of States are the names in order
(`TitlesAreNames`).

Only model-checked: `ScanEnds`, `KeyEndsEvent` and `ScriptsEnd`, since liveness under
fairness is outside the prover. Every other property of a passing run is a theorem,
`ImplementsDirectClient` under the condition of its run, that no allocation fails. The
five runs that find a violation need none.

## 5. Findings

1. `timeout 0` does not take back a timeout: `callAPI()` sets CURLOPT_TIMEOUT
   `if(timeout)` only, on a handle that remembers (`APIrequest.c:160`; help at
   `TaHomaCtl.c:314`).
2. `Command` and `NCommand` print `*I* Successful` for a command that was never
   sent, when the request before it succeeded: the response code is read from the
   handle after `callAPI()` has refused (`APIprocess.c:600`).
3. Completion offers device labels for `Command`, and `README.md:401` gives it
   one, but it looks up URLs only (`TaHomaCtl.c:332`).
4. `-4` and `-6` restrict the browser, not the address resolved
   (`AvahiScaning.c:112`; `README.md:111-112`).

5. `save_config` writes the token as `token ...`, which is no command: after the next
   start the program has no token and refuses each request (`TaHomaCtl.c:143`, against
   `TaHomaCtl.c:318` and `README.md:215`; `README.md:218-219` only cautions the user not to
   forget the token).

## 6. Not modelled

* Within the modelled components: wording and layout of messages, debug and
  trace output, the length of buffers (`resolve_entry` of `buildURL()` in
  particular), duration of transfers, the bytes of an answer.
* `history`, help, `spent`, dynamic strings: they print, or build what the models have
  as values. `FreeAndSet` is an assignment. The sleep of `sample` has no duration.
* `-k`: the source reads its argument and has no case for it (`TaHomaCtl.c:592`, `641`), so
  there is no step to model.
* A disk that is full: `save_config` does not test what it writes. Scripts that do not
  fit into the buffer of stdio, and are saved over while they are read, may lose more
  than `ReadsOn` says.
* Quoting: the words of a command line are put between quotes in a JSON body as they
  are (`APIprocess.c:538-592`); `RequestIsTheLine` is about the words.
* That a boolean state is printed twice (`APIprocess.c:499`) and that `Current` reads a
  null pointer for an action without `deviceURL` (`APIprocess.c:669`), and that `scan_Devices`
  fails an assertion for an object without label or URL (`APIprocess.c:183`), are in the
  models (`ShowValue`, `crashed`); no document says otherwise, so no property does.
* Lines with characters that are neither blank nor graphic: the models have them, and
  the properties of `prompt` exclude them (`Plain`), since there the two tokenizers do
  disagree.
* `TestCodes/`: prototypes, among them a copy of an Avahi example, which the Makefile does
  not build and no other file uses.
* Avahi, libcurl, json-c and readline, except what the code uses of them.

## 7. Plan

Done: Connection, ApiCall with DirectClient, Devices, Discovery, Listener, Shell, Words,
Answers and Prompt; their runs; the proofs of the safety and action properties of all of
them. Left, in this order:

1. `ImplementsDirectClient` with allocation failures, by a client that may lose
   its headers, as a run and then as a theorem.
2. That Prompt's list is the one Devices builds: Prompt's `scan_Devices` as what a whole
   scan of Devices does, on objects that make a device.
