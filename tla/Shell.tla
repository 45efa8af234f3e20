------------------------------- MODULE Shell -------------------------------
(***************************************************************************)
(* The life of TaHomaCtl around the connection: the options, the startup   *)
(* script ~/.tahomactl, the script given by -f or the prompt, scripts that *)
(* call scripts, save_config, and the next start of the program, which     *)
(* finds nothing but the files again.                                      *)
(*                                                                         *)
(* The settings are those of Connection, whose actions are used for what a *)
(* line does to them.  A script is read through a buffer of stdio and is   *)
(* taken to fit into it: its lines are those it had when it was opened.    *)
(* One that was saved over in between goes on, behind them, in the middle  *)
(* of what was saved; the rest of a line it meets there is taken to be no  *)
(* command.  Empty lines are skipped and left out, and what save_config    *)
(* writes is taken to reach the disk.  -k has no case in the source and    *)
(* changes nothing; -4 and -6 belong to Discovery.                         *)
(***************************************************************************)
EXTENDS Connection, Sequences

CONSTANTS
  Files,       \* names of files
  Startup,     \* ~/.tahomactl
  UserKnown,   \* whether getpwuid() finds the user's directory
  Others,      \* names of other commands, and what is no command
  Asks,        \* those of Others that ask the gateway or wait for a key
  Lines,       \* lines typed, or in the scripts that are there at first
  FirstFiles,  \* what the files may hold before the first start
  NoFile,      \* the content of a file that cannot be opened
  TokenOf,     \* the token an argument of TaHoma_token gives: typed, or read from a file
  On, More, Off,
  Flags,       \* those of "verbose", "trace", "debug" that are followed
  Empty,       \* the empty string
  MaxOpen,     \* how many files the process may have open for scripts
  MaxStarts    \* bound on the number of starts

Line(name, arg) == [blank |-> FALSE, name |-> name, arg |-> arg]

(* A line that begins with a blank: its first token is the empty string. *)
Indented(line) == [line EXCEPT !.blank = TRUE]

(* What save_config writes: a line per setting that is set, and the port
   even when it is not. *)
SavedPortAlways(h, a, p, t) ==
  LET one(set, line) == IF set THEN <<line>> ELSE <<>>
  IN  one(h # NULL, Line("TaHoma_host", h)) \o one(a # NULL, Line("TaHoma_address", a))
      \o <<Line("TaHoma_port", p)>> \o one(t # NULL, Line("token", t))

(* What save_config writes: a line per setting that is set.  No command is
   named "token". *)
SavedLines(h, a, p, t) ==
  LET one(set, line) == IF set THEN <<line>> ELSE <<>>
  IN  one(h # NULL, Line("TaHoma_host", h)) \o one(a # NULL, Line("TaHoma_address", a))
      \o one(p # 0, Line("TaHoma_port", p)) \o one(t # NULL, Line("token", t))

Settable == {"TaHoma_host", "TaHoma_address", "TaHoma_port", "TaHoma_token"}

Names == Settable \cup Others \cup {"verbose", "trace", "debug", "scan_TaHoma",
                                    "script", "save_config", "quit", "token"}

(* Arguments are of the kind their command takes, if they are there. *)
Arguments == Hosts \cup Addrs \cup PortArgs \cup Tokens \cup DOMAIN TokenOf \cup Files
             \cup {NULL, Empty, On, More, Off}

WellFormed(line) ==
  /\ line.name = "TaHoma_host" => line.arg \in Hosts \cup {NULL}
  /\ line.name = "TaHoma_address" => line.arg \in Addrs \cup {NULL}
  /\ line.name = "TaHoma_port" => line.arg \in PortArgs \cup {NULL}
  /\ line.name = "TaHoma_token" => line.arg \in DOMAIN TokenOf \cup {NULL}
  /\ line.name \in {"script", "save_config"} => line.arg \in Files \cup {NULL}

LineSet  == {line \in [blank : BOOLEAN, name : Names, arg : Arguments] : WellFormed(line)}
Contents == Seq(LineSet) \cup {NoFile}

(* What save_config writes for a port can be read back. *)
ASSUME ShellAssumption ==
  /\ Startup \in Files /\ UserKnown \in BOOLEAN /\ Asks \subseteq Others
  /\ Flags \subseteq {"verbose", "trace", "debug"}
  /\ MaxOpen \in Nat \ {0} /\ MaxStarts \in Nat \ {0}
  /\ TokenOf \in [DOMAIN TokenOf -> Tokens \cup {NULL}]
  /\ Lines \subseteq LineSet /\ FirstFiles \subseteq [Files -> Contents]
  /\ {NULL, Empty} \cap (Addrs \cup PortArgs \cup DOMAIN TokenOf \cup Files) = {}
  /\ Empty # NULL /\ NoFile \notin Seq(LineSet)
  /\ \A n \in PortArgs \cup {advert.port : advert \in Adverts} : UInt16(n) \in PortArgs

VARIABLES
  at,         \* where main() is: "options", "startup", "script", "prompt" or "over"
  ascript,    \* the script given by -f, or NULL
  nostartup,  \* -N
  flags,      \* level of each flag
  calls,      \* the scripts being executed, the innermost first: [file, lines, over],
              \* lines not read yet, and whether the file was saved over
  files,      \* content of each file: lines, or NoFile
  starts,     \* how many times the program was started
  given,      \* history: host, port and flags as the options left them, and
              \* what was saved in ~/.tahomactl when this life began
  saved       \* history: settings saved last to ~/.tahomactl, or NULL

shellVars == <<connVars, at, ascript, nostartup, flags, calls, files, starts, given, saved>>

NoneGiven == [tahoma |-> NULL, port |-> 0, flags |-> [f \in Flags |-> 0], saved |-> NULL]

ShellInit ==
  /\ Init
  /\ at = "options" /\ ascript = NULL /\ nostartup = FALSE
  /\ flags = [f \in Flags |-> 0]
  /\ calls = <<>>
  /\ files \in FirstFiles
  /\ starts = 1
  /\ given = NoneGiven /\ saved = NULL

-----------------------------------------------------------------------------
(* main() up to the prompt or the script *)

Options == UNCHANGED <<at, calls, files, starts, given, saved>>

OptionSetting ==
  /\ at = "options"
  /\ (\E h \in Hosts : OptionHost(h)) \/ (\E n \in PortArgs : OptionPort(n))
  /\ Options /\ UNCHANGED <<ascript, nostartup, flags>>

(* -f and -N *)
OptionScript ==
  /\ at = "options"
  /\ \/ \E f \in Files : ascript' = f /\ UNCHANGED nostartup
     \/ nostartup' = TRUE /\ UNCHANGED ascript
  /\ Options /\ UNCHANGED <<connVars, flags>>

(* -v, -V, -t and -d *)
OptionFlag ==
  /\ at = "options"
  /\ \E f \in Flags : \E level \in IF f = "verbose" THEN {1, 2} ELSE {1} :
       flags' = [flags EXCEPT ![f] = level]
  /\ Options /\ UNCHANGED <<connVars, ascript, nostartup>>

Leave ==
  /\ Exit
  /\ at' = "over" /\ calls' = <<>>

(* fopen() and the first read of execscript(). *)
Opened(f) == [file |-> f, lines |-> files[f], over |-> FALSE]

(* execscript() with dontfail: a startup script that cannot be opened, or
   whose directory is not known, is not executed. *)
OptionsOver ==
  /\ at = "options"
  /\ \/ /\ OptionsRead
        /\ at' = "startup"
        /\ given' = [tahoma |-> tahoma, port |-> port, flags |-> flags, saved |-> saved]
        /\ calls' = IF nostartup \/ ~UserKnown \/ files[Startup] = NoFile THEN <<>>
                    ELSE <<Opened(Startup)>>
     \/ Leave /\ UNCHANGED given  \* -h, a wrong option, or no curl handle
  /\ UNCHANGED <<ascript, nostartup, flags, files, starts, saved>>

StartupOver ==
  /\ at = "startup" /\ calls = <<>>
  /\ \/ /\ ascript = NULL
        /\ at' = "prompt"
        /\ UNCHANGED <<connVars, calls>>
     \/ /\ ascript # NULL /\ files[ascript] # NoFile
        /\ at' = "script" /\ calls' = <<Opened(ascript)>>
        /\ UNCHANGED connVars
     \/ ascript # NULL /\ files[ascript] = NoFile /\ Leave
  /\ UNCHANGED <<ascript, nostartup, flags, files, starts, given, saved>>

(* The script of -f ends, or readline() returns NULL. *)
MainReturns ==
  /\ at \in {"script", "prompt"} /\ calls = <<>>
  /\ Leave
  /\ UNCHANGED <<ascript, nostartup, flags, files, starts, given, saved>>

(* The next start: only the files are left. *)
Restarted ==
  /\ phase' = "options"
  /\ tahoma' = NULL /\ ip' = NULL /\ port' = 0 /\ token' = NULL
  /\ url' = NULL /\ resolve' = NULL /\ headers' = NULL
  /\ curl' = [resolve |-> NULL, headers |-> NULL]
  /\ appendFailed' = FALSE

Restart ==
  /\ at = "over" /\ starts < MaxStarts
  /\ Restarted
  /\ at' = "options" /\ ascript' = NULL /\ nostartup' = FALSE
  /\ flags' = [f \in Flags |-> 0] /\ calls' = <<>>
  /\ given' = NoneGiven /\ starts' = starts + 1
  /\ UNCHANGED <<files, saved>>

-----------------------------------------------------------------------------
(* exec(): what a line does.  rest is what is left of the open scripts once
   the line is read. *)

CanOpen(rest) == Len(rest) < MaxOpen

(* Off takes one level away. *)
SwitchDown(line, rest) ==
  /\ line.name \in Flags
  /\ flags' = CASE line.arg = On -> [flags EXCEPT ![line.name] = 1]
                [] line.arg = Off -> [flags EXCEPT ![line.name] = @ - 1]
                [] OTHER -> flags
  /\ calls' = rest
  /\ UNCHANGED <<connVars, at, files, saved>>

(* verbose, trace, debug; any other argument is refused. *)
Switch(line, rest) ==
  /\ line.name \in Flags
  /\ flags' = CASE line.arg = On -> [flags EXCEPT ![line.name] = 1]
                [] line.arg = More /\ line.name = "verbose" -> [flags EXCEPT !["verbose"] = 2]
                [] line.arg = Off -> [flags EXCEPT ![line.name] = 0]
                [] OTHER -> flags
  /\ calls' = rest
  /\ UNCHANGED <<connVars, at, files, saved>>

(* The commands of Connection, with an argument. *)
Set(line, rest) ==
  /\ line.arg \notin {NULL, Empty}
  /\ \/ line.name = "TaHoma_host" /\ func_THost(line.arg)
     \/ line.name = "TaHoma_address" /\ func_TAddr(line.arg)
     \/ line.name = "TaHoma_port" /\ func_TPort(line.arg)
     \/ /\ line.name = "TaHoma_token"
        /\ LET t == TokenOf[line.arg]
           IN  /\ t # NULL
               /\ t # line.arg => CanOpen(rest)
               /\ func_token(t)
  /\ calls' = rest
  /\ UNCHANGED <<at, flags, files, saved>>

Scan(line, rest) ==
  /\ line.name = "scan_TaHoma"
  /\ func_scan
  /\ calls' = rest
  /\ UNCHANGED <<at, flags, files, saved>>

(* A script whose call is read again when it has returned. *)
ScriptAgain(line, rest) ==
  /\ line.name = "script" /\ line.arg # NULL
  /\ IF CanOpen(rest) /\ files[line.arg] # NoFile
     THEN calls' = <<Opened(line.arg)>> \o calls /\ UNCHANGED <<connVars, at>>
     ELSE Leave
  /\ UNCHANGED <<flags, files, saved>>

(* A script that cannot be opened, because it is missing or because too many
   are open already, ends the program. *)
Script(line, rest) ==
  /\ line.name = "script" /\ line.arg # NULL
  /\ IF CanOpen(rest) /\ files[line.arg] # NoFile
     THEN calls' = <<Opened(line.arg)>> \o rest /\ UNCHANGED <<connVars, at>>
     ELSE Leave
  /\ UNCHANGED <<flags, files, saved>>

Save(line, rest) ==
  /\ line.name = "save_config" /\ line.arg # NULL /\ CanOpen(rest)
  /\ files' = [files EXCEPT ![line.arg] = SavedLines(tahoma, ip, port, token)]
  /\ saved' = IF line.arg # Startup THEN saved
              ELSE [tahoma |-> tahoma, ip |-> ip, port |-> port, token |-> token]
  /\ calls' = [i \in DOMAIN rest |-> [rest[i] EXCEPT !.over = @ \/ rest[i].file = line.arg]]
  /\ UNCHANGED <<connVars, at, flags>>

Quit(line, rest) ==
  /\ line.name = "quit"
  /\ Leave
  /\ UNCHANGED <<flags, files, saved>>

(* A message, a display, a request or nothing: a comment, a setting without
   value, a token or a configuration whose file cannot be opened, commands of
   other modules, and what is no command.  The step is the end of the line:
   see Waiting for those that may take for ever. *)
Other(line, rest) ==
  /\ \/ line.blank
     \/ line.name \notin Settable \cup Flags \cup {"scan_TaHoma", "script", "save_config", "quit"}
     \/ line.name \in Settable /\ line.arg \in {NULL, Empty}
     \/ /\ line.name = "TaHoma_token" /\ line.arg # NULL
        /\ TokenOf[line.arg] = NULL \/ (TokenOf[line.arg] # line.arg /\ ~CanOpen(rest))
     \/ line.name \in {"script", "save_config"} /\ line.arg = NULL
     \/ line.name = "save_config" /\ ~CanOpen(rest)
  /\ calls' = rest
  /\ UNCHANGED <<connVars, at, flags, files, saved>>

execline(line, rest) ==
  /\ phase = "run"
  /\ \/ ~line.blank /\ \/ Switch(line, rest) \/ Set(line, rest) \/ Scan(line, rest)
                       \/ Script(line, rest) \/ Save(line, rest) \/ Quit(line, rest)
     \/ Other(line, rest)
  /\ UNCHANGED <<ascript, nostartup, starts, given>>

(* The next line of the innermost script. *)
NextLine ==
  /\ calls # <<>> /\ Head(calls).lines # <<>>
  /\ execline(Head(Head(calls).lines),
              <<[Head(calls) EXCEPT !.lines = Tail(@)]>> \o Tail(calls))

(* execscript() closes the file and returns to the line that called it. *)
ScriptReturns ==
  /\ phase = "run"
  /\ calls # <<>> /\ Head(calls).lines = <<>>
  /\ calls' = Tail(calls)
  /\ UNCHANGED <<connVars, at, ascript, nostartup, flags, files, starts, given, saved>>

(* getline() reads again, where the old content ended, from a file that was
   saved over and is longer now. *)
ReadsOn ==
  /\ phase = "run"
  /\ calls # <<>> /\ Head(calls).lines = <<>> /\ Head(calls).over
  /\ LET now == files[Head(calls).file]
     IN  \E k \in 1 .. Len(now) :
           calls' = <<[Head(calls) EXCEPT !.lines = SubSeq(now, k, Len(now)), !.over = FALSE]>>
                    \o Tail(calls)
  /\ UNCHANGED <<connVars, at, ascript, nostartup, flags, files, starts, given, saved>>

(* At the prompt, unlike in a script, leading blanks are removed. *)
TypeLine ==
  /\ at = "prompt" /\ calls = <<>>
  /\ \E line \in Lines : execline([line EXCEPT !.blank = FALSE], <<>>)

(* While a scan runs, only its callbacks act; its end goes on with the line
   after it. *)
ScanGoesOn ==
  /\ (\E advert \in Adverts : resolve_found(advert)) \/ ScanReturns
  /\ UNCHANGED <<at, ascript, nostartup, flags, calls, files, starts, given, saved>>

-----------------------------------------------------------------------------
ShellNext ==
  \/ OptionSetting \/ OptionScript \/ OptionFlag
  \/ OptionsOver \/ StartupOver \/ MainReturns \/ Restart
  \/ NextLine \/ ScriptReturns \/ ReadsOn \/ TypeLine \/ ScanGoesOn

(* The program waits for somebody else: a scan for the network, a line that
   asks for the gateway, or, when it is Event, for a key. *)
Waiting ==
  \/ phase = "scanning"
  \/ /\ calls # <<>> /\ Head(calls).lines # <<>>
     /\ LET line == Head(Head(calls).lines) IN ~line.blank /\ line.name \in Asks

(* A program in the middle of a script goes on by itself, save where it
   waits: without a timeout a request has no end but the gateway's answer,
   and an Event none but a key.  The user at the prompt and the network need
   not act. *)
Fairness == WF_shellVars(~Waiting /\ (NextLine \/ ScriptReturns \/ ReadsOn))

ShellSpec == ShellInit /\ [][ShellNext]_shellVars /\ Fairness

-----------------------------------------------------------------------------
SettingsRecords == [tahoma : Hosts \cup {NULL}, ip : Addrs \cup {NULL}, port : Ports,
                    token : Tokens \cup {NULL}]

ShellTypeOK ==
  /\ at \in {"options", "startup", "script", "prompt", "over"}
  /\ ascript \in Files \cup {NULL}
  /\ nostartup \in BOOLEAN
  /\ flags \in [Flags -> 0 .. 2]
  /\ calls \in Seq([file : Files, lines : Seq(LineSet), over : BOOLEAN])
  /\ Len(calls) <= MaxOpen
  /\ files \in [Files -> Contents]
  /\ starts \in 1 .. MaxStarts
  /\ given \in [tahoma : Hosts \cup {NULL}, port : Ports, flags : [Flags -> 0 .. 2],
               saved : SettingsRecords \cup {NULL}]
  /\ saved \in SettingsRecords \cup {NULL}
  /\ at = "options" <=> phase = "options"
  /\ at = "over" <=> phase = "exited"
  /\ at \in {"options", "over"} => calls = <<>>

(* A start that finds the configuration saved by an earlier life, and does
   not skip it, has its host, address and port back, whatever was called,
   scanned or typed in between.  What the file holds wins over the options;
   what was not set when it was saved stays as the options left it.  The
   verbosity is not part of the configuration. *)
StartupDone == at = "startup" /\ at' # "startup" /\ ~nostartup /\ UserKnown /\ given.saved # NULL

SaveRestores ==
  [][StartupDone =>
       /\ tahoma' = IF given.saved.tahoma \in {NULL, Empty} THEN given.tahoma
                     ELSE given.saved.tahoma
       /\ ip' = given.saved.ip
       /\ port' = IF given.saved.port = 0 THEN given.port ELSE given.saved.port
       /\ flags' = given.flags]_shellVars

(* "save current configuration to the given file": the token comes back too. *)
SaveRestoresToken == [][StartupDone => token' = given.saved.token]_shellVars

(* Scripts end, those too that call themselves or one another, provided that
   nothing they wait for stays away: a scan its gateway, a request its
   answer, an Event its key.  The prompt is reached or the program has ended.
   What bounds them is the number of files a process may have open. *)
ScriptsEnd == []<>~Waiting => (calls # <<>> ~> calls = <<>>)
=============================================================================
