---------------------------- MODULE ShellProofs ----------------------------
(***************************************************************************)
(* Proofs about Shell: for every set of scripts, lines, settings and files *)
(* the connection takes steps of Connection only, or starts afresh, so     *)
(* that its invariants hold in each life of the program.                   *)
(***************************************************************************)
EXTENDS Shell, ConnectionProofs, SequenceTheorems, TLAPS

USE DEF connVars, settings, built

Call == [file : Files, lines : Seq(LineSet), over : BOOLEAN]

(* A script saved over while it runs is in a file that can be read, and the
   port is one that was read from an argument or an advertisement: what is
   saved is again made of well-formed lines. *)
OverIsThere ==
  \A i \in 1 .. Len(calls) : calls[i].over => files[calls[i].file] # NoFile

PortWasGiven == port \in PortArgs \cup {0}

ShellInv == ConnInv /\ ShellTypeOK /\ OverIsThere /\ PortWasGiven

-----------------------------------------------------------------------------
(* Lines *)

(* A host, an address or a port that is set can be saved as a line. *)
LEMMA SavedLineTypes ==
  /\ \A h \in Hosts : Line("TaHoma_host", h) \in LineSet
  /\ \A a \in Addrs : Line("TaHoma_address", a) \in LineSet
  /\ \A p \in PortArgs : Line("TaHoma_port", p) \in LineSet
  /\ \A t \in Tokens : Line("token", t) \in LineSet
<1>1. ASSUME NEW h \in Hosts
      PROVE  Line("TaHoma_host", h) \in LineSet
  <2>1. h \in Arguments
    BY DEF Arguments
  <2>2. WellFormed(Line("TaHoma_host", h))
    BY DEF WellFormed, Line
  <2> QED BY <2>1, <2>2 DEF LineSet, Line, Names, Settable
<1>2. ASSUME NEW a \in Addrs
      PROVE  Line("TaHoma_address", a) \in LineSet
  <2>1. a \in Arguments
    BY DEF Arguments
  <2>2. WellFormed(Line("TaHoma_address", a))
    BY DEF WellFormed, Line
  <2> QED BY <2>1, <2>2 DEF LineSet, Line, Names, Settable
<1>3. ASSUME NEW p \in PortArgs
      PROVE  Line("TaHoma_port", p) \in LineSet
  <2>1. p \in Arguments
    BY DEF Arguments
  <2>2. WellFormed(Line("TaHoma_port", p))
    BY DEF WellFormed, Line
  <2> QED BY <2>1, <2>2 DEF LineSet, Line, Names, Settable
<1>4. ASSUME NEW t \in Tokens
      PROVE  Line("token", t) \in LineSet
  <2>1. t \in Arguments
    BY DEF Arguments
  <2>2. WellFormed(Line("token", t))
    BY DEF WellFormed, Line
  <2> QED BY <2>1, <2>2 DEF LineSet, Line, Names, Settable
<1> QED BY <1>1, <1>2, <1>3, <1>4

(* An optional line is a sequence of at most one line. *)
LEMMA OneType ==
  ASSUME NEW set \in BOOLEAN, NEW line, set => line \in LineSet
  PROVE  (IF set THEN <<line>> ELSE <<>>) \in Seq(LineSet)
  OBVIOUS

(* What save_config writes is made of well-formed lines. *)
LEMMA SavedLinesType ==
  ASSUME NEW h \in Hosts \cup {NULL}, NEW a \in Addrs \cup {NULL},
         NEW p \in PortArgs \cup {0}, NEW t \in Tokens \cup {NULL}
  PROVE  SavedLines(h, a, p, t) \in Seq(LineSet)
<1> DEFINE one(set, line) == IF set THEN <<line>> ELSE <<>>
           lh == one(h # NULL, Line("TaHoma_host", h))
           la == one(a # NULL, Line("TaHoma_address", a))
           lp == one(p # 0, Line("TaHoma_port", p))
           lt == one(t # NULL, Line("token", t))
<1>1. lh \in Seq(LineSet) /\ la \in Seq(LineSet)
  BY SavedLineTypes, OneType
<1>2. lp \in Seq(LineSet) /\ lt \in Seq(LineSet)
  BY SavedLineTypes, OneType
<1>3. SavedLines(h, a, p, t) = lh \o la \o lp \o lt
  BY DEF SavedLines
<1> HIDE DEF lh, la, lp, lt
<1> QED BY <1>1, <1>2, <1>3, ConcatProperties

(* The head of a script is one of its lines, what is left is a script. *)
LEMMA ReadingALine ==
  ASSUME ShellTypeOK, calls # <<>>, Head(calls).lines # <<>>
  PROVE  /\ Head(Head(calls).lines) \in LineSet
         /\ [Head(calls) EXCEPT !.lines = Tail(@)] \in Call
         /\ Tail(calls) \in Seq(Call)
         /\ Len(Tail(calls)) = Len(calls) - 1
<1>1. calls \in Seq(Call)
  BY DEF ShellTypeOK, Call
<1>2. Head(calls) \in Call /\ Tail(calls) \in Seq(Call) /\ Len(Tail(calls)) = Len(calls) - 1
  BY <1>1, HeadTailProperties
<1>3. Head(calls).lines \in Seq(LineSet)
  BY <1>2 DEF Call
<1>4. Head(Head(calls).lines) \in LineSet /\ Tail(Head(calls).lines) \in Seq(LineSet)
  BY <1>3, HeadTailProperties
<1> QED BY <1>2, <1>4 DEF Call

-----------------------------------------------------------------------------
(* The type invariant in three parts: where the program is, the scripts that
   are open, and the rest. *)
ControlOK ==
  /\ at \in {"options", "startup", "script", "prompt", "over"}
  /\ at = "options" <=> phase = "options"
  /\ at = "over" <=> phase = "exited"
  /\ at \in {"options", "over"} => calls = <<>>

CallsOK == calls \in Seq(Call) /\ Len(calls) <= MaxOpen

RestOK ==
  /\ ascript \in Files \cup {NULL}
  /\ nostartup \in BOOLEAN
  /\ starts \in 1 .. MaxStarts
  /\ given \in [tahoma : Hosts \cup {NULL}, port : Ports, flags : [Flags -> 0 .. 2],
               saved : SettingsRecords \cup {NULL}]

DataOK ==
  /\ flags \in [Flags -> 0 .. 2]
  /\ files \in [Files -> Contents]
  /\ saved \in SettingsRecords \cup {NULL}

LEMMA ShellTypeSplit == ShellTypeOK <=> ControlOK /\ CallsOK /\ RestOK /\ DataOK
  BY DEF ShellTypeOK, ControlOK, CallsOK, RestOK, DataOK, Call

LEMMA ShellTypePrimed == ControlOK' /\ CallsOK' /\ RestOK' /\ DataOK' => ShellTypeOK'
  BY DEF ShellTypeOK, ControlOK, CallsOK, RestOK, DataOK, Call

(* A program that ends takes a step of Connection and leaves no script open. *)
LEMMA LeaveStep ==
  ASSUME Leave
  PROVE  [Next]_connVars /\ ControlOK' /\ CallsOK' /\ OverIsThere' /\ UNCHANGED port
<1>1. Exit /\ at' = "over" /\ calls' = <<>>
  BY DEF Leave
<1>2. phase' = "exited" /\ UNCHANGED port
  BY <1>1 DEF Exit
<1>3. <<>> \in Seq(Call) /\ Len(<<>>) = 0
  BY EmptySeq
<1>4. CallsOK' /\ OverIsThere'
  BY <1>1, <1>3, ShellAssumption DEF CallsOK, OverIsThere
<1> QED BY <1>1, <1>2, <1>4 DEF Next, ControlOK

(* A script that is opened is one that is there. *)
LEMMA OpenStep ==
  ASSUME NEW f \in Files, NEW rest \in Seq(Call), Len(rest) < MaxOpen, DataOK,
         files[f] # NoFile, calls' = <<Opened(f)>> \o rest, UNCHANGED files,
         \A i \in 1 .. Len(rest) : rest[i].over => files[rest[i].file] # NoFile
  PROVE  CallsOK' /\ OverIsThere'
<1>1. files[f] \in Seq(LineSet)
  BY DEF DataOK, Contents
<1>2. Opened(f) \in Call /\ ~Opened(f).over
  BY <1>1 DEF Opened, Call
<1> DEFINE c == Opened(f)
<1> HIDE DEF c
<1>3. <<c>> \in Seq(Call) /\ Len(<<c>>) = 1 /\ <<c>>[1] = c
  BY <1>2 DEF c
<1>4. Len(rest) \in Nat /\ MaxOpen \in Nat
  BY LenProperties, ShellAssumption
<1>5. calls' = <<c>> \o rest
  BY DEF c
<1>6. /\ calls' \in Seq(Call)
      /\ Len(calls') = 1 + Len(rest)
      /\ \A i \in 1 .. 1 + Len(rest) :
           calls'[i] = IF i <= 1 THEN <<c>>[i] ELSE rest[i - 1]
  BY <1>3, <1>5, ConcatProperties
<1>7. CallsOK'
  BY <1>4, <1>6 DEF CallsOK
<1>8. ASSUME NEW i \in 1 .. Len(calls'), calls'[i].over
      PROVE  files[calls'[i].file] # NoFile
  <2>1. CASE i = 1
    BY <2>1, <1>2, <1>3, <1>6, <1>8, <1>4 DEF c
  <2>2. CASE i # 1
    <3>1. i - 1 \in 1 .. Len(rest) /\ calls'[i] = rest[i - 1]
      BY <2>2, <1>6, <1>4
    <3> QED BY <3>1, <1>8
  <2> QED BY <2>1, <2>2
<1> QED BY <1>7, <1>8 DEF OverIsThere

-----------------------------------------------------------------------------
(* What a line may do: the connection takes a step of its own, and types,
   open scripts and the port stay what they should be. *)
Safe ==
  /\ [Next]_connVars
  /\ ControlOK' /\ CallsOK' /\ DataOK' /\ OverIsThere' /\ PortWasGiven'

RestIsFine(rest) ==
  /\ rest \in Seq(Call) /\ Len(rest) <= MaxOpen
  /\ \A i \in 1 .. Len(rest) : rest[i].over => files[rest[i].file] # NoFile

(* The common case: the connection takes a step and stays off the options and
   the end, and the line is done with. *)
LEMMA PlainStep ==
  ASSUME ShellInv, NEW STATE rest, RestIsFine(rest),
         at \in {"startup", "script", "prompt"}, UNCHANGED <<at, files, saved>>, calls' = rest,
         [Next]_connVars, phase' \in {"run", "scanning"}, PortWasGiven',
         flags' \in [Flags -> 0 .. 2]
  PROVE  Safe
<1>1. ControlOK'
  BY DEF ControlOK
<1>2. CallsOK' /\ OverIsThere'
  BY DEF RestIsFine, CallsOK, OverIsThere
<1>3. DataOK'
  BY ShellTypeSplit DEF ShellInv, DataOK
<1> QED BY <1>1, <1>2, <1>3 DEF Safe

LEMMA SwitchSafe ==
  ASSUME ShellInv, NEW STATE line, line \in LineSet, NEW STATE rest,
         RestIsFine(rest), phase = "run",
         at \in {"startup", "script", "prompt"}, Switch(line, rest)
  PROVE  Safe
<1>1. flags \in [Flags -> 0 .. 2]
  BY DEF ShellInv, ShellTypeOK
<1>2. flags' \in [Flags -> 0 .. 2]
  BY <1>1 DEF Switch
<1>3. PortWasGiven' /\ phase' = "run" /\ [Next]_connVars
  BY DEF Switch, ShellInv, PortWasGiven
<1>4. UNCHANGED <<at, files, saved>> /\ calls' = rest
  BY DEF Switch
<1> QED BY <1>2, <1>3, <1>4, PlainStep

LEMMA OtherSafe ==
  ASSUME ShellInv, NEW STATE line, line \in LineSet, NEW STATE rest,
         RestIsFine(rest), phase = "run",
         at \in {"startup", "script", "prompt"}, Other(line, rest)
  PROVE  Safe
<1>1. UNCHANGED <<connVars, at, flags, files, saved>> /\ calls' = rest
  BY DEF Other
<1>2. flags' \in [Flags -> 0 .. 2]
  BY <1>1 DEF ShellInv, ShellTypeOK
<1>3. PortWasGiven' /\ phase' = "run" /\ [Next]_connVars
  BY <1>1 DEF ShellInv, PortWasGiven
<1> QED BY <1>1, <1>2, <1>3, PlainStep

LEMMA ScanSafe ==
  ASSUME ShellInv, NEW STATE line, line \in LineSet, NEW STATE rest,
         RestIsFine(rest), phase = "run",
         at \in {"startup", "script", "prompt"}, Scan(line, rest)
  PROVE  Safe
<1>1. func_scan /\ UNCHANGED <<at, flags, files, saved>> /\ calls' = rest
  BY DEF Scan
<1>2. flags' \in [Flags -> 0 .. 2]
  BY <1>1 DEF ShellInv, ShellTypeOK
<1>3. PortWasGiven' /\ phase' = "scanning" /\ [Next]_connVars
  BY <1>1 DEF ShellInv, PortWasGiven, func_scan, Next
<1> QED BY <1>1, <1>2, <1>3, PlainStep

(* The argument of a setting is of the kind its action in Connection takes,
   and a port read from it can be saved. *)
LEMMA SetSafe ==
  ASSUME ShellInv, NEW STATE line, line \in LineSet, NEW STATE rest,
         RestIsFine(rest), phase = "run",
         at \in {"startup", "script", "prompt"}, Set(line, rest)
  PROVE  Safe
<1>1. UNCHANGED <<at, flags, files, saved>> /\ calls' = rest
  BY DEF Set
<1>2. flags' \in [Flags -> 0 .. 2]
  BY <1>1 DEF ShellInv, ShellTypeOK
<1>3. WellFormed(line) /\ line.arg # NULL
  BY DEF LineSet, Set
<1>4. SetSetting /\ PortWasGiven' /\ phase' = "run"
  <2>1. CASE line.name = "TaHoma_host" /\ func_THost(line.arg)
    <3>1. line.arg \in Hosts
      BY <2>1, <1>3 DEF WellFormed
    <3> QED BY <2>1, <3>1 DEF SetSetting, func_THost, ShellInv, PortWasGiven
  <2>2. CASE line.name = "TaHoma_address" /\ func_TAddr(line.arg)
    <3>1. line.arg \in Addrs
      BY <2>2, <1>3 DEF WellFormed
    <3> QED BY <2>2, <3>1 DEF SetSetting, func_TAddr, ShellInv, PortWasGiven
  <2>3. CASE line.name = "TaHoma_port" /\ func_TPort(line.arg)
    <3>1. line.arg \in PortArgs
      BY <2>3, <1>3 DEF WellFormed
    <3>2. UInt16(line.arg) \in PortArgs
      BY <3>1, ShellAssumption
    <3> QED BY <2>3, <3>1, <3>2 DEF SetSetting, func_TPort, PortWasGiven
  <2>4. CASE line.name = "TaHoma_token" /\ TokenOf[line.arg] # NULL
             /\ func_token(TokenOf[line.arg])
    <3>1. line.arg \in DOMAIN TokenOf
      BY <2>4, <1>3 DEF WellFormed
    <3>2. TokenOf[line.arg] \in Tokens
      BY <2>4, <3>1, ShellAssumption
    <3> QED BY <2>4, <3>2 DEF SetSetting, func_token, ShellInv, PortWasGiven
  <2> QED BY <2>1, <2>2, <2>3, <2>4 DEF Set
<1> QED BY <1>1, <1>2, <1>4, PlainStep DEF Next

LEMMA ScriptSafe ==
  ASSUME ShellInv, NEW STATE line, line \in LineSet, NEW STATE rest,
         RestIsFine(rest), phase = "run",
         at \in {"startup", "script", "prompt"}, Script(line, rest)
  PROVE  Safe
<1>1. line.name = "script" /\ line.arg # NULL /\ UNCHANGED <<flags, files, saved>>
  BY DEF Script
<1>2. DataOK'
  BY <1>1, ShellTypeSplit DEF ShellInv, DataOK
<1>3. CASE CanOpen(rest) /\ files[line.arg] # NoFile
  <2>1. calls' = <<Opened(line.arg)>> \o rest /\ UNCHANGED <<connVars, at>>
    BY <1>3 DEF Script
  <2>2. line.arg \in Files
    BY <1>1 DEF LineSet, WellFormed
  <2>3. CallsOK' /\ OverIsThere'
    BY <1>1, <1>3, <2>1, <2>2, OpenStep, ShellTypeSplit
    DEF ShellInv, RestIsFine, CanOpen
  <2> QED BY <1>2, <2>1, <2>3 DEF Safe, ControlOK, ShellInv, PortWasGiven
<1>4. CASE ~(CanOpen(rest) /\ files[line.arg] # NoFile)
  <2>1. Leave
    BY <1>4 DEF Script
  <2> QED BY <1>2, <2>1, LeaveStep DEF Safe, ShellInv, PortWasGiven
<1> QED BY <1>3, <1>4

LEMMA QuitSafe ==
  ASSUME ShellInv, NEW STATE line, line \in LineSet, NEW STATE rest,
         Quit(line, rest)
  PROVE  Safe
<1>1. Leave /\ UNCHANGED <<flags, files, saved>>
  BY DEF Quit
<1>2. DataOK'
  BY <1>1, ShellTypeSplit DEF ShellInv, DataOK
<1> QED BY <1>1, <1>2, LeaveStep DEF Safe, ShellInv, PortWasGiven

(* The scripts of the file that is saved are marked; the others stay. *)
Marked(rest, f) == [i \in DOMAIN rest |-> [rest[i] EXCEPT !.over = @ \/ rest[i].file = f]]

LEMMA MarkedCalls ==
  ASSUME NEW rest \in Seq(Call), NEW f \in Files
  PROVE  /\ Marked(rest, f) \in Seq(Call)
         /\ Len(Marked(rest, f)) = Len(rest)
         /\ \A i \in 1 .. Len(rest) :
              /\ Marked(rest, f)[i].file = rest[i].file
              /\ Marked(rest, f)[i].over <=> rest[i].over \/ rest[i].file = f
<1> DEFINE mark(i) == [rest[i] EXCEPT !.over = @ \/ rest[i].file = f]
<1>1. Len(rest) \in Nat /\ DOMAIN rest = 1 .. Len(rest)
  BY LenProperties
<1>2. ASSUME NEW i \in 1 .. Len(rest)
      PROVE  /\ mark(i) \in Call /\ mark(i).file = rest[i].file
             /\ mark(i).over <=> rest[i].over \/ rest[i].file = f
  <2>1. rest[i] \in Call
    BY ElementOfSeq
  <2> QED BY <2>1 DEF Call
<1>3. Marked(rest, f) = [i \in 1 .. Len(rest) |-> mark(i)]
  BY <1>1 DEF Marked
<1> HIDE DEF mark
<1>4. Marked(rest, f) \in [1 .. Len(rest) -> Call]
  BY <1>2, <1>3
<1>5. Marked(rest, f) \in Seq(Call)
  BY <1>1, <1>4, SeqDef
<1>6. Len(Marked(rest, f)) = Len(rest)
  BY <1>1, <1>4, <1>5, LenProperties
<1>7. \A i \in 1 .. Len(rest) : Marked(rest, f)[i] = mark(i)
  BY <1>3
<1> QED BY <1>2, <1>5, <1>6, <1>7

(* What is saved is again made of well-formed lines, and a script that is
   saved over is there. *)
LEMMA SaveSafe ==
  ASSUME ShellInv, NEW STATE line, line \in LineSet, NEW STATE rest,
         RestIsFine(rest), phase = "run",
         at \in {"startup", "script", "prompt"}, Save(line, rest)
  PROVE  Safe
<1>1. /\ line.name = "save_config" /\ line.arg # NULL
      /\ UNCHANGED <<connVars, at, flags>>
  BY DEF Save
<1>2. line.arg \in Files
  BY <1>1 DEF LineSet, WellFormed
<1>3. TypeOK
  BY DEF ShellInv, ConnInv
<1> DEFINE now == SavedLines(tahoma, ip, port, token)
<1>4. now \in Seq(LineSet) /\ now # NoFile
  <2>1. /\ tahoma \in Hosts \cup {NULL} /\ ip \in Addrs \cup {NULL}
        /\ token \in Tokens \cup {NULL} /\ port \in PortArgs \cup {0}
    BY <1>3 DEF TypeOK, ShellInv, PortWasGiven
  <2>2. now \in Seq(LineSet)
    BY <2>1, SavedLinesType
  <2> QED BY <2>2, ShellAssumption
<1>5. files' = [files EXCEPT ![line.arg] = now]
  BY DEF Save
<1>6. files \in [Files -> Contents]
  BY DEF ShellInv, ShellTypeOK
<1> HIDE DEF now
<1>7. files' \in [Files -> Contents]
  BY <1>2, <1>4, <1>5, <1>6 DEF Contents
<1>8. saved' \in SettingsRecords \cup {NULL}
  <2>1. [tahoma |-> tahoma, ip |-> ip, port |-> port, token |-> token] \in SettingsRecords
    BY <1>3 DEF TypeOK, SettingsRecords
  <2>2. saved' \in {saved, [tahoma |-> tahoma, ip |-> ip, port |-> port, token |-> token]}
    BY DEF Save
  <2> QED BY <2>1, <2>2 DEF ShellInv, ShellTypeOK
<1>9. DataOK'
  BY <1>1, <1>7, <1>8 DEF DataOK, ShellInv, ShellTypeOK
<1> DEFINE marked == Marked(rest, line.arg)
<1>10. calls' = marked
  BY DEF Save, Marked
<1>11. /\ marked \in Seq(Call) /\ Len(marked) = Len(rest)
       /\ \A i \in 1 .. Len(rest) :
            /\ marked[i].file = rest[i].file
            /\ marked[i].over <=> rest[i].over \/ rest[i].file = line.arg
  BY <1>2, MarkedCalls DEF RestIsFine
<1> HIDE DEF marked
<1>12. CallsOK'
  BY <1>10, <1>11 DEF CallsOK, RestIsFine
<1>13. OverIsThere'
  <2> SUFFICES ASSUME NEW i \in 1 .. Len(rest), marked[i].over
               PROVE  files'[rest[i].file] # NoFile
    BY <1>10, <1>11 DEF OverIsThere
  <2>1. rest[i].file \in Files
    <3>1. rest[i] \in Call
      BY ElementOfSeq DEF RestIsFine
    <3> QED BY <3>1 DEF Call
  <2>2. CASE rest[i].file = line.arg
    BY <2>2, <1>2, <1>4, <1>5, <1>6
  <2>3. CASE rest[i].file # line.arg
    BY <2>1, <2>3, <1>5, <1>6, <1>11 DEF RestIsFine
  <2> QED BY <2>2, <2>3
<1>14. ControlOK'
  BY <1>1 DEF ControlOK
<1> QED BY <1>1, <1>9, <1>12, <1>13, <1>14 DEF Safe, ShellInv, PortWasGiven

LEMMA LineSafe ==
  ASSUME ShellInv, NEW STATE line, line \in LineSet, NEW STATE rest,
         RestIsFine(rest), execline(line, rest)
  PROVE  Safe /\ UNCHANGED <<ascript, nostartup, starts, given>>
<1>1. phase = "run" /\ UNCHANGED <<ascript, nostartup, starts, given>>
  BY DEF execline
<1>2. at \in {"startup", "script", "prompt"}
  BY <1>1 DEF ShellInv, ShellTypeOK
<1>3. \/ Switch(line, rest) \/ Set(line, rest) \/ Scan(line, rest)
      \/ Script(line, rest) \/ Save(line, rest) \/ Quit(line, rest)
      \/ Other(line, rest)
  BY DEF execline
<1>4. CASE Switch(line, rest)
  BY <1>1, <1>2, <1>4, SwitchSafe
<1>5. CASE Set(line, rest)
  BY <1>1, <1>2, <1>5, SetSafe
<1>6. CASE Scan(line, rest)
  BY <1>1, <1>2, <1>6, ScanSafe
<1>7. CASE Script(line, rest)
  BY <1>1, <1>2, <1>7, ScriptSafe
<1>8. CASE Save(line, rest)
  BY <1>1, <1>2, <1>8, SaveSafe
<1>9. CASE Quit(line, rest)
  BY <1>1, <1>9, QuitSafe
<1>10. CASE Other(line, rest)
  BY <1>1, <1>2, <1>10, OtherSafe
<1> QED BY <1>1, <1>3, <1>4, <1>5, <1>6, <1>7, <1>8, <1>9, <1>10

(* The innermost script with one line less, above the scripts that called it,
   is as good as before. *)
LEMMA NextLineSafe ==
  ASSUME ShellInv, NextLine
  PROVE  Safe /\ UNCHANGED <<ascript, nostartup, starts, given>>
<1> DEFINE line == Head(Head(calls).lines)
           top == [Head(calls) EXCEPT !.lines = Tail(@)]
           below == Tail(calls)
           rest == <<top>> \o below
<1>1. calls # <<>> /\ Head(calls).lines # <<>> /\ execline(line, rest)
  BY DEF NextLine
<1>2. line \in LineSet /\ top \in Call /\ below \in Seq(Call) /\ Len(below) = Len(calls) - 1
  BY <1>1, ReadingALine DEF ShellInv
<1>3. calls \in Seq(Call) /\ Len(calls) <= MaxOpen /\ Len(calls) \in Nat /\ Len(calls) # 0
  BY <1>1, ShellTypeSplit, LenProperties, EmptySeq DEF ShellInv, CallsOK
<1>4. /\ top.file = calls[1].file /\ top.over = calls[1].over
      /\ \A i \in 1 .. Len(calls) - 1 : below[i] = calls[i + 1]
  <2>1. Head(calls) = calls[1] /\ calls[1] \in Call
    BY <1>3, ElementOfSeq
  <2>2. top.file = Head(calls).file /\ top.over = Head(calls).over
    BY <2>1 DEF Call
  <2> QED BY <1>1, <1>2, <1>3, <2>1, <2>2, HeadTailProperties
<1> HIDE DEF top, below, line
<1>5. <<top>> \in Seq(Call) /\ Len(<<top>>) = 1 /\ <<top>>[1] = top
  BY <1>2
<1>6. /\ rest \in Seq(Call)
      /\ Len(rest) = 1 + Len(below)
      /\ \A i \in 1 .. 1 + Len(below) : rest[i] = IF i <= 1 THEN <<top>>[i] ELSE below[i - 1]
  BY <1>2, <1>5, ConcatProperties
<1>7. Len(rest) = Len(calls)
  BY <1>2, <1>3, <1>6
<1>8. ASSUME NEW i \in 1 .. Len(rest), rest[i].over
      PROVE  files[rest[i].file] # NoFile
  <2>1. rest[i].file = calls[i].file /\ rest[i].over = calls[i].over
    <3>1. CASE i = 1
      BY <3>1, <1>2, <1>4, <1>5, <1>6, <1>7, <1>3
    <3>2. CASE i # 1
      <4>1. i - 1 \in 1 .. Len(calls) - 1 /\ rest[i] = below[i - 1]
        BY <3>2, <1>2, <1>3, <1>6, <1>7
      <4>2. below[i - 1] = calls[i]
        BY <4>1, <1>4, <1>3, <1>7
      <4> QED BY <4>1, <4>2
    <3> QED BY <3>1, <3>2
  <2> QED BY <2>1, <1>7, <1>8 DEF ShellInv, OverIsThere
<1> HIDE DEF rest
<1>9. RestIsFine(rest)
  BY <1>3, <1>6, <1>7, <1>8 DEF RestIsFine
<1> QED BY <1>1, <1>2, <1>9, LineSafe

LEMMA RestIsFineEmpty == RestIsFine(<<>>)
<1>1. <<>> \in Seq(Call) /\ Len(<<>>) = 0
  BY EmptySeq
<1> QED BY <1>1, ShellAssumption DEF RestIsFine

(* A line typed is a line without its leading blanks. *)
LEMMA TypedLine ==
  ASSUME NEW line \in Lines
  PROVE  [line EXCEPT !.blank = FALSE] \in LineSet
<1> DEFINE typed == [line EXCEPT !.blank = FALSE]
<1>1. line \in [blank : BOOLEAN, name : Names, arg : Arguments] /\ WellFormed(line)
  BY ShellAssumption DEF LineSet
<1>2. typed \in [blank : BOOLEAN, name : Names, arg : Arguments]
      /\ typed.name = line.name /\ typed.arg = line.arg
  BY <1>1
<1>3. WellFormed(typed)
  BY <1>1, <1>2 DEF WellFormed
<1> QED BY <1>2, <1>3 DEF LineSet

LEMMA TypeLineSafe ==
  ASSUME ShellInv, TypeLine
  PROVE  Safe /\ UNCHANGED <<ascript, nostartup, starts, given>>
<1>1. PICK line \in Lines : execline([line EXCEPT !.blank = FALSE], <<>>)
  BY DEF TypeLine
<1> DEFINE typed == [line EXCEPT !.blank = FALSE]
<1>2. typed \in LineSet
  BY TypedLine
<1> HIDE DEF typed
<1>3. execline(typed, <<>>)
  BY <1>1 DEF typed
<1> QED BY <1>2, <1>3, RestIsFineEmpty, LineSafe

(* A script that returns, or that reads on in what was saved over it, leaves
   the scripts below it as they are. *)
LEMMA BelowIsFine ==
  ASSUME ShellInv, calls # <<>>
  PROVE  /\ Tail(calls) \in Seq(Call) /\ Len(Tail(calls)) = Len(calls) - 1
         /\ Len(calls) \in Nat \ {0} /\ Len(calls) <= MaxOpen
         /\ Head(calls) \in Call /\ Head(calls) = calls[1]
         /\ \A i \in 1 .. Len(calls) - 1 :
              Tail(calls)[i].over => files[Tail(calls)[i].file] # NoFile
<1>1. calls \in Seq(Call) /\ Len(calls) <= MaxOpen
  BY ShellTypeSplit DEF ShellInv, CallsOK
<1>2. Len(calls) \in Nat \ {0}
  BY <1>1, EmptySeq
<1>3. /\ Head(calls) \in Call /\ Tail(calls) \in Seq(Call)
      /\ Len(Tail(calls)) = Len(calls) - 1
      /\ \A i \in 1 .. Len(Tail(calls)) : Tail(calls)[i] = calls[i + 1]
  BY <1>1, HeadTailProperties
<1>4. Head(calls) = calls[1]
  BY <1>1
<1>5. ASSUME NEW i \in 1 .. Len(calls) - 1, Tail(calls)[i].over
      PROVE  files[Tail(calls)[i].file] # NoFile
  <2>1. i + 1 \in 1 .. Len(calls) /\ Tail(calls)[i] = calls[i + 1]
    BY <1>2, <1>3
  <2> QED BY <2>1, <1>5 DEF ShellInv, OverIsThere
<1> QED BY <1>1, <1>2, <1>3, <1>4, <1>5

LEMMA ScriptReturnsSafe ==
  ASSUME ShellInv, ScriptReturns
  PROVE  Safe /\ UNCHANGED <<ascript, nostartup, starts, given>>
<1>1. /\ phase = "run" /\ calls # <<>> /\ calls' = Tail(calls)
      /\ UNCHANGED <<connVars, at, ascript, nostartup, flags, files, starts, given, saved>>
  BY DEF ScriptReturns
<1>2. at \in {"startup", "script", "prompt"} /\ flags' \in [Flags -> 0 .. 2]
  BY <1>1 DEF ShellInv, ShellTypeOK
<1>3. RestIsFine(Tail(calls))
  BY <1>1, BelowIsFine, ShellAssumption DEF RestIsFine
<1>4. PortWasGiven'
  BY <1>1 DEF ShellInv, PortWasGiven
<1> QED BY <1>1, <1>2, <1>3, <1>4, PlainStep

LEMMA ReadsOnSafe ==
  ASSUME ShellInv, ReadsOn
  PROVE  Safe /\ UNCHANGED <<ascript, nostartup, starts, given>>
<1> DEFINE now == files[Head(calls).file]
           below == Tail(calls)
<1>1. /\ phase = "run" /\ calls # <<>> /\ Head(calls).over
      /\ UNCHANGED <<connVars, at, ascript, nostartup, flags, files, starts, given, saved>>
  BY DEF ReadsOn
<1>2. PICK k \in 1 .. Len(now) :
        calls' = <<[Head(calls) EXCEPT !.lines = SubSeq(now, k, Len(now)), !.over = FALSE]>>
                 \o below
  BY DEF ReadsOn
<1>3. at \in {"startup", "script", "prompt"} /\ flags' \in [Flags -> 0 .. 2]
  BY <1>1 DEF ShellInv, ShellTypeOK
<1>4. now \in Seq(LineSet)
  <2>1. Head(calls).file \in Files
    BY <1>1, BelowIsFine DEF Call
  <2>2. now # NoFile
    BY <1>1, BelowIsFine DEF ShellInv, OverIsThere
  <2> QED BY <2>1, <2>2 DEF ShellInv, ShellTypeOK, Contents
<1> HIDE DEF now
<1>5. SubSeq(now, k, Len(now)) \in Seq(LineSet)
  <2>1. Len(now) \in Nat
    BY <1>4, LenProperties
  <2>2. \A i \in k .. Len(now) : now[i] \in LineSet
    BY <1>4, <2>1, ElementOfSeq
  <2> QED BY <2>1, <2>2, SubSeqProperties
<1> DEFINE top == [Head(calls) EXCEPT !.lines = SubSeq(now, k, Len(now)), !.over = FALSE]
           rest == <<top>> \o below
<1>6. top \in Call /\ ~top.over
  BY <1>1, <1>5, BelowIsFine DEF Call
<1> HIDE DEF top
<1>7. <<top>> \in Seq(Call) /\ Len(<<top>>) = 1 /\ <<top>>[1] = top
  BY <1>6
<1>8. below \in Seq(Call) /\ Len(below) \in Nat /\ 1 + Len(below) <= MaxOpen
      /\ \A i \in 1 .. Len(below) : below[i].over => files[below[i].file] # NoFile
  BY <1>1, BelowIsFine, LenProperties, ShellAssumption
<1> HIDE DEF below
<1>9. /\ rest \in Seq(Call)
      /\ Len(rest) = 1 + Len(below)
      /\ \A i \in 1 .. 1 + Len(below) : rest[i] = IF i <= 1 THEN <<top>>[i] ELSE below[i - 1]
  BY <1>7, <1>8, ConcatProperties
<1>10. ASSUME NEW i \in 1 .. Len(rest), rest[i].over
       PROVE  files[rest[i].file] # NoFile
  <2>1. CASE i = 1
    BY <2>1, <1>6, <1>7, <1>8, <1>9, <1>10
  <2>2. CASE i # 1
    <3>1. i - 1 \in 1 .. Len(below) /\ rest[i] = below[i - 1]
      BY <2>2, <1>8, <1>9
    <3> QED BY <3>1, <1>8, <1>10
  <2> QED BY <2>1, <2>2
<1>11. calls' = rest
  BY <1>2 DEF top
<1> HIDE DEF rest
<1>12. RestIsFine(rest)
  BY <1>8, <1>9, <1>10 DEF RestIsFine
<1>13. PortWasGiven'
  BY <1>1 DEF ShellInv, PortWasGiven
<1> QED BY <1>1, <1>3, <1>11, <1>12, <1>13, PlainStep

(* The cast keeps what a uint16_t held. *)
LEMMA CastOfPort == \A n \in Ports : UInt16(n) = n
<1> SUFFICES ASSUME NEW n \in Int, 0 <= n, n <= 65535
             PROVE  n % 65536 = n
  BY DEF UInt16, Ports
<1> QED BY Z3T(30)

(* Options, and what follows them up to the prompt. *)
LEMMA OptionsSafe ==
  ASSUME ShellInv, OptionSetting \/ OptionScript \/ OptionFlag
  PROVE  Safe /\ RestOK'
<1>1. at = "options" /\ UNCHANGED <<at, calls, files, starts, given, saved>>
  BY DEF OptionSetting, OptionScript, OptionFlag, Options
<1>2. ControlOK /\ CallsOK /\ DataOK /\ RestOK
  BY ShellTypeSplit DEF ShellInv
<1>3. phase = "options" /\ calls = <<>>
  BY <1>1, <1>2 DEF ControlOK
<1>4. CallsOK' /\ OverIsThere'
  BY <1>1, <1>2 DEF CallsOK, OverIsThere, ShellInv
<1>5. [Next]_connVars /\ phase' = "options" /\ PortWasGiven'
  <2>1. CASE \E h \in Hosts : OptionHost(h)
    BY <2>1, <1>3 DEF Next, OptionHost, ShellInv, PortWasGiven
  <2>2. CASE \E n \in PortArgs : OptionPort(n)
    BY <2>2, <1>3, ShellAssumption DEF Next, OptionPort, PortWasGiven
  <2>3. CASE UNCHANGED connVars
    BY <2>3, <1>3 DEF ShellInv, PortWasGiven
  <2> QED BY <2>1, <2>2, <2>3 DEF OptionSetting, OptionScript, OptionFlag
<1>6. flags' \in [Flags -> 0 .. 2]
  BY <1>2 DEF OptionSetting, OptionScript, OptionFlag, DataOK
<1>7. RestOK'
  BY <1>1, <1>2 DEF OptionSetting, OptionScript, OptionFlag, RestOK
<1> QED BY <1>1, <1>2, <1>3, <1>4, <1>5, <1>6, <1>7 DEF Safe, ControlOK, DataOK

(* A script opened when none is. *)
LEMMA FirstCall ==
  ASSUME NEW STATE f, f \in Files, DataOK, files[f] # NoFile, calls' = <<Opened(f)>>,
         UNCHANGED files
  PROVE  CallsOK' /\ OverIsThere'
<1>1. files[f] \in Seq(LineSet)
  BY DEF DataOK, Contents
<1> DEFINE c == Opened(f)
<1>2. c \in Call /\ ~c.over
  BY <1>1 DEF Opened, Call
<1> HIDE DEF c
<1>3. <<c>> \in Seq(Call) /\ Len(<<c>>) = 1 /\ <<c>>[1] = c
  BY <1>2
<1>4. calls' = <<c>>
  BY DEF c
<1>5. \A i \in 1 .. 1 : i = 1
  OBVIOUS
<1> QED BY <1>2, <1>3, <1>4, <1>5, ShellAssumption DEF CallsOK, OverIsThere

LEMMA NoCall == calls' = <<>> => CallsOK' /\ OverIsThere'
<1>1. <<>> \in Seq(Call) /\ Len(<<>>) = 0
  BY EmptySeq
<1> QED BY <1>1, ShellAssumption DEF CallsOK, OverIsThere

LEMMA OptionsOverSafe ==
  ASSUME ShellInv, OptionsOver
  PROVE  Safe /\ RestOK'
<1>1. at = "options" /\ UNCHANGED <<ascript, nostartup, flags, files, starts, saved>>
  BY DEF OptionsOver
<1>2. ControlOK /\ DataOK /\ RestOK
  BY ShellTypeSplit DEF ShellInv
<1>3. DataOK'
  BY <1>1, <1>2 DEF DataOK
<1>4. CASE Leave /\ UNCHANGED given
  <2>1. RestOK'
    BY <1>1, <1>2, <1>4 DEF RestOK
  <2> QED BY <2>1, <1>3, <1>4, LeaveStep DEF Safe, ShellInv, PortWasGiven
<1>5. CASE ~(Leave /\ UNCHANGED given)
  <2>1. /\ OptionsRead /\ at' = "startup"
        /\ given' = [tahoma |-> tahoma, port |-> port, flags |-> flags, saved |-> saved]
        /\ calls' = IF nostartup \/ ~UserKnown \/ files[Startup] = NoFile THEN <<>>
                    ELSE <<Opened(Startup)>>
    BY <1>5 DEF OptionsOver
  <2>2. CallsOK' /\ OverIsThere'
    BY <2>1, <1>1, <1>2, FirstCall, NoCall, ShellAssumption
  <2>3. phase' = "run" /\ [Next]_connVars /\ PortWasGiven'
    BY <2>1 DEF OptionsRead, Next, ShellInv, PortWasGiven
  <2>4. tahoma \in Hosts \cup {NULL} /\ port \in Ports
    BY DEF ShellInv, ConnInv, TypeOK
  <2>5. RestOK'
    BY <2>1, <2>4, <1>1, <1>2 DEF RestOK, DataOK
  <2> QED BY <2>1, <2>2, <2>3, <2>5, <1>3 DEF Safe, ControlOK
<1> QED BY <1>1, <1>4, <1>5 DEF OptionsOver

LEMMA StartupOverSafe ==
  ASSUME ShellInv, StartupOver
  PROVE  Safe /\ RestOK'
<1>1. /\ at = "startup"
      /\ calls = <<>> /\ UNCHANGED <<ascript, nostartup, flags, files, starts, given, saved>>
  BY DEF StartupOver
<1>2. ControlOK /\ DataOK /\ RestOK /\ CallsOK
  BY ShellTypeSplit DEF ShellInv
<1>3. DataOK' /\ RestOK'
  BY <1>1, <1>2 DEF DataOK, RestOK
<1>4. phase # "options" /\ phase # "exited"
  BY <1>1, <1>2 DEF ControlOK
<1>5. CASE at' = "prompt" /\ UNCHANGED <<connVars, calls>>
  BY <1>1, <1>3, <1>4, <1>5, NoCall DEF Safe, ControlOK, ShellInv, PortWasGiven
<1>6. CASE /\ ascript # NULL /\ files[ascript] # NoFile
           /\ at' = "script" /\ calls' = <<Opened(ascript)>> /\ UNCHANGED connVars
  <2>1. ascript \in Files
    BY <1>2, <1>6 DEF RestOK
  <2>2. CallsOK' /\ OverIsThere'
    BY <2>1, <1>1, <1>2, <1>6, FirstCall
  <2> QED BY <2>2, <1>3, <1>4, <1>6 DEF Safe, ControlOK, ShellInv, PortWasGiven
<1>7. CASE Leave
  BY <1>3, <1>7, LeaveStep DEF Safe, ShellInv, PortWasGiven
<1> QED BY <1>5, <1>6, <1>7 DEF StartupOver

LEMMA MainReturnsSafe ==
  ASSUME ShellInv, MainReturns
  PROVE  Safe /\ RestOK'
<1>1. Leave /\ UNCHANGED <<ascript, nostartup, flags, files, starts, given, saved>>
  BY DEF MainReturns
<1>2. DataOK' /\ RestOK'
  BY <1>1, ShellTypeSplit DEF DataOK, RestOK, ShellInv
<1> QED BY <1>1, <1>2, LeaveStep DEF Safe, ShellInv, PortWasGiven

LEMMA ScanGoesOnSafe ==
  ASSUME ShellInv, ScanGoesOn
  PROVE  Safe /\ RestOK'
<1>1. UNCHANGED <<at, ascript, nostartup, flags, calls, files, starts, given, saved>>
  BY DEF ScanGoesOn
<1>2. ControlOK /\ CallsOK /\ DataOK /\ RestOK
  BY ShellTypeSplit DEF ShellInv
<1>3. CallsOK' /\ DataOK' /\ RestOK' /\ OverIsThere'
  BY <1>1, <1>2 DEF CallsOK, DataOK, RestOK, OverIsThere, ShellInv
<1>4. [Next]_connVars /\ phase = "scanning" /\ phase' \in {"run", "scanning"} /\ PortWasGiven'
  <2>1. CASE \E advert \in Adverts : resolve_found(advert)
    <3>1. PICK advert \in Adverts : resolve_found(advert)
      BY <2>1
    <3>2. advert.port \in Ports
      BY SettingsAssumption
    <3>3. UInt16(advert.port) = advert.port
      BY <3>2, CastOfPort
    <3>4. advert.port \in PortArgs
      BY <3>3, ShellAssumption
    <3> QED BY <3>1, <3>4 DEF Next, resolve_found, PortWasGiven
  <2>2. CASE ScanReturns
    BY <2>2 DEF Next, ScanReturns, ShellInv, PortWasGiven
  <2> QED BY <2>1, <2>2 DEF ScanGoesOn
<1> QED BY <1>1, <1>2, <1>3, <1>4 DEF Safe, ControlOK

(* The next start takes no step of Connection: it begins like Init. *)
LEMMA RestartIsFine ==
  ASSUME ShellInv, Restart
  PROVE  ConnInv' /\ ShellTypeOK' /\ OverIsThere' /\ PortWasGiven'
<1>1. Restarted /\ phase' = "options" /\ port' = 0
  BY DEF Restart, Restarted
<1>2. ConnInv'
  <2>1. TypeOK'
    <3>1. appendFailed' \in BOOLEAN
      BY <1>1, Zenon DEF Restarted
    <3> QED BY <1>1, <3>1 DEF Restarted, TypeOK, Ports
  <2> QED BY <2>1, <1>1 DEF Restarted, ConnInv, OptionsIncomplete, ScanHoldsAdvert,
            URLCurrent, ListsCurrent, HandleHoldsLiveLists, Usable, ListsComplete
<1>3. CallsOK' /\ OverIsThere' /\ ControlOK'
  BY <1>1, NoCall DEF Restart, ControlOK
<1>4. flags' \in [Flags -> 0 .. 2] /\ DataOK'
  BY ShellTypeSplit DEF Restart, DataOK, ShellInv
<1>5. NoneGiven \in [tahoma : Hosts \cup {NULL}, port : Ports, flags : [Flags -> 0 .. 2],
                     saved : SettingsRecords \cup {NULL}]
  BY DEF NoneGiven, Ports
<1>6. RestOK'
  <2>1. starts' \in 1 .. MaxStarts
    BY ShellTypeSplit, ShellAssumption DEF Restart, RestOK, ShellInv
  <2> QED BY <2>1, <1>5 DEF Restart, RestOK
<1> QED BY <1>1, <1>2, <1>3, <1>4, <1>6, ShellTypePrimed DEF PortWasGiven

-----------------------------------------------------------------------------
LEMMA ShellInvInit == ShellInit => ShellInv
<1> SUFFICES ASSUME ShellInit PROVE ShellInv
  OBVIOUS
<1>1. ConnInv
  BY ConnInvInit DEF ShellInit
<1>2. <<>> \in Seq(Call) /\ Len(<<>>) = 0
  BY EmptySeq
<1>3. ControlOK /\ CallsOK /\ OverIsThere
  BY <1>2, ShellAssumption DEF ShellInit, Init, ControlOK, CallsOK, OverIsThere
<1>4. DataOK
  BY ShellAssumption DEF ShellInit, DataOK
<1>5. NoneGiven \in [tahoma : Hosts \cup {NULL}, port : Ports, flags : [Flags -> 0 .. 2],
                     saved : SettingsRecords \cup {NULL}]
  BY DEF NoneGiven, Ports
<1>6. RestOK
  <2>1. starts \in 1 .. MaxStarts
    BY ShellAssumption DEF ShellInit
  <2>2. ascript = NULL /\ nostartup = FALSE /\ given = NoneGiven
    BY DEF ShellInit
  <2> QED BY <1>5, <2>1, <2>2 DEF RestOK
<1> QED BY <1>1, <1>3, <1>4, <1>6, ShellTypeSplit
        DEF ShellInv, ShellInit, Init, PortWasGiven

(* Each step is a step of the connection, or the next start. *)
LEMMA StepSplit ==
  ASSUME ShellInv, ShellNext
  PROVE  (Safe /\ RestOK') \/ Restart
<1>1. RestOK
  BY ShellTypeSplit DEF ShellInv
<1>2. ASSUME UNCHANGED <<ascript, nostartup, starts, given>>
      PROVE  RestOK'
  BY <1>1, <1>2 DEF RestOK
<1>3. CASE OptionSetting \/ OptionScript \/ OptionFlag
  BY <1>3, OptionsSafe
<1>4. CASE OptionsOver
  BY <1>4, OptionsOverSafe
<1>5. CASE StartupOver
  BY <1>5, StartupOverSafe
<1>6. CASE MainReturns
  BY <1>6, MainReturnsSafe
<1>7. CASE NextLine
  BY <1>2, <1>7, NextLineSafe
<1>8. CASE ScriptReturns
  BY <1>2, <1>8, ScriptReturnsSafe
<1>9. CASE ReadsOn
  BY <1>2, <1>9, ReadsOnSafe
<1>10. CASE TypeLine
  BY <1>2, <1>10, TypeLineSafe
<1>11. CASE ScanGoesOn
  BY <1>11, ScanGoesOnSafe
<1> QED BY <1>3, <1>4, <1>5, <1>6, <1>7, <1>8, <1>9, <1>10, <1>11 DEF ShellNext

LEMMA ShellInvStep ==
  ASSUME ShellInv, [ShellNext]_shellVars
  PROVE  ShellInv'
<1>1. CASE Safe /\ RestOK'
  <2>1. ConnInv'
    BY <1>1, ConnInvStep DEF Safe, ShellInv
  <2>2. ShellTypeOK'
    BY <1>1, ShellTypePrimed DEF Safe
  <2> QED BY <1>1, <2>1, <2>2 DEF Safe, ShellInv
<1>2. CASE Restart
  BY <1>2, RestartIsFine DEF ShellInv
<1>3. CASE UNCHANGED shellVars
  <2>1. ConnInv'
    BY <1>3, ConnInvStep DEF shellVars, ShellInv
  <2>2. ShellTypeOK' /\ OverIsThere' /\ PortWasGiven'
    BY <1>3 DEF shellVars, ShellInv, ShellTypeOK, OverIsThere, PortWasGiven
  <2> QED BY <1>3, <2>1, <2>2 DEF shellVars, ShellInv
<1> QED BY <1>1, <1>2, <1>3, StepSplit

(* The inductive invariant: that of the connection, the types, and what makes
   each saved file readable. *)
THEOREM ShellInvariant == ShellSpec => []ShellInv
  BY ShellInvInit, ShellInvStep, PTL DEF ShellSpec

(* Types of the interpreter: in particular never more scripts are open than
   the process may have files, and those of a finished program are closed. *)
THEOREM ShellTypeCorrect == ShellSpec => []ShellTypeOK
<1>1. ShellInv => ShellTypeOK
  BY DEF ShellInv
<1> QED BY <1>1, ShellInvariant, PTL

(* Whatever scripts do, and in each life of the program, callAPI() finds the
   base URL of the current settings. *)
THEOREM URLCurrentInScripts == ShellSpec => []URLCurrent
<1>1. ShellInv => URLCurrent
  BY DEF ShellInv, ConnInv
<1> QED BY <1>1, ShellInvariant, PTL

(* The same of the DNS override and the headers, whole unless an append of
   the last buildURL() failed. *)
THEOREM ListsCurrentInScripts == ShellSpec => []ListsCurrent
<1>1. ShellInv => ListsCurrent
  BY DEF ShellInv, ConnInv
<1> QED BY <1>1, ShellInvariant, PTL

-----------------------------------------------------------------------------
(* What was saved comes back.  Three facts make it inductive: the file holds
   what was saved last; while the saved file is read, the lines to come and
   the settings made so far add up to what was saved; and nothing in such a
   file starts a script, a scan or another save. *)

LEMMA Cons ==
  ASSUME NEW l \in LineSet, NEW s \in Seq(LineSet)
  PROVE  <<l>> \o s # <<>> /\ Head(<<l>> \o s) = l /\ Tail(<<l>> \o s) = s
<1> DEFINE x == <<l>> \o s
<1>1. <<l>> \in Seq(LineSet) /\ Len(<<l>>) = 1 /\ <<l>>[1] = l /\ Len(s) \in Nat
  BY LenProperties
<1>2. /\ x \in Seq(LineSet) /\ Len(x) = 1 + Len(s)
      /\ \A i \in 1 .. 1 + Len(s) : x[i] = IF i <= 1 THEN <<l>>[i] ELSE s[i - 1]
  BY <1>1, ConcatProperties
<1> HIDE DEF x
<1>3. x # <<>>
  BY <1>1, <1>2, EmptySeq
<1>4. Head(x) = x[1] /\ x[1] = l
  BY <1>1, <1>2
<1>5. /\ Tail(x) \in Seq(LineSet) /\ Len(Tail(x)) = Len(s)
      /\ \A i \in 1 .. Len(s) : Tail(x)[i] = x[i + 1]
  BY <1>1, <1>2, <1>3, HeadTailProperties
<1>6. \A i \in 1 .. Len(s) : Tail(x)[i] = s[i]
  BY <1>1, <1>2, <1>5
<1>7. Tail(x) = s
  BY <1>5, <1>6, SeqEqual
<1> QED BY <1>3, <1>4, <1>7 DEF x

LEMMA Reassociated ==
  ASSUME NEW u \in Seq(LineSet), NEW v \in Seq(LineSet),
         NEW w \in Seq(LineSet), NEW x \in Seq(LineSet)
  PROVE  ((u \o v) \o w) \o x = u \o ((v \o w) \o x)
<1>1. (u \o v) \o w = u \o (v \o w)
  BY ConcatAssociative
<1> DEFINE y == v \o w
<1>2. y \in Seq(LineSet)
  BY ConcatProperties
<1> HIDE DEF y
<1>3. (u \o y) \o x = u \o (y \o x)
  BY <1>2, ConcatAssociative
<1> QED BY <1>1, <1>3 DEF y

(* The lines of a saved file, from the first to the last. *)
LEMMA SavedInOrder ==
  ASSUME NEW h \in Hosts \cup {NULL}, NEW a \in Addrs \cup {NULL},
         NEW p \in PortArgs \cup {0}, NEW t \in Tokens \cup {NULL}
  PROVE  /\ h # NULL => SavedLines(h, a, p, t) =
                          <<Line("TaHoma_host", h)>> \o SavedLines(NULL, a, p, t)
         /\ a # NULL => SavedLines(NULL, a, p, t) =
                          <<Line("TaHoma_address", a)>> \o SavedLines(NULL, NULL, p, t)
         /\ p # 0 => SavedLines(NULL, NULL, p, t) =
                          <<Line("TaHoma_port", p)>> \o SavedLines(NULL, NULL, 0, t)
         /\ t # NULL => SavedLines(NULL, NULL, 0, t) =
                          <<Line("token", t)>> \o SavedLines(NULL, NULL, 0, NULL)
         /\ SavedLines(NULL, NULL, 0, NULL) = <<>>
<1> DEFINE one(set, line) == IF set THEN <<line>> ELSE <<>>
           lh == one(h # NULL, Line("TaHoma_host", h))
           la == one(a # NULL, Line("TaHoma_address", a))
           lp == one(p # 0, Line("TaHoma_port", p))
           lt == one(t # NULL, Line("token", t))
<1>1. lh \in Seq(LineSet) /\ la \in Seq(LineSet) /\ lp \in Seq(LineSet) /\ lt \in Seq(LineSet)
  BY SavedLineTypes, OneType
<1>2. <<>> \in Seq(LineSet)
  BY EmptySeq
<1>3. /\ SavedLines(h, a, p, t) = ((lh \o la) \o lp) \o lt
      /\ SavedLines(NULL, a, p, t) = ((<<>> \o la) \o lp) \o lt
      /\ SavedLines(NULL, NULL, p, t) = ((<<>> \o <<>>) \o lp) \o lt
      /\ SavedLines(NULL, NULL, 0, t) = ((<<>> \o <<>>) \o <<>>) \o lt
      /\ SavedLines(NULL, NULL, 0, NULL) = ((<<>> \o <<>>) \o <<>>) \o <<>>
  BY DEF SavedLines
<1>4. /\ h # NULL => lh = <<Line("TaHoma_host", h)>>
      /\ a # NULL => la = <<Line("TaHoma_address", a)>>
      /\ p # 0 => lp = <<Line("TaHoma_port", p)>>
      /\ t # NULL => lt = <<Line("token", t)>>
  OBVIOUS
<1> HIDE DEF lh, la, lp, lt
<1>5. \A s \in Seq(LineSet) : <<>> \o s = s /\ s \o <<>> = s
  BY ConcatEmptySeq
<1>6. lp \o lt \in Seq(LineSet)
  BY <1>1, ConcatProperties
<1>7. ((lh \o la) \o lp) \o lt = lh \o ((la \o lp) \o lt)
  BY <1>1, Reassociated, SMTT(60)
<1>8. (la \o lp) \o lt = la \o (lp \o lt)
  BY <1>1, ConcatAssociative, SMTT(60)
<1>9. /\ SavedLines(h, a, p, t) = lh \o SavedLines(NULL, a, p, t)
      /\ SavedLines(NULL, a, p, t) = la \o SavedLines(NULL, NULL, p, t)
      /\ SavedLines(NULL, NULL, p, t) = lp \o SavedLines(NULL, NULL, 0, t)
      /\ SavedLines(NULL, NULL, 0, t) = lt \o SavedLines(NULL, NULL, 0, NULL)
      /\ SavedLines(NULL, NULL, 0, NULL) = <<>>
  BY <1>1, <1>2, <1>3, <1>5, <1>6, <1>7, <1>8
<1> QED BY <1>4, <1>9

LEMMA HostFirst ==
  ASSUME NEW h \in Hosts \cup {NULL}, NEW a \in Addrs \cup {NULL},
         NEW p \in PortArgs \cup {0}, NEW t \in Tokens \cup {NULL}, h # NULL
  PROVE  /\ SavedLines(h, a, p, t) # <<>>
         /\ Head(SavedLines(h, a, p, t)) = Line("TaHoma_host", h)
         /\ Tail(SavedLines(h, a, p, t)) = SavedLines(NULL, a, p, t)
<1> DEFINE l == Line("TaHoma_host", h)
           s == SavedLines(NULL, a, p, t)
           x == SavedLines(h, a, p, t)
<1>1. l \in LineSet
  BY SavedLineTypes
<1>2. s \in Seq(LineSet)
  BY SavedLinesType
<1>3. x = <<l>> \o s
  BY SavedInOrder, ZenonT(30)
<1> HIDE DEF l, s, x
<1>4. x # <<>> /\ Head(x) = l /\ Tail(x) = s
  BY <1>1, <1>2, <1>3, Cons
<1> QED BY <1>4 DEF l, s, x

LEMMA AddressSecond ==
  ASSUME NEW a \in Addrs \cup {NULL}, NEW p \in PortArgs \cup {0},
         NEW t \in Tokens \cup {NULL}, a # NULL
  PROVE  /\ SavedLines(NULL, a, p, t) # <<>>
         /\ Head(SavedLines(NULL, a, p, t)) = Line("TaHoma_address", a)
         /\ Tail(SavedLines(NULL, a, p, t)) = SavedLines(NULL, NULL, p, t)
<1> DEFINE l == Line("TaHoma_address", a)
           s == SavedLines(NULL, NULL, p, t)
           x == SavedLines(NULL, a, p, t)
<1>1. l \in LineSet
  BY SavedLineTypes
<1>2. s \in Seq(LineSet)
  BY SavedLinesType
<1>3. x = <<l>> \o s
  BY SavedInOrder, ZenonT(30)
<1> HIDE DEF l, s, x
<1>4. x # <<>> /\ Head(x) = l /\ Tail(x) = s
  BY <1>1, <1>2, <1>3, Cons
<1> QED BY <1>4 DEF l, s, x

LEMMA PortThird ==
  ASSUME NEW p \in PortArgs \cup {0}, NEW t \in Tokens \cup {NULL}, p # 0
  PROVE  /\ SavedLines(NULL, NULL, p, t) # <<>>
         /\ Head(SavedLines(NULL, NULL, p, t)) = Line("TaHoma_port", p)
         /\ Tail(SavedLines(NULL, NULL, p, t)) = SavedLines(NULL, NULL, 0, t)
<1> DEFINE l == Line("TaHoma_port", p)
           s == SavedLines(NULL, NULL, 0, t)
           x == SavedLines(NULL, NULL, p, t)
<1>1. l \in LineSet
  BY SavedLineTypes
<1>2. s \in Seq(LineSet)
  BY SavedLinesType
<1>3. x = <<l>> \o s
  BY SavedInOrder, ZenonT(30)
<1> HIDE DEF l, s, x
<1>4. x # <<>> /\ Head(x) = l /\ Tail(x) = s
  BY <1>1, <1>2, <1>3, Cons
<1> QED BY <1>4 DEF l, s, x

LEMMA TokenLast ==
  ASSUME NEW t \in Tokens \cup {NULL}, t # NULL
  PROVE  /\ SavedLines(NULL, NULL, 0, t) # <<>>
         /\ Head(SavedLines(NULL, NULL, 0, t)) = Line("token", t)
         /\ Tail(SavedLines(NULL, NULL, 0, t)) = SavedLines(NULL, NULL, 0, NULL)
<1> DEFINE l == Line("token", t)
           s == SavedLines(NULL, NULL, 0, NULL)
           x == SavedLines(NULL, NULL, 0, t)
<1>1. l \in LineSet
  BY SavedLineTypes
<1>2. s \in Seq(LineSet)
  BY SavedLinesType
<1>3. x = <<l>> \o s
  BY SavedInOrder, ZenonT(30)
<1> HIDE DEF l, s, x
<1>4. x # <<>> /\ Head(x) = l /\ Tail(x) = s
  BY <1>1, <1>2, <1>3, Cons
<1> QED BY <1>4 DEF l, s, x

(* What is left of the saved file, and what its lines set so far. *)
Applied(h, a, p, s) ==
  /\ h \in {NULL, s.tahoma} /\ a \in {NULL, s.ip} /\ p \in {0, s.port}
  /\ tahoma = IF h # NULL \/ s.tahoma \in {NULL, Empty} THEN given.tahoma ELSE s.tahoma
  /\ ip = IF a # NULL THEN NULL ELSE s.ip
  /\ port = IF p # 0 \/ s.port = 0 THEN given.port ELSE s.port

(* The startup script is open, alone, with these lines to come. *)
Left(lines) ==
  /\ calls # <<>> /\ Tail(calls) = <<>>
  /\ Head(calls).lines = lines /\ ~Head(calls).over

Restoring(h, a, p, t, s) ==
  /\ Applied(h, a, p, s) /\ t \in {NULL, s.token}
  /\ \/ Left(SavedLines(h, a, p, t))
     \/ calls = <<>> /\ h = NULL /\ a = NULL /\ p = 0

RestoreMode == at = "startup" /\ ~nostartup /\ UserKnown /\ given.saved # NULL

Restorable(s) == s \in SettingsRecords /\ s.port \in PortArgs \cup {0}

FileHoldsSaved ==
  saved # NULL =>
    /\ Restorable(saved)
    /\ files[Startup] = SavedLines(saved.tahoma, saved.ip, saved.port, saved.token)

RestoreGoesOn ==
  RestoreMode =>
    /\ phase = "run" /\ flags = given.flags /\ Restorable(given.saved)
    /\ \E h \in Hosts \cup {NULL}, a \in Addrs \cup {NULL}, p \in PortArgs \cup {0},
          t \in Tokens \cup {NULL} : Restoring(h, a, p, t, given.saved)

RestoreInv == FileHoldsSaved /\ RestoreGoesOn

(* Only save_config writes a file, and no line leads back to the startup. *)
LEMMA LineSaves ==
  ASSUME NEW STATE line, NEW STATE rest, execline(line, rest)
  PROVE  /\ UNCHANGED <<files, saved>> \/ Save(line, rest)
         /\ at' \in {at, "over"}
         /\ UNCHANGED <<nostartup, given>>
<1>1. UNCHANGED <<nostartup, given>>
  BY DEF execline
<1>2. CASE Save(line, rest)
  BY <1>1, <1>2 DEF Save
<1>3. CASE Script(line, rest)
  BY <1>1, <1>3 DEF Script, Leave
<1>4. CASE Quit(line, rest)
  BY <1>1, <1>4 DEF Quit, Leave
<1>5. CASE Switch(line, rest)
  BY <1>1, <1>5 DEF Switch
<1>6. CASE Set(line, rest)
  BY <1>1, <1>6 DEF Set
<1>7. CASE Scan(line, rest)
  BY <1>1, <1>7 DEF Scan
<1>8. CASE Other(line, rest)
  BY <1>1, <1>8 DEF Other
<1> QED BY <1>2, <1>3, <1>4, <1>5, <1>6, <1>7, <1>8 DEF execline

(* The file and what is known to be saved change together. *)
LEMMA SaveKeepsFile ==
  ASSUME ShellInv, FileHoldsSaved, NEW STATE line, line \in LineSet, NEW STATE rest,
         Save(line, rest)
  PROVE  FileHoldsSaved'
<1>1. line.arg \in Files /\ files \in [Files -> Contents] /\ Startup \in Files
  BY ShellAssumption DEF Save, LineSet, WellFormed, ShellInv, ShellTypeOK
<1>2. files' = [files EXCEPT ![line.arg] = SavedLines(tahoma, ip, port, token)]
  BY DEF Save
<1>3. CASE line.arg = Startup
  <2> DEFINE now == [tahoma |-> tahoma, ip |-> ip, port |-> port, token |-> token]
  <2>1. saved' = now
    BY <1>3 DEF Save
  <2>2. Restorable(now)
    BY DEF ShellInv, ConnInv, TypeOK, PortWasGiven, Restorable, SettingsRecords
  <2>3. files'[Startup] = SavedLines(now.tahoma, now.ip, now.port, now.token)
    BY <1>1, <1>2, <1>3
  <2> HIDE DEF now
  <2>4. Restorable(saved)'
    BY <2>1, <2>2 DEF Restorable
  <2> QED BY <2>1, <2>3, <2>4 DEF FileHoldsSaved
<1>4. CASE line.arg # Startup
  <2>1. saved' = saved
    BY <1>4 DEF Save
  <2>2. files'[Startup] = files[Startup]
    BY <1>1, <1>2, <1>4
  <2> QED BY <2>1, <2>2 DEF FileHoldsSaved, Restorable
<1> QED BY <1>3, <1>4

LEMMA FileHoldsSavedStep ==
  ASSUME ShellInv, FileHoldsSaved, [ShellNext]_shellVars
  PROVE  FileHoldsSaved'
<1>1. CASE UNCHANGED <<files, saved>>
  BY <1>1 DEF FileHoldsSaved, Restorable
<1>2. CASE NextLine
  <2> DEFINE line == Head(Head(calls).lines)
             rest == <<[Head(calls) EXCEPT !.lines = Tail(@)]>> \o Tail(calls)
  <2>1. execline(line, rest) /\ line \in LineSet
    BY <1>2, ReadingALine DEF NextLine, ShellInv
  <2> HIDE DEF line, rest
  <2> QED BY <2>1, <1>1, LineSaves, SaveKeepsFile
<1>3. CASE TypeLine
  <2>1. PICK line \in Lines : execline([line EXCEPT !.blank = FALSE], <<>>)
    BY <1>3 DEF TypeLine
  <2> DEFINE typed == [line EXCEPT !.blank = FALSE]
  <2>2. typed \in LineSet
    BY TypedLine
  <2> HIDE DEF typed
  <2>3. execline(typed, <<>>)
    BY <2>1 DEF typed
  <2> QED BY <2>2, <2>3, <1>1, LineSaves, SaveKeepsFile
<1> QED BY <1>1, <1>2, <1>3
        DEF ShellNext, shellVars, OptionSetting, OptionScript, OptionFlag, Options,
            OptionsOver, StartupOver, MainReturns, Restart, ScriptReturns, ReadsOn, ScanGoesOn

(* What a line of a saved file does. *)
LEMMA SavedLineDoes ==
  ASSUME NEW STATE line, NEW STATE rest, line.blank = FALSE,
         line.name \in {"TaHoma_host", "TaHoma_address", "TaHoma_port", "token"},
         execline(line, rest)
  PROVE  /\ calls' = rest /\ UNCHANGED <<phase, at, flags, nostartup, given>>
         /\ line.name = "TaHoma_host" =>
              /\ UNCHANGED <<ip, port>>
              /\ tahoma' = IF line.arg \in {NULL, Empty} THEN tahoma ELSE line.arg
         /\ line.name = "TaHoma_address" =>
              /\ UNCHANGED <<tahoma, port>>
              /\ ip' = IF line.arg \in {NULL, Empty} THEN ip ELSE line.arg
         /\ line.name = "TaHoma_port" =>
              /\ UNCHANGED <<tahoma, ip>>
              /\ port' = IF line.arg \in {NULL, Empty} THEN port ELSE UInt16(line.arg)
         /\ line.name = "token" => UNCHANGED <<tahoma, ip, port>>
<1>1. line.name \notin Flags
  BY ShellAssumption
<1>2. Set(line, rest) \/ Other(line, rest)
  BY <1>1 DEF execline, Switch, Scan, Script, Save, Quit
<1>3. UNCHANGED <<nostartup, given>> /\ phase = "run"
  BY DEF execline
<1>4. CASE Set(line, rest)
  <2>1. calls' = rest /\ UNCHANGED <<at, flags>> /\ line.arg \notin {NULL, Empty}
    BY <1>4 DEF Set
  <2>2. CASE line.name = "TaHoma_host"
    BY <1>3, <1>4, <2>1, <2>2 DEF Set, func_THost
  <2>3. CASE line.name = "TaHoma_address"
    BY <1>3, <1>4, <2>1, <2>3 DEF Set, func_TAddr
  <2>4. CASE line.name = "TaHoma_port"
    BY <1>3, <1>4, <2>1, <2>4 DEF Set, func_TPort
  <2>5. line.name # "token"
    BY <1>4 DEF Set
  <2> QED BY <2>2, <2>3, <2>4, <2>5
<1>5. CASE Other(line, rest)
  <2>1. calls' = rest /\ UNCHANGED <<connVars, at, flags>>
    BY <1>5 DEF Other
  <2>2. line.name = "token" \/ line.arg \in {NULL, Empty}
    BY <1>5 DEF Other, Settable
  <2> QED BY <1>3, <2>1, <2>2
<1> QED BY <1>2, <1>4, <1>5

(* Each line of the saved file takes what is left, and what is applied, one
   setting further. *)
LEMMA RestoreLine ==
  ASSUME ShellInv, RestoreMode, RestoreGoesOn, NextLine
  PROVE  RestoreGoesOn' /\ at' = "startup"
<1> DEFINE s == given.saved
           line == Head(Head(calls).lines)
           c == [Head(calls) EXCEPT !.lines = Tail(@)]
<1>1. phase = "run" /\ flags = given.flags /\ Restorable(s)
  BY DEF RestoreGoesOn
<1>2. PICK h \in Hosts \cup {NULL}, a \in Addrs \cup {NULL}, p \in PortArgs \cup {0},
           t \in Tokens \cup {NULL} : Restoring(h, a, p, t, s)
  BY DEF RestoreGoesOn
<1>3. calls # <<>> /\ Head(calls).lines # <<>> /\ execline(line, <<c>> \o Tail(calls))
  BY DEF NextLine
<1>4. Applied(h, a, p, s) /\ t \in {NULL, s.token} /\ Left(SavedLines(h, a, p, t))
  BY <1>2, <1>3 DEF Restoring
<1>5. c \in Call /\ c.lines = Tail(SavedLines(h, a, p, t)) /\ ~c.over
  <2>1. Head(calls) \in Call /\ c \in Call
    BY <1>3, BelowIsFine, ReadingALine DEF ShellInv
  <2>2. c.lines = Tail(Head(calls).lines) /\ c.over = Head(calls).over
    BY <2>1 DEF Call
  <2> QED BY <1>4, <2>1, <2>2 DEF Left
<1>6. line = Head(SavedLines(h, a, p, t)) /\ SavedLines(h, a, p, t) # <<>>
      /\ Tail(calls) = <<>>
  BY <1>3, <1>4 DEF Left
<1> HIDE DEF c, line
<1>7. execline(line, <<c>>)
  <2>1. <<c>> \o <<>> = <<c>>
    BY <1>5
  <2> QED BY <1>3, <1>6, <2>1
<1>8. s.port \in Ports /\ UInt16(s.port) = s.port
  BY <1>1, CastOfPort DEF Restorable, SettingsRecords
<1>9. ASSUME NEW g \in Hosts \cup {NULL}, NEW b \in Addrs \cup {NULL},
             NEW q \in PortArgs \cup {0}, NEW u \in Tokens \cup {NULL},
             UNCHANGED <<phase, at, flags, nostartup, given>>, calls' = <<c>>,
             Applied(g, b, q, s)', u \in {NULL, s.token},
             Tail(SavedLines(h, a, p, t)) = SavedLines(g, b, q, u)
      PROVE  RestoreGoesOn' /\ at' = "startup"
  <2>1. Left(SavedLines(g, b, q, u))'
    <3>1. <<c>> # <<>> /\ Tail(<<c>>) = <<>> /\ Head(<<c>>) = c
      OBVIOUS
    <3> QED BY <1>5, <1>9, <3>1 DEF Left
  <2>2. Restoring(g, b, q, u, s)'
    BY <1>9, <2>1 DEF Restoring
  <2>3. Restorable(s)'
    BY <1>1, <1>9 DEF Restorable
  <2> QED BY <1>1, <1>9, <2>2, <2>3 DEF RestoreGoesOn, RestoreMode
<1> DEFINE x == SavedLines(h, a, p, t)
<1>10. CASE h # NULL
  <2>1. Head(x) = Line("TaHoma_host", h) /\ Tail(x) = SavedLines(NULL, a, p, t)
    BY <1>10, HostFirst
  <2>2. line.blank = FALSE /\ line.name = "TaHoma_host" /\ line.arg = h
    BY <1>6, <2>1 DEF Line
  <2>3. /\ calls' = <<c>> /\ UNCHANGED <<phase, at, flags, nostartup, given>>
        /\ UNCHANGED <<ip, port>>
        /\ tahoma' = IF h \in {NULL, Empty} THEN tahoma ELSE h
    BY <1>7, <2>2, SavedLineDoes
  <2>4. Applied(NULL, a, p, s)'
    BY <1>4, <1>10, <2>3 DEF Applied
  <2> QED BY <1>4, <1>9, <2>1, <2>3, <2>4
<1>11. CASE h = NULL /\ a # NULL
  <2>1. Head(x) = Line("TaHoma_address", a) /\ Tail(x) = SavedLines(NULL, NULL, p, t)
    BY <1>11, AddressSecond
  <2>2. line.blank = FALSE /\ line.name = "TaHoma_address" /\ line.arg = a
    BY <1>6, <2>1 DEF Line
  <2>3. /\ calls' = <<c>> /\ UNCHANGED <<phase, at, flags, nostartup, given>>
        /\ UNCHANGED <<tahoma, port>> /\ ip' = a
    BY <1>7, <1>11, <2>2, SavedLineDoes, ShellAssumption
  <2>4. Applied(NULL, NULL, p, s)'
    BY <1>4, <1>11, <2>3 DEF Applied
  <2> QED BY <1>4, <1>9, <2>1, <2>3, <2>4
<1>12. CASE h = NULL /\ a = NULL /\ p # 0
  <2>1. Head(x) = Line("TaHoma_port", p) /\ Tail(x) = SavedLines(NULL, NULL, 0, t)
    BY <1>12, PortThird
  <2>2. line.blank = FALSE /\ line.name = "TaHoma_port" /\ line.arg = p
    BY <1>6, <2>1 DEF Line
  <2>3. /\ calls' = <<c>> /\ UNCHANGED <<phase, at, flags, nostartup, given>>
        /\ UNCHANGED <<tahoma, ip>> /\ port' = UInt16(p)
    BY <1>7, <1>12, <2>2, SavedLineDoes, ShellAssumption
  <2>4. Applied(NULL, NULL, 0, s)'
    BY <1>4, <1>8, <1>12, <2>3 DEF Applied
  <2> QED BY <1>4, <1>9, <2>1, <2>3, <2>4
<1>13. CASE h = NULL /\ a = NULL /\ p = 0 /\ t # NULL
  <2>1. Head(x) = Line("token", t) /\ Tail(x) = SavedLines(NULL, NULL, 0, NULL)
    BY <1>13, TokenLast
  <2>2. line.blank = FALSE /\ line.name = "token" /\ line.arg = t
    BY <1>6, <2>1 DEF Line
  <2>3. /\ calls' = <<c>> /\ UNCHANGED <<phase, at, flags, nostartup, given>>
        /\ UNCHANGED <<tahoma, ip, port>>
    BY <1>7, <2>2, SavedLineDoes
  <2>4. Applied(NULL, NULL, 0, s)'
    BY <1>4, <1>13, <2>3 DEF Applied
  <2> QED BY <1>9, <2>1, <2>3, <2>4
<1>14. CASE h = NULL /\ a = NULL /\ p = 0 /\ t = NULL
  BY <1>6, <1>14, SavedInOrder, Zenon
<1> QED BY <1>10, <1>11, <1>12, <1>13, <1>14

(* At its end nothing is left. *)
LEMMA NothingLeft ==
  ASSUME NEW h \in Hosts \cup {NULL}, NEW a \in Addrs \cup {NULL},
         NEW p \in PortArgs \cup {0}, NEW t \in Tokens \cup {NULL},
         SavedLines(h, a, p, t) = <<>>
  PROVE  h = NULL /\ a = NULL /\ p = 0 /\ t = NULL
<1>1. h = NULL
  BY HostFirst
<1>2. a = NULL
  <2>1. SavedLines(NULL, a, p, t) = <<>>
    BY <1>1
  <2> QED BY <2>1, AddressSecond
<1>3. p = 0
  <2>1. SavedLines(NULL, NULL, p, t) = <<>>
    BY <1>1, <1>2
  <2> QED BY <2>1, PortThird
<1>4. t = NULL
  <2>1. SavedLines(NULL, NULL, 0, t) = <<>>
    BY <1>1, <1>2, <1>3
  <2> QED BY <2>1, TokenLast
<1> QED BY <1>1, <1>2, <1>3, <1>4

(* The saved file is opened: everything is left, nothing is applied yet. *)
LEMMA RestoreBegins ==
  ASSUME ShellInv, RestoreInv, OptionsOver, RestoreMode'
  PROVE  RestoreGoesOn'
<1>1. /\ OptionsRead /\ ~nostartup /\ UserKnown
      /\ given' = [tahoma |-> tahoma, port |-> port, flags |-> flags, saved |-> saved]
      /\ calls' = IF nostartup \/ ~UserKnown \/ files[Startup] = NoFile THEN <<>>
                  ELSE <<Opened(Startup)>>
      /\ UNCHANGED <<flags, files>>
  BY DEF OptionsOver, RestoreMode, Leave
<1>2. saved # NULL /\ given'.saved = saved /\ given'.tahoma = tahoma /\ given'.port = port
      /\ given'.flags = flags
  BY <1>1 DEF RestoreMode
<1>3. Restorable(saved)
      /\ files[Startup] = SavedLines(saved.tahoma, saved.ip, saved.port, saved.token)
  BY <1>2 DEF RestoreInv, FileHoldsSaved
<1>4. PICK s : s = saved
  OBVIOUS
<1>5. /\ s.tahoma \in Hosts \cup {NULL} /\ s.ip \in Addrs \cup {NULL}
      /\ s.port \in PortArgs \cup {0} /\ s.token \in Tokens \cup {NULL}
  BY <1>3, <1>4 DEF Restorable, SettingsRecords
<1> DEFINE lines == SavedLines(s.tahoma, s.ip, s.port, s.token)
<1>6. lines # NoFile
  <2>1. lines \in Seq(LineSet)
    BY <1>5, SavedLinesType
  <2> QED BY <2>1, ShellAssumption
<1>7. Left(lines)'
  <2> DEFINE c == Opened(Startup)
  <2>1. c.lines = lines /\ ~c.over
    BY <1>3, <1>4 DEF Opened
  <2>2. calls' = <<c>>
    BY <1>1, <1>3, <1>4, <1>6
  <2> HIDE DEF c, lines
  <2>3. <<c>> # <<>> /\ Tail(<<c>>) = <<>> /\ Head(<<c>>) = c
    OBVIOUS
  <2> QED BY <2>1, <2>2, <2>3 DEF Left
<1>8. Applied(s.tahoma, s.ip, s.port, s)'
  <2>1. UNCHANGED <<tahoma, ip, port>> /\ ip = NULL
    BY <1>1 DEF OptionsRead, ShellInv, ConnInv, OptionsIncomplete
  <2> QED BY <1>2, <2>1 DEF Applied
<1>9. Restoring(s.tahoma, s.ip, s.port, s.token, s)'
  BY <1>7, <1>8 DEF Restoring
<1>10. phase' = "run" /\ flags' = given'.flags /\ Restorable(given.saved)' /\ given'.saved = s
  BY <1>1, <1>2, <1>3, <1>4 DEF OptionsRead, Restorable
<1> QED BY <1>5, <1>9, <1>10 DEF RestoreGoesOn

LEMMA RestoreGoesOnStep ==
  ASSUME ShellInv, RestoreInv, [ShellNext]_shellVars
  PROVE  RestoreGoesOn'
<1> SUFFICES ASSUME RestoreMode' PROVE RestoreGoesOn'
  BY DEF RestoreGoesOn
<1>1. CASE OptionsOver
  BY <1>1, RestoreBegins
<1>2. CASE NextLine
  <2> DEFINE line == Head(Head(calls).lines)
             rest == <<[Head(calls) EXCEPT !.lines = Tail(@)]>> \o Tail(calls)
  <2>1. execline(line, rest)
    BY <1>2 DEF NextLine
  <2> HIDE DEF line, rest
  <2>2. at' \in {at, "over"} /\ UNCHANGED <<nostartup, given>>
    BY <2>1, LineSaves
  <2>3. RestoreMode
    BY <2>2 DEF RestoreMode
  <2> QED BY <1>2, <2>3, RestoreLine DEF RestoreInv
<1>3. ASSUME UNCHANGED <<at, nostartup, given>>
      PROVE  /\ RestoreMode /\ phase = "run" /\ flags = given.flags
             /\ Restorable(given.saved)
             /\ \E h \in Hosts \cup {NULL}, a \in Addrs \cup {NULL}, p \in PortArgs \cup {0},
                   t \in Tokens \cup {NULL} : Restoring(h, a, p, t, given.saved)
  BY <1>3 DEF RestoreMode, RestoreGoesOn, RestoreInv
<1>4. CASE ScriptReturns
  <2>1. /\ calls # <<>> /\ Head(calls).lines = <<>> /\ calls' = Tail(calls)
        /\ UNCHANGED <<connVars, at, nostartup, flags, given>>
    BY <1>4 DEF ScriptReturns
  <2>2. PICK h \in Hosts \cup {NULL}, a \in Addrs \cup {NULL}, p \in PortArgs \cup {0},
             t \in Tokens \cup {NULL} : Restoring(h, a, p, t, given.saved)
    BY <1>3, <2>1
  <2>3. Applied(h, a, p, given.saved) /\ t \in {NULL, given.saved.token}
        /\ Left(SavedLines(h, a, p, t))
    BY <2>1, <2>2 DEF Restoring
  <2>4. SavedLines(h, a, p, t) = <<>> /\ calls' = <<>>
    BY <2>1, <2>3 DEF Left
  <2>5. h = NULL /\ a = NULL /\ p = 0
    BY <2>4, NothingLeft
  <2>6. Applied(h, a, p, given.saved)' /\ given' = given
    BY <2>1, <2>3 DEF Applied
  <2>7. Restoring(h, a, p, t, given.saved)'
    BY <2>3, <2>4, <2>5, <2>6 DEF Restoring
  <2> QED BY <1>3, <2>1, <2>7 DEF RestoreGoesOn, Restorable
<1>5. CASE ReadsOn
  <2>1. calls # <<>> /\ Head(calls).over /\ UNCHANGED <<at, nostartup, given>>
    BY <1>5 DEF ReadsOn
  <2> QED BY <1>3, <2>1 DEF Restoring, Left
<1>6. CASE ScanGoesOn
  <2>1. phase = "scanning" /\ UNCHANGED <<at, nostartup, given>>
    BY <1>6 DEF ScanGoesOn, resolve_found, ScanReturns
  <2> QED BY <1>3, <2>1
<1>7. CASE UNCHANGED shellVars
  <2>1. UNCHANGED <<connVars, at, nostartup, flags, calls, given>>
    BY <1>7 DEF shellVars
  <2>2. PICK h \in Hosts \cup {NULL}, a \in Addrs \cup {NULL}, p \in PortArgs \cup {0},
             t \in Tokens \cup {NULL} : Restoring(h, a, p, t, given.saved)
    BY <1>3, <2>1
  <2>3. Restoring(h, a, p, t, given.saved)'
    BY <2>1, <2>2 DEF Restoring, Applied, Left
  <2> QED BY <1>3, <2>1, <2>3 DEF RestoreGoesOn, Restorable
<1>8. CASE TypeLine
  <2>1. PICK line \in Lines : execline([line EXCEPT !.blank = FALSE], <<>>)
    BY <1>8 DEF TypeLine
  <2> DEFINE typed == [line EXCEPT !.blank = FALSE]
             rest == <<>>
  <2>2. execline(typed, rest)
    BY <2>1
  <2> HIDE DEF typed, rest
  <2>3. at' \in {at, "over"} /\ at = "prompt"
    BY <1>8, <2>2, LineSaves DEF TypeLine
  <2> QED BY <2>3 DEF RestoreMode
<1>9. CASE \/ OptionSetting \/ OptionScript \/ OptionFlag \/ StartupOver \/ MainReturns
           \/ Restart
  <2>1. at' # "startup"
    BY <1>9 DEF OptionSetting, OptionScript, OptionFlag, Options, StartupOver,
                MainReturns, Leave, Restart
  <2> QED BY <2>1 DEF RestoreMode
<1> QED BY <1>1, <1>2, <1>4, <1>5, <1>6, <1>7, <1>8, <1>9 DEF ShellNext

(* A start that executes a saved configuration has it back when it is done. *)
LEMMA StartupRestores ==
  ASSUME ShellInv, RestoreInv, [ShellNext]_shellVars, StartupDone
  PROVE  /\ tahoma' = IF given.saved.tahoma \in {NULL, Empty} THEN given.tahoma
                       ELSE given.saved.tahoma
         /\ ip' = given.saved.ip
         /\ port' = IF given.saved.port = 0 THEN given.port ELSE given.saved.port
         /\ flags' = given.flags
<1>1. at = "startup" /\ at' # "startup" /\ RestoreMode
  BY DEF StartupDone, RestoreMode
<1>2. /\ phase = "run" /\ flags = given.flags
      /\ \E h \in Hosts \cup {NULL}, a \in Addrs \cup {NULL}, p \in PortArgs \cup {0},
            t \in Tokens \cup {NULL} : Restoring(h, a, p, t, given.saved)
  BY <1>1 DEF RestoreInv, RestoreGoesOn
<1>3. StartupOver
  <2>1. ~NextLine
    BY <1>1, RestoreLine DEF RestoreInv
  <2> QED BY <1>1, <2>1
          DEF ShellNext, shellVars, OptionSetting, OptionScript, OptionFlag, OptionsOver,
              MainReturns, Restart, ScriptReturns, ReadsOn, TypeLine, ScanGoesOn
<1>4. calls = <<>> /\ UNCHANGED <<tahoma, ip, port, flags>>
  BY <1>3 DEF StartupOver, Leave, Exit
<1>5. PICK h \in Hosts \cup {NULL}, a \in Addrs \cup {NULL}, p \in PortArgs \cup {0},
           t \in Tokens \cup {NULL} : Restoring(h, a, p, t, given.saved)
  BY <1>2
<1>6. Applied(NULL, NULL, 0, given.saved)
  BY <1>4, <1>5 DEF Restoring, Left
<1> QED BY <1>2, <1>4, <1>6 DEF Applied

(* What save_config wrote to the startup file comes back at the next start,
   for any number of scripts, lives and lines in between. *)
THEOREM SavedComesBack == ShellSpec => SaveRestores
<1>1. ShellInit => RestoreInv
  BY DEF ShellInit, NoneGiven, RestoreInv, FileHoldsSaved, RestoreGoesOn, RestoreMode
<1>2. ASSUME ShellInv, RestoreInv, [ShellNext]_shellVars PROVE RestoreInv'
  BY <1>2, FileHoldsSavedStep, RestoreGoesOnStep DEF RestoreInv
<1>3. ASSUME ShellInv, RestoreInv, [ShellNext]_shellVars
      PROVE  [StartupDone =>
                /\ tahoma' = IF given.saved.tahoma \in {NULL, Empty} THEN given.tahoma
                              ELSE given.saved.tahoma
                /\ ip' = given.saved.ip
                /\ port' = IF given.saved.port = 0 THEN given.port ELSE given.saved.port
                /\ flags' = given.flags]_shellVars
  BY <1>3, StartupRestores
<1> QED BY <1>1, <1>2, <1>3, ShellInvariant, PTL DEF ShellSpec, SaveRestores
=============================================================================
