------------------------------ MODULE MCPrompt ------------------------------
(* Prompt with two devices, the label of one of which begins with that of the
   other, or one that was given a label with a tab and objects addDevice()
   does not take, and lines that name one of them, both, or neither, with
   single and double blanks, a quote and a letter that is not ASCII. *)
EXTENDS Prompt

Blank == {" ", "tab"}
Letters == {"S", "N", "C", "M", "D", "E", "A", "G", "R", "T", "O"}
Graphic == Letters \cup {"Q", "x", "y", "_", "u", "v", "s", "t", "c", "'"}

Names ==
  [does \in {row.does : row \in Commands} |->
     CASE does = "States" -> <<"S">> [] does = "NStates" -> <<"N">>
       [] does = "Command" -> <<"C">> [] does = "NCommand" -> <<"M">>
       [] does = "Device" -> <<"D">> [] does = "NDevice" -> <<"E">>
       [] does = "scan_Devices" -> <<"A">> [] does = "Gateway" -> <<"G">>
       [] does = "Current" -> <<"R">> [] does = "status" -> <<"T">>
       [] OTHER -> <<"O">>]

OneWord == {
  <<" ", "x">>, <<" ", " ", "x">>, <<"tab", "x", "_", "y">>, <<" ", "u">>, <<" ", "'", "x">>,
  <<" ", "eacute", "x">>, <<" ", "y", " ">> }
MoreWords == {
  <<" ", "x", " ", "s">>, <<" ", "u", " ", " ", "t">>, <<" ", "x", " ", "c", " ", "t", " ", " ", "x">>,
  <<" ", "u", " ", "c", " ", "'">>, <<" ", "eacute", " ", "x", " ", "s">> }

(* Command reads its words as NCommand does, but for the field it looks up:
   of Command, lines of several words come from completion alone. *)
TypedLines ==
  {<<c>> : c \in Letters} \cup {<<" ", c>> : c \in {"N", "T"}} \cup {<<" ", "N", " ", "x">>}
  \cup {<<c>> \o argument : c \in {"S", "N", "C", "M", "D", "E"}, argument \in OneWord}
  \cup {<<c>> \o argument : c \in {"S", "N", "M"}, argument \in MoreWords}
  \cup {<<c, " ", "x">> : c \in {"A", "G", "R", "O"}} \cup {<<"Q", " ", "x">>, <<" ">>}

-----------------------------------------------------------------------------
Obj(fields) == [object |-> fields]
Arr(items)  == [array |-> items]
Str(s)      == [string |-> s]
Num(n)      == [int |-> n]

Item(field, name) == Obj(field :> Str(name))

Sent(label, url, commands, states) ==
  Obj([label |-> Str(label), deviceURL |-> Str(url), enabled |-> [boolean |-> TRUE],
       synced |-> Num(1), type |-> [double |-> 5],
       definition |-> Obj([commands |-> Arr(commands), states |-> Arr(states)])])

Long  == Sent(<<"x", " ", "y">>, <<"u">>, <<Item("commandName", <<"c">>)>>,
                <<Item("name", <<"s">>), Item("name", <<"t">>)>>)
Short == Sent(<<"x">>, <<"v">>, <<Item("commandName", <<"t">>)>>, <<Item("name", <<"t">>)>>)

(* A label with a tab, a device that is given up for its second state, one
   without a state list, and two that fail an assertion. *)
Tabbed   == Sent(<<"x", "tab", "y">>, <<"u">>, <<>>, <<Item("name", <<"s">>)>>)
GivenUp  == Sent(<<"x">>, <<"v">>, <<>>, <<Item("name", <<"t">>), NULL>>)
Stateless == Obj([label |-> Str(<<"y">>), deviceURL |-> Str(<<"u">>),
                  definition |-> Obj([commands |-> Arr(<<Item("commandName", <<"c">>)>>)])])
Unnamed  == Sent(<<"x">>, <<"v">>, <<Obj([name |-> Str(<<"t">>)]), NULL>>, <<>>)
NoLabel  == Obj([deviceURL |-> Str(<<"u">>)])

State(name, type, value) ==
  Obj([name |-> Str(name), type |-> Num(type), value |-> value])

Mixed == Arr(<< State(<<"s">>, 1, Num(3)), NULL, Obj([type |-> Num(1), value |-> Num(4)]),
                State(<<"t">>, 1, Num(99)), State(<<"t">>, 1, [double |-> 5]),
                State(<<"s">>, 2, [double |-> 6]), State(<<"t">>, 2, Num(7)),
                State(<<"s">>, 3, Str(<<"x">>)), State(<<"t">>, 3, Num(8)),
                State(<<"s">>, 2, Num(99)), State(<<"t">>, 10, Arr(<<Num(5), NULL, Obj([s |-> [boolean |-> FALSE]])>>)),
                State(<<"s">>, 4, Num(2)) >>)

Execution(action) ==
  Obj([id |-> Str(<<"t">>), state |-> Num(3), actionGroup |-> Obj([actions |-> Arr(<<action>>)])])
Action(url) == Obj([deviceURL |-> Str(url), commands |-> Arr(<<Item("name", <<"c">>)>>)])

GatewayReplies ==
  [does \in {"scan_Devices", "Gateway", "Current", "States"} |->
     CASE does = "scan_Devices" ->
            {NULL, Arr(<<Long, Short>>), Arr(<<Stateless, Short, NULL, GivenUp, Tabbed>>),
             Arr(<<Short, Unnamed>>), Arr(<<NoLabel>>)}
       [] does = "Gateway" ->
            {NULL, Arr(<<>>), Arr(<<NULL>>),
             Arr(<<Obj([gatewayId |-> Str(<<"x">>),
                        connectivity |-> Obj([status |-> Str(<<"y">>), protocolVersion |-> Num(1)])]),
                   NULL>>),
             Arr(<<Obj([connectivity |-> Str(<<"x">>)])>>)}
       [] does = "Current" ->
            {NULL, Arr(<<>>), Arr(<<Execution(Action(<<"u">>)), Execution(Action(<<"v">>))>>),
             Arr(<<Execution(Obj([commands |-> Num(1)]))>>), Arr(<<Obj([id |-> Num(1)])>>)}
       [] OTHER ->
            {NULL, Obj([error |-> Str(<<"x">>)]), Mixed,
             Arr(<<State(<<"s">>, 6, [boolean |-> FALSE]), State(<<"t">>, 1, Num(4)),
                   State(<<"s">>, 6, Num(1)), State(<<"t">>, 11, Obj([x |-> Num(2)]))>>)}]

-----------------------------------------------------------------------------
RECURSIVE Within(_), Nesting(_)
Within(json)  == {json} \cup UNION {Within(v) : v \in Inside(json)}
Nesting(json) == IF Inside(json) = {} THEN 0 ELSE 1 + Max({Nesting(v) : v \in Inside(json)})

Answered ==
  UNION {Within(json) : json \in UNION {GatewayReplies[does] : does \in DOMAIN GatewayReplies}}
Nested  == [json \in Answered |-> Nesting(json)]
Strings == {json.string : json \in {v \in Answered : Is("string", v)}}
=============================================================================
