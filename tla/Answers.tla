------------------------------ MODULE Answers ------------------------------
(***************************************************************************)
(* What the commands that display an answer of the gateway make of it: the *)
(* accessors on a path of names, each of which has a default for what is   *)
(* missing or of another type, and the displays built on them.             *)
(*                                                                         *)
(* A JSON value is a record of one field, its type; a null is NULL.  The   *)
(* order of the fields of an object is not kept.  A display is a sequence  *)
(* of pieces in the order they are printed; titles, tabs and punctuation   *)
(* are left out, and a value is printed in a piece [value |-> ...].        *)
(***************************************************************************)
EXTENDS SequencesExt, Integers

CONSTANTS
  NULL,      \* the C null pointer, a JSON null, an answer that did not come
  MaxInt,    \* the greatest C int
  NotFound,  \* what is printed for a string that is missing
  Texts,     \* the strings of the answers
  Json,      \* the answers, and each value in them
  Depth,     \* how deep each of them is nested
  MaxDepth   \* the depth at which json-c gives up

Is(type, json) == json # NULL /\ DOMAIN json = {type}

(* The values of an object or an array. *)
Inside(json) ==
  CASE Is("object", json) -> {json.object[name] : name \in DOMAIN json.object}
    [] Is("array", json) -> ToSet(json.array)
    [] OTHER -> {}

IsJson(json) ==
  \/ json = NULL
  \/ json \in [string : Texts] \cup [int : Int] \cup [double : Int] \cup [boolean : BOOLEAN]
  \/ json \in [array : Seq(Json)]
  \/ /\ Is("object", json) /\ IsFiniteSet(DOMAIN json.object)
     /\ \A name \in DOMAIN json.object : json.object[name] \in Json

ASSUME JsonAssumption ==
  /\ NULL \in Json /\ MaxInt \in Nat
  /\ \A json \in Json : IsJson(json)
  /\ MaxDepth \in Nat /\ Depth \in [Json -> 0 .. MaxDepth]
  /\ \A json \in Json : \A v \in Inside(json) : Depth[v] < Depth[json]

-----------------------------------------------------------------------------
(* json-c *)

(* json_object_object_get(), which finds nothing in what is no object. *)
Member(json, name) ==
  IF Is("object", json) /\ name \in DOMAIN json.object THEN json.object[name] ELSE NULL

(* json_object_get_int() gives the nearest int. *)
ToInt(n) == IF n > MaxInt THEN MaxInt ELSE IF n < -MaxInt - 1 THEN -MaxInt - 1 ELSE n

-----------------------------------------------------------------------------
(* Accessors *)

getObj(json, path) ==
  LET at[i \in 0 .. Len(path)] == IF i = 0 THEN json ELSE Member(at[i - 1], path[i])
  IN  at[Len(path)]

getObjString(json, path) ==
  LET o == getObj(json, path) IN IF Is("string", o) THEN o.string ELSE NULL

getObjInt(json, path) ==
  LET o == getObj(json, path) IN IF Is("int", o) THEN ToInt(o.int) ELSE 0

getObjNumber(json, path) ==
  LET o == getObj(json, path)
  IN  IF Is("double", o) THEN o.double ELSE IF Is("int", o) THEN ToInt(o.int) ELSE 0

(* A getObjBool() that takes any value for a boolean. *)
AnyAsBool(json, path) == getObj(json, path) # NULL

getObjBool(json, path) ==
  LET o == getObj(json, path) IN Is("boolean", o) /\ o.boolean

affString(v) == IF v = NULL THEN NotFound ELSE v

Shown(type, v) == [value |-> [t \in {type} |-> v]]
ShownString(json, path) == Shown("string", affString(getObjString(json, path)))

(* A null has no piece: the case for it comes after the test that returns. *)
printObject[json \in Json] ==
  CASE json = NULL -> <<>>
    [] Is("object", json) ->
         LET keys == SetToSeq(DOMAIN json.object)
         IN  FlattenSeq([i \in DOMAIN keys |->
                           <<[key |-> keys[i]]>> \o printObject[json.object[keys[i]]]])
    [] Is("array", json) ->
         FlattenSeq([i \in DOMAIN json.array |-> printObject[json.array[i]]])
    [] OTHER -> <<[value |-> json]>>

-----------------------------------------------------------------------------
(* Displays; an answer that is not an array has none, only a message. *)

Elements(json) == IF Is("array", json) THEN json.array ELSE <<>>

(* Gateway shows the first element only. *)
ShowGateway(json) ==
  LET e == Elements(json)
  IN  IF e = <<>> \/ e[1] = NULL THEN <<>>
      ELSE << ShownString(e[1], <<"gatewayId">>),
              ShownString(e[1], <<"connectivity", "status">>),
              ShownString(e[1], <<"connectivity", "protocolVersion">>) >>

printDeviceInfo(json) ==
  << ShownString(json, <<"label">>), ShownString(json, <<"controllableName">>),
     ShownString(json, <<"deviceURL">>),
     Shown("int", getObjInt(json, <<"type">>)), Shown("int", getObjInt(json, <<"subsystemId">>)),
     Shown("boolean", getObjBool(json, <<"synced">>)),
     Shown("boolean", getObjBool(json, <<"enabled">>)),
     Shown("boolean", getObjBool(json, <<"available">>)),
     ShownString(json, <<"definition", "type">>) >>

(* scan_Devices, with debug or the higher verbosity. *)
ShowScan(json) ==
  FlattenSeq([i \in DOMAIN Elements(json) |->
                IF Elements(json)[i] = NULL THEN <<>> ELSE printDeviceInfo(Elements(json)[i])])

(* The value of a state by the type the gateway gives of it.  The case of a
   boolean falls into the next one: it is printed twice. *)
ShowValue(state) ==
  LET type == getObjInt(state, <<"type">>)
      any  == printObject[getObj(state, <<"value">>)]
  IN  CASE type = 1 -> << Shown("int", getObjInt(state, <<"value">>)) >>
        [] type = 2 -> << Shown("double", getObjNumber(state, <<"value">>)) >>
        [] type = 3 -> << ShownString(state, <<"value">>) >>
        [] type = 6 -> << Shown("boolean", getObjBool(state, <<"value">>)) >> \o any
        [] type \in {10, 11} -> any
        [] OTHER -> << [unknown |-> type] >>

(* A selection by name that lets the states before the one asked pass. *)
SelectedByAll(state, name) == getObjString(state, <<"name">>) # NULL

(* The states of which internal_States() prints the value, name being the
   one that is asked for, or NULL. *)
Selected(state, name) ==
  LET n == getObjString(state, <<"name">>)
  IN  n # NULL /\ (name = NULL \/ name = n)

ShowStates(json, name) ==
  LET title(e) == IF name = NULL THEN <<[state |-> getObjString(e, <<"name">>)]>> ELSE <<>>
      show(e)  == IF Selected(e, name) THEN title(e) \o ShowValue(e) ELSE <<>>
  IN  FlattenSeq([i \in DOMAIN Elements(json) |-> show(Elements(json)[i])])

-----------------------------------------------------------------------------
(* Current, with the devices that are known *)

ActionsOf(execution) ==
  LET actions == getObj(execution, <<"actionGroup", "actions">>)
  IN  IF Is("array", actions) THEN actions.array ELSE <<>>

(* The label of the first device of a list. *)
FirstLabel(devices, url) == IF devices = <<>> THEN NULL ELSE devices[1].label

(* findDeviceByURL() and the label that is printed for it, or none. *)
LabelOf(devices, url) ==
  LET i == SelectInSeq(devices, LAMBDA d : d.url = url)
  IN  IF i = 0 THEN NULL ELSE devices[i].label

ShowAction(action, devices) ==
  LET url == getObjString(action, <<"deviceURL">>)
  IN  << [label |-> LabelOf(devices, url), url |-> url], Shown("string", affString(url)) >>
      \o printObject[getObj(action, <<"commands">>)]

(* The date of the start is left out. *)
ShowExecution(execution, devices) ==
  << ShownString(execution, <<"id">>), ShownString(execution, <<"description">>),
     ShownString(execution, <<"owner">>), ShownString(execution, <<"state">>),
     ShownString(execution, <<"executionSubType">>) >>
  \o FlattenSeq([i \in DOMAIN ActionsOf(execution) |-> ShowAction(ActionsOf(execution)[i], devices)])

ShowCurrent(json, devices) ==
  FlattenSeq([i \in DOMAIN Elements(json) |-> ShowExecution(Elements(json)[i], devices)])

(* findDeviceByURL() compares with the null pointer once there is a device
   to compare. *)
CurrentCrashes(json, devices) ==
  /\ devices # <<>>
  /\ \E i \in DOMAIN Elements(json) :
       LET actions == ActionsOf(Elements(json)[i])
       IN  \E j \in DOMAIN actions : getObjString(actions[j], <<"deviceURL">>) = NULL

-----------------------------------------------------------------------------
(* The values in a value that hold no others. *)
Leaves[json \in Json] ==
  IF json = NULL THEN {}
  ELSE IF Is("object", json) \/ Is("array", json) THEN UNION {Leaves[v] : v \in Inside(json)}
  ELSE {json}

(* What may be printed of leaves: themselves, an integer also as the nearest
   int and as a number, and the defaults for something missing or of another
   type. *)
PrintedAs(leaves) ==
  LET ints == {ToInt(v.int) : v \in {u \in leaves : Is("int", u)}} \cup {0}
  IN  leaves \cup [int : ints] \cup [double : ints]
      \cup {[string |-> NotFound], [boolean |-> FALSE]}

Printable(jsons) == PrintedAs(UNION {Leaves[json] : json \in jsons})
=============================================================================
