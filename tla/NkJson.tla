------------------------------- MODULE NkJson -------------------------------
(***************************************************************************)
(* The JSON printer, src/nk_pjson.c: calls open objects and arrays, print  *)
(* values and close again, in any order; the text goes to a file as it is  *)
(* printed.  There are two formatters: nk_std_json on the console, and one *)
(* of the program on a file of its own.                                    *)
(*                                                                         *)
(* A file is what a reader of JSON makes of it so far: the objects and     *)
(* arrays that are open, and what came last in the innermost one.          *)
(***************************************************************************)
EXTENDS Integers, SequencesExt

CONSTANT NK_JSON_STACK_SIZE

ASSUME JsonConstantsOK == NK_JSON_STACK_SIZE \in Nat \ {0, 1}

Formatter == {"std", "user"}
LevelType == {"OBJ", "ARRAY"}

VARIABLES
  json,  \* json_formatter_t: level, type, first, stack
  file   \* what has been printed: open, last

jvars == << json, file >>

-----------------------------------------------------------------------------
(* Reading JSON.  A file holds one object after another                     *)

EmptyFile == [open |-> << >>, last |-> "start"]
In(f) == IF f.open = << >> THEN "file" ELSE Last(f.open)

(* where a value, an object or an array may stand *)
ValueFits(f) ==
  \/ In(f) = "OBJ" /\ f.last = "name"
  \/ In(f) = "ARRAY" /\ f.last \in {"open", "comma"}

Bad == [open |-> << >>, last |-> "bad"]

(* the file with one more token *)
Read(f, token) ==
  CASE f.last = "bad" -> Bad
    [] token = "comma" /\ f.last = "item" -> [f EXCEPT !.last = "comma"]
    [] token = "name" /\ In(f) = "OBJ" /\ f.last \in {"open", "comma"} ->
         [f EXCEPT !.last = "name"]
    [] token = "value" /\ ValueFits(f) -> [f EXCEPT !.last = "item"]
    [] token = "{" /\ (ValueFits(f) \/ f = EmptyFile) ->
         [open |-> Append(f.open, "OBJ"), last |-> "open"]
    [] token = "[" /\ ValueFits(f) ->
         [open |-> Append(f.open, "ARRAY"), last |-> "open"]
    [] \/ token = "}" /\ In(f) = "OBJ" /\ f.last \in {"open", "item"}
       \/ token = "]" /\ In(f) = "ARRAY" /\ f.last \in {"open", "item"} ->
         IF Len(f.open) = 1 THEN EmptyFile
         ELSE [open |-> Front(f.open), last |-> "item"]
    [] OTHER -> Bad

-----------------------------------------------------------------------------
(* The printer: j is a formatter with its file, [json, file]                *)

Emit(j, tokens) ==
  LET f[n \in 0 .. Len(tokens)] ==
        IF n = 0 THEN j.file ELSE Read(f[n - 1], tokens[n])
  IN  [j EXCEPT !.file = f[Len(tokens)]]

_nk_fpjson_start(j) ==
  IF j.json.level # 0 THEN j
  ELSE Emit([j EXCEPT !.json.level = 1, !.json.first = FALSE,
                       !.json.type = "OBJ"], << "{" >>)

(* mutant: the end of a level is not noted as an item of the level below *)
PrefixForgetsEnd(j, close) ==
  LET k == IF close THEN j ELSE _nk_fpjson_start(j)
  IN  Emit([k EXCEPT !.json.first = IF close THEN @ ELSE TRUE],
            IF ~close /\ k.json.first THEN << "comma" >> ELSE << >>)

(* the separator that is due before the next item, or before an end *)
_nk_fpjson_prefix(j, close) ==
  LET k == IF close THEN j ELSE _nk_fpjson_start(j)
  IN  Emit([k EXCEPT !.json.first = TRUE],
            IF ~close /\ k.json.first THEN << "comma" >> ELSE << >>)

(* an item of the current level, with its name in an object *)
Item(j, token) ==
  Emit(j, IF j.json.type = "OBJ" THEN << "name", token >> ELSE << token >>)

(* nk_fpjson_null, _bool, _string, _double and the integers *)
nk_fpjson_value(j) == Item(_nk_fpjson_prefix(j, FALSE), "value")

Token(type) == IF type = "OBJ" THEN "{" ELSE "["

Nested(j, type) ==
  LET k == Item(_nk_fpjson_prefix(j, FALSE), Token(type))
  IN  [k EXCEPT !.json.stack[k.json.level] = k.json.type,
                !.json.type = type,
                !.json.first = FALSE,
                !.json.level = @ + 1]

nk_fpjson_pop(j) ==
  IF j.json.level = 0 THEN j
  ELSE LET down == [j EXCEPT !.json.level = @ - 1]
           k == Emit(_nk_fpjson_prefix(down, TRUE),
                      << IF j.json.type = "OBJ" THEN "}" ELSE "]" >>)
       IN  [k EXCEPT !.json.type = k.json.stack[k.json.level]]

nk_fpjson_popto(j, level) ==
  LET f[n \in 0 .. NK_JSON_STACK_SIZE] ==
        IF n = 0 THEN j ELSE nk_fpjson_pop(f[n - 1])
  IN  IF j.json.level > level THEN f[j.json.level - level] ELSE j

nk_fpjson_end(j) == nk_fpjson_popto(j, 0)

nk_fpjson_begin(j) == _nk_fpjson_start(nk_fpjson_end(j))

-----------------------------------------------------------------------------
(* The calls *)

(* nk_fpjson_init leaves the stack as it is *)
JsonInit ==
  /\ \E stack \in [0 .. NK_JSON_STACK_SIZE - 1 -> LevelType] :
       json = [f \in Formatter |->
                [level |-> 0, type |-> "OBJ", first |-> FALSE,
                 stack |-> IF f = "user" THEN stack
                           ELSE [i \in DOMAIN stack |-> "OBJ"]]]
  /\ file = [f \in Formatter |-> EmptyFile]

Of(f) == [json |-> json[f], file |-> file[f]]

Prints(f, j) ==
  /\ json' = [json EXCEPT ![f] = j.json]
  /\ file' = [file EXCEPT ![f] = j.file]

Full(f) == json[f].level = NK_JSON_STACK_SIZE

Value(f) == Prints(f, nk_fpjson_value(Of(f)))

nk_fpjson_obj(f) ==
  Prints(f, IF Full(f) THEN nk_fpjson_value(Of(f)) ELSE Nested(Of(f), "OBJ"))

(* at a full stack the complaint goes to nk_std_json, whatever f is *)
nk_fpjson_array(f) ==
  IF Full(f) THEN Prints("std", nk_fpjson_value(Of("std")))
  ELSE Prints(f, Nested(Of(f), "ARRAY"))

Pop(f) == Prints(f, nk_fpjson_pop(Of(f)))

(* a level that obj or array has returned *)
Popto(f) ==
  \E level \in 0 .. json[f].level :
    Prints(f, nk_fpjson_popto(Of(f), level))

Begin(f) == Prints(f, nk_fpjson_begin(Of(f)))

End(f) == Prints(f, nk_fpjson_end(Of(f)))

JsonNext ==
  \E f \in Formatter :
    \/ Value(f)
    \/ nk_fpjson_obj(f)
    \/ nk_fpjson_array(f)
    \/ Pop(f)
    \/ Popto(f)
    \/ Begin(f)
    \/ End(f)

JsonSpec == JsonInit /\ [][JsonNext]_jvars

-----------------------------------------------------------------------------
(* Properties *)

JsonTypeOK ==
  json \in [Formatter ->
    [level : 0 .. NK_JSON_STACK_SIZE, type : LevelType, first : BOOLEAN,
     stack : [0 .. NK_JSON_STACK_SIZE - 1 -> LevelType]]]

(***************************************************************************)
(* In whatever order the calls come, each file is JSON so far: commas      *)
(* stand between items and nowhere else, names in objects only, and every  *)
(* end matches its beginning.  The formatter has as many levels open as    *)
(* the reader, of the same types.                                          *)
(***************************************************************************)
WellFormed ==
  \A f \in Formatter :
    /\ file[f].last # "bad"
    /\ Len(file[f].open) = json[f].level
    /\ json[f].level > 0 =>
         /\ Last(file[f].open) = json[f].type
         /\ \A i \in 1 .. json[f].level - 1 :
              file[f].open[i] = json[f].stack[i]
=============================================================================
