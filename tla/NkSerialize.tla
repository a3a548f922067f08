---------------------------- MODULE NkSerialize ----------------------------
(***************************************************************************)
(* Typed data as text, src/nkserialize.c with the scanner of src/nkscan.c: *)
(* a program saves its database under the schema it was built with, and a  *)
(* later version of the program loads the text under another.              *)
(*                                                                         *)
(* A text is a sequence of tokens.  A character is a token, a word or a    *)
(* number is one as well, and so is any white space between two of them.   *)
(* A sign is a token of its own.  Floating point numbers are counted in    *)
(* tenths.                                                                 *)
(***************************************************************************)
EXTENDS Integers, SequencesExt

CONSTANTS
  Schemas,      \* the types that the versions of the program save
  Values(_),    \* what the memory of a type may hold
  IntBits,      \* the width of int
  CharIsSigned, \* char of the compiler; not on ARM
  FlashGranularity \* of the memory that nk_dbase_save writes to

VARIABLES
  schema,  \* of the program that is running
  ram,     \* its database
  text,    \* what is stored
  saved,   \* ghost: [schema, ram, form, padding] of the save
  status   \* what the last call returned

svars == << schema, ram, text, saved, status >>

-----------------------------------------------------------------------------
(* Types and the values of their memory.  The size of a string counts its   *)
(* NUL, that of a list its elements; the elements of a list with variable   *)
(* length behind its end are memory, too                                    *)

Scalar(what) == [what |-> what]
String(size) == [what |-> "tSTRING", size |-> size]
Member(name, type) == [name |-> name, type |-> type]
Struct(members) == [what |-> "tSTRUCT", members |-> members]
List(what, size, subtype) ==
  [what |-> what, size |-> size, subtype |-> subtype]

Names(type) == {type.members[i].name : i \in DOMAIN type.members}
TypeOf(type, name) ==
  type.members[CHOOSE i \in DOMAIN type.members :
                 type.members[i].name = name].type

Integral == {"tINT", "tUINT", "tINT8", "tUINT8", "tINT16", "tUINT16"}
Floating == {"tDOUBLE", "tFLOAT"}
Numeric == Integral \cup Floating

Bits(what) ==
  CASE what \in {"tINT8", "tUINT8"} -> 8
    [] what \in {"tINT16", "tUINT16"} -> 16
    [] OTHER -> IntBits

Signed(what) == what \in {"tINT", "tINT16"} \/ (what = "tINT8" /\ CharIsSigned)

(* n in an integer of this type *)
Cast(what, n) ==
  LET range == 2 ^ Bits(what)
      low == n % range
  IN  IF Signed(what) /\ low >= range \div 2 THEN low - range ELSE low

Truncated(tenths) ==
  IF tenths < 0 THEN -((-tenths) \div 10) ELSE tenths \div 10

Converted(what, tenths) ==
  IF what \in Integral THEN Cast(what, Truncated(tenths)) ELSE tenths

-----------------------------------------------------------------------------
(* Tokens.  A character that is not printed as itself is << "\\x", h, l >>, *)
(* with the two digits of its code                                          *)

Lit(c) == << <<c>> >>
Ws == <<" ">>
Quote == <<"\"">>
Backslash == <<"\\">>
EndOfText == <<"eof">>
Name(s) == << "name", s >>
Number(n) == << "number", n >>
Real(tenths) == << "real", tenths >>
IsNumber(token) == token[1] \in {"number", "real"}
HexDigits == {<<"0">>, <<"1">>, <<"a">>}

At(t, p) == IF p <= Len(t) THEN t[p] ELSE EndOfText

Negative(n) == IF n < 0 THEN Lit("-") ELSE << >>
Magnitude(n) == IF n < 0 THEN -n ELSE n

(* "%d" and "%u" *)
Decimal(n) == Negative(n) \o << Number(Magnitude(n)) >>

(* "%g" leaves out the decimal point if it can *)
General(tenths) ==
  Negative(tenths) \o << IF tenths % 10 = 0
                         THEN Number(Magnitude(tenths) \div 10)
                         ELSE Real(Magnitude(tenths)) >>

(* nk_dbase_fprint puts it back *)
WithPoint(tenths) == Negative(tenths) \o << Real(Magnitude(tenths)) >>

(* mutant: "%x" *)
EscapedShort(ch) ==
  CASE ch \in {Quote, Backslash} -> << Backslash, ch >>
    [] ch = <<"nl">> -> << Backslash, <<"n">> >>
    [] ch[1] = "\\x" /\ ch[2] # "0" ->
         << Backslash, <<"x">>, <<ch[2]>>, <<ch[3]>> >>
    [] ch[1] = "\\x" /\ ch[2] = "0" -> << Backslash, <<"x">>, <<ch[3]>> >>
    [] OTHER -> << ch >>

Escaped(ch) ==
  CASE ch \in {Quote, Backslash} -> << Backslash, ch >>
    [] ch = <<"nl">> -> << Backslash, <<"n">> >>
    [] ch[1] = "\\x" -> << Backslash, <<"x">>, <<ch[2]>>, <<ch[3]>> >>
    [] OTHER -> << ch >>

Quoted(chs) ==
  << Quote >> \o FlattenSeq([i \in DOMAIN chs |-> Escaped(chs[i])])
    \o << Quote >>

Truth(b) == << Name(IF b THEN "true" ELSE "false") >>

-----------------------------------------------------------------------------
(* Printing *)

Separated(parts, separator) ==
  FlattenSeq([i \in DOMAIN parts |->
    IF i < Len(parts) THEN parts[i] \o separator ELSE parts[i]])

Elements(type, v) ==
  IF type.what = "tARRAY" THEN v.items ELSE SubSeq(v.items, 1, v.len)

RECURSIVE nk_dbase_serialize(_, _)
nk_dbase_serialize(type, v) ==
  CASE type.what = "tSTRUCT" ->
         Lit("{")
           \o Separated([i \in DOMAIN type.members |->
                LET m == type.members[i]
                IN  << Name(m.name) >> \o Lit(":")
                      \o nk_dbase_serialize(m.type, v[m.name])],
                << <<",">>, Ws >>)
           \o Lit("}")
    [] type.what \in {"tARRAY", "tVARRAY"} ->
         LET e == Elements(type, v)
         IN  Lit("[")
               \o Separated([i \in DOMAIN e |->
                    nk_dbase_serialize(type.subtype, e[i])], << <<",">>, Ws >>)
               \o Lit("]")
    [] type.what = "tTABLE" ->
         LET m == type.subtype.members
             e == Elements(type, v)
         IN  Lit("(")
               \o FlattenSeq([i \in DOMAIN m |-> << Name(m[i].name), Ws >>])
               \o FlattenSeq([i \in DOMAIN e |->
                    Lit(":") \o Separated([j \in DOMAIN m |->
                      nk_dbase_serialize(m[j].type, e[i][m[j].name])],
                      << Ws >>)])
               \o Lit(")")
    [] type.what \in Integral -> Decimal(v)
    [] type.what \in Floating -> General(v)
    [] type.what = "tBOOL" -> Truth(v)
    [] type.what = "tSTRING" -> Quoted(v)

(* ed is what follows the value: a comma, the end of the line *)
RECURSIVE nk_dbase_fprint(_, _, _)
nk_dbase_fprint(type, v, ed) ==
  LET EdOf(i, n) == IF i < n THEN << <<",">>, Ws >> ELSE << Ws >>
  IN CASE type.what = "tSTRUCT" ->
         << <<"{">>, Ws >>
           \o FlattenSeq([i \in DOMAIN type.members |->
                LET m == type.members[i]
                IN  << Name(m.name), <<":">>, Ws >>
                      \o nk_dbase_fprint(m.type, v[m.name],
                                         EdOf(i, Len(type.members)))])
           \o Lit("}") \o ed
    [] type.what \in {"tARRAY", "tVARRAY"} ->
         LET e == Elements(type, v)
         IN  << <<"[">>, Ws >>
               \o FlattenSeq([i \in DOMAIN e |->
                    nk_dbase_fprint(type.subtype, e[i], EdOf(i, Len(e)))])
               \o Lit("]") \o ed
    [] type.what = "tTABLE" ->
         LET m == type.subtype.members
             e == Elements(type, v)
         IN  Lit("(")
               \o FlattenSeq([i \in DOMAIN m |-> << Ws, Name(m[i].name) >>])
               \o << Ws >>
               \o FlattenSeq([i \in DOMAIN e |->
                    Lit(":")
                      \o FlattenSeq([j \in DOMAIN m |->
                           << Ws >> \o nk_dbase_fprint(m[j].type,
                                         e[i][m[j].name], << >>)])
                      \o << Ws >>])
               \o Lit(")") \o ed
    [] type.what \in Integral -> Decimal(v) \o ed
    [] type.what \in Floating -> WithPoint(v) \o ed
    [] type.what = "tBOOL" -> Truth(v) \o ed
    [] type.what = "tSTRING" -> Quoted(v) \o ed

-----------------------------------------------------------------------------
(* Scanning.  Every operator takes the text and a position in it, and gives *)
(* the position behind what it has read                                     *)

RECURSIVE nk_fscan_ws(_, _)
nk_fscan_ws(t, p) == IF At(t, p) = Ws THEN nk_fscan_ws(t, p + 1) ELSE p

Fails(p) == [ok |-> FALSE, pos |-> p]
Succeeds(p) == [ok |-> TRUE, pos |-> p]

(* what has read as far as end, or nothing from p on *)
OrBack(end, p) == IF end.ok THEN end ELSE [end EXCEPT !.pos = p]

(* nk_fscan(f, " c%e"): the position stays unless it succeeds *)
Scan(t, p, c) ==
  LET q == nk_fscan_ws(t, p)
  IN  IF At(t, q) = <<c>> THEN Succeeds(q + 1) ELSE Fails(p)

(* one character of a string, which may be escaped *)
nk_fscan_escape(t, p) ==
  LET c == At(t, p + 1)
      h == At(t, p + 2)
      l == At(t, p + 3)
  IN CASE At(t, p) = EndOfText -> [ch |-> EndOfText, pos |-> p]
       [] At(t, p) \notin {EndOfText, Backslash} ->
            [ch |-> At(t, p), pos |-> p + 1]
       [] At(t, p) = Backslash /\ c = <<"n">> ->
            [ch |-> <<"nl">>, pos |-> p + 2]
       [] At(t, p) = Backslash /\ c = <<"x">> ->
            IF h \notin HexDigits
            THEN [ch |-> << "\\x", "0", "0" >>, pos |-> p + 2]
            ELSE IF l \notin HexDigits
            THEN [ch |-> << "\\x", "0", h[1] >>, pos |-> p + 3]
            ELSE [ch |-> << "\\x", h[1], l[1] >>, pos |-> p + 4]
       [] OTHER -> [ch |-> c, pos |-> p + 2]

(* the rest of a string: at most max characters of it, and where it ends *)
RECURSIVE Characters(_, _, _, _)
Characters(t, p, chs, max) ==
  IF At(t, p) \in {EndOfText, Quote} THEN [chs |-> chs, pos |-> p]
  ELSE LET e == nk_fscan_escape(t, p)
       IN  Characters(t, e.pos,
                      IF Len(chs) < max THEN Append(chs, e.ch) ELSE chs, max)

(* an identifier, which may also be a string: no name is one *)
nk_fscan_ident(t, p) ==
  LET close == Characters(t, p + 1, << >>, 0).pos
  IN CASE At(t, p)[1] = "name" ->
            [ok |-> TRUE, pos |-> p + 1, name |-> At(t, p)[2]]
       [] At(t, p) = Quote /\ At(t, close) = Quote ->
            [ok |-> TRUE, pos |-> close + 1, name |-> "quoted"]
       [] OTHER -> [ok |-> FALSE, pos |-> p, name |-> ""]

(* nk_fscan(f, "%i : %e") *)
WithColon(t, id) ==
  LET colon == Scan(t, id.pos, ":")
  IN  [id EXCEPT !.ok = @ /\ colon.ok, !.pos = nk_fscan_ws(t, colon.pos)]

Key(t, p) == OrBack(WithColon(t, nk_fscan_ident(t, p)), p)

(* nk_fscan(f, " %i %e") until it fails *)
RECURSIVE Columns(_, _, _)
Columns(t, p, names) ==
  LET id == nk_fscan_ident(t, nk_fscan_ws(t, p))
  IN  IF id.ok THEN Columns(t, nk_fscan_ws(t, id.pos), Append(names, id.name))
      ELSE [names |-> names, pos |-> p]

(* while (nk_fscan(f, " ,%e")); *)
RECURSIVE Commas(_, _)
Commas(t, p) ==
  LET comma == Scan(t, p, ",") IN IF comma.ok THEN Commas(t, comma.pos) ELSE p

(* a number, in tenths *)
Tenths(token) == IF token[1] = "number" THEN 10 * token[2] ELSE token[2]

ScanNumber(t, p) ==
  CASE IsNumber(At(t, p)) ->
         [ok |-> TRUE, pos |-> p + 1, tenths |-> Tenths(At(t, p))]
    [] At(t, p) = <<"-">> /\ IsNumber(At(t, p + 1)) ->
         [ok |-> TRUE, pos |-> p + 2, tenths |-> -Tenths(At(t, p + 1))]
    [] OTHER -> [ok |-> FALSE, pos |-> p, tenths |-> 0]

(* of a negative tFLOAT only the digit 0 is read: it becomes 0, with the    *)
(* rest of its digits left over, unless its integer part is 0               *)
ScanFloat(t, p) ==
  IF /\ At(t, p) = <<"-">> /\ IsNumber(At(t, p + 1))
     /\ Tenths(At(t, p + 1)) >= 10
  THEN [ok |-> TRUE, pos |-> p + 1, tenths |-> 0]
  ELSE ScanNumber(t, p)

-----------------------------------------------------------------------------
(* Skipping a value.  After a string the position is at its closing quote *)

RECURSIVE skip_value(_, _), SkipMembers(_, _, _), SkipItems(_, _),
          SkipRows(_, _), SkipFields(_, _)

SkipMembers(t, p, key) ==
  LET v == skip_value(t, key.pos)
      next == Commas(t, v.pos)
  IN CASE key.ok /\ v.ok ->
            SkipMembers(t, next, Key(t, nk_fscan_ws(t, next)))
       [] key.ok /\ ~v.ok -> Fails(p)
       [] OTHER -> IF At(t, p) = <<"}">> THEN Succeeds(p + 1) ELSE Fails(p)

SkipItems(t, p) ==
  LET q == nk_fscan_ws(t, p)
      v == skip_value(t, q)
  IN CASE At(t, q) = <<",">> -> SkipItems(t, q + 1)
       [] At(t, q) = <<"]">> -> Succeeds(q + 1)
       [] At(t, q) = EndOfText -> Fails(q)
       [] OTHER -> IF v.ok THEN SkipItems(t, v.pos) ELSE Fails(q)

SkipFields(t, p) ==
  LET q == nk_fscan_ws(t, p)
      v == skip_value(t, q)
  IN  IF At(t, q) \in {EndOfText, <<":">>, <<")">>} THEN Succeeds(q)
      ELSE IF v.ok THEN SkipFields(t, v.pos) ELSE Fails(q)

SkipRows(t, p) ==
  LET row == Scan(t, p, ":")
      fields == SkipFields(t, row.pos)
  IN CASE row.ok /\ fields.ok -> SkipRows(t, fields.pos)
       [] row.ok /\ ~fields.ok -> fields
       [] OTHER -> Scan(t, p, ")")

skip_value(t, p) ==
  LET c == At(t, p)
      close == Characters(t, p + 1, << >>, 0).pos
  IN  OrBack(
        CASE c \in {Name("true"), Name("false"), Name("null")} ->
               Succeeds(nk_fscan_ws(t, p + 1))
          [] c = <<"{">> ->
               SkipMembers(t, p + 1, Key(t, nk_fscan_ws(t, p + 1)))
          [] c = <<"[">> -> SkipItems(t, p + 1)
          [] c = <<"(">> -> SkipRows(t, Columns(t, p + 1, << >>).pos)
          [] c = Quote -> [ok |-> At(t, close) = Quote, pos |-> close]
          [] OTHER -> ScanNumber(t, p),
        p)

-----------------------------------------------------------------------------
(* Parsing a value into the memory m of its type.  What was stored before a *)
(* failure stays                                                            *)

RECURSIVE nk_fscan_keyval(_, _, _, _), Members(_, _, _, _, _),
          Items(_, _, _, _, _, _), Fields(_, _, _, _, _, _, _),
          Rows(_, _, _, _, _, _, _)

Result(ok, pos, m) == [ok |-> ok, pos |-> pos, m |-> m]

Members(t, type, key, m, rtn) ==
  LET known == key.name \in Names(type)
      r == nk_fscan_keyval(t, TypeOf(type, key.name), key.pos, m[key.name])
      with == [m EXCEPT ![key.name] = r.m]
      over == skip_value(t, key.pos)
      Next(end) == Key(t, nk_fscan_ws(t, Commas(t, end)))
  IN CASE ~key.ok ->
            Result(rtn /\ At(t, key.pos) = <<"}">>, key.pos + 1, m)
       [] key.ok /\ ~known -> Members(t, type, Next(over.pos), m, rtn)
       [] key.ok /\ known ->
            IF r.ok THEN Members(t, type, Next(r.pos), with, TRUE)
            ELSE IF over.ok
            THEN Members(t, type, Next(over.pos), with, TRUE)
            ELSE Result(FALSE, key.pos, with)

(* idx elements have been stored *)
Items(t, type, p, m, idx, rtn) ==
  LET q == nk_fscan_ws(t, p)
      r == nk_fscan_keyval(t, type.subtype, q, m.items[idx + 1])
      with == [m EXCEPT !.items[idx + 1] = r.m]
      over == skip_value(t, q)
      counted == IF type.what = "tVARRAY" THEN [m EXCEPT !.len = idx] ELSE m
  IN CASE At(t, q) = <<"]">> -> Result(rtn, q + 1, counted)
       [] At(t, q) = EndOfText -> Result(FALSE, q, counted)
       [] At(t, q) = <<",">> -> Items(t, type, q + 1, m, idx, rtn)
       [] OTHER ->
            IF idx < type.size
            THEN IF r.ok THEN Items(t, type, r.pos, with, idx + 1, TRUE)
                 ELSE Result(FALSE, q,
                        [counted EXCEPT !.items[idx + 1] = r.m])
            ELSE IF over.ok THEN Items(t, type, over.pos, m, idx, TRUE)
                 ELSE Result(FALSE, q, counted)

(* the fields of a row from column k on, into the memory m of the row, if   *)
(* there is one.  White space is skipped before a field that is stored      *)
Fields(t, type, cols, k, p, m, room) ==
  LET row == type.subtype
      q == nk_fscan_ws(t, p)
      r == nk_fscan_keyval(t, TypeOf(row, cols[k]), q, m[cols[k]])
      with == [m EXCEPT ![cols[k]] = r.m]
      over == skip_value(t, p)
  IN  IF k > Len(cols) THEN Result(TRUE, p, m)
      ELSE IF room /\ cols[k] \in Names(row)
      THEN IF r.ok THEN Fields(t, type, cols, k + 1, r.pos, with, room)
           ELSE Result(FALSE, r.pos, with)
      ELSE IF over.ok THEN Fields(t, type, cols, k + 1, over.pos, m, room)
           ELSE Result(FALSE, p, m)

Rows(t, type, cols, p, m, row, rtn) ==
  LET colon == Scan(t, p, ":")
      room == row < type.size
      at == IF room THEN m.items[row + 1] ELSE m.items[1]
      r == Fields(t, type, cols, 1, nk_fscan_ws(t, colon.pos), at, room)
      close == Scan(t, p, ")")
  IN  IF colon.ok
      THEN Rows(t, type, cols, r.pos,
                IF room THEN [m EXCEPT !.items[row + 1] = r.m] ELSE m,
                IF room THEN row + 1 ELSE row, r.ok)
      ELSE Result(close.ok /\ rtn, close.pos, [m EXCEPT !.len = row])

nk_fscan_keyval(t, type, p, m) ==
  LET c == At(t, p)
      number == IF type.what = "tFLOAT" THEN ScanFloat(t, p)
                ELSE ScanNumber(t, p)
      chs == Characters(t, p + 1, << >>, type.size - 1)
      cols == Columns(t, p + 1, << >>)
  IN  OrBack(
        CASE type.what \in Numeric /\ number.ok ->
               Result(TRUE, number.pos, Converted(type.what, number.tenths))
          [] type.what = "tBOOL" /\ c = Name("true") ->
               Result(TRUE, nk_fscan_ws(t, p + 1), TRUE)
          [] type.what = "tBOOL" /\ c = Name("false") ->
               Result(TRUE, nk_fscan_ws(t, p + 1), FALSE)
          [] type.what = "tSTRING" /\ c = Quote ->
               Result(At(t, chs.pos) = Quote, chs.pos + 1, chs.chs)
          [] type.what = "tSTRUCT" /\ c = <<"{">> ->
               Members(t, type, Key(t, nk_fscan_ws(t, p + 1)), m, TRUE)
          [] type.what \in {"tARRAY", "tVARRAY"} /\ c = <<"[">> ->
               Items(t, type, p + 1, m, 0, TRUE)
          [] type.what = "tTABLE" /\ c = <<"(">> ->
               Rows(t, type, cols.names, cols.pos, m, 0, TRUE)
          [] OTHER -> Result(FALSE, p, m),
        p)

-----------------------------------------------------------------------------
(* The program *)

NothingSaved ==
  [schema |-> Struct(<< >>), ram |-> << >>, form |-> "none", padding |-> 0]

SerializeInit ==
  /\ schema \in Schemas
  /\ ram \in Values(schema)
  /\ text = << >>
  /\ saved = NothingSaved
  /\ status = "none"

(* nk_dbase_save writes the compact form, a user is shown the pretty one *)
Printed(form) ==
  IF form = "compact" THEN nk_dbase_serialize(schema, ram)
  ELSE nk_dbase_fprint(schema, ram, << Ws >>)

(* What nk_fflush adds to the text in flash: what the buffer held before.    *)
(* Tokens have different lengths, so that any number may be missing          *)
Stale == <<"stale">>
Paddings(form) == IF form = "compact" THEN 0 .. FlashGranularity - 1 ELSE {0}

(* bound: a behaviour saves once *)
Save(form) ==
  /\ status = "none"
  /\ \E n \in Paddings(form) :
       /\ text' = Printed(form) \o [i \in 1 .. n |-> Stale]
       /\ saved' = [schema |-> schema, ram |-> ram, form |-> form,
                    padding |-> n]
  /\ status' = "saved"
  /\ UNCHANGED << schema, ram >>

(* the program starts again, in this version or another, with whatever      *)
(* defaults.  A load stores nothing, so that one restart shows all          *)
Restart ==
  /\ status = "saved"
  /\ schema' \in Schemas
  /\ ram' \in Values(schema')
  /\ status' = "started"
  /\ UNCHANGED << text, saved >>

(* nk_dbase_load scans " %v", a user's text is scanned with " %v "; neither *)
(* succeeds before the end of the text                                      *)
ToTheEnd(r) ==
  LET rest == IF saved.form = "compact" THEN r.pos
              ELSE nk_fscan_ws(text, r.pos)
  IN  [ok |-> r.ok /\ At(text, rest) = EndOfText, m |-> r.m]

Loaded ==
  ToTheEnd(nk_fscan_keyval(text, schema, nk_fscan_ws(text, 1), ram))

LoadSaved ==
  /\ saved # NothingSaved
  /\ \E r \in {Loaded} :
       /\ ram' = r.m
       /\ status' = IF r.ok THEN "loaded" ELSE "failed"
  /\ UNCHANGED << schema, text, saved >>

SerializeNext == \/ \E form \in {"compact", "pretty"} : Save(form)
                 \/ Restart
                 \/ LoadSaved

SerializeSpec == SerializeInit /\ [][SerializeNext]_svars

-----------------------------------------------------------------------------
(* Properties *)

SerializeTypeOK ==
  /\ schema \in Schemas
  /\ DOMAIN ram = Names(schema)
  /\ saved.form \in {"none", "compact", "pretty"}
  /\ status \in {"none", "saved", "started", "loaded", "failed"}

(* What is in use of a memory *)
RECURSIVE Live(_, _)
Live(type, m) ==
  CASE type.what = "tSTRUCT" ->
         [name \in Names(type) |-> Live(TypeOf(type, name), m[name])]
    [] type.what \in {"tARRAY", "tVARRAY", "tTABLE"} ->
         LET e == Elements(type, m)
         IN  [i \in DOMAIN e |-> Live(type.subtype, e[i])]
    [] OTHER -> m

Kind(type) ==
  CASE type.what \in Numeric -> "number"
    [] type.what \in {"tARRAY", "tVARRAY"} -> "list"
    [] OTHER -> type.what

InTenths(type, v) == IF type.what \in Integral THEN 10 * v ELSE v
Smaller(a, b) == IF a < b THEN a ELSE b

(* What the memory m of the type new should hold when the value v of the    *)
(* type old has been loaded: the members that both have                     *)
RECURSIVE Migrated(_, _, _, _)
Migrated(new, old, v, m) ==
  CASE new.what \in Integral -> Truncated(InTenths(old, v))
    [] new.what \in Floating -> InTenths(old, v)
    [] new.what = "tBOOL" -> v
    [] new.what = "tSTRING" -> SubSeq(v, 1, Smaller(Len(v), new.size - 1))
    [] new.what = "tSTRUCT" ->
         [name \in Names(new) |->
           IF name \in Names(old)
              /\ Kind(TypeOf(new, name)) = Kind(TypeOf(old, name))
           THEN Migrated(TypeOf(new, name), TypeOf(old, name),
                         v[name], m[name])
           ELSE m[name]]
    [] OTHER ->
         LET e == Elements(old, v)
             n == Smaller(Len(e), new.size)
         IN  [len |-> IF new.what = "tARRAY" THEN m.len ELSE n,
              items |-> [i \in 1 .. new.size |->
                IF i <= n
                THEN Migrated(new.subtype, old.subtype, e[i], m.items[i])
                ELSE m.items[i]]]

(* A printed value that skip_value gets over: no strings, and structures in *)
(* the compact form only                                                    *)
RECURSIVE Skippable(_, _, _)
Skippable(type, v, form) ==
  CASE type.what = "tSTRING" -> FALSE
    [] type.what = "tSTRUCT" ->
         /\ form = "compact"
         /\ \A name \in Names(type) :
              Skippable(TypeOf(type, name), v[name], form)
    [] type.what \in {"tARRAY", "tVARRAY"} ->
         \A i \in DOMAIN Elements(type, v) :
           Skippable(type.subtype, v.items[i], form)
    [] type.what = "tTABLE" ->
         \A i \in DOMAIN Elements(type, v) :
           \A name \in Names(type.subtype) :
             Skippable(TypeOf(type.subtype, name), v.items[i][name], form)
    [] OTHER -> TRUE

(* The values that another version can be expected to load: numbers that    *)
(* fit, members of the same kind or ones that can be skipped.  Of a table   *)
(* only the first column can be dropped, and rows of one column only        *)
RECURSIVE Loadable(_, _, _, _, _)
Loadable(new, old, v, form, skips) ==
  LET Skipped(type, w) == skips \/ Skippable(type, w, form)
  IN CASE Kind(new) # Kind(old) -> FALSE
       [] new.what \in Integral ->
            LET n == Truncated(InTenths(old, v)) IN Cast(new.what, n) = n
       [] new.what = "tFLOAT" -> InTenths(old, v) > -10
       [] new.what = "tSTRUCT" ->
            \A name \in Names(old) :
              \/ /\ name \in Names(new)
                 /\ Loadable(TypeOf(new, name), TypeOf(old, name), v[name],
                             form, skips)
              \/ /\ \/ name \notin Names(new)
                    \/ Kind(TypeOf(new, name)) # Kind(TypeOf(old, name))
                 /\ Skipped(TypeOf(old, name), v[name])
       [] Kind(new) = "list" ->
            \A i \in DOMAIN Elements(old, v) :
              IF i <= new.size
              THEN Loadable(new.subtype, old.subtype, v.items[i], form, skips)
              ELSE Skipped(old.subtype, v.items[i])
       [] new.what = "tTABLE" ->
            LET was == old.subtype
                row == new.subtype
            IN  \A i \in DOMAIN Elements(old, v) :
                  \A j \in DOMAIN was.members :
                    LET name == was.members[j].name
                        w == v.items[i][name]
                    IN  IF i <= new.size /\ name \in Names(row)
                        THEN Loadable(TypeOf(row, name), TypeOf(was, name), w,
                                      form, skips)
                        ELSE /\ skips \/ j = 1
                             /\ Skipped(TypeOf(was, name), w)
       [] OTHER -> TRUE

LoadsWhatWasSaved(skips, padded) ==
  LoadSaved =>
    (Loadable(schema, saved.schema, saved.ram, saved.form, skips) =>
       /\ saved.padding = 0 \/ padded => status' = "loaded"
       /\ Live(schema, ram')
            = Live(schema, Migrated(schema, saved.schema, saved.ram, ram)))

(***************************************************************************)
(* What was saved is loaded, by the same version of the program or by      *)
(* another: each member that both have gets the value saved for it, and    *)
(* the others keep their defaults, wherever they stand, whichever of the   *)
(* two printers wrote the text, and whatever characters the strings have.  *)
(* A text that was padded is loaded as well; the result of the call speaks *)
(* of a failure then.                                                      *)
(***************************************************************************)
Migrates == [][LoadsWhatWasSaved(FALSE, FALSE)]_svars

(***************************************************************************)
(* "Extra object members are ignored and missing ones are left with        *)
(* default values" (doc/nkserialize.md), whatever the extra ones are.      *)
(***************************************************************************)
ExtraMembersIgnored == [][LoadsWhatWasSaved(TRUE, FALSE)]_svars

(***************************************************************************)
(* nk_dbase_load "returns zero for success", also where "writes are padded *)
(* so that they always a multiple of this size" (doc/nkdbase.md).          *)
(***************************************************************************)
PaddedIsLoaded == [][LoadsWhatWasSaved(FALSE, TRUE)]_svars
=============================================================================
