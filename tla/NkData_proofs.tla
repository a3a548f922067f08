--------------------------- MODULE NkData_proofs ----------------------------
(***************************************************************************)
(* Proofs about what carries the data of a program.                        *)
(*                                                                         *)
(* The JSON printer (NkJson), for every size of the stack of a formatter   *)
(* and every order of calls: each file is JSON so far.                     *)
(*                                                                         *)
(* The buffered files (NkFile), for every size of the buffer, of the       *)
(* blocks of the device and of the file, and every number of accesses that *)
(* fail: they implement a tape (NkTape).                                   *)
(***************************************************************************)
EXTENDS NkJson, NkFile, NkLemmas

-----------------------------------------------------------------------------
(* The JSON printer *)

(* a formatter, and what a reader has made of its file *)
FormatterState ==
  [level : 0 .. NK_JSON_STACK_SIZE, type : LevelType, first : BOOLEAN,
   stack : [0 .. NK_JSON_STACK_SIZE - 1 -> LevelType]]

(* what a reader has made of a file: the open levels, what came last *)
FileState ==
  [open : Seq(LevelType), last : {"start", "open", "comma", "name", "item"}]

(* both *)
Printer == [json : FormatterState, file : FileState]

(* the printer and the reader have the same levels open *)
SameLevels(j) ==
  /\ Len(j.file.open) = j.json.level
  /\ j.json.level > 0 =>
       /\ Last(j.file.open) = j.json.type
       /\ \A i \in 1 .. j.json.level - 1 : j.file.open[i] = j.json.stack[i]

(* first is set exactly if an item came last *)
FirstIsItem(j) ==
  j.file.last = IF j.json.level = 0 THEN "start"
                ELSE IF j.json.first THEN "item" ELSE "open"

(* between calls *)
Sound(j) == j \in Printer /\ SameLevels(j) /\ FirstIsItem(j)

(* before an item *)
Ready(j) ==
  /\ j \in Printer /\ SameLevels(j)
  /\ j.json.level # 0 /\ j.json.first /\ j.file.last \in {"open", "comma"}

(* The inductive invariant. *)
JsonInv ==
  /\ json \in [Formatter -> FormatterState]
  /\ file \in [Formatter -> FileState]
  /\ \A x \in Formatter : Sound(Of(x))

-----------------------------------------------------------------------------
(* Printing tokens *)

(* Up to two tokens are read one after the other. *)
LEMMA EmitIs ==
  ASSUME NEW a, NEW b, NEW tokens, Len(tokens) \in 0 .. 2
  PROVE  Emit([json |-> a, file |-> b], tokens) =
           [json |-> a,
            file |-> IF Len(tokens) = 0 THEN b
                     ELSE IF Len(tokens) = 1 THEN Read(b, tokens[1])
                     ELSE Read(Read(b, tokens[1]), tokens[2])]
<1> DEFINE n == Len(tokens)
           s == tokens[1]
           t == tokens[2]
           e(h) == [k \in 0 .. n |->
                      IF k = 0 THEN b ELSE Read(h[k - 1], tokens[k])]
           fm == CHOOSE h : h = e(h)
           r(k) == IF k = 0 THEN b ELSE IF k = 1 THEN Read(b, s)
                   ELSE Read(Read(b, s), t)
           m == [k \in 0 .. n |-> r(k)]
<1>1. m = e(m)
  <2>1. ASSUME NEW k \in 0 .. n
        PROVE  m[k] = IF k = 0 THEN b ELSE Read(m[k - 1], tokens[k])
    <3>1. CASE k = 0
      BY <3>1
    <3>2. CASE k = 1
      <4>1. 0 \in 0 .. n /\ m[0] = b
        BY <2>1
      <4>2. QED
        BY <3>2, <4>1
    <3>3. CASE k = 2
      <4>1. 1 \in 0 .. n /\ m[1] = Read(b, s)
        BY <2>1, <3>3
      <4>2. QED
        BY <3>3, <4>1
    <3>4. QED
      <4>0. n \in 0 .. 2
        OBVIOUS
      <4> HIDE DEF n
      <4>1. k = 0 \/ k = 1 \/ k = 2
        BY <2>1, <4>0
      <4>2. QED
        BY <3>1, <3>2, <3>3, <4>1
  <2> HIDE DEF r
  <2>2. QED
    BY <2>1
<1>2. fm = e(fm)
  BY <1>1
<1>3. Emit([json |-> a, file |-> b], tokens) = [json |-> a, file |-> fm[n]]
  BY DEF Emit
<1> HIDE DEF fm, r, m
<1>4. fm[n] = r(n)
  <2>1. fm[0] = b
    BY <1>2
  <2>2. n > 0 => fm[1] = Read(fm[0], tokens[1])
    BY <1>2
  <2>3. n > 1 => fm[2] = Read(fm[1], tokens[2])
    BY <1>2
  <2>4. CASE n = 0
    BY <2>1, <2>4 DEF r
  <2>5. CASE n = 1
    BY <2>1, <2>2, <2>5 DEF r
  <2>6. CASE n = 2
    BY <2>1, <2>2, <2>3, <2>6 DEF r
  <2>7. QED
    BY <2>4, <2>5, <2>6
<1>5. QED
  BY <1>3, <1>4 DEF r

-----------------------------------------------------------------------------
(* What the reader makes of a token *)

(* A comma is read after an item. *)
LEMMA ReadComma ==
  ASSUME NEW b, b.last = "item"
  PROVE  Read(b, "comma") = [b EXCEPT !.last = "comma"]
  BY DEF Read

(* A name is read in an object, where an item may begin. *)
LEMMA ReadName ==
  ASSUME NEW b, In(b) = "OBJ", b.last \in {"open", "comma"}
  PROVE  Read(b, "name") = [b EXCEPT !.last = "name"]
  BY DEF Read

(* A value is read where one fits. *)
LEMMA ReadValue ==
  ASSUME NEW b, ValueFits(b), b.last # "bad"
  PROVE  Read(b, "value") = [b EXCEPT !.last = "item"]
  BY DEF Read

(* A bracket opens a level where a value fits, or an object in a new file. *)
LEMMA ReadBegin ==
  ASSUME NEW b, ValueFits(b) \/ b = EmptyFile, b.last # "bad",
         NEW type \in LevelType, type = "OBJ" \/ ValueFits(b)
  PROVE  Read(b, Token(type)) =
           [open |-> Append(b.open, type), last |-> "open"]
  BY DEF Read, Token, LevelType

(* an end of the innermost level *)
Close(type) == IF type = "OBJ" THEN "}" ELSE "]"

(* The bracket of the innermost level closes it. *)
LEMMA ReadEnd ==
  ASSUME NEW b, NEW type \in LevelType, In(b) = type,
         b.last \in {"open", "item"}
  PROVE  Read(b, Close(type)) =
           IF Len(b.open) = 1 THEN EmptyFile
           ELSE [open |-> Front(b.open), last |-> "item"]
  BY DEF Read, Close, LevelType

-----------------------------------------------------------------------------
(* Fields *)

(* What an assignment to level leaves of a formatter. *)
LEMMA SetLevel ==
  ASSUME NEW a \in FormatterState, NEW v \in 0 .. NK_JSON_STACK_SIZE, NEW x,
         x = [a EXCEPT !.level = v]
  PROVE  /\ x \in FormatterState /\ x.level = v
         /\ x.type = a.type /\ x.first = a.first /\ x.stack = a.stack
  BY DEF FormatterState

(* The same of type. *)
LEMMA SetType ==
  ASSUME NEW a \in FormatterState, NEW v \in LevelType, NEW x,
         x = [a EXCEPT !.type = v]
  PROVE  /\ x \in FormatterState /\ x.type = v
         /\ x.level = a.level /\ x.first = a.first /\ x.stack = a.stack
  BY DEF FormatterState

(* The same of first. *)
LEMMA SetFirst ==
  ASSUME NEW a \in FormatterState, NEW v \in BOOLEAN, NEW x,
         x = [a EXCEPT !.first = v]
  PROVE  /\ x \in FormatterState /\ x.first = v
         /\ x.level = a.level /\ x.type = a.type /\ x.stack = a.stack
  BY DEF FormatterState

(* The same of an entry of the stack. *)
LEMMA SetStack ==
  ASSUME NEW a \in FormatterState, NEW i \in 0 .. NK_JSON_STACK_SIZE - 1,
         NEW v \in LevelType, NEW x, x = [a EXCEPT !.stack[i] = v]
  PROVE  /\ x \in FormatterState /\ x.stack = [a.stack EXCEPT ![i] = v]
         /\ x.level = a.level /\ x.type = a.type /\ x.first = a.first
  BY DEF FormatterState

(* The same of a formatter with its file. *)
LEMMA SetIn ==
  ASSUME NEW j, NEW a, NEW b, j = [json |-> a, file |-> b], NEW v
  PROVE  /\ [j EXCEPT !.json.level = v] =
              [json |-> [a EXCEPT !.level = v], file |-> b]
         /\ [j EXCEPT !.json.type = v] =
              [json |-> [a EXCEPT !.type = v], file |-> b]
         /\ [j EXCEPT !.json.first = v] =
              [json |-> [a EXCEPT !.first = v], file |-> b]
         /\ \A i : [j EXCEPT !.json.stack[i] = v] =
              [json |-> [a EXCEPT !.stack[i] = v], file |-> b]
<1>1. [j EXCEPT !.json.level = v] =
        [json |-> [a EXCEPT !.level = v], file |-> b]
  OBVIOUS
<1>2. [j EXCEPT !.json.type = v] =
        [json |-> [a EXCEPT !.type = v], file |-> b]
  OBVIOUS
<1>3. [j EXCEPT !.json.first = v] =
        [json |-> [a EXCEPT !.first = v], file |-> b]
  OBVIOUS
<1>4. \A i : [j EXCEPT !.json.stack[i] = v] =
               [json |-> [a EXCEPT !.stack[i] = v], file |-> b]
  OBVIOUS
<1>5. QED
  BY <1>1, <1>2, <1>3, <1>4

(* The same of a formatter's Boolean. *)
LEMMA SetFirstIn ==
  ASSUME NEW j, NEW a, NEW b, j = [json |-> a, file |-> b]
  PROVE  /\ [j EXCEPT !.json.first = TRUE] =
              [json |-> [a EXCEPT !.first = TRUE], file |-> b]
         /\ [j EXCEPT !.json.first = FALSE] =
              [json |-> [a EXCEPT !.first = FALSE], file |-> b]
<1>1. \A v : [j EXCEPT !.json.first = v] =
              [json |-> [a EXCEPT !.first = v], file |-> b]
  BY SetIn
<1>2. QED
  BY <1>1, Zenon

(* A token that is read. *)
LEMMA EmitOne ==
  ASSUME NEW a, NEW b, NEW t
  PROVE  Emit([json |-> a, file |-> b], << t >>) =
           [json |-> a, file |-> Read(b, t)]
<1> DEFINE tokens == << t >>
<1>1. Len(tokens) = 1 /\ tokens[1] = t
  OBVIOUS
<1> HIDE DEF tokens
<1>2. Emit([json |-> a, file |-> b], tokens) =
        [json |-> a, file |-> Read(b, t)]
  BY <1>1, EmitIs
<1>3. QED
  BY <1>2 DEF tokens

(* Two tokens. *)
LEMMA EmitTwo ==
  ASSUME NEW a, NEW b, NEW s, NEW t
  PROVE  Emit([json |-> a, file |-> b], << s, t >>) =
           [json |-> a, file |-> Read(Read(b, s), t)]
<1> DEFINE tokens == << s, t >>
<1>1. Len(tokens) = 2 /\ tokens[1] = s /\ tokens[2] = t
  OBVIOUS
<1> HIDE DEF tokens
<1>2. Emit([json |-> a, file |-> b], tokens) =
        [json |-> a, file |-> Read(Read(b, s), t)]
  BY <1>1, EmitIs
<1>3. QED
  BY <1>2 DEF tokens

(* No token. *)
LEMMA EmitNone ==
  ASSUME NEW a, NEW b
  PROVE  Emit([json |-> a, file |-> b], << >>) = [json |-> a, file |-> b]
<1> DEFINE tokens == << >>
<1>1. Len(tokens) = 0
  OBVIOUS
<1> HIDE DEF tokens
<1>2. Emit([json |-> a, file |-> b], tokens) = [json |-> a, file |-> b]
  BY <1>1, EmitIs
<1>3. QED
  BY <1>2 DEF tokens

-----------------------------------------------------------------------------
(* The printer's steps *)

(* a file that has a level open: the innermost is that of the printer *)
LEMMA InIs ==
  ASSUME NEW j, j \in Printer, SameLevels(j)
  PROVE  /\ j = [json |-> j.json, file |-> j.file]
         /\ j.json \in FormatterState /\ j.file \in FileState
         /\ j.file.open \in Seq(LevelType)
         /\ j.json.level \in Nat /\ j.json.level = Len(j.file.open)
         /\ j.json.level # 0 => In(j.file) = j.json.type
         /\ j.json.level = 0 => j.file.open = << >>
<1>1. /\ j = [json |-> j.json, file |-> j.file]
      /\ j.json \in FormatterState /\ j.file \in FileState
  BY DEF Printer
<1>2. j.file.open \in Seq(LevelType)
  BY <1>1 DEF FileState
<1>3. j.json.level \in Nat /\ j.json.level = Len(j.file.open)
  BY <1>1, JsonConstantsOK DEF FormatterState, SameLevels
<1>4. j.json.level = 0 => j.file.open = << >>
  BY <1>2, <1>3, EmptySeq
<1>5. j.json.level # 0 => In(j.file) = j.json.type
  <2>1. SUFFICES ASSUME j.json.level # 0 PROVE In(j.file) = j.json.type
    OBVIOUS
  <2>2. j.file.open # << >>
    <3> DEFINE e == << >>
    <3>1. Len(e) = 0
      OBVIOUS
    <3> HIDE DEF e
    <3>2. j.file.open # e
      BY <1>3, <2>1, <3>1
    <3>3. QED
      BY <3>2 DEF e
  <2>3. Last(j.file.open) = j.json.type
    BY <1>3, <2>1 DEF SameLevels
  <2>4. QED
    BY <2>2, <2>3 DEF In
<1>6. QED
  BY <1>1, <1>2, <1>3, <1>4, <1>5

(* A level more is open: the printer's are those of the reader again. *)
LEMMA LevelOpened ==
  ASSUME NEW j, j \in Printer, SameLevels(j),
         NEW type \in LevelType, NEW a \in FormatterState,
         a.level = j.json.level + 1, a.type = type,
         j.json.level > 0 => a.stack[j.json.level] = j.json.type,
         \A i \in 1 .. j.json.level - 1 : a.stack[i] = j.json.stack[i],
         ~ a.first, NEW k,
         k = [json |-> a, file |-> [open |-> Append(j.file.open, type),
                                    last |-> "open"]]
  PROVE  Sound(k)
<1> DEFINE o == j.file.open
           l == j.json.level
           p == Append(o, type)
<1>1. o \in Seq(LevelType) /\ l \in Nat /\ l = Len(o)
  BY InIs
<1>2. /\ p \in Seq(LevelType) /\ Len(p) = l + 1 /\ p[l + 1] = type
      /\ \A i \in 1 .. l : p[i] = o[i]
  BY <1>1, AppendProperties
<1>3. Last(p) = type
  BY <1>2 DEF Last
<1>4. \A i \in 1 .. l : p[i] = a.stack[i]
  <2>1. SUFFICES ASSUME NEW i \in 1 .. l PROVE o[i] = a.stack[i]
    BY <1>2
  <2>2. CASE i = l
    <3>1. o[l] = j.json.type
      BY <1>1, <2>1 DEF SameLevels, Last
    <3>2. a.stack[l] = j.json.type
      BY <1>1, <2>1
    <3>3. QED
      BY <2>2, <3>1, <3>2
  <2>3. CASE i # l
    <3>1. i \in 1 .. l - 1
      BY <1>1, <2>1, <2>3
    <3>2. o[i] = j.json.stack[i]
      BY <1>1, <3>1 DEF SameLevels
    <3>3. QED
      BY <3>1, <3>2
  <2>4. QED
    BY <2>2, <2>3
<1> HIDE DEF o, l, p
<1>5. k = [json |-> a, file |-> [open |-> p, last |-> "open"]]
  BY DEF p, o
<1>6. k \in Printer
  BY <1>2, <1>5 DEF Printer, FileState
<1>7. SameLevels(k)
  <2>1. a.level = l + 1
    BY DEF l
  <2>2. k.json = a /\ k.file.open = p
    BY <1>5
  <2>3. \A i \in 1 .. a.level - 1 : p[i] = a.stack[i]
    BY <1>1, <1>4, <2>1
  <2>4. QED
    BY <1>2, <1>3, <2>1, <2>2, <2>3 DEF SameLevels
<1>8. FirstIsItem(k)
  <2>1. a.level # 0
    BY <1>1 DEF l
  <2>2. QED
    BY <1>5, <2>1 DEF FirstIsItem
<1>9. QED
  BY <1>6, <1>7, <1>8 DEF Sound

(* Starting opens the outermost object, if nothing is open. *)
LEMMA StartSound ==
  ASSUME NEW j, Sound(j)
  PROVE  /\ Sound(_nk_fpjson_start(j))
         /\ _nk_fpjson_start(j).json.level # 0
         /\ j.json.level = 0 => _nk_fpjson_start(j).json.level = 1
<1>0. j \in Printer /\ SameLevels(j)
  BY DEF Sound
<1>1. CASE j.json.level # 0
  BY <1>1 DEF _nk_fpjson_start
<1>2. CASE j.json.level = 0
  <2> DEFINE a1 == [j.json EXCEPT !.level = 1]
             a2 == [a1 EXCEPT !.first = FALSE]
             a == [a2 EXCEPT !.type = "OBJ"]
             b == j.file
             k == [json |-> a, file |-> b]
  <2>1. /\ j = [json |-> j.json, file |-> b] /\ j.json \in FormatterState
        /\ b.open = << >> /\ b \in FileState
    BY <1>0, <1>2, InIs
  <2>2. 1 \in 0 .. NK_JSON_STACK_SIZE /\ "OBJ" \in LevelType
    BY JsonConstantsOK DEF LevelType
  <2>3. /\ a1 \in FormatterState /\ a1.level = 1 /\ a1.stack = j.json.stack
    BY <2>1, <2>2, SetLevel
  <2>4. /\ a2 \in FormatterState /\ a2.level = 1 /\ a2.stack = j.json.stack
        /\ a2.first = FALSE
    <3> HIDE DEF a1
    <3>1. FALSE \in BOOLEAN
      OBVIOUS
    <3>2. a2 = [a1 EXCEPT !.first = FALSE]
      OBVIOUS
    <3> HIDE DEF a2
    <3>3. /\ a2 \in FormatterState /\ a2.first = FALSE
          /\ a2.level = a1.level /\ a2.type = a1.type /\ a2.stack = a1.stack
      BY <2>3, <3>1, <3>2, SetFirst, Zenon
    <3>4. QED
      BY <2>3, <3>3
  <2>5. /\ a \in FormatterState /\ a.level = 1 /\ a.stack = j.json.stack
        /\ a.first = FALSE /\ a.type = "OBJ"
    <3> HIDE DEF a2
    <3>1. QED
      BY <2>2, <2>4, SetType
  <2>6. [j EXCEPT !.json.level = 1, !.json.first = FALSE,
                  !.json.type = "OBJ"] = k
    <3>1. [j EXCEPT !.json.level = 1] = [json |-> a1, file |-> b]
      BY <2>1, SetIn
    <3>2. [[json |-> a1, file |-> b] EXCEPT !.json.first = FALSE] =
            [json |-> a2, file |-> b]
      BY SetIn
    <3>3. [[json |-> a2, file |-> b] EXCEPT !.json.type = "OBJ"] = k
      BY SetIn
    <3>4. [j EXCEPT !.json.level = 1, !.json.first = FALSE,
                    !.json.type = "OBJ"] =
            [[[j EXCEPT !.json.level = 1] EXCEPT !.json.first = FALSE]
               EXCEPT !.json.type = "OBJ"]
      BY <2>1
    <3> HIDE DEF a1, a2, a, b, k
    <3>5. QED
      BY <3>1, <3>2, <3>3, <3>4
  <2> HIDE DEF a
  <2>7. b = EmptyFile /\ b.last # "bad"
    <3>1. b.last = "start"
      BY <1>2 DEF Sound, FirstIsItem
    <3>2. QED
      BY <2>1, <3>1 DEF FileState, EmptyFile
  <2>8. Read(b, "{") = [open |-> Append(b.open, "OBJ"), last |-> "open"]
    BY <2>2, <2>7, ReadBegin DEF Token
  <2>9. _nk_fpjson_start(j) = [json |-> a, file |-> Read(b, "{")]
    <3>1. _nk_fpjson_start(j) = Emit(k, << "{" >>)
      BY <1>2, <2>6 DEF _nk_fpjson_start
    <3>2. QED
      BY <3>1, EmitOne
  <2>10. Sound(_nk_fpjson_start(j))
    <3>1. a.level = j.json.level + 1
      BY <1>2, <2>5
    <3>2. \A i \in 1 .. j.json.level - 1 : a.stack[i] = j.json.stack[i]
      BY <2>5
    <3>3. _nk_fpjson_start(j) =
            [json |-> a, file |-> [open |-> Append(j.file.open, "OBJ"),
                                   last |-> "open"]]
      BY <2>8, <2>9
    <3>4. ~ (j.json.level > 0)
      BY <1>2
    <3>5. QED
      BY <1>0, <2>2, <2>5, <3>1, <3>2, <3>3, <3>4, LevelOpened
  <2>11. _nk_fpjson_start(j).json.level = 1
    <3> DEFINE k1 == _nk_fpjson_start(j)
               r == Read(b, "{")
    <3>1. k1 = [json |-> a, file |-> r]
      BY <2>9
    <3> HIDE DEF k1, r
    <3>2. k1.json = a
      BY <3>1
    <3>3. QED
      BY <2>5, <3>2 DEF k1
  <2>12. QED
    BY <2>10, <2>11
<1>3. QED
  BY <1>1, <1>2

(* A separator stands before the next item exactly if one is due. *)
LEMMA PrefixReady ==
  ASSUME NEW j, Sound(j)
  PROVE  /\ Ready(_nk_fpjson_prefix(j, FALSE))
         /\ _nk_fpjson_prefix(j, FALSE).json.level =
              _nk_fpjson_start(j).json.level
<1> DEFINE k == _nk_fpjson_start(j)
           p == _nk_fpjson_prefix(j, FALSE)
           a == [k.json EXCEPT !.first = TRUE]
           b == k.file
           r == IF k.json.first THEN Read(b, "comma") ELSE b
<1>1. Sound(k) /\ k.json.level # 0
  BY StartSound
<1>2. p = Emit([k EXCEPT !.json.first = TRUE],
               IF k.json.first THEN << "comma" >> ELSE << >>)
  BY DEF _nk_fpjson_prefix
<1> HIDE DEF k, p
<1>3. /\ k = [json |-> k.json, file |-> b] /\ k.json \in FormatterState
      /\ b \in FileState /\ b.open \in Seq(LevelType)
      /\ k \in Printer /\ SameLevels(k)
  BY <1>1, InIs DEF Sound
<1>4. /\ a \in FormatterState /\ a.first = TRUE
      /\ a.level = k.json.level /\ a.type = k.json.type
      /\ a.stack = k.json.stack
  <2> DEFINE x == k.json
  <2>1. TRUE \in BOOLEAN
    OBVIOUS
  <2>2. a = [x EXCEPT !.first = TRUE] /\ x \in FormatterState
    BY <1>3
  <2> HIDE DEF a, x
  <2>3. /\ a \in FormatterState /\ a.first = TRUE
        /\ a.level = x.level /\ a.type = x.type /\ a.stack = x.stack
    BY <2>1, <2>2, SetFirst, Zenon
  <2>4. QED
    BY <2>3 DEF x
<1>5. [k EXCEPT !.json.first = TRUE] = [json |-> a, file |-> b]
  BY <1>3, SetFirstIn
<1> HIDE DEF a, b
<1>6. p = [json |-> a, file |-> r]
  <2>1. CASE k.json.first
    BY <1>2, <1>5, <2>1, EmitOne
  <2>2. CASE ~ k.json.first
    BY <1>2, <1>5, <2>2, EmitNone
  <2>3. QED
    BY <2>1, <2>2
<1>7. /\ r \in FileState /\ r.open = b.open
      /\ r.last \in {"open", "comma"}
  <2>1. b.last = IF k.json.first THEN "item" ELSE "open"
    BY <1>1 DEF Sound, FirstIsItem, b
  <2>2. CASE k.json.first
    <3>1. r = [b EXCEPT !.last = "comma"]
      BY <2>1, <2>2, ReadComma
    <3>2. QED
      BY <1>3, <3>1 DEF FileState
  <2>3. CASE ~ k.json.first
    BY <1>3, <2>1, <2>3
  <2>4. QED
    BY <2>2, <2>3
<1> HIDE DEF r
<1>8. p \in Printer /\ p.json = a /\ p.file = r
  BY <1>4, <1>6, <1>7 DEF Printer
<1>9. SameLevels(p)
  BY <1>3, <1>4, <1>7, <1>8 DEF SameLevels, b
<1>10. p.json.level # 0 /\ p.json.level = k.json.level /\ p.json.first
  BY <1>1, <1>4, <1>8
<1>11. QED
  BY <1>7, <1>8, <1>9, <1>10 DEF Ready, k, p

(* The reader expects an item of the printer's kind. *)
LEMMA ReadyFits ==
  ASSUME NEW j, Ready(j), NEW b, 
         b = IF j.json.type = "OBJ" THEN Read(j.file, "name") ELSE j.file
  PROVE  ValueFits(b) /\ b.open = j.file.open /\ b \in FileState
<1>1. /\ j.file \in FileState /\ In(j.file) = j.json.type
      /\ j.json.type \in LevelType
      /\ j.file.last \in {"open", "comma"}
  <2>1. j.json \in FormatterState
    BY InIs DEF Ready
  <2>2. QED
    BY <2>1, InIs DEF Ready, FormatterState
<1>2. CASE j.json.type = "OBJ"
  <2>1. b = [j.file EXCEPT !.last = "name"]
    BY <1>1, <1>2, ReadName
  <2>2. b \in FileState /\ b.open = j.file.open /\ b.last = "name"
    BY <1>1, <2>1 DEF FileState
  <2>3. In(b) = "OBJ"
    BY <1>1, <1>2, <2>2 DEF In
  <2>4. QED
    BY <2>2, <2>3 DEF ValueFits
<1>3. CASE j.json.type = "ARRAY"
  <2>1. b = j.file
    BY <1>3
  <2>2. QED
    BY <1>1, <1>3, <2>1 DEF ValueFits
<1>4. QED
  BY <1>1, <1>2, <1>3 DEF LevelType

(* An item is its name, in an object, and a token. *)
LEMMA ItemIs ==
  ASSUME NEW j, Ready(j), NEW t
  PROVE  \E b \in FileState :
           /\ ValueFits(b) /\ b.open = j.file.open
           /\ Item(j, t) = [json |-> j.json, file |-> Read(b, t)]
<1> DEFINE b == IF j.json.type = "OBJ" THEN Read(j.file, "name") ELSE j.file
<1>1. ValueFits(b) /\ b.open = j.file.open /\ b \in FileState
  BY ReadyFits
<1>2. j = [json |-> j.json, file |-> j.file]
  BY InIs DEF Ready
<1>3. Item(j, t) = [json |-> j.json, file |-> Read(b, t)]
  <2>1. CASE j.json.type = "OBJ"
    <3>1. Item(j, t) = Emit(j, << "name", t >>)
      BY <2>1 DEF Item
    <3>2. Emit(j, << "name", t >>) =
            [json |-> j.json, file |-> Read(Read(j.file, "name"), t)]
      BY <1>2, EmitTwo
    <3>3. QED
      BY <2>1, <3>1, <3>2
  <2>2. CASE j.json.type # "OBJ"
    <3>1. Item(j, t) = Emit(j, << t >>)
      BY <2>2 DEF Item
    <3>2. Emit(j, << t >>) = [json |-> j.json, file |-> Read(j.file, t)]
      BY <1>2, EmitOne
    <3>3. QED
      BY <2>2, <3>1, <3>2
  <2>3. QED
    BY <2>1, <2>2
<1> HIDE DEF b
<1>4. QED
  BY <1>1, <1>3

(* Printing a value. *)
LEMMA ValueSound ==
  ASSUME NEW j, Sound(j)
  PROVE  Sound(nk_fpjson_value(j))
<1> DEFINE p == _nk_fpjson_prefix(j, FALSE)
           k == nk_fpjson_value(j)
<1>1. Ready(p) /\ k = Item(p, "value")
  BY PrefixReady DEF nk_fpjson_value
<1> HIDE DEF p, k
<1>2. PICK b \in FileState :
        /\ ValueFits(b) /\ b.open = p.file.open
        /\ Item(p, "value") = [json |-> p.json, file |-> Read(b, "value")]
  BY <1>1, ItemIs
<1> DEFINE r == Read(b, "value")
<1>3. r = [b EXCEPT !.last = "item"]
  BY <1>2, ReadValue DEF FileState
<1> HIDE DEF r
<1>4. r \in FileState /\ r.open = p.file.open /\ r.last = "item"
  BY <1>2, <1>3 DEF FileState
<1>5. k = [json |-> p.json, file |-> r]
  BY <1>1, <1>2 DEF r
<1>6. k.json = p.json /\ k.file = r
  BY <1>5
<1>7. p \in Printer /\ SameLevels(p) /\ p.json.level # 0 /\ p.json.first
  BY <1>1 DEF Ready
<1>8. k \in Printer
  BY <1>4, <1>5, <1>7 DEF Printer
<1>9. SameLevels(k)
  BY <1>4, <1>6, <1>7 DEF SameLevels
<1>10. FirstIsItem(k)
  BY <1>4, <1>6, <1>7 DEF FirstIsItem
<1>11. QED
  BY <1>8, <1>9, <1>10 DEF Sound, k

(* Printing the beginning of an object or an array, if the stack has room. *)
LEMMA NestedSound ==
  ASSUME NEW j, Sound(j), j.json.level # NK_JSON_STACK_SIZE,
         NEW type \in LevelType
  PROVE  Sound(Nested(j, type))
<1> DEFINE p == _nk_fpjson_prefix(j, FALSE)
           q == Item(p, Token(type))
           l == p.json.level
<1>1. Ready(p) /\ l = _nk_fpjson_start(j).json.level
  BY PrefixReady
<1>2. l \in 1 .. NK_JSON_STACK_SIZE - 1
  <2>1. j.json \in FormatterState
    BY InIs DEF Sound
  <2>2. j.json.level \in 0 .. NK_JSON_STACK_SIZE - 1
    BY <2>1, JsonConstantsOK DEF FormatterState
  <2>3. CASE j.json.level # 0
    <3>1. _nk_fpjson_start(j) = j
      BY <2>3 DEF _nk_fpjson_start
    <3>2. l = j.json.level
      BY <1>1, <3>1
    <3> HIDE DEF l
    <3>3. QED
      BY <2>2, <2>3, <3>2
  <2>4. CASE j.json.level = 0
    <3> DEFINE s == _nk_fpjson_start(j)
    <3>1. s.json.level = 1
      BY <2>4, StartSound
    <3>2. l = 1
      BY <1>1, <3>1
    <3> HIDE DEF l
    <3>3. QED
      BY <3>2, JsonConstantsOK
  <2>5. QED
    BY <2>3, <2>4
<1> HIDE DEF p
<1>3. /\ p \in Printer /\ SameLevels(p) /\ p.json \in FormatterState
      /\ p.json.type \in LevelType
  <2>1. p \in Printer /\ SameLevels(p) /\ p.json \in FormatterState
    BY <1>1, InIs DEF Ready
  <2>2. QED
    BY <2>1 DEF FormatterState
<1>4. PICK b \in FileState :
        /\ ValueFits(b) /\ b.open = p.file.open
        /\ q = [json |-> p.json, file |-> Read(b, Token(type))]
  BY <1>1, ItemIs
<1> DEFINE r == [open |-> Append(p.file.open, type), last |-> "open"]
           a1 == [p.json EXCEPT !.stack[l] = p.json.type]
           a2 == [a1 EXCEPT !.type = type]
           a3 == [a2 EXCEPT !.first = FALSE]
           a == [a3 EXCEPT !.level = l + 1]
<1>5. Read(b, Token(type)) = r
  BY <1>4, ReadBegin DEF FileState
<1>6. q = [json |-> p.json, file |-> r]
  BY <1>4, <1>5
<1>7. /\ a1 \in FormatterState /\ a1.level = l
      /\ a1.stack = [p.json.stack EXCEPT ![l] = p.json.type]
  <2>1. l \in 0 .. NK_JSON_STACK_SIZE - 1
    BY <1>2
  <2> DEFINE x == p.json
             t == p.json.type
             i == l
  <2>2. /\ a1 = [x EXCEPT !.stack[i] = t] /\ x \in FormatterState
        /\ t \in LevelType /\ i \in 0 .. NK_JSON_STACK_SIZE - 1
    BY <1>3, <2>1
  <2> HIDE DEF a1, x, t, i
  <2>3. /\ a1 \in FormatterState /\ a1.stack = [x.stack EXCEPT ![i] = t]
        /\ a1.level = x.level /\ a1.type = x.type /\ a1.first = x.first
    BY <2>2 DEF FormatterState
  <2>4. a1.level = x.level
    BY <2>3
  <2>5. QED
    BY <2>3, <2>4 DEF x, t, i
<1>8. /\ a2 \in FormatterState /\ a2.level = l /\ a2.stack = a1.stack
      /\ a2.type = type
  <2> HIDE DEF a1
  <2>1. QED
    BY <1>7, SetType
<1>9. /\ a3 \in FormatterState /\ a3.first = FALSE /\ a3.level = l
      /\ a3.stack = a1.stack /\ a3.type = type
  <2>1. FALSE \in BOOLEAN
    OBVIOUS
  <2> HIDE DEF a1, a2
  <2>2. a3 = [a2 EXCEPT !.first = FALSE]
    OBVIOUS
  <2> HIDE DEF a3
  <2>3. /\ a3 \in FormatterState /\ a3.first = FALSE
        /\ a3.level = a2.level /\ a3.type = a2.type /\ a3.stack = a2.stack
    <3>1. a2 \in FormatterState
      BY <1>8
    <3>2. QED
      BY ONLY <2>1, <2>2, <3>1, SetFirst
  <2>4. QED
    BY <1>8, <2>3
<1>10. /\ a \in FormatterState /\ ~ a.first /\ a.level = l + 1
       /\ a.stack = a1.stack /\ a.type = type
  <2>1. l + 1 \in 0 .. NK_JSON_STACK_SIZE
    BY <1>2, JsonConstantsOK
  <2> HIDE DEF a1, a2, a3
  <2>2. QED
    BY <1>9, <2>1, SetLevel
<1>11. Nested(j, type) = [json |-> a, file |-> r]
  <2> DEFINE t == p.json.type
             x == p.json
  <2> HIDE DEF r
  <2>1. /\ Nested(j, type) =
             [q EXCEPT !.json.stack[q.json.level] = q.json.type,
                       !.json.type = type,
                       !.json.first = FALSE,
                       !.json.level = @ + 1]
    BY DEF Nested, p
  <2>2. q.json = x
    BY <1>6
  <2> DEFINE q1 == [q EXCEPT !.json.stack[l] = t]
             q2 == [q1 EXCEPT !.json.type = type]
             q3 == [q2 EXCEPT !.json.first = FALSE]
  <2>3. q1 = [json |-> a1, file |-> r]
    <3> HIDE DEF q, l, x, t
    <3>1. [q EXCEPT !.json.stack[l] = t] =
            [json |-> [x EXCEPT !.stack[l] = t], file |-> r]
      BY <1>6, SetIn DEF x
    <3>2. QED
      BY <3>1 DEF x, t
  <2>4. q2 = [json |-> a2, file |-> r]
    <3> HIDE DEF q1, a1
    <3>1. QED
      BY <2>3, SetIn
  <2>5. q3 = [json |-> a3, file |-> r]
    <3> HIDE DEF q2, a2
    <3>1. q2 = [json |-> a2, file |-> r]
      BY <2>4
    <3> DEFINE v == FALSE
    <3>2. q3 = [q2 EXCEPT !.json.first = v] /\ a3 = [a2 EXCEPT !.first = v]
      OBVIOUS
    <3> HIDE DEF v, q3, a3
    <3>3. [q2 EXCEPT !.json.first = v] =
            [json |-> [a2 EXCEPT !.first = v], file |-> r]
      BY <3>1, SetIn
    <3>4. QED
      BY <3>2, <3>3
  <2>6. [q3 EXCEPT !.json.level = l + 1] = [json |-> a, file |-> r]
    <3> HIDE DEF q3, a3
    <3>1. QED
      BY <2>5, SetIn
  <2>7. q3.json.level = l
    <3> HIDE DEF q3, a3
    <3>1. q3.json = a3
      BY <2>5
    <3>2. QED
      BY <1>9, <3>1
  <2>8. Nested(j, type) = [q3 EXCEPT !.json.level = q3.json.level + 1]
    <3>1. q.json.level = l /\ q.json.type = t
      BY <2>2
    <3> HIDE DEF q, l, x, t
    <3>2. Nested(j, type) =
            [[[[q EXCEPT !.json.stack[l] = t]
                EXCEPT !.json.type = type]
               EXCEPT !.json.first = FALSE]
              EXCEPT !.json.level = l + 1]
      BY <1>6, <2>1, <3>1 DEF x
    <3>3. QED
      BY <2>7, <3>2
  <2> HIDE DEF q3, a
  <2>9. QED
    BY <2>6, <2>7, <2>8
<1>12. QED
  <2>1. p.json.level > 0 => a.stack[p.json.level] = p.json.type
    <3> DEFINE u == p.json.stack
    <3>1. u \in [0 .. NK_JSON_STACK_SIZE - 1 -> LevelType]
      BY <1>3 DEF FormatterState
    <3> HIDE DEF a, a1, u
    <3>2. a.stack = [u EXCEPT ![l] = p.json.type]
      BY <1>7, <1>10 DEF u
    <3>3. l \in 0 .. NK_JSON_STACK_SIZE - 1
      BY <1>2
    <3>4. a.stack[l] = p.json.type
      BY <3>1, <3>2, <3>3
    <3>5. QED
      BY <3>4
  <2>2. \A i \in 1 .. p.json.level - 1 : a.stack[i] = p.json.stack[i]
    <3>1. p.json.stack \in [0 .. NK_JSON_STACK_SIZE - 1 -> LevelType]
      BY <1>3 DEF FormatterState
    <3> HIDE DEF a, a1
    <3>2. QED
      BY <1>2, <1>7, <1>10, <3>1
  <2> HIDE DEF a, a1
  <2>3. QED
    BY <1>3, <1>10, <1>11, <2>1, <2>2, LevelOpened

(* A level less is open: the printer's are those of the reader again. *)
LEMMA LevelClosed ==
  ASSUME NEW j, j \in Printer, SameLevels(j), j.json.level # 0,
         NEW a \in FormatterState, a.level = j.json.level - 1, a.first,
         a.stack = j.json.stack, a.type = j.json.stack[a.level],
         NEW k,
         k = [json |-> a,
              file |-> IF Len(j.file.open) = 1 THEN EmptyFile
                       ELSE [open |-> Front(j.file.open), last |-> "item"]]
  PROVE  Sound(k)
<1> DEFINE o == j.file.open
           l == j.json.level
           p == Front(o)
<1>1. o \in Seq(LevelType) /\ l \in Nat /\ l = Len(o) /\ l # 0
  BY InIs
<1>2. CASE l = 1
  <2>1. k = [json |-> a, file |-> EmptyFile]
    BY <1>1, <1>2
  <2>2. << >> \in Seq(LevelType) /\ Len(<< >>) = 0
    BY EmptySeq
  <2>3. k.json = a /\ k.file.open = << >> /\ k.file.last = "start"
    BY <2>1 DEF EmptyFile
  <2>4. a.level = 0
    BY <1>2
  <2>5. k \in Printer
    BY <2>1, <2>2 DEF Printer, FileState, EmptyFile
  <2>6. SameLevels(k)
    BY <2>2, <2>3, <2>4 DEF SameLevels
  <2>7. FirstIsItem(k)
    BY <2>3, <2>4 DEF FirstIsItem
  <2>8. QED
    BY <2>5, <2>6, <2>7 DEF Sound
<1>3. CASE l # 1
  <2>1. /\ p \in Seq(LevelType) /\ Len(p) = l - 1
        /\ \A i \in 1 .. l - 1 : p[i] = o[i]
    <3>1. l - 1 \in 0 .. Len(o) /\ 1 \in 1 .. Len(o) + 1
      BY <1>1
    <3> HIDE DEF o, l
    <3>2. /\ SubSeq(o, 1, l - 1) \in Seq(LevelType)
          /\ Len(SubSeq(o, 1, l - 1)) = l - 1 - 1 + 1
          /\ \A i \in 1 .. l - 1 - 1 + 1 :
               SubSeq(o, 1, l - 1)[i] = o[1 + i - 1]
      BY <1>1, <3>1, SliceProps
    <3>3. p = SubSeq(o, 1, l - 1)
      BY <1>1 DEF Front
    <3>4. l - 1 - 1 + 1 = l - 1 /\ \A i \in 1 .. l - 1 : 1 + i - 1 = i
      BY <1>1
    <3>5. QED
      BY <3>2, <3>3, <3>4
  <2>2. \A i \in 1 .. l - 1 : o[i] = j.json.stack[i]
    BY <1>1 DEF SameLevels
  <2>3. a.level = l - 1
    OBVIOUS
  <2>4. k = [json |-> a, file |-> [open |-> p, last |-> "item"]]
    BY <1>1, <1>3
  <2> HIDE DEF p, o, l
  <2>5. k.json = a /\ k.file.open = p /\ k.file.last = "item"
    BY <2>4
  <2>6. k \in Printer
    BY <2>1, <2>4 DEF Printer, FileState
  <2>7. Last(p) = a.type
    <3>1. l - 1 \in 1 .. l - 1
      BY <1>1, <1>3
    <3>2. Last(p) = p[l - 1]
      BY <2>1 DEF Last
    <3>3. QED
      BY <2>1, <2>2, <2>3, <3>1, <3>2
  <2>8. \A i \in 1 .. a.level - 1 : p[i] = a.stack[i]
    <3>1. ASSUME NEW i \in 1 .. a.level - 1 PROVE p[i] = a.stack[i]
      <4>1. i \in 1 .. l - 1
        BY <1>1, <2>3, <3>1
      <4>2. QED
        BY <2>1, <2>2, <4>1
    <3>2. QED
      BY <3>1
  <2>9. SameLevels(k)
    BY <2>1, <2>3, <2>5, <2>7, <2>8 DEF SameLevels
  <2>10. FirstIsItem(k)
    <3>1. a.level # 0
      BY <1>1, <1>3, <2>3
    <3>2. QED
      BY <2>5, <3>1 DEF FirstIsItem
  <2>11. QED
    BY <2>6, <2>9, <2>10 DEF Sound
<1>4. QED
  BY <1>2, <1>3

(* Printing the end of the innermost object or array. *)
LEMMA PopSound ==
  ASSUME NEW j, Sound(j)
  PROVE  Sound(nk_fpjson_pop(j))
<1>0. j \in Printer /\ SameLevels(j)
  BY DEF Sound
<1>1. CASE j.json.level = 0
  BY <1>1 DEF nk_fpjson_pop
<1>2. CASE j.json.level # 0
  <2> DEFINE x == j.json
             b == j.file
             l == x.level - 1
             a1 == [x EXCEPT !.level = l]
             a2 == [a1 EXCEPT !.first = TRUE]
             v == a2.stack[l]
             a == [a2 EXCEPT !.type = v]
             r == Read(b, Close(x.type))
             down == [j EXCEPT !.json.level = @ - 1]
             k == Emit(_nk_fpjson_prefix(down, TRUE), << Close(x.type) >>)
  <2>1. /\ j = [json |-> x, file |-> b] /\ x \in FormatterState
        /\ b \in FileState /\ In(b) = x.type
    BY <1>0, <1>2, InIs
  <2>2. l \in 0 .. NK_JSON_STACK_SIZE - 1 /\ l \in 0 .. NK_JSON_STACK_SIZE
    BY <1>2, <2>1, JsonConstantsOK DEF FormatterState
  <2>3. /\ x.type \in LevelType
        /\ x.stack \in [0 .. NK_JSON_STACK_SIZE - 1 -> LevelType]
    BY <2>1 DEF FormatterState
  <2>4. nk_fpjson_pop(j) = [k EXCEPT !.json.type = k.json.stack[k.json.level]]
    BY <1>2 DEF nk_fpjson_pop, Close
  <2>5. b.last \in {"open", "item"}
    BY <1>2 DEF Sound, FirstIsItem
  <2>6. r = IF Len(b.open) = 1 THEN EmptyFile
            ELSE [open |-> Front(b.open), last |-> "item"]
    BY <2>1, <2>3, <2>5, ReadEnd
  <2>7. down = [json |-> a1, file |-> b]
    <3>1. down = [j EXCEPT !.json.level = l]
      OBVIOUS
    <3> HIDE DEF x, b, l, down
    <3>2. QED
      BY <2>1, <3>1, SetIn
  <2>8. a1 \in FormatterState /\ a1.level = l /\ a1.stack = x.stack
    <3> HIDE DEF x, l
    <3>1. QED
      BY <2>1, <2>2, SetLevel
  <2>9. /\ a2 \in FormatterState /\ a2.level = l /\ a2.stack = x.stack
        /\ a2.first = TRUE
    <3> HIDE DEF a1
    <3>1. TRUE \in BOOLEAN
      OBVIOUS
    <3>2. a2 = [a1 EXCEPT !.first = TRUE]
      OBVIOUS
    <3> HIDE DEF a2
    <3>3. /\ a2 \in FormatterState /\ a2.first = TRUE
          /\ a2.level = a1.level /\ a2.type = a1.type /\ a2.stack = a1.stack
      BY <2>8, <3>1, <3>2, SetFirst, Zenon
    <3>4. QED
      BY <2>8, <3>3
  <2>10. [down EXCEPT !.json.first = TRUE] = [json |-> a2, file |-> b]
    <3> DEFINE w == TRUE
    <3>1. /\ [down EXCEPT !.json.first = TRUE] =
               [down EXCEPT !.json.first = w]
          /\ a2 = [a1 EXCEPT !.first = w]
      OBVIOUS
    <3> HIDE DEF down, a1, a2, b, w
    <3>2. [down EXCEPT !.json.first = w] =
            [json |-> [a1 EXCEPT !.first = w], file |-> b]
      BY <2>7, SetIn
    <3>3. QED
      BY <3>1, <3>2
  <2>11. _nk_fpjson_prefix(down, TRUE) = [json |-> a2, file |-> b]
    <3> HIDE DEF down, a2, b
    <3>1. _nk_fpjson_prefix(down, TRUE) =
            Emit([down EXCEPT !.json.first = TRUE], << >>)
      BY DEF _nk_fpjson_prefix
    <3>2. QED
      BY <2>10, <3>1, EmitNone
  <2>12. k = [json |-> a2, file |-> r]
    <3> HIDE DEF down, a2, b, x
    <3>1. QED
      BY <2>11, EmitOne
  <2> HIDE DEF a2, r, k, x, b, l
  <2>13. v \in LevelType /\ v = x.stack[l]
    BY <2>2, <2>3, <2>9
  <2>14. a \in FormatterState /\ a.type = v
    <3> HIDE DEF v
    <3>1. QED
      BY <2>9, <2>13, SetType
  <2>15. a.level = l /\ a.first = TRUE /\ a.stack = x.stack
    <3> HIDE DEF v
    <3>1. a.level = a2.level /\ a.first = a2.first /\ a.stack = a2.stack
      BY <2>9, <2>13, SetType
    <3>2. QED
      BY <2>9, <3>1
  <2>16. nk_fpjson_pop(j) = [json |-> a, file |-> r]
    <3>1. k.json.stack[k.json.level] = v
      BY <2>9, <2>12
    <3> HIDE DEF v
    <3>2. [k EXCEPT !.json.type = v] = [json |-> a, file |-> r]
      BY <2>12, SetIn
    <3>3. QED
      BY <2>4, <3>1, <3>2
  <2> HIDE DEF a, v
  <2>17. QED
    <3>1. a.level = j.json.level - 1 /\ a.stack = j.json.stack
      BY <2>15 DEF l, x
    <3>2. a.type = j.json.stack[a.level] /\ a.first
      BY <2>13, <2>14, <2>15 DEF x
    <3>3. nk_fpjson_pop(j) =
            [json |-> a,
             file |-> IF Len(j.file.open) = 1 THEN EmptyFile
                      ELSE [open |-> Front(j.file.open), last |-> "item"]]
      BY <2>6, <2>16 DEF b
    <3>4. QED
      BY <1>0, <1>2, <2>14, <3>1, <3>2, <3>3, LevelClosed
<1>3. QED
  BY <1>1, <1>2

-----------------------------------------------------------------------------
(* Popping several levels *)

(* the printers that the loop of popto goes through, n ends and no more *)
Ends(runs, j, n) ==
  runs = [k \in 0 .. n |-> IF k = 0 THEN j ELSE nk_fpjson_pop(runs[k - 1])]

(* The loop can run as often as one likes. *)
LEMMA EndsExist ==
  ASSUME NEW j, NEW n \in Nat
  PROVE  \E runs : Ends(runs, j, n)
<1> DEFINE S == {i \in Nat : \E runs : Ends(runs, j, i)}
<1>1. 0 \in S
  <2> DEFINE runs == [k \in 0 .. 0 |-> j]
  <2>1. Ends(runs, j, 0)
    BY DEF Ends
  <2>2. QED
    BY <2>1
<1>2. ASSUME NEW i \in Nat, i \in S PROVE i + 1 \in S
  <2>1. PICK runs : Ends(runs, j, i)
    BY <1>2
  <2> DEFINE h == [k \in 0 .. i + 1 |->
                     IF k = i + 1 THEN nk_fpjson_pop(runs[i]) ELSE runs[k]]
  <2>2. Ends(h, j, i + 1)
    <3>1. ASSUME NEW k \in 0 .. i + 1
          PROVE  h[k] = IF k = 0 THEN j ELSE nk_fpjson_pop(h[k - 1])
      <4>1. CASE k = i + 1
        <5>1. k # 0 /\ k - 1 = i /\ k - 1 \in 0 .. i + 1 /\ k - 1 # i + 1
          BY <4>1
        <5>2. h[k - 1] = runs[i]
          BY <5>1
        <5>3. h[k] = nk_fpjson_pop(runs[i])
          BY <4>1
        <5>4. QED
          BY <5>1, <5>2, <5>3
      <4>2. CASE k = 0
        <5>1. k \in 0 .. i /\ k # i + 1
          BY <4>2
        <5>2. runs[k] = j
          BY <2>1, <4>2, <5>1 DEF Ends
        <5>3. QED
          BY <4>2, <5>1, <5>2
      <4>3. CASE k # 0 /\ k # i + 1
        <5>1. k \in 0 .. i /\ k - 1 \in 0 .. i + 1 /\ k - 1 # i + 1
          BY <3>1, <4>3
        <5>2. h[k] = runs[k] /\ h[k - 1] = runs[k - 1]
          BY <5>1, <4>3
        <5>3. runs[k] = nk_fpjson_pop(runs[k - 1])
          BY <2>1, <4>3, <5>1 DEF Ends
        <5>4. QED
          BY <4>3, <5>2, <5>3
      <4>4. QED
        BY <4>1, <4>2, <4>3
    <3>2. h = [k \in 0 .. i + 1 |-> h[k]]
      OBVIOUS
    <3> HIDE DEF h
    <3>3. QED
      BY <3>1, <3>2 DEF Ends
  <2> HIDE DEF h
  <2>3. QED
    BY <2>2
<1> HIDE DEF S
<1>3. Nat \subseteq S
  BY <1>1, <1>2, NatInductive
<1>4. QED
  BY <1>3 DEF S

(* Every printer that the loop goes through is sound. *)
LEMMA EndsSound ==
  ASSUME NEW j, Sound(j), NEW n \in Nat, NEW runs, Ends(runs, j, n)
  PROVE  \A k \in 0 .. n : Sound(runs[k])
<1> DEFINE S == {i \in Nat : i > n \/ Sound(runs[i])}
<1>1. 0 \in S
  <2>1. runs[0] = j
    BY DEF Ends
  <2>2. QED
    BY <2>1
<1>2. ASSUME NEW i \in Nat, i \in S PROVE i + 1 \in S
  <2>1. CASE i + 1 > n
    BY <2>1
  <2>2. CASE ~ (i + 1 > n)
    <3>1. i + 1 \in 0 .. n /\ i + 1 # 0 /\ i + 1 - 1 = i /\ ~ (i > n)
      BY <2>2
    <3>2. runs[i + 1] = nk_fpjson_pop(runs[i])
      BY <3>1 DEF Ends
    <3>3. Sound(runs[i])
      BY <1>2, <3>1
    <3>4. Sound(nk_fpjson_pop(runs[i]))
      BY <3>3, PopSound
    <3>5. QED
      BY <3>2, <3>4
  <2>3. QED
    BY <2>1, <2>2
<1> HIDE DEF S
<1>3. Nat \subseteq S
  BY <1>1, <1>2, NatInductive
<1>4. QED
  BY <1>3 DEF S

(* Ending some or all of the open levels. *)
LEMMA PoptoSound ==
  ASSUME NEW j, Sound(j), NEW level \in Nat
  PROVE  Sound(nk_fpjson_popto(j, level))
<1> DEFINE fm == CHOOSE runs : runs = [n \in 0 .. NK_JSON_STACK_SIZE |->
                      IF n = 0 THEN j ELSE nk_fpjson_pop(runs[n - 1])]
<1>1. nk_fpjson_popto(j, level) =
        IF j.json.level > level THEN fm[j.json.level - level] ELSE j
  BY DEF nk_fpjson_popto
<1>2. Ends(fm, j, NK_JSON_STACK_SIZE)
  <2>1. NK_JSON_STACK_SIZE \in Nat
    BY JsonConstantsOK
  <2>2. \E runs : Ends(runs, j, NK_JSON_STACK_SIZE)
    BY <2>1, EndsExist
  <2>3. QED
    BY <2>2 DEF Ends
<1> HIDE DEF fm
<1>3. j.json.level \in 0 .. NK_JSON_STACK_SIZE
  BY InIs DEF Sound, FormatterState
<1>4. CASE j.json.level > level
  <2>1. j.json.level - level \in 0 .. NK_JSON_STACK_SIZE
    BY <1>3, <1>4, JsonConstantsOK
  <2>2. Sound(fm[j.json.level - level])
    BY <1>2, <2>1, EndsSound, JsonConstantsOK
  <2>3. QED
    BY <1>1, <1>4, <2>2
<1>5. CASE ~ (j.json.level > level)
  BY <1>1, <1>5
<1>6. QED
  BY <1>4, <1>5

(* Ending whatever is open and starting again. *)
LEMMA EndSound ==
  ASSUME NEW j, Sound(j)
  PROVE  Sound(nk_fpjson_end(j)) /\ Sound(nk_fpjson_begin(j))
<1>1. Sound(nk_fpjson_end(j))
  BY PoptoSound DEF nk_fpjson_end
<1>2. QED
  BY <1>1, StartSound DEF nk_fpjson_begin

-----------------------------------------------------------------------------
(* The calls *)

(* A call that leaves one printer sound leaves them all so. *)
LEMMA PrintsSound ==
  ASSUME JsonInv, NEW fm \in Formatter, NEW j, Sound(j), Prints(fm, j)
  PROVE  JsonInv'
<1>1. j.json \in FormatterState /\ j.file \in FileState
  BY DEF Sound, Printer
<1>2. /\ json \in [Formatter -> FormatterState]
      /\ file \in [Formatter -> FileState]
      /\ \A x \in Formatter : Sound(Of(x))
  BY DEF JsonInv
<1>3. json' \in [Formatter -> FormatterState]
  BY <1>1, <1>2 DEF Prints
<1>4. file' \in [Formatter -> FileState]
  BY <1>1, <1>2 DEF Prints
<1>5. ASSUME NEW x \in Formatter
      PROVE  Sound([json |-> json'[x], file |-> file'[x]])
  <2>1. CASE x = fm
    <3>1. json'[x] = j.json /\ file'[x] = j.file
      BY <1>2, <2>1 DEF Prints
    <3>2. j = [json |-> j.json, file |-> j.file]
      BY InIs DEF Sound
    <3>3. QED
      BY <3>1, <3>2
  <2>2. CASE x # fm
    <3>1. json'[x] = json[x] /\ file'[x] = file[x]
      BY <1>2, <1>5, <2>2 DEF Prints
    <3>2. Sound([json |-> json[x], file |-> file[x]])
      BY <1>2, <1>5 DEF Of
    <3>3. QED
      BY <3>1, <3>2
  <2>3. QED
    BY <2>1, <2>2
<1>6. (\A x \in Formatter : Sound(Of(x)))'
  BY <1>5 DEF Of
<1>7. QED
  BY <1>3, <1>4, <1>6 DEF JsonInv

(* The formatters as they are initialised. *)
LEMMA JsonInitInv ==
  ASSUME JsonInit
  PROVE  JsonInv
<1> DEFINE N == 0 .. NK_JSON_STACK_SIZE - 1
<1>1. PICK stack \in [N -> LevelType] :
        json = [fm \in Formatter |->
                 [level |-> 0, type |-> "OBJ", first |-> FALSE,
                  stack |-> IF fm = "user" THEN stack
                            ELSE [i \in DOMAIN stack |-> "OBJ"]]]
  BY DEF JsonInit
<1>2. [i \in DOMAIN stack |-> "OBJ"] \in [N -> LevelType]
  BY DEF LevelType
<1>3. ASSUME NEW s \in [N -> LevelType]
      PROVE  [level |-> 0, type |-> "OBJ", first |-> FALSE, stack |-> s]
               \in FormatterState
  BY <1>3, JsonConstantsOK DEF FormatterState, LevelType
<1>4. << >> \in Seq(LevelType) /\ Len(<< >>) = 0
  BY EmptySeq
<1>5. EmptyFile \in FileState
  BY <1>4 DEF EmptyFile, FileState
<1>6. file = [fm \in Formatter |-> EmptyFile]
  BY DEF JsonInit
<1> HIDE DEF N
<1>7. json \in [Formatter -> FormatterState]
  BY <1>1, <1>2, <1>3
<1>8. file \in [Formatter -> FileState]
  BY <1>5, <1>6
<1>9. ASSUME NEW x \in Formatter PROVE Sound(Of(x))
  <2>1. json[x].level = 0 /\ file[x] = EmptyFile
    BY <1>1, <1>6
  <2>2. Of(x).json = json[x] /\ Of(x).file = file[x]
    BY DEF Of
  <2>3. Of(x) \in Printer
    BY <1>7, <1>8 DEF Of, Printer
  <2>4. /\ Of(x).json.level = 0 /\ Len(Of(x).file.open) = 0
        /\ Of(x).file.last = "start"
    BY <1>4, <2>1, <2>2 DEF EmptyFile
  <2>5. SameLevels(Of(x)) /\ FirstIsItem(Of(x))
    BY <2>4 DEF SameLevels, FirstIsItem
  <2>6. QED
    BY <2>3, <2>5 DEF Sound
<1>10. QED
  BY <1>7, <1>8, <1>9 DEF JsonInv

(* Every call keeps the invariant. *)
LEMMA JsonNextInv ==
  ASSUME JsonInv, [JsonNext]_jvars
  PROVE  JsonInv'
<1>1. \A x \in Formatter : Sound(Of(x))
  BY DEF JsonInv
<1>2. CASE UNCHANGED jvars
  BY <1>2 DEF jvars, JsonInv, Sound, Printer, SameLevels, FirstIsItem, Of
<1>3. ASSUME NEW fm \in Formatter, Value(fm) PROVE JsonInv'
  BY <1>1, <1>3, ValueSound, PrintsSound DEF Value
<1>4. ASSUME NEW fm \in Formatter, nk_fpjson_obj(fm) PROVE JsonInv'
  <2>1. CASE Full(fm)
    <3>1. Prints(fm, nk_fpjson_value(Of(fm)))
      BY <1>4, <2>1 DEF nk_fpjson_obj
    <3>2. QED
      BY <1>1, <1>4, <3>1, ValueSound, PrintsSound
  <2>2. CASE ~ Full(fm)
    <3>1. Prints(fm, Nested(Of(fm), "OBJ"))
      BY <1>4, <2>2 DEF nk_fpjson_obj
    <3>2. Of(fm).json.level # NK_JSON_STACK_SIZE
      BY <2>2 DEF Full, Of
    <3>3. "OBJ" \in LevelType
      BY DEF LevelType
    <3>4. Sound(Nested(Of(fm), "OBJ"))
      BY <1>1, <1>4, <3>2, <3>3, NestedSound
    <3>5. QED
      BY <1>4, <3>1, <3>4, PrintsSound
  <2>3. QED
    BY <2>1, <2>2
<1>5. ASSUME NEW fm \in Formatter, nk_fpjson_array(fm) PROVE JsonInv'
  <2>1. CASE Full(fm)
    <3>1. Prints("std", nk_fpjson_value(Of("std")))
      BY <1>5, <2>1 DEF nk_fpjson_array
    <3>2. "std" \in Formatter
      BY DEF Formatter
    <3>3. QED
      BY <1>1, <3>1, <3>2, ValueSound, PrintsSound
  <2>2. CASE ~ Full(fm)
    <3>1. Prints(fm, Nested(Of(fm), "ARRAY"))
      BY <1>5, <2>2 DEF nk_fpjson_array
    <3>2. Of(fm).json.level # NK_JSON_STACK_SIZE
      BY <2>2 DEF Full, Of
    <3>3. "ARRAY" \in LevelType
      BY DEF LevelType
    <3>4. Sound(Nested(Of(fm), "ARRAY"))
      BY <1>1, <1>5, <3>2, <3>3, NestedSound
    <3>5. QED
      BY <1>5, <3>1, <3>4, PrintsSound
  <2>3. QED
    BY <2>1, <2>2
<1>6. ASSUME NEW fm \in Formatter, Pop(fm) PROVE JsonInv'
  BY <1>1, <1>6, PopSound, PrintsSound DEF Pop
<1>7. ASSUME NEW fm \in Formatter, Popto(fm) PROVE JsonInv'
  <2>1. PICK level \in 0 .. json[fm].level :
          Prints(fm, nk_fpjson_popto(Of(fm), level))
    BY <1>7 DEF Popto
  <2>2. level \in Nat
    OBVIOUS
  <2>3. QED
    BY <1>1, <1>7, <2>1, <2>2, PoptoSound, PrintsSound
<1>8. ASSUME NEW fm \in Formatter, Begin(fm) PROVE JsonInv'
  BY <1>1, <1>8, EndSound, PrintsSound DEF Begin
<1>9. ASSUME NEW fm \in Formatter, End(fm) PROVE JsonInv'
  BY <1>1, <1>9, EndSound, PrintsSound DEF End
<1>10. QED
  BY <1>2, <1>3, <1>4, <1>5, <1>6, <1>7, <1>8, <1>9 DEF JsonNext

-----------------------------------------------------------------------------
(* Theorems *)

(***************************************************************************)
(* The printer and a reader of its file agree after every call: the same   *)
(* levels are open, and first is set exactly if an item came last, so that *)
(* the next item is the one that needs a comma.                            *)
(***************************************************************************)
THEOREM JsonInvariant == JsonSpec => []JsonInv
<1>1. JsonInit => JsonInv
  BY JsonInitInv
<1>2. JsonInv /\ [JsonNext]_jvars => JsonInv'
  BY JsonNextInv
<1>3. QED
  BY <1>1, <1>2, PTL DEF JsonSpec

(***************************************************************************)
(* The level of a formatter never leaves its stack, and what it finds      *)
(* there is always a type that it has put there.                           *)
(***************************************************************************)
THEOREM JsonTypeCorrect == JsonSpec => []JsonTypeOK
<1>1. JsonInv => JsonTypeOK
  BY DEF JsonInv, JsonTypeOK, FormatterState
<1>2. QED
  BY <1>1, JsonInvariant, PTL

(***************************************************************************)
(* In whatever order the calls come, each file is JSON so far, and the     *)
(* formatter has the levels open that a reader has.                        *)
(***************************************************************************)
THEOREM AlwaysWellFormed == JsonSpec => []WellFormed
<1>1. JsonInv => WellFormed
  <2>1. SUFFICES ASSUME JsonInv PROVE WellFormed
    OBVIOUS
  <2>2. ASSUME NEW x \in Formatter
        PROVE  /\ file[x].last # "bad"
               /\ Len(file[x].open) = json[x].level
               /\ json[x].level > 0 =>
                    /\ Last(file[x].open) = json[x].type
                    /\ \A i \in 1 .. json[x].level - 1 :
                         file[x].open[i] = json[x].stack[i]
    <3>1. Sound(Of(x)) /\ file[x] \in FileState
      BY <2>1, <2>2 DEF JsonInv
    <3>2. Of(x).json = json[x] /\ Of(x).file = file[x]
      BY DEF Of
    <3>3. file[x].last # "bad"
      BY <3>1 DEF FileState
    <3>4. SameLevels(Of(x))
      BY <3>1 DEF Sound
    <3>5. QED
      BY <3>2, <3>3, <3>4 DEF SameLevels
  <2>3. QED
    BY <2>2 DEF WellFormed
<1>2. QED
  BY <1>1, JsonInvariant, PTL

-----------------------------------------------------------------------------
(* The device: rounding to blocks *)

(* What a flush rounds the buffer up to. *)
LEMMA RoundUpProps ==
  ASSUME NEW x \in Nat
  PROVE  /\ RoundUp(x) \in Nat /\ RoundUp(x) >= x
         /\ RoundUp(x) % Granularity = 0
         /\ x <= BlockSize => RoundUp(x) <= BlockSize
         /\ \A a \in Nat : a % Granularity = 0 =>
              ((a + x + Granularity - 1) \div Granularity) * Granularity
                = a + RoundUp(x)
<1> DEFINE m == Granularity
           n == x + m - 1
           q == n \div m
           r == n % m
<1>1. m \in Nat \ {0} /\ n \in Nat
  BY FileConstantsOK
<1>2. n = m * q + r /\ r \in 0 .. m - 1 /\ q \in Int
  BY <1>1, DivMod
<1>3. RoundUp(x) = q * m
  BY DEF RoundUp
<1> HIDE DEF q, r
<1>4. q * m = n - r /\ q * m \in Int
  BY <1>1, <1>2
<1>5. RoundUp(x) \in Nat /\ RoundUp(x) >= x
  BY <1>1, <1>2, <1>3, <1>4
<1>6. RoundUp(x) % m = 0
  <2>1. q * m = m * q + 0 /\ 0 \in 0 .. m - 1
    BY <1>1, <1>2
  <2>2. (q * m) % m = 0
    BY <1>1, <1>2, <1>4, <2>1, ModUnique
  <2>3. QED
    BY <1>3, <2>2
<1>7. ASSUME x <= BlockSize PROVE RoundUp(x) <= BlockSize
  <2> DEFINE k == BlockSize \div m
  <2>1. BlockSize = m * k /\ k \in Int
    <3>1. BlockSize = m * k + (BlockSize % m) /\ k \in Int /\ m * k \in Int
      BY <1>1, FileConstantsOK, DivMod
    <3>2. BlockSize % m = 0
      BY FileConstantsOK
    <3> HIDE DEF k
    <3>3. QED
      BY <3>1, <3>2
  <2> HIDE DEF k
  <2>2. ~ (q - k >= 1)
    <3>1. SUFFICES ASSUME q - k >= 1 PROVE FALSE
      OBVIOUS
    <3>2. m * (q - k) >= m
      BY <1>1, <1>2, <2>1, <3>1, MultipleAtLeast
    <3>3. m * (q - k) = m * q - m * k
      BY <1>1, <1>2, <2>1
    <3>4. m * q = n - r /\ n - r <= x + m - 1 /\ x <= m * k
      BY <1>1, <1>2, <1>4, <1>7, <2>1
    <3> DEFINE y == m * q
               z == m * k
    <3>5. y \in Int /\ z \in Int
      BY <1>1, <1>2, <2>1
    <3> HIDE DEF y, z
    <3>6. y - z >= m /\ y <= x + m - 1 /\ x <= z
      BY <3>2, <3>3, <3>4 DEF y, z
    <3>7. QED
      BY <1>1, <3>5, <3>6
  <2>3. k - q \in Nat
    BY <1>2, <2>1, <2>2
  <2>4. m * (k - q) \in Nat /\ m * (k - q) = BlockSize - q * m
    BY <1>1, <1>2, <2>1, <2>3
  <2>5. BlockSize \in Nat
    BY FileConstantsOK
  <2>6. QED
    BY <1>3, <1>4, <2>4, <2>5
<1>8. ASSUME NEW a \in Nat, a % m = 0
      PROVE  ((a + x + m - 1) \div m) * m = a + RoundUp(x)
  <2> DEFINE k == a \div m
  <2>1. a = m * k /\ k \in Int
    <3>1. a = m * k + (a % m) /\ k \in Int /\ m * k \in Int
      BY <1>1, DivMod
    <3> HIDE DEF k
    <3>2. QED
      BY <1>8, <3>1
  <2> HIDE DEF k
  <2>2. a + x + m - 1 = m * (k + q) + r
    <3>1. m * (k + q) = m * k + m * q
      BY <1>1, <1>2, <2>1
    <3>2. a + x + m - 1 = a + n
      BY <1>1
    <3> DEFINE y == m * k
               z == m * q
    <3>3. y \in Int /\ z \in Int /\ m * (k + q) = y + z
      BY <1>1, <1>2, <2>1, <3>1
    <3>4. a = y /\ n = z + r /\ r \in Int
      BY <1>2, <2>1
    <3> HIDE DEF y, z, n
    <3>5. a + x + m - 1 = y + (z + r)
      BY <3>2, <3>4
    <3>6. QED
      BY <3>3, <3>4, <3>5
  <2>3. (a + x + m - 1) \div m = k + q
    <3>1. a + x + m - 1 \in Int /\ k + q \in Int
      BY <1>1, <1>2, <2>1
    <3>2. QED
      BY <1>1, <1>2, <2>2, <3>1, DivUnique
  <2>4. (k + q) * m = a + q * m
    BY <1>1, <1>2, <2>1
  <2>5. QED
    BY <1>3, <2>3, <2>4
<1>9. QED
  BY <1>5, <1>6, <1>7, <1>8

-----------------------------------------------------------------------------
(* Folds *)

(* what a fold of nk_fwrite does with each character, or with each piece *)
Each(what, o, x) ==
  IF what = "pieces" THEN block_write(o, x) ELSE nk_fputc(o, x)

(* F is the fold, of the members of every subset of T *)
Folds(what, o, chs, T, F) ==
  F = [s \in SUBSET T |->
         IF s = {} THEN o
         ELSE Each(what, F[s \ {Max(s)}], chs[Max(s)])]

(* The greatest member of a set of naturals up to n. *)
LEMMA MaxIs ==
  ASSUME NEW n \in Nat, NEW s \in SUBSET (1 .. n), n \in s
  PROVE  Max(s) = n
<1>1. s \in SUBSET (0 .. n) /\ s # {}
  OBVIOUS
<1> DEFINE m == Max(s)
<1>2. m \in s /\ \A x \in s : m >= x
  BY <1>1, MaxIn
<1> HIDE DEF m
<1>3. m = n
  <2>1. m \in 1 .. n /\ m >= n
    BY <1>2
  <2>2. QED
    BY <2>1
<1>4. QED
  BY <1>3 DEF m

(* A fold over a longer sequence goes on where that over a shorter ended. *)
LEMMA FoldGrows ==
  ASSUME NEW what, NEW o, NEW chs, NEW n \in Nat,
         NEW F, Folds(what, o, chs, 1 .. n, F)
  PROVE  \E h : Folds(what, o, chs, 1 .. n + 1, h)
<1> DEFINE h == [s \in SUBSET (1 .. n + 1) |->
                   IF n + 1 \in s
                   THEN Each(what, F[s \ {n + 1}], chs[n + 1]) ELSE F[s]]
           e(s) == IF s = {} THEN o
                   ELSE Each(what, h[s \ {Max(s)}], chs[Max(s)])
<1>1. ASSUME NEW s \in SUBSET (1 .. n + 1)
      PROVE  h[s] = e(s)
  <2>1. CASE n + 1 \in s
    <3>1. Max(s) = n + 1
      BY <1>1, <2>1, MaxIs
    <3>2. s \ {n + 1} \in SUBSET (1 .. n) /\ n + 1 \notin s \ {n + 1}
      BY <1>1
    <3>3. s \ {n + 1} \in SUBSET (1 .. n + 1)
      BY <1>1
    <3>4. h[s \ {n + 1}] = F[s \ {n + 1}]
      BY <3>2, <3>3
    <3>5. h[s] = Each(what, F[s \ {n + 1}], chs[n + 1])
      BY <1>1, <2>1
    <3>6. e(s) = Each(what, h[s \ {n + 1}], chs[n + 1])
      BY <2>1, <3>1
    <3>7. QED
      BY <3>4, <3>5, <3>6
  <2>2. CASE n + 1 \notin s
    <3>1. s \in SUBSET (1 .. n)
      BY <1>1, <2>2
    <3>2. h[s] = F[s]
      BY <1>1, <2>2
    <3>3. F[s] = IF s = {} THEN o
                 ELSE Each(what, F[s \ {Max(s)}], chs[Max(s)])
      BY <3>1, Zenon DEF Folds
    <3>4. s \ {Max(s)} \in SUBSET (1 .. n + 1)
      BY <1>1
    <3>5. h[s \ {Max(s)}] = F[s \ {Max(s)}]
      BY <2>2, <3>4
    <3>6. QED
      BY <3>2, <3>3, <3>5
  <2>3. QED
    BY <2>1, <2>2
<1>2. h = [s \in SUBSET (1 .. n + 1) |-> e(s)]
  <2>1. h = [s \in SUBSET (1 .. n + 1) |-> h[s]]
    OBVIOUS
  <2> HIDE DEF h, e
  <2>2. QED
    BY <1>1, <2>1
<1>3. Folds(what, o, chs, 1 .. n + 1, h)
  <2> HIDE DEF h
  <2>1. QED
    BY <1>2 DEF Folds
<1>4. QED
  BY <1>3

(* There is a fold of every length. *)
LEMMA FoldExists ==
  ASSUME NEW what, NEW o, NEW chs, NEW n \in Nat
  PROVE  \E F : Folds(what, o, chs, 1 .. n, F)
<1> DEFINE S == {m \in Nat : \E F : Folds(what, o, chs, 1 .. m, F)}
<1>1. 0 \in S
  <2> DEFINE h == [s \in SUBSET (1 .. 0) |-> o]
  <2>1. \A s \in SUBSET (1 .. 0) : s = {}
    OBVIOUS
  <2>2. h = [s \in SUBSET (1 .. 0) |->
               IF s = {} THEN o
               ELSE Each(what, h[s \ {Max(s)}], chs[Max(s)])]
    BY <2>1
  <2>3. Folds(what, o, chs, 1 .. 0, h)
    <3> HIDE DEF h
    <3>1. QED
      BY <2>2 DEF Folds
  <2>4. QED
    BY <2>3
<1>2. ASSUME NEW m \in Nat, m \in S
      PROVE  m + 1 \in S
  <2>1. PICK F : Folds(what, o, chs, 1 .. m, F)
    BY <1>2
  <2>2. \E h : Folds(what, o, chs, 1 .. m + 1, h)
    BY <1>2, <2>1, FoldGrows
  <2>3. QED
    BY <2>2
<1> HIDE DEF S
<1>3. Nat \subseteq S
  BY <1>1, <1>2, NatInductive
<1>4. QED
  BY <1>3 DEF S

(* the states that a fold over n of them goes through *)
Steps(what, o, chs, n, st) ==
  /\ st[0] = o
  /\ \A k \in 1 .. n : st[k] = Each(what, st[k - 1], chs[k])
  /\ what = "pieces" => FoldLeft(block_write, o, chs) = st[n]
  /\ what # "pieces" => FoldLeft(nk_fputc, o, chs) = st[n]

(* A fold takes a step for each of them, one after the other. *)
LEMMA FoldSteps ==
  ASSUME NEW what, NEW o, NEW chs, NEW n \in Nat, DOMAIN chs = 1 .. n
  PROVE  \E st : Steps(what, o, chs, n, st)
<1> DEFINE F == CHOOSE h : Folds(what, o, chs, 1 .. n, h)
           st == [k \in 0 .. n |-> F[1 .. k]]
<1>1. Folds(what, o, chs, 1 .. n, F)
  BY FoldExists
<1>2. what = "pieces" => FoldLeft(block_write, o, chs) = F[1 .. n]
  <2> HAVE what = "pieces"
  <2>1. FoldLeft(block_write, o, chs) =
          (CHOOSE h : h = [s \in SUBSET DOMAIN chs |->
                IF s = {} THEN o
                ELSE block_write(h[s \ {Max(s)}], chs[Max(s)])])[DOMAIN chs]
    BY DEF FoldLeft, MapThenFoldSet
  <2>2. QED
    BY <2>1 DEF Folds, Each
<1>3. what # "pieces" => FoldLeft(nk_fputc, o, chs) = F[1 .. n]
  <2> HAVE what # "pieces"
  <2>1. FoldLeft(nk_fputc, o, chs) =
          (CHOOSE h : h = [s \in SUBSET DOMAIN chs |->
                IF s = {} THEN o
                ELSE nk_fputc(h[s \ {Max(s)}], chs[Max(s)])])[DOMAIN chs]
    BY DEF FoldLeft, MapThenFoldSet
  <2>2. QED
    BY <2>1 DEF Folds, Each
<1> HIDE DEF F
<1>4. st[0] = o
  <2>1. 1 .. 0 = {} /\ 1 .. 0 \in SUBSET (1 .. n)
    OBVIOUS
  <2>2. F[1 .. 0] = o
    BY <1>1, <2>1, Zenon DEF Folds
  <2>3. QED
    BY <2>2
<1>5. ASSUME NEW k \in 1 .. n
      PROVE  st[k] = Each(what, st[k - 1], chs[k])
  <2>1. 1 .. k \in SUBSET (1 .. n) /\ 1 .. k # {}
    <3>1. 1 .. k \subseteq 1 .. n /\ 1 \in 1 .. k
      OBVIOUS
    <3>2. QED
      BY <3>1
  <2>2. Max(1 .. k) = k
    BY MaxIs
  <2>3. (1 .. k) \ {k} = 1 .. k - 1
    OBVIOUS
  <2>4. F[1 .. k] = Each(what, F[(1 .. k) \ {Max(1 .. k)}], chs[Max(1 .. k)])
    BY <1>1, <2>1, Zenon DEF Folds
  <2>5. F[1 .. k] = Each(what, F[1 .. k - 1], chs[k])
    BY <2>2, <2>3, <2>4
  <2>6. st[k] = F[1 .. k] /\ st[k - 1] = F[1 .. k - 1]
    OBVIOUS
  <2> HIDE DEF st
  <2>7. QED
    BY <2>5, <2>6
<1>6. st[n] = F[1 .. n]
  OBVIOUS
<1> HIDE DEF st
<1>7. QED
  BY <1>2, <1>3, <1>4, <1>5, <1>6 DEF Steps

-----------------------------------------------------------------------------
(* Writing *)

(* the values of the fields of an output file *)
WriterState ==
  [medium : Media, ptr : 0 .. BlockSize, failed : BOOLEAN,
   buf : Seq(Char), out : Seq(Char), fault : Nat]

(* a file that is being written: blocks have been given to the device in    *)
(* units of the granularity; without a buffer nothing is in one; in memory  *)
(* everything is                                                            *)
WriterOK(o) ==
  /\ o \in WriterState
  /\ Len(o.buf) = BlockSize
  /\ o.medium = "blocks" => Len(o.out) % Granularity = 0
  /\ o.medium = "direct" => o.ptr = 0
  /\ o.medium = "memory" => o.out = << >>

(* what has been put to it *)
InBuffer(o) == SubSeq(o.buf, 1, o.ptr)
(* what the program has written: on the device and in the buffer *)
Held(o) == o.out \o InBuffer(o)

(* an access between o and p has failed *)
Hit(o, p) == o.fault > 0 /\ p.fault = 0

(* p holds what o holds and n more, which are the first of s, except for    *)
(* what a failed access has spoiled                                         *)
Appended(o, p, s, n) ==
  /\ Len(Held(p)) = Len(Held(o)) + n
  /\ \A i \in 1 .. Len(Held(o)) :
       Held(p)[i] = Held(o)[i] \/ (Hit(o, p) /\ Held(p)[i] = Spoiled)
  /\ \A i \in 1 .. n :
       \/ Held(p)[Len(Held(o)) + i] = s[i]
       \/ Hit(o, p) /\ Held(p)[Len(Held(o)) + i] = Spoiled

(* p is what o becomes when the first n characters of s are put *)
Reached(o, p, s, n) ==
  /\ WriterOK(p)
  /\ p.medium = o.medium
  /\ p.fault <= o.fault
  /\ o.medium # "memory" =>
       /\ Appended(o, p, s, n)
       /\ p.failed = (o.failed \/ Hit(o, p))
  /\ o.medium = "memory" =>
       /\ p.fault = o.fault
       /\ o.failed => p.failed
       /\ \/ Len(Held(o)) + n > BlockSize /\ p.failed
          \/ Appended(o, p, s, n) /\ p.failed = o.failed

(* What a file that is being written holds is a sequence. *)
LEMMA HeldProps ==
  ASSUME NEW o, WriterOK(o)
  PROVE  /\ InBuffer(o) \in Seq(Char) /\ Len(InBuffer(o)) = o.ptr
         /\ \A i \in 1 .. o.ptr : InBuffer(o)[i] = o.buf[i]
         /\ Held(o) \in Seq(Char)
         /\ Len(Held(o)) = Len(o.out) + o.ptr
         /\ \A i \in 1 .. Len(o.out) : Held(o)[i] = o.out[i]
         /\ \A i \in 1 .. o.ptr : Held(o)[Len(o.out) + i] = o.buf[i]
         /\ Len(o.out) \in Nat /\ o.ptr \in Nat /\ o.fault \in Nat
<1>1. /\ o.buf \in Seq(Char) /\ Len(o.buf) = BlockSize
      /\ o.out \in Seq(Char) /\ o.ptr \in 0 .. BlockSize /\ o.fault \in Nat
  BY DEF WriterOK, WriterState
<1>2. BlockSize \in Nat /\ Len(o.out) \in Nat
  BY <1>1, FileConstantsOK, LenProperties
<1> DEFINE b == InBuffer(o)
           p == o.ptr
           q == o.buf
           u == o.out
           h == Held(o)
<1>3. /\ b \in Seq(Char) /\ Len(b) = p
      /\ \A i \in 1 .. p : b[i] = q[i]
  <2>1. 1 \in 1 .. Len(q) + 1 /\ p \in 1 - 1 .. Len(q)
    BY <1>1, <1>2
  <2>2. b = SubSeq(q, 1, p)
    BY DEF InBuffer
  <2>3. p \in Nat /\ q \in Seq(Char)
    BY <1>1, <1>2
  <2> HIDE DEF b, p, q
  <2>4. /\ b \in Seq(Char) /\ Len(b) = p - 1 + 1
        /\ \A i \in 1 .. p - 1 + 1 : b[i] = q[1 + i - 1]
    BY <2>1, <2>2, <2>3, SliceProps
  <2>5. QED
    BY <2>3, <2>4
<1>4. h = u \o b
  BY DEF Held
<1>5. u \in Seq(Char) /\ Len(u) \in Nat /\ p \in Nat /\ o.fault \in Nat
  BY <1>1, <1>2
<1> HIDE DEF b, p, q, u, h
<1>6. /\ h \in Seq(Char) /\ Len(h) = Len(u) + p
      /\ \A i \in 1 .. Len(u) : h[i] = u[i]
      /\ \A i \in 1 .. p : h[Len(u) + i] = b[i]
  <2>1. /\ u \o b \in Seq(Char) /\ Len(u \o b) = Len(u) + Len(b)
        /\ \A i \in 1 .. Len(u) : (u \o b)[i] = u[i]
        /\ \A i \in 1 .. Len(b) : (u \o b)[Len(u) + i] = b[i]
    <3>1. u \in Seq(Char) /\ b \in Seq(Char)
      BY <1>3, <1>5
    <3>2. QED
      BY ONLY <3>1, ConcatProps
  <2>2. QED
    BY <1>3, <1>4, <2>1
<1>7. \A i \in 1 .. p : h[Len(u) + i] = q[i]
  BY <1>3, <1>6
<1>8. QED
  BY <1>3, <1>5, <1>6, <1>7 DEF b, p, q, u, h

(* An access to the device appends what it is given, or as much that is     *)
(* spoiled.                                                                 *)
LEMMA BlockWritten ==
  ASSUME NEW o \in WriterState, NEW s \in Seq(Char)
  PROVE  LET p == block_write(o, s)
         IN  /\ p \in WriterState
             /\ p.medium = o.medium /\ p.ptr = o.ptr /\ p.buf = o.buf
             /\ p.fault = OneLess(o.fault)
             /\ p.failed = (o.failed \/ o.fault = 1)
             /\ Len(p.out) = Len(o.out) + Len(s)
             /\ \A i \in 1 .. Len(o.out) : p.out[i] = o.out[i]
             /\ \A i \in 1 .. Len(s) :
                  p.out[Len(o.out) + i] = IF o.fault = 1 THEN Spoiled ELSE s[i]
<1> DEFINE p == block_write(o, s)
           x == IF o.fault = 1 THEN [i \in DOMAIN s |-> Spoiled] ELSE s
           u == o.out
<1>1. /\ u \in Seq(Char) /\ Len(u) \in Nat /\ Len(s) \in Nat
      /\ o.fault \in Nat /\ o.failed \in BOOLEAN
  BY LenProperties DEF WriterState
<1>2. /\ x \in Seq(Char) /\ Len(x) = Len(s)
      /\ \A i \in 1 .. Len(s) : x[i] = IF o.fault = 1 THEN Spoiled ELSE s[i]
  <2>1. CASE o.fault = 1
    <3>1. Spoiled \in Char
      BY FileConstantsOK DEF Spoiled, Char
    <3>2. DOMAIN s = 1 .. Len(s)
      BY LenProperties
    <3>3. x = [i \in 1 .. Len(s) |-> Spoiled]
      BY <2>1, <3>2
    <3> HIDE DEF x
    <3>4. x \in Seq(Char) /\ Len(x) = Len(s)
      BY <1>1, <3>1, <3>3
    <3>5. QED
      BY <2>1, <3>3, <3>4
  <2>2. CASE o.fault # 1
    BY <2>2
  <2>3. QED
    BY <2>1, <2>2
<1>3. p = [o EXCEPT !.out = u \o x, !.failed = o.failed \/ o.fault = 1,
                    !.fault = OneLess(o.fault)]
  BY DEF block_write
<1> HIDE DEF p, x
<1>4. /\ p.medium = o.medium /\ p.ptr = o.ptr /\ p.buf = o.buf
      /\ p.fault = OneLess(o.fault) /\ p.out = u \o x
      /\ p.failed = (o.failed \/ o.fault = 1)
  BY <1>3 DEF WriterState
<1>5. /\ u \o x \in Seq(Char) /\ Len(u \o x) = Len(u) + Len(s)
      /\ \A i \in 1 .. Len(u) : (u \o x)[i] = u[i]
      /\ \A i \in 1 .. Len(s) : (u \o x)[Len(u) + i] = x[i]
  <2>1. /\ u \o x \in Seq(Char) /\ Len(u \o x) = Len(u) + Len(x)
        /\ \A i \in 1 .. Len(u) : (u \o x)[i] = u[i]
        /\ \A i \in 1 .. Len(x) : (u \o x)[Len(u) + i] = x[i]
    <3>1. u \in Seq(Char) /\ x \in Seq(Char)
      BY <1>1, <1>2
    <3>2. QED
      BY ONLY <3>1, ConcatProps
  <2>2. QED
    BY <1>2, <2>1
<1>6. OneLess(o.fault) \in Nat
  BY <1>1 DEF OneLess
<1>7. p \in WriterState
  <2> DEFINE v == u \o x
             w == OneLess(o.fault)
             y == (o.failed \/ o.fault = 1)
  <2>1. v \in Seq(Char) /\ w \in Nat /\ y \in BOOLEAN
    BY <1>5, <1>6
  <2>2. p = [o EXCEPT !.out = v, !.failed = y, !.fault = w]
    BY <1>3
  <2> HIDE DEF v, w, y
  <2>3. QED
    BY <2>1, <2>2 DEF WriterState
<1>8. QED
  BY <1>2, <1>4, <1>5, <1>7 DEF p, u

(* A flush gives the device what is in the buffer, up to a multiple of the  *)
(* granularity.                                                             *)
LEMMA FlushProps ==
  ASSUME NEW o, WriterOK(o), o.medium # "memory"
  PROVE  LET p == nk_fflush(o)
         IN  /\ WriterOK(p)
             /\ p.medium = o.medium /\ p.ptr = 0 /\ p.buf = o.buf
             /\ p.fault = OneLess(o.fault)
             /\ p.failed = (o.failed \/ o.fault = 1)
             /\ Len(p.out) = Len(o.out) + RoundUp(o.ptr)
             /\ \A i \in 1 .. Len(Held(o)) :
                  \/ p.out[i] = Held(o)[i]
                  \/ o.fault = 1 /\ p.out[i] = Spoiled
<1> DEFINE first == [o EXCEPT !.ptr = 0]
           q == o.buf
           n == RoundUp(o.ptr)
           s == SubSeq(q, 1, n)
           p == nk_fflush(o)
           u == o.out
           m == Len(u)
<1>1. /\ o \in WriterState /\ q \in Seq(Char) /\ Len(q) = BlockSize
      /\ o.ptr \in 0 .. BlockSize /\ BlockSize \in Nat
      /\ u \in Seq(Char) /\ m \in Nat
  BY FileConstantsOK, LenProperties DEF WriterOK, WriterState
<1>2. n \in Nat /\ n >= o.ptr /\ n <= BlockSize /\ n % Granularity = 0
  <2>1. o.ptr \in Nat /\ o.ptr <= BlockSize
    BY <1>1
  <2>2. QED
    BY <2>1, RoundUpProps
<1>3. p = block_write(first, s)
  BY DEF nk_fflush
<1>4. /\ first \in WriterState
      /\ first.medium = o.medium /\ first.ptr = 0 /\ first.buf = q
      /\ first.failed = o.failed /\ first.out = u /\ first.fault = o.fault
  BY <1>1 DEF WriterState
<1>5. /\ s \in Seq(Char) /\ Len(s) = n
      /\ \A i \in 1 .. n : s[i] = q[i]
  <2>1. 1 \in 1 .. Len(q) + 1 /\ n \in 1 - 1 .. Len(q)
    BY <1>1, <1>2
  <2> HIDE DEF n, q
  <2>2. /\ s \in Seq(Char) /\ Len(s) = n - 1 + 1
        /\ \A i \in 1 .. n - 1 + 1 : s[i] = q[1 + i - 1]
    BY <1>1, <2>1, SliceProps
  <2>3. QED
    BY <1>2, <2>2
<1> HIDE DEF first, s, p, n
<1>6. /\ p \in WriterState
      /\ p.medium = o.medium /\ p.ptr = 0 /\ p.buf = q
      /\ p.fault = OneLess(o.fault)
      /\ p.failed = (o.failed \/ o.fault = 1)
      /\ Len(p.out) = m + n
      /\ \A i \in 1 .. m : p.out[i] = u[i]
      /\ \A i \in 1 .. n :
           p.out[m + i] = IF o.fault = 1 THEN Spoiled ELSE s[i]
  <2>1. /\ p \in WriterState
        /\ p.medium = first.medium /\ p.ptr = first.ptr /\ p.buf = first.buf
        /\ p.fault = OneLess(first.fault)
        /\ p.failed = (first.failed \/ first.fault = 1)
        /\ Len(p.out) = Len(first.out) + Len(s)
        /\ \A i \in 1 .. Len(first.out) : p.out[i] = first.out[i]
        /\ \A i \in 1 .. Len(s) :
             p.out[Len(first.out) + i] =
               IF first.fault = 1 THEN Spoiled ELSE s[i]
    <3>1. first \in WriterState /\ s \in Seq(Char)
      BY <1>4, <1>5
    <3>2. QED
      BY ONLY <1>3, <3>1, BlockWritten
  <2>2. QED
    BY <1>4, <1>5, <2>1
<1>7. WriterOK(p)
  <2>1. Len(p.buf) = BlockSize
    BY <1>1, <1>6
  <2>2. p.medium = "blocks" => Len(p.out) % Granularity = 0
    <3> HAVE p.medium = "blocks"
    <3>1. m % Granularity = 0
      BY <1>6 DEF WriterOK
    <3>2. (m + n) % Granularity = 0
      <4>1. Granularity \in Nat \ {0} /\ m \in Nat /\ n \in Nat
        BY <1>1, <1>2, FileConstantsOK
      <4> HIDE DEF m
      <4>2. QED
        BY <1>2, <3>1, <4>1, MultiplesAdd
    <3>3. QED
      BY <1>6, <3>2
  <2>3. QED
    BY <1>6, <2>1, <2>2 DEF WriterOK
<1>8. ASSUME NEW i \in 1 .. Len(Held(o))
      PROVE  p.out[i] = Held(o)[i] \/ (o.fault = 1 /\ p.out[i] = Spoiled)
  <2>1. /\ Len(Held(o)) = m + o.ptr
        /\ \A k \in 1 .. m : Held(o)[k] = u[k]
        /\ \A k \in 1 .. o.ptr : Held(o)[m + k] = q[k]
    BY HeldProps
  <2> DEFINE h == Held(o)
             x == o.ptr
             w == p.out
             k == i - m
  <2>2. i \in 1 .. m + x /\ x \in Nat
    BY <1>1, <1>8, <2>1
  <2> HIDE DEF h, x, w, m
  <2>3. CASE i <= m
    <3>1. i \in 1 .. m
      BY <1>1, <2>2, <2>3
    <3>2. w[i] = u[i]
      BY <1>6, <3>1 DEF w
    <3>3. h[i] = u[i]
      BY <2>1, <3>1 DEF h
    <3>4. QED
      BY <3>2, <3>3 DEF h, w
  <2>4. CASE i > m
    <3>1. k \in 1 .. x /\ i = m + k /\ k \in 1 .. n
      BY <1>1, <1>2, <2>2, <2>4 DEF x
    <3>2. w[m + k] = IF o.fault = 1 THEN Spoiled ELSE s[k]
      BY <1>6, <3>1 DEF w
    <3>3. h[m + k] = q[k]
      BY <2>1, <3>1 DEF h, x
    <3>4. s[k] = q[k]
      BY <1>5, <3>1
    <3> HIDE DEF k
    <3>5. QED
      BY <3>1, <3>2, <3>3, <3>4 DEF h, w
  <2>5. QED
    BY <1>1, <2>2, <2>3, <2>4
<1>9. QED
  BY <1>6, <1>7, <1>8 DEF p, q, u, m, n

(* A character goes into a buffer that has room for it. *)
LEMMA Stored ==
  ASSUME NEW o, WriterOK(o), o.medium # "direct", o.ptr # BlockSize,
         NEW s, s[1] \in Char
  PROVE  LET p == [o EXCEPT !.buf[o.ptr + 1] = s[1], !.ptr = @ + 1]
         IN  /\ WriterOK(p)
             /\ p.medium = o.medium /\ p.failed = o.failed
             /\ p.fault = o.fault
             /\ Appended(o, p, s, 1)
<1> DEFINE ch == s[1]
           b == [o.buf EXCEPT ![o.ptr + 1] = ch]
           n == o.ptr + 1
           p == [o EXCEPT !.buf[o.ptr + 1] = s[1], !.ptr = @ + 1]
           u == o.out
           m == Len(u)
<1>1. /\ o \in WriterState /\ o.buf \in Seq(Char) /\ Len(o.buf) = BlockSize
      /\ o.ptr \in Nat /\ n \in 1 .. BlockSize /\ BlockSize \in Nat
      /\ m \in Nat
  BY FileConstantsOK, LenProperties DEF WriterOK, WriterState
<1>2. b \in Seq(Char) /\ Len(b) = BlockSize
  <2> DEFINE q == o.buf
  <2>1. q \in [1 .. Len(q) -> Char]
    <3>1. q \in Seq(Char)
      BY <1>1
    <3> HIDE DEF q
    <3>2. QED
      BY <3>1, LenProperties, SeqDef
  <2>2. b \in [1 .. BlockSize -> Char]
    BY <1>1, <2>1
  <2> HIDE DEF b
  <2>3. QED
    BY <1>1, <2>2
<1>3. b[n] = ch /\ \A i \in 1 .. o.ptr : b[i] = o.buf[i]
  <2>1. DOMAIN o.buf = 1 .. BlockSize
    BY <1>1, LenProperties
  <2>2. b[n] = ch
    BY <1>1, <2>1
  <2>3. ASSUME NEW i \in 1 .. o.ptr
        PROVE  b[i] = o.buf[i]
    <3>1. i # o.ptr + 1 /\ i \in 1 .. BlockSize
      BY <1>1, <2>3
    <3>2. QED
      BY <2>1, <3>1
  <2>4. QED
    BY <2>2, <2>3
<1> HIDE DEF b, ch
<1>4. p = [o EXCEPT !.buf = b, !.ptr = n]
  BY DEF b, ch
<1> HIDE DEF p, n
<1>5. /\ p.medium = o.medium /\ p.failed = o.failed /\ p.fault = o.fault
      /\ p.buf = b /\ p.ptr = n /\ p.out = u
  BY <1>4 DEF WriterState, WriterOK
<1>6. WriterOK(p)
  <2>1. p \in WriterState
    <3>1. n \in 0 .. BlockSize
      BY <1>1
    <3>2. QED
      BY <1>1, <1>2, <1>4, <3>1 DEF WriterState
  <2>2. QED
    BY <1>2, <1>5, <2>1 DEF WriterOK
<1>7. Appended(o, p, s, 1)
  <2> DEFINE h == Held(o)
             k == Held(p)
             x == o.ptr
  <2>1. /\ Len(h) = m + x
        /\ \A i \in 1 .. m : h[i] = u[i]
        /\ \A i \in 1 .. x : h[m + i] = o.buf[i]
    BY HeldProps
  <2>2. /\ Len(k) = m + n
        /\ \A i \in 1 .. m : k[i] = u[i]
        /\ \A i \in 1 .. n : k[m + i] = b[i]
    <3>1. /\ Len(k) = Len(p.out) + p.ptr
          /\ \A i \in 1 .. Len(p.out) : k[i] = p.out[i]
          /\ \A i \in 1 .. p.ptr : k[Len(p.out) + i] = p.buf[i]
      BY ONLY <1>6, HeldProps
    <3>2. QED
      BY <1>5, <3>1
  <2>3. n = x + 1 /\ x \in Nat
    BY <1>1 DEF n
  <2> HIDE DEF h, k, x, m
  <2>4. Len(k) = Len(h) + 1
    BY <1>1, <2>1, <2>2, <2>3
  <2>5. ASSUME NEW i \in 1 .. Len(h)
        PROVE  k[i] = h[i]
    <3>1. CASE i <= m
      <4>1. i \in 1 .. m
        BY <1>1, <2>1, <2>5, <3>1
      <4>2. QED
        BY <2>1, <2>2, <4>1
    <3>2. CASE i > m
      <4> DEFINE j == i - m
      <4>1. i = m + j /\ j \in 1 .. x /\ j \in 1 .. n
        BY <1>1, <2>1, <2>3, <2>5, <3>2
      <4> HIDE DEF j
      <4>2. k[m + j] = b[j] /\ h[m + j] = o.buf[j] /\ b[j] = o.buf[j]
        BY <1>3, <2>1, <2>2, <4>1 DEF x
      <4>3. QED
        BY <4>1, <4>2
    <3>3. QED
      BY <1>1, <2>1, <2>3, <2>5, <3>1, <3>2
  <2>6. k[Len(h) + 1] = s[1]
    <3>1. Len(h) + 1 = m + n
      BY <1>1, <2>1, <2>3
    <3>2. n \in 1 .. n
      BY <2>3
    <3>3. k[m + n] = b[n]
      BY <2>2, <3>2
    <3>4. QED
      BY <1>3, <3>1, <3>3 DEF ch
  <2>7. ASSUME NEW i \in 1 .. 1
        PROVE  k[Len(h) + i] = s[i]
    <3>1. i = 1
      OBVIOUS
    <3>2. QED
      BY <2>6, <3>1
  <2>8. QED
    BY <2>4, <2>5, <2>7, Zenon DEF Appended, h, k
<1>8. QED
  BY <1>5, <1>6, <1>7 DEF p

(* What is put one after the other is put together. *)
LEMMA ReachedTwice ==
  ASSUME NEW o, NEW p, NEW q, NEW s, NEW t, NEW n \in Nat, NEW m \in Nat,
         WriterOK(o), Reached(o, p, s, n), Reached(p, q, t, m),
         \A i \in 1 .. m : t[i] = s[n + i]
  PROVE  Reached(o, q, s, n + m)
<1>1. /\ WriterOK(p) /\ WriterOK(q)
      /\ p.medium = o.medium /\ q.medium = o.medium
  BY DEF Reached
<1> DEFINE x == o.fault
           y == p.fault
           z == q.fault
<1>2. x \in Nat /\ y \in Nat /\ z \in Nat
  BY <1>1, HeldProps
<1>3. y <= x /\ z <= y
  BY DEF Reached
<1>4. z <= x
  BY <1>2, <1>3
<1>5. Hit(o, q) <=> Hit(o, p) \/ Hit(p, q)
  <2> HIDE DEF x, y, z
  <2>1. (x > 0 /\ z = 0) <=> (x > 0 /\ y = 0) \/ (y > 0 /\ z = 0)
    BY <1>2, <1>3
  <2>2. QED
    BY <2>1 DEF Hit, x, y, z
<1> DEFINE h == Held(o)
           k == Held(p)
           l == Held(q)
           a == Len(h)
<1>6. a \in Nat
  <2>1. h \in Seq(Char)
    BY HeldProps
  <2>2. QED
    BY <2>1, LenProperties
<1>7. ASSUME Appended(o, p, s, n), Appended(p, q, t, m)
      PROVE  Appended(o, q, s, n + m)
  <2>1. Len(k) = a + n /\ Len(l) = Len(k) + m
    BY <1>7 DEF Appended
  <2>2. /\ \A i \in 1 .. a : k[i] = h[i] \/ (Hit(o, p) /\ k[i] = Spoiled)
        /\ \A i \in 1 .. n :
             k[a + i] = s[i] \/ (Hit(o, p) /\ k[a + i] = Spoiled)
    BY <1>7, Zenon DEF Appended
  <2>3. /\ \A i \in 1 .. Len(k) :
             l[i] = k[i] \/ (Hit(p, q) /\ l[i] = Spoiled)
        /\ \A i \in 1 .. m : \/ l[Len(k) + i] = t[i]
                             \/ Hit(p, q) /\ l[Len(k) + i] = Spoiled
    BY <1>7, Zenon DEF Appended
  <2> HIDE DEF h, k, l, a
  <2>4. Len(l) = a + (n + m)
    BY <1>6, <2>1
  <2>5. ASSUME NEW i \in 1 .. a
        PROVE  l[i] = h[i] \/ (Hit(o, q) /\ l[i] = Spoiled)
    <3>1. i \in 1 .. Len(k)
      BY <1>6, <2>1, <2>5
    <3>2. QED
      BY <1>5, <2>2, <2>3, <2>5, <3>1, Zenon
  <2>6. ASSUME NEW i \in 1 .. n + m
        PROVE  l[a + i] = s[i] \/ (Hit(o, q) /\ l[a + i] = Spoiled)
    <3>1. CASE i <= n
      <4>1. i \in 1 .. n /\ a + i \in 1 .. Len(k)
        BY <1>6, <2>1, <2>6, <3>1
      <4>2. QED
        BY <1>5, <2>2, <2>3, <4>1, Zenon
    <3>2. CASE i > n
      <4> DEFINE j == i - n
      <4>1. j \in 1 .. m /\ i = n + j /\ a + i = Len(k) + j
        BY <1>6, <2>1, <2>6, <3>2
      <4> HIDE DEF j
      <4>2. l[Len(k) + j] = t[j] \/ (Hit(p, q) /\ l[Len(k) + j] = Spoiled)
        BY <2>3, <4>1, Zenon
      <4>3. t[j] = s[n + j]
        BY <4>1
      <4>4. QED
        BY <1>5, <4>1, <4>2, <4>3
    <3>3. QED
      BY <2>6, <3>1, <3>2
  <2>7. QED
    BY <2>4, <2>5, <2>6, Zenon DEF Appended, h, l, a
<1>8. CASE o.medium # "memory"
  <2>1. Appended(o, p, s, n) /\ p.failed = (o.failed \/ Hit(o, p))
    BY <1>8, Zenon DEF Reached
  <2>2. Appended(p, q, t, m) /\ q.failed = (p.failed \/ Hit(p, q))
    BY <1>1, <1>8, Zenon DEF Reached
  <2>3. q.failed = (o.failed \/ Hit(o, q))
    BY <1>5, <2>1, <2>2
  <2>4. Appended(o, q, s, n + m)
    BY <1>7, <2>1, <2>2
  <2>5. q.fault <= o.fault
    BY <1>4
  <2>6. QED
    BY <1>1, <1>8, <2>3, <2>4, <2>5, Zenon DEF Reached
<1>9. CASE o.medium = "memory"
  <2>1. /\ p.fault = o.fault /\ (o.failed => p.failed)
        /\ \/ a + n > BlockSize /\ p.failed
           \/ Appended(o, p, s, n) /\ p.failed = o.failed
    BY <1>9 DEF Reached
  <2>2. /\ q.fault = p.fault /\ (p.failed => q.failed)
        /\ \/ Len(k) + m > BlockSize /\ q.failed
           \/ Appended(p, q, t, m) /\ q.failed = p.failed
    BY <1>1, <1>9 DEF Reached
  <2>3. BlockSize \in Nat
    BY FileConstantsOK
  <2>4. \/ a + (n + m) > BlockSize /\ q.failed
        \/ Appended(o, q, s, n + m) /\ q.failed = o.failed
    <3>1. CASE a + n > BlockSize /\ p.failed
      <4>1. a + (n + m) > BlockSize
        BY <1>6, <2>3, <3>1
      <4>2. QED
        BY <2>2, <3>1, <4>1
    <3>2. CASE /\ Appended(o, p, s, n) /\ p.failed = o.failed
               /\ Len(k) + m > BlockSize /\ q.failed
      <4>1. Len(k) = a + n
        BY <3>2 DEF Appended
      <4>2. a + (n + m) > BlockSize
        <5> HIDE DEF a, k
        <5>1. QED
          BY <1>6, <2>3, <3>2, <4>1
      <4>3. QED
        BY <3>2, <4>2
    <3>3. CASE /\ Appended(o, p, s, n) /\ p.failed = o.failed
               /\ Appended(p, q, t, m) /\ q.failed = p.failed
      BY <1>7, <3>3
    <3>4. QED
      BY <2>1, <2>2, <3>1, <3>2, <3>3
  <2>5. q.fault = o.fault /\ (o.failed => q.failed)
    BY <2>1, <2>2
  <2>6. q.fault <= o.fault
    BY <1>4
  <2>7. QED
    BY <1>1, <1>9, <2>4, <2>5, <2>6, Zenon DEF Reached
<1>10. QED
  BY <1>8, <1>9

(* A file that is not in a buffer holds what has been given to the device. *)
LEMMA EmptyBuffer ==
  ASSUME NEW o, WriterOK(o), o.ptr = 0
  PROVE  /\ Held(o) \in Seq(Char) /\ Len(Held(o)) = Len(o.out)
         /\ \A i \in 1 .. Len(o.out) : Held(o)[i] = o.out[i]
         /\ Held(o) = o.out
<1>1. /\ Held(o) \in Seq(Char) /\ Len(Held(o)) = Len(o.out) + o.ptr
      /\ \A i \in 1 .. Len(o.out) : Held(o)[i] = o.out[i]
      /\ Len(o.out) \in Nat
  BY HeldProps
<1>2. Len(Held(o)) = Len(o.out)
  BY <1>1
<1>3. o.out \in Seq(Char)
  BY DEF WriterOK, WriterState
<1> DEFINE h == Held(o)
           u == o.out
<1> HIDE DEF h, u
<1>4. h \in Seq(Char) /\ u \in Seq(Char) /\ Len(h) = Len(u)
      /\ \A i \in 1 .. Len(h) : h[i] = u[i]
  BY <1>1, <1>2, <1>3 DEF h, u
<1>5. h = u
  BY <1>4, SeqEqual
<1>6. QED
  BY <1>1, <1>2, <1>5 DEF h, u

(* A hit is an access that fails. *)
LEMMA HitIs ==
  ASSUME NEW o, NEW p, o.fault \in Nat, p.fault = OneLess(o.fault)
  PROVE  (Hit(o, p) <=> o.fault = 1) /\ p.fault <= o.fault /\ p.fault \in Nat
<1> DEFINE x == o.fault
           y == p.fault
<1>1. x \in Nat /\ y = IF x = 0 THEN 0 ELSE x - 1
  BY DEF OneLess
<1> HIDE DEF x, y
<1>2. ((x > 0 /\ y = 0) <=> x = 1) /\ y <= x /\ y \in Nat
  BY <1>1
<1>3. QED
  BY <1>2 DEF x, y, Hit

(* Without a buffer everything goes to the device. *)
LEMMA ReachedBlock ==
  ASSUME NEW o, WriterOK(o), o.medium = "direct", NEW s \in Seq(Char)
  PROVE  Reached(o, block_write(o, s), s, Len(s))
<1> DEFINE p == block_write(o, s)
           n == Len(o.out)
<1>1. o \in WriterState /\ o.ptr = 0 /\ o.fault \in Nat
      /\ Len(o.buf) = BlockSize
  BY DEF WriterOK, WriterState
<1>2. /\ p \in WriterState
      /\ p.medium = o.medium /\ p.ptr = o.ptr /\ p.buf = o.buf
      /\ p.fault = OneLess(o.fault)
      /\ p.failed = (o.failed \/ o.fault = 1)
      /\ Len(p.out) = n + Len(s)
      /\ \A i \in 1 .. n : p.out[i] = o.out[i]
      /\ \A i \in 1 .. Len(s) :
           p.out[n + i] = IF o.fault = 1 THEN Spoiled ELSE s[i]
  BY <1>1, BlockWritten
<1> HIDE DEF p
<1>3. WriterOK(p)
  BY <1>1, <1>2 DEF WriterOK
<1>4. (Hit(o, p) <=> o.fault = 1) /\ p.fault <= o.fault
  BY <1>1, <1>2, HitIs
<1>5. Held(o) = o.out /\ Held(p) = p.out
  <2>1. p.ptr = 0
    BY <1>1, <1>2
  <2>2. QED
    BY <1>1, <1>3, <2>1, EmptyBuffer
<1>6. Appended(o, p, s, Len(s))
  BY <1>2, <1>4, <1>5 DEF Appended
<1>7. p.failed = (o.failed \/ Hit(o, p))
  BY <1>2, <1>4
<1>8. QED
  BY <1>2, <1>3, <1>4, <1>6, <1>7, Zenon DEF Reached, p

(* The buffer is flushed when it is full. *)
LEMMA ReachedFlush ==
  ASSUME NEW o, WriterOK(o), o.medium # "memory", o.ptr = BlockSize, NEW s
  PROVE  Reached(o, nk_fflush(o), s, 0)
<1> DEFINE p == nk_fflush(o)
<1>1. /\ WriterOK(p)
      /\ p.medium = o.medium /\ p.ptr = 0
      /\ p.fault = OneLess(o.fault)
      /\ p.failed = (o.failed \/ o.fault = 1)
      /\ Len(p.out) = Len(o.out) + RoundUp(o.ptr)
      /\ \A i \in 1 .. Len(Held(o)) :
           \/ p.out[i] = Held(o)[i]
           \/ o.fault = 1 /\ p.out[i] = Spoiled
  BY FlushProps
<1> HIDE DEF p
<1>2. /\ Len(Held(o)) = Len(o.out) + o.ptr /\ Len(o.out) \in Nat
      /\ o.fault \in Nat
  BY HeldProps
<1>3. RoundUp(BlockSize) = BlockSize
  <2>1. BlockSize \in Nat
    BY FileConstantsOK
  <2> DEFINE r == RoundUp(BlockSize)
             x == BlockSize
  <2>2. r \in Nat /\ r >= x /\ (x <= x => r <= x)
    BY <2>1, RoundUpProps
  <2> HIDE DEF r, x
  <2>3. x \in Nat
    BY <2>1 DEF x
  <2>4. r = x
    BY <2>2, <2>3
  <2>5. QED
    BY <2>4 DEF r, x
<1>4. Held(p) = p.out
  BY <1>1, EmptyBuffer
<1>5. Len(Held(p)) = Len(Held(o)) + 0
  <2>1. Len(Held(p)) = Len(Held(o))
    BY <1>1, <1>2, <1>3, <1>4
  <2>2. Len(Held(o)) \in Nat
    <3>1. o.ptr \in Nat
      BY HeldProps
    <3>2. QED
      BY <1>2, <3>1
  <2>3. QED
    BY <2>1, <2>2
<1>6. (Hit(o, p) <=> o.fault = 1) /\ p.fault <= o.fault
  BY <1>1, <1>2, HitIs
<1>7. Appended(o, p, s, 0)
  <2>1. \A i \in 1 .. Len(Held(o)) :
          Held(p)[i] = Held(o)[i] \/ (Hit(o, p) /\ Held(p)[i] = Spoiled)
    BY <1>1, <1>4, <1>6
  <2>2. \A i \in 1 .. 0 : FALSE
    OBVIOUS
  <2>3. QED
    BY <1>5, <2>1, <2>2 DEF Appended
<1>8. p.failed = (o.failed \/ Hit(o, p))
  BY <1>1, <1>6
<1>9. QED
  BY <1>1, <1>6, <1>7, <1>8, Zenon DEF Reached, p

(* nk_fputc appends a character. *)
LEMMA ReachedPut ==
  ASSUME NEW o, WriterOK(o), NEW s, s[1] \in Char
  PROVE  Reached(o, nk_fputc(o, s[1]), s, 1)
<1>1. ASSUME NEW p, WriterOK(p), p.medium # "direct", p.ptr # BlockSize,
             NEW q, q = [p EXCEPT !.buf[p.ptr + 1] = s[1], !.ptr = @ + 1]
      PROVE  Reached(p, q, s, 1)
  <2>1. /\ WriterOK(q)
        /\ q.medium = p.medium /\ q.failed = p.failed
        /\ q.fault = p.fault
        /\ Appended(p, q, s, 1)
    BY <1>1, Stored
  <2>2. p.fault \in Nat
    BY <1>1, HeldProps
  <2>3. q.fault <= p.fault /\ ~Hit(p, q)
    BY <2>1, <2>2 DEF Hit
  <2>4. q.failed = (p.failed \/ Hit(p, q))
    <3>1. p.failed \in BOOLEAN
      BY <1>1 DEF WriterOK, WriterState
    <3>2. QED
      BY <2>1, <2>3, <3>1
  <2>5. QED
    BY <2>1, <2>3, <2>4, Zenon DEF Reached
<1>2. CASE o.medium = "direct"
  <2> DEFINE e == << s[1] >>
  <2>1. e \in Seq(Char) /\ Len(e) = 1 /\ e[1] = s[1]
    OBVIOUS
  <2>2. nk_fputc(o, s[1]) = block_write(o, e)
    BY <1>2 DEF nk_fputc
  <2> HIDE DEF e
  <2>3. Reached(o, block_write(o, e), e, Len(e))
    BY <1>2, <2>1, ReachedBlock
  <2> DEFINE q == block_write(o, e)
  <2> HIDE DEF q
  <2>4. Reached(o, q, e, 1)
    BY <2>1, <2>3 DEF q
  <2>5. \A i \in 1 .. 1 : e[i] = s[i]
    <3> TAKE i \in 1 .. 1
    <3>1. i = 1
      OBVIOUS
    <3>2. QED
      BY <2>1, <3>1
  <2>6. Appended(o, q, e, 1) => Appended(o, q, s, 1)
    BY <2>5 DEF Appended
  <2>7. Reached(o, q, s, 1)
    BY <2>4, <2>6, Zenon DEF Reached
  <2>8. QED
    BY <2>2, <2>7 DEF q
<1>3. CASE o.medium # "direct" /\ o.ptr # BlockSize
  <2>1. nk_fputc(o, s[1]) =
          [o EXCEPT !.buf[o.ptr + 1] = s[1], !.ptr = @ + 1]
    BY <1>3 DEF nk_fputc
  <2>2. QED
    BY <1>1, <1>3, <2>1
<1>4. CASE o.medium = "blocks" /\ o.ptr = BlockSize
  <2> DEFINE p == nk_fflush(o)
             q == [p EXCEPT !.buf[p.ptr + 1] = s[1], !.ptr = @ + 1]
  <2>1. nk_fputc(o, s[1]) = q
    BY <1>4 DEF nk_fputc
  <2>2. Reached(o, p, s, 0)
    BY <1>4, ReachedFlush
  <2>3. WriterOK(p) /\ p.medium = "blocks" /\ p.ptr = 0
    BY <1>4, FlushProps
  <2>4. p.ptr # BlockSize
    BY <2>3, FileConstantsOK
  <2>5. Reached(p, q, s, 1)
    <3> HIDE DEF p
    <3>1. QED
      BY <1>1, <2>3, <2>4
  <2> HIDE DEF p, q
  <2>6. Reached(o, q, s, 0 + 1)
    <3>1. \A i \in 1 .. 1 : s[i] = s[0 + i]
      OBVIOUS
    <3>2. QED
      BY <2>2, <2>5, <3>1, ReachedTwice
  <2>7. QED
    BY <2>1, <2>6
<1>5. CASE o.medium = "memory" /\ o.ptr = BlockSize
  <2> DEFINE p == [o EXCEPT !.ptr = 0, !.failed = TRUE]
             q == [p EXCEPT !.buf[p.ptr + 1] = s[1], !.ptr = @ + 1]
  <2>1. nk_fputc(o, s[1]) = q
    <3>1. nk_fflush(o) = p
      BY <1>5 DEF nk_fflush
    <3>2. QED
      BY <1>5, <3>1 DEF nk_fputc
  <2>2. /\ p.medium = "memory" /\ p.ptr = 0 /\ p.failed = TRUE
        /\ p.fault = o.fault /\ p.buf = o.buf /\ p.out = o.out
    BY <1>5 DEF WriterOK, WriterState
  <2>3. WriterOK(p)
    <3>1. p \in WriterState
      <4>1. 0 \in 0 .. BlockSize /\ TRUE \in BOOLEAN
        BY FileConstantsOK
      <4>2. QED
        BY <4>1 DEF WriterOK, WriterState
    <3> HIDE DEF p
    <3>2. QED
      BY <1>5, <2>2, <3>1 DEF WriterOK
  <2>4. p.ptr # BlockSize
    BY <2>2, FileConstantsOK
  <2> HIDE DEF p
  <2>5. /\ WriterOK(q) /\ q.medium = p.medium /\ q.failed = p.failed
        /\ q.fault = p.fault
    BY <2>2, <2>3, <2>4, Stored
  <2> HIDE DEF q
  <2>6. Len(Held(o)) + 1 > BlockSize
    <3> DEFINE x == Len(Held(o))
               y == Len(o.out)
    <3>1. x = y + BlockSize /\ y \in Nat /\ BlockSize \in Nat
      BY <1>5, HeldProps, FileConstantsOK
    <3> HIDE DEF x, y
    <3>2. x + 1 > BlockSize
      BY <3>1
    <3>3. QED
      BY <3>2 DEF x
  <2>7. q.fault = o.fault /\ q.medium = o.medium /\ q.failed = TRUE
    BY <1>5, <2>2, <2>5
  <2>8. q.fault <= o.fault
    <3>1. o.fault \in Nat
      BY HeldProps
    <3>2. QED
      BY <2>7, <3>1
  <2>9. Reached(o, q, s, 1)
    BY <1>5, <2>5, <2>6, <2>7, <2>8, Zenon DEF Reached
  <2>10. QED
    BY <2>1, <2>9
<1>6. o.medium \in Media
  BY DEF WriterOK, WriterState
<1>7. QED
  BY <1>2, <1>3, <1>4, <1>5, <1>6 DEF Media

(* Nothing is put. *)
LEMMA ReachedStart ==
  ASSUME NEW o, WriterOK(o), NEW s
  PROVE  Reached(o, o, s, 0)
<1>1. o.fault \in Nat /\ Len(o.out) \in Nat /\ o.ptr \in Nat
      /\ Len(Held(o)) = Len(o.out) + o.ptr
  BY HeldProps
<1>2. ~Hit(o, o) /\ o.fault <= o.fault
  BY <1>1 DEF Hit
<1>3. Len(Held(o)) = Len(Held(o)) + 0
  BY <1>1
<1>4. Appended(o, o, s, 0)
  <2>1. \A i \in 1 .. 0 : FALSE
    OBVIOUS
  <2>2. QED
    BY <1>3, <2>1 DEF Appended
<1>5. o.failed = (o.failed \/ Hit(o, o))
  <2>1. o.failed \in BOOLEAN
    BY DEF WriterOK, WriterState
  <2>2. QED
    BY <1>2, <2>1
<1>6. QED
  BY <1>2, <1>4, <1>5, Zenon DEF Reached

(* nk_fprintf appends what it is given. *)
LEMMA ReachedPrintf ==
  ASSUME NEW o, WriterOK(o), NEW chs \in Seq(Char)
  PROVE  Reached(o, nk_fprintf(o, chs), chs, Len(chs))
<1> DEFINE n == Len(chs)
<1>1. n \in Nat /\ DOMAIN chs = 1 .. n /\ \A i \in 1 .. n : chs[i] \in Char
  BY LenProperties, ElementOfSeq
<1> HIDE DEF n
<1>2. PICK st : Steps("chars", o, chs, n, st)
  BY <1>1, FoldSteps
<1> DEFINE S == {k \in Nat : k <= n => Reached(o, st[k], chs, k)}
<1>3. 0 \in S
  <2>1. Reached(o, o, chs, 0)
    BY ReachedStart
  <2>2. QED
    BY <1>2, <2>1 DEF Steps
<1>4. ASSUME NEW k \in Nat, k \in S
      PROVE  k + 1 \in S
  <2>1. SUFFICES ASSUME k + 1 <= n
                 PROVE  Reached(o, st[k + 1], chs, k + 1)
    BY <1>4
  <2> DEFINE p == st[k]
             q == st[k + 1]
             t == [i \in 1 .. 1 |-> chs[k + 1]]
  <2>2. Reached(o, p, chs, k)
    BY <1>1, <1>4, <2>1
  <2>3. k + 1 \in 1 .. n /\ (k + 1) - 1 = k
    BY <1>1, <1>4, <2>1
  <2>4. q = Each("chars", p, chs[k + 1])
    BY <1>2, <2>3 DEF Steps
  <2>5. t[1] = chs[k + 1]
    OBVIOUS
  <2>6. chs[k + 1] \in Char
    BY <1>1, <2>3
  <2> HIDE DEF p, q, t
  <2>7. q = nk_fputc(p, t[1])
    BY <2>4, <2>5 DEF Each
  <2>8. WriterOK(p)
    BY <2>2 DEF Reached
  <2>9. Reached(p, q, t, 1)
    BY <2>5, <2>6, <2>7, <2>8, ReachedPut
  <2>10. \A i \in 1 .. 1 : t[i] = chs[k + i]
    <3> TAKE i \in 1 .. 1
    <3>1. i = 1
      OBVIOUS
    <3>2. QED
      BY <2>5, <3>1
  <2>11. k \in Nat /\ 1 \in Nat
    BY <1>4
  <2>12. Reached(o, q, chs, k + 1)
    BY <2>2, <2>9, <2>10, <2>11, ReachedTwice
  <2>13. QED
    BY <2>12 DEF q
<1> HIDE DEF S
<1>5. n \in S
  BY <1>1, <1>3, <1>4, NatInductive
<1>6. n <= n
  BY <1>1
<1>7. Reached(o, st[n], chs, n)
  BY <1>5, <1>6 DEF S
<1>8. nk_fprintf(o, chs) = st[n]
  BY <1>2 DEF nk_fprintf, Steps
<1>9. QED
  BY <1>7, <1>8 DEF n

(* how many blocks n characters take *)
Blocks(n) == (n + BlockSize - 1) \div BlockSize

(* where the k-th piece of n characters ends *)
BlockEnd(n, k) == IF k * BlockSize < n THEN k * BlockSize ELSE n

(* The blocks cover the characters, and none is empty. *)
LEMMA BlocksProps ==
  ASSUME NEW n \in Nat
  PROVE  /\ Blocks(n) \in Nat
         /\ BlockEnd(n, 0) = 0 /\ BlockEnd(n, Blocks(n)) = n
         /\ \A k \in 1 .. Blocks(n) :
              /\ BlockEnd(n, k - 1) = (k - 1) * BlockSize
              /\ BlockEnd(n, k - 1) \in 0 .. n
              /\ BlockEnd(n, k) \in BlockEnd(n, k - 1) .. n
<1> DEFINE m == BlockSize
           q == Blocks(n)
           r == (n + m - 1) % m
<1>1. m \in Nat \ {0}
  BY FileConstantsOK
<1>2. n + m - 1 = m * q + r /\ r \in 0 .. m - 1 /\ q \in Int
  <2>1. n + m - 1 \in Int
    BY <1>1
  <2>2. QED
    BY <1>1, <2>1, DivMod DEF Blocks
<1> HIDE DEF m, q, r
<1> DEFINE y == m * q
<1>3. y \in Int
  BY <1>1, <1>2
<1>4. q * m = y
  BY <1>1, <1>2
<1> HIDE DEF y
<1>5. y >= n /\ y - m < n
  <2>1. n + m - 1 = y + r
    BY <1>2 DEF y
  <2>2. QED
    BY <1>1, <1>2, <1>3, <2>1
<1>6. q \in Nat
  <2>1. SUFFICES ASSUME q <= -1 PROVE FALSE
    BY <1>2
  <2>2. -q \in Int /\ -q >= 1
    BY <1>2, <2>1
  <2>3. m * (-q) >= m
    BY <1>1, <2>2, MultipleAtLeast
  <2>4. m * (-q) = -y
    BY <1>1, <1>2 DEF y
  <2>5. QED
    BY <1>1, <1>3, <1>5, <2>3, <2>4
<1>7. BlockEnd(n, 0) = 0
  <2>1. 0 * m = 0
    BY <1>1
  <2>2. QED
    BY <2>1 DEF BlockEnd, m
<1>8. BlockEnd(n, q) = n
  <2>1. ~ (q * m < n)
    BY <1>3, <1>4, <1>5
  <2>2. QED
    BY <2>1 DEF BlockEnd, m
<1>9. ASSUME NEW k \in 1 .. q
      PROVE  /\ BlockEnd(n, k - 1) = (k - 1) * m
             /\ BlockEnd(n, k - 1) \in 0 .. n
             /\ BlockEnd(n, k) \in BlockEnd(n, k - 1) .. n
  <2> DEFINE x == m * (k - 1)
             d == q - k
             z == m * d
  <2>1. k \in Int /\ d \in Nat /\ k - 1 \in Nat
    BY <1>6, <1>9
  <2>2. x \in Nat /\ z \in Nat
    BY <1>1, <2>1
  <2>3. y = x + m + z
    <3>1. q = (k - 1) + 1 + d
      BY <1>2, <2>1
    <3> DEFINE w == k - 1
    <3>2. w \in Int
      BY <2>1
    <3> HIDE DEF d, w
    <3>3. m * (w + 1 + d) = m * w + m + m * d
      BY <1>1, <2>1, <3>2
    <3>4. QED
      BY <3>1, <3>3 DEF y, w
  <2>4. (k - 1) * m = x /\ k * m = x + m
    <3>1. (k - 1) * m = x
      BY <1>1, <2>1
    <3>2. k * m = m * (k - 1) + m
      BY <1>1, <2>1
    <3>3. QED
      BY <3>1, <3>2
  <2> HIDE DEF x, z, d
  <2>5. x < n
    BY <1>1, <1>3, <1>5, <2>2, <2>3
  <2>6. BlockEnd(n, k - 1) = x
    BY <2>4, <2>5 DEF BlockEnd, m
  <2>7. BlockEnd(n, k) = IF x + m < n THEN x + m ELSE n
    BY <2>4 DEF BlockEnd, m
  <2> DEFINE e == BlockEnd(n, k)
  <2> HIDE DEF e
  <2>8. x \in 0 .. n /\ e \in x .. n
    <3>1. e = IF x + m < n THEN x + m ELSE n
      BY <2>7 DEF e
    <3>2. QED
      BY <1>1, <2>2, <2>5, <3>1
  <2>9. QED
    BY <2>4, <2>6, <2>8 DEF e
<1>10. QED
  BY <1>6, <1>7, <1>8, <1>9 DEF q, m

(* nk_fwrite appends what it is given. *)
LEMMA ReachedFwrite ==
  ASSUME NEW o, WriterOK(o), NEW chs \in Seq(Char)
  PROVE  Reached(o, nk_fwrite(o, chs), chs, Len(chs))
<1> DEFINE n == Len(chs)
           m == Blocks(n)
           w == Pieces(chs)
           end(k) == BlockEnd(n, k)
<1>1. n \in Nat
  BY LenProperties
<1>2. CASE o.medium # "direct"
  <2>1. nk_fwrite(o, chs) = nk_fprintf(o, chs)
    BY <1>2 DEF nk_fwrite, nk_fprintf
  <2>2. QED
    BY <2>1, ReachedPrintf
<1>3. CASE o.medium = "direct"
  <2>1. /\ m \in Nat /\ end(0) = 0 /\ end(m) = n
        /\ \A k \in 1 .. m :
             /\ end(k - 1) = (k - 1) * BlockSize
             /\ end(k - 1) \in 0 .. n
             /\ end(k) \in end(k - 1) .. n
    BY <1>1, BlocksProps
  <2>2. w = [k \in 1 .. m |-> SubSeq(chs, (k - 1) * BlockSize + 1, end(k))]
    BY DEF Pieces, Blocks, BlockEnd
  <2>3. DOMAIN w = 1 .. m
    BY <2>2
  <2> HIDE DEF n, m, w, end
  <2>4. ASSUME NEW k \in 1 .. m
        PROVE  /\ w[k] \in Seq(Char) /\ Len(w[k]) = end(k) - end(k - 1)
               /\ \A i \in 1 .. end(k) - end(k - 1) :
                    w[k][i] = chs[end(k - 1) + i]
    <3> DEFINE a == end(k - 1)
               b == end(k)
    <3>1. a = (k - 1) * BlockSize /\ a \in 0 .. n /\ b \in a .. n
      BY <2>1, <2>4
    <3>2. w[k] = SubSeq(chs, a + 1, b)
      BY <2>2, <2>4, <3>1
    <3> HIDE DEF a, b
    <3>3. a \in Nat /\ b \in Nat /\ a + 1 \in 1 .. n + 1
          /\ b \in (a + 1) - 1 .. n
      BY <1>1, <3>1
    <3>4. /\ SubSeq(chs, a + 1, b) \in Seq(Char)
          /\ Len(SubSeq(chs, a + 1, b)) = b - (a + 1) + 1
          /\ \A i \in 1 .. b - (a + 1) + 1 :
               SubSeq(chs, a + 1, b)[i] = chs[(a + 1) + i - 1]
      BY <3>3, SliceProps DEF n
    <3>5. b - (a + 1) + 1 = b - a
      BY <3>3
    <3>6. \A i \in 1 .. b - a : (a + 1) + i - 1 = a + i
      BY <3>3
    <3>7. QED
      BY <3>2, <3>4, <3>5, <3>6 DEF a, b
  <2>5. PICK st : Steps("pieces", o, w, m, st)
    BY <2>1, <2>3, FoldSteps
  <2> DEFINE S == {k \in Nat : k <= m => Reached(o, st[k], chs, end(k))}
  <2>6. 0 \in S
    <3>1. Reached(o, o, chs, 0)
      BY ReachedStart
    <3>2. QED
      BY <2>1, <2>5, <3>1 DEF Steps
  <2>7. ASSUME NEW k \in Nat, k \in S
        PROVE  k + 1 \in S
    <3>1. SUFFICES ASSUME k + 1 <= m
                   PROVE  Reached(o, st[k + 1], chs, end(k + 1))
      BY <2>7
    <3> DEFINE p == st[k]
               q == st[k + 1]
               t == w[k + 1]
               a == end(k)
               b == end(k + 1)
    <3>2. Reached(o, p, chs, a)
      BY <2>1, <2>7, <3>1
    <3>3. k + 1 \in 1 .. m /\ (k + 1) - 1 = k
      BY <2>1, <2>7, <3>1
    <3>4. q = Each("pieces", p, t)
      BY <2>5, <3>3 DEF Steps
    <3>5. /\ t \in Seq(Char) /\ Len(t) = b - a
          /\ \A i \in 1 .. b - a : t[i] = chs[a + i]
      BY <2>4, <3>3
    <3>6. a \in 0 .. n /\ b \in a .. n
      BY <2>1, <3>3
    <3> HIDE DEF p, q, t, a, b
    <3>7. q = block_write(p, t)
      BY <3>4 DEF Each
    <3>8. WriterOK(p) /\ p.medium = "direct"
      BY <1>3, <3>2 DEF Reached
    <3>9. Reached(p, q, t, b - a)
      BY <3>5, <3>7, <3>8, ReachedBlock
    <3>10. a \in Nat /\ b - a \in Nat /\ a + (b - a) = b
      BY <1>1, <3>6
    <3>11. Reached(o, q, chs, a + (b - a))
      <4> DEFINE d == b - a
      <4>1. Reached(p, q, t, d) /\ \A i \in 1 .. d : t[i] = chs[a + i]
        BY <3>5, <3>9
      <4>2. a \in Nat /\ d \in Nat
        BY <3>10
      <4> HIDE DEF d
      <4>3. Reached(o, q, chs, a + d)
        BY <3>2, <4>1, <4>2, ReachedTwice
      <4>4. QED
        BY <4>3 DEF d
    <3>12. Reached(o, q, chs, b)
      BY <3>10, <3>11
    <3>13. QED
      BY <3>12 DEF q, b
  <2> HIDE DEF S
  <2>8. m \in S
    BY <2>1, <2>6, <2>7, NatInductive
  <2>9. m <= m
    BY <2>1
  <2>10. Reached(o, st[m], chs, n)
    BY <2>1, <2>8, <2>9 DEF S
  <2>11. nk_fwrite(o, chs) = st[m]
    BY <1>3, <2>5 DEF nk_fwrite, w, Steps
  <2>12. QED
    BY <2>10, <2>11 DEF n
<1>4. QED
  BY <1>2, <1>3

-----------------------------------------------------------------------------
(* Reading *)

(* the values of the fields of an input file *)
ReaderState ==
  [start : Seq(Char), ptr : Nat, len : Nat, start_offset : Nat,
   block_size : {0, BlockSize}, fault : Nat]

(* the buffer has the characters of the file d that it says it has, all of  *)
(* them if the file is in memory                                            *)
BufferOK(r, d) ==
  /\ r \in ReaderState
  /\ r.ptr <= r.len /\ r.len <= Len(r.start)
  /\ r.block_size # 0 => Len(r.start) = BlockSize
  /\ r.start_offset + r.len <= Len(d)
  /\ \A i \in 1 .. r.len : r.start[i] = d[r.start_offset + i]
  /\ r.block_size = 0 => r.len = Len(d) /\ r.start_offset = 0

(* and the end of the buffer is the end of the file, unless nothing could   *)
(* be read                                                                  *)
ReaderOK(r, d) ==
  /\ BufferOK(r, d)
  /\ r.ptr = r.len => r.len = 0 \/ r.start_offset + r.len = Len(d)

(* what is at the position could not be read *)
LostAt(r, d) == nk_feof(r) /\ nk_ftell(r) < Len(d)

(* q is the file r at position n of d, or before it if an access has failed *)
CameTo(r, q, d, n) ==
  /\ ReaderOK(q, d)
  /\ q.block_size = r.block_size
  /\ \/ nk_ftell(q) = n /\ ~LostAt(q, d) /\ (q.fault = 0 <=> r.fault = 0)
     \/ /\ r.block_size # 0 /\ r.fault # 0 /\ q.fault = 0
        /\ nk_ftell(q) \in 0 .. n /\ nk_feof(q)

(* The types of the parts of a file that is being read. *)
LEMMA ReaderProps ==
  ASSUME NEW r \in ReaderState
  PROVE  /\ r.start \in Seq(Char) /\ Len(r.start) \in Nat /\ r.ptr \in Nat
         /\ r.len \in Nat /\ r.start_offset \in Nat /\ r.fault \in Nat
         /\ r.block_size \in Nat
         /\ BlockSize \in Nat /\ BlockSize # 0
<1>1. BlockSize \in Nat /\ BlockSize # 0
  BY FileConstantsOK
<1>2. r.start \in Seq(Char)
  BY DEF ReaderState
<1>3. Len(r.start) \in Nat
  BY <1>2, LenProperties
<1>4. QED
  BY <1>1, <1>2, <1>3 DEF ReaderState

(* A block of a file: the rest of it, at most BlockSize characters. *)
LEMMA BlockAtProps ==
  ASSUME NEW d \in Seq(Char), NEW n \in 0 .. Len(d)
  PROVE  LET s == BlockAt(d, n)
         IN  /\ s \in Seq(Char)
             /\ Len(s) = IF n + BlockSize > Len(d) THEN Len(d) - n
                         ELSE BlockSize
             /\ \A i \in 1 .. Len(s) : s[i] = d[n + i]
<1> DEFINE z == Len(d)
           e == IF n + BlockSize > z THEN z ELSE n + BlockSize
           s == BlockAt(d, n)
<1>1. z \in Nat /\ BlockSize \in Nat /\ n \in Nat /\ n <= z
  BY FileConstantsOK, LenProperties
<1>2. s = SubSeq(d, n + 1, e)
  BY DEF BlockAt
<1> HIDE DEF s
<1>3. n + 1 \in 1 .. z + 1 /\ e \in (n + 1) - 1 .. z /\ e \in Nat
  BY <1>1
<1>4. e - n = IF n + BlockSize > z THEN z - n ELSE BlockSize
  BY <1>1
<1> HIDE DEF e
<1>5. /\ SubSeq(d, n + 1, e) \in Seq(Char)
      /\ Len(SubSeq(d, n + 1, e)) = e - (n + 1) + 1
      /\ \A i \in 1 .. e - (n + 1) + 1 :
           SubSeq(d, n + 1, e)[i] = d[(n + 1) + i - 1]
  BY <1>3, SliceProps DEF z
<1>6. e - (n + 1) + 1 = e - n
  BY <1>1, <1>3
<1>7. \A i \in 1 .. e - n : (n + 1) + i - 1 = n + i
  BY <1>1, <1>3
<1>8. /\ s \in Seq(Char) /\ Len(s) = e - n
      /\ \A i \in 1 .. e - n : s[i] = d[n + i]
  BY <1>2, <1>5, <1>6, <1>7
<1>9. QED
  BY <1>4, <1>8 DEF s, z

(* A block is read over what was in the buffer. *)
LEMMA OverProps ==
  ASSUME NEW s \in Seq(Char), NEW q \in Seq(Char), Len(s) <= Len(q)
  PROVE  /\ Over(s, q) \in Seq(Char) /\ Len(Over(s, q)) = Len(q)
         /\ \A i \in 1 .. Len(s) : Over(s, q)[i] = s[i]
<1> DEFINE a == Len(s)
           b == Len(q)
           t == SubSeq(q, a + 1, b)
<1>1. a \in Nat /\ b \in Nat /\ a <= b
  BY LenProperties
<1>2. a + 1 \in 1 .. b + 1 /\ b \in (a + 1) - 1 .. b
  BY <1>1
<1>3. t \in Seq(Char) /\ Len(t) = b - (a + 1) + 1
  BY <1>2, SliceProps
<1> HIDE DEF t
<1>4. /\ s \o t \in Seq(Char) /\ Len(s \o t) = a + Len(t)
      /\ \A i \in 1 .. a : (s \o t)[i] = s[i]
  BY <1>3, ConcatProps
<1>5. a + Len(t) = b
  BY <1>1, <1>3
<1>6. Over(s, q) = s \o t
  BY DEF Over, t
<1>7. QED
  BY <1>4, <1>5, <1>6

(* A block is loaded, unless there is none or the access fails. *)
LEMMA LoadProps ==
  ASSUME NEW d \in Seq(Char), NEW r \in ReaderState,
         Len(r.start) = BlockSize, NEW n \in 0 .. Len(d), r.start_offset = n
  PROVE  LET q == BlockLoaded(r, BlockAt(d, n))
         IN  /\ q \in ReaderState
             /\ q.block_size = r.block_size /\ q.start_offset = n
             /\ q.ptr = r.ptr /\ Len(q.start) = BlockSize
             /\ q.len <= BlockSize /\ n + q.len <= Len(d)
             /\ \A i \in 1 .. q.len : q.start[i] = d[n + i]
             /\ \/ n = Len(d) /\ q.len = 0 /\ q.fault = r.fault
                \/ /\ n < Len(d) /\ q.len = 0
                   /\ r.fault = 1 /\ q.fault = 0
                \/ /\ n < Len(d) /\ r.fault # 1
                   /\ q.len = IF n + BlockSize > Len(d) THEN Len(d) - n
                              ELSE BlockSize
                   /\ q.fault = OneLess(r.fault)
<1> DEFINE z == Len(d)
           s == BlockAt(d, n)
           q == BlockLoaded(r, s)
           x == r.fault
<1>1. z \in Nat /\ BlockSize \in Nat \ {0} /\ n \in Nat /\ n <= z
  BY FileConstantsOK, LenProperties
<1>2. /\ r.start \in Seq(Char) /\ x \in Nat
  BY ReaderProps
<1>3. /\ s \in Seq(Char)
      /\ Len(s) = IF n + BlockSize > z THEN z - n ELSE BlockSize
      /\ \A i \in 1 .. Len(s) : s[i] = d[n + i]
  BY BlockAtProps
<1> HIDE DEF s, z
<1>4. s = << >> <=> n = z
  <2>1. Len(s) = 0 <=> n = z
    BY <1>1, <1>3
  <2>2. s = << >> <=> Len(s) = 0
    BY <1>3, EmptySeq
  <2>3. QED
    BY <2>1, <2>2
<1>5. \A i \in 1 .. 0 : FALSE
  OBVIOUS
<1>6. CASE n = z
  <2>1. q = [r EXCEPT !.len = 0]
    BY <1>4, <1>6 DEF BlockLoaded
  <2> HIDE DEF q
  <2>2. /\ q \in ReaderState /\ q.len = 0 /\ q.fault = x
        /\ q.block_size = r.block_size /\ q.start_offset = n
        /\ q.ptr = r.ptr /\ q.start = r.start
    BY <2>1 DEF ReaderState
  <2>3. q.len <= BlockSize /\ n + q.len <= z
    BY <1>1, <2>2
  <2>4. QED
    BY <1>5, <1>6, <2>2, <2>3 DEF q, s, z
<1>7. CASE n # z /\ x = 1
  <2>1. q = [r EXCEPT !.len = 0, !.fault = 0]
    BY <1>4, <1>7 DEF BlockLoaded
  <2> HIDE DEF q
  <2>2. /\ q \in ReaderState /\ q.len = 0 /\ q.fault = 0
        /\ q.block_size = r.block_size /\ q.start_offset = n
        /\ q.ptr = r.ptr /\ q.start = r.start
    BY <2>1 DEF ReaderState
  <2>3. q.len <= BlockSize /\ n + q.len <= z /\ n < z
    BY <1>1, <1>7, <2>2
  <2>4. QED
    BY <1>5, <1>7, <2>2, <2>3 DEF q, s, z
<1>8. CASE n # z /\ x # 1
  <2> DEFINE o == Over(s, r.start)
             l == Len(s)
             w == OneLess(x)
  <2>1. q = [r EXCEPT !.len = l, !.start = o, !.fault = w]
    BY <1>4, <1>8 DEF BlockLoaded
  <2>2. l \in Nat /\ l <= BlockSize /\ n + l <= z /\ n < z
    BY <1>1, <1>3, <1>8
  <2>3. /\ o \in Seq(Char) /\ Len(o) = BlockSize
        /\ \A i \in 1 .. l : o[i] = s[i]
    BY <1>2, <1>3, <2>2, OverProps
  <2>4. w \in Nat
    BY <1>2 DEF OneLess
  <2> HIDE DEF q, o, l, w
  <2>5. /\ q \in ReaderState /\ q.len = l /\ q.fault = w
        /\ q.block_size = r.block_size /\ q.start_offset = n
        /\ q.ptr = r.ptr /\ q.start = o
    BY <2>1, <2>2, <2>3, <2>4 DEF ReaderState
  <2>6. \A i \in 1 .. q.len : q.start[i] = d[n + i]
    BY <1>3, <2>3, <2>5 DEF l
  <2>7. q.len = IF n + BlockSize > z THEN z - n ELSE BlockSize
    BY <1>3, <2>5 DEF l
  <2>8. q.len <= BlockSize /\ n + q.len <= z
    BY <2>2, <2>5
  <2>9. Len(q.start) = BlockSize
    BY <2>3, <2>5
  <2>10. QED
    BY <1>8, <2>2, <2>5, <2>6, <2>7, <2>8, <2>9 DEF q, s, z, w
<1>9. QED
  BY <1>6, <1>7, <1>8

(* A seek goes to any position of the file, or, if the access fails, stops  *)
(* in front of it.                                                          *)
LEMMA SlowSeek ==
  ASSUME stored \in Seq(Char), NEW r, BufferOK(r, stored),
         NEW n \in 0 .. Len(stored)
  PROVE  CameTo(r, nk_fseek_slow(r, n), stored, n)
<1> DEFINE z == Len(stored)
           q == nk_fseek_slow(r, n)
           a == r.start_offset
           l == r.len
<1>1. /\ r \in ReaderState /\ a \in Nat /\ l \in Nat /\ z \in Nat
      /\ r.ptr \in Nat /\ r.fault \in Nat /\ Len(r.start) \in Nat
      /\ BlockSize \in Nat \ {0} /\ n \in Nat /\ n <= z
      /\ r.block_size \in {0, BlockSize}
  <2>1. r \in ReaderState
    BY DEF BufferOK
  <2>2. z \in Nat
    BY LenProperties
  <2>3. n \in Nat /\ n <= z
    BY <2>2
  <2>4. r.block_size \in {0, BlockSize}
    BY <2>1 DEF ReaderState
  <2>5. QED
    BY <2>1, <2>2, <2>3, <2>4, ReaderProps
<1>2. /\ l <= Len(r.start) /\ a + l <= z
      /\ \A i \in 1 .. l : r.start[i] = stored[a + i]
      /\ r.block_size # 0 => Len(r.start) = BlockSize
      /\ r.block_size = 0 => l = z /\ a = 0
  BY DEF BufferOK
<1>3. CASE nk_contained(r, n)
  <2> DEFINE p == n - a
  <2>1. q = [r EXCEPT !.ptr = p]
    BY <1>3 DEF nk_fseek_slow
  <2>2. n >= a /\ n < a + l
    BY <1>3 DEF nk_contained
  <2>3. p \in Nat /\ p < l /\ a + p = n /\ p <= l /\ p # l
    BY <1>1, <2>2
  <2> HIDE DEF q, p
  <2>4. /\ q \in ReaderState /\ q.ptr = p /\ q.len = l /\ q.start = r.start
        /\ q.start_offset = a /\ q.block_size = r.block_size
        /\ q.fault = r.fault
    BY <1>1, <2>1, <2>3 DEF ReaderState
  <2>5. BufferOK(q, stored)
    BY <1>2, <2>3, <2>4 DEF BufferOK
  <2>6. ReaderOK(q, stored)
    BY <2>3, <2>4, <2>5 DEF ReaderOK
  <2>7. nk_ftell(q) = n /\ ~nk_feof(q)
    BY <2>3, <2>4 DEF nk_ftell, nk_feof
  <2>8. QED
    BY <2>4, <2>6, <2>7, Zenon DEF CameTo, LostAt, q
<1>4. CASE ~nk_contained(r, n) /\ r.block_size = 0
  <2>1. n = l /\ l = z /\ a = 0
    <3>1. l = z /\ a = 0
      BY <1>2, <1>4
    <3>2. ~ (n >= a /\ n < a + l)
      BY <1>4 DEF nk_contained
    <3>3. QED
      BY <1>1, <3>1, <3>2
  <2> DEFINE at == [r EXCEPT !.start_offset = 0]
  <2>2. Offset(r, n) = n /\ n - n = 0 /\ Load(r, 0) = at
    BY <1>1, <1>4 DEF Offset, Load
  <2>3. at \in ReaderState /\ at.len = l
    BY <1>1 DEF ReaderState
  <2>4. q = [at EXCEPT !.ptr = IF n < at.len THEN n ELSE at.len]
    BY <1>4, <2>2 DEF nk_fseek_slow
  <2>5. ~ (n < at.len)
    BY <1>1, <2>1, <2>3
  <2>6. q = [at EXCEPT !.ptr = l]
    BY <2>3, <2>4, <2>5
  <2> HIDE DEF q
  <2>7. /\ q \in ReaderState /\ q.ptr = l /\ q.len = l /\ q.start = r.start
        /\ q.start_offset = 0 /\ q.block_size = 0 /\ q.fault = r.fault
    BY <1>1, <1>4, <2>6 DEF ReaderState
  <2>8. BufferOK(q, stored)
    <3>1. 0 + l <= z /\ l <= l
      BY <1>1, <2>1
    <3>2. QED
      BY <1>2, <2>1, <2>7, <3>1 DEF BufferOK
  <2>9. nk_ftell(q) = n /\ 0 + l = z /\ ~ (n < z)
    <3>1. 0 + l = n /\ 0 + l = z /\ ~ (n < z)
      BY <1>1, <2>1
    <3>2. QED
      BY <2>7, <3>1 DEF nk_ftell
  <2>10. ReaderOK(q, stored)
    BY <2>7, <2>8, <2>9 DEF ReaderOK
  <2>11. ~LostAt(q, stored)
    BY <2>9 DEF LostAt
  <2>12. QED
    BY <1>4, <2>7, <2>9, <2>10, <2>11, Zenon DEF CameTo, q
<1>5. CASE ~nk_contained(r, n) /\ r.block_size # 0
  <2> DEFINE m == BlockSize
             o == n % m
             b == n - o
             at == [r EXCEPT !.start_offset = b]
             t == BlockLoaded(at, BlockAt(stored, b))
             p == IF o < t.len THEN o ELSE t.len
  <2>1. r.block_size = m
    BY <1>1, <1>5
  <2>2. o \in 0 .. m - 1 /\ b \in 0 .. z /\ b + o = n
    <3>1. n = m * (n \div m) + o /\ o \in 0 .. m - 1 /\ n \div m \in Int
      BY <1>1, DivMod
    <3> DEFINE k == n \div m
    <3> HIDE DEF k, o
    <3>2. n = m * k + o /\ o \in 0 .. m - 1 /\ k \in Int
      BY <3>1 DEF k
    <3> DEFINE y == m * k
    <3>3. y \in Int
      BY <1>1, <3>2
    <3>4. y >= 0
      <4>1. SUFFICES ASSUME k <= -1 PROVE FALSE
        <5>1. k >= 0 => m * k >= 0
          BY <1>1, <3>2
        <5>2. QED
          BY <3>2, <5>1
      <4>2. -k \in Int /\ -k >= 1
        BY <3>2, <4>1
      <4>3. m * (-k) >= m
        BY <1>1, <4>2, MultipleAtLeast
      <4>4. m * (-k) = -y
        BY <1>1, <3>2
      <4>5. n = y + o
        BY <3>2
      <4> HIDE DEF y
      <4>6. -y >= m /\ o \in 0 .. m - 1
        BY <3>2, <4>3, <4>4
      <4>7. QED
        BY <1>1, <3>3, <4>5, <4>6
    <3>5. n = y + o
      BY <3>2
    <3> HIDE DEF y
    <3>6. b = y /\ o \in Nat
      BY <1>1, <3>2, <3>3, <3>5
    <3> HIDE DEF b
    <3>7. b \in 0 .. z /\ b + o = n
      BY <1>1, <3>3, <3>4, <3>5, <3>6
    <3>8. QED
      BY <3>2, <3>7 DEF b
  <2>3. Offset(r, n) = o
    BY <1>5, <2>1 DEF Offset
  <2>4. Load(r, b) = t
    BY <1>5 DEF Load
  <2>5. q = [t EXCEPT !.ptr = p]
    BY <1>5, <2>3, <2>4 DEF nk_fseek_slow
  <2> HIDE DEF q, o, b
  <2>6. /\ at \in ReaderState /\ at.start_offset = b
        /\ at.start = r.start /\ Len(at.start) = m
        /\ at.block_size = r.block_size
        /\ at.fault = r.fault
    <3>1. b \in Nat
      BY <1>1, <2>2
    <3>2. Len(r.start) = m
      BY <1>2, <1>5
    <3>3. QED
      BY <1>1, <3>1, <3>2 DEF ReaderState
  <2> HIDE DEF at
  <2>7. /\ t \in ReaderState
        /\ t.block_size = at.block_size /\ t.start_offset = b
        /\ Len(t.start) = m
        /\ t.len <= m /\ b + t.len <= z
        /\ \A i \in 1 .. t.len : t.start[i] = stored[b + i]
        /\ \/ b = z /\ t.len = 0 /\ t.fault = at.fault
           \/ /\ b < z /\ t.len = 0
              /\ at.fault = 1 /\ t.fault = 0
           \/ /\ b < z /\ at.fault # 1
              /\ t.len = IF b + m > z THEN z - b ELSE m
              /\ t.fault = OneLess(at.fault)
    BY <2>2, <2>6, LoadProps
  <2> HIDE DEF t
  <2>8. t.len \in Nat /\ t.fault \in Nat
    BY <2>7, ReaderProps
  <2>9. p \in Nat /\ p <= t.len
    BY <1>1, <2>2, <2>8
  <2> HIDE DEF p
  <2>10. /\ q \in ReaderState /\ q.ptr = p /\ q.len = t.len
         /\ q.start = t.start /\ q.start_offset = b
         /\ q.block_size = r.block_size /\ q.fault = t.fault
    BY <2>5, <2>6, <2>7, <2>9 DEF ReaderState
  <2>11. BufferOK(q, stored)
    BY <1>5, <2>7, <2>9, <2>10 DEF BufferOK
  <2>12. nk_ftell(q) = b + p /\ (nk_feof(q) <=> p = t.len)
    BY <2>10 DEF nk_ftell, nk_feof
  <2> DEFINE x == t.len
             s == q.fault
             e == r.fault
  <2>13. x \in Nat /\ s \in Nat /\ e \in Nat /\ p = IF o < x THEN o ELSE x
    BY <1>1, <2>8, <2>10 DEF p
  <2>14. \/ b = z /\ x = 0 /\ s = e
         \/ b < z /\ x = 0 /\ e = 1 /\ s = 0
         \/ b < z /\ e # 1 /\ x = (IF b + m > z THEN z - b ELSE m)
              /\ s = IF e = 0 THEN 0 ELSE e - 1
    BY <2>6, <2>7, <2>10 DEF OneLess
  <2> HIDE DEF x, s, e, m
  <2>15. /\ p = x => x = 0 \/ b + x = z
         /\ \/ b + p = n /\ ~ (p = x /\ b + p < z) /\ (s = 0 <=> e = 0)
            \/ e # 0 /\ s = 0 /\ b + p \in 0 .. n /\ p = x
    <3>1. CASE b = z /\ x = 0 /\ s = e
      <4>1. p = 0 /\ o = 0
        BY <1>1, <2>2, <2>13, <3>1
      <4>2. QED
        BY <1>1, <2>2, <3>1, <4>1
    <3>2. CASE b < z /\ x = 0 /\ e = 1 /\ s = 0
      <4>1. p = 0
        BY <1>1, <2>2, <2>13, <3>2
      <4>2. QED
        BY <1>1, <2>2, <3>2, <4>1
    <3>3. CASE b < z /\ e # 1 /\ x = (IF b + m > z THEN z - b ELSE m)
                /\ s = IF e = 0 THEN 0 ELSE e - 1
      <4>1. s = 0 <=> e = 0
        BY <2>13, <3>3
      <4>2. CASE o < x
        <5>1. p = o
          BY <2>13, <4>2
        <5>2. b + p = n /\ p # x
          BY <1>1, <2>2, <2>13, <4>2, <5>1
        <5>3. QED
          BY <4>1, <5>2
      <4>3. CASE ~ (o < x)
        <5>1. p = x
          BY <2>13, <4>3
        <5>2. m \in Nat /\ o < m /\ b \in Nat
          BY <1>1, <2>2 DEF m
        <5>3. x = z - b
          BY <1>1, <2>2, <2>13, <3>3, <4>3, <5>2
        <5>4. b + x = z /\ b + p = n
          BY <1>1, <2>2, <2>13, <4>3, <5>1, <5>2, <5>3
        <5>5. ~ (b + p < z)
          BY <1>1, <5>1, <5>4
        <5>6. QED
          BY <4>1, <5>4, <5>5
      <4>4. QED
        BY <4>2, <4>3
    <3>4. QED
      BY <2>14, <3>1, <3>2, <3>3
  <2>16. ReaderOK(q, stored)
    BY <2>10, <2>11, <2>15 DEF ReaderOK, x
  <2>17. \/ nk_ftell(q) = n /\ ~LostAt(q, stored) /\ (s = 0 <=> e = 0)
         \/ e # 0 /\ s = 0 /\ nk_ftell(q) \in 0 .. n /\ nk_feof(q)
    BY <2>12, <2>15 DEF LostAt, x
  <2>18. QED
    BY <1>5, <2>10, <2>16, <2>17, Zenon DEF CameTo, s, e, q
<1>6. QED
  BY <1>3, <1>4, <1>5

(* The same of the seek that looks into the buffer first. *)
LEMMA FastSeek ==
  ASSUME stored \in Seq(Char), NEW r, BufferOK(r, stored),
         NEW n \in 0 .. Len(stored)
  PROVE  CameTo(r, nk_fseek(r, n), stored, n)
<1>1. nk_fseek(r, n) = nk_fseek_slow(r, n)
  BY DEF nk_fseek, nk_fseek_slow
<1>2. QED
  BY <1>1, SlowSeek

-----------------------------------------------------------------------------
(* The invariant *)

(* The inductive invariant: the file in use, g or f, agrees with what is    *)
(* stored.                                                                  *)
FileInv ==
  /\ stored \in Seq(Char)
  /\ buffer \in Seq(Char) /\ Len(buffer) = BlockSize
  /\ g \in [medium : Media, ptr : 0 .. BlockSize, failed : BOOLEAN]
  /\ f \in ReaderState /\ f.fault = 0
  /\ f.ptr <= f.len /\ f.len <= Len(f.start)
  /\ mode \in {"write", "read"}
  /\ c \in Char \cup {Eof}
  /\ faults \in 0 .. MaxIoFaults
  /\ mode = "write" => WriterOK(Writer(0))
  /\ mode = "read" => /\ ReaderOK(f, stored)
                      /\ g.medium = "memory" => f.block_size = 0

(* the character behind position n of the file, or its end *)
CharAt(n) == IF n < Len(stored) THEN stored[n + 1] ELSE Eof

(* The character at the position of a file that is being read. *)
LEMMA PeekIs ==
  ASSUME stored \in Seq(Char), NEW r, ReaderOK(r, stored)
  PROVE  /\ nk_ftell(r) \in 0 .. Len(stored)
         /\ nk_feof(r) => nk_fpeek(r) = Eof
         /\ ~nk_feof(r) => /\ nk_ftell(r) < Len(stored)
                           /\ r.ptr + 1 \in 1 .. r.len
         /\ ~LostAt(r, stored) => nk_fpeek(r) = CharAt(nk_ftell(r))
<1> DEFINE z == Len(stored)
           a == r.start_offset
           p == r.ptr
           l == r.len
<1>1. /\ a \in Nat /\ p \in Nat /\ l \in Nat /\ z \in Nat
      /\ p <= l /\ a + l <= z
      /\ \A i \in 1 .. l : r.start[i] = stored[a + i]
  <2>1. r \in ReaderState
    BY DEF ReaderOK, BufferOK
  <2>2. a \in Nat /\ p \in Nat /\ l \in Nat
    BY <2>1, ReaderProps
  <2>3. z \in Nat
    BY LenProperties
  <2>4. QED
    BY <2>2, <2>3 DEF ReaderOK, BufferOK
<1>2. /\ nk_ftell(r) = a + p /\ (nk_feof(r) <=> p = l)
      /\ nk_fpeek(r) = IF p = l THEN Eof ELSE r.start[p + 1]
  BY DEF nk_ftell, nk_feof, nk_fpeek
<1> HIDE DEF a, p, l, z
<1>3. a + p \in 0 .. z
  BY <1>1
<1>4. p # l => a + p < z /\ p + 1 \in 1 .. l
  BY <1>1
<1>5. ~ (p = l /\ a + p < z) => nk_fpeek(r) = CharAt(a + p)
  <2>1. CASE p = l
    <3>1. ~ (a + p < z) => CharAt(a + p) = Eof
      BY DEF CharAt, z
    <3>2. QED
      BY <1>2, <2>1, <3>1
  <2>2. CASE p # l
    <3>1. r.start[p + 1] = stored[a + (p + 1)]
      BY <1>1, <1>4, <2>2
    <3>2. a + (p + 1) = (a + p) + 1
      BY <1>1
    <3>3. CharAt(a + p) = stored[(a + p) + 1]
      BY <1>4, <2>2 DEF CharAt, z
    <3>4. nk_fpeek(r) = r.start[p + 1]
      BY <1>2, <2>2
    <3>5. QED
      BY <3>1, <3>2, <3>3, <3>4
  <2>3. QED
    BY <2>1, <2>2
<1>6. QED
  BY <1>2, <1>3, <1>4, <1>5 DEF LostAt, z, p, l

(* A character of the file or its end is what a call that reads returns. *)
LEMMA CharAtType ==
  ASSUME stored \in Seq(Char), NEW n \in Nat
  PROVE  CharAt(n) \in Char \cup {Eof}
<1>1. CASE n < Len(stored)
  <2>1. n + 1 \in 1 .. Len(stored)
    BY <1>1, LenProperties
  <2>2. stored[n + 1] \in Char
    BY <2>1, ElementOfSeq
  <2>3. QED
    BY <1>1, <2>2 DEF CharAt
<1>2. CASE ~ (n < Len(stored))
  BY <1>2 DEF CharAt
<1>3. QED
  BY <1>1, <1>2

(* The file with an access that is going to fail is as sound as without. *)
LEMMA FaultySound ==
  ASSUME FileInv, mode = "read", NEW fault \in Nat
  PROVE  /\ ReaderOK(Faulty(fault), stored)
         /\ BufferOK(Faulty(fault), stored)
         /\ Faulty(fault).fault = fault
         /\ Faulty(fault).block_size = f.block_size
         /\ Faulty(fault).ptr = f.ptr /\ Faulty(fault).len = f.len
         /\ Faulty(fault).start_offset = f.start_offset
         /\ Faulty(fault).start = f.start
         /\ nk_ftell(Faulty(fault)) = nk_ftell(f)
         /\ (nk_feof(Faulty(fault)) <=> nk_feof(f))
         /\ nk_fpeek(Faulty(fault)) = nk_fpeek(f)
<1> DEFINE r == Faulty(fault)
<1>1. f \in ReaderState /\ ReaderOK(f, stored)
  BY DEF FileInv
<1>2. r = [f EXCEPT !.fault = fault]
  BY DEF Faulty
<1> HIDE DEF r
<1>3. /\ r \in ReaderState /\ r.fault = fault
      /\ r.block_size = f.block_size /\ r.ptr = f.ptr /\ r.len = f.len
      /\ r.start_offset = f.start_offset /\ r.start = f.start
  BY <1>1, <1>2 DEF ReaderState
<1>4. BufferOK(r, stored)
  BY <1>1, <1>3 DEF ReaderOK, BufferOK
<1>5. ReaderOK(r, stored)
  BY <1>1, <1>3, <1>4 DEF ReaderOK
<1>6. /\ nk_ftell(r) = nk_ftell(f) /\ (nk_feof(r) <=> nk_feof(f))
      /\ nk_fpeek(r) = nk_fpeek(f)
  BY <1>3 DEF nk_ftell, nk_feof, nk_fpeek
<1>7. QED
  BY <1>3, <1>4, <1>5, <1>6 DEF r

(* The number of an access that may fail is a natural number. *)
LEMMA FaultIsNat ==
  ASSUME FileInv, NEW n \in Nat, NEW fault \in Fault(n)
  PROVE  /\ fault \in Nat /\ fault \in 0 .. n
         /\ fault # 0 => faults < MaxIoFaults
<1>1. CASE faults < MaxIoFaults
  BY <1>1 DEF Fault
<1>2. CASE ~ (faults < MaxIoFaults)
  BY <1>2 DEF Fault
<1>3. QED
  BY <1>1, <1>2

(* What has failed is counted. *)
LEMMA FaultsCounted ==
  ASSUME FileInv, NEW n \in Nat, NEW fault \in Fault(n), NEW left,
         Met(fault, left)
  PROVE  /\ faults' \in 0 .. MaxIoFaults
         /\ left = 0
         /\ faults' = IF fault = 0 THEN faults ELSE faults + 1
<1>1. faults \in 0 .. MaxIoFaults /\ MaxIoFaults \in Nat
  BY FileConstantsOK DEF FileInv
<1>2. fault # 0 => faults < MaxIoFaults
  BY FaultIsNat
<1>3. left = 0 /\ faults' = IF fault = 0 THEN faults ELSE faults + 1
  BY DEF Met
<1>4. QED
  BY <1>1, <1>2, <1>3

(* the result and the file after a call that reads at n and goes to p *)
Answer(fault, result, q, n, p) ==
  /\ ReaderOK(q, stored) /\ q.block_size = f.block_size
  /\ q.fault = 0 =>
       IF fault = 0
       THEN result = CharAt(n) /\ nk_ftell(q) = p /\ ~LostAt(q, stored)
       ELSE /\ f.block_size # 0
            /\ result \in {CharAt(n), Eof} /\ nk_ftell(q) \in 0 .. p

(* A call that reads keeps the invariant. *)
LEMMA ReadsKeep ==
  ASSUME FileInv, NEW fault \in Fault(2), NEW result, NEW q,
         Reads(fault, result, q),
         ReaderOK(q, stored), q.block_size = f.block_size,
         result \in Char \cup {Eof}
  PROVE  FileInv'
<1>1. /\ mode = "read" /\ c' = result /\ f' = q
      /\ buffer' = (IF q.block_size = 0 THEN buffer ELSE q.start)
      /\ stored' = stored /\ g' = g /\ mode' = mode
      /\ Met(fault, q.fault)
  BY DEF Reads, Reader
<1>2. faults' \in 0 .. MaxIoFaults /\ q.fault = 0
  BY <1>1, FaultsCounted
<1>3. /\ q \in ReaderState /\ q.ptr <= q.len /\ q.len <= Len(q.start)
      /\ q.block_size # 0 => Len(q.start) = BlockSize
      /\ q.start \in Seq(Char)
  BY ReaderProps DEF ReaderOK, BufferOK
<1>4. buffer' \in Seq(Char) /\ Len(buffer') = BlockSize
  BY <1>1, <1>3 DEF FileInv
<1>5. ReaderOK(f', stored')
  BY <1>1
<1>6. g'.medium = "memory" => f'.block_size = 0
  BY <1>1 DEF FileInv
<1>7. mode' = "read" /\ mode' \in {"write", "read"}
  BY <1>1
<1>8. c' \in Char \cup {Eof}
  BY <1>1
<1>9. stored' \in Seq(Char) /\ g' \in [medium : Media, ptr : 0 .. BlockSize,
                                       failed : BOOLEAN]
  BY <1>1 DEF FileInv
<1>10. /\ f' \in ReaderState /\ f'.fault = 0
       /\ f'.ptr <= f'.len /\ f'.len <= Len(f'.start)
  BY <1>1, <1>2, <1>3
<1>11. QED
  BY <1>2, <1>4, <1>5, <1>6, <1>7, <1>8, <1>9, <1>10 DEF FileInv

(* A call that reads is one of the tape. *)
LEMMA ReadsTape ==
  ASSUME FileInv, NEW fault \in Fault(2), NEW result, NEW q,
         Reads(fault, result, q), NEW n, NEW p, Answer(fault, result, q, n, p)
  PROVE  Tape!Reads(n, p)
<1>1. /\ mode = "read" /\ c' = result /\ f' = q
      /\ stored' = stored /\ g' = g /\ mode' = mode
      /\ Met(fault, q.fault)
  BY DEF Reads, Reader
<1>2. q.fault = 0 /\ faults' = IF fault = 0 THEN faults ELSE faults + 1
  BY <1>1, FaultsCounted
<1>3. /\ Contents = stored /\ Contents' = stored
      /\ Position' = nk_ftell(q)
      /\ (mode' = "read" /\ nk_feof(f') /\ nk_ftell(f') < Len(stored'))
           = LostAt(q, stored)
  BY <1>1 DEF Contents, Position, LostAt
<1>4. Tape!At(n) = CharAt(n) /\ Tape!Eof = Eof
  BY <1>3 DEF Tape!At, Tape!Size, CharAt, Tape!Eof, Eof
<1>5. CASE fault = 0
  <2>1. result = CharAt(n) /\ nk_ftell(q) = p /\ ~LostAt(q, stored)
    BY <1>2, <1>5 DEF Answer
  <2>2. faults' = faults
    BY <1>2, <1>5
  <2>3. QED
    BY <1>1, <1>3, <1>4, <2>1, <2>2 DEF Tape!Reads
<1>6. CASE fault # 0
  <2>1. /\ f.block_size # 0
        /\ result \in {CharAt(n), Eof} /\ nk_ftell(q) \in 0 .. p
    BY <1>2, <1>6 DEF Answer
  <2>2. faults' = faults + 1
    BY <1>2, <1>6
  <2>3. g.medium # "memory"
    BY <1>1, <2>1 DEF FileInv
  <2>4. QED
    BY <1>1, <1>3, <1>4, <2>1, <2>2, <2>3 DEF Tape!Reads, Tape!FaultOfDevice
<1>7. QED
  BY <1>5, <1>6

(* What a peek returns is a character or the end of the file. *)
LEMMA PeekType ==
  ASSUME stored \in Seq(Char), NEW r, ReaderOK(r, stored)
  PROVE  nk_fpeek(r) \in Char \cup {Eof}
<1>1. CASE nk_feof(r)
  BY <1>1 DEF nk_fpeek
<1>2. CASE ~nk_feof(r)
  <2>1. ~LostAt(r, stored)
    BY <1>2 DEF LostAt
  <2>2. nk_fpeek(r) = CharAt(nk_ftell(r)) /\ nk_ftell(r) \in 0 .. Len(stored)
    BY <2>1, PeekIs
  <2> DEFINE n == nk_ftell(r)
  <2>3. n \in Nat
    BY <2>2
  <2> HIDE DEF n
  <2>4. CharAt(n) \in Char \cup {Eof}
    BY <2>3, CharAtType
  <2>5. QED
    BY <2>2, <2>4 DEF n
<1>3. QED
  BY <1>1, <1>2

(* A seek answers what is at the position. *)
LEMMA SeekAnswers ==
  ASSUME FileInv, mode = "read", NEW fault \in Nat, NEW n, NEW q,
         CameTo(Faulty(fault), q, stored, n)
  PROVE  Answer(fault, nk_fpeek(q), q, n, n)
<1> DEFINE r == Faulty(fault)
<1>1. r.fault = fault /\ r.block_size = f.block_size
  BY FaultySound
<1> HIDE DEF r
<1>2. /\ ReaderOK(q, stored) /\ q.block_size = r.block_size
      /\ \/ nk_ftell(q) = n /\ ~LostAt(q, stored)
            /\ (q.fault = 0 <=> r.fault = 0)
         \/ /\ r.block_size # 0 /\ r.fault # 0 /\ q.fault = 0
            /\ nk_ftell(q) \in 0 .. n /\ nk_feof(q)
  BY Zenon DEF CameTo, r
<1>3. stored \in Seq(Char)
  BY DEF FileInv
<1>4. /\ nk_feof(q) => nk_fpeek(q) = Eof
      /\ ~LostAt(q, stored) => nk_fpeek(q) = CharAt(nk_ftell(q))
  BY <1>2, <1>3, PeekIs
<1>5. CASE nk_ftell(q) = n /\ ~LostAt(q, stored)
           /\ (q.fault = 0 <=> r.fault = 0)
  <2>1. nk_fpeek(q) = CharAt(n)
    BY <1>4, <1>5
  <2>2. QED
    BY <1>1, <1>2, <1>5, <2>1 DEF Answer
<1>6. CASE /\ r.block_size # 0 /\ r.fault # 0 /\ q.fault = 0
           /\ nk_ftell(q) \in 0 .. n /\ nk_feof(q)
  <2>1. nk_fpeek(q) = Eof
    BY <1>4, <1>6
  <2>2. QED
    BY <1>1, <1>2, <1>6, <2>1 DEF Answer
<1>7. QED
  BY <1>2, <1>5, <1>6

(* A peek to where the buffer is not goes there and back. *)
LEMMA ElsewhereAnswers ==
  ASSUME FileInv, mode = "read", NEW fault \in Nat,
         NEW n \in 0 .. Len(stored)
  PROVE  LET peek == PeekElsewhere(Faulty(fault), n)
         IN  /\ Answer(fault, peek.result, peek.r, n, nk_ftell(f))
             /\ peek.result \in Char \cup {Eof}
<1> DEFINE r == Faulty(fault)
           there == nk_fseek(r, n)
           p == nk_ftell(r)
           q == nk_fseek(there, p)
           v == nk_fpeek(there)
<1>1. /\ ReaderOK(r, stored) /\ BufferOK(r, stored)
      /\ r.fault = fault /\ r.block_size = f.block_size
      /\ nk_ftell(r) = nk_ftell(f)
  BY FaultySound
<1>2. stored \in Seq(Char)
  BY DEF FileInv
<1> HIDE DEF r
<1>3. p \in 0 .. Len(stored)
  BY <1>1, <1>2, PeekIs
<1>4. CameTo(r, there, stored, n)
  BY <1>1, <1>2, FastSeek
<1> HIDE DEF there, p
<1>5. ReaderOK(there, stored) /\ BufferOK(there, stored)
  BY <1>4 DEF CameTo, ReaderOK
<1>6. CameTo(there, q, stored, p)
  BY <1>2, <1>3, <1>5, FastSeek
<1> HIDE DEF q
<1>7. Answer(fault, v, there, n, n)
  <2>1. CameTo(Faulty(fault), there, stored, n)
    BY <1>4 DEF r
  <2> HIDE DEF v
  <2>2. Answer(fault, nk_fpeek(there), there, n, n)
    BY <2>1, SeekAnswers
  <2>3. QED
    BY <2>2 DEF v
<1>8. v \in Char \cup {Eof}
  BY <1>2, <1>5, PeekType
<1> HIDE DEF v
<1>9. /\ ReaderOK(q, stored) /\ q.block_size = there.block_size
      /\ \/ nk_ftell(q) = p /\ ~LostAt(q, stored)
            /\ (q.fault = 0 <=> there.fault = 0)
         \/ /\ there.block_size # 0 /\ there.fault # 0 /\ q.fault = 0
            /\ nk_ftell(q) \in 0 .. p /\ nk_feof(q)
  BY <1>6, Zenon DEF CameTo
<1>10. /\ there.block_size = f.block_size
       /\ \/ nk_ftell(there) = n /\ ~LostAt(there, stored)
             /\ (there.fault = 0 <=> fault = 0)
          \/ /\ f.block_size # 0 /\ fault # 0 /\ there.fault = 0
             /\ nk_ftell(there) \in 0 .. n /\ nk_feof(there)
  BY <1>1, <1>4, Zenon DEF CameTo
<1>11. ~LostAt(there, stored) => v = CharAt(nk_ftell(there))
  BY <1>2, <1>5, PeekIs DEF v
<1>12. nk_feof(there) => v = Eof
  BY <1>2, <1>5, PeekIs DEF v
<1>13. p \in 0 .. p
  <2>1. p \in Nat
    BY <1>3
  <2>2. QED
    BY <2>1
<1>14. q.block_size = f.block_size
  BY <1>9, <1>10
<1>15. v \in {CharAt(n), Eof}
  BY <1>10, <1>11, <1>12
<1>16. ASSUME q.fault = 0
       PROVE  IF fault = 0
              THEN v = CharAt(n) /\ nk_ftell(q) = p /\ ~LostAt(q, stored)
              ELSE /\ f.block_size # 0
                   /\ v \in {CharAt(n), Eof} /\ nk_ftell(q) \in 0 .. p
  <2>1. CASE fault = 0
    <3>1. nk_ftell(there) = n /\ ~LostAt(there, stored) /\ there.fault = 0
      BY <1>10, <2>1
    <3>2. nk_ftell(q) = p /\ ~LostAt(q, stored)
      BY <1>9, <3>1
    <3>3. QED
      BY <1>11, <2>1, <3>1, <3>2
  <2>2. CASE fault # 0
    <3>1. f.block_size # 0
      BY <1>9, <1>10, <1>16, <2>2
    <3>2. nk_ftell(q) \in 0 .. p
      BY <1>9, <1>13
    <3>3. QED
      BY <1>15, <2>2, <3>1, <3>2
  <2>3. QED
    BY <2>1, <2>2
<1>17. Answer(fault, v, q, n, p)
  BY <1>9, <1>14, <1>16, Zenon DEF Answer
<1>18. p = nk_ftell(f)
  BY <1>1 DEF p
<1> DEFINE peek == PeekElsewhere(Faulty(fault), n)
<1>19. peek.result = v /\ peek.r = q
  BY DEF PeekElsewhere, v, q, there, p, r
<1>20. QED
  BY <1>8, <1>17, <1>18, <1>19

(* A peek into the buffer. *)
LEMMA ContainedAnswers ==
  ASSUME FileInv, mode = "read", NEW fault \in Nat,
         NEW n \in 0 .. Len(stored), nk_contained(f, n)
  PROVE  LET i == n - f.start_offset + 1
         IN  /\ i \in 1 .. f.len
             /\ Answer(fault, f.start[i], Faulty(fault), n, nk_ftell(f))
             /\ f.start[i] \in Char \cup {Eof}
<1> DEFINE q == Faulty(fault)
           a == f.start_offset
           l == f.len
           p == f.ptr
           i == n - a + 1
           z == Len(stored)
<1>1. /\ ReaderOK(f, stored) /\ f \in ReaderState /\ stored \in Seq(Char)
  BY DEF FileInv
<1>2. /\ a \in Nat /\ l \in Nat /\ p \in Nat /\ z \in Nat /\ n \in Nat
      /\ n <= z
  <2>1. z \in Nat
    BY <1>1, LenProperties
  <2>2. QED
    BY <1>1, <2>1, ReaderProps
<1>3. n >= a /\ n < a + l /\ a + l <= z /\ p <= l
      /\ \A k \in 1 .. l : f.start[k] = stored[a + k]
  BY <1>1 DEF nk_contained, ReaderOK, BufferOK
<1> HIDE DEF a, l, p, z
<1>4. i \in 1 .. l /\ a + i = n + 1 /\ n < z
  BY <1>2, <1>3
<1> HIDE DEF i
<1>5. f.start[i] = CharAt(n)
  BY <1>3, <1>4 DEF CharAt, z
<1>6. CharAt(n) \in Char \cup {Eof}
  BY <1>1, <1>2, CharAtType
<1>7. /\ ReaderOK(q, stored) /\ q.fault = fault
      /\ q.block_size = f.block_size /\ nk_ftell(q) = nk_ftell(f)
      /\ (nk_feof(q) <=> nk_feof(f))
  BY FaultySound
<1>8. ~LostAt(f, stored)
  <2>1. nk_feof(f) => p = l
    BY DEF nk_feof, p, l
  <2>2. nk_ftell(f) = a + p
    BY DEF nk_ftell, a, p
  <2>3. p = l => l = 0 \/ a + l = z
    BY <1>1 DEF ReaderOK, a, l, p, z
  <2>4. l # 0
    BY <1>2, <1>3
  <2>5. p = l => ~ (a + p < z)
    BY <1>2, <2>3, <2>4
  <2>6. QED
    BY <2>1, <2>2, <2>5 DEF LostAt, z
<1>9. ~LostAt(q, stored)
  BY <1>7, <1>8 DEF LostAt
<1> HIDE DEF q
<1>10. Answer(fault, f.start[i], q, n, nk_ftell(f))
  BY <1>5, <1>7, <1>9 DEF Answer
<1>11. QED
  BY <1>4, <1>5, <1>6, <1>10 DEF i, a, l, q

(* The next character, and the next block when this one ends. *)
LEMMA AdvancedComes ==
  ASSUME FileInv, mode = "read", NEW fault \in Nat, ~nk_feof(f)
  PROVE  /\ nk_ftell(f) + 1 \in 0 .. Len(stored)
         /\ CameTo(Faulty(fault), Advanced(Faulty(fault)), stored,
                   nk_ftell(f) + 1)
<1> DEFINE r == Faulty(fault)
           a == r.start_offset
           l == r.len
           p == r.ptr
           z == Len(stored)
           n == nk_ftell(f) + 1
           u == [r EXCEPT !.ptr = @ + 1]
           q == Advanced(r)
<1>1. /\ ReaderOK(r, stored) /\ BufferOK(r, stored)
      /\ nk_ftell(r) = nk_ftell(f) /\ ~nk_feof(r)
  BY FaultySound
<1> HIDE DEF r
<1>2. stored \in Seq(Char)
  BY DEF FileInv
<1>3. r \in ReaderState
  BY <1>1 DEF BufferOK
<1>4. /\ a \in Nat /\ l \in Nat /\ p \in Nat /\ z \in Nat
      /\ r.fault \in Nat /\ Len(r.start) \in Nat
  <2>1. z \in Nat
    BY <1>2, LenProperties
  <2>2. QED
    BY <1>3, <2>1, ReaderProps
<1>5. /\ a + l <= z /\ p <= l /\ l <= Len(r.start)
      /\ \A i \in 1 .. l : r.start[i] = stored[a + i]
  BY <1>1 DEF BufferOK
<1>6. p # l /\ n = (a + p) + 1
  BY <1>1 DEF nk_feof, nk_ftell
<1>7. /\ u \in ReaderState /\ u.ptr = p + 1 /\ u.len = l
      /\ u.start = r.start /\ u.start_offset = a
      /\ u.block_size = r.block_size /\ u.fault = r.fault
  <2>1. p + 1 \in Nat
    BY <1>4
  <2>2. QED
    BY <1>3, <2>1 DEF ReaderState
<1> HIDE DEF u, q, n, z
<1>8. BufferOK(u, stored)
  <2>1. p + 1 <= l
    <3> HIDE DEF p, l
    <3>1. QED
      BY <1>4, <1>5, <1>6
  <2>2. u.block_size # 0 => Len(u.start) = BlockSize
    BY <1>1, <1>7 DEF BufferOK
  <2>3. u.block_size = 0 => u.len = Len(stored) /\ u.start_offset = 0
    BY <1>1, <1>7 DEF BufferOK
  <2>4. /\ u.ptr <= u.len /\ u.len <= Len(u.start)
        /\ u.start_offset + u.len <= Len(stored)
        /\ \A i \in 1 .. u.len : u.start[i] = stored[u.start_offset + i]
    BY <1>5, <1>7, <2>1 DEF z
  <2>5. QED
    BY <1>7, <2>2, <2>3, <2>4 DEF BufferOK
<1>9. n \in 0 .. z
  <2> HIDE DEF a, l, p
  <2>1. QED
    BY <1>4, <1>5, <1>6
<1>10. CASE p + 1 = l
  <2>1. a + l = n
    <3> HIDE DEF a, l, p
    <3>1. QED
      BY <1>4, <1>6, <1>10
  <2>2. q = nk_fseek_slow(u, n)
    BY <1>1, <1>10, <2>1 DEF Advanced, q, u
  <2>3. CameTo(u, q, stored, n)
    BY <1>2, <1>8, <1>9, <2>2, SlowSeek DEF z
  <2>4. CameTo(r, q, stored, n)
    BY <1>7, <2>3, Zenon DEF CameTo
  <2>5. QED
    BY <1>9, <2>4 DEF n, q, z, r
<1>11. CASE p + 1 # l
  <2>1. q = u
    BY <1>1, <1>11 DEF Advanced, q, u
  <2>2. u.ptr # u.len /\ ~nk_feof(u)
    BY <1>7, <1>11 DEF nk_feof
  <2>3. ReaderOK(u, stored)
    BY <1>8, <2>2 DEF ReaderOK
  <2>4. nk_ftell(u) = n
    <3>1. a + (p + 1) = n
      <4> HIDE DEF a, p
      <4>1. QED
        BY <1>4, <1>6
    <3>2. QED
      BY <1>7, <3>1 DEF nk_ftell
  <2>5. CameTo(r, q, stored, n)
    BY <1>7, <2>1, <2>2, <2>3, <2>4, Zenon DEF CameTo, LostAt
  <2>6. QED
    BY <1>9, <2>5 DEF n, q, z, r
<1>12. QED
  BY <1>10, <1>11

-----------------------------------------------------------------------------
(* The calls that read *)

(* The tape is as large as the file. *)
LEMMA SizeIs ==
  ASSUME mode = "read"
  PROVE  /\ Contents = stored /\ Tape!Size = Len(stored)
         /\ Position = nk_ftell(f)
<1>1. Contents = stored /\ Position = nk_ftell(f)
  BY DEF Contents, Position
<1>2. QED
  BY <1>1 DEF Tape!Size

(* nk_fseek is a seek of the tape. *)
LEMMA SeekStep ==
  ASSUME FileInv, Seek
  PROVE  FileInv' /\ Tape!Next
<1>1. PICK n \in 0 .. Len(stored), fault \in Fault(2) :
        Reads(fault, nk_fpeek(nk_fseek(Faulty(fault), n)),
              nk_fseek(Faulty(fault), n))
  BY DEF Seek
<1> DEFINE r == Faulty(fault)
           q == nk_fseek(r, n)
<1>2. mode = "read" /\ stored \in Seq(Char)
  BY <1>1 DEF Reads, FileInv
<1>3. fault \in Nat
  BY FaultIsNat
<1>4. BufferOK(r, stored) /\ r.block_size = f.block_size
  BY <1>2, <1>3, FaultySound
<1> HIDE DEF r
<1>5. CameTo(r, q, stored, n)
  BY <1>2, <1>4, FastSeek
<1>6. Reads(fault, nk_fpeek(q), q)
  BY <1>1 DEF r
<1> HIDE DEF q
<1>7. Answer(fault, nk_fpeek(q), q, n, n)
  BY <1>2, <1>3, <1>5, SeekAnswers DEF r
<1>8. ReaderOK(q, stored) /\ q.block_size = f.block_size
  BY <1>4, <1>5 DEF CameTo
<1>9. nk_fpeek(q) \in Char \cup {Eof}
  BY <1>2, <1>8, PeekType
<1> DEFINE v == nk_fpeek(q)
<1> HIDE DEF v
<1>10. /\ Reads(fault, v, q) /\ Answer(fault, v, q, n, n)
       /\ v \in Char \cup {Eof}
  BY <1>6, <1>7, <1>9 DEF v
<1>11. FileInv'
  BY <1>8, <1>10, ReadsKeep
<1>12. Tape!Reads(n, n)
  BY <1>10, ReadsTape
<1>13. n \in 0 .. Tape!Size
  BY <1>2, SizeIs
<1>14. QED
  BY <1>11, <1>12, <1>13 DEF Tape!Next, Tape!Seek

(* A peek is one of the tape, whichever call it is. *)
LEMMA PeekReads ==
  ASSUME FileInv, NEW n \in 0 .. Len(stored), NEW fault \in Fault(2),
         NEW v, NEW q, Reads(fault, v, q),
         \/ nk_contained(f, n) /\ v = f.start[n - f.start_offset + 1]
              /\ q = Faulty(fault)
         \/ v = PeekElsewhere(Faulty(fault), n).result
              /\ q = PeekElsewhere(Faulty(fault), n).r
  PROVE  FileInv' /\ Tape!Next
<1>1. mode = "read" /\ fault \in Nat
  BY FaultIsNat DEF Reads
<1> DEFINE p == nk_ftell(f)
<1>2. Answer(fault, v, q, n, p) /\ v \in Char \cup {Eof}
  <2>1. CASE nk_contained(f, n) /\ v = f.start[n - f.start_offset + 1]
               /\ q = Faulty(fault)
    BY <1>1, <2>1, ContainedAnswers
  <2>2. CASE v = PeekElsewhere(Faulty(fault), n).result
               /\ q = PeekElsewhere(Faulty(fault), n).r
    BY <1>1, <2>2, ElsewhereAnswers
  <2>3. QED
    BY <2>1, <2>2
<1> HIDE DEF p
<1>3. ReaderOK(q, stored) /\ q.block_size = f.block_size
  BY <1>2 DEF Answer
<1>4. FileInv'
  BY <1>2, <1>3, ReadsKeep
<1>5. Tape!Reads(n, p)
  BY <1>2, ReadsTape
<1>6. n \in 0 .. Tape!Size /\ p = Position
  BY <1>1, SizeIs DEF p
<1>7. QED
  BY <1>4, <1>5, <1>6 DEF Tape!Next, Tape!Peek

(* nk_fpeek_rel is a peek of the tape. *)
LEMMA PeekStep ==
  ASSUME FileInv, Peek
  PROVE  FileInv' /\ Tape!Next
<1>1. PICK n \in 0 .. Len(stored), fault \in Fault(2) :
        Reads(fault, nk_fpeek_rel(Faulty(fault), n).result,
              nk_fpeek_rel(Faulty(fault), n).r)
  BY DEF Peek
<1> DEFINE r == Faulty(fault)
           peek == nk_fpeek_rel(r, n)
           v == peek.result
           q == peek.r
<1>2. mode = "read" /\ fault \in Nat
  BY <1>1, FaultIsNat DEF Reads
<1>3. /\ r.start_offset = f.start_offset /\ r.len = f.len
      /\ r.start = f.start
  BY <1>2, FaultySound
<1>4. nk_contained(r, n) <=> nk_contained(f, n)
  BY <1>3 DEF nk_contained
<1>5. \/ nk_contained(f, n) /\ v = f.start[n - f.start_offset + 1] /\ q = r
      \/ v = PeekElsewhere(r, n).result /\ q = PeekElsewhere(r, n).r
  <2> HIDE DEF r
  <2>1. CASE nk_contained(r, n)
    BY <1>3, <1>4, <2>1 DEF nk_fpeek_rel
  <2>2. CASE ~nk_contained(r, n)
    BY <2>2 DEF nk_fpeek_rel
  <2>3. QED
    BY <2>1, <2>2
<1>6. Reads(fault, v, q)
  BY <1>1
<1> HIDE DEF v, q
<1>7. QED
  BY <1>5, <1>6, PeekReads

(* nk_fpeek_abs is one, where it is called carefully. *)
LEMMA PeekAbsStep ==
  ASSUME FileInv, PeekAbs, CarefulPeek
  PROVE  FileInv' /\ Tape!Next
<1>1. PICK n \in 0 .. Len(stored), fault \in Fault(2) :
        /\ f.ptr = 0 \/ ~nk_contained(f, n)
        /\ \E peek \in nk_fpeek_abs(Faulty(fault), n) :
             Reads(fault, peek.result, peek.r)
  BY DEF PeekAbs
<1>2. PICK peek \in nk_fpeek_abs(Faulty(fault), n) :
        Reads(fault, peek.result, peek.r)
  BY <1>1
<1> DEFINE r == Faulty(fault)
           v == peek.result
           q == peek.r
<1>3. mode = "read" /\ fault \in Nat
  BY <1>2, FaultIsNat DEF Reads
<1>4. /\ r.start_offset = f.start_offset /\ r.len = f.len
      /\ r.start = f.start /\ r.ptr = f.ptr
  BY <1>3, FaultySound
<1>5. nk_contained(r, n) <=> nk_contained(f, n)
  BY <1>4 DEF nk_contained
<1>6. \/ nk_contained(f, n) /\ v = f.start[n - f.start_offset + 1] /\ q = r
      \/ v = PeekElsewhere(r, n).result /\ q = PeekElsewhere(r, n).r
  <2>1. CASE nk_contained(f, n)
    <3> DEFINE i == n - f.start_offset + 1
               j == r.ptr + n - r.start_offset + 1
    <3>1. i \in 1 .. f.len
      BY <1>3, <2>1, ContainedAnswers
    <3>2. r.ptr = 0
      BY <1>1, <1>4, <2>1
    <3>3. j = i
      <4>1. f.start_offset \in Nat /\ n \in Nat
        <5>1. f \in ReaderState /\ stored \in Seq(Char)
          BY DEF FileInv
        <5>2. Len(stored) \in Nat
          BY <5>1, LenProperties
        <5>3. QED
          BY <5>1, <5>2, ReaderProps
      <4>2. QED
        BY <1>4, <3>2, <4>1
    <3>4. j <= r.len
      <4>1. f.len \in Nat
        BY ReaderProps DEF FileInv
      <4> HIDE DEF i, j
      <4>2. QED
        BY <1>4, <3>1, <3>3, <4>1
    <3> HIDE DEF i, j, r
    <3>5. nk_fpeek_abs(r, n) = [result : {r.start[j]}, r : {r}]
      BY <1>5, <2>1, <3>4 DEF nk_fpeek_abs, j
    <3>6. peek \in [result : {r.start[j]}, r : {r}]
      BY <1>2, <3>5 DEF r
    <3>7. v = r.start[j] /\ q = r
      BY <3>6
    <3>8. QED
      BY <1>4, <2>1, <3>3, <3>7 DEF i
  <2>2. CASE ~nk_contained(f, n)
    <3> HIDE DEF r
    <3>1. nk_fpeek_abs(r, n) = {PeekElsewhere(r, n)}
      BY <1>5, <2>2 DEF nk_fpeek_abs
    <3>2. peek = PeekElsewhere(r, n)
      BY <1>2, <3>1 DEF r
    <3>3. QED
      BY <3>2
  <2>3. QED
    BY <2>1, <2>2
<1>7. Reads(fault, v, q)
  BY <1>2
<1> HIDE DEF v, q
<1>8. QED
  BY <1>6, <1>7, PeekReads

(* Wherever it is called, it returns a character or the end of the file,    *)
(* and leaves the file as it was.                                           *)
LEMMA PeekAbsKeeps ==
  ASSUME FileInv, PeekAbs
  PROVE  FileInv'
<1>1. PICK n \in 0 .. Len(stored), fault \in Fault(2) :
        \E peek \in nk_fpeek_abs(Faulty(fault), n) :
          Reads(fault, peek.result, peek.r)
  BY DEF PeekAbs
<1>2. PICK peek \in nk_fpeek_abs(Faulty(fault), n) :
        Reads(fault, peek.result, peek.r)
  BY <1>1
<1> DEFINE r == Faulty(fault)
           v == peek.result
           q == peek.r
<1>3. mode = "read" /\ fault \in Nat
  BY <1>2, FaultIsNat DEF Reads
<1>4. /\ r.start_offset = f.start_offset /\ r.len = f.len
      /\ r.start = f.start /\ r.ptr = f.ptr /\ r.block_size = f.block_size
      /\ ReaderOK(r, stored)
  BY <1>3, FaultySound
<1>5. /\ ReaderOK(q, stored) /\ q.block_size = f.block_size
      /\ v \in Char \cup {Eof}
  <2>1. CASE nk_contained(r, n)
    <3> DEFINE i == r.ptr + n - r.start_offset + 1
               s == r.start
    <3> HIDE DEF r
    <3>1. nk_fpeek_abs(r, n) =
            [result : IF i <= r.len THEN {s[i]} ELSE Char, r : {r}]
      BY <2>1 DEF nk_fpeek_abs
    <3>2. i <= r.len => s[i] \in Char
      <4>1. r \in ReaderState /\ r.len <= Len(s)
        BY <1>4 DEF ReaderOK, BufferOK
      <4>2. stored \in Seq(Char)
        BY DEF FileInv
      <4>3. Len(stored) \in Nat
        BY <4>2, LenProperties
      <4>4. /\ s \in Seq(Char) /\ Len(s) \in Nat /\ n \in Nat
            /\ r.start_offset \in Nat /\ r.ptr \in Nat /\ r.len \in Nat
        BY <4>1, <4>3, ReaderProps
      <4>5. n >= r.start_offset
        BY <2>1 DEF nk_contained
      <4>6. i \in Nat /\ i >= 1
        BY <4>4, <4>5, Z3
      <4> HIDE DEF i, s
      <4>7. i <= r.len => i \in 1 .. Len(s)
        BY <4>1, <4>4, <4>6
      <4>8. QED
        BY <4>4, <4>7, ElementOfSeq
    <3> HIDE DEF i, s
    <3>3. peek \in [result : IF i <= r.len THEN {s[i]} ELSE Char, r : {r}]
      BY <1>2, <3>1 DEF r
    <3>4. v \in Char /\ q = r
      BY <3>2, <3>3
    <3>5. QED
      BY <1>4, <3>4
  <2>2. CASE ~nk_contained(r, n)
    <3> HIDE DEF r
    <3>1. nk_fpeek_abs(r, n) = {PeekElsewhere(r, n)}
      BY <2>2 DEF nk_fpeek_abs
    <3>2. peek = PeekElsewhere(r, n)
      BY <1>2, <3>1 DEF r
    <3> HIDE DEF v, q
    <3>3. Answer(fault, v, q, n, nk_ftell(f)) /\ v \in Char \cup {Eof}
      BY <1>3, <3>2, ElsewhereAnswers DEF r, v, q
    <3>4. QED
      BY <3>3 DEF Answer
  <2>3. QED
    BY <2>1, <2>2
<1>6. Reads(fault, v, q)
  BY <1>2
<1> HIDE DEF v, q
<1>7. QED
  BY <1>5, <1>6, ReadsKeep

(* At the end of a file nothing is read; what could not be read is the end. *)
LEMMA EndReads ==
  ASSUME FileInv, NEW fault \in Fault(2), nk_feof(f), NEW v,
         v = nk_fpeek(f), Reads(fault, v, Faulty(fault))
  PROVE  FileInv' /\ Tape!Next
<1> DEFINE q == Faulty(fault)
           p == nk_ftell(f)
<1>1. /\ mode = "read" /\ c' = v /\ f' = q
      /\ stored' = stored /\ g' = g /\ mode' = mode
      /\ Met(fault, q.fault)
  BY DEF Reads, Reader
<1>2. fault \in Nat
  BY FaultIsNat
<1>3. /\ ReaderOK(q, stored) /\ q.fault = fault
      /\ q.block_size = f.block_size
      /\ nk_ftell(q) = p /\ (nk_feof(q) <=> nk_feof(f))
  BY <1>1, <1>2, FaultySound
<1>4. fault = 0 /\ faults' = faults
  <2>1. q.fault = 0 /\ faults' = IF fault = 0 THEN faults ELSE faults + 1
    BY <1>1, FaultsCounted
  <2>2. QED
    BY <1>3, <2>1
<1>5. v = Eof
  BY DEF nk_fpeek
<1> HIDE DEF q, p
<1>6. FileInv'
  <2>1. Reads(fault, v, q)
    BY DEF q
  <2>2. v \in Char \cup {Eof}
    BY <1>5
  <2>3. QED
    BY <1>3, <2>1, <2>2, ReadsKeep
<1>7. Position = p /\ Contents = stored /\ Tape!Size = Len(stored)
  BY <1>1, SizeIs DEF p
<1>8. CASE LostAt(f, stored)
  <2>1. LostAt(q, stored)
    BY <1>3, <1>8 DEF LostAt, p
  <2>2. Position' = p
    BY <1>1, <1>3 DEF Position
  <2>3. Contents' = stored
    BY <1>1 DEF Contents
  <2>4. /\ mode = "read" /\ nk_feof(f) /\ nk_ftell(f) < Len(stored)
        /\ mode' = "read" /\ nk_feof(f') /\ nk_ftell(f') < Len(stored')
    BY <1>1, <1>8, <2>1 DEF LostAt
  <2>5. c' = Tape!Eof
    BY <1>1, <1>5 DEF Tape!Eof, Eof
  <2>6. Tape!Stuck
    BY <1>1, <1>4, <1>7, <2>2, <2>3, <2>4, <2>5 DEF Tape!Stuck
  <2>7. QED
    BY <1>6, <2>6 DEF Tape!Next
<1>9. CASE ~LostAt(f, stored)
  <2>1. stored \in Seq(Char) /\ ReaderOK(f, stored)
    BY <1>1 DEF FileInv
  <2>2. p \in 0 .. Len(stored) /\ ~ (p < Len(stored))
    BY <1>9, <2>1, PeekIs DEF LostAt, p
  <2>3. v = CharAt(p)
    BY <1>5, <2>2 DEF CharAt
  <2>4. ~LostAt(q, stored)
    BY <1>3, <1>9 DEF LostAt, p
  <2>5. Answer(fault, v, q, p, p)
    BY <1>3, <1>4, <2>3, <2>4 DEF Answer
  <2>6. Reads(fault, v, q)
    BY DEF q
  <2>7. Tape!Reads(p, p)
    BY <2>5, <2>6, ReadsTape
  <2>8. Tape!Following = p
    BY <1>7, <2>2 DEF Tape!Following
  <2>9. ~ (mode = "read" /\ nk_feof(f) /\ nk_ftell(f) < Len(stored))
    BY <1>9 DEF LostAt
  <2>10. Tape!NextChar
    BY <2>7, <2>8, <2>9 DEF Tape!NextChar
  <2>11. QED
    BY <1>6, <2>10 DEF Tape!Next
<1>10. QED
  BY <1>8, <1>9

(* nk_fnext and nk_fgetc move to the next character and return it, or the   *)
(* one before.                                                              *)
LEMMA NextReads ==
  ASSUME FileInv, NEW fault \in Fault(2), ~nk_feof(f), NEW v, NEW q,
         q = Advanced(Faulty(fault)), v \in {nk_fpeek(f), nk_fpeek(q)},
         Reads(fault, v, q)
  PROVE  FileInv' /\ Tape!Next
<1> DEFINE p == nk_ftell(f)
           n == p + 1
<1>1. mode = "read" /\ stored \in Seq(Char) /\ fault \in Nat
      /\ ReaderOK(f, stored)
  BY FaultIsNat DEF Reads, FileInv
<1>2. n \in 0 .. Len(stored) /\ CameTo(Faulty(fault), q, stored, n)
  BY <1>1, AdvancedComes
<1>3. p \in 0 .. Len(stored) /\ p < Len(stored)
  BY <1>1, PeekIs
<1>4. Faulty(fault).block_size = f.block_size
  BY <1>1, FaultySound
<1>5. ReaderOK(q, stored) /\ q.block_size = f.block_size
  BY <1>2, <1>4 DEF CameTo
<1>6. v \in Char \cup {Eof}
  <2>1. nk_fpeek(f) \in Char \cup {Eof} /\ nk_fpeek(q) \in Char \cup {Eof}
    BY <1>1, <1>5, PeekType
  <2>2. QED
    BY <2>1
<1>7. FileInv'
  BY <1>5, <1>6, ReadsKeep
<1>8. Tape!Following = n /\ Position = p
  BY <1>1, <1>3, SizeIs DEF Tape!Following
<1>9. ~ (mode = "read" /\ nk_feof(f) /\ nk_ftell(f) < Len(stored))
  OBVIOUS
<1> HIDE DEF p, n
<1>10. Answer(fault, nk_fpeek(q), q, n, n)
  BY <1>1, <1>2, SeekAnswers
<1>11. CASE v = nk_fpeek(q)
  <2>1. Answer(fault, v, q, n, n)
    BY <1>10, <1>11
  <2>2. Tape!Reads(n, n)
    BY <2>1, ReadsTape
  <2>3. Tape!NextChar
    BY <1>8, <1>9, <2>2 DEF Tape!NextChar
  <2>4. QED
    BY <1>7, <2>3 DEF Tape!Next
<1>12. CASE v = nk_fpeek(f)
  <2>1. v = CharAt(p)
    <3>1. ~LostAt(f, stored)
      BY DEF LostAt
    <3>2. QED
      BY <1>1, <1>12, <3>1, PeekIs DEF p
  <2>2. Answer(fault, v, q, p, n)
    BY <1>10, <2>1, Zenon DEF Answer
  <2>3. Tape!Reads(p, n)
    BY <2>2, ReadsTape
  <2>4. Tape!Getc
    BY <1>8, <1>9, <2>3 DEF Tape!Getc
  <2>5. QED
    BY <1>7, <2>4 DEF Tape!Next
<1>13. QED
  BY <1>11, <1>12

(* nk_fnext is a step of the tape. *)
LEMMA FnextStep ==
  ASSUME FileInv, nk_fnext
  PROVE  FileInv' /\ Tape!Next
<1>1. PICK fault \in Fault(2) :
        Reads(fault, nk_fpeek(Advanced(Faulty(fault))),
              Advanced(Faulty(fault)))
  BY DEF nk_fnext
<1> DEFINE q == Advanced(Faulty(fault))
           v == nk_fpeek(q)
<1>2. Reads(fault, v, q)
  BY <1>1
<1>3. CASE nk_feof(f)
  <2>1. mode = "read" /\ fault \in Nat
    BY <1>1, FaultIsNat DEF Reads
  <2>2. /\ nk_feof(Faulty(fault)) <=> nk_feof(f)
        /\ nk_fpeek(Faulty(fault)) = nk_fpeek(f)
    BY <2>1, FaultySound
  <2>3. q = Faulty(fault)
    BY <1>3, <2>2 DEF Advanced
  <2>4. v = nk_fpeek(f) /\ Reads(fault, v, Faulty(fault))
    BY <1>2, <2>2, <2>3
  <2> HIDE DEF v, q
  <2>5. QED
    BY <1>3, <2>4, EndReads
<1>4. CASE ~nk_feof(f)
  <2>1. v \in {nk_fpeek(f), nk_fpeek(q)} /\ q = Advanced(Faulty(fault))
    OBVIOUS
  <2> DEFINE w == v
             u == q
  <2>2. /\ w \in {nk_fpeek(f), nk_fpeek(u)} /\ u = Advanced(Faulty(fault))
        /\ Reads(fault, w, u)
    BY <1>2, <2>1
  <2> HIDE DEF w, u
  <2>3. QED
    BY <1>4, <2>2, NextReads
<1>5. QED
  BY <1>3, <1>4

(* nk_fgetc is a step of the tape. *)
LEMMA FgetcStep ==
  ASSUME FileInv, nk_fgetc
  PROVE  FileInv' /\ Tape!Next
<1>1. PICK fault \in Fault(2) :
        Reads(fault, nk_fpeek(f), Advanced(Faulty(fault)))
  BY DEF nk_fgetc
<1>2. CASE nk_feof(f)
  <2>1. mode = "read" /\ fault \in Nat
    BY <1>1, FaultIsNat DEF Reads
  <2>2. nk_feof(Faulty(fault)) <=> nk_feof(f)
    BY <2>1, FaultySound
  <2>3. Advanced(Faulty(fault)) = Faulty(fault)
    BY <1>2, <2>2 DEF Advanced
  <2> DEFINE v == nk_fpeek(f)
  <2>4. v = nk_fpeek(f) /\ Reads(fault, v, Faulty(fault))
    BY <1>1, <2>3
  <2> HIDE DEF v
  <2>5. QED
    BY <1>2, <2>4, EndReads
<1>3. CASE ~nk_feof(f)
  <2> DEFINE v == nk_fpeek(f)
             q == Advanced(Faulty(fault))
  <2>1. /\ v \in {nk_fpeek(f), nk_fpeek(q)} /\ q = Advanced(Faulty(fault))
        /\ Reads(fault, v, q)
    BY <1>1
  <2> HIDE DEF v, q
  <2>2. QED
    BY <1>3, <2>1, NextReads
<1>4. QED
  BY <1>2, <1>3

-----------------------------------------------------------------------------
(* The calls that write *)

(* The file that is being written is sound and holds what the tape does. *)
LEMMA WriterSound ==
  ASSUME FileInv, mode = "write", NEW fault \in Nat
  PROVE  LET o == Writer(fault)
         IN  /\ WriterOK(o) /\ o.fault = fault
             /\ o.medium = g.medium /\ o.ptr = g.ptr /\ o.failed = g.failed
             /\ o.buf = buffer /\ o.out = stored
             /\ Held(o) = Contents
<1> DEFINE o == Writer(fault)
<1>1. /\ g \in [medium : Media, ptr : 0 .. BlockSize, failed : BOOLEAN]
      /\ buffer \in Seq(Char) /\ stored \in Seq(Char)
      /\ Len(buffer) = BlockSize
  BY DEF FileInv
<1>2. /\ o.medium = g.medium /\ o.ptr = g.ptr /\ o.failed = g.failed
      /\ o.buf = buffer /\ o.out = stored /\ o.fault = fault
  BY DEF Writer
<1>3. o \in WriterState
  <2> DEFINE m == g.medium
             p == g.ptr
             v == g.failed
  <2>1. m \in Media /\ p \in 0 .. BlockSize /\ v \in BOOLEAN
    BY <1>1
  <2>2. o = [medium |-> m, ptr |-> p, failed |-> v, buf |-> buffer,
             out |-> stored, fault |-> fault]
    BY DEF Writer
  <2> HIDE DEF o, m, p, v
  <2>3. QED
    BY <1>1, <2>1, <2>2 DEF WriterState
<1>4. WriterOK(Writer(0))
  BY DEF FileInv
<1>5. /\ g.medium = "blocks" => Len(stored) % Granularity = 0
      /\ g.medium = "direct" => g.ptr = 0
      /\ g.medium = "memory" => stored = << >>
  BY <1>4 DEF WriterOK, Writer
<1> HIDE DEF o
<1>6. WriterOK(o)
  BY <1>1, <1>2, <1>3, <1>5 DEF WriterOK
<1>7. Held(o) = Contents
  <2>1. CASE g.medium = "direct"
    <3>1. Held(o) = stored
      BY <1>2, <1>5, <1>6, <2>1, EmptyBuffer
    <3>2. QED
      BY <2>1, <3>1 DEF Contents
  <2>2. CASE g.medium # "direct"
    BY <1>2, <2>2 DEF Contents, Held, InBuffer
  <2>3. QED
    BY <2>1, <2>2
<1>8. QED
  BY <1>2, <1>6, <1>7 DEF o

(* A call that writes keeps the invariant. *)
LEMMA WritesKeep ==
  ASSUME FileInv, mode = "write", NEW fault, NEW n \in Nat,
         fault \in Fault(n), NEW p, WriterOK(p), Becomes(p),
         Met(fault, p.fault), UNCHANGED << f, mode, c >>
  PROVE  /\ FileInv'
         /\ Contents' = Held(p)
         /\ g'.medium = p.medium /\ g'.failed = p.failed
         /\ p.fault = 0
         /\ faults' = IF fault = 0 THEN faults ELSE faults + 1
<1>1. /\ g' = [medium |-> p.medium, ptr |-> p.ptr, failed |-> p.failed]
      /\ buffer' = p.buf /\ stored' = p.out
  BY DEF Becomes
<1>2. faults' \in 0 .. MaxIoFaults /\ p.fault = 0
      /\ faults' = IF fault = 0 THEN faults ELSE faults + 1
  BY FaultsCounted
<1>3. /\ p \in WriterState /\ Len(p.buf) = BlockSize
      /\ p.medium \in Media /\ p.ptr \in 0 .. BlockSize
      /\ p.failed \in BOOLEAN /\ p.buf \in Seq(Char) /\ p.out \in Seq(Char)
  BY DEF WriterOK, WriterState
<1>4. g' \in [medium : Media, ptr : 0 .. BlockSize, failed : BOOLEAN]
  <2> DEFINE m == p.medium
             k == p.ptr
             v == p.failed
  <2>1. m \in Media /\ k \in 0 .. BlockSize /\ v \in BOOLEAN
    BY <1>3
  <2>2. g' = [medium |-> m, ptr |-> k, failed |-> v]
    BY <1>1
  <2> HIDE DEF m, k, v
  <2>3. QED
    BY <2>1, <2>2
<1>5. g'.medium = p.medium /\ g'.failed = p.failed /\ g'.ptr = p.ptr
  BY <1>1
<1>6. WriterOK(Writer(0)')
  <2> DEFINE q == Writer(0)'
  <2>1. /\ q.medium = p.medium /\ q.ptr = p.ptr /\ q.failed = p.failed
        /\ q.buf = p.buf /\ q.out = p.out /\ q.fault = 0
    BY <1>1 DEF Writer
  <2>2. q = [p EXCEPT !.fault = 0]
    <3>1. q = p
      <4>1. q = [medium |-> p.medium, ptr |-> p.ptr, failed |-> p.failed,
                 buf |-> p.buf, out |-> p.out, fault |-> p.fault]
        BY <1>1, <1>2 DEF Writer
      <4>2. p = [medium |-> p.medium, ptr |-> p.ptr, failed |-> p.failed,
                 buf |-> p.buf, out |-> p.out, fault |-> p.fault]
        BY <1>3 DEF WriterState
      <4>3. QED
        BY <4>1, <4>2
    <3> HIDE DEF q
    <3>2. QED
      BY <1>2, <1>3, <3>1 DEF WriterState
  <2> HIDE DEF q
  <2>3. q \in WriterState
    BY <1>3, <2>2 DEF WriterState
  <2>4. WriterOK(q)
    BY <2>1, <2>3 DEF WriterOK
  <2>5. QED
    BY <2>4 DEF q
<1>7. /\ stored' \in Seq(Char) /\ buffer' \in Seq(Char)
      /\ Len(buffer') = BlockSize
  BY <1>1, <1>3
<1>8. /\ f' = f /\ mode' = "write" /\ c' = c
  OBVIOUS
<1>9. FileInv'
  BY <1>2, <1>4, <1>6, <1>7, <1>8 DEF FileInv
<1>10. Contents' = Held(p)
  <2>1. Contents' = IF p.medium = "direct" THEN p.out
                    ELSE p.out \o SubSeq(p.buf, 1, p.ptr)
    BY <1>1, <1>5, <1>8 DEF Contents
  <2>2. CASE p.medium = "direct"
    <3>1. p.ptr = 0
      BY <2>2 DEF WriterOK
    <3>2. Held(p) = p.out
      BY <3>1, EmptyBuffer
    <3>3. QED
      BY <2>1, <2>2, <3>2
  <2>3. CASE p.medium # "direct"
    BY <2>1, <2>3 DEF Held, InBuffer
  <2>4. QED
    BY <2>2, <2>3
<1>11. QED
  BY <1>2, <1>5, <1>9, <1>10

(* A call that writes leaves alone what belongs to reading. *)
LEMMA StillWriting ==
  ASSUME mode = "write", UNCHANGED << f, mode, c >>
  PROVE  /\ Position' = Position
         /\ (mode' = "read" /\ nk_feof(f') /\ nk_ftell(f') < Len(stored'))
              = (mode = "read" /\ nk_feof(f) /\ nk_ftell(f) < Len(stored))
<1>1. Position = 0 /\ Position' = 0
  BY DEF Position
<1>2. QED
  BY <1>1

(* nk_fwrite and nk_fprintf put characters to the tape. *)
LEMMA WriteStep ==
  ASSUME FileInv, NEW n \in Chunks, Write(n)
  PROVE  FileInv' /\ Tape!Next
<1>1. /\ mode = "write" /\ nk_fnote(Writer(0)) + n <= MaxSize
      /\ UNCHANGED << f, mode, c >> /\ n \in Nat
  BY FileConstantsOK DEF Write
<1>2. PICK fault \in Fault(n) :
        LET o == Writer(fault)
        IN  \E after \in {nk_fwrite(o, Following(o, n)),
                          nk_fprintf(o, Following(o, n))} :
              Becomes(after) /\ Met(fault, after.fault)
  BY DEF Write
<1> DEFINE o == Writer(fault)
           chs == Following(o, n)
           h == Held(o)
           z == Len(h)
<1>3. PICK p \in {nk_fwrite(o, chs), nk_fprintf(o, chs)} :
        Becomes(p) /\ Met(fault, p.fault)
  BY <1>2
<1>4. fault \in Nat
  BY <1>1, FaultIsNat
<1>5. /\ WriterOK(o) /\ o.fault = fault
      /\ o.medium = g.medium /\ o.ptr = g.ptr /\ o.failed = g.failed
      /\ o.out = stored /\ Held(o) = Contents
  BY <1>1, <1>4, WriterSound
<1>6. nk_fnote(o) = z /\ nk_fnote(Writer(0)) = nk_fnote(o) /\ z \in Nat
  <2>1. z = Len(o.out) + o.ptr /\ Len(o.out) \in Nat /\ o.ptr \in Nat
    BY <1>5, HeldProps
  <2>2. Writer(0).out = stored /\ Writer(0).ptr = g.ptr
    BY DEF Writer
  <2>3. QED
    BY <1>5, <2>1, <2>2 DEF nk_fnote
<1> HIDE DEF o, z
<1>7. z + n <= MaxSize
  BY <1>1, <1>6
<1>8. /\ chs = [i \in 1 .. n |-> z + i] /\ chs \in Seq(Char)
      /\ Len(chs) = n
  <2>1. chs = [i \in 1 .. n |-> z + i]
    BY <1>6 DEF Following
  <2>2. \A i \in 1 .. n : z + i \in Char
    BY <1>1, <1>6, <1>7, FileConstantsOK DEF Char
  <2> HIDE DEF chs
  <2>3. QED
    BY <1>1, <2>1, <2>2
<1>9. Reached(o, p, chs, n)
  <2> HIDE DEF chs
  <2>1. Reached(o, nk_fwrite(o, chs), chs, Len(chs))
    BY <1>5, <1>8, ReachedFwrite
  <2>2. Reached(o, nk_fprintf(o, chs), chs, Len(chs))
    BY <1>5, <1>8, ReachedPrintf
  <2>3. QED
    BY <1>3, <1>8, <2>1, <2>2 DEF chs
<1> HIDE DEF chs
<1>10. WriterOK(p) /\ p.medium = o.medium
  BY <1>9 DEF Reached
<1>11. /\ FileInv'
       /\ Contents' = Held(p)
       /\ g'.medium = p.medium /\ g'.failed = p.failed
       /\ p.fault = 0
       /\ faults' = IF fault = 0 THEN faults ELSE faults + 1
  BY <1>1, <1>3, <1>10, WritesKeep
<1> DEFINE k == Held(p)
<1>12. k \in Seq(Char)
  BY <1>10, HeldProps
<1>13. h \in Seq(Char)
  BY <1>5, HeldProps
<1>14. Tape!Size = z
  BY <1>5 DEF Tape!Size, z
<1>15. ASSUME Appended(o, p, chs, n)
       PROVE  /\ Len(k) = z + n
              /\ \A i \in 1 .. z + n :
                   \/ k[i] = IF i <= z THEN h[i] ELSE i
                   \/ Hit(o, p) /\ k[i] = Spoiled
  <2>1. /\ Len(k) = z + n
        /\ \A i \in 1 .. z : k[i] = h[i] \/ (Hit(o, p) /\ k[i] = Spoiled)
        /\ \A i \in 1 .. n : \/ k[z + i] = chs[i]
                             \/ Hit(o, p) /\ k[z + i] = Spoiled
    BY <1>15, Zenon DEF Appended, z
  <2> HIDE DEF h, k
  <2>2. ASSUME NEW i \in 1 .. z + n
        PROVE  \/ k[i] = IF i <= z THEN h[i] ELSE i
               \/ Hit(o, p) /\ k[i] = Spoiled
    <3>1. CASE i <= z
      <4>1. i \in 1 .. z
        BY <1>6, <2>2, <3>1
      <4>2. QED
        BY <2>1, <3>1, <4>1
    <3>2. CASE ~ (i <= z)
      <4> DEFINE j == i - z
      <4>1. j \in 1 .. n /\ i = z + j
        BY <1>1, <1>6, <2>2, <3>2
      <4> HIDE DEF j
      <4>2. chs[j] = z + j
        BY <1>8, <4>1
      <4>3. QED
        BY <2>1, <3>2, <4>1, <4>2
    <3>3. QED
      BY <3>1, <3>2
  <2>3. QED
    BY <2>1, <2>2
<1>16. ASSUME Appended(o, p, chs, n), ~Hit(o, p)
       PROVE  Contents' = Contents \o [i \in 1 .. n |-> Tape!Size + i]
  <2>1. [i \in 1 .. n |-> Tape!Size + i] = chs
    BY <1>8, <1>14
  <2>2. /\ h \o chs \in Seq(Char) /\ Len(h \o chs) = z + n
        /\ \A i \in 1 .. z : (h \o chs)[i] = h[i]
        /\ \A i \in 1 .. n : (h \o chs)[z + i] = chs[i]
    <3>1. h \in Seq(Char) /\ chs \in Seq(Char)
      BY <1>8, <1>13
    <3> HIDE DEF h
    <3>2. /\ h \o chs \in Seq(Char) /\ Len(h \o chs) = Len(h) + Len(chs)
          /\ \A i \in 1 .. Len(h) : (h \o chs)[i] = h[i]
          /\ \A i \in 1 .. Len(chs) : (h \o chs)[Len(h) + i] = chs[i]
      BY ONLY <3>1, ConcatProps
    <3>3. Len(h) = z
      BY DEF h, z
    <3>4. QED
      BY <1>8, <3>2, <3>3
  <2>3. /\ Len(k) = z + n
        /\ \A i \in 1 .. z : k[i] = h[i]
        /\ \A i \in 1 .. n : k[z + i] = chs[i]
    BY <1>16, Zenon DEF Appended, z
  <2> DEFINE w == h \o chs
  <2> HIDE DEF w, h, k
  <2>4. ASSUME NEW i \in 1 .. z + n
        PROVE  k[i] = w[i]
    <3>1. CASE i <= z
      <4>1. i \in 1 .. z
        BY <1>6, <2>4, <3>1
      <4>2. QED
        BY <2>2, <2>3, <4>1 DEF w
    <3>2. CASE ~ (i <= z)
      <4> DEFINE j == i - z
      <4>1. j \in 1 .. n /\ i = z + j
        BY <1>1, <1>6, <2>4, <3>2
      <4> HIDE DEF j
      <4>2. k[z + j] = chs[j] /\ w[z + j] = chs[j]
        BY <2>2, <2>3, <4>1 DEF w
      <4>3. QED
        BY <4>1, <4>2
    <3>3. QED
      BY <3>1, <3>2
  <2>5. k = w
    <3>1. w \in Seq(Char) /\ Len(w) = Len(k)
      BY <2>2, <2>3 DEF w
    <3>2. \A i \in 1 .. Len(k) : k[i] = w[i]
      BY <2>3, <2>4
    <3>3. QED
      BY <1>12, <3>1, <3>2, SeqEqual
  <2>6. Contents = h
    BY <1>5 DEF h
  <2>7. QED
    BY <1>11, <2>1, <2>5, <2>6 DEF w, k
<1>17. /\ UNCHANGED << g.medium, mode, c >> /\ Position' = Position
       /\ (mode' = "read" /\ nk_feof(f') /\ nk_ftell(f') < Len(stored'))
            = (mode = "read" /\ nk_feof(f) /\ nk_ftell(f) < Len(stored))
  BY <1>1, <1>5, <1>10, <1>11, StillWriting
<1>18. Tape!Put(n)
  <2>1. CASE g.medium # "memory" /\ fault = 0
    <3>1. ~Hit(o, p) /\ o.failed \in BOOLEAN
      BY <1>5, <2>1 DEF Hit, WriterOK, WriterState
    <3>2. Appended(o, p, chs, n) /\ p.failed = (o.failed \/ Hit(o, p))
      BY <1>5, <1>9, <2>1, Zenon DEF Reached
    <3>3. p.failed = o.failed
      BY <3>1, <3>2
    <3>4. faults' = faults
      BY <1>11, <2>1
    <3>5. UNCHANGED << g.failed, faults >>
      BY <1>5, <1>11, <3>3, <3>4
    <3>6. Contents' = Contents \o [i \in 1 .. n |-> Tape!Size + i]
      BY <1>16, <3>1, <3>2
    <3>7. QED
      BY <1>1, <1>17, <2>1, <3>5, <3>6 DEF Tape!Put
  <2>2. CASE g.medium # "memory" /\ fault # 0
    <3>1. Hit(o, p)
      BY <1>4, <1>5, <1>11, <2>2 DEF Hit
    <3>2. Appended(o, p, chs, n) /\ p.failed = (o.failed \/ Hit(o, p))
      BY <1>5, <1>9, <2>2, Zenon DEF Reached
    <3>3. g'.failed = TRUE
      BY <1>11, <3>1, <3>2
    <3>4. Tape!FaultOfDevice
      BY <1>11, <2>2 DEF Tape!FaultOfDevice
    <3>5. Len(Contents') = Tape!Size + n
      BY <1>11, <1>14, <1>15, <3>2
    <3>6. Tape!Keeps(Tape!Size + n, TRUE)
      <4>1. \A i \in 1 .. z + n :
              \/ k[i] = IF i <= z THEN h[i] ELSE i
              \/ k[i] = Spoiled
        BY <1>15, <3>2
      <4>2. Contents = h /\ Contents' = k /\ Tape!Spoiled = Spoiled
        BY <1>5, <1>11 DEF Tape!Spoiled, Spoiled
      <4>3. QED
        BY <1>14, <4>1, <4>2 DEF Tape!Keeps
    <3>7. QED
      BY <1>1, <1>17, <3>3, <3>4, <3>5, <3>6 DEF Tape!Put
  <2>3. CASE g.medium = "memory"
    <3>1. /\ p.fault = o.fault
          /\ \/ z + n > BlockSize /\ p.failed
             \/ Appended(o, p, chs, n) /\ p.failed = o.failed
      BY <1>5, <1>9, <2>3 DEF Reached, z
    <3>2. faults' = faults /\ ~Hit(o, p)
      BY <1>5, <1>11, <3>1 DEF Hit
    <3>3. CASE z + n > BlockSize /\ p.failed
      <4>1. p.failed = TRUE
        BY <1>10, <3>3 DEF WriterOK, WriterState
      <4>2. g'.failed = TRUE
        BY <1>11, <4>1
      <4>3. Tape!Size + n > BlockSize
        BY <1>14, <3>3
      <4>4. QED
        BY <1>1, <1>17, <2>3, <3>2, <4>2, <4>3 DEF Tape!Put
    <3>4. CASE Appended(o, p, chs, n) /\ p.failed = o.failed
      <4>1. z + n <= BlockSize
        <5>1. Len(k) = z + n
          BY <1>15, <3>4
        <5>2. p.out = << >> /\ p.ptr \in 0 .. BlockSize
          BY <1>5, <1>10, <2>3 DEF WriterOK, WriterState
        <5>3. Len(k) = Len(p.out) + p.ptr
          BY <1>10, HeldProps
        <5>4. Len(p.out) = 0
          BY <5>2, EmptySeq
        <5>5. QED
          BY <5>1, <5>2, <5>3, <5>4
      <4>2. g.medium = "memory" => Tape!Size + n <= BlockSize
        BY <1>14, <4>1
      <4>3. UNCHANGED << g.failed, faults >>
        BY <1>5, <1>11, <3>2, <3>4
      <4>4. Contents' = Contents \o [i \in 1 .. n |-> Tape!Size + i]
        BY <1>16, <3>2, <3>4
      <4>5. QED
        BY <1>1, <1>17, <4>2, <4>3, <4>4 DEF Tape!Put
    <3>5. QED
      BY <3>1, <3>3, <3>4
  <2>4. QED
    BY <2>1, <2>2, <2>3
<1>19. n \in 0 .. MaxSize
  BY <1>1, <1>6, <1>7, FileConstantsOK
<1>20. QED
  BY <1>11, <1>18, <1>19 DEF Tape!Next

(* What a flush of the tape pads it to. *)
LEMMA NewSizeIs ==
  ASSUME FileInv, mode = "write", g.medium # "memory"
  PROVE  /\ Tape!NewSize(0) = Len(stored) + RoundUp(g.ptr)
         /\ Tape!Size = Len(stored) + g.ptr
         /\ Tape!Size \in Nat
<1> DEFINE o == Writer(0)
           a == Len(stored)
           x == g.ptr
           z == Tape!Size
<1>1. /\ WriterOK(o) /\ o.medium = g.medium /\ o.ptr = x
      /\ o.out = stored /\ Held(o) = Contents
  BY WriterSound
<1> HIDE DEF o
<1>2. z = a + x /\ a \in Nat /\ x \in Nat
  <2>1. Len(Held(o)) = Len(o.out) + o.ptr /\ Len(o.out) \in Nat
        /\ o.ptr \in Nat
    BY <1>1, HeldProps
  <2>2. QED
    BY <1>1, <2>1 DEF Tape!Size
<1>3. CASE g.medium = "blocks"
  <2>1. a % Granularity = 0
    BY <1>1, <1>3 DEF WriterOK
  <2>2. Tape!NewSize(0) =
          ((z + 0 + Granularity - 1) \div Granularity) * Granularity
    BY <1>3 DEF Tape!NewSize
  <2> HIDE DEF a, x, z
  <2>3. ((a + x + Granularity - 1) \div Granularity) * Granularity
          = a + RoundUp(x)
    BY <1>2, <2>1, RoundUpProps
  <2>4. z + 0 = a + x
    BY <1>2
  <2>5. QED
    BY <1>2, <2>2, <2>3, <2>4 DEF a, x, z
<1>4. CASE g.medium = "direct"
  <2>1. x = 0
    BY <1>1, <1>4 DEF WriterOK
  <2>2. Tape!NewSize(0) = ((z + 0 + 1 - 1) \div 1) * 1
    BY <1>4 DEF Tape!NewSize
  <2> HIDE DEF a, x, z
  <2>3. z = a /\ z \in Nat
    BY <1>2, <2>1
  <2>4. (z + 0 + 1 - 1) \div 1 = z
    <3>1. z = 1 * z + 0 /\ 0 \in 0 .. 1 - 1 /\ 1 \in Nat \ {0} /\ z \in Int
      BY <2>3
    <3>2. z \div 1 = z
      BY <3>1, DivUnique
    <3>3. z + 0 + 1 - 1 = z
      BY <2>3
    <3>4. QED
      BY <3>2, <3>3
  <2>5. RoundUp(0) = 0
    <3> DEFINE m == Granularity
    <3>1. m \in Nat \ {0}
      BY FileConstantsOK
    <3>2. 0 + m - 1 = m * 0 + (m - 1) /\ m - 1 \in 0 .. m - 1
          /\ 0 + m - 1 \in Int
      BY <3>1
    <3>3. (0 + m - 1) \div m = 0
      BY <3>1, <3>2, DivUnique
    <3>4. 0 * m = 0
      BY <3>1
    <3>5. QED
      BY <3>3, <3>4 DEF RoundUp
  <2>6. a + 0 = a /\ z * 1 = z
    BY <2>3
  <2>7. QED
    BY <1>2, <2>1, <2>2, <2>3, <2>4, <2>5, <2>6 DEF a, x, z
<1>5. g.medium \in Media
  BY DEF FileInv
<1>6. z \in Nat
  BY <1>2
<1>7. QED
  BY <1>2, <1>3, <1>4, <1>5, <1>6 DEF Media

(* After a flush the tape is padded, and what it held is in its place. *)
LEMMA FlushPads ==
  ASSUME FileInv, mode = "write", g.medium # "memory", NEW fault \in Nat,
         Contents' = nk_fflush(Writer(fault)).out
  PROVE  /\ fault # 1 => Tape!Padded(FALSE)
         /\ Tape!Padded(TRUE)
<1> DEFINE o == Writer(fault)
           p == nk_fflush(o)
           z == Tape!Size
<1>1. /\ WriterOK(o) /\ o.fault = fault
      /\ o.medium = g.medium /\ o.ptr = g.ptr
      /\ o.out = stored /\ Held(o) = Contents
  BY WriterSound
<1> HIDE DEF o
<1>2. /\ Len(p.out) = Len(o.out) + RoundUp(o.ptr)
      /\ \A i \in 1 .. Len(Held(o)) :
           \/ p.out[i] = Held(o)[i]
           \/ o.fault = 1 /\ p.out[i] = Spoiled
  BY <1>1, FlushProps
<1> HIDE DEF p
<1>3. Contents' = p.out
  BY DEF p, o
<1>4. Len(Contents') = Tape!NewSize(0)
  BY <1>1, <1>2, <1>3, NewSizeIs
<1>5. z = Len(Contents) /\ Tape!Spoiled = Spoiled
  BY DEF Tape!Size, Tape!Spoiled, Spoiled
<1>6. \A i \in 1 .. z :
        Contents'[i] = Contents[i] \/ (fault = 1 /\ Contents'[i] = Spoiled)
  BY <1>1, <1>2, <1>3, <1>5
<1>7. \A i \in 1 .. z : i <= z
  OBVIOUS
<1> HIDE DEF z
<1>8. Tape!Keeps(z, TRUE)
  BY <1>5, <1>6, <1>7 DEF Tape!Keeps, z
<1>9. fault # 1 => Tape!Keeps(z, FALSE)
  BY <1>5, <1>6, <1>7 DEF Tape!Keeps, z
<1>10. QED
  BY <1>4, <1>8, <1>9 DEF Tape!Padded, z

(* nk_fflush is a flush of the tape. *)
LEMMA FlushStep ==
  ASSUME FileInv, Flush
  PROVE  FileInv' /\ Tape!Next
<1>1. mode = "write" /\ UNCHANGED << f, mode, c >>
  BY DEF Flush
<1>2. PICK fault \in Fault(1) :
        /\ Becomes(nk_fflush(Writer(fault)))
        /\ Met(fault, nk_fflush(Writer(fault)).fault)
  BY DEF Flush
<1> DEFINE o == Writer(fault)
           p == nk_fflush(o)
<1>3. fault \in Nat
  BY FaultIsNat
<1>4. /\ WriterOK(o) /\ o.fault = fault
      /\ o.medium = g.medium /\ o.ptr = g.ptr /\ o.failed = g.failed
      /\ o.buf = buffer /\ o.out = stored /\ Held(o) = Contents
  BY <1>1, <1>3, WriterSound
<1>5. Becomes(p) /\ Met(fault, p.fault)
  BY <1>2
<1> HIDE DEF o, p
<1>6. CASE g.medium # "memory"
  <2>1. /\ WriterOK(p)
        /\ p.medium = o.medium /\ p.ptr = 0
        /\ p.fault = OneLess(o.fault)
        /\ p.failed = (o.failed \/ o.fault = 1)
    BY <1>4, <1>6, FlushProps DEF p
  <2>2. /\ FileInv'
        /\ Contents' = Held(p)
        /\ g'.medium = p.medium /\ g'.failed = p.failed
        /\ p.fault = 0
        /\ faults' = IF fault = 0 THEN faults ELSE faults + 1
    <3>1. 1 \in Nat
      OBVIOUS
    <3>2. QED
      BY <1>1, <1>2, <1>5, <2>1, <3>1, WritesKeep
  <2>3. Held(p) = p.out
    BY <2>1, EmptyBuffer
  <2>4. /\ fault # 1 => Tape!Padded(FALSE)
        /\ Tape!Padded(TRUE)
    BY <1>1, <1>3, <1>6, <2>2, <2>3, FlushPads DEF p, o
  <2>5. o.failed \in BOOLEAN
    BY <1>4 DEF WriterOK, WriterState
  <2>6. Tape!Flushed
    <3>1. CASE fault = 0
      <4>1. p.failed = o.failed
        BY <1>4, <2>1, <2>5, <3>1
      <4>2. UNCHANGED << g.failed, faults >>
        BY <1>4, <2>2, <3>1, <4>1
      <4>3. Tape!Padded(FALSE)
        <5>1. fault # 1
          BY <3>1
        <5>2. QED
          BY <2>4, <5>1, Zenon
      <4>4. QED
        BY <4>2, <4>3 DEF Tape!Flushed
    <3>2. CASE fault # 0
      <4>1. fault = 1
        BY <1>3, <1>4, <2>1, <2>2, <3>2 DEF OneLess
      <4>2. g'.failed = TRUE
        BY <1>4, <2>1, <2>2, <4>1
      <4>3. Tape!FaultOfDevice
        BY <1>6, <2>2, <3>2 DEF Tape!FaultOfDevice
      <4>4. QED
        BY <2>4, <4>2, <4>3 DEF Tape!Flushed
    <3>3. QED
      BY <3>1, <3>2
  <2>7. /\ UNCHANGED << g.medium, mode, c >> /\ Position' = Position
        /\ (mode' = "read" /\ nk_feof(f') /\ nk_ftell(f') < Len(stored'))
             = (mode = "read" /\ nk_feof(f) /\ nk_ftell(f) < Len(stored))
    BY <1>1, <1>4, <2>1, <2>2, StillWriting
  <2>8. Tape!Flush
    BY <1>1, <1>6, <2>6, <2>7 DEF Tape!Flush
  <2>9. QED
    BY <2>2, <2>8 DEF Tape!Next
<1>7. CASE g.medium = "memory"
  <2>1. p = [o EXCEPT !.ptr = 0, !.failed = TRUE]
    BY <1>4, <1>7 DEF nk_fflush, p
  <2>2. /\ p \in WriterState /\ p.medium = o.medium /\ p.ptr = 0
        /\ p.failed = TRUE /\ p.fault = o.fault /\ p.buf = o.buf
        /\ p.out = o.out
    <3>1. 0 \in 0 .. BlockSize /\ TRUE \in BOOLEAN
      BY FileConstantsOK
    <3>2. o \in WriterState
      BY <1>4 DEF WriterOK
    <3>3. QED
      BY <2>1, <3>1, <3>2 DEF WriterState
  <2>3. WriterOK(p)
    BY <1>4, <2>2 DEF WriterOK
  <2>4. /\ FileInv'
        /\ g'.medium = p.medium /\ g'.failed = p.failed
        /\ p.fault = 0
        /\ faults' = IF fault = 0 THEN faults ELSE faults + 1
    <3>1. 1 \in Nat
      OBVIOUS
    <3>2. QED
      BY <1>1, <1>2, <1>5, <2>3, <3>1, WritesKeep
  <2>5. faults' = faults
    BY <1>4, <2>2, <2>4
  <2>6. /\ UNCHANGED << g.medium, mode, c >> /\ Position' = Position
        /\ (mode' = "read" /\ nk_feof(f') /\ nk_ftell(f') < Len(stored'))
             = (mode = "read" /\ nk_feof(f) /\ nk_ftell(f) < Len(stored))
    BY <1>1, <1>4, <2>2, <2>4, StillWriting
  <2>7. Tape!Flush
    BY <1>1, <1>7, <2>2, <2>4, <2>5, <2>6 DEF Tape!Flush
  <2>8. QED
    BY <2>4, <2>7 DEF Tape!Next
<1>8. QED
  BY <1>6, <1>7

(* A closed file is opened at its beginning, in blocks. *)
LEMMA OpenProps ==
  ASSUME NEW d \in Seq(Char), buffer \in Seq(Char), Len(buffer) = BlockSize,
         NEW fault \in Nat
  PROVE  LET q == nkinfile_open(d, fault)
         IN  /\ ReaderOK(q, d)
             /\ q.block_size = BlockSize
             /\ nk_ftell(q) = 0
             /\ fault = 0 => q.fault = 0 /\ ~LostAt(q, d)
             /\ fault # 0 /\ q.fault = 0 => fault = 1 /\ LostAt(q, d)
<1> DEFINE r == [start |-> buffer, ptr |-> 0, len |-> 0, start_offset |-> 0,
                 block_size |-> BlockSize, fault |-> fault]
           z == Len(d)
           q == nkinfile_open(d, fault)
           m == BlockSize
<1>1. z \in Nat /\ m \in Nat \ {0}
  BY FileConstantsOK, LenProperties
<1>2. /\ r \in ReaderState /\ Len(r.start) = m /\ r.start_offset = 0
      /\ r.ptr = 0 /\ r.block_size = m /\ r.fault = fault
  BY DEF ReaderState
<1>3. 0 \in 0 .. z
  BY <1>1
<1>4. q = BlockLoaded(r, BlockAt(d, 0))
  BY DEF nkinfile_open
<1> HIDE DEF r, q
<1>5. /\ q \in ReaderState
      /\ q.block_size = r.block_size /\ q.start_offset = 0
      /\ q.ptr = r.ptr /\ Len(q.start) = m
      /\ q.len <= m /\ 0 + q.len <= z
      /\ \A i \in 1 .. q.len : q.start[i] = d[0 + i]
      /\ \/ 0 = z /\ q.len = 0 /\ q.fault = r.fault
         \/ /\ 0 < z /\ q.len = 0
            /\ r.fault = 1 /\ q.fault = 0
         \/ /\ 0 < z /\ r.fault # 1
            /\ q.len = IF 0 + m > z THEN z - 0 ELSE m
            /\ q.fault = OneLess(r.fault)
  BY <1>2, <1>3, <1>4, LoadProps
<1>6. q.ptr = 0 /\ q.block_size = m
  BY <1>2, <1>5
<1>7. q.len \in Nat /\ q.fault \in Nat
  BY <1>5, ReaderProps
<1>8. BufferOK(q, d)
  <2>1. /\ q.ptr <= q.len /\ q.len <= Len(q.start)
        /\ q.start_offset + q.len <= z
    BY <1>5, <1>6, <1>7
  <2>2. q.block_size # 0 /\ \A i \in 1 .. q.len :
                              q.start[i] = d[q.start_offset + i]
    BY <1>1, <1>5, <1>6
  <2>3. QED
    BY <1>5, <2>1, <2>2 DEF BufferOK
<1>9. ReaderOK(q, d)
  BY <1>6, <1>8 DEF ReaderOK
<1>10. nk_ftell(q) = 0 /\ (nk_feof(q) <=> q.len = 0)
  BY <1>5, <1>6, <1>7 DEF nk_ftell, nk_feof
<1> DEFINE x == q.len
           s == q.fault
<1>11. \/ 0 = z /\ x = 0 /\ s = fault
       \/ 0 < z /\ x = 0 /\ fault = 1 /\ s = 0
       \/ 0 < z /\ fault # 1 /\ x = (IF 0 + m > z THEN z - 0 ELSE m)
            /\ s = IF fault = 0 THEN 0 ELSE fault - 1
  BY <1>2, <1>5 DEF OneLess
<1> HIDE DEF x, s, z, m
<1>12. /\ fault = 0 => s = 0 /\ ~ (x = 0 /\ 0 < z)
       /\ fault # 0 /\ s = 0 => fault = 1 /\ x = 0 /\ 0 < z
  BY <1>1, <1>11
<1>13. /\ fault = 0 => s = 0 /\ ~LostAt(q, d)
       /\ fault # 0 /\ s = 0 => fault = 1 /\ LostAt(q, d)
  BY <1>10, <1>12 DEF LostAt, x, z
<1>14. QED
  BY <1>6, <1>9, <1>10, <1>13 DEF q, m, s

(* A file in memory is opened at its beginning. *)
LEMMA OpenMemProps ==
  ASSUME NEW d \in Seq(Char), NEW fault \in Nat
  PROVE  LET q == [nkinfile_open_mem(d) EXCEPT !.fault = fault]
         IN  /\ ReaderOK(q, d) /\ q.block_size = 0 /\ q.fault = fault
             /\ nk_ftell(q) = 0 /\ ~LostAt(q, d)
<1> DEFINE q == [nkinfile_open_mem(d) EXCEPT !.fault = fault]
           z == Len(d)
<1>1. z \in Nat
  BY LenProperties
<1>2. q = [start |-> d, ptr |-> 0, start_offset |-> 0, block_size |-> 0,
           len |-> z, fault |-> fault]
  BY DEF nkinfile_open_mem
<1> HIDE DEF q, z
<1>3. /\ q \in ReaderState /\ q.ptr = 0 /\ q.start_offset = 0
      /\ q.block_size = 0 /\ q.len = z /\ q.start = d /\ q.fault = fault
  BY <1>1, <1>2 DEF ReaderState
<1>4. /\ 0 <= z /\ z <= z /\ 0 + z <= z /\ 0 + z = z /\ 0 + 0 = 0
      /\ \A i \in 1 .. z : 0 + i = i
  BY <1>1
<1>5. BufferOK(q, d)
  BY <1>3, <1>4 DEF BufferOK, z
<1>6. ReaderOK(q, d)
  BY <1>3, <1>4, <1>5 DEF ReaderOK, z
<1>7. nk_ftell(q) = 0 /\ (nk_feof(q) <=> z = 0)
  BY <1>3, <1>4 DEF nk_ftell, nk_feof
<1>8. ~LostAt(q, d)
  BY <1>1, <1>7 DEF LostAt, z
<1>9. QED
  BY <1>3, <1>6, <1>7, <1>8 DEF q

(* A file in memory that is closed is a string. *)
LEMMA CloseMemory ==
  ASSUME FileInv, CloseAndOpen, g.medium = "memory"
  PROVE  FileInv' /\ Tape!Next
<1>1. /\ mode = "write" /\ mode' = "read" /\ c' = c /\ g' = g
      /\ stored' = SubSeq(buffer, 1, g.ptr)
      /\ Reader(nkinfile_open_mem(stored'))
  BY DEF CloseAndOpen
<1>2. PICK fault \in Fault(2) : Met(fault, fault)
  BY DEF CloseAndOpen
<1>3. faults' \in 0 .. MaxIoFaults /\ faults' = faults
  BY <1>2, FaultsCounted
<1> DEFINE o == Writer(0)
           d == stored'
           q == [nkinfile_open_mem(d) EXCEPT !.fault = 0]
<1>4. /\ WriterOK(o) /\ o.medium = g.medium /\ o.ptr = g.ptr
      /\ o.buf = buffer /\ o.out = stored /\ Held(o) = Contents
  BY <1>1, WriterSound
<1> HIDE DEF o
<1>5. /\ InBuffer(o) \in Seq(Char) /\ Held(o) \in Seq(Char)
      /\ Len(InBuffer(o)) = o.ptr /\ Len(Held(o)) = Len(o.out) + o.ptr
      /\ \A i \in 1 .. o.ptr : InBuffer(o)[i] = o.buf[i]
      /\ \A i \in 1 .. o.ptr : Held(o)[Len(o.out) + i] = o.buf[i]
      /\ o.ptr \in Nat
  BY <1>4, HeldProps
<1>6. d = InBuffer(o)
  BY <1>1, <1>4 DEF InBuffer
<1> HIDE DEF d
<1>7. d \in Seq(Char)
  BY <1>5, <1>6
<1>8. Contents = d
  <2>1. Len(o.out) = 0
    <3>1. o.out = << >>
      BY <1>4 DEF WriterOK
    <3>2. QED
      BY <3>1, EmptySeq
  <2> DEFINE h == Held(o)
             x == o.ptr
  <2>2. Len(h) = x /\ Len(d) = x /\ \A i \in 1 .. x : 0 + i = i
    BY <1>5, <1>6, <2>1
  <2>3. \A i \in 1 .. x : h[i] = d[i]
    BY <1>5, <1>6, <2>1, <2>2
  <2> HIDE DEF h, x
  <2>4. h = d
    BY <1>5, <1>7, <2>2, <2>3, SeqEqual DEF h
  <2>5. QED
    BY <1>4, <2>4 DEF h
<1>9. /\ f' = nkinfile_open_mem(d)
      /\ buffer' = (IF nkinfile_open_mem(d).block_size = 0 THEN buffer
                    ELSE nkinfile_open_mem(d).start)
  BY <1>1 DEF Reader, d
<1>10. q = nkinfile_open_mem(d)
  BY DEF nkinfile_open_mem
<1>11. /\ ReaderOK(q, d) /\ q.block_size = 0 /\ q.fault = 0
       /\ nk_ftell(q) = 0 /\ ~LostAt(q, d)
  BY <1>7, OpenMemProps
<1> HIDE DEF q
<1>12. f' = q /\ buffer' = buffer /\ stored' = d
  BY <1>9, <1>10, <1>11 DEF d
<1>13. FileInv'
  <2>1. /\ q \in ReaderState /\ q.ptr <= q.len /\ q.len <= Len(q.start)
    BY <1>11 DEF ReaderOK, BufferOK
  <2>2. c' \in Char \cup {Eof} /\ g' \in [medium : Media, ptr : 0 .. BlockSize,
                                          failed : BOOLEAN]
        /\ buffer' \in Seq(Char) /\ Len(buffer') = BlockSize
    BY <1>1, <1>12 DEF FileInv
  <2>3. QED
    BY <1>1, <1>3, <1>7, <1>11, <1>12, <2>1, <2>2 DEF FileInv
<1>14. Contents' = d /\ Position' = 0
  BY <1>1, <1>11, <1>12 DEF Contents, Position
<1>15. ~ (mode' = "read" /\ nk_feof(f') /\ nk_ftell(f') < Len(stored'))
  BY <1>11, <1>12 DEF LostAt
<1>16. Tape!Padded(FALSE)
  <2> DEFINE z == Tape!Size
  <2>1. z = Len(d) /\ z \in Nat
    BY <1>7, <1>8, LenProperties DEF Tape!Size
  <2>2. Tape!NewSize(0) = ((z + 0 + 1 - 1) \div 1) * 1
    BY DEF Tape!NewSize
  <2> HIDE DEF z
  <2>3. (z + 0 + 1 - 1) \div 1 = z
    <3>1. z = 1 * z + 0 /\ 0 \in 0 .. 1 - 1 /\ 1 \in Nat \ {0} /\ z \in Int
      BY <2>1
    <3>2. z \div 1 = z
      BY <3>1, DivUnique
    <3>3. z + 0 + 1 - 1 = z
      BY <2>1
    <3>4. QED
      BY <3>2, <3>3
  <2>4. Tape!NewSize(0) = z
    BY <2>1, <2>2, <2>3
  <2>5. \A i \in 1 .. z : i <= z
    OBVIOUS
  <2>6. Tape!Keeps(z, FALSE)
    BY <1>8, <1>14, <2>5 DEF Tape!Keeps, z
  <2>7. QED
    BY <1>14, <2>1, <2>4, <2>6 DEF Tape!Padded, z
<1>17. Tape!Flushed
  <2>1. UNCHANGED << g.failed, faults >>
    BY <1>1, <1>3
  <2>2. QED
    BY <1>16, <2>1 DEF Tape!Flushed
<1>18. Tape!CloseAndOpen
  BY <1>1, <1>14, <1>15, <1>17 DEF Tape!CloseAndOpen
<1>19. QED
  BY <1>13, <1>18 DEF Tape!Next

(* A file on a device is flushed and closed, and opened again.  Of the two   *)
(* accesses, the first may spoil what it writes; the second may leave the   *)
(* beginning of the file unread.                                            *)
LEMMA CloseDevice ==
  ASSUME FileInv, CloseAndOpen, g.medium # "memory"
  PROVE  FileInv' /\ Tape!Next
<1>1. mode = "write" /\ mode' = "read" /\ c' = c
  BY DEF CloseAndOpen
<1>2. PICK fault \in Fault(2) :
        LET o == nk_fflush(Writer(fault))
        IN  /\ stored' = o.out
            /\ g' = [g EXCEPT !.ptr = 0, !.failed = o.failed]
            /\ \E r \in {nkinfile_open(o.out, o.fault),
                         [nkinfile_open_mem(o.out) EXCEPT !.fault = o.fault]} :
                 Reader([r EXCEPT !.fault = 0]) /\ Met(fault, r.fault)
  BY DEF CloseAndOpen
<1> DEFINE o == Writer(fault)
           p == nk_fflush(o)
           d == p.out
<1>3. PICK r \in {nkinfile_open(d, p.fault),
                  [nkinfile_open_mem(d) EXCEPT !.fault = p.fault]} :
        Reader([r EXCEPT !.fault = 0]) /\ Met(fault, r.fault)
  BY <1>2
<1>4. stored' = d /\ g' = [g EXCEPT !.ptr = 0, !.failed = p.failed]
  BY <1>2
<1>5. fault \in Nat
  BY FaultIsNat
<1>6. /\ WriterOK(o) /\ o.fault = fault
      /\ o.medium = g.medium /\ o.failed = g.failed
  BY <1>1, <1>5, WriterSound
<1> HIDE DEF o
<1>7. /\ WriterOK(p) /\ p.fault = OneLess(fault)
      /\ p.failed = (g.failed \/ fault = 1)
  BY <1>6, FlushProps
<1> HIDE DEF p
<1>8. d \in Seq(Char) /\ p.fault \in Nat /\ p.failed \in BOOLEAN
  BY <1>7 DEF WriterOK, WriterState
<1>9. /\ r.fault = 0 /\ faults' \in 0 .. MaxIoFaults
      /\ faults' = IF fault = 0 THEN faults ELSE faults + 1
  BY <1>3, FaultsCounted
<1>10. buffer \in Seq(Char) /\ Len(buffer) = BlockSize
       /\ g \in [medium : Media, ptr : 0 .. BlockSize, failed : BOOLEAN]
  BY DEF FileInv
<1>11. /\ ReaderOK(r, d) /\ nk_ftell(r) = 0
       /\ p.fault = 0 => ~LostAt(r, d)
       /\ p.fault # 0 => p.fault = 1 /\ LostAt(r, d)
  <2>1. CASE r = nkinfile_open(d, p.fault)
    <3> DEFINE e == d
    <3>1. e \in Seq(Char) /\ r = nkinfile_open(e, p.fault)
      BY <1>8, <2>1
    <3> HIDE DEF e
    <3>2. /\ ReaderOK(r, e) /\ nk_ftell(r) = 0
          /\ p.fault = 0 => r.fault = 0 /\ ~LostAt(r, e)
          /\ p.fault # 0 /\ r.fault = 0 => p.fault = 1 /\ LostAt(r, e)
      BY <1>8, <1>10, <3>1, OpenProps
    <3>3. QED
      BY <1>9, <3>2 DEF e
  <2>2. CASE r = [nkinfile_open_mem(d) EXCEPT !.fault = p.fault]
    <3> DEFINE e == d
    <3>1. e \in Seq(Char)
          /\ r = [nkinfile_open_mem(e) EXCEPT !.fault = p.fault]
      BY <1>8, <2>2
    <3> HIDE DEF e
    <3>2. /\ ReaderOK(r, e) /\ r.fault = p.fault
          /\ nk_ftell(r) = 0 /\ ~LostAt(r, e)
      BY <1>8, <3>1, OpenMemProps
    <3>3. QED
      BY <1>9, <3>2 DEF e
  <2>3. QED
    BY <1>3, <2>1, <2>2
<1>12. r \in ReaderState /\ [r EXCEPT !.fault = 0] = r
  <2>1. r \in ReaderState
    BY <1>11 DEF ReaderOK, BufferOK
  <2>2. QED
    BY <1>9, <2>1 DEF ReaderState
<1>13. /\ f' = r
       /\ buffer' = IF r.block_size = 0 THEN buffer ELSE r.start
  BY <1>3, <1>12 DEF Reader
<1>14. /\ g'.medium = g.medium /\ g'.failed = p.failed
       /\ g' \in [medium : Media, ptr : 0 .. BlockSize, failed : BOOLEAN]
  <2> DEFINE v == p.failed
  <2>1. v \in BOOLEAN /\ 0 \in 0 .. BlockSize
    BY <1>8, FileConstantsOK
  <2>2. g' = [g EXCEPT !.ptr = 0, !.failed = v]
    BY <1>4
  <2> HIDE DEF v
  <2>3. /\ g'.medium = g.medium /\ g'.failed = v
        /\ g' \in [medium : Media, ptr : 0 .. BlockSize, failed : BOOLEAN]
    BY <1>10, <2>1, <2>2
  <2>4. QED
    BY <2>3 DEF v
<1>15. FileInv'
  <2>1. /\ r.ptr <= r.len /\ r.len <= Len(r.start) /\ r.start \in Seq(Char)
        /\ r.block_size # 0 => Len(r.start) = BlockSize
    BY <1>11, <1>12, ReaderProps DEF ReaderOK, BufferOK
  <2>2. buffer' \in Seq(Char) /\ Len(buffer') = BlockSize
    BY <1>10, <1>13, <2>1
  <2>3. c' \in Char \cup {Eof} /\ stored' \in Seq(Char)
    BY <1>1, <1>4, <1>8 DEF FileInv
  <2>4. ReaderOK(f', stored') /\ g'.medium # "memory"
    BY <1>4, <1>11, <1>13, <1>14
  <2>5. mode' = "read" /\ mode' \in {"write", "read"}
    BY <1>1
  <2>6. f' \in ReaderState /\ f'.fault = 0 /\ f'.ptr <= f'.len
        /\ f'.len <= Len(f'.start)
    BY <1>9, <1>12, <1>13, <2>1
  <2>7. QED
    BY <1>9, <1>14, <2>2, <2>3, <2>4, <2>5, <2>6 DEF FileInv
<1>16. Contents' = d /\ Position' = 0
  BY <1>1, <1>4, <1>11, <1>13 DEF Contents, Position
<1>17. (mode' = "read" /\ nk_feof(f') /\ nk_ftell(f') < Len(stored'))
         = LostAt(r, d)
  BY <1>1, <1>4, <1>13 DEF LostAt
<1>18. /\ fault # 1 => Tape!Padded(FALSE)
       /\ Tape!Padded(TRUE)
  <2>1. Contents' = nk_fflush(Writer(fault)).out
    BY <1>16 DEF p, o
  <2>2. QED
    BY <1>1, <1>5, <2>1, FlushPads
<1>19. Tape!CloseAndOpen
  <2> DEFINE lost == LostAt(r, d)
  <2>1. CASE fault = 0
    <3>1. p.fault = 0 /\ fault # 1
      BY <1>7, <2>1 DEF OneLess
    <3>2. ~LostAt(r, d)
      BY <1>11, <3>1
    <3>3. p.failed = g.failed
      <4>1. g.failed \in BOOLEAN
        BY <1>10
      <4>2. QED
        BY <1>7, <3>1, <4>1
    <3>4. UNCHANGED << g.failed, faults >>
      BY <1>9, <1>14, <2>1, <3>3
    <3>5. Tape!Padded(FALSE)
      BY <1>18, <3>1, Zenon
    <3>6. Tape!Flushed
      BY <3>4, <3>5 DEF Tape!Flushed
    <3>7. QED
      BY <1>1, <1>14, <1>16, <1>17, <3>2, <3>6 DEF Tape!CloseAndOpen
  <2>2. CASE fault = 1
    <3>1. p.fault = 0
      BY <1>7, <2>2 DEF OneLess
    <3>2. ~LostAt(r, d)
      BY <1>11, <3>1
    <3>3. g'.failed = TRUE
      BY <1>7, <1>14, <2>2
    <3>4. Tape!FaultOfDevice
      BY <1>9, <2>2 DEF Tape!FaultOfDevice
    <3>5. Tape!Flushed
      BY <1>18, <3>3, <3>4 DEF Tape!Flushed
    <3>6. QED
      BY <1>1, <1>14, <1>16, <1>17, <3>2, <3>5 DEF Tape!CloseAndOpen
  <2>3. CASE fault # 0 /\ fault # 1
    <3>1. p.fault # 0
      BY <1>5, <1>7, <2>3 DEF OneLess
    <3>2. LostAt(r, d)
      BY <1>11, <3>1
    <3>3. p.failed = g.failed
      <4>1. g.failed \in BOOLEAN
        BY <1>10
      <4>2. QED
        BY <1>7, <2>3, <4>1
    <3>4. Tape!FaultOfDevice
      BY <1>9, <2>3 DEF Tape!FaultOfDevice
    <3>5. Tape!Padded(FALSE)
      BY <1>18, <2>3, Zenon
    <3>6. QED
      BY <1>1, <1>14, <1>16, <1>17, <3>2, <3>3, <3>4, <3>5
      DEF Tape!CloseAndOpen
  <2>4. QED
    BY <2>1, <2>2, <2>3
<1>20. QED
  BY <1>15, <1>19 DEF Tape!Next

-----------------------------------------------------------------------------
(* The theorems *)

(* a file that has just been opened to be written *)
NewFile ==
  /\ stored = << >> /\ mode = "write" /\ c = Eof /\ faults = 0
  /\ g \in {nkoutfile_open(medium) : medium \in Media}
  /\ f = nkinfile_open_mem(<< >>)
  /\ buffer \in Seq(Char) /\ Len(buffer) = BlockSize

(* such a file is sound, and a new tape *)
NewFileSound == NewFile => FileInv /\ Tape!Open

(* A new file is sound, and an empty tape. *)
LEMMA NewFileIsSound == NewFileSound
<1> SUFFICES ASSUME NewFile PROVE FileInv /\ Tape!Open
  BY DEF NewFileSound
<1>0. PICK medium \in Media : g = nkoutfile_open(medium)
  BY DEF NewFile
<1> DEFINE e == << >>
<1>1. e \in Seq(Char) /\ Len(e) = 0
  OBVIOUS
<1>2. /\ stored = e /\ mode = "write" /\ c = Eof /\ faults = 0
      /\ f = nkinfile_open_mem(e)
      /\ buffer \in Seq(Char) /\ Len(buffer) = BlockSize
  BY DEF NewFile
<1> HIDE DEF e
<1>3. BlockSize \in Nat /\ MaxIoFaults \in Nat
      /\ Granularity \in Nat \ {0}
  BY FileConstantsOK
<1>4. /\ g.medium = medium /\ g.ptr = 0 /\ g.failed = FALSE
      /\ g \in [medium : Media, ptr : 0 .. BlockSize, failed : BOOLEAN]
  BY <1>0, <1>3 DEF nkoutfile_open
<1>5. /\ f \in ReaderState /\ f.fault = 0 /\ f.ptr <= f.len
      /\ f.len <= Len(f.start)
  <2> DEFINE q == [nkinfile_open_mem(e) EXCEPT !.fault = 0]
  <2>1. f = q
    BY <1>2 DEF nkinfile_open_mem
  <2>2. ReaderOK(q, e) /\ q.fault = 0
    <3>1. 0 \in Nat /\ e \in Seq(Char)
      BY <1>1
    <3>2. QED
      BY ONLY <3>1, OpenMemProps
  <2> HIDE DEF q
  <2>3. QED
    BY <2>1, <2>2 DEF ReaderOK, BufferOK
<1> DEFINE o == Writer(0)
<1>6. /\ o \in WriterState /\ o.medium = medium /\ o.ptr = 0
      /\ o.buf = buffer /\ o.out = e
  <2>1. o = [medium |-> medium, ptr |-> 0, failed |-> FALSE,
             buf |-> buffer, out |-> e, fault |-> 0]
    BY <1>2, <1>4 DEF Writer
  <2> HIDE DEF o
  <2>2. 0 \in 0 .. BlockSize /\ FALSE \in BOOLEAN /\ 0 \in Nat
    BY <1>3
  <2>3. QED
    BY <1>1, <1>2, <2>1, <2>2 DEF WriterState
<1> HIDE DEF o
<1>7. Len(e) % Granularity = 0
  <2>1. 0 \in 0 .. Granularity - 1
    BY <1>3
  <2>2. 0 % Granularity = 0
    BY <1>3, <2>1, ModSmall
  <2>3. QED
    BY <1>1, <2>2
<1>8. WriterOK(o)
  BY <1>2, <1>6, <1>7 DEF WriterOK, e
<1>9. FileInv
  BY <1>1, <1>2, <1>3, <1>4, <1>5, <1>8 DEF FileInv, o
<1>10. Contents = << >>
  <2>1. Held(o) = e
    BY <1>6, <1>8, EmptyBuffer
  <2>2. Held(o) = Contents
    BY <1>2, <1>9, WriterSound DEF o
  <2>3. QED
    BY <2>1, <2>2 DEF e
<1>11. Position = 0 /\ Tape!Eof = Eof
  BY <1>2 DEF Position, Tape!Eof, Eof
<1>12. Tape!Open
  BY <1>2, <1>4, <1>10, <1>11 DEF Tape!Open
<1>13. QED
  BY <1>9, <1>12

(* That is true of every state. *)
LEMMA NextNewFileIsSound == NewFileSound'
  BY NewFileIsSound, PTL

(* The first file. *)
LEMMA FileStarts ==
  ASSUME FileInit
  PROVE  FileInv /\ Tape!Init
<1>1. buffer = [i \in 1 .. BlockSize |-> Spoiled]
  BY DEF FileInit
<1>2. buffer \in Seq(Char) /\ Len(buffer) = BlockSize
  <2>1. Spoiled \in Char /\ BlockSize \in Nat
    BY FileConstantsOK DEF Spoiled, Char
  <2>2. QED
    BY <1>1, <2>1
<1>3. FileInv /\ Tape!Open
  BY <1>2, NewFileIsSound DEF FileInit, NewFile, NewFileSound
<1>4. g.medium \in {"blocks", "direct", "memory"}
  BY <1>3 DEF FileInv, Media
<1>5. QED
  BY <1>3, <1>4 DEF Tape!Init

(* The next file. *)
LEMMA RewriteStep ==
  ASSUME FileInv, Rewrite
  PROVE  FileInv' /\ Tape!Next
<1>1. /\ stored' = << >> /\ mode' = "write" /\ c' = Eof /\ faults' = 0
      /\ g' = nkoutfile_open(g.medium)
      /\ f' = nkinfile_open_mem(<< >>) /\ buffer' = buffer
  BY DEF Rewrite
<1>2. /\ buffer' \in Seq(Char) /\ Len(buffer') = BlockSize
      /\ g.medium \in Media
  BY <1>1 DEF FileInv
<1>3. NewFile'
  BY <1>1, <1>2 DEF NewFile
<1>4. FileInv' /\ Tape!Open'
  BY <1>3, NextNewFileIsSound DEF NewFileSound
<1>5. g'.medium = g.medium
  BY <1>1 DEF nkoutfile_open
<1>6. Tape!Rewrite
  BY <1>4, <1>5 DEF Tape!Rewrite
<1>7. QED
  BY <1>4, <1>6 DEF Tape!Next

(* A step of FileNext is one of its calls. *)
LEMMA FileCalls ==
  ASSUME FileInv, FileNext
  PROVE  FileInv' /\ (Tape!Next \/ (PeekAbs /\ ~CarefulPeek))
<1>1. CASE \E n \in Chunks : Write(n)
  BY <1>1, WriteStep
<1>2. CASE Flush
  BY <1>2, FlushStep
<1>3. CASE CloseAndOpen
  <2>1. CASE g.medium = "memory"
    BY <1>3, <2>1, CloseMemory
  <2>2. CASE g.medium # "memory"
    BY <1>3, <2>2, CloseDevice
  <2>3. QED
    BY <2>1, <2>2
<1>4. CASE Rewrite
  BY <1>4, RewriteStep
<1>5. CASE Seek
  BY <1>5, SeekStep
<1>6. CASE Peek
  BY <1>6, PeekStep
<1>7. CASE PeekAbs
  <2>1. FileInv'
    BY <1>7, PeekAbsKeeps
  <2>2. CarefulPeek => Tape!Next
    BY <1>7, PeekAbsStep
  <2>3. QED
    BY <1>7, <2>1, <2>2
<1>8. CASE nk_fnext
  BY <1>8, FnextStep
<1>9. CASE nk_fgetc
  BY <1>9, FgetcStep
<1>10. QED
  BY <1>1, <1>2, <1>3, <1>4, <1>5, <1>6, <1>7, <1>8, <1>9 DEF FileNext

(* A stutter of the file is one of the tape. *)
LEMMA FileStutter ==
  ASSUME FileInv, UNCHANGED filevars
  PROVE  FileInv' /\ UNCHANGED Tape!vars
<1>1. /\ stored' = stored /\ buffer' = buffer /\ g' = g /\ f' = f
      /\ mode' = mode /\ c' = c /\ faults' = faults
  BY DEF filevars
<1>2. FileInv'
  BY <1>1 DEF FileInv, Writer
<1>3. Contents' = Contents /\ Position' = Position
  BY <1>1 DEF Contents, Position, nk_ftell
<1>4. (mode' = "read" /\ nk_feof(f') /\ nk_ftell(f') < Len(stored'))
        = (mode = "read" /\ nk_feof(f) /\ nk_ftell(f) < Len(stored))
  BY <1>1
<1>5. QED
  BY <1>1, <1>2, <1>3, <1>4 DEF Tape!vars

(***************************************************************************)
(* Whether it is written or read, the buffer of a file, its positions and  *)
(* what is stored agree: of a file that is written, whole units of the     *)
(* granularity are on the device and the rest is in the buffer; of one     *)
(* that is read, the buffer has the characters from start_offset on, and   *)
(* the end of the buffer is the position only at the end of the file, or   *)
(* after a failure.                                                        *)
(***************************************************************************)
THEOREM FileInvariant == FileSpec => []FileInv
<1>1. FileInit => FileInv
  BY FileStarts
<1>2. FileInv /\ [FileNext]_filevars => FileInv'
  BY FileCalls, FileStutter
<1>3. QED
  BY <1>1, <1>2, PTL DEF FileSpec

(***************************************************************************)
(* The position of a file never leaves its buffer, nor the characters in   *)
(* it the block, for files, blocks and granularities of every size.        *)
(***************************************************************************)
THEOREM FileTypeCorrect == FileSpec => []FileTypeOK
<1>1. FileInv => FileTypeOK
  <2> SUFFICES ASSUME FileInv PROVE FileTypeOK
    OBVIOUS
  <2>1. f \in [start : Seq(Char), ptr : Nat, len : Nat, start_offset : Nat,
               block_size : {0, BlockSize}, fault : {0}]
    <3>1. f \in ReaderState /\ f.fault = 0
      BY DEF FileInv
    <3>2. f.fault \in {0}
      BY <3>1
    <3>3. QED
      BY <3>1, <3>2 DEF ReaderState
  <2>2. QED
    BY <2>1 DEF FileInv, FileTypeOK
<1>2. QED
  BY <1>1, FileInvariant, PTL

(***************************************************************************)
(* A file is a tape: what is written, in whatever pieces, to a device in   *)
(* blocks, to one without a buffer, or to memory, comes back unchanged at  *)
(* every position and in every order of calls, padded by flushes only.  An *)
(* access that fails is reported, moves nothing, and never makes a wrong   *)
(* character; and memory that is too small says so.  This holds for every  *)
(* size of the block, granularity, file and number of faults, as long as   *)
(* nk_fpeek_abs is called only where it is right.                          *)
(***************************************************************************)
THEOREM FileImplemented == CarefulPeek => (FileSpec => ImplementsTape)
<1> SUFFICES ASSUME CarefulPeek PROVE FileSpec => ImplementsTape
  OBVIOUS
<1>1. FileInit => Tape!Init
  BY FileStarts
<1>2. FileInv /\ [FileNext]_filevars => [Tape!Next]_Tape!vars
  BY FileCalls, FileStutter
<1>3. QED
  BY <1>1, <1>2, FileInvariant, PTL
  DEF FileSpec, ImplementsTape, Tape!Spec

=============================================================================
