------------------------------ MODULE NkPrintf ------------------------------
(***************************************************************************)
(* Formatted numbers: _nk_vprintf of src/nkprintf.c prints them and        *)
(* __nk_vscan of src/nkscan.c reads them again.  A text is a sequence of   *)
(* characters.  A number is the bits of its unsigned value: a signed one   *)
(* is negative if its highest bit is set.                                  *)
(***************************************************************************)
EXTENDS Integers, SequencesExt

CONSTANTS
  LongBits,     \* of long long
  ShortBits,    \* of short
  Numbers,      \* that are printed
  FieldWidths,  \* field widths, 0 if there is none
  Precisions    \* precisions, 0 if there is none

ASSUME PrintfConstantsOK ==
  /\ LongBits \in Nat \ {0} /\ ShortBits \in 1 .. LongBits
  /\ Numbers \subseteq 0 .. 2^LongBits - 1
  /\ FieldWidths \subseteq Nat /\ Precisions \subseteq Nat

VARIABLES
  line,       \* a file with what has been printed
  linepos,    \* where it is read next, counted from 1
  fields,     \* history: the conversions that printed it, with their values
  scanned     \* what the last scan was asked for and returned

pvars == << line, linepos, fields, scanned >>

Conversions ==
  [conv : {"d", "u", "x"}, minus : BOOLEAN, plus : BOOLEAN, space : BOOLEAN,
   pound : BOOLEAN, zero : BOOLEAN, width : FieldWidths, prec : Precisions]

NotScanned == [fmt |-> << >>, from |-> 1, ok |-> FALSE, got |-> << >>]

Larger(a, b) == IF a > b THEN a ELSE b
Chars(c, n) == [k \in 1 .. Larger(n, 0) |-> c]

HexDigit ==
  << "0", "1", "2", "3", "4", "5", "6", "7", "8", "9", "a", "b", "c", "d",
     "e", "f" >>

PrintfTypeOK ==
  /\ \A k \in DOMAIN line : line[k] \in ToSet(HexDigit) \cup {" ", "+", "-",
                                                              "x"}
  /\ linepos \in 1 .. Len(line) + 1
  /\ scanned.ok \in BOOLEAN
  /\ scanned.from \in 1 .. Len(line) + 1
  /\ \A k \in DOMAIN scanned.got : scanned.got[k] \in 0 .. 2^LongBits - 1

-----------------------------------------------------------------------------
(* Printing *)

IsNegative(c, v) == c.conv = "d" /\ v >= 2^(LongBits - 1)
Base(c) == IF c.conv = "x" THEN 16 ELSE 10

(* the digits of the magnitude, lowest first; none for 0 *)
Backwards(c, v) ==
  LET magnitude == IF IsNegative(c, v) THEN 2^LongBits - v ELSE v
      digits[n \in 0 .. magnitude] ==
        IF n = 0 THEN << >>
        ELSE << HexDigit[(n % Base(c)) + 1] >> \o digits[n \div Base(c)]
  IN  digits[magnitude]

Prefix(c, v) ==
  (IF IsNegative(c, v) THEN << "-" >>
   ELSE IF c.plus THEN << "+" >> ELSE IF c.space THEN << " " >> ELSE << >>)
    \o IF c.conv = "x" /\ c.pound /\ v # 0 THEN << "0", "x" >> ELSE << >>

DigitsOf(c, v) ==
  IF v = 0 THEN << "0" >> ELSE Reverse(Backwards(c, v))

(* mutant: the precision is compared with a length that counts the prefix *)
EmitsCountingPrefix(c, prefix, digits) ==
  LET zeros == Chars("0", c.prec - Len(digits))
      full == IF c.prec > Len(digits) + Len(prefix) THEN c.prec + Len(prefix)
              ELSE Len(digits) + Len(prefix)
      number == prefix \o zeros \o digits
  IN  IF c.minus THEN number \o Chars(" ", c.width - Len(number))
      ELSE IF c.zero
      THEN prefix \o Chars("0", c.width - full) \o zeros \o digits
      ELSE Chars(" ", c.width - full) \o number

(* emits: a number in its field *)
Emits(c, prefix, digits) ==
  LET zeros == Chars("0", c.prec - Len(digits))
      full == Len(prefix) + Larger(c.prec, Len(digits))
      number == prefix \o zeros \o digits
  IN  IF c.minus THEN number \o Chars(" ", c.width - Len(number))
      ELSE IF c.zero
      THEN prefix \o Chars("0", c.width - full) \o zeros \o digits
      ELSE Chars(" ", c.width - full) \o number

Formatted(f) == Emits(f.c, Prefix(f.c, f.v), DigitsOf(f.c, f.v))

_nk_vprintf(fs) ==
  /\ line' = FlattenSeq([k \in DOMAIN fs |-> Formatted(fs[k])])
  /\ linepos' = 1
  /\ fields' = fs
  /\ scanned' = NotScanned

(* two numbers side by side, as in a date without separators *)
Fixed(w) == [conv |-> "d", minus |-> FALSE, plus |-> FALSE, space |-> FALSE,
             pound |-> FALSE, zero |-> FALSE, width |-> w, prec |-> w]

PrintsNumbers ==
  /\ fields = << >>
  /\ \/ \E f \in [c : Conversions, v : Numbers] : _nk_vprintf(<< f >>)
     \/ \E w \in FieldWidths \ {0}, u, v \in Numbers :
          _nk_vprintf(<< [c |-> Fixed(w), v |-> u],
                         [c |-> Fixed(w), v |-> v] >>)

-----------------------------------------------------------------------------
(* Scanning: r has the position, what has been stored, and whether the rest *)
(* of the format is still to be matched ("on")                              *)

PeekChar(p) == IF p <= Len(line) THEN line[p] ELSE "end"

(* the last character of a sequence of those in cs that begins at p *)
LastOf(cs, p, max) ==
  CHOOSE q \in p - 1 .. Len(line) :
    /\ \A k \in p .. q : line[k] \in cs /\ k - p < max
    /\ PeekChar(q + 1) \notin cs \/ q + 1 - p >= max

ValueOf(p, q, base) ==
  LET upto[k \in p - 1 .. q] ==
        IF k < p THEN 0
        ELSE (upto[k - 1] * base
                + (CHOOSE d \in 0 .. 15 : HexDigit[d + 1] = line[k]))
               % 2^LongBits
  IN  upto[q]

(* nk_fscan_dec and nk_fscan_hex *)
ScansNumber(r, item) ==
  LET minus == item.base = 10 /\ PeekChar(r.pos) = "-"
      p == IF minus THEN r.pos + 1 ELSE r.pos
      q == LastOf({HexDigit[d] : d \in 1 .. item.base}, p, item.width)
      v == ValueOf(p, q, item.base)
      stored == (IF minus THEN 2^LongBits - v ELSE v) % 2^item.bits
  IN  IF q < p THEN [r EXCEPT !.st = "no"]
      ELSE [r EXCEPT !.pos = q + 1, !.got = Append(@, stored)]

Matches(r, item) ==
  IF r.st # "on" THEN r
  ELSE CASE item.op = "ws" ->
              [r EXCEPT !.pos = LastOf({" "}, @, Len(line)) + 1]
         [] item.op = "number" -> ScansNumber(r, item)
         [] item.op = "lit" -> IF PeekChar(r.pos) = item.c
                               THEN [r EXCEPT !.pos = @ + 1]
                               ELSE [r EXCEPT !.st = "no"]
         [] item.op = "rest" -> [r EXCEPT !.st = "yes"]

(* mutant: the position is left where the match has failed *)
ScanWithoutSeek(fmt) ==
  LET r == FoldLeft(Matches, [pos |-> linepos, got |-> << >>, st |-> "on"],
                    fmt)
      ok == r.st = "yes" \/ (r.st = "on" /\ r.pos = Len(line) + 1)
  IN  /\ linepos' = r.pos
      /\ scanned' = [fmt |-> fmt, from |-> linepos, ok |-> ok, got |-> r.got]
      /\ UNCHANGED << line, fields >>

__nk_vscan(fmt) ==
  LET r == FoldLeft(Matches, [pos |-> linepos, got |-> << >>, st |-> "on"],
                    fmt)
      ok == r.st = "yes" \/ (r.st = "on" /\ r.pos = Len(line) + 1)
  IN  /\ linepos' = IF ok THEN r.pos ELSE linepos
      /\ scanned' = [fmt |-> fmt, from |-> linepos, ok |-> ok, got |-> r.got]
      /\ UNCHANGED << line, fields >>

Blanks == [op |-> "ws"]
NumberItem(base, width, bits) ==
  [op |-> "number", base |-> base, width |-> width, bits |-> bits]
Unlimited == 2^LongBits

(* a format for what has been printed: the widths of the fields if there is *)
(* more than one, else blanks around the number                             *)
FormatFor(fs, bits) ==
  IF Len(fs) = 1
  THEN << Blanks, NumberItem(Base(fs[1].c), Unlimited, bits), Blanks >>
  ELSE [k \in DOMAIN fs |-> NumberItem(10, fs[k].c.width, bits)]

ScansBack ==
  /\ fields # << >> /\ linepos = 1
  /\ \E bits \in {LongBits, ShortBits} : __nk_vscan(FormatFor(fields, bits))

(* formats that take a digit and leave the rest, or fail in the middle *)
OtherFormats ==
  {<< Blanks, NumberItem(10, 1, LongBits), [op |-> "rest"] >>,
   << Blanks, NumberItem(16, Unlimited, LongBits), [op |-> "lit", c |-> "x"],
      NumberItem(16, Unlimited, LongBits) >>,
   << NumberItem(10, Unlimited, LongBits), Blanks,
      NumberItem(10, Unlimited, LongBits) >>}

ScansOther ==
  /\ fields # << >>
  /\ \E fmt \in OtherFormats : __nk_vscan(fmt)

PrintfInit ==
  /\ line = << >> /\ linepos = 1 /\ fields = << >>
  /\ scanned = NotScanned

PrintfNext == PrintsNumbers \/ ScansBack \/ ScansOther

PrintfSpec == PrintfInit /\ [][PrintfNext]_pvars

-----------------------------------------------------------------------------
(* Properties *)

(***************************************************************************)
(* What has been printed fills its field and no more than it has to, and   *)
(* nk_fscan reads the same number from it again, whatever flags, width and *)
(* precision it was printed with, for the smallest and the largest number  *)
(* too: all but a plus sign and 0x, which the scanner does not know.  A    *)
(* scan that fails, wherever in its format, leaves the file where it was.  *)
(***************************************************************************)
FieldLength(f) ==
  Larger(f.c.width, Len(Prefix(f.c, f.v))
                      + Larger(f.c.prec, Len(DigitsOf(f.c, f.v))))

Readable(f) ==
  LET shown == ToSet(Prefix(f.c, f.v)) IN "+" \notin shown /\ "x" \notin shown

(* in one of several fields there is no room for a sign *)
Fits(f) ==
  Len(fields) = 1 \/ (~IsNegative(f.c, f.v)
                        /\ Len(DigitsOf(f.c, f.v)) <= f.c.width)

ReadsBack ==
  /\ Len(line) = FoldLeft(LAMBDA n, f : n + FieldLength(f), 0, fields)
  /\ scanned.fmt # << >> /\ ~scanned.ok => linepos = scanned.from
  /\ \A bits \in {LongBits, ShortBits} :
       /\ fields # << >> /\ scanned.from = 1
       /\ scanned.fmt = FormatFor(fields, bits)
       /\ \A k \in DOMAIN fields : Readable(fields[k]) /\ Fits(fields[k])
       => /\ scanned.ok
          /\ scanned.got = [k \in DOMAIN fields |-> fields[k].v % 2^bits]
=============================================================================
