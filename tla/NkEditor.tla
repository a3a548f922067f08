------------------------------ MODULE NkEditor ------------------------------
(***************************************************************************)
(* What the line editor of libnklabs promises its user: a line with a      *)
(* cursor, and a history that is a sequence of lines with a position in    *)
(* it, from which only the oldest lines disappear.  How the lines are kept *)
(* in bytes, what the terminal shows and which keys lead where is left to  *)
(* NkReadline, which implements this module.                               *)
(***************************************************************************)
EXTENDS Integers, Sequences, SequencesExt

CONSTANTS
  Char,        \* the printable characters
  LineSize,    \* NKREADLINE_LINE_SIZE
  HistSize     \* NKREADLINE_HIST_SIZE

VARIABLES
  line,        \* the line being edited
  cur,         \* number of characters to the left of the cursor
  changed,     \* the line is not, or no longer, the one at pos
  lines,       \* the history, oldest line first
  pos          \* the line of the history we are at, or the one after the last

vars == << line, cur, changed, lines, pos >>

Init ==
  /\ line = << >>
  /\ cur = 0
  /\ changed = FALSE
  /\ lines = << >>
  /\ pos = 1

-----------------------------------------------------------------------------
(* The line *)

Insert(c) ==
  /\ Len(line) < LineSize - 1
  /\ line' = InsertAt(line, cur + 1, c)
  /\ cur' = cur + 1
  /\ changed' = TRUE
  /\ UNCHANGED << lines, pos >>

Delete(k) ==
  /\ k \in DOMAIN line \cap {cur, cur + 1}
  /\ line' = RemoveAt(line, k)
  /\ cur' = k - 1
  /\ changed' = TRUE
  /\ UNCHANGED << lines, pos >>

Move ==
  /\ cur' \in 0 .. Len(line)
  /\ UNCHANGED << line, changed, lines, pos >>

Show(l) ==
  /\ line' = l
  /\ cur' = Len(l)
  /\ changed' = FALSE

-----------------------------------------------------------------------------
(* The history *)

(* bytes that the first k lines of ls take *)
Bytes(ls) ==
  LET upto[k \in 0 .. Len(ls)] ==
        IF k = 0 THEN 0 ELSE upto[k - 1] + Len(ls[k]) + 1
  IN  upto

(* l put into ls at place p, and the place it has then: the oldest lines   *)
(* go, as few as make room for it                                          *)
Stored(ls, p, l) ==
  LET Fits(k) == Bytes(ls)[Len(ls)] - Bytes(ls)[k] + Len(l) + 1 <= HistSize
      k == CHOOSE k \in 0 .. Len(ls) : Fits(k) /\ (k > 0 => ~Fits(k - 1))
      q == IF p > k THEN p - k ELSE 1
  IN  [lines |-> InsertAt(SubSeq(ls, k + 1, Len(ls)), q, l), at |-> q]

ToStore == changed /\ line # << >>

Up ==
  LET s == IF ToStore THEN Stored(lines, pos, line)
                      ELSE [lines |-> lines, at |-> pos]
  IN  /\ pos > 1
      /\ lines' = s.lines
      /\ IF s.at > 1
           THEN pos' = s.at - 1 /\ Show(s.lines[s.at - 1])
           ELSE pos' = 1 /\ Show(<< >>)

(* an empty line makes room for the line at pos, not for the next one *)
Down ==
  LET s == IF ToStore THEN Stored(lines, pos + 1, line)
                      ELSE [lines |-> lines, at |-> pos]
      p == IF line = << >> THEN pos ELSE s.at + 1
  IN  /\ pos < Len(lines)
      /\ lines' = s.lines
      /\ pos' = p
      /\ Show(IF p <= Len(s.lines) THEN s.lines[p] ELSE << >>)

DownBehindLast ==
  LET p == IF pos <= Len(lines) THEN pos + 1 ELSE pos
  IN  /\ pos >= Len(lines)
      /\ line # << >>
      /\ lines' = IF changed THEN Stored(lines, p, line).lines ELSE lines
      /\ pos' = Len(lines') + 1
      /\ Show(<< >>)

(* a line taken from the history as it stands moves to the end of it *)
Enter ==
  LET ls == IF changed \/ pos > Len(lines) THEN lines ELSE RemoveAt(lines, pos)
  IN  /\ lines' = IF line = << >> THEN lines
                  ELSE Stored(ls, Len(ls) + 1, line).lines
      /\ pos' = Len(lines') + 1
      /\ Show(line)

Cancel ==
  /\ lines' = IF ToStore THEN Stored(lines, pos, line).lines ELSE lines
  /\ pos' = Len(lines') + 1
  /\ Show(<< >>)

Restart ==
  /\ Show(<< >>)
  /\ UNCHANGED << lines, pos >>

Next ==
  \/ Move
  \/ \E c \in Char : Insert(c)
  \/ \E k \in DOMAIN line : Delete(k)
  \/ Restart \/ Up \/ Down \/ DownBehindLast \/ Enter \/ Cancel

Spec == Init /\ [][Next]_vars

=============================================================================
