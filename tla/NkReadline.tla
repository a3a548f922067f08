----------------------------- MODULE NkReadline -----------------------------
(***************************************************************************)
(* The line editor of libnklabs (src/nkreadline.c) as the command line     *)
(* (src/nkcli.c) uses it: one action for each key prompt_task handles, the *)
(* history as the bytes it is kept in, the terminal the keys are echoed    *)
(* to, and the tasks that switch the command line off and on.              *)
(*                                                                         *)
(* tty_buf stands for its first tty_len characters and histbuf for its     *)
(* first hist_end: what is behind them is written before it is read.       *)
(* Indexes count from 0, as in the code.                                   *)
(***************************************************************************)
EXTENDS Integers, Sequences, SequencesExt, FiniteSetsExt

CONSTANTS
  Char,        \* the printable characters, among them the blank
  LineSize,    \* NKREADLINE_LINE_SIZE
  HistSize,    \* NKREADLINE_HIST_SIZE
  Visible,     \* names of the commands whose text begins with '>'
  Hidden,      \* names of the other commands
  FacMode      \* facmode: hidden commands can be used

Blank == " "
Nul == "NUL"

(* what the terminal gets that is not a character of a line *)
BS == "BS"
NL == "NL"
Prompt == "PROMPT"

ASSUME ReadlineConstantsOK ==
  /\ LineSize \in Nat \ {0, 1}
  /\ HistSize \in Nat /\ HistSize > LineSize
  /\ Blank \in Char
  /\ {Nul, BS, NL, Prompt} \cap Char = {}
  /\ \A n \in Visible \cup Hidden :
       n \in Seq(Char \ {Blank}) /\ Len(n) \in 1 .. LineSize - 1

VARIABLES
  tty_buf, tty_cur,
  changed,
  histbuf, hist_idx,
  echo_mode,
  mode,        \* 0, 1 after ESC, 2 after ESC [
  tab_count,
  phase,          \* "key": prompt_task waits for a key; "tab": it completes a
               \* command; "call": console_callback runs; "off": no readline
  cli_disabled,
  screen       \* the row of the terminal that holds the cursor

line_linevars == << tty_buf, tty_cur, changed >>
hist_linevars == << histbuf, hist_idx >>
cli_linevars  == << echo_mode, cli_disabled >>
linevars == << tty_buf, tty_cur, changed, histbuf, hist_idx, echo_mode, mode,
           tab_count, phase, cli_disabled, screen >>

LineTypeOK ==
  /\ tty_buf \in Seq(Char) /\ Len(tty_buf) < LineSize
  /\ tty_cur \in 0 .. Len(tty_buf)
  /\ changed \in BOOLEAN
  /\ histbuf \in Seq(Char \cup {Nul}) /\ Len(histbuf) <= HistSize
  /\ hist_idx \in 0 .. Len(histbuf)
  /\ echo_mode \in BOOLEAN
  /\ mode \in 0 .. 2
  /\ tab_count \in 0 .. 2
  /\ phase \in {"key", "tab", "call", "off"}
  /\ cli_disabled \in BOOLEAN
  /\ screen.row \in Seq(Char) /\ screen.col \in 0 .. LineSize - 1
  /\ screen.clean \in BOOLEAN

(* nk_init_cli: the task that calls handle_cmd(NULL) is pending *)
LineInit ==
  /\ tty_buf = << >> /\ tty_cur = 0 /\ changed = FALSE
  /\ histbuf = << >> /\ hist_idx = 0
  /\ echo_mode = TRUE
  /\ mode = 0 /\ tab_count = 0
  /\ phase = "call"
  /\ cli_disabled = FALSE
  /\ screen = [row |-> << >>, col |-> 0, clean |-> TRUE]

-----------------------------------------------------------------------------
(* The terminal.  Of the row it shows what is to the right of the prompt:  *)
(* row is what stands there and col the place of the cursor.  clean says   *)
(* that the prompt was written on an empty row.                            *)

Cell(t, k) == IF k <= Len(t.row) THEN t.row[k] ELSE Blank

PutChar(t, c) ==
  CASE c = BS -> [t EXCEPT !.col = @ - 1]
    [] c = NL -> [row |-> << >>, col |-> 0, clean |-> TRUE]
    [] c = Prompt ->
         LET right == SubSeq(t.row, t.col + 2, Len(t.row))
         IN  [row |-> right, col |-> 0, clean |-> t.clean /\ t.row = << >>]
    [] OTHER ->
         [t EXCEPT !.col = @ + 1,
                   !.row = IF t.col < Len(@) THEN [@ EXCEPT ![t.col + 1] = c]
                                             ELSE Append(@, c)]

nk_puts(t, s) ==
  LET after[k \in 0 .. Len(s)] ==
        IF k = 0 THEN t ELSE PutChar(after[k - 1], s[k])
  IN  after[Len(s)]

(* console_putchar and console_puts *)
Echo(t, s) == IF echo_mode THEN nk_puts(t, s) ELSE t

Backspaces(n) == [k \in 1 .. n |-> BS]

ToEnd == SubSeq(tty_buf, tty_cur + 1, Len(tty_buf))

(* mutant: the cursor is not taken to the end before the line is erased *)
EraseFromCursor ==
  [k \in 1 .. 3 * Len(tty_buf) |-> IF k % 3 = 2 THEN Blank ELSE BS]

Erase ==
  ToEnd \o [k \in 1 .. 3 * Len(tty_buf) |-> IF k % 3 = 2 THEN Blank ELSE BS]

-----------------------------------------------------------------------------
(* The history: lines of characters, a Nul after each *)

Boundaries(h) == {0} \cup {j \in 1 .. Len(h) : h[j] = Nul}

PrevIdx(h, i) == Max({j \in Boundaries(h) : j < i})

NextIdx(h, i) ==
  IF i = Len(h) THEN i ELSE Min({j \in Boundaries(h) : j > i})

LineAt(h, i) == SubSeq(h, i + 1, NextIdx(h, i) - 1)

hist_del(h, i) ==
  SubSeq(h, 1, i) \o SubSeq(h, NextIdx(h, i) + 1, Len(h))

(* mutant: hist_idx stays where it is when old lines go *)
hist_ins_Stays(h, i, l) ==
  LET r == Min({j \in Boundaries(h) : Len(l) + 1 + Len(h) - j <= HistSize})
      g == SubSeq(h, r + 1, Len(h))
      p == IF i > Len(g) THEN Len(g) ELSE i
  IN  [buf |-> SubSeq(g, 1, p) \o l \o << Nul >> \o SubSeq(g, p + 1, Len(g)),
       idx |-> p]

(* mutant: no room is made *)
hist_ins_NoRoom(h, i, l) ==
  [buf |-> SubSeq(h, 1, i) \o l \o << Nul >> \o SubSeq(h, i + 1, Len(h)),
   idx |-> i]

(* hist_ins: the oldest lines go until l fits, hist_idx goes along with    *)
(* the bytes, and l is put where it points                                 *)
hist_ins(h, i, l) ==
  LET r == Min({j \in Boundaries(h) : Len(l) + 1 + Len(h) - j <= HistSize})
      g == SubSeq(h, r + 1, Len(h))
      p == IF i > r THEN i - r ELSE 0
  IN  [buf |-> SubSeq(g, 1, p) \o l \o << Nul >> \o SubSeq(g, p + 1, Len(g)),
       idx |-> p]

Kept(i) == [buf |-> histbuf, idx |-> i]

(* the line that an arrow key leaves is put into the history if edited *)
Left(i) ==
  IF changed /\ tty_buf # << >> THEN hist_ins(histbuf, i, tty_buf) ELSE Kept(i)

-----------------------------------------------------------------------------
(* Keys.  Every key counts tab_count down; one that does something is      *)
(* handled in mode 0, the arrow keys and their equivalents in mode 2 too.  *)

Key ==
  /\ phase = "key"
  /\ tab_count' = IF tab_count > 0 THEN tab_count - 1 ELSE 0
  /\ UNCHANGED cli_linevars

PlainKey == Key /\ mode = 0 /\ UNCHANGED << mode, phase >>
ArrowKey == Key /\ mode \in {0, 2} /\ mode' = 0 /\ UNCHANGED phase

Beep == UNCHANGED << line_linevars, hist_linevars, screen >>

(* the line and the terminal after typech(c), with the cursor at cur *)
typech(c, cur, t) ==
  IF Len(tty_buf) # LineSize - 1
    THEN LET b == InsertAt(tty_buf, cur + 1, c)
         IN  /\ tty_buf' = b
             /\ tty_cur' = cur + 1
             /\ changed' = TRUE
             /\ screen' = Echo(t, SubSeq(b, cur + 1, Len(b))
                                    \o Backspaces(Len(b) - (cur + 1)))
    ELSE /\ tty_cur' = cur
         /\ screen' = t
         /\ UNCHANGED << tty_buf, changed >>

Typed(c) == PlainKey /\ typech(c, tty_cur, screen) /\ UNCHANGED hist_linevars

(* mutant: a deleted character does not count as an edit *)
delch_Unmarked(k, out) ==
  LET b == RemoveAt(tty_buf, k + 1)
      rest == SubSeq(b, k + 1, Len(b))
  IN  /\ tty_buf' = b
      /\ tty_cur' = k
      /\ screen' = Echo(screen, out \o rest \o << Blank, BS >>
                                  \o Backspaces(Len(rest)))
      /\ UNCHANGED << changed, hist_linevars >>

(* delch: the character at index k goes, the cursor is at k afterwards *)
delch(k, out) ==
  LET b == RemoveAt(tty_buf, k + 1)
      rest == SubSeq(b, k + 1, Len(b))
  IN  /\ tty_buf' = b
      /\ tty_cur' = k
      /\ changed' = TRUE
      /\ screen' = Echo(screen, out \o rest \o << Blank, BS >>
                                  \o Backspaces(Len(rest)))
      /\ UNCHANGED hist_linevars

Rubout ==                               \* ^H, DEL
  /\ PlainKey
  /\ IF tty_cur > 0 THEN delch(tty_cur - 1, << BS >>) ELSE Beep

DeleteAtCursor ==                       \* ^D
  /\ PlainKey
  /\ IF tty_cur # Len(tty_buf) THEN delch(tty_cur, << >>) ELSE Beep

Cursor(to, out) ==
  /\ tty_cur' = to
  /\ screen' = Echo(screen, out)
  /\ UNCHANGED << tty_buf, changed, hist_linevars >>

to_end == PlainKey /\ Cursor(Len(tty_buf), ToEnd)
to_beg == PlainKey /\ Cursor(0, Backspaces(tty_cur))

cur_left ==
  ArrowKey /\ (IF tty_cur > 0 THEN Cursor(tty_cur - 1, << BS >>) ELSE Beep)

cur_right ==
  /\ ArrowKey
  /\ IF tty_cur # Len(tty_buf)
       THEN Cursor(tty_cur + 1, << tty_buf[tty_cur + 1] >>) ELSE Beep

(* ESC, ESC [, and a key that does not belong to a sequence *)
Escape ==
  /\ Key
  /\ \/ mode = 0 /\ mode' = 1
     \/ mode = 1 /\ mode' \in {0, 2}
     \/ mode = 2 /\ mode' = 0
  /\ UNCHANGED << line_linevars, hist_linevars, phase, screen >>

Unknown == PlainKey /\ Beep

-----------------------------------------------------------------------------
(* Walking through the history *)

(* l replaces the line, h the history *)
Show(l, h) ==
  /\ tty_buf' = l /\ tty_cur' = Len(l) /\ changed' = FALSE
  /\ histbuf' = h.buf /\ hist_idx' = h.idx
  /\ screen' = Echo(screen, Erase \o l)

hist_up ==
  LET s == Left(hist_idx)
      i == PrevIdx(s.buf, s.idx)
  IN  /\ ArrowKey
      /\ IF hist_idx = 0 THEN Beep
         ELSE IF s.idx = 0 THEN Show(<< >>, s)
         ELSE Show(LineAt(s.buf, i), [s EXCEPT !.idx = i])

MoreHistory ==
  hist_idx # Len(histbuf) /\ NextIdx(histbuf, hist_idx) # Len(histbuf)

hist_down ==
  LET edited == changed /\ tty_buf # << >>
      s == IF edited THEN Left(NextIdx(histbuf, hist_idx)) ELSE Kept(hist_idx)
      i == IF tty_buf = << >> THEN hist_idx ELSE NextIdx(s.buf, s.idx)
  IN  /\ ArrowKey
      /\ CASE MoreHistory ->
                Show(IF i # Len(s.buf) THEN LineAt(s.buf, i) ELSE << >>,
                     [s EXCEPT !.idx = i])
           [] ~MoreHistory /\ tty_buf # << >> ->
                Show(<< >>, [s EXCEPT !.idx = Len(s.buf)])
           [] OTHER -> Beep

(* ^C: the terminal gets ^C, a new line and the prompt, echo or not *)
Cancel ==
  LET s == Left(hist_idx)
  IN  /\ PlainKey
      /\ histbuf' = s.buf
      /\ hist_idx' = Len(s.buf)
      /\ tty_buf' = << >> /\ tty_cur' = 0 /\ changed' = FALSE
      /\ screen' = nk_puts(screen, << NL, Prompt >>)

EnteredHistory ==
  LET h == IF changed THEN histbuf ELSE hist_del(histbuf, hist_idx)
  IN  IF tty_buf = << >> THEN histbuf ELSE hist_ins(h, Len(h), tty_buf).buf

Enter ==
  /\ Key
  /\ mode = 0
  /\ tty_cur' = Len(tty_buf)
  /\ histbuf' = EnteredHistory
  /\ hist_idx' = Len(histbuf')
  /\ changed' = FALSE
  /\ screen' = nk_puts(screen, << NL >>)
  /\ phase' = "call"
  /\ UNCHANGED << tty_buf, mode >>

-----------------------------------------------------------------------------
(* The TAB key *)

Commands == IF FacMode THEN Visible \cup Hidden ELSE Visible

WordFinished == tty_buf # << >> /\ tty_buf[Len(tty_buf)] = Blank

(* nk_help behind a finished word, where the blank is not part of the name *)
Help ==
  LET name == SubSeq(tty_buf, 1, Len(tty_buf) - 1)
      t == Echo(screen, << NL >>)
      u == IF name \in Commands THEN nk_puts(t, << NL >>) ELSE t
  IN  /\ PlainKey
      /\ WordFinished
      /\ tty_cur' = Len(tty_buf)
      /\ screen' = Echo(u, << Prompt >> \o tty_buf)
      /\ UNCHANGED << tty_buf, changed, hist_linevars >>

Tab ==
  /\ Key
  /\ mode = 0
  /\ ~WordFinished
  /\ phase' = "tab"
  /\ UNCHANGED << line_linevars, hist_linevars, mode, screen >>

Matches == {n \in Commands : IsPrefix(tty_buf, n)}

(* what nk_complete takes for the next character: the set of them *)
NextChars ==
  {IF Len(n) > Len(tty_buf) THEN n[Len(tty_buf) + 1] ELSE Blank : n \in Matches}

Listed == tab_count > 0

(* a listing puts the cursor to the end of the line *)
TabCur == IF Listed THEN Len(tty_buf) ELSE tty_cur
TabScreen ==
  LET t == Echo(screen, << NL >>)
      u == IF Matches = {} THEN t ELSE nk_puts(t, << NL >>)
  IN  IF Listed THEN Echo(u, << Prompt >> \o tty_buf) ELSE screen

CompleteNone ==
  /\ phase = "tab"
  /\ NextChars = {}
  /\ phase' = "key"
  /\ tty_cur' = TabCur
  /\ screen' = TabScreen
  /\ UNCHANGED << tty_buf, changed, hist_linevars, cli_linevars, mode, tab_count >>

CompleteMany ==
  /\ phase = "tab"
  /\ Cardinality(NextChars) > 1
  /\ phase' = "key"
  /\ tab_count' = 2
  /\ tty_cur' = TabCur
  /\ screen' = TabScreen
  /\ UNCHANGED << tty_buf, changed, hist_linevars, cli_linevars, mode >>

(* mutant: a completed command does not end the completion *)
CompleteOneGoesOn ==
  \E c \in NextChars :
    /\ phase = "tab"
    /\ NextChars = {c}
    /\ typech(c, TabCur, TabScreen)
    /\ UNCHANGED << hist_linevars, cli_linevars, mode, tab_count, phase >>

CompleteOne ==
  \E c \in NextChars :
    /\ phase = "tab"
    /\ NextChars = {c}
    /\ typech(c, TabCur, TabScreen)
    /\ phase' = IF c = Blank THEN "key" ELSE "tab"
    /\ UNCHANGED << hist_linevars, cli_linevars, mode, tab_count >>

Complete == CompleteNone \/ CompleteMany \/ CompleteOne

-----------------------------------------------------------------------------
(* The command line (src/nkcli.c) around the editor *)

nk_readline ==
  /\ tty_buf' = << >> /\ tty_cur' = 0 /\ changed' = FALSE
  /\ screen' = Echo(screen, << Prompt >>)

(* handle_cmd comes back from nk_cmd *)
handle_cmd ==
  /\ phase = "call"
  /\ IF cli_disabled
       THEN phase' = "off" /\ UNCHANGED << line_linevars, screen >>
       ELSE phase' = "key" /\ nk_readline
  /\ UNCHANGED << hist_linevars, cli_linevars, mode, tab_count >>

(* a command *)
nk_set_echo ==
  /\ phase = "call"
  /\ echo_mode' = ~echo_mode
  /\ UNCHANGED << line_linevars, hist_linevars, cli_disabled, mode, tab_count, phase,
                  screen >>

(* a command, or a task that runs while a key is waited for *)
nk_cli_disable ==
  /\ phase # "tab"
  /\ cli_disabled' = TRUE
  /\ UNCHANGED << line_linevars, hist_linevars, echo_mode, mode, tab_count, phase,
                  screen >>

(* mutant: nk_cli_enable leaves it to handle_cmd to ask for a line *)
nk_cli_enable_OnlyFlag ==
  /\ phase # "tab"
  /\ cli_disabled
  /\ cli_disabled' = FALSE
  /\ UNCHANGED << line_linevars, hist_linevars, echo_mode, mode, tab_count, phase,
                  screen >>

nk_cli_enable ==
  /\ phase # "tab"
  /\ cli_disabled
  /\ cli_disabled' = FALSE
  /\ nk_readline
  /\ phase' = IF phase = "call" THEN "call" ELSE "key"
  /\ UNCHANGED << hist_linevars, echo_mode, mode, tab_count >>

KeyStep ==
  \/ \E c \in Char : Typed(c)
  \/ Rubout \/ DeleteAtCursor
  \/ to_end \/ to_beg \/ cur_left \/ cur_right
  \/ Escape \/ Unknown
  \/ hist_up \/ hist_down
  \/ Cancel \/ Enter \/ Help \/ Tab

LineNext ==
  \/ KeyStep
  \/ Complete
  \/ handle_cmd \/ nk_set_echo \/ nk_cli_disable \/ nk_cli_enable

LineSpec == LineInit /\ [][LineNext]_linevars

(* prompt_task does not wait for anything while it completes a command *)
LineFairSpec == LineSpec /\ WF_linevars(Complete)

-----------------------------------------------------------------------------
(* Properties *)

(***************************************************************************)
(* The terminal shows the line being edited behind the prompt, and its     *)
(* cursor stands where the next character goes, after every key, although  *)
(* both are only known from the backspaces and blanks that were sent.      *)
(* Behind the line there is nothing, unless the command line was switched  *)
(* off and on in the middle of it.  With the echo off nothing that is      *)
(* typed is shown.                                                         *)
(***************************************************************************)
ScreenShowsLine ==
  phase = "key" =>
    IF echo_mode
      THEN /\ \A k \in 1 .. Len(tty_buf) : Cell(screen, k) = tty_buf[k]
           /\ screen.col = tty_cur
           /\ screen.clean =>
                \A k \in Len(tty_buf) + 1 .. Len(screen.row) :
                  screen.row[k] = Blank
      ELSE screen.row = << >> /\ screen.col = 0

(***************************************************************************)
(* A line that counts as not edited is the one hist_idx points at: only    *)
(* so does Enter delete the entry it repeats (hist_del) and not another.   *)
(***************************************************************************)
UnchangedIsRetrieved ==
  phase \in {"key", "tab"} /\ tty_buf # << >> /\ ~changed =>
    /\ hist_idx # Len(histbuf)
    /\ LineAt(histbuf, hist_idx) = tty_buf

(***************************************************************************)
(* The command line answers: unless it is disabled, either a line is being *)
(* read or the command that was read is running.                           *)
(***************************************************************************)
CliListens == cli_disabled \/ phase # "off"

(***************************************************************************)
(* The completion of a command ends, also when the line is full and takes  *)
(* no more characters.                                                     *)
(***************************************************************************)
TabEnds == phase = "tab" ~> phase = "key"

(***************************************************************************)
(* The bytes of the history, cut at their Nuls, are the lines of NkEditor  *)
(* and hist_idx is the position in them: whatever is inserted, deleted or  *)
(* evicted, no line is torn and the position stays at its line.            *)
(***************************************************************************)
Before(h, i) == Cardinality({j \in Boundaries(h) : j < i})

HistLines(h) ==
  [k \in 1 .. Before(h, Len(h)) |->
     LineAt(h, CHOOSE i \in Boundaries(h) : Before(h, i) = k - 1)]

Editor == INSTANCE NkEditor WITH
  line <- tty_buf, cur <- tty_cur,
  lines <- HistLines(histbuf), pos <- Before(histbuf, hist_idx) + 1

ImplementsEditor == Editor!Spec

=============================================================================
