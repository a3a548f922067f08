----------------------------- MODULE NkSegments -----------------------------
(***************************************************************************)
(* Seven-segment displays with keys, on two or three pins of the processor *)
(* (src/nkdriver_tm1637.c, src/nkdriver_tm1638.c), pin by pin.  On the     *)
(* TM1637 the falling edge of DIO while CLK is high starts a transfer and  *)
(* the rising edge ends it, and the chip pulls DIO to acknowledge a byte   *)
(* and to send the keys; on the TM1638 a third wire, STB, goes low for the *)
(* time of a transfer and nothing is acknowledged.                         *)
(*                                                                         *)
(* The processor may be reset between any two operations on its pins,      *)
(* which lets the wires go while the chip is anywhere in a byte.  The      *)
(* chips are external: they take bits on the rising edge of CLK, lowest    *)
(* first, and change DIO after the falling edge.  The delays of the        *)
(* drivers are taken to cover the rise and fall times.                     *)
(***************************************************************************)
EXTENDS Integers, SequencesExt

CONSTANTS
  NDigits,        \* digits of the display
  Font,           \* nkfont_7seg: the segments of a character
  digit_map,      \* where a digit is in the memory of the chip
  Pictures,       \* what callers display: digits, dp, extra1 and extra2
  SegKeys,        \* the keys that can be pressed together
  CarefulReset,   \* no reset while the TM1637 is sending keys
  MaxSegResets    \* bound: resets of the processor

Cell == 0 .. NDigits - 1

ASSUME SegConstantsOK ==
  /\ NDigits \in 1 .. 6
  /\ \A c \in DOMAIN Font : Font[c] \in 0 .. 127
  /\ digit_map \in [Cell -> Cell]
  /\ \A x, y \in Cell : digit_map[x] = digit_map[y] => x = y
  /\ Pictures \subseteq [digits : [Cell -> DOMAIN Font], dp : SUBSET Cell,
                         extra1 : SUBSET Cell, extra2 : SUBSET Cell]
  /\ SegKeys \subseteq 0 .. 255
  /\ CarefulReset \in BOOLEAN
  /\ MaxSegResets \in Nat

VARIABLES
  tm,          \* which chip it is
  clk, dio, stb,   \* the processor's ends of the wires: 0 pulls, 1 lets go
  tmchip,      \* the chip
  keys,        \* the keys that are pressed
  pinops,      \* operations on the pins that are left of the call
  tmcall,      \* the call
  keybits,     \* the bits that it has read
  nack,        \* its result so far
  ready,       \* nk_tm163x_init has been called since the reset
  shows,       \* history: what the calls since then have displayed
  segresets

segvars == << tm, clk, dio, stb, tmchip, keys, pinops, tmcall, keybits, nack,
              ready, shows, segresets >>

MODE_LOAD == 64
MODE_READ == 66
DISP_OFF == 128
DISP_ON == 136      \* and the brightness
ADDR == 192

SegMemory == IF tm = "tm1637" THEN NDigits ELSE 2 * NDigits
KeyBytes == IF tm = "tm1637" THEN 1 ELSE 4   \* the same keys in each
NoTmCall == [op |-> "idle"]
Brightness == {3}        \* bound: that callers ask for
Nothing == [text |-> {}, light |-> {}]   \* known to be shown

SegTypeOK ==
  /\ tm \in {"tm1637", "tm1638"}
  /\ clk \in {0, 1} /\ dio \in {0, 1} /\ stb \in {0, 1}
  /\ tmchip.st \in {"idle", "command", "data", "keys", "ignore"}
  /\ tmchip.n \in 0 .. 9 /\ tmchip.byte \in 0 .. 255
  /\ tmchip.pulls \in BOOLEAN /\ tmchip.load \in BOOLEAN
  /\ tmchip.ptr \in 0 .. SegMemory - 1
  /\ tmchip.light \in 0 .. 8
  /\ tmchip.mem \in [0 .. SegMemory - 1 -> 0 .. 255]
  /\ pinops \in Seq({"clk0", "clk1", "dio0", "dio1", "stb0", "stb1", "ack",
                     "bit"})
  /\ nack \in {0, 1} /\ ready \in BOOLEAN
  /\ segresets \in 0 .. MaxSegResets

-----------------------------------------------------------------------------
(* The chip: n counts the bits of a byte, and the acknowledgement           *)

DioLevel == IF dio = 1 /\ ~tmchip.pulls THEN 1 ELSE 0
LowBit(x, k) == (x \div 2^k) % 2

Began == [tmchip EXCEPT !.st = "command", !.n = 0, !.byte = 0,
                        !.pulls = FALSE]
Ended == [tmchip EXCEPT !.st = "idle", !.n = 0, !.byte = 0, !.pulls = FALSE]

(* a byte has come: the first of a transfer is a command *)
Took(c) ==
  IF c.st = "data"
  THEN [c EXCEPT !.mem[c.ptr] = IF c.load THEN c.byte ELSE @,
                 !.ptr = (@ + 1) % SegMemory]
  ELSE IF c.byte >= ADDR
  THEN [c EXCEPT !.st = "data", !.ptr = (c.byte - ADDR) % SegMemory]
  ELSE IF c.byte >= DISP_OFF
  THEN [c EXCEPT !.st = "ignore",
                 !.light = IF c.byte >= DISP_ON THEN (c.byte % 8) + 1 ELSE 0]
  ELSE IF c.byte = MODE_READ THEN [c EXCEPT !.st = "keys", !.load = FALSE]
  ELSE [c EXCEPT !.st = "ignore", !.load = c.byte = MODE_LOAD]

Takes == tmchip.st \in {"command", "data"}

(* the TM1637 acts on a byte when it acknowledges it *)
ClkRises ==
  IF ~Takes \/ tmchip.n >= 8 THEN tmchip
  ELSE LET c == [tmchip EXCEPT !.byte = @ + DioLevel * 2^tmchip.n,
                               !.n = @ + 1]
       IN  IF tm = "tm1638" /\ c.n = 8
           THEN [Took(c) EXCEPT !.n = 0, !.byte = 0] ELSE c

Sent(k) == [tmchip EXCEPT !.n = k + 1, !.pulls = LowBit(keys, k) = 0]

ClkFalls ==
  CASE tmchip.st \in {"idle", "ignore"} /\ tmchip.n # 9 -> tmchip
    [] tmchip.st = "keys" /\ tm = "tm1638" -> Sent(tmchip.n % 8)
    [] tmchip.st = "keys" /\ tmchip.n < 8 -> Sent(tmchip.n)
    [] Takes /\ tmchip.n < 8 -> tmchip
    [] tmchip.n = 8 -> [(IF Takes THEN Took(tmchip)
                         ELSE [tmchip EXCEPT !.st = "ignore"])
                          EXCEPT !.n = 9, !.byte = 0, !.pulls = TRUE]
    [] tmchip.n = 9 /\ tmchip.st = "keys" -> Sent(0)
    [] OTHER -> [tmchip EXCEPT !.n = 0, !.pulls = FALSE]

-----------------------------------------------------------------------------
(* The drivers: the operations on the pins that a call makes                *)

tm_start == IF tm = "tm1637" THEN << "clk1", "dio0" >> ELSE << "stb0" >>

tm_stop ==
  IF tm = "tm1637" THEN << "clk0", "dio0", "clk1", "dio1" >>
  ELSE << "stb1" >>

tm_init ==
  IF tm = "tm1637" THEN tm_start \o tm_stop ELSE << "clk1", "dio1", "stb1" >>

OutBit(b) == IF b = 1 THEN "dio1" ELSE "dio0"

tm_write_byte(byte) ==
  LET bit(k) == IF tm = "tm1637"
                THEN << "clk0", OutBit(LowBit(byte, k - 1)), "clk1" >>
                ELSE << OutBit(LowBit(byte, k - 1)), "clk0", "clk1" >>
  IN  FlattenSeq([k \in 1 .. 8 |-> bit(k)])
        \o IF tm = "tm1637" THEN << "clk0", "dio1", "ack", "clk1" >>
           ELSE << >>

tm_read_byte ==
  IF tm = "tm1637"
  THEN FlattenSeq([k \in 1 .. 8 |-> << "clk0", "dio1", "bit", "clk1" >>])
         \o << "clk0", "dio1", "ack", "clk1" >>
  ELSE << "dio1" >>
         \o FlattenSeq([k \in 1 .. 8 |-> << "clk0", "bit", "clk1" >>])

tm_write(data) ==
  tm_start \o FlattenSeq([k \in DOMAIN data |-> tm_write_byte(data[k])])
    \o tm_stop

(* len bytes *)
tm_read(cmd, len) ==
  tm_start \o tm_write_byte(cmd)
    \o FlattenSeq([k \in 1 .. len |-> tm_read_byte]) \o tm_stop

(* mutant: data mode is taken to be what it was *)
DisplayWithoutMode(data) == tm_write(<< ADDR >> \o data)

tm_display_raw(data) ==
  tm_write(<< MODE_LOAD >>) \o tm_write(<< ADDR >> \o data)

(* the segments of digit x: the TM1638 has ten of them in two bytes *)
Segments(p, x) ==
  Font[p.digits[x]] + (IF x \in p.dp THEN 128 ELSE 0)
    + IF tm = "tm1637" THEN 0
      ELSE (IF x \in p.extra1 THEN 256 ELSE 0)
             + (IF x \in p.extra2 THEN 512 ELSE 0)

Mapped(p) ==
  [k \in 1 .. NDigits |->
     Segments(p, CHOOSE x \in Cell : digit_map[x] = k - 1)]

DisplayData(p) ==
  IF tm = "tm1637" THEN Mapped(p)
  ELSE FlattenSeq([k \in 1 .. NDigits |->
                     << Mapped(p)[k] % 256, Mapped(p)[k] \div 256 >>])

-----------------------------------------------------------------------------
(* Calls *)

SegInit ==
  /\ tm \in {"tm1637", "tm1638"}
  /\ clk = 1 /\ dio = 1 /\ stb = 1
  /\ tmchip = [st |-> "idle", n |-> 0, byte |-> 0, pulls |-> FALSE,
               load |-> TRUE, ptr |-> 0, light |-> 0,
               mem |-> [a \in 0 .. SegMemory - 1 |-> 0]]
  /\ keys = CHOOSE k \in SegKeys : TRUE
  /\ pinops = << >> /\ tmcall = NoTmCall
  /\ keybits = << >> /\ nack = 0
  /\ ready = FALSE /\ shows = Nothing
  /\ segresets = 0

TmCalls(call, ops) ==
  /\ pinops = << >>
  /\ tmcall' = call
  /\ pinops' = ops
  /\ keybits' = << >> /\ nack' = 0
  /\ UNCHANGED << tm, clk, dio, stb, tmchip, keys, segresets >>

TmInit ==
  /\ TmCalls([op |-> "init"], tm_init)
  /\ ready' = TRUE
  /\ UNCHANGED shows

TmDisplay ==
  \E p \in Pictures :
    /\ ready
    /\ TmCalls([op |-> "display", of |-> p], tm_display_raw(DisplayData(p)))
    /\ shows' = [shows EXCEPT !.text = {p}]
    /\ UNCHANGED ready

TmDisplayOff ==
  /\ ready
  /\ TmCalls([op |-> "off"], tm_write(<< DISP_OFF >>))
  /\ shows' = [shows EXCEPT !.light = {0}]
  /\ UNCHANGED ready

TmDisplayOn ==
  \E brightness \in Brightness :
    /\ ready
    /\ TmCalls([op |-> "on"], tm_write(<< DISP_ON + brightness >>))
    /\ shows' = [shows EXCEPT !.light = {brightness + 1}]
    /\ UNCHANGED ready

TmKeyscan ==
  /\ ready
  /\ TmCalls([op |-> "keyscan"], tm_read(MODE_READ, KeyBytes))
  /\ UNCHANGED << ready, shows >>

-----------------------------------------------------------------------------
(* Pins *)

DioPin(level) ==
  /\ dio' = level
  /\ tmchip' =
       IF tm = "tm1637" /\ clk = 1 /\ dio # level /\ ~tmchip.pulls
       THEN IF level = 0 THEN Began ELSE Ended
       ELSE tmchip
  /\ UNCHANGED << clk, stb, keybits, nack >>

ClkPin(level) ==
  /\ clk' = level
  /\ tmchip' = IF clk = level THEN tmchip
               ELSE IF level = 1 THEN ClkRises ELSE ClkFalls
  /\ UNCHANGED << dio, stb, keybits, nack >>

StbPin(level) ==
  /\ stb' = level
  /\ tmchip' = IF tm # "tm1638" \/ stb = level THEN tmchip
               ELSE IF level = 0 THEN Began ELSE Ended
  /\ UNCHANGED << clk, dio, keybits, nack >>

TmPin ==
  /\ pinops # << >>
  /\ LET op == Head(pinops) IN
     \/ \E level \in {0, 1} :
          \/ op = << "dio0", "dio1" >>[level + 1] /\ DioPin(level)
          \/ op = << "clk0", "clk1" >>[level + 1] /\ ClkPin(level)
          \/ op = << "stb0", "stb1" >>[level + 1] /\ StbPin(level)
     \/ /\ op = "bit"
        /\ keybits' = Append(keybits, DioLevel)
        /\ UNCHANGED << clk, dio, stb, tmchip, nack >>
     \/ /\ op = "ack"
        /\ nack' = IF DioLevel = 1 THEN 1 ELSE nack
        /\ UNCHANGED << clk, dio, stb, tmchip, keybits >>
  /\ pinops' = Tail(pinops)
  /\ UNCHANGED << tm, keys, tmcall, ready, shows, segresets >>

(* the keys are not pressed or let go in the middle of a scan *)
Press ==
  /\ pinops = << >>
  /\ keys' \in SegKeys
  /\ tmcall' = NoTmCall
  /\ UNCHANGED << tm, clk, dio, stb, tmchip, pinops, keybits, nack, ready,
                  shows, segresets >>

(* the pins become inputs, and are pulled up one after the other *)
TmReset ==
  /\ segresets < MaxSegResets
  /\ CarefulReset => ~(tm = "tm1637" /\ tmchip.st = "keys")
  /\ segresets' = segresets + 1
  /\ pinops' \in {<< "clk1", "dio1", "stb1" >>, << "dio1", "clk1", "stb1" >>,
                  << "stb1", "dio1", "clk1" >>}
  /\ tmcall' = NoTmCall
  /\ keybits' = << >> /\ nack' = 0
  /\ ready' = FALSE /\ shows' = Nothing
  /\ UNCHANGED << tm, clk, dio, stb, tmchip, keys >>

SegNext ==
  \/ TmInit
  \/ TmDisplay
  \/ TmDisplayOff
  \/ TmDisplayOn
  \/ TmKeyscan
  \/ TmPin
  \/ Press
  \/ TmReset

SegSpec == SegInit /\ [][SegNext]_segvars

-----------------------------------------------------------------------------
(* Properties *)

(***************************************************************************)
(* Once nk_tm1637_init or nk_tm1638_init has been called, every call that  *)
(* has ended was acknowledged, the display shows the picture and the       *)
(* brightness of the last calls, each digit in its place, and a scan has   *)
(* read the keys -- even if a reset of the processor had left the chip in  *)
(* the middle of a byte or of an acknowledgement, and although a scan      *)
(* changes the mode of the chip.                                           *)
(***************************************************************************)
SegmentsAt(x) ==
  IF tm = "tm1637" THEN tmchip.mem[digit_map[x]]
  ELSE tmchip.mem[2 * digit_map[x]] + 256 * tmchip.mem[2 * digit_map[x] + 1]

ShowsPicture ==
  ready /\ pinops = << >> =>
    /\ nack = 0
    /\ \A p \in shows.text, x \in Cell : SegmentsAt(x) = Segments(p, x)
    /\ shows.light \subseteq {tmchip.light}
    /\ tmcall.op = "keyscan" =>
         keybits = [k \in 1 .. 8 * KeyBytes |-> LowBit(keys, (k - 1) % 8)]
=============================================================================
