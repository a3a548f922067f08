------------------------------- MODULE NkLcd --------------------------------
(***************************************************************************)
(* Character displays with an HD44780 on the I2C bus: the calls of         *)
(* src/nkdriver_hd44780.c, over an expander whose eight pins drive the     *)
(* display four bits at a time (src/nkdriver_lcd8574.c) or over the I2C    *)
(* version of the chip (src/nkdriver_aip31068.c).                          *)
(*                                                                         *)
(* A step is one write on the bus.  It may fail, with or without effect,   *)
(* and the processor may be reset between any two: the display then waits  *)
(* for the second half of a byte, or the enable line stays high.  What an  *)
(* HD44780 does is not in the library; inc/nkdriver_hd44780.h describes    *)
(* its commands.  Here it has as many addresses as it shows cells, ignores *)
(* what comes while it clears or homes, and reads its four unconnected     *)
(* pins as ones while it is in 8-bit mode.                                 *)
(***************************************************************************)
EXTENDS Integers, SequencesExt

CONSTANTS
  Cells,        \* addresses of the display RAM
  Texts,        \* what nk_hd44780_write is called with
  CarefulHome,  \* callers of nk_hd44780_home wait until it has been done
  MaxLcdFaults  \* bound: writes that fail, and resets

ASSUME LcdConstantsOK ==
  /\ Cells \in 1 .. 128     \* seven bits of a command are the address
  /\ Texts \subseteq Seq(0 .. 255) /\ << >> \notin Texts
  /\ CarefulHome \in BOOLEAN
  /\ MaxLcdFaults \in Nat

VARIABLES
  wire,      \* how the display is connected
  lcd,       \* the HD44780
  pins,      \* of the expander
  regval,    \* dev->regval: what the expander was last asked to be
  todo,      \* the writes on the bus that are left of the call
  asked,     \* the call
  rtn,       \* its result so far
  trusted,   \* an initialisation has succeeded and no call has failed since
  lcdfaults

lcdvars ==
  << wire, lcd, pins, regval, todo, asked, rtn, trusted, lcdfaults >>

Wires == {"lcd8574", "aip31068"}
Nibble == 0 .. 15
BlankCell == 32
None == -1

NoCall == [op |-> "idle", arg |-> 0, flag |-> FALSE, data |-> << >>]
BlankCells == [cell \in 0 .. Cells - 1 |-> BlankCell]
Low == [e |-> FALSE, rs |-> FALSE, value |-> 0, light |-> FALSE]

LcdTypeOK ==
  /\ wire \in Wires
  /\ lcd \in [bits8 : BOOLEAN, half : Nibble \cup {None},
              addr : 0 .. Cells - 1,
              cgram : BOOLEAN, text : [0 .. Cells - 1 -> 0 .. 255],
              on : BOOLEAN, busy : BOOLEAN]
  /\ pins \in [e : BOOLEAN, rs : BOOLEAN, value : Nibble, light : BOOLEAN]
  /\ regval \in [e : {FALSE}, rs : BOOLEAN, value : Nibble, light : BOOLEAN]
  /\ asked.op \in {"idle", "init", "cls", "home", "pos", "mode", "backlight",
                   "write"}
  /\ rtn \in {0, 1} /\ trusted \in BOOLEAN
  /\ lcdfaults \in 0 .. MaxLcdFaults

-----------------------------------------------------------------------------
(* The display *)

CLS == 1
HOME == 2
DISPLAY == 8
DISPLAY_ON == 15     \* with its D, C and B bits
FUNC == 40           \* 0x20, and two lines
FUNC_DL == 16
DDRAM == 128

(* a byte, data if rs is high *)
Executed(c, rs, byte) ==
  IF rs
  THEN IF c.cgram THEN c
       ELSE [c EXCEPT !.text[c.addr] = byte, !.addr = (@ + 1) % Cells]
  ELSE IF byte >= DDRAM
  THEN [c EXCEPT !.addr = (byte - DDRAM) % Cells, !.cgram = FALSE]
  ELSE IF byte >= 64 THEN [c EXCEPT !.cgram = TRUE]
  ELSE IF byte >= 32 THEN [c EXCEPT !.bits8 = (byte \div FUNC_DL) % 2 = 1]
  ELSE IF byte >= 16
  THEN [c EXCEPT !.addr = (IF byte % 8 >= 4 THEN @ + 1 ELSE @ - 1) % Cells]
  ELSE IF byte >= DISPLAY THEN [c EXCEPT !.on = (byte \div 4) % 2 = 1]
  ELSE IF byte = CLS
  THEN [c EXCEPT !.text = BlankCells, !.addr = 0, !.cgram = FALSE,
                 !.busy = TRUE]
  ELSE IF byte \in {HOME, HOME + 1}
  THEN [c EXCEPT !.addr = 0, !.cgram = FALSE, !.busy = TRUE]
  ELSE c

(* four bits at the falling edge of E *)
Latched(c, rs, nibble) ==
  IF c.busy THEN c
  ELSE IF c.bits8 THEN Executed(c, rs, 16 * nibble + 15)
  ELSE IF c.half = None THEN [c EXCEPT !.half = nibble]
  ELSE Executed([c EXCEPT !.half = None], rs, 16 * c.half + nibble)

-----------------------------------------------------------------------------
(* The drivers: the writes on the bus that a call makes, and after which of *)
(* them it waits until the display has cleared or homed                     *)

BusWrite(e, reg, waits) ==
  [e |-> e, rs |-> reg.rs, value |-> reg.value, light |-> reg.light,
   waits |-> waits]

Reg(rs, value, bl) == [rs |-> rs, value |-> value, light |-> bl]

nk_lcd8574_pulse(reg, waits) ==
  << BusWrite(TRUE, reg, FALSE), BusWrite(FALSE, reg, waits) >>

send(to, rs, byte, bl, waits) ==
  IF to = "aip31068" THEN << BusWrite(FALSE, Reg(rs, byte, bl), waits) >>
  ELSE nk_lcd8574_pulse(Reg(rs, byte \div 16, bl), FALSE)
         \o nk_lcd8574_pulse(Reg(rs, byte % 16, bl), waits)

send_command(to, cmd, bl, waits) == send(to, FALSE, cmd, bl, waits)

send_data(to, data, bl) ==
  FlattenSeq([i \in DOMAIN data |-> send(to, TRUE, data[i], bl, FALSE)])

(* mutant: the second of the three pulses is left out *)
TwoPulses(to, bl) ==
  IF to = "aip31068"
  THEN LET func == send(to, FALSE, FUNC + FUNC_DL, bl, TRUE)
       IN  func \o func \o func
  ELSE nk_lcd8574_pulse(Reg(FALSE, 3, bl), TRUE)
         \o nk_lcd8574_pulse(Reg(FALSE, 3, bl), FALSE)
         \o nk_lcd8574_pulse(Reg(FALSE, 2, bl), FALSE)
         \o send(to, FALSE, FUNC, bl, FALSE)

(* into 8-bit mode from any state; then 4-bit mode on the expander *)
init_reset(to, bl) ==
  IF to = "aip31068"
  THEN LET func == send(to, FALSE, FUNC + FUNC_DL, bl, TRUE)
       IN  func \o func \o func
  ELSE nk_lcd8574_pulse(Reg(FALSE, 3, bl), TRUE)
         \o nk_lcd8574_pulse(Reg(FALSE, 3, bl), FALSE)
         \o nk_lcd8574_pulse(Reg(FALSE, 3, bl), FALSE)
         \o nk_lcd8574_pulse(Reg(FALSE, 2, bl), FALSE)
         \o send(to, FALSE, FUNC, bl, FALSE)

init(to, bl) ==
  init_reset(to, bl)
    \o send_command(to, DISPLAY, bl, FALSE)
    \o send_command(to, CLS, bl, TRUE)
    \o send_command(to, DISPLAY_ON, bl, FALSE)
-----------------------------------------------------------------------------
LcdInit ==
  /\ wire \in Wires
  /\ lcd = [bits8 |-> TRUE, half |-> None, addr |-> 0, cgram |-> FALSE,
            text |-> BlankCells, on |-> FALSE, busy |-> TRUE]
  /\ pins = Low /\ regval = Low
  /\ todo = << >> /\ asked = NoCall
  /\ rtn = 0 /\ trusted = FALSE
  /\ lcdfaults = 0

Calls(op, arg, flag, data, writes) ==
  /\ todo = << >>
  /\ todo' = writes
  /\ asked' = [op |-> op, arg |-> arg, flag |-> flag, data |-> data]
  /\ rtn' = 0
  /\ UNCHANGED << wire, pins, regval, lcdfaults >>

(* it waits 15 ms first *)
LcdStart ==
  /\ \E bl \in IF wire = "lcd8574" THEN BOOLEAN ELSE {FALSE} :
       Calls("init", 0, bl, << >>, init(wire, bl))
  /\ lcd' = [lcd EXCEPT !.busy = FALSE]
  /\ trusted' = FALSE

Trusts == trusted' = (trusted /\ rtn = 0)

Commands(op, arg, flag, cmd, waits) ==
  /\ Calls(op, arg, flag, << >>,
           send_command(wire, cmd, regval.light, waits))
  /\ Trusts
  /\ UNCHANGED lcd

nk_hd44780_display_mode ==
  \E display_on \in BOOLEAN :
    Commands("mode", 0, display_on, DISPLAY + IF display_on THEN 4 ELSE 0,
             FALSE)

nk_hd44780_cls == Commands("cls", 0, FALSE, CLS, TRUE)

nk_hd44780_home == Commands("home", 0, FALSE, HOME, CarefulHome)

nk_hd44780_pos ==
  \E position \in 0 .. Cells - 1 :
    Commands("pos", position, FALSE, DDRAM + position, FALSE)

nk_hd44780_write ==
  \E data \in Texts :
    /\ Calls("write", 0, FALSE, data, send_data(wire, data, regval.light))
    /\ Trusts
    /\ UNCHANGED lcd

(* without a pulse *)
nk_lcd8574_backlight ==
  \E bl \in BOOLEAN :
    /\ wire = "lcd8574"
    /\ Calls("backlight", 0, bl, << >>,
             << BusWrite(FALSE, Reg(regval.rs, regval.value, bl), FALSE) >>)
    /\ Trusts
    /\ UNCHANGED lcd

-----------------------------------------------------------------------------
(* The next write of the call *)

Expander(w) ==
  [e |-> w.e, rs |-> w.rs, value |-> w.value, light |-> w.light]

(* what the write does to the display.  If E falls together with a change   *)
(* of the other pins, either of their values may be latched                 *)
Effect(w) ==
  IF wire = "aip31068"
  THEN {IF lcd.busy THEN lcd ELSE Executed(lcd, w.rs, w.value)}
  ELSE IF pins.e /\ ~w.e
  THEN {Latched(lcd, r.rs, r.value) : r \in {Expander(w), pins}}
  ELSE {lcd}

Waited(w, c) == IF w.waits THEN [c EXCEPT !.busy = FALSE] ELSE c

pcf8574_write(w) ==
  \/ /\ \E c \in Effect(w) : lcd' = Waited(w, c)
     /\ pins' = IF wire = "lcd8574" THEN Expander(w) ELSE pins
     /\ \/ UNCHANGED << rtn, lcdfaults >>
        \/ rtn' = 1 /\ lcdfaults' = lcdfaults + 1
  \/ /\ lcd' = Waited(w, lcd)
     /\ rtn' = 1 /\ lcdfaults' = lcdfaults + 1
     /\ UNCHANGED pins

BusWrites ==
  /\ todo # << >>
  /\ pcf8574_write(Head(todo))
  /\ lcdfaults' <= MaxLcdFaults
  /\ todo' = Tail(todo)
  /\ regval' = IF wire = "lcd8574"
               THEN [Expander(Head(todo)) EXCEPT !.e = FALSE] ELSE regval
  /\ trusted' = (trusted \/ (asked.op = "init" /\ Len(todo) = 1))
  /\ UNCHANGED << wire, asked >>

LcdReady ==
  /\ lcd.busy
  /\ lcd' = [lcd EXCEPT !.busy = FALSE]
  /\ UNCHANGED << wire, pins, regval, todo, asked, rtn, trusted, lcdfaults >>

(* of the processor *)
LcdReset ==
  /\ lcdfaults < MaxLcdFaults
  /\ todo' = << >> /\ asked' = NoCall
  /\ rtn' = 0 /\ trusted' = FALSE
  /\ regval' = Low
  /\ lcdfaults' = lcdfaults + 1
  /\ UNCHANGED << wire, lcd, pins >>

LcdNext ==
  \/ LcdStart
  \/ nk_hd44780_display_mode
  \/ nk_hd44780_cls
  \/ nk_hd44780_home
  \/ nk_hd44780_pos
  \/ nk_hd44780_write
  \/ nk_lcd8574_backlight
  \/ BusWrites
  \/ LcdReady
  \/ LcdReset

LcdSpec == LcdInit /\ [][LcdNext]_lcdvars

-----------------------------------------------------------------------------
(* Properties *)

(***************************************************************************)
(* A display that has been initialised shows what the calls since then     *)
(* have asked for, character by character, as long as each has returned    *)
(* success; and an initialisation that returns success brings it there     *)
(* from whatever state a failed write or a reset has left it in: between   *)
(* the halves of a byte, in either mode, or with the enable line high.     *)
(***************************************************************************)
Known == trusted /\ rtn = 0

WritesPerCharacter == IF wire = "lcd8574" THEN 4 ELSE 1

Unwritten ==
  LET n == (Len(todo) + WritesPerCharacter - 1) \div WritesPerCharacter
  IN  IF asked.op = "write"
      THEN SubSeq(asked.data, Len(asked.data) - n + 1, Len(asked.data))
      ELSE << >>

Shown == INSTANCE NkScreen WITH
  Blank <- BlankCell, known <- Known,
  text <- IF Known THEN lcd.text ELSE BlankCells,
  addr <- IF Known THEN lcd.addr ELSE 0,
  on <- Known /\ lcd.on,
  light <- Known /\ pins.light,
  pending <- IF todo = << >> THEN NoCall
             ELSE [asked EXCEPT !.data = Unwritten],
  faults <- lcdfaults

ImplementsScreen == Shown!Spec
=============================================================================
