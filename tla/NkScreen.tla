------------------------------ MODULE NkScreen ------------------------------
(***************************************************************************)
(* What the character displays of libnklabs promise: from a successful     *)
(* initialisation on, as long as no call has failed and the program has    *)
(* not been reset, the screen shows what the calls ask for.  It has no     *)
(* nibbles and no bus.  After a failure or a reset nothing is known of it  *)
(* until the next initialisation, whatever state it was left in.           *)
(***************************************************************************)
EXTENDS Integers, Sequences

CONSTANTS Cells, Blank

VARIABLES
  known,   \* initialised, and no failure since then
  text,    \* what the cells show
  addr,    \* the cell that the next character goes to
  on,      \* the display is not blanked
  light,   \* the backlight is on
  pending, \* the call that runs, and the characters it has yet to write
  faults   \* failures and resets so far

vars == << known, text, addr, on, light, pending, faults >>

Idle == [op |-> "idle", arg |-> 0, flag |-> FALSE, data |-> << >>]
Empty == [cell \in 0 .. Cells - 1 |-> Blank]
Screen == << text, addr, on, light >>

Init ==
  /\ known = FALSE
  /\ text = Empty /\ addr = 0 /\ on = FALSE /\ light = FALSE
  /\ pending = Idle
  /\ faults = 0

-----------------------------------------------------------------------------
Calls ==
  /\ pending = Idle /\ pending' # Idle
  /\ IF pending'.op = "init" THEN ~known'
     ELSE UNCHANGED << known, Screen >>
  /\ UNCHANGED faults

Initialised ==
  /\ pending.op = "init"
  /\ known' = TRUE
  /\ text' = Empty /\ addr' = 0 /\ on' = TRUE /\ light' = pending.flag

Clears ==
  /\ pending.op = "cls"
  /\ text' = Empty /\ addr' = 0
  /\ UNCHANGED << known, on, light >>

Moves ==
  /\ pending.op \in {"home", "pos"}
  /\ addr' = pending.arg
  /\ UNCHANGED << known, text, on, light >>

Switches ==
  /\ \/ pending.op = "mode" /\ on' = pending.flag /\ UNCHANGED light
     \/ pending.op = "backlight" /\ light' = pending.flag /\ UNCHANGED on
  /\ UNCHANGED << known, text, addr >>

Puts ==
  /\ pending.op = "write"
  /\ text' = [text EXCEPT ![addr] = Head(pending.data)]
  /\ addr' = (addr + 1) % Cells
  /\ UNCHANGED << known, on, light >>

Left(data) ==
  IF data = << >> THEN Idle ELSE [pending EXCEPT !.data = data]

Works ==
  /\ known \/ pending.op = "init"
  /\ \/ /\ Initialised \/ Clears \/ Moves \/ Switches
        /\ pending' = Idle
     \/ Puts /\ pending' = Left(Tail(pending.data))
  /\ UNCHANGED faults

(* a bus write that fails, or a reset *)
Fails == ~known' /\ faults' = faults + 1

Unknown == ~known /\ ~known' /\ UNCHANGED faults

Next == Calls \/ Works \/ Fails \/ Unknown

Spec == Init /\ [][Next]_vars
=============================================================================
