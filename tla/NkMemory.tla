------------------------------ MODULE NkMemory ------------------------------
(***************************************************************************)
(* A memory as its caller sees it: calls that write, erase or read any     *)
(* range of addresses, whatever pages and sectors the chip has.  A call    *)
(* that returns success has done all it was asked to; one that fails has   *)
(* done it from the first address up to some other.  A call that is not    *)
(* sure to find the device ready may leave out any of it.                  *)
(***************************************************************************)
EXTENDS Integers, Sequences

CONSTANTS
  Size,            \* addresses are 0 .. Size - 1
  Byte,
  Erased,          \* the byte that erasing leaves
  Program(_, _)    \* what a byte becomes when another is written to it

VARIABLES
  mem,
  call,            \* [op, addr, data], or NoCall
  result,          \* [ok, data] of the last call, until the next one
  sure,            \* the device is known to be ready for the call
  trusted          \* the bus has not reported a fault

vars == << mem, call, result, sure, trusted >>

NoCall == [op |-> "none", addr |-> 0, data |-> << >>]
Result(ok, data) == [ok |-> ok, data |-> data]

Init ==
  /\ mem \in [0 .. Size - 1 -> Byte]
  /\ call = NoCall
  /\ result = Result(TRUE, << >>)
  /\ sure \in BOOLEAN
  /\ trusted = TRUE

(* data is what to write; for a read or an erase only its length counts *)
Begin ==
  /\ call = NoCall
  /\ call'.op \in {"write", "erase", "read"}
  /\ call'.addr \in 0 .. Size - 1
  /\ call'.addr + Len(call'.data) <= Size
  /\ result' = Result(TRUE, << >>)
  /\ UNCHANGED << mem, trusted >>

(* the contents when the first k bytes of the call are done *)
Done(k) ==
  [i \in 0 .. Size - 1 |->
     IF call.op # "read" /\ i \in call.addr .. call.addr + k - 1
       THEN IF call.op = "erase" THEN Erased
            ELSE Program(mem[i], call.data[i - call.addr + 1])
       ELSE mem[i]]

Advance ==
  /\ call # NoCall /\ sure
  /\ \E k \in 0 .. Len(call.data) : mem' = Done(k)
  /\ UNCHANGED << call, result, sure, trusted >>

Contents == [k \in 1 .. Len(call.data) |-> mem[call.addr + k - 1]]

Succeed ==
  /\ call # NoCall /\ sure
  /\ mem' = Done(Len(call.data))
  /\ call' = NoCall
  /\ result' = Result(TRUE, IF call.op = "read" THEN Contents ELSE << >>)
  /\ UNCHANGED trusted

Fail ==
  /\ call # NoCall /\ sure
  /\ \E k \in 0 .. Len(call.data) : mem' = Done(k)
  /\ call' = NoCall
  /\ result' = Result(FALSE, << >>)
  /\ UNCHANGED trusted

(* whatever it returns, it has done nothing else *)
Unsure ==
  /\ call # NoCall /\ ~sure
  /\ mem' \in [0 .. Size - 1 -> Byte]
  /\ \A i \in 0 .. Size - 1 : mem'[i] \in {mem[i], Done(Len(call.data))[i]}
  /\ UNCHANGED << call, result, sure >> \/ call' = NoCall
  /\ UNCHANGED trusted

(* between calls it becomes known, or unknown, whether the device is ready *)
Settle ==
  /\ call = NoCall
  /\ UNCHANGED << mem, call, result, trusted >>

(* after a fault of the bus nothing is promised any more *)
Fault == trusted' = FALSE

Next ==
  IF trusted
    THEN /\ Begin \/ Advance \/ Succeed \/ Fail \/ Unsure \/ Settle \/ Fault
         /\ sure' \in BOOLEAN
    ELSE TRUE

Spec == Init /\ [][Next]_vars

=============================================================================
