------------------------------- MODULE NkTape -------------------------------
(***************************************************************************)
(* What the file abstractions of libnklabs promise together: characters    *)
(* are appended to a file; flushing it pads it to the write granularity;   *)
(* once closed it can be read at a position that moves from 0 to its size. *)
(* There are no blocks and no buffers.  The character put at position n,   *)
(* counted from 1, is n: a padding character may be anything.              *)
(*                                                                         *)
(* A fault of the device is reported by the call that meets it.  It spoils *)
(* characters of the file and moves none; a read gives no wrong character  *)
(* because of it, but the end of the file.  A file in memory has no        *)
(* faults, and reports when more is put than it has room for.              *)
(***************************************************************************)
EXTENDS Integers, Sequences

CONSTANTS Granularity, MemorySize, MaxSize

VARIABLES
  medium,   \* "blocks", "direct" or "memory"
  contents, \* the file
  failed,   \* a call that writes has returned an error
  mode,     \* "write" or "read"
  pos,      \* where it is read
  lost,     \* what is at pos could not be read
  c,        \* what the last call that reads has returned, Eof at the end
  faults    \* of the device

vars == << medium, contents, failed, mode, pos, lost, c, faults >>

Eof == -1
Spoiled == 0
Size == Len(contents)
At(n) == IF n < Size THEN contents[n + 1] ELSE Eof

Open ==
  /\ contents = << >>
  /\ failed = FALSE
  /\ mode = "write"
  /\ pos = 0 /\ lost = FALSE /\ c = Eof
  /\ faults = 0

Init == medium \in {"blocks", "direct", "memory"} /\ Open

-----------------------------------------------------------------------------
(* Writing *)

FaultOfDevice == medium # "memory" /\ faults' = faults + 1

NewSize(n) ==
  LET unit == IF medium = "blocks" THEN Granularity ELSE 1
  IN  ((Size + n + unit - 1) \div unit) * unit

(* the first size characters are right, or some of them are spoiled *)
Keeps(size, spoils) ==
  \A i \in 1 .. size :
    \/ contents'[i] = IF i <= Size THEN contents[i] ELSE i
    \/ spoils /\ contents'[i] = Spoiled

Put(n) ==
  /\ mode = "write"
  /\ \/ /\ medium = "memory" => Size + n <= MemorySize
        /\ contents' = contents \o [i \in 1 .. n |-> Size + i]
        /\ UNCHANGED << failed, faults >>
     \/ /\ FaultOfDevice
        /\ Len(contents') = Size + n /\ Keeps(Size + n, TRUE)
        /\ failed' = TRUE
     \/ /\ medium = "memory" /\ Size + n > MemorySize
        /\ failed' = TRUE
        /\ UNCHANGED faults
  /\ UNCHANGED << medium, mode, pos, lost, c >>

Padded(spoils) == Len(contents') = NewSize(0) /\ Keeps(Size, spoils)

Flushed ==
  \/ Padded(FALSE) /\ UNCHANGED << failed, faults >>
  \/ FaultOfDevice /\ Padded(TRUE) /\ failed' = TRUE

(* a file in memory has nowhere to be flushed to *)
Flush ==
  /\ mode = "write"
  /\ \/ medium # "memory" /\ Flushed
     \/ medium = "memory" /\ failed' = TRUE /\ UNCHANGED faults
  /\ UNCHANGED << medium, mode, pos, lost, c >>

(* the fault may be in writing the last of it, or in reading the first *)
CloseAndOpen ==
  /\ mode = "write"
  /\ mode' = "read"
  /\ pos' = 0
  /\ \/ Flushed /\ ~lost'
     \/ FaultOfDevice /\ Padded(FALSE) /\ UNCHANGED failed /\ lost'
  /\ UNCHANGED << medium, c >>

-----------------------------------------------------------------------------
(* Reading *)

(* a call that returns the character at r and moves to p; when it meets a   *)
(* fault it may return the end of the file, or stop before p               *)
Reads(r, p) ==
  /\ mode = "read"
  /\ \/ /\ c' = At(r)
        /\ pos' = p
        /\ ~lost'
        /\ UNCHANGED faults
     \/ /\ FaultOfDevice
        /\ c' \in {At(r), Eof}
        /\ pos' \in 0 .. p
  /\ UNCHANGED << medium, contents, failed, mode >>

Following == IF pos < Size THEN pos + 1 ELSE pos

Seek(n) == Reads(n, n)
Peek(n) == Reads(n, pos)
NextChar == ~lost /\ Reads(Following, Following)
Getc == ~lost /\ Reads(pos, Following)

(* only a seek or a peek looks again *)
Stuck ==
  /\ mode = "read" /\ lost
  /\ c' = Eof
  /\ UNCHANGED << medium, contents, failed, mode, pos, lost, faults >>

Rewrite == Open' /\ UNCHANGED medium

Next ==
  \/ \E n \in 0 .. MaxSize : Put(n)
  \/ Flush
  \/ CloseAndOpen
  \/ \E n \in 0 .. Size : Seek(n) \/ Peek(n)
  \/ NextChar
  \/ Getc
  \/ Stuck
  \/ Rewrite

Spec == Init /\ [][Next]_vars
=============================================================================
