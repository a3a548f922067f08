----------------------------- MODULE NkTransfer -----------------------------
(***************************************************************************)
(* What a file transfer promises to the receiver's file: it is written     *)
(* front to back, and closed only when it is complete.                     *)
(***************************************************************************)
EXTENDS Integers, Sequences

CONSTANTS FileSize, BlockSize

VARIABLES
  padded,      \* the size of the file is not transferred
  file, received

(* the first n units; padding may follow the last one *)
Prefix(n) == [i \in 1 .. n |-> IF i <= FileSize THEN i ELSE 0]

Init == file = "none" /\ received = << >> /\ padded \in BOOLEAN

Open ==
  /\ file = "none"
  /\ file' = "open"
  /\ received' \in {<< >>, Prefix(BlockSize)}

WriteBlock ==
  /\ file = "open"
  /\ \E n \in 1 .. BlockSize :
       /\ padded \/ Len(received) + n <= FileSize
       /\ received' = Prefix(Len(received) + n)
  /\ UNCHANGED file

Close ==
  /\ file = "open"
  /\ Len(received) >= FileSize
  /\ file' = "closed"
  /\ UNCHANGED received

Cancel ==
  /\ file = "open"
  /\ file' = "canceled"
  /\ UNCHANGED received

Next == (Open \/ WriteBlock \/ Close \/ Cancel) /\ UNCHANGED padded

Spec == Init /\ [][Next]_<< padded, file, received >>
=============================================================================
