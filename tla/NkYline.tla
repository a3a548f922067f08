------------------------------ MODULE NkYline ------------------------------
(***************************************************************************)
(* What the two ends of a YMODEM transfer (src/nkymodem.c) share: the file, *)
(* the packets and the serial line, which loses and damages what it        *)
(* carries but does not reorder it.  Contents are counted in units: unit n *)
(* of the file is the number n, Pad is a NUL that fills up a block and     *)
(* NameUnit any other character of a file name.                            *)
(***************************************************************************)
EXTENDS Integers, Sequences

CONSTANTS
  FileSize,    \* units of the file
  BlockSize,   \* units of a packet: 128 characters
  SeqMod,      \* number of sequence numbers, 256: a uint8_t
  MaxFaults,   \* bound: messages that the line loses or damages
  DataHasEot   \* the data holds characters that read as EOT

ASSUME LineConstantsOK ==
  /\ FileSize \in Nat
  /\ BlockSize \in Nat \ {0}
  /\ SeqMod \in Nat /\ SeqMod >= 2
  /\ DataHasEot \in BOOLEAN
  /\ MaxFaults \in Nat

VARIABLES
  toRecv,      \* messages on their way to the receiver
  toSend,      \* characters on their way to the sender
  lineFaults

line == << toRecv, toSend, lineFaults >>

Pad == 0
NameUnit == FileSize + 1
Block == [1 .. BlockSize -> 0 .. NameUnit]

Seqno == 0 .. SeqMod - 1
(* mutant: a sequence number wider than its character *)
NextSeqUnwrapped(s) == s + 1

NextSeq(s) == (s + 1) % SeqMod

(* "SOH" is a packet with a good CRC, "junk" one with a bad CRC *)
Packet == [kind : {"SOH"}, seq : Seqno, data : Block]
Char(k) == [kind |-> k, seq |-> 0, data |-> [i \in 1 .. BlockSize |-> Pad]]
ToRecv == Packet \cup {Char(k) : k \in {"EOT", "CAN", "junk"}}
ToSend == {"C", "NAK", "ACK", "CAN"}

HeaderBlock == [i \in 1 .. BlockSize |-> NameUnit]
NulBlock == [i \in 1 .. BlockSize |-> Pad]

(* the n-th block of the file, from 0 *)
DataBlock(n) ==
  [i \in 1 .. BlockSize |->
     IF n * BlockSize + i <= FileSize THEN n * BlockSize + i ELSE Pad]

LineTypeOK ==
  /\ toRecv \in Seq(ToRecv)
  /\ toSend \in Seq(ToSend)
  /\ lineFaults \in 0 .. MaxFaults

(***************************************************************************)
(* The next message is lost or damaged.  A packet that loses its first     *)
(* character is read as the control characters that its data happens to    *)
(* hold.  To the sender a damaged character is as good as none.            *)
(***************************************************************************)
Fault ==
  /\ lineFaults > 0
  /\ lineFaults' = lineFaults - 1
  /\ \/ /\ toRecv # << >>
        /\ \E left \in {<< >>} \cup
             (IF Head(toRecv).kind = "SOH"
              THEN {<< Char("junk") >>} \cup
                   (IF DataHasEot THEN {<< Char("EOT"), Char("EOT") >>} ELSE {})
              ELSE {}) :
             toRecv' = left \o Tail(toRecv)
        /\ UNCHANGED toSend
     \/ /\ toSend # << >>
        /\ toSend' = Tail(toSend)
        /\ UNCHANGED toRecv
=============================================================================
