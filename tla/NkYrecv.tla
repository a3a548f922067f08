------------------------------ MODULE NkYrecv ------------------------------
(***************************************************************************)
(* The receiving end of src/nkymodem.c: nk_yrecv, the UART callback        *)
(* ymodem_recv_task that collects packets, its timeout, and ymodem_rcv     *)
(* that handles them.                                                      *)
(***************************************************************************)
EXTENDS NkYline

CONSTANTS
  OpenResults, \* TRUE: open() succeeds, FALSE: it fails
  StartTimeout,\* NK_YM_TIMEOUT
  Late,        \* an answer may take longer than the timeout of one second
  MaxFlight    \* bound: messages on the line when a timeout adds one

ASSUME RecvConstantsOK ==
  /\ OpenResults \subseteq BOOLEAN /\ OpenResults # {}
  /\ StartTimeout \in Nat /\ MaxFlight \in Nat
  /\ Late \in BOOLEAN

VARIABLES
  opened, got_eot, purge, first, can, to, xmodem, old_seq, seq,  \* ymodem_...
  file_size,     \* ymodem_file_size: what is still to come, or Unknown
  recvStatus,
  file,          \* what open, close and cancel have been called for
  received       \* what write was called with since open

settings == << opened, got_eot, purge, first, can, to, xmodem >>
recver == << settings, old_seq, seq, file_size, recvStatus, file, received >>

Unknown == -1

RecvTypeOK ==
  /\ {opened, got_eot, purge, first, can, xmodem} \subseteq BOOLEAN
  /\ to \in 0 .. StartTimeout
  /\ old_seq \in Seqno /\ seq \in Seqno
  /\ file_size \in 0 .. FileSize \cup {Unknown}
  /\ recvStatus \in {"MORE", "DONE", "REMOTE_CANCEL", "OPEN_CANCEL",
                     "SYNC_CANCEL"}
  /\ file \in {"none", "open", "closed", "canceled"}
  /\ received \in Seq(0 .. NameUnit)

(* nk_yrecv has called ymodem_recv_init, which sends a C *)
RecvInit ==
  /\ opened = FALSE /\ got_eot = FALSE /\ purge = FALSE /\ first = FALSE
  /\ can = FALSE /\ xmodem = FALSE
  /\ to = StartTimeout
  /\ old_seq = 0 /\ seq = 0
  /\ file_size = 0
  /\ recvStatus = "MORE"
  /\ file = "none"
  /\ received = << >>

Answers(cs) == toSend' = toSend \o cs
Silent == UNCHANGED toSend

ymodem_recv_init(timeout) ==
  /\ opened' = FALSE /\ got_eot' = FALSE /\ purge' = FALSE /\ first' = FALSE
  /\ can' = FALSE /\ xmodem' = FALSE
  /\ to' = timeout
  /\ seq' = 0

-----------------------------------------------------------------------------
(* The file *)

FileUnchanged == UNCHANGED << file_size, file, received >>

Open(size) ==
  /\ file' = "open"
  /\ received' = << >>
  /\ file_size' = size

(* mutant: the file is not cut to the size that the header gives *)
WrittenUntrimmed(size, data) == << data, size >>

(* what is written of a block, and what is still to come after it *)
Written(size, data) ==
  IF size = Unknown \/ size >= BlockSize
  THEN << data, IF size = Unknown THEN size ELSE size - BlockSize >>
  ELSE << SubSeq(data, 1, size), 0 >>

Write(size, data) ==
  LET w == Written(size, data)
  IN  /\ received' = (IF opened THEN received ELSE << >>) \o w[1]
      /\ file_size' = w[2]

Close(result) ==
  /\ file' = result
  /\ UNCHANGED << file_size, received >>

-----------------------------------------------------------------------------
(* ymodem_rcv before a file is open *)

Ends(status) == recvStatus' = status
GoesOn == UNCHANGED recvStatus

Purges ==
  /\ Silent
  /\ purge' = TRUE
  /\ can' = FALSE
  /\ GoesOn /\ FileUnchanged
  /\ UNCHANGED << opened, first, xmodem, old_seq, seq >>

WaitingTimeout ==
  /\ GoesOn /\ FileUnchanged
  /\ UNCHANGED old_seq
  /\ \/ /\ to > 0
        /\ Silent
        /\ to' = to - 1
        /\ UNCHANGED << opened, got_eot, purge, first, can, xmodem, seq >>
     \/ /\ to = 0
        /\ Answers(<< "C" >>)
        /\ ymodem_recv_init(StartTimeout)

WaitingCan ==
  /\ Silent
  /\ \/ /\ can
        /\ Ends("REMOTE_CANCEL")
        /\ UNCHANGED << can, to >>
     \/ /\ ~can
        /\ can' = TRUE
        /\ to' = StartTimeout
        /\ GoesOn
  /\ FileUnchanged
  /\ UNCHANGED << opened, got_eot, purge, first, xmodem, old_seq, seq >>

NoMoreFiles ==
  /\ Answers(<< "ACK" >>)
  /\ Ends("DONE")
  /\ can' = FALSE /\ to' = 0
  /\ FileUnchanged
  /\ UNCHANGED << opened, got_eot, purge, first, xmodem, old_seq, seq >>

HeaderArrives ==
  /\ can' = FALSE /\ to' = 0
  /\ \/ /\ TRUE \in OpenResults
        /\ Open(FileSize)
        /\ Answers(<< "ACK" >>)
        /\ old_seq' = 0 /\ seq' = 1
        /\ opened' = TRUE /\ first' = TRUE
        /\ GoesOn
     \/ /\ FALSE \in OpenResults
        /\ file_size' = FileSize
        /\ Answers(<< "CAN", "CAN" >>)
        /\ Ends("OPEN_CANCEL")
        /\ UNCHANGED << old_seq, seq, opened, first, file, received >>
  /\ UNCHANGED << got_eot, purge, xmodem >>

(* an XMODEM transfer has no header: the file starts with packet 1 *)
AnonymousArrives(data) ==
  /\ can' = FALSE /\ to' = 0
  /\ \/ /\ TRUE \in OpenResults
        /\ file' = "open"
        /\ Write(Unknown, data)
        /\ Answers(<< "ACK" >>)
        /\ old_seq' = 1 /\ seq' = NextSeq(1)
        /\ opened' = TRUE /\ first' = FALSE /\ xmodem' = TRUE
        /\ GoesOn
     \/ /\ FALSE \in OpenResults
        /\ file_size' = Unknown
        /\ Answers(<< "CAN", "CAN" >>)
        /\ Ends("OPEN_CANCEL")
        /\ UNCHANGED << old_seq, seq, opened, first, xmodem, file, received >>
  /\ UNCHANGED << got_eot, purge >>

Waiting(m) ==
  \/ m.kind = "CAN" /\ WaitingCan
  \/ m.kind = "SOH" /\ m.seq = 0 /\ m.data[1] = Pad /\ NoMoreFiles
  \/ m.kind = "SOH" /\ m.seq = 0 /\ m.data[1] # Pad /\ HeaderArrives
  \/ m.kind = "SOH" /\ m.seq = 1 /\ AnonymousArrives(m.data)
  \/ /\ \/ m.kind \in {"EOT", "junk"}
        \/ m.kind = "SOH" /\ m.seq \notin {0, 1}
     /\ Purges
     /\ to' = 0
     /\ UNCHANGED got_eot

-----------------------------------------------------------------------------
(* ymodem_rcv while a file is open *)

OpenTimeout ==
  /\ Answers(<< IF first THEN "C" ELSE "NAK" >>)
  /\ got_eot' = FALSE /\ can' = FALSE
  /\ GoesOn /\ FileUnchanged
  /\ UNCHANGED << opened, purge, first, to, xmodem, old_seq, seq >>

(* mutant: the file is not canceled *)
OpenCanWithoutCancel ==
  /\ Silent
  /\ got_eot' = FALSE
  /\ can' = TRUE
  /\ IF can THEN Ends("REMOTE_CANCEL") ELSE GoesOn
  /\ FileUnchanged
  /\ UNCHANGED << opened, purge, first, to, xmodem, old_seq, seq >>

OpenCan ==
  /\ Silent
  /\ got_eot' = FALSE
  /\ \/ /\ can
        /\ Close("canceled")
        /\ Ends("REMOTE_CANCEL")
        /\ UNCHANGED can
     \/ /\ ~can
        /\ can' = TRUE
        /\ GoesOn /\ FileUnchanged
  /\ UNCHANGED << opened, purge, first, to, xmodem, old_seq, seq >>

(* mutant: a packet that comes again is written again *)
DataArrivesTwice(m) ==
  /\ got_eot' = FALSE /\ can' = FALSE
  /\ \/ /\ m.seq \in {old_seq, seq}
        /\ Write(file_size, m.data)
        /\ Answers(<< "ACK" >>)
        /\ first' = FALSE
        /\ old_seq' = m.seq /\ seq' = NextSeq(m.seq)
        /\ GoesOn
        /\ UNCHANGED file
     \/ /\ m.seq \notin {old_seq, seq}
        /\ Answers(<< "CAN", "CAN" >>)
        /\ Close("canceled")
        /\ Ends("SYNC_CANCEL")
        /\ UNCHANGED << first, old_seq, seq >>
  /\ UNCHANGED << opened, purge, to, xmodem >>

DataArrives(m) ==
  /\ got_eot' = FALSE /\ can' = FALSE
  /\ \/ /\ m.seq = old_seq
        /\ Answers(<< "ACK" >>)
        /\ GoesOn /\ FileUnchanged
        /\ UNCHANGED << first, old_seq, seq >>
     \/ /\ m.seq \notin {old_seq, seq}
        /\ Answers(<< "CAN", "CAN" >>)
        /\ Close("canceled")
        /\ Ends("SYNC_CANCEL")
        /\ UNCHANGED << first, old_seq, seq >>
     \/ /\ m.seq # old_seq /\ m.seq = seq
        /\ Write(file_size, m.data)
        /\ Answers(<< "ACK" >>)
        /\ first' = FALSE
        /\ old_seq' = seq /\ seq' = NextSeq(seq)
        /\ GoesOn
        /\ UNCHANGED file
  /\ UNCHANGED << opened, purge, to, xmodem >>

(* an EOT must come twice in a YMODEM transfer *)
EotArrives ==
  \/ /\ xmodem
     /\ Close("closed")
     /\ Answers(<< "ACK" >>)
     /\ Ends("DONE")
     /\ can' = FALSE
     /\ UNCHANGED << opened, got_eot, purge, first, to, xmodem, old_seq, seq >>
  \/ /\ ~xmodem /\ got_eot
     /\ Close("closed")
     /\ Answers(<< "ACK", "C" >>)
     /\ ymodem_recv_init(0)
     /\ GoesOn
     /\ UNCHANGED old_seq
  \/ /\ ~xmodem /\ ~got_eot
     /\ Answers(<< "NAK" >>)
     /\ got_eot' = TRUE /\ can' = FALSE
     /\ GoesOn /\ FileUnchanged
     /\ UNCHANGED << opened, purge, first, to, xmodem, old_seq, seq >>

Opened(m) ==
  \/ m.kind = "CAN" /\ OpenCan
  \/ m.kind = "SOH" /\ DataArrives(m)
  \/ m.kind = "EOT" /\ EotArrives
  \/ /\ m.kind = "junk"
     /\ Purges
     /\ got_eot' = FALSE
     /\ UNCHANGED to

-----------------------------------------------------------------------------
(* ymodem_recv_task *)

Message ==
  /\ recvStatus = "MORE"
  /\ toRecv # << >>
  /\ toRecv' = Tail(toRecv)
  /\ IF purge THEN UNCHANGED << toSend, recver >>
     ELSE IF opened THEN Opened(Head(toRecv)) ELSE Waiting(Head(toRecv))
  /\ UNCHANGED lineFaults

(* nothing has come for a second; an answer may be on its way *)
Timeout ==
  /\ recvStatus = "MORE"
  /\ Len(toSend) + Len(toRecv) < MaxFlight
  /\ Late \/ (toSend = << >> /\ toRecv = << >>)
  /\ \/ /\ purge
        /\ Answers(<< "C" >>)
        /\ purge' = FALSE
        /\ GoesOn /\ FileUnchanged
        /\ UNCHANGED << opened, got_eot, first, can, to, xmodem, old_seq, seq >>
     \/ ~purge /\ ~opened /\ WaitingTimeout
     \/ ~purge /\ opened /\ OpenTimeout
  /\ UNCHANGED << toRecv, lineFaults >>

RecvTask == Message \/ Timeout
=============================================================================
