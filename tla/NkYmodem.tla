------------------------------ MODULE NkYmodem -----------------------------
(***************************************************************************)
(* A YMODEM or XMODEM transfer: the sender and the receiver of             *)
(* src/nkymodem.c on a serial line, and a user who types Ctrl-X at the     *)
(* sender's end.                                                           *)
(***************************************************************************)
EXTENDS NkYsend, NkYrecv

CONSTANT MaxCans    \* bound: Ctrl-X typed by the user

ASSUME NkYmodemConstantsOK == MaxCans \in Nat

VARIABLE cans       \* Ctrl-X that the user may still type

vars == << line, sender, recver, cans >>

TypeOK == LineTypeOK /\ SendTypeOK /\ RecvTypeOK /\ cans \in 0 .. MaxCans

Init ==
  /\ toRecv = << >> /\ toSend = << "C" >> /\ lineFaults = MaxFaults
  /\ SendInit
  /\ RecvInit
  /\ cans = MaxCans

TypesCtrlX ==
  /\ cans > 0
  /\ cans' = cans - 1
  /\ Len(toRecv) < MaxFlight
  /\ toRecv' = Append(toRecv, Char("CAN"))
  /\ UNCHANGED << toSend, lineFaults, sender, recver >>

(* when an end has finished, its command line reads what still comes *)
CliReads ==
  \/ /\ sendStatus # "MORE" /\ toSend # << >>
     /\ toSend' = Tail(toSend)
     /\ UNCHANGED << toRecv, lineFaults, sender, recver, cans >>
  \/ /\ recvStatus # "MORE" /\ toRecv # << >>
     /\ toRecv' = Tail(toRecv)
     /\ UNCHANGED << toSend, lineFaults, sender, recver, cans >>

ysend == SendTask /\ UNCHANGED << recver, cans >>
yrecv == Message /\ UNCHANGED << sender, cans >>
yrecv_timeout == Timeout /\ UNCHANGED << sender, cans >>
LineFault == Fault /\ UNCHANGED << sender, recver, cans >>

Next ==
  \/ ysend
  \/ yrecv
  \/ yrecv_timeout
  \/ LineFault
  \/ TypesCtrlX
  \/ CliReads

Spec == Init /\ [][Next]_vars

(* each end reads what the line brings it; the timeout is a scheduled task *)
FairSpec ==
  /\ Spec
  /\ WF_vars(ysend)
  /\ WF_vars(yrecv)
  /\ WF_vars(yrecv_timeout)
  /\ WF_vars(CliReads)

-----------------------------------------------------------------------------
(* Properties *)

(***************************************************************************)
(* The receiver never writes a block twice, out of order, cut short in the *)
(* middle, or over the size of the file, although blocks and answers are   *)
(* lost, repeated and late.  (Fewer answers are late at a time, MaxFlight, *)
(* than there are sequence numbers.)                                       *)
(***************************************************************************)
ReceivedInOrder ==
  /\ Len(received) <= FileSize \/ xmodem
  /\ received = [i \in 1 .. Len(received) |-> IF i <= FileSize THEN i ELSE Pad]

(***************************************************************************)
(* open, close and cancel are paired: when the receiver gives the console  *)
(* back, it has closed or canceled what it opened, whatever ended the      *)
(* transfer.                                                               *)
(***************************************************************************)
NotLeftOpen == recvStatus # "MORE" => file # "open"

(***************************************************************************)
(* "ymodem_recv_file_close is called after all data has been received"     *)
(* (doc/nkymodem.md).                                                      *)
(***************************************************************************)
ClosedWhenComplete == file = "closed" => Len(received) >= FileSize

(***************************************************************************)
(* The two ends agree: a sender that reports "Transfer complete" leaves a  *)
(* receiver that has closed its file.                                      *)
(***************************************************************************)
SenderDoneMeansClosed == sendStatus = "DONE" => file = "closed"

(***************************************************************************)
(* As long as answers come within the timeout, the receiver's file is      *)
(* written in order and closed when it is complete, whatever is lost.      *)
(***************************************************************************)
Transfer == INSTANCE NkTransfer WITH padded <- ~ymodem_send

ImplementsTransfer == Transfer!Spec

(***************************************************************************)
(* The line may lose and damage anything: as long as answers come in time, *)
(* timeouts and purges bring the file over.  The receiver ends without the *)
(* file only if the user has typed Ctrl-X twice or the file could not be   *)
(* opened.                                                                 *)
(***************************************************************************)
UserCancels == recvStatus = "REMOTE_CANCEL" /\ MaxCans - cans >= 2

FileComesOver ==
  <>(file = "closed" \/ UserCancels \/ recvStatus = "OPEN_CANCEL")
=============================================================================
