------------------------------ MODULE NkYsend ------------------------------
(***************************************************************************)
(* The sending end of src/nkymodem.c: nk_ysend_file and the UART callback  *)
(* ymodem_send_task, which answers each character it reads.                *)
(***************************************************************************)
EXTENDS NkYline

VARIABLES
  ymodem_send,  \* NK_YM_YMODEM_SEND is defined; FALSE: XMODEM send
  send_eot, send_fin, send_hdr, send_seq,   \* ymodem_send_eot, ...
  packet,       \* packet_buf: the packet to send or to send again
  pos,          \* blocks that were read from the file
  sendStatus    \* "MORE", "DONE" or "CANCEL"

sender == << ymodem_send, send_eot, send_fin, send_hdr, send_seq, packet, pos, sendStatus >>

SendTypeOK ==
  /\ send_eot \in BOOLEAN /\ send_fin \in BOOLEAN /\ send_hdr \in BOOLEAN
  /\ send_seq \in Seqno
  /\ packet \in Packet
  /\ pos \in Nat
  /\ sendStatus \in {"MORE", "DONE", "CANCEL"}

SOH(s, block) == [kind |-> "SOH", seq |-> s, data |-> block]

(* nk_ysend_file *)
SendInit ==
  /\ ymodem_send \in BOOLEAN
  /\ send_fin = FALSE
  /\ send_hdr = ymodem_send
  /\ send_eot = (~ymodem_send /\ FileSize = 0)
  /\ send_seq = IF ymodem_send THEN 0 ELSE 1
  /\ packet = IF ymodem_send THEN SOH(0, HeaderBlock) ELSE SOH(1, DataBlock(0))
  /\ pos = IF ymodem_send \/ FileSize = 0 THEN 0 ELSE 1
  /\ sendStatus = "MORE"

EndOfFile == pos * BlockSize >= FileSize

Reads(c) ==
  /\ sendStatus = "MORE"
  /\ toSend # << >>
  /\ Head(toSend) = c
  /\ toSend' = Tail(toSend)
  /\ UNCHANGED lineFaults

Sends(m) == toRecv' = Append(toRecv, m)
SendsNothing == UNCHANGED toRecv

(* mutant: C only asks for what follows a header *)
SendAgainForNak ==
  /\ Reads("NAK") \/ (Reads("C") /\ send_hdr)
  /\ Sends(IF send_eot THEN Char("EOT") ELSE packet)
  /\ UNCHANGED sender

SendAgain ==
  /\ Reads("C") \/ Reads("NAK")
  /\ Sends(IF send_eot THEN Char("EOT") ELSE packet)
  /\ UNCHANGED sender

AckOfEot ==
  /\ Reads("ACK")
  /\ send_eot
  /\ SendsNothing
  /\ send_eot' = FALSE
  /\ \/ /\ ymodem_send
        /\ send_seq' = 0
        /\ packet' = SOH(0, NulBlock)
        /\ send_fin' = TRUE
        /\ send_hdr' = TRUE
        /\ UNCHANGED sendStatus
     \/ /\ ~ymodem_send
        /\ sendStatus' = "DONE"
        /\ UNCHANGED << send_seq, packet, send_fin, send_hdr >>
  /\ UNCHANGED pos

AckOfFin ==
  /\ Reads("ACK")
  /\ ~send_eot /\ send_fin
  /\ SendsNothing
  /\ sendStatus' = "DONE"
  /\ UNCHANGED << send_eot, send_fin, send_hdr, send_seq, packet, pos >>

(* mutant: the transfer ends with the last block, without an EOT *)
AckOfBlockWithoutEot ==
  /\ Reads("ACK")
  /\ ~send_eot /\ ~send_fin
  /\ send_seq' = NextSeq(send_seq)
  /\ send_hdr' = FALSE
  /\ \/ /\ ~EndOfFile
        /\ packet' = SOH(send_seq', DataBlock(pos))
        /\ pos' = pos + 1
        /\ IF send_hdr THEN SendsNothing ELSE Sends(packet')
        /\ UNCHANGED sendStatus
     \/ /\ EndOfFile
        /\ sendStatus' = "DONE"
        /\ SendsNothing
        /\ UNCHANGED << packet, pos >>
  /\ UNCHANGED << send_eot, send_fin >>

(* after the header the receiver will ask with C, whatever comes next *)
AckOfBlock ==
  /\ Reads("ACK")
  /\ ~send_eot /\ ~send_fin
  /\ send_seq' = NextSeq(send_seq)
  /\ send_hdr' = FALSE
  /\ \/ /\ ~EndOfFile
        /\ packet' = SOH(send_seq', DataBlock(pos))
        /\ pos' = pos + 1
        /\ IF send_hdr THEN SendsNothing ELSE Sends(packet')
        /\ UNCHANGED send_eot
     \/ /\ EndOfFile
        /\ send_eot' = TRUE
        /\ IF send_hdr THEN SendsNothing ELSE Sends(Char("EOT"))
        /\ UNCHANGED << packet, pos >>
  /\ UNCHANGED << send_fin, sendStatus >>

Canceled ==
  /\ Reads("CAN")
  /\ SendsNothing
  /\ sendStatus' = "CANCEL"
  /\ UNCHANGED << send_eot, send_fin, send_hdr, send_seq, packet, pos >>

SendTask ==
  /\ SendAgain \/ AckOfEot \/ AckOfFin \/ AckOfBlock \/ Canceled
  /\ UNCHANGED ymodem_send
=============================================================================
