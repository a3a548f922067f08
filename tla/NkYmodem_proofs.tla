-------------------------- MODULE NkYmodem_proofs --------------------------
(***************************************************************************)
(* Proofs about X/YMODEM transfers, for every size of file and block,      *)
(* every number of sequence numbers and any number of lost and damaged     *)
(* messages and typed cancels.                                             *)
(***************************************************************************)
EXTENDS NkYmodem, SequenceTheorems, TLAPS

Lemmas == INSTANCE NkLemmas

-----------------------------------------------------------------------------
(* Types *)

(* A block is a sequence of units. *)
LEMMA FunctionIsSeq ==
  ASSUME NEW S, NEW n \in Nat, NEW f \in [1 .. n -> S]
  PROVE  f \in Seq(S) /\ Len(f) = n
  OBVIOUS

LEMMA BlockProps ==
  /\ HeaderBlock \in Block /\ NulBlock \in Block
  /\ \A n \in Nat : DataBlock(n) \in Block
<1>1. FileSize \in Nat /\ BlockSize \in Nat
  BY LineConstantsOK
<1>2. HeaderBlock \in Block /\ NulBlock \in Block
  BY <1>1 DEF HeaderBlock, NulBlock, Block, NameUnit, Pad
<1>3. ASSUME NEW n \in Nat PROVE DataBlock(n) \in Block
  <2>1. n * BlockSize \in Nat
    BY <1>1, <1>3
  <2> DEFINE p == n * BlockSize
  <2>2. DataBlock(n) =
          [i \in 1 .. BlockSize |-> IF p + i <= FileSize THEN p + i ELSE Pad]
    BY DEF DataBlock
  <2> HIDE DEF p
  <2>3. QED
    BY <1>1, <2>1, <2>2 DEF Block, NameUnit, Pad, p
<1>4. QED
  BY <1>2, <1>3

(* What the ends send. *)
LEMMA MessageProps ==
  /\ \A s \in Seqno, b \in Block :
       /\ SOH(s, b) \in Packet /\ SOH(s, b) \in ToRecv
       /\ SOH(s, b).kind = "SOH" /\ SOH(s, b).seq = s /\ SOH(s, b).data = b
  /\ \A k \in {"EOT", "CAN", "junk"} :
       Char(k) \in ToRecv /\ Char(k).kind = k
  /\ \A m \in ToRecv :
       /\ m.kind \in {"SOH", "EOT", "CAN", "junk"}
       /\ m.kind = "SOH" => m \in Packet /\ m.seq \in Seqno /\ m.data \in Block
  BY DEF SOH, Packet, ToRecv, Char

(* Sequence numbers. *)
LEMMA SeqnoProps ==
  /\ 0 \in Seqno /\ 1 \in Seqno
  /\ \A s \in Seqno : NextSeq(s) \in Seqno
  /\ \A n \in Nat : n % SeqMod \in Seqno
  /\ \A n \in Nat : NextSeq(n % SeqMod) = (n + 1) % SeqMod
  /\ \A n \in Nat : n % SeqMod # (n + 1) % SeqMod
<1>1. SeqMod \in Nat \ {0} /\ SeqMod >= 2
  BY LineConstantsOK
<1>2. 0 \in Seqno /\ 1 \in Seqno
  BY <1>1 DEF Seqno
<1>3. ASSUME NEW s \in Seqno PROVE NextSeq(s) \in Seqno
  <2>1. s + 1 \in Int
    BY <1>1, <1>3 DEF Seqno
  <2>2. QED
    BY <1>1, <2>1, Lemmas!DivMod DEF NextSeq, Seqno
<1>4. ASSUME NEW n \in Nat PROVE n % SeqMod \in Seqno
  BY <1>1, <1>4, Lemmas!DivMod DEF Seqno
<1>5. ASSUME NEW n \in Nat PROVE NextSeq(n % SeqMod) = (n + 1) % SeqMod
  BY <1>1, <1>5, Lemmas!ModStep DEF NextSeq
<1>6. ASSUME NEW n \in Nat PROVE n % SeqMod # (n + 1) % SeqMod
  <2> DEFINE k == n + 1
  <2>1. n \in Nat /\ n < k /\ k - n < SeqMod /\ k \in Nat
    BY <1>1, <1>6
  <2> HIDE DEF k
  <2>2. n % SeqMod # k % SeqMod
    BY ONLY <1>1, <2>1, Lemmas!ModDistinct
  <2>3. QED
    BY <2>2 DEF k
<1>7. QED
  BY <1>2, <1>3, <1>4, <1>5, <1>6

(* What is written of a block, and what is left to write. *)
LEMMA WrittenProps ==
  ASSUME NEW size \in 0 .. FileSize \cup {Unknown}, NEW data \in Block
  PROVE  /\ Written(size, data)[1] \in Seq(0 .. NameUnit)
         /\ Written(size, data)[2] \in 0 .. FileSize \cup {Unknown}
         /\ Len(Written(size, data)[1]) =
              IF size = Unknown \/ size >= BlockSize THEN BlockSize ELSE size
         /\ \A i \in 1 .. Len(Written(size, data)[1]) :
              Written(size, data)[1][i] = data[i]
<1>1. FileSize \in Nat /\ BlockSize \in Nat \ {0}
  BY LineConstantsOK
<1>2. data \in Seq(0 .. NameUnit) /\ Len(data) = BlockSize
  BY <1>1, FunctionIsSeq DEF Block
<1>3. CASE size = Unknown \/ size >= BlockSize
  BY <1>1, <1>2, <1>3 DEF Written, Unknown
<1>4. CASE ~(size = Unknown \/ size >= BlockSize)
  <2>1. size \in Nat /\ size < BlockSize
    BY <1>1, <1>4
  <2>2. \A i \in 1 .. size : data[i] \in 0 .. NameUnit
    BY <1>1, <2>1 DEF Block
  <2>3. /\ SubSeq(data, 1, size) \in Seq(0 .. NameUnit)
        /\ Len(SubSeq(data, 1, size)) = size
        /\ \A i \in 1 .. size : SubSeq(data, 1, size)[i] = data[i]
    BY <2>1, <2>2, SubSeqProperties
  <2>4. Written(size, data) = << SubSeq(data, 1, size), 0 >>
    BY <1>4 DEF Written
  <2>5. QED
    BY <1>1, <1>4, <2>3, <2>4
<1>5. QED
  BY <1>3, <1>4

(* Sequences of messages and answers stay what they are. *)
LEMMA TailType ==
  ASSUME NEW S, NEW s \in Seq(S), s # << >>
  PROVE  Head(s) \in S /\ Tail(s) \in Seq(S)
  BY HeadTailProperties

LEMMA AnswerType ==
  ASSUME NEW s \in Seq(ToSend), NEW a \in ToSend, NEW b \in ToSend
  PROVE  s \o << a >> \in Seq(ToSend) /\ s \o << a, b >> \in Seq(ToSend)
<1>1. << a >> \in Seq(ToSend) /\ << a, b >> \in Seq(ToSend)
  OBVIOUS
<1>2. QED
  BY <1>1, ConcatProperties

LEMMA InitType == Init => TypeOK
<1> SUFFICES ASSUME Init PROVE TypeOK
  OBVIOUS
<1>1. MaxFaults \in Nat /\ MaxCans \in Nat /\ StartTimeout \in Nat
      /\ FileSize \in Nat
  BY LineConstantsOK, RecvConstantsOK, NkYmodemConstantsOK
<1>2. LineTypeOK
  BY <1>1 DEF Init, LineTypeOK, ToSend
<1>3. SendTypeOK
  <2>1. SOH(0, HeaderBlock) \in Packet /\ SOH(1, DataBlock(0)) \in Packet
    BY SeqnoProps, BlockProps, MessageProps
  <2>2. packet \in Packet /\ send_seq \in Seqno /\ pos \in Nat
    BY <2>1, SeqnoProps DEF Init, SendInit
  <2>3. send_eot \in BOOLEAN /\ send_fin \in BOOLEAN /\ send_hdr \in BOOLEAN
        /\ sendStatus = "MORE"
    BY DEF Init, SendInit
  <2>4. QED
    BY <2>2, <2>3 DEF SendTypeOK
<1>4. RecvTypeOK
  <2>1. {opened, got_eot, purge, first, can, xmodem} \subseteq BOOLEAN
    BY DEF Init, RecvInit
  <2>2. to \in 0 .. StartTimeout /\ file_size \in 0 .. FileSize \cup {Unknown}
    BY <1>1 DEF Init, RecvInit
  <2>3. received \in Seq(0 .. NameUnit)
    BY EmptySeq DEF Init, RecvInit
  <2>4. QED
    BY <2>1, <2>2, <2>3, SeqnoProps DEF Init, RecvInit, RecvTypeOK
<1>5. QED
  BY <1>1, <1>2, <1>3, <1>4 DEF Init, TypeOK

(* The sender's answers to what it reads. *)
LEMMA SendType ==
  ASSUME TypeOK, ysend
  PROVE  TypeOK'
<1>1. /\ toSend \in Seq(ToSend) /\ toRecv \in Seq(ToRecv)
      /\ lineFaults \in 0 .. MaxFaults
      /\ SendTypeOK /\ RecvTypeOK /\ packet \in Packet /\ packet \in ToRecv
      /\ send_seq \in Seqno /\ pos \in Nat
  BY DEF TypeOK, LineTypeOK, SendTypeOK, ToRecv
<1>2. cans' \in 0 .. MaxCans
  BY DEF TypeOK, ysend
<1>3. RecvTypeOK'
  BY <1>1 DEF ysend, recver, settings, RecvTypeOK
<1>4. ASSUME NEW c \in ToSend, Reads(c)
      PROVE  toSend' \in Seq(ToSend) /\ lineFaults' \in 0 .. MaxFaults
  BY <1>1, <1>4, TailType DEF Reads
<1>5. ASSUME NEW m \in ToRecv, Sends(m) PROVE toRecv' \in Seq(ToRecv)
  BY <1>1, <1>5, AppendProperties DEF Sends
<1>6. {"C", "NAK", "ACK", "CAN"} \subseteq ToSend /\ Char("EOT") \in ToRecv
  BY MessageProps DEF ToSend
<1>7. CASE SendAgain
  <2>1. LineTypeOK'
    BY <1>1, <1>4, <1>5, <1>6, <1>7 DEF SendAgain, LineTypeOK
  <2>2. SendTypeOK'
    BY <1>1, <1>7 DEF SendAgain, sender, SendTypeOK
  <2>3. QED
    BY <1>2, <1>3, <2>1, <2>2 DEF TypeOK
<1>8. CASE AckOfEot
  <2>1. LineTypeOK'
    BY <1>1, <1>4, <1>6, <1>8 DEF AckOfEot, SendsNothing, LineTypeOK
  <2>2. SendTypeOK'
    <3>1. SOH(0, NulBlock) \in Packet /\ 0 \in Seqno
      BY SeqnoProps, BlockProps, MessageProps
    <3>2. packet' \in Packet /\ send_seq' \in Seqno /\ pos' = pos
          /\ sendStatus' \in {"MORE", "DONE", "CANCEL"}
      BY <1>1, <1>8, <3>1 DEF AckOfEot, SendTypeOK
    <3>3. send_eot' \in BOOLEAN /\ send_fin' \in BOOLEAN
          /\ send_hdr' \in BOOLEAN
      BY <1>1, <1>8 DEF AckOfEot, SendTypeOK
    <3>4. QED
      BY <1>1, <3>2, <3>3 DEF SendTypeOK
  <2>3. QED
    BY <1>2, <1>3, <2>1, <2>2 DEF TypeOK
<1>9. CASE AckOfFin
  <2>1. LineTypeOK'
    BY <1>1, <1>4, <1>6, <1>9 DEF AckOfFin, SendsNothing, LineTypeOK
  <2>2. SendTypeOK'
    BY <1>1, <1>9 DEF AckOfFin, SendTypeOK
  <2>3. QED
    BY <1>2, <1>3, <2>1, <2>2 DEF TypeOK
<1>10. CASE AckOfBlock
  <2>1. send_seq' \in Seqno /\ send_hdr' \in BOOLEAN
    BY <1>1, <1>10, SeqnoProps DEF AckOfBlock
  <2>2. CASE ~EndOfFile
    <3>1. /\ packet' = SOH(send_seq', DataBlock(pos)) /\ pos' = pos + 1
          /\ IF send_hdr THEN SendsNothing ELSE Sends(packet')
          /\ send_eot' = send_eot
      BY <1>10, <2>2 DEF AckOfBlock
    <3>2. packet' \in Packet /\ packet' \in ToRecv
      BY <1>1, <2>1, <3>1, BlockProps, MessageProps
    <3>3. toRecv' \in Seq(ToRecv)
      BY <1>1, <1>5, <3>1, <3>2 DEF SendsNothing
    <3>4. LineTypeOK'
      BY <1>4, <1>6, <1>10, <3>3 DEF AckOfBlock, LineTypeOK
    <3>5. SendTypeOK'
      BY <1>1, <1>10, <2>1, <3>1, <3>2 DEF AckOfBlock, SendTypeOK
    <3>6. QED
      BY <1>2, <1>3, <3>4, <3>5 DEF TypeOK
  <2>3. CASE EndOfFile
    <3>1. /\ packet' = packet /\ pos' = pos
          /\ IF send_hdr THEN SendsNothing ELSE Sends(Char("EOT"))
          /\ send_eot' = TRUE
      BY <1>10, <2>3 DEF AckOfBlock
    <3>2. toRecv' \in Seq(ToRecv)
      BY <1>1, <1>5, <1>6, <3>1 DEF SendsNothing
    <3>3. LineTypeOK'
      BY <1>4, <1>6, <1>10, <3>2 DEF AckOfBlock, LineTypeOK
    <3>4. SendTypeOK'
      BY <1>1, <1>10, <2>1, <3>1 DEF AckOfBlock, SendTypeOK
    <3>5. QED
      BY <1>2, <1>3, <3>3, <3>4 DEF TypeOK
  <2>4. QED
    BY <2>2, <2>3
<1>11. CASE Canceled
  <2>1. LineTypeOK'
    BY <1>1, <1>4, <1>6, <1>11 DEF Canceled, SendsNothing, LineTypeOK
  <2>2. SendTypeOK'
    BY <1>1, <1>11 DEF Canceled, SendTypeOK
  <2>3. QED
    BY <1>2, <1>3, <2>1, <2>2 DEF TypeOK
<1>12. QED
  BY <1>7, <1>8, <1>9, <1>10, <1>11 DEF ysend, SendTask

(* Every operator with which the receiver handles a message or a timeout *)
(* keeps the types. *)
LEMMA PurgesType ==
  ASSUME RecvTypeOK, Purges,
         to' \in 0 .. StartTimeout, got_eot' \in BOOLEAN
  PROVE  RecvTypeOK' /\ toSend' = toSend
  BY DEF RecvTypeOK, Purges, Silent, GoesOn, FileUnchanged

LEMMA RestartType ==
  ASSUME RecvTypeOK, NEW t \in 0 .. StartTimeout, ymodem_recv_init(t),
         UNCHANGED old_seq, UNCHANGED recvStatus,
         file_size' \in 0 .. FileSize \cup {Unknown},
         file' \in {"none", "open", "closed", "canceled"},
         received' \in Seq(0 .. NameUnit)
  PROVE  RecvTypeOK'
<1>1. {opened', got_eot', purge', first', can', xmodem'} \subseteq BOOLEAN
  BY DEF ymodem_recv_init
<1>2. QED
  BY <1>1, SeqnoProps DEF ymodem_recv_init, RecvTypeOK

LEMMA WaitingType ==
  ASSUME TypeOK, NEW m \in ToRecv, Waiting(m)
  PROVE  RecvTypeOK' /\ toSend' \in Seq(ToSend)
<1>1. /\ RecvTypeOK /\ toSend \in Seq(ToSend)
      /\ StartTimeout \in Nat /\ FileSize \in Nat
  BY LineConstantsOK, RecvConstantsOK DEF TypeOK, LineTypeOK
<1>2. /\ toSend \o << "ACK" >> \in Seq(ToSend)
      /\ toSend \o << "CAN", "CAN" >> \in Seq(ToSend)
  BY <1>1, AnswerType DEF ToSend
<1>3. 0 \in 0 .. StartTimeout /\ StartTimeout \in 0 .. StartTimeout
      /\ FileSize \in 0 .. FileSize
  BY <1>1
<1>4. CASE WaitingCan
  <2>1. {opened', got_eot', purge', first', can', xmodem'} \subseteq BOOLEAN
        /\ to' \in 0 .. StartTimeout
    BY <1>3, <1>1, <1>4 DEF WaitingCan, RecvTypeOK
  <2>2. QED
    BY <1>1, <1>4, <2>1
    DEF WaitingCan, Silent, Ends, GoesOn, FileUnchanged, RecvTypeOK
<1>5. CASE NoMoreFiles
  <2>1. {opened', got_eot', purge', first', can', xmodem'} \subseteq BOOLEAN
        /\ to' \in 0 .. StartTimeout
    BY <1>3, <1>1, <1>5 DEF NoMoreFiles, RecvTypeOK
  <2>2. QED
    BY <1>1, <1>2, <1>5, <2>1
    DEF NoMoreFiles, Answers, Ends, FileUnchanged, RecvTypeOK
<1>6. CASE HeaderArrives
  <2>1. << >> \in Seq(0 .. NameUnit) /\ 0 \in Seqno /\ 1 \in Seqno
    BY EmptySeq, SeqnoProps
  <2>2. {opened', got_eot', purge', first', can', xmodem'} \subseteq BOOLEAN
    BY <1>1, <1>6 DEF HeaderArrives, RecvTypeOK
  <2>3. toSend' \in Seq(ToSend)
    BY <1>2, <1>6 DEF HeaderArrives, Answers
  <2>4. /\ file_size' \in 0 .. FileSize \cup {Unknown}
        /\ file' \in {"none", "open", "closed", "canceled"}
        /\ received' \in Seq(0 .. NameUnit)
        /\ to' \in 0 .. StartTimeout
    <3>1. to' \in 0 .. StartTimeout
      BY <1>3, <1>6 DEF HeaderArrives
    <3>2. file_size' \in 0 .. FileSize \cup {Unknown}
      BY <1>3, <1>1, <1>6, <2>1 DEF HeaderArrives, Open, RecvTypeOK
    <3>3. QED
      BY <1>1, <1>6, <2>1, <3>1, <3>2 DEF HeaderArrives, Open, RecvTypeOK
  <2>5. /\ old_seq' \in Seqno /\ seq' \in Seqno
        /\ recvStatus' \in {"MORE", "DONE", "REMOTE_CANCEL", "OPEN_CANCEL",
                            "SYNC_CANCEL"}
    BY <1>1, <1>6, <2>1 DEF HeaderArrives, GoesOn, Ends, RecvTypeOK
  <2>6. QED
    BY <2>2, <2>3, <2>4, <2>5 DEF RecvTypeOK
<1>7. CASE m.kind = "SOH" /\ AnonymousArrives(m.data)
  <2>1. m.data \in Block /\ 1 \in Seqno /\ NextSeq(1) \in Seqno
    BY <1>7, MessageProps, SeqnoProps
  <2>2. {opened', got_eot', purge', first', can', xmodem'} \subseteq BOOLEAN
    BY <1>1, <1>7 DEF AnonymousArrives, RecvTypeOK
  <2>3. toSend' \in Seq(ToSend)
    BY <1>2, <1>7 DEF AnonymousArrives, Answers
  <2>4. /\ Written(Unknown, m.data)[1] \in Seq(0 .. NameUnit)
        /\ Written(Unknown, m.data)[2] \in 0 .. FileSize \cup {Unknown}
        /\ << >> \in Seq(0 .. NameUnit)
    BY <2>1, WrittenProps, EmptySeq
  <2>5. ASSUME Write(Unknown, m.data)
        PROVE  /\ received' \in Seq(0 .. NameUnit)
               /\ file_size' \in 0 .. FileSize \cup {Unknown}
    BY <1>1, <2>4, <2>5, ConcatProperties DEF Write, RecvTypeOK
  <2>6. /\ file_size' \in 0 .. FileSize \cup {Unknown}
        /\ file' \in {"none", "open", "closed", "canceled"}
        /\ received' \in Seq(0 .. NameUnit)
        /\ to' \in 0 .. StartTimeout
    <3>1. to' \in 0 .. StartTimeout
      BY <1>3, <1>7 DEF AnonymousArrives
    <3>2. file_size' \in 0 .. FileSize \cup {Unknown}
      BY <1>3, <1>1, <1>7, <2>5 DEF AnonymousArrives, RecvTypeOK
    <3>3. QED
      BY <1>1, <1>7, <2>5, <3>1, <3>2 DEF AnonymousArrives, RecvTypeOK
  <2>7. /\ old_seq' \in Seqno /\ seq' \in Seqno
        /\ recvStatus' \in {"MORE", "DONE", "REMOTE_CANCEL", "OPEN_CANCEL",
                            "SYNC_CANCEL"}
    BY <1>1, <1>7, <2>1 DEF AnonymousArrives, GoesOn, Ends, RecvTypeOK
  <2>8. QED
    BY <2>2, <2>3, <2>6, <2>7 DEF RecvTypeOK
<1>8. CASE Purges /\ to' = 0 /\ UNCHANGED got_eot
  BY <1>1, <1>8, PurgesType DEF RecvTypeOK
<1>9. QED
  BY <1>4, <1>5, <1>6, <1>7, <1>8 DEF Waiting

LEMMA OpenedType ==
  ASSUME TypeOK, NEW m \in ToRecv, Opened(m)
  PROVE  RecvTypeOK' /\ toSend' \in Seq(ToSend)
<1>1. /\ RecvTypeOK /\ toSend \in Seq(ToSend)
      /\ StartTimeout \in Nat /\ FileSize \in Nat
  BY LineConstantsOK, RecvConstantsOK DEF TypeOK, LineTypeOK
<1>2. /\ toSend \o << "ACK" >> \in Seq(ToSend)
      /\ toSend \o << "NAK" >> \in Seq(ToSend)
      /\ toSend \o << "ACK", "C" >> \in Seq(ToSend)
      /\ toSend \o << "CAN", "CAN" >> \in Seq(ToSend)
  BY <1>1, AnswerType DEF ToSend
<1>3. CASE OpenCan
  BY <1>1, <1>3
  DEF OpenCan, Silent, Ends, GoesOn, FileUnchanged, Close, RecvTypeOK
<1>4. CASE m.kind = "SOH" /\ DataArrives(m)
  <2>1. {opened', got_eot', purge', first', can', xmodem'} \subseteq BOOLEAN
        /\ to' \in 0 .. StartTimeout
    BY <1>1, <1>4 DEF DataArrives, RecvTypeOK
  <2>2. toSend' \in Seq(ToSend)
    BY <1>2, <1>4 DEF DataArrives, Answers
  <2>3. /\ Written(file_size, m.data)[1] \in Seq(0 .. NameUnit)
        /\ Written(file_size, m.data)[2] \in 0 .. FileSize \cup {Unknown}
        /\ << >> \in Seq(0 .. NameUnit)
    BY <1>1, <1>4, WrittenProps, MessageProps, EmptySeq DEF RecvTypeOK
  <2>4. ASSUME Write(file_size, m.data)
        PROVE  /\ received' \in Seq(0 .. NameUnit)
               /\ file_size' \in 0 .. FileSize \cup {Unknown}
    BY <1>1, <2>3, <2>4, ConcatProperties DEF Write, RecvTypeOK
  <2>5. /\ file_size' \in 0 .. FileSize \cup {Unknown}
        /\ file' \in {"none", "open", "closed", "canceled"}
        /\ received' \in Seq(0 .. NameUnit)
    BY <1>1, <1>4, <2>4 DEF DataArrives, FileUnchanged, Close, RecvTypeOK
  <2>6. /\ old_seq' \in Seqno /\ seq' \in Seqno
        /\ recvStatus' \in {"MORE", "DONE", "REMOTE_CANCEL", "OPEN_CANCEL",
                            "SYNC_CANCEL"}
    BY <1>1, <1>4, SeqnoProps DEF DataArrives, GoesOn, Ends, RecvTypeOK
  <2>7. QED
    BY <2>1, <2>2, <2>5, <2>6 DEF RecvTypeOK
<1>5. CASE EotArrives
  <2>1. toSend' \in Seq(ToSend)
    BY <1>2, <1>5 DEF EotArrives, Answers
  <2>2. CASE ymodem_recv_init(0) /\ Close("closed") /\ GoesOn
             /\ UNCHANGED old_seq
    BY <1>1, <2>1, <2>2, RestartType DEF Close, GoesOn, RecvTypeOK
  <2>3. CASE xmodem \/ ~got_eot
    <3>1. {opened', got_eot', purge', first', can', xmodem'} \subseteq BOOLEAN
          /\ to' \in 0 .. StartTimeout
      BY <1>1, <1>5, <2>3 DEF EotArrives, RecvTypeOK
    <3>2. QED
      BY <1>1, <1>5, <2>1, <2>3, <3>1
      DEF EotArrives, Close, Ends, GoesOn, FileUnchanged, RecvTypeOK
  <2>4. QED
    BY <1>5, <2>2, <2>3 DEF EotArrives
<1>6. CASE Purges /\ got_eot' = FALSE /\ UNCHANGED to
  BY <1>1, <1>6, PurgesType DEF RecvTypeOK
<1>7. QED
  BY <1>3, <1>4, <1>5, <1>6 DEF Opened

LEMMA RecvType ==
  ASSUME TypeOK, yrecv
  PROVE  TypeOK'
<1>1. /\ toSend \in Seq(ToSend) /\ toRecv \in Seq(ToRecv) /\ toRecv # << >>
      /\ RecvTypeOK
  BY DEF TypeOK, LineTypeOK, yrecv, Message
<1>2. toRecv' \in Seq(ToRecv) /\ Head(toRecv) \in ToRecv
  BY <1>1, TailType DEF yrecv, Message
<1>3. RecvTypeOK' /\ toSend' \in Seq(ToSend)
  <2>1. CASE purge
    BY <1>1, <2>1 DEF yrecv, Message, recver, settings, RecvTypeOK
  <2>2. CASE ~purge /\ opened
    BY <1>2, <2>2, OpenedType DEF yrecv, Message
  <2>3. CASE ~purge /\ ~opened
    BY <1>2, <2>3, WaitingType DEF yrecv, Message
  <2>4. QED
    BY <2>1, <2>2, <2>3
<1>4. QED
  BY <1>2, <1>3
  DEF yrecv, Message, sender, TypeOK, LineTypeOK, SendTypeOK

LEMMA TimeoutType ==
  ASSUME TypeOK, yrecv_timeout
  PROVE  TypeOK'
<1>1. /\ toSend \in Seq(ToSend) /\ RecvTypeOK /\ StartTimeout \in Nat
  BY RecvConstantsOK DEF TypeOK, LineTypeOK
<1>2. /\ toSend \o << "C" >> \in Seq(ToSend)
      /\ toSend \o << "NAK" >> \in Seq(ToSend)
  BY <1>1, AnswerType DEF ToSend
<1>3. RecvTypeOK' /\ toSend' \in Seq(ToSend)
  <2>1. CASE purge
    BY <1>1, <1>2, <2>1
    DEF yrecv_timeout, Timeout, Answers, GoesOn, FileUnchanged, RecvTypeOK
  <2>2. CASE ~purge /\ opened
    BY <1>1, <1>2, <2>2 DEF yrecv_timeout, Timeout, OpenTimeout, Answers,
      GoesOn, FileUnchanged, RecvTypeOK
  <2>3. CASE ~purge /\ ~opened /\ to > 0
    BY <1>1, <1>2, <2>3 DEF yrecv_timeout, Timeout, WaitingTimeout, Silent,
      GoesOn, FileUnchanged, RecvTypeOK
  <2>4. CASE ~purge /\ ~opened /\ to = 0
    <3>1. /\ GoesOn /\ FileUnchanged /\ UNCHANGED old_seq
          /\ ymodem_recv_init(StartTimeout) /\ Answers(<< "C" >>)
      BY <2>4 DEF yrecv_timeout, Timeout, WaitingTimeout
    <3>2. RecvTypeOK'
      BY <1>1, <3>1, RestartType DEF GoesOn, FileUnchanged, RecvTypeOK
    <3>3. QED
      BY <1>2, <3>1, <3>2 DEF Answers
  <2>5. QED
    BY <1>1, <2>1, <2>2, <2>3, <2>4 DEF RecvTypeOK
<1>4. QED
  BY <1>3 DEF yrecv_timeout, Timeout, sender, TypeOK, LineTypeOK, SendTypeOK

LEMMA LineType ==
  ASSUME TypeOK, LineFault \/ TypesCtrlX \/ CliReads
  PROVE  TypeOK'
<1>1. /\ toSend \in Seq(ToSend) /\ toRecv \in Seq(ToRecv)
      /\ lineFaults \in 0 .. MaxFaults /\ MaxFaults \in Nat
      /\ cans \in 0 .. MaxCans /\ MaxCans \in Nat
  BY LineConstantsOK, NkYmodemConstantsOK DEF TypeOK, LineTypeOK
<1>2. CASE LineFault
  <2>1. toSend' \in Seq(ToSend) /\ toRecv' \in Seq(ToRecv)
    <3>1. CASE toRecv # << >> /\ UNCHANGED toSend
               /\ \E left \in {<< >>} \cup
                   (IF Head(toRecv).kind = "SOH"
                    THEN {<< Char("junk") >>} \cup
                         (IF DataHasEot
                          THEN {<< Char("EOT"), Char("EOT") >>} ELSE {})
                    ELSE {}) :
                   toRecv' = left \o Tail(toRecv)
      <4>1. /\ << >> \in Seq(ToRecv)
            /\ << Char("junk") >> \in Seq(ToRecv)
            /\ << Char("EOT"), Char("EOT") >> \in Seq(ToRecv)
        <5>1. Char("junk") \in ToRecv /\ Char("EOT") \in ToRecv
          BY MessageProps
        <5>2. QED
          BY <5>1
      <4>2. PICK left \in Seq(ToRecv) : toRecv' = left \o Tail(toRecv)
        BY <3>1, <4>1
      <4>3. Tail(toRecv) \in Seq(ToRecv)
        BY <1>1, <3>1, TailType
      <4>4. QED
        BY <1>1, <3>1, <4>2, <4>3, ConcatProperties
    <3>2. CASE toSend # << >> /\ toSend' = Tail(toSend) /\ UNCHANGED toRecv
      BY <1>1, <3>2, TailType
    <3>3. QED
      BY <1>2, <3>1, <3>2 DEF LineFault, Fault
  <2>2. lineFaults' \in 0 .. MaxFaults
    BY <1>1, <1>2 DEF LineFault, Fault
  <2>3. QED
    BY <1>2, <2>1, <2>2 DEF LineFault, sender, recver, settings, TypeOK,
      LineTypeOK, SendTypeOK, RecvTypeOK
<1>3. CASE TypesCtrlX
  <2>1. toRecv' \in Seq(ToRecv)
    BY <1>1, <1>3, MessageProps, AppendProperties DEF TypesCtrlX
  <2>2. cans' \in 0 .. MaxCans
    BY <1>1, <1>3 DEF TypesCtrlX
  <2>3. QED
    BY <1>3, <2>1, <2>2 DEF TypesCtrlX, sender, recver, settings, TypeOK,
      LineTypeOK, SendTypeOK, RecvTypeOK
<1>4. CASE CliReads
  <2>1. toSend' \in Seq(ToSend) /\ toRecv' \in Seq(ToRecv)
    BY <1>1, <1>4, TailType DEF CliReads
  <2>2. QED
    BY <1>4, <2>1 DEF CliReads, sender, recver, settings, TypeOK,
      LineTypeOK, SendTypeOK, RecvTypeOK
<1>5. QED
  BY <1>2, <1>3, <1>4

(* Every step keeps the types, however late answers are. *)
LEMMA NextType == TypeOK /\ [Next]_vars => TypeOK'
<1> SUFFICES ASSUME TypeOK, [Next]_vars PROVE TypeOK'
  OBVIOUS
<1>1. CASE UNCHANGED vars
  BY <1>1 DEF vars, line, sender, recver, settings, TypeOK, LineTypeOK,
    SendTypeOK, RecvTypeOK
<1>2. QED
  BY <1>1, SendType, RecvType, TimeoutType, LineType DEF Next

(* All variables of both ends and of the line keep their types. *)
THEOREM TypeCorrect == Spec => []TypeOK
  BY InitType, NextType, PTL DEF Spec

-----------------------------------------------------------------------------
(* Open, close and cancel *)

(***************************************************************************)
(* NotLeftOpen is not inductive: until the transfer ends the receiver      *)
(* knows, in ymodem_file_opened, whether there is a file to close.         *)
(***************************************************************************)
FilePaired ==
  /\ recvStatus = "MORE" => (opened <=> file = "open")
  /\ NotLeftOpen

(* What the receiver does with a message keeps the file paired. *)
LEMMA MessagePairs ==
  ASSUME TypeOK, FilePaired, recvStatus = "MORE", NEW m \in ToRecv,
         IF opened THEN Opened(m) ELSE Waiting(m)
  PROVE  FilePaired'
<1>1. opened \in BOOLEAN /\ (opened <=> file = "open")
  BY DEF FilePaired, TypeOK, RecvTypeOK
<1>2. CASE ~opened
  <2>1. Waiting(m) /\ file # "open"
    BY <1>1, <1>2
  <2>2. CASE WaitingCan
    BY <1>1, <1>2, <2>1, <2>2
    DEF WaitingCan, FileUnchanged, FilePaired, NotLeftOpen
  <2>3. CASE NoMoreFiles
    BY <1>1, <1>2, <2>1, <2>3
    DEF NoMoreFiles, FileUnchanged, FilePaired, NotLeftOpen
  <2>4. CASE HeaderArrives
    BY <1>1, <1>2, <2>1, <2>4
    DEF HeaderArrives, Open, Ends, GoesOn, FilePaired, NotLeftOpen
  <2>5. CASE AnonymousArrives(m.data)
    BY <1>1, <1>2, <2>1, <2>5
    DEF AnonymousArrives, Ends, GoesOn, FilePaired, NotLeftOpen
  <2>6. CASE Purges
    BY <1>1, <1>2, <2>1, <2>6
    DEF Purges, GoesOn, FileUnchanged, FilePaired, NotLeftOpen
  <2>7. QED
    BY <2>1, <2>2, <2>3, <2>4, <2>5, <2>6 DEF Waiting
<1>3. CASE opened
  <2>1. Opened(m) /\ file = "open"
    BY <1>1, <1>3
  <2>2. CASE OpenCan
    BY <1>1, <1>3, <2>1, <2>2
    DEF OpenCan, Close, Ends, GoesOn, FileUnchanged, FilePaired, NotLeftOpen
  <2>3. CASE DataArrives(m)
    BY <1>1, <1>3, <2>1, <2>3
    DEF DataArrives, Close, Ends, GoesOn, FileUnchanged, FilePaired,
      NotLeftOpen
  <2>4. CASE EotArrives
    BY <1>1, <1>3, <2>1, <2>4
    DEF EotArrives, Close, Ends, GoesOn, FileUnchanged, ymodem_recv_init,
      FilePaired, NotLeftOpen
  <2>5. CASE Purges
    BY <1>1, <1>3, <2>1, <2>5
    DEF Purges, GoesOn, FileUnchanged, FilePaired, NotLeftOpen
  <2>6. QED
    BY <2>1, <2>2, <2>3, <2>4, <2>5 DEF Opened
<1>4. QED
  BY <1>1, <1>2, <1>3

LEMMA NextPairs == TypeOK /\ FilePaired /\ [Next]_vars => FilePaired'
<1> SUFFICES ASSUME TypeOK, FilePaired, [Next]_vars PROVE FilePaired'
  OBVIOUS
<1>1. opened \in BOOLEAN /\ purge \in BOOLEAN
  BY DEF TypeOK, RecvTypeOK
<1>2. CASE UNCHANGED recver
  BY <1>2 DEF recver, settings, FilePaired, NotLeftOpen
<1>3. CASE yrecv /\ ~purge
  <2>1. toRecv \in Seq(ToRecv) /\ toRecv # << >>
    BY <1>3 DEF TypeOK, LineTypeOK, yrecv, Message
  <2>2. Head(toRecv) \in ToRecv
    BY <2>1, TailType
  <2>3. QED
    BY <1>3, <2>2, MessagePairs DEF yrecv, Message
<1>4. CASE yrecv_timeout
  <2>1. recvStatus = "MORE" /\ recvStatus' = recvStatus /\ file' = file
    BY <1>4 DEF yrecv_timeout, Timeout, WaitingTimeout, OpenTimeout, GoesOn,
      FileUnchanged
  <2>2. opened' = opened \/ (opened' = FALSE /\ ~opened)
    BY <1>1, <1>4 DEF yrecv_timeout, Timeout, WaitingTimeout, OpenTimeout,
      ymodem_recv_init
  <2>3. QED
    BY <1>1, <2>1, <2>2 DEF FilePaired, NotLeftOpen
<1>5. yrecv /\ purge => UNCHANGED recver
  BY DEF yrecv, Message
<1>6. ysend \/ LineFault \/ TypesCtrlX \/ CliReads \/ UNCHANGED vars =>
        UNCHANGED recver
  BY DEF ysend, LineFault, TypesCtrlX, CliReads, vars
<1>7. QED
  BY <1>1, <1>2, <1>3, <1>4, <1>5, <1>6 DEF Next

(***************************************************************************)
(* When the receiver gives the console back it has closed or canceled what *)
(* it opened, for all sizes, faults and delays, and whatever the data      *)
(* reads as.                                                               *)
(***************************************************************************)
THEOREM AlwaysPaired == Spec => []NotLeftOpen
<1>1. Init => FilePaired
  BY DEF Init, RecvInit, FilePaired, NotLeftOpen
<1>2. FilePaired => NotLeftOpen
  BY DEF FilePaired
<1>3. QED
  BY <1>1, <1>2, NextPairs, TypeCorrect, PTL DEF Spec

-----------------------------------------------------------------------------
(* Answers in time *)

(***************************************************************************)
(* Answers come within the timeout, and no data reads as an EOT.           *)
(***************************************************************************)
InTime == ~Late /\ ~DataHasEot

(* what the sender is about to send, or waits to be asked for *)
SenderKnows ==
  /\ ~(send_eot /\ send_fin)
  /\ send_eot \/ send_fin => EndOfFile
  /\ pos > 0 => (pos - 1) * BlockSize < FileSize
  /\ send_fin => ymodem_send /\ packet = SOH(0, NulBlock)
  /\ sendStatus = "MORE" /\ ~send_eot /\ ~send_fin =>
       /\ send_seq = pos % SeqMod
       /\ IF send_hdr
          THEN ymodem_send /\ pos = 0 /\ packet = SOH(0, HeaderBlock)
          ELSE pos > 0 /\ packet = SOH(send_seq, DataBlock(pos - 1))

(* at most one packet, EOT or answer is under way until the file is closed *)
OneInFlight ==
  file # "closed" =>
    /\ \A i, j \in 1 .. Len(toRecv) :
         toRecv[i].kind # "CAN" /\ toRecv[j].kind # "CAN" => i = j
    /\ toSend # << >> => \A i \in 1 .. Len(toRecv) : toRecv[i].kind = "CAN"
    /\ \/ Len(toSend) <= 1
       \/ \A i \in 1 .. Len(toSend) : toSend[i] = "CAN"

(* what is under way to the receiver is what the sender sends now *)
Fresh ==
  /\ recvStatus = "MORE" /\ file # "closed" =>
       /\ sendStatus = "MORE"
       /\ \A i \in 1 .. Len(toRecv) :
            /\ toRecv[i].kind = "SOH" =>
                 toRecv[i] = packet /\ ~send_eot /\ ~send_fin
            /\ toRecv[i].kind = "EOT" => send_eot
  /\ file = "closed" =>
       \A i \in 1 .. Len(toRecv) :
         toRecv[i].kind = "SOH" => toRecv[i] = SOH(0, NulBlock)

(* an ACK under way is for a packet, never for an EOT that did not close   *)
AcksKnown ==
  \A i \in 1 .. Len(toSend) :
    /\ toSend[i] = "ACK" /\ file # "closed" =>
         file # "none" /\ ~send_eot /\ ~send_fin
    /\ toSend[i] = "CAN" => recvStatus # "MORE"

(* the units in the first n blocks *)
Units(n) ==
  IF ~xmodem /\ n * BlockSize > FileSize THEN FileSize ELSE n * BlockSize

(* the receiver has the first n blocks *)
Taken(n) ==
  /\ old_seq = n % SeqMod
  /\ seq = (n + 1) % SeqMod
  /\ received = Transfer!Prefix(Units(n))
  /\ file_size = IF xmodem THEN Unknown ELSE FileSize - Units(n)

(* the receiver has all blocks that were sent, but perhaps the last one *)
InStep ==
  \/ Taken(pos)
  \/ /\ Taken(pos - 1)
     /\ pos > 0 /\ (xmodem => pos > 1)
     /\ ~send_eot /\ ~send_fin
     /\ \A i \in 1 .. Len(toSend) : toSend[i] # "ACK"

FileKnown ==
  /\ recvStatus = "MORE" => (opened <=> file = "open")
  /\ file = "none" =>
       /\ received = << >> /\ ~xmodem /\ ~send_fin
       /\ IF ymodem_send THEN send_hdr /\ ~send_eot
          ELSE IF send_eot THEN FileSize = 0 ELSE pos = 1
  /\ file = "open" =>
       recvStatus = "MORE" /\ xmodem = ~ymodem_send /\ InStep
  /\ file = "closed" =>
       /\ Len(received) >= FileSize
       /\ sendStatus = "MORE" => send_eot \/ send_fin
  /\ file = "canceled" => recvStatus # "MORE"
  /\ sendStatus = "DONE" \/ send_fin => file = "closed"

(***************************************************************************)
(* The inductive invariant, beside the types.                              *)
(***************************************************************************)
Knows ==
  /\ SenderKnows
  /\ OneInFlight
  /\ Fresh
  /\ AcksKnown
  /\ FileKnown

(* The types of what the proofs below speak of. *)
LEMMA KnownTypes ==
  ASSUME TypeOK
  PROVE  /\ toSend \in Seq(ToSend) /\ toRecv \in Seq(ToRecv)
         /\ Len(toSend) \in Nat /\ Len(toRecv) \in Nat
         /\ send_eot \in BOOLEAN /\ send_fin \in BOOLEAN
         /\ send_hdr \in BOOLEAN /\ packet \in Packet /\ pos \in Nat
         /\ send_seq \in Seqno
         /\ opened \in BOOLEAN /\ got_eot \in BOOLEAN /\ purge \in BOOLEAN
         /\ first \in BOOLEAN /\ can \in BOOLEAN /\ xmodem \in BOOLEAN
  BY DEF TypeOK, LineTypeOK, SendTypeOK, RecvTypeOK

(* What is left when the first message has been read. *)
LEMMA TailElements ==
  ASSUME NEW S, NEW s \in Seq(S), s # << >>
  PROVE  /\ Len(s) \in Nat \ {0} /\ Len(Tail(s)) = Len(s) - 1
         /\ Head(s) = s[1]
         /\ \A i \in 1 .. Len(Tail(s)) :
              Tail(s)[i] = s[i + 1] /\ i + 1 \in 1 .. Len(s)
  BY HeadTailProperties, LenProperties

(* What is under way when one more message is sent. *)
LEMMA AppendElements ==
  ASSUME NEW S, NEW s \in Seq(S), NEW e \in S
  PROVE  /\ Len(Append(s, e)) = Len(s) + 1 /\ Len(s) \in Nat
         /\ \A i \in 1 .. Len(s) + 1 :
              Append(s, e)[i] = IF i <= Len(s) THEN s[i] ELSE e
  BY AppendProperties, LenProperties

(* What no step of the receiver changes keeps the sender's part. *)
LEMMA SenderKept ==
  ASSUME SenderKnows, UNCHANGED sender
  PROVE  SenderKnows'
  BY DEF SenderKnows, sender, EndOfFile

(* The receiver is in step as long as neither end goes on. *)
LEMMA InStepKept ==
  ASSUME InStep,
         UNCHANGED << pos, send_eot, send_fin >>,
         UNCHANGED << xmodem, old_seq, seq, received, file_size >>,
         \A i \in 1 .. Len(toSend') :
           \/ toSend'[i] # "ACK"
           \/ \E j \in 1 .. Len(toSend) : toSend'[i] = toSend[j]
  PROVE  InStep'
<1>1. Taken(pos)' <=> Taken(pos)
  BY DEF Taken, Units
<1>2. Taken(pos - 1)' <=> Taken(pos - 1)
  BY DEF Taken, Units
<1>3. QED
  BY <1>1, <1>2 DEF InStep

(* As long as both ends wait, what is known of the file stays. *)
LEMMA FileKept ==
  ASSUME FileKnown, UNCHANGED sender, UNCHANGED recver,
         \A i \in 1 .. Len(toSend') :
           \/ toSend'[i] # "ACK"
           \/ \E j \in 1 .. Len(toSend) : toSend'[i] = toSend[j]
  PROVE  FileKnown'
<1>1. InStep => InStep'
  BY InStepKept DEF sender, recver, settings
<1>2. QED
  BY <1>1 DEF FileKnown, sender, recver, settings

(* Messages that are read or lost change nothing of what is known. *)
LEMMA LineShrinks ==
  ASSUME TypeOK, Knows, UNCHANGED sender, UNCHANGED recver,
         \/ /\ toSend # << >> /\ toSend' = Tail(toSend)
            /\ UNCHANGED toRecv
         \/ /\ toRecv # << >> /\ toRecv' = Tail(toRecv)
            /\ UNCHANGED toSend
  PROVE  Knows'
<1>1. toSend \in Seq(ToSend) /\ toRecv \in Seq(ToRecv)
      /\ Len(toSend) \in Nat /\ Len(toRecv) \in Nat
  BY KnownTypes
<1>2. /\ Len(toSend') \in Nat /\ Len(toSend') <= Len(toSend)
      /\ toSend = << >> => toSend' = << >>
      /\ \A i \in 1 .. Len(toSend') :
           \E j \in 1 .. Len(toSend) : toSend'[i] = toSend[j]
  BY <1>1, TailElements, SMTT(30)
<1>3. PICK k \in {0, 1} :
        /\ Len(toRecv') \in Nat
        /\ \A i \in 1 .. Len(toRecv') :
             toRecv'[i] = toRecv[i + k] /\ i + k \in 1 .. Len(toRecv)
  <2>1. CASE UNCHANGED toRecv
    <3>1. /\ Len(toRecv') \in Nat
          /\ \A i \in 1 .. Len(toRecv') :
               toRecv'[i] = toRecv[i + 0] /\ i + 0 \in 1 .. Len(toRecv)
      BY <1>1, <2>1
    <3>2. QED
      BY <3>1
  <2>2. CASE toRecv # << >> /\ toRecv' = Tail(toRecv)
    <3>1. /\ Len(toRecv') \in Nat
          /\ \A i \in 1 .. Len(toRecv') :
               toRecv'[i] = toRecv[i + 1] /\ i + 1 \in 1 .. Len(toRecv)
      BY <1>1, <2>2, TailElements
    <3>2. QED
      BY <3>1
  <2>3. QED
    BY <2>1, <2>2
<1>4. SenderKnows'
  BY SenderKept DEF Knows
<1>5. OneInFlight'
  <2> SUFFICES ASSUME file # "closed" PROVE OneInFlight'
    BY DEF OneInFlight, recver
  <2>1. \A i, j \in 1 .. Len(toRecv') :
          toRecv'[i].kind # "CAN" /\ toRecv'[j].kind # "CAN" => i = j
    <3> SUFFICES ASSUME NEW i \in 1 .. Len(toRecv'),
                        NEW j \in 1 .. Len(toRecv'),
                        toRecv'[i].kind # "CAN", toRecv'[j].kind # "CAN"
                 PROVE  i = j
      OBVIOUS
    <3>1. i + k \in 1 .. Len(toRecv) /\ j + k \in 1 .. Len(toRecv)
          /\ toRecv[i + k].kind # "CAN" /\ toRecv[j + k].kind # "CAN"
      BY <1>3
    <3>2. i + k = j + k
      BY <3>1 DEF Knows, OneInFlight
    <3>3. QED
      BY <1>3, <3>2
  <2>2. toSend' # << >> => \A i \in 1 .. Len(toRecv') : toRecv'[i].kind = "CAN"
    BY <1>2, <1>3 DEF Knows, OneInFlight
  <2>3. \/ Len(toSend') <= 1
        \/ \A i \in 1 .. Len(toSend') : toSend'[i] = "CAN"
    <3>1. CASE Len(toSend) <= 1
      BY <1>1, <1>2, <3>1
    <3>2. CASE \A i \in 1 .. Len(toSend) : toSend[i] = "CAN"
      BY <1>2, <3>2
    <3>3. QED
      BY <3>1, <3>2 DEF Knows, OneInFlight
  <2>4. QED
    BY <2>1, <2>2, <2>3 DEF OneInFlight
<1>6. Fresh'
  BY <1>3 DEF Knows, Fresh, recver, sender
<1>7. AcksKnown'
  BY <1>2 DEF Knows, AcksKnown, recver, sender
<1>8. FileKnown'
  BY <1>2, FileKept DEF Knows
<1>9. QED
  BY <1>4, <1>5, <1>6, <1>7, <1>8 DEF Knows

(* One more message: a cancel that the user types. *)
LEMMA CtrlXKnows ==
  ASSUME TypeOK, Knows, TypesCtrlX
  PROVE  Knows'
<1>1. toRecv \in Seq(ToRecv) /\ Len(toRecv) \in Nat
      /\ Char("CAN") \in ToRecv /\ Char("CAN").kind = "CAN"
  BY KnownTypes, MessageProps
<1>2. /\ Len(toRecv') = Len(toRecv) + 1
      /\ \A i \in 1 .. Len(toRecv) + 1 :
           \/ i \in 1 .. Len(toRecv) /\ toRecv'[i] = toRecv[i]
           \/ toRecv'[i].kind = "CAN"
  BY <1>1, AppendElements DEF TypesCtrlX
<1>3. UNCHANGED toSend /\ UNCHANGED sender /\ UNCHANGED recver
  BY DEF TypesCtrlX
<1>4. SenderKnows'
  BY <1>3, SenderKept DEF Knows
<1>5. OneInFlight'
  BY <1>1, <1>2, <1>3 DEF Knows, OneInFlight, recver
<1>6. Fresh'
  BY <1>1, <1>2, <1>3 DEF Knows, Fresh, recver, sender
<1>7. AcksKnown'
  BY <1>3 DEF Knows, AcksKnown, recver, sender
<1>8. FileKnown'
  BY <1>3, FileKept DEF Knows
<1>9. QED
  BY <1>4, <1>5, <1>6, <1>7, <1>8 DEF Knows

(* A damaged packet comes in the place of what it was. *)
LEMMA FaultKnows ==
  ASSUME TypeOK, Knows, ~DataHasEot, LineFault
  PROVE  Knows'
<1>1. UNCHANGED sender /\ UNCHANGED recver
  BY DEF LineFault
<1>2. CASE \/ /\ toSend # << >> /\ toSend' = Tail(toSend)
              /\ UNCHANGED toRecv
           \/ /\ toRecv # << >> /\ toRecv' = Tail(toRecv)
              /\ UNCHANGED toSend
  BY <1>1, <1>2, LineShrinks
<1>3. CASE /\ toRecv # << >> /\ UNCHANGED toSend
           /\ Head(toRecv).kind = "SOH"
           /\ toRecv' = << Char("junk") >> \o Tail(toRecv)
  <2>1. /\ toRecv \in Seq(ToRecv) /\ Len(toRecv) \in Nat
        /\ Len(toSend) \in Nat
        /\ Char("junk") \in ToRecv /\ Char("junk").kind = "junk"
    BY KnownTypes, MessageProps
  <2>2. /\ Len(toRecv') = Len(toRecv) /\ Head(toRecv) = toRecv[1]
        /\ \A i \in 1 .. Len(toRecv) :
             toRecv'[i] = IF i = 1 THEN Char("junk") ELSE toRecv[i]
    <3>1. /\ Tail(toRecv) \in Seq(ToRecv)
          /\ Len(Tail(toRecv)) = Len(toRecv) - 1 /\ Head(toRecv) = toRecv[1]
          /\ Len(toRecv) >= 1
          /\ \A i \in 1 .. Len(toRecv) - 1 : Tail(toRecv)[i] = toRecv[i + 1]
      BY <1>3, <2>1, TailType, TailElements
    <3>2. << Char("junk") >> \in Seq(ToRecv) /\ Len(<< Char("junk") >>) = 1
          /\ << Char("junk") >>[1] = Char("junk")
      BY <2>1
    <3>3. QED
      BY <1>3, <2>1, <3>1, <3>2, ConcatProperties
  <2>3. SenderKnows'
    BY <1>1, SenderKept DEF Knows
  <2>4. OneInFlight'
    <3>1. 1 \in 1 .. Len(toRecv) /\ toRecv[1].kind # "CAN"
      BY <1>3, <2>1, <2>2
    <3>2. \A i \in 1 .. Len(toRecv) :
            toRecv'[i].kind # "CAN" <=> toRecv[i].kind # "CAN"
      BY <2>1, <2>2, <3>1
    <3>3. QED
      BY <1>1, <1>3, <2>2, <3>2 DEF Knows, OneInFlight, recver
  <2>5. Fresh'
    BY <1>1, <2>1, <2>2 DEF Knows, Fresh, recver, sender
  <2>6. AcksKnown'
    BY <1>1, <1>3 DEF Knows, AcksKnown, recver, sender
  <2>7. FileKnown'
    BY <1>1, <1>3, FileKept DEF Knows
  <2>8. QED
    BY <2>3, <2>4, <2>5, <2>6, <2>7 DEF Knows
<1>4. toRecv # << >> =>
        Tail(toRecv) \in Seq(ToRecv) /\ << >> \o Tail(toRecv) = Tail(toRecv)
  BY KnownTypes, TailType
<1>5. QED
  BY <1>2, <1>3, <1>4 DEF LineFault, Fault

(* At first nothing is known. *)
LEMMA InitKnows == Init => Knows
<1> SUFFICES ASSUME Init PROVE Knows
  OBVIOUS
<1>1. FileSize \in Nat /\ BlockSize \in Nat \ {0} /\ 0 % SeqMod = 0
      /\ 1 % SeqMod = 1
  <2>1. SeqMod \in Nat \ {0} /\ 0 \in 0 .. SeqMod - 1 /\ 1 \in 0 .. SeqMod - 1
    BY LineConstantsOK
  <2>2. QED
    BY <2>1, Lemmas!ModSmall, LineConstantsOK
<1>2. SenderKnows
  <2>1. 0 * BlockSize = 0 /\ 1 - 1 = 0
    BY <1>1
  <2>2. pos > 0 => (pos - 1) * BlockSize < FileSize
    BY <1>1, <2>1 DEF Init, SendInit
  <2>3. send_eot => EndOfFile
    <3>1. send_eot => FileSize = 0
      BY DEF Init, SendInit
    <3>2. FileSize = 0 => pos = 0
      BY DEF Init, SendInit
    <3>3. QED
      BY <2>1, <3>1, <3>2, LineConstantsOK DEF EndOfFile
  <2>4. ~send_eot =>
          /\ send_seq = pos % SeqMod
          /\ IF send_hdr
             THEN ymodem_send /\ pos = 0 /\ packet = SOH(0, HeaderBlock)
             ELSE pos > 0 /\ packet = SOH(send_seq, DataBlock(pos - 1))
    <3>1. CASE ymodem_send
      BY <1>1, <3>1 DEF Init, SendInit
    <3>2. CASE ~ymodem_send /\ FileSize # 0
      <4>1. send_seq = 1 /\ pos = 1 /\ packet = SOH(1, DataBlock(0))
            /\ ~send_hdr
        BY <3>2 DEF Init, SendInit
      <4>2. QED
        BY <1>1, <2>1, <4>1
    <3>3. CASE ~ymodem_send /\ FileSize = 0
      BY <3>3 DEF Init, SendInit
    <3>4. QED
      BY <3>1, <3>2, <3>3
  <2>5. ~send_fin
    BY DEF Init, SendInit
  <2>6. QED
    BY <2>2, <2>3, <2>4, <2>5 DEF SenderKnows
<1>3. OneInFlight
  BY DEF Init, OneInFlight
<1>4. Fresh
  BY DEF Init, SendInit, RecvInit, Fresh
<1>5. AcksKnown
  BY DEF Init, AcksKnown
<1>6. FileKnown
  BY <1>1 DEF Init, SendInit, RecvInit, FileKnown
<1>7. QED
  BY <1>2, <1>3, <1>4, <1>5, <1>6 DEF Knows

(* The next character to the sender. *)
LEMMA AnswerRead ==
  ASSUME TypeOK, NEW c \in ToSend, Reads(c)
  PROVE  /\ 1 \in 1 .. Len(toSend) /\ toSend[1] = c
         /\ sendStatus = "MORE" /\ toSend # << >>
         /\ Len(toSend) \in Nat \ {0} /\ Len(toSend') = Len(toSend) - 1
         /\ \A i \in 1 .. Len(toSend') :
              \E j \in 1 .. Len(toSend) : toSend'[i] = toSend[j]
         /\ Len(toSend) <= 1 => toSend' = << >> /\ Len(toSend') = 0
<1>1. toSend \in Seq(ToSend) /\ toSend # << >> /\ toSend' = Tail(toSend)
      /\ Head(toSend) = c /\ sendStatus = "MORE"
  BY KnownTypes DEF Reads
<1>2. /\ Len(toSend) \in Nat \ {0} /\ Len(toSend') = Len(toSend) - 1
      /\ toSend[1] = c
      /\ \A i \in 1 .. Len(toSend') :
           toSend'[i] = toSend[i + 1] /\ i + 1 \in 1 .. Len(toSend)
  BY <1>1, TailElements
<1>3. Len(toSend) <= 1 => toSend' = << >>
  <2>1. toSend' \in Seq(ToSend)
    BY <1>1, TailType
  <2>2. Len(toSend') = 0 => toSend' = << >>
    BY <2>1, EmptySeq
  <2>3. QED
    BY <1>2, <2>2
<1>4. QED
  BY <1>1, <1>2, <1>3

(* Asked again, the sender sends again what it sent last. *)
LEMMA SendAgainKnows ==
  ASSUME TypeOK, Knows, ysend, SendAgain
  PROVE  Knows'
<1> DEFINE m == IF send_eot THEN Char("EOT") ELSE packet
<1>1. /\ toRecv \in Seq(ToRecv) /\ Len(toRecv) \in Nat
      /\ m \in ToRecv /\ m.kind \in {"EOT", "SOH"}
      /\ m.kind = "EOT" => send_eot
      /\ m.kind = "SOH" => ~send_eot /\ m = packet
  <2>1. Char("EOT") \in ToRecv /\ Char("EOT").kind = "EOT"
    BY MessageProps
  <2>2. packet \in ToRecv /\ packet.kind = "SOH"
    BY KnownTypes DEF ToRecv, Packet
  <2>3. QED
    BY <2>1, <2>2, KnownTypes
<1>2. toRecv' = Append(toRecv, m) /\ UNCHANGED sender /\ UNCHANGED recver
  BY DEF SendAgain, Sends, ysend
<1> HIDE DEF m
<1>3. /\ Len(toRecv') = Len(toRecv) + 1
      /\ \A i \in 1 .. Len(toRecv') :
           \/ i \in 1 .. Len(toRecv) /\ toRecv'[i] = toRecv[i]
           \/ i = Len(toRecv) + 1 /\ toRecv'[i] = m
  BY <1>1, <1>2, AppendElements
<1>4. PICK c \in {"C", "NAK"} : Reads(c)
  BY DEF SendAgain
<1>5. /\ 1 \in 1 .. Len(toSend) /\ toSend[1] # "CAN"
      /\ sendStatus = "MORE" /\ toSend # << >>
      /\ \A i \in 1 .. Len(toSend') :
           \E j \in 1 .. Len(toSend) : toSend'[i] = toSend[j]
      /\ Len(toSend) <= 1 => toSend' = << >> /\ Len(toSend') = 0
  <2>1. c \in ToSend /\ c # "CAN"
    BY <1>4 DEF ToSend
  <2>2. QED
    BY <1>4, <2>1, AnswerRead
<1>6. file # "closed" =>
        /\ \A i \in 1 .. Len(toRecv) : toRecv[i].kind = "CAN"
        /\ toSend' = << >> /\ Len(toSend') = 0
  BY <1>5 DEF Knows, OneInFlight
<1>7. SenderKnows'
  BY <1>2, SenderKept DEF Knows
<1>8. OneInFlight'
  <2>1. file # "closed" =>
          \A i, j \in 1 .. Len(toRecv') :
            toRecv'[i].kind # "CAN" /\ toRecv'[j].kind # "CAN" => i = j
    BY <1>3, <1>6
  <2>2. QED
    BY <1>2, <1>6, <2>1 DEF OneInFlight, recver
<1>9. Fresh'
  <2>1. recvStatus = "MORE" /\ file # "closed" =>
          \A i \in 1 .. Len(toRecv') :
            /\ toRecv'[i].kind = "SOH" =>
                 toRecv'[i] = packet /\ ~send_eot /\ ~send_fin
            /\ toRecv'[i].kind = "EOT" => send_eot
    BY <1>1, <1>3, <1>6 DEF Knows, FileKnown
  <2>2. file = "closed" =>
          \A i \in 1 .. Len(toRecv') :
            toRecv'[i].kind = "SOH" => toRecv'[i] = SOH(0, NulBlock)
    <3>1. file = "closed" /\ m.kind = "SOH" => m = SOH(0, NulBlock)
      BY <1>1, <1>5 DEF Knows, FileKnown, SenderKnows
    <3>2. QED
      BY <1>3, <3>1 DEF Knows, Fresh
  <2>3. QED
    BY <1>2, <1>5, <2>1, <2>2 DEF Fresh, recver, sender
<1>10. AcksKnown'
  BY <1>2, <1>5 DEF Knows, AcksKnown, recver, sender
<1>11. FileKnown'
  BY <1>2, <1>5, FileKept DEF Knows
<1>12. QED
  BY <1>7, <1>8, <1>9, <1>10, <1>11 DEF Knows

(* The ACK of an EOT comes when the file is closed. *)
LEMMA AckOfEotKnows ==
  ASSUME TypeOK, Knows, ysend, AckOfEot
  PROVE  Knows'
<1>1. /\ 1 \in 1 .. Len(toSend) /\ toSend[1] = "ACK"
      /\ sendStatus = "MORE" /\ toSend # << >>
      /\ \A i \in 1 .. Len(toSend') :
           \E j \in 1 .. Len(toSend) : toSend'[i] = toSend[j]
  <2>1. "ACK" \in ToSend /\ Reads("ACK")
    BY DEF ToSend, AckOfEot
  <2>2. QED
    BY <2>1, AnswerRead
<1>2. send_eot /\ ~send_fin /\ file = "closed"
  BY <1>1 DEF Knows, AcksKnown, SenderKnows, AckOfEot
<1>3. UNCHANGED recver /\ UNCHANGED toRecv /\ ~send_eot' /\ pos' = pos
      /\ ymodem_send' = ymodem_send
  BY DEF ysend, SendTask, AckOfEot, SendsNothing
<1>4. \/ /\ ymodem_send /\ packet' = SOH(0, NulBlock) /\ send_fin'
         /\ sendStatus' = "MORE"
      \/ sendStatus' = "DONE" /\ send_fin' = send_fin
  BY <1>1 DEF AckOfEot
<1>5. SenderKnows'
  <2>1. EndOfFile'
    BY <1>2, <1>3 DEF Knows, SenderKnows, EndOfFile
  <2>2. (pos > 0 => (pos - 1) * BlockSize < FileSize)'
    BY <1>3 DEF Knows, SenderKnows
  <2>3. QED
    BY <1>2, <1>3, <1>4, <2>1, <2>2 DEF SenderKnows
<1>6. OneInFlight'
  BY <1>2, <1>3 DEF OneInFlight, recver
<1>7. Fresh'
  BY <1>2, <1>3 DEF Knows, Fresh, recver
<1>8. AcksKnown'
  BY <1>1, <1>2, <1>3 DEF Knows, AcksKnown, recver
<1>9. FileKnown'
  BY <1>2, <1>3, <1>4 DEF Knows, FileKnown, recver, settings
<1>10. QED
  BY <1>5, <1>6, <1>7, <1>8, <1>9 DEF Knows

(* The ACK of the last packet, and a cancel, end the sender. *)
LEMMA SenderEndsKnows ==
  ASSUME TypeOK, Knows, ysend, AckOfFin \/ Canceled
  PROVE  Knows'
<1>1. PICK c \in {"ACK", "CAN"} :
        /\ Reads(c)
        /\ c = "ACK" => send_fin /\ sendStatus' = "DONE"
        /\ c = "CAN" => sendStatus' = "CANCEL"
  BY DEF AckOfFin, Canceled
<1>2. /\ 1 \in 1 .. Len(toSend) /\ toSend[1] = c
      /\ sendStatus = "MORE" /\ toSend # << >>
      /\ Len(toSend) \in Nat \ {0} /\ Len(toSend') = Len(toSend) - 1
      /\ \A i \in 1 .. Len(toSend') :
           \E j \in 1 .. Len(toSend) : toSend'[i] = toSend[j]
  <2>1. c \in ToSend /\ Reads(c)
    BY <1>1 DEF ToSend
  <2>2. QED
    BY <2>1, AnswerRead
<1>3. UNCHANGED recver /\ UNCHANGED toRecv
      /\ UNCHANGED << ymodem_send, send_eot, send_fin, send_hdr, send_seq,
                      packet, pos >>
  BY DEF ysend, SendTask, AckOfFin, Canceled, SendsNothing
<1>4. /\ sendStatus' = "DONE" => file = "closed"
      /\ recvStatus # "MORE" \/ file = "closed"
      /\ sendStatus' # "MORE"
  BY <1>1, <1>2 DEF Knows, AcksKnown, FileKnown
<1>5. SenderKnows'
  BY <1>3, <1>4 DEF Knows, SenderKnows, EndOfFile
<1>6. OneInFlight'
  <2>1. file # "closed" =>
          \/ Len(toSend') <= 1
          \/ \A i \in 1 .. Len(toSend') : toSend'[i] = "CAN"
    <3>1. CASE Len(toSend) <= 1
      BY <1>2, <3>1
    <3>2. CASE \A i \in 1 .. Len(toSend) : toSend[i] = "CAN"
      BY <1>2, <3>2
    <3>3. QED
      BY <3>1, <3>2 DEF Knows, OneInFlight
  <2>2. QED
    BY <1>2, <1>3, <2>1 DEF Knows, OneInFlight, recver
<1>7. Fresh'
  BY <1>3, <1>4 DEF Knows, Fresh, recver
<1>8. AcksKnown'
  BY <1>2, <1>3 DEF Knows, AcksKnown, recver
<1>9. FileKnown'
  <2>1. InStep => InStep'
    BY <1>2, <1>3, InStepKept DEF recver, settings
  <2>2. QED
    BY <1>3, <1>4, <2>1 DEF Knows, FileKnown, recver, settings
<1>10. QED
  BY <1>5, <1>6, <1>7, <1>8, <1>9 DEF Knows

(***************************************************************************)
(* The ACK of a packet comes while the file is open, when nothing else is  *)
(* under way and the receiver has all that was sent: the sender is one     *)
(* block ahead of it now, or at the EOT.                                   *)
(***************************************************************************)
LEMMA AckOfBlockKnows ==
  ASSUME TypeOK, Knows, ysend, AckOfBlock
  PROVE  Knows'
<1>1. /\ 1 \in 1 .. Len(toSend) /\ toSend[1] = "ACK"
      /\ sendStatus = "MORE" /\ toSend # << >>
      /\ Len(toSend) <= 1 => toSend' = << >> /\ Len(toSend') = 0
  <2>1. "ACK" \in ToSend /\ Reads("ACK")
    BY DEF ToSend, AckOfBlock
  <2>2. QED
    BY <2>1, AnswerRead
<1>2. ~send_eot /\ ~send_fin /\ file # "closed" /\ file # "none"
  BY <1>1 DEF Knows, AcksKnown, FileKnown, AckOfBlock
<1>3. /\ \A i \in 1 .. Len(toRecv) : toRecv[i].kind = "CAN"
      /\ toSend' = << >> /\ Len(toSend') = 0
  BY <1>1, <1>2 DEF Knows, OneInFlight
<1>4. /\ send_seq = pos % SeqMod
      /\ IF send_hdr THEN ymodem_send /\ pos = 0 ELSE pos > 0
  BY <1>1, <1>2 DEF Knows, SenderKnows
<1>5. /\ toRecv \in Seq(ToRecv) /\ Len(toRecv) \in Nat /\ pos \in Nat
      /\ send_hdr \in BOOLEAN /\ FileSize \in Nat /\ BlockSize \in Nat \ {0}
  BY KnownTypes, LineConstantsOK
<1>6. /\ UNCHANGED recver /\ UNCHANGED << ymodem_send, send_fin, sendStatus >>
      /\ send_hdr' = FALSE
      /\ send_seq' = NextSeq(send_seq)
  BY DEF ysend, SendTask, AckOfBlock
<1>7. send_seq' = (pos + 1) % SeqMod
  BY <1>4, <1>5, <1>6, SeqnoProps
<1>8. file = "open" => Taken(pos) /\ (xmodem => pos > 0)
  BY <1>1, <1>4 DEF Knows, FileKnown, InStep
<1>9. ASSUME NEW m \in ToRecv, m.kind # "CAN",
             IF send_hdr THEN SendsNothing ELSE Sends(m)
      PROVE  /\ Len(toRecv') \in Nat
             /\ \A i, j \in 1 .. Len(toRecv') :
                  toRecv'[i].kind # "CAN" /\ toRecv'[j].kind # "CAN" => i = j
             /\ \A i \in 1 .. Len(toRecv') :
                  toRecv'[i].kind = "CAN" \/ toRecv'[i] = m
  <2>1. CASE send_hdr
    BY <1>3, <1>5, <1>9, <2>1 DEF SendsNothing
  <2>2. CASE ~send_hdr
    <3>1. /\ Len(toRecv') = Len(toRecv) + 1
          /\ \A i \in 1 .. Len(toRecv') :
               toRecv'[i] = IF i <= Len(toRecv) THEN toRecv[i] ELSE m
      BY <1>5, <1>9, <2>2, AppendElements DEF Sends
    <3>2. QED
      BY <1>3, <1>5, <1>9, <3>1
  <2>3. QED
    BY <1>5, <2>1, <2>2
<1>10. AcksKnown'
  BY <1>3 DEF AcksKnown
<1>11. CASE ~EndOfFile
  <2>1. /\ packet' = SOH(send_seq', DataBlock(pos)) /\ pos' = pos + 1
        /\ IF send_hdr THEN SendsNothing ELSE Sends(packet')
        /\ send_eot' = send_eot
    BY <1>11 DEF AckOfBlock
  <2>2. packet' \in ToRecv /\ packet'.kind = "SOH"
    <3>1. send_seq' \in Seqno /\ DataBlock(pos) \in Block
      BY <1>5, <1>7, SeqnoProps, BlockProps
    <3>2. QED
      BY <2>1, <3>1, MessageProps
  <2>3. /\ Len(toRecv') \in Nat
        /\ \A i, j \in 1 .. Len(toRecv') :
             toRecv'[i].kind # "CAN" /\ toRecv'[j].kind # "CAN" => i = j
        /\ \A i \in 1 .. Len(toRecv') :
             toRecv'[i].kind = "CAN" \/ toRecv'[i] = packet'
    BY <1>9, <2>1, <2>2
  <2>4. pos' > 0 /\ pos' - 1 = pos /\ ~send_eot' /\ ~send_fin'
    BY <1>2, <1>5, <1>6, <2>1
  <2>5. SenderKnows'
    <3>1. (pos' - 1) * BlockSize < FileSize
      <4>1. pos * BlockSize \in Nat
        BY <1>5
      <4>2. pos * BlockSize < FileSize
        BY <1>5, <1>11, <4>1 DEF EndOfFile
      <4>3. QED
        BY <2>4, <4>2
    <3>2. send_seq' = pos' % SeqMod
      BY <1>7, <2>1
    <3>3. packet' = SOH(send_seq', DataBlock(pos' - 1))
      BY <2>1, <2>4
    <3>4. QED
      BY <1>6, <2>4, <3>1, <3>2, <3>3 DEF SenderKnows
  <2>6. OneInFlight'
    BY <1>3, <2>3 DEF OneInFlight
  <2>7. Fresh'
    <3>1. \A i \in 1 .. Len(toRecv') :
            /\ toRecv'[i].kind = "SOH" => toRecv'[i] = packet'
            /\ toRecv'[i].kind # "EOT"
      BY <2>2, <2>3
    <3>2. QED
      BY <1>1, <1>2, <1>6, <2>4, <3>1 DEF Fresh, recver
  <2>8. FileKnown'
    <3>1. file = "open" => InStep'
      <4>1. SUFFICES ASSUME file = "open" PROVE InStep'
        OBVIOUS
      <4>2. Taken(pos - 1)'
        BY <1>6, <1>8, <2>4, <4>1 DEF Taken, Units, recver, settings
      <4>3. pos' > 0 /\ (xmodem' => pos' > 1)
        BY <1>5, <1>6, <1>8, <2>1, <4>1 DEF recver, settings
      <4>4. QED
        BY <1>3, <2>4, <4>2, <4>3 DEF InStep
    <3>2. QED
      BY <1>2, <1>6, <2>4, <3>1 DEF Knows, FileKnown, recver, settings
  <2>9. QED
    BY <1>10, <2>5, <2>6, <2>7, <2>8 DEF Knows
<1>12. CASE EndOfFile
  <2>1. /\ packet' = packet /\ pos' = pos
        /\ IF send_hdr THEN SendsNothing ELSE Sends(Char("EOT"))
        /\ send_eot'
    BY <1>12 DEF AckOfBlock
  <2>2. Char("EOT") \in ToRecv /\ Char("EOT").kind = "EOT"
    BY MessageProps
  <2>3. /\ Len(toRecv') \in Nat
        /\ \A i, j \in 1 .. Len(toRecv') :
             toRecv'[i].kind # "CAN" /\ toRecv'[j].kind # "CAN" => i = j
        /\ \A i \in 1 .. Len(toRecv') :
             toRecv'[i].kind = "CAN" \/ toRecv'[i] = Char("EOT")
    BY <1>9, <2>1, <2>2
  <2>4. SenderKnows'
    <3>1. EndOfFile'
      BY <1>12, <2>1 DEF EndOfFile
    <3>2. (pos > 0 => (pos - 1) * BlockSize < FileSize)'
      BY <2>1 DEF Knows, SenderKnows
    <3>3. QED
      BY <1>2, <1>6, <2>1, <3>1, <3>2 DEF SenderKnows
  <2>5. OneInFlight'
    BY <1>3, <2>3 DEF OneInFlight
  <2>6. Fresh'
    <3>1. \A i \in 1 .. Len(toRecv') : toRecv'[i].kind # "SOH"
      BY <2>2, <2>3
    <3>2. QED
      BY <1>1, <1>2, <1>6, <2>1, <3>1 DEF Fresh, recver
  <2>7. FileKnown'
    <3>1. file = "open" => InStep'
      <4>1. file = "open" => Taken(pos)'
        BY <1>6, <1>8, <2>1 DEF Taken, Units, recver, settings
      <4>2. QED
        BY <2>1, <4>1 DEF InStep
    <3>2. QED
      BY <1>2, <1>6, <2>1, <3>1 DEF Knows, FileKnown, recver, settings
  <2>8. QED
    BY <1>10, <2>4, <2>5, <2>6, <2>7 DEF Knows
<1>13. QED
  BY <1>11, <1>12

-----------------------------------------------------------------------------
(* What the receiver does with a message *)

(* what a step does to the receiver's file, as the abstract transfer sees it *)
FileStep == [Transfer!Next]_<< ~ymodem_send, file, received >>

(* The beginning of the file is a sequence of units. *)
LEMMA PrefixProps ==
  ASSUME NEW n \in Nat
  PROVE  /\ Transfer!Prefix(n) \in Seq(0 .. NameUnit)
         /\ Len(Transfer!Prefix(n)) = n
         /\ \A i \in 1 .. n :
              Transfer!Prefix(n)[i] = IF i <= FileSize THEN i ELSE Pad
<1>1. \A i \in 1 .. n : (IF i <= FileSize THEN i ELSE 0) \in 0 .. NameUnit
  BY LineConstantsOK DEF NameUnit
<1>2. Transfer!Prefix(n) \in [1 .. n -> 0 .. NameUnit]
  BY <1>1 DEF Transfer!Prefix
<1>3. QED
  BY <1>2, FunctionIsSeq DEF Transfer!Prefix, Pad

(* The units that follow a beginning of the file make a longer one. *)
LEMMA PrefixExtends ==
  ASSUME NEW u \in Nat, NEW n \in Nat, NEW w \in Seq(0 .. NameUnit),
         Len(w) = n,
         \A i \in 1 .. n : w[i] = IF u + i <= FileSize THEN u + i ELSE Pad
  PROVE  Transfer!Prefix(u) \o w = Transfer!Prefix(u + n)
<1> DEFINE s == Transfer!Prefix(u)
           t == Transfer!Prefix(u + n)
<1>1. /\ s \in Seq(0 .. NameUnit) /\ Len(s) = u
      /\ \A i \in 1 .. u : s[i] = IF i <= FileSize THEN i ELSE Pad
  BY PrefixProps
<1>2. /\ t \in Seq(0 .. NameUnit) /\ Len(t) = u + n
      /\ \A i \in 1 .. u + n : t[i] = IF i <= FileSize THEN i ELSE Pad
  BY PrefixProps
<1> HIDE DEF s, t
<1>3. /\ s \o w \in Seq(0 .. NameUnit) /\ Len(s \o w) = u + n
      /\ \A i \in 1 .. u + n :
           (s \o w)[i] = IF i <= u THEN s[i] ELSE w[i - u]
  BY <1>1, ConcatProperties
<1>4. \A i \in 1 .. u + n : (s \o w)[i] = t[i]
  <2> SUFFICES ASSUME NEW i \in 1 .. u + n PROVE (s \o w)[i] = t[i]
    OBVIOUS
  <2>1. CASE i <= u
    BY <1>1, <1>2, <1>3, <2>1
  <2>2. CASE i > u
    <3>1. i - u \in 1 .. n /\ u + (i - u) = i
      BY <2>2
    <3>2. w[i - u] = IF i <= FileSize THEN i ELSE Pad
      BY <3>1
    <3>3. QED
      BY <1>2, <1>3, <2>2, <3>2
  <2>3. i <= u \/ i > u
    OBVIOUS
  <2>4. QED
    BY <2>1, <2>2, <2>3
<1>5. s \o w = t
  BY <1>2, <1>3, <1>4, SeqEqual
<1>6. QED
  BY <1>5 DEF s, t

(* What is left on the line when the receiver has read a message. *)
LEMMA MessageRead ==
  ASSUME TypeOK, Knows, yrecv
  PROVE  /\ Head(toRecv) \in ToRecv /\ Head(toRecv) = toRecv[1]
         /\ 1 \in 1 .. Len(toRecv)
         /\ Len(toRecv') \in Nat
         /\ \A i \in 1 .. Len(toRecv') :
              toRecv'[i] = toRecv[i + 1] /\ i + 1 \in 1 .. Len(toRecv)
         /\ file # "closed" /\ Head(toRecv).kind # "CAN" =>
              /\ toSend = << >>
              /\ \A i \in 1 .. Len(toRecv') : toRecv'[i].kind = "CAN"
         /\ UNCHANGED sender
         /\ recvStatus = "MORE"
<1>1. toRecv \in Seq(ToRecv) /\ toRecv # << >> /\ toRecv' = Tail(toRecv)
      /\ UNCHANGED sender /\ recvStatus = "MORE"
  BY KnownTypes DEF yrecv, Message
<1>2. /\ Head(toRecv) \in ToRecv /\ Head(toRecv) = toRecv[1]
      /\ 1 \in 1 .. Len(toRecv) /\ Len(toRecv') \in Nat
      /\ \A i \in 1 .. Len(toRecv') :
           toRecv'[i] = toRecv[i + 1] /\ i + 1 \in 1 .. Len(toRecv)
  BY <1>1, TailType, TailElements
<1>3. ASSUME file # "closed", Head(toRecv).kind # "CAN"
      PROVE  /\ toSend = << >>
             /\ \A i \in 1 .. Len(toRecv') : toRecv'[i].kind = "CAN"
  <2>1. \A i \in 1 .. Len(toRecv) : toRecv[i].kind # "CAN" => i = 1
    BY <1>2, <1>3 DEF Knows, OneInFlight
  <2>2. toSend = << >>
    BY <1>2, <1>3 DEF Knows, OneInFlight
  <2>3. QED
    BY <1>2, <2>1, <2>2
<1>4. QED
  BY <1>1, <1>2, <1>3

(***************************************************************************)
(* A packet that comes before the file is open is the header, or the first *)
(* block; after it is closed, it is the empty header.                      *)
(***************************************************************************)
LEMMA PacketExpected ==
  ASSUME TypeOK, Knows, recvStatus = "MORE", 1 \in 1 .. Len(toRecv),
         toRecv[1].kind = "SOH"
  PROVE  /\ file = "closed" => toRecv[1].seq = 0 /\ toRecv[1].data[1] = Pad
         /\ file # "closed" => /\ ~send_eot /\ ~send_fin
                               /\ sendStatus = "MORE"
         /\ file = "none" /\ ymodem_send =>
              /\ toRecv[1].seq = 0 /\ toRecv[1].data[1] # Pad
              /\ pos = 0
         /\ file = "none" /\ ~ymodem_send =>
              /\ toRecv[1].seq = 1 /\ toRecv[1].data = DataBlock(0)
              /\ pos = 1
         /\ file = "open" /\ send_hdr => toRecv[1].seq = 0 /\ pos = 0
         /\ file = "open" /\ ~send_hdr =>
              /\ toRecv[1].seq = pos % SeqMod
              /\ toRecv[1].data = DataBlock(pos - 1)
              /\ pos > 0
<1> DEFINE m == toRecv[1]
<1>1. SeqMod \in Nat \ {0} /\ 0 % SeqMod = 0 /\ 1 % SeqMod = 1
      /\ FileSize \in Nat /\ BlockSize \in Nat \ {0}
  <2>1. SeqMod \in Nat \ {0} /\ 0 \in 0 .. SeqMod - 1 /\ 1 \in 0 .. SeqMod - 1
    BY LineConstantsOK
  <2>2. QED
    BY <2>1, Lemmas!ModSmall, LineConstantsOK
<1>2. CASE file = "closed"
  <2>1. m = SOH(0, NulBlock)
    BY <1>2 DEF Knows, Fresh
  <2>2. m.seq = 0 /\ m.data = NulBlock
    BY <2>1 DEF SOH
  <2>3. NulBlock[1] = Pad
    BY <1>1 DEF NulBlock
  <2>4. QED
    BY <1>2, <2>2, <2>3
<1>3. CASE file # "closed"
  <2>1. m = packet /\ ~send_eot /\ ~send_fin /\ sendStatus = "MORE"
    BY <1>3 DEF Knows, Fresh
  <2>2. /\ send_seq = pos % SeqMod
        /\ IF send_hdr
           THEN ymodem_send /\ pos = 0 /\ packet = SOH(0, HeaderBlock)
           ELSE pos > 0 /\ packet = SOH(send_seq, DataBlock(pos - 1))
    BY <2>1 DEF Knows, SenderKnows
  <2>3. send_hdr => ymodem_send /\ pos = 0 /\ m.seq = 0 /\ m.data = HeaderBlock
    BY <2>1, <2>2 DEF SOH
  <2>4. ~send_hdr => /\ pos > 0 /\ m.seq = pos % SeqMod
                     /\ m.data = DataBlock(pos - 1)
    BY <2>1, <2>2 DEF SOH
  <2>5. HeaderBlock[1] # Pad
    <3>1. HeaderBlock[1] = FileSize + 1
      BY <1>1 DEF HeaderBlock, NameUnit
    <3>2. QED
      BY <1>1, <3>1 DEF Pad
  <2>6. file = "none" /\ ymodem_send => send_hdr
    BY DEF Knows, FileKnown
  <2>7. file = "none" /\ ~ymodem_send => ~send_hdr /\ pos = 1
    BY <2>1, <2>3 DEF Knows, FileKnown
  <2>8. pos = 1 /\ ~send_hdr => m.seq = 1 /\ m.data = DataBlock(0)
    BY <1>1, <2>4
  <2> HIDE DEF m
  <2>9. file = "none" /\ ymodem_send => m.seq = 0 /\ m.data[1] # Pad /\ pos = 0
    BY <2>3, <2>5, <2>6
  <2>10. file = "none" /\ ~ymodem_send =>
           m.seq = 1 /\ m.data = DataBlock(0) /\ pos = 1
    BY <2>7, <2>8
  <2>11. QED
    BY <1>3, <2>1, <2>3, <2>4, <2>9, <2>10 DEF m
<1>4. QED
  BY <1>2, <1>3

(* A message that brings no answer leaves less under way. *)
LEMMA ReadInFlight ==
  ASSUME TypeOK, Knows, yrecv, UNCHANGED toSend,
         file' = "closed" \/ file # "closed"
  PROVE  OneInFlight'
<1> SUFFICES ASSUME file # "closed" PROVE OneInFlight'
  BY DEF OneInFlight
<1>0. /\ Len(toRecv') \in Nat
      /\ \A i \in 1 .. Len(toRecv') :
           toRecv'[i] = toRecv[i + 1] /\ i + 1 \in 1 .. Len(toRecv)
  BY MessageRead
<1>1. \A i, j \in 1 .. Len(toRecv') :
        toRecv'[i].kind # "CAN" /\ toRecv'[j].kind # "CAN" => i = j
  <2> SUFFICES ASSUME NEW i \in 1 .. Len(toRecv'),
                      NEW j \in 1 .. Len(toRecv'),
                      toRecv'[i].kind # "CAN", toRecv'[j].kind # "CAN"
               PROVE  i = j
    OBVIOUS
  <2>1. i + 1 \in 1 .. Len(toRecv) /\ j + 1 \in 1 .. Len(toRecv)
        /\ toRecv[i + 1].kind # "CAN" /\ toRecv[j + 1].kind # "CAN"
    BY <1>0
  <2>2. i + 1 = j + 1
    BY <2>1 DEF Knows, OneInFlight
  <2>3. QED
    BY <1>0, <2>2
<1>2. toSend' # << >> => \A i \in 1 .. Len(toRecv') : toRecv'[i].kind = "CAN"
  BY <1>0 DEF Knows, OneInFlight
<1>3. QED
  BY <1>1, <1>2 DEF Knows, OneInFlight

(* A message that brings no answer and nothing for the file. *)
LEMMA SilentKnows ==
  ASSUME TypeOK, Knows, yrecv,
         UNCHANGED << toSend, opened, xmodem, old_seq, seq >>,
         UNCHANGED << file_size, file, received >>,
         recvStatus' = recvStatus \/ file # "open"
  PROVE  Knows' /\ FileStep
<1>1. /\ Len(toRecv') \in Nat
      /\ \A i \in 1 .. Len(toRecv') :
           toRecv'[i] = toRecv[i + 1] /\ i + 1 \in 1 .. Len(toRecv)
      /\ UNCHANGED sender
      /\ recvStatus = "MORE"
  BY MessageRead
<1>2. SenderKnows'
  BY <1>1, SenderKept DEF Knows
<1>3. OneInFlight'
  BY ReadInFlight
<1>4. Fresh'
  BY <1>1 DEF Knows, Fresh, sender
<1>5. AcksKnown'
  <2>1. \A i \in 1 .. Len(toSend) : toSend[i] # "CAN"
    BY <1>1 DEF Knows, AcksKnown
  <2>2. QED
    BY <1>1, <2>1 DEF Knows, AcksKnown, sender
<1>6. FileKnown'
  <2>1. InStep => InStep'
    BY <1>1, InStepKept DEF sender
  <2>2. QED
    BY <1>1, <2>1 DEF Knows, FileKnown, sender
<1>7. FileStep
  BY <1>1 DEF FileStep, sender
<1>8. QED
  BY <1>2, <1>3, <1>4, <1>5, <1>6, <1>7 DEF Knows

(* A packet or an EOT, which is all that is under way, is answered. *)
LEMMA AnswerGiven ==
  ASSUME TypeOK, Knows, yrecv, file # "closed", Head(toRecv).kind # "CAN",
         NEW cs, Answers(cs),
         \/ \E a \in {"ACK", "NAK"} : cs = << a >>
         \/ cs = << "CAN", "CAN" >>
         \/ cs = << "ACK", "C" >> /\ file' = "closed"
  PROVE  SenderKnows' /\ OneInFlight' /\ Fresh' /\ toSend' = cs
<1>1. /\ toSend = << >>
      /\ Len(toRecv') \in Nat
      /\ \A i \in 1 .. Len(toRecv') : toRecv'[i].kind = "CAN"
      /\ UNCHANGED sender
      /\ recvStatus = "MORE"
  BY MessageRead
<1>2. toSend' = cs
  <2>1. toSend' = << >> \o cs
    BY <1>1 DEF Answers
  <2>2. cs \in Seq({"ACK", "NAK", "CAN", "C"})
    <3>1. \A a, b \in {"ACK", "NAK", "CAN", "C"} :
            /\ << a >> \in Seq({"ACK", "NAK", "CAN", "C"})
            /\ << a, b >> \in Seq({"ACK", "NAK", "CAN", "C"})
      OBVIOUS
    <3>2. QED
      BY <3>1
  <2>3. QED
    BY <2>1, <2>2
<1>3. SenderKnows'
  BY <1>1, SenderKept DEF Knows
<1>4. file' # "closed" =>
        \/ Len(toSend') <= 1
        \/ \A i \in 1 .. Len(toSend') : toSend'[i] = "CAN"
  <2>1. CASE \E a \in {"ACK", "NAK"} : cs = << a >>
    BY <1>2, <2>1
  <2>2. CASE cs = << "CAN", "CAN" >>
    <3>1. /\ Len(<< "CAN", "CAN" >>) = 2
          /\ \A i \in 1 .. 2 : << "CAN", "CAN" >>[i] = "CAN"
      OBVIOUS
    <3>2. QED
      BY <1>2, <2>2, <3>1
  <2>3. QED
    BY <2>1, <2>2
<1>5. OneInFlight'
  BY <1>1, <1>4 DEF OneInFlight
<1>6. sendStatus' = "MORE"
  BY <1>1 DEF Knows, Fresh, sender
<1>7. Fresh'
  BY <1>1, <1>6 DEF Fresh
<1>8. QED
  BY <1>2, <1>3, <1>5, <1>7

(* The last, empty header ends the transfer. *)
LEMMA NoMoreFilesKnows ==
  ASSUME TypeOK, Knows, yrecv, ~opened, Head(toRecv).kind = "SOH",
         Head(toRecv).seq = 0, Head(toRecv).data[1] = Pad, NoMoreFiles
  PROVE  Knows' /\ FileStep
<1>1. /\ Head(toRecv) = toRecv[1] /\ 1 \in 1 .. Len(toRecv)
      /\ Len(toRecv') \in Nat
      /\ \A i \in 1 .. Len(toRecv') :
           toRecv'[i] = toRecv[i + 1] /\ i + 1 \in 1 .. Len(toRecv)
      /\ UNCHANGED sender
      /\ recvStatus = "MORE"
  BY MessageRead
<1>2. file = "closed"
  <2>1. file # "none"
    BY <1>1, PacketExpected
  <2>2. file \in {"none", "open", "closed", "canceled"}
    BY DEF TypeOK, RecvTypeOK
  <2>3. QED
    BY <1>1, <2>1, <2>2 DEF Knows, FileKnown
<1>3. UNCHANGED << file, received >> /\ recvStatus' = "DONE"
  BY DEF NoMoreFiles, FileUnchanged, Ends
<1>4. SenderKnows'
  BY <1>1, SenderKept DEF Knows
<1>5. OneInFlight'
  BY <1>2, <1>3 DEF OneInFlight
<1>6. Fresh'
  BY <1>1, <1>2, <1>3 DEF Knows, Fresh
<1>7. AcksKnown'
  BY <1>2, <1>3 DEF AcksKnown
<1>8. FileKnown'
  BY <1>1, <1>2, <1>3 DEF Knows, FileKnown, sender
<1>9. FileStep
  BY <1>1, <1>3 DEF FileStep, sender
<1>10. QED
  BY <1>4, <1>5, <1>6, <1>7, <1>8, <1>9 DEF Knows

(* When open() fails, the receiver cancels. *)
LEMMA OpenFailsKnows ==
  ASSUME TypeOK, Knows, yrecv, file = "none", Head(toRecv).kind = "SOH",
         Answers(<< "CAN", "CAN" >>), recvStatus' # "MORE",
         UNCHANGED << xmodem, file, received >>
  PROVE  Knows' /\ FileStep
<1>1. SenderKnows' /\ OneInFlight' /\ Fresh' /\ toSend' = << "CAN", "CAN" >>
  BY AnswerGiven
<1>2. UNCHANGED sender
  BY MessageRead
<1>3. AcksKnown'
  BY <1>1 DEF AcksKnown
<1>4. FileKnown'
  BY <1>2 DEF Knows, FileKnown, sender
<1>5. QED
  BY <1>1, <1>2, <1>3, <1>4 DEF Knows, FileStep, sender

(* The header opens the file. *)
LEMMA HeaderKnows ==
  ASSUME TypeOK, Knows, yrecv, ~opened, Head(toRecv).kind = "SOH",
         Head(toRecv).seq = 0, Head(toRecv).data[1] # Pad, HeaderArrives
  PROVE  Knows' /\ FileStep
<1>1. /\ Head(toRecv) = toRecv[1] /\ 1 \in 1 .. Len(toRecv)
      /\ UNCHANGED sender
      /\ recvStatus = "MORE"
  BY MessageRead
<1>2. file = "none"
  <2>1. file # "closed"
    BY <1>1, PacketExpected
  <2>2. file \in {"none", "open", "closed", "canceled"}
    BY DEF TypeOK, RecvTypeOK
  <2>3. QED
    BY <1>1, <2>1, <2>2 DEF Knows, FileKnown
<1>3. /\ ymodem_send /\ pos = 0 /\ ~send_eot /\ ~send_fin
      /\ sendStatus = "MORE"
  BY <1>1, <1>2, PacketExpected
<1>4. ~xmodem
  BY <1>2 DEF Knows, FileKnown
<1>5. CASE recvStatus' # "MORE"
  <2>1. Answers(<< "CAN", "CAN" >>) /\ UNCHANGED << xmodem, file, received >>
    BY <1>1, <1>5 DEF HeaderArrives, GoesOn
  <2>2. QED
    BY <1>2, <1>5, <2>1, OpenFailsKnows
<1>6. CASE recvStatus' = "MORE"
  <2>1. /\ Open(FileSize) /\ Answers(<< "ACK" >>)
        /\ old_seq' = 0 /\ seq' = 1 /\ opened' = TRUE /\ xmodem' = xmodem
    BY <1>6 DEF HeaderArrives, Ends
  <2>2. SenderKnows' /\ OneInFlight' /\ Fresh' /\ toSend' = << "ACK" >>
    BY <1>2, <2>1, AnswerGiven
  <2>3. file' = "open" /\ received' = << >> /\ file_size' = FileSize
    BY <2>1 DEF Open
  <2>4. AcksKnown'
    BY <1>1, <1>3, <2>2, <2>3 DEF AcksKnown, sender
  <2>5. Taken(0)'
    <3>1. FileSize \in Nat /\ BlockSize \in Nat \ {0} /\ 0 % SeqMod = 0
          /\ (0 + 1) % SeqMod = 1
      <4>1. /\ SeqMod \in Nat \ {0} /\ 0 \in 0 .. SeqMod - 1
            /\ 1 \in 0 .. SeqMod - 1 /\ 0 + 1 = 1
        BY LineConstantsOK
      <4>2. QED
        BY <4>1, Lemmas!ModSmall, LineConstantsOK
    <3>2. 0 * BlockSize = 0 /\ FileSize - 0 = FileSize /\ ~(0 > FileSize)
      BY <3>1
    <3>3. Units(0)' = 0
      BY <3>2 DEF Units
    <3>4. Transfer!Prefix(0) = << >>
      BY DEF Transfer!Prefix
    <3>5. QED
      BY <1>4, <2>1, <2>3, <3>1, <3>2, <3>3, <3>4 DEF Taken
  <2>6. FileKnown'
    <3>1. pos' = 0 /\ ymodem_send' = ymodem_send /\ ~send_fin'
          /\ sendStatus' = "MORE"
      BY <1>1, <1>3 DEF sender
    <3>2. InStep'
      BY <2>5, <3>1 DEF InStep
    <3>3. xmodem' = ~ymodem_send'
      BY <1>3, <1>4, <2>1, <3>1, KnownTypes
    <3>4. QED
      BY <1>6, <2>1, <2>3, <3>1, <3>2, <3>3 DEF FileKnown
  <2>7. FileStep
    BY <1>1, <1>2, <2>3 DEF FileStep, Transfer!Next, Transfer!Open, sender
  <2>8. QED
    BY <2>2, <2>4, <2>6, <2>7 DEF Knows
<1>7. QED
  BY <1>5, <1>6

(* Writing block n to a file that has all blocks before it. *)
LEMMA BlockWritten ==
  ASSUME NEW n \in Nat, NEW u \in Nat, u = n * BlockSize,
         NEW size, size = Unknown \/ (u < FileSize /\ size = FileSize - u)
  PROVE  LET w == Written(size, DataBlock(n))
             k == Len(w[1])
         IN  /\ k \in 1 .. BlockSize
             /\ Transfer!Prefix(u) \o w[1] = Transfer!Prefix(u + k)
             /\ w[2] = IF size = Unknown THEN Unknown ELSE FileSize - (u + k)
             /\ u + k = IF size # Unknown /\ (n + 1) * BlockSize > FileSize
                        THEN FileSize ELSE (n + 1) * BlockSize
<1> DEFINE w == Written(size, DataBlock(n))
           k == IF size = Unknown \/ size >= BlockSize THEN BlockSize
                ELSE size
<1>1. FileSize \in Nat /\ BlockSize \in Nat \ {0} /\ Unknown = -1
  BY LineConstantsOK DEF Unknown
<1>2. size \in 0 .. FileSize \cup {Unknown} /\ (size = Unknown \/ size > 0)
  BY <1>1
<1>3. DataBlock(n) \in Block
  BY BlockProps
<1>4. k \in 1 .. BlockSize
  BY <1>1, <1>2
<1>5. /\ w[1] \in Seq(0 .. NameUnit) /\ Len(w[1]) = k
      /\ \A i \in 1 .. k : w[1][i] = DataBlock(n)[i]
  <2>1. /\ w[1] \in Seq(0 .. NameUnit)
        /\ Len(w[1]) = k
        /\ \A i \in 1 .. Len(w[1]) : w[1][i] = DataBlock(n)[i]
    BY ONLY <1>2, <1>3, WrittenProps DEF w, k
  <2>2. QED
    BY <2>1
<1>6. \A i \in 1 .. BlockSize :
        DataBlock(n)[i] = IF u + i <= FileSize THEN u + i ELSE Pad
  BY DEF DataBlock
<1>7. w[2] = IF size = Unknown THEN Unknown ELSE FileSize - (u + k)
  <2>1. CASE size = Unknown
    BY <2>1 DEF Written
  <2>2. CASE size # Unknown /\ size >= BlockSize
    <3>1. w[2] = size - BlockSize /\ k = BlockSize
      BY <2>2 DEF Written
    <3>2. QED
      BY <1>1, <2>2, <3>1
  <2>3. CASE size # Unknown /\ ~(size >= BlockSize)
    <3>1. w[2] = 0 /\ k = size
      BY <2>3 DEF Written
    <3>2. u < FileSize /\ size = FileSize - u
      BY <2>3
    <3> HIDE DEF w, k
    <3>3. FileSize - (u + k) = 0
      BY <1>1, <3>1, <3>2
    <3>4. QED
      BY <2>3, <3>1, <3>3
  <2>4. QED
    BY <2>1, <2>2, <2>3
<1>8. u + BlockSize = (n + 1) * BlockSize
  BY <1>1
<1>9. u + k = IF size # Unknown /\ (n + 1) * BlockSize > FileSize
              THEN FileSize ELSE (n + 1) * BlockSize
  <2>1. CASE size = Unknown
    BY <1>8, <2>1
  <2>2. CASE size # Unknown /\ size >= BlockSize
    <3>1. u + BlockSize <= FileSize
      BY <1>1, <2>2
    <3>2. ~((n + 1) * BlockSize > FileSize)
      BY <1>1, <1>8, <3>1
    <3>3. k = BlockSize
      BY <2>2
    <3> HIDE DEF k
    <3>4. QED
      BY <1>8, <3>2, <3>3
  <2>3. CASE size # Unknown /\ ~(size >= BlockSize)
    <3>1. k = size /\ size = FileSize - u /\ size < BlockSize
      BY <1>1, <1>2, <2>3
    <3> HIDE DEF k
    <3>2. u + k = FileSize /\ u + BlockSize > FileSize
      BY <1>1, <3>1
    <3>3. QED
      BY <1>8, <2>3, <3>2
  <2>4. QED
    BY <2>1, <2>2, <2>3
<1> HIDE DEF w, k
<1>10. Transfer!Prefix(u) \o w[1] = Transfer!Prefix(u + k)
  <2>1. k \in Nat
    BY <1>1, <1>4
  <2>2. \A i \in 1 .. k : w[1][i] = IF u + i <= FileSize THEN u + i ELSE Pad
    BY <1>1, <1>4, <1>5, <1>6
  <2>3. QED
    BY <1>5, <2>1, <2>2, PrefixExtends
<1>11. k = Len(w[1])
  BY <1>5
<1>12. QED
  BY <1>4, <1>7, <1>9, <1>10, <1>11 DEF w

(* In an XMODEM transfer the first block opens the file. *)
LEMMA AnonymousKnows ==
  ASSUME TypeOK, Knows, yrecv, ~opened, Head(toRecv).kind = "SOH",
         Head(toRecv).seq = 1, AnonymousArrives(Head(toRecv).data)
  PROVE  Knows' /\ FileStep
<1>1. /\ Head(toRecv) = toRecv[1] /\ 1 \in 1 .. Len(toRecv)
      /\ UNCHANGED sender
      /\ recvStatus = "MORE"
  BY MessageRead
<1>2. file = "none"
  <2>1. file # "closed"
    BY <1>1, PacketExpected
  <2>2. file \in {"none", "open", "closed", "canceled"}
    BY DEF TypeOK, RecvTypeOK
  <2>3. QED
    BY <1>1, <2>1, <2>2 DEF Knows, FileKnown
<1>3. /\ ~ymodem_send /\ pos = 1 /\ ~send_eot /\ ~send_fin
      /\ sendStatus = "MORE" /\ Head(toRecv).data = DataBlock(0)
  BY <1>1, <1>2, PacketExpected
<1>4. CASE recvStatus' # "MORE"
  <2>1. Answers(<< "CAN", "CAN" >>) /\ UNCHANGED << xmodem, file, received >>
    BY <1>1, <1>4 DEF AnonymousArrives, GoesOn
  <2>2. QED
    BY <1>2, <1>4, <2>1, OpenFailsKnows
<1>5. CASE recvStatus' = "MORE"
  <2>1. /\ file' = "open" /\ Answers(<< "ACK" >>)
        /\ Write(Unknown, DataBlock(0))
        /\ old_seq' = 1 /\ seq' = NextSeq(1)
        /\ opened' = TRUE /\ xmodem' = TRUE
    BY <1>3, <1>5 DEF AnonymousArrives, Ends
  <2>2. SenderKnows' /\ OneInFlight' /\ Fresh' /\ toSend' = << "ACK" >>
    BY <1>2, <2>1, AnswerGiven
  <2>3. BlockSize \in Nat \ {0} /\ 0 * BlockSize = 0
        /\ 1 * BlockSize = BlockSize
        /\ (0 + 1) * BlockSize = BlockSize
    BY LineConstantsOK
  <2>4. received' = Transfer!Prefix(BlockSize) /\ file_size' = Unknown
    <3> DEFINE w == Written(Unknown, DataBlock(0))
           k == Len(w[1])
    <3>1. /\ k \in 1 .. BlockSize
          /\ Transfer!Prefix(0) \o w[1] = Transfer!Prefix(0 + k)
          /\ w[2] = Unknown
          /\ 0 + k = (0 + 1) * BlockSize
      BY <2>3, BlockWritten
    <3>2. Transfer!Prefix(0) = << >>
      BY DEF Transfer!Prefix
    <3>3. received' = << >> \o w[1] /\ file_size' = w[2]
      BY <2>1 DEF Write
    <3> HIDE DEF w, k
    <3>4. QED
      BY <2>3, <3>1, <3>2, <3>3
  <2>5. AcksKnown'
    BY <1>1, <1>3, <2>1, <2>2 DEF AcksKnown, sender
  <2>6. Taken(1)'
    <3>1. 1 % SeqMod = 1 /\ NextSeq(1) = (1 + 1) % SeqMod
      <4>1. SeqMod \in Nat \ {0} /\ 1 \in 0 .. SeqMod - 1
        BY LineConstantsOK
      <4>2. QED
        BY <4>1, Lemmas!ModSmall DEF NextSeq
    <3>2. Units(1)' = BlockSize
      BY <2>1, <2>3 DEF Units
    <3>3. QED
      BY <2>1, <2>4, <3>1, <3>2 DEF Taken
  <2>7. FileKnown'
    <3>1. pos' = 1 /\ ymodem_send' = ymodem_send /\ ~send_fin'
          /\ sendStatus' = "MORE"
      BY <1>1, <1>3 DEF sender
    <3>2. InStep'
      BY <2>6, <3>1 DEF InStep
    <3>3. xmodem' = ~ymodem_send'
      BY <1>3, <2>1, <3>1
    <3>4. QED
      BY <1>5, <2>1, <3>1, <3>2, <3>3 DEF FileKnown
  <2>8. FileStep
    <3>1. Transfer!Open
      BY <1>2, <2>1, <2>4 DEF Transfer!Open
    <3>2. QED
      BY <1>1, <3>1 DEF FileStep, Transfer!Next, sender
  <2>9. QED
    BY <2>2, <2>5, <2>7, <2>8 DEF Knows
<1>6. QED
  BY <1>4, <1>5

(***************************************************************************)
(* A block is new to the receiver if it is behind by one, and old if it    *)
(* has all that was sent; it is never out of step.                         *)
(***************************************************************************)
LEMMA DataKnows ==
  ASSUME TypeOK, Knows, yrecv, opened, Head(toRecv).kind = "SOH",
         DataArrives(Head(toRecv))
  PROVE  Knows' /\ FileStep
<1> DEFINE m == Head(toRecv)
<1>1. /\ m = toRecv[1] /\ 1 \in 1 .. Len(toRecv) /\ UNCHANGED sender
      /\ recvStatus = "MORE"
  BY MessageRead
<1>2. file = "open" /\ InStep /\ xmodem = ~ymodem_send
  BY <1>1 DEF Knows, FileKnown
<1>3. ~send_eot /\ ~send_fin /\ sendStatus = "MORE"
  BY <1>1, <1>2, PacketExpected
<1>4. pos \in Nat /\ FileSize \in Nat /\ BlockSize \in Nat \ {0}
  BY KnownTypes, LineConstantsOK
<1>5. m.seq = pos % SeqMod /\ (pos > 0 => ~send_hdr)
  <2>1. CASE send_hdr
    <3>1. m.seq = 0 /\ pos = 0
      BY <1>1, <1>2, <2>1, PacketExpected
    <3>2. 0 % SeqMod = 0
      <4>1. SeqMod \in Nat \ {0} /\ 0 \in 0 .. SeqMod - 1
        BY LineConstantsOK
      <4>2. QED
        BY <4>1, Lemmas!ModSmall
    <3>3. QED
      BY <3>1, <3>2
  <2>2. CASE ~send_hdr
    BY <1>1, <1>2, <2>2, PacketExpected
  <2>3. QED
    BY <2>1, <2>2
<1>6. /\ opened' = opened /\ xmodem' = xmodem /\ pos' = pos
      /\ ymodem_send' = ymodem_send /\ ~send_eot' /\ ~send_fin'
      /\ sendStatus' = "MORE"
  BY <1>1, <1>3 DEF DataArrives, sender
<1>7. ASSUME InStep', file' = "open", recvStatus' = "MORE",
             Answers(<< "ACK" >>), FileStep
      PROVE  Knows' /\ FileStep
  <2>1. SenderKnows' /\ OneInFlight' /\ Fresh' /\ toSend' = << "ACK" >>
    BY <1>2, <1>7, AnswerGiven
  <2>2. AcksKnown'
    BY <1>6, <1>7, <2>1 DEF AcksKnown
  <2>3. FileKnown'
    BY <1>2, <1>6, <1>7 DEF FileKnown
  <2>4. QED
    BY <1>7, <2>1, <2>2, <2>3 DEF Knows
<1> HIDE DEF m
<1>8. CASE Taken(pos)
  <2>1. m.seq = old_seq
    BY <1>5, <1>8 DEF Taken
  <2>2. /\ Answers(<< "ACK" >>) /\ GoesOn /\ FileUnchanged
        /\ UNCHANGED << old_seq, seq >>
    BY <2>1 DEF DataArrives, m
  <2>3. Taken(pos)'
    BY <1>6, <1>8, <2>2 DEF Taken, Units, FileUnchanged
  <2>4. FileStep
    BY <1>6, <2>2 DEF FileStep, FileUnchanged
  <2>5. QED
    BY <1>1, <1>2, <1>7, <2>2, <2>3, <2>4 DEF GoesOn, FileUnchanged, InStep
<1>9. CASE Taken(pos - 1) /\ pos > 0
  <2> DEFINE n == pos - 1
             u == n * BlockSize
  <2>1. n \in Nat /\ u \in Nat /\ u < FileSize /\ n + 1 = pos
    <3>1. pos > 0 => (pos - 1) * BlockSize < FileSize
      BY DEF Knows, SenderKnows
    <3>2. QED
      BY <1>4, <1>9, <3>1
  <2>2. m.data = DataBlock(n)
    BY <1>1, <1>2, <1>5, <1>9, PacketExpected
  <2>3. /\ old_seq = n % SeqMod /\ seq = pos % SeqMod
        /\ received = Transfer!Prefix(u)
        /\ file_size = IF xmodem THEN Unknown ELSE FileSize - u
    <3>1. Units(n) = u
      BY <1>4, <2>1 DEF Units
    <3>2. QED
      BY <1>9, <2>1, <3>1 DEF Taken
  <2>4. m.seq # old_seq /\ m.seq = seq /\ NextSeq(seq) = (pos + 1) % SeqMod
    BY <1>4, <1>5, <2>1, <2>3, SeqnoProps
  <2>5. /\ Write(file_size, DataBlock(n)) /\ Answers(<< "ACK" >>)
        /\ old_seq' = seq /\ seq' = NextSeq(seq)
        /\ GoesOn /\ UNCHANGED file
    BY <2>2, <2>4 DEF DataArrives, m
  <2> DEFINE w == Written(file_size, DataBlock(n))
             k == Len(w[1])
  <2>6. /\ k \in 1 .. BlockSize
        /\ Transfer!Prefix(u) \o w[1] = Transfer!Prefix(u + k)
        /\ w[2] = IF file_size = Unknown THEN Unknown ELSE FileSize - (u + k)
        /\ u + k = IF file_size # Unknown /\ (n + 1) * BlockSize > FileSize
                   THEN FileSize ELSE (n + 1) * BlockSize
    <3>1. file_size = Unknown \/ (u < FileSize /\ file_size = FileSize - u)
      BY <2>1, <2>3
    <3>2. u = n * BlockSize
      OBVIOUS
    <3> HIDE DEF n, u
    <3>0. n \in Nat /\ u \in Nat
      BY <2>1
    <3>3. k \in 1 .. BlockSize
      BY ONLY <3>0, <3>1, <3>2, BlockWritten
    <3>4. Transfer!Prefix(u) \o w[1] = Transfer!Prefix(u + k)
      BY ONLY <3>0, <3>1, <3>2, BlockWritten
    <3>5. w[2] = IF file_size = Unknown THEN Unknown ELSE FileSize - (u + k)
      BY ONLY <3>0, <3>1, <3>2, BlockWritten
    <3>6. u + k = IF file_size # Unknown /\ (n + 1) * BlockSize > FileSize
                  THEN FileSize ELSE (n + 1) * BlockSize
      BY ONLY <3>0, <3>1, <3>2, BlockWritten
    <3>7. QED
      BY <3>3, <3>4, <3>5, <3>6
  <2> HIDE DEF n, u
  <2>7. received' = received \o w[1] /\ file_size' = w[2]
    BY <2>5 DEF Write
  <2> HIDE DEF w, k
  <2>8. file_size = Unknown <=> xmodem
    BY <1>4, <2>1, <2>3 DEF Unknown
  <2>9. received' = Transfer!Prefix(u + k)
    BY <2>3, <2>6, <2>7
  <2>10. u + k = IF ~xmodem /\ pos * BlockSize > FileSize THEN FileSize
                 ELSE pos * BlockSize
    BY <2>1, <2>6, <2>8
  <2>11. Taken(pos)'
    <3>1. Units(pos)' = u + k
      BY <1>6, <2>10 DEF Units
    <3>2. file_size' = IF xmodem THEN Unknown ELSE FileSize - (u + k)
      BY <2>6, <2>7, <2>8
    <3>3. QED
      BY <1>6, <2>3, <2>4, <2>5, <2>9, <3>1, <3>2 DEF Taken
  <2>12. FileStep
    <3>1. Len(received) = u
      BY <2>1, <2>3, PrefixProps
    <3>2. xmodem \/ Len(received) + k <= FileSize
      BY <1>4, <2>10, <3>1
    <3>3. xmodem => ~ymodem_send
      BY <1>2
    <3>4. Transfer!WriteBlock
      BY <1>2, <2>5, <2>6, <2>9, <3>1, <3>2, <3>3 DEF Transfer!WriteBlock
    <3>5. QED
      BY <1>6, <3>4 DEF FileStep, Transfer!Next
  <2>13. QED
    BY <1>1, <1>2, <1>7, <2>5, <2>11, <2>12 DEF GoesOn, InStep
<1>10. QED
  BY <1>2, <1>8, <1>9 DEF InStep

(* The second of two cancels cancels the file. *)
LEMMA OpenCanKnows ==
  ASSUME TypeOK, Knows, yrecv, opened, OpenCan
  PROVE  Knows' /\ FileStep
<1>1. recvStatus = "MORE" /\ UNCHANGED sender
  BY MessageRead
<1>2. file = "open"
  BY <1>1 DEF Knows, FileKnown
<1>3. CASE ~can
  BY <1>3, SilentKnows DEF OpenCan, Silent, GoesOn, FileUnchanged
<1>4. CASE can
  <2>1. /\ file' = "canceled" /\ UNCHANGED << file_size, received >>
        /\ recvStatus' = "REMOTE_CANCEL" /\ UNCHANGED toSend
    BY <1>4 DEF OpenCan, Close, Ends, Silent
  <2>2. SenderKnows'
    BY <1>1, SenderKept DEF Knows
  <2>3. OneInFlight'
    BY <1>2, <2>1, ReadInFlight
  <2>4. Fresh'
    BY <2>1 DEF Fresh
  <2>5. AcksKnown'
    BY <1>1, <1>2, <2>1 DEF Knows, AcksKnown, sender
  <2>6. FileKnown'
    BY <1>1, <1>2, <2>1 DEF Knows, FileKnown, sender
  <2>7. FileStep
    BY <1>1, <1>2, <2>1
    DEF FileStep, Transfer!Next, Transfer!Cancel, sender
  <2>8. QED
    BY <2>2, <2>3, <2>4, <2>5, <2>6, <2>7 DEF Knows
<1>5. QED
  BY <1>3, <1>4

(* An EOT comes when the receiver has all blocks; it closes the file. *)
LEMMA EotKnows ==
  ASSUME TypeOK, Knows, yrecv, opened, Head(toRecv).kind = "EOT", EotArrives
  PROVE  Knows' /\ FileStep
<1>1. /\ Head(toRecv) = toRecv[1] /\ 1 \in 1 .. Len(toRecv)
      /\ UNCHANGED sender /\ recvStatus = "MORE"
  BY MessageRead
<1>2. file = "open" /\ InStep /\ xmodem = ~ymodem_send
  BY <1>1 DEF Knows, FileKnown
<1>3. send_eot /\ sendStatus = "MORE"
  BY <1>1, <1>2 DEF Knows, Fresh
<1>4. Taken(pos) /\ EndOfFile /\ ~send_fin
  BY <1>2, <1>3 DEF Knows, SenderKnows, InStep
<1>5. Len(received) >= FileSize
  <2>1. pos \in Nat /\ FileSize \in Nat /\ BlockSize \in Nat \ {0}
    BY KnownTypes, LineConstantsOK
  <2>2. pos * BlockSize \in Nat /\ pos * BlockSize >= FileSize
    BY <1>4, <2>1 DEF EndOfFile
  <2>3. Units(pos) \in Nat /\ Units(pos) >= FileSize
    BY <2>1, <2>2 DEF Units
  <2>4. received = Transfer!Prefix(Units(pos))
    BY <1>4 DEF Taken
  <2>5. QED
    BY <2>3, <2>4, PrefixProps
<1>6. CASE xmodem \/ got_eot
  <2>1. /\ file' = "closed" /\ UNCHANGED received
        /\ \/ Answers(<< "ACK" >>) /\ recvStatus' = "DONE"
           \/ Answers(<< "ACK", "C" >>) /\ opened' = FALSE
    BY <1>6 DEF EotArrives, Close, Ends, ymodem_recv_init
  <2>2. /\ SenderKnows' /\ OneInFlight' /\ Fresh'
        /\ toSend' = << "ACK" >> \/ toSend' = << "ACK", "C" >>
    BY <1>2, <2>1, AnswerGiven
  <2>3. AcksKnown'
    <3>1. \A i \in 1 .. Len(toSend') : toSend'[i] # "CAN"
      BY <2>2
    <3>2. QED
      BY <2>1, <3>1 DEF AcksKnown
  <2>4. FileKnown'
    BY <1>1, <1>3, <1>5, <2>1 DEF FileKnown, sender
  <2>5. FileStep
    BY <1>1, <1>2, <1>5, <2>1 DEF FileStep, Transfer!Next, Transfer!Close,
      sender
  <2>6. QED
    BY <2>2, <2>3, <2>4, <2>5 DEF Knows
<1>7. CASE ~(xmodem \/ got_eot)
  <2>1. /\ FileUnchanged /\ Answers(<< "NAK" >>)
        /\ UNCHANGED << recvStatus, opened, xmodem, old_seq, seq >>
    BY <1>7 DEF EotArrives, GoesOn
  <2>2. SenderKnows' /\ OneInFlight' /\ Fresh' /\ toSend' = << "NAK" >>
    BY <1>2, <2>1, AnswerGiven
  <2>3. \A i \in 1 .. Len(toSend') : toSend'[i] = "NAK"
    BY <2>2
  <2>4. AcksKnown'
    BY <2>3 DEF AcksKnown
  <2>5. InStep'
    BY <1>1, <1>2, <2>1, <2>3, InStepKept DEF FileUnchanged, sender
  <2>6. FileKnown'
    BY <1>1, <1>2, <2>1, <2>5 DEF Knows, FileKnown, FileUnchanged, sender
  <2>7. FileStep
    BY <1>1, <2>1 DEF FileStep, FileUnchanged, sender
  <2>8. QED
    BY <2>2, <2>4, <2>6, <2>7 DEF Knows
<1>8. QED
  BY <1>6, <1>7

(* The receiver handles a message. *)
LEMMA MessageKnows ==
  ASSUME TypeOK, Knows, yrecv
  PROVE  Knows' /\ FileStep
<1>1. recvStatus = "MORE" /\ opened \in BOOLEAN /\ purge \in BOOLEAN
  BY MessageRead, KnownTypes
<1>2. CASE purge
  <2>1. UNCHANGED << toSend, recver >>
    BY <1>2 DEF yrecv, Message
  <2>2. QED
    BY <2>1, SilentKnows DEF recver, settings
<1>3. CASE ~purge /\ opened
  <2>1. Opened(Head(toRecv))
    BY <1>3 DEF yrecv, Message
  <2>2. CASE Purges
    BY <2>2, SilentKnows DEF Purges, Silent, GoesOn, FileUnchanged
  <2>3. QED
    BY <1>3, <2>1, <2>2, OpenCanKnows, DataKnows, EotKnows DEF Opened
<1>4. CASE ~purge /\ ~opened
  <2>1. Waiting(Head(toRecv))
    BY <1>4 DEF yrecv, Message
  <2>2. CASE Purges
    BY <2>2, SilentKnows DEF Purges, Silent, GoesOn, FileUnchanged
  <2>3. CASE WaitingCan
    <3>1. file # "open"
      BY <1>1, <1>4 DEF Knows, FileKnown
    <3>2. QED
      BY <2>3, <3>1, SilentKnows DEF WaitingCan, Silent, FileUnchanged
  <2>4. QED
    BY <1>4, <2>1, <2>2, <2>3, NoMoreFilesKnows, HeaderKnows,
      AnonymousKnows DEF Waiting
<1>5. QED
  BY <1>1, <1>2, <1>3, <1>4

(* In time, the timeout finds the line silent. *)
LEMMA TimeoutKnows ==
  ASSUME TypeOK, Knows, ~Late, yrecv_timeout
  PROVE  Knows' /\ FileStep
<1>1. /\ toSend = << >> /\ toRecv = << >> /\ UNCHANGED toRecv
      /\ UNCHANGED sender /\ recvStatus = "MORE"
  BY DEF yrecv_timeout, Timeout
<1>2. opened \in BOOLEAN /\ purge \in BOOLEAN /\ xmodem \in BOOLEAN
  BY KnownTypes
<1>3. /\ UNCHANGED << recvStatus, file_size, file, received >>
      /\ \/ UNCHANGED << opened, xmodem, old_seq, seq >>
         \/ ~opened /\ opened' = FALSE /\ xmodem' = FALSE
  BY DEF yrecv_timeout, Timeout, WaitingTimeout, OpenTimeout, GoesOn,
    FileUnchanged, ymodem_recv_init
<1>4. \/ toSend' = << >>
      \/ \E c \in {"C", "NAK"} : toSend' = << c >>
  <2>1. \/ UNCHANGED toSend
        \/ \E c \in {"C", "NAK"} : Answers(<< c >>)
    BY DEF yrecv_timeout, Timeout, WaitingTimeout, OpenTimeout, Silent
  <2>2. ASSUME NEW c \in {"C", "NAK"}, Answers(<< c >>)
        PROVE  toSend' = << c >>
    <3>1. << c >> \in Seq({"C", "NAK"})
      OBVIOUS
    <3>2. toSend' = << >> \o << c >>
      BY <1>1, <2>2 DEF Answers
    <3>3. QED
      BY <3>1, <3>2
  <2>3. QED
    BY <1>1, <2>1, <2>2
<1>5. /\ Len(toSend') <= 1
      /\ \A i \in 1 .. Len(toSend') : toSend'[i] \in {"C", "NAK"}
  <2>1. CASE toSend' = << >>
    BY <2>1
  <2>2. CASE \E c \in {"C", "NAK"} : toSend' = << c >>
    BY <2>2
  <2>3. QED
    BY <1>4, <2>1, <2>2
<1>6. SenderKnows'
  BY <1>1, SenderKept DEF Knows
<1>7. OneInFlight'
  BY <1>1, <1>5 DEF OneInFlight
<1>8. Fresh'
  BY <1>1, <1>3 DEF Knows, Fresh, sender
<1>9. AcksKnown'
  BY <1>5 DEF AcksKnown
<1>10. FileKnown'
  <2>1. CASE UNCHANGED << opened, xmodem, old_seq, seq >>
    <3>1. InStep => InStep'
      BY <1>1, <1>3, <1>5, <2>1, InStepKept DEF sender
    <3>2. QED
      BY <1>1, <1>3, <2>1, <3>1 DEF Knows, FileKnown, sender
  <2>2. CASE ~opened /\ opened' = FALSE /\ xmodem' = FALSE
    <3>1. file # "open"
      BY <1>1, <2>2 DEF Knows, FileKnown
    <3>2. QED
      BY <1>1, <1>3, <2>2, <3>1 DEF Knows, FileKnown, sender
  <2>3. QED
    BY <1>3, <2>1, <2>2
<1>11. FileStep
  BY <1>1, <1>3 DEF FileStep, sender
<1>12. QED
  BY <1>6, <1>7, <1>8, <1>9, <1>10, <1>11 DEF Knows

(* Every step keeps what is known, and is a step of the abstract transfer. *)
LEMMA NextKnows ==
  InTime /\ TypeOK /\ Knows /\ [Next]_vars => Knows' /\ FileStep
<1> SUFFICES ASSUME InTime, TypeOK, Knows, [Next]_vars
             PROVE  Knows' /\ FileStep
  OBVIOUS
<1>1. ~Late /\ ~DataHasEot
  BY DEF InTime
<1>2. CASE ysend
  <2>1. Knows'
    BY <1>2, SendAgainKnows, AckOfEotKnows, SenderEndsKnows, AckOfBlockKnows
    DEF ysend, SendTask
  <2>2. FileStep
    BY <1>2 DEF ysend, SendTask, recver, FileStep
  <2>3. QED
    BY <2>1, <2>2
<1>3. CASE yrecv
  BY <1>3, MessageKnows
<1>4. CASE yrecv_timeout
  BY <1>1, <1>4, TimeoutKnows
<1>5. CASE LineFault
  BY <1>1, <1>5, FaultKnows DEF LineFault, FileStep, sender, recver
<1>6. CASE TypesCtrlX
  BY <1>6, CtrlXKnows DEF TypesCtrlX, FileStep, sender, recver
<1>7. CASE CliReads
  BY <1>7, LineShrinks DEF CliReads, FileStep, sender, recver
<1>8. CASE UNCHANGED vars
  <2>1. UNCHANGED sender /\ UNCHANGED recver /\ UNCHANGED << toRecv, toSend >>
    BY <1>8 DEF vars, line
  <2>2. SenderKnows'
    BY <2>1, SenderKept DEF Knows
  <2>3. OneInFlight' /\ Fresh' /\ AcksKnown'
    BY <2>1 DEF Knows, OneInFlight, Fresh, AcksKnown, sender, recver
  <2>4. FileKnown'
    BY <2>1, FileKept DEF Knows
  <2>5. FileStep
    BY <2>1 DEF FileStep, sender, recver
  <2>6. QED
    BY <2>2, <2>3, <2>4, <2>5 DEF Knows
<1>9. QED
  BY <1>2, <1>3, <1>4, <1>5, <1>6, <1>7, <1>8 DEF Next

(***************************************************************************)
(* As long as answers come in time, the inductive invariant holds.         *)
(***************************************************************************)
THEOREM KnowsAlways == ASSUME InTime PROVE Spec => []Knows
<1>1. TypeOK /\ Knows /\ [Next]_vars => Knows'
  BY NextKnows
<1>2. QED
  BY <1>1, InitKnows, TypeCorrect, PTL DEF Spec

(***************************************************************************)
(* As long as answers come in time, a sender that reports the transfer     *)
(* complete leaves a receiver that has closed its file.                    *)
(***************************************************************************)
THEOREM EndsAgree == ASSUME InTime PROVE Spec => []SenderDoneMeansClosed
<1>1. Knows => SenderDoneMeansClosed
  BY DEF Knows, FileKnown, SenderDoneMeansClosed
<1>2. QED
  BY <1>1, KnowsAlways, PTL

(***************************************************************************)
(* As long as answers come in time, the receiver's file is written front   *)
(* to back, no block twice and none left out, and it is closed only when   *)
(* it is complete, whatever is lost, damaged or canceled.                  *)
(***************************************************************************)
THEOREM TransferImplemented == ASSUME InTime PROVE Spec => ImplementsTransfer
<1>1. Init => Transfer!Init
  BY DEF Init, RecvInit, SendInit, Transfer!Init
<1>2. TypeOK /\ Knows /\ [Next]_vars =>
        [Transfer!Next]_<< ~ymodem_send, file, received >>
  BY NextKnows DEF FileStep
<1>3. QED
  BY <1>1, <1>2, TypeCorrect, KnowsAlways, PTL
  DEF Spec, ImplementsTransfer, Transfer!Spec

(***************************************************************************)
(* What was written stays the beginning of the file after the file is      *)
(* closed; only an XMODEM transfer may pad it.                             *)
(***************************************************************************)
InOrder ==
  /\ received = Transfer!Prefix(Len(received))
  /\ Len(received) \in Nat
  /\ ymodem_send => Len(received) <= FileSize
  /\ ~ymodem_send /\ file # "none" => xmodem
  /\ ~ymodem_send /\ file = "closed" => recvStatus # "MORE"

(* Steps of the abstract transfer keep the file in order. *)
LEMMA StepInOrder ==
  ASSUME TypeOK, InOrder, FileStep, UNCHANGED ymodem_send
  PROVE  /\ received' = Transfer!Prefix(Len(received'))
         /\ Len(received') \in Nat
         /\ ymodem_send => Len(received') <= FileSize \/ file = "none"
<1>1. FileSize \in Nat /\ BlockSize \in Nat \ {0}
  BY LineConstantsOK
<1>2. ASSUME NEW n \in Nat, received' = Transfer!Prefix(n)
      PROVE  Len(received') = n
  BY <1>2, PrefixProps
<1>3. CASE UNCHANGED received
  BY <1>3 DEF InOrder
<1>4. CASE Transfer!Open
  <2>1. PICK n \in {0, BlockSize} : received' = Transfer!Prefix(n)
    <3>1. << >> = Transfer!Prefix(0)
      BY DEF Transfer!Prefix
    <3>2. QED
      BY <1>4, <3>1 DEF Transfer!Open
  <2>2. file = "none" /\ n \in Nat
    BY <1>1, <1>4 DEF Transfer!Open
  <2>3. QED
    BY <1>2, <2>1, <2>2
<1>5. CASE Transfer!WriteBlock
  <2>1. PICK n \in 1 .. BlockSize :
          /\ ~ymodem_send \/ Len(received) + n <= FileSize
          /\ received' = Transfer!Prefix(Len(received) + n)
    BY <1>5 DEF Transfer!WriteBlock
  <2>2. Len(received) + n \in Nat
    BY <1>1 DEF InOrder
  <2>3. QED
    BY <1>2, <2>1, <2>2
<1>6. QED
  BY <1>3, <1>4, <1>5 DEF FileStep, Transfer!Next, Transfer!Close,
    Transfer!Cancel

(* The receiver knows which kind of transfer it is until it has closed. *)
LEMMA KindKnown ==
  ASSUME TypeOK, Knows, InOrder, [Next]_vars
  PROVE  /\ ~ymodem_send /\ file' # "none" => xmodem'
         /\ ~ymodem_send /\ file' = "closed" => recvStatus' # "MORE"
         /\ ymodem_send /\ file = "none" => received' = << >>
<1> SUFFICES ASSUME recvStatus = "MORE", yrecv \/ yrecv_timeout
             PROVE  /\ ~ymodem_send /\ file' # "none" => xmodem'
                    /\ ~ymodem_send /\ file' = "closed" => recvStatus' # "MORE"
                    /\ ymodem_send /\ file = "none" => received' = << >>
  <2>1. ysend \/ LineFault \/ TypesCtrlX \/ CliReads \/ UNCHANGED vars =>
          UNCHANGED recver
    BY DEF ysend, LineFault, TypesCtrlX, CliReads, vars
  <2>2. UNCHANGED recver =>
          UNCHANGED << file, xmodem, recvStatus, received >>
    BY DEF recver, settings
  <2>3. file = "none" => received = << >>
    BY DEF Knows, FileKnown
  <2>4. yrecv \/ yrecv_timeout => recvStatus = "MORE"
    BY DEF yrecv, yrecv_timeout, Message, Timeout
  <2>5. QED
    BY <2>1, <2>2, <2>3, <2>4 DEF InOrder, Next
<1>1. /\ opened <=> file = "open"
      /\ file = "none" => received = << >>
      /\ file = "open" => xmodem = ~ymodem_send
      /\ ~ymodem_send => file # "closed"
      /\ opened \in BOOLEAN /\ purge \in BOOLEAN /\ xmodem \in BOOLEAN
      /\ file \in {"none", "open", "closed", "canceled"}
      /\ file # "canceled"
  BY KnownTypes DEF Knows, FileKnown, InOrder, TypeOK, RecvTypeOK
<1>2. CASE UNCHANGED << file, received >> /\ (xmodem' = xmodem \/ ~opened)
           /\ (recvStatus' = recvStatus \/ file # "closed")
  BY <1>1, <1>2
<1>3. CASE yrecv_timeout
  BY <1>1, <1>2, <1>3 DEF yrecv_timeout, Timeout, WaitingTimeout,
    OpenTimeout, GoesOn, FileUnchanged
<1>4. CASE yrecv
  <2>1. /\ Head(toRecv) = toRecv[1] /\ 1 \in 1 .. Len(toRecv)
    BY <1>4, MessageRead
  <2>2. CASE purge
    BY <1>2, <1>4, <2>2 DEF yrecv, Message, recver, settings
  <2>3. CASE Purges \/ WaitingCan \/ NoMoreFiles
    BY <1>1, <1>2, <2>3
    DEF Purges, WaitingCan, NoMoreFiles, GoesOn, Ends, FileUnchanged
  <2>4. CASE /\ ~opened /\ HeaderArrives
             /\ Head(toRecv).kind = "SOH" /\ Head(toRecv).seq = 0
    <3>1. file = "none" => ymodem_send
      BY <2>1, <2>4, PacketExpected
    <3>2. received' = << >> \/ UNCHANGED << file, received >>
      BY <2>4 DEF HeaderArrives, Open
    <3>3. QED
      BY <1>1, <2>4, <3>1, <3>2 DEF HeaderArrives, Open
  <2>5. CASE /\ ~opened /\ AnonymousArrives(Head(toRecv).data)
             /\ Head(toRecv).kind = "SOH" /\ Head(toRecv).seq = 1
    <3>1. file = "none" => ~ymodem_send
      BY <2>1, <2>5, PacketExpected
    <3>2. QED
      BY <1>1, <2>5, <3>1 DEF AnonymousArrives
  <2>6. CASE opened /\ (OpenCan \/ DataArrives(Head(toRecv)))
    <3>1. xmodem' = xmodem /\ file' # "closed"
      BY <1>1, <2>6
      DEF OpenCan, DataArrives, Close, FileUnchanged, GoesOn
    <3>2. file = "open"
      BY <1>1, <2>6
    <3>3. ~ymodem_send => xmodem
      BY <1>1, <3>2
    <3>4. QED
      BY <3>1, <3>2, <3>3
  <2>7. CASE opened /\ EotArrives
    <3>1. file = "open" /\ (~ymodem_send => xmodem)
      BY <1>1, <2>7
    <3>2. xmodem => xmodem' /\ recvStatus' = "DONE"
      BY <2>7 DEF EotArrives, Ends
    <3>3. QED
      BY <3>1, <3>2
  <2>8. QED
    BY <1>1, <1>4, <2>2, <2>3, <2>4, <2>5, <2>6, <2>7
    DEF yrecv, Message, Opened, Waiting
<1>5. QED
  BY <1>3, <1>4

(***************************************************************************)
(* As long as answers come in time, no block is written twice, out of      *)
(* order, cut short in the middle, or over the size of the file, for any   *)
(* number of blocks and of sequence numbers.                               *)
(***************************************************************************)
THEOREM WrittenInOrder == ASSUME InTime PROVE Spec => []ReceivedInOrder
<1>1. Init => InOrder
  <2>1. Init => received = << >> /\ file = "none"
    BY DEF Init, RecvInit
  <2>2. Len(<< >>) = 0 /\ << >> = Transfer!Prefix(0) /\ 0 <= FileSize
    BY LineConstantsOK DEF Transfer!Prefix
  <2>3. QED
    BY <2>1, <2>2 DEF InOrder
<1>2. TypeOK /\ Knows /\ InOrder /\ [Next]_vars => InOrder'
  <2> SUFFICES ASSUME TypeOK, Knows, InOrder, [Next]_vars PROVE InOrder'
    OBVIOUS
  <2>1. FileStep /\ UNCHANGED ymodem_send
    <3>1. FileStep
      BY NextKnows
    <3>2. ysend \/ ~ysend => UNCHANGED ymodem_send
      BY DEF Next, ysend, SendTask, yrecv, yrecv_timeout, LineFault,
        TypesCtrlX, CliReads, vars, sender
    <3>3. QED
      BY <3>1, <3>2
  <2>2. Len(<< >>) = 0 /\ 0 <= FileSize
    BY LineConstantsOK
  <2>3. QED
    BY <2>1, <2>2, StepInOrder, KindKnown DEF InOrder
<1>3. Knows /\ InOrder => ReceivedInOrder
  <2> SUFFICES ASSUME Knows, InOrder PROVE ReceivedInOrder
    OBVIOUS
  <2>1. received = [i \in 1 .. Len(received) |->
                      IF i <= FileSize THEN i ELSE Pad]
    BY DEF InOrder, Transfer!Prefix, Pad
  <2>2. Len(received) <= FileSize \/ xmodem
    <3>1. file = "none" => Len(received) = 0 /\ 0 <= FileSize
      BY LineConstantsOK DEF Knows, FileKnown
    <3>2. QED
      BY <3>1 DEF InOrder
  <2>3. QED
    BY <2>1, <2>2 DEF ReceivedInOrder
<1>4. QED
  BY <1>1, <1>2, <1>3, TypeCorrect, KnowsAlways, PTL DEF Spec
=============================================================================
