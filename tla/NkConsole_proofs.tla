-------------------------- MODULE NkConsole_proofs --------------------------
(***************************************************************************)
(* Proofs about the two ends of the console.  First the receive buffer,    *)
(* for every size of it, every width of its counters and any number of     *)
(* characters, and the wakeup of the reader, for every number of items in  *)
(* the work queue that leaves one for the reader.                          *)
(*                                                                         *)
(* Then the line editor and the command line, for every size of line       *)
(* buffer and history, every alphabet and every set of commands.           *)
(***************************************************************************)
EXTENDS NkConsole, NkLemmas, FiniteSetTheorems

(* The compiler loads the character before it stores the counter. *)
LoadsFirst == Orders = {"load"}

(* The work queue has an item for each of the functions that use it. *)
EnoughItems == IsFiniteSet(Others) /\ Cardinality(Others) < NItems

-----------------------------------------------------------------------------
(* Types *)

(* Each counter is a number below CountMod, before and after a step. *)
LEMMA SlotAndInc ==
  ASSUME NEW n \in 0 .. CountMod - 1
  PROVE  Inc(n) \in 0 .. CountMod - 1 /\ Slot(n) \in Slots
  BY UartConstantsOK, DivMod DEF Inc, Slot, Slots

(* nk_sched never puts more into the queue than there are items. *)
LEMMA SchedType ==
  ASSUME NEW S, workq \in Seq(S), Len(workq) <= NItems, NEW f \in S,
         nk_sched(f)
  PROVE  workq' \in Seq(S) /\ Len(workq') <= NItems
<1>0. NItems \in Nat /\ Len(workq) \in Nat
  BY UartConstantsOK, LenProperties
<1>1. ASSUME NEW k \in 1 .. Len(workq), workq' = Append(RemoveAt(workq, k), f)
      PROVE  workq' \in Seq(S) /\ Len(workq') <= NItems
  <2>1. RemoveAt(workq, k) \in Seq(S)
        /\ Len(RemoveAt(workq, k)) = Len(workq) - 1
    BY RemoveAtProps
  <2>2. QED
    BY <1>0, <1>1, <2>1, AppendProperties
<1>2. ASSUME Len(workq) < NItems, workq' = Append(workq, f)
      PROVE  workq' \in Seq(S) /\ Len(workq') <= NItems
  BY <1>0, <1>2, AppendProperties
<1>3. QED
  BY <1>1, <1>2 DEF nk_sched

(* The variables have their types at first. *)
LEMMA InitType == Init => TypeOK
<1> SUFFICES ASSUME Init PROVE TypeOK
  OBVIOUS
<1>1. RxSize \in Nat \ {0} /\ CountMod \in Nat /\ CountMod > RxSize
      /\ NItems \in Nat /\ MaxChars \in Nat
  BY UartConstantsOK
<1>2. 0 \in Slots /\ 0 \in 0 .. CountMod - 1 /\ 0 \in 0 .. MaxChars
  BY <1>1 DEF Slots
<1>3. rx_buf \in [Slots -> Chars \cup {0}]
  BY DEF Init
<1>4. workq \in Seq(Others \cup {"reader"}) /\ Len(workq) <= NItems
  BY <1>1 DEF Init
<1>5. QED
  BY <1>2, <1>3, <1>4 DEF Init, TypeOK

(* Every step of the receiver keeps them. *)
LEMMA NextType == TypeOK /\ [Next]_vars => TypeOK'
<1> SUFFICES ASSUME TypeOK, [Next]_vars PROVE TypeOK'
  OBVIOUS
<1> DEFINE S == Others \cup {"reader"}
<1>0. NItems \in Nat /\ MaxChars \in Nat /\ Len(workq) \in Nat
  BY UartConstantsOK, LenProperties DEF TypeOK
<1>1. CASE nk_uart_irq_handler
  <2>1. /\ rx_buf' \in [Slots -> Chars \cup {0}]
        /\ rx_buf_wr' \in 0 .. CountMod - 1
        /\ accepted' \in Seq(Chars) /\ arrived' \in 0 .. MaxChars
    <3>1. CASE Receives
      <4>0. arrived \in 0 .. MaxChars /\ accepted \in Seq(Chars)
        BY DEF TypeOK
      <4>1. arrived + 1 \in Chars /\ arrived' \in 0 .. MaxChars
        BY <1>0, <3>1, <4>0 DEF Receives, Chars
      <4>2. Append(accepted, arrived + 1) \in Seq(Chars)
        BY <4>0, <4>1, AppendProperties
      <4>3. Inc(rx_buf_wr) \in 0 .. CountMod - 1
        BY SlotAndInc DEF TypeOK
      <4>4. [rx_buf EXCEPT ![Slot(rx_buf_wr)] = arrived + 1]
              \in [Slots -> Chars \cup {0}]
        BY <4>1 DEF TypeOK
      <4>5. Put(arrived + 1)
        BY <3>1 DEF Receives
      <4>6. QED
        BY <4>0, <4>1, <4>2, <4>3, <4>4, <4>5 DEF Put, TypeOK
    <3>2. CASE UNCHANGED << rx_buf, rx_buf_wr, arrivals >>
      BY <3>2 DEF arrivals, TypeOK
    <3>3. QED
      BY <1>1, <3>1, <3>2 DEF nk_uart_irq_handler
  <2>2. /\ workq' \in Seq(S) /\ Len(workq') <= NItems
        /\ waiting_rx_task' \in BOOLEAN
    <3>1. CASE nk_sched("reader") /\ waiting_rx_task' = FALSE
      BY <3>1, SchedType DEF TypeOK
    <3>2. CASE UNCHANGED << workq, waiting_rx_task >>
      BY <3>2 DEF TypeOK
    <3>3. QED
      BY <1>1, <3>1, <3>2 DEF nk_uart_irq_handler, Wakes
  <2>3. UNCHANGED << rx_buf_rd, pc, slot, ch, todo, consumed >>
    BY <1>1 DEF nk_uart_irq_handler, getc
  <2>4. QED
    BY <2>1, <2>2, <2>3 DEF TypeOK
<1>2. CASE nk_set_uart_callback
  <2>1. workq' \in Seq(S) /\ Len(workq') <= NItems
    <3>1. CASE nk_sched("reader")
      BY <3>1, SchedType DEF TypeOK
    <3>2. CASE UNCHANGED workq
      BY <3>2 DEF TypeOK
    <3>3. QED
      BY <1>2, <3>1, <3>2 DEF nk_set_uart_callback
  <2>2. QED
    BY <1>2, <2>1 DEF nk_set_uart_callback, Goes, Empty, TypeOK, ring, getc,
                      arrivals
<1>3. CASE nk_getc_test
  <2>1. slot' \in Slots /\ todo' \in Seq({"load", "store"})
    <3>1. Accesses("load") \in Seq({"load", "store"})
          /\ Accesses("store") \in Seq({"load", "store"})
      BY DEF Accesses
    <3>2. CASE UNCHANGED << slot, todo >>
      BY <3>2 DEF TypeOK
    <3>3. CASE slot' = Slot(rx_buf_rd) /\ \E o \in Orders : todo' = Accesses(o)
      BY <3>1, <3>3, SlotAndInc, UartConstantsOK DEF TypeOK
    <3>4. QED
      BY <1>3, <3>2, <3>3 DEF nk_getc_test
  <2>2. pc' \in {"register", "accesses"}
    BY <1>3 DEF nk_getc_test, Goes
  <2>3. QED
    BY <1>3, <2>1, <2>2 DEF nk_getc_test, TypeOK, ring, arrivals
<1>4. CASE nk_getc_load
  <2>1. todo' \in Seq({"load", "store"})
    BY <1>4, HeadTailProperties DEF nk_getc_load, Does, TypeOK
  <2>2. QED
    BY <1>4, <2>1 DEF nk_getc_load, TypeOK, ring, arrivals
<1>5. CASE nk_getc_store
  <2>1. todo' \in Seq({"load", "store"})
    BY <1>5, HeadTailProperties DEF nk_getc_store, Does, TypeOK
  <2>2. rx_buf_rd' \in 0 .. CountMod - 1
    BY <1>5, SlotAndInc DEF nk_getc_store, TypeOK
  <2>3. QED
    BY <1>5, <2>1, <2>2 DEF nk_getc_store, TypeOK, arrivals
<1>6. CASE nk_getc_return
  <2>1. consumed' \in Seq(Chars \cup {0})
    BY <1>6, AppendProperties DEF nk_getc_return, TypeOK
  <2>2. pc' \in {"getc", "register"}
    BY <1>6 DEF nk_getc_return, Goes
  <2>3. QED
    BY <1>6, <2>1, <2>2 DEF nk_getc_return, TypeOK, ring, getc, arrivals
<1>7. CASE Dispatch
  <2>1. workq' \in Seq(S) /\ Len(workq') <= NItems
    <3>1. workq \in Seq(S) /\ Len(workq) <= NItems /\ workq # << >>
      BY <1>7 DEF Dispatch, TypeOK
    <3>2. Tail(workq) \in Seq(S) /\ Len(Tail(workq)) = Len(workq) - 1
      BY <3>1, HeadTailProperties
    <3>3. workq' = Tail(workq)
      BY <1>7 DEF Dispatch
    <3>4. QED
      BY ONLY <1>0, <3>1, <3>2, <3>3
  <2>2. pc' \in {"getc", "main loop"}
    BY <1>7 DEF Dispatch, Goes
  <2>3. QED
    BY <1>7, <2>1, <2>2 DEF Dispatch, TypeOK, ring, getc, arrivals
<1>8. CASE OtherWork
  <2>1. workq' \in Seq(S) /\ Len(workq') <= NItems
    BY <1>8, SchedType DEF OtherWork, TypeOK
  <2>2. QED
    BY <1>8, <2>1 DEF OtherWork, TypeOK, ring, getc, arrivals
<1>9. CASE UNCHANGED vars
  BY <1>9 DEF TypeOK, vars, ring, getc, arrivals
<1>10. QED
  BY <1>1, <1>2, <1>3, <1>4, <1>5, <1>6, <1>7, <1>8, <1>9
     DEF Next, Reader, nk_getc

(* The variables keep their types, whatever the compiler orders first. *)
THEOREM TypeCorrect == Spec => []TypeOK
  BY InitType, NextType, PTL DEF Spec

-----------------------------------------------------------------------------
(* The receive buffer *)

(***************************************************************************)
(* How many characters rx_buf_rd has passed: those that nk_getc returned   *)
(* and the one it is about to return.                                      *)
(***************************************************************************)
Taken == Len(consumed) + (IF pc = "accesses" /\ todo = << >> THEN 1 ELSE 0)

(* The counters count, modulo CountMod; the buffer is never overfull. *)
CountersCount ==
  /\ rx_buf_rd = Taken % CountMod
  /\ rx_buf_wr = Len(accepted) % CountMod
  /\ Taken <= Len(accepted) /\ Len(accepted) <= Taken + RxSize

(* The slots between the counters hold what has not been read. *)
BufferHolds ==
  \A i \in 0 .. Len(accepted) - 1 :
    i >= Taken => rx_buf[i % RxSize] = accepted[i + 1]

(* nk_getc between its accesses has, or goes for, the next character. *)
GetcKnows ==
  pc = "accesses" =>
    /\ todo \in {<< "load", "store" >>, << "store" >>, << >>}
    /\ todo # << >> => slot = Taken % RxSize /\ Taken < Len(accepted)
    /\ todo # << "load", "store" >> => ch = accepted[Len(consumed) + 1]

ReadAsAccepted ==
  \A i \in 1 .. Len(consumed) : consumed[i] = accepted[i]

RingInv == CountersCount /\ BufferHolds /\ GetcKnows /\ ReadAsAccepted

(* What the proofs use of the types. *)
LEMMA Lengths ==
  ASSUME TypeOK
  PROVE  /\ Len(accepted) \in Nat /\ Len(consumed) \in Nat /\ Taken \in Nat
         /\ RxSize \in Nat \ {0} /\ CountMod \in Nat \ {0}
         /\ CountMod > RxSize /\ CountMod % RxSize = 0
<1>1. Len(accepted) \in Nat /\ Len(consumed) \in Nat
  BY LenProperties DEF TypeOK
<1>2. QED
  BY <1>1, UartConstantsOK DEF Taken

(* At first the buffer is empty, and so are the counts. *)
LEMMA InitRing == Init => RingInv
<1> SUFFICES ASSUME Init PROVE RingInv
  OBVIOUS
<1>1. CountMod \in Nat \ {0} /\ RxSize \in Nat \ {0}
  BY UartConstantsOK
<1>2. Taken = 0 /\ Len(accepted) = 0 /\ Len(consumed) = 0
  BY DEF Init, Taken
<1>3. 0 % CountMod = 0
  BY <1>1, ModSmall
<1>4. CountersCount
  BY <1>1, <1>2, <1>3 DEF Init, CountersCount
<1>5. BufferHolds /\ ReadAsAccepted
  BY <1>2 DEF BufferHolds, ReadAsAccepted
<1>6. GetcKnows
  BY DEF Init, GetcKnows
<1>7. QED
  BY <1>4, <1>5, <1>6 DEF RingInv

(* The difference of the counters is the number of unread characters. *)
LEMMA UnreadIsDistance ==
  ASSUME TypeOK, CountersCount
  PROVE  /\ Unread(rx_buf_rd, rx_buf_wr) = Len(accepted) - Taken
         /\ Empty <=> Len(accepted) = Taken
<1>1. /\ Len(accepted) \in Nat /\ Taken \in Nat /\ CountMod \in Nat \ {0}
      /\ Taken <= Len(accepted) /\ Len(accepted) - Taken < CountMod
  BY Lengths DEF CountersCount
<1>2. ((Len(accepted) % CountMod) - (Taken % CountMod)) % CountMod
        = Len(accepted) - Taken
  BY ONLY <1>1, ModDistance
<1>3. Taken < Len(accepted) => Taken % CountMod # Len(accepted) % CountMod
  BY ONLY <1>1, ModDistinct
<1>4. QED
  BY <1>1, <1>2, <1>3 DEF CountersCount, Unread, Empty

(* A step that leaves the buffer and the progress of nk_getc alone. *)
LEMMA RingUnchanged ==
  ASSUME RingInv, UNCHANGED << rx_buf, rx_buf_rd, rx_buf_wr, accepted >>,
         UNCHANGED << consumed, slot, ch, todo >>,
         (pc # "accesses" /\ pc' # "accesses") \/ pc' = pc
  PROVE  RingInv'
<1>1. Taken' = Taken
  BY DEF Taken
<1>2. GetcKnows'
  BY <1>1 DEF RingInv, GetcKnows
<1>3. QED
  BY <1>1, <1>2 DEF RingInv, CountersCount, BufferHolds, ReadAsAccepted

(* A character that finds space overwrites nothing that is unread. *)
LEMMA PutRing ==
  ASSUME TypeOK, RingInv, NEW c \in Chars, Put(c),
         UNCHANGED << rx_buf_rd, pc, slot, ch, todo, consumed >>
  PROVE  RingInv'
<1> DEFINE n == Len(accepted)
<1>1. /\ n \in Nat /\ Taken \in Nat /\ RxSize \in Nat \ {0}
      /\ CountMod \in Nat \ {0} /\ CountMod % RxSize = 0
  BY Lengths
<1>2. CASE UNCHANGED << rx_buf, rx_buf_wr, accepted >>
  BY <1>2, RingUnchanged
<1>3. CASE /\ Unread(rx_buf_rd, rx_buf_wr) # RxSize
           /\ rx_buf' = [rx_buf EXCEPT ![Slot(rx_buf_wr)] = c]
           /\ rx_buf_wr' = Inc(rx_buf_wr)
           /\ accepted' = Append(accepted, c)
  <2>1. Taken' = Taken
    BY DEF Taken
  <2>2. Taken <= n /\ n < Taken + RxSize
    BY <1>1, <1>3, UnreadIsDistance DEF RingInv, CountersCount
  <2>3. /\ Len(accepted') = n + 1 /\ accepted'[n + 1] = c
        /\ \A i \in 1 .. n : accepted'[i] = accepted[i]
    <3>1. accepted \in Seq(Chars)
      BY DEF TypeOK
    <3>2. accepted' = Append(accepted, c)
      BY <1>3
    <3>3. QED
      BY ONLY <3>1, <3>2, c \in Chars, AppendProperties
  <2>4. rx_buf_wr' = (n + 1) % CountMod
    BY <1>1, <1>3, ModStep DEF Inc, RingInv, CountersCount
  <2>5. Slot(rx_buf_wr) = n % RxSize
    BY <1>1, ModMod DEF Slot, RingInv, CountersCount
  <2>6. CountersCount'
    BY <1>1, <2>1, <2>2, <2>3, <2>4 DEF RingInv, CountersCount
  <2>7. BufferHolds'
    <3>1. SUFFICES ASSUME NEW i \in 0 .. n, i >= Taken
                   PROVE  rx_buf'[i % RxSize] = accepted'[i + 1]
      BY <1>1, <2>1, <2>3 DEF BufferHolds
    <3>2. i % RxSize \in Slots /\ n % RxSize \in Slots
      BY <1>1, DivMod DEF Slots
    <3>3. rx_buf'[i % RxSize] =
            IF i % RxSize = n % RxSize THEN c ELSE rx_buf[i % RxSize]
      BY <1>3, <2>5, <3>2 DEF TypeOK
    <3>4. CASE i = n
      BY <2>3, <3>3, <3>4
    <3>5. CASE i < n
      <4>1. i % RxSize # n % RxSize
        <5>1. i \in Nat /\ n \in Nat /\ RxSize \in Nat \ {0} /\ n - i < RxSize
          BY <1>1, <2>2, <3>1
        <5> HIDE DEF n
        <5>2. QED
          BY <3>5, <5>1, ModDistinct
      <4>2. rx_buf[i % RxSize] = accepted[i + 1]
        BY <1>1, <3>1, <3>5 DEF RingInv, BufferHolds
      <4>3. i + 1 \in 1 .. n
        BY <1>1, <3>5
      <4>4. QED
        BY <2>3, <3>3, <4>1, <4>2, <4>3
    <3>6. QED
      BY <1>1, <3>4, <3>5
  <2>8. Len(consumed) \in Nat /\ Len(consumed) <= Taken
    BY Lengths DEF Taken
  <2>9. ReadAsAccepted'
    BY <1>1, <2>2, <2>3, <2>8 DEF RingInv, ReadAsAccepted
  <2>10. GetcKnows'
    <3>1. pc = "accesses" /\ todo # << "load", "store" >> =>
            Len(consumed) + 1 \in 1 .. n
      <4>1. SUFFICES ASSUME pc = "accesses", todo # << "load", "store" >>
                     PROVE  Len(consumed) + 1 <= n
        BY <1>1, <2>8
      <4>2. CASE todo = << >>
        BY <1>1, <2>2, <2>8, <4>1, <4>2 DEF Taken
      <4>3. CASE todo # << >>
        <5>1. Taken < n
          BY <4>1, <4>3 DEF RingInv, GetcKnows
        <5>2. QED
          BY <1>1, <2>8, <5>1
      <4>4. QED
        BY <4>2, <4>3
    <3>2. QED
      BY <1>1, <2>1, <2>3, <3>1 DEF RingInv, GetcKnows
  <2>11. QED
    BY <2>6, <2>7, <2>9, <2>10 DEF RingInv
<1>4. QED
  BY <1>2, <1>3 DEF Put

(* nk_getc finds the slot of the next unread character. *)
LEMMA TestRing ==
  ASSUME TypeOK, RingInv, LoadsFirst, nk_getc_test
  PROVE  RingInv'
<1>1. CASE Empty
  <2>1. pc = "getc" /\ pc' = "register"
    BY <1>1 DEF nk_getc_test, Goes
  <2>2. UNCHANGED << rx_buf, rx_buf_rd, rx_buf_wr, accepted >>
        /\ UNCHANGED << consumed, slot, ch, todo >>
    BY <1>1 DEF nk_getc_test, ring, arrivals
  <2>3. QED
    BY <2>1, <2>2, RingUnchanged
<1>2. CASE ~Empty
  <2>1. /\ pc = "getc" /\ pc' = "accesses" /\ todo' = << "load", "store" >>
        /\ slot' = Slot(rx_buf_rd)
    BY <1>2 DEF nk_getc_test, Goes, LoadsFirst, Accesses
  <2>2. UNCHANGED << rx_buf, rx_buf_rd, rx_buf_wr, accepted, consumed >>
    BY DEF nk_getc_test, ring, arrivals
  <2>3. Taken' = Taken
    BY <2>1, <2>2 DEF Taken
  <2>4. slot' = Taken % RxSize
    BY <2>1, Lengths, ModMod DEF Slot, RingInv, CountersCount
  <2>5. Taken < Len(accepted)
    BY <1>2, Lengths, UnreadIsDistance DEF RingInv, CountersCount
  <2>6. GetcKnows'
    BY <2>1, <2>2, <2>3, <2>4, <2>5 DEF GetcKnows
  <2>7. QED
    BY <2>2, <2>3, <2>6
       DEF RingInv, CountersCount, BufferHolds, ReadAsAccepted
<1>3. QED
  BY <1>1, <1>2

(* The slot that nk_getc loads still holds the next character. *)
LEMMA LoadRing ==
  ASSUME TypeOK, RingInv, nk_getc_load
  PROVE  RingInv'
<1>1. /\ pc = "accesses" /\ pc' = pc
      /\ todo = << "load", "store" >> /\ todo' = << "store" >>
  <2>1. /\ pc = "accesses" /\ pc' = pc
        /\ Head(todo) = "load" /\ todo' = Tail(todo)
        /\ todo \in {<< "load", "store" >>, << "store" >>}
    BY DEF nk_getc_load, Does, RingInv, GetcKnows
  <2>2. todo # << "store" >>
    BY <2>1
  <2>3. Tail(<< "load", "store" >>) = << "store" >>
    <3>1. /\ Tail(<< "load", "store" >>) \in Seq({"load", "store"})
          /\ Len(Tail(<< "load", "store" >>)) = 1
          /\ Tail(<< "load", "store" >>)[1] = "store"
      OBVIOUS
    <3>2. << "store" >> \in Seq({"load", "store"})
      OBVIOUS
    <3>3. QED
      BY <3>1, <3>2, SeqEqual
  <2>4. QED
    BY <2>1, <2>2, <2>3
<1>2. UNCHANGED << rx_buf, rx_buf_rd, rx_buf_wr, accepted, consumed, slot >>
  BY DEF nk_getc_load, ring, arrivals
<1>3. Taken = Len(consumed) /\ Taken' = Taken
  BY <1>1, <1>2, Lengths DEF Taken
<1>4. slot = Taken % RxSize /\ Taken < Len(accepted)
  BY <1>1 DEF RingInv, GetcKnows
<1>5. Taken \in 0 .. Len(accepted) - 1
  BY <1>4, Lengths
<1>6. rx_buf[Taken % RxSize] = accepted[Taken + 1]
  BY <1>5 DEF RingInv, BufferHolds
<1>7. ch' = accepted[Len(consumed) + 1]
  BY <1>3, <1>4, <1>6 DEF nk_getc_load
<1>8. GetcKnows'
  BY <1>1, <1>2, <1>3, <1>4, <1>7 DEF GetcKnows
<1>9. QED
  BY <1>2, <1>3, <1>8 DEF RingInv, CountersCount, BufferHolds, ReadAsAccepted

(* The slot is given up when its character has been loaded. *)
LEMMA StoreRing ==
  ASSUME TypeOK, RingInv, nk_getc_store
  PROVE  RingInv'
<1>1. /\ pc = "accesses" /\ pc' = pc
      /\ todo = << "store" >> /\ todo' = << >>
  BY DEF nk_getc_store, Does, RingInv, GetcKnows
<1>2. UNCHANGED << rx_buf, rx_buf_wr, accepted, consumed, ch >>
  BY DEF nk_getc_store, arrivals
<1>3. Taken = Len(consumed) /\ Taken' = Taken + 1
  BY <1>1, <1>2, Lengths DEF Taken
<1>4. Taken < Len(accepted) /\ ch = accepted[Len(consumed) + 1]
  BY <1>1 DEF RingInv, GetcKnows
<1>5. rx_buf_rd' = (Taken + 1) % CountMod
  BY Lengths, ModStep DEF nk_getc_store, Inc, RingInv, CountersCount
<1>6. CountersCount'
  BY <1>2, <1>3, <1>4, <1>5, Lengths DEF RingInv, CountersCount
<1>7. BufferHolds'
  BY <1>2, <1>3, Lengths DEF RingInv, BufferHolds
<1>8. GetcKnows'
  BY <1>1, <1>2, <1>4 DEF GetcKnows
<1>9. QED
  BY <1>2, <1>6, <1>7, <1>8 DEF RingInv, ReadAsAccepted

(* What nk_getc returns is the next character that was accepted. *)
LEMMA ReturnRing ==
  ASSUME TypeOK, RingInv, nk_getc_return
  PROVE  RingInv'
<1> DEFINE m == Len(consumed)
<1>1. pc = "accesses" /\ todo = << >> /\ pc' # "accesses"
  BY DEF nk_getc_return, Goes
<1>2. UNCHANGED << rx_buf, rx_buf_rd, rx_buf_wr, accepted >>
  BY DEF nk_getc_return, ring, arrivals
<1>3. /\ m \in Nat /\ Len(consumed') = m + 1 /\ consumed'[m + 1] = ch
      /\ \A i \in 1 .. m : consumed'[i] = consumed[i]
  <2>1. consumed \in Seq(Chars \cup {0}) /\ ch \in Chars \cup {0}
    BY DEF TypeOK
  <2>2. consumed' = Append(consumed, ch)
    BY DEF nk_getc_return
  <2>3. QED
    BY ONLY <2>1, <2>2, AppendProperties, LenProperties
<1>4. ch = accepted[m + 1]
  BY <1>1 DEF RingInv, GetcKnows
<1>5. Taken' = Taken
  BY <1>1, <1>3 DEF Taken
<1>6. ReadAsAccepted'
  BY <1>2, <1>3, <1>4 DEF RingInv, ReadAsAccepted
<1>7. GetcKnows'
  BY <1>1 DEF GetcKnows
<1>8. QED
  BY <1>2, <1>5, <1>6, <1>7 DEF RingInv, CountersCount, BufferHolds

(* Every step of nk_getc and of the interrupt keeps them in agreement. *)
LEMMA NextRing ==
  ASSUME LoadsFirst
  PROVE  TypeOK /\ RingInv /\ [Next]_vars => RingInv'
<1> SUFFICES ASSUME TypeOK, RingInv, [Next]_vars PROVE RingInv'
  OBVIOUS
<1>1. CASE nk_uart_irq_handler
  <2>1. UNCHANGED << rx_buf_rd, pc, slot, ch, todo, consumed >>
    BY <1>1 DEF nk_uart_irq_handler, getc
  <2>2. CASE Receives
    <3>1. arrived + 1 \in Chars
      <4>1. arrived \in 0 .. MaxChars /\ MaxChars \in Nat
        BY UartConstantsOK DEF TypeOK
      <4>2. QED
        BY <2>2, <4>1 DEF Receives, Chars
    <3>2. QED
      BY <2>1, <2>2, <3>1, PutRing DEF Receives
  <2>3. CASE UNCHANGED << rx_buf, rx_buf_wr, arrivals >>
    BY <2>1, <2>3, RingUnchanged DEF arrivals
  <2>4. QED
    BY <1>1, <2>2, <2>3 DEF nk_uart_irq_handler
<1>2. CASE nk_set_uart_callback
  BY <1>2, RingUnchanged
     DEF nk_set_uart_callback, Goes, ring, getc, arrivals
<1>3. CASE nk_getc_test
  BY <1>3, TestRing
<1>4. CASE nk_getc_load
  BY <1>4, LoadRing
<1>5. CASE nk_getc_store
  BY <1>5, StoreRing
<1>6. CASE nk_getc_return
  BY <1>6, ReturnRing
<1>7. CASE Dispatch
  BY <1>7, RingUnchanged DEF Dispatch, Goes, ring, getc, arrivals
<1>8. CASE OtherWork
  BY <1>8, RingUnchanged DEF OtherWork, ring, getc, arrivals
<1>9. CASE UNCHANGED vars
  BY <1>9, RingUnchanged DEF vars, ring, getc, arrivals
<1>10. QED
  BY <1>1, <1>2, <1>3, <1>4, <1>5, <1>6, <1>7, <1>8, <1>9
     DEF Next, Reader, nk_getc

(***************************************************************************)
(* The two counters always delimit exactly the unread characters, in the   *)
(* slots where the interrupt put them, and nk_getc is never overtaken.     *)
(***************************************************************************)
THEOREM RingCorrect ==
  ASSUME LoadsFirst
  PROVE  Spec => []RingInv
  BY InitRing, NextRing, TypeCorrect, PTL DEF Spec

(***************************************************************************)
(* If the compiler loads the character first, nk_getc returns exactly the  *)
(* characters that the interrupt accepted, in their order, without a lock. *)
(***************************************************************************)
THEOREM ReadsInOrder ==
  ASSUME LoadsFirst
  PROVE  Spec => []InOrder
<1>1. TypeOK /\ RingInv => InOrder
  <2> SUFFICES ASSUME TypeOK, RingInv PROVE InOrder
    OBVIOUS
  <2> DEFINE m == Len(consumed)
  <2>1. m \in Nat /\ m <= Len(accepted)
    BY Lengths DEF RingInv, CountersCount, Taken
  <2>2. \A i \in 1 .. m : consumed[i] = accepted[i]
    BY DEF RingInv, ReadAsAccepted
  <2>3. SubSeq(consumed, 1, m) = SubSeq(accepted, 1, m)
    BY <2>1, <2>2
  <2>4. QED
    BY <2>1, <2>3 DEF InOrder, IsPrefix
<1>2. QED
  BY <1>1, TypeCorrect, RingCorrect, PTL

-----------------------------------------------------------------------------
(* The wakeup of the reader *)

(* No function is in the work queue twice. *)
QueuedOnce ==
  \A i, j \in 1 .. Len(workq) : workq[i] = workq[j] => i = j

ReaderInv == QueuedOnce /\ ReaderReachable

(* A function that is queued again moves to the end; the others stay. *)
LEMMA MoveToEnd ==
  ASSUME NEW S, workq \in Seq(S), QueuedOnce, NEW f \in S,
         NEW k \in 1 .. Len(workq), workq[k] = f,
         workq' = Append(RemoveAt(workq, k), f)
  PROVE  QueuedOnce' /\ \A g : Queued(g)' <=> Queued(g)
<1> DEFINE n == Len(workq)
           r == RemoveAt(workq, k)
<1>1. n \in Nat
  BY LenProperties
<1>2. /\ r \in Seq(S) /\ Len(r) = n - 1
      /\ \A i \in 1 .. n - 1 : r[i] = IF i < k THEN workq[i] ELSE workq[i + 1]
  BY RemoveAtProps
<1>3. workq' = Append(r, f)
  OBVIOUS
<1> HIDE DEF r
<1>4. /\ Len(workq') = n /\ workq'[n] = f
      /\ \A i \in 1 .. n - 1 : workq'[i] = r[i]
  BY <1>1, <1>2, <1>3, AppendProperties
<1> DEFINE from(i) == IF i = n THEN k ELSE IF i < k THEN i ELSE i + 1
           to(i) == IF i = k THEN n ELSE IF i < k THEN i ELSE i - 1
<1>5. \A i \in 1 .. n : from(i) \in 1 .. n /\ workq'[i] = workq[from(i)]
  BY <1>1, <1>2, <1>4
<1>6. \A i, j \in 1 .. n : from(i) = from(j) => i = j
  BY <1>1
<1>7. \A i \in 1 .. n : to(i) \in 1 .. n /\ from(to(i)) = i
  BY <1>1
<1> HIDE DEF from, to
<1>8. QueuedOnce'
  <2>1. SUFFICES ASSUME NEW i \in 1 .. n, NEW j \in 1 .. n,
                        workq'[i] = workq'[j]
                 PROVE  i = j
    BY <1>4 DEF QueuedOnce
  <2>2. workq[from(i)] = workq[from(j)]
        /\ from(i) \in 1 .. n /\ from(j) \in 1 .. n
    BY <1>5, <2>1
  <2>3. from(i) = from(j)
    BY <2>2 DEF QueuedOnce
  <2>4. QED
    BY <1>6, <2>3
<1>9. ASSUME NEW g PROVE Queued(g)' <=> Queued(g)
  <2>1. ASSUME NEW i \in 1 .. n, workq'[i] = g PROVE Queued(g)
    BY <1>5, <2>1 DEF Queued
  <2>2. ASSUME NEW i \in 1 .. n, workq[i] = g
        PROVE  \E l \in 1 .. n : workq'[l] = g
    <3>1. to(i) \in 1 .. n /\ from(to(i)) = i
      BY <1>7
    <3>2. workq'[to(i)] = g
      BY <1>5, <2>2, <3>1
    <3>3. QED
      BY <3>1, <3>2
  <2>3. QED
    BY <1>4, <2>1, <2>2 DEF Queued
<1>10. QED
  BY <1>8, <1>9

(* A function that was not in the queue is added at its end. *)
LEMMA AddAtEnd ==
  ASSUME NEW S, workq \in Seq(S), QueuedOnce, NEW f \in S, ~Queued(f),
         workq' = Append(workq, f)
  PROVE  QueuedOnce' /\ \A g : Queued(g)' <=> Queued(g) \/ g = f
<1> DEFINE n == Len(workq)
<1>1. n \in Nat
  BY LenProperties
<1>2. /\ Len(workq') = n + 1 /\ workq'[n + 1] = f
      /\ \A i \in 1 .. n : workq'[i] = workq[i]
  BY AppendProperties
<1>3. \A i \in 1 .. n : workq[i] # f
  BY DEF Queued
<1>4. QueuedOnce'
  BY <1>1, <1>2, <1>3 DEF QueuedOnce
<1>5. \A i \in 1 .. n + 1 : i \in 1 .. n \/ i = n + 1
  BY <1>1
<1>6. n + 1 \in 1 .. n + 1 /\ \A i \in 1 .. n : i \in 1 .. n + 1
  BY <1>1
<1>7. \A g : Queued(g)' <=> Queued(g) \/ g = f
  BY <1>2, <1>5, <1>6 DEF Queued
<1>8. QED
  BY <1>4, <1>7

(* While the reader is not queued, there is an item for it. *)
LEMMA ItemForReader ==
  ASSUME TypeOK, EnoughItems, QueuedOnce, ~Queued("reader")
  PROVE  Len(workq) < NItems
<1> DEFINE n == Len(workq)
           q == [i \in 1 .. n |-> workq[i]]
<1>1. n \in Nat /\ NItems \in Nat /\ Cardinality(Others) \in Nat
  BY LenProperties, FS_CardinalityType, UartConstantsOK
     DEF TypeOK, EnoughItems
<1>2. \A i \in 1 .. n : workq[i] \in Others
  <2>1. workq \in Seq(Others \cup {"reader"})
    BY DEF TypeOK
  <2>2. \A i \in 1 .. n : workq[i] \in Others \cup {"reader"}
    BY ONLY <2>1, ElementOfSeq
  <2>3. QED
    BY <2>2 DEF Queued
<1>3. SUFFICES ASSUME n > Cardinality(Others) PROVE FALSE
  BY <1>1 DEF EnoughItems
<1>4. IsFiniteSet(1 .. n) /\ Cardinality(1 .. n) = n
  <2> HIDE DEF n
  <2>1. /\ IsFiniteSet(1 .. n)
        /\ Cardinality(1 .. n) = IF 1 > n THEN 0 ELSE n - 1 + 1
    BY ONLY <1>1, FS_Interval
  <2>2. QED
    BY <1>1, <2>1
<1>5. q \in [1 .. n -> Others]
  BY <1>2
<1> HIDE DEF n, q
<1>6. \E x, y \in 1 .. n : x # y /\ q[x] = q[y]
  BY <1>1, <1>3, <1>4, <1>5, FS_PigeonHole DEF EnoughItems
<1>7. QED
  BY <1>6 DEF n, q, QueuedOnce

(* What a call of nk_sched does to the queue, if there are enough items. *)
LEMMA SchedQueues ==
  ASSUME TypeOK, EnoughItems, QueuedOnce,
         NEW f \in Others \cup {"reader"}, nk_sched(f)
  PROVE  /\ QueuedOnce'
         /\ f = "reader" => Queued("reader")'
         /\ f # "reader" => (Queued("reader")' <=> Queued("reader"))
<1> DEFINE S == Others \cup {"reader"}
<1>1. workq \in Seq(S)
  BY DEF TypeOK
<1>2. CASE \E k \in 1 .. Len(workq) :
             workq[k] = f /\ workq' = Append(RemoveAt(workq, k), f)
  <2>1. PICK k \in 1 .. Len(workq) :
          workq[k] = f /\ workq' = Append(RemoveAt(workq, k), f)
    BY <1>2
  <2>2. QueuedOnce' /\ \A g : Queued(g)' <=> Queued(g)
    BY <1>1, <2>1, MoveToEnd
  <2>3. Queued(f)
    BY <2>1 DEF Queued
  <2>4. QED
    BY <2>2, <2>3
<1>3. CASE ~Queued(f) /\ workq' = Append(workq, f)
  BY <1>1, <1>3, AddAtEnd
<1>4. CASE ~Queued(f) /\ Len(workq) >= NItems /\ UNCHANGED workq
  <2>1. f # "reader"
    <3>1. Len(workq) \in Nat /\ NItems \in Nat
      BY <1>1, LenProperties, UartConstantsOK
    <3>2. ~Queued("reader") => Len(workq) < NItems
      BY ItemForReader
    <3>3. QED
      BY <1>4, <3>1, <3>2
  <2>2. QED
    BY <1>4, <2>1 DEF QueuedOnce, Queued
<1>5. QED
  BY <1>2, <1>3, <1>4 DEF nk_sched

(* The main loop takes the first function out of the queue. *)
LEMMA TakeFirst ==
  ASSUME NEW S, workq \in Seq(S), workq # << >>, QueuedOnce,
         NEW CONSTANT f, f = Head(workq), workq' = Tail(workq)
  PROVE  /\ QueuedOnce'
         /\ Queued(f) /\ ~Queued(f)'
         /\ \A g : g # f => (Queued(g)' <=> Queued(g))
<1> DEFINE n == Len(workq)
<1>1. n \in Nat \ {0} /\ f = workq[1]
  BY EmptySeq, LenProperties
<1>2. Len(workq') = n - 1 /\ \A i \in 1 .. n - 1 : workq'[i] = workq[i + 1]
  BY HeadTailProperties
<1>3. \A i \in 1 .. n - 1 : i + 1 \in 1 .. n /\ i + 1 # 1
  BY <1>1
<1>4. \A i \in 1 .. n : i = 1 \/ i - 1 \in 1 .. n - 1
  BY <1>1
<1>5. QueuedOnce'
  BY <1>1, <1>2, <1>3 DEF QueuedOnce
<1>6. Queued(f)
  BY <1>1 DEF Queued
<1>7. \A i \in 1 .. n - 1 : workq'[i] # f
  BY <1>1, <1>2, <1>3 DEF QueuedOnce
<1>8. ASSUME NEW CONSTANT g, g # f PROVE Queued(g)' <=> Queued(g)
  <2>1. ASSUME NEW i \in 1 .. n - 1, workq'[i] = g PROVE Queued(g)
    BY <1>2, <1>3, <2>1 DEF Queued
  <2>2. ASSUME NEW i \in 1 .. n, workq[i] = g
        PROVE  \E l \in 1 .. n - 1 : workq'[l] = g
    <3>1. i - 1 \in 1 .. n - 1
      BY <1>4, <1>8, <2>2
    <3>2. workq'[i - 1] = g
      BY <1>2, <2>2, <3>1
    <3>3. QED
      BY <3>1, <3>2
  <2>3. QED
    BY <1>2, <2>1, <2>2 DEF Queued
<1>9. ~Queued(f)'
  BY <1>1, <1>2, <1>7 DEF Queued
<1> HIDE DEF n
<1>10. QED
  BY <1>1, <1>5, <1>6, <1>8, <1>9

(* At first nothing is queued, and the reader is about to register. *)
LEMMA InitReader == Init => ReaderInv
  BY DEF Init, ReaderInv, QueuedOnce, ReaderReachable, Running, Queued

(* It stays reachable whatever the others put into the work queue. *)
LEMMA NextReader ==
  ASSUME EnoughItems
  PROVE  TypeOK /\ ReaderInv /\ [Next]_vars => ReaderInv'
<1> SUFFICES ASSUME TypeOK, ReaderInv, [Next]_vars PROVE ReaderInv'
  OBVIOUS
<1>0. QueuedOnce /\ ReaderReachable
  BY DEF ReaderInv
<1>1. CASE nk_uart_irq_handler
  <2>1. UNCHANGED << rx_buf_rd, pc >>
    BY <1>1 DEF nk_uart_irq_handler
  <2>2. CASE /\ waiting_rx_task /\ nk_sched("reader")
             /\ waiting_rx_task' = FALSE
    <3>1. QueuedOnce' /\ Queued("reader")'
      BY <1>0, <2>2, SchedQueues
    <3>2. ~Running'
      BY <1>0, <2>1, <2>2 DEF ReaderReachable, Running
    <3>3. QED
      BY <2>2, <3>1, <3>2 DEF ReaderInv, ReaderReachable
  <2>3. CASE ~waiting_rx_task /\ UNCHANGED << workq, waiting_rx_task >>
    BY <1>0, <2>1, <2>3
       DEF ReaderInv, QueuedOnce, ReaderReachable, Running, Queued
  <2>4. QED
    BY <1>1, <2>2, <2>3 DEF nk_uart_irq_handler, Wakes
<1>2. CASE nk_set_uart_callback
  <2>1. /\ Running /\ ~Running' /\ UNCHANGED << rx_buf_rd, rx_buf_wr >>
        /\ waiting_rx_task' = Empty
    BY <1>2 DEF nk_set_uart_callback, Goes, Running, ring
  <2>2. ~Queued("reader")
    BY <1>0, <2>1 DEF ReaderReachable
  <2>3. CASE Empty /\ UNCHANGED workq
    BY <1>0, <2>1, <2>2, <2>3
       DEF ReaderInv, QueuedOnce, ReaderReachable, Queued, Empty
  <2>4. CASE ~Empty /\ nk_sched("reader")
    <3>1. QueuedOnce' /\ Queued("reader")'
      BY <1>0, <2>4, SchedQueues
    <3>2. QED
      BY <2>1, <2>4, <3>1 DEF ReaderInv, ReaderReachable
  <2>5. QED
    BY <1>2, <2>3, <2>4 DEF nk_set_uart_callback
<1>3. CASE nk_getc
  <2>1. Running /\ Running' /\ UNCHANGED << workq, waiting_rx_task >>
    BY <1>3 DEF nk_getc, nk_getc_test, nk_getc_load, nk_getc_store,
                nk_getc_return, Does, Goes, Running
  <2>2. ~waiting_rx_task /\ ~Queued("reader")
    BY <1>0, <2>1 DEF ReaderReachable
  <2>3. QED
    BY <1>0, <2>1, <2>2 DEF ReaderInv, QueuedOnce, ReaderReachable, Queued
<1>4. CASE Dispatch
  <2>1. /\ ~Running /\ workq # << >> /\ workq' = Tail(workq)
        /\ UNCHANGED << waiting_rx_task, rx_buf_rd, rx_buf_wr >>
        /\ Running' <=> Head(workq) = "reader"
    BY <1>4 DEF Dispatch, Goes, Running, ring
  <2>2. PICK f \in Others \cup {"reader"} : f = Head(workq)
    BY <2>1, HeadTailProperties DEF TypeOK
  <2>3. /\ QueuedOnce' /\ Queued(f) /\ ~Queued(f)'
        /\ \A g : g # f => (Queued(g)' <=> Queued(g))
    BY <1>0, <2>1, <2>2, TakeFirst DEF TypeOK
  <2>4. Empty' <=> Empty
    BY <2>1 DEF Empty
  <2>5. CASE f = "reader"
    <3>1. ~waiting_rx_task' /\ Running' /\ ~Queued("reader")'
      BY <1>0, <2>1, <2>2, <2>3, <2>5 DEF ReaderReachable
    <3>2. QED
      BY <2>3, <3>1 DEF ReaderInv, ReaderReachable
  <2>6. CASE f # "reader"
    <3>1. (Queued("reader")' <=> Queued("reader")) /\ ~Running'
      BY <2>1, <2>2, <2>3, <2>6
    <3>2. QED
      BY <1>0, <2>1, <2>3, <2>4, <3>1 DEF ReaderInv, ReaderReachable
  <2>7. QED
    BY <2>5, <2>6
<1>5. CASE OtherWork
  <2>1. PICK f \in Others : nk_sched(f)
    BY <1>5 DEF OtherWork
  <2>2. f # "reader"
    BY UartConstantsOK
  <2>3. QueuedOnce' /\ (Queued("reader")' <=> Queued("reader"))
    BY <1>0, <2>1, <2>2, SchedQueues
  <2>4. UNCHANGED << waiting_rx_task, rx_buf_rd, rx_buf_wr, pc >>
    BY <1>5 DEF OtherWork, ring
  <2>5. (Empty' <=> Empty) /\ (Running' <=> Running)
    BY <2>4 DEF Empty, Running
  <2>6. QED
    BY <1>0, <2>3, <2>4, <2>5 DEF ReaderInv, ReaderReachable
<1>6. CASE UNCHANGED vars
  BY <1>0, <1>6 DEF ReaderInv, QueuedOnce, ReaderReachable, Queued, Running,
                    Empty, vars, ring
<1>7. QED
  BY <1>1, <1>2, <1>3, <1>4, <1>5, <1>6 DEF Next, Reader

(***************************************************************************)
(* If the work queue has an item for each of its users, the reader is      *)
(* never lost: it is registered, queued or running, in one of these        *)
(* places, and it does not wait while there is something to read.          *)
(***************************************************************************)
THEOREM NoLostWakeup ==
  ASSUME EnoughItems
  PROVE  Spec => []ReaderReachable
<1>1. Spec => []ReaderInv
  BY InitReader, NextReader, TypeCorrect, PTL DEF Spec
<1>2. ReaderInv => ReaderReachable
  BY DEF ReaderInv
<1>3. QED
  BY <1>1, <1>2, PTL

-----------------------------------------------------------------------------
(* The terminal: runs of tokens *)

(* f holds the terminal t before and after each token of s. *)
Run(f, t, s) ==
  f = [k \in 0 .. Len(s) |-> IF k = 0 THEN t ELSE PutChar(f[k - 1], s[k])]

(* nk_puts is what any such run ends with. *)
LEMMA RunIsPuts ==
  ASSUME NEW s, Len(s) \in Nat, NEW t, NEW f, Run(f, t, s)
  PROVE  nk_puts(t, s) = f[Len(s)]
<1> DEFINE e(g) == [k \in 0 .. Len(s) |->
                      IF k = 0 THEN t ELSE PutChar(g[k - 1], s[k])]
           h == CHOOSE g : g = e(g)
           S == {k \in Nat : k \in 0 .. Len(s) => h[k] = f[k]}
<1>1. f = e(f)
  BY DEF Run
<1>2. h = e(h)
  BY <1>1
<1>3. nk_puts(t, s) = h[Len(s)]
  BY DEF nk_puts
<1>4. Nat \subseteq S
  <2>1. 0 \in S
    BY <1>1, <1>2
  <2>2. ASSUME NEW n \in Nat, n \in S PROVE n + 1 \in S
    <3> SUFFICES ASSUME n + 1 \in 0 .. Len(s) PROVE h[n + 1] = f[n + 1]
      OBVIOUS
    <3> HIDE DEF h
    <3>1. h[n] = f[n] /\ n + 1 # 0 /\ (n + 1) - 1 = n
      BY <2>2
    <3>2. h[n + 1] = PutChar(h[n], s[n + 1])
      BY <1>2, <3>1
    <3>3. f[n + 1] = PutChar(f[n], s[n + 1])
      BY <1>1, <3>1
    <3>4. QED
      BY <3>1, <3>2, <3>3
  <2> HIDE DEF S
  <2>3. QED
    BY <2>1, <2>2, NatInductive
<1>5. QED
  BY <1>3, <1>4

(* There is such a run for every finite sequence. *)
LEMMA RunExists ==
  ASSUME NEW s, Len(s) \in Nat, NEW t
  PROVE  \E f : Run(f, t, s)
<1> DEFINE e(g, n) == [k \in 0 .. n |->
                      IF k = 0 THEN t ELSE PutChar(g[k - 1], s[k])]
           S == {n \in Nat : \E g : g = e(g, n)}
<1>1. 0 \in S
  <2> DEFINE g == [k \in 0 .. 0 |-> t]
  <2>1. g = e(g, 0)
    OBVIOUS
  <2>2. QED
    BY <2>1
<1>2. ASSUME NEW n \in Nat, n \in S PROVE n + 1 \in S
  <2>1. PICK g : g = e(g, n)
    BY <1>2
  <2> DEFINE h == [k \in 0 .. n + 1 |->
                 IF k = n + 1 THEN PutChar(g[n], s[n + 1]) ELSE g[k]]
  <2>2. h = e(h, n + 1)
    <3>1. ASSUME NEW k \in 0 .. n + 1
          PROVE  h[k] = IF k = 0 THEN t ELSE PutChar(h[k - 1], s[k])
      <4>1. CASE k = n + 1
        <5>1. k # 0 /\ k - 1 = n /\ k - 1 \in 0 .. n + 1 /\ k - 1 # n + 1
          BY <4>1
        <5>2. h[k - 1] = g[n]
          BY <5>1
        <5>3. h[k] = PutChar(g[n], s[k])
          BY <4>1
        <5>4. QED
          BY <5>1, <5>2, <5>3
      <4>2. CASE k = 0
        BY <2>1, <4>2
      <4>3. CASE k # 0 /\ k # n + 1
        <5>1. k \in 0 .. n /\ k - 1 \in 0 .. n + 1 /\ k - 1 # n + 1
          BY <4>3
        <5>2. h[k] = g[k] /\ h[k - 1] = g[k - 1]
          BY <5>1, <4>3
        <5>3. g[k] = PutChar(g[k - 1], s[k])
          BY <2>1, <4>3, <5>1
        <5>4. QED
          BY <4>3, <5>2, <5>3
      <4>4. QED
        BY <4>1, <4>2, <4>3
    <3> HIDE DEF h
    <3>2. h = [k \in 0 .. n + 1 |-> h[k]]
      BY DEF h
    <3>3. QED
      BY <3>1, <3>2
  <2> HIDE DEF h, e
  <2>3. n + 1 \in S
    BY <2>2
  <2>4. QED
    BY <2>3
<1>3. Len(s) \in S
  <2> HIDE DEF S
  <2>1. QED
    BY <1>1, <1>2, NatInductive
<1>4. QED
  BY <1>3 DEF Run

(* Writing two sequences one after the other is writing both. *)
LEMMA PutsConcat ==
  ASSUME NEW A, NEW s \in Seq(A), NEW u \in Seq(A), NEW t
  PROVE  nk_puts(t, s \o u) = nk_puts(nk_puts(t, s), u)
<1> DEFINE m == Len(s)
           n == Len(u)
<1>1. m \in Nat /\ n \in Nat
  BY LenProperties
<1>2. PICK f : Run(f, t, s)
  BY <1>1, RunExists
<1>3. PICK g : Run(g, f[m], u)
  BY <1>1, RunExists
<1>4. nk_puts(t, s) = f[m] /\ nk_puts(f[m], u) = g[n]
  BY <1>1, <1>2, <1>3, RunIsPuts
<1> DEFINE h == [k \in 0 .. m + n |-> IF k <= m THEN f[k] ELSE g[k - m]]
<1>5. Len(s \o u) = m + n
  BY ConcatProperties
<1>6. Run(h, t, s \o u)
  <2>1. g[0] = f[m] /\ f[0] = t
    BY <1>1, <1>2, <1>3 DEF Run
  <2>2. ASSUME NEW k \in 0 .. m + n, k # 0
        PROVE  h[k] = PutChar(h[k - 1], (s \o u)[k])
    <3>1. CASE k <= m
      <4>1. k \in 0 .. m /\ k \in 1 .. m + n
        BY <1>1, <2>2, <3>1
      <4>2. (s \o u)[k] = s[k]
        BY <3>1, <4>1, ConcatProperties
      <4>3. f[k] = PutChar(f[k - 1], s[k])
        BY <1>2, <4>1, <2>2 DEF Run
      <4>4. h[k] = f[k] /\ h[k - 1] = f[k - 1]
        BY <1>1, <3>1, <2>2
      <4>5. QED
        BY <4>2, <4>3, <4>4
    <3>2. CASE k > m
      <4>1. k - m \in 0 .. n /\ k - m # 0 /\ k \in 1 .. m + n
        BY <1>1, <3>2
      <4>2. (s \o u)[k] = u[k - m]
        BY <3>2, <4>1, <1>1, ConcatProperties
      <4>3. g[k - m] = PutChar(g[k - m - 1], u[k - m])
        BY <1>3, <4>1 DEF Run
      <4>4. h[k] = g[k - m]
        BY <1>1, <3>2
      <4>5. h[k - 1] = g[k - m - 1]
        <5>1. CASE k = m + 1
          <6>1. k - m - 1 = 0 /\ k - 1 = m
            BY <5>1, <1>1
          <6>2. h[k - 1] = f[m]
            BY <6>1, <1>1
          <6>3. QED
            BY <6>1, <6>2, <2>1
        <5>2. CASE k # m + 1
          <6>1. k - 1 > m /\ k - 1 \in 0 .. m + n /\ k - m - 1 = k - 1 - m
            BY <5>2, <3>2, <1>1
          <6>2. QED
            BY <6>1, <1>1
        <5>3. QED
          BY <5>1, <5>2
      <4>6. QED
        BY <4>2, <4>3, <4>4, <4>5
    <3>3. QED
      BY <3>1, <3>2, <1>1, <2>2
  <2>3. h[0] = t
    BY <2>1, <1>1
  <2> DEFINE w == s \o u
  <2>4. h = [k \in 0 .. Len(w) |-> h[k]]
    BY <1>5
  <2>5. \A k \in 0 .. Len(w) :
          h[k] = IF k = 0 THEN t ELSE PutChar(h[k - 1], w[k])
    BY <1>5, <2>2, <2>3
  <2> HIDE DEF h, w
  <2>6. Run(h, t, w)
    BY <2>4, <2>5 DEF Run
  <2>7. QED
    BY <2>6 DEF w
<1>7. nk_puts(t, s \o u) = h[m + n]
  BY <1>1, <1>5, <1>6, RunIsPuts
<1>8. h[m + n] = g[n]
  <2>1. CASE n = 0
    <3>1. g[0] = f[m]
      BY <1>1, <1>3 DEF Run
    <3>2. QED
      BY <3>1, <2>1, <1>1
  <2>2. CASE n # 0
    BY <2>2, <1>1
  <2>3. QED
    BY <2>1, <2>2
<1>9. QED
  BY <1>4, <1>7, <1>8

-----------------------------------------------------------------------------
(* The terminal: single tokens and strings *)

(* A terminal whose cursor is at a column of its own. *)
Terminal == [row : Seq(Char), col : Nat, clean : BOOLEAN]

(* The cursor is on the text of the row or right behind it. *)
OnRow(t) == t \in Terminal /\ t.col <= Len(t.row)

(* The terminal with row r, cursor c and clean flag b. *)
At(r, c, b) == [row |-> r, col |-> c, clean |-> b]

(* the length of row r when n columns of it are written *)
Wide(r, n) == IF Len(r) > n THEN Len(r) ELSE n

(* Row r with the first k characters of s written at column c. *)
Over(r, c, s, k) ==
  [i \in 1 .. Wide(r, c + k) |->
     IF i \in c + 1 .. c + k THEN s[i - c] ELSE r[i]]

(* Row r with its columns j + 1 .. n blank. *)
Wiped(r, n, j) ==
  [i \in 1 .. Len(r) |-> IF i \in j + 1 .. n THEN Blank ELSE r[i]]

(* The fields of At. *)
LEMMA AtFields ==
  ASSUME NEW r, NEW c, NEW b
  PROVE  /\ At(r, c, b).row = r
         /\ At(r, c, b).col = c
         /\ At(r, c, b).clean = b
  BY DEF At

(* Every terminal is At of its fields. *)
LEMMA TerminalIsAt ==
  ASSUME NEW t \in Terminal
  PROVE  /\ t = At(t.row, t.col, t.clean)
         /\ t.row \in Seq(Char) /\ t.col \in Nat /\ t.clean \in BOOLEAN
  BY DEF At, Terminal

(* Characters are none of the tokens that steer the terminal. *)
LEMMA CharsOnly ==
  ASSUME NEW c \in Char
  PROVE  c # BS /\ c # NL /\ c # Prompt /\ c # Nul
  BY ReadlineConstantsOK

(* What each token does: a backspace takes the cursor one column back. *)
LEMMA PutBackspace ==
  ASSUME NEW r, NEW c, NEW b
  PROVE  PutChar(At(r, c, b), BS) = At(r, c - 1, b)
  BY DEF PutChar, At, NL, BS, Prompt

(* A newline gives an empty row. *)
LEMMA PutNewLine ==
  ASSUME NEW t
  PROVE  PutChar(t, NL) = At(<< >>, 0, TRUE)
  BY DEF PutChar, At, NL, BS, Prompt

(* The prompt leaves on its right what was there: the row is clean only if *)
(* it was empty.                                                            *)
LEMMA PutPrompt ==
  ASSUME NEW t, OnRow(t)
  PROVE  /\ OnRow(PutChar(t, Prompt))
         /\ PutChar(t, Prompt).col = 0
         /\ PutChar(t, Prompt).clean => t.row = << >>
         /\ t.row = << >> => PutChar(t, Prompt).row = << >>
<1> DEFINE u == PutChar(t, Prompt)
           r == SubSeq(t.row, t.col + 2, Len(t.row))
           e == << >>
           b == t.clean /\ t.row = e
<1>1. /\ t.row \in Seq(Char) /\ t.col \in Nat /\ t.clean \in BOOLEAN
      /\ Len(t.row) \in Nat
  BY TerminalIsAt, LenProperties DEF OnRow
<1>2. u = At(r, 0, b)
  BY DEF PutChar, At, NL, BS, Prompt
<1>3. r \in Seq(Char) /\ Len(r) \in Nat
  <2>1. \A i \in t.col + 2 .. Len(t.row) : t.row[i] \in Char
    BY <1>1, ElementOfSeq
  <2>2. t.col + 2 \in Int /\ Len(t.row) \in Int
    BY <1>1
  <2>3. r \in Seq(Char)
    BY <2>1, <2>2, SubSeqProperties
  <2> HIDE DEF r
  <2>4. QED
    BY <2>3, LenProperties
<1>4. ASSUME t.row = e PROVE r = e
  <2>1. Len(t.row) = 0 /\ t.col + 2 > 0
    BY <1>1, <1>4
  <2>2. QED
    BY <1>1, <2>1, SubSeqEmpty
<1>5. b \in BOOLEAN /\ (b => t.row = e)
  BY <1>1
<1> HIDE DEF u, r, e, b
<1>6. u.row = r /\ u.col = 0 /\ u.clean = b
  BY <1>2, AtFields
<1>7. OnRow(u)
  BY <1>2, <1>3, <1>5, <1>6 DEF OnRow, Terminal, At
<1>8. u.clean => t.row = e
  BY <1>5, <1>6
<1>9. t.row = e => u.row = e
  BY <1>4, <1>6
<1>10. QED
  BY <1>6, <1>7, <1>8, <1>9 DEF u, e

(* A character replaces the one under the cursor or lengthens the row. *)
LEMMA PutOther ==
  ASSUME NEW r, NEW c, NEW b, NEW x \in Char
  PROVE  PutChar(At(r, c, b), x)
           = At(IF c < Len(r) THEN [r EXCEPT ![c + 1] = x] ELSE Append(r, x),
                c + 1, b)
  BY CharsOnly DEF PutChar, At

(* A row that is written over is a row, of known length and contents. *)
LEMMA OverIsSeq ==
  ASSUME NEW r \in Seq(Char), NEW c \in 0 .. Len(r), NEW s \in Seq(Char),
         NEW k \in 0 .. Len(s)
  PROVE  /\ Over(r, c, s, k) \in Seq(Char)
         /\ Len(Over(r, c, s, k)) = Wide(r, c + k)
         /\ \A i \in 1 .. Wide(r, c + k) :
              Over(r, c, s, k)[i] =
                IF i \in c + 1 .. c + k THEN s[i - c] ELSE r[i]
<1>1. Len(r) \in Nat /\ Len(s) \in Nat
  BY LenProperties
<1>2. Wide(r, c + k) \in Nat
  BY <1>1 DEF Wide
<1>3. ASSUME NEW i \in 1 .. Wide(r, c + k)
      PROVE  (IF i \in c + 1 .. c + k THEN s[i - c] ELSE r[i]) \in Char
  <2>1. CASE i \in c + 1 .. c + k
    <3>1. i - c \in 1 .. Len(s)
      BY <1>1, <2>1
    <3>2. QED
      BY <3>1, <2>1, ElementOfSeq
  <2>2. CASE i \notin c + 1 .. c + k
    <3>1. i \in 1 .. Len(r)
      BY <1>1, <1>3, <2>2 DEF Wide
    <3>2. QED
      BY <3>1, <2>2, ElementOfSeq
  <2>3. QED
    BY <2>1, <2>2
<1>4. Over(r, c, s, k) \in [1 .. Wide(r, c + k) -> Char]
  BY <1>3 DEF Over
<1>5. Over(r, c, s, k) \in Seq(Char)
  BY <1>2, <1>4
<1>6. Len(Over(r, c, s, k)) = Wide(r, c + k)
  BY <1>2 DEF Over
<1>7. \A i \in 1 .. Wide(r, c + k) :
        Over(r, c, s, k)[i] = IF i \in c + 1 .. c + k THEN s[i - c] ELSE r[i]
  BY DEF Over
<1>8. QED
  BY <1>5, <1>6, <1>7

(* Writing k characters is writing k - 1 and one more. *)
LEMMA OverStep ==
  ASSUME NEW r \in Seq(Char), NEW c \in 0 .. Len(r), NEW s \in Seq(Char),
         NEW k \in 1 .. Len(s)
  PROVE  LET q == Over(r, c, s, k - 1)
         IN  Over(r, c, s, k) =
               IF c + k - 1 < Len(q) THEN [q EXCEPT ![c + k] = s[k]]
                                     ELSE Append(q, s[k])
<1> DEFINE q == Over(r, c, s, k - 1)
           p == Over(r, c, s, k)
           w == IF c + k - 1 < Len(q) THEN [q EXCEPT ![c + k] = s[k]]
                                      ELSE Append(q, s[k])
<1>1. Len(r) \in Nat /\ Len(s) \in Nat
  BY LenProperties
<1>2. k - 1 \in 0 .. Len(s) /\ k \in 0 .. Len(s) /\ k \in 1 .. Len(s)
  BY <1>1
<1>3. s[k] \in Char
  BY <1>2, ElementOfSeq
<1>4. /\ q \in Seq(Char)
      /\ Len(q) = Wide(r, c + k - 1)
      /\ \A i \in 1 .. Wide(r, c + k - 1) :
           q[i] = IF i \in c + 1 .. c + k - 1 THEN s[i - c] ELSE r[i]
  <2> DEFINE j == k - 1
  <2>1. c + j = c + k - 1 /\ j \in 0 .. Len(s)
    BY <1>1, <1>2
  <2> HIDE DEF j
  <2>2. Over(r, c, s, j) \in Seq(Char)
    BY <2>1, OverIsSeq
  <2>3. Len(Over(r, c, s, j)) = Wide(r, c + j)
    BY <2>1, OverIsSeq
  <2>4. \A i \in 1 .. Wide(r, c + j) :
          Over(r, c, s, j)[i] = IF i \in c + 1 .. c + j THEN s[i - c] ELSE r[i]
    BY DEF Over
  <2>5. q = Over(r, c, s, j)
    BY DEF j
  <2>6. QED
    BY <2>1, <2>2, <2>3, <2>4, <2>5
<1>5. /\ p \in Seq(Char)
      /\ Len(p) = Wide(r, c + k)
      /\ \A i \in 1 .. Wide(r, c + k) :
           p[i] = IF i \in c + 1 .. c + k THEN s[i - c] ELSE r[i]
  <2>1. p \in Seq(Char)
    BY <1>2, OverIsSeq
  <2>2. Len(p) = Wide(r, c + k)
    BY <1>2, OverIsSeq
  <2>3. \A i \in 1 .. Wide(r, c + k) :
          p[i] = IF i \in c + 1 .. c + k THEN s[i - c] ELSE r[i]
    BY <1>2, OverIsSeq
  <2>4. QED
    BY <2>1, <2>2, <2>3
<1> HIDE DEF q, p
<1>6. p = w
  <2>1. CASE c + k - 1 < Len(q)
    <3> DEFINE v == [q EXCEPT ![c + k] = s[k]]
    <3>1. Len(q) = Len(r) /\ c + k <= Len(r) /\ c + k \in 1 .. Len(q)
      BY <1>1, <1>2, <1>4, <2>1 DEF Wide
    <3>2. Len(p) = Len(r)
      BY <1>1, <1>2, <1>5, <3>1 DEF Wide
    <3>3. /\ v \in Seq(Char) /\ Len(v) = Len(q)
          /\ \A i \in 1 .. Len(q) : v[i] = IF i = c + k THEN s[k] ELSE q[i]
      BY <1>3, <1>4, <3>1, ExceptSeq
    <3> HIDE DEF v
    <3>4. ASSUME NEW i \in 1 .. Len(p) PROVE p[i] = v[i]
      <4>1. CASE i = c + k
        <5>1. i - c = k /\ i \in c + 1 .. c + k
          BY <4>1, <1>1, <1>2
        <5>2. QED
          BY <1>5, <3>1, <3>2, <3>3, <4>1, <5>1, <3>4
      <4>2. CASE i # c + k
        <5>1. i \in c + 1 .. c + k <=> i \in c + 1 .. c + k - 1
          BY <4>2, <1>1, <1>2
        <5>2. p[i] = q[i]
          BY <1>4, <1>5, <3>1, <3>2, <5>1, <3>4
        <5>3. QED
          BY <3>1, <3>2, <3>3, <4>2, <5>2, <3>4
      <4>3. QED
        BY <4>1, <4>2
    <3>5. p = v
      BY <1>5, <3>1, <3>2, <3>3, <3>4, SeqEqual
    <3>6. QED
      BY <2>1, <3>5 DEF v
  <2>2. CASE ~ (c + k - 1 < Len(q))
    <3> DEFINE v == Append(q, s[k])
    <3>1. Len(q) = c + k - 1 /\ Len(q) \in Nat
      BY <1>1, <1>2, <1>4, <2>2 DEF Wide
    <3>2. Len(p) = c + k
      BY <1>1, <1>2, <1>5, <1>4, <2>2 DEF Wide
    <3>3. /\ v \in Seq(Char) /\ Len(v) = Len(q) + 1
          /\ \A i \in 1 .. Len(q) : v[i] = q[i]
          /\ v[Len(q) + 1] = s[k]
      BY <1>3, <1>4, AppendProperties
    <3> HIDE DEF v
    <3>4. ASSUME NEW i \in 1 .. Len(p) PROVE p[i] = v[i]
      <4>1. CASE i = c + k
        <5>1. i - c = k /\ i \in c + 1 .. c + k /\ i = Len(q) + 1
          BY <4>1, <1>1, <1>2, <3>1
        <5>2. QED
          BY <1>5, <3>1, <3>2, <3>3, <5>1, <3>4
      <4>2. CASE i # c + k
        <5>1. i \in 1 .. Len(q)
          BY <4>2, <1>1, <1>2, <3>1, <3>2, <3>4
        <5>2. i \in c + 1 .. c + k <=> i \in c + 1 .. c + k - 1
          BY <4>2, <1>1, <1>2
        <5>3. p[i] = q[i]
          BY <1>4, <1>5, <5>1, <5>2, <3>4
        <5>4. QED
          BY <3>3, <5>1, <5>3
      <4>3. QED
        BY <4>1, <4>2
    <3>5. Len(p) = Len(v)
      BY <3>1, <3>2, <3>3, <1>1, <1>2
    <3>6. p = v
      BY <1>5, <3>3, <3>4, <3>5, SeqEqual
    <3>7. QED
      BY <2>2, <3>6 DEF v
  <2>3. QED
    BY <2>1, <2>2
<1>7. QED
  BY <1>6 DEF p, q

(* Writing none changes nothing. *)
LEMMA OverNothing ==
  ASSUME NEW r \in Seq(Char), NEW c \in 0 .. Len(r), NEW s \in Seq(Char)
  PROVE  Over(r, c, s, 0) = r
<1>1. Len(r) \in Nat /\ Len(s) \in Nat /\ 0 \in 0 .. Len(s)
  BY LenProperties
<1>2. Wide(r, c + 0) = Len(r)
  BY <1>1 DEF Wide
<1>3. \A i \in 1 .. Len(r) : i \notin c + 1 .. c + 0
  BY <1>1
<1>4. QED
  BY <1>1, <1>2, <1>3, OverIsSeq, SeqEqual, SMTT(30)

(* By induction over the tokens: what writing a string of characters does. *)
LEMMA PutsChars ==
  ASSUME NEW t, OnRow(t), NEW s \in Seq(Char)
  PROVE  nk_puts(t, s) =
           At(Over(t.row, t.col, s, Len(s)), t.col + Len(s), t.clean)
<1> DEFINE r == t.row
           c == t.col
           f == [k \in 0 .. Len(s) |-> At(Over(r, c, s, k), c + k, t.clean)]
<1>1. Len(s) \in Nat /\ r \in Seq(Char) /\ Len(r) \in Nat /\ c \in 0 .. Len(r)
      /\ t = At(r, c, t.clean)
  BY LenProperties, TerminalIsAt DEF OnRow
<1> HIDE DEF r, c
<1>2. f[0] = t
  <2>1. f[0] = At(Over(r, c, s, 0), c + 0, t.clean)
    BY <1>1
  <2>2. c + 0 = c
    BY <1>1
  <2>3. QED
    BY <1>1, <2>1, <2>2, OverNothing
<1>3. ASSUME NEW k \in 0 .. Len(s), k # 0
      PROVE  f[k] = PutChar(f[k - 1], s[k])
  <2>1. k \in 1 .. Len(s) /\ k - 1 \in 0 .. Len(s)
    BY <1>1, <1>3
  <2>2. s[k] \in Char
    BY <2>1, ElementOfSeq
  <2> DEFINE q == Over(r, c, s, k - 1)
  <2>3. f[k - 1] = At(q, c + (k - 1), t.clean)
    BY <2>1
  <2>4. c + (k - 1) = c + k - 1 /\ (c + (k - 1)) + 1 = c + k
    BY <1>1, <2>1
  <2>5. f[k] = At(Over(r, c, s, k), c + k, t.clean)
    BY <1>3
  <2>6. Over(r, c, s, k) = IF c + k - 1 < Len(q)
                             THEN [q EXCEPT ![c + k] = s[k]]
                             ELSE Append(q, s[k])
    BY <1>1, <2>1, OverStep
  <2> HIDE DEF q, f
  <2> DEFINE b == t.clean
             d == c + (k - 1)
             x == s[k]
  <2> HIDE DEF b, d, x
  <2>9. PutChar(At(q, d, b), x)
          = At(IF d < Len(q) THEN [q EXCEPT ![d + 1] = x] ELSE Append(q, x),
               d + 1, b)
    BY <2>2, PutOther DEF x
  <2>7. PutChar(f[k - 1], s[k])
          = At(IF c + (k - 1) < Len(q)
                 THEN [q EXCEPT ![(c + (k - 1)) + 1] = s[k]]
                 ELSE Append(q, s[k]), (c + (k - 1)) + 1, t.clean)
    BY <2>9, <2>3 DEF b, d, x
  <2>8. QED
    BY <2>4, <2>5, <2>6, <2>7
<1>4. f = [k \in 0 .. Len(s) |-> f[k]]
  OBVIOUS
<1>5. f[Len(s)] = At(Over(r, c, s, Len(s)), c + Len(s), t.clean)
  BY <1>1
<1> HIDE DEF f
<1>6. Run(f, t, s)
  BY <1>2, <1>3, <1>4 DEF Run
<1>7. QED
  BY <1>1, <1>5, <1>6, RunIsPuts DEF r, c

(* The same for a number of backspaces. *)
LEMMA PutsBackspaces ==
  ASSUME NEW t \in Terminal, NEW n \in Nat
  PROVE  nk_puts(t, Backspaces(n)) = At(t.row, t.col - n, t.clean)
<1> DEFINE f == [k \in 0 .. n |-> At(t.row, t.col - k, t.clean)]
           s == Backspaces(n)
<1>1. Len(s) = n /\ \A k \in 1 .. n : s[k] = BS
  BY DEF Backspaces
<1>2. t = At(t.row, t.col, t.clean) /\ t.col \in Nat
  BY TerminalIsAt
<1>3. f[0] = t
  <2>1. f[0] = At(t.row, t.col - 0, t.clean) /\ t.col - 0 = t.col
    BY <1>2
  <2>2. QED
    BY <1>2, <2>1
<1>4. ASSUME NEW k \in 0 .. n, k # 0
      PROVE  f[k] = PutChar(f[k - 1], s[k])
  <2>1. k \in 1 .. n /\ k - 1 \in 0 .. n
    BY <1>4
  <2>2. f[k - 1] = At(t.row, t.col - (k - 1), t.clean)
    BY <2>1
  <2>3. (t.col - (k - 1)) - 1 = t.col - k
    BY <1>2, <2>1
  <2>4. PutChar(f[k - 1], BS) = At(t.row, (t.col - (k - 1)) - 1, t.clean)
    BY <2>2, PutBackspace
  <2>5. QED
    BY <1>1, <2>1, <2>3, <2>4
<1>5. /\ f = [k \in 0 .. Len(s) |-> f[k]]
      /\ f[Len(s)] = At(t.row, t.col - n, t.clean)
  BY <1>1
<1> HIDE DEF f, s
<1>6. Run(f, t, s)
  BY <1>1, <1>3, <1>4, <1>5 DEF Run
<1>7. nk_puts(t, s) = f[Len(s)]
  BY <1>1, <1>6, RunIsPuts
<1>8. QED
  BY <1>5, <1>7 DEF s

-----------------------------------------------------------------------------
(* The terminal: erasing *)

(* A row with blanks in it is a row of the same length. *)
LEMMA WipedIsSeq ==
  ASSUME NEW r \in Seq(Char), NEW n, NEW j
  PROVE  Wiped(r, n, j) \in Seq(Char) /\ Len(Wiped(r, n, j)) = Len(r)
<1>1. Len(r) \in Nat
  BY LenProperties
<1>2. \A i \in 1 .. Len(r) : r[i] \in Char
  BY ElementOfSeq
<1>3. Blank \in Char
  BY ReadlineConstantsOK
<1>4. Wiped(r, n, j) \in [1 .. Len(r) -> Char]
  BY <1>2, <1>3 DEF Wiped
<1>5. QED
  BY <1>1, <1>4 DEF Wiped

(* One more column is wiped, from the right. *)
LEMMA WipedStep ==
  ASSUME NEW r \in Seq(Char), NEW n \in 0 .. Len(r), NEW j \in 1 .. n
  PROVE  [Wiped(r, n, j) EXCEPT ![j] = Blank] = Wiped(r, n, j - 1)
<1>1. Len(r) \in Nat
  BY LenProperties
<1>2. \A i \in 1 .. Len(r) :
        i \in (j - 1) + 1 .. n <=> i = j \/ i \in j + 1 .. n
  BY <1>1
<1>3. j \in 1 .. Len(r)
  BY <1>1
<1>4. QED
  BY <1>2, <1>3 DEF Wiped

(* None is wiped when the last one is the first. *)
LEMMA WipedAll ==
  ASSUME NEW r \in Seq(Char), NEW n \in Nat
  PROVE  Wiped(r, n, n) = r
<1>1. Len(r) \in Nat /\ r = [i \in 1 .. Len(r) |-> r[i]]
  BY LenProperties
<1>2. \A i \in 1 .. Len(r) : i \notin n + 1 .. n
  OBVIOUS
<1> DEFINE m == Len(r)
<1> HIDE DEF m
<1>3. [i \in 1 .. m |-> IF i \in n + 1 .. n THEN Blank ELSE r[i]]
        = [i \in 1 .. m |-> r[i]]
  BY <1>2 DEF m
<1>4. QED
  BY <1>1, <1>3 DEF Wiped, m

(* What Erase writes for a line of n characters: backspace, blank,          *)
(* backspace for each.                                                      *)
Triples(n) == [k \in 1 .. 3 * n |-> IF k % 3 = 2 THEN Blank ELSE BS]

(* By induction over the tokens: n triples at column n wipe the columns    *)
(* 1 .. n and take the cursor home.                                         *)
LEMMA PutsTriples ==
  ASSUME NEW t, OnRow(t)
  PROVE  nk_puts(t, Triples(t.col)) = At(Wiped(t.row, t.col, 0), 0, t.clean)
<1> DEFINE n == t.col
           r == t.row
           b == t.clean
           s == Triples(n)
           W(k) == n - (k \div 3) - (IF k % 3 = 2 THEN 1 ELSE 0)
           C(k) == n - (k \div 3) - (IF k % 3 = 1 THEN 1 ELSE 0)
           f == [k \in 0 .. 3 * n |-> At(Wiped(r, n, W(k)), C(k), b)]
<1>1. /\ r \in Seq(Char) /\ Len(r) \in Nat /\ n \in 0 .. Len(r) /\ n \in Nat
      /\ t = At(r, n, b)
  BY LenProperties, TerminalIsAt DEF OnRow
<1> HIDE DEF n, r, b
<1>2. 3 * n \in Nat
  BY <1>1
<1>3. /\ Len(s) = 3 * n
      /\ \A k \in 1 .. 3 * n : s[k] = IF k % 3 = 2 THEN Blank ELSE BS
  BY <1>2 DEF Triples
<1>4. f[0] = t
  <2>1. W(0) = n /\ C(0) = n
    BY <1>1
  <2>2. f[0] = At(Wiped(r, n, n), n, b)
    BY <1>2, <2>1
  <2>3. QED
    BY <1>1, <2>2, WipedAll
<1>5. ASSUME NEW k \in 0 .. 3 * n, k # 0
      PROVE  f[k] = PutChar(f[k - 1], s[k])
  <2>1. k \in 1 .. 3 * n /\ k - 1 \in 0 .. 3 * n /\ k \in Nat
    BY <1>2, <1>5
  <2>2. f[k] = At(Wiped(r, n, W(k)), C(k), b)
    OBVIOUS
  <2>3. f[k - 1] = At(Wiped(r, n, W(k - 1)), C(k - 1), b)
    BY <2>1
  <2>4. s[k] = IF k % 3 = 2 THEN Blank ELSE BS
    BY <1>3, <2>1
  <2> HIDE DEF f, s
  <2>5. CASE k % 3 # 2
    <3>1. W(k) = W(k - 1) /\ C(k) = C(k - 1) - 1
      <4>1. CASE k % 3 = 0
        <5>1. (k - 1) % 3 = 2 /\ (k - 1) \div 3 = (k \div 3) - 1
          BY <2>1, <4>1
        <5>2. QED
          BY <1>1, <2>1, <4>1, <5>1
      <4>2. CASE k % 3 = 1
        <5>1. (k - 1) % 3 = 0 /\ (k - 1) \div 3 = k \div 3
          BY <2>1, <4>2
        <5>2. QED
          BY <1>1, <2>1, <4>2, <5>1
      <4>3. QED
        BY <2>1, <2>5, <4>1, <4>2
    <3> HIDE DEF W, C
    <3>2. s[k] = BS
      BY <2>4, <2>5
    <3>3. PutChar(f[k - 1], s[k]) = At(Wiped(r, n, W(k - 1)), C(k - 1) - 1, b)
      BY <2>3, <3>2, PutBackspace
    <3>4. QED
      BY <2>2, <3>1, <3>3
  <2>6. CASE k % 3 = 2
    <3> DEFINE j == n - (k \div 3)
    <3>1. (k - 1) % 3 = 1 /\ (k - 1) \div 3 = k \div 3
      BY <2>1, <2>6
    <3>2. /\ W(k - 1) = j /\ W(k) = j - 1
          /\ C(k - 1) = j - 1 /\ C(k) = j
      BY <1>1, <2>1, <2>6, <3>1
    <3>3. j \in 1 .. n
      BY <1>1, <2>1, <2>6
    <3> HIDE DEF W, C, j
    <3>4. s[k] = Blank /\ Blank \in Char
      BY <2>4, <2>6, ReadlineConstantsOK
    <3> DEFINE q == Wiped(r, n, j)
    <3>5. Len(q) = Len(r)
      BY <1>1, WipedIsSeq
    <3>6. j - 1 < Len(q) /\ (j - 1) + 1 = j
      BY <1>1, <3>3, <3>5
    <3>7. [q EXCEPT ![j] = Blank] = Wiped(r, n, j - 1)
      BY <1>1, <3>3, WipedStep
    <3> HIDE DEF q
    <3>8. PutChar(At(q, j - 1, b), Blank)
            = At(IF j - 1 < Len(q) THEN [q EXCEPT ![(j - 1) + 1] = Blank]
                                   ELSE Append(q, Blank), (j - 1) + 1, b)
      BY <3>4, PutOther
    <3>9. PutChar(At(q, j - 1, b), Blank) = At(Wiped(r, n, j - 1), j, b)
      BY <3>6, <3>7, <3>8
    <3>10. QED
      BY <2>2, <2>3, <3>2, <3>4, <3>9 DEF q
  <2>7. QED
    BY <2>5, <2>6
<1>6. f = [k \in 0 .. Len(s) |-> f[k]]
  BY <1>3
<1>7. f[Len(s)] = At(Wiped(r, n, 0), 0, b)
  <2>1. (3 * n) % 3 = 0 /\ (3 * n) \div 3 = n
    BY <1>1
  <2>2. W(3 * n) = 0 /\ C(3 * n) = 0
    BY <1>1, <2>1
  <2>3. f[3 * n] = At(Wiped(r, n, W(3 * n)), C(3 * n), b)
    BY <1>2
  <2> HIDE DEF f, W, C
  <2>4. QED
    BY <1>3, <2>2, <2>3
<1> HIDE DEF f, s
<1>8. Run(f, t, s)
  BY <1>3, <1>4, <1>5, <1>6 DEF Run
<1>9. nk_puts(t, s) = f[Len(s)]
  BY <1>2, <1>3, <1>8, RunIsPuts
<1>10. QED
  BY <1>7, <1>9 DEF s, n, r, b

(* On a row that agrees with b up to the cursor, writing the rest of b     *)
(* leaves b on the row, the cursor behind it, and what stood further right. *)
LEMMA WriteRest ==
  ASSUME NEW t, OnRow(t), NEW b \in Seq(Char), t.col <= Len(b),
         \A k \in 1 .. t.col : t.row[k] = b[k],
         NEW u, u = nk_puts(t, SubSeq(b, t.col + 1, Len(b)))
  PROVE  /\ OnRow(u)
         /\ u.col = Len(b)
         /\ u.clean = t.clean
         /\ Len(b) <= Len(u.row)
         /\ \A k \in 1 .. Len(b) : u.row[k] = b[k]
         /\ Len(u.row) = Wide(t.row, Len(b))
         /\ \A k \in Len(b) + 1 .. Len(u.row) : u.row[k] = t.row[k]
<1> DEFINE c == t.col
           r == t.row
           n == Len(b)
           s == SubSeq(b, c + 1, n)
           p == Over(r, c, s, Len(s))
<1>1. /\ r \in Seq(Char) /\ Len(r) \in Nat /\ c \in 0 .. Len(r)
      /\ n \in Nat /\ c \in 0 .. n /\ t.clean \in BOOLEAN
  BY LenProperties, TerminalIsAt DEF OnRow
<1>2. /\ s \in Seq(Char) /\ Len(s) = n - c
      /\ \A i \in 1 .. n - c : s[i] = b[c + i]
  <2> HIDE DEF c
  <2>1. \A i \in c + 1 .. n : b[i] \in Char
    BY <1>1, ElementOfSeq
  <2>2. c + 1 \in Int /\ n \in Int
    BY <1>1
  <2>3. s \in Seq(Char)
    BY <2>1, <2>2, SubSeqProperties
  <2>4. Len(s) = IF c + 1 <= n THEN n - (c + 1) + 1 ELSE 0
    BY <2>1, <2>2, SubSeqProperties
  <2>5. Len(s) = n - c
    BY <1>1, <2>4
  <2>6. \A i \in 1 .. n - c : s[i] = b[c + i]
    BY <1>1
  <2>7. QED
    BY <2>3, <2>5, <2>6
<1>3. u = At(p, c + Len(s), t.clean)
  BY <1>2, PutsChars
<1>4. c + Len(s) = n
  BY <1>1, <1>2
<1>5. Len(s) \in 0 .. Len(s)
  <2> HIDE DEF s
  <2>1. Len(s) \in Nat
    BY <1>2, LenProperties
  <2>2. QED
    BY <2>1
<1>6. p \in Seq(Char) /\ Len(p) = Wide(r, c + Len(s))
  <2> DEFINE k == Len(s)
  <2> HIDE DEF c, r, s, p, k
  <2>0. k \in 0 .. Len(s)
    BY <1>5 DEF k
  <2>1. Over(r, c, s, k) \in Seq(Char)
    BY <1>1, <1>2, <2>0, OverIsSeq
  <2>2. Len(Over(r, c, s, k)) = Wide(r, c + k)
    <3>1. k \in Nat /\ Wide(r, c + k) \in Nat
      BY <1>1, <1>2, <2>0, LenProperties DEF Wide
    <3>2. QED
      BY <3>1 DEF Over
  <2>3. QED
    BY <2>1, <2>2 DEF p, k
<1>7. Len(p) = Wide(r, c + Len(s))
  BY <1>6
<1>8. ASSUME NEW i \in 1 .. Len(p)
      PROVE  p[i] = IF i \in c + 1 .. n THEN s[i - c] ELSE r[i]
  BY <1>1, <1>2, <1>4, <1>5, <1>7, <1>8 DEF Over
<1> HIDE DEF c, r, n, s, p
<1>9. u.row = p /\ u.col = n /\ u.clean = t.clean
  BY <1>3, <1>4, AtFields
<1>10. Len(p) = Wide(r, n) /\ Len(p) \in Nat /\ n <= Len(p) /\ Len(r) <= Len(p)
  BY <1>1, <1>4, <1>7 DEF Wide
<1>11. OnRow(u)
  BY <1>1, <1>3, <1>4, <1>6, <1>9, <1>10 DEF OnRow, Terminal, At
<1>12. \A k \in 1 .. n : p[k] = b[k]
  <2> TAKE k \in 1 .. n
  <2>1. k \in 1 .. Len(p)
    BY <1>1, <1>10
  <2>2. CASE k \in c + 1 .. n
    <3>1. k - c \in 1 .. n - c /\ c + (k - c) = k
      BY <1>1, <2>2
    <3>2. QED
      BY <1>2, <1>8, <2>1, <2>2, <3>1
  <2>3. CASE k \notin c + 1 .. n
    <3>1. k \in 1 .. c
      BY <1>1, <2>3
    <3>2. r[k] = b[k]
      BY <3>1 DEF r, c
    <3>3. QED
      BY <1>8, <2>1, <2>3, <3>2
  <2>4. QED
    BY <2>2, <2>3
<1>13. \A k \in n + 1 .. Len(p) : p[k] = r[k]
  <2> TAKE k \in n + 1 .. Len(p)
  <2>1. k \in 1 .. Len(p) /\ k \notin c + 1 .. n
    BY <1>1, <1>10
  <2>2. QED
    BY <1>8, <2>1
<1>14. QED
  BY <1>9, <1>10, <1>11, <1>12, <1>13 DEF n, r

-----------------------------------------------------------------------------
(* The terminal shows a line *)

(* Terminal t shows line b with the cursor at c; nothing but blanks stands *)
(* behind b if the prompt was written on an empty row.                      *)
Shows(t, b, c) ==
  /\ OnRow(t)
  /\ t.col = c
  /\ Len(b) <= Len(t.row)
  /\ \A k \in 1 .. Len(b) : t.row[k] = b[k]
  /\ t.clean => \A k \in Len(b) + 1 .. Len(t.row) : t.row[k] = Blank

(* The row is empty: nothing is shown while echo is off or the line editor *)
(* is not running.                                                          *)
Dark(t) == OnRow(t) /\ t.row = << >> /\ t.col = 0

(* Everything that is sent to the terminal. *)
Token == Char \cup {BS, NL, Prompt}

(* What the editor writes are sequences of tokens. *)
LEMMA TokenSeqs ==
  /\ \A s \in Seq(Char) : s \in Seq(Token)
  /\ \A n \in Nat : Backspaces(n) \in Seq(Token) /\ Triples(n) \in Seq(Token)
  /\ \A x \in Token : << x >> \in Seq(Token)
<1>1. \A s \in Seq(Char) : s \in Seq(Token)
  <2> TAKE s \in Seq(Char)
  <2>1. Char \subseteq Token
    BY DEF Token
  <2>2. QED
    BY <2>1, SeqMonotonic
<1>2. ASSUME NEW n \in Nat PROVE Backspaces(n) \in Seq(Token)
  BY DEF Backspaces, Token
<1>3. ASSUME NEW n \in Nat PROVE Triples(n) \in Seq(Token)
  <2>1. Blank \in Token /\ BS \in Token
    BY ReadlineConstantsOK DEF Token
  <2>2. 3 * n \in Nat
    OBVIOUS
  <2>3. Triples(n) \in [1 .. 3 * n -> Token]
    BY <2>1 DEF Triples
  <2>4. QED
    BY <2>2, <2>3
<1>4. \A x \in Token : << x >> \in Seq(Token)
  OBVIOUS
<1>5. QED
  BY <1>1, <1>2, <1>3, <1>4

(* Writing one token. *)
LEMMA PutsOne ==
  ASSUME NEW t, NEW x
  PROVE  nk_puts(t, << x >>) = PutChar(t, x)
<1> DEFINE f == [k \in 0 .. 1 |-> IF k = 0 THEN t ELSE PutChar(t, x)]
           s == << x >>
<1>1. Len(s) = 1 /\ s[1] = x
  OBVIOUS
<1>2. f[0] = t /\ f[1] = PutChar(t, x)
  OBVIOUS
<1>3. f = [k \in 0 .. Len(s) |-> f[k]]
  OBVIOUS
<1>4. \A k \in 0 .. Len(s) : k # 0 => k = 1 /\ k - 1 = 0
  BY <1>1
<1> HIDE DEF f, s
<1>5. Run(f, t, s)
  BY <1>1, <1>2, <1>3, <1>4 DEF Run
<1>6. QED
  BY <1>1, <1>2, <1>5, RunIsPuts DEF s

(* Backspaces move the cursor on the line that is shown. *)
LEMMA ShowsBack ==
  ASSUME NEW b, NEW c, NEW t, Shows(t, b, c), NEW n \in 0 .. c
  PROVE  Shows(nk_puts(t, Backspaces(n)), b, c - n)
<1> DEFINE u == nk_puts(t, Backspaces(n))
<1>1. t \in Terminal /\ t.col = c /\ c \in Nat /\ t.row \in Seq(Char)
  BY DEF Shows, OnRow, Terminal
<1>2. u = At(t.row, c - n, t.clean)
  BY <1>1, PutsBackspaces
<1>3. u.row = t.row /\ u.col = c - n /\ u.clean = t.clean
  BY <1>2, AtFields
<1>4. c - n \in Nat /\ c - n <= c /\ c <= Len(t.row) /\ Len(t.row) \in Nat
  BY <1>1, LenProperties DEF Shows, OnRow
<1>5. OnRow(u)
  BY <1>1, <1>2, <1>3, <1>4, TerminalIsAt DEF OnRow, Terminal, At
<1> HIDE DEF u
<1>6. Shows(u, b, c - n)
  BY <1>3, <1>5 DEF Shows
<1>7. QED
  BY <1>6 DEF u

(* Writing what is right of the cursor takes it to the end of the line. *)
LEMMA ShowsToEnd ==
  ASSUME NEW b \in Seq(Char), NEW c \in 0 .. Len(b), NEW t, Shows(t, b, c)
  PROVE  Shows(nk_puts(t, SubSeq(b, c + 1, Len(b))), b, Len(b))
<1> DEFINE u == nk_puts(t, SubSeq(b, c + 1, Len(b)))
<1>1. Len(b) \in Nat /\ Len(t.row) \in Nat
  BY LenProperties DEF Shows, OnRow, Terminal
<1>2. OnRow(t) /\ t.col = c /\ t.col <= Len(b)
  BY <1>1 DEF Shows
<1>3. \A k \in 1 .. t.col : t.row[k] = b[k]
  BY <1>1, <1>2 DEF Shows
<1>4. u = nk_puts(t, SubSeq(b, t.col + 1, Len(b)))
  BY <1>2
<1> HIDE DEF u
<1>5. /\ OnRow(u) /\ u.col = Len(b) /\ u.clean = t.clean
      /\ Len(b) <= Len(u.row)
      /\ \A k \in 1 .. Len(b) : u.row[k] = b[k]
      /\ Len(u.row) = Wide(t.row, Len(b))
      /\ \A k \in Len(b) + 1 .. Len(u.row) : u.row[k] = t.row[k]
  BY <1>2, <1>3, <1>4, WriteRest
<1>6. Len(u.row) = Len(t.row)
  BY <1>1, <1>5 DEF Wide, Shows
<1>7. Shows(u, b, Len(b))
  BY <1>5, <1>6 DEF Shows
<1>8. QED
  BY <1>7 DEF u

(* Writing what is right of the cursor of a line d that is not shorter     *)
(* and agrees up to there with the line shown makes the terminal show d.    *)
LEMMA ShowsLonger ==
  ASSUME NEW b, NEW d \in Seq(Char), NEW c \in 0 .. Len(d), NEW t,
         Shows(t, b, c), Len(b) \in 0 .. Len(d), c <= Len(b),
         \A k \in 1 .. c : d[k] = b[k]
  PROVE  Shows(nk_puts(t, SubSeq(d, c + 1, Len(d))), d, Len(d))
<1> DEFINE u == nk_puts(t, SubSeq(d, c + 1, Len(d)))
<1>1. Len(d) \in Nat /\ Len(t.row) \in Nat
  BY LenProperties DEF Shows, OnRow, Terminal
<1>2. OnRow(t) /\ t.col = c /\ t.col <= Len(d)
  BY <1>1 DEF Shows
<1>3. \A k \in 1 .. t.col : t.row[k] = d[k]
  BY <1>1, <1>2 DEF Shows
<1>4. u = nk_puts(t, SubSeq(d, t.col + 1, Len(d)))
  BY <1>2
<1> HIDE DEF u
<1>5. /\ OnRow(u) /\ u.col = Len(d) /\ u.clean = t.clean
      /\ Len(d) <= Len(u.row)
      /\ \A k \in 1 .. Len(d) : u.row[k] = d[k]
      /\ Len(u.row) = Wide(t.row, Len(d))
      /\ \A k \in Len(d) + 1 .. Len(u.row) : u.row[k] = t.row[k]
  BY <1>2, <1>3, <1>4, WriteRest
<1>6. ASSUME u.clean, NEW k \in Len(d) + 1 .. Len(u.row)
      PROVE  u.row[k] = Blank
  <2>1. k \in Len(b) + 1 .. Len(t.row)
    BY <1>1, <1>5, <1>6 DEF Wide
  <2>2. QED
    BY <1>5, <1>6, <2>1 DEF Shows
<1>7. Shows(u, d, Len(d))
  BY <1>5, <1>6 DEF Shows
<1>8. QED
  BY <1>7 DEF u

(* typech: the character and what is right of it are written, and the      *)
(* cursor goes back behind the character.                                   *)
LEMMA ShowsInsert ==
  ASSUME NEW b \in Seq(Char), NEW c \in 0 .. Len(b), NEW x \in Char,
         NEW t, Shows(t, b, c)
  PROVE  LET d == InsertAt(b, c + 1, x)
         IN  Shows(nk_puts(t, SubSeq(d, c + 1, Len(d))
                                \o Backspaces(Len(d) - (c + 1))), d, c + 1)
<1> DEFINE d == InsertAt(b, c + 1, x)
           s == SubSeq(d, c + 1, Len(d))
           n == Len(d) - (c + 1)
           u == nk_puts(t, s)
           j == c + 1
<1>1. Len(b) \in Nat /\ c + 1 \in 1 .. Len(b) + 1
  BY LenProperties
<1>2. /\ d \in Seq(Char)
      /\ Len(d) = Len(b) + 1
      /\ \A i \in 1 .. Len(b) + 1 :
           d[i] = IF i < j THEN b[i] ELSE IF i = j THEN x ELSE b[i - 1]
  <2>1. j \in 1 .. Len(b) + 1
    BY <1>1
  <2> DEFINE q == InsertAt(b, j, x)
  <2> HIDE DEF j
  <2>2. /\ q \in Seq(Char)
        /\ Len(q) = Len(b) + 1
        /\ \A i \in 1 .. Len(b) + 1 :
             q[i] = IF i < j THEN b[i] ELSE IF i = j THEN x ELSE b[i - 1]
    BY <2>1, InsertAtProps
  <2>3. q = d
    BY DEF j
  <2> HIDE DEF d, q
  <2>4. QED
    BY <2>2, <2>3
<1>3. Len(d) = Len(b) + 1
  BY <1>2
<1>4. \A k \in 1 .. c : d[k] = b[k]
  <2> HIDE DEF d
  <2>1. QED
    BY <1>1, <1>2
<1> HIDE DEF d
<1>5. Shows(u, d, Len(d))
  BY <1>1, <1>2, <1>3, <1>4, ShowsLonger
<1>6. n \in 0 .. Len(d) /\ n \in Nat /\ Len(d) - n = c + 1
  BY <1>1, <1>3
<1>7. s \in Seq(Char)
  <2>1. \A i \in c + 1 .. Len(d) : d[i] \in Char
    BY <1>1, <1>2, <1>3, ElementOfSeq
  <2>2. c + 1 \in Int /\ Len(d) \in Int
    BY <1>1, <1>3
  <2>3. QED
    BY <2>1, <2>2, SubSeqProperties
<1> HIDE DEF n, s, u
<1>8. Shows(nk_puts(u, Backspaces(n)), d, c + 1)
  BY <1>5, <1>6, ShowsBack
<1>9. nk_puts(t, s \o Backspaces(n)) = nk_puts(u, Backspaces(n))
  BY <1>6, <1>7, TokenSeqs, PutsConcat DEF u
<1>10. QED
  BY <1>8, <1>9 DEF d, s, n

(* delch: what is right of the character is written one column to the      *)
(* left, a blank goes over the last column, and the cursor goes back.       *)
LEMMA ShowsShorter ==
  ASSUME NEW b \in Seq(Char), NEW k \in 0 .. Len(b) - 1, NEW t, Shows(t, b, k)
  PROVE  LET d == RemoveAt(b, k + 1)
             s == SubSeq(d, k + 1, Len(d))
         IN  Shows(nk_puts(nk_puts(nk_puts(t, s), << Blank, BS >>),
                           Backspaces(Len(s))), d, k)
<1> DEFINE d == RemoveAt(b, k + 1)
           s == SubSeq(d, k + 1, Len(d))
           u == nk_puts(t, s)
           v == nk_puts(u, << Blank, BS >>)
<1>1. Len(b) \in Nat /\ k + 1 \in 1 .. Len(b)
  BY LenProperties
<1>2. d \in Seq(Char)
  BY <1>1, RemoveAtProps
<1>3. Len(d) = Len(b) - 1
  BY <1>1, RemoveAtProps
<1>4. \A i \in 1 .. k : d[i] = b[i]
  <2>1. \A i \in 1 .. Len(b) - 1 :
          d[i] = IF i < k + 1 THEN b[i] ELSE b[i + 1]
    BY <1>1, RemoveAtProps
  <2> HIDE DEF d
  <2>2. QED
    BY <1>1, <2>1
<1> HIDE DEF d
<1>5. /\ OnRow(t) /\ t.col = k /\ Len(t.row) \in Nat /\ Len(b) <= Len(t.row)
      /\ t.col <= Len(d)
      /\ \A i \in 1 .. t.col : t.row[i] = d[i]
      /\ t.clean => \A i \in Len(b) + 1 .. Len(t.row) : t.row[i] = Blank
  BY <1>1, <1>3, <1>4, LenProperties DEF Shows, OnRow, Terminal
<1>6. u = nk_puts(t, SubSeq(d, t.col + 1, Len(d)))
  BY <1>5
<1>7. Len(s) = Len(d) - k
  <2>1. \A i \in k + 1 .. Len(d) : d[i] \in Char
    BY <1>1, <1>2, <1>3, ElementOfSeq
  <2>2. k + 1 \in Int /\ Len(d) \in Int
    BY <1>1, <1>3
  <2>3. Len(s) = IF k + 1 <= Len(d) THEN Len(d) - (k + 1) + 1 ELSE 0
    BY <2>1, <2>2, SubSeqProperties
  <2> HIDE DEF s
  <2>4. QED
    BY <1>1, <1>3, <2>3
<1> HIDE DEF s, u, v
<1>8. /\ OnRow(u) /\ u.col = Len(d) /\ u.clean = t.clean
      /\ \A i \in 1 .. Len(d) : u.row[i] = d[i]
      /\ Len(u.row) = Wide(t.row, Len(d))
      /\ \A i \in Len(d) + 1 .. Len(u.row) : u.row[i] = t.row[i]
  BY <1>2, <1>5, <1>6, WriteRest, Z3
<1>9. Len(u.row) = Len(t.row)
  BY <1>1, <1>3, <1>5, <1>8 DEF Wide
<1>10. v = At([u.row EXCEPT ![Len(b)] = Blank], Len(d), u.clean)
  <2> DEFINE r == u.row
             n == Len(d)
             e == u.clean
             w == At([r EXCEPT ![Len(b)] = Blank], n + 1, e)
  <2>1. u = At(r, n, e)
    BY <1>8, TerminalIsAt DEF OnRow
  <2>2. n < Len(r) /\ n + 1 = Len(b) /\ (n + 1) - 1 = n
    BY <1>1, <1>3, <1>5, <1>9
  <2>3. Blank \in Char
    BY ReadlineConstantsOK
  <2> HIDE DEF r, n, e
  <2>4. PutChar(u, Blank)
          = At(IF n < Len(r) THEN [r EXCEPT ![n + 1] = Blank]
                             ELSE Append(r, Blank), n + 1, e)
    BY <2>1, <2>3, PutOther
  <2>5. PutChar(u, Blank) = w
    BY <2>2, <2>4
  <2>6. PutChar(w, BS) = At([r EXCEPT ![Len(b)] = Blank], (n + 1) - 1, e)
    BY PutBackspace
  <2>7. nk_puts(u, << Blank >> \o << BS >>)
          = nk_puts(nk_puts(u, << Blank >>), << BS >>)
    <3>1. << Blank >> \in Seq(Token) /\ << BS >> \in Seq(Token)
      BY <2>3, TokenSeqs DEF Token
    <3>2. QED
      BY <3>1, PutsConcat
  <2>8. << Blank >> \o << BS >> = << Blank, BS >>
    BY <2>3, TwoTokens, Blank \in Token, BS \in Token DEF Token
  <2>9. QED
    BY <2>2, <2>5, <2>6, <2>7, <2>8, PutsOne DEF v, r, n, e
<1>11. Shows(v, d, Len(d))
  <2> DEFINE r == [u.row EXCEPT ![Len(b)] = Blank]
  <2>1. v.row = r /\ v.col = Len(d) /\ v.clean = u.clean
    BY <1>10, AtFields
  <2>2. /\ u.row \in Seq(Char) /\ Len(b) \in 1 .. Len(u.row)
        /\ u.clean \in BOOLEAN
    BY <1>1, <1>5, <1>8, <1>9, TerminalIsAt DEF OnRow
  <2>3. /\ r \in Seq(Char) /\ Len(r) = Len(u.row)
        /\ \A i \in 1 .. Len(u.row) :
             r[i] = IF i = Len(b) THEN Blank ELSE u.row[i]
    BY <2>2, ReadlineConstantsOK, ExceptSeq
  <2> HIDE DEF r
  <2>4. OnRow(v)
    <3>1. v \in Terminal
      BY <1>10, <2>2, <2>3, <1>1, <1>3 DEF Terminal, At, r
    <3>2. QED
      BY <1>1, <1>3, <1>5, <1>9, <2>1, <2>3, <3>1 DEF OnRow
  <2>5. Len(d) <= Len(v.row)
    BY <1>1, <1>3, <1>5, <1>9, <2>1, <2>3
  <2>6. ASSUME NEW i \in 1 .. Len(d) PROVE v.row[i] = d[i]
    <3>1. i \in 1 .. Len(u.row) /\ i # Len(b)
      BY <1>1, <1>3, <1>5, <1>9
    <3>2. QED
      BY <1>8, <2>1, <2>3, <2>6, <3>1
  <2>7. ASSUME v.clean, NEW i \in Len(d) + 1 .. Len(v.row)
        PROVE  v.row[i] = Blank
    <3>1. i \in 1 .. Len(u.row) /\ i \in Len(d) + 1 .. Len(u.row)
          /\ Len(u.row) = Len(t.row)
      BY <1>1, <1>3, <1>9, <2>1, <2>3
    <3>2. CASE i = Len(b)
      BY <2>1, <2>3, <3>1, <3>2
    <3>3. CASE i # Len(b)
      <4>1. i \in Len(b) + 1 .. Len(t.row)
        BY <1>1, <1>3, <3>1, <3>3
      <4>2. t.row[i] = Blank
        BY <1>5, <1>8, <2>1, <2>7, <4>1
      <4>3. QED
        BY <1>8, <2>1, <2>3, <3>1, <3>3, <4>2
    <3>4. QED
      BY <3>2, <3>3
  <2>8. QED
    BY <2>1, <2>4, <2>5, <2>6, <2>7 DEF Shows
<1>12. Len(s) \in 0 .. Len(d) /\ Len(d) - Len(s) = k
  BY <1>1, <1>3, <1>7
<1>13. Shows(nk_puts(v, Backspaces(Len(s))), d, k)
  BY <1>11, <1>12, ShowsBack
<1>14. QED
  BY <1>13 DEF d, s, u, v

(* Triples for the length of the line, from its end, leave an empty line. *)
LEMMA ShowsErased ==
  ASSUME NEW b \in Seq(Char), NEW t, Shows(t, b, Len(b))
  PROVE  Shows(nk_puts(t, Triples(Len(b))), << >>, 0)
<1> DEFINE n == Len(b)
           u == nk_puts(t, Triples(n))
           r == Wiped(t.row, n, 0)
<1>1. /\ n \in Nat /\ OnRow(t) /\ t.col = n /\ n <= Len(t.row)
      /\ t.row \in Seq(Char) /\ Len(t.row) \in Nat /\ t.clean \in BOOLEAN
      /\ t.clean => \A k \in n + 1 .. Len(t.row) : t.row[k] = Blank
  BY LenProperties DEF Shows, OnRow, Terminal
<1> HIDE DEF n
<1>2. u = At(r, 0, t.clean)
  <2>1. OnRow(t) /\ t.col = n
    BY <1>1
  <2>2. nk_puts(t, Triples(t.col)) = At(Wiped(t.row, t.col, 0), 0, t.clean)
    BY <2>1, PutsTriples
  <2>3. QED
    BY <2>1, <2>2
<1>3. r \in Seq(Char) /\ Len(r) = Len(t.row)
  <2> DEFINE q == t.row
  <2>1. q \in Seq(Char)
    BY <1>1
  <2> HIDE DEF q
  <2>2. Wiped(q, n, 0) \in Seq(Char) /\ Len(Wiped(q, n, 0)) = Len(q)
    BY <2>1, WipedIsSeq
  <2>3. QED
    BY <2>2 DEF q
<1>4. t.clean => \A k \in 1 .. Len(t.row) : r[k] = Blank
  BY <1>1 DEF Wiped
<1> HIDE DEF r, u
<1>5. u.row = r /\ u.col = 0 /\ u.clean = t.clean
  BY <1>2, AtFields
<1>6. OnRow(u)
  BY <1>1, <1>2, <1>3, <1>5 DEF OnRow, Terminal, At
<1>7. Len(<< >>) = 0 /\ 0 + 1 = 1 /\ \A k \in 1 .. 0 : FALSE
  OBVIOUS
<1> DEFINE e == << >>
<1> HIDE DEF e
<1>8. Shows(u, e, 0)
  <2>1. Len(e) = 0
    BY <1>7 DEF e
  <2>2. QED
    BY <1>1, <1>3, <1>4, <1>5, <1>6, <1>7, <2>1 DEF Shows
<1>9. QED
  BY <1>8 DEF u, n, e

(* A line written after the prompt is shown. *)
LEMMA ShowsLine ==
  ASSUME NEW t, Shows(t, << >>, 0), NEW l \in Seq(Char)
  PROVE  Shows(nk_puts(t, l), l, Len(l))
<1> DEFINE e == << >>
<1>1. Len(e) = 0 /\ Len(l) \in Nat /\ \A k \in 1 .. 0 : FALSE
  BY LenProperties
<1>2. SubSeq(l, 0 + 1, Len(l)) = l
  <2>1. 0 + 1 = 1
    OBVIOUS
  <2>2. QED
    BY <2>1, SubSeqFull
<1>3. Shows(t, e, 0)
  OBVIOUS
<1> HIDE DEF e
<1>4. Shows(nk_puts(t, SubSeq(l, 0 + 1, Len(l))), l, Len(l))
  <2>1. 0 \in 0 .. Len(l) /\ Len(e) \in 0 .. Len(l) /\ 0 <= Len(e)
    BY <1>1
  <2>2. \A k \in 1 .. 0 : l[k] = e[k]
    BY <1>1
  <2>3. QED
    BY <1>3, <2>1, <2>2, ShowsLonger
<1>5. QED
  BY <1>2, <1>4

(* The prompt begins an empty line, wherever the cursor was. *)
LEMMA ShowsPrompt ==
  ASSUME NEW t, OnRow(t)
  PROVE  /\ Shows(nk_puts(t, << Prompt >>), << >>, 0)
         /\ t.row = << >> => nk_puts(t, << Prompt >>).row = << >>
<1> DEFINE u == nk_puts(t, << Prompt >>)
           e == << >>
<1>1. u = PutChar(t, Prompt)
  BY PutsOne
<1> HIDE DEF u
<1>2. /\ OnRow(u) /\ u.col = 0
      /\ u.clean => t.row = e
      /\ t.row = e => u.row = e
  BY <1>1, PutPrompt
<1>3. Len(e) = 0 /\ (\A k \in 1 .. 0 : FALSE) /\ Len(u.row) \in Nat
  BY <1>2, LenProperties DEF OnRow, Terminal
<1> HIDE DEF e
<1>4. Shows(u, e, 0)
  <2>1. u.clean => Len(u.row) = 0
    BY <1>2, <1>3
  <2>2. QED
    BY <1>2, <1>3, <2>1 DEF Shows
<1>5. QED
  BY <1>2, <1>4 DEF u, e

(* After a newline the row is empty. *)
LEMMA NewLineDark ==
  ASSUME NEW t
  PROVE  Dark(nk_puts(t, << NL >>))
<1> DEFINE e == << >>
           u == At(e, 0, TRUE)
<1>1. nk_puts(t, << NL >>) = u
  BY PutsOne, PutNewLine DEF e
<1>2. e \in Seq(Char) /\ Len(e) = 0
  BY EmptySeq
<1> HIDE DEF e
<1>3. u.row = e /\ u.col = 0 /\ u.clean = TRUE
  BY DEF At
<1>4. OnRow(u)
  BY <1>2, <1>3 DEF OnRow, Terminal, At
<1>5. QED
  BY <1>1, <1>3, <1>4 DEF Dark, e

-----------------------------------------------------------------------------
(* The history *)

(* what the history holds *)
Byte == Char \cup {Nul}

(* A history is a sequence of lines, each shorter than the line buffer and *)
(* ended by a Nul: no place of it is further than LineSize from the next    *)
(* Nul.                                                                     *)
HistoryOK(h) ==
  /\ h \in Seq(Byte)
  /\ Len(h) <= HistSize
  /\ \A k \in 0 .. Len(h) - 1 :
       \E j \in k + 1 .. Len(h) : j <= k + LineSize /\ h[j] = Nul

(* A boundary is the beginning of the history or right behind a Nul. *)
LEMMA BoundaryAt ==
  ASSUME NEW h \in Seq(Byte), NEW j
  PROVE  j \in Boundaries(h) <=> j \in 0 .. Len(h) /\ (j = 0 \/ h[j] = Nul)
<1>1. Len(h) \in Nat
  BY LenProperties
<1>2. QED
  BY <1>1 DEF Boundaries

(* The end of the history is a boundary. *)
LEMMA EndIsBoundary ==
  ASSUME NEW h, HistoryOK(h)
  PROVE  Len(h) \in Boundaries(h)
<1>1. h \in Seq(Byte) /\ Len(h) \in Nat
  BY LenProperties DEF HistoryOK
<1>2. CASE Len(h) = 0
  <2>1. 0 \in Boundaries(h)
    BY DEF Boundaries
  <2>2. QED
    BY <1>2, <2>1
<1>3. CASE Len(h) # 0
  <2>1. Len(h) - 1 \in 0 .. Len(h) - 1
    BY <1>1, <1>3
  <2>2. PICK j \in (Len(h) - 1) + 1 .. Len(h) : h[j] = Nul
    BY <2>1 DEF HistoryOK
  <2>3. j = Len(h)
    BY <1>1, <2>2
  <2>4. QED
    BY <1>1, <2>2, <2>3, BoundaryAt
<1>4. QED
  BY <1>2, <1>3

(* The next boundary is further on, not further than a line can be, and    *)
(* there is no Nul on the way.                                              *)
LEMMA NextIdxProps ==
  ASSUME NEW h, HistoryOK(h), NEW i \in Boundaries(h), i # Len(h)
  PROVE  /\ NextIdx(h, i) \in Boundaries(h)
         /\ NextIdx(h, i) \in i + 1 .. Len(h)
         /\ NextIdx(h, i) <= i + LineSize
         /\ \A m \in i + 1 .. NextIdx(h, i) - 1 : h[m] \in Char
<1> DEFINE S == {j \in Boundaries(h) : j > i}
           n == NextIdx(h, i)
<1>1. h \in Seq(Byte) /\ Len(h) \in Nat /\ i \in 0 .. Len(h) - 1
  <2>1. h \in Seq(Byte) /\ Len(h) \in Nat
    BY LenProperties DEF HistoryOK
  <2>2. i \in 0 .. Len(h)
    BY <2>1, BoundaryAt
  <2>3. QED
    BY <2>1, <2>2
<1>2. PICK j \in i + 1 .. Len(h) : j <= i + LineSize /\ h[j] = Nul
  BY <1>1 DEF HistoryOK
<1>3. j \in S
  <2>1. j \in 0 .. Len(h) /\ j > i
    BY <1>1, <1>2
  <2>2. QED
    BY <1>1, <1>2, <2>1, BoundaryAt
<1>4. S \in SUBSET Nat
  BY <1>1, BoundaryAt
<1>5. n = Min(S)
  BY DEF NextIdx
<1> HIDE DEF n, S
<1>6. n \in S /\ \A x \in S : n <= x
  BY <1>3, <1>4, <1>5, MinIn
<1>7. n \in Boundaries(h) /\ n > i
  BY <1>6 DEF S
<1>8. n \in i + 1 .. Len(h)
  BY <1>1, <1>7, BoundaryAt
<1>9. n <= i + LineSize
  BY <1>1, <1>2, <1>3, <1>6, <1>8, ReadlineConstantsOK
<1>10. ASSUME NEW m \in i + 1 .. n - 1 PROVE h[m] \in Char
  <2>1. m \in 1 .. Len(h) /\ m > i /\ m < n /\ m \in 0 .. Len(h)
    BY <1>1, <1>8
  <2>2. m \notin Boundaries(h)
    <3>1. SUFFICES ASSUME m \in Boundaries(h) PROVE FALSE
      OBVIOUS
    <3>2. m \in S
      BY <2>1, <3>1 DEF S
    <3>3. QED
      BY <1>1, <1>6, <1>8, <2>1, <3>2
  <2>3. h[m] # Nul
    BY <1>1, <2>1, <2>2, BoundaryAt
  <2>4. h[m] \in Byte
    BY <1>1, <2>1, ElementOfSeq
  <2>5. QED
    BY <2>3, <2>4 DEF Byte
<1>11. QED
  BY <1>7, <1>8, <1>9, <1>10 DEF n

(* The line at a boundary fits into the line buffer. *)
LEMMA LineAtProps ==
  ASSUME NEW h, HistoryOK(h), NEW i \in Boundaries(h), i # Len(h)
  PROVE  LineAt(h, i) \in Seq(Char) /\ Len(LineAt(h, i)) < LineSize
<1> DEFINE n == NextIdx(h, i)
           l == SubSeq(h, i + 1, n - 1)
<1>1. h \in Seq(Byte) /\ Len(h) \in Nat /\ i \in 0 .. Len(h)
  <2>1. h \in Seq(Byte) /\ Len(h) \in Nat
    BY LenProperties DEF HistoryOK
  <2>2. QED
    BY <2>1, BoundaryAt
<1>2. /\ n \in i + 1 .. Len(h)
      /\ n <= i + LineSize
      /\ \A m \in i + 1 .. n - 1 : h[m] \in Char
  BY NextIdxProps
<1> HIDE DEF n
<1>3. i + 1 \in Int /\ n - 1 \in Int
  BY <1>1, <1>2
<1>4. l \in Seq(Char)
  BY <1>2, <1>3, SubSeqProperties
<1>5. Len(l) = IF i + 1 <= n - 1 THEN (n - 1) - (i + 1) + 1 ELSE 0
  BY <1>2, <1>3, SubSeqProperties
<1>6. Len(l) < LineSize
  <2> HIDE DEF l
  <2>1. QED
    BY <1>1, <1>2, <1>5, ReadlineConstantsOK
<1>7. QED
  BY <1>4, <1>6 DEF LineAt, n

(* The boundary before is one, and before. *)
LEMMA PrevIdxProps ==
  ASSUME NEW h, HistoryOK(h), NEW i \in Boundaries(h), i # 0
  PROVE  PrevIdx(h, i) \in Boundaries(h) /\ PrevIdx(h, i) < i
<1> DEFINE S == {j \in Boundaries(h) : j < i}
<1>1. h \in Seq(Byte) /\ Len(h) \in Nat
  BY LenProperties DEF HistoryOK
<1>2. 0 \in S /\ S \in SUBSET (0 .. Len(h))
  BY <1>1, BoundaryAt
<1>3. PrevIdx(h, i) = Max(S)
  BY DEF PrevIdx
<1> HIDE DEF S
<1>4. Max(S) \in S
  BY <1>1, <1>2, MaxIn
<1>5. QED
  BY <1>3, <1>4 DEF S

(* A history without its oldest lines is a history, and its boundaries are *)
(* those of the lines that are left.                                        *)
LEMMA CutProps ==
  ASSUME NEW h, HistoryOK(h), NEW r \in Boundaries(h)
  PROVE  LET g == SubSeq(h, r + 1, Len(h))
         IN  /\ HistoryOK(g)
             /\ Len(g) = Len(h) - r
             /\ \A i \in Boundaries(h) : i >= r => i - r \in Boundaries(g)
             /\ \A m \in 1 .. Len(g) : g[m] = h[m + r]
<1> DEFINE g == SubSeq(h, r + 1, Len(h))
<1>1. /\ h \in Seq(Byte) /\ Len(h) \in Nat /\ r \in 0 .. Len(h)
      /\ Len(h) <= HistSize
  <2>1. h \in Seq(Byte) /\ Len(h) \in Nat /\ Len(h) <= HistSize
    BY LenProperties DEF HistoryOK
  <2>2. QED
    BY <2>1, BoundaryAt
<1>2. \A i \in r + 1 .. Len(h) : h[i] \in Byte
  BY <1>1, ElementOfSeq
<1>3. r + 1 \in Int /\ Len(h) \in Int
  BY <1>1
<1>4. g \in Seq(Byte)
  BY <1>2, <1>3, SubSeqProperties
<1>5. Len(g) = Len(h) - r
  <2>1. Len(g) = IF r + 1 <= Len(h) THEN Len(h) - (r + 1) + 1 ELSE 0
    BY <1>2, <1>3, SubSeqProperties
  <2> HIDE DEF g
  <2>2. QED
    BY <1>1, <2>1
<1>6. \A m \in 1 .. Len(g) : g[m] = h[m + r]
  <2>1. \A m \in 1 .. Len(h) - (r + 1) + 1 : g[m] = h[(r + 1) + m - 1]
    BY <1>1
  <2> HIDE DEF g
  <2> TAKE m \in 1 .. Len(g)
  <2>2. m \in 1 .. Len(h) - (r + 1) + 1 /\ (r + 1) + m - 1 = m + r
    BY <1>1, <1>5
  <2>3. QED
    BY <2>1, <2>2
<1> HIDE DEF g
<1>7. ASSUME NEW k \in 0 .. Len(g) - 1
      PROVE  \E j \in k + 1 .. Len(g) : j <= k + LineSize /\ g[j] = Nul
  <2>1. k + r \in 0 .. Len(h) - 1
    BY <1>1, <1>5
  <2>2. PICK j \in (k + r) + 1 .. Len(h) :
          j <= (k + r) + LineSize /\ h[j] = Nul
    BY <2>1 DEF HistoryOK
  <2>3. j - r \in k + 1 .. Len(g) /\ j - r <= k + LineSize
        /\ j - r \in 1 .. Len(g) /\ (j - r) + r = j
    BY <1>1, <1>5, <2>2, ReadlineConstantsOK
  <2>4. g[j - r] = Nul
    BY <1>6, <2>2, <2>3
  <2>5. QED
    BY <2>3, <2>4
<1>8. Len(g) <= HistSize
  BY <1>1, <1>5, ReadlineConstantsOK
<1>9. HistoryOK(g)
  BY <1>4, <1>7, <1>8 DEF HistoryOK
<1>10. ASSUME NEW i \in Boundaries(h), i >= r
       PROVE  i - r \in Boundaries(g)
  <2>1. i \in 0 .. Len(h) /\ (i = 0 \/ h[i] = Nul)
    BY <1>1, BoundaryAt
  <2>2. i - r \in 0 .. Len(g)
    BY <1>1, <1>5, <1>10, <2>1
  <2>3. i - r = 0 \/ g[i - r] = Nul
    <3>1. CASE i = r
      BY <1>1, <2>1, <3>1
    <3>2. CASE i # r
      <4>1. i - r \in 1 .. Len(g) /\ (i - r) + r = i /\ i # 0
        BY <1>1, <1>5, <1>10, <2>1, <3>2
      <4>2. QED
        BY <1>6, <2>1, <4>1
    <3>3. QED
      BY <3>1, <3>2
  <2>4. QED
    BY <1>4, <2>2, <2>3, BoundaryAt
<1>11. QED
  BY <1>5, <1>6, <1>9, <1>10 DEF g

-----------------------------------------------------------------------------
(* The history: lines put in and taken out *)

(* History g with line l and its Nul put in at p. *)
Inserted(g, p, l) ==
  SubSeq(g, 1, p) \o l \o << Nul >> \o SubSeq(g, p + 1, Len(g))

(* What stands where in it. *)
LEMMA InsertedProps ==
  ASSUME NEW g \in Seq(Byte), NEW p \in 0 .. Len(g), NEW l \in Seq(Char)
  PROVE  LET w == Inserted(g, p, l)
             n == Len(l) + 1
         IN  /\ w \in Seq(Byte)
             /\ Len(w) = Len(g) + n
             /\ \A j \in 1 .. p : w[j] = g[j]
             /\ \A j \in p + 1 .. p + Len(l) : w[j] \in Char
             /\ \A j \in p + 1 .. p + Len(l) : w[j] = l[j - p]
             /\ w[p + n] = Nul
             /\ \A j \in p + n + 1 .. Len(g) + n : w[j] = g[j - n]
<1> DEFINE w == Inserted(g, p, l)
           n == Len(l) + 1
           a == SubSeq(g, 1, p)
           b == SubSeq(g, p + 1, Len(g))
           e == << Nul >>
           al == a \o l
           ale == al \o e
<1>1. Len(g) \in Nat /\ Len(l) \in Nat /\ p \in Nat
  BY LenProperties
<1>2. /\ a \in Seq(Byte) /\ Len(a) = p
      /\ \A i \in 1 .. p : a[i] = g[i]
  <2>1. 1 \in 1 .. Len(g) + 1 /\ p \in 1 - 1 .. Len(g)
    BY <1>1
  <2>2. p - 1 + 1 = p /\ \A i \in 1 .. p : 1 + i - 1 = i
    BY <1>1
  <2>3. a \in Seq(Byte)
    BY <2>1, SliceProps
  <2>4. Len(a) = p - 1 + 1
    BY <2>1, SliceProps
  <2>5. \A i \in 1 .. p : a[i] = g[i]
    BY <1>1
  <2> HIDE DEF a
  <2>6. QED
    BY <2>2, <2>3, <2>4, <2>5
<1>3. /\ b \in Seq(Byte) /\ Len(b) = Len(g) - p
      /\ \A i \in 1 .. Len(g) - p : b[i] = g[p + i]
  <2> DEFINE m == p + 1
             k == Len(g)
  <2>1. m \in 1 .. Len(g) + 1 /\ k \in m - 1 .. Len(g)
    BY <1>1
  <2>2. k - m + 1 = Len(g) - p /\ \A i \in 1 .. Len(g) - p : m + i - 1 = p + i
    BY <1>1
  <2> HIDE DEF m, k
  <2> DEFINE c == SubSeq(g, m, k)
  <2>3. /\ c \in Seq(Byte) /\ Len(c) = k - m + 1
        /\ \A i \in 1 .. k - m + 1 : c[i] = g[m + i - 1]
    BY <2>1, SliceProps
  <2>4. c = b
    BY DEF m, k
  <2> HIDE DEF c, b
  <2>5. QED
    BY <2>2, <2>3, <2>4
<1>4. l \in Seq(Byte) /\ \A i \in 1 .. Len(l) : l[i] \in Char
  <2>1. Char \subseteq Byte
    BY DEF Byte
  <2>2. QED
    BY <2>1, SeqMonotonic, ElementOfSeq
<1>5. e \in Seq(Byte) /\ Len(e) = 1 /\ e[1] = Nul
  <2>1. Nul \in Byte
    BY DEF Byte
  <2>2. QED
    BY <2>1
<1> HIDE DEF a, b, e
<1>6. /\ al \in Seq(Byte) /\ Len(al) = p + Len(l)
      /\ \A i \in 1 .. p + Len(l) : al[i] = IF i <= p THEN a[i] ELSE l[i - p]
  BY <1>2, <1>4, ConcatProperties
<1> HIDE DEF al
<1>7. /\ ale \in Seq(Byte) /\ Len(ale) = p + Len(l) + 1
      /\ \A i \in 1 .. p + Len(l) + 1 :
           ale[i] = IF i <= p + Len(l) THEN al[i] ELSE e[i - (p + Len(l))]
  <2>1. /\ al \o e \in Seq(Byte) /\ Len(al \o e) = Len(al) + Len(e)
        /\ \A i \in 1 .. Len(al) + Len(e) :
             (al \o e)[i] = IF i <= Len(al) THEN al[i] ELSE e[i - Len(al)]
    BY <1>5, <1>6, ConcatProperties
  <2> HIDE DEF ale
  <2>2. ale = al \o e
    BY DEF ale
  <2>3. QED
    BY <1>5, <1>6, <2>1, <2>2
<1>8. w = ale \o b
  BY DEF Inserted, a, b, e, al
<1> HIDE DEF ale, w
<1>9. w \in Seq(Byte)
  BY <1>3, <1>7, <1>8, ConcatProperties
<1>10. Len(w) = Len(ale) + Len(b)
  BY <1>3, <1>7, <1>8, ConcatProperties
<1>11. \A i \in 1 .. Len(ale) + Len(b) :
         w[i] = IF i <= Len(ale) THEN ale[i] ELSE b[i - Len(ale)]
  BY <1>3, <1>7, <1>8, ConcatProperties
<1>12. Len(w) = Len(g) + n
  BY <1>1, <1>3, <1>7, <1>10
<1>13. ASSUME NEW j \in 1 .. p PROVE w[j] = g[j]
  <2>1. /\ j \in 1 .. Len(ale) + Len(b) /\ j <= Len(ale)
        /\ j \in 1 .. p + Len(l) + 1 /\ j <= p + Len(l)
        /\ j \in 1 .. p + Len(l) /\ j <= p
    BY <1>1, <1>3, <1>7
  <2>2. w[j] = ale[j] /\ ale[j] = al[j] /\ al[j] = a[j]
    BY <1>6, <1>7, <1>11, <2>1
  <2>3. QED
    BY <1>2, <2>2
<1>14. ASSUME NEW j \in p + 1 .. p + Len(l)
       PROVE  w[j] \in Char /\ w[j] = l[j - p]
  <2>1. /\ j \in 1 .. Len(ale) + Len(b) /\ j <= Len(ale)
        /\ j \in 1 .. p + Len(l) + 1 /\ j <= p + Len(l)
        /\ j \in 1 .. p + Len(l) /\ ~ (j <= p)
        /\ j - p \in 1 .. Len(l)
    BY <1>1, <1>3, <1>7
  <2>2. w[j] = ale[j] /\ ale[j] = al[j] /\ al[j] = l[j - p]
    BY <1>6, <1>7, <1>11, <2>1
  <2>3. QED
    BY <1>4, <2>1, <2>2
<1>15. w[p + n] = Nul
  <2> DEFINE j == p + n
  <2>1. /\ j \in 1 .. Len(ale) + Len(b) /\ j <= Len(ale)
        /\ j \in 1 .. p + Len(l) + 1 /\ ~ (j <= p + Len(l))
        /\ j - (p + Len(l)) = 1
    BY <1>1, <1>3, <1>7
  <2> HIDE DEF j
  <2>2. w[j] = ale[j] /\ ale[j] = e[j - (p + Len(l))]
    BY <1>7, <1>11, <2>1
  <2>3. QED
    BY <1>5, <2>1, <2>2 DEF j
<1>16. ASSUME NEW j \in p + n + 1 .. Len(g) + n PROVE w[j] = g[j - n]
  <2>1. /\ j \in 1 .. Len(ale) + Len(b) /\ ~ (j <= Len(ale))
        /\ j - Len(ale) \in 1 .. Len(g) - p
        /\ p + (j - Len(ale)) = j - n
    BY <1>1, <1>3, <1>7
  <2>2. w[j] = b[j - Len(ale)]
    BY <1>11, <2>1
  <2>3. QED
    BY <1>3, <2>1, <2>2
<1>17. QED
  BY <1>9, <1>12, <1>13, <1>14, <1>15, <1>16 DEF w

(* A line that fits, put in at a boundary, gives a history with that line  *)
(* at that boundary.                                                        *)
LEMMA InsertedOK ==
  ASSUME NEW g, HistoryOK(g), NEW p \in Boundaries(g), NEW l \in Seq(Char),
         Len(l) < LineSize, Len(g) + Len(l) + 1 <= HistSize
  PROVE  /\ HistoryOK(Inserted(g, p, l))
         /\ p \in Boundaries(Inserted(g, p, l))
         /\ p # Len(Inserted(g, p, l))
<1> DEFINE w == Inserted(g, p, l)
           n == Len(l) + 1
<1>1. /\ g \in Seq(Byte) /\ Len(g) \in Nat /\ Len(l) \in Nat
      /\ p \in 0 .. Len(g) /\ (p = 0 \/ g[p] = Nul)
  <2>1. g \in Seq(Byte) /\ Len(g) \in Nat /\ Len(l) \in Nat
    BY LenProperties DEF HistoryOK
  <2>2. QED
    BY <2>1, BoundaryAt
<1>2. n \in Nat \ {0} /\ n <= LineSize /\ LineSize \in Nat
  BY <1>1, ReadlineConstantsOK
<1>3. /\ w \in Seq(Byte)
      /\ Len(w) = Len(g) + n
      /\ \A j \in 1 .. p : w[j] = g[j]
      /\ w[p + n] = Nul
      /\ \A j \in p + n + 1 .. Len(g) + n : w[j] = g[j - n]
  <2>1. LET v == Inserted(g, p, l)
             m == Len(l) + 1
         IN  /\ v \in Seq(Byte)
             /\ Len(v) = Len(g) + m
             /\ \A j \in 1 .. p : v[j] = g[j]
             /\ \A j \in p + 1 .. p + Len(l) : v[j] \in Char
             /\ v[p + m] = Nul
             /\ \A j \in p + m + 1 .. Len(g) + m : v[j] = g[j - m]
    BY <1>1, InsertedProps
  <2>2. QED
    BY <2>1
<1> HIDE DEF w, n
<1>4. Len(w) <= HistSize
  BY <1>1, <1>3 DEF n
<1>5. ASSUME NEW k \in 0 .. Len(w) - 1
      PROVE  \E j \in k + 1 .. Len(w) : j <= k + LineSize /\ w[j] = Nul
  <2>1. CASE k < p
    <3>1. k \in 0 .. Len(g) - 1
      BY <1>1, <2>1
    <3>2. PICK j \in k + 1 .. Len(g) : j <= k + LineSize /\ g[j] = Nul
      BY <3>1 DEF HistoryOK
    <3>3. CASE j <= p
      <4>1. j \in 1 .. p /\ j \in k + 1 .. Len(w)
        BY <1>1, <1>2, <1>3, <3>1, <3>2, <3>3
      <4>2. QED
        BY <1>3, <3>2, <4>1
    <3>4. CASE j > p
      <4>1. p \in k + 1 .. Len(w) /\ p <= k + LineSize /\ p \in 1 .. p
        BY <1>1, <1>2, <1>3, <2>1, <3>1, <3>2, <3>4
      <4>2. w[p] = Nul
        BY <1>1, <1>3, <2>1, <3>1, <4>1
      <4>3. QED
        BY <4>1, <4>2
    <3>5. QED
      BY <3>2, <3>3, <3>4, <1>1
  <2>2. CASE k >= p /\ k < p + n
    <3>1. p + n \in k + 1 .. Len(w) /\ p + n <= k + LineSize
      BY <1>1, <1>2, <1>3, <1>5, <2>2
    <3>2. QED
      BY <1>3, <3>1
  <2>3. CASE k >= p + n
    <3>1. k - n \in 0 .. Len(g) - 1
      BY <1>1, <1>2, <1>3, <1>5, <2>3, Z3
    <3>2. PICK j \in (k - n) + 1 .. Len(g) :
            j <= (k - n) + LineSize /\ g[j] = Nul
      BY <3>1 DEF HistoryOK
    <3>3. /\ j + n \in k + 1 .. Len(w) /\ j + n <= k + LineSize
          /\ j + n \in p + n + 1 .. Len(g) + n /\ (j + n) - n = j
      BY <1>1, <1>2, <1>3, <1>5, <2>3, <3>1, <3>2
    <3>4. w[j + n] = Nul
      BY <1>3, <3>2, <3>3
    <3>5. QED
      BY <3>3, <3>4
  <2>4. QED
    BY <1>1, <1>2, <1>3, <1>5, <2>1, <2>2, <2>3
<1>6. HistoryOK(w)
  BY <1>3, <1>4, <1>5 DEF HistoryOK
<1>7. p \in Boundaries(w) /\ p # Len(w)
  <2>1. p \in 0 .. Len(w) /\ p # Len(w)
    BY <1>1, <1>2, <1>3
  <2>2. p = 0 \/ w[p] = Nul
    <3>1. CASE p = 0
      BY <3>1
    <3>2. CASE p # 0
      <4>1. p \in 1 .. p
        BY <1>1, <3>2
      <4>2. QED
        BY <1>1, <1>3, <3>2, <4>1
    <3>3. QED
      BY <3>1, <3>2
  <2>3. QED
    BY <1>3, <2>1, <2>2, BoundaryAt
<1>8. QED
  BY <1>6, <1>7 DEF w

(* hist_ins: after the oldest lines have made room the result is a history *)
(* and hist_idx is at the line that was put in.                             *)
LEMMA HistInsOK ==
  ASSUME NEW h, HistoryOK(h), NEW i \in Boundaries(h), NEW l \in Seq(Char),
         Len(l) < LineSize
  PROVE  /\ HistoryOK(hist_ins(h, i, l).buf)
         /\ hist_ins(h, i, l).idx \in Boundaries(hist_ins(h, i, l).buf)
         /\ hist_ins(h, i, l).idx # Len(hist_ins(h, i, l).buf)
<1> DEFINE S == {j \in Boundaries(h) : Len(l) + 1 + Len(h) - j <= HistSize}
           r == Min(S)
           g == SubSeq(h, r + 1, Len(h))
           p == IF i > r THEN i - r ELSE 0
<1>1. h \in Seq(Byte) /\ Len(h) \in Nat /\ Len(l) \in Nat
  BY LenProperties DEF HistoryOK
<1>2. \A j \in Boundaries(h) : j \in 0 .. Len(h)
  BY <1>1, BoundaryAt
<1>3. Len(h) \in S
  <2>1. Len(h) \in Boundaries(h)
    BY EndIsBoundary
  <2>2. Len(l) + 1 + Len(h) - Len(h) <= HistSize
    BY <1>1, ReadlineConstantsOK
  <2>3. QED
    BY <2>1, <2>2
<1>4. S \in SUBSET Nat
  BY <1>2
<1> HIDE DEF S
<1>5. r \in S
  BY <1>3, <1>4, MinIn
<1> HIDE DEF r
<1>6. r \in Boundaries(h) /\ Len(l) + 1 + Len(h) - r <= HistSize
  BY <1>5 DEF S
<1>7. /\ HistoryOK(g)
      /\ Len(g) = Len(h) - r
      /\ \A k \in Boundaries(h) : k >= r => k - r \in Boundaries(g)
  BY <1>6, CutProps
<1> HIDE DEF g
<1>8. p \in Boundaries(g)
  <2>1. CASE i > r
    BY <1>2, <1>6, <1>7, <2>1
  <2>2. CASE ~ (i > r)
    BY <2>2 DEF Boundaries
  <2>3. QED
    BY <2>1, <2>2
<1> HIDE DEF p
<1>9. Len(g) + Len(l) + 1 <= HistSize
  BY <1>1, <1>2, <1>6, <1>7, ReadlineConstantsOK
<1>10. hist_ins(h, i, l) = [buf |-> Inserted(g, p, l), idx |-> p]
  BY DEF hist_ins, Inserted, S, r, g, p
<1>11. hist_ins(h, i, l).buf = Inserted(g, p, l) /\ hist_ins(h, i, l).idx = p
  BY <1>10
<1>12. QED
  BY <1>7, <1>8, <1>9, <1>11, InsertedOK

(* hist_del takes a line with its Nul out and leaves a history. *)
LEMMA HistDelOK ==
  ASSUME NEW h, HistoryOK(h), NEW i \in Boundaries(h), i # Len(h)
  PROVE  HistoryOK(hist_del(h, i))
<1> DEFINE n == NextIdx(h, i)
           a == SubSeq(h, 1, i)
           b == SubSeq(h, n + 1, Len(h))
           w == a \o b
<1>1. /\ h \in Seq(Byte) /\ Len(h) \in Nat /\ Len(h) <= HistSize
      /\ i \in 0 .. Len(h) /\ (i = 0 \/ h[i] = Nul)
  <2>1. h \in Seq(Byte) /\ Len(h) \in Nat /\ Len(h) <= HistSize
    BY LenProperties DEF HistoryOK
  <2>2. QED
    BY <2>1, BoundaryAt
<1>2. n \in Boundaries(h) /\ n \in i + 1 .. Len(h)
  BY NextIdxProps
<1> HIDE DEF n
<1>3. a \in Seq(Byte) /\ Len(a) = i /\ \A k \in 1 .. i : a[k] = h[k]
  <2>1. 1 \in 1 .. Len(h) + 1 /\ i \in 1 - 1 .. Len(h)
    BY <1>1
  <2>2. i - 1 + 1 = i
    BY <1>1
  <2>3. a \in Seq(Byte)
    BY <1>1, <2>1, SliceProps
  <2>4. Len(a) = i - 1 + 1
    BY <1>1, <2>1, SliceProps
  <2>5. \A k \in 1 .. i : a[k] = h[k]
    BY <1>1
  <2> HIDE DEF a
  <2>6. QED
    BY <2>2, <2>3, <2>4, <2>5
<1>4. /\ HistoryOK(b) /\ Len(b) = Len(h) - n
  BY <1>2, CutProps
<1>5. b \in Seq(Byte) /\ Len(b) \in Nat
  BY <1>4, LenProperties DEF HistoryOK
<1> HIDE DEF a, b
<1>6. /\ w \in Seq(Byte) /\ Len(w) = i + Len(b)
      /\ \A k \in 1 .. i + Len(b) : w[k] = IF k <= i THEN a[k] ELSE b[k - i]
  BY <1>3, <1>5, ConcatProperties
<1> HIDE DEF w
<1>7. Len(w) <= HistSize
  BY <1>1, <1>2, <1>4, <1>6, ReadlineConstantsOK
<1>8. ASSUME NEW k \in 0 .. Len(w) - 1
      PROVE  \E j \in k + 1 .. Len(w) : j <= k + LineSize /\ w[j] = Nul
  <2>0. LineSize \in Nat
    BY ReadlineConstantsOK
  <2>1. CASE k < i
    <3>1. k \in 0 .. Len(h) - 1
      BY <1>1, <2>1, <1>6, <1>5, <1>8
    <3>2. PICK j \in k + 1 .. Len(h) : j <= k + LineSize /\ h[j] = Nul
      BY <3>1 DEF HistoryOK
    <3>3. CASE j <= i
      <4>1. j \in 1 .. i /\ j \in k + 1 .. Len(w) /\ j \in 1 .. i + Len(b)
        BY <1>1, <1>5, <1>6, <3>1, <3>2, <3>3
      <4>2. w[j] = a[j] /\ a[j] = h[j]
        BY <1>3, <1>6, <3>3, <4>1
      <4>3. QED
        BY <3>2, <4>1, <4>2
    <3>4. CASE j > i
      <4>1. /\ i \in k + 1 .. Len(w) /\ i <= k + LineSize
            /\ i \in 1 .. i /\ i \in 1 .. i + Len(b) /\ i # 0
        BY <1>1, <1>5, <1>6, <2>0, <2>1, <3>1, <3>2, <3>4
      <4>2. w[i] = a[i] /\ a[i] = h[i]
        BY <1>3, <1>6, <4>1
      <4>3. QED
        BY <1>1, <4>1, <4>2
    <3>5. QED
      BY <3>2, <3>3, <3>4, <1>1
  <2>2. CASE k >= i
    <3>1. k - i \in 0 .. Len(b) - 1
      BY <1>1, <1>5, <1>6, <1>8, <2>2
    <3>2. PICK j \in (k - i) + 1 .. Len(b) :
            j <= (k - i) + LineSize /\ b[j] = Nul
      BY <1>4, <3>1 DEF HistoryOK
    <3>3. /\ j + i \in k + 1 .. Len(w) /\ j + i <= k + LineSize
          /\ j + i \in 1 .. i + Len(b) /\ ~ (j + i <= i) /\ (j + i) - i = j
      BY <1>1, <1>5, <1>6, <1>8, <2>0, <2>2, <3>1, <3>2
    <3>4. w[j + i] = Nul
      BY <1>6, <3>2, <3>3
    <3>5. QED
      BY <3>3, <3>4
  <2>3. QED
    BY <1>1, <1>5, <1>6, <1>8, <2>1, <2>2
<1>9. HistoryOK(w)
  BY <1>6, <1>7, <1>8 DEF HistoryOK
<1>10. QED
  BY <1>9 DEF hist_del, w, a, b, n

-----------------------------------------------------------------------------
(* The invariant *)

(* the flags have their types *)
FlagsOK ==
  /\ echo_mode \in BOOLEAN
  /\ mode \in 0 .. 2
  /\ tab_count \in 0 .. 2
  /\ phase \in {"key", "tab", "call", "off"}
  /\ cli_disabled \in BOOLEAN

(* the line fits into its buffer with a Nul, the cursor is on it *)
BufferOK ==
  /\ tty_buf \in Seq(Char) /\ Len(tty_buf) < LineSize
  /\ tty_cur \in 0 .. Len(tty_buf)
  /\ changed \in BOOLEAN

(* the history consists of lines, and hist_idx is where one begins *)
HistoryInv == HistoryOK(histbuf) /\ hist_idx \in Boundaries(histbuf)

(* Terminal t shows the line b and cursor c, or nothing when echo is off. *)
Displays(t, b, c) == IF echo_mode THEN Shows(t, b, c) ELSE Dark(t)

(* while a line is edited it is displayed; before and after, the row is    *)
(* empty                                                                    *)
ScreenOK ==
  /\ phase \in {"key", "tab"} => Displays(screen, tty_buf, tty_cur)
  /\ phase \in {"call", "off"} => Dark(screen)

(* The inductive invariant.  ScreenShowsLine says nothing of the phases in *)
(* which a command runs or completes, of a row longer than the line and of  *)
(* the cursor's place on it; UnchangedIsRetrieved needs hist_idx to be at   *)
(* the beginning of a line, and the editing of a retrieved line needs that  *)
(* line to fit into the buffer.                                             *)
LineInv ==
  FlagsOK /\ BufferOK /\ HistoryInv /\ UnchangedIsRetrieved /\ ScreenOK

-----------------------------------------------------------------------------
(* Parts of the steps *)

(* The prompt on an empty row: an empty line, and still nothing else. *)
LEMMA PromptAfterDark ==
  ASSUME NEW t, Dark(t)
  PROVE  /\ Shows(nk_puts(t, << Prompt >>), << >>, 0)
         /\ Dark(nk_puts(t, << Prompt >>))
<1> DEFINE u == nk_puts(t, << Prompt >>)
<1>1. OnRow(t) /\ t.row = << >>
  BY DEF Dark
<1>2. Shows(u, << >>, 0) /\ u.row = << >>
  BY <1>1, ShowsPrompt
<1> HIDE DEF u
<1>3. Dark(u)
  BY <1>2 DEF Shows, Dark
<1>4. QED
  BY <1>2, <1>3 DEF u

(* The prompt and the line after a list of commands. *)
LEMMA ListingShows ==
  ASSUME NEW t, Dark(t), NEW b \in Seq(Char)
  PROVE  Shows(nk_puts(t, << Prompt >> \o b), b, Len(b))
<1>1. << Prompt >> \in Seq(Token) /\ b \in Seq(Token)
  BY TokenSeqs DEF Token
<1>2. nk_puts(t, << Prompt >> \o b) = nk_puts(nk_puts(t, << Prompt >>), b)
  BY <1>1, PutsConcat
<1>3. Shows(nk_puts(t, << Prompt >>), << >>, 0)
  BY PromptAfterDark
<1>4. QED
  BY <1>2, <1>3, ShowsLine

(* A newline and the prompt. *)
LEMMA CancelShows ==
  ASSUME NEW t
  PROVE  /\ Shows(nk_puts(t, << NL, Prompt >>), << >>, 0)
         /\ Dark(nk_puts(t, << NL, Prompt >>))
<1>1. NL \in Token /\ Prompt \in Token
  BY DEF Token
<1>2. << NL >> \o << Prompt >> = << NL, Prompt >>
  BY <1>1, TwoTokens
<1>3. << NL >> \in Seq(Token) /\ << Prompt >> \in Seq(Token)
  BY <1>1, TokenSeqs
<1>4. nk_puts(t, << NL, Prompt >>)
        = nk_puts(nk_puts(t, << NL >>), << Prompt >>)
  <2> DEFINE a == << NL >>
             b == << Prompt >>
             c == << NL, Prompt >>
  <2> HIDE DEF a, b, c
  <2>1. a \in Seq(Token) /\ b \in Seq(Token) /\ a \o b = c
    BY <1>2, <1>3 DEF a, b, c
  <2>2. nk_puts(t, c) = nk_puts(nk_puts(t, a), b)
    BY <2>1, PutsConcat
  <2>3. QED
    BY <2>2 DEF a, b, c
<1>5. Dark(nk_puts(t, << NL >>))
  BY NewLineDark
<1> DEFINE u == nk_puts(t, << NL >>)
           v == nk_puts(t, << NL, Prompt >>)
<1> HIDE DEF u, v
<1>6. Dark(u) /\ v = nk_puts(u, << Prompt >>)
  BY <1>4, <1>5 DEF u, v
<1>7. Shows(v, << >>, 0) /\ Dark(v)
  BY <1>6, PromptAfterDark
<1>8. QED
  BY <1>7 DEF v

(* The cursor is on the row in every phase. *)
LEMMA ScreenOnRow ==
  ASSUME FlagsOK, ScreenOK
  PROVE  OnRow(screen) /\ (~echo_mode => Dark(screen))
<1>1. CASE phase \in {"key", "tab"}
  BY <1>1 DEF ScreenOK, Displays, Shows, Dark
<1>2. CASE phase \in {"call", "off"}
  BY <1>2 DEF ScreenOK, Dark
<1>3. QED
  BY <1>1, <1>2 DEF FlagsOK

(* Erase and then a line: the terminal shows that line, wherever the       *)
(* cursor was on the old one.                                               *)
LEMMA EraseShows ==
  ASSUME BufferOK, NEW t, Displays(t, tty_buf, tty_cur), NEW l \in Seq(Char)
  PROVE  Displays(Echo(t, Erase \o l), l, Len(l))
<1>1. CASE ~echo_mode
  BY <1>1 DEF Displays, Echo
<1>2. CASE echo_mode
  <2> DEFINE n == Len(tty_buf)
             u == nk_puts(t, ToEnd)
             v == nk_puts(u, Triples(n))
  <2>1. /\ tty_buf \in Seq(Char) /\ tty_cur \in 0 .. Len(tty_buf)
        /\ n \in Nat
    BY LenProperties DEF BufferOK
  <2>2. Shows(t, tty_buf, tty_cur)
    BY <1>2 DEF Displays
  <2>3. Shows(u, tty_buf, n)
    BY <2>1, <2>2, ShowsToEnd DEF ToEnd
  <2>4. Shows(v, << >>, 0)
    BY <2>1, <2>3, ShowsErased
  <2>5. Shows(nk_puts(v, l), l, Len(l))
    BY <2>4, ShowsLine
  <2>6. ToEnd \in Seq(Char)
    <3>1. tty_cur + 1 \in 1 .. Len(tty_buf) + 1
          /\ n \in (tty_cur + 1) - 1 .. Len(tty_buf)
      BY <2>1
    <3>2. SubSeq(tty_buf, tty_cur + 1, n) \in Seq(Char)
      BY <2>1, <3>1, SliceProps
    <3>3. QED
      BY <3>2 DEF ToEnd
  <2>7. ToEnd \in Seq(Token) /\ Triples(n) \in Seq(Token) /\ l \in Seq(Token)
    BY <2>1, <2>6, TokenSeqs
  <2>8. Erase = ToEnd \o Triples(n)
    BY DEF Erase, Triples
  <2>9. Erase \in Seq(Token)
    BY <2>7, <2>8, ConcatProperties
  <2>10. nk_puts(t, Erase \o l) = nk_puts(nk_puts(t, Erase), l)
    BY <2>7, <2>9, PutsConcat
  <2>11. nk_puts(t, Erase) = v
    BY <2>7, <2>8, PutsConcat
  <2>12. QED
    BY <1>2, <2>5, <2>10, <2>11 DEF Displays, Echo
<1>3. QED
  BY <1>1, <1>2

(* Show replaces the line by one of the history, or by none. *)
LEMMA ShowStep ==
  ASSUME BufferOK, Displays(screen, tty_buf, tty_cur),
         NEW l \in Seq(Char), Len(l) < LineSize,
         NEW h, HistoryOK(h.buf), h.idx \in Boundaries(h.buf),
         l = << >> \/ (h.idx # Len(h.buf) /\ l = LineAt(h.buf, h.idx)),
         Show(l, h), UNCHANGED echo_mode
  PROVE  /\ BufferOK' /\ HistoryInv' /\ UnchangedIsRetrieved'
         /\ Displays(screen, tty_buf, tty_cur)'
<1>1. /\ tty_buf' = l /\ tty_cur' = Len(l) /\ changed' = FALSE
      /\ histbuf' = h.buf /\ hist_idx' = h.idx
      /\ screen' = Echo(screen, Erase \o l)
  BY DEF Show
<1>2. BufferOK'
  <2>1. Len(l) \in 0 .. Len(l)
    BY LenProperties
  <2>2. QED
    BY <1>1, <2>1 DEF BufferOK
<1>3. HistoryInv'
  BY <1>1 DEF HistoryInv
<1>4. UnchangedIsRetrieved'
  BY <1>1 DEF UnchangedIsRetrieved
<1>5. Displays(screen', l, Len(l))
  BY <1>1, EraseShows
<1>6. Displays(screen, tty_buf, tty_cur)'
  BY <1>1, <1>5 DEF Displays
<1>7. QED
  BY <1>2, <1>3, <1>4, <1>6

(* typech puts in a character if there is room and shows the line. *)
LEMMA TypechStep ==
  ASSUME BufferOK, UnchangedIsRetrieved, phase \in {"key", "tab"},
         NEW c \in Char, NEW cur \in 0 .. Len(tty_buf),
         NEW t, Displays(t, tty_buf, cur), typech(c, cur, t),
         UNCHANGED << echo_mode, hist_linevars >>
  PROVE  /\ BufferOK' /\ UnchangedIsRetrieved'
         /\ Displays(screen, tty_buf, tty_cur)'
<1>1. tty_buf \in Seq(Char) /\ Len(tty_buf) \in Nat /\ Len(tty_buf) < LineSize
      /\ changed \in BOOLEAN
  BY LenProperties DEF BufferOK
<1>2. CASE Len(tty_buf) = LineSize - 1
  <2>1. tty_cur' = cur /\ screen' = t /\ UNCHANGED << tty_buf, changed >>
    BY <1>2 DEF typech
  <2>2. BufferOK'
    BY <1>1, <2>1 DEF BufferOK
  <2>3. UnchangedIsRetrieved'
    BY <2>1 DEF UnchangedIsRetrieved, hist_linevars
  <2>4. Displays(screen, tty_buf, tty_cur)'
    BY <2>1 DEF Displays
  <2>5. QED
    BY <2>2, <2>3, <2>4
<1>3. CASE Len(tty_buf) # LineSize - 1
  <2> DEFINE b == InsertAt(tty_buf, cur + 1, c)
             s == SubSeq(b, cur + 1, Len(b)) \o Backspaces(Len(b) - (cur + 1))
  <2>1. /\ tty_buf' = b /\ tty_cur' = cur + 1 /\ changed' = TRUE
        /\ screen' = Echo(t, s)
    BY <1>3 DEF typech
  <2>2. b \in Seq(Char) /\ Len(b) = Len(tty_buf) + 1
    <3> DEFINE j == cur + 1
    <3>1. j \in 1 .. Len(tty_buf) + 1
      BY <1>1
    <3> HIDE DEF j
    <3>2. InsertAt(tty_buf, j, c) \in Seq(Char)
      BY <1>1, <3>1, InsertAtProps
    <3>3. Len(InsertAt(tty_buf, j, c)) = Len(tty_buf) + 1
      BY <1>1, <3>1, InsertAtProps
    <3>4. QED
      BY <3>2, <3>3 DEF j
  <2>3. Displays(Echo(t, s), b, cur + 1)
    <3>1. CASE ~echo_mode
      BY <3>1 DEF Displays, Echo
    <3>2. CASE echo_mode
      <4>1. Shows(t, tty_buf, cur)
        BY <3>2 DEF Displays
      <4>2. Shows(nk_puts(t, s), b, cur + 1)
        BY <1>1, <4>1, ShowsInsert
      <4>3. QED
        BY <3>2, <4>2 DEF Displays, Echo
    <3>3. QED
      BY <3>1, <3>2
  <2> HIDE DEF b, s
  <2>4. BufferOK'
    BY <1>1, <1>3, <2>1, <2>2, ReadlineConstantsOK DEF BufferOK
  <2>5. UnchangedIsRetrieved'
    BY <2>1 DEF UnchangedIsRetrieved
  <2>6. Displays(screen, tty_buf, tty_cur)'
    BY <2>1, <2>3 DEF Displays
  <2>7. QED
    BY <2>4, <2>5, <2>6
<1>4. QED
  BY <1>2, <1>3

(* delch takes out a character and shows the line. *)
LEMMA DelchStep ==
  ASSUME BufferOK, NEW k \in 0 .. Len(tty_buf) - 1, NEW out \in Seq(Token),
         Displays(Echo(screen, out), tty_buf, k), delch(k, out),
         UNCHANGED echo_mode
  PROVE  /\ BufferOK' /\ UnchangedIsRetrieved'
         /\ Displays(screen, tty_buf, tty_cur)'
<1> DEFINE b == RemoveAt(tty_buf, k + 1)
           rest == SubSeq(b, k + 1, Len(b))
           s == out \o rest \o << Blank, BS >> \o Backspaces(Len(rest))
<1>1. tty_buf \in Seq(Char) /\ Len(tty_buf) \in Nat /\ Len(tty_buf) < LineSize
  BY LenProperties DEF BufferOK
<1>2. /\ tty_buf' = b /\ tty_cur' = k /\ changed' = TRUE
      /\ screen' = Echo(screen, s)
  BY DEF delch
<1>3. b \in Seq(Char) /\ Len(b) = Len(tty_buf) - 1
  <2> DEFINE j == k + 1
  <2>1. j \in 1 .. Len(tty_buf)
    BY <1>1
  <2> HIDE DEF j
  <2>2. RemoveAt(tty_buf, j) \in Seq(Char)
    BY <1>1, <2>1, RemoveAtProps
  <2>3. Len(RemoveAt(tty_buf, j)) = Len(tty_buf) - 1
    BY <1>1, <2>1, RemoveAtProps
  <2>4. QED
    BY <2>2, <2>3 DEF j
<1>4. Displays(Echo(screen, s), b, k)
  <2>1. CASE ~echo_mode
    BY <2>1 DEF Displays, Echo
  <2>2. CASE echo_mode
    <3> DEFINE t == nk_puts(screen, out)
               e == << Blank, BS >>
               z == Backspaces(Len(rest))
    <3>1. Shows(t, tty_buf, k)
      BY <2>2 DEF Displays, Echo
    <3>2. Shows(nk_puts(nk_puts(nk_puts(t, rest), e), z), b, k)
      BY <1>1, <3>1, ShowsShorter
    <3>3. rest \in Seq(Char)
      <4> HIDE DEF b
      <4>1. k + 1 \in 1 .. Len(b) + 1 /\ Len(b) \in (k + 1) - 1 .. Len(b)
        BY <1>1, <1>3
      <4>2. QED
        BY <1>3, <4>1, SliceProps
    <3>4. rest \in Seq(Token) /\ e \in Seq(Token) /\ z \in Seq(Token)
      <4>1. rest \in Seq(Token)
        BY <3>3, TokenSeqs
      <4>2. e \in Seq(Token)
        BY ReadlineConstantsOK DEF Token
      <4>3. Len(rest) \in Nat
        BY <3>3, LenProperties
      <4>4. QED
        BY <4>1, <4>2, <4>3, TokenSeqs
    <3> HIDE DEF b, rest, t, e, z
    <3>5. out \o rest \in Seq(Token)
      BY <3>4, ConcatProperties
    <3>6. out \o rest \o e \in Seq(Token)
      BY <3>4, <3>5, ConcatProperties
    <3>7. nk_puts(screen, out \o rest) = nk_puts(t, rest)
      BY <3>4, PutsConcat DEF t
    <3> DEFINE p == out \o rest
               q == out \o rest \o e
    <3> HIDE DEF p, q
    <3>8. nk_puts(screen, q) = nk_puts(nk_puts(t, rest), e)
      <4>1. nk_puts(screen, p \o e) = nk_puts(nk_puts(screen, p), e)
        BY <3>4, <3>5, PutsConcat DEF p
      <4>2. QED
        BY <3>7, <4>1 DEF p, q
    <3>9. nk_puts(screen, out \o rest \o e \o z)
            = nk_puts(nk_puts(nk_puts(t, rest), e), z)
      <4>1. nk_puts(screen, q \o z) = nk_puts(nk_puts(screen, q), z)
        BY <3>4, <3>6, PutsConcat DEF q
      <4>2. QED
        BY <3>8, <4>1 DEF q
    <3>10. QED
      BY <2>2, <3>2, <3>9 DEF Displays, Echo, e, z
  <2>3. QED
    BY <2>1, <2>2
<1> HIDE DEF b, rest, s
<1>5. BufferOK'
  <2>1. Len(b) < LineSize /\ k \in 0 .. Len(b)
    BY <1>1, <1>3, ReadlineConstantsOK
  <2>2. /\ tty_buf' \in Seq(Char) /\ Len(tty_buf') < LineSize
        /\ tty_cur' \in 0 .. Len(tty_buf') /\ changed' \in BOOLEAN
    BY <1>2, <1>3, <2>1
  <2>3. QED
    BY ONLY <2>2 DEF BufferOK
<1>6. UnchangedIsRetrieved'
  BY <1>2 DEF UnchangedIsRetrieved
<1>7. Displays(screen, tty_buf, tty_cur)'
  BY <1>2, <1>4 DEF Displays
<1>8. QED
  BY <1>5, <1>6, <1>7

-----------------------------------------------------------------------------
(* Keys that move and edit *)

(* A key that changes neither line nor history has only to show the line. *)
LEMMA LineStays ==
  ASSUME LineInv, phase = "key", phase' = phase,
         tty_cur' \in 0 .. Len(tty_buf),
         UNCHANGED << tty_buf, changed, hist_linevars, echo_mode >>,
         Displays(screen', tty_buf, tty_cur')
  PROVE  BufferOK' /\ HistoryInv' /\ UnchangedIsRetrieved' /\ ScreenOK'
<1>1. /\ tty_buf' = tty_buf /\ changed' = changed /\ echo_mode' = echo_mode
      /\ histbuf' = histbuf /\ hist_idx' = hist_idx
  BY DEF hist_linevars
<1>2. BufferOK'
  BY <1>1 DEF LineInv, BufferOK
<1>3. HistoryInv'
  BY <1>1 DEF LineInv, HistoryInv
<1>4. UnchangedIsRetrieved'
  BY <1>1 DEF LineInv, UnchangedIsRetrieved
<1>5. Displays(screen, tty_buf, tty_cur)'
  BY <1>1 DEF Displays
<1>6. ScreenOK'
  BY <1>5 DEF ScreenOK
<1>7. QED
  BY <1>2, <1>3, <1>4, <1>6

(* A bell changes nothing. *)
LEMMA BeepStep ==
  ASSUME LineInv, phase = "key", phase' = phase, Beep, UNCHANGED echo_mode
  PROVE  BufferOK' /\ HistoryInv' /\ UnchangedIsRetrieved' /\ ScreenOK'
<1>1. UNCHANGED << tty_buf, tty_cur, changed, hist_linevars, screen >>
  BY DEF Beep, line_linevars
<1>2. tty_cur' \in 0 .. Len(tty_buf)
  BY <1>1 DEF LineInv, BufferOK
<1>3. Displays(screen', tty_buf, tty_cur')
  BY <1>1 DEF LineInv, ScreenOK
<1>4. QED
  BY <1>1, <1>2, <1>3, LineStays

(* A movement has to leave the cursor where it says. *)
LEMMA CursorStep ==
  ASSUME LineInv, phase = "key", phase' = phase, UNCHANGED echo_mode,
         NEW to \in 0 .. Len(tty_buf), NEW out, Cursor(to, out),
         echo_mode => Shows(nk_puts(screen, out), tty_buf, to)
  PROVE  BufferOK' /\ HistoryInv' /\ UnchangedIsRetrieved' /\ ScreenOK'
<1>1. /\ tty_cur' = to /\ screen' = Echo(screen, out)
      /\ UNCHANGED << tty_buf, changed, hist_linevars >>
  BY DEF Cursor
<1>2. Displays(screen, tty_buf, tty_cur)
  BY DEF LineInv, ScreenOK
<1>3. Displays(screen', tty_buf, tty_cur')
  BY <1>1, <1>2 DEF Displays, Echo
<1>4. QED
  BY <1>1, <1>3, LineStays

(* Writing the character under the cursor moves the cursor right. *)
LEMMA ShowsRight ==
  ASSUME NEW b \in Seq(Char), NEW c \in 0 .. Len(b), c # Len(b), NEW t,
         Shows(t, b, c)
  PROVE  Shows(nk_puts(t, << b[c + 1] >>), b, c + 1)
<1> DEFINE x == b[c + 1]
           u == nk_puts(t, << x >>)
           r == t.row
           g == t.clean
           q == [r EXCEPT ![c + 1] = x]
<1>1. /\ r \in Seq(Char) /\ Len(r) \in Nat /\ g \in BOOLEAN
      /\ t = At(r, c, g) /\ Len(b) <= Len(r) /\ Len(b) \in Nat
  BY LenProperties, TerminalIsAt DEF Shows, OnRow
<1>2. c + 1 \in 1 .. Len(b) /\ c + 1 \in 1 .. Len(r) /\ c < Len(r)
  BY <1>1
<1>3. x \in Char
  BY <1>2, ElementOfSeq
<1>4. q = r
  <2>1. r[c + 1] = x
    BY <1>2 DEF Shows
  <2> HIDE DEF x, r
  <2>2. QED
    BY <1>1, <2>1, LenProperties
<1>5. u = At(r, c + 1, g)
  <2> HIDE DEF x, r, g
  <2>1. PutChar(At(r, c, g), x)
          = At(IF c < Len(r) THEN [r EXCEPT ![c + 1] = x] ELSE Append(r, x),
               c + 1, g)
    BY <1>3, PutOther
  <2>2. u = PutChar(t, x)
    BY PutsOne
  <2> HIDE DEF u
  <2>3. QED
    BY <1>1, <1>2, <1>4, <2>1, <2>2
<1> HIDE DEF u, x
<1>6. u.row = r /\ u.col = c + 1 /\ u.clean = g
  BY <1>5, AtFields
<1>7. OnRow(u)
  BY <1>1, <1>2, <1>5, <1>6 DEF OnRow, Terminal, At
<1>8. Shows(u, b, c + 1)
  BY <1>6, <1>7 DEF Shows
<1>9. QED
  BY <1>8 DEF u, x

(* Every step keeps the types of the flags. *)
LEMMA FlagsStep ==
  ASSUME FlagsOK, LineNext
  PROVE  FlagsOK'
<1> USE DEF FlagsOK
<1>1. CASE KeyStep
  <2>1. ASSUME Key, mode' \in 0 .. 2, phase' \in {"key", "tab", "call"}
        PROVE  FlagsOK'
    BY <2>1 DEF Key, cli_linevars
  <2>2. ASSUME PlainKey \/ ArrowKey PROVE FlagsOK'
    <3>1. Key /\ mode' \in 0 .. 2 /\ phase' = "key"
      BY <2>2 DEF PlainKey, ArrowKey, Key
    <3>2. QED
      BY <2>1, <3>1
  <2>3. ASSUME Escape PROVE FlagsOK'
    <3>1. Key /\ mode' \in 0 .. 2 /\ phase' = "key"
      BY <2>3 DEF Escape, Key
    <3>2. QED
      BY <2>1, <3>1
  <2>4. ASSUME Enter \/ Tab PROVE FlagsOK'
    <3>1. Key /\ mode' = mode /\ phase' \in {"call", "tab"}
      BY <2>4 DEF Enter, Tab
    <3>2. QED
      BY <2>1, <3>1
  <2>5. QED
    BY <1>1, <2>2, <2>3, <2>4
      DEF KeyStep, Typed, Rubout, DeleteAtCursor, to_end, to_beg, cur_left,
          cur_right, Unknown, hist_up, hist_down, Cancel, Help
<1>2. CASE Complete
  BY <1>2 DEF Complete, CompleteNone, CompleteMany, CompleteOne, cli_linevars
<1>3. CASE handle_cmd
  BY <1>3 DEF handle_cmd, cli_linevars
<1>4. CASE nk_set_echo
  BY <1>4 DEF nk_set_echo
<1>5. CASE nk_cli_disable
  BY <1>5 DEF nk_cli_disable
<1>6. CASE nk_cli_enable
  BY <1>6 DEF nk_cli_enable
<1>7. QED
  BY <1>1, <1>2, <1>3, <1>4, <1>5, <1>6 DEF LineNext

(* The keys that edit the line, move in it or do nothing. *)
LEMMA EditingKeys ==
  ASSUME LineInv,
         (\E c \in Char : Typed(c)) \/ Rubout \/ DeleteAtCursor \/ to_end
           \/ to_beg \/ cur_left \/ cur_right \/ Escape \/ Unknown \/ Help
  PROVE  BufferOK' /\ HistoryInv' /\ UnchangedIsRetrieved' /\ ScreenOK'
<1>0. /\ tty_buf \in Seq(Char) /\ Len(tty_buf) \in Nat
      /\ tty_cur \in 0 .. Len(tty_buf)
  BY LenProperties DEF LineInv, BufferOK
<1>1. phase = "key" /\ phase' = phase /\ UNCHANGED echo_mode
  BY DEF Typed, Rubout, DeleteAtCursor, to_end, to_beg, cur_left, cur_right,
         Escape, Unknown, Help, PlainKey, ArrowKey, Key, cli_linevars
<1>2. Displays(screen, tty_buf, tty_cur)
  BY <1>1 DEF LineInv, ScreenOK
<1>3. ASSUME NEW c \in Char, Typed(c)
      PROVE  BufferOK' /\ HistoryInv' /\ UnchangedIsRetrieved' /\ ScreenOK'
  <2>1. typech(c, tty_cur, screen) /\ UNCHANGED hist_linevars
    BY <1>3 DEF Typed
  <2>2. /\ BufferOK' /\ UnchangedIsRetrieved'
        /\ Displays(screen, tty_buf, tty_cur)'
    BY <1>0, <1>1, <1>2, <2>1, TypechStep DEF LineInv
  <2>3. HistoryInv'
    BY <2>1 DEF LineInv, HistoryInv, hist_linevars
  <2>4. ScreenOK'
    BY <1>1, <2>2 DEF ScreenOK
  <2>5. QED
    BY <2>2, <2>3, <2>4
<1>4. ASSUME NEW k \in 0 .. Len(tty_buf) - 1, NEW out \in Seq(Token),
             delch(k, out), Displays(Echo(screen, out), tty_buf, k)
      PROVE  BufferOK' /\ HistoryInv' /\ UnchangedIsRetrieved' /\ ScreenOK'
  <2>1. /\ BufferOK' /\ UnchangedIsRetrieved'
        /\ Displays(screen, tty_buf, tty_cur)'
    BY <1>1, <1>4, DelchStep DEF LineInv
  <2>2. HistoryInv'
    BY <1>4 DEF LineInv, HistoryInv, hist_linevars, delch
  <2>3. ScreenOK'
    BY <1>1, <2>1 DEF ScreenOK
  <2>4. QED
    BY <2>1, <2>2, <2>3
<1>5. ASSUME echo_mode, tty_cur > 0
      PROVE  Shows(nk_puts(screen, << BS >>), tty_buf, tty_cur - 1)
  <2>1. 1 \in 0 .. tty_cur
    BY <1>0, <1>5
  <2>2. Shows(screen, tty_buf, tty_cur)
    BY <1>2, <1>5 DEF Displays
  <2>3. Shows(nk_puts(screen, Backspaces(1)), tty_buf, tty_cur - 1)
    BY <2>1, <2>2, ShowsBack
  <2>4. Backspaces(1) = << BS >>
    BY DEF Backspaces
  <2>5. QED
    BY <2>3, <2>4
<1>6. CASE Rubout
  <2>1. CASE tty_cur > 0
    <3>1. tty_cur - 1 \in 0 .. Len(tty_buf) - 1
      BY <1>0, <2>1
    <3>2. << BS >> \in Seq(Token)
      BY TokenSeqs DEF Token
    <3>3. Displays(Echo(screen, << BS >>), tty_buf, tty_cur - 1)
      BY <1>2, <1>5, <2>1 DEF Displays, Echo
    <3>4. delch(tty_cur - 1, << BS >>)
      BY <1>6, <2>1 DEF Rubout
    <3>5. QED
      BY <1>4, <3>1, <3>2, <3>3, <3>4
  <2>2. CASE ~ (tty_cur > 0)
    <3>1. Beep
      BY <1>6, <2>2 DEF Rubout
    <3>2. QED
      BY <1>1, <3>1, BeepStep
  <2>3. QED
    BY <2>1, <2>2
<1>7. CASE DeleteAtCursor
  <2>1. CASE tty_cur # Len(tty_buf)
    <3> DEFINE e == << >>
    <3>1. tty_cur \in 0 .. Len(tty_buf) - 1
      BY <1>0, <2>1
    <3>2. e \in Seq(Token) /\ Len(e) = 0
      BY EmptySeq
    <3>3. delch(tty_cur, e)
      BY <1>7, <2>1 DEF DeleteAtCursor
    <3>4. nk_puts(screen, e) = screen
      <4> DEFINE f == [k \in 0 .. 0 |-> screen]
      <4>1. f[0] = screen
        OBVIOUS
      <4>2. Run(f, screen, e)
        <5> HIDE DEF e
        <5>1. QED
          BY <3>2 DEF Run
      <4> HIDE DEF e, f
      <4>3. QED
        BY <3>2, <4>1, <4>2, RunIsPuts
    <3> HIDE DEF e
    <3>5. Displays(Echo(screen, e), tty_buf, tty_cur)
      BY <1>2, <3>4 DEF Displays, Echo
    <3>6. QED
      BY <1>4, <3>1, <3>2, <3>3, <3>5
  <2>2. CASE tty_cur = Len(tty_buf)
    <3>1. Beep
      BY <1>7, <2>2 DEF DeleteAtCursor
    <3>2. QED
      BY <1>1, <3>1, BeepStep
  <2>3. QED
    BY <2>1, <2>2
<1>8. CASE to_end
  <2>1. Cursor(Len(tty_buf), ToEnd)
    BY <1>8 DEF to_end
  <2>2. ASSUME echo_mode
        PROVE  Shows(nk_puts(screen, ToEnd), tty_buf, Len(tty_buf))
    <3>1. Shows(screen, tty_buf, tty_cur)
      BY <1>2, <2>2 DEF Displays
    <3>2. QED
      BY <1>0, <3>1, ShowsToEnd DEF ToEnd
  <2>3. Len(tty_buf) \in 0 .. Len(tty_buf)
    BY <1>0
  <2>4. QED
    BY <1>1, <2>1, <2>2, <2>3, CursorStep
<1>9. CASE to_beg
  <2>1. Cursor(0, Backspaces(tty_cur))
    BY <1>9 DEF to_beg
  <2>2. ASSUME echo_mode
        PROVE  Shows(nk_puts(screen, Backspaces(tty_cur)), tty_buf, 0)
    <3>1. Shows(screen, tty_buf, tty_cur)
      BY <1>2, <2>2 DEF Displays
    <3>2. tty_cur \in 0 .. tty_cur /\ tty_cur - tty_cur = 0
      BY <1>0
    <3>3. Shows(nk_puts(screen, Backspaces(tty_cur)), tty_buf,
                tty_cur - tty_cur)
      BY <3>1, <3>2, ShowsBack
    <3>4. QED
      BY <3>2, <3>3
  <2>3. 0 \in 0 .. Len(tty_buf)
    BY <1>0
  <2>4. QED
    BY <1>1, <2>1, <2>2, <2>3, CursorStep
<1>10. CASE cur_left
  <2>1. CASE tty_cur > 0
    <3>1. Cursor(tty_cur - 1, << BS >>)
      BY <1>10, <2>1 DEF cur_left
    <3>2. tty_cur - 1 \in 0 .. Len(tty_buf)
      BY <1>0, <2>1
    <3>3. QED
      BY <1>1, <1>5, <2>1, <3>1, <3>2, CursorStep
  <2>2. CASE ~ (tty_cur > 0)
    <3>1. Beep
      BY <1>10, <2>2 DEF cur_left
    <3>2. QED
      BY <1>1, <3>1, BeepStep
  <2>3. QED
    BY <2>1, <2>2
<1>11. CASE cur_right
  <2>1. CASE tty_cur # Len(tty_buf)
    <3> DEFINE c == tty_cur + 1
               out == << tty_buf[tty_cur + 1] >>
    <3>1. Cursor(c, out)
      BY <1>11, <2>1 DEF cur_right
    <3>2. c \in 0 .. Len(tty_buf) /\ c \in 1 .. Len(tty_buf)
      BY <1>0, <2>1
    <3>3. ASSUME echo_mode PROVE Shows(nk_puts(screen, out), tty_buf, c)
      <4>1. Shows(screen, tty_buf, tty_cur)
        BY <1>2, <3>3 DEF Displays
      <4>2. QED
        BY <1>0, <2>1, <4>1, ShowsRight
    <3> HIDE DEF c, out
    <3>4. QED
      BY <1>1, <3>1, <3>2, <3>3, CursorStep
  <2>2. CASE tty_cur = Len(tty_buf)
    <3>1. Beep
      BY <1>11, <2>2 DEF cur_right
    <3>2. QED
      BY <1>1, <3>1, BeepStep
  <2>3. QED
    BY <2>1, <2>2
<1>12. CASE Escape \/ Unknown
  <2>1. Beep
    BY <1>12 DEF Escape, Unknown, Beep
  <2>2. QED
    BY <1>1, <2>1, BeepStep
<1>13. CASE Help
  <2> DEFINE t == Echo(screen, << NL >>)
             name == SubSeq(tty_buf, 1, Len(tty_buf) - 1)
             u == IF name \in Commands THEN nk_puts(t, << NL >>) ELSE t
  <2>1. /\ tty_cur' = Len(tty_buf)
        /\ screen' = Echo(u, << Prompt >> \o tty_buf)
        /\ UNCHANGED << tty_buf, changed, hist_linevars >>
    BY <1>13 DEF Help
  <2>2. Dark(t)
    BY <1>2, NewLineDark DEF Displays, Echo
  <2> HIDE DEF t, name
  <2>3. Dark(u)
    BY <2>2, NewLineDark
  <2> HIDE DEF u
  <2>4. Shows(nk_puts(u, << Prompt >> \o tty_buf), tty_buf, Len(tty_buf))
    BY <1>0, <2>3, ListingShows
  <2>5. Displays(screen', tty_buf, tty_cur')
    BY <2>1, <2>3, <2>4 DEF Displays, Echo
  <2>6. tty_cur' \in 0 .. Len(tty_buf)
    BY <1>0, <2>1
  <2>7. QED
    BY <1>1, <2>1, <2>5, <2>6, LineStays
<1>14. QED
  BY <1>3, <1>6, <1>7, <1>8, <1>9, <1>10, <1>11, <1>12, <1>13

-----------------------------------------------------------------------------
(* Keys that use the history *)

(* NextIdx is a boundary, also at the end. *)
LEMMA NextIsBoundary ==
  ASSUME NEW h, HistoryOK(h), NEW i \in Boundaries(h)
  PROVE  NextIdx(h, i) \in Boundaries(h)
<1>1. CASE i = Len(h)
  BY <1>1 DEF NextIdx
<1>2. CASE i # Len(h)
  BY <1>2, NextIdxProps
<1>3. QED
  BY <1>1, <1>2

(* The history after the edited line has been left in it. *)
LEMMA LeftOK ==
  ASSUME BufferOK, HistoryInv, NEW i \in Boundaries(histbuf)
  PROVE  /\ HistoryOK(Left(i).buf)
         /\ Left(i).idx \in Boundaries(Left(i).buf)
         /\ \A j : /\ [Left(i) EXCEPT !.idx = j].buf = Left(i).buf
                   /\ [Left(i) EXCEPT !.idx = j].idx = j
<1>1. CASE changed /\ tty_buf # << >>
  <2>1. Left(i) = hist_ins(histbuf, i, tty_buf)
    BY <1>1 DEF Left
  <2>2. /\ HistoryOK(Left(i).buf)
        /\ Left(i).idx \in Boundaries(Left(i).buf)
    BY <2>1, HistInsOK DEF BufferOK, HistoryInv
  <2>3. \A j : /\ [Left(i) EXCEPT !.idx = j].buf = Left(i).buf
               /\ [Left(i) EXCEPT !.idx = j].idx = j
    BY <2>1 DEF hist_ins
  <2>4. QED
    BY <2>2, <2>3
<1>2. CASE ~ (changed /\ tty_buf # << >>)
  <2>1. Left(i) = [buf |-> histbuf, idx |-> i]
    BY <1>2 DEF Left, Kept
  <2>2. Left(i).buf = histbuf /\ Left(i).idx = i
    BY <2>1
  <2>3. \A j : /\ [Left(i) EXCEPT !.idx = j].buf = Left(i).buf
               /\ [Left(i) EXCEPT !.idx = j].idx = j
    BY <2>1
  <2>4. QED
    BY <2>2, <2>3 DEF HistoryInv
<1>3. QED
  BY <1>1, <1>2

(* The history after an unchanged line has been left. *)
LEMMA KeptOK ==
  ASSUME HistoryInv, NEW i \in Boundaries(histbuf)
  PROVE  /\ HistoryOK(Kept(i).buf)
         /\ Kept(i).idx \in Boundaries(Kept(i).buf)
         /\ \A j : /\ [Kept(i) EXCEPT !.idx = j].buf = Kept(i).buf
                   /\ [Kept(i) EXCEPT !.idx = j].idx = j
  BY DEF Kept, HistoryInv

(* The empty line is a line. *)
LEMMA EmptyLine ==
  << >> \in Seq(Char) /\ Len(<< >>) < LineSize
<1>1. << >> \in Seq(Char) /\ Len(<< >>) = 0
  BY EmptySeq
<1>2. 0 < LineSize
  BY ReadlineConstantsOK
<1>3. QED
  BY <1>1, <1>2

(* The key that goes to an older line. *)
LEMMA HistUpStep ==
  ASSUME LineInv, hist_up
  PROVE  BufferOK' /\ HistoryInv' /\ UnchangedIsRetrieved' /\ ScreenOK'
<1> DEFINE s == Left(hist_idx)
           i == PrevIdx(s.buf, s.idx)
           e == << >>
<1>1. phase = "key" /\ phase' = phase /\ UNCHANGED echo_mode
  BY DEF hist_up, ArrowKey, Key, cli_linevars
<1>2. BufferOK /\ HistoryInv /\ hist_idx \in Boundaries(histbuf)
  BY DEF LineInv, HistoryInv
<1>3. Displays(screen, tty_buf, tty_cur)
  BY <1>1 DEF LineInv, ScreenOK
<1>4. /\ HistoryOK(s.buf)
      /\ s.idx \in Boundaries(s.buf)
      /\ \A j : /\ [s EXCEPT !.idx = j].buf = s.buf
                /\ [s EXCEPT !.idx = j].idx = j
  BY <1>2, LeftOK
<1>5. \/ Beep
      \/ Show(e, s)
      \/ s.idx # 0 /\ Show(LineAt(s.buf, i), [s EXCEPT !.idx = i])
  BY DEF hist_up
<1>6. e \in Seq(Char) /\ Len(e) < LineSize /\ e = << >>
  BY EmptyLine
<1> HIDE DEF s, e
<1>7. CASE Beep
  BY <1>1, <1>7, BeepStep
<1>8. CASE Show(e, s)
  <2>1. /\ BufferOK' /\ HistoryInv' /\ UnchangedIsRetrieved'
        /\ Displays(screen, tty_buf, tty_cur)'
    BY <1>1, <1>2, <1>3, <1>4, <1>6, <1>8, ShowStep
  <2>2. QED
    BY <1>1, <2>1 DEF ScreenOK
<1>9. CASE s.idx # 0 /\ Show(LineAt(s.buf, i), [s EXCEPT !.idx = i])
  <2> DEFINE h == [s EXCEPT !.idx = i]
             l == LineAt(s.buf, i)
  <2>1. i \in Boundaries(s.buf) /\ i < s.idx
    BY <1>4, <1>9, PrevIdxProps
  <2>2. i # Len(s.buf)
    <3>1. s.buf \in Seq(Byte) /\ Len(s.buf) \in Nat
      BY <1>4, LenProperties DEF HistoryOK
    <3>2. s.idx \in 0 .. Len(s.buf) /\ i \in 0 .. Len(s.buf)
      BY <1>4, <2>1, <3>1, BoundaryAt
    <3> HIDE DEF i
    <3>3. QED
      BY <2>1, <3>1, <3>2
  <2>3. l \in Seq(Char) /\ Len(l) < LineSize
    BY <1>4, <2>1, <2>2, LineAtProps
  <2>4. h.buf = s.buf /\ h.idx = i
    BY <1>4
  <2>5. l = LineAt(h.buf, h.idx) /\ h.idx # Len(h.buf)
        /\ HistoryOK(h.buf) /\ h.idx \in Boundaries(h.buf)
    BY <1>4, <2>1, <2>2, <2>4
  <2>6. Show(l, h)
    BY <1>9
  <2> HIDE DEF h, l, i
  <2>7. /\ BufferOK' /\ HistoryInv' /\ UnchangedIsRetrieved'
        /\ Displays(screen, tty_buf, tty_cur)'
    BY <1>1, <1>2, <1>3, <2>3, <2>5, <2>6, ShowStep
  <2>8. QED
    BY <1>1, <2>7 DEF ScreenOK
<1>10. QED
  BY <1>5, <1>7, <1>8, <1>9

(* The key that goes to a newer line. *)
LEMMA HistDownStep ==
  ASSUME LineInv, hist_down
  PROVE  BufferOK' /\ HistoryInv' /\ UnchangedIsRetrieved' /\ ScreenOK'
<1> DEFINE edited == changed /\ tty_buf # << >>
           n == NextIdx(histbuf, hist_idx)
           s == IF edited THEN Left(n) ELSE Kept(hist_idx)
           i == IF tty_buf = << >> THEN hist_idx ELSE NextIdx(s.buf, s.idx)
           l == IF i # Len(s.buf) THEN LineAt(s.buf, i) ELSE << >>
           m == Len(s.buf)
           e == << >>
<1>1. phase = "key" /\ phase' = phase /\ UNCHANGED echo_mode
  BY DEF hist_down, ArrowKey, Key, cli_linevars
<1>2. BufferOK /\ HistoryInv /\ hist_idx \in Boundaries(histbuf)
      /\ HistoryOK(histbuf)
  BY DEF LineInv, HistoryInv
<1>3. Displays(screen, tty_buf, tty_cur)
  BY <1>1 DEF LineInv, ScreenOK
<1>4. \/ Beep
      \/ Show(e, [s EXCEPT !.idx = m])
      \/ Show(l, [s EXCEPT !.idx = i])
  BY DEF hist_down
<1>5. n \in Boundaries(histbuf)
  BY <1>2, NextIsBoundary
<1>6. /\ HistoryOK(s.buf)
      /\ s.idx \in Boundaries(s.buf)
      /\ \A j : /\ [s EXCEPT !.idx = j].buf = s.buf
                /\ [s EXCEPT !.idx = j].idx = j
  <2> HIDE DEF n
  <2>1. CASE edited
    <3>1. s = Left(n)
      BY <2>1
    <3> HIDE DEF s
    <3>2. QED
      BY <1>2, <1>5, <3>1, LeftOK
  <2>2. CASE ~edited
    <3>1. s = Kept(hist_idx)
      BY <2>2
    <3> HIDE DEF s
    <3>2. QED
      BY <1>2, <3>1, KeptOK
  <2>3. QED
    BY <2>1, <2>2
<1>7. i \in Boundaries(s.buf)
  <2>1. CASE tty_buf = << >>
    <3>1. s = Kept(hist_idx) /\ i = hist_idx
      BY <2>1
    <3>2. s.buf = histbuf
      BY <3>1 DEF Kept
    <3> HIDE DEF s, i
    <3>3. QED
      BY <1>2, <3>1, <3>2
  <2>2. CASE tty_buf # << >>
    <3>1. i = NextIdx(s.buf, s.idx)
      BY <2>2
    <3> HIDE DEF s, i
    <3>2. QED
      BY <1>6, <3>1, NextIsBoundary
  <2>3. QED
    BY <2>1, <2>2
<1>8. e \in Seq(Char) /\ Len(e) < LineSize /\ e = << >>
  BY EmptyLine
<1>9. m \in Boundaries(s.buf)
  BY <1>6, EndIsBoundary
<1>10. /\ l \in Seq(Char) /\ Len(l) < LineSize
       /\ l = << >> \/ (i # Len(s.buf) /\ l = LineAt(s.buf, i))
  <2> HIDE DEF s, i
  <2>1. CASE i # Len(s.buf)
    <3>1. l = LineAt(s.buf, i)
      BY <2>1
    <3>2. LineAt(s.buf, i) \in Seq(Char) /\ Len(LineAt(s.buf, i)) < LineSize
      BY <1>6, <1>7, <2>1, LineAtProps
    <3> HIDE DEF l
    <3>3. QED
      BY <2>1, <3>1, <3>2
  <2>2. CASE i = Len(s.buf)
    <3>1. l = e
      BY <2>2
    <3> HIDE DEF l
    <3>2. QED
      BY <1>8, <3>1
  <2>3. QED
    BY <2>1, <2>2
<1> HIDE DEF s, i, l, m, e
<1>11. CASE Beep
  BY <1>1, <1>11, BeepStep
<1>12. CASE Show(e, [s EXCEPT !.idx = m])
  <2> DEFINE h == [s EXCEPT !.idx = m]
  <2>1. h.buf = s.buf /\ h.idx = m
    BY <1>6
  <2>2. HistoryOK(h.buf) /\ h.idx \in Boundaries(h.buf)
    BY <1>6, <1>9, <2>1
  <2>3. Show(e, h)
    BY <1>12
  <2> HIDE DEF h
  <2>4. /\ BufferOK' /\ HistoryInv' /\ UnchangedIsRetrieved'
        /\ Displays(screen, tty_buf, tty_cur)'
    BY <1>1, <1>2, <1>3, <1>8, <2>2, <2>3, ShowStep
  <2>5. QED
    BY <1>1, <2>4 DEF ScreenOK
<1>13. CASE Show(l, [s EXCEPT !.idx = i])
  <2> DEFINE h == [s EXCEPT !.idx = i]
  <2>1. h.buf = s.buf /\ h.idx = i
    BY <1>6
  <2>2. HistoryOK(h.buf) /\ h.idx \in Boundaries(h.buf)
    BY <1>6, <1>7, <2>1
  <2>3. l = << >> \/ (h.idx # Len(h.buf) /\ l = LineAt(h.buf, h.idx))
    BY <1>10, <2>1
  <2>4. Show(l, h)
    BY <1>13
  <2> HIDE DEF h
  <2>5. /\ BufferOK' /\ HistoryInv' /\ UnchangedIsRetrieved'
        /\ Displays(screen, tty_buf, tty_cur)'
    BY <1>1, <1>2, <1>3, <1>10, <2>2, <2>3, <2>4, ShowStep
  <2>6. QED
    BY <1>1, <2>5 DEF ScreenOK
<1>14. QED
  BY <1>4, <1>11, <1>12, <1>13

-----------------------------------------------------------------------------
(* Other keys, completion and command line *)

(* Control-C. *)
LEMMA CancelStep ==
  ASSUME LineInv, Cancel
  PROVE  BufferOK' /\ HistoryInv' /\ UnchangedIsRetrieved' /\ ScreenOK'
<1> DEFINE s == Left(hist_idx)
           e == << >>
<1>1. phase = "key" /\ phase' = phase /\ UNCHANGED echo_mode
  BY DEF Cancel, PlainKey, Key, cli_linevars
<1>2. /\ histbuf' = s.buf /\ hist_idx' = Len(s.buf)
      /\ tty_buf' = e /\ tty_cur' = 0 /\ changed' = FALSE
      /\ screen' = nk_puts(screen, << NL, Prompt >>)
  BY DEF Cancel
<1>3. HistoryOK(s.buf)
  BY LeftOK DEF LineInv, HistoryInv
<1>4. Shows(screen', e, 0) /\ Dark(screen')
  BY <1>2, CancelShows
<1>5. e \in Seq(Char) /\ Len(e) < LineSize /\ 0 \in 0 .. Len(e) /\ e = << >>
  BY EmptyLine, EmptySeq
<1> HIDE DEF s, e
<1>6. BufferOK'
  BY <1>2, <1>5 DEF BufferOK
<1>7. HistoryInv'
  BY <1>2, <1>3, EndIsBoundary DEF HistoryInv
<1>8. UnchangedIsRetrieved'
  BY <1>2, <1>5 DEF UnchangedIsRetrieved
<1>9. Displays(screen', e, 0)
  BY <1>4 DEF Displays
<1>10. Displays(screen, tty_buf, tty_cur)'
  BY <1>1, <1>2, <1>9 DEF Displays
<1>11. ScreenOK'
  BY <1>1, <1>10 DEF ScreenOK
<1>12. QED
  BY <1>6, <1>7, <1>8, <1>11

(* Return: the line goes to the history. *)
LEMMA EnterStep ==
  ASSUME LineInv, Enter
  PROVE  BufferOK' /\ HistoryInv' /\ UnchangedIsRetrieved' /\ ScreenOK'
<1>1. /\ phase = "key" /\ phase' = "call"
      /\ tty_buf' = tty_buf /\ tty_cur' = Len(tty_buf) /\ changed' = FALSE
      /\ histbuf' = EnteredHistory /\ hist_idx' = Len(histbuf')
      /\ screen' = nk_puts(screen, << NL >>)
  BY DEF Enter, Key
<1>2. /\ tty_buf \in Seq(Char) /\ Len(tty_buf) \in Nat
      /\ Len(tty_buf) < LineSize
      /\ HistoryOK(histbuf) /\ hist_idx \in Boundaries(histbuf)
  BY LenProperties DEF LineInv, BufferOK, HistoryInv
<1>3. HistoryOK(EnteredHistory)
  <2> DEFINE h == IF changed THEN histbuf ELSE hist_del(histbuf, hist_idx)
  <2>1. CASE tty_buf = << >>
    BY <1>2, <2>1 DEF EnteredHistory
  <2>2. CASE tty_buf # << >>
    <3>1. HistoryOK(h)
      <4>1. CASE changed
        BY <1>2, <4>1
      <4>2. CASE ~changed
        <5>1. hist_idx # Len(histbuf)
          BY <1>1, <2>2, <4>2 DEF LineInv, UnchangedIsRetrieved
        <5>2. HistoryOK(hist_del(histbuf, hist_idx))
          BY <1>2, <5>1, HistDelOK
        <5>3. QED
          BY <4>2, <5>2
      <4>3. QED
        BY <4>1, <4>2
    <3>2. EnteredHistory = hist_ins(h, Len(h), tty_buf).buf
      BY <2>2 DEF EnteredHistory
    <3> HIDE DEF h
    <3>3. Len(h) \in Boundaries(h)
      BY <3>1, EndIsBoundary
    <3>4. HistoryOK(hist_ins(h, Len(h), tty_buf).buf)
      BY <1>2, <3>1, <3>3, HistInsOK
    <3>5. QED
      BY <3>2, <3>4
  <2>3. QED
    BY <2>1, <2>2
<1>4. HistoryInv'
  BY <1>1, <1>3, EndIsBoundary DEF HistoryInv
<1>5. BufferOK'
  <2>1. Len(tty_buf) \in 0 .. Len(tty_buf)
    BY <1>2
  <2>2. QED
    BY <1>1, <1>2, <2>1 DEF BufferOK
<1>6. UnchangedIsRetrieved'
  BY <1>1 DEF UnchangedIsRetrieved
<1>7. Dark(screen')
  BY <1>1, NewLineDark
<1>8. ScreenOK'
  BY <1>1, <1>7 DEF ScreenOK
<1>9. QED
  BY <1>4, <1>5, <1>6, <1>8

(* The tab key hands the line to the completion. *)
LEMMA TabStep ==
  ASSUME LineInv, Tab
  PROVE  BufferOK' /\ HistoryInv' /\ UnchangedIsRetrieved' /\ ScreenOK'
<1>1. /\ phase = "key" /\ phase' = "tab"
      /\ UNCHANGED << tty_buf, tty_cur, changed, histbuf, hist_idx, echo_mode,
                      screen >>
  BY DEF Tab, Key, line_linevars, hist_linevars, cli_linevars
<1>2. BufferOK'
  BY <1>1 DEF LineInv, BufferOK
<1>3. HistoryInv'
  BY <1>1 DEF LineInv, HistoryInv
<1>4. UnchangedIsRetrieved'
  BY <1>1 DEF LineInv, UnchangedIsRetrieved
<1>5. ScreenOK'
  <2>1. Displays(screen, tty_buf, tty_cur)
    BY <1>1 DEF LineInv, ScreenOK
  <2>2. Displays(screen, tty_buf, tty_cur)'
    BY <1>1, <2>1 DEF Displays
  <2>3. QED
    BY <1>1, <2>2 DEF ScreenOK
<1>6. QED
  BY <1>2, <1>3, <1>4, <1>5

(* After the first tab the cursor is at the end of the line and the        *)
(* terminal shows it there.                                                 *)
LEMMA TabScreenShows ==
  ASSUME LineInv, phase = "tab"
  PROVE  TabCur \in 0 .. Len(tty_buf) /\ Displays(TabScreen, tty_buf, TabCur)
<1>1. /\ tty_buf \in Seq(Char) /\ Len(tty_buf) \in Nat
      /\ tty_cur \in 0 .. Len(tty_buf)
  BY LenProperties DEF LineInv, BufferOK
<1>2. Displays(screen, tty_buf, tty_cur)
  BY DEF LineInv, ScreenOK
<1>3. CASE ~Listed
  BY <1>1, <1>2, <1>3 DEF TabCur, TabScreen
<1>4. CASE Listed
  <2> DEFINE t == Echo(screen, << NL >>)
             u == IF Matches = {} THEN t ELSE nk_puts(t, << NL >>)
  <2>1. TabScreen = Echo(u, << Prompt >> \o tty_buf) /\ TabCur = Len(tty_buf)
    BY <1>4 DEF TabScreen, TabCur
  <2>2. Dark(t)
    BY <1>2, NewLineDark DEF Displays, Echo
  <2> HIDE DEF t
  <2>3. Dark(u)
    BY <2>2, NewLineDark
  <2> HIDE DEF u
  <2>4. Shows(nk_puts(u, << Prompt >> \o tty_buf), tty_buf, Len(tty_buf))
    BY <1>1, <2>3, ListingShows
  <2>5. Displays(TabScreen, tty_buf, TabCur)
    BY <2>1, <2>3, <2>4 DEF Displays, Echo
  <2>6. QED
    BY <1>1, <2>1, <2>5
<1>5. QED
  BY <1>3, <1>4

(* The completion goes on with a character. *)
LEMMA NextCharsOK ==
  ASSUME BufferOK
  PROVE  NextChars \subseteq Char
<1> SUFFICES ASSUME NEW c \in NextChars PROVE c \in Char
  OBVIOUS
<1>1. PICK n \in Matches :
        c = IF Len(n) > Len(tty_buf) THEN n[Len(tty_buf) + 1] ELSE Blank
  BY DEF NextChars
<1>2. n \in Visible \cup Hidden
  BY DEF Matches, Commands
<1>3. n \in Seq(Char \ {Blank}) /\ Blank \in Char
  BY <1>2, ReadlineConstantsOK
<1>4. Len(n) \in Nat /\ Len(tty_buf) \in Nat
  BY <1>3, LenProperties DEF BufferOK
<1>5. CASE Len(n) > Len(tty_buf)
  <2>1. Len(tty_buf) + 1 \in 1 .. Len(n)
    BY <1>4, <1>5
  <2>2. n[Len(tty_buf) + 1] \in Char \ {Blank}
    BY <1>3, <2>1, ElementOfSeq
  <2>3. QED
    BY <1>1, <1>5, <2>2
<1>6. CASE ~ (Len(n) > Len(tty_buf))
  BY <1>1, <1>3, <1>6
<1>7. QED
  BY <1>5, <1>6

(* The completion: none, several or one command. *)
LEMMA CompleteStep ==
  ASSUME LineInv, Complete
  PROVE  BufferOK' /\ HistoryInv' /\ UnchangedIsRetrieved' /\ ScreenOK'
<1>1. /\ phase = "tab" /\ phase' \in {"key", "tab"}
      /\ UNCHANGED << histbuf, hist_idx, echo_mode >>
  BY DEF Complete, CompleteNone, CompleteMany, CompleteOne, hist_linevars,
         cli_linevars
<1>2. TabCur \in 0 .. Len(tty_buf) /\ Displays(TabScreen, tty_buf, TabCur)
  BY <1>1, TabScreenShows
<1>3. HistoryInv'
  BY <1>1 DEF LineInv, HistoryInv
<1>4. /\ BufferOK' /\ UnchangedIsRetrieved'
      /\ Displays(screen, tty_buf, tty_cur)'
  <2>1. CASE CompleteNone \/ CompleteMany
    <3>1. /\ tty_cur' = TabCur /\ screen' = TabScreen
          /\ tty_buf' = tty_buf /\ changed' = changed
      BY <2>1 DEF CompleteNone, CompleteMany
    <3>2. BufferOK'
      BY <1>2, <3>1 DEF LineInv, BufferOK
    <3>3. UnchangedIsRetrieved'
      BY <1>1, <3>1 DEF LineInv, UnchangedIsRetrieved
    <3>4. Displays(screen, tty_buf, tty_cur)'
      BY <1>1, <1>2, <3>1 DEF Displays
    <3>5. QED
      BY <3>2, <3>3, <3>4
  <2>2. CASE CompleteOne
    <3>1. PICK c \in NextChars : typech(c, TabCur, TabScreen)
      BY <2>2 DEF CompleteOne
    <3>2. c \in Char
      BY NextCharsOK DEF LineInv
    <3>3. UNCHANGED << echo_mode, hist_linevars >>
      BY <1>1 DEF hist_linevars
    <3>4. BufferOK /\ UnchangedIsRetrieved /\ phase \in {"key", "tab"}
      BY <1>1 DEF LineInv
    <3> DEFINE cur == TabCur
               t == TabScreen
    <3>5. /\ cur \in 0 .. Len(tty_buf) /\ Displays(t, tty_buf, cur)
          /\ typech(c, cur, t)
      BY <1>2, <3>1
    <3> HIDE DEF cur, t
    <3>6. QED
      BY <3>2, <3>3, <3>4, <3>5, TypechStep
  <2>3. QED
    BY <2>1, <2>2 DEF Complete
<1>5. ScreenOK'
  BY <1>1, <1>4 DEF ScreenOK
<1>6. QED
  BY <1>3, <1>4, <1>5

(* nk_readline begins an empty line after the prompt. *)
LEMMA AskedLine ==
  ASSUME LineInv, nk_readline, UNCHANGED << echo_mode, hist_linevars >>
  PROVE  /\ BufferOK' /\ HistoryInv' /\ UnchangedIsRetrieved'
         /\ Displays(screen, tty_buf, tty_cur)'
         /\ Dark(screen) => Dark(screen')
<1> DEFINE e == << >>
<1>1. /\ tty_buf' = e /\ tty_cur' = 0 /\ changed' = FALSE
      /\ screen' = Echo(screen, << Prompt >>)
      /\ echo_mode' = echo_mode /\ histbuf' = histbuf /\ hist_idx' = hist_idx
  BY DEF nk_readline, hist_linevars
<1>2. OnRow(screen) /\ (~echo_mode => Dark(screen))
  BY ScreenOnRow DEF LineInv
<1>3. e \in Seq(Char) /\ Len(e) < LineSize /\ 0 \in 0 .. Len(e) /\ e = << >>
  BY EmptyLine, EmptySeq
<1>4. Shows(nk_puts(screen, << Prompt >>), e, 0)
  BY <1>2, ShowsPrompt
<1> HIDE DEF e
<1>5. BufferOK'
  BY <1>1, <1>3 DEF BufferOK
<1>6. HistoryInv'
  BY <1>1 DEF LineInv, HistoryInv
<1>7. UnchangedIsRetrieved'
  BY <1>1, <1>3 DEF UnchangedIsRetrieved
<1>8. Displays(screen', e, 0)
  BY <1>1, <1>2, <1>4 DEF Displays, Echo
<1>9. Displays(screen, tty_buf, tty_cur)'
  BY <1>1, <1>8 DEF Displays
<1>10. Dark(screen) => Dark(screen')
  BY <1>1, PromptAfterDark DEF Echo
<1>11. QED
  BY <1>5, <1>6, <1>7, <1>9, <1>10

(* The steps of the command line: a command ends, echo is switched, the    *)
(* command line is disabled or enabled.                                     *)
LEMMA CommandLineStep ==
  ASSUME LineInv, handle_cmd \/ nk_set_echo \/ nk_cli_disable \/ nk_cli_enable
  PROVE  BufferOK' /\ HistoryInv' /\ UnchangedIsRetrieved' /\ ScreenOK'
<1>1. CASE handle_cmd /\ cli_disabled
  <2>1. /\ phase = "call" /\ phase' = "off"
        /\ UNCHANGED << tty_buf, tty_cur, changed, histbuf, hist_idx, screen >>
    BY <1>1 DEF handle_cmd, line_linevars, hist_linevars
  <2>2. QED
    BY <2>1 DEF LineInv, BufferOK, HistoryInv, UnchangedIsRetrieved, ScreenOK
<1>2. CASE handle_cmd /\ ~cli_disabled
  <2>1. /\ phase' = "key" /\ nk_readline
        /\ UNCHANGED << echo_mode, hist_linevars >>
    BY <1>2 DEF handle_cmd, cli_linevars
  <2>2. /\ BufferOK' /\ HistoryInv' /\ UnchangedIsRetrieved'
        /\ Displays(screen, tty_buf, tty_cur)'
    BY <2>1, AskedLine
  <2>3. QED
    BY <2>1, <2>2 DEF ScreenOK
<1>3. CASE nk_set_echo
  <2>1. /\ phase = "call" /\ phase' = phase
        /\ UNCHANGED << tty_buf, tty_cur, changed, histbuf, hist_idx, screen >>
    BY <1>3 DEF nk_set_echo, line_linevars, hist_linevars
  <2>2. QED
    BY <2>1 DEF LineInv, BufferOK, HistoryInv, UnchangedIsRetrieved, ScreenOK
<1>4. CASE nk_cli_disable
  <2>1. UNCHANGED << tty_buf, tty_cur, changed, histbuf, hist_idx, screen,
                     echo_mode, phase >>
    BY <1>4 DEF nk_cli_disable, line_linevars, hist_linevars
  <2>2. BufferOK' /\ HistoryInv' /\ UnchangedIsRetrieved'
    BY <2>1 DEF LineInv, BufferOK, HistoryInv, UnchangedIsRetrieved
  <2>3. ScreenOK'
    BY <2>1 DEF LineInv, ScreenOK, Displays
  <2>4. QED
    BY <2>2, <2>3
<1>5. CASE nk_cli_enable
  <2>1. /\ phase \in {"key", "call", "off"} => phase' \in {"key", "call"}
        /\ phase' = "call" => phase = "call"
        /\ phase' \in {"key", "call"}
        /\ nk_readline /\ UNCHANGED << echo_mode, hist_linevars >>
    BY <1>5 DEF nk_cli_enable
  <2>2. /\ BufferOK' /\ HistoryInv' /\ UnchangedIsRetrieved'
        /\ Displays(screen, tty_buf, tty_cur)'
        /\ Dark(screen) => Dark(screen')
    BY <2>1, AskedLine
  <2>3. phase' = "call" => Dark(screen')
    BY <2>1, <2>2 DEF LineInv, ScreenOK
  <2>4. ScreenOK'
    BY <2>1, <2>2, <2>3 DEF ScreenOK
  <2>5. QED
    BY <2>2, <2>4
<1>6. QED
  BY <1>1, <1>2, <1>3, <1>4, <1>5

-----------------------------------------------------------------------------
(* The theorems *)

(* The invariant holds when the command line has been set up. *)
LEMMA LineInvInit == LineInit => LineInv
<1> SUFFICES ASSUME LineInit PROVE LineInv
  OBVIOUS
<1> DEFINE e == << >>
<1>1. /\ tty_buf = e /\ tty_cur = 0 /\ changed = FALSE /\ histbuf = e
      /\ hist_idx = 0 /\ phase = "call"
  BY DEF LineInit
<1>a. screen = At(e, 0, TRUE)
  BY DEF LineInit, At
<1>b. e \in Seq(Char)
  BY EmptySeq
<1>c. e \in Seq(Byte)
  BY EmptySeq
<1>d. Len(e) = 0
  BY EmptySeq
<1>e. e = << >>
  OBVIOUS
<1>2. /\ e \in Seq(Char) /\ e \in Seq(Byte) /\ Len(e) = 0 /\ e = << >>
  BY <1>b, <1>c, <1>d, <1>e
<1>3. FlagsOK
  <2>1. /\ echo_mode \in BOOLEAN /\ cli_disabled \in BOOLEAN
        /\ mode = 0 /\ tab_count = 0
    BY DEF LineInit
  <2>2. mode \in 0 .. 2 /\ tab_count \in 0 .. 2
    BY <2>1
  <2>3. QED
    BY <1>1, <2>1, <2>2 DEF FlagsOK
<1>4. BufferOK
  <2>1. Len(e) < LineSize /\ 0 \in 0 .. Len(e)
    BY <1>d, ReadlineConstantsOK
  <2>2. QED
    BY <1>1, <1>b, <2>1 DEF BufferOK
<1>5. HistoryInv
  <2>1. HistoryOK(e)
    BY <1>2, ReadlineConstantsOK DEF HistoryOK
  <2>2. 0 \in Boundaries(e)
    BY DEF Boundaries
  <2>3. QED
    BY <1>1, <2>1, <2>2 DEF HistoryInv
<1>6. UnchangedIsRetrieved
  BY <1>1, <1>2 DEF UnchangedIsRetrieved
<1>7. ScreenOK
  <2>1. screen.row = e /\ screen.col = 0
    BY <1>a DEF At
  <2>2. OnRow(screen)
    <3>1. screen \in Terminal
      BY <1>a, <1>b DEF Terminal, At
    <3>2. QED
      BY <1>d, <2>1, <3>1 DEF OnRow
  <2>3. QED
    BY <1>1, <1>2, <2>1, <2>2 DEF ScreenOK, Dark
<1>8. QED
  BY <1>3, <1>4, <1>5, <1>6, <1>7 DEF LineInv

(* Every key, completion and command keeps the invariant. *)
LEMMA LineInvStep == LineInv /\ [LineNext]_linevars => LineInv'
<1> SUFFICES ASSUME LineInv, [LineNext]_linevars PROVE LineInv'
  OBVIOUS
<1>1. CASE LineNext
  <2>1. FlagsOK'
    BY <1>1, FlagsStep DEF LineInv
  <2>2. BufferOK' /\ HistoryInv' /\ UnchangedIsRetrieved' /\ ScreenOK'
    BY <1>1, EditingKeys, HistUpStep, HistDownStep, CancelStep, EnterStep,
       TabStep, CompleteStep, CommandLineStep
      DEF LineNext, KeyStep
  <2>3. QED
    BY <2>1, <2>2 DEF LineInv
<1>2. CASE UNCHANGED linevars
  BY <1>2 DEF linevars, LineInv, FlagsOK, BufferOK, HistoryInv,
     UnchangedIsRetrieved, ScreenOK, Displays
<1>3. QED
  BY <1>1, <1>2

(***************************************************************************)
(* The line editor keeps its invariant: the line, the history and what the *)
(* terminal shows fit together after any sequence of keys and commands.    *)
(***************************************************************************)
THEOREM LineInvariant == LineSpec => []LineInv
<1>1. QED
  BY LineInvInit, LineInvStep, PTL DEF LineSpec

(***************************************************************************)
(* Line, cursor, history and row stay within their buffers                 *)
(* (nkreadline.c: tty_buf, tty_cur, histbuf, hist_idx).                    *)
(***************************************************************************)
THEOREM LineTypeCorrect == LineSpec => []LineTypeOK
<1>1. LineInv => LineTypeOK
  <2> SUFFICES ASSUME LineInv PROVE LineTypeOK
    OBVIOUS
  <2>1. /\ tty_buf \in Seq(Char) /\ Len(tty_buf) < LineSize
        /\ tty_cur \in 0 .. Len(tty_buf) /\ changed \in BOOLEAN
        /\ Len(tty_buf) \in Nat
    BY LenProperties DEF LineInv, BufferOK
  <2>2. /\ histbuf \in Seq(Char \cup {Nul}) /\ Len(histbuf) <= HistSize
        /\ hist_idx \in 0 .. Len(histbuf)
    <3>1. histbuf \in Seq(Byte) /\ Len(histbuf) <= HistSize
      BY DEF LineInv, HistoryInv, HistoryOK
    <3>2. hist_idx \in 0 .. Len(histbuf)
      BY <3>1, BoundaryAt DEF LineInv, HistoryInv
    <3>3. QED
      BY <3>1, <3>2 DEF Byte
  <2>3. /\ echo_mode \in BOOLEAN /\ mode \in 0 .. 2 /\ tab_count \in 0 .. 2
        /\ phase \in {"key", "tab", "call", "off"} /\ cli_disabled \in BOOLEAN
    BY DEF LineInv, FlagsOK
  <2>4. screen.row \in Seq(Char) /\ screen.clean \in BOOLEAN
    BY ScreenOnRow, TerminalIsAt DEF LineInv, OnRow
  <2>5. screen.col \in 0 .. LineSize - 1
    <3>1. screen.col = tty_cur \/ screen.col = 0
      BY <2>3 DEF LineInv, ScreenOK, Displays, Shows, Dark
    <3>2. QED
      BY <2>1, <3>1, ReadlineConstantsOK
  <2>6. QED
    BY <2>1, <2>2, <2>3, <2>4, <2>5 DEF LineTypeOK
<1>2. QED
  BY <1>1, LineInvariant, PTL

(***************************************************************************)
(* While a line is edited the terminal shows it with the cursor in its     *)
(* place, or nothing when echo is off: what typech, delch, the movements,  *)
(* the history keys and the completion send adds up to the line.           *)
(***************************************************************************)
THEOREM TerminalShowsLine == LineSpec => []ScreenShowsLine
<1>1. LineInv => ScreenShowsLine
  <2> SUFFICES ASSUME LineInv, phase = "key"
               PROVE  IF echo_mode
                        THEN /\ \A k \in 1 .. Len(tty_buf) :
                                  Cell(screen, k) = tty_buf[k]
                             /\ screen.col = tty_cur
                             /\ screen.clean =>
                                  \A k \in Len(tty_buf) + 1
                                           .. Len(screen.row) :
                                    screen.row[k] = Blank
                        ELSE screen.row = << >> /\ screen.col = 0
    BY DEF ScreenShowsLine
  <2>1. Displays(screen, tty_buf, tty_cur)
    BY DEF LineInv, ScreenOK
  <2>2. CASE echo_mode
    <3>1. Shows(screen, tty_buf, tty_cur)
      BY <2>1, <2>2 DEF Displays
    <3>2. ASSUME NEW k \in 1 .. Len(tty_buf)
          PROVE  Cell(screen, k) = tty_buf[k]
      <4>1. Len(tty_buf) \in Nat /\ Len(screen.row) \in Nat
        BY <3>1, LenProperties DEF LineInv, BufferOK, Shows, OnRow, Terminal
      <4>2. k <= Len(screen.row) /\ screen.row[k] = tty_buf[k]
        BY <3>1, <4>1 DEF Shows
      <4>3. QED
        BY <4>2 DEF Cell
    <3>3. QED
      BY <2>2, <3>1, <3>2 DEF Shows
  <2>3. CASE ~echo_mode
    BY <2>1, <2>3 DEF Displays, Dark
  <2>4. QED
    BY <2>2, <2>3
<1>2. QED
  BY <1>1, LineInvariant, PTL

(***************************************************************************)
(* A line that counts as not edited is empty or the history's line at      *)
(* hist_idx, which is therefore the one that hist_del takes out when Enter *)
(* moves it to the end.                                                    *)
(***************************************************************************)
THEOREM RetrievedIsUnchanged == LineSpec => []UnchangedIsRetrieved
<1>1. LineInv => UnchangedIsRetrieved
  BY DEF LineInv
<1>2. QED
  BY <1>1, LineInvariant, PTL

(***************************************************************************)
(* Unless it was disabled, the command line is waiting for a key, for a    *)
(* completion or for a command to end: no path leaves it without a         *)
(* readline.                                                               *)
(***************************************************************************)
THEOREM AlwaysListens == LineSpec => []CliListens
<1>1. LineInit => CliListens
  BY DEF LineInit, CliListens
<1>2. CliListens /\ [LineNext]_linevars => CliListens'
  <2> SUFFICES ASSUME CliListens, [LineNext]_linevars PROVE CliListens'
    OBVIOUS
  <2> USE DEF CliListens
  <2>1. CASE KeyStep
    <3>1. Key
      BY <2>1 DEF KeyStep, Typed, Rubout, DeleteAtCursor, to_end, to_beg,
         cur_left, cur_right, Escape, Unknown, hist_up, hist_down, Cancel,
         Enter, Help, Tab, PlainKey, ArrowKey
    <3>2. phase' \in {phase, "call", "tab"}
      BY <2>1 DEF KeyStep, Typed, Rubout, DeleteAtCursor, to_end, to_beg,
         cur_left, cur_right, Escape, Unknown, hist_up, hist_down, Cancel,
         Enter, Help, Tab, PlainKey, ArrowKey
    <3>3. QED
      BY <3>1, <3>2 DEF Key, cli_linevars
  <2>2. CASE Complete
    BY <2>2 DEF Complete, CompleteNone, CompleteMany, CompleteOne
  <2>3. CASE handle_cmd
    BY <2>3 DEF handle_cmd, cli_linevars
  <2>4. CASE nk_set_echo
    BY <2>4 DEF nk_set_echo
  <2>5. CASE nk_cli_disable
    BY <2>5 DEF nk_cli_disable
  <2>6. CASE nk_cli_enable
    BY <2>6 DEF nk_cli_enable
  <2>7. CASE UNCHANGED linevars
    BY <2>7 DEF linevars
  <2>8. QED
    BY <2>1, <2>2, <2>3, <2>4, <2>5, <2>6, <2>7 DEF LineNext
<1>3. QED
  BY <1>1, <1>2, PTL DEF LineSpec

-----------------------------------------------------------------------------
(* The bytes of the history and the lines of the editor *)

(* f[k] is the number of bytes that the first k lines of ls take. *)
Counts(f, ls) ==
  /\ f \in [0 .. Len(ls) -> Nat] /\ f[0] = 0
  /\ \A k \in 1 .. Len(ls) : f[k] = f[k - 1] + Len(ls[k]) + 1

(* The bytes h are the lines ls, one after the other, each with its Nul. *)
Holds(h, ls, f) ==
  /\ h \in Seq(Byte) /\ ls \in Seq(Seq(Char))
  /\ Counts(f, ls) /\ Len(h) = f[Len(ls)]
  /\ \A k \in 1 .. Len(ls) :
       /\ h[f[k]] = Nul
       /\ \A i \in 1 .. Len(ls[k]) : h[f[k - 1] + i] = ls[k][i]

(* A later line begins further on. *)
LEMMA CountsGrow ==
  ASSUME NEW ls \in Seq(Seq(Char)), NEW f, Counts(f, ls),
         NEW m \in 0 .. Len(ls), NEW n \in 0 .. Len(ls), m < n
  PROVE  f[m] < f[n]
<1> DEFINE S == {d \in Nat : m + d + 1 > Len(ls) \/ f[m] < f[m + d + 1]}
<1>1. Len(ls) \in Nat /\ m \in Nat /\ n \in Nat
  BY LenProperties
<1>2. \A k \in 1 .. Len(ls) :
        /\ k - 1 \in 0 .. Len(ls) /\ k \in 0 .. Len(ls)
        /\ f[k] \in Nat /\ f[k - 1] \in Nat /\ f[k - 1] < f[k]
  <2>1. ASSUME NEW k \in 1 .. Len(ls)
        PROVE  /\ k - 1 \in 0 .. Len(ls) /\ k \in 0 .. Len(ls)
               /\ f[k] \in Nat /\ f[k - 1] \in Nat /\ f[k - 1] < f[k]
    <3>1. k - 1 \in 0 .. Len(ls) /\ k \in 0 .. Len(ls)
      BY <1>1, <2>1
    <3>2. f[k] \in Nat /\ f[k - 1] \in Nat
      BY <3>1 DEF Counts
    <3>3. ls[k] \in Seq(Char)
      BY <2>1, ElementOfSeq
    <3>4. Len(ls[k]) \in Nat
      BY <3>3, LenProperties
    <3>5. f[k] = f[k - 1] + Len(ls[k]) + 1
      BY <2>1 DEF Counts
    <3>6. QED
      BY <3>1, <3>2, <3>4, <3>5
  <2>2. QED
    BY <2>1
<1>3. 0 \in S
  <2>1. CASE m + 1 > Len(ls)
    BY <1>1, <2>1
  <2>2. CASE ~ (m + 1 > Len(ls))
    <3>1. m + 1 \in 1 .. Len(ls) /\ m + 1 - 1 = m
      BY <1>1, <2>2
    <3>2. f[m] < f[m + 1]
      BY <1>2, <3>1
    <3>3. QED
      BY <1>1, <3>2
  <2>3. QED
    BY <2>1, <2>2
<1>4. ASSUME NEW d \in Nat, d \in S PROVE d + 1 \in S
  <2>1. CASE m + (d + 1) + 1 > Len(ls)
    BY <2>1
  <2>2. CASE ~ (m + (d + 1) + 1 > Len(ls))
    <3> DEFINE k == m + (d + 1) + 1
    <3>1. k \in 1 .. Len(ls) /\ k - 1 = m + d + 1 /\ ~ (m + d + 1 > Len(ls))
      BY <1>1, <2>2
    <3>2. f[m] < f[k - 1]
      BY <1>4, <3>1
    <3> HIDE DEF k
    <3>3. f[k - 1] < f[k] /\ f[k] \in Nat /\ f[k - 1] \in Nat
      BY <1>2, <3>1
    <3>4. f[m] \in Nat
      BY DEF Counts
    <3>5. f[m] < f[k]
      BY <3>2, <3>3, <3>4
    <3>6. QED
      BY <3>5 DEF k
  <2>3. QED
    BY <2>1, <2>2
<1> HIDE DEF S
<1>5. Nat \subseteq S
  BY <1>3, <1>4, NatInductive
<1>6. n - m - 1 \in S /\ m + (n - m - 1) + 1 = n
  BY <1>1, <1>5
<1>7. QED
  BY <1>1, <1>6 DEF S

(* Every byte belongs to a line. *)
LEMMA CountsWhere ==
  ASSUME NEW ls \in Seq(Seq(Char)), NEW f, Counts(f, ls),
         NEW j \in 1 .. f[Len(ls)]
  PROVE  \E k \in 1 .. Len(ls) :
           f[k - 1] < j /\ j <= f[k] /\ j - f[k - 1] \in 1 .. Len(ls[k]) + 1
<1> DEFINE T == {k \in 0 .. Len(ls) : j <= f[k]}
<1>1. Len(ls) \in Nat /\ \A k \in 0 .. Len(ls) : f[k] \in Nat
  BY LenProperties DEF Counts
<1>2. Len(ls) \in T /\ T \in SUBSET Nat
  <2>1. Len(ls) \in 0 .. Len(ls) /\ f[Len(ls)] \in Nat
    BY <1>1
  <2>2. QED
    BY <1>1, <2>1
<1>3. PICK k \in T : \A y \in T : k <= y
  BY <1>2, NatLeast
<1>4. k # 0
  <2>1. f[0] = 0
    BY DEF Counts
  <2>2. QED
    BY <1>1, <1>3, <2>1
<1>5. k \in 1 .. Len(ls) /\ k - 1 \in 0 .. Len(ls)
  BY <1>1, <1>3, <1>4
<1>6. k - 1 \notin T
  BY <1>3, <1>5
<1>7. f[k - 1] < j /\ j <= f[k]
  BY <1>1, <1>3, <1>5, <1>6
<1>8. f[k] = f[k - 1] + Len(ls[k]) + 1
  BY <1>5 DEF Counts
<1>9. Len(ls[k]) \in Nat
  <2>1. ls[k] \in Seq(Char)
    BY <1>5, ElementOfSeq
  <2>2. QED
    BY <2>1, LenProperties
<1>10. j - f[k - 1] \in 1 .. Len(ls[k]) + 1
  <2>1. f[k - 1] \in Nat /\ f[k] \in Nat
    BY <1>1, <1>5
  <2> DEFINE x == f[k - 1]
             y == f[k]
             n == Len(ls[k])
  <2>2. j \in Int
    <3>1. f[Len(ls)] \in Nat
      BY <1>1
    <3>2. QED
      BY <3>1
  <2>3. x \in Nat /\ y \in Nat /\ n \in Nat /\ x < j /\ j <= y /\ y = x + n + 1
    BY <1>7, <1>8, <1>9, <2>1
  <2> HIDE DEF x, y, n
  <2>4. j - x \in 1 .. n + 1
    BY <2>2, <2>3
  <2>5. QED
    BY <2>4 DEF x, n
<1>11. QED
  BY <1>5, <1>7, <1>10

(* Bytes of the editor counts so. *)
LEMMA BytesCount ==
  ASSUME NEW ls \in Seq(Seq(Char)), NEW f, Counts(f, ls)
  PROVE  \A k \in 0 .. Len(ls) : Editor!Bytes(ls)[k] = f[k]
<1> DEFINE e(h) == [k \in 0 .. Len(ls) |->
                      IF k = 0 THEN 0 ELSE h[k - 1] + Len(ls[k]) + 1]
           g == CHOOSE h : h = e(h)
           S == {k \in Nat : k > Len(ls) \/ g[k] = f[k]}
<1>0. Len(ls) \in Nat
  BY LenProperties
<1>1. f = e(f)
  <2>1. ASSUME NEW k \in 0 .. Len(ls)
        PROVE  f[k] = IF k = 0 THEN 0 ELSE f[k - 1] + Len(ls[k]) + 1
    <3>1. CASE k = 0
      BY <3>1 DEF Counts
    <3>2. CASE k # 0
      <4>1. k \in 1 .. Len(ls)
        BY <1>0, <2>1, <3>2
      <4>2. QED
        BY <3>2, <4>1 DEF Counts
    <3>3. QED
      BY <3>1, <3>2
  <2>2. f = [k \in 0 .. Len(ls) |-> f[k]]
    BY DEF Counts
  <2>3. QED
    BY <2>1, <2>2
<1>2. g = e(g)
  BY <1>1
<1>3. Editor!Bytes(ls) = g
  BY DEF Editor!Bytes
<1> HIDE DEF g
<1>4. 0 \in S
  <2>1. g[0] = 0
    BY <1>0, <1>2
  <2>2. f[0] = 0
    BY DEF Counts
  <2>3. QED
    BY <2>1, <2>2
<1>5. ASSUME NEW k \in Nat, k \in S PROVE k + 1 \in S
  <2>1. CASE k + 1 > Len(ls)
    BY <2>1
  <2>2. CASE ~ (k + 1 > Len(ls))
    <3>1. /\ k + 1 \in 0 .. Len(ls) /\ k + 1 \in 1 .. Len(ls) /\ k + 1 # 0
          /\ k + 1 - 1 = k /\ ~ (k > Len(ls))
      BY <1>0, <2>2
    <3>2. g[k + 1] = g[k] + Len(ls[k + 1]) + 1
      BY <1>2, <3>1
    <3>3. f[k + 1] = f[k] + Len(ls[k + 1]) + 1
      BY <1>1, <3>1
    <3>4. g[k] = f[k]
      BY <1>5, <3>1
    <3>5. QED
      BY <3>2, <3>3, <3>4
  <2>3. QED
    BY <2>1, <2>2
<1> HIDE DEF S
<1>6. Nat \subseteq S
  BY <1>4, <1>5, NatInductive
<1>7. QED
  BY <1>0, <1>3, <1>6 DEF S

(* The length of a line of the history. *)
LEMMA LineLength ==
  ASSUME NEW h, NEW ls, NEW f, Holds(h, ls, f), NEW k \in 1 .. Len(ls)
  PROVE  /\ Len(ls) \in Nat /\ Len(h) \in Nat
         /\ ls[k] \in Seq(Char) /\ Len(ls[k]) \in Nat
         /\ f[k - 1] \in Nat /\ f[k] \in Nat
         /\ f[k] = f[k - 1] + Len(ls[k]) + 1 /\ f[k] <= Len(h)
<1>1. Len(ls) \in Nat /\ Len(h) \in Nat
  BY LenProperties DEF Holds
<1>2. ls[k] \in Seq(Char) /\ Len(ls[k]) \in Nat
  <2>1. ls[k] \in Seq(Char)
    BY ElementOfSeq DEF Holds
  <2>2. QED
    BY <2>1, LenProperties
<1>3. k - 1 \in 0 .. Len(ls) /\ k \in 0 .. Len(ls)
  BY <1>1
<1>4. f[k - 1] \in Nat /\ f[k] \in Nat
  BY <1>3 DEF Holds, Counts
<1>5. f[k] = f[k - 1] + Len(ls[k]) + 1
  BY DEF Holds, Counts
<1>6. f[k] <= Len(h)
  <2>1. CASE k = Len(ls)
    BY <1>1, <2>1 DEF Holds
  <2>2. CASE k # Len(ls)
    <3>1. Len(ls) \in 0 .. Len(ls) /\ k < Len(ls)
      BY <1>1, <2>2
    <3>2. f[k] < f[Len(ls)]
      BY <1>3, <3>1, CountsGrow DEF Holds
    <3>3. Len(h) = f[Len(ls)]
      BY DEF Holds
    <3>4. QED
      BY <1>1, <1>4, <3>2, <3>3
  <2>3. QED
    BY <2>1, <2>2
<1>7. QED
  BY <1>1, <1>2, <1>4, <1>5, <1>6

(* The boundaries are where the lines begin, and the end. *)
LEMMA HoldsBoundaries ==
  ASSUME NEW h, NEW ls, NEW f, Holds(h, ls, f)
  PROVE  Boundaries(h) = {f[k] : k \in 0 .. Len(ls)}
<1>1. Len(ls) \in Nat /\ Len(h) \in Nat /\ h \in Seq(Byte)
  BY LenProperties DEF Holds
<1>2. ASSUME NEW k \in 0 .. Len(ls) PROVE f[k] \in Boundaries(h)
  <2>1. CASE k = 0
    BY <2>1 DEF Boundaries, Holds, Counts
  <2>2. CASE k # 0
    <3>1. k \in 1 .. Len(ls)
      BY <1>1, <1>2, <2>2
    <3>2. f[k] \in Nat /\ f[k] <= Len(h)
      BY <3>1, LineLength
    <3>3. h[f[k]] = Nul
      BY <3>1 DEF Holds
    <3>4. f[k] \in 0 .. Len(h)
      BY <1>1, <3>2
    <3>5. QED
      BY <1>1, <3>3, <3>4, BoundaryAt
  <2>3. QED
    BY <2>1, <2>2
<1>3. ASSUME NEW j \in Boundaries(h) PROVE \E k \in 0 .. Len(ls) : j = f[k]
  <2>1. j \in 0 .. Len(h) /\ (j = 0 \/ h[j] = Nul)
    BY <1>1, <1>3, BoundaryAt
  <2>2. CASE j = 0
    <3>1. 0 \in 0 .. Len(ls) /\ f[0] = 0
      BY <1>1 DEF Holds, Counts
    <3>2. QED
      BY <2>2, <3>1
  <2>3. CASE j # 0
    <3>1. j \in 1 .. f[Len(ls)]
      <4>1. Len(h) = f[Len(ls)]
        BY DEF Holds
      <4>2. j \in 1 .. Len(h)
        BY <1>1, <2>1, <2>3
      <4>3. QED
        BY <4>1, <4>2
    <3>2. ls \in Seq(Seq(Char)) /\ Counts(f, ls)
      BY DEF Holds
    <3>3. PICK k \in 1 .. Len(ls) :
            f[k - 1] < j /\ j <= f[k] /\ j - f[k - 1] \in 1 .. Len(ls[k]) + 1
      BY <3>1, <3>2, CountsWhere
    <3> DEFINE i == j - f[k - 1]
               n == Len(ls[k])
               x == f[k - 1]
    <3>4. n \in Nat /\ x \in Nat /\ f[k] = x + n + 1 /\ ls[k] \in Seq(Char)
      BY <3>3, LineLength
    <3>5. j \in Nat
      BY <1>1, <2>1
    <3>6. i \in 1 .. n + 1 /\ i = j - x
      BY <3>3
    <3> HIDE DEF i, n, x
    <3>7. j = x + i
      BY <3>4, <3>5, <3>6
    <3>8. i = n + 1
      <4>1. SUFFICES ASSUME i # n + 1 PROVE FALSE
        OBVIOUS
      <4>2. i \in 1 .. n
        BY <3>4, <3>6, <4>1
      <4>3. h[x + i] = ls[k][i]
        BY <3>3, <4>2 DEF Holds, n, x
      <4>4. ls[k][i] \in Char
        BY <3>4, <4>2, ElementOfSeq DEF n
      <4>5. Nul \notin Char
        BY ReadlineConstantsOK
      <4>6. QED
        BY <2>1, <2>3, <3>7, <4>3, <4>4, <4>5
    <3>9. j = f[k] /\ k \in 0 .. Len(ls)
      BY <1>1, <3>3, <3>4, <3>7, <3>8
    <3>10. QED
      BY <3>9
  <2>4. QED
    BY <2>2, <2>3
<1>4. QED
  BY <1>2, <1>3

(* Where the next line begins. *)
LEMMA HoldsNext ==
  ASSUME NEW h, NEW ls, NEW f, Holds(h, ls, f), NEW k \in 1 .. Len(ls)
  PROVE  NextIdx(h, f[k - 1]) = f[k] /\ f[k - 1] # Len(h)
<1> DEFINE S == {j \in Boundaries(h) : j > f[k - 1]}
<1>1. Len(ls) \in Nat /\ f[k - 1] \in Nat /\ f[k] \in Nat
      /\ f[k - 1] < f[k] /\ f[k] <= Len(h) /\ Len(h) \in Nat
  BY LineLength
<1>2. Counts(f, ls) /\ ls \in Seq(Seq(Char))
  BY DEF Holds
<1>3. Boundaries(h) = {f[m] : m \in 0 .. Len(ls)}
  BY HoldsBoundaries
<1>4. \A m \in 0 .. Len(ls) : f[m] \in Nat
  BY <1>2 DEF Counts
<1>5. f[k] \in S
  <2>1. k \in 0 .. Len(ls)
    BY <1>1
  <2>2. QED
    BY <1>1, <1>3, <2>1
<1>6. \A j \in S : f[k] <= j
  <2>1. ASSUME NEW m \in 0 .. Len(ls), f[m] > f[k - 1]
        PROVE  f[k] <= f[m]
    <3>1. k \in 0 .. Len(ls) /\ k - 1 \in 0 .. Len(ls) /\ f[m] \in Nat
      BY <1>1, <1>4, <2>1
    <3>2. CASE m < k
      <4>1. m = k - 1 \/ m < k - 1
        BY <1>1, <2>1, <3>2
      <4>2. CASE m = k - 1
        BY <1>1, <2>1, <4>2
      <4>3. CASE m < k - 1
        <5>1. f[m] < f[k - 1]
          BY <1>2, <2>1, <3>1, <4>3, CountsGrow
        <5>2. QED
          BY <1>1, <2>1, <3>1, <5>1
      <4>4. QED
        BY <4>1, <4>2, <4>3
    <3>3. CASE m = k
      BY <1>1, <3>3
    <3>4. CASE m > k
      <4>1. f[k] < f[m]
        BY <1>2, <2>1, <3>1, <3>4, CountsGrow
      <4>2. QED
        BY <1>1, <3>1, <4>1
    <3>5. QED
      BY <1>1, <2>1, <3>2, <3>3, <3>4
  <2>2. QED
    BY <1>3, <2>1
<1>7. S \in SUBSET Nat
  BY <1>3, <1>4
<1>8. f[k - 1] # Len(h)
  BY <1>1
<1>9. NextIdx(h, f[k - 1]) = Min(S)
  BY <1>8 DEF NextIdx
<1> HIDE DEF S
<1> DEFINE n == Min(S)
<1>10. n \in S /\ n <= f[k]
  BY <1>5, <1>7, MinIn
<1>11. n \in Nat /\ f[k] <= n
  BY <1>6, <1>7, <1>10
<1> HIDE DEF n
<1>12. n = f[k]
  BY <1>1, <1>10, <1>11
<1>13. QED
  BY <1>8, <1>9, <1>12 DEF n

(* Where the line before begins. *)
LEMMA HoldsPrev ==
  ASSUME NEW h, NEW ls, NEW f, Holds(h, ls, f), NEW k \in 1 .. Len(ls)
  PROVE  PrevIdx(h, f[k]) = f[k - 1] /\ f[k] # 0
<1> DEFINE S == {j \in Boundaries(h) : j < f[k]}
<1>1. Len(ls) \in Nat /\ f[k - 1] \in Nat /\ f[k] \in Nat
      /\ f[k - 1] < f[k] /\ f[k] <= Len(h) /\ Len(h) \in Nat
  BY LineLength
<1>2. Counts(f, ls) /\ ls \in Seq(Seq(Char))
  BY DEF Holds
<1>3. Boundaries(h) = {f[m] : m \in 0 .. Len(ls)}
  BY HoldsBoundaries
<1>4. \A m \in 0 .. Len(ls) : f[m] \in Nat
  BY <1>2 DEF Counts
<1>5. f[k - 1] \in S
  <2>1. k - 1 \in 0 .. Len(ls)
    BY <1>1
  <2>2. QED
    BY <1>1, <1>3, <2>1
<1>6. \A j \in S : j <= f[k - 1]
  <2>1. ASSUME NEW m \in 0 .. Len(ls), f[m] < f[k]
        PROVE  f[m] <= f[k - 1]
    <3>1. k \in 0 .. Len(ls) /\ k - 1 \in 0 .. Len(ls) /\ f[m] \in Nat
      BY <1>1, <1>4, <2>1
    <3>2. CASE m >= k
      <4>1. m = k \/ k < m
        BY <1>1, <2>1, <3>2
      <4>2. f[k] <= f[m]
        BY <1>1, <1>2, <2>1, <3>1, <4>1, CountsGrow
      <4>3. QED
        BY <1>1, <2>1, <3>1, <4>2
    <3>3. CASE m = k - 1
      BY <1>1, <3>3
    <3>4. CASE m < k - 1
      <4>1. f[m] < f[k - 1]
        BY <1>2, <2>1, <3>1, <3>4, CountsGrow
      <4>2. QED
        BY <1>1, <3>1, <4>1
    <3>5. QED
      BY <1>1, <2>1, <3>2, <3>3, <3>4
  <2>2. QED
    BY <1>3, <2>1
<1>7. S \in SUBSET (0 .. f[k])
  BY <1>1, <1>3, <1>4
<1>8. PrevIdx(h, f[k]) = Max(S)
  BY DEF PrevIdx
<1> HIDE DEF S
<1> DEFINE n == Max(S)
<1>9. n \in S /\ n >= f[k - 1]
  BY <1>1, <1>5, <1>7, MaxIn
<1>10. n \in Nat /\ n <= f[k - 1]
  <2>1. n \in 0 .. f[k]
    BY <1>7, <1>9
  <2>2. n <= f[k - 1]
    BY <1>6, <1>9
  <2> HIDE DEF n
  <2>3. QED
    BY <1>1, <2>1, <2>2
<1> HIDE DEF n
<1>11. n = f[k - 1]
  BY <1>1, <1>9, <1>10
<1>12. QED
  BY <1>1, <1>8, <1>11 DEF n

(* The line that begins there. *)
LEMMA HoldsLine ==
  ASSUME NEW h, NEW ls, NEW f, Holds(h, ls, f), NEW k \in 1 .. Len(ls)
  PROVE  LineAt(h, f[k - 1]) = ls[k]
<1> DEFINE x == f[k - 1]
           y == f[k]
           l == ls[k]
           n == Len(l)
           s == SubSeq(h, x + 1, y - 1)
<1>1. /\ Len(h) \in Nat /\ l \in Seq(Char) /\ n \in Nat
      /\ x \in Nat /\ y \in Nat /\ y = x + n + 1 /\ y <= Len(h)
  BY LineLength
<1>2. LineAt(h, x) = s
  <2>1. NextIdx(h, x) = y
    BY HoldsNext
  <2> HIDE DEF x, y
  <2>2. QED
    BY <2>1 DEF LineAt
<1>3. h \in Seq(Byte) /\ \A i \in 1 .. n : h[x + i] = l[i]
  BY DEF Holds
<1> HIDE DEF x, y, n
<1>4. s \in Seq(Byte) /\ Len(s) = n /\ \A i \in 1 .. n : s[i] = h[x + i]
  <2> DEFINE a == x + 1
             b == y - 1
             c == SubSeq(h, a, b)
  <2>1. a \in 1 .. Len(h) + 1 /\ b \in a - 1 .. Len(h)
    BY <1>1
  <2>2. b - a + 1 = n /\ \A i \in 1 .. n : a + i - 1 = x + i
    BY <1>1
  <2> HIDE DEF a, b
  <2>3. /\ c \in Seq(Byte) /\ Len(c) = b - a + 1
        /\ \A i \in 1 .. b - a + 1 : c[i] = h[a + i - 1]
    BY <1>3, <2>1, SliceProps
  <2>4. c = s
    BY DEF a, b
  <2> HIDE DEF c, s
  <2>5. QED
    BY <2>2, <2>3, <2>4
<1> HIDE DEF s
<1>5. s = l
  <2>1. s \in [1 .. Len(s) -> Byte] /\ l \in [1 .. Len(l) -> Char]
    BY <1>1, <1>4, LenProperties
  <2>2. Len(s) = Len(l) /\ \A i \in 1 .. Len(l) : s[i] = l[i]
    BY <1>3, <1>4 DEF n
  <2> HIDE DEF l
  <2>3. QED
    BY <2>1, <2>2
<1>6. QED
  BY <1>2, <1>5 DEF x

(* The number of boundaries before the beginning of a line. *)
LEMMA HoldsBefore ==
  ASSUME NEW h, NEW ls, NEW f, Holds(h, ls, f), NEW k \in 0 .. Len(ls)
  PROVE  Cardinality({j \in Boundaries(h) : j < f[k]}) = k
<1> DEFINE S == {j \in Boundaries(h) : j < f[k]}
           g == [m \in 1 .. k |-> f[m - 1]]
<1>1. Len(ls) \in Nat
  BY LenProperties DEF Holds
<1>2. Counts(f, ls) /\ ls \in Seq(Seq(Char))
  BY DEF Holds
<1>3. Boundaries(h) = {f[m] : m \in 0 .. Len(ls)}
  BY HoldsBoundaries
<1>4. \A m \in 0 .. Len(ls) : f[m] \in Nat
  BY <1>2 DEF Counts
<1>5. \A m \in 0 .. Len(ls) : f[m] < f[k] <=> m < k
  <2>1. ASSUME NEW m \in 0 .. Len(ls) PROVE f[m] < f[k] <=> m < k
    <3>1. CASE m < k
      BY <1>2, <2>1, <3>1, CountsGrow
    <3>2. CASE m = k
      <4>1. f[k] \in Nat
        BY <1>4
      <4>2. QED
        BY <3>2, <4>1
    <3>3. CASE m > k
      <4>1. f[k] < f[m]
        BY <1>2, <2>1, <3>3, CountsGrow
      <4>2. f[k] \in Nat /\ f[m] \in Nat
        BY <1>4, <2>1
      <4>3. QED
        BY <1>1, <2>1, <3>3, <4>1, <4>2
    <3>4. QED
      BY <1>1, <2>1, <3>1, <3>2, <3>3
  <2>2. QED
    BY <2>1
<1>6. g \in Bijection(1 .. k, S)
  <2>1. \A m \in 1 .. k : m - 1 \in 0 .. Len(ls) /\ m - 1 < k
    BY <1>1
  <2>2. g \in [1 .. k -> S]
    BY <1>3, <1>5, <2>1
  <2>3. \A m, n \in 1 .. k : g[m] = g[n] => m = n
    <3>1. ASSUME NEW m \in 1 .. k, NEW n \in 1 .. k, m < n
          PROVE  g[m] # g[n]
      <4>1. m - 1 \in 0 .. Len(ls) /\ n - 1 \in 0 .. Len(ls) /\ m - 1 < n - 1
        BY <1>1, <3>1
      <4>2. f[m - 1] < f[n - 1]
        BY <1>2, <4>1, CountsGrow
      <4>3. f[m - 1] \in Nat /\ f[n - 1] \in Nat
        BY <1>4, <4>1
      <4>4. QED
        BY <4>2, <4>3
    <3> HIDE DEF g
    <3>2. ASSUME NEW m \in 1 .. k, NEW n \in 1 .. k, g[m] = g[n]
          PROVE  m = n
      BY <1>1, <3>1, <3>2
    <3>3. QED
      BY <3>2
  <2>4. \A j \in S : \E m \in 1 .. k : g[m] = j
    <3>1. ASSUME NEW j \in S PROVE \E m \in 1 .. k : g[m] = j
      <4>1. PICK m \in 0 .. Len(ls) : j = f[m] /\ m < k
        BY <1>3, <1>5, <3>1
      <4>2. m + 1 \in 1 .. k /\ m + 1 - 1 = m
        BY <1>1, <4>1
      <4>3. g[m + 1] = j
        BY <4>1, <4>2
      <4>4. QED
        BY <4>2, <4>3
    <3>2. QED
      BY <3>1
  <2> HIDE DEF g, S
  <2>5. QED
    BY <2>2, <2>3, <2>4 DEF Bijection, Injection, Surjection, IsInjective
<1> HIDE DEF g, S
<1>7. ExistsBijection(1 .. k, S)
  BY <1>6 DEF ExistsBijection
<1>8. k \in Nat
  BY <1>1
<1>9. Cardinality(S) = k
  BY <1>7, <1>8, FS_CountingElements
<1>10. QED
  BY <1>9 DEF S

(* The oldest lines go with their bytes. *)
LEMMA CutHolds ==
  ASSUME NEW h, NEW ls, NEW f, Holds(h, ls, f), NEW k \in 0 .. Len(ls)
  PROVE  LET g == [m \in 0 .. Len(ls) - k |-> f[m + k] - f[k]]
         IN  Holds(SubSeq(h, f[k] + 1, Len(h)), SubSeq(ls, k + 1, Len(ls)), g)
<1> DEFINE N == Len(ls)
           r == f[k]
           g == [m \in 0 .. N - k |-> f[m + k] - r]
           w == SubSeq(h, r + 1, Len(h))
           u == SubSeq(ls, k + 1, Len(ls))
<1>1. /\ N \in Nat /\ Len(h) \in Nat /\ k \in Nat /\ k <= N
      /\ h \in Seq(Byte) /\ ls \in Seq(Seq(Char)) /\ Counts(f, ls)
  BY LenProperties DEF Holds
<1>2. \A m \in 0 .. N : f[m] \in Nat
  BY <1>1 DEF Counts
<1>3. \A m \in 0 .. N : m >= k => f[m] >= r
  <2>1. ASSUME NEW m \in 0 .. N, m >= k PROVE f[m] >= r
    <3>1. CASE m = k
      BY <1>2, <3>1
    <3>2. CASE m > k
      <4>1. r < f[m]
        BY <1>1, <2>1, <3>2, CountsGrow
      <4>2. r \in Nat /\ f[m] \in Nat
        BY <1>2, <2>1
      <4>3. QED
        BY <4>1, <4>2
    <3>3. QED
      BY <1>1, <2>1, <3>1, <3>2
  <2>2. QED
    BY <2>1
<1>4. r \in Nat /\ r <= Len(h) /\ Len(h) = f[N]
  <2>1. N \in 0 .. N /\ N >= k
    BY <1>1
  <2>2. Len(h) = f[N]
    BY DEF Holds
  <2>3. f[N] >= r /\ r \in Nat
    BY <1>2, <1>3, <2>1
  <2>4. QED
    BY <1>1, <2>2, <2>3
<1>5. /\ u \in Seq(Seq(Char)) /\ Len(u) = N - k
      /\ \A m \in 1 .. N - k : u[m] = ls[m + k]
  <2> DEFINE a == k + 1
             b == Len(ls)
             c == SubSeq(ls, a, b)
  <2>1. a \in 1 .. Len(ls) + 1 /\ b \in a - 1 .. Len(ls)
    BY <1>1
  <2>2. b - a + 1 = N - k /\ \A i \in 1 .. N - k : a + i - 1 = i + k
    BY <1>1
  <2> HIDE DEF a, b
  <2>3. /\ c \in Seq(Seq(Char)) /\ Len(c) = b - a + 1
        /\ \A i \in 1 .. b - a + 1 : c[i] = ls[a + i - 1]
    BY <1>1, <2>1, SliceProps
  <2>4. c = u
    BY DEF a, b
  <2> HIDE DEF c, u, N
  <2>5. QED
    BY <2>2, <2>3, <2>4
<1>6. /\ w \in Seq(Byte) /\ Len(w) = Len(h) - r
      /\ \A m \in 1 .. Len(h) - r : w[m] = h[m + r]
  <2> HIDE DEF r
  <2> DEFINE a == r + 1
             b == Len(h)
             c == SubSeq(h, a, b)
  <2>1. a \in 1 .. Len(h) + 1 /\ b \in a - 1 .. Len(h)
    BY <1>1, <1>4
  <2>2. b - a + 1 = Len(h) - r
    <3>1. r \in Nat /\ Len(h) \in Nat
      BY <1>1, <1>4
    <3>2. QED
      BY <3>1
  <2>5. ASSUME NEW i \in 1 .. Len(h) - r PROVE a + i - 1 = i + r
    BY <1>1, <1>4
  <2> HIDE DEF a, b
  <2>3. /\ c \in Seq(Byte) /\ Len(c) = b - a + 1
        /\ \A i \in 1 .. b - a + 1 : c[i] = h[a + i - 1]
    BY <1>1, <2>1, SliceProps
  <2>4. c = w
    BY DEF a, b
  <2> HIDE DEF c, w
  <2>6. QED
    BY <2>2, <2>3, <2>4, <2>5
<1> HIDE DEF w, u, r
<1>7. \A m \in 0 .. N - k :
        /\ m + k \in 0 .. N /\ f[m + k] \in Nat /\ f[m + k] >= r
        /\ g[m] = f[m + k] - r /\ g[m] \in Nat
  <2>1. ASSUME NEW m \in 0 .. N - k
        PROVE  /\ m + k \in 0 .. N /\ f[m + k] \in Nat /\ f[m + k] >= r
               /\ g[m] = f[m + k] - r /\ g[m] \in Nat
    <3>1. m + k \in 0 .. N /\ m + k >= k
      BY <1>1, <2>1
    <3>2. f[m + k] \in Nat /\ f[m + k] >= r
      BY <1>2, <1>3, <3>1
    <3>3. g[m] = f[m + k] - r
      BY <2>1
    <3> HIDE DEF g
    <3>4. QED
      BY <1>4, <3>1, <3>2, <3>3
  <2>2. QED
    BY <2>1
<1>8. Counts(g, u)
  <2>1. g \in [0 .. Len(u) -> Nat]
    BY <1>5, <1>7
  <2>2. g[0] = 0
    <3>1. 0 \in 0 .. N - k /\ 0 + k = k
      BY <1>1
    <3>2. g[0] = r - r
      BY <3>1 DEF r
    <3>3. QED
      BY <1>4, <3>2
  <2> HIDE DEF g
  <2>3. ASSUME NEW m \in 1 .. Len(u)
        PROVE  g[m] = g[m - 1] + Len(u[m]) + 1
    <3>1. /\ m \in 1 .. N - k /\ m \in 0 .. N - k /\ m - 1 \in 0 .. N - k
          /\ m + k \in 1 .. N /\ (m - 1) + k = (m + k) - 1
      BY <1>1, <1>5, <2>3
    <3>2. /\ g[m] = f[m + k] - r
          /\ g[m - 1] = f[(m + k) - 1] - r /\ u[m] = ls[m + k]
      BY <1>5, <1>7, <3>1
    <3>3. /\ f[m + k] = f[(m + k) - 1] + Len(ls[m + k]) + 1
          /\ f[(m + k) - 1] \in Nat /\ Len(ls[m + k]) \in Nat
      BY <3>1, LineLength
    <3>4. QED
      BY <1>4, <3>2, <3>3, SMTT(30)
  <2>4. QED
    BY <2>1, <2>2, <2>3 DEF Counts
<1>9. Len(w) = g[Len(u)]
  <2>1. N - k \in 0 .. N - k /\ N - k + k = N
    BY <1>1
  <2> HIDE DEF g
  <2>2. QED
    BY <1>4, <1>5, <1>6, <1>7, <2>1
<1> HIDE DEF g
<1>10. ASSUME NEW m \in 1 .. Len(u)
       PROVE  /\ w[g[m]] = Nul
              /\ \A i \in 1 .. Len(u[m]) : w[g[m - 1] + i] = u[m][i]
  <2>1. /\ m \in 1 .. N - k /\ m \in 0 .. N - k /\ m - 1 \in 0 .. N - k
        /\ m + k \in 1 .. N /\ (m - 1) + k = (m + k) - 1
    BY <1>1, <1>5, <1>10
  <2> DEFINE x == f[(m + k) - 1]
             y == f[m + k]
             n == Len(ls[m + k])
  <2>2. /\ g[m] = y - r /\ g[m - 1] = x - r /\ u[m] = ls[m + k] /\ x >= r
    BY <1>5, <1>7, <2>1
  <2>3. /\ y = x + n + 1 /\ x \in Nat /\ y \in Nat /\ n \in Nat
        /\ y <= Len(h)
    BY <2>1, LineLength
  <2>4. h[y] = Nul /\ \A i \in 1 .. n : h[x + i] = ls[m + k][i]
    BY <2>1 DEF Holds
  <2> HIDE DEF x, y, n
  <2>5. w[g[m]] = Nul
    <3>1. y - r \in 1 .. Len(h) - r /\ (y - r) + r = y
      BY <1>1, <1>4, <2>2, <2>3, SMTT(30)
    <3>2. w[y - r] = h[(y - r) + r]
      BY <1>6, <3>1
    <3>3. QED
      BY <2>2, <2>4, <3>1, <3>2
  <2>6. ASSUME NEW i \in 1 .. Len(u[m])
        PROVE  w[g[m - 1] + i] = u[m][i]
    <3>0. u[m] = ls[m + k]
      BY <2>2
    <3>1. i \in 1 .. n
      BY <2>6, <3>0 DEF n
    <3> DEFINE z == Len(h)
    <3>2. x - r + i \in 1 .. z - r /\ (x - r + i) + r = x + i
      <4>1. /\ x \in Nat /\ n \in Nat /\ r \in Nat /\ z \in Nat
            /\ x >= r /\ x + n + 1 <= z
        BY <1>1, <1>4, <2>2, <2>3
      <4> HIDE DEF z
      <4>2. QED
        BY <3>1, <4>1, SMTT(30)
    <3>3. w[x - r + i] = h[(x - r + i) + r]
      BY <1>6, <3>2
    <3>4. QED
      BY <2>2, <2>4, <3>1, <3>2, <3>3
  <2>7. QED
    BY <2>5, <2>6
<1>11. Holds(w, u, g)
  BY <1>5, <1>6, <1>8, <1>9, <1>10 DEF Holds
<1>12. QED
  BY <1>11 DEF w, u, g, r, N

(* A line is put in with its bytes. *)
LEMMA InsertHolds ==
  ASSUME NEW h, NEW ls, NEW f, Holds(h, ls, f), NEW p \in 1 .. Len(ls) + 1,
         NEW l \in Seq(Char)
  PROVE  LET g == [m \in 0 .. Len(ls) + 1 |->
                     IF m < p THEN f[m] ELSE f[m - 1] + Len(l) + 1]
         IN  Holds(Inserted(h, f[p - 1], l), InsertAt(ls, p, l), g)
<1> DEFINE N == Len(ls)
           r == f[p - 1]
           n == Len(l) + 1
           g == [m \in 0 .. N + 1 |->
                   IF m < p THEN f[m] ELSE f[m - 1] + Len(l) + 1]
           w == Inserted(h, r, l)
           u == InsertAt(ls, p, l)
<1>1. /\ N \in Nat /\ Len(h) \in Nat /\ Len(l) \in Nat /\ p \in Nat
      /\ h \in Seq(Byte) /\ ls \in Seq(Seq(Char)) /\ Counts(f, ls)
      /\ l \in Seq(Char) /\ p - 1 \in 0 .. N
  BY LenProperties DEF Holds
<1>2. \A m \in 0 .. N : f[m] \in Nat
  BY <1>1 DEF Counts
<1>3. \A m \in 0 .. N, j \in 0 .. N : m <= j => f[m] <= f[j]
  <2>1. ASSUME NEW m \in 0 .. N, NEW j \in 0 .. N, m <= j PROVE f[m] <= f[j]
    <3>0. f[m] \in Nat /\ f[j] \in Nat
      BY <1>2, <2>1
    <3>1. CASE m = j
      BY <3>0, <3>1
    <3>2. CASE m < j
      <4>1. f[m] < f[j]
        BY <1>1, <2>1, <3>2, CountsGrow
      <4>2. QED
        BY <3>0, <4>1
    <3>3. QED
      BY <1>1, <2>1, <3>1, <3>2
  <2>2. QED
    BY <2>1
<1>4. r \in Nat /\ r <= Len(h) /\ Len(h) = f[N] /\ r \in 0 .. Len(h)
  <2>1. N \in 0 .. N /\ N >= p - 1
    BY <1>1
  <2>2. Len(h) = f[N]
    BY DEF Holds
  <2>3. r <= f[N] /\ r \in Nat
    BY <1>1, <1>2, <1>3, <2>1
  <2> HIDE DEF r
  <2>4. QED
    BY <1>1, <2>2, <2>3
<1>5. /\ u \in Seq(Seq(Char)) /\ Len(u) = N + 1
      /\ \A i \in 1 .. N + 1 :
           u[i] = IF i < p THEN ls[i] ELSE IF i = p THEN l ELSE ls[i - 1]
  BY <1>1, InsertAtProps
<1>6. /\ w \in Seq(Byte) /\ Len(w) = Len(h) + n
      /\ \A j \in 1 .. r : w[j] = h[j]
      /\ \A j \in r + 1 .. r + Len(l) : w[j] = l[j - r]
      /\ w[r + n] = Nul
      /\ \A j \in r + n + 1 .. Len(h) + n : w[j] = h[j - n]
  <2> HIDE DEF r
  <2>1. w \in Seq(Byte)
    BY <1>1, <1>4, InsertedProps
  <2>2. Len(w) = Len(h) + n
    BY <1>1, <1>4, InsertedProps
  <2>3. \A j \in 1 .. r : w[j] = h[j]
    BY <1>1, <1>4, InsertedProps
  <2>4. \A j \in r + 1 .. r + Len(l) : w[j] = l[j - r]
    BY <1>1, <1>4, InsertedProps
  <2>5. w[r + n] = Nul
    BY <1>1, <1>4, InsertedProps
  <2>6. \A j \in r + n + 1 .. Len(h) + n : w[j] = h[j - n]
    BY <1>1, <1>4, InsertedProps
  <2> HIDE DEF w, n
  <2>7. QED
    BY <2>1, <2>2, <2>3, <2>4, <2>5, <2>6
<1> HIDE DEF w, u
<1>7. \A m \in 0 .. N + 1 :
        /\ m < p => m \in 0 .. N /\ g[m] = f[m] /\ g[m] \in Nat
        /\ ~ (m < p) => /\ m - 1 \in 0 .. N /\ g[m] = f[m - 1] + n
                        /\ g[m] \in Nat
  <2>1. ASSUME NEW m \in 0 .. N + 1, m < p
        PROVE  m \in 0 .. N /\ g[m] = f[m] /\ g[m] \in Nat
    <3>1. m \in 0 .. N
      BY <1>1, <2>1
    <3>2. g[m] = f[m]
      BY <2>1
    <3>3. QED
      BY <1>2, <3>1, <3>2
  <2>2. ASSUME NEW m \in 0 .. N + 1, ~ (m < p)
        PROVE  m - 1 \in 0 .. N /\ g[m] = f[m - 1] + n /\ g[m] \in Nat
    <3>1. m - 1 \in 0 .. N
      BY <1>1, <2>2
    <3>2. g[m] = f[m - 1] + Len(l) + 1
      BY <2>2
    <3>3. f[m - 1] \in Nat
      BY <1>2, <3>1
    <3> HIDE DEF g
    <3>4. QED
      BY <1>1, <3>1, <3>2, <3>3
  <2> HIDE DEF g
  <2>3. QED
    BY <2>1, <2>2
<1>8. Counts(g, u)
  <2>1. g \in [0 .. Len(u) -> Nat]
    <3>1. g = [m \in 0 .. N + 1 |-> g[m]]
      OBVIOUS
    <3> HIDE DEF g
    <3>2. \A m \in 0 .. N + 1 : g[m] \in Nat
      BY <1>7
    <3>3. QED
      BY <1>5, <3>1, <3>2
  <2> HIDE DEF g
  <2>2. g[0] = 0
    <3>1. 0 \in 0 .. N + 1 /\ 0 < p
      BY <1>1
    <3>2. f[0] = 0
      BY <1>1 DEF Counts
    <3>3. QED
      BY <1>7, <3>1, <3>2
  <2>3. ASSUME NEW m \in 1 .. Len(u)
        PROVE  g[m] = g[m - 1] + Len(u[m]) + 1
    <3>0. m \in 1 .. N + 1 /\ m \in 0 .. N + 1 /\ m - 1 \in 0 .. N + 1
      BY <1>1, <1>5, <2>3
    <3>1. CASE m < p
      <4>1. m \in 1 .. N /\ m - 1 < p
        BY <1>1, <3>0, <3>1
      <4>2. g[m] = f[m] /\ g[m - 1] = f[m - 1] /\ u[m] = ls[m]
        BY <1>5, <1>7, <3>0, <3>1, <4>1
      <4>3. f[m] = f[m - 1] + Len(ls[m]) + 1
        BY <4>1, LineLength
      <4>4. QED
        BY <4>2, <4>3
    <3>2. CASE m = p
      <4>1. ~ (m < p) /\ m - 1 < p
        BY <1>1, <3>2
      <4>2. g[m] = f[m - 1] + n /\ g[m - 1] = f[m - 1] /\ u[m] = l
        BY <1>5, <1>7, <3>0, <3>2, <4>1
      <4>3. f[m - 1] \in Nat
        BY <1>2, <1>7, <3>0, <4>1
      <4> DEFINE x == f[m - 1]
                 k == Len(l)
      <4>4. x \in Nat /\ k \in Nat /\ Len(u[m]) = k
            /\ g[m] = x + (k + 1) /\ g[m - 1] = x
        BY <1>1, <4>2, <4>3
      <4> HIDE DEF x, k
      <4>5. QED
        BY <4>4
    <3>3. CASE m > p
      <4>1. /\ ~ (m < p) /\ ~ (m - 1 < p) /\ m # p
            /\ m - 1 \in 1 .. N /\ (m - 1) - 1 \in 0 .. N
        BY <1>1, <3>0, <3>3
      <4>2. /\ g[m] = f[m - 1] + n /\ g[m - 1] = f[(m - 1) - 1] + n
            /\ u[m] = ls[m - 1]
        BY <1>5, <1>7, <3>0, <4>1
      <4>3. /\ f[m - 1] = f[(m - 1) - 1] + Len(ls[m - 1]) + 1
            /\ f[(m - 1) - 1] \in Nat /\ Len(ls[m - 1]) \in Nat
        BY <4>1, LineLength
      <4>4. QED
        BY <1>1, <4>2, <4>3, SMTT(30)
    <3>4. QED
      BY <1>1, <3>0, <3>1, <3>2, <3>3
  <2>4. QED
    BY <2>1, <2>2, <2>3 DEF Counts
<1> HIDE DEF g
<1>9. Len(w) = g[Len(u)]
  <2>1. N + 1 \in 0 .. N + 1 /\ ~ (N + 1 < p) /\ N + 1 - 1 = N
    BY <1>1
  <2>2. g[N + 1] = f[N] + n
    BY <1>7, <2>1
  <2>3. QED
    BY <1>4, <1>5, <1>6, <2>2
<1>10. ASSUME NEW m \in 1 .. Len(u)
       PROVE  /\ w[g[m]] = Nul
              /\ \A i \in 1 .. Len(u[m]) : w[g[m - 1] + i] = u[m][i]
  <2>0. /\ m \in 1 .. N + 1 /\ m \in 0 .. N + 1 /\ m - 1 \in 0 .. N + 1
        /\ n \in Nat \ {0}
    BY <1>1, <1>5, <1>10
  <2>1. CASE m < p
    <3> DEFINE x == f[m - 1]
               y == f[m]
               q == Len(ls[m])
    <3>1. m \in 1 .. N /\ m - 1 < p /\ m <= p - 1 /\ m \in 0 .. N
      BY <1>1, <2>0, <2>1
    <3>2. g[m] = y /\ g[m - 1] = x /\ u[m] = ls[m]
      BY <1>5, <1>7, <2>0, <2>1, <3>1
    <3>3. y = x + q + 1 /\ x \in Nat /\ y \in Nat /\ q \in Nat
      BY <3>1, LineLength
    <3>4. h[y] = Nul /\ \A i \in 1 .. q : h[x + i] = ls[m][i]
      BY <3>1 DEF Holds
    <3>5. y <= r
      BY <1>1, <1>3, <3>1
    <3> HIDE DEF x, y, q, r
    <3>6. w[y] = Nul
      <4>1. y \in 1 .. r
        BY <1>4, <3>3, <3>5
      <4>2. QED
        BY <1>6, <3>4, <4>1
    <3>7. ASSUME NEW i \in 1 .. Len(u[m]) PROVE w[x + i] = u[m][i]
      <4>1. i \in 1 .. q
        BY <3>2, <3>7 DEF q
      <4>2. x + i \in 1 .. r
        BY <1>4, <3>3, <3>5, <4>1
      <4>3. QED
        BY <1>6, <3>2, <3>4, <4>1, <4>2
    <3>8. QED
      BY <3>2, <3>6, <3>7
  <2>2. CASE m = p
    <3>1. ~ (m < p) /\ m - 1 < p
      BY <1>1, <2>2
    <3>2. g[m] = f[m - 1] + n /\ g[m - 1] = f[m - 1] /\ u[m] = l
      BY <1>5, <1>7, <2>0, <2>2, <3>1
    <3>3. f[m - 1] = r
      BY <2>2
    <3> HIDE DEF r, n
    <3>4. w[g[m]] = Nul
      BY <1>6, <3>2, <3>3
    <3>5. ASSUME NEW i \in 1 .. Len(u[m]) PROVE w[g[m - 1] + i] = u[m][i]
      <4>1. i \in 1 .. Len(l)
        BY <3>2, <3>5
      <4>2. r + i \in r + 1 .. r + Len(l) /\ (r + i) - r = i
        BY <1>1, <1>4, <4>1
      <4>3. w[r + i] = l[(r + i) - r]
        BY <1>6, <4>2
      <4>4. QED
        BY <3>2, <3>3, <4>2, <4>3
    <3>6. QED
      BY <3>4, <3>5
  <2>3. CASE m > p
    <3> DEFINE x == f[(m - 1) - 1]
               y == f[m - 1]
               q == Len(ls[m - 1])
    <3>1. /\ ~ (m < p) /\ ~ (m - 1 < p) /\ m # p
          /\ m - 1 \in 1 .. N /\ (m - 1) - 1 \in 0 .. N
          /\ p - 1 <= (m - 1) - 1
      BY <1>1, <2>0, <2>3
    <3>2. g[m] = y + n /\ g[m - 1] = x + n /\ u[m] = ls[m - 1]
      BY <1>5, <1>7, <2>0, <3>1
    <3>3. /\ y = x + q + 1 /\ x \in Nat /\ y \in Nat /\ q \in Nat
          /\ y <= Len(h)
      BY <3>1, LineLength
    <3>4. h[y] = Nul /\ \A i \in 1 .. q : h[x + i] = ls[m - 1][i]
      BY <3>1 DEF Holds
    <3>5. r <= x
      BY <1>1, <1>3, <3>1
    <3> HIDE DEF x, y, q, r, n
    <3>6. w[y + n] = Nul
      <4>1. y + n \in r + n + 1 .. Len(h) + n /\ (y + n) - n = y
        BY <1>1, <1>4, <2>0, <3>3, <3>5
      <4>2. w[y + n] = h[(y + n) - n]
        BY <1>6, <4>1
      <4>3. QED
        BY <3>4, <4>1, <4>2
    <3>7. ASSUME NEW i \in 1 .. Len(u[m]) PROVE w[x + n + i] = u[m][i]
      <4>1. i \in 1 .. q
        BY <3>2, <3>7 DEF q
      <4>2. /\ x + n + i \in r + n + 1 .. Len(h) + n
            /\ (x + n + i) - n = x + i
        BY <1>1, <1>4, <2>0, <3>3, <3>5, <4>1, SMTT(30)
      <4>3. w[x + n + i] = h[(x + n + i) - n]
        BY <1>6, <4>2
      <4>4. QED
        BY <3>2, <3>4, <4>1, <4>2, <4>3
    <3>8. QED
      BY <3>2, <3>6, <3>7
  <2>4. QED
    BY <1>1, <2>0, <2>1, <2>2, <2>3
<1>11. Holds(w, u, g)
  BY <1>5, <1>6, <1>8, <1>9, <1>10 DEF Holds
<1>12. QED
  BY <1>11 DEF w, u, g, r, N

(* A line is taken out with its bytes. *)
LEMMA DeleteHolds ==
  ASSUME NEW h, NEW ls, NEW f, Holds(h, ls, f), NEW p \in 1 .. Len(ls)
  PROVE  \E g : Holds(hist_del(h, f[p - 1]), RemoveAt(ls, p), g)
<1> DEFINE N == Len(ls)
           r == f[p - 1]
           d == Len(ls[p]) + 1
           g == [m \in 0 .. N - 1 |-> IF m < p THEN f[m] ELSE f[m + 1] - d]
           a == SubSeq(h, 1, r)
           b == SubSeq(h, f[p] + 1, Len(h))
           w == hist_del(h, r)
           u == RemoveAt(ls, p)
<1>1. /\ N \in Nat /\ Len(h) \in Nat /\ p \in Nat /\ p <= N
      /\ h \in Seq(Byte) /\ ls \in Seq(Seq(Char)) /\ Counts(f, ls)
      /\ p - 1 \in 0 .. N
  BY LenProperties DEF Holds
<1>2. \A m \in 0 .. N : f[m] \in Nat
  BY <1>1 DEF Counts
<1>3. \A m \in 0 .. N, j \in 0 .. N : m <= j => f[m] <= f[j]
  <2>1. ASSUME NEW m \in 0 .. N, NEW j \in 0 .. N, m <= j PROVE f[m] <= f[j]
    <3>0. f[m] \in Nat /\ f[j] \in Nat
      BY <1>2, <2>1
    <3>1. CASE m = j
      BY <3>0, <3>1
    <3>2. CASE m < j
      <4>1. f[m] < f[j]
        BY <1>1, <2>1, <3>2, CountsGrow
      <4>2. QED
        BY <3>0, <4>1
    <3>3. QED
      BY <1>1, <2>1, <3>1, <3>2
  <2>2. QED
    BY <2>1
<1>4. /\ r \in Nat /\ d \in Nat \ {0} /\ f[p] = r + d /\ f[p] <= Len(h)
      /\ f[p] \in Nat /\ Len(h) = f[N]
  <2>1. /\ r \in Nat /\ Len(ls[p]) \in Nat /\ f[p] \in Nat
        /\ f[p] = r + Len(ls[p]) + 1 /\ f[p] <= Len(h)
    BY LineLength
  <2>2. Len(h) = f[N]
    BY DEF Holds
  <2> HIDE DEF r
  <2>3. QED
    BY <2>1, <2>2
<1> HIDE DEF d
<1>5. /\ u \in Seq(Seq(Char)) /\ Len(u) = N - 1
      /\ \A i \in 1 .. N - 1 : u[i] = IF i < p THEN ls[i] ELSE ls[i + 1]
  BY <1>1, RemoveAtProps
<1>6. /\ w \in Seq(Byte) /\ Len(w) = Len(h) - d
      /\ \A j \in 1 .. r : w[j] = h[j]
      /\ \A j \in r + 1 .. Len(h) - d : w[j] = h[j + d]
  <2>1. w = a \o b
    <3>1. NextIdx(h, r) = f[p]
      BY HoldsNext
    <3> HIDE DEF r
    <3>2. QED
      BY <3>1 DEF hist_del
  <2> HIDE DEF r
  <2>2. /\ a \in Seq(Byte) /\ Len(a) = r
        /\ \A j \in 1 .. r : a[j] = h[j]
    <3> DEFINE x == 1
    <3>1. x \in 1 .. Len(h) + 1 /\ r \in x - 1 .. Len(h)
      BY <1>1, <1>4
    <3>2. r - x + 1 = r /\ \A i \in 1 .. r : x + i - 1 = i
      BY <1>4
    <3> HIDE DEF x
    <3>3. /\ SubSeq(h, x, r) \in Seq(Byte) /\ Len(SubSeq(h, x, r)) = r - x + 1
          /\ \A i \in 1 .. r - x + 1 : SubSeq(h, x, r)[i] = h[x + i - 1]
      BY <1>1, <3>1, SliceProps
    <3>4. a = SubSeq(h, x, r)
      BY DEF x
    <3> HIDE DEF a
    <3>5. QED
      BY <3>2, <3>3, <3>4
  <2>3. /\ b \in Seq(Byte) /\ Len(b) = Len(h) - d - r
        /\ \A j \in 1 .. Len(h) - d - r : b[j] = h[r + d + j]
    <3> DEFINE x == f[p] + 1
               y == Len(h)
               c == SubSeq(h, x, y)
    <3>1. x \in 1 .. Len(h) + 1 /\ y \in x - 1 .. Len(h)
      BY <1>1, <1>4
    <3>2. y - x + 1 = Len(h) - d - r
      <4>1. Len(h) \in Nat /\ f[p] = r + d /\ r \in Nat /\ d \in Nat
        BY <1>1, <1>4
      <4>2. QED
        BY <4>1
    <3>3. ASSUME NEW i \in 1 .. Len(h) - d - r PROVE x + i - 1 = r + d + i
      <4>1. Len(h) \in Nat /\ f[p] = r + d /\ r \in Nat /\ d \in Nat
        BY <1>1, <1>4
      <4>2. QED
        BY <4>1
    <3> HIDE DEF x, y
    <3>4. /\ c \in Seq(Byte) /\ Len(c) = y - x + 1
          /\ \A i \in 1 .. y - x + 1 : c[i] = h[x + i - 1]
      BY <1>1, <3>1, SliceProps
    <3>5. c = b
      BY DEF x, y
    <3> HIDE DEF c, b
    <3>6. QED
      BY <3>2, <3>3, <3>4, <3>5
  <2> HIDE DEF a, b, w
  <2>4. /\ w \in Seq(Byte) /\ Len(w) = Len(a) + Len(b)
        /\ \A j \in 1 .. Len(a) + Len(b) :
             w[j] = IF j <= Len(a) THEN a[j] ELSE b[j - Len(a)]
    BY <2>1, <2>2, <2>3, ConcatProperties
  <2>5. Len(w) = Len(h) - d
    <3>1. Len(h) \in Nat /\ r \in Nat /\ d \in Nat
      BY <1>1, <1>4
    <3>2. QED
      BY <2>2, <2>3, <2>4, <3>1
  <2>6. ASSUME NEW j \in 1 .. r PROVE w[j] = h[j]
    <3>1. j \in 1 .. Len(a) + Len(b) /\ j <= Len(a)
      BY <1>1, <1>4, <2>2, <2>3, <2>6, SMTT(30)
    <3>2. QED
      BY <2>2, <2>4, <3>1
  <2>7. ASSUME NEW j \in r + 1 .. Len(h) - d PROVE w[j] = h[j + d]
    <3>1. /\ j \in 1 .. Len(a) + Len(b) /\ ~ (j <= Len(a))
          /\ j - r \in 1 .. Len(h) - d - r /\ r + d + (j - r) = j + d
      BY <1>1, <1>4, <2>2, <2>3, <2>7, SMTT(30)
    <3>2. w[j] = b[j - r]
      BY <2>2, <2>4, <3>1
    <3>3. QED
      BY <2>3, <3>1, <3>2
  <2>8. QED
    BY <2>4, <2>5, <2>6, <2>7
<1> HIDE DEF w, u
<1>7. \A m \in 0 .. N - 1 :
        /\ m < p => m \in 0 .. N /\ g[m] = f[m] /\ g[m] \in Nat
        /\ ~ (m < p) => /\ m + 1 \in 0 .. N /\ g[m] = f[m + 1] - d
                        /\ g[m] \in Nat
  <2>1. ASSUME NEW m \in 0 .. N - 1, m < p
        PROVE  m \in 0 .. N /\ g[m] = f[m] /\ g[m] \in Nat
    <3>1. m \in 0 .. N
      BY <1>1, <2>1
    <3>2. g[m] = f[m]
      BY <2>1
    <3>3. QED
      BY <1>2, <3>1, <3>2
  <2>2. ASSUME NEW m \in 0 .. N - 1, ~ (m < p)
        PROVE  m + 1 \in 0 .. N /\ g[m] = f[m + 1] - d /\ g[m] \in Nat
    <3>1. m + 1 \in 0 .. N /\ p <= m + 1 /\ p \in 0 .. N
      BY <1>1, <2>2
    <3>2. g[m] = f[m + 1] - d
      BY <2>2
    <3>3. f[m + 1] \in Nat /\ f[p] <= f[m + 1]
      BY <1>2, <1>3, <3>1
    <3> HIDE DEF g, r
    <3>4. QED
      BY <1>4, <3>1, <3>2, <3>3
  <2> HIDE DEF g
  <2>3. QED
    BY <2>1, <2>2
<1>8. g = [m \in 0 .. N - 1 |-> g[m]]
  OBVIOUS
<1> HIDE DEF g
<1>9. \A m \in 1 .. N - 1 : ~ (m < p) => g[m - 1] = f[m] - d
  <2>1. ASSUME NEW m \in 1 .. N - 1, ~ (m < p) PROVE g[m - 1] = f[m] - d
    <3>0. m - 1 \in 0 .. N - 1 /\ (m - 1) + 1 = m
      BY <1>1, <2>1
    <3>1. CASE m = p
      <4>1. m - 1 < p
        BY <1>1, <3>1
      <4>2. g[m - 1] = r
        BY <1>7, <3>0, <3>1, <4>1
      <4> HIDE DEF r
      <4>3. QED
        BY <1>4, <3>1, <4>2
    <3>2. CASE m # p
      <4>1. ~ (m - 1 < p)
        BY <1>1, <2>1, <3>2
      <4>2. QED
        BY <1>7, <3>0, <4>1
    <3>3. QED
      BY <3>1, <3>2
  <2>2. QED
    BY <2>1
<1>10. Counts(g, u)
  <2>1. g \in [0 .. Len(u) -> Nat]
    <3>1. \A m \in 0 .. N - 1 : g[m] \in Nat
      BY <1>7
    <3>2. QED
      BY <1>5, <1>8, <3>1
  <2>2. g[0] = 0
    <3>1. 0 \in 0 .. N - 1 /\ 0 < p
      BY <1>1
    <3>2. f[0] = 0
      BY <1>1 DEF Counts
    <3>3. QED
      BY <1>7, <3>1, <3>2
  <2>3. ASSUME NEW m \in 1 .. Len(u)
        PROVE  g[m] = g[m - 1] + Len(u[m]) + 1
    <3>0. m \in 1 .. N - 1 /\ m \in 0 .. N - 1 /\ m - 1 \in 0 .. N - 1
      BY <1>1, <1>5, <2>3
    <3>1. CASE m < p
      <4>1. m \in 1 .. N /\ m - 1 < p
        BY <1>1, <3>0, <3>1
      <4>2. g[m] = f[m] /\ g[m - 1] = f[m - 1] /\ u[m] = ls[m]
        BY <1>5, <1>7, <3>0, <3>1, <4>1
      <4>3. f[m] = f[m - 1] + Len(ls[m]) + 1
        BY <4>1, LineLength
      <4>4. QED
        BY <4>2, <4>3
    <3>2. CASE ~ (m < p)
      <4>1. m + 1 \in 1 .. N /\ (m + 1) - 1 = m
        BY <1>1, <3>0
      <4>2. g[m] = f[m + 1] - d /\ g[m - 1] = f[m] - d /\ u[m] = ls[m + 1]
        BY <1>5, <1>7, <1>9, <3>0, <3>2
      <4>3. /\ f[m + 1] = f[(m + 1) - 1] + Len(ls[m + 1]) + 1
            /\ f[(m + 1) - 1] \in Nat /\ Len(ls[m + 1]) \in Nat
        BY <4>1, LineLength
      <4> DEFINE x == f[m]
                 y == f[m + 1]
                 k == Len(ls[m + 1])
      <4>4. /\ x \in Nat /\ k \in Nat /\ Len(u[m]) = k /\ y = x + k + 1
            /\ g[m] = y - d /\ g[m - 1] = x - d
        BY <4>1, <4>2, <4>3
      <4> HIDE DEF x, y, k
      <4>5. QED
        BY <1>4, <4>4
    <3>3. QED
      BY <3>1, <3>2
  <2>4. QED
    BY <2>1, <2>2, <2>3 DEF Counts
<1>11. Len(w) = g[Len(u)]
  <2>1. CASE p = N
    <3>1. N - 1 \in 0 .. N - 1 /\ N - 1 < p
      BY <1>1, <2>1
    <3>2. g[N - 1] = r
      BY <1>7, <2>1, <3>1
    <3> HIDE DEF r
    <3>3. f[p] = Len(h)
      BY <1>4, <2>1
    <3>4. QED
      BY <1>4, <1>5, <1>6, <3>2, <3>3
  <2>2. CASE p # N
    <3>1. N - 1 \in 0 .. N - 1 /\ ~ (N - 1 < p) /\ (N - 1) + 1 = N
      BY <1>1, <2>2
    <3>2. g[N - 1] = f[N] - d
      BY <1>7, <3>1
    <3>3. QED
      BY <1>4, <1>5, <1>6, <3>2
  <2>3. QED
    BY <2>1, <2>2
<1>12. ASSUME NEW m \in 1 .. Len(u)
       PROVE  /\ w[g[m]] = Nul
              /\ \A i \in 1 .. Len(u[m]) : w[g[m - 1] + i] = u[m][i]
  <2>0. m \in 1 .. N - 1 /\ m \in 0 .. N - 1 /\ m - 1 \in 0 .. N - 1
    BY <1>1, <1>5, <1>12
  <2>1. CASE m < p
    <3> DEFINE x == f[m - 1]
               y == f[m]
               q == Len(ls[m])
    <3>1. m \in 1 .. N /\ m - 1 < p /\ m <= p - 1 /\ m \in 0 .. N
      BY <1>1, <2>0, <2>1
    <3>2. g[m] = y /\ g[m - 1] = x /\ u[m] = ls[m]
      BY <1>5, <1>7, <2>0, <2>1, <3>1
    <3>3. y = x + q + 1 /\ x \in Nat /\ y \in Nat /\ q \in Nat
      BY <3>1, LineLength
    <3>4. h[y] = Nul /\ \A i \in 1 .. q : h[x + i] = ls[m][i]
      BY <3>1 DEF Holds
    <3>5. y <= r
      BY <1>1, <1>3, <3>1
    <3> HIDE DEF x, y, q, r
    <3>6. w[y] = Nul
      <4>1. y \in 1 .. r
        BY <1>4, <3>3, <3>5
      <4>2. QED
        BY <1>6, <3>4, <4>1
    <3>7. ASSUME NEW i \in 1 .. Len(u[m]) PROVE w[x + i] = u[m][i]
      <4>1. i \in 1 .. q
        BY <3>2, <3>7 DEF q
      <4>2. x + i \in 1 .. r
        BY <1>4, <3>3, <3>5, <4>1
      <4>3. QED
        BY <1>6, <3>2, <3>4, <4>1, <4>2
    <3>8. QED
      BY <3>2, <3>6, <3>7
  <2>2. CASE ~ (m < p)
    <3> DEFINE x == f[m]
               y == f[m + 1]
               q == Len(ls[m + 1])
    <3>1. /\ m + 1 \in 1 .. N /\ (m + 1) - 1 = m /\ m \in 0 .. N
          /\ p <= m /\ p \in 0 .. N
      BY <1>1, <2>0, <2>2
    <3>2. g[m] = y - d /\ g[m - 1] = x - d /\ u[m] = ls[m + 1]
      BY <1>5, <1>7, <1>9, <2>0, <2>2
    <3>3. /\ y = f[(m + 1) - 1] + q + 1 /\ f[(m + 1) - 1] \in Nat
          /\ y \in Nat /\ q \in Nat /\ y <= Len(h)
      BY <3>1, LineLength
    <3>4. h[y] = Nul /\ \A i \in 1 .. q : h[f[(m + 1) - 1] + i] = ls[m + 1][i]
      BY <3>1 DEF Holds
    <3>5. f[p] <= x
      BY <1>3, <3>1
    <3>6. /\ y = x + q + 1 /\ x \in Nat
          /\ \A i \in 1 .. q : h[x + i] = ls[m + 1][i]
      BY <3>1, <3>3, <3>4
    <3> DEFINE z == Len(h)
    <3> HIDE DEF x, y, q, r
    <3>10. /\ z \in Nat /\ r \in Nat /\ d \in Nat \ {0} /\ x >= r + d
           /\ y <= z /\ y = x + q + 1 /\ x \in Nat /\ q \in Nat
      BY <1>1, <1>4, <3>3, <3>5, <3>6
    <3> HIDE DEF z
    <3>7. w[y - d] = Nul
      <4>1. y - d \in r + 1 .. z - d /\ (y - d) + d = y
        BY <3>10
      <4>2. w[y - d] = h[(y - d) + d]
        BY <1>6, <4>1 DEF z
      <4>3. QED
        BY <3>4, <4>1, <4>2
    <3>8. ASSUME NEW i \in 1 .. Len(u[m]) PROVE w[x - d + i] = u[m][i]
      <4>1. i \in 1 .. q
        BY <3>2, <3>8 DEF q
      <4>2. /\ x - d + i \in r + 1 .. z - d
            /\ (x - d + i) + d = x + i
        BY <3>10, <4>1
      <4>3. w[x - d + i] = h[(x - d + i) + d]
        BY <1>6, <4>2 DEF z
      <4>4. QED
        BY <3>2, <3>6, <4>1, <4>2, <4>3
    <3>9. QED
      BY <3>2, <3>7, <3>8
  <2>3. QED
    BY <2>1, <2>2
<1>13. Holds(w, u, g)
  BY <1>5, <1>6, <1>10, <1>11, <1>12 DEF Holds
<1>14. QED
  BY <1>13 DEF w, u, r

(* The history is the lines ls, and i is at line p or behind the last. *)
Placed(h, i, ls, p) ==
  \E f : Holds(h, ls, f) /\ p \in 1 .. Len(ls) + 1 /\ i = f[p - 1]

(* In NkEditor too a line is put in by InsertAt. *)
LEMMA EditorInsertAt ==
  ASSUME NEW s, NEW k, NEW e
  PROVE  Editor!InsertAt(s, k, e) = InsertAt(s, k, e)
  BY DEF InsertAt, Editor!InsertAt

(* And it is taken out by RemoveAt. *)
LEMMA EditorRemoveAt ==
  ASSUME NEW s, NEW k
  PROVE  Editor!RemoveAt(s, k) = RemoveAt(s, k)
  BY DEF RemoveAt, Editor!RemoveAt

(* The editor lets go as few lines as make room for the bytes of l. *)
LEMMA StoredIs ==
  ASSUME NEW h, NEW ls, NEW f, Holds(h, ls, f),
         NEW l \in Seq(Char), Len(l) < LineSize
  PROVE  \E k \in 0 .. Len(ls) :
           /\ f[Len(ls)] - f[k] + Len(l) + 1 <= HistSize
           /\ k > 0 => ~ (f[Len(ls)] - f[k - 1] + Len(l) + 1 <= HistSize)
           /\ \A p : Editor!Stored(ls, p, l) =
                [lines |-> InsertAt(SubSeq(ls, k + 1, Len(ls)),
                                    IF p > k THEN p - k ELSE 1, l),
                 at |-> IF p > k THEN p - k ELSE 1]
<1> DEFINE N == Len(ls)
           B == Editor!Bytes(ls)
           fits(k) == B[Len(ls)] - B[k] + Len(l) + 1 <= HistSize
           c == CHOOSE k \in 0 .. Len(ls) :
                  fits(k) /\ (k > 0 => ~ fits(k - 1))
           T == {k \in 0 .. N : fits(k)}
<1>1. N \in Nat /\ Len(l) \in Nat /\ Counts(f, ls) /\ ls \in Seq(Seq(Char))
  BY LenProperties DEF Holds
<1>2. \A k \in 0 .. N : B[k] = f[k] /\ f[k] \in Nat
  BY <1>1, BytesCount DEF Counts
<1>3. \A p : Editor!Stored(ls, p, l) =
          [lines |-> Editor!InsertAt(SubSeq(ls, c + 1, Len(ls)),
                                     IF p > c THEN p - c ELSE 1, l),
           at |-> IF p > c THEN p - c ELSE 1]
  BY DEF Editor!Stored
<1> HIDE DEF B
<1>4. N \in T /\ T \in SUBSET Nat
  <2>1. N \in 0 .. N /\ T \in SUBSET Nat
    BY <1>1
  <2>2. B[N] - B[N] = 0
    BY <1>2, <2>1
  <2>3. Len(l) + 1 <= HistSize
    BY <1>1, ReadlineConstantsOK
  <2>4. fits(N)
    BY <1>1, <2>2, <2>3
  <2>5. QED
    BY <2>1, <2>4
<1>5. \E k \in 0 .. Len(ls) : fits(k) /\ (k > 0 => ~ fits(k - 1))
  <2>1. PICK k \in T : \A y \in T : k <= y
    BY <1>4, NatLeast
  <2>2. k \in 0 .. N /\ fits(k)
    BY <2>1
  <2>3. ASSUME k > 0, fits(k - 1) PROVE FALSE
    <3>1. k - 1 \in 0 .. N /\ ~ (k <= k - 1)
      BY <1>1, <2>2, <2>3
    <3>2. k - 1 \in T
      BY <2>3, <3>1
    <3>3. QED
      BY <2>1, <3>1, <3>2
  <2>4. QED
    BY <2>2, <2>3
<1>6. c \in 0 .. Len(ls) /\ fits(c) /\ (c > 0 => ~ fits(c - 1))
  BY <1>5
<1> HIDE DEF c
<1>7. /\ f[N] - f[c] + Len(l) + 1 <= HistSize
      /\ c > 0 => ~ (f[N] - f[c - 1] + Len(l) + 1 <= HistSize)
  <2>1. N \in 0 .. N /\ B[N] = f[N] /\ B[c] = f[c]
    BY <1>1, <1>2, <1>6
  <2>2. c > 0 => c - 1 \in 0 .. N
    BY <1>1, <1>6
  <2>3. c > 0 => B[c - 1] = f[c - 1]
    BY <1>2, <2>2
  <2>4. QED
    BY <1>6, <2>1, <2>3
<1>8. \A p : Editor!Stored(ls, p, l) =
          [lines |-> InsertAt(SubSeq(ls, c + 1, Len(ls)),
                              IF p > c THEN p - c ELSE 1, l),
           at |-> IF p > c THEN p - c ELSE 1]
  BY <1>3, EditorInsertAt
<1>9. QED
  BY <1>6, <1>7, <1>8

(* A line more than there were. *)
LEMMA LongerByOne ==
  ASSUME NEW u \in Seq(Seq(Char)), NEW q \in 1 .. Len(u) + 1,
         NEW l \in Seq(Char)
  PROVE  Len(InsertAt(u, q, l)) = Len(u) + 1
<1> DEFINE T == Seq(Char)
<1>1. u \in Seq(T) /\ l \in T
  OBVIOUS
<1> HIDE DEF T
<1>2. QED
  BY ONLY <1>1, q \in 1 .. Len(u) + 1, InsertAtProps

(* hist_ins lets the same lines go and puts l at the same place. *)
LEMMA StoredPlaced ==
  ASSUME NEW h, NEW i, NEW ls, NEW p, Placed(h, i, ls, p),
         NEW l \in Seq(Char), Len(l) < LineSize
  PROVE  LET s == hist_ins(h, i, l)
             t == Editor!Stored(ls, p, l)
         IN  Placed(s.buf, s.idx, t.lines, t.at) /\ t.at <= Len(t.lines)
<1>1. PICK f : Holds(h, ls, f) /\ p \in 1 .. Len(ls) + 1 /\ i = f[p - 1]
  BY DEF Placed
<1>2. PICK k \in 0 .. Len(ls) :
        /\ f[Len(ls)] - f[k] + Len(l) + 1 <= HistSize
        /\ k > 0 => ~ (f[Len(ls)] - f[k - 1] + Len(l) + 1 <= HistSize)
        /\ \A x : Editor!Stored(ls, x, l) =
             [lines |-> InsertAt(SubSeq(ls, k + 1, Len(ls)),
                                 IF x > k THEN x - k ELSE 1, l),
              at |-> IF x > k THEN x - k ELSE 1]
  BY <1>1, StoredIs
<1> DEFINE N == Len(ls)
           S == {j \in Boundaries(h) : Len(l) + 1 + Len(h) - j <= HistSize}
           r == Min(S)
           g == SubSeq(h, r + 1, Len(h))
           u == SubSeq(ls, k + 1, Len(ls))
           q == IF p > k THEN p - k ELSE 1
           c == IF i > r THEN i - r ELSE 0
           f2 == [m \in 0 .. Len(ls) - k |-> f[m + k] - f[k]]
<1>3. /\ N \in Nat /\ Len(h) \in Nat /\ Len(l) \in Nat /\ Counts(f, ls)
      /\ ls \in Seq(Seq(Char)) /\ HistSize \in Nat
      /\ Len(h) = f[N]
  BY <1>1, LenProperties, ReadlineConstantsOK DEF Holds
<1>4. \A m \in 0 .. N : f[m] \in Nat
  BY <1>3 DEF Counts
<1>5. Boundaries(h) = {f[m] : m \in 0 .. N}
  BY <1>1, HoldsBoundaries
<1>6. r = f[k]
  <2>1. f[k] \in S
    <3>1. f[k] \in Boundaries(h)
      BY <1>2, <1>5
    <3>2. Len(l) + 1 + Len(h) - f[k] <= HistSize
      <4>1. f[k] \in Nat /\ f[N] \in Nat
        BY <1>2, <1>3, <1>4
      <4>2. QED
        BY <1>2, <1>3, <4>1
    <3>3. QED
      BY <3>1, <3>2
  <2>2. ASSUME NEW m \in 0 .. N, Len(l) + 1 + Len(h) - f[m] <= HistSize
        PROVE  f[k] <= f[m]
    <3>0. f[k] \in Nat /\ f[m] \in Nat /\ f[N] \in Nat
      BY <1>2, <1>3, <1>4, <2>2
    <3>1. CASE m = k
      BY <3>0, <3>1
    <3>2. CASE k < m
      <4>1. f[k] < f[m]
        BY <1>2, <1>3, <2>2, <3>2, CountsGrow
      <4>2. QED
        BY <3>0, <4>1
    <3>3. CASE m < k
      <4>1. k > 0 /\ k - 1 \in 0 .. N /\ (m = k - 1 \/ m < k - 1)
        BY <1>2, <1>3, <2>2, <3>3
      <4>2. f[k - 1] \in Nat
        BY <1>4, <4>1
      <4>3. f[m] <= f[k - 1]
        <5>1. CASE m = k - 1
          BY <4>2, <5>1
        <5>2. CASE m < k - 1
          <6>1. f[m] < f[k - 1]
            BY <1>3, <2>2, <4>1, <5>2, CountsGrow
          <6>2. QED
            BY <3>0, <4>2, <6>1
        <5>3. QED
          BY <4>1, <5>1, <5>2
      <4> DEFINE x == f[m]
                 y == f[k - 1]
                 z == f[N]
      <4>4. /\ x \in Nat /\ y \in Nat /\ z \in Nat /\ x <= y
            /\ Len(l) + 1 + z - x <= HistSize
            /\ ~ (z - y + Len(l) + 1 <= HistSize)
        BY <1>2, <1>3, <2>2, <3>0, <4>1, <4>2, <4>3
      <4> HIDE DEF x, y, z
      <4>5. FALSE
        BY <1>3, <4>4
      <4>6. QED
        BY <4>5
    <3>4. QED
      BY <1>2, <1>3, <2>2, <3>1, <3>2, <3>3
  <2>3. \A j \in S : f[k] <= j /\ j \in Nat
    BY <1>4, <1>5, <2>2
  <2>4. S \in SUBSET Nat
    BY <2>3
  <2> HIDE DEF S
  <2>5. r \in S /\ r <= f[k]
    BY <2>1, <2>4, MinIn
  <2>6. r \in Nat /\ f[k] <= r
    BY <2>3, <2>5
  <2>7. f[k] \in Nat
    BY <1>2, <1>4
  <2> HIDE DEF r
  <2>8. QED
    BY <2>5, <2>6, <2>7
<1>7. hist_ins(h, i, l) = [buf |-> Inserted(g, c, l), idx |-> c]
  BY DEF hist_ins, Inserted
<1> HIDE DEF r
<1>8. Holds(g, u, f2)
  BY <1>1, <1>2, <1>6, CutHolds
<1>9. Len(u) = N - k
  <2> DEFINE a == k + 1
             b == Len(ls)
  <2>1. a \in 1 .. Len(ls) + 1 /\ b \in a - 1 .. Len(ls) /\ b - a + 1 = N - k
    BY <1>2, <1>3
  <2> HIDE DEF a, b, u
  <2>2. Len(SubSeq(ls, a, b)) = b - a + 1
    BY <1>3, <2>1, SliceProps
  <2>3. u = SubSeq(ls, a, b)
    BY DEF u, a, b
  <2>4. QED
    BY <2>1, <2>2, <2>3
<1>10. q \in 1 .. Len(u) + 1
  BY <1>1, <1>2, <1>3, <1>9, SMTT(30)
<1>11. c = f2[q - 1]
  <2>0. /\ p - 1 \in 0 .. N /\ k \in 0 .. N
        /\ i \in Nat /\ r \in Nat /\ i = f[p - 1] /\ r = f[k]
    <3>1. p - 1 \in 0 .. N /\ k \in 0 .. N
      BY <1>1, <1>2, <1>3
    <3>2. QED
      BY <1>1, <1>4, <1>6, <3>1
  <2>1. CASE p > k + 1
    <3>1. k < p - 1 /\ p > k
      BY <1>1, <1>2, <1>3, <2>1
    <3>2. f[k] < f[p - 1]
      BY <1>3, <2>0, <3>1, CountsGrow
    <3>3. c = i - r
      BY <2>0, <3>2
    <3>4. q - 1 \in 0 .. Len(ls) - k /\ (q - 1) + k = p - 1
      BY <1>1, <1>2, <1>3, <3>1
    <3> HIDE DEF q, c
    <3>5. f2[q - 1] = f[p - 1] - f[k]
      BY <3>4
    <3>6. QED
      BY <2>0, <3>3, <3>5
  <2>2. CASE ~ (p > k + 1)
    <3>1. q = 1
      BY <1>1, <1>2, <1>3, <2>2
    <3>2. 0 \in 0 .. Len(ls) - k /\ 0 + k = k
      BY <1>2, <1>3
    <3>3. f2[0] = f[k] - f[k]
      BY <3>2
    <3>4. i <= r
      <4>1. CASE p - 1 = k
        BY <2>0, <4>1
      <4>2. CASE p - 1 < k
        <5>1. f[p - 1] < f[k]
          BY <1>3, <2>0, <4>2, CountsGrow
        <5>2. QED
          BY <2>0, <5>1
      <4>3. QED
        BY <1>1, <1>2, <1>3, <2>2, <4>1, <4>2
    <3>5. c = 0
      BY <2>0, <3>4
    <3> HIDE DEF q, c, f2
    <3>6. f2[0] = 0
      BY <2>0, <3>3
    <3>7. QED
      BY <3>1, <3>5, <3>6
  <2>3. QED
    BY <2>1, <2>2
<1> DEFINE v == InsertAt(u, q, l)
           w == Inserted(g, c, l)
           f3 == [m \in 0 .. Len(u) + 1 |->
                    IF m < q THEN f2[m] ELSE f2[m - 1] + Len(l) + 1]
<1>12. Editor!Stored(ls, p, l) = [lines |-> v, at |-> q]
  BY <1>2
<1> HIDE DEF f2, q, c
<1>13. Holds(w, v, f3)
  <2> HIDE DEF g, u, w, v
  <2>1. Holds(Inserted(g, f2[q - 1], l), InsertAt(u, q, l), f3)
    BY <1>8, <1>10, InsertHolds
  <2>2. QED
    BY <1>11, <2>1 DEF w, v
<1>14. Len(v) = Len(u) + 1
  <2>1. u \in Seq(Seq(Char))
    BY <1>8 DEF Holds
  <2> HIDE DEF u
  <2>2. l \in Seq(Char) /\ q \in 1 .. Len(u) + 1
    BY <1>10
  <2> HIDE DEF v
  <2>3. Len(InsertAt(u, q, l)) = Len(u) + 1
    BY ONLY <2>1, <2>2, LongerByOne
  <2>4. QED
    BY <2>3 DEF v
<1>15. c = f3[q - 1]
  <2>1. q - 1 \in 0 .. Len(u) + 1 /\ q - 1 < q
    BY <1>2, <1>3, <1>9, <1>10
  <2>2. f3[q - 1] = f2[q - 1]
    BY <2>1
  <2>3. QED
    BY <1>11, <2>2
<1> HIDE DEF v, w, f3
<1>16. Placed(w, c, v, q)
  <2>1. q \in 1 .. Len(v) + 1
    <3>1. Len(u) \in Nat
      BY <1>2, <1>3, <1>9
    <3> HIDE DEF u
    <3>2. QED
      BY <1>10, <1>14, <3>1
  <2>2. QED
    BY <1>13, <1>15, <2>1 DEF Placed
<1>17. q <= Len(v)
  <2>1. Len(u) \in Nat
    BY <1>2, <1>3, <1>9
  <2> HIDE DEF u
  <2>2. QED
    BY <1>10, <1>14, <2>1
<1> DEFINE s == hist_ins(h, i, l)
           t == Editor!Stored(ls, p, l)
<1>18. s.buf = w /\ s.idx = c
  BY <1>7 DEF w
<1>19. t.lines = v /\ t.at = q
  BY <1>12
<1> HIDE DEF s, t
<1>20. Placed(s.buf, s.idx, t.lines, t.at) /\ t.at <= Len(t.lines)
  BY <1>16, <1>17, <1>18, <1>19
<1>21. QED
  BY <1>20 DEF s, t

(* The place is one of the history. *)
LEMMA PlacedProps ==
  ASSUME NEW h, NEW i, NEW ls, NEW p, Placed(h, i, ls, p)
  PROVE  /\ h \in Seq(Byte) /\ ls \in Seq(Seq(Char))
         /\ Len(h) \in Nat /\ Len(ls) \in Nat /\ p \in 1 .. Len(ls) + 1
<1>1. PICK f : Holds(h, ls, f) /\ p \in 1 .. Len(ls) + 1
  BY DEF Placed
<1>2. QED
  BY <1>1, LenProperties DEF Holds

(* The lines cut from the bytes are ls, and hist_idx stands for p. *)
LEMMA PlacedLines ==
  ASSUME NEW h, NEW i, NEW ls, NEW p, Placed(h, i, ls, p)
  PROVE  HistLines(h) = ls /\ Before(h, i) + 1 = p
<1>1. PICK f : Holds(h, ls, f) /\ p \in 1 .. Len(ls) + 1 /\ i = f[p - 1]
  BY DEF Placed
<1> DEFINE N == Len(ls)
<1>2. N \in Nat /\ ls \in Seq(Seq(Char)) /\ Len(h) = f[N]
  BY <1>1, LenProperties DEF Holds
<1>3. \A k \in 0 .. N : Before(h, f[k]) = k
  BY <1>1, HoldsBefore DEF Before
<1>4. Boundaries(h) = {f[k] : k \in 0 .. N}
  BY <1>1, HoldsBoundaries
<1>5. Before(h, Len(h)) = N
  BY <1>2, <1>3
<1>6. ASSUME NEW k \in 1 .. N
      PROVE  (CHOOSE j \in Boundaries(h) : Before(h, j) = k - 1) = f[k - 1]
  <2>1. k - 1 \in 0 .. N
    BY <1>2, <1>6
  <2>2. f[k - 1] \in Boundaries(h) /\ Before(h, f[k - 1]) = k - 1
    BY <1>3, <1>4, <2>1
  <2>3. \A j \in Boundaries(h) : Before(h, j) = k - 1 => j = f[k - 1]
    BY <1>3, <1>4
  <2>4. QED
    BY <2>2, <2>3
<1>7. \A k \in 1 .. N : LineAt(h, f[k - 1]) = ls[k]
  BY <1>1, HoldsLine
<1>8. HistLines(h) = [k \in 1 .. N |-> ls[k]]
  BY <1>5, <1>6, <1>7 DEF HistLines
<1>9. ls = [k \in 1 .. N |-> ls[k]]
  BY <1>2, LenProperties
<1>10. Before(h, i) + 1 = p
  <2>1. p - 1 \in 0 .. N /\ (p - 1) + 1 = p
    BY <1>1, <1>2
  <2>2. QED
    BY <1>1, <1>3, <2>1
<1>11. QED
  BY <1>8, <1>9, <1>10

(* The first line begins at 0, and PrevIdx goes one line back. *)
LEMMA PlacedPrev ==
  ASSUME NEW h, NEW i, NEW ls, NEW p, Placed(h, i, ls, p)
  PROVE  /\ p > 1 <=> i # 0
         /\ p > 1 => /\ Placed(h, PrevIdx(h, i), ls, p - 1)
                     /\ LineAt(h, PrevIdx(h, i)) = ls[p - 1]
<1>1. PICK f : Holds(h, ls, f) /\ p \in 1 .. Len(ls) + 1 /\ i = f[p - 1]
  BY DEF Placed
<1>2. Len(ls) \in Nat
  BY PlacedProps
<1>3. CASE p > 1
  <2>1. p - 1 \in 1 .. Len(ls)
    BY <1>1, <1>2, <1>3
  <2>2. PrevIdx(h, i) = f[(p - 1) - 1] /\ i # 0
    BY <1>1, <2>1, HoldsPrev
  <2>3. LineAt(h, PrevIdx(h, i)) = ls[p - 1]
    BY <1>1, <2>1, <2>2, HoldsLine
  <2>4. p - 1 \in 1 .. Len(ls) + 1
    BY <1>2, <2>1
  <2>5. Placed(h, PrevIdx(h, i), ls, p - 1)
    BY <1>1, <2>2, <2>4 DEF Placed
  <2>6. QED
    BY <1>3, <2>2, <2>3, <2>5
<1>4. CASE ~ (p > 1)
  <2>1. p = 1 /\ p - 1 = 0
    BY <1>1, <1>2, <1>4
  <2>2. i = 0
    BY <1>1, <2>1 DEF Holds, Counts
  <2>3. QED
    BY <1>4, <2>2
<1>5. QED
  BY <1>3, <1>4

(* Only the place behind the last line is the end of the bytes, and        *)
(* NextIdx goes one line on.                                                *)
LEMMA PlacedNext ==
  ASSUME NEW h, NEW i, NEW ls, NEW p, Placed(h, i, ls, p)
  PROVE  /\ p <= Len(ls) <=> i # Len(h)
         /\ p <= Len(ls) => /\ Placed(h, NextIdx(h, i), ls, p + 1)
                            /\ LineAt(h, i) = ls[p]
<1>1. PICK f : Holds(h, ls, f) /\ p \in 1 .. Len(ls) + 1 /\ i = f[p - 1]
  BY DEF Placed
<1>2. Len(ls) \in Nat
  BY PlacedProps
<1>3. CASE p <= Len(ls)
  <2>1. p \in 1 .. Len(ls)
    BY <1>1, <1>2, <1>3
  <2>2. NextIdx(h, i) = f[p] /\ i # Len(h)
    BY <1>1, <2>1, HoldsNext
  <2>3. LineAt(h, i) = ls[p]
    BY <1>1, <2>1, HoldsLine
  <2>4. p + 1 \in 1 .. Len(ls) + 1 /\ (p + 1) - 1 = p
    BY <1>2, <2>1
  <2>5. Placed(h, NextIdx(h, i), ls, p + 1)
    BY <1>1, <2>2, <2>4 DEF Placed
  <2>6. QED
    BY <1>3, <2>2, <2>3, <2>5
<1>4. CASE ~ (p <= Len(ls))
  <2>1. p - 1 = Len(ls)
    BY <1>1, <1>2, <1>4
  <2>2. i = Len(h)
    BY <1>1, <2>1 DEF Holds
  <2>3. QED
    BY <1>4, <2>2
<1>5. QED
  BY <1>3, <1>4

(* The end of the bytes is behind the last line. *)
LEMMA PlacedEnd ==
  ASSUME NEW h, NEW i, NEW ls, NEW p, Placed(h, i, ls, p)
  PROVE  Placed(h, Len(h), ls, Len(ls) + 1)
<1>1. PICK f : Holds(h, ls, f)
  BY DEF Placed
<1>2. Len(ls) \in Nat
  BY PlacedProps
<1>3. Len(ls) + 1 \in 1 .. Len(ls) + 1 /\ (Len(ls) + 1) - 1 = Len(ls)
  BY <1>2
<1>4. Len(h) = f[Len(ls)]
  BY <1>1 DEF Holds
<1>5. QED
  BY <1>1, <1>3, <1>4 DEF Placed

(* hist_del takes the line at hist_idx out. *)
LEMMA PlacedDel ==
  ASSUME NEW h, NEW i, NEW ls, NEW p, Placed(h, i, ls, p), p <= Len(ls)
  PROVE  LET g == hist_del(h, i)
             u == RemoveAt(ls, p)
         IN  Placed(g, Len(g), u, Len(u) + 1)
<1> DEFINE g == hist_del(h, i)
           u == RemoveAt(ls, p)
<1>1. PICK f : Holds(h, ls, f) /\ p \in 1 .. Len(ls) + 1 /\ i = f[p - 1]
  BY DEF Placed
<1>2. p \in 1 .. Len(ls)
  BY <1>1, PlacedProps
<1>3. \E e : Holds(hist_del(h, f[p - 1]), RemoveAt(ls, p), e)
  BY <1>1, <1>2, DeleteHolds
<1>4. PICK e : Holds(g, u, e)
  BY <1>1, <1>3
<1> HIDE DEF g, u
<1>5. Len(u) \in Nat /\ e[0] = 0 /\ 1 - 1 = 0
  BY <1>4, LenProperties DEF Holds, Counts
<1>6. 1 \in 1 .. Len(u) + 1
  BY <1>5
<1>7. Placed(g, 0, u, 1)
  BY <1>4, <1>5, <1>6 DEF Placed
<1>8. Placed(g, Len(g), u, Len(u) + 1)
  BY <1>7, PlacedEnd
<1>9. QED
  BY <1>8 DEF g, u

(* The empty history. *)
LEMMA PlacedEmpty == Placed(<< >>, 0, << >>, 1)
<1> DEFINE e == << >>
           f == [k \in 0 .. 0 |-> 0]
<1>1. e \in Seq(Byte) /\ e \in Seq(Seq(Char)) /\ Len(e) = 0
  BY EmptySeq
<1> HIDE DEF e
<1>2. f[0] = 0 /\ f \in [0 .. Len(e) -> Nat]
  BY <1>1
<1> HIDE DEF f
<1>3. 1 .. Len(e) = {}
  BY <1>1
<1>4. Holds(e, e, f)
  BY <1>1, <1>2, <1>3 DEF Holds, Counts
<1>5. 1 \in 1 .. Len(e) + 1 /\ 1 - 1 = 0
  BY <1>1
<1>6. Placed(e, 0, e, 1)
  BY <1>2, <1>4, <1>5 DEF Placed
<1>7. QED
  BY <1>6 DEF e

-----------------------------------------------------------------------------
(* The steps of the editor *)

(* The history goes from ls and p to ms and q. *)
Edits(ls, p, ms, q) ==
  /\ HistLines(histbuf) = ls /\ Before(histbuf, hist_idx) + 1 = p
  /\ HistLines(histbuf)' = ms /\ (Before(histbuf, hist_idx) + 1)' = q

(* So it goes when the bytes hold them before and after. *)
LEMMA PlacedGoes ==
  ASSUME NEW ls, NEW p, NEW ms, NEW q, Placed(histbuf, hist_idx, ls, p),
         Placed(histbuf', hist_idx', ms, q)
  PROVE  Edits(ls, p, ms, q)
<1>1. HistLines(histbuf) = ls /\ Before(histbuf, hist_idx) + 1 = p
  BY PlacedLines
<1>2. HistLines(histbuf') = ms /\ Before(histbuf', hist_idx') + 1 = q
  BY PlacedLines
<1>3. QED
  BY <1>1, <1>2 DEF Edits

(* What the step of NkReadline is in NkEditor. *)
Mapped ==
  /\ [Editor!Next]_(Editor!vars)
  /\ \E ms, q : Placed(histbuf', hist_idx', ms, q)

(* Without a step of the history the place in it stays. *)
LEMMA HistoryStays ==
  ASSUME NEW ls, NEW p, Placed(histbuf, hist_idx, ls, p),
         UNCHANGED hist_linevars
  PROVE  Placed(histbuf', hist_idx', ls, p) /\ Edits(ls, p, ls, p)
<1>1. histbuf' = histbuf /\ hist_idx' = hist_idx
  BY DEF hist_linevars
<1>2. Placed(histbuf', hist_idx', ls, p)
  BY <1>1
<1>3. QED
  BY <1>2, PlacedGoes

(* A key that does nothing. *)
LEMMA BeepMaps ==
  ASSUME NEW ls, NEW p, Placed(histbuf, hist_idx, ls, p),
         UNCHANGED << line_linevars, hist_linevars >>
  PROVE  Mapped
<1>1. Placed(histbuf', hist_idx', ls, p) /\ Edits(ls, p, ls, p)
  BY HistoryStays
<1>2. tty_buf' = tty_buf /\ tty_cur' = tty_cur /\ changed' = changed
  BY DEF line_linevars
<1>3. UNCHANGED Editor!vars
  BY <1>1, <1>2 DEF Edits, Editor!vars
<1>4. QED
  BY <1>1, <1>3 DEF Mapped

(* A key that takes the cursor elsewhere. *)
LEMMA MoveMaps ==
  ASSUME NEW ls, NEW p, Placed(histbuf, hist_idx, ls, p),
         UNCHANGED << tty_buf, changed, hist_linevars >>,
         tty_cur' \in 0 .. Len(tty_buf)
  PROVE  Mapped
<1>1. Placed(histbuf', hist_idx', ls, p) /\ Edits(ls, p, ls, p)
  BY HistoryStays
<1>2. Editor!Move
  BY <1>1 DEF Edits, Editor!Move
<1>3. QED
  BY <1>1, <1>2 DEF Mapped, Editor!Next

(* A character typed at the cursor. *)
LEMMA InsertMaps ==
  ASSUME BufferOK, NEW ls, NEW p, Placed(histbuf, hist_idx, ls, p),
         UNCHANGED hist_linevars, NEW c \in Char, NEW t,
         typech(c, tty_cur, t)
  PROVE  Mapped
<1>1. Placed(histbuf', hist_idx', ls, p) /\ Edits(ls, p, ls, p)
  BY HistoryStays
<1>2. CASE Len(tty_buf) # LineSize - 1
  <2>1. /\ tty_buf' = InsertAt(tty_buf, tty_cur + 1, c)
        /\ tty_cur' = tty_cur + 1 /\ changed' = TRUE
    BY <1>2 DEF typech
  <2>2. Len(tty_buf) < LineSize - 1
    <3>1. Len(tty_buf) \in Nat /\ Len(tty_buf) < LineSize /\ LineSize \in Nat
      BY LenProperties, ReadlineConstantsOK DEF BufferOK
    <3>2. QED
      BY <1>2, <3>1
  <2>3. tty_buf' = Editor!InsertAt(tty_buf, tty_cur + 1, c)
    BY <2>1, EditorInsertAt
  <2>4. Editor!Insert(c)
    BY <1>1, <2>1, <2>2, <2>3 DEF Edits, Editor!Insert
  <2>5. QED
    BY <1>1, <2>4 DEF Mapped, Editor!Next
<1>3. CASE ~ (Len(tty_buf) # LineSize - 1)
  <2>1. tty_buf' = tty_buf /\ tty_cur' = tty_cur /\ changed' = changed
    BY <1>3 DEF typech
  <2>2. UNCHANGED << line_linevars, hist_linevars >>
    BY <2>1 DEF line_linevars
  <2>3. QED
    BY <2>2, BeepMaps
<1>4. QED
  BY <1>2, <1>3

(* A character deleted to the left of the cursor or at it. *)
LEMMA DeleteMaps ==
  ASSUME BufferOK, NEW ls, NEW p, Placed(histbuf, hist_idx, ls, p),
         NEW k \in 0 .. Len(tty_buf) - 1, k = tty_cur - 1 \/ k = tty_cur,
         NEW out, delch(k, out)
  PROVE  Mapped
<1>1. Placed(histbuf', hist_idx', ls, p) /\ Edits(ls, p, ls, p)
  BY HistoryStays DEF delch
<1>2. /\ tty_buf' = RemoveAt(tty_buf, k + 1)
      /\ tty_cur' = k /\ changed' = TRUE
  BY DEF delch
<1>3. tty_buf' = Editor!RemoveAt(tty_buf, k + 1)
  BY <1>2, EditorRemoveAt
<1>4. tty_buf \in Seq(Char) /\ Len(tty_buf) \in Nat
      /\ tty_cur \in 0 .. Len(tty_buf)
  BY LenProperties DEF BufferOK
<1>5. k + 1 \in 1 .. Len(tty_buf) /\ (k + 1) - 1 = k
      /\ (k + 1 = tty_cur \/ k + 1 = tty_cur + 1)
  BY <1>4
<1>6. DOMAIN tty_buf = 1 .. Len(tty_buf)
  BY <1>4, LenProperties
<1>7. Editor!Delete(k + 1)
  <2> DEFINE j == k + 1
  <2>1. j \in DOMAIN tty_buf /\ (j = tty_cur \/ j = tty_cur + 1)
    BY <1>5, <1>6
  <2>2. tty_buf' = Editor!RemoveAt(tty_buf, j) /\ tty_cur' = j - 1
    BY <1>2, <1>3, <1>5
  <2> HIDE DEF j
  <2>3. Editor!Delete(j)
    BY <1>1, <1>2, <2>1, <2>2 DEF Edits, Editor!Delete
  <2>4. QED
    BY <2>3 DEF j
<1>8. QED
  BY <1>1, <1>5, <1>6, <1>7 DEF Mapped, Editor!Next

(* A new empty line. *)
LEMMA RestartMaps ==
  ASSUME NEW ls, NEW p, Placed(histbuf, hist_idx, ls, p),
         UNCHANGED hist_linevars, nk_readline
  PROVE  Mapped
<1>1. Placed(histbuf', hist_idx', ls, p) /\ Edits(ls, p, ls, p)
  BY HistoryStays
<1>2. tty_buf' = << >> /\ tty_cur' = 0 /\ changed' = FALSE /\ Len(<< >>) = 0
  BY EmptySeq DEF nk_readline
<1>3. Editor!Restart
  BY <1>1, <1>2 DEF Edits, Editor!Restart, Editor!Show
<1>4. QED
  BY <1>1, <1>3 DEF Mapped, Editor!Next

(* What an edited line leaves in the history, in the terms of NkEditor. *)
Stores(ls, p) ==
  IF changed /\ tty_buf # << >> THEN Editor!Stored(ls, p, tty_buf)
                                ELSE [lines |-> ls, at |-> p]

(* The history an edited line was left in holds these lines. *)
LEMMA LeftPlaced ==
  ASSUME BufferOK, NEW i, NEW ls, NEW p, Placed(histbuf, i, ls, p)
  PROVE  /\ Placed(Left(i).buf, Left(i).idx, Stores(ls, p).lines,
                   Stores(ls, p).at)
         /\ changed /\ tty_buf # << >> =>
              Stores(ls, p).at <= Len(Stores(ls, p).lines)
         /\ \A j : /\ [Left(i) EXCEPT !.idx = j].buf = Left(i).buf
                   /\ [Left(i) EXCEPT !.idx = j].idx = j
<1> DEFINE s == hist_ins(histbuf, i, tty_buf)
           t == Editor!Stored(ls, p, tty_buf)
<1>1. CASE changed /\ tty_buf # << >>
  <2>1. Left(i) = s /\ Stores(ls, p) = t
    BY <1>1 DEF Left, Stores
  <2>2. Placed(s.buf, s.idx, t.lines, t.at) /\ t.at <= Len(t.lines)
    BY StoredPlaced DEF BufferOK
  <2>3. \A j : [s EXCEPT !.idx = j].buf = s.buf /\ [s EXCEPT !.idx = j].idx = j
    BY DEF hist_ins
  <2> HIDE DEF s, t
  <2>4. QED
    BY <2>1, <2>2, <2>3
<1>2. CASE ~ (changed /\ tty_buf # << >>)
  <2>1. Left(i) = [buf |-> histbuf, idx |-> i]
    BY <1>2 DEF Left, Kept
  <2>2. Stores(ls, p) = [lines |-> ls, at |-> p]
    BY <1>2 DEF Stores
  <2>3. Left(i).buf = histbuf /\ Left(i).idx = i
    BY <2>1
  <2>4. Stores(ls, p).lines = ls /\ Stores(ls, p).at = p
    BY <2>2
  <2>5. \A j : /\ [Left(i) EXCEPT !.idx = j].buf = Left(i).buf
               /\ [Left(i) EXCEPT !.idx = j].idx = j
    BY <2>1
  <2>6. QED
    BY <1>2, <2>3, <2>4, <2>5
<1>3. QED
  BY <1>1, <1>2

(* The key that goes to an older line. *)
LEMMA HistUpMaps ==
  ASSUME BufferOK, NEW ls, NEW p, Placed(histbuf, hist_idx, ls, p), hist_up
  PROVE  Mapped
<1> DEFINE s == Left(hist_idx)
           t == Stores(ls, p)
           i == PrevIdx(s.buf, s.idx)
           l == LineAt(s.buf, i)
           e == << >>
<1>1. \/ Beep
      \/ hist_idx # 0 /\ s.idx = 0 /\ Show(e, s)
      \/ hist_idx # 0 /\ s.idx # 0 /\ Show(l, [s EXCEPT !.idx = i])
  BY DEF hist_up
<1>2. CASE Beep
  BY <1>2, BeepMaps DEF Beep
<1>3. /\ Placed(s.buf, s.idx, t.lines, t.at)
      /\ \A j : /\ [s EXCEPT !.idx = j].buf = s.buf
                /\ [s EXCEPT !.idx = j].idx = j
  BY LeftPlaced
<1>4. hist_idx # 0 => p > 1
  BY PlacedPrev
<1> HIDE DEF s, t
<1>5. s.idx # 0 <=> t.at > 1
  BY <1>3, PlacedPrev
<1>6. t.at > 1 => Placed(s.buf, i, t.lines, t.at - 1) /\ l = t.lines[t.at - 1]
  BY <1>3, PlacedPrev
<1>7. t.at \in Nat /\ t.at >= 1 /\ Len(t.lines) \in Nat
  <2>1. t.at \in 1 .. Len(t.lines) + 1 /\ Len(t.lines) \in Nat
    BY <1>3, PlacedProps
  <2>2. QED
    BY <2>1
<1>8. ASSUME HistLines(histbuf) = ls, Before(histbuf, hist_idx) + 1 = p
      PROVE  Editor!Up <=>
               /\ p > 1 /\ HistLines(histbuf)' = t.lines
               /\ IF t.at > 1
                    THEN /\ (Before(histbuf, hist_idx) + 1)' = t.at - 1
                         /\ Editor!Show(t.lines[t.at - 1])
                    ELSE /\ (Before(histbuf, hist_idx) + 1)' = 1
                         /\ Editor!Show(<< >>)
  BY <1>8 DEF Editor!Up, Editor!ToStore, Stores, t
<1> HIDE DEF i, l
<1>9. CASE hist_idx # 0 /\ s.idx = 0 /\ Show(e, s)
  <2>1. /\ tty_buf' = e /\ tty_cur' = Len(e) /\ changed' = FALSE
        /\ histbuf' = s.buf /\ hist_idx' = s.idx
    BY <1>9 DEF Show
  <2>2. Placed(histbuf', hist_idx', t.lines, t.at)
    BY <1>3, <2>1
  <2>3. Edits(ls, p, t.lines, t.at)
    BY <2>2, PlacedGoes
  <2>4. ~ (t.at > 1) /\ t.at = 1 /\ p > 1
    BY <1>4, <1>5, <1>7, <1>9
  <2>5. Editor!Show(<< >>)
    BY <2>1 DEF Editor!Show
  <2>6. Editor!Up
    BY <1>8, <2>3, <2>4, <2>5 DEF Edits
  <2>7. QED
    BY <2>2, <2>6 DEF Mapped, Editor!Next
<1>10. CASE hist_idx # 0 /\ s.idx # 0 /\ Show(l, [s EXCEPT !.idx = i])
  <2>1. /\ tty_buf' = l /\ tty_cur' = Len(l) /\ changed' = FALSE
        /\ histbuf' = s.buf /\ hist_idx' = i
    BY <1>3, <1>10 DEF Show
  <2>2. t.at > 1 /\ p > 1
    BY <1>4, <1>5, <1>10
  <2>3. Placed(histbuf', hist_idx', t.lines, t.at - 1)
    BY <1>6, <2>1, <2>2
  <2>4. Edits(ls, p, t.lines, t.at - 1)
    BY <2>3, PlacedGoes
  <2>5. Editor!Show(t.lines[t.at - 1])
    BY <1>6, <2>1, <2>2 DEF Editor!Show
  <2>6. Editor!Up
    BY <1>8, <2>2, <2>4, <2>5 DEF Edits
  <2>7. QED
    BY <2>3, <2>6 DEF Mapped, Editor!Next
<1>11. QED
  BY <1>1, <1>2, <1>9, <1>10

(* The key that goes to a newer line: there is one. *)
LEMMA HistDownMaps ==
  ASSUME BufferOK, NEW ls, NEW p, Placed(histbuf, hist_idx, ls, p), hist_down,
         MoreHistory
  PROVE  Mapped
<1> DEFINE edited == changed /\ tty_buf # << >>
           n == NextIdx(histbuf, hist_idx)
           s == IF edited THEN Left(n) ELSE Kept(hist_idx)
           t == IF edited THEN Stores(ls, p + 1) ELSE Stores(ls, p)
           i == IF tty_buf = << >> THEN hist_idx ELSE NextIdx(s.buf, s.idx)
           q == IF tty_buf = << >> THEN p ELSE t.at + 1
           l == IF i # Len(s.buf) THEN LineAt(s.buf, i) ELSE << >>
           m == IF q <= Len(t.lines) THEN t.lines[q] ELSE << >>
<1>1. Show(l, [s EXCEPT !.idx = i])
  BY DEF hist_down
<1>2. p < Len(ls) /\ Placed(histbuf, n, ls, p + 1)
  <2>1. hist_idx # Len(histbuf) /\ n # Len(histbuf)
    BY DEF MoreHistory
  <2>2. p <= Len(ls)
    BY <2>1, PlacedNext
  <2>3. Placed(histbuf, n, ls, p + 1)
    BY <2>2, PlacedNext
  <2> HIDE DEF n
  <2>4. p + 1 <= Len(ls)
    BY <2>1, <2>3, PlacedNext
  <2>5. Len(ls) \in Nat /\ p \in 1 .. Len(ls) + 1
    BY PlacedProps
  <2>6. QED
    BY <2>3, <2>4, <2>5
<1>3. ASSUME HistLines(histbuf) = ls, Before(histbuf, hist_idx) + 1 = p
      PROVE  Editor!Down <=>
               /\ p < Len(ls) /\ HistLines(histbuf)' = t.lines
               /\ (Before(histbuf, hist_idx) + 1)' = q /\ Editor!Show(m)
  <2>1. CASE edited
    BY <1>3, <2>1 DEF Editor!Down, Editor!ToStore, Stores
  <2>2. CASE ~edited
    BY <1>3, <2>2 DEF Editor!Down, Editor!ToStore, Stores
  <2>3. QED
    BY <2>1, <2>2
<1>4. /\ Placed(s.buf, i, t.lines, q)
      /\ \A j : /\ [s EXCEPT !.idx = j].buf = s.buf
                /\ [s EXCEPT !.idx = j].idx = j
  <2>1. CASE edited
    <3>1. s = Left(n) /\ t = Stores(ls, p + 1) /\ tty_buf # << >>
          /\ i = NextIdx(s.buf, s.idx) /\ q = t.at + 1
      BY <2>1
    <3> HIDE DEF n, s, t, i, q
    <3>2. /\ Placed(s.buf, s.idx, t.lines, t.at) /\ t.at <= Len(t.lines)
          /\ \A j : /\ [s EXCEPT !.idx = j].buf = s.buf
                    /\ [s EXCEPT !.idx = j].idx = j
      BY <1>2, <2>1, <3>1, LeftPlaced
    <3>3. Placed(s.buf, i, t.lines, q)
      BY <3>1, <3>2, PlacedNext
    <3>4. QED
      BY <3>2, <3>3
  <2>2. CASE ~edited
    <3>1. s = [buf |-> histbuf, idx |-> hist_idx]
      BY <2>2 DEF Kept
    <3>2. t = [lines |-> ls, at |-> p]
      BY <2>2 DEF Stores
    <3>3. s.buf = histbuf /\ s.idx = hist_idx /\ t.lines = ls /\ t.at = p
      BY <3>1, <3>2
    <3>4. \A j : [s EXCEPT !.idx = j].buf = s.buf
                 /\ [s EXCEPT !.idx = j].idx = j
      BY <3>1
    <3>5. \/ i = hist_idx /\ q = p
          \/ i = n /\ q = p + 1
      <4> HIDE DEF s, t
      <4>1. CASE tty_buf = << >>
        BY <4>1
      <4>2. CASE tty_buf # << >>
        BY <3>3, <4>2
      <4>3. QED
        BY <4>1, <4>2
    <3> HIDE DEF n, s, t, i, q
    <3>6. Placed(histbuf, i, ls, q)
      BY <1>2, <3>5
    <3>7. QED
      BY <3>3, <3>4, <3>6
  <2>3. QED
    BY <2>1, <2>2
<1> HIDE DEF n, s, t, i, q
<1>5. l = m
  <2>1. Placed(s.buf, i, t.lines, q)
    BY <1>4
  <2> DEFINE g == s.buf
             u == t.lines
  <2> HIDE DEF g, u
  <2>2. Placed(g, i, u, q)
    BY <2>1 DEF g, u
  <2>3. /\ q <= Len(u) <=> i # Len(g)
        /\ q <= Len(u) => LineAt(g, i) = u[q]
    BY <2>2, PlacedNext
  <2>4. QED
    BY <2>3 DEF g, u
<1> HIDE DEF l, m
<1>6. /\ tty_buf' = l /\ tty_cur' = Len(l) /\ changed' = FALSE
      /\ histbuf' = s.buf /\ hist_idx' = i
  BY <1>1, <1>4 DEF Show
<1>7. Placed(histbuf', hist_idx', t.lines, q)
  BY <1>4, <1>6
<1>8. Edits(ls, p, t.lines, q)
  BY <1>7, PlacedGoes
<1>9. Editor!Show(m)
  BY <1>5, <1>6 DEF Editor!Show
<1>10. Editor!Down
  BY <1>2, <1>3, <1>8, <1>9 DEF Edits
<1>11. QED
  BY <1>7, <1>10 DEF Mapped, Editor!Next

(* The key that goes to a newer line: there is none. *)
LEMMA HistLastMaps ==
  ASSUME BufferOK, NEW ls, NEW p, Placed(histbuf, hist_idx, ls, p), hist_down,
         ~MoreHistory
  PROVE  Mapped
<1> DEFINE n == NextIdx(histbuf, hist_idx)
           s == IF changed THEN Left(n) ELSE Kept(hist_idx)
           r == IF p <= Len(ls) THEN p + 1 ELSE p
           t == IF changed THEN Stores(ls, r) ELSE Stores(ls, p)
           e == << >>
           m == Len(s.buf)
           q == Len(t.lines) + 1
<1>1. CASE tty_buf = << >>
  <2>1. Beep
    BY <1>1 DEF hist_down
  <2>2. QED
    BY <2>1, BeepMaps DEF Beep
<1>2. CASE tty_buf # << >>
  <2>1. Show(e, [s EXCEPT !.idx = m])
    BY <1>2 DEF hist_down
  <2>2. p >= Len(ls) /\ Placed(histbuf, n, ls, r)
    <3>1. hist_idx = Len(histbuf) \/ n = Len(histbuf)
      BY DEF MoreHistory
    <3>2. Len(ls) \in Nat /\ p \in 1 .. Len(ls) + 1
      BY PlacedProps
    <3>3. CASE p <= Len(ls)
      <4>1. Placed(histbuf, n, ls, p + 1) /\ hist_idx # Len(histbuf)
        BY <3>3, PlacedNext
      <4> HIDE DEF n
      <4>2. ~ (p + 1 <= Len(ls))
        BY <3>1, <4>1, PlacedNext
      <4>3. QED
        BY <3>2, <3>3, <4>1, <4>2
    <3>4. CASE ~ (p <= Len(ls))
      <4>1. hist_idx = Len(histbuf)
        BY <3>4, PlacedNext
      <4>2. n = hist_idx /\ r = p
        BY <3>4, <4>1 DEF NextIdx
      <4> HIDE DEF n, r
      <4>3. QED
        BY <3>2, <3>4, <4>2
    <3>5. QED
      BY <3>3, <3>4
  <2>3. ASSUME HistLines(histbuf) = ls, Before(histbuf, hist_idx) + 1 = p,
               HistLines(histbuf)' = t.lines,
               (Before(histbuf, hist_idx) + 1)' = q, Editor!Show(e)
        PROVE  Editor!DownBehindLast
    <3>1. t.lines = IF changed THEN Editor!Stored(ls, r, tty_buf).lines ELSE ls
      BY <1>2 DEF Stores
    <3> HIDE DEF t
    <3>2. (Before(histbuf, hist_idx) + 1)' = Len(HistLines(histbuf)') + 1
      BY <2>3
    <3>3. HistLines(histbuf)' = IF changed
                                  THEN Editor!Stored(ls, r, tty_buf).lines
                                  ELSE ls
      BY <2>3, <3>1
    <3> HIDE DEF q
    <3>4. QED
      BY <1>2, <2>2, <2>3, <3>2, <3>3 DEF Editor!DownBehindLast
  <2>4. /\ Placed(s.buf, s.idx, t.lines, t.at)
        /\ \A j : /\ [s EXCEPT !.idx = j].buf = s.buf
                  /\ [s EXCEPT !.idx = j].idx = j
    <3>1. CASE changed
      <4>1. s = Left(n) /\ t = Stores(ls, r)
        BY <3>1
      <4> HIDE DEF n, s, r, t
      <4>2. QED
        BY <2>2, <4>1, LeftPlaced
    <3>2. CASE ~changed
      <4>1. s = Left(hist_idx) /\ t = Stores(ls, p)
        BY <3>2 DEF Left
      <4> HIDE DEF s, t
      <4>2. QED
        BY <4>1, LeftPlaced
    <3>3. QED
      BY <3>1, <3>2
  <2> HIDE DEF n, s, r, t
  <2>5. Placed(s.buf, m, t.lines, q)
    BY <2>4, PlacedEnd
  <2> HIDE DEF m, q
  <2>6. /\ tty_buf' = e /\ tty_cur' = Len(e) /\ changed' = FALSE
        /\ histbuf' = s.buf /\ hist_idx' = m
    BY <2>1, <2>4 DEF Show
  <2>7. Placed(histbuf', hist_idx', t.lines, q)
    BY <2>5, <2>6
  <2>8. Edits(ls, p, t.lines, q)
    BY <2>7, PlacedGoes
  <2>9. Editor!Show(e)
    BY <2>6 DEF Editor!Show
  <2>10. Editor!DownBehindLast
    BY <2>3, <2>8, <2>9 DEF Edits
  <2>11. QED
    BY <2>7, <2>10 DEF Mapped, Editor!Next
<1>3. QED
  BY <1>1, <1>2

(* Control-C. *)
LEMMA CancelMaps ==
  ASSUME BufferOK, NEW ls, NEW p, Placed(histbuf, hist_idx, ls, p), Cancel
  PROVE  Mapped
<1> DEFINE s == Left(hist_idx)
           t == Stores(ls, p)
           e == << >>
           m == Len(s.buf)
           q == Len(t.lines) + 1
<1>1. /\ histbuf' = s.buf /\ hist_idx' = m
      /\ tty_buf' = e /\ tty_cur' = 0 /\ changed' = FALSE /\ Len(e) = 0
  BY EmptySeq DEF Cancel
<1>2. Placed(s.buf, s.idx, t.lines, t.at)
  BY LeftPlaced
<1>3. t.lines = IF changed /\ tty_buf # << >>
                  THEN Editor!Stored(ls, p, tty_buf).lines ELSE ls
  BY DEF Stores
<1> HIDE DEF s, t
<1>4. Placed(s.buf, m, t.lines, q)
  BY <1>2, PlacedEnd
<1>5. Placed(histbuf', hist_idx', t.lines, q)
  BY <1>1, <1>4
<1>6. Edits(ls, p, t.lines, q)
  BY <1>5, PlacedGoes
<1>7. Editor!Show(e)
  BY <1>1 DEF Editor!Show
<1>8. Editor!Cancel
  <2>1. HistLines(histbuf)' = IF changed /\ tty_buf # << >>
                                THEN Editor!Stored(ls, p, tty_buf).lines
                                ELSE ls
    BY <1>3, <1>6 DEF Edits
  <2>2. (Before(histbuf, hist_idx) + 1)' = Len(HistLines(histbuf)') + 1
    BY <1>6 DEF Edits
  <2>3. HistLines(histbuf) = ls /\ Before(histbuf, hist_idx) + 1 = p
    BY <1>6 DEF Edits
  <2>4. QED
    BY <1>7, <2>1, <2>2, <2>3 DEF Editor!Cancel, Editor!ToStore
<1>9. QED
  BY <1>5, <1>8 DEF Mapped, Editor!Next

(* Return. *)
LEMMA EnterMaps ==
  ASSUME LineInv, NEW ls, NEW p, Placed(histbuf, hist_idx, ls, p), Enter
  PROVE  Mapped
<1> DEFINE g == IF changed THEN histbuf ELSE hist_del(histbuf, hist_idx)
           u == IF changed \/ p > Len(ls) THEN ls ELSE RemoveAt(ls, p)
           t == Editor!Stored(u, Len(u) + 1, tty_buf)
           ms == IF tty_buf = << >> THEN ls ELSE t.lines
           q == Len(ms) + 1
           h == EnteredHistory
           m == Len(h)
<1>1. /\ histbuf' = h /\ hist_idx' = m
      /\ tty_buf' = tty_buf /\ tty_cur' = Len(tty_buf) /\ changed' = FALSE
  BY DEF Enter
<1>2. ASSUME HistLines(histbuf) = ls, Before(histbuf, hist_idx) + 1 = p,
             HistLines(histbuf)' = ms,
             (Before(histbuf, hist_idx) + 1)' = q, Editor!Show(tty_buf)
      PROVE  Editor!Enter
  <2>1. u = IF changed \/ p > Len(ls) THEN ls ELSE Editor!RemoveAt(ls, p)
    BY EditorRemoveAt
  <2>2. HistLines(histbuf)' = IF tty_buf = << >> THEN ls
                              ELSE Editor!Stored(u, Len(u) + 1, tty_buf).lines
    BY <1>2
  <2>3. (Before(histbuf, hist_idx) + 1)' = Len(HistLines(histbuf)') + 1
    BY <1>2
  <2> HIDE DEF u, t, ms, q
  <2>4. QED
    BY <1>2, <2>1, <2>2, <2>3 DEF Editor!Enter
<1>3. Placed(h, m, ms, q)
  <2>1. CASE tty_buf = << >>
    <3>1. h = histbuf /\ ms = ls
      BY <2>1 DEF EnteredHistory
    <3> HIDE DEF h, ms
    <3>2. QED
      BY <3>1, PlacedEnd
  <2>2. CASE tty_buf # << >>
    <3>1. Placed(g, Len(g), u, Len(u) + 1)
      <4>1. CASE changed
        <5>1. g = histbuf /\ u = ls
          BY <4>1
        <5> HIDE DEF g, u
        <5>2. QED
          BY <5>1, PlacedEnd
      <4>2. CASE ~changed
        <5>1. hist_idx # Len(histbuf)
          BY <2>2, <4>2 DEF LineInv, UnchangedIsRetrieved, Enter, Key
        <5>2. p <= Len(ls)
          BY <5>1, PlacedNext
        <5>3. Len(ls) \in Nat /\ p \in 1 .. Len(ls) + 1
          BY PlacedProps
        <5>4. g = hist_del(histbuf, hist_idx) /\ u = RemoveAt(ls, p)
          BY <4>2, <5>2, <5>3
        <5> HIDE DEF g, u
        <5>5. QED
          BY <5>2, <5>4, PlacedDel
      <4>3. QED
        BY <4>1, <4>2
    <3> DEFINE s == hist_ins(g, Len(g), tty_buf)
    <3>2. h = s.buf /\ ms = t.lines
      BY <2>2 DEF EnteredHistory
    <3>3. tty_buf \in Seq(Char) /\ Len(tty_buf) < LineSize
      BY DEF LineInv, BufferOK
    <3> HIDE DEF g, u, h, ms
    <3>4. Placed(s.buf, s.idx, t.lines, t.at)
      BY <3>1, <3>3, StoredPlaced
    <3> HIDE DEF s, t
    <3>5. Placed(h, s.idx, ms, t.at)
      BY <3>2, <3>4
    <3>6. QED
      BY <3>5, PlacedEnd
  <2>3. QED
    BY <2>1, <2>2
<1> HIDE DEF h, m, ms, q
<1>4. Placed(histbuf', hist_idx', ms, q)
  BY <1>1, <1>3
<1>5. Edits(ls, p, ms, q)
  BY <1>4, PlacedGoes
<1>6. Editor!Show(tty_buf)
  BY <1>1 DEF Editor!Show
<1>7. Editor!Enter
  BY <1>2, <1>5, <1>6 DEF Edits
<1>8. QED
  BY <1>4, <1>7 DEF Mapped, Editor!Next

-----------------------------------------------------------------------------
(* The steps that complete a command *)

(* A command is only completed behind a listing if the listing left the    *)
(* cursor where it is: there is more than one way on, until the line is    *)
(* edited.                                                                  *)
TabInv ==
  /\ tab_count = 2 =>
       phase = "key" /\ (tty_buf = << >> \/ \A c : NextChars # {c})
  /\ phase = "tab" /\ tab_count > 0 =>
       tty_cur = Len(tty_buf) \/ \A c : NextChars # {c}

(* The keys count tab_count down. *)
LEMMA KeyCounts ==
  ASSUME FlagsOK, Key
  PROVE  phase = "key" /\ tab_count' # 2 /\ tab_count' \in 0 .. 1
         /\ (tab_count' > 0 => tab_count = 2)
<1>1. tab_count \in 0 .. 2
  BY DEF FlagsOK
<1>2. phase = "key" /\ tab_count' = IF tab_count > 0 THEN tab_count - 1 ELSE 0
  BY DEF Key
<1>3. QED
  BY <1>1, <1>2

(* Every step keeps TabInv. *)
LEMMA TabInvStep ==
  ASSUME LineInv, TabInv, [LineNext]_linevars
  PROVE  TabInv'
<1>1. CASE KeyStep
  <2>1. Key
    BY <1>1 DEF KeyStep, Typed, Rubout, DeleteAtCursor, to_end, to_beg,
       cur_left, cur_right, Escape, Unknown, hist_up, hist_down, Cancel,
       Enter, Help, Tab, PlainKey, ArrowKey
  <2>2. phase = "key" /\ tab_count' # 2 /\ (tab_count' > 0 => tab_count = 2)
    BY <2>1, KeyCounts DEF LineInv
  <2>3. CASE Tab
    <3>1. tty_buf' = tty_buf /\ tty_cur' = tty_cur
      BY <2>3 DEF Tab, line_linevars
    <3>2. NextChars' = NextChars
      BY <3>1 DEF NextChars, Matches, Commands
    <3>3. CASE tab_count = 2
      <4>1. CASE tty_buf = << >>
        <5>1. tty_cur = Len(tty_buf)
          <6>1. Len(tty_buf) = 0 /\ tty_cur \in 0 .. Len(tty_buf)
            BY <4>1, EmptySeq DEF LineInv, BufferOK
          <6>2. QED
            BY <6>1
        <5>2. QED
          BY <2>2, <3>1, <5>1 DEF TabInv
      <4>2. CASE \A c : NextChars # {c}
        BY <2>2, <3>2, <4>2 DEF TabInv
      <4>3. QED
        BY <3>3, <4>1, <4>2 DEF TabInv
    <3>4. CASE tab_count # 2
      BY <2>2, <3>4 DEF TabInv
    <3>5. QED
      BY <3>3, <3>4
  <2>4. CASE ~Tab
    <3>1. phase' # "tab"
      BY <1>1, <2>2, <2>4 DEF KeyStep, Typed, Rubout, DeleteAtCursor, to_end,
         to_beg, cur_left, cur_right, Escape, Unknown, hist_up, hist_down,
         Cancel, Enter, Help, PlainKey, ArrowKey
    <3>2. QED
      BY <2>2, <3>1 DEF TabInv
  <2>5. QED
    BY <2>3, <2>4
<1>2. CASE CompleteNone
  <2>1. phase = "tab" /\ phase' = "key" /\ tab_count' = tab_count
    BY <1>2 DEF CompleteNone
  <2>2. QED
    BY <2>1 DEF TabInv
<1>3. CASE CompleteMany
  <2>1. phase' = "key" /\ tty_buf' = tty_buf /\ Cardinality(NextChars) > 1
    BY <1>3 DEF CompleteMany
  <2>2. NextChars' = NextChars
    BY <2>1 DEF NextChars, Matches, Commands
  <2>3. \A c : NextChars # {c}
    BY <2>1, FS_Singleton
  <2>4. QED
    BY <2>1, <2>2, <2>3 DEF TabInv
<1>4. CASE CompleteOne
  <2>1. PICK c \in NextChars :
          /\ NextChars = {c} /\ typech(c, TabCur, TabScreen)
          /\ phase = "tab" /\ tab_count' = tab_count
    BY <1>4 DEF CompleteOne
  <2>2. tab_count' # 2
    BY <2>1 DEF TabInv
  <2>3. CASE tab_count > 0
    <3>1. TabCur = Len(tty_buf)
      BY <2>3 DEF TabCur, Listed
    <3>2. tty_buf \in Seq(Char) /\ Len(tty_buf) \in Nat
      BY LenProperties DEF LineInv, BufferOK
    <3>3. tty_cur' = Len(tty_buf')
      <4>1. CASE Len(tty_buf) # LineSize - 1
        <5> DEFINE n == Len(tty_buf)
                   w == InsertAt(tty_buf, n + 1, c)
        <5>1. tty_buf' = w /\ tty_cur' = n + 1
          BY <2>1, <3>1, <4>1 DEF typech
        <5>2. n + 1 \in 1 .. Len(tty_buf) + 1
          BY <3>2
        <5>3. c \in Char \cup {c} /\ tty_buf \in Seq(Char \cup {c})
          <6>1. \A k \in 1 .. Len(tty_buf) : tty_buf[k] \in Char \cup {c}
            BY <3>2, ElementOfSeq
          <6>2. QED
            BY <3>2, <6>1, LenProperties
        <5> HIDE DEF n
        <5>4. Len(w) = Len(tty_buf) + 1
          BY <5>2, <5>3, InsertAtProps
        <5>5. QED
          BY <5>1, <5>4 DEF n
      <4>2. CASE ~ (Len(tty_buf) # LineSize - 1)
        BY <2>1, <3>1, <4>2 DEF typech
      <4>3. QED
        BY <4>1, <4>2
    <3>4. QED
      BY <2>2, <3>3 DEF TabInv
  <2>4. CASE ~ (tab_count > 0)
    BY <2>1, <2>2, <2>4 DEF TabInv
  <2>5. QED
    BY <2>3, <2>4
<1>5. CASE handle_cmd
  <2>1. phase = "call" /\ phase' # "tab" /\ tab_count' = tab_count
    BY <1>5 DEF handle_cmd
  <2>2. QED
    BY <2>1 DEF TabInv
<1>6. CASE nk_set_echo
  <2>1. phase = "call" /\ phase' = phase /\ tab_count' = tab_count
    BY <1>6 DEF nk_set_echo
  <2>2. QED
    BY <2>1 DEF TabInv
<1>7. CASE nk_cli_disable
  <2>1. phase # "tab" /\ phase' = phase /\ tab_count' = tab_count
        /\ tty_buf' = tty_buf
    BY <1>7 DEF nk_cli_disable, line_linevars
  <2>2. NextChars' = NextChars
    BY <2>1 DEF NextChars, Matches, Commands
  <2>3. QED
    BY <2>1, <2>2 DEF TabInv
<1>8. CASE nk_cli_enable
  <2>1. /\ tty_buf' = << >> /\ tab_count' = tab_count /\ phase' # "tab"
        /\ phase = "key" => phase' = "key"
    BY <1>8 DEF nk_cli_enable, nk_readline
  <2>2. QED
    BY <2>1 DEF TabInv
<1>9. CASE UNCHANGED linevars
  <2>1. /\ tab_count' = tab_count /\ phase' = phase /\ tty_buf' = tty_buf
        /\ tty_cur' = tty_cur
    BY <1>9 DEF linevars
  <2>2. NextChars' = NextChars
    BY <2>1 DEF NextChars, Matches, Commands
  <2>3. QED
    BY <2>1, <2>2 DEF TabInv
<1>10. QED
  BY <1>1, <1>2, <1>3, <1>4, <1>5, <1>6, <1>7, <1>8, <1>9
     DEF LineNext, Complete

(* A key that is typed, that deletes or that moves the cursor. *)
LEMMA EditingMaps ==
  ASSUME LineInv, NEW ls, NEW p, Placed(histbuf, hist_idx, ls, p),
         \/ \E c \in Char : Typed(c)
         \/ Rubout \/ DeleteAtCursor
         \/ to_end \/ to_beg \/ cur_left \/ cur_right
         \/ Escape \/ Unknown \/ Help \/ Tab
  PROVE  Mapped
<1>1. /\ BufferOK /\ tty_cur \in 0 .. Len(tty_buf) /\ Len(tty_buf) \in Nat
      /\ tty_cur \in Nat
  BY LenProperties DEF LineInv, BufferOK
<1>2. ASSUME Beep PROVE Mapped
  BY <1>2, BeepMaps DEF Beep
<1>3. ASSUME NEW to \in 0 .. Len(tty_buf), NEW out, Cursor(to, out)
      PROVE  Mapped
  BY <1>3, MoveMaps DEF Cursor
<1>4. CASE \E c \in Char : Typed(c)
  <2>1. PICK c \in Char : typech(c, tty_cur, screen) /\ UNCHANGED hist_linevars
    BY <1>4 DEF Typed
  <2>2. QED
    BY <1>1, <2>1, InsertMaps
<1>5. CASE Rubout
  <2>1. CASE tty_cur > 0
    <3>1. delch(tty_cur - 1, << BS >>)
      BY <1>5, <2>1 DEF Rubout
    <3>2. tty_cur - 1 \in 0 .. Len(tty_buf) - 1
      BY <1>1, <2>1
    <3>3. QED
      BY <1>1, <3>1, <3>2, DeleteMaps
  <2>2. CASE ~ (tty_cur > 0)
    BY <1>2, <1>5, <2>2 DEF Rubout
  <2>3. QED
    BY <2>1, <2>2
<1>6. CASE DeleteAtCursor
  <2>1. CASE tty_cur # Len(tty_buf)
    <3>1. delch(tty_cur, << >>)
      BY <1>6, <2>1 DEF DeleteAtCursor
    <3>2. tty_cur \in 0 .. Len(tty_buf) - 1
      BY <1>1, <2>1
    <3>3. QED
      BY <1>1, <3>1, <3>2, DeleteMaps
  <2>2. CASE ~ (tty_cur # Len(tty_buf))
    BY <1>2, <1>6, <2>2 DEF DeleteAtCursor
  <2>3. QED
    BY <2>1, <2>2
<1>7. CASE to_end
  <2>1. Len(tty_buf) \in 0 .. Len(tty_buf)
    BY <1>1
  <2>2. QED
    BY <1>3, <1>7, <2>1 DEF to_end
<1>8. CASE to_beg
  <2>1. 0 \in 0 .. Len(tty_buf)
    BY <1>1
  <2>2. QED
    BY <1>3, <1>8, <2>1 DEF to_beg
<1>9. CASE cur_left
  <2>1. CASE tty_cur > 0
    <3>1. tty_cur - 1 \in 0 .. Len(tty_buf)
      BY <1>1, <2>1
    <3>2. QED
      BY <1>3, <1>9, <2>1, <3>1 DEF cur_left
  <2>2. CASE ~ (tty_cur > 0)
    BY <1>2, <1>9, <2>2 DEF cur_left
  <2>3. QED
    BY <2>1, <2>2
<1>10. CASE cur_right
  <2>1. CASE tty_cur # Len(tty_buf)
    <3>1. tty_cur + 1 \in 0 .. Len(tty_buf)
      BY <1>1, <2>1
    <3>2. QED
      BY <1>3, <1>10, <2>1, <3>1 DEF cur_right
  <2>2. CASE ~ (tty_cur # Len(tty_buf))
    BY <1>2, <1>10, <2>2 DEF cur_right
  <2>3. QED
    BY <2>1, <2>2
<1>11. CASE Escape \/ Tab
  <2>1. UNCHANGED << line_linevars, hist_linevars >>
    BY <1>11 DEF Escape, Tab
  <2>2. QED
    BY <2>1, BeepMaps
<1>12. CASE Unknown
  BY <1>2, <1>12 DEF Unknown
<1>13. CASE Help
  <2>1. /\ UNCHANGED << tty_buf, changed, hist_linevars >>
        /\ tty_cur' = Len(tty_buf)
    BY <1>13 DEF Help
  <2>2. tty_cur' \in 0 .. Len(tty_buf)
    BY <1>1, <2>1
  <2>3. QED
    BY <2>1, <2>2, MoveMaps
<1>14. QED
  BY <1>4, <1>5, <1>6, <1>7, <1>8, <1>9, <1>10, <1>11, <1>12, <1>13

(* The completion, and the steps of the command line. *)
LEMMA CommandMaps ==
  ASSUME LineInv, TabInv, NEW ls, NEW p, Placed(histbuf, hist_idx, ls, p),
         \/ Complete
         \/ handle_cmd \/ nk_set_echo \/ nk_cli_disable \/ nk_cli_enable
  PROVE  Mapped
<1>1. /\ BufferOK /\ tty_cur \in 0 .. Len(tty_buf) /\ Len(tty_buf) \in Nat
  BY LenProperties DEF LineInv, BufferOK
<1>2. CASE CompleteNone \/ CompleteMany
  <2>1. /\ UNCHANGED << tty_buf, changed, hist_linevars >>
        /\ tty_cur' = TabCur
    BY <1>2 DEF CompleteNone, CompleteMany
  <2>2. TabCur \in 0 .. Len(tty_buf)
    BY <1>1 DEF TabCur
  <2>3. tty_cur' \in 0 .. Len(tty_buf)
    BY <2>1, <2>2
  <2>4. QED
    BY <2>1, <2>3, MoveMaps
<1>3. CASE CompleteOne
  <2>1. PICK c \in NextChars :
          /\ NextChars = {c} /\ typech(c, TabCur, TabScreen)
          /\ phase = "tab" /\ UNCHANGED hist_linevars
    BY <1>3 DEF CompleteOne
  <2>2. TabCur = tty_cur
    <3>1. CASE Listed
      BY <2>1, <3>1 DEF Listed, TabInv, TabCur
    <3>2. CASE ~Listed
      BY <3>2 DEF TabCur
    <3>3. QED
      BY <3>1, <3>2
  <2>3. c \in Char
    BY NextCharsOK DEF LineInv
  <2>4. typech(c, tty_cur, TabScreen)
    BY <2>1, <2>2
  <2>5. QED
    BY <1>1, <2>1, <2>3, <2>4, InsertMaps
<1>4. CASE handle_cmd
  <2>1. \/ UNCHANGED << line_linevars, hist_linevars >>
        \/ nk_readline /\ UNCHANGED hist_linevars
    BY <1>4 DEF handle_cmd
  <2>2. QED
    BY <2>1, BeepMaps, RestartMaps
<1>5. CASE nk_set_echo \/ nk_cli_disable
  <2>1. UNCHANGED << line_linevars, hist_linevars >>
    BY <1>5 DEF nk_set_echo, nk_cli_disable
  <2>2. QED
    BY <2>1, BeepMaps
<1>6. CASE nk_cli_enable
  <2>1. nk_readline /\ UNCHANGED hist_linevars
    BY <1>6 DEF nk_cli_enable
  <2>2. QED
    BY <2>1, RestartMaps
<1>7. QED
  BY <1>2, <1>3, <1>4, <1>5, <1>6 DEF Complete

(* The invariant that the refinement needs. *)
EditInv ==
  LineInv /\ TabInv /\ \E ls, p : Placed(histbuf, hist_idx, ls, p)

(* The editor begins with an empty line and an empty history. *)
LEMMA EditInit == LineInit => EditInv /\ Editor!Init
<1> SUFFICES ASSUME LineInit PROVE EditInv /\ Editor!Init
  OBVIOUS
<1>1. /\ tty_buf = << >> /\ tty_cur = 0 /\ changed = FALSE
      /\ histbuf = << >> /\ hist_idx = 0 /\ tab_count = 0
  BY DEF LineInit
<1>2. Placed(histbuf, hist_idx, << >>, 1)
  BY <1>1, PlacedEmpty
<1>3. TabInv
  BY <1>1 DEF TabInv
<1>4. HistLines(histbuf) = << >> /\ Before(histbuf, hist_idx) + 1 = 1
  BY <1>2, PlacedLines
<1>5. Editor!Init
  BY <1>1, <1>4 DEF Editor!Init
<1>6. QED
  BY <1>2, <1>3, <1>5, LineInvInit DEF EditInv

(* Every step is one of NkEditor or leaves its variables as they are. *)
LEMMA EditStep ==
  EditInv /\ [LineNext]_linevars => EditInv' /\ [Editor!Next]_(Editor!vars)
<1> SUFFICES ASSUME EditInv, [LineNext]_linevars
             PROVE  EditInv' /\ [Editor!Next]_(Editor!vars)
  OBVIOUS
<1>1. LineInv /\ TabInv
  BY DEF EditInv
<1>2. PICK ls, p : Placed(histbuf, hist_idx, ls, p)
  BY DEF EditInv
<1>3. Mapped
  <2>1. CASE KeyStep
    <3>1. BufferOK
      BY <1>1 DEF LineInv
    <3>2. CASE hist_up
      BY <1>2, <3>1, <3>2, HistUpMaps
    <3>3. CASE hist_down
      BY <1>2, <3>1, <3>3, HistDownMaps, HistLastMaps
    <3>4. CASE Cancel
      BY <1>2, <3>1, <3>4, CancelMaps
    <3>5. CASE Enter
      BY <1>1, <1>2, <3>5, EnterMaps
    <3>6. QED
      BY <1>1, <1>2, <2>1, <3>2, <3>3, <3>4, <3>5, EditingMaps DEF KeyStep
  <2>2. CASE UNCHANGED linevars
    <3>1. UNCHANGED << line_linevars, hist_linevars >>
      BY <2>2 DEF linevars, line_linevars, hist_linevars
    <3>2. QED
      BY <1>2, <3>1, BeepMaps
  <2>3. QED
    BY <1>1, <1>2, <2>1, <2>2, CommandMaps DEF LineNext
<1>4. LineInv' /\ TabInv'
  BY <1>1, LineInvStep, TabInvStep
<1>5. (\E ms, q : Placed(histbuf, hist_idx, ms, q))'
  BY <1>3 DEF Mapped
<1>6. EditInv'
  BY <1>4, <1>5 DEF EditInv
<1>7. QED
  BY <1>3, <1>6 DEF Mapped

(***************************************************************************)
(* The line editor keeps the promise of NkEditor: cut at their Nuls, the   *)
(* bytes of histbuf are the lines of a history, hist_idx is a place in it, *)
(* and every key, completion and command does to them, to the line and to  *)
(* the cursor what one step of NkEditor does, or nothing.  In particular   *)
(* no line is torn by hist_ins or hist_del, and no more of the oldest      *)
(* lines go than have to.                                                  *)
(***************************************************************************)
THEOREM EditorImplemented == LineSpec => ImplementsEditor
<1>1. LineInit => EditInv /\ Editor!Init
  BY EditInit
<1>2. EditInv /\ [LineNext]_linevars => EditInv' /\ [Editor!Next]_(Editor!vars)
  BY EditStep
<1>3. QED
  BY <1>1, <1>2, PTL DEF LineSpec, ImplementsEditor, Editor!Spec

=============================================================================
