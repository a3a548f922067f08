------------------------------- MODULE NkUart -------------------------------
(***************************************************************************)
(* The receiving side of the console, src/nkuart_stm32.c: the receive      *)
(* interrupt fills a ring buffer, the function registered with             *)
(* nk_set_uart_callback empties it with nk_getc, and the work queue of     *)
(* nksched carries the wakeup from the one to the other.                   *)
(*                                                                         *)
(* The interrupt handler comes between any two steps of the reader, except *)
(* inside the lock that nk_set_uart_callback holds.  An interrupt that     *)
(* finds two characters is the same as two that find one each.             *)
(* Characters are numbered in the order of their arrival.                  *)
(***************************************************************************)
EXTENDS Integers, SequencesExt

CONSTANTS
  RxSize,    \* NK_UART_RXBUF_SIZE
  CountMod,  \* where the counters rx_buf_rd and rx_buf_wr wrap (2^32)
  NItems,    \* items in the work queue
  Others,    \* the other functions that use the work queue
  Orders,    \* which access of nk_getc comes first, see Accesses
  MaxChars   \* bound: characters that arrive

ASSUME UartConstantsOK ==
  /\ RxSize \in Nat \ {0}
  /\ CountMod \in Nat /\ CountMod % RxSize = 0 /\ CountMod > RxSize
  /\ NItems \in Nat /\ MaxChars \in Nat
  /\ "reader" \notin Others
  /\ Orders \subseteq {"load", "store"} /\ Orders # {}

VARIABLES
  rx_buf, rx_buf_rd, rx_buf_wr,
  waiting_rx_task, \* a function waits for the interrupt
  workq,           \* the functions in the work queue, all of them due
  pc,              \* where the reader is
  slot, ch, todo,  \* nk_getc: the slot to read, the result, accesses to make
  arrived,         \* ghost: characters that have come in
  accepted,        \* ghost: those that found space in the buffer
  consumed         \* ghost: what nk_getc has returned

ring == << rx_buf, rx_buf_rd, rx_buf_wr >>
getc == << slot, ch, todo >>
arrivals == << arrived, accepted >>
vars == << ring, waiting_rx_task, workq, pc, getc, arrivals, consumed >>

Chars == 1 .. MaxChars
Slots == 0 .. RxSize - 1

TypeOK ==
  /\ rx_buf \in [Slots -> Chars \cup {0}]
  /\ rx_buf_rd \in 0 .. CountMod - 1 /\ rx_buf_wr \in 0 .. CountMod - 1
  /\ waiting_rx_task \in BOOLEAN
  /\ workq \in Seq(Others \cup {"reader"}) /\ Len(workq) <= NItems
  /\ pc \in {"main loop", "getc", "accesses", "register"}
  /\ slot \in Slots /\ ch \in Chars \cup {0}
  /\ todo \in Seq({"load", "store"})
  /\ arrived \in 0 .. MaxChars
  /\ accepted \in Seq(Chars) /\ consumed \in Seq(Chars \cup {0})

(* static storage; the program registers its reader first of all *)
Init ==
  /\ rx_buf = [i \in Slots |-> 0]
  /\ rx_buf_rd = 0 /\ rx_buf_wr = 0
  /\ waiting_rx_task = FALSE
  /\ workq = << >>
  /\ pc = "register"
  /\ slot = 0 /\ ch = 0 /\ todo = << >>
  /\ arrived = 0 /\ accepted = << >> /\ consumed = << >>

(* mutant: the counter is not reduced when it wraps *)
IncNoWrap(n) == n + 1

Inc(n) == (n + 1) % CountMod
Slot(n) == n % RxSize
Unread(rd, wr) == (wr - rd) % CountMod
Empty == rx_buf_rd = rx_buf_wr

Queued(f) == \E k \in 1 .. Len(workq) : workq[k] = f

(* nk_sched with delay 0: behind everything that is due, once per task id; *)
(* nothing when no item is free                                            *)
nk_sched(f) ==
  \/ \E k \in 1 .. Len(workq) :
       /\ workq[k] = f
       /\ workq' = Append(RemoveAt(workq, k), f)
  \/ /\ ~Queued(f)
     /\ Len(workq) < NItems
     /\ workq' = Append(workq, f)
  \/ /\ ~Queued(f)
     /\ Len(workq) >= NItems
     /\ UNCHANGED workq

-----------------------------------------------------------------------------
(* The receive interrupt *)

(* mutant: the buffer is not tested for space *)
PutAlways(ch_in) ==
  /\ rx_buf' = [rx_buf EXCEPT ![Slot(rx_buf_wr)] = ch_in]
  /\ rx_buf_wr' = Inc(rx_buf_wr)
  /\ accepted' = Append(accepted, ch_in)

Put(ch_in) ==
  \/ /\ Unread(rx_buf_rd, rx_buf_wr) # RxSize
     /\ rx_buf' = [rx_buf EXCEPT ![Slot(rx_buf_wr)] = ch_in]
     /\ rx_buf_wr' = Inc(rx_buf_wr)
     /\ accepted' = Append(accepted, ch_in)
  \/ /\ Unread(rx_buf_rd, rx_buf_wr) = RxSize
     /\ UNCHANGED << rx_buf, rx_buf_wr, accepted >>

Receives ==
  /\ arrived < MaxChars
  /\ arrived' = arrived + 1
  /\ Put(arrived + 1)

(* mutant: the waiting function is scheduled but stays registered *)
WakesForever ==
  \/ /\ waiting_rx_task
     /\ nk_sched("reader")
     /\ UNCHANGED waiting_rx_task
  \/ /\ ~waiting_rx_task
     /\ UNCHANGED << workq, waiting_rx_task >>

Wakes ==
  \/ /\ waiting_rx_task
     /\ nk_sched("reader")
     /\ waiting_rx_task' = FALSE
  \/ /\ ~waiting_rx_task
     /\ UNCHANGED << workq, waiting_rx_task >>

nk_uart_irq_handler ==
  /\ Receives \/ UNCHANGED << rx_buf, rx_buf_wr, arrivals >>
  /\ Wakes
  /\ UNCHANGED << rx_buf_rd, pc, getc, consumed >>

-----------------------------------------------------------------------------
(* The reader *)

Goes(to) == pc' = to

(***************************************************************************)
(* ch = rx_buf[rx_buf_rd++ & mask] loads the slot and stores the counter.  *)
(* Neither is volatile, so the compiler chooses the order.                 *)
(***************************************************************************)
Accesses(first) ==
  IF first = "load" THEN << "load", "store" >> ELSE << "store", "load" >>

(* mutant: the buffer is not looked at before the function waits *)
RegisterAlwaysWaits ==
  /\ pc = "register"
  /\ waiting_rx_task' = TRUE
  /\ Goes("main loop")
  /\ UNCHANGED << ring, workq, getc, arrivals, consumed >>

nk_set_uart_callback ==
  /\ pc = "register"
  /\ \/ Empty /\ UNCHANGED workq
     \/ ~Empty /\ nk_sched("reader")
  /\ waiting_rx_task' = Empty
  /\ Goes("main loop")
  /\ UNCHANGED << ring, getc, arrivals, consumed >>

nk_getc_test ==
  /\ pc = "getc"
  /\ IF Empty
     THEN Goes("register") /\ UNCHANGED << slot, todo >>
     ELSE /\ slot' = Slot(rx_buf_rd)
          /\ \E o \in Orders : todo' = Accesses(o)
          /\ Goes("accesses")
  /\ UNCHANGED << ring, waiting_rx_task, workq, ch, arrivals, consumed >>

Does(access) ==
  /\ pc = "accesses"
  /\ todo # << >> /\ Head(todo) = access
  /\ todo' = Tail(todo)

nk_getc_load ==
  /\ Does("load")
  /\ ch' = rx_buf[slot]
  /\ UNCHANGED << ring, waiting_rx_task, workq, pc, slot, arrivals, consumed >>

nk_getc_store ==
  /\ Does("store")
  /\ rx_buf_rd' = Inc(rx_buf_rd)
  /\ UNCHANGED << rx_buf, rx_buf_wr, waiting_rx_task, workq, pc, slot, ch,
                  arrivals, consumed >>

(* the caller asks for the next character or stops for now *)
nk_getc_return ==
  /\ pc = "accesses"
  /\ todo = << >>
  /\ consumed' = Append(consumed, ch)
  /\ \E next \in {"getc", "register"} : Goes(next)
  /\ UNCHANGED << ring, waiting_rx_task, workq, getc, arrivals >>

-----------------------------------------------------------------------------
(* The work queue *)

Dispatch ==
  /\ pc = "main loop"
  /\ workq # << >>
  /\ workq' = Tail(workq)
  /\ Goes(IF Head(workq) = "reader" THEN "getc" ELSE "main loop")
  /\ UNCHANGED << ring, waiting_rx_task, getc, arrivals, consumed >>

OtherWork ==
  /\ \E f \in Others : nk_sched(f)
  /\ UNCHANGED << ring, waiting_rx_task, pc, getc, arrivals, consumed >>

-----------------------------------------------------------------------------

nk_getc == nk_getc_test \/ nk_getc_load \/ nk_getc_store \/ nk_getc_return

Reader == nk_set_uart_callback \/ nk_getc

Next == nk_uart_irq_handler \/ Reader \/ Dispatch \/ OtherWork

Spec == Init /\ [][Next]_vars

(***************************************************************************)
(* The processor goes on with the reader and with the main loop (there is  *)
(* no preemption).  The interrupt and other functions owe nothing.         *)
(***************************************************************************)
FairSpec == Spec /\ WF_vars(Reader) /\ WF_vars(Dispatch)

-----------------------------------------------------------------------------
(* Properties *)

(***************************************************************************)
(* nk_getc returns the characters that the interrupt accepted in their     *)
(* order, none skipped, repeated or garbled, although the counters wrap    *)
(* and the interrupt writes to the buffer during the call.                 *)
(***************************************************************************)
InOrder == IsPrefix(consumed, accepted)

(***************************************************************************)
(* The reader is in one place: registered with the interrupt, in the work  *)
(* queue, or running.  It does not wait while there is something to read.  *)
(***************************************************************************)
Running == pc # "main loop"

ReaderReachable ==
  /\ waiting_rx_task \/ Queued("reader") \/ Running
  /\ waiting_rx_task => Empty /\ ~Queued("reader") /\ ~Running
  /\ ~(Queued("reader") /\ Running)

(***************************************************************************)
(* Every character that the interrupt accepts is read in the end: no       *)
(* wakeup is lost between the last nk_getc and nk_set_uart_callback.       *)
(***************************************************************************)
AllRead ==
  \A n \in 1 .. MaxChars : Len(accepted) >= n ~> Len(consumed) >= n
=============================================================================
