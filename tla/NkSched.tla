------------------------------ MODULE NkSched ------------------------------
(***************************************************************************)
(* The work queue of libnklabs (src/nksched.c), as one main loop, the      *)
(* functions it calls, and the interrupt handlers that call the same       *)
(* interface.  Everything between nk_irq_lock and nk_irq_unlock is one     *)
(* atomic step; interrupts are taken in between, never while the main loop *)
(* holds the lock on its way to sleep.                                     *)
(*                                                                         *)
(* Scheduler time is a w-bit counter: nk_time_t takes TimeMod values and   *)
(* is compared by the sign of a wrapped difference.                        *)
(***************************************************************************)
EXTENDS Integers, Sequences, SequencesExt

CONSTANTS
  TimeMod,     \* number of values of nk_time_t (2^32 on the STM32)
  Scale,       \* NK_TIME_COUNTS_PER_SECOND, and the 1000 it is divided by
  MaxLag,      \* bound: no pending function is kept waiting longer than this
  Delays,      \* the delays, in milliseconds, that callers pass
  Work,        \* the (func, data) pairs that callers submit
  NItems,      \* items of queue[] other than queue[0], NK_WORK_QUEUE_SIZE - 1
  MaxTid,      \* bound: number of nk_alloc_tid calls
  SleepModes,  \* the values callers pass to nk_set_sched_sleep_mode
  NoWork       \* no function is being called

Half == TimeMod \div 2
Time == 0 .. TimeMod - 1
Tid  == 1 .. MaxTid
MaxTicks == (TimeMod - 1) \div Scale

(***************************************************************************)
(* A converted delay and a tolerated lag together stay within the half of  *)
(* the time range that the signed comparison can tell apart.  The overflow *)
(* of nk_convert_delay itself makes the first bound a fact of the code.    *)
(***************************************************************************)
ASSUME ConstantsOK ==
  /\ Half \in Nat \ {0}
  /\ TimeMod = 2 * Half
  /\ Scale \in Nat \ {0}
  /\ MaxTicks \in Nat
  /\ MaxLag \in Nat
  /\ MaxTicks + MaxLag < Half
  /\ Delays \subseteq Time
  /\ NItems \in Nat
  /\ MaxTid \in Nat
  /\ NoWork \notin Work

VARIABLES
  now,         \* nk_get_time()
  queue,       \* the work queue, from queue->next to the end of the list
  free,        \* number of items on freelist
  next_tid,
  current_tid,
  deepness,
  pc,          \* main thread: "loop", "run" (a function) or "wait" (locked)
  func,        \* nk_sched_loop's local copy of the function and its data
  irq,         \* interrupts that are raised and not yet taken
  rtn,         \* value returned by the latest call of the interface
  order        \* history: the pending tids in the order of their submission

interface == << queue, free, rtn, order >>
vars == << now, queue, free, next_tid, current_tid, deepness, pc, func, irq,
           rtn, order >>

(***************************************************************************)
(* Ghost fields of an item: left is the true number of ticks until it is   *)
(* due, ms the true number of milliseconds until the caller's delay is     *)
(* over; both go on counting below 0.                                      *)
(***************************************************************************)
Item == [tid : Tid, work : Work, when : Time, left : Int, ms : Int]

TypeOK ==
  /\ now \in Time
  /\ queue \in Seq(Item)
  /\ free \in 0 .. NItems
  /\ next_tid \in 0 .. MaxTid
  /\ current_tid \in 0 .. MaxTid
  /\ deepness \in {0} \cup SleepModes
  /\ pc \in {"loop", "run", "wait"}
  /\ func \in Work \cup {NoWork}
  /\ irq \subseteq {"tick", "isr"}
  /\ rtn \in {0, 1}

Init ==
  /\ now = 0
  /\ queue = << >>
  /\ free = NItems
  /\ next_tid = 0
  /\ current_tid = 0
  /\ deepness = 0
  /\ pc = "run"              \* main(), before it enters nk_sched_loop
  /\ func = NoWork
  /\ irq = {}
  /\ rtn = 0
  /\ order = << >>

-----------------------------------------------------------------------------
(* Time *)

(* mutant: nk_time_t addition that does not wrap *)
PlusNoWrap(a, b) == a + b

Plus(a, b) == IF a + b < TimeMod THEN a + b ELSE a + b - TimeMod

(* mutant: times compared as unsigned numbers *)
UnsignedCompare(a, b) == a - b

(* (int32_t)(a - b) *)
Signed(a, b) ==
  LET d == a - b
  IN  IF d >= Half THEN d - TimeMod ELSE IF d < -Half THEN d + TimeMod ELSE d

(* the multiplication is done in uint32_t, before the division *)
nk_convert_delay(ms) == ((ms * Scale) % TimeMod) \div Scale

-----------------------------------------------------------------------------
(* The work queue *)

Found(t, k) == queue[k].tid = t /\ \A j \in 1 .. k - 1 : queue[j].tid # t
Queued(t) == \E k \in 1 .. Len(queue) : queue[k].tid = t

NewItem(t, w, ms) ==
  LET ticks == nk_convert_delay(ms)
  IN  [tid |-> t, work |-> w, when |-> Plus(now, ticks),
       left |-> ticks, ms |-> ms]

(* mutant: the new item goes before the items due at the same time *)
EnqueBeforeEquals(q, e) ==
  \E k \in 1 .. Len(q) + 1 :
    /\ \A j \in 1 .. k - 1 : Signed(q[j].when, e.when) < 0
    /\ k <= Len(q) => Signed(q[k].when, e.when) >= 0
    /\ queue' = InsertAt(q, k, e)

(* before the first item of q that is ahead of e in time, or at the end *)
Enque(q, e) ==
  \E k \in 1 .. Len(q) + 1 :
    /\ \A j \in 1 .. k - 1 : Signed(q[j].when, e.when) <= 0
    /\ k <= Len(q) => Signed(q[k].when, e.when) > 0
    /\ queue' = InsertAt(q, k, e)

Withdrawn(t) ==
  RemoveAt(order, CHOOSE a \in 1 .. Len(order) : order[a] = t)

Resubmitted(t) == Append(IF Queued(t) THEN Withdrawn(t) ELSE order, t)

(* mutant: a pending item is searched for but not taken out of the queue *)
nk_sched_NoDeque(t, w, ms) ==
  /\ free > 0
  /\ Enque(queue, NewItem(t, w, ms))
  /\ order' = Resubmitted(t)
  /\ free' = free - 1
  /\ rtn' = IF Queued(t) THEN 0 ELSE 1

nk_sched(t, w, ms) ==
  LET e == NewItem(t, w, ms) IN
  \/ \E k \in 1 .. Len(queue) :
       /\ Found(t, k)
       /\ Enque(RemoveAt(queue, k), e)
       /\ order' = Resubmitted(t)
       /\ rtn' = 0
       /\ UNCHANGED free
  \/ /\ ~Queued(t)
     /\ free > 0
     /\ Enque(queue, e)
     /\ order' = Resubmitted(t)
     /\ free' = free - 1
     /\ rtn' = 1
  \/ /\ ~Queued(t)
     /\ free = 0
     /\ rtn' = 1
     /\ UNCHANGED << queue, free, order >>

nk_resched(t, w, ms) ==
  \/ \E k \in 1 .. Len(queue) :
       /\ Found(t, k)
       /\ Enque(RemoveAt(queue, k), NewItem(t, w, ms))
       /\ order' = Resubmitted(t)
       /\ rtn' = 1
       /\ UNCHANGED free
  \/ /\ ~Queued(t)
     /\ rtn' = 0
     /\ UNCHANGED << queue, free, order >>

(* mutant: the item is taken out of the queue and not given back *)
nk_unsched_NoFree(t) ==
  \/ \E k \in 1 .. Len(queue) :
       /\ Found(t, k)
       /\ queue' = RemoveAt(queue, k)
       /\ order' = Withdrawn(t)
       /\ rtn' = 1
       /\ UNCHANGED free
  \/ /\ ~Queued(t)
     /\ rtn' = 0
     /\ UNCHANGED << queue, free, order >>

nk_unsched(t) ==
  \/ \E k \in 1 .. Len(queue) :
       /\ Found(t, k)
       /\ queue' = RemoveAt(queue, k)
       /\ order' = Withdrawn(t)
       /\ free' = free + 1
       /\ rtn' = 1
  \/ /\ ~Queued(t)
     /\ rtn' = 0
     /\ UNCHANGED << queue, free, order >>

nk_check(t) ==
  /\ rtn' = IF Queued(t) THEN 1 ELSE 0
  /\ UNCHANGED << queue, free, order >>

Call(t) ==
  \/ \E w \in Work, ms \in Delays : nk_sched(t, w, ms) \/ nk_resched(t, w, ms)
  \/ nk_unsched(t)
  \/ nk_check(t)

-----------------------------------------------------------------------------
(* Functions called by the main loop, and main() before it *)

nk_alloc_tid ==
  /\ pc = "run"
  /\ next_tid < MaxTid
  /\ next_tid' = next_tid + 1
  /\ UNCHANGED << now, current_tid, deepness, pc, func, irq, interface >>

nk_set_sched_sleep_mode(m) ==
  /\ pc = "run"
  /\ deepness' = m
  /\ UNCHANGED << now, next_tid, current_tid, pc, func, irq, interface >>

TaskCalls ==
  /\ pc = "run"
  /\ \E t \in 1 .. next_tid : Call(t)
  /\ UNCHANGED << now, next_tid, current_tid, deepness, pc, func, irq >>

TaskReturns ==
  /\ pc = "run"
  /\ pc' = "loop"
  /\ func' = NoWork
  /\ UNCHANGED << now, next_tid, current_tid, deepness, irq, interface >>

-----------------------------------------------------------------------------
(* nk_sched_loop *)

(* mutant: the head of the queue is called one tick before it is due *)
HeadDueOneTickEarly == queue # << >> /\ Signed(now, queue[1].when) >= -1

HeadDue == queue # << >> /\ Signed(now, queue[1].when) >= 0

Dispatch ==
  /\ pc = "loop"
  /\ HeadDue
  /\ queue' = RemoveAt(queue, 1)
  /\ order' = Withdrawn(queue[1].tid)
  /\ free' = free + 1
  /\ current_tid' = queue[1].tid
  /\ func' = queue[1].work
  /\ pc' = "run"
  /\ UNCHANGED << now, next_tid, deepness, irq, rtn >>

(* interrupts stay masked until the processor has gone to sleep *)
Idle ==
  /\ pc = "loop"
  /\ ~HeadDue
  /\ pc' = IF deepness = 0 THEN "loop" ELSE "wait"
  /\ UNCHANGED << now, next_tid, current_tid, deepness, func, irq, interface >>

(* mutant: the tick timer does not wake the processor up *)
WakeUpNotByTick ==
  /\ pc = "wait"
  /\ "isr" \in irq
  /\ pc' = "loop"
  /\ UNCHANGED << now, next_tid, current_tid, deepness, func, irq, interface >>

(* a pending interrupt ends the wait, then is taken as the lock is released *)
WakeUp ==
  /\ pc = "wait"
  /\ irq # {}
  /\ pc' = "loop"
  /\ UNCHANGED << now, next_tid, current_tid, deepness, func, irq, interface >>

-----------------------------------------------------------------------------
(* Interrupts *)

Masked == pc = "wait"

Raise(source) ==
  /\ source \notin irq
  /\ irq' = irq \cup {source}
  /\ UNCHANGED << now, next_tid, current_tid, deepness, pc, func, interface >>

Closer(e) == [e EXCEPT !.left = @ - 1, !.ms = @ - 1]

(* time passes for every pending item; nobody is overdue beyond MaxLag *)
TickHandler ==
  /\ "tick" \in irq
  /\ ~Masked
  /\ \A k \in 1 .. Len(queue) : queue[k].left > -MaxLag
  /\ now' = Plus(now, 1)
  /\ queue' = [k \in 1 .. Len(queue) |-> Closer(queue[k])]
  /\ irq' = irq \ {"tick"}
  /\ UNCHANGED << free, next_tid, current_tid, deepness, pc, func, rtn, order >>

InterruptCalls ==
  /\ "isr" \in irq
  /\ ~Masked
  /\ \E t \in 1 .. next_tid : Call(t)
  /\ irq' = irq \ {"isr"}
  /\ UNCHANGED << now, next_tid, current_tid, deepness, pc, func >>

-----------------------------------------------------------------------------

MainLoop == Dispatch \/ Idle \/ WakeUp

Next ==
  \/ nk_alloc_tid
  \/ \E m \in SleepModes : nk_set_sched_sleep_mode(m)
  \/ TaskCalls
  \/ TaskReturns
  \/ MainLoop
  \/ Raise("tick")
  \/ Raise("isr")
  \/ TickHandler
  \/ InterruptCalls

Spec == Init /\ [][Next]_vars

(***************************************************************************)
(* Functions return to the main loop (there is no preemption), the main    *)
(* loop runs and the tick timer keeps raising its interrupt.  The          *)
(* processor takes a pending interrupt whenever it is unmasked, however    *)
(* briefly, hence the strong fairness.  Nothing is assumed of the other    *)
(* interrupts or of what functions submit.                                 *)
(***************************************************************************)
Fairness ==
  /\ WF_vars(TaskReturns)
  /\ WF_vars(MainLoop)
  /\ WF_vars(Raise("tick"))
  /\ SF_vars(TickHandler)

FairSpec == Spec /\ Fairness

-----------------------------------------------------------------------------
(* Properties *)

(***************************************************************************)
(* alloc_item, free_item, deque and enque neither lose nor duplicate an    *)
(* item: every item is queued or free, whatever mix of calls, dispatches   *)
(* and interrupts ran.                                                     *)
(***************************************************************************)
ItemsConserved == Len(queue) + free = NItems

(***************************************************************************)
(* "There can only be a single function with a given task ID number        *)
(* waiting in the queue" (doc/nksched.md), although a task, main() and any *)
(* interrupt handler submit, cancel and resubmit it in any order.          *)
(***************************************************************************)
OneItemPerTid ==
  \A i, j \in 1 .. Len(queue) : queue[i].tid = queue[j].tid => i = j

(***************************************************************************)
(* The queue is in the order in which its items really become due, while   *)
(* the code only compares 32-bit times that wrap, and items that are       *)
(* already overdue with items far in the future.  The main loop looks at   *)
(* the first item alone, so an item out of order would be late.            *)
(***************************************************************************)
Sorted ==
  \A i, j \in 1 .. Len(queue) : i < j => queue[i].left <= queue[j].left

(***************************************************************************)
(* The wrapped time stored in an item stands for its true due time, and    *)
(* stays within the half of the time range that the comparison can order.  *)
(* If no delay overflows in nk_convert_delay, the item is due when its     *)
(* caller's delay is over.                                                 *)
(***************************************************************************)
Wrapped(t) ==
  IF t < 0 THEN t + TimeMod ELSE IF t >= TimeMod THEN t - TimeMod ELSE t

DelaysInRange == \A ms \in Delays : ms * Scale < TimeMod

OnTime(e, t) ==
  /\ e.left \in -MaxLag .. MaxTicks
  /\ e.when = Wrapped(t + e.left)
  /\ DelaysInRange => e.ms = e.left

TimesAgree == \A k \in 1 .. Len(queue) : OnTime(queue[k], now)

(* The inductive invariant: the four facts together preserve themselves. *)
IInv == TypeOK /\ ItemsConserved /\ OneItemPerTid /\ Sorted /\ TimesAgree

(***************************************************************************)
(* "The main loop will call it a minimum of 'delay' ms in the future"      *)
(* (inc/nksched.h): a function is dispatched only after as many ticks as   *)
(* its caller asked for.                                                   *)
(***************************************************************************)
NeverEarly == [][Dispatch => queue[1].ms <= 0]_vars

(***************************************************************************)
(* The calls that take a pending t out of the queue or put it in another   *)
(* place.                                                                  *)
(***************************************************************************)
Touch(t) ==
  \E w \in Work, ms \in Delays :
    nk_sched(t, w, ms) \/ nk_resched(t, w, ms) \/ nk_unsched(t)

(***************************************************************************)
(* No wakeup is lost and nothing starves: a pending function that is not   *)
(* resubmitted or cancelled for ever is called, whatever the others do --  *)
(* among them a function that always resubmits itself with delay 0, and an *)
(* interrupt that arrives between the test of the queue and the sleep.     *)
(***************************************************************************)
EventuallyCalled ==
  \A t \in Tid :
    \/ []<><<Queued(t) /\ Touch(t)>>_vars
    \/ Queued(t) ~> ~Queued(t)

(***************************************************************************)
(* The abstract specification: timers in the order of their submission.    *)
(***************************************************************************)
Pending ==
  [o \in 1 .. Len(order) |->
     LET k == CHOOSE k \in 1 .. Len(queue) : queue[k].tid = order[o]
     IN  [tid |-> order[o], work |-> queue[k].work, left |-> queue[k].ms]]

Timers == INSTANCE NkTimers WITH pending <- Pending, called <- func,
                                 called_tid <- current_tid,
                                 Capacity <- NItems

(***************************************************************************)
(* The work queue implements the timer service: the function and data that *)
(* run are those submitted last for their tid, after their delay, the      *)
(* earliest first and in FIFO order among equals, and cancelled or replaced*)
(* submissions never run.                                                  *)
(***************************************************************************)
ImplementsTimers == Timers!Spec

=============================================================================
