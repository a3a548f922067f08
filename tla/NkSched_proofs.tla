--------------------------- MODULE NkSched_proofs ---------------------------
(***************************************************************************)
(* Proofs about the work queue, for every size of the queue, every width   *)
(* of nk_time_t and every set of delays: its invariants, and that it       *)
(* implements the timer service NkTimers.                                  *)
(***************************************************************************)
EXTENDS NkSched, NkLemmas

-----------------------------------------------------------------------------
(* Time *)

(* A converted delay is at most the quotient of the largest product. *)
LEMMA ConvertBound ==
  ASSUME NEW ms \in Delays
  PROVE  nk_convert_delay(ms) \in 0 .. MaxTicks
<1> DEFINE p == (ms * Scale) % TimeMod
<1>1. ms \in Nat /\ Scale \in Nat \ {0} /\ TimeMod \in Nat \ {0}
  BY ConstantsOK DEF Time
<1>2. p \in 0 .. TimeMod - 1
  BY <1>1
<1>3. p \div Scale \in Nat
  BY <1>1, <1>2
<1>4. p \div Scale <= (TimeMod - 1) \div Scale
  BY <1>1, <1>2
<1>5. QED
  BY <1>3, <1>4, ConstantsOK DEF nk_convert_delay, MaxTicks

(* A delay whose product does not overflow is converted exactly. *)
LEMMA ConvertExact ==
  ASSUME DelaysInRange, NEW ms \in Delays
  PROVE  nk_convert_delay(ms) = ms
<1>1. ms \in Nat /\ Scale \in Nat \ {0} /\ TimeMod \in Nat \ {0}
  BY ConstantsOK DEF Time
<1>2. ms * Scale \in 0 .. TimeMod - 1
  BY <1>1 DEF DelaysInRange
<1>3. (ms * Scale) % TimeMod = ms * Scale
  BY <1>1, <1>2
<1>4. (ms * Scale) \div Scale = ms
  BY <1>1
<1>5. QED
  BY <1>3, <1>4 DEF nk_convert_delay

(* The wrapped signed difference of two due times is their true distance. *)
LEMMA SignedIsDistance ==
  ASSUME NEW t \in Time, NEW x \in -MaxLag .. MaxTicks,
         NEW y \in -MaxLag .. MaxTicks
  PROVE  Signed(Wrapped(t + x), Wrapped(t + y)) = x - y
<1>1. Half \in Nat /\ TimeMod = 2 * Half /\ MaxTicks \in Nat /\ MaxLag \in Nat
      /\ MaxTicks + MaxLag < Half
  BY ConstantsOK
<1> HIDE DEF Half, MaxTicks
<1>2. QED
  BY <1>1 DEF Signed, Wrapped, Time

(* An item that is created now is on time. *)
LEMMA NewItemOnTime ==
  ASSUME now \in Time, NEW t \in Tid, NEW w \in Work, NEW ms \in Delays
  PROVE  /\ NewItem(t, w, ms) \in Item
         /\ NewItem(t, w, ms).tid = t
         /\ OnTime(NewItem(t, w, ms), now)
<1> DEFINE ticks == nk_convert_delay(ms)
<1>1. ticks \in 0 .. MaxTicks /\ (DelaysInRange => ms = ticks) /\ ms \in Int
  BY ConvertBound, ConvertExact, ConstantsOK DEF Time
<1>2. Half \in Nat \ {0} /\ TimeMod = 2 * Half /\ MaxTicks \in Nat /\ MaxLag \in Nat
      /\ MaxTicks + MaxLag < Half
  BY ConstantsOK
<1> HIDE DEF ticks, Half, MaxTicks
<1>3. Plus(now, ticks) \in Time /\ Plus(now, ticks) = Wrapped(now + ticks)
  BY <1>1, <1>2 DEF Plus, Wrapped, Time
<1>4. QED
  BY <1>1, <1>2, <1>3 DEF NewItem, Item, OnTime, ticks

-----------------------------------------------------------------------------
(* The queue as a whole *)

GoodQueue(q, t) ==
  /\ q \in Seq(Item)
  /\ \A i, j \in 1 .. Len(q) : q[i].tid = q[j].tid => i = j
  /\ \A i, j \in 1 .. Len(q) : i < j => q[i].left <= q[j].left
  /\ \A i \in 1 .. Len(q) : OnTime(q[i], t)

(* deque keeps the queue sorted, and no other item has the tid removed. *)
LEMMA RemoveGood ==
  ASSUME NEW q, NEW t, GoodQueue(q, t), NEW k \in 1 .. Len(q)
  PROVE  /\ GoodQueue(RemoveAt(q, k), t)
         /\ Len(RemoveAt(q, k)) = Len(q) - 1
         /\ \A i \in 1 .. Len(q) - 1 : RemoveAt(q, k)[i].tid # q[k].tid
<1> DEFINE r == RemoveAt(q, k)
<1>0. q \in Seq(Item) /\ Len(q) \in Nat
  BY LenProperties DEF GoodQueue
<1>1. /\ r \in Seq(Item) /\ Len(r) = Len(q) - 1
      /\ \A i \in 1 .. Len(q) - 1 : r[i] = IF i < k THEN q[i] ELSE q[i + 1]
  BY <1>0, RemoveAtProps
<1> DEFINE from(i) == IF i < k THEN i ELSE i + 1
<1>2. \A i \in 1 .. Len(r) :
        from(i) \in 1 .. Len(q) /\ from(i) # k /\ r[i] = q[from(i)]
  BY <1>0, <1>1
<1>3. \A i, j \in 1 .. Len(r) :
        (i < j => from(i) < from(j)) /\ (from(i) = from(j) => i = j)
  BY <1>0, <1>1
<1> HIDE DEF r, from
<1>4. GoodQueue(r, t)
  BY <1>1, <1>2, <1>3, SMTT(30) DEF GoodQueue
<1>5. \A i \in 1 .. Len(r) : r[i].tid # q[k].tid
  BY <1>2 DEF GoodQueue
<1>6. QED
  BY <1>1, <1>4, <1>5 DEF r

(* enque compares wrapped times and finds the place by the true due times. *)
LEMMA EnquePlace ==
  ASSUME now \in Time, NEW q \in Seq(Item), GoodQueue(q, now),
         NEW e \in Item, OnTime(e, now), Enque(q, e)
  PROVE  \E k \in 1 .. Len(q) + 1 :
           /\ queue' = InsertAt(q, k, e)
           /\ \A i \in 1 .. k - 1 : q[i].left <= e.left
           /\ \A i \in k .. Len(q) : e.left < q[i].left
<1>0. Len(q) \in Nat
  BY LenProperties
<1>1. PICK k \in 1 .. Len(q) + 1 :
        /\ \A j \in 1 .. k - 1 : Signed(q[j].when, e.when) <= 0
        /\ k <= Len(q) => Signed(q[k].when, e.when) > 0
        /\ queue' = InsertAt(q, k, e)
  BY DEF Enque
<1>2. MaxTicks \in Nat /\ MaxLag \in Nat
  BY ConstantsOK
<1>3. \A i \in 1 .. Len(q) :
        /\ q[i].left \in -MaxLag .. MaxTicks
        /\ Signed(q[i].when, e.when) = q[i].left - e.left
  BY SignedIsDistance DEF OnTime, GoodQueue
<1>4. e.left \in -MaxLag .. MaxTicks
  BY DEF OnTime
<1>5. \A i \in 1 .. k - 1 : q[i].left <= e.left
  BY <1>0, <1>1, <1>2, <1>3, <1>4, Z3
<1>6. ASSUME NEW i \in k .. Len(q)
      PROVE  e.left < q[i].left
  <2>1. k \in 1 .. Len(q) /\ i \in 1 .. Len(q)
    BY <1>0
  <2>2. e.left < q[k].left
    BY <1>1, <1>2, <1>3, <1>4, <2>1
  <2>3. k = i \/ q[k].left <= q[i].left
    BY <2>1 DEF GoodQueue
  <2>4. q[k].left \in Int /\ q[i].left \in Int /\ e.left \in Int
    BY <1>2, <1>3, <1>4, <2>1
  <2>5. QED
    BY <2>2, <2>3, <2>4
<1>7. QED
  BY <1>1, <1>5, <1>6

(* enque puts an item of a new tid where it keeps the queue sorted. *)
LEMMA EnqueGood ==
  ASSUME now \in Time, NEW q \in Seq(Item), GoodQueue(q, now),
         NEW e \in Item, OnTime(e, now),
         \A i \in 1 .. Len(q) : q[i].tid # e.tid,
         Enque(q, e)
  PROVE  GoodQueue(queue', now) /\ Len(queue') = Len(q) + 1
<1>0. q \in Seq(Item) /\ Len(q) \in Nat
  BY LenProperties DEF GoodQueue
<1>1. PICK k \in 1 .. Len(q) + 1 :
        /\ queue' = InsertAt(q, k, e)
        /\ \A i \in 1 .. k - 1 : q[i].left <= e.left
        /\ \A i \in k .. Len(q) : e.left < q[i].left
  BY EnquePlace
<1>2. /\ queue' \in Seq(Item) /\ Len(queue') = Len(q) + 1
      /\ \A i \in 1 .. Len(q) + 1 :
           queue'[i] = IF i < k THEN q[i] ELSE IF i = k THEN e ELSE q[i - 1]
  <2> DEFINE r == InsertAt(q, k, e)
  <2>1. /\ r \in Seq(Item) /\ Len(r) = Len(q) + 1
        /\ \A i \in 1 .. Len(q) + 1 :
             r[i] = IF i < k THEN q[i] ELSE IF i = k THEN e ELSE q[i - 1]
    BY InsertAtProps
  <2>2. queue' = r
    BY <1>1
  <2> HIDE DEF r
  <2>3. QED
    BY <2>1, <2>2
<1>3. MaxTicks \in Nat /\ MaxLag \in Nat
  BY ConstantsOK
<1>4. \A i \in 1 .. Len(q) : q[i].left \in -MaxLag .. MaxTicks
  BY DEF OnTime, GoodQueue
<1>5. e.left \in -MaxLag .. MaxTicks
  BY DEF OnTime
<1> DEFINE from(i) == IF i < k THEN i ELSE i - 1
<1>a. \A i \in 1 .. Len(queue') : i # k =>
        from(i) \in 1 .. Len(q) /\ queue'[i] = q[from(i)]
  BY <1>0, <1>2
<1>b. queue'[k] = e
  BY <1>0, <1>2
<1>c. \A i, j \in 1 .. Len(queue') :
        /\ i # k /\ j # k /\ from(i) = from(j) => i = j
        /\ i # k /\ j # k /\ i < j => from(i) < from(j)
  BY <1>0, <1>2
<1> HIDE DEF from
<1>8. \A i, j \in 1 .. Len(queue') : queue'[i].tid = queue'[j].tid => i = j
  <2>1. SUFFICES ASSUME NEW i \in 1 .. Len(queue'), NEW j \in 1 .. Len(queue'),
                        queue'[i].tid = queue'[j].tid
                 PROVE  i = j
    OBVIOUS
  <2>2. CASE i # k /\ j # k
    <3>1. /\ from(i) \in 1 .. Len(q) /\ from(j) \in 1 .. Len(q)
          /\ q[from(i)].tid = q[from(j)].tid
      BY <2>1, <2>2, <1>a
    <3>2. from(i) = from(j)
      BY <3>1 DEF GoodQueue
    <3>3. QED
      BY <2>2, <3>2, <1>c
  <2>3. CASE (i = k) # (j = k)
    BY <2>1, <2>3, <1>a, <1>b
  <2>4. QED
    BY <2>2, <2>3
<1>9. \A i \in 1 .. Len(queue') : OnTime(queue'[i], now)
  <2>1. SUFFICES ASSUME NEW i \in 1 .. Len(queue') PROVE OnTime(queue'[i], now)
    OBVIOUS
  <2>2. CASE i = k
    BY <2>2, <1>b
  <2>3. CASE i # k
    BY <2>3, <1>a DEF GoodQueue
  <2>4. QED
    BY <2>2, <2>3
<1>10. \A i, j \in 1 .. Len(queue') :
         i < j => queue'[i].left <= queue'[j].left
  <2>1. SUFFICES ASSUME NEW i \in 1 .. Len(q) + 1, NEW j \in 1 .. Len(q) + 1,
                        i < j
                 PROVE  queue'[i].left <= queue'[j].left
    BY <1>2
  <2>2. CASE i # k /\ j # k
    <3>1. /\ from(i) \in 1 .. Len(q) /\ from(j) \in 1 .. Len(q)
          /\ from(i) < from(j)
          /\ queue'[i] = q[from(i)] /\ queue'[j] = q[from(j)]
      BY <2>1, <2>2, <1>2, <1>a, <1>c
    <3>2. QED
      BY <3>1 DEF GoodQueue
  <2>3. CASE j = k
    BY <2>1, <2>3, <1>0, <1>1, <1>2
  <2>4. CASE i = k
    <3>1. j - 1 \in k .. Len(q)
      BY <2>1, <2>4, <1>0
    <3>2. queue'[i] = e /\ queue'[j] = q[j - 1]
      BY <2>1, <2>4, <1>2
    <3>3. QED
      BY <3>1, <3>2, <1>1, <1>3, <1>4, <1>5, Z3
  <2>5. QED
    BY <2>2, <2>3, <2>4
<1>11. QED
  BY <1>2, <1>8, <1>9, <1>10 DEF GoodQueue

-----------------------------------------------------------------------------
(* The interface *)

LEMMA GoodQueueIsInvariant ==
  GoodQueue(queue, now) <=>
    queue \in Seq(Item) /\ OneItemPerTid /\ Sorted /\ TimesAgree
BY DEF GoodQueue, OneItemPerTid, Sorted, TimesAgree

(* Where the items of the queue are, and how many of them are free. *)
QueueInv ==
  /\ GoodQueue(queue, now)
  /\ ItemsConserved
  /\ free \in 0 .. NItems
  /\ rtn \in {0, 1}

(* Replacing the item of t in the queue keeps the invariant. *)
LEMMA ReplaceInv ==
  ASSUME QueueInv, now \in Time, now' = now,
         NEW t \in Tid, NEW w \in Work, NEW ms \in Delays,
         NEW k \in 1 .. Len(queue), Found(t, k),
         Enque(RemoveAt(queue, k), NewItem(t, w, ms)),
         free' = free, rtn' \in {0, 1}
  PROVE  QueueInv'
<1> DEFINE r == RemoveAt(queue, k)
<1>1. /\ GoodQueue(r, now) /\ Len(r) = Len(queue) - 1
      /\ \A i \in 1 .. Len(r) : r[i].tid # t
  BY RemoveGood DEF QueueInv, Found
<1>2. /\ NewItem(t, w, ms) \in Item /\ NewItem(t, w, ms).tid = t
      /\ OnTime(NewItem(t, w, ms), now)
  BY NewItemOnTime
<1> HIDE DEF r
<1>3. GoodQueue(queue', now) /\ Len(queue') = Len(r) + 1
  <2>1. r \in Seq(Item)
    BY <1>1 DEF GoodQueue
  <2>2. Len(r) \in Nat
    BY <2>1, LenProperties
  <2>3. Enque(r, NewItem(t, w, ms))
    BY DEF r
  <2>4. \A i \in 1 .. Len(r) : r[i].tid # NewItem(t, w, ms).tid
    BY <1>1, <1>2
  <2>5. QED
    BY <1>1, <1>2, <2>1, <2>3, <2>4, EnqueGood
<1>4. Len(queue') = Len(queue)
  BY <1>1, <1>3, LenProperties DEF QueueInv, GoodQueue
<1>5. QED
  BY <1>3, <1>4 DEF QueueInv, ItemsConserved

LEMMA CallInv ==
  ASSUME QueueInv, now \in Time, now' = now, NEW t \in Tid, Call(t)
  PROVE  QueueInv'
<1>0. queue \in Seq(Item) /\ Len(queue) \in Nat /\ free \in 0 .. NItems
      /\ NItems \in Nat
  BY LenProperties, ConstantsOK DEF QueueInv, GoodQueue
<1>1. ASSUME NEW w \in Work, NEW ms \in Delays, nk_sched(t, w, ms)
      PROVE  QueueInv'
  <2>1. ASSUME NEW k \in 1 .. Len(queue), Found(t, k),
               Enque(RemoveAt(queue, k), NewItem(t, w, ms)),
               rtn' = 0, free' = free
        PROVE  QueueInv'
    BY <2>1, ReplaceInv
  <2>2. ASSUME ~Queued(t), free > 0, Enque(queue, NewItem(t, w, ms)),
               free' = free - 1, rtn' = 1
        PROVE  QueueInv'
    <3>1. /\ NewItem(t, w, ms) \in Item /\ NewItem(t, w, ms).tid = t
          /\ OnTime(NewItem(t, w, ms), now)
      BY NewItemOnTime
    <3>2. \A i \in 1 .. Len(queue) : queue[i].tid # t
      BY <2>2 DEF Queued
    <3>3. GoodQueue(queue', now) /\ Len(queue') = Len(queue) + 1
      BY <1>0, <2>2, <3>1, <3>2, EnqueGood DEF QueueInv
    <3>4. QED
      BY <1>0, <2>2, <3>3 DEF QueueInv, ItemsConserved
  <2>3. ASSUME rtn' = 1, UNCHANGED << queue, free, order >>
        PROVE  QueueInv'
    BY <2>3 DEF QueueInv, ItemsConserved
  <2>4. QED
    BY <1>1, <2>1, <2>2, <2>3 DEF nk_sched
<1>2. ASSUME NEW w \in Work, NEW ms \in Delays, nk_resched(t, w, ms)
      PROVE  QueueInv'
  <2>1. ASSUME NEW k \in 1 .. Len(queue), Found(t, k),
               Enque(RemoveAt(queue, k), NewItem(t, w, ms)),
               rtn' = 1, free' = free
        PROVE  QueueInv'
    BY <2>1, ReplaceInv
  <2>2. ASSUME rtn' = 0, UNCHANGED << queue, free, order >>
        PROVE  QueueInv'
    BY <2>2 DEF QueueInv, ItemsConserved
  <2>3. QED
    BY <1>2, <2>1, <2>2 DEF nk_resched
<1>3. ASSUME nk_unsched(t)
      PROVE  QueueInv'
  <2>1. ASSUME NEW k \in 1 .. Len(queue), queue' = RemoveAt(queue, k),
               free' = free + 1, rtn' = 1
        PROVE  QueueInv'
    <3>1. GoodQueue(queue', now) /\ Len(queue') = Len(queue) - 1
      BY <2>1, RemoveGood DEF QueueInv
    <3>2. QED
      BY <1>0, <2>1, <3>1 DEF QueueInv, ItemsConserved
  <2>2. ASSUME rtn' = 0, UNCHANGED << queue, free, order >>
        PROVE  QueueInv'
    BY <2>2 DEF QueueInv, ItemsConserved
  <2>3. QED
    BY <1>3, <2>1, <2>2 DEF nk_unsched
<1>4. ASSUME nk_check(t)
      PROVE  QueueInv'
  BY <1>4 DEF nk_check, QueueInv, ItemsConserved
<1>5. QED
  BY <1>1, <1>2, <1>3, <1>4 DEF Call

LEMMA CloserProps ==
  ASSUME NEW e \in Item
  PROVE  /\ Closer(e) \in Item
         /\ Closer(e).tid = e.tid
         /\ Closer(e).when = e.when
         /\ Closer(e).left = e.left - 1
         /\ Closer(e).ms = e.ms - 1
<1> DEFINE f == [e EXCEPT !.left = e.left - 1]
           g == [f EXCEPT !.ms = f.ms - 1]
<1>1. /\ f \in Item /\ f.tid = e.tid /\ f.when = e.when
      /\ f.left = e.left - 1 /\ f.ms = e.ms
  BY DEF Item
<1>2. Closer(e) = g
  BY <1>1 DEF Closer
<1> HIDE DEF f
<1>3. /\ g \in Item /\ g.tid = f.tid /\ g.when = f.when
      /\ g.left = f.left /\ g.ms = f.ms - 1
  BY <1>1 DEF Item
<1> HIDE DEF g
<1>4. QED
  BY <1>1, <1>2, <1>3

(* The tick: every item comes one tick closer, and stays on time. *)
LEMMA TickInv ==
  ASSUME QueueInv, now \in Time, TickHandler
  PROVE  QueueInv' /\ now' \in Time
<1>0. queue \in Seq(Item) /\ Len(queue) \in Nat
  BY LenProperties DEF QueueInv, GoodQueue
<1>1. Half \in Nat \ {0} /\ TimeMod = 2 * Half /\ MaxTicks \in Nat
      /\ MaxLag \in Nat /\ MaxTicks + MaxLag < Half
  BY ConstantsOK
<1> HIDE DEF Half, MaxTicks
<1>t. /\ now' = Plus(now, 1)
      /\ queue' = [k \in 1 .. Len(queue) |-> Closer(queue[k])]
      /\ \A k \in 1 .. Len(queue) : queue[k].left > -MaxLag
      /\ free' = free /\ rtn' = rtn
  BY DEF TickHandler
<1>u. now' = Plus(now, 1)
  BY <1>t
<1>2. now' = Wrapped(now + 1) /\ now' \in Time
  BY ONLY now \in Time, <1>1, <1>u DEF Plus, Wrapped, Time
<1>i. \A k \in 1 .. Len(queue) : queue[k] \in Item
  BY <1>0, ElementOfSeq
<1>e. \A k \in 1 .. Len(queue) :
        /\ Closer(queue[k]) \in Item
        /\ Closer(queue[k]).tid = queue[k].tid
        /\ Closer(queue[k]).when = queue[k].when
        /\ Closer(queue[k]).left = queue[k].left - 1
        /\ Closer(queue[k]).ms = queue[k].ms - 1
  BY <1>i, CloserProps
<1>3. queue' \in Seq(Item) /\ Len(queue') = Len(queue)
  BY <1>0, <1>e, <1>t, IsASeq
<1>4. \A k \in 1 .. Len(queue) :
        /\ queue'[k].tid = queue[k].tid
        /\ queue'[k].when = queue[k].when
        /\ queue'[k].left = queue[k].left - 1
        /\ queue'[k].ms = queue[k].ms - 1
  BY <1>e, <1>t
<1>5. \A k \in 1 .. Len(queue) : OnTime(queue'[k], now')
  <2>1. SUFFICES ASSUME NEW k \in 1 .. Len(queue)
                 PROVE  OnTime(queue'[k], now')
    OBVIOUS
  <2>2. queue[k] \in Item /\ OnTime(queue[k], now) /\ queue[k].left > -MaxLag
    BY <1>i, <1>t DEF QueueInv, GoodQueue
  <2>3. queue[k].left \in -MaxLag .. MaxTicks /\ queue[k].ms \in Int
    BY <2>2 DEF OnTime, Item
  <2>4. Wrapped(Wrapped(now + 1) + (queue[k].left - 1))
          = Wrapped(now + queue[k].left)
    <3>1. queue[k].left \in -MaxLag .. MaxTicks /\ queue[k].left > -MaxLag
      BY <2>2, <2>3
    <3> DEFINE x == queue[k].left
    <3> HIDE DEF x
    <3>2. x \in -MaxLag .. MaxTicks /\ x > -MaxLag
      BY <3>1 DEF x
    <3>3. Wrapped(Wrapped(now + 1) + (x - 1)) = Wrapped(now + x)
      BY ONLY now \in Time, <3>2, <1>1 DEF Wrapped, Time
    <3>4. QED
      BY <3>3 DEF x
  <2>5. queue[k].left - 1 \in -MaxLag .. MaxTicks
    BY <2>2, <2>3, <1>1
  <2>6. queue'[k].when = Wrapped(now' + queue'[k].left)
    BY <1>2, <1>4, <2>2, <2>4 DEF OnTime
  <2>7. DelaysInRange => queue'[k].ms = queue'[k].left
    BY <1>4, <2>2 DEF OnTime
  <2>8. QED
    BY <1>4, <2>5, <2>6, <2>7 DEF OnTime
<1>6. \A i, j \in 1 .. Len(queue) : i < j => queue'[i].left <= queue'[j].left
  <2>1. SUFFICES ASSUME NEW i \in 1 .. Len(queue), NEW j \in 1 .. Len(queue),
                        i < j
                 PROVE  queue'[i].left <= queue'[j].left
    OBVIOUS
  <2>2. queue[i].left \in Int /\ queue[j].left \in Int
    BY <1>i DEF Item
  <2>3. queue[i].left <= queue[j].left
    BY <2>1 DEF QueueInv, GoodQueue
  <2>4. QED
    BY <1>4, <2>2, <2>3
<1>7. GoodQueue(queue', now')
  BY <1>3, <1>4, <1>5, <1>6 DEF QueueInv, GoodQueue
<1>8. QED
  BY <1>2, <1>3, <1>7, <1>t DEF QueueInv, ItemsConserved

-----------------------------------------------------------------------------
(* The specification *)

LEMMA InitInv == Init => IInv
<1> SUFFICES ASSUME Init PROVE IInv
  OBVIOUS
<1>1. Half \in Nat \ {0} /\ TimeMod = 2 * Half /\ NItems \in Nat /\ MaxTid \in Nat
  BY ConstantsOK
<1>2. queue \in Seq(Item) /\ Len(queue) = 0 /\ now \in Time
  BY <1>1 DEF Init, Time
<1>3. TypeOK
  BY <1>1, <1>2 DEF Init, TypeOK
<1>4. QED
  BY <1>1, <1>2, <1>3
     DEF Init, IInv, ItemsConserved, OneItemPerTid, Sorted, TimesAgree

(* Dispatch takes the head out of the queue and frees its item. *)
LEMMA DispatchInv ==
  ASSUME QueueInv, Dispatch
  PROVE  QueueInv' /\ queue[1] \in Item
<1>0. queue \in Seq(Item) /\ Len(queue) \in Nat /\ NItems \in Nat
  BY LenProperties, ConstantsOK DEF QueueInv, GoodQueue
<1>1. /\ queue # << >> /\ queue' = RemoveAt(queue, 1) /\ free' = free + 1
      /\ now' = now /\ rtn' = rtn
  BY DEF Dispatch, HeadDue
<1>2. 1 \in 1 .. Len(queue)
  BY <1>0, <1>1, EmptySeq
<1>3. GoodQueue(queue', now) /\ Len(queue') = Len(queue) - 1
  BY <1>1, <1>2, RemoveGood DEF QueueInv
<1>4. QED
  BY <1>0, <1>1, <1>2, <1>3, ElementOfSeq DEF QueueInv, ItemsConserved

(* IInv is inductive: one case for each action. *)
LEMMA NextInv == IInv /\ [Next]_vars => IInv'
<1> SUFFICES ASSUME IInv, [Next]_vars PROVE IInv'
  OBVIOUS
<1>1. TypeOK /\ QueueInv
  BY GoodQueueIsInvariant DEF IInv, TypeOK, QueueInv
<1>2. ASSUME TypeOK', QueueInv'
      PROVE  IInv'
  BY <1>2, GoodQueueIsInvariant DEF IInv, QueueInv, GoodQueue, OneItemPerTid,
     Sorted, TimesAgree
<1>3. ASSUME UNCHANGED << now, interface >>
      PROVE  QueueInv'
  BY <1>1, <1>3 DEF interface, QueueInv, ItemsConserved
<1>4. MaxTid \in Nat
  BY ConstantsOK
<1>5. CASE nk_alloc_tid
  <2>1. QueueInv'
    BY <1>3, <1>5 DEF nk_alloc_tid
  <2>2. TypeOK'
    BY <1>1, <1>4, <1>5 DEF nk_alloc_tid, TypeOK, interface
  <2>3. QED
    BY <1>2, <2>1, <2>2
<1>6. ASSUME NEW m \in SleepModes, nk_set_sched_sleep_mode(m)
      PROVE  IInv'
  <2>1. QueueInv'
    BY <1>3, <1>6 DEF nk_set_sched_sleep_mode
  <2>2. TypeOK'
    BY <1>1, <1>6 DEF nk_set_sched_sleep_mode, TypeOK, interface
  <2>3. QED
    BY <1>2, <2>1, <2>2
<1>7. CASE TaskCalls
  <2>1. PICK t \in 1 .. next_tid : Call(t)
    BY <1>7 DEF TaskCalls
  <2>2. t \in Tid
    BY <1>1, <1>4 DEF TypeOK, Tid
  <2>3. QueueInv'
    BY <1>1, <1>7, <2>1, <2>2, CallInv DEF TaskCalls, TypeOK
  <2>4. TypeOK'
    BY <1>1, <1>7, <2>3 DEF TaskCalls, TypeOK, QueueInv, GoodQueue
  <2>5. QED
    BY <1>2, <2>3, <2>4
<1>8. CASE TaskReturns
  <2>1. QueueInv'
    BY <1>3, <1>8 DEF TaskReturns
  <2>2. TypeOK'
    BY <1>1, <1>8 DEF TaskReturns, TypeOK, interface
  <2>3. QED
    BY <1>2, <2>1, <2>2
<1>9. CASE Dispatch
  <2>1. QueueInv' /\ queue[1] \in Item
    BY <1>1, <1>9, DispatchInv
  <2>2. queue[1].tid \in 0 .. MaxTid /\ queue[1].work \in Work
    BY <1>4, <2>1 DEF Item, Tid
  <2>3. TypeOK'
    BY <1>1, <1>9, <2>1, <2>2 DEF Dispatch, TypeOK, QueueInv, GoodQueue
  <2>4. QED
    BY <1>2, <2>1, <2>3
<1>10. CASE Idle
  <2>1. QueueInv'
    BY <1>3, <1>10 DEF Idle
  <2>2. TypeOK'
    BY <1>1, <1>10 DEF Idle, TypeOK, interface
  <2>3. QED
    BY <1>2, <2>1, <2>2
<1>11. CASE WakeUp
  <2>1. QueueInv'
    BY <1>3, <1>11 DEF WakeUp
  <2>2. TypeOK'
    BY <1>1, <1>11 DEF WakeUp, TypeOK, interface
  <2>3. QED
    BY <1>2, <2>1, <2>2
<1>12. ASSUME NEW source \in {"tick", "isr"}, Raise(source)
       PROVE  IInv'
  <2>1. QueueInv'
    BY <1>3, <1>12 DEF Raise
  <2>2. TypeOK'
    BY <1>1, <1>12 DEF Raise, TypeOK, interface
  <2>3. QED
    BY <1>2, <2>1, <2>2
<1>13. CASE TickHandler
  <2>1. QueueInv' /\ now' \in Time
    BY <1>1, <1>13, TickInv DEF TypeOK
  <2>2. TypeOK'
    BY <1>1, <1>13, <2>1 DEF TickHandler, TypeOK, QueueInv, GoodQueue
  <2>3. QED
    BY <1>2, <2>1, <2>2
<1>14. CASE InterruptCalls
  <2>1. PICK t \in 1 .. next_tid : Call(t)
    BY <1>14 DEF InterruptCalls
  <2>2. t \in Tid
    BY <1>1, <1>4 DEF TypeOK, Tid
  <2>3. QueueInv'
    BY <1>1, <1>14, <2>1, <2>2, CallInv DEF InterruptCalls, TypeOK
  <2>4. TypeOK'
    BY <1>1, <1>14, <2>3 DEF InterruptCalls, TypeOK, QueueInv, GoodQueue
  <2>5. QED
    BY <1>2, <2>3, <2>4
<1>15. CASE UNCHANGED vars
  <2>1. QueueInv'
    BY <1>3, <1>15 DEF vars, interface
  <2>2. TypeOK'
    BY <1>1, <1>15 DEF TypeOK, vars
  <2>3. QED
    BY <1>2, <2>1, <2>2
<1>16. QED
  BY <1>5, <1>6, <1>7, <1>8, <1>9, <1>10, <1>11, <1>12, <1>13, <1>14, <1>15
     DEF Next, MainLoop

(***************************************************************************)
(* Every state of the scheduler satisfies the inductive invariant: the     *)
(* types, no item lost or duplicated, one item per tid, the queue in the   *)
(* order of the true due times, and wrapped times that agree with them.    *)
(***************************************************************************)
THEOREM Invariance == Spec => []IInv
  BY InitInv, NextInv, PTL DEF Spec

(* The variables of the work queue keep their types. *)
THEOREM TypeCorrect == Spec => []TypeOK
<1>1. IInv => TypeOK
  BY DEF IInv
<1>2. QED
  BY <1>1, Invariance, PTL

(* No interleaving of calls and interrupts loses or duplicates an item. *)
THEOREM NoItemLost == Spec => []ItemsConserved
<1>1. IInv => ItemsConserved
  BY DEF IInv
<1>2. QED
  BY <1>1, Invariance, PTL

(* There is never more than one pending function for a task id. *)
THEOREM UniqueTids == Spec => []OneItemPerTid
<1>1. IInv => OneItemPerTid
  BY DEF IInv
<1>2. QED
  BY <1>1, Invariance, PTL

(***************************************************************************)
(* Time wraps, the comparison is signed, items are overdue: the queue is   *)
(* still in the order in which its items become due.                       *)
(***************************************************************************)
THEOREM QueueSorted == Spec => []Sorted
<1>1. IInv => Sorted
  BY DEF IInv
<1>2. QED
  BY <1>1, Invariance, PTL

(***************************************************************************)
(* The wrapped time of a pending item stands for its true due time, within *)
(* the half of the range that the comparison of enque can order.           *)
(***************************************************************************)
THEOREM TimesStandForDueTimes == Spec => []TimesAgree
<1>1. IInv => TimesAgree
  BY DEF IInv
<1>2. QED
  BY <1>1, Invariance, PTL

(* The head of the queue is only found due when its delay is over. *)
LEMMA HeadDueInTime ==
  ASSUME DelaysInRange, IInv, Dispatch
  PROVE  queue[1].ms <= 0
<1>1. queue \in Seq(Item) /\ Len(queue) \in Nat /\ now \in Time
  BY LenProperties DEF IInv, TypeOK
<1>2. queue # << >> /\ Signed(now, queue[1].when) >= 0
  BY DEF Dispatch, HeadDue
<1>3. 1 \in 1 .. Len(queue)
  BY <1>1, <1>2, EmptySeq
<1>4. OnTime(queue[1], now)
  BY <1>3 DEF IInv, TimesAgree
<1>5. /\ 0 \in -MaxLag .. MaxTicks /\ queue[1].left \in -MaxLag .. MaxTicks
      /\ MaxLag \in Nat /\ MaxTicks \in Nat
  BY <1>4, ConstantsOK DEF OnTime
<1>6. now = Wrapped(now + 0)
  BY <1>1, ConstantsOK DEF Wrapped, Time
<1>7. Signed(now, queue[1].when) = 0 - queue[1].left
  BY <1>1, <1>4, <1>5, <1>6, SignedIsDistance DEF OnTime
<1>8. queue[1].ms = queue[1].left
  BY <1>4 DEF OnTime
<1>9. QED
  BY <1>2, <1>5, <1>7, <1>8

(***************************************************************************)
(* If no delay passed to the scheduler overflows in nk_convert_delay, no   *)
(* function is called before its delay is over.                            *)
(***************************************************************************)
THEOREM CalledAfterDelay ==
  ASSUME DelaysInRange
  PROVE  Spec => NeverEarly
<1>1. IInv /\ [Next]_vars => [Dispatch => queue[1].ms <= 0]_vars
  BY HeadDueInTime
<1>2. QED
  BY <1>1, Invariance, PTL DEF Spec, NeverEarly

-----------------------------------------------------------------------------
(* Queue and order of submission *)

Timer == [tid : Tid, work : Work, left : Int]
TimerOf(e) == [tid |-> e.tid, work |-> e.work, left |-> e.ms]

(* the timers that a queue q stands for, when they were submitted as o *)
View(q, o) ==
  [a \in 1 .. Len(o) |->
     LET k == CHOOSE k \in 1 .. Len(q) : q[k].tid = o[a]
     IN  [tid |-> o[a], work |-> q[k].work, left |-> q[k].ms]]

(* o has the task ids of q, and items that are due together are in its order *)
Kept(q, o) ==
  /\ q \in Seq(Item) /\ o \in Seq(Tid) /\ Len(o) = Len(q)
  /\ \A i, j \in 1 .. Len(q) : q[i].tid = q[j].tid => i = j
  /\ \A a, b \in 1 .. Len(o) : o[a] = o[b] => a = b
  /\ \A i \in 1 .. Len(q) : \E a \in 1 .. Len(o) : o[a] = q[i].tid
  /\ \A a \in 1 .. Len(o) : \E i \in 1 .. Len(q) : q[i].tid = o[a]
  /\ \A i, j \in 1 .. Len(q), a, b \in 1 .. Len(o) :
       i < j /\ q[i].left = q[j].left /\ o[a] = q[i].tid /\ o[b] = q[j].tid
         => a < b

LEMMA TimerType ==
  ASSUME NEW e \in Item
  PROVE  /\ TimerOf(e) \in Timer
         /\ TimerOf(e).tid = e.tid
         /\ TimerOf(e).work = e.work
         /\ TimerOf(e).left = e.ms
  BY DEF Item, Timer, TimerOf

(* Each place of the view shows the one item that has its task id. *)
LEMMA ViewAt ==
  ASSUME NEW q, NEW o, Kept(q, o)
  PROVE  /\ View(q, o) \in Seq(Timer)
         /\ Len(View(q, o)) = Len(o)
         /\ \A a \in 1 .. Len(o), k \in 1 .. Len(q) :
              q[k].tid = o[a] => View(q, o)[a] = TimerOf(q[k])
<1> DEFINE slot(a) == CHOOSE k \in 1 .. Len(q) : q[k].tid = o[a]
           at(a) == [tid |-> o[a], work |-> q[slot(a)].work,
                     left |-> q[slot(a)].ms]
<1>0. Len(o) \in Nat /\ q \in Seq(Item)
  BY LenProperties DEF Kept
<1>1. \A a \in 1 .. Len(o) :
        slot(a) \in 1 .. Len(q) /\ q[slot(a)].tid = o[a]
  BY DEF Kept
<1>2. \A a \in 1 .. Len(o), k \in 1 .. Len(q) :
        q[k].tid = o[a] => k = slot(a)
  BY <1>1 DEF Kept
<1>3. \A a \in 1 .. Len(o) : q[slot(a)] \in Item
  BY <1>0, <1>1, ElementOfSeq
<1>4. View(q, o) = [a \in 1 .. Len(o) |-> at(a)]
  BY DEF View
<1> HIDE DEF slot
<1>5. \A a \in 1 .. Len(o) : at(a) = TimerOf(q[slot(a)])
  BY <1>1 DEF TimerOf
<1>6. \A a \in 1 .. Len(o) : at(a) \in Timer
  BY <1>3, <1>5, TimerType
<1> HIDE DEF at
<1>7. View(q, o) \in Seq(Timer)
  BY <1>0, <1>4, <1>6, IsASeq
<1>8. Len(View(q, o)) = Len(o)
  BY <1>0, <1>4, <1>7, LenProperties
<1>9. QED
  BY <1>2, <1>4, <1>5, <1>7, <1>8

(* A sequence that shows in each place the item with its task id is it. *)
LEMMA ViewIs ==
  ASSUME NEW q, NEW o, Kept(q, o), NEW p \in Seq(Timer), Len(p) = Len(o),
         \A a \in 1 .. Len(o) : \E k \in 1 .. Len(q) :
           q[k].tid = o[a] /\ p[a] = TimerOf(q[k])
  PROVE  View(q, o) = p
<1>1. /\ View(q, o) \in Seq(Timer) /\ Len(View(q, o)) = Len(p)
      /\ \A a \in 1 .. Len(p) : View(q, o)[a] = p[a]
  BY ViewAt
<1>2. QED
  BY <1>1, SeqEqual

(* Taking an item out of the queue takes its timer out of the view. *)
LEMMA WithdrawView ==
  ASSUME NEW q, NEW o, Kept(q, o), NEW k \in 1 .. Len(q),
         NEW c \in 1 .. Len(o), o[c] = q[k].tid
  PROVE  /\ Kept(RemoveAt(q, k), RemoveAt(o, c))
         /\ View(RemoveAt(q, k), RemoveAt(o, c)) = RemoveAt(View(q, o), c)
<1> DEFINE r == RemoveAt(q, k)
           s == RemoveAt(o, c)
           v == View(q, o)
           p == RemoveAt(v, c)
           from(i) == IF i < k THEN i ELSE i + 1
           was(a) == IF a < c THEN a ELSE a + 1
<1>0. /\ q \in Seq(Item) /\ o \in Seq(Tid) /\ Len(o) = Len(q)
      /\ Len(q) \in Nat
  BY LenProperties DEF Kept
<1>k. /\ \A i, j \in 1 .. Len(q) : q[i].tid = q[j].tid => i = j
      /\ \A a, b \in 1 .. Len(o) : o[a] = o[b] => a = b
  BY DEF Kept
<1>l. /\ \A i \in 1 .. Len(q) : \E a \in 1 .. Len(o) : o[a] = q[i].tid
      /\ \A a \in 1 .. Len(o) : \E i \in 1 .. Len(q) : q[i].tid = o[a]
  BY DEF Kept
<1>m. \A i, j \in 1 .. Len(q), a, b \in 1 .. Len(o) :
        i < j /\ q[i].left = q[j].left /\ o[a] = q[i].tid /\ o[b] = q[j].tid
          => a < b
  BY DEF Kept
<1>v. /\ v \in Seq(Timer) /\ Len(v) = Len(o)
      /\ \A a \in 1 .. Len(o), i \in 1 .. Len(q) :
           q[i].tid = o[a] => v[a] = TimerOf(q[i])
  BY ViewAt
<1> HIDE DEF v
<1>1. /\ r \in Seq(Item) /\ Len(r) = Len(q) - 1
      /\ \A i \in 1 .. Len(q) - 1 : r[i] = q[from(i)]
  BY <1>0, RemoveAtProps
<1>2. /\ s \in Seq(Tid) /\ Len(s) = Len(o) - 1
      /\ \A a \in 1 .. Len(o) - 1 : s[a] = o[was(a)]
  BY <1>0, RemoveAtProps
<1>3. /\ p \in Seq(Timer) /\ Len(p) = Len(o) - 1
      /\ \A a \in 1 .. Len(o) - 1 : p[a] = v[was(a)]
  BY <1>v, RemoveAtProps
<1>4. /\ \A i \in 1 .. Len(r) : from(i) \in 1 .. Len(q) /\ from(i) # k
      /\ \A i, j \in 1 .. Len(r) :
           (i < j => from(i) < from(j)) /\ (from(i) = from(j) => i = j)
      /\ \A j \in 1 .. Len(q) : j # k => \E i \in 1 .. Len(r) : from(i) = j
  <2>1. ASSUME NEW j \in 1 .. Len(q), j # k
        PROVE  \E i \in 1 .. Len(r) : from(i) = j
    <3>1. CASE j < k
      BY <3>1, <1>0, <1>1
    <3>2. CASE j > k
      <4>1. j - 1 \in 1 .. Len(r) /\ from(j - 1) = j
        BY <3>2, <1>0, <1>1
      <4>2. QED
        BY <4>1
    <3>3. QED
      BY <3>1, <3>2, <2>1, <1>0
  <2>2. QED
    BY <2>1, <1>0, <1>1, Z3
<1>5. /\ \A a \in 1 .. Len(s) : was(a) \in 1 .. Len(o) /\ was(a) # c
      /\ \A a, b \in 1 .. Len(s) :
           (was(a) < was(b) => a < b) /\ (was(a) = was(b) => a = b)
      /\ \A b \in 1 .. Len(o) : b # c => \E a \in 1 .. Len(s) : was(a) = b
  <2>1. ASSUME NEW b \in 1 .. Len(o), b # c
        PROVE  \E a \in 1 .. Len(s) : was(a) = b
    <3>1. CASE b < c
      BY <3>1, <1>0, <1>2
    <3>2. CASE b > c
      <4>1. b - 1 \in 1 .. Len(s) /\ was(b - 1) = b
        BY <3>2, <1>0, <1>2
      <4>2. QED
        BY <4>1
    <3>3. QED
      BY <3>1, <3>2, <2>1, <1>0
  <2>2. QED
    BY <2>1, <1>0, <1>2
<1>6. /\ \A i \in 1 .. Len(r) : r[i] = q[from(i)]
      /\ \A a \in 1 .. Len(s) : s[a] = o[was(a)]
      /\ \A a \in 1 .. Len(s) : p[a] = v[was(a)]
      /\ Len(s) = Len(r)
  BY <1>0, <1>1, <1>2, <1>3
<1> HIDE DEF r, s, p, from, was
<1>7. ASSUME NEW i \in 1 .. Len(r), NEW j \in 1 .. Len(r),
             r[i].tid = r[j].tid
      PROVE  i = j
  <2>1. q[from(i)].tid = q[from(j)].tid
    BY <1>6, <1>7
  <2>2. from(i) = from(j)
    BY <2>1, <1>4, <1>k
  <2>3. QED
    BY <2>2, <1>4
<1>8. ASSUME NEW a \in 1 .. Len(s), NEW b \in 1 .. Len(s), s[a] = s[b]
      PROVE  a = b
  <2>1. o[was(a)] = o[was(b)]
    BY <1>6, <1>8
  <2>2. was(a) = was(b)
    BY <2>1, <1>5, <1>k
  <2>3. QED
    BY <2>2, <1>5
<1>9. ASSUME NEW i \in 1 .. Len(r)
      PROVE  \E a \in 1 .. Len(s) : s[a] = r[i].tid
  <2>0. r[i] = q[from(i)] /\ from(i) \in 1 .. Len(q) /\ from(i) # k
    BY <1>4, <1>6
  <2>1. PICK b \in 1 .. Len(o) : o[b] = q[from(i)].tid
    BY ONLY <2>0, <1>l
  <2>2. b # c
    BY <2>0, <2>1, <1>k
  <2>3. QED
    BY <2>0, <2>1, <2>2, <1>5, <1>6
<1>10. ASSUME NEW a \in 1 .. Len(s)
       PROVE  \E i \in 1 .. Len(r) : r[i].tid = s[a] /\ p[a] = TimerOf(r[i])
  <2>0. s[a] = o[was(a)] /\ was(a) \in 1 .. Len(o) /\ was(a) # c
    BY <1>5, <1>6
  <2>1. PICK j \in 1 .. Len(q) : q[j].tid = o[was(a)]
    BY ONLY <2>0, <1>l
  <2>2. j # k
    BY <2>0, <2>1, <1>k
  <2>3. PICK i \in 1 .. Len(r) : from(i) = j
    BY <2>2, <1>4
  <2>4. r[i] = q[j]
    BY <2>3, <1>6
  <2>5. q[j].tid = o[was(a)] /\ was(a) \in 1 .. Len(o)
    BY <2>1, <1>5, <1>6
  <2>6. p[a] = TimerOf(q[j])
    BY <2>5, <1>v, <1>6
  <2>7. QED
    BY <2>0, <2>1, <2>4, <2>6
<1>11. ASSUME NEW i \in 1 .. Len(r), NEW j \in 1 .. Len(r),
              NEW a \in 1 .. Len(s), NEW b \in 1 .. Len(s),
              i < j, r[i].left = r[j].left, s[a] = r[i].tid, s[b] = r[j].tid
       PROVE  a < b
  <2>0. /\ r[i] = q[from(i)] /\ r[j] = q[from(j)] /\ from(i) < from(j)
        /\ from(i) \in 1 .. Len(q) /\ from(j) \in 1 .. Len(q)
        /\ s[a] = o[was(a)] /\ s[b] = o[was(b)]
        /\ was(a) \in 1 .. Len(o) /\ was(b) \in 1 .. Len(o)
    BY <1>11, <1>4, <1>5, <1>6
  <2>1. was(a) < was(b)
    BY <2>0, <1>11, <1>m
  <2>2. QED
    BY <2>1, <1>5
<1>12. Kept(r, s)
  BY <1>1, <1>2, <1>6, <1>7, <1>8, <1>9, <1>10, <1>11 DEF Kept
<1>13. View(r, s) = p
  <2>1. Len(p) = Len(s) /\ p \in Seq(Timer)
    BY <1>2, <1>3
  <2>2. \A a \in 1 .. Len(s) : \E i \in 1 .. Len(r) :
          r[i].tid = s[a] /\ p[a] = TimerOf(r[i])
    BY <1>10
  <2>3. QED
    BY ONLY <2>1, <2>2, <1>12, ViewIs
<1>14. QED
  BY <1>12, <1>13 DEF r, s, p, v

(* Putting an item behind those due before or with it adds its timer. *)
LEMMA SubmitView ==
  ASSUME NEW q, NEW o, Kept(q, o), NEW e \in Item,
         \A i \in 1 .. Len(q) : q[i].tid # e.tid,
         NEW k \in 1 .. Len(q) + 1,
         \A i \in 1 .. k - 1 : q[i].left <= e.left,
         \A i \in k .. Len(q) : e.left < q[i].left
  PROVE  /\ Kept(InsertAt(q, k, e), Append(o, e.tid))
         /\ View(InsertAt(q, k, e), Append(o, e.tid))
              = Append(View(q, o), TimerOf(e))
<1> DEFINE r == InsertAt(q, k, e)
           s == Append(o, e.tid)
           v == View(q, o)
           p == Append(v, TimerOf(e))
           to(i) == IF i < k THEN i ELSE i + 1
           last == Len(o) + 1
<1>0. /\ q \in Seq(Item) /\ o \in Seq(Tid) /\ Len(o) = Len(q)
      /\ Len(q) \in Nat /\ e.tid \in Tid
  BY LenProperties DEF Kept, Item
<1>k. /\ \A i, j \in 1 .. Len(q) : q[i].tid = q[j].tid => i = j
      /\ \A a, b \in 1 .. Len(o) : o[a] = o[b] => a = b
  BY DEF Kept
<1>l. /\ \A i \in 1 .. Len(q) : \E a \in 1 .. Len(o) : o[a] = q[i].tid
      /\ \A a \in 1 .. Len(o) : \E i \in 1 .. Len(q) : q[i].tid = o[a]
  BY DEF Kept
<1>m. \A i, j \in 1 .. Len(q), a, b \in 1 .. Len(o) :
        i < j /\ q[i].left = q[j].left /\ o[a] = q[i].tid /\ o[b] = q[j].tid
          => a < b
  BY DEF Kept
<1>v. /\ v \in Seq(Timer) /\ Len(v) = Len(o)
      /\ \A a \in 1 .. Len(o), i \in 1 .. Len(q) :
           q[i].tid = o[a] => v[a] = TimerOf(q[i])
  BY ViewAt
<1> HIDE DEF v
<1>1. /\ r \in Seq(Item) /\ Len(r) = Len(q) + 1
      /\ \A i \in 1 .. Len(q) + 1 :
           r[i] = IF i < k THEN q[i] ELSE IF i = k THEN e ELSE q[i - 1]
  <2>1. q \in Seq(Item) /\ k \in 1 .. Len(q) + 1 /\ e \in Item
    BY <1>0
  <2>2. QED
    BY ONLY <2>1, InsertAtProps
<1>2. /\ s \in Seq(Tid) /\ Len(s) = last
      /\ \A a \in 1 .. Len(o) : s[a] = o[a]
      /\ s[last] = e.tid
  BY <1>0, AppendProperties
<1>3. /\ p \in Seq(Timer) /\ Len(p) = last
      /\ \A a \in 1 .. Len(o) : p[a] = v[a]
      /\ p[last] = TimerOf(e)
  BY <1>v, TimerType, AppendProperties
<1> HIDE DEF r, s, p
<1>4. /\ r[k] = e /\ k \in 1 .. Len(r)
      /\ \A i \in 1 .. Len(q) :
           to(i) \in 1 .. Len(r) /\ to(i) # k /\ r[to(i)] = q[i]
      /\ \A j \in 1 .. Len(r) : j # k => \E i \in 1 .. Len(q) : j = to(i)
      /\ \A i, j \in 1 .. Len(q) : to(i) < to(j) => i < j
  <2>1. ASSUME NEW j \in 1 .. Len(r), j # k
        PROVE  \E i \in 1 .. Len(q) : j = to(i)
    <3>1. CASE j < k
      BY <3>1, <1>0, <1>1
    <3>2. CASE j > k
      <4>1. j - 1 \in 1 .. Len(q) /\ j = to(j - 1)
        BY <3>2, <1>0, <1>1
      <4>2. QED
        BY <4>1
    <3>3. Len(r) = Len(q) + 1 /\ Len(q) \in Nat
      BY <1>0, <1>1
    <3>4. j < k \/ j > k
      BY ONLY <3>3, <2>1, j \in 1 .. Len(r), k \in 1 .. Len(q) + 1
    <3>5. QED
      BY <3>1, <3>2, <3>4
  <2>2. ASSUME NEW i \in 1 .. Len(q)
        PROVE  to(i) \in 1 .. Len(r) /\ to(i) # k /\ r[to(i)] = q[i]
    BY <1>0, <1>1
  <2>3. r[k] = e /\ k \in 1 .. Len(r)
    BY <1>0, <1>1
  <2>4. \A i, j \in 1 .. Len(q) : to(i) < to(j) => i < j
    BY <1>0
  <2>5. QED
    BY <2>1, <2>2, <2>3, <2>4
<1>5. /\ \A i \in 1 .. Len(q) : to(i) < k => q[i].left <= e.left
      /\ \A i \in 1 .. Len(q) : k < to(i) => e.left < q[i].left
  BY <1>0
<1>6. \A a \in 1 .. Len(s) : a # last => a \in 1 .. Len(o)
  BY <1>0, <1>2
<1>7. /\ last \in 1 .. Len(s)
      /\ \A a \in 1 .. Len(o) : a \in 1 .. Len(s) /\ a < last
  BY <1>0, <1>2
<1>8. \A a \in 1 .. Len(o) : o[a] # e.tid
  BY <1>l
<1>9. ASSUME NEW i \in 1 .. Len(q)
      PROVE  q[i].left \in Int
  <2>1. q[i] \in Item
    BY <1>0, ElementOfSeq
  <2>2. QED
    BY <2>1 DEF Item
<1> HIDE DEF to, last
<1>10. ASSUME NEW i \in 1 .. Len(r), NEW j \in 1 .. Len(r), r[i].tid = r[j].tid
       PROVE  i = j
  <2>1. CASE i # k /\ j # k
    <3>1. PICK m \in 1 .. Len(q) : i = to(m)
      BY <2>1, <1>4
    <3>2. PICK n \in 1 .. Len(q) : j = to(n)
      BY <2>1, <1>4
    <3>3. q[m].tid = q[n].tid
      BY <1>10, <1>4, <3>1, <3>2
    <3>4. m = n
      BY <3>3, <1>k
    <3>5. QED
      BY <3>1, <3>2, <3>4
  <2>2. CASE i = k /\ j # k
    <3>1. PICK n \in 1 .. Len(q) : j = to(n)
      BY <2>2, <1>4
    <3>2. q[n].tid = e.tid
      BY <2>2, <3>1, <1>10, <1>4
    <3>3. QED
      BY <3>2
  <2>3. CASE i # k /\ j = k
    <3>1. PICK m \in 1 .. Len(q) : i = to(m)
      BY <2>3, <1>4
    <3>2. q[m].tid = e.tid
      BY <2>3, <3>1, <1>10, <1>4
    <3>3. QED
      BY <3>2
  <2>4. QED
    BY <2>1, <2>2, <2>3
<1>11. ASSUME NEW a \in 1 .. Len(s), NEW b \in 1 .. Len(s), s[a] = s[b]
       PROVE  a = b
  <2>1. CASE a # last /\ b # last
    <3>1. a \in 1 .. Len(o) /\ b \in 1 .. Len(o)
      BY <2>1, <1>6
    <3>2. o[a] = o[b]
      BY <3>1, <1>2, <1>11
    <3>3. QED
      BY <3>1, <3>2, <1>k
  <2>2. CASE a = last \/ b = last
    BY <2>2, <1>2, <1>6, <1>8, <1>11
  <2>3. QED
    BY <2>1, <2>2
<1>12. ASSUME NEW i \in 1 .. Len(r)
       PROVE  \E a \in 1 .. Len(s) : s[a] = r[i].tid
  <2>1. CASE i = k
    BY <2>1, <1>2, <1>4, <1>7
  <2>2. CASE i # k
    <3>1. PICK j \in 1 .. Len(q) : i = to(j)
      BY <2>2, <1>4
    <3>2. PICK a \in 1 .. Len(o) : o[a] = q[j].tid
      BY <1>l
    <3>3. QED
      BY <3>1, <3>2, <1>2, <1>4, <1>7
  <2>3. QED
    BY <2>1, <2>2
<1>13. ASSUME NEW a \in 1 .. Len(s)
       PROVE  \E i \in 1 .. Len(r) : r[i].tid = s[a] /\ p[a] = TimerOf(r[i])
  <2>1. CASE a = last
    BY <2>1, <1>2, <1>3, <1>4
  <2>2. CASE a # last
    <3>1. a \in 1 .. Len(o)
      BY <2>2, <1>6
    <3>2. PICK j \in 1 .. Len(q) : q[j].tid = o[a]
      BY <3>1, <1>l
    <3>3. p[a] = TimerOf(q[j])
      BY <3>1, <3>2, <1>3, <1>v
    <3>4. QED
      BY <3>1, <3>2, <3>3, <1>2, <1>4
  <2>3. QED
    BY <2>1, <2>2
<1>14. ASSUME NEW i \in 1 .. Len(r), NEW j \in 1 .. Len(r),
              NEW a \in 1 .. Len(s), NEW b \in 1 .. Len(s),
              i < j, r[i].left = r[j].left, s[a] = r[i].tid, s[b] = r[j].tid
       PROVE  a < b
  <2>1. CASE i # k /\ j # k
    <3>1. PICK m \in 1 .. Len(q) : i = to(m)
      BY <2>1, <1>4
    <3>2. PICK n \in 1 .. Len(q) : j = to(n)
      BY <2>1, <1>4
    <3>3. m < n /\ q[m].left = q[n].left
      BY <1>14, <1>4, <3>1, <3>2
    <3>4. s[a] = q[m].tid /\ s[b] = q[n].tid
      BY <1>14, <1>4, <3>1, <3>2
    <3>5. a # last /\ b # last
      BY <3>4, <1>2
    <3>6. /\ a \in 1 .. Len(o) /\ b \in 1 .. Len(o)
          /\ o[a] = q[m].tid /\ o[b] = q[n].tid
      BY <3>4, <3>5, <1>2, <1>6
    <3>7. QED
      BY <3>3, <3>6, <1>m
  <2>2. CASE j = k
    <3>1. PICK m \in 1 .. Len(q) : i = to(m)
      BY <2>2, <1>14, <1>4
    <3>2. s[a] = q[m].tid /\ s[b] = e.tid
      BY <1>14, <1>4, <2>2, <3>1
    <3>3. a # last /\ b = last
      BY <3>2, <1>2, <1>6, <1>8
    <3>4. QED
      BY <3>3, <1>6, <1>7
  <2>3. CASE i = k
    <3>1. PICK n \in 1 .. Len(q) : j = to(n)
      BY <2>3, <1>14, <1>4
    <3>2. e.left = q[n].left /\ e.left < q[n].left
      BY <1>14, <1>4, <1>5, <2>3, <3>1
    <3>3. QED
      BY <3>2, <1>9
  <2>4. QED
    BY <2>1, <2>2, <2>3
<1>15. Len(s) = Len(r)
  BY <1>0, <1>1, <1>2 DEF last
<1>16. Kept(r, s)
  BY <1>1, <1>2, <1>10, <1>11, <1>12, <1>13, <1>14, <1>15 DEF Kept
<1>17. View(r, s) = p
  <2>1. Len(p) = Len(s) /\ p \in Seq(Timer)
    BY <1>2, <1>3
  <2>2. \A a \in 1 .. Len(s) : \E i \in 1 .. Len(r) :
          r[i].tid = s[a] /\ p[a] = TimerOf(r[i])
    BY <1>13
  <2>3. QED
    BY ONLY <2>1, <2>2, <1>16, ViewIs
<1>18. QED
  BY <1>16, <1>17 DEF r, s, p, v

-----------------------------------------------------------------------------
(* The calls *)

LEMMA PendingIsView ==
  Pending = View(queue, order) /\ Pending' = View(queue', order')
  BY DEF Pending, View

(* NkTimers has the operators of SequencesExt under its own name. *)
LEMMA TimersRemoveAt ==
  ASSUME NEW p, NEW c
  PROVE  Timers!RemoveAt(p, c) = RemoveAt(p, c)
  BY DEF RemoveAt, Timers!RemoveAt

(* The abstract timer in a place is that of the item with its task id. *)
LEMMA PendingAt ==
  ASSUME Kept(queue, order), NEW c \in 1 .. Len(order),
         NEW k \in 1 .. Len(queue), order[c] = queue[k].tid
  PROVE  /\ Len(Pending) = Len(order)
         /\ queue[k] \in Item
         /\ Pending[c].tid = queue[k].tid
         /\ Pending[c].work = queue[k].work
         /\ Pending[c].left = queue[k].ms
<1>1. queue[k] \in Item
  BY ElementOfSeq DEF Kept
<1>2. Pending[c] = TimerOf(queue[k]) /\ Len(Pending) = Len(order)
  BY PendingIsView, ViewAt
<1>3. QED
  BY <1>1, <1>2, TimerType

(* Submitting or cancelling withdraws t from the one place where it is. *)
LEMMA WithdrawnFrom ==
  ASSUME Kept(queue, order), NEW k \in 1 .. Len(queue)
  PROVE  \E c \in 1 .. Len(order) :
           /\ order[c] = queue[k].tid
           /\ Withdrawn(queue[k].tid) = RemoveAt(order, c)
<1>1. \E c \in 1 .. Len(order) : order[c] = queue[k].tid
  BY DEF Kept
<1>2. QED
  BY <1>1 DEF Withdrawn

(* A new item adds the timer that its caller asks for. *)
LEMMA EnqueView ==
  ASSUME now \in Time, NEW q, NEW o, Kept(q, o), GoodQueue(q, now),
         NEW t \in Tid, NEW w \in Work, NEW ms \in Delays,
         \A i \in 1 .. Len(q) : q[i].tid # t,
         Enque(q, NewItem(t, w, ms))
  PROVE  /\ Kept(queue', Append(o, t))
         /\ View(queue', Append(o, t))
              = Append(View(q, o), [tid |-> t, work |-> w, left |-> ms])
<1> DEFINE e == NewItem(t, w, ms)
<1>1. e \in Item /\ e.tid = t /\ OnTime(e, now)
  BY NewItemOnTime
<1>2. TimerOf(e) = [tid |-> t, work |-> w, left |-> ms]
  BY DEF TimerOf, NewItem
<1>3. q \in Seq(Item)
  BY DEF Kept
<1>4. Enque(q, e)
  OBVIOUS
<1> HIDE DEF e
<1>5. PICK k \in 1 .. Len(q) + 1 :
        /\ queue' = InsertAt(q, k, e)
        /\ \A i \in 1 .. k - 1 : q[i].left <= e.left
        /\ \A i \in k .. Len(q) : e.left < q[i].left
  BY <1>1, <1>3, <1>4, EnquePlace
<1>6. /\ Kept(InsertAt(q, k, e), Append(o, e.tid))
      /\ View(InsertAt(q, k, e), Append(o, e.tid))
           = Append(View(q, o), TimerOf(e))
  BY <1>1, <1>5, SubmitView
<1>7. QED
  BY <1>1, <1>2, <1>5, <1>6

(* Resubmitting a pending t moves it behind the others. *)
LEMMA ResubmitMaps ==
  ASSUME QueueInv, Kept(queue, order), now \in Time,
         UNCHANGED << func, current_tid >>,
         NEW t \in Tid, NEW w \in Work, NEW ms \in Delays,
         NEW k \in 1 .. Len(queue), Found(t, k),
         Enque(RemoveAt(queue, k), NewItem(t, w, ms)),
         order' = Resubmitted(t)
  PROVE  Kept(queue, order)' /\ Timers!Submit(t, w, ms)
<1> DEFINE r == RemoveAt(queue, k)
           timer == [tid |-> t, work |-> w, left |-> ms]
<1>1. queue[k].tid = t /\ Queued(t)
  BY DEF Found, Queued
<1>2. PICK c \in 1 .. Len(order) :
        order[c] = t /\ Withdrawn(t) = RemoveAt(order, c)
  BY <1>1, WithdrawnFrom
<1>3. order' = Append(RemoveAt(order, c), t)
  BY <1>1, <1>2 DEF Resubmitted
<1>4. /\ Kept(r, RemoveAt(order, c))
      /\ View(r, RemoveAt(order, c)) = RemoveAt(View(queue, order), c)
  BY <1>1, <1>2, WithdrawView
<1>5. /\ GoodQueue(r, now)
      /\ \A i \in 1 .. Len(r) : r[i].tid # t
  BY <1>1, RemoveGood DEF QueueInv
<1>6. Enque(r, NewItem(t, w, ms))
  OBVIOUS
<1> HIDE DEF r
<1>7. /\ Kept(queue', order')
      /\ View(queue', order')
           = Append(RemoveAt(View(queue, order), c), timer)
  BY <1>3, <1>4, <1>5, <1>6, EnqueView
<1>8. c \in 1 .. Len(Pending) /\ Pending[c].tid = t
  BY <1>1, <1>2, PendingAt
<1>9. Pending' = Append(RemoveAt(Pending, c), timer)
  BY <1>7, PendingIsView
<1>10. QED
  BY <1>7, <1>8, <1>9, TimersRemoveAt DEF Timers!Submit

(* Each call of the interface submits, cancels, or changes no timer. *)
LEMMA CallMaps ==
  ASSUME QueueInv, Kept(queue, order), now \in Time,
         UNCHANGED << func, current_tid >>,
         NEW t \in Tid, Call(t)
  PROVE  Kept(queue, order)' /\ [Timers!Next]_(Timers!vars)
<1>0. t \in Timers!Tid
  BY DEF Tid, Timers!Tid
<1>1. ASSUME UNCHANGED << queue, free, order >>
      PROVE  Kept(queue, order)' /\ [Timers!Next]_(Timers!vars)
  BY <1>1, PendingIsView DEF Timers!vars
<1>2. ASSUME NEW w \in Work, NEW ms \in Delays, Timers!Submit(t, w, ms)
      PROVE  Timers!Next
  BY <1>0, <1>2 DEF Timers!Next
<1>3. ASSUME NEW w \in Work, NEW ms \in Delays, nk_sched(t, w, ms)
      PROVE  Kept(queue, order)' /\ [Timers!Next]_(Timers!vars)
  <2>1. ASSUME NEW k \in 1 .. Len(queue), Found(t, k),
               Enque(RemoveAt(queue, k), NewItem(t, w, ms)),
               order' = Resubmitted(t)
        PROVE  Kept(queue, order)' /\ Timers!Submit(t, w, ms)
    BY <2>1, ResubmitMaps
  <2>2. ASSUME ~Queued(t), free > 0, Enque(queue, NewItem(t, w, ms)),
               order' = Resubmitted(t)
        PROVE  Kept(queue, order)' /\ Timers!Submit(t, w, ms)
    <3> DEFINE timer == [tid |-> t, work |-> w, left |-> ms]
    <3>1. order' = Append(order, t)
      BY <2>2 DEF Resubmitted
    <3>2. \A i \in 1 .. Len(queue) : queue[i].tid # t
      BY <2>2 DEF Queued
    <3>3. /\ Kept(queue', order')
          /\ View(queue', order') = Append(View(queue, order), timer)
      BY <2>2, <3>1, <3>2, EnqueView DEF QueueInv
    <3>4. Pending' = Append(Pending, timer)
      BY <3>3, PendingIsView
    <3>5. Len(Pending) < NItems
      <4>1. Len(Pending) = Len(queue)
        BY PendingIsView, ViewAt DEF Kept
      <4>2. /\ Len(queue) \in Nat /\ free \in Nat /\ NItems \in Nat
            /\ Len(queue) + free = NItems
        BY LenProperties, ConstantsOK DEF QueueInv, GoodQueue, ItemsConserved
      <4>3. QED
        BY <4>1, <4>2, <2>2
    <3>6. ~Timers!IsPending(t)
      <4>1. SUFFICES ASSUME NEW a \in 1 .. Len(Pending), Pending[a].tid = t
                     PROVE  FALSE
        BY DEF Timers!IsPending
      <4>2. a \in 1 .. Len(order)
        BY PendingIsView, ViewAt
      <4>3. PICK i \in 1 .. Len(queue) : queue[i].tid = order[a]
        BY <4>2 DEF Kept
      <4>4. Pending[a].tid = queue[i].tid
        BY <4>2, <4>3, PendingAt
      <4>5. QED
        BY <4>1, <4>4, <3>2
    <3>7. QED
      BY <3>3, <3>4, <3>5, <3>6 DEF Timers!Submit
  <2>3. QED
    BY <1>1, <1>2, <1>3, <2>1, <2>2 DEF nk_sched
<1>4. ASSUME NEW w \in Work, NEW ms \in Delays, nk_resched(t, w, ms)
      PROVE  Kept(queue, order)' /\ [Timers!Next]_(Timers!vars)
  <2>1. ASSUME NEW k \in 1 .. Len(queue), Found(t, k),
               Enque(RemoveAt(queue, k), NewItem(t, w, ms)),
               order' = Resubmitted(t)
        PROVE  Kept(queue, order)' /\ Timers!Submit(t, w, ms)
    BY <2>1, ResubmitMaps
  <2>2. QED
    BY <1>1, <1>2, <1>4, <2>1 DEF nk_resched
<1>5. ASSUME nk_unsched(t)
      PROVE  Kept(queue, order)' /\ [Timers!Next]_(Timers!vars)
  <2>1. ASSUME NEW k \in 1 .. Len(queue), Found(t, k),
               queue' = RemoveAt(queue, k), order' = Withdrawn(t)
        PROVE  Kept(queue, order)' /\ Timers!Next
    <3>1. queue[k].tid = t
      BY <2>1 DEF Found
    <3>2. PICK c \in 1 .. Len(order) :
            order[c] = t /\ Withdrawn(t) = RemoveAt(order, c)
      BY <3>1, WithdrawnFrom
    <3>3. /\ Kept(queue', order')
          /\ View(queue', order') = RemoveAt(View(queue, order), c)
      BY <2>1, <3>1, <3>2, WithdrawView
    <3>4. c \in 1 .. Len(Pending) /\ Pending[c].tid = t
      BY <3>1, <3>2, PendingAt
    <3>5. Pending' = RemoveAt(Pending, c)
      BY <3>3, PendingIsView
    <3>6. Timers!Cancel(t)
      BY <3>4, <3>5, TimersRemoveAt DEF Timers!Cancel
    <3>7. QED
      BY <1>0, <3>3, <3>6 DEF Timers!Next
  <2>2. QED
    BY <1>1, <1>5, <2>1 DEF nk_unsched
<1>6. ASSUME nk_check(t)
      PROVE  Kept(queue, order)' /\ [Timers!Next]_(Timers!vars)
  BY <1>1, <1>6 DEF nk_check
<1>7. QED
  BY <1>3, <1>4, <1>5, <1>6 DEF Call

-----------------------------------------------------------------------------
(* Time and the main loop *)

(* The tick brings every timer one tick closer. *)
LEMMA TickMaps ==
  ASSUME Kept(queue, order), TickHandler
  PROVE  Kept(queue, order)' /\ Timers!Next
<1>0. /\ queue \in Seq(Item) /\ order \in Seq(Tid) /\ Len(order) = Len(queue)
      /\ Len(queue) \in Nat
  BY LenProperties DEF Kept
<1>1. /\ queue' = [k \in 1 .. Len(queue) |-> Closer(queue[k])]
      /\ order' = order /\ func' = func /\ current_tid' = current_tid
  BY DEF TickHandler
<1>2. \A k \in 1 .. Len(queue) :
        /\ queue[k] \in Item
        /\ Closer(queue[k]) \in Item
        /\ Closer(queue[k]).tid = queue[k].tid
        /\ Closer(queue[k]).left = queue[k].left - 1
        /\ Closer(queue[k]).ms = queue[k].ms - 1
  BY <1>0, ElementOfSeq, CloserProps
<1>3. queue' \in Seq(Item) /\ Len(queue') = Len(queue)
  BY <1>0, <1>1, <1>2, IsASeq
<1>4. \A k \in 1 .. Len(queue) :
        /\ queue[k] \in Item /\ queue'[k] \in Item
        /\ queue'[k].tid = queue[k].tid
        /\ queue'[k].left = queue[k].left - 1
        /\ queue'[k].ms = queue[k].ms - 1
  BY <1>1, <1>2
<1>5. \A k \in 1 .. Len(queue) : queue'[k].work = queue[k].work
  <2>1. ASSUME NEW e \in Item PROVE Closer(e).work = e.work
    BY DEF Closer, Item
  <2>2. QED
    BY <1>1, <1>2, <2>1
<1>6. \A i, j \in 1 .. Len(queue) :
        queue'[i].left = queue'[j].left => queue[i].left = queue[j].left
  <2>1. \A k \in 1 .. Len(queue) : queue[k].left \in Int
    BY <1>4 DEF Item
  <2>2. QED
    BY <2>1, <1>4
<1>7. Kept(queue', order')
  <2>a. /\ \A i, j \in 1 .. Len(queue) : queue[i].tid = queue[j].tid => i = j
        /\ \A a, b \in 1 .. Len(order) : order[a] = order[b] => a = b
    BY DEF Kept
  <2>b. /\ \A i \in 1 .. Len(queue) :
             \E a \in 1 .. Len(order) : order[a] = queue[i].tid
        /\ \A a \in 1 .. Len(order) :
             \E i \in 1 .. Len(queue) : queue[i].tid = order[a]
    BY DEF Kept
  <2>c. \A i, j \in 1 .. Len(queue), a, b \in 1 .. Len(order) :
          i < j /\ queue[i].left = queue[j].left
          /\ order[a] = queue[i].tid /\ order[b] = queue[j].tid => a < b
    BY DEF Kept
  <2>d. \A k \in 1 .. Len(queue) : queue'[k].tid = queue[k].tid
    BY <1>4
  <2>1. \A i, j \in 1 .. Len(queue'), a, b \in 1 .. Len(order') :
          i < j /\ queue'[i].left = queue'[j].left
          /\ order'[a] = queue'[i].tid /\ order'[b] = queue'[j].tid => a < b
    <3>1. SUFFICES ASSUME NEW i \in 1 .. Len(queue),
                          NEW j \in 1 .. Len(queue),
                          NEW a \in 1 .. Len(order),
                          NEW b \in 1 .. Len(order),
                          i < j, queue'[i].left = queue'[j].left,
                          order[a] = queue'[i].tid, order[b] = queue'[j].tid
                   PROVE  a < b
      BY <1>1, <1>3
    <3>2. queue[i].left = queue[j].left
      BY <3>1, <1>6
    <3>3. order[a] = queue[i].tid /\ order[b] = queue[j].tid
      BY <3>1, <2>d
    <3>4. QED
      BY <3>1, <3>2, <3>3, <2>c
  <2>2. \A i, j \in 1 .. Len(queue') : queue'[i].tid = queue'[j].tid => i = j
    BY <1>3, <2>a, <2>d
  <2>3. /\ \A i \in 1 .. Len(queue') :
             \E a \in 1 .. Len(order') : order'[a] = queue'[i].tid
        /\ \A a \in 1 .. Len(order') :
             \E i \in 1 .. Len(queue') : queue'[i].tid = order'[a]
    <3>1. ASSUME NEW i \in 1 .. Len(queue)
          PROVE  \E a \in 1 .. Len(order) : order[a] = queue'[i].tid
      BY <2>b, <2>d
    <3>2. ASSUME NEW a \in 1 .. Len(order)
          PROVE  \E i \in 1 .. Len(queue) : queue'[i].tid = order[a]
      BY <2>b, <2>d
    <3>3. QED
      BY ONLY <3>1, <3>2, <1>1, <1>3
  <2>4. \A a, b \in 1 .. Len(order') : order'[a] = order'[b] => a = b
    BY <1>1, <2>a
  <2>5. /\ queue' \in Seq(Item) /\ order' \in Seq(Tid)
        /\ Len(order') = Len(queue')
    BY <1>0, <1>1, <1>3
  <2>6. QED
    BY ONLY <2>1, <2>2, <2>3, <2>4, <2>5 DEF Kept
<1>8. /\ Len(Pending) = Len(order)
      /\ \A a \in 1 .. Len(order) : Pending[a] \in Timer
  BY PendingIsView, ViewAt, ElementOfSeq
<1> DEFINE next(a) == [Pending[a] EXCEPT !.left = @ - 1]
           p == [a \in 1 .. Len(Pending) |-> next(a)]
<1>9. \A a \in 1 .. Len(order) :
        /\ next(a) \in Timer
        /\ next(a).tid = Pending[a].tid
        /\ next(a).work = Pending[a].work
        /\ next(a).left = Pending[a].left - 1
  BY <1>8 DEF Timer
<1>10. p \in Seq(Timer) /\ Len(p) = Len(order)
       /\ \A a \in 1 .. Len(order) : p[a] = next(a)
  <2>1. Len(Pending) \in Nat /\ \A a \in 1 .. Len(Pending) : next(a) \in Timer
    BY <1>0, <1>8, <1>9
  <2> HIDE DEF next
  <2>2. p \in Seq(Timer) /\ Len(p) = Len(Pending)
    BY <2>1, IsASeq
  <2>3. QED
    BY <2>2, <1>8
<1> HIDE DEF p
<1>11. ASSUME NEW a \in 1 .. Len(order)
       PROVE  \E k \in 1 .. Len(queue') :
                queue'[k].tid = order'[a] /\ p[a] = TimerOf(queue'[k])
  <2>1. PICK k \in 1 .. Len(queue) : queue[k].tid = order[a]
    BY DEF Kept
  <2>2. /\ Pending[a].tid = queue[k].tid
        /\ Pending[a].work = queue[k].work
        /\ Pending[a].left = queue[k].ms
    BY <2>1, PendingAt
  <2>3. /\ TimerOf(queue'[k]) \in Timer
        /\ TimerOf(queue'[k]).tid = next(a).tid
        /\ TimerOf(queue'[k]).work = next(a).work
        /\ TimerOf(queue'[k]).left = next(a).left
    BY <2>2, <1>4, <1>5, <1>9, TimerType
  <2>4. TimerOf(queue'[k]) = next(a)
    BY <2>3, <1>9 DEF Timer
  <2>5. QED
    BY <2>1, <2>4, <1>1, <1>3, <1>4, <1>10
<1>12. View(queue', order') = p
  <2>1. Len(p) = Len(order')
    BY <1>1, <1>10
  <2>2. \A a \in 1 .. Len(order') : \E k \in 1 .. Len(queue') :
          queue'[k].tid = order'[a] /\ p[a] = TimerOf(queue'[k])
    BY <1>1, <1>11
  <2>3. QED
    BY ONLY <1>7, <1>10, <2>1, <2>2, ViewIs
<1>13. Timers!Elapse
  BY <1>1, <1>12, PendingIsView DEF Timers!Elapse, p
<1>14. QED
  BY <1>7, <1>13 DEF Timers!Next

(* The main loop runs the timer that expires first. *)
LEMMA DispatchMaps ==
  ASSUME DelaysInRange, IInv, Kept(queue, order), func = NoWork, Dispatch
  PROVE  Kept(queue, order)' /\ Timers!Next
<1>0. /\ queue \in Seq(Item) /\ Len(queue) \in Nat /\ now \in Time
  BY LenProperties DEF IInv, TypeOK
<1>1. /\ queue # << >> /\ queue' = RemoveAt(queue, 1)
      /\ order' = Withdrawn(queue[1].tid)
      /\ func' = queue[1].work /\ current_tid' = queue[1].tid
  BY DEF Dispatch, HeadDue
<1>2. 1 \in 1 .. Len(queue)
  BY <1>0, <1>1, EmptySeq
<1>3. PICK c \in 1 .. Len(order) :
        /\ order[c] = queue[1].tid
        /\ Withdrawn(queue[1].tid) = RemoveAt(order, c)
  BY <1>2, WithdrawnFrom
<1>4. /\ Kept(queue', order')
      /\ View(queue', order') = RemoveAt(View(queue, order), c)
  BY <1>1, <1>2, <1>3, WithdrawView
<1>5. Pending' = Timers!RemoveAt(Pending, c)
  BY <1>4, PendingIsView, TimersRemoveAt
<1>6. /\ Len(Pending) = Len(order)
      /\ Pending[c].tid = queue[1].tid
      /\ Pending[c].work = queue[1].work
      /\ Pending[c].left = queue[1].ms
  BY <1>2, <1>3, PendingAt
<1>7. \A k \in 1 .. Len(queue) : queue[k].ms = queue[k].left
  BY DEF IInv, TimesAgree, OnTime
<1>8. ASSUME NEW k \in 1 .. Len(queue)
      PROVE  queue[k].left \in Int
  <2>1. queue[k] \in Item
    BY <1>0, ElementOfSeq
  <2>2. QED
    BY <2>1 DEF Item
<1>9. Pending[c].left <= 0
  BY <1>6, HeadDueInTime
<1>10. Timers!First(c)
  <2>1. SUFFICES ASSUME NEW a \in 1 .. Len(order)
                 PROVE  \/ Pending[c].left < Pending[a].left
                        \/ Pending[c].left = Pending[a].left /\ c <= a
    BY <1>6 DEF Timers!First
  <2>2. PICK k \in 1 .. Len(queue) : queue[k].tid = order[a]
    BY DEF Kept
  <2>3. Pending[a].left = queue[k].ms
    BY <2>2, PendingAt
  <2>4. queue[1].left <= queue[k].left
    <3>1. k = 1 \/ 1 < k
      BY <1>0
    <3>2. QED
      BY <3>1, <1>2, <1>8 DEF IInv, Sorted
  <2>5. ASSUME queue[1].left = queue[k].left
        PROVE  c <= a
    <3>1. CASE k = 1
      BY <3>1, <2>2, <1>3 DEF Kept
    <3>2. CASE 1 < k
      BY <3>2, <2>2, <2>5, <1>2, <1>3, Z3 DEF Kept
    <3>3. QED
      BY <3>1, <3>2, <1>0
  <2>6. QED
    BY <2>3, <2>4, <2>5, <1>2, <1>6, <1>7, <1>8
<1>11. Timers!Run
  BY <1>1, <1>5, <1>6, <1>9, <1>10 DEF Timers!Run
<1>12. QED
  BY <1>4, <1>11 DEF Timers!Next

-----------------------------------------------------------------------------
(* The specification *)

(* no function is being called while the main loop looks for one *)
KInv == Kept(queue, order) /\ (pc # "run" => func = NoWork)

LEMMA InitMaps == Init => KInv /\ Timers!Init
<1> SUFFICES ASSUME Init PROVE KInv /\ Timers!Init
  OBVIOUS
<1>1. /\ queue = << >> /\ queue \in Seq(Item) /\ Len(queue) = 0
      /\ order = << >> /\ order \in Seq(Tid) /\ Len(order) = 0
      /\ pc = "run" /\ func = NoWork /\ current_tid = 0
  BY DEF Init
<1>2. Kept(queue, order)
  BY <1>1 DEF Kept
<1>3. View(queue, order) \in Seq(Timer) /\ Len(View(queue, order)) = 0
  BY <1>1, <1>2, ViewAt
<1>4. Pending = << >>
  BY <1>3, PendingIsView, EmptySeq
<1>5. QED
  BY <1>1, <1>2, <1>4 DEF KInv, Timers!Init

(* Every step of the scheduler is a step of the timers, or leaves them. *)
LEMMA NextMaps ==
  ASSUME DelaysInRange, IInv, KInv, [Next]_vars
  PROVE  KInv' /\ [Timers!Next]_(Timers!vars)
<1>1. TypeOK /\ QueueInv
  BY GoodQueueIsInvariant DEF IInv, TypeOK, QueueInv
<1>2. Kept(queue, order) /\ (pc # "run" => func = NoWork) /\ now \in Time
  BY <1>1 DEF KInv, TypeOK
<1>3. MaxTid \in Nat
  BY ConstantsOK
<1>4. ASSUME UNCHANGED << queue, order, func, current_tid >>,
             pc' # "run" => func = NoWork
      PROVE  KInv' /\ [Timers!Next]_(Timers!vars)
  BY <1>2, <1>4, PendingIsView DEF KInv, Timers!vars
<1>5. ASSUME NEW t \in 1 .. next_tid, Call(t),
             UNCHANGED << pc, func, current_tid >>
      PROVE  KInv' /\ [Timers!Next]_(Timers!vars)
  <2>1. t \in Tid
    BY <1>1, <1>3 DEF TypeOK, Tid
  <2>2. Kept(queue, order)' /\ [Timers!Next]_(Timers!vars)
    BY <1>1, <1>2, <1>5, <2>1, CallMaps
  <2>3. QED
    BY <1>2, <1>5, <2>2 DEF KInv
<1>6. CASE nk_alloc_tid
  BY <1>2, <1>4, <1>6 DEF nk_alloc_tid, interface
<1>7. ASSUME NEW m \in SleepModes, nk_set_sched_sleep_mode(m)
      PROVE  KInv' /\ [Timers!Next]_(Timers!vars)
  BY <1>2, <1>4, <1>7 DEF nk_set_sched_sleep_mode, interface
<1>8. CASE TaskCalls
  BY <1>5, <1>8 DEF TaskCalls
<1>9. CASE TaskReturns
  <2>1. /\ func' = NoWork
        /\ UNCHANGED << queue, order, current_tid >>
    BY <1>9 DEF TaskReturns, interface
  <2>2. Timers!Return
    BY <2>1, PendingIsView DEF Timers!Return
  <2>3. QED
    BY <1>2, <2>1, <2>2 DEF KInv, Timers!Next
<1>10. CASE Dispatch
  <2>1. func = NoWork /\ pc' = "run"
    BY <1>2, <1>10 DEF Dispatch
  <2>2. Kept(queue, order)' /\ Timers!Next
    BY <1>2, <1>10, <2>1, DispatchMaps
  <2>3. QED
    BY <2>1, <2>2 DEF KInv
<1>11. CASE Idle
  BY <1>2, <1>4, <1>11 DEF Idle, interface
<1>12. CASE WakeUp
  BY <1>2, <1>4, <1>12 DEF WakeUp, interface
<1>13. ASSUME NEW source \in {"tick", "isr"}, Raise(source)
       PROVE  KInv' /\ [Timers!Next]_(Timers!vars)
  BY <1>2, <1>4, <1>13 DEF Raise, interface
<1>14. CASE TickHandler
  <2>1. Kept(queue, order)' /\ Timers!Next
    BY <1>2, <1>14, TickMaps
  <2>2. UNCHANGED << pc, func >>
    BY <1>14 DEF TickHandler
  <2>3. QED
    BY <1>2, <2>1, <2>2 DEF KInv
<1>15. CASE InterruptCalls
  BY <1>5, <1>15 DEF InterruptCalls
<1>16. CASE UNCHANGED vars
  BY <1>2, <1>4, <1>16 DEF vars
<1>17. QED
  BY <1>6, <1>7, <1>8, <1>9, <1>10, <1>11, <1>12, <1>13, <1>14, <1>15, <1>16
     DEF Next, MainLoop

(***************************************************************************)
(* The work queue implements the timer service: whatever calls, interrupts *)
(* and ticks interleave, a function runs with the work submitted last for  *)
(* its task id, not before its delay is over, the earliest first and in    *)
(* the order of submission among those that are due together, and never    *)
(* after it was cancelled.  It is so as long as no caller passes a delay   *)
(* that overflows in nk_convert_delay.                                     *)
(***************************************************************************)
THEOREM ImplementsTimerService ==
  ASSUME DelaysInRange
  PROVE  Spec => ImplementsTimers
<1>1. Init => KInv /\ Timers!Init
  BY InitMaps
<1>2. IInv /\ KInv /\ [Next]_vars => KInv' /\ [Timers!Next]_(Timers!vars)
  BY NextMaps
<1>3. QED
  BY <1>1, <1>2, Invariance, PTL DEF Spec, ImplementsTimers, Timers!Spec
=============================================================================
