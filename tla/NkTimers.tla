------------------------------ MODULE NkTimers -----------------------------
(***************************************************************************)
(* What the scheduler of libnklabs promises its callers: at most Capacity  *)
(* pending timers, one per task id, each with the work to do and the time  *)
(* left until it may run.  A timer that has expired is run by the main     *)
(* loop: always one that expired first and, among those that expired       *)
(* together, the one submitted first.  There is no queue order here, no    *)
(* time counter and no interrupt; pending is in the order of submission.   *)
(***************************************************************************)
EXTENDS Integers, Sequences, SequencesExt

CONSTANTS Work, NoWork, Delays, MaxTid, Capacity

VARIABLES pending, called, called_tid

vars == << pending, called, called_tid >>

Tid == 1 .. MaxTid

Init ==
  /\ pending = << >>
  /\ called = NoWork
  /\ called_tid = 0

IsPending(t) == \E k \in 1 .. Len(pending) : pending[k].tid = t

Submit(t, w, d) ==
  LET timer == [tid |-> t, work |-> w, left |-> d] IN
  /\ \/ \E k \in 1 .. Len(pending) :
          /\ pending[k].tid = t
          /\ pending' = Append(RemoveAt(pending, k), timer)
     \/ /\ ~IsPending(t)
        /\ Len(pending) < Capacity
        /\ pending' = Append(pending, timer)
  /\ UNCHANGED << called, called_tid >>

Cancel(t) ==
  /\ \E k \in 1 .. Len(pending) :
       /\ pending[k].tid = t
       /\ pending' = RemoveAt(pending, k)
  /\ UNCHANGED << called, called_tid >>

Elapse ==
  /\ pending' = [k \in 1 .. Len(pending) |->
                  [pending[k] EXCEPT !.left = @ - 1]]
  /\ UNCHANGED << called, called_tid >>

First(k) ==
  \A j \in 1 .. Len(pending) :
    \/ pending[k].left < pending[j].left
    \/ pending[k].left = pending[j].left /\ k <= j

Run ==
  \E k \in 1 .. Len(pending) :
    /\ called = NoWork
    /\ pending[k].left <= 0
    /\ First(k)
    /\ pending' = RemoveAt(pending, k)
    /\ called' = pending[k].work
    /\ called_tid' = pending[k].tid

Return ==
  /\ called' = NoWork
  /\ UNCHANGED << pending, called_tid >>

Next ==
  \/ \E t \in Tid, w \in Work, d \in Delays : Submit(t, w, d)
  \/ \E t \in Tid : Cancel(t)
  \/ Elapse
  \/ Run
  \/ Return

Spec == Init /\ [][Next]_vars
=============================================================================
