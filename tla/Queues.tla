------------------------------- MODULE Queues -------------------------------
(***************************************************************************)
(* What the lists of the kernel promise, with no pointers and no relative  *)
(* times: queues of threads, of which each thread is in one at most, and a *)
(* queue of sleepers in which each has its own count of ticks left.        *)
(***************************************************************************)
EXTENDS Naturals, Sequences

CONSTANTS Thread, Queue, Ready, MaxTicks

VARIABLES
  queue,     \* the threads of each queue, in order
  sleeper,   \* the sleeping threads, the next to wake first
  left       \* ticks each thread still sleeps, 0 when it does not

queues == <<queue, sleeper, left>>

In(t, q) == \E i \in DOMAIN q : q[i] = t

Free(t) == ~In(t, sleeper) /\ \A q \in Queue : ~In(t, queue[q])

Enter(t, q) ==
  /\ Free(t)
  /\ \/ queue' = [queue EXCEPT ![q] = Append(@, t)]
     \/ queue' = [queue EXCEPT ![q] = <<t>> \o @]
  /\ UNCHANGED <<sleeper, left>>

Leave(q) ==
  /\ queue[q] # <<>>
  /\ \/ queue' = [queue EXCEPT ![q] = Tail(@)]
     \/ queue' = [queue EXCEPT ![q] = SubSeq(@, 1, Len(@) - 1)]
  /\ UNCHANGED <<sleeper, left>>

(* Behind those who wake no later, in front of the others.                 *)
Sleep(t, n) ==
  /\ Free(t)
  /\ \E k \in 0..Len(sleeper) :
       /\ \A i \in 1..Len(sleeper) : left[sleeper[i]] <= n <=> i <= k
       /\ sleeper' = SubSeq(sleeper, 1, k) \o <<t>> \o SubSeq(sleeper, k + 1, Len(sleeper))
  /\ left' = [left EXCEPT ![t] = n]
  /\ UNCHANGED queue

(* Those whose last tick it is become ready, in the order of the queue.    *)
Tick ==
  /\ left' = [t \in Thread |-> IF left[t] = 0 THEN 0 ELSE left[t] - 1]
  /\ \E k \in 0..Len(sleeper) :
       /\ \A i \in 1..Len(sleeper) : left[sleeper[i]] = 1 <=> i <= k
       /\ sleeper' = SubSeq(sleeper, k + 1, Len(sleeper))
       /\ queue' = [queue EXCEPT ![Ready] = @ \o SubSeq(sleeper, 1, k)]

Init ==
  /\ queue = [q \in Queue |-> <<>>]
  /\ sleeper = <<>>
  /\ left = [t \in Thread |-> 0]

Next ==
  \/ \E q \in Queue : Leave(q) \/ \E t \in Thread : Enter(t, q)
  \/ \E t \in Thread, n \in 1..MaxTicks : Sleep(t, n)
  \/ Tick

Spec == Init /\ [][Next]_queues
=============================================================================
