-------------------------------- MODULE Lists -------------------------------
(***************************************************************************)
(* List<TCB> of list.hpp and the sleep queue built on it, as pointers: a   *)
(* list is a head and a tail, and the links of all lists share the fields  *)
(* next and prev of a TCB.  The operations are functions on a record of    *)
(* these pointers, composed the way the code calls them; each call is made *)
(* inside a trap and is one step.                                          *)
(* The clients are the kernel's: a thread that is in no list enters any    *)
(* list or goes to sleep, and a list is emptied from either end.           *)
(* The definitions called faulty are no part of the specification.         *)
(***************************************************************************)
EXTENDS Integers, Sequences, FiniteSets

CONSTANTS
  TCB,
  Other,      (* the lists of the semaphores                               *)
  Ready,      (* Scheduler::queue                                          *)
  Asleep,     (* sleep_queue                                               *)
  NULL,
  MaxSleep    (* bound: ticks given to put_to_sleep                        *)

ASSUME ListAssumption ==
  /\ NULL \notin TCB
  /\ Ready # Asleep /\ {Ready, Asleep} \cap Other = {}
  /\ IsFiniteSet(TCB)
  /\ MaxSleep \in Nat

List == Other \cup {Ready, Asleep}

(* [head, tail : List -> TCB, next, prev : TCB -> TCB, sleep_for]          *)
VARIABLE mem

Init ==
  mem = [head      |-> [l \in List |-> NULL],
         tail      |-> [l \in List |-> NULL],
         next      |-> [t \in TCB |-> NULL],
         prev      |-> [t \in TCB |-> NULL],
         sleep_for |-> [t \in TCB |-> 0]]

-----------------------------------------------------------------------------
(* list.hpp                                                                *)

IsEmpty(m, l) == m.head[l] = NULL

Unlink(m, t) == [m EXCEPT !.next[t] = NULL, !.prev[t] = NULL]

(* Assignments through a pointer, which is not null where they are made.   *)
Link(m, a, b) == [m EXCEPT !.next[a] = b, !.prev[b] = a]

SetFirst(m, l, t) == [Unlink(m, t) EXCEPT !.head[l] = t, !.tail[l] = t]

AddFirst(m, l, t) ==
  IF IsEmpty(m, l) THEN SetFirst(m, l, t)
  ELSE [Link(m, t, m.head[l]) EXCEPT !.prev[t] = NULL, !.head[l] = t]

AddLast(m, l, t) ==
  IF IsEmpty(m, l) THEN SetFirst(m, l, t)
  ELSE [Link(m, m.tail[l], t) EXCEPT !.next[t] = NULL, !.tail[l] = t]

TakeFirst(m, l) ==
  LET t == m.head[l]
      rest == [m EXCEPT !.head[l] = m.next[t]]
  IN IF IsEmpty(m, l) THEN m
     ELSE Unlink(IF m.next[t] = NULL THEN [rest EXCEPT !.tail[l] = NULL]
                                     ELSE [rest EXCEPT !.prev[m.next[t]] = NULL], t)

(* Faulty: the head of a list that becomes empty is left.                  *)
TakeLastHeadLeft(m, l) ==
  LET t == m.tail[l]
      rest == [m EXCEPT !.tail[l] = m.prev[t]]
  IN IF IsEmpty(m, l) THEN m
     ELSE Unlink(IF m.prev[t] = NULL THEN rest
                                     ELSE [rest EXCEPT !.next[m.prev[t]] = NULL], t)

TakeLast(m, l) ==
  LET t == m.tail[l]
      rest == [m EXCEPT !.tail[l] = m.prev[t]]
  IN IF IsEmpty(m, l) THEN m
     ELSE Unlink(IF m.prev[t] = NULL THEN [rest EXCEPT !.head[l] = NULL]
                                     ELSE [rest EXCEPT !.next[m.prev[t]] = NULL], t)

(* The threads of a list, found along its next pointers, as the code finds *)
(* them; no more than there are threads, should the pointers go in circle. *)
Walk(m, l) ==
  LET n == Cardinality(TCB)
      at[i \in 0..n] == IF i = 0 THEN m.head[l]
                        ELSE IF at[i-1] = NULL THEN NULL ELSE m.next[at[i-1]]
  IN [i \in 1..Cardinality({j \in 0..n : at[j] # NULL}) |-> at[i-1]]

-----------------------------------------------------------------------------
(* k_tcb_sleep_queue.cpp                                                   *)

(* Faulty: the new sleeper is not linked back from its successor.          *)
InsertBeforeUnlinked(m, t, c, delta) ==
  LET before == m.prev[c]
      linked == [m EXCEPT !.next[t] = c, !.prev[t] = before,
                          !.sleep_for[t] = delta, !.sleep_for[c] = m.sleep_for[c] - delta]
  IN IF before = NULL THEN [linked EXCEPT !.head[Asleep] = t]
                      ELSE [linked EXCEPT !.next[before] = t]

(* The new sleeper t, delta ticks after its predecessor, before c.         *)
InsertBefore(m, t, c, delta) ==
  LET before == m.prev[c]
      linked == [m EXCEPT !.next[t] = c, !.prev[t] = before, !.prev[c] = t,
                          !.sleep_for[t] = delta, !.sleep_for[c] = m.sleep_for[c] - delta]
  IN IF before = NULL THEN [linked EXCEPT !.head[Asleep] = t]
                      ELSE [linked EXCEPT !.next[before] = t]

(* total_time when the loop looks at the i-th sleeper.                     *)
TotalTime(m) ==
  LET walk == Walk(m, Asleep)
      total[i \in 0..Len(walk)] ==
        IF i = 0 THEN 0 ELSE total[i-1] + m.sleep_for[walk[i]]
  IN total

(* The loop stops at the first that wakes later than the new one.          *)
PutToSleep(m, t, ticks) ==
  LET walk  == Walk(m, Asleep)
      total == TotalTime(m)
      later == {i \in 1..Len(walk) : ticks < total[i]}
      k     == CHOOSE i \in later : \A j \in later : i <= j
      new   == Unlink([m EXCEPT !.sleep_for[t] = ticks], t)
  IN IF later # {}
       THEN InsertBefore(new, t, walk[k], ticks - total[k-1])
       ELSE AddLast([new EXCEPT !.sleep_for[t] = ticks - total[Len(walk)]], Asleep, t)

(* Take n sleepers off the queue, one after the other, and put_tcb each.   *)
Waking(m, n) ==
  LET wake[i \in 0..n] ==
        IF i = 0 THEN m
        ELSE LET t == wake[i-1].head[Asleep]
             IN AddLast(TakeFirst(wake[i-1], Asleep), Ready, t)
  IN wake[n]

TimerTick(m) ==
  LET walk    == Walk(m, Asleep)
      ticked  == [m EXCEPT !.sleep_for[walk[1]] = @ - 1]
      expired == {i \in 1..Len(walk) : \A j \in 1..i : ticked.sleep_for[walk[j]] <= 0}
  IN IF IsEmpty(m, Asleep) THEN m ELSE Waking(ticked, Cardinality(expired))

-----------------------------------------------------------------------------
(* A thread of no list is the one that runs, or the one an unblock or      *)
(* next_tcb has just taken.                                                *)
InNoList(t) ==
  \A l \in List : LET w == Walk(mem, l) IN \A i \in DOMAIN w : w[i] # t

Add(t, l) ==
  /\ InNoList(t)
  /\ mem' = AddLast(mem, l, t) \/ mem' = AddFirst(mem, l, t)

Take(l) == mem' = TakeFirst(mem, l) \/ mem' = TakeLast(mem, l)

Sleep(t, ticks) == InNoList(t) /\ mem' = PutToSleep(mem, t, ticks)

Tick == mem' = TimerTick(mem)

Next ==
  \/ \E l \in List \ {Asleep} : Take(l) \/ \E t \in TCB : Add(t, l)
  \/ \E t \in TCB, ticks \in 1..MaxSleep : Sleep(t, ticks)
  \/ Tick

Spec == Init /\ [][Next]_mem

-----------------------------------------------------------------------------
(* A list can be walked from either end and ends at the other; no TCB is   *)
(* in two lists.  TakeLast and the insertion into the sleep queue trust    *)
(* prev, which no other operation reads.                                   *)
WellLinked ==
  /\ \A l \in List :
       LET w == Walk(mem, l)
       IN /\ mem.head[l] = IF w = <<>> THEN NULL ELSE w[1]
          /\ mem.tail[l] = IF w = <<>> THEN NULL ELSE w[Len(w)]
          /\ \A i \in DOMAIN w :
               /\ mem.prev[w[i]] = IF i = 1 THEN NULL ELSE w[i-1]
               /\ \A k \in List : \A j \in DOMAIN Walk(mem, k) :
                    Walk(mem, k)[j] = w[i] => k = l /\ j = i

(* The pointers amount to queues, and the relative times to one count of   *)
(* ticks for each sleeper: what goes in comes out, once, in order, and     *)
(* the sleepers whose last tick it is become ready together.               *)
QueuesOf(m) == [l \in List \ {Asleep} |-> Walk(m, l)]

TicksLeft(m) ==
  LET walk     == Walk(m, Asleep)
      place(t) == {i \in DOMAIN walk : walk[i] = t}
  IN [t \in TCB |-> IF place(t) = {} THEN 0
                    ELSE TotalTime(m)[CHOOSE i \in place(t) : TRUE]]

Promised == INSTANCE Queues WITH
  Thread   <- TCB,
  Queue    <- List \ {Asleep},
  MaxTicks <- MaxSleep,
  queue    <- QueuesOf(mem),
  sleeper  <- Walk(mem, Asleep),
  left     <- TicksLeft(mem)

QueuesImplemented == Promised!Spec
=============================================================================
