----------------------------- MODULE Semaphores -----------------------------
(***************************************************************************)
(* What a semaphore promises, with no counter that goes negative, no       *)
(* scheduler and no context switch: permits, a first-come first-served     *)
(* queue of threads, and for each thread how its last stay in a queue      *)
(* ended.  A thread that waits is either in the queue of exactly one       *)
(* semaphore, or has got its permit, or was cut because the semaphore was  *)
(* closed.                                                                 *)
(***************************************************************************)
EXTENDS Naturals, Sequences

CONSTANTS Thread, Semaphore, MaxPermits

VARIABLES
  exists,    \* the semaphores that exist
  permits,   \* permits each semaphore can still give
  queue,     \* the threads waiting for a permit, in order of arrival
  cut        \* the threads whose last stay in a queue was cut by a Close

semaphores == <<exists, permits, queue, cut>>

Queued(t) == \E s \in exists : \E i \in DOMAIN queue[s] : queue[s][i] = t

Create(s, n) ==
  /\ s \notin exists
  /\ exists' = exists \cup {s}
  /\ permits' = [permits EXCEPT ![s] = n]
  /\ queue' = [queue EXCEPT ![s] = <<>>]

(* A semaphore of its own; or one made with a new thread.                  *)
Open(s, n) == Create(s, n) /\ UNCHANGED cut

Spawn(t, s) == ~Queued(t) /\ Create(s, 0) /\ cut' = cut \ {t}

Wait(t, s) ==
  /\ s \in exists
  /\ ~Queued(t)
  /\ \/ /\ permits[s] > 0
        /\ permits' = [permits EXCEPT ![s] = @ - 1]
        /\ UNCHANGED queue
     \/ /\ permits[s] = 0
        /\ queue' = [queue EXCEPT ![s] = Append(@, t)]
        /\ UNCHANGED permits
  /\ UNCHANGED <<exists, cut>>

(* n permits, to the first of the queue and the rest kept.                 *)
Signal(s, n) ==
  /\ s \in exists
  /\ LET served == IF n <= Len(queue[s]) THEN n ELSE Len(queue[s])
     IN /\ queue' = [queue EXCEPT ![s] = SubSeq(@, served + 1, Len(@))]
        /\ permits' = [permits EXCEPT ![s] = @ + (n - served)]
        /\ cut' = cut \ {queue[s][i] : i \in 1..served}
  /\ UNCHANGED exists

Close(s) ==
  /\ s \in exists
  /\ exists' = exists \ {s}
  /\ permits' = [permits EXCEPT ![s] = 0]
  /\ queue' = [queue EXCEPT ![s] = <<>>]
  /\ cut' = cut \cup {queue[s][i] : i \in DOMAIN queue[s]}

Init ==
  /\ exists \subseteq Semaphore
  /\ permits \in [Semaphore -> 0..MaxPermits]
  /\ queue = [s \in Semaphore |-> <<>>]
  /\ cut = {}

Next ==
  \E s \in Semaphore :
    \/ \E n \in 0..MaxPermits : Open(s, n) \/ Signal(s, n)
    \/ \E t \in Thread : Spawn(t, s) \/ Wait(t, s)
    \/ Close(s)

Spec == Init /\ [][Next]_semaphores
=============================================================================
