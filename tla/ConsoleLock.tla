---------------------------- MODULE ConsoleLock -----------------------------
(***************************************************************************)
(* The lock of Console::print_string, print_uint64 and get_string          *)
(* (console.cpp): a semaphore made on first use, by code that runs outside *)
(* the kernel and can be preempted between any two of its statements.      *)
(* sem_wait and sem_signal are traps, so each is one step; which of the    *)
(* threads that are not blocked takes the next step is arbitrary.          *)
(* The definitions called faulty are no part of the specification.         *)
(***************************************************************************)
EXTENDS Integers, Sequences, FiniteSets

CONSTANTS
  Thread,
  Early   (* the threads that exist before the console is first used; they *)
          (* create the others after they have used it                     *)

ASSUME ConsoleAssumption == Early \subseteq Thread

VARIABLES
  pc,            \* the next statement of each thread
  initialized,   \* the static local of console_lock
  value,         \* console_sem.value
  waiting        \* console_sem.suspended_tcbs

vars == <<pc, initialized, value, waiting>>

(* Before initialize the semaphore is static storage, all zero.            *)
Init ==
  /\ pc = [t \in Thread |-> IF t \in Early THEN "enter" ELSE "absent"]
  /\ initialized = FALSE
  /\ value = 0
  /\ waiting = <<>>

Goto(t, from, to) == pc[t] = from /\ pc' = [pc EXCEPT ![t] = to]

(* A thread that is done with the console creates t.                       *)
Begin(t) ==
  /\ initialized
  /\ \E u \in Thread : pc[u] = "enter"
  /\ Goto(t, "absent", "enter")
  /\ UNCHANGED <<initialized, value, waiting>>

(* if (!initialized)                                                       *)
Test(t) ==
  /\ Goto(t, "enter", IF initialized THEN "wait" ELSE "initialize")
  /\ UNCHANGED <<initialized, value, waiting>>

(* console_sem.initialize(1)                                               *)
Initialize(t) ==
  /\ Goto(t, "initialize", "mark")
  /\ value' = 1
  /\ waiting' = <<>>
  /\ UNCHANGED initialized

(* initialized = true                                                      *)
Mark(t) ==
  /\ Goto(t, "mark", "wait")
  /\ initialized' = TRUE
  /\ UNCHANGED <<value, waiting>>

(* Faulty: one thread too many passes.                                     *)
LockAtMinusOne(t) ==
  /\ value' = value - 1
  /\ IF value < 0
       THEN Goto(t, "wait", "blocked") /\ waiting' = Append(waiting, t)
       ELSE Goto(t, "wait", "console") /\ UNCHANGED waiting
  /\ UNCHANGED initialized

(* sem_wait(&console_sem)                                                  *)
Lock(t) ==
  /\ value' = value - 1
  /\ IF value - 1 < 0
       THEN Goto(t, "wait", "blocked") /\ waiting' = Append(waiting, t)
       ELSE Goto(t, "wait", "console") /\ UNCHANGED waiting
  /\ UNCHANGED initialized

(* Faulty: the last thread that waits is not counted.                      *)
UnlockLate(t) ==
  /\ pc[t] = "console"
  /\ value' = value + 1
  /\ IF value + 1 < 0 /\ waiting # <<>>
       THEN /\ pc' = [pc EXCEPT ![t] = "enter", ![Head(waiting)] = "console"]
            /\ waiting' = Tail(waiting)
       ELSE /\ pc' = [pc EXCEPT ![t] = "enter"]
            /\ UNCHANGED waiting
  /\ UNCHANGED initialized

(* Faulty: the thread that waits for the shortest time goes first.         *)
UnlockLastFirst(t) ==
  LET last == Len(waiting)
  IN /\ pc[t] = "console"
     /\ value' = value + 1
     /\ IF value + 1 <= 0 /\ waiting # <<>>
          THEN /\ pc' = [pc EXCEPT ![t] = "enter", ![waiting[last]] = "console"]
               /\ waiting' = SubSeq(waiting, 1, last - 1)
          ELSE /\ pc' = [pc EXCEPT ![t] = "enter"]
               /\ UNCHANGED waiting
     /\ UNCHANGED initialized

(* The output or input is done; sem_signal(&console_sem).                  *)
Unlock(t) ==
  /\ pc[t] = "console"
  /\ value' = value + 1
  /\ IF value + 1 <= 0 /\ waiting # <<>>
       THEN /\ pc' = [pc EXCEPT ![t] = "enter", ![Head(waiting)] = "console"]
            /\ waiting' = Tail(waiting)
       ELSE /\ pc' = [pc EXCEPT ![t] = "enter"]
            /\ UNCHANGED waiting
  /\ UNCHANGED initialized

Next ==
  \E t \in Thread :
    Begin(t) \/ Test(t) \/ Initialize(t) \/ Mark(t) \/ Lock(t) \/ Unlock(t)

Spec == Init /\ [][Next]_vars

(* "We don't want threads to be racing each other to do the complex        *)
(* output." (console.cpp:41)                                               *)
OneAtTheConsole ==
  \A t, u \in Thread : pc[t] = "console" /\ pc[u] = "console" => t = u

(* A thread blocked on the lock is in the list from which an unlock takes  *)
(* the next thread, and the lock is held by somebody who will unlock.      *)
BlockedAreListed ==
  \A t \in Thread : pc[t] = "blocked" =>
    /\ \E i \in DOMAIN waiting : waiting[i] = t
    /\ \E u \in Thread : pc[u] = "console"
=============================================================================
