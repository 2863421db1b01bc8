---------------------------- MODULE WaitResults -----------------------------
(***************************************************************************)
(* Kernel with a history variable: the threads whose last stay in the list *)
(* of a semaphore ended because the semaphore was closed.  It is read off  *)
(* the lists and not off the interrupted flags, so that what sem_wait      *)
(* returns can be judged by it.                                            *)
(***************************************************************************)
EXTENDS Kernel

VARIABLE cutOff

(* Threads that a step takes off a list: of a semaphore that goes on, or   *)
(* of one that is closed.                                                  *)
Served == UNION {Elements(waiting[s]) \ Elements(waiting'[s]) : s \in open \cap open'}
CutNow == UNION {Elements(waiting[s]) : s \in open \ open'}

WaitInit == Init /\ cutOff = {}

(* A thread made in the step (its join_sem is new) has not waited yet.     *)
WaitNext ==
  /\ Next
  /\ cutOff' = (cutOff \ (Served \cup (open' \ open))) \cup CutNow

WaitSpec == WaitInit /\ [][WaitNext]_<<vars, cutOff>>

(* sem_wait fails exactly when the semaphore was closed while the thread   *)
(* waited, however long ago that is when the thread resumes, and though a  *)
(* new semaphore may be at its address by then; a wait that takes a permit *)
(* at once succeeds, though an earlier wait of the thread was cut off      *)
(* (k_sem.cpp:41).                                                         *)
WaitsAnswered ==
  [][/\ \A t \in TCB : at[t] = At("wait") /\ at'[t] # At("wait") =>
          /\ current' = t
          /\ a0' = IF t \in cutOff' THEN FAILED ELSE SUCCESS
     /\ \A s \in Sem \cap open \cap open' :
          value[s] > 0 /\ value'[s] < value[s] => a0' = SUCCESS]_<<vars, cutOff>>
=============================================================================
