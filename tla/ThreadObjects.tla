---------------------------- MODULE ThreadObjects ---------------------------
(***************************************************************************)
(* PeriodicThread objects of the C++ API (thread.cpp, periodic_thread.cpp) *)
(* and the memory their threads take.  Each object has an owner, a thread  *)
(* that builds, starts, terminates and deletes it; the loop of its own     *)
(* thread and its owner are preempted anywhere.  A TCB address goes to     *)
(* another thread once it is freed, while handles to it are kept.          *)
(* Memory is counted: a stack, a TCB and a Sem take one unit each, and any *)
(* allocation may be the one that is refused.                              *)
(* The definitions called faulty are no part of the specification.         *)
(***************************************************************************)
EXTENDS Integers, FiniteSets

CONSTANTS
  Object,
  Address,     (* of TCBs                                                  *)
  NULL,
  Room,        (* units of memory                                          *)
  MaxSems      (* bound: Semaphore objects                                 *)

ASSUME ObjectAssumption == NULL \notin Address /\ Room \in Nat /\ MaxSems \in Nat

VARIABLES
  phase,       \* of each object, as its owner sees it
  period,
  myHandle,
  joins,       \* the TCB on whose join_sem an owner is suspended
  thread,      \* at each address: the object, where its loop is, n_ticks
  room,        \* units of free memory
  sems,        \* Semaphore objects
  kernel       \* intact, panicked or corrupt

vars == <<phase, period, myHandle, joins, thread, room, sems, kernel>>

Init ==
  /\ phase = [o \in Object |-> "deleted"]
  /\ period = [o \in Object |-> 0]
  /\ myHandle = [o \in Object |-> NULL]
  /\ joins = [o \in Object |-> NULL]
  /\ thread = [a \in Address |-> NULL]
  /\ room = Room
  /\ sems = 0
  /\ kernel = "intact"

-----------------------------------------------------------------------------
(* Owners.                                                                 *)

Own(o, from) == phase[o] = from /\ joins[o] = NULL

(* The constructors of Thread and PeriodicThread.                          *)
Build(o) ==
  /\ Own(o, "deleted")
  /\ phase' = [phase EXCEPT ![o] = "built"]
  /\ period' = [period EXCEPT ![o] = 1]
  /\ myHandle' = [myHandle EXCEPT ![o] = NULL]
  /\ UNCHANGED <<joins, thread, room, sems, kernel>>

(* start, and thread_create up to its mem_alloc of the user stack; without *)
(* memory it fails with nothing changed.                                   *)
Start(o) ==
  /\ Own(o, "built")
  /\ room > 0
  /\ room' = room - 1
  /\ phase' = [phase EXCEPT ![o] = "stacked"]
  /\ UNCHANGED <<period, myHandle, joins, thread, sems, kernel>>

(* The rest of thread_create, with create_tcb: a TCB, a kernel stack and a *)
(* join_sem.                                                               *)
Created(o) ==
  /\ room >= 3
  /\ \E a \in Address :
       /\ thread[a] = NULL
       /\ thread' = [thread EXCEPT ![a] = [object |-> o, at |-> "test", n_ticks |-> 0]]
       /\ myHandle' = [myHandle EXCEPT ![o] = a]
  /\ room' = room - 3
  /\ phase' = [phase EXCEPT ![o] = "started"]
  /\ UNCHANGED kernel

(* Without a TCB, thread_create keeps the user stack to itself.  Without a *)
(* kernel stack, free_tcb takes back the user stack and the TCB, and frees *)
(* what the memory of join_sem happens to point to.                        *)
Refused(o) ==
  /\ room < 2
  /\ room' = IF room = 0 THEN 0 ELSE 2
  /\ IF room = 0 THEN UNCHANGED kernel ELSE kernel' \in {"intact", "corrupt"}
  /\ phase' = [phase EXCEPT ![o] = "built"]
  /\ UNCHANGED <<thread, myHandle>>

(* create_sem without memory writes through null.                          *)
Create(o) ==
  /\ Own(o, "stacked")
  /\ \/ Created(o)
     \/ Refused(o)
     \/ room = 2 /\ kernel' = "panicked" /\ UNCHANGED <<thread, myHandle, room, phase>>
  /\ UNCHANGED <<period, joins, sems>>

(* terminate, up to its join.                                              *)
Terminate(o) ==
  /\ Own(o, "started")
  /\ period' = [period EXCEPT ![o] = 0]
  /\ phase' = [phase EXCEPT ![o] = "terminating"]
  /\ UNCHANGED <<myHandle, joins, thread, room, sems, kernel>>

AfterJoin(p) == IF p = "terminating" THEN "terminated" ELSE "deleted"

(* Faulty: the owner is not suspended.                                     *)
JoinAtOnce(o) ==
  /\ \/ Own(o, "terminating") \/ Own(o, "terminated") \/ Own(o, "built")
  /\ phase' = [phase EXCEPT ![o] = AfterJoin(@)]
  /\ UNCHANGED <<period, myHandle, joins, thread, room, sems, kernel>>

(* The join of terminate and of ~Thread: of nothing when the handle is     *)
(* null, or the TCB freed, whose join_sem is null.                         *)
Join(o) ==
  /\ \/ Own(o, "terminating") \/ Own(o, "terminated") \/ Own(o, "built")
  /\ IF myHandle[o] # NULL /\ thread[myHandle[o]] # NULL
       THEN joins' = [joins EXCEPT ![o] = myHandle[o]] /\ UNCHANGED phase
       ELSE phase' = [phase EXCEPT ![o] = AfterJoin(@)] /\ UNCHANGED joins
  /\ UNCHANGED <<period, myHandle, thread, room, sems, kernel>>

(* The constructor and destructor of Semaphore.                            *)
SemOpen ==
  /\ sems < MaxSems
  /\ IF room > 0 THEN room' = room - 1 /\ sems' = sems + 1 /\ UNCHANGED kernel
                 ELSE kernel' = "panicked" /\ UNCHANGED <<room, sems>>
  /\ UNCHANGED <<phase, period, myHandle, joins, thread>>

SemClose ==
  /\ sems > 0
  /\ room' = room + 1
  /\ sems' = sems - 1
  /\ UNCHANGED <<phase, period, myHandle, joins, thread, kernel>>

-----------------------------------------------------------------------------
(* The loop in the constructor of PeriodicThread, for the thread at a.     *)

Go(a, from, to) ==
  /\ thread[a] # NULL
  /\ thread[a].at = from
  /\ thread' = [thread EXCEPT ![a].at = to]
  /\ UNCHANGED <<phase, period, myHandle, joins, room, sems, kernel>>

(* Faulty: the period is read once, as if it were not volatile.            *)
TestOnce(a) == Go(a, "test", "activate")

Test(a) ==
  /\ thread[a] # NULL
  /\ Go(a, "test", IF period[thread[a].object] > 0 THEN "activate" ELSE "exit")

PeriodicActivation(a) == Go(a, "activate", "load")

(* The argument of time_sleep is read before its trap.                     *)
Load(a) ==
  /\ thread[a] # NULL
  /\ thread[a].at = "load"
  /\ thread' = [thread EXCEPT ![a].at = "sleep", ![a].n_ticks = period[thread[a].object]]
  /\ UNCHANGED <<phase, period, myHandle, joins, room, sems, kernel>>

(* time_sleep(0) fails at once.                                            *)
Sleep(a) ==
  /\ thread[a] # NULL
  /\ Go(a, "sleep", IF thread[a].n_ticks > 0 THEN "asleep" ELSE "test")

Wake(a) == Go(a, "asleep", "test")

(* thread_exit: the close of join_sem resumes who joins.                   *)
Exit(a) ==
  /\ thread[a] # NULL
  /\ thread[a].at = "exit"
  /\ thread' = [thread EXCEPT ![a] = NULL]
  /\ room' = room + 4
  /\ joins' = [o \in Object |-> IF joins[o] = a THEN NULL ELSE joins[o]]
  /\ phase' = [o \in Object |-> IF joins[o] = a THEN AfterJoin(phase[o]) ELSE phase[o]]
  /\ UNCHANGED <<period, myHandle, sems, kernel>>

Loop(a) ==
  Test(a) \/ PeriodicActivation(a) \/ Load(a) \/ Sleep(a) \/ Wake(a) \/ Exit(a)

Next ==
  /\ kernel = "intact"
  /\ \/ \E o \in Object : Build(o) \/ Start(o) \/ Create(o) \/ Terminate(o) \/ Join(o)
     \/ \E a \in Address : Loop(a)
     \/ SemOpen \/ SemClose

Spec == Init /\ [][Next]_vars

(* Threads get the CPU, the timer ticks, and periodicActivation returns.   *)
(* Nothing is asked of owners: none has to terminate what it started.      *)
FairSpec == Spec /\ \A a \in Address : WF_vars(kernel = "intact" /\ Loop(a))

-----------------------------------------------------------------------------
(* The loop of a thread reads and calls its object: when terminate has     *)
(* returned, and all the more when the object has been deleted or its      *)
(* memory is a new one, the thread is no more, though its handle is only   *)
(* an address and has perhaps been given to another thread.                *)
ThreadOnlyWithObject ==
  \A a \in Address : thread[a] # NULL =>
    /\ phase[thread[a].object] \in {"started", "terminating"}
    /\ myHandle[thread[a].object] = a

(* The thread at a is one whose terminate has set the period to 0.         *)
Ending(a) == thread[a] # NULL /\ period[thread[a].object] = 0

(* Whoever is suspended on a thread that is terminated goes on in the end, *)
(* wherever its loop was when the period was set to 0, between its test    *)
(* and its sleep or asleep (periodic_thread.cpp:22).                       *)
JoinReturns ==
  \A o \in Object :
    joins[o] # NULL /\ Ending(joins[o]) ~> joins[o] = NULL \/ kernel # "intact"

(* "On success [...] 0 is returned, otherwise a negative value is          *)
(* returned" (README.md:22 and 26): thread_create and sem_open fail        *)
(* without harm to the kernel.                                             *)
KernelIntact == kernel = "intact"
=============================================================================
