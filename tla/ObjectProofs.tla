----------------------------- MODULE ObjectProofs ----------------------------
(***************************************************************************)
(* Proof about ThreadObjects: the loop of a thread never runs on an object *)
(* that has been terminated, deleted or built anew.                        *)
(***************************************************************************)
EXTENDS ThreadObjects, TLAPS

Threads ==
  [object : Object, at : {"test", "activate", "load", "sleep", "asleep", "exit"}, n_ticks : Int]

Phases == {"deleted", "built", "stacked", "started", "terminating", "terminated"}

ObjectTypes ==
  /\ phase \in [Object -> Phases]
  /\ period \in [Object -> Int]
  /\ myHandle \in [Object -> Address \cup {NULL}]
  /\ joins \in [Object -> Address \cup {NULL}]
  /\ thread \in [Address -> Threads \cup {NULL}]

(* An owner is suspended at the address its own handle has, so the exit of *)
(* a thread resumes nobody whose own thread still runs.  Two owners may    *)
(* wait for one thread when a freed address, kept by a terminated object,  *)
(* has been given to the thread of another.                                *)
JoinsOwnHandle ==
  \A o \in Object : joins[o] # NULL =>
    joins[o] = myHandle[o] /\ phase[o] \in {"terminating", "terminated", "built"}

ObjectInv == ObjectTypes /\ JoinsOwnHandle /\ ThreadOnlyWithObject

-----------------------------------------------------------------------------
(* Owners.                                                                 *)

(* An object in these phases has no thread.                                *)
LEMMA NoThread ==
  ASSUME ObjectInv, NEW o \in Object, phase[o] \notin {"started", "terminating"},
         NEW a \in Address, thread[a] # NULL
  PROVE  thread[a].object # o
BY DEF ObjectInv, ThreadOnlyWithObject

LEMMA BuildKeeps ==
  ASSUME ObjectInv, NEW o \in Object, Build(o)
  PROVE  ObjectInv'
<1>1. ObjectTypes'
  BY DEF ObjectInv, ObjectTypes, Build, Phases
<1>2. JoinsOwnHandle'
  BY DEF ObjectInv, ObjectTypes, JoinsOwnHandle, Build, Own
<1>3. \A a \in Address : thread[a] # NULL => thread[a].object # o
  BY NoThread DEF Build, Own
<1>4. ThreadOnlyWithObject'
  BY <1>3 DEF ObjectInv, ObjectTypes, ThreadOnlyWithObject, Build, Threads
<1>. QED  BY <1>1, <1>2, <1>4 DEF ObjectInv

LEMMA StartKeeps ==
  ASSUME ObjectInv, NEW o \in Object, Start(o)
  PROVE  ObjectInv'
<1>1. ObjectTypes'
  BY DEF ObjectInv, ObjectTypes, Start, Phases
<1>2. JoinsOwnHandle'
  BY DEF ObjectInv, ObjectTypes, JoinsOwnHandle, Start, Own
<1>3. \A a \in Address : thread[a] # NULL => thread[a].object # o
  BY NoThread DEF Start, Own
<1>4. ThreadOnlyWithObject'
  BY <1>3 DEF ObjectInv, ObjectTypes, ThreadOnlyWithObject, Start, Threads
<1>. QED  BY <1>1, <1>2, <1>4 DEF ObjectInv

LEMMA CreateKeeps ==
  ASSUME ObjectInv, NEW o \in Object, Create(o)
  PROVE  ObjectInv'
<1>1. phase[o] = "stacked" /\ joins[o] = NULL /\ UNCHANGED <<period, joins>>
  BY DEF Create, Own
<1>2. \A a \in Address : thread[a] # NULL => thread[a].object # o
  BY <1>1, NoThread
<1>3. CASE Created(o)
  <2>1. PICK a \in Address :
          /\ thread[a] = NULL
          /\ thread' = [thread EXCEPT ![a] = [object |-> o, at |-> "test", n_ticks |-> 0]]
          /\ myHandle' = [myHandle EXCEPT ![o] = a]
          /\ phase' = [phase EXCEPT ![o] = "started"]
    BY <1>3 DEF Created
  <2>2. ObjectTypes'
    <3>1. [object |-> o, at |-> "test", n_ticks |-> 0] \in Threads
      BY DEF Threads
    <3>. QED  BY <1>1, <2>1, <3>1 DEF ObjectInv, ObjectTypes, Phases
  <2>3. JoinsOwnHandle'
    <3>. SUFFICES ASSUME NEW p \in Object, joins[p] # NULL
                  PROVE  joins[p] = myHandle'[p] /\ phase'[p] \in {"terminating", "terminated", "built"}
      BY <1>1 DEF JoinsOwnHandle
    <3>1. p # o /\ joins[p] = myHandle[p]
      BY <1>1 DEF ObjectInv, ObjectTypes, JoinsOwnHandle
    <3>. QED  BY <2>1, <3>1 DEF ObjectInv, ObjectTypes, JoinsOwnHandle
  <2>4. ThreadOnlyWithObject'
    <3>. SUFFICES ASSUME NEW b \in Address, thread'[b] # NULL
                  PROVE  /\ phase'[thread'[b].object] \in {"started", "terminating"}
                         /\ myHandle'[thread'[b].object] = b
      BY DEF ThreadOnlyWithObject
    <3>1. CASE b = a
      BY <2>1, <3>1 DEF ObjectInv, ObjectTypes
    <3>2. CASE b # a
      <4>1. thread'[b] = thread[b] /\ thread[b] # NULL /\ thread[b].object # o
        BY <1>2, <2>1, <3>2 DEF ObjectInv, ObjectTypes
      <4>2. thread[b].object \in Object
        BY <4>1 DEF ObjectInv, ObjectTypes, Threads
      <4>. QED  BY <2>1, <4>1, <4>2 DEF ObjectInv, ObjectTypes, ThreadOnlyWithObject
    <3>. QED  BY <3>1, <3>2
  <2>. QED  BY <2>2, <2>3, <2>4 DEF ObjectInv
<1>4. CASE ~Created(o)
  <2>1. /\ UNCHANGED <<thread, myHandle>>
        /\ UNCHANGED phase \/ phase' = [phase EXCEPT ![o] = "built"]
    BY <1>4 DEF Create, Refused
  <2>2. ObjectTypes'
    BY <1>1, <2>1 DEF ObjectInv, ObjectTypes, Phases
  <2>3. JoinsOwnHandle'
    BY <1>1, <2>1 DEF ObjectInv, ObjectTypes, JoinsOwnHandle
  <2>4. ThreadOnlyWithObject'
    BY <1>2, <2>1 DEF ObjectInv, ObjectTypes, ThreadOnlyWithObject, Threads
  <2>. QED  BY <2>2, <2>3, <2>4 DEF ObjectInv
<1>. QED  BY <1>3, <1>4

LEMMA TerminateKeeps ==
  ASSUME ObjectInv, NEW o \in Object, Terminate(o)
  PROVE  ObjectInv'
<1>1. ObjectTypes'
  BY DEF ObjectInv, ObjectTypes, Terminate, Phases
<1>2. JoinsOwnHandle'
  BY DEF ObjectInv, ObjectTypes, JoinsOwnHandle, Terminate, Own
<1>3. ThreadOnlyWithObject'
  BY DEF ObjectInv, ObjectTypes, ThreadOnlyWithObject, Terminate, Threads
<1>. QED  BY <1>1, <1>2, <1>3 DEF ObjectInv

(* terminate returns without waiting only if the thread is no more.        *)
LEMMA JoinKeeps ==
  ASSUME ObjectInv, NEW o \in Object, Join(o)
  PROVE  ObjectInv'
<1>1. /\ phase[o] \in {"terminating", "terminated", "built"} /\ joins[o] = NULL
      /\ UNCHANGED <<period, myHandle, thread>>
  BY DEF Join, Own
<1>2. CASE myHandle[o] # NULL /\ thread[myHandle[o]] # NULL
  <2>1. joins' = [joins EXCEPT ![o] = myHandle[o]] /\ UNCHANGED phase
    BY <1>2 DEF Join
  <2>2. ObjectTypes'
    BY <1>1, <2>1 DEF ObjectInv, ObjectTypes
  <2>3. JoinsOwnHandle'
    BY <1>1, <1>2, <2>1 DEF ObjectInv, ObjectTypes, JoinsOwnHandle
  <2>4. ThreadOnlyWithObject'
    BY <1>1, <2>1 DEF ObjectInv, ThreadOnlyWithObject
  <2>. QED  BY <2>2, <2>3, <2>4 DEF ObjectInv
<1>3. CASE ~(myHandle[o] # NULL /\ thread[myHandle[o]] # NULL)
  <2>1. phase' = [phase EXCEPT ![o] = AfterJoin(@)] /\ UNCHANGED joins
    BY <1>3 DEF Join
  <2>2. ObjectTypes'
    BY <1>1, <2>1 DEF ObjectInv, ObjectTypes, AfterJoin, Phases
  <2>3. JoinsOwnHandle'
    BY <1>1, <2>1 DEF ObjectInv, ObjectTypes, JoinsOwnHandle
  <2>4. ASSUME NEW a \in Address, thread[a] # NULL
        PROVE  thread[a].object # o
    BY <1>3, <2>4, ObjectAssumption DEF ObjectInv, ThreadOnlyWithObject
  <2>5. ThreadOnlyWithObject'
    BY <1>1, <2>1, <2>4 DEF ObjectInv, ObjectTypes, ThreadOnlyWithObject, Threads
  <2>. QED  BY <2>2, <2>3, <2>5 DEF ObjectInv
<1>. QED  BY <1>2, <1>3

-----------------------------------------------------------------------------
(* The loop.                                                               *)

(* A step to another place in the loop.                                    *)
LEMMA PlaceKeeps ==
  ASSUME ObjectInv, NEW a \in Address, NEW r \in Threads,
         thread[a] # NULL, r.object = thread[a].object,
         thread' = [thread EXCEPT ![a] = r],
         UNCHANGED <<phase, period, myHandle, joins>>
  PROVE  ObjectInv'
<1>1. ObjectTypes'
  BY DEF ObjectInv, ObjectTypes
<1>3. JoinsOwnHandle'
  BY DEF ObjectInv, JoinsOwnHandle
<1>4. ThreadOnlyWithObject'
  BY DEF ObjectInv, ObjectTypes, ThreadOnlyWithObject
<1>. QED  BY <1>1, <1>3, <1>4 DEF ObjectInv

LEMMA GoKeeps ==
  ASSUME ObjectInv, NEW a \in Address, NEW from,
         NEW to \in {"test", "activate", "load", "sleep", "asleep", "exit"}, Go(a, from, to)
  PROVE  ObjectInv'
<1>. DEFINE r == [thread[a] EXCEPT !.at = to]
<1>1. thread[a] \in Threads /\ thread[a] # NULL
  BY DEF ObjectInv, ObjectTypes, Go
<1>2. r \in Threads /\ r.object = thread[a].object
  BY <1>1 DEF Threads
<1>3. thread' = [thread EXCEPT ![a] = r] /\ UNCHANGED <<phase, period, myHandle, joins>>
  BY DEF Go
<1>. HIDE DEF r
<1>. QED  BY <1>1, <1>2, <1>3, PlaceKeeps

LEMMA LoadKeeps ==
  ASSUME ObjectInv, NEW a \in Address, Load(a)
  PROVE  ObjectInv'
<1>. DEFINE n == period[thread[a].object]
            r == [thread[a] EXCEPT !.at = "sleep", !.n_ticks = n]
<1>1. thread[a] \in Threads /\ thread[a] # NULL
  BY DEF ObjectInv, ObjectTypes, Load
<1>2. n \in Int
  BY <1>1 DEF ObjectInv, ObjectTypes, Threads
<1>3. thread' = [thread EXCEPT ![a] = r] /\ UNCHANGED <<phase, period, myHandle, joins>>
  <2>1. thread' = [thread EXCEPT ![a].at = "sleep", ![a].n_ticks = n]
    BY DEF Load
  <2>. HIDE DEF n
  <2>. QED  BY <1>1, <2>1 DEF Load, ObjectInv, ObjectTypes
<1>. HIDE DEF n
<1>4. r \in Threads /\ r.object = thread[a].object
  BY <1>1, <1>2 DEF Threads
<1>. HIDE DEF r
<1>. QED  BY <1>1, <1>3, <1>4, PlaceKeeps

(* Whoever the exit resumes had the handle of this very address, so the    *)
(* objects of the other threads keep their phase.                          *)
LEMMA ExitKeeps ==
  ASSUME ObjectInv, NEW a \in Address, Exit(a)
  PROVE  ObjectInv'
<1>1. /\ thread' = [thread EXCEPT ![a] = NULL]
      /\ joins' = [o \in Object |-> IF joins[o] = a THEN NULL ELSE joins[o]]
      /\ phase' = [o \in Object |-> IF joins[o] = a THEN AfterJoin(phase[o]) ELSE phase[o]]
      /\ UNCHANGED <<period, myHandle>>
  BY DEF Exit
<1>2. ObjectTypes'
  BY <1>1 DEF ObjectInv, ObjectTypes, Phases, AfterJoin
<1>3. JoinsOwnHandle'
  BY <1>1 DEF ObjectInv, JoinsOwnHandle
<1>4. ThreadOnlyWithObject'
  <2>. SUFFICES ASSUME NEW b \in Address, thread'[b] # NULL
                PROVE  /\ phase'[thread'[b].object] \in {"started", "terminating"}
                       /\ myHandle'[thread'[b].object] = b
    BY DEF ThreadOnlyWithObject
  <2>1. b # a /\ thread'[b] = thread[b] /\ thread[b] # NULL
    BY <1>1 DEF ObjectInv, ObjectTypes
  <2>. DEFINE o == thread[b].object
  <2>2. o \in Object
    BY <2>1 DEF ObjectInv, ObjectTypes, Threads
  <2>3. phase[o] \in {"started", "terminating"} /\ myHandle[o] = b
    BY <2>1 DEF ObjectInv, ThreadOnlyWithObject
  <2>. HIDE DEF o
  <2>4. joins[o] # a
    BY <2>1, <2>2, <2>3, ObjectAssumption DEF ObjectInv, JoinsOwnHandle
  <2>. QED  BY <1>1, <2>1, <2>2, <2>3, <2>4 DEF o
<1>. QED  BY <1>2, <1>3, <1>4 DEF ObjectInv

LEMMA LoopKeeps ==
  ASSUME ObjectInv, NEW a \in Address, Loop(a)
  PROVE  ObjectInv'
<1>1. CASE Test(a)
  BY <1>1, GoKeeps DEF Test
<1>2. CASE PeriodicActivation(a)
  BY <1>2, GoKeeps DEF PeriodicActivation
<1>3. CASE Load(a)
  BY <1>3, LoadKeeps
<1>4. CASE Sleep(a)
  BY <1>4, GoKeeps DEF Sleep
<1>5. CASE Wake(a)
  BY <1>5, GoKeeps DEF Wake
<1>6. CASE Exit(a)
  BY <1>6, ExitKeeps
<1>. QED  BY <1>1, <1>2, <1>3, <1>4, <1>5, <1>6 DEF Loop

-----------------------------------------------------------------------------
(* When terminate has returned, or the object has been deleted or built    *)
(* anew, its thread is no more; a handle that outlived its thread and is   *)
(* the address of another by now does harm to nobody's loop.               *)
THEOREM ThreadHasObject == Spec => []ThreadOnlyWithObject
<1>1. Init => ObjectInv
  BY DEF Init, ObjectInv, ObjectTypes, Phases, JoinsOwnHandle, ThreadOnlyWithObject
<1>2. ObjectInv /\ [Next]_vars => ObjectInv'
  <2>. SUFFICES ASSUME ObjectInv, [Next]_vars PROVE ObjectInv'
    OBVIOUS
  <2>1. CASE UNCHANGED vars
    BY <2>1 DEF vars, ObjectInv, ObjectTypes, JoinsOwnHandle, ThreadOnlyWithObject
  <2>2. CASE \E o \in Object : Build(o) \/ Start(o) \/ Create(o) \/ Terminate(o) \/ Join(o)
    BY <2>2, BuildKeeps, StartKeeps, CreateKeeps, TerminateKeeps, JoinKeeps
  <2>3. CASE \E a \in Address : Loop(a)
    BY <2>3, LoopKeeps
  <2>4. CASE SemOpen \/ SemClose
    BY <2>4 DEF SemOpen, SemClose, ObjectInv, ObjectTypes, JoinsOwnHandle, ThreadOnlyWithObject
  <2>. QED  BY <2>1, <2>2, <2>3, <2>4 DEF Next
<1>3. ObjectInv => ThreadOnlyWithObject
  BY DEF ObjectInv
<1>. QED  BY <1>1, <1>2, <1>3, PTL DEF Spec
=============================================================================
