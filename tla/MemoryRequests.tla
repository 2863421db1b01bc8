--------------------------- MODULE MemoryRequests ---------------------------
(***************************************************************************)
(* Memory with history variables: what clients asked for and got, and      *)
(* have not freed, against which the words of the manual are judged.       *)
(***************************************************************************)
EXTENDS Memory

VARIABLES
  held,     \* the answers to mem_alloc that hold, with the size asked
  asked     \* the size the last call asked for, NULL if it was a free

RequestsInit == Init /\ held = {} /\ asked = NULL

Request(size) ==
  /\ MemAlloc(size)
  /\ held' = IF a0' = NULL THEN held ELSE held \cup {[address |-> a0', size |-> size]}
  /\ asked' = size

Return(h) ==
  /\ MemFree(h.address)
  /\ held' = held \ {h}
  /\ asked' = NULL

(* mem_free of an address that nobody holds.                               *)
Misuse(address) ==
  /\ \A h \in held : h.address # address
  /\ MemFree(address)
  /\ asked' = NULL
  /\ UNCHANGED held

RequestsNext ==
  \/ \E size \in Sizes : Request(size)
  \/ \E h \in held : Return(h)
  \/ \E address \in Block \cup {NULL, UNALIGNED} : Misuse(address)

RequestsSpec == RequestsInit /\ [][RequestsNext]_<<vars, held, asked>>

(* "Allocate at least size bytes of memory" (README.md:20)                 *)
AtLeastSize ==
  \A h \in held : h.size <= alloc_table[h.address] * MEM_BLOCK_SIZE

(* The list and the table amount to the promise of Heap: best fit over     *)
(* runs that are merged refuses nothing that free memory could hold, gives *)
(* the blocks asked for, and takes back what was given, once.              *)
Promised == INSTANCE Heap WITH
  BlockSize <- MEM_BLOCK_SIZE,
  Requests  <- Sizes,
  Refused   <- {ADDRESS_IS_NULL, ADDRESS_IS_NOT_ALIGNED, ADDRESS_IS_NOT_USED},
  used      <- {[address |-> a, blocks |-> alloc_table[a]] :
                  a \in {b \in Block : alloc_table[b] > 0}},
  answer    <- a0

HeapImplemented == Promised!Spec
=============================================================================
