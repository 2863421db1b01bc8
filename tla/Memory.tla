------------------------------- MODULE Memory -------------------------------
(***************************************************************************)
(* MemoryAllocator (k_memory.cpp): best fit over a doubly linked list of   *)
(* free runs whose headers lie in the free memory itself, and a table of   *)
(* the sizes given out.  alloc and free run inside a trap, so each is one  *)
(* step.  An address is the number of its block, counted from 1; the bytes *)
(* of a request are turned into blocks as to_blocks does.                  *)
(*                                                                         *)
(* Who gets memory writes to it: the headers of the blocks given out are   *)
(* DATA from then on, and reading one as a header is an error in TLC.      *)
(* The definitions called faulty are no part of the specification.         *)
(***************************************************************************)
EXTENDS Integers

CONSTANTS
  N,                (* total_blocks                                        *)
  MEM_BLOCK_SIZE,
  SIZE_MOD,         (* size_t is a number modulo SIZE_MOD (2^64)           *)
  BLOCKS_MOD,       (* blocks_t is a number modulo BLOCKS_MOD (2^32)       *)
  Sizes,            (* the sizes in bytes clients ask for                  *)
  NULL, UNALIGNED,  (* no address; an address within a block               *)
  DATA

ASSUME MemoryAssumption ==
  /\ N \in Nat \ {0}
  /\ MEM_BLOCK_SIZE \in Nat \ {0}
  /\ BLOCKS_MOD \in Nat \ {0}
  /\ N < BLOCKS_MOD
  /\ SIZE_MOD \in Nat \ {0}
  /\ Sizes \subseteq 0..SIZE_MOD - 1

Block == 1..N

ASSUME AddressAssumption ==
  NULL \notin Block /\ UNALIGNED \notin Block \cup {NULL}

(* Faulty: rounded down.                                                   *)
ToBlocksRoundedDown(size) == (size \div MEM_BLOCK_SIZE) % BLOCKS_MOD

(* Utils::to_blocks: the sum is a size_t, the result a blocks_t.           *)
ToBlocks(size) ==
  (((size + MEM_BLOCK_SIZE - 1) % SIZE_MOD) \div MEM_BLOCK_SIZE) % BLOCKS_MOD

(* to_blocks(sizeof(FreeBlocks)): 24 bytes in a block of 64.               *)
HEADER_BLOCKS == 1

MEM_SUCCESS            == 0
ADDRESS_IS_NULL        == -2
ADDRESS_IS_NOT_ALIGNED == -3
ADDRESS_IS_NOT_USED    == -4

VARIABLES
  fb_head,
  header,        \* what is in each block where a FreeBlocks would be
  alloc_table,
  a0             \* what the last call returned

vars == <<fb_head, header, alloc_table, a0>>

Header(next, prev, n) == [next |-> next, prev |-> prev, n_blocks |-> n]

(* One free run: all of the heap.                                          *)
Init ==
  /\ fb_head = 1
  /\ header = [b \in Block |-> IF b = 1 THEN Header(NULL, NULL, N) ELSE DATA]
  /\ alloc_table = [b \in Block |-> 0]
  /\ a0 = NULL

-----------------------------------------------------------------------------
(* Chain[i] is the i-th header of the list, NULL when there are fewer.     *)
Chain[i \in 1..N + 1] ==
  IF i = 1 THEN fb_head
  ELSE IF Chain[i - 1] = NULL THEN NULL
  ELSE header[Chain[i - 1]].next

Links == {i \in 1..N : Chain[i] # NULL}

(* b->next = v and b->prev = v, where there is a b.                        *)
SetNext(h, b, v) == IF b = NULL THEN h ELSE [h EXCEPT ![b].next = v]
SetPrev(h, b, v) == IF b = NULL THEN h ELSE [h EXCEPT ![b].prev = v]

(* Faulty: a run of exactly the right size is passed over.                 *)
FittingLoosely(n) == {i \in Links : header[Chain[i]].n_blocks > n}

(* The first of the smallest runs that are large enough.                   *)
Fitting(n) == {i \in Links : header[Chain[i]].n_blocks >= n}

BestFit(n) ==
  CHOOSE i \in Fitting(n) :
    \A j \in Fitting(n) :
      \/ header[Chain[i]].n_blocks < header[Chain[j]].n_blocks
      \/ header[Chain[i]].n_blocks = header[Chain[j]].n_blocks /\ i <= j

(* The list once n blocks of the run best are gone: a header for what is   *)
(* left takes its place, or it is unchained.                               *)
TakeFrom(best, n) ==
  LET new       == best + n
      remaining == header[best].n_blocks - n
      old       == header[best]
  IN IF HEADER_BLOCKS <= remaining
       THEN SetPrev(SetNext([header EXCEPT ![new] = Header(old.next, old.prev, remaining)],
                            old.prev, new),
                    old.next, new)
       ELSE SetPrev(SetNext(header, old.prev, old.next), old.next, old.prev)

(* mem_alloc(size).                                                        *)
MemAlloc(size) ==
  LET n == ToBlocks(size)
  IN IF Fitting(n) = {}
       THEN /\ a0' = NULL
            /\ UNCHANGED <<fb_head, header, alloc_table>>
       ELSE LET best  == Chain[BestFit(n)]
                taken == TakeFrom(best, n)
            IN /\ header' = [b \in Block |-> IF b \in best..(best + n - 1)
                                               THEN DATA ELSE taken[b]]
               /\ fb_head' = IF fb_head # best THEN fb_head
                             ELSE IF HEADER_BLOCKS <= header[best].n_blocks - n
                               THEN best + n
                               ELSE header[best].next
               /\ alloc_table' = [alloc_table EXCEPT ![best] = n]
               /\ a0' = best

-----------------------------------------------------------------------------
(* Faulty: the links of the swallowed run are lost, not taken over.        *)
MergeBlocksUnlinked(h, fb) ==
  IF fb = NULL \/ h[fb].next = NULL \/ h[fb].next # fb + h[fb].n_blocks
    THEN h
    ELSE LET after == h[fb].next
         IN [h EXCEPT ![fb].n_blocks = @ + h[after].n_blocks,
                      ![fb].next = h[after].next]

(* Faulty: the blocks of the swallowed run are not counted.                *)
MergeBlocksUncounted(h, fb) ==
  IF fb = NULL \/ h[fb].next = NULL \/ h[fb].next # fb + h[fb].n_blocks
    THEN h
    ELSE LET after  == h[fb].next
             merged == [h EXCEPT ![fb].next = h[after].next]
         IN SetPrev(merged, merged[fb].next, fb)

(* merge_blocks: a run swallows its successor if that begins where it ends.*)
MergeBlocks(h, fb) ==
  IF fb = NULL \/ h[fb].next = NULL \/ h[fb].next # fb + h[fb].n_blocks
    THEN h
    ELSE LET after  == h[fb].next
             merged == [h EXCEPT ![fb].n_blocks = @ + h[after].n_blocks,
                                 ![fb].next = h[after].next]
         IN SetPrev(merged, merged[fb].next, fb)

(* The headers that free passes on its way to the place of the address.    *)
Passed(address) == {i \in Links : \A j \in 1..i : address >= Chain[j]}

(* The list with the run at address put behind the run prev.               *)
Insert(address, prev) ==
  LET next == IF prev = NULL THEN fb_head ELSE header[prev].next
      put  == [header EXCEPT ![address] = Header(next, prev, alloc_table[address])]
  IN SetNext(SetPrev(put, next, address), prev, address)

(* mem_free(address).                                                      *)
Refuse(code) == a0' = code /\ UNCHANGED <<fb_head, header, alloc_table>>

MemFree(address) ==
  IF address = NULL THEN Refuse(ADDRESS_IS_NULL)
  ELSE IF address = UNALIGNED THEN Refuse(ADDRESS_IS_NOT_ALIGNED)
  ELSE IF \/ alloc_table[address] = 0
          \/ \E i \in Passed(address) :
               address < Chain[i] + header[Chain[i]].n_blocks
         THEN Refuse(ADDRESS_IS_NOT_USED)
  ELSE LET prev == IF Passed(address) = {} THEN NULL
                   ELSE Chain[CHOOSE i \in Passed(address) : \A j \in Passed(address) : j <= i]
           merged == MergeBlocks(Insert(address, prev), address)
       IN /\ header' = MergeBlocks(merged, merged[address].prev)
          /\ fb_head' = IF prev = NULL THEN address ELSE fb_head
          /\ alloc_table' = [alloc_table EXCEPT ![address] = 0]
          /\ a0' = MEM_SUCCESS

Next ==
  \/ \E size \in Sizes : MemAlloc(size)
  \/ \E address \in Block \cup {NULL, UNALIGNED} : MemFree(address)

Spec == Init /\ [][Next]_vars

-----------------------------------------------------------------------------
(* The list of free runs is sorted by address, each header points back to  *)
(* the one before it, the list ends, and no two runs touch: free memory is *)
(* never cut into smaller pieces than the allocations cut it.              *)
FreeListSound ==
  /\ Chain[N + 1] = NULL
  /\ \A i \in Links :
       LET fb == header[Chain[i]]
       IN /\ fb.n_blocks \in 1..(N - Chain[i] + 1)
          /\ fb.prev = IF i = 1 THEN NULL ELSE Chain[i - 1]
          /\ fb.next # NULL => fb.next > Chain[i] + fb.n_blocks

(* Every block is in one run that is free or given out, and in one only:   *)
(* no memory is lost, and none is given twice.                             *)
EveryBlockOnce ==
  \A b \in Block :
    LET free  == {i \in Links : b \in Chain[i]..(Chain[i] + header[Chain[i]].n_blocks - 1)}
        given == {a \in Block : b \in a..(a + alloc_table[a] - 1)}
    IN \/ given = {} /\ \E i \in free : free = {i}
       \/ free = {} /\ \E a \in given : given = {a}
=============================================================================
