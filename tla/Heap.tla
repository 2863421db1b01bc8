-------------------------------- MODULE Heap --------------------------------
(***************************************************************************)
(* What mem_alloc and mem_free promise, with no free list: a request in    *)
(* bytes is rounded up to blocks, refused only when no run of free blocks  *)
(* is long enough, what is given overlaps nothing given before, and        *)
(* exactly what was given can be freed.                                    *)
(***************************************************************************)
EXTENDS Naturals

CONSTANTS
  Block,      (* addresses of blocks, in a row            *)
  BlockSize,  (* the bytes of a block                     *)
  Requests,   (* the sizes in bytes that are asked for    *)
  NULL,
  Refused     (* the answers of a free that is refused    *)

VARIABLES
  used,     \* the allocations: records of an address and a number of blocks
  asked,    \* the size the last call asked for, NULL if it was a free
  answer    \* what the last call returned

heap == <<used, asked, answer>>

Run(a, n) == a..(a + n - 1)

FreeBlocks == {b \in Block : \A u \in used : b \notin Run(u.address, u.blocks)}

(* The blocks that hold size bytes, and not one too many.                  *)
Rounded(size) == (size + BlockSize - 1) \div BlockSize

Init == used = {} /\ asked = NULL /\ answer = NULL

Alloc(size) ==
  /\ asked' = size
  /\ \/ \E a \in Block :
          /\ Run(a, Rounded(size)) \subseteq FreeBlocks
          /\ used' = used \cup {[address |-> a, blocks |-> Rounded(size)]}
          /\ answer' = a
     \/ /\ \A a \in Block : ~(Run(a, Rounded(size)) \subseteq FreeBlocks)
        /\ answer' = NULL
        /\ UNCHANGED used

Free(a) ==
  /\ asked' = NULL
  /\ \/ \E u \in used :
          /\ u.address = a
          /\ used' = used \ {u}
          /\ answer' = 0
     \/ /\ \A u \in used : u.address # a
        /\ answer' \in Refused
        /\ UNCHANGED used

Next ==
  \/ \E size \in Requests : Alloc(size)
  \/ \E a \in Block \cup {NULL} : Free(a)

Spec == Init /\ [][Next]_heap
=============================================================================
