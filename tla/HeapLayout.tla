----------------------------- MODULE HeapLayout -----------------------------
(***************************************************************************)
(* How the constructor of MemoryAllocator (k_memory.cpp) divides the bytes *)
(* from HEAP_START_ADDR to HEAP_END_ADDR into the allocation table, a      *)
(* padding, and blocks.  Memory is what is done with the blocks.           *)
(***************************************************************************)
EXTENDS Integers

MEM_BLOCK_SIZE == 64
ENTRY_SIZE     == 4      \* sizeof(blocks_t)

(* total_blocks, regardless of alignment.                                  *)
MostBlocks(start, end) == (end - start + 1) \div (MEM_BLOCK_SIZE + ENTRY_SIZE)

TableEnd(start, n) == start + n * ENTRY_SIZE

Aligned(address) == address % MEM_BLOCK_SIZE = 0

(* A block is given up when the table does not end at a block.             *)
TotalBlocks(start, end) ==
  LET n == MostBlocks(start, end)
  IN IF Aligned(TableEnd(start, n)) THEN n ELSE n - 1

PaddingSize(start, end) ==
  IF Aligned(TableEnd(start, MostBlocks(start, end))) THEN 0
  ELSE MEM_BLOCK_SIZE - (TableEnd(start, TotalBlocks(start, end)) % MEM_BLOCK_SIZE)

(* HEAP_START_ADDR after the constructor.                                  *)
FirstBlock(start, end) ==
  TableEnd(start, TotalBlocks(start, end)) + PaddingSize(start, end)
=============================================================================
