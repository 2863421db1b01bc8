SPECIFICATION RequestsSpec
CONSTANTS
  N = 5
  MEM_BLOCK_SIZE = 4
  SIZE_MOD = 64
  BLOCKS_MOD = 8
  NULL = NULL
  UNALIGNED = unaligned
  DATA = data
  Sizes = {4, 33}
INVARIANTS AtLeastSize
