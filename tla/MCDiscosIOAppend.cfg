SPECIFICATION ReadSpec
CONSTANTS
  writer = writer
  reader = reader
  Fd <- OneFd
  ReadOnly <- Nobody
  Data <- AcrossBlocks
  Counts <- OnlyZero
  INODE_NUM_DIRECT_PTR = 1
  PTRS_PER_BLOCK = 2
  BLOCK_SIZE = 2
  DATA_BLOCKS_NUM = 10
  UINT_RANGE = 4096
  MAX_SIZE = 8
  CLEARED = 1
  LEFT = LEFT
  MAX_ASLEEP = 3
PROPERTY AppendedBytesKept
