SPECIFICATION SpecFd
CONSTANTS
  name_a = name_a
  name_b = name_b
  empty = empty
  NoName = empty
  Modes <- ReadOnlyOrBoth
  Names <- TwoNames
  Residue <- CleanMemory
  MAX_DEPTH = 1
  INODE_NUM_DIRECT_PTR = 1
  PTRS_PER_BLOCK = 1
  ENTRIES_PER_BLOCK = 2
  DATA_BLOCKS_NUM = 2
  MAX_NUM_FILE = 3
  UINT_RANGE = 4096
  Pids <- TwoPids
  THERAD_POOL_SIZE = 2
  FD_TABLE_SIZE = 2
INVARIANT TypeOKFd
INVARIANT DescriptorsExact
PROPERTY ObjectKeptUntilClosed
