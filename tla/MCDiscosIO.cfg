SPECIFICATION ReadSpec
CONSTANTS
  writer = writer
  reader = reader
  Fd <- BothFds
  ReadOnly <- TheReader
  Data <- Buffers
  Counts <- Numbers
  INODE_NUM_DIRECT_PTR = 1
  PTRS_PER_BLOCK = 2
  BLOCK_SIZE = 2
  DATA_BLOCKS_NUM = 10
  UINT_RANGE = 4096
  MAX_SIZE = 5
  CLEARED = 1
  LEFT = LEFT
  MAX_ASLEEP = 3
INVARIANT TypeOK
INVARIANT OneBlockOnePlace
INVARIANT SizeCoversContents
INVARIANT SequentialWritesKept
INVARIANT GetsWhatItRead
PROPERTY AlignedReadsBack
