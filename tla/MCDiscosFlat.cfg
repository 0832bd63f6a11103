SPECIFICATION Spec
CONSTANTS
  name_a = name_a
  name_b = name_b
  name_c = name_c
  empty = empty
  junk = junk
  NoName = empty
  Modes <- OneMode
  Names <- ThreeNames
  Residue <- Unknown
  MAX_DEPTH = 1
  INODE_NUM_DIRECT_PTR = 1
  PTRS_PER_BLOCK = 2
  ENTRIES_PER_BLOCK = 1
  DATA_BLOCKS_NUM = 8
  MAX_NUM_FILE = 6
  UINT_RANGE = 4096
  BYTE_BITS = 3
  BITMAP_BYTES = 3
SYMMETRY ThreeNamesSymmetry
INVARIANT IndexBlocksOnly
INVARIANT EntryTargets
INVARIANT SizeCoversEntries
INVARIANT ScanFindsFirstFree
INVARIANT BitsAreBlocks
PROPERTY CreateKeepsOthers
