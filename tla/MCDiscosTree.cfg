SPECIFICATION Spec
CONSTANTS
  name_a = name_a
  name_b = name_b
  name_c = name_c
  empty = empty
  junk = junk
  NoName = empty
  Modes <- OneMode
  Names <- TwoNames
  Residue <- Unknown
  MAX_DEPTH = 2
  INODE_NUM_DIRECT_PTR = 1
  PTRS_PER_BLOCK = 2
  ENTRIES_PER_BLOCK = 2
  DATA_BLOCKS_NUM = 6
  MAX_NUM_FILE = 4
  UINT_RANGE = 4096
SYMMETRY TwoNamesSymmetry
INVARIANT TypeOK
INVARIANT IndexBlocksOnly
INVARIANT EntryTargets
INVARIANT FreeInodesExact
INVARIANT SizeCoversEntries
PROPERTY NonEmptyDirectoryKept
PROPERTY CreateKeepsOthers
