SPECIFICATION Spec
CONSTANTS
  name_a = name_a
  name_b = name_b
  name_c = name_c
  empty = empty
  junk = junk
  NoName = empty
  Modes <- OneMode
  Names <- ThreeNames
  Residue <- CleanMemory
  MAX_DEPTH = 1
  INODE_NUM_DIRECT_PTR = 1
  PTRS_PER_BLOCK = 1
  ENTRIES_PER_BLOCK = 1
  DATA_BLOCKS_NUM = 8
  MAX_NUM_FILE = 6
  UINT_RANGE = 4096
SYMMETRY ThreeNamesSymmetry
PROPERTY CreatedIsReachable
