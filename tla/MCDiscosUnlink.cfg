SPECIFICATION Spec
CONSTANTS
  name_a = name_a
  name_b = name_b
  name_c = name_c
  empty = empty
  junk = junk
  NoName = empty
  Modes <- OneMode
  Names <- ThreeNames
  Residue <- CleanMemory
  MAX_DEPTH = 1
  INODE_NUM_DIRECT_PTR = 2
  PTRS_PER_BLOCK = 2
  ENTRIES_PER_BLOCK = 2
  DATA_BLOCKS_NUM = 5
  MAX_NUM_FILE = 5
  UINT_RANGE = 4096
SYMMETRY ThreeNamesSymmetry
PROPERTY UnlinkKeepsOthers
