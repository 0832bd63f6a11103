SPECIFICATION IoctlSpec
CONSTANTS
  name_a = name_a
  name_b = name_b
  proc_1 = proc_1
  proc_2 = proc_2
  NoName = empty
  Procs <- TwoProcs
  Modes <- OneMode
  Names <- TwoNames
  Residue <- LongerName
  MAX_DEPTH = 2
  INODE_NUM_DIRECT_PTR = 1
  PTRS_PER_BLOCK = 1
  ENTRIES_PER_BLOCK = 2
  DATA_BLOCKS_NUM = 2
  MAX_NUM_FILE = 3
  UINT_RANGE = 64
  MAX_OVERTAKEN = 2
SYMMETRY TwoProcsSymmetry
INVARIANT IoctlTypeOK
INVARIANT BlockOwnership
INVARIANT FreeBlocksCovered
INVARIANT SoundUnlessOvertaken
INVARIANT BlankUntilCounted
