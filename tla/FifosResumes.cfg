SPECIFICATION Spec
CONSTANTS
  N = 2
  pool_size = 4
  JOBS = 1
INVARIANT ResumesWhereItStopped
CHECK_DEADLOCK FALSE
