SPECIFICATION Spec
CONSTANTS
  N = 3
  pool_size = 3
  JOBS = 2
INVARIANT TypeOK
INVARIANT QueueSound
INVARIANT DeadNotQueued
INVARIANT StackHeld
PROPERTY LostOnlyByFinish
PROPERTY EachGetsTheCpu
CHECK_DEADLOCK FALSE
