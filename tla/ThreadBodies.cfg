SPECIFICATION Spec_bodies
CHECK_DEADLOCK FALSE
CONSTANTS
  MEM = 10
  Sizes = {1, 2, 4}
  Printers = {1, 2, 3}
  COLUMNS = 4
  LINES = 2
  EOI = 2
  BYTE = 6
  MAX_TICKS = 3
INVARIANT TypeOK
INVARIANT TiledAtRest
INVARIANT MergedAtRest
INVARIANT CursorStrays
INVARIANT NewlineRepairs
PROPERTY ImplementsAllocator
