SPECIFICATION Spec
CONSTANTS
  Capacity = 3
  Element = {11, 12}
PROPERTY ImplementsFifo
