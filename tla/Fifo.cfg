CONSTANTS
  Data = {a, b}
  Depth = 4
SPECIFICATION Spec
INVARIANTS FlagsMatchPointers NeverWedged
PROPERTY ImplementsByteQueue
