SPECIFICATION Spec
CONSTANTS
  MaxReaderCount = 31
  Crowd = 31
INVARIANTS ReadersBlockWriter CountIsGuards
