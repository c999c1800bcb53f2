SPECIFICATION Spec
CONSTANTS
  MaxReaderCount = 31
  Crowd = 32
INVARIANTS ReadersBlockWriter 
