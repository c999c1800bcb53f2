SPECIFICATION Spec
CONSTANTS
  Acq = {a1, a2}
  MaxReaderCount = 7
  Calls <- AnyCall
INVARIANTS NoAssertionFails
