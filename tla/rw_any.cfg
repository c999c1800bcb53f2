SPECIFICATION Spec
CONSTANTS
  Acq = {a1, a2, a3, a4}
  MaxReaderCount = 7
  Calls <- AnyCall
SYMMETRY Symmetry
INVARIANTS TypeOK MutualExclusion AtMostOneLeak
PROPERTIES QueueDrains
