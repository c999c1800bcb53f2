SPECIFICATION FairSpinSpec
CONSTANTS
  Reader = Reader
  Writer = Writer
  Upgrader = Upgrader
  Acq = {Reader, Writer, Upgrader}
  MaxReaderCount = 7
  Calls <- Cast
INVARIANTS SpinTypeOK
PROPERTIES ImplementsLock DeliversFairness
