SPECIFICATION FairSpec
CONSTANTS
  Acq = {a1, a2, a3, a4}
  MaxReaderCount = 7
  Calls <- NoNesting
INVARIANTS CountIsExact NoAssertionFails RefusedForCause
PROPERTIES ImplementsAbs UpgradeKeepsItsPlace WriterProgress UpgradeYieldsOnlyToReaders
