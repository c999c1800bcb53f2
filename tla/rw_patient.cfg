SPECIFICATION FairSpec
CONSTANTS
  Acq = {a1, a2, a3}
  MaxReaderCount = 7
  Calls <- Patient
INVARIANTS QueuedHasWriter
PROPERTIES UpgradeAheadOfWriter ReaderYieldsOnlyToWriters
