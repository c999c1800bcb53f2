SPECIFICATION FairSpec
CONSTANTS
  Acq = {a1, a2}
  Cancels = {}
  BITS = 3
  Cells = {4096, 4098}
  Value <- MsbValue
  Acquired <- MsbAcquired
  MakeAcquired <- MsbMakeAcquired
  MakeReleased <- MsbMakeReleased
PROPERTIES NoWaitOnFreeMutex
