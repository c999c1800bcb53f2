SPECIFICATION FairSpec
CONSTANTS
  Acq = {a1, a2, a3}
  Cancels = {a1, a2}
  BITS = 3
  Cells = {4096, 4098}
  Value <- PtrValue
  Acquired <- PtrAcquired
  MakeAcquired <- PtrMakeAcquired
  MakeReleased <- PtrMakeReleased
INVARIANTS MutualExclusion GuardMeansAcquired
PROPERTIES PayloadKept WaitsForCause MutexIsTakenAgain
