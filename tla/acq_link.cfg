SPECIFICATION FairSpec
CONSTANTS
  Thr = {t1, t2}
  Node = {n1, n2, n3}
  Null = Null
  Guarded = Guarded
  Cancels = {t2}
INVARIANTS TypeOK GuardsMatchLocks
PROPERTIES ImplementsLinkLocks InsertionsEnd
