SPECIFICATION FairSpec
CONSTANTS
  p1 = p1
  p2 = p2
  r1 = r1
  r2 = r2
  t1 = t1
  t2 = t2
  Proc = {p1, p2}
  Run = {r1, r2}
  Task = {t1, t2}
  TaskOf <- SameTask
  Overlap <- NoOverlap
  MaxEpoch = 2
  Faults = {"crash", "write", "unlink"}
  NoState = NoState
  NoLease = NoLease
  Free = Free
ACTION_CONSTRAINT FewCalls
INVARIANTS
  TypeOK
  NoTwoHolders
  ActiveIsLocked
  LocksAccountedFor
PROPERTIES
  ResidueIsNeverTakenOver
  ImplementsRegistry
  CoordinationIsShortLived
