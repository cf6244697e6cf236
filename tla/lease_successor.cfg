SPECIFICATION Spec
CONSTANTS
  p1 = p1
  p2 = p2
  r1 = r1
  r2 = r2
  t1 = t1
  t2 = t2
  Proc = {p1, p2}
  Run = {r1}
  Task = {t1, t2}
  TaskOf <- OneRun
  Overlap <- NoOverlap
  MaxEpoch = 2
  Faults = {}
  NoState = NoState
  NoLease = NoLease
  Free = Free
SYMMETRY Symmetry
INVARIANTS
  SuccessorAdmissible
