SPECIFICATION Spec
CONSTANTS
  MaxEvents = 17
  Plan = {1, 2}
  MaxBindings = 2
  MaxApprovals = 2
CONSTRAINT Bounded
INVARIANTS
  GatesBindWork
CHECK_DEADLOCK FALSE
