SPECIFICATION Spec
CONSTANTS
  MaxEvents = 17
  Plan = {1, 2}
  MaxBindings = 2
  MaxApprovals = 2
CONSTRAINT Bounded
INVARIANTS
  ReportAfterRelease
CHECK_DEADLOCK FALSE
