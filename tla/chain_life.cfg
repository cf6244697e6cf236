SPECIFICATION Spec
CONSTANTS
  MaxEvents = 17
  Plan = {1, 2}
  MaxBindings = 2
  MaxApprovals = 2
CONSTRAINT Bounded
INVARIANTS
  TypeOK
  ClosureIsProvable
  ResumesNewest
  ResumeLosesNoWork
  MadeIsAccepted
  DispatchIsApproved
PROPERTIES
  ImplementsLife
  CompletionIsFinal
CHECK_DEADLOCK FALSE
