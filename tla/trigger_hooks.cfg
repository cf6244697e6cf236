SPECIFICATION Spec
CONSTANTS
  s1 = s1
  s2 = s2
  l1 = l1
  q1 = q1
  w1 = w1
  w2 = w2
  Window = {w1}
  Session = {s1, s2}
  Line = {l1}
  Poller = {q1}
  Utilization = {860, 990}
  Period = 2
  Jitter = 0
  Cadence = 0
  PollGuard = 1
  MaxSamples = 2
  MaxTime = 1
  MaxChecks = 3
  Configs <- AutoOnly
  StaleAfter = 1
  SuppressWithin = 0
  Throttle = 1
  RefreshEvery = 1
  LatchTTL = 2
  Faults = {"read", "write"}
CONSTRAINTS
  Pairwise
  OneKept
ACTION_CONSTRAINT Brief
SYMMETRY Symmetry
INVARIANTS
  TypeOK
  ReadingsRise
  LatchedIsSaid
PROPERTIES
  SaysOnce
  LevelsRise
  RefreshesApart
CHECK_DEADLOCK FALSE
