SPECIFICATION Spec
CONSTANTS
  s1 = s1
  s2 = s2
  l1 = l1
  q1 = q1
  w1 = w1
  w2 = w2
  Window = {w1}
  Session = {s1}
  Line = {l1}
  Poller = {q1}
  Utilization = {0, 990}
  Period = 4
  Jitter = 0
  Cadence = 0
  PollGuard = 1
  MaxSamples = 2
  MaxTime = 5
  MaxChecks = 1
  Configs <- AutoOnly
  StaleAfter = 2
  SuppressWithin = 3
  Throttle = 1
  RefreshEvery = 1
  LatchTTL = 4
  Faults = {}
ACTION_CONSTRAINT Brief
PROPERTIES
  WrapsInsideReserve
CHECK_DEADLOCK FALSE
