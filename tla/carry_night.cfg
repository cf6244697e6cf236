SPECIFICATION Spec
CONSTANTS
  p1 = p1
  p2 = p2
  r1 = r1
  r2 = r2
  c1 = c1
  MaxTasks = 2
  Project = {c1}
  Cwd <- SameCwd
  Iso <- AllInFolder
  Runner = {r1, r2}
  Pid = {p1, p2}
  NoPid = NoPid
  NoLock = NoLock
  NoTask = NoTask
  NoRunner = NoRunner
  NoChild = NoChild
  NoCommand = NoCommand
  Mode = {"night"}
  Concurrency = 2
  Commands = {"add", "rm", "approve", "stop", "cleanupId"}
  MaxCommands = 2
  MaxTime = 1
  Overlapping = FALSE
  Faults = {"crash", "detach"}
SYMMETRY Pids
INVARIANTS
  TypeOK
  OneChild
  OneRunner
  LiveIsRecorded
  HeadFollowsRun
  SupervisorSurvives
  HomeAgain
PROPERTIES
  ResumesTheSame
  MarkerIsForThisRun
CHECK_DEADLOCK FALSE
