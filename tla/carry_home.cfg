SPECIFICATION FairSpec
CONSTANTS
  p1 = p1
  p2 = p2
  r1 = r1
  r2 = r2
  c1 = c1
  MaxTasks = 2
  Project = {c1}
  Cwd <- SameCwd
  Iso <- AllInFolder
  Runner = {r1}
  Pid = {p1, p2}
  NoPid = NoPid
  NoLock = NoLock
  NoTask = NoTask
  NoRunner = NoRunner
  NoChild = NoChild
  NoCommand = NoCommand
  Mode = {"night"}
  Concurrency = 1
  Commands = {"add", "stop"}
  MaxCommands = 1
  MaxTime = 1
  Overlapping = FALSE
  Faults = {"spawn", "detach"}
INVARIANTS
  HomeAgain
PROPERTIES
  MarkerIsForThisRun
  PendingIsTaken
CHECK_DEADLOCK FALSE
