SPECIFICATION Spec
CONSTANTS
  p1 = p1
  p2 = p2
  r1 = r1
  r2 = r2
  c1 = c1
  MaxTasks = 1
  Project = {c1}
  Cwd <- SameCwd
  Iso <- AllInFolder
  Runner = {r1}
  Pid = {p1, p2}
  NoPid = NoPid
  NoLock = NoLock
  NoTask = NoTask
  NoRunner = NoRunner
  NoChild = NoChild
  NoCommand = NoCommand
  Mode = {"night"}
  Concurrency = 2
  Commands = {"add", "pause"}
  MaxCommands = 1
  MaxTime = 1
  Overlapping = TRUE
  Faults = {}
SYMMETRY Pids
INVARIANTS
  OneChild
CHECK_DEADLOCK FALSE
