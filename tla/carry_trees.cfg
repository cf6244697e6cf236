SPECIFICATION Spec
CONSTANTS
  p1 = p1
  p2 = p2
  r1 = r1
  r2 = r2
  c1 = c1
  MaxTasks = 2
  Project = {c1}
  Cwd <- SameCwd
  Iso <- TreeAndAdopted
  Runner = {r1, r2}
  Pid = {p1, p2}
  NoPid = NoPid
  NoLock = NoLock
  NoTask = NoTask
  NoRunner = NoRunner
  NoChild = NoChild
  NoCommand = NoCommand
  Mode = {"once", "idle", "drain"}
  Concurrency = 2
  Commands = {"add", "adopt", "cleanup", "move", "pause"}
  MaxCommands = 1
  MaxTime = 1
  Overlapping = FALSE
  Faults = {"crash"}
SYMMETRY Pids
INVARIANTS
  TreeStands
  TreeAwaitsResume
PROPERTIES
  ImplementsSessions
CHECK_DEADLOCK FALSE
