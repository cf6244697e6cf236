------------------------- MODULE CarryRunner_proofs --------------------------
(***************************************************************************)
(* What the night runner promises for any number of tasks, projects,       *)
(* runner processes, Claude processes and commands, under the two          *)
(* assumptions the runs show it needs: synchronous stretches and commands  *)
(* do not overlap in time, and no runner dies between the start of a       *)
(* process and the record of its pid.                                      *)
(***************************************************************************)
EXTENDS CarryRunner, TLAPS

-----------------------------------------------------------------------------
(***************************************************************************)
(* Who is at work.                                                         *)
(***************************************************************************)
\* A runner past takeRunnerLock is the one runner.pid names; while one is about to
\* take the lock no other lives.
OwnerInv ==
  /\ DOMAIN pc = Runner
  /\ \A r \in Runner : Alive(r) /\ pc[r] # "lock" => pidFile = r
  /\ \A r, s \in Runner : pc[r] = "lock" /\ Alive(s) => r = s

\* The half of it that does not depend on stretches that do not overlap.
NamedInv ==
  /\ DOMAIN pc = Runner
  /\ \A r \in Runner : Alive(r) /\ pc[r] # "lock" => pidFile = r

\* One stretch or one command at a time.
TurnInv ==
  /\ \A r, s \in Runner : pc[r] \notin Asleep /\ pc[s] \notin Asleep => r = s
  /\ command # NoCommand => \A r \in Runner : pc[r] \in Asleep

(***************************************************************************)
(* The queue and the processes.                                            *)
(***************************************************************************)
QueueType(q) ==
  /\ q = [task |-> q.task, order |-> q.order, nextId |-> q.nextId, paused |-> q.paused]
  /\ q.task \in [Task -> Record \union {NoTask}]
  /\ q.nextId \in Nat \ {0}
  /\ \A t \in Present(q) : t < q.nextId

Branch == Task \union {Main, Detached}

TypeInv ==
  /\ now \in Nat
  /\ QueueType(queue)
  /\ head \in [Project -> Branch]
  /\ DOMAIN snap = Runner /\ DOMAIN target = Runner /\ DOMAIN child = Pid
  /\ \A r \in Runner : target[r] = [task |-> target[r].task, pid |-> target[r].pid]
  /\ \A p \in Pid : child[p] # NoChild => child[p] \in Child

\* The record of its task says that process p, as c describes it, runs.
Names(q, p, c) ==
  /\ Has(q, c.task, "running")
  /\ q.task[c.task].lock # NoLock
  /\ q.task[c.task].lock.pid = IF c.phase = "unspawned" THEN NoPid ELSE p

\* The task of a process that could not be started is over, or was removed.
Over(q, c) == c.task < q.nextId /\ (c.task \in Present(q) => q.task[c.task].status = "failed")

Right(q, p, c) == IF c.phase = "errored" THEN Over(q, c) ELSE Names(q, p, c)

\* A queue fits processes when it is right about each of them.
Fits(q, processes) ==
  /\ QueueType(q)
  /\ \A p \in Pid : processes[p] # NoChild => Right(q, p, processes[p])

\* What a runner's record of a task says until its process is recorded.
Locked(q, r, t) == Has(q, t, "running") /\ q.task[t].lock = [owner |-> r, pid |-> NoPid]

\* The process a runner has started or heard the error of, not yet on record.
InHand(r, p) == pc[r] \in {"loadPid", "savePid", "saveClosed"} /\ target[r].pid = p

Saving == {"saveReconciled", "savePark", "saveDispatch", "saveHeard", "saveClosed", "savePid"}

Childless == {"unborn", "dead", "threw", "lock", "reconcile", "saveReconciled"}

\* Only live processes have no parent; a runner has none before it has reconciled.
ParentInv ==
  \A p \in Pid : child[p] # NoChild =>
    IF child[p].parent = NoRunner THEN child[p].phase = "up"
    ELSE pc[child[p].parent] \notin Childless

\* One process per task.
UniqueInv ==
  \A p, q \in Pid : child[p] # NoChild /\ child[q] # NoChild /\ child[p].task = child[q].task => p = q

\* The queue on disk is right about all processes but the one that is in hand.
DiskInv ==
  \A p \in Pid : child[p] # NoChild => Right(queue, p, child[p]) \/ \E r \in Runner : InHand(r, p)

\* What the user's command will save fits the processes.
CommandInv == command # NoCommand /\ command.does = "save" => Fits(command.queue, child)

\* So does what a runner will save; nothing works on a task that is on its way to
\* a process; and the process in hand is that of the task in hand.
RunnerOK(r) ==
  LET t == target[r].task
      p == target[r].pid
  IN /\ pc[r] \in Saving => Fits(snap[r], child)
     /\ pc[r] \in {"saveDispatch", "spawn"} \/ (pc[r] = "dispatch" /\ t \in Present(queue)) =>
          \A i \in Pid : child[i] # NoChild => child[i].task # t
     /\ pc[r] = "saveDispatch" => Locked(snap[r], r, t)
     /\ pc[r] \in {"spawn", "loadPid"} => Locked(queue, r, t)
     /\ pc[r] = "spawn" => snap[r] = queue
     /\ pc[r] \in {"loadPid", "savePid"} =>
          /\ p \in Pid /\ child[p] # NoChild /\ child[p].phase # "errored"
          /\ child[p].parent = r /\ child[p].task = t
     /\ pc[r] = "saveClosed" => p \in Pid /\ (child[p] # NoChild =>
                                  child[p].parent = r /\ child[p].phase = "errored")

RunnerInv ==
  /\ OwnerInv /\ TurnInv /\ TypeInv /\ ParentInv
  /\ UniqueInv /\ DiskInv /\ CommandInv /\ \A r \in Runner : RunnerOK(r)

-----------------------------------------------------------------------------
(***************************************************************************)
(* Turns.                                                                  *)
(***************************************************************************)
RunnerStep(r) == Stretch(r) \/ Wake(r) \/ Crash(r) \/ \E p \in Pid : Hear(r, p)

\* What a step of a runner does to its place.
LEMMA RunnerMoves ==
  ASSUME NEW r \in Runner, DOMAIN pc = Runner, RunnerStep(r)
  PROVE  /\ pc' = [pc EXCEPT ![r] = pc'[r]] /\ command' = command
         /\ pc[r] \notin {"unborn", "dead", "threw"} /\ pc'[r] \notin {"unborn", "lock"}
         /\ pc[r] = "rest" => pc'[r] = "dead" \/ MayEnter
         /\ IF pc[r] = "lock" THEN pc'[r] = "dead" \/ pidFile' = r ELSE pidFile' = pidFile
         /\ pc'[r] \in {"reconcile", "saveReconciled"} => pc[r] \in {"lock", "reconcile"}
         /\ pc'[r] \in {"dead", "threw"} => child' = Orphaned(r)
<1>. USE DEF Goto, Prepare, Save, End, Throw, Handle, disk, loop, user
<1>1. CASE TakeLock(r) \/ Reconcile(r) \/ SaveReconciled(r)
  BY <1>1 DEF TakeLock, Reconcile, SaveReconciled
<1>2. CASE Top(r) \/ Fill(r) \/ Exit(r)
  BY <1>2 DEF Top, Fill, Exit
<1>3. CASE Dispatch(r) \/ SavePark(r) \/ SaveDispatch(r)
  BY <1>3 DEF Dispatch, SavePark, Dispatching, SaveDispatch
<1>4. CASE Spawn(r) \/ LoadPid(r) \/ SavePid(r)
  BY <1>4 DEF Spawn, LoadPid, SavePid, Dispatching
<1>5. CASE SaveHeard(r) \/ SaveClosed(r)
  BY <1>5 DEF SaveHeard, SaveClosed
<1>6. CASE Wake(r) \/ Crash(r)
  BY <1>6 DEF Wake, Crash, Alive
<1>7. ASSUME NEW p \in Pid, HearInit(r, p) \/ HearUsage(r, p)
      PROVE  /\ pc' = [pc EXCEPT ![r] = pc'[r]] /\ command' = command /\ pidFile' = pidFile
             /\ pc[r] = "rest" /\ pc'[r] \in {"saveHeard", "threw"} /\ MayEnter
             /\ pc'[r] = "threw" => child' = Orphaned(r)
  BY <1>7 DEF HearInit, HearUsage, Hears
<1>8. ASSUME NEW p \in Pid, HearClose(r, p) \/ HearError(r, p)
      PROVE  /\ pc' = [pc EXCEPT ![r] = pc'[r]] /\ command' = command /\ pidFile' = pidFile
             /\ pc[r] = "rest" /\ pc'[r] \in {"saveClosed", "threw"} /\ MayEnter
             /\ pc'[r] = "threw" => child' = Orphaned(r)
  BY <1>8 DEF HearClose, HearError, Hears
<1>. QED BY <1>1, <1>2, <1>3, <1>4, <1>5, <1>6, <1>7, <1>8 DEF RunnerStep, Stretch, Hear

\* A runner that is about to write runner.pid does so, or dies.
LEMMA LockMoves ==
  ASSUME NEW r \in Runner, DOMAIN pc = Runner, RunnerStep(r), pc[r] = "lock", ~TakeLock(r)
  PROVE  pc'[r] = "dead" /\ pidFile' = pidFile
<1>1. CASE Crash(r) BY <1>1 DEF Crash, End, Goto, disk
<1>2. CASE ~Crash(r)
  BY <1>2 DEF RunnerStep, Stretch, Reconcile, SaveReconciled, Save, Top, Fill, Exit, Dispatch,
     SavePark, Dispatching, SaveDispatch, Spawn, LoadPid, SavePid, SaveHeard, SaveClosed, Wake,
     Hear, HearInit, HearUsage, HearClose, HearError, Hears
<1>. QED BY <1>1, <1>2

\* The user does not touch the runners and begins a command when all is quiet.
LEMMA UserMoves ==
  ASSUME User
  PROVE  UNCHANGED <<pc, pidFile, snap, target, now>> /\ (command' = NoCommand \/ MayEnter)
<1>. USE DEF WillSave, Types, disk, loop, user
<1>1. CASE Add \/ Adopt BY <1>1 DEF Add, Adopt, MayType
<1>2. ASSUME NEW t \in Task, Rm(t) \/ Approve(t) \/ Stop(t)
      PROVE  UNCHANGED <<pc, pidFile, snap, target, now>> /\ MayEnter
  BY <1>2 DEF Rm, Approve, Stop, MayType
<1>3. ASSUME NEW i, NEW where, Move(i, where)
      PROVE  UNCHANGED <<pc, pidFile, snap, target, now>> /\ MayEnter
  BY <1>3 DEF Move, MayType
<1>4. ASSUME NEW on, Pause(on) PROVE UNCHANGED <<pc, pidFile, snap, target, now>> /\ MayEnter
  BY <1>4 DEF Pause, MayType
<1>5. ASSUME NEW t, NEW all, Cleanup(all) \/ CleanupOf(t, all)
      PROVE  UNCHANGED <<pc, pidFile, snap, target, now>> /\ MayEnter
  BY <1>5 DEF Cleanup, CleanupOf, RemoveTrees, MayType
<1>6. CASE MarkAndKill \/ SaveCommand BY <1>6 DEF MarkAndKill, SaveCommand
<1>. QED BY <1>1, <1>2, <1>3, <1>4, <1>5, <1>6 DEF User

LEMMA MachineMoves ==
  ASSUME Machine
  PROVE  UNCHANGED <<pc, pidFile, snap, target, command, queue>>
BY DEF Machine, Say, Finish, UserCheckout, Tick, disk, loop, user

LEMMA OwnerStep ==
  ASSUME ~Overlapping, OwnerInv, [Next]_vars PROVE OwnerInv'
<1>1. CASE UNCHANGED <<pc, pidFile>> BY <1>1 DEF OwnerInv, Alive
<1>2. ASSUME NEW r \in Runner, RunnerStep(r) PROVE OwnerInv'
  <2>1. DOMAIN pc = Runner BY DEF OwnerInv
  <2>2. /\ pc' = [pc EXCEPT ![r] = pc'[r]]
        /\ pc[r] \notin {"unborn", "dead", "threw"} /\ pc'[r] \notin {"unborn", "lock"}
        /\ IF pc[r] = "lock" THEN pc'[r] = "dead" \/ pidFile' = r ELSE pidFile' = pidFile
    BY <1>2, <2>1, RunnerMoves
  <2>. QED BY <2>1, <2>2 DEF OwnerInv, Alive
<1>3. ASSUME NEW r \in Runner, NEW m \in Mode, Start(r, m) PROVE OwnerInv'
  <2>1. /\ pc' = [pc EXCEPT ![r] = pc'[r]] /\ pidFile' = pidFile /\ pc[r] = "unborn"
        /\ pc'[r] = IF MayTakeLock(r) THEN "lock" ELSE "dead"
        /\ \A s \in Runner : pc[s] # "lock"
    BY <1>3 DEF Start, Goto, disk, MayEnter, Quiet, Asleep, OwnerInv
  <2>2. MayTakeLock(r) => \A s \in Runner : ~Alive(s)
    BY <2>1, NoRunnerIsNoRunner DEF MayTakeLock, OwnerInv
  <2>. QED BY <2>1, <2>2 DEF OwnerInv, Alive
<1>4. CASE User \/ Machine BY <1>1, <1>4, UserMoves, MachineMoves
<1>. QED BY <1>1, <1>2, <1>3, <1>4 DEF Next, RunnerStep, vars, disk

\* The only way to two runners is the one a test would hardly take: that one of them
\* writes runner.pid over the pid of a runner that lives, which it had not seen when it
\* looked (takeRunnerLock reads and writes in two steps).  As long as no write does that,
\* no two runners are past it, however their stretches and the commands overlap in time,
\* and whatever runners die and when.
THEOREM OneRunnerAtATime ==
  Spec /\ [][\A r \in Runner : TakeLock(r) => MayTakeLock(r)]_vars => []OneRunner
<1> DEFINE Seen == \A r \in Runner : TakeLock(r) => MayTakeLock(r)
<1>1. Init => NamedInv BY DEF Init, NamedInv, Alive
<1>2. NamedInv /\ [Next]_vars /\ [Seen]_vars => NamedInv'
  <2>. SUFFICES ASSUME NamedInv, [Next]_vars, [Seen]_vars PROVE NamedInv' OBVIOUS
  <2>1. CASE UNCHANGED <<pc, pidFile>> BY <2>1 DEF NamedInv, Alive
  <2>2. ASSUME NEW r \in Runner, RunnerStep(r), Seen PROVE NamedInv'
    <3>1. DOMAIN pc = Runner BY DEF NamedInv
    <3>2. /\ pc' = [pc EXCEPT ![r] = pc'[r]]
          /\ pc[r] \notin {"unborn", "dead", "threw"} /\ pc'[r] \notin {"unborn", "lock"}
          /\ IF pc[r] = "lock" THEN pc'[r] = "dead" \/ pidFile' = r ELSE pidFile' = pidFile
      BY <2>2, <3>1, RunnerMoves
    <3>3. CASE TakeLock(r)
      <4>1. pidFile = NoRunner \/ ~Alive(pidFile) BY <2>2, <3>3 DEF MayTakeLock
      <4>2. \A s \in Runner : Alive(s) => pc[s] = "lock" BY <4>1, NoRunnerIsNoRunner DEF NamedInv
      <4>3. pc[r] = "lock" /\ pidFile' = r BY <3>3 DEF TakeLock
      <4>. QED BY <3>1, <3>2, <4>2, <4>3 DEF NamedInv, Alive
    <3>4. CASE ~TakeLock(r)
      <4>1. pc[r] = "lock" => pc'[r] = "dead" /\ pidFile' = pidFile BY <2>2, <3>1, <3>4, LockMoves
      <4>. QED BY <3>1, <3>2, <4>1 DEF NamedInv, Alive
    <3>. QED BY <3>3, <3>4
  <2>3. ASSUME NEW r \in Runner, NEW m \in Mode, Start(r, m) PROVE NamedInv'
    <3>1. pc' = [pc EXCEPT ![r] = pc'[r]] /\ pidFile' = pidFile /\ pc'[r] \in {"lock", "dead"}
      BY <2>3 DEF Start, Goto, disk, NamedInv
    <3>. QED BY <3>1 DEF NamedInv, Alive
  <2>4. CASE User \/ Machine BY <2>1, <2>4, UserMoves, MachineMoves
  <2>. QED BY <2>1, <2>2, <2>3, <2>4 DEF Next, RunnerStep, vars, disk
<1>3. NamedInv => OneRunner BY DEF NamedInv, OneRunner
<1>. QED BY <1>1, <1>2, <1>3, PTL DEF Spec

LEMMA TurnStep ==
  ASSUME ~Overlapping, OwnerInv, TurnInv, [Next]_vars PROVE TurnInv'
<1>. USE DEF Asleep
<1>1. CASE UNCHANGED <<pc, command>> BY <1>1 DEF TurnInv
<1>2. MayEnter => command = NoCommand /\ \A s \in Runner : pc[s] \in Asleep
  BY DEF MayEnter, Quiet
<1>3. ASSUME NEW r \in Runner, RunnerStep(r) PROVE TurnInv'
  <2>1. DOMAIN pc = Runner BY DEF OwnerInv
  <2>2. /\ pc' = [pc EXCEPT ![r] = pc'[r]] /\ command' = command
        /\ pc[r] \notin {"unborn", "dead", "threw"}
        /\ pc[r] = "rest" => pc'[r] = "dead" \/ MayEnter
    BY <1>3, <2>1, RunnerMoves
  <2>. QED BY <1>2, <2>1, <2>2 DEF TurnInv
<1>4. ASSUME NEW r \in Runner, NEW m \in Mode, Start(r, m) PROVE TurnInv'
  <2>1. pc' = [pc EXCEPT ![r] = pc'[r]] /\ command' = command /\ MayEnter /\ DOMAIN pc = Runner
    BY <1>4 DEF Start, Goto, user, OwnerInv
  <2>. QED BY <1>2, <2>1 DEF TurnInv
<1>5. CASE User BY <1>2, <1>5, UserMoves DEF TurnInv
<1>6. CASE Machine BY <1>6, MachineMoves, <1>1
<1>. QED BY <1>1, <1>3, <1>4, <1>5, <1>6 DEF Next, RunnerStep, vars, user

-----------------------------------------------------------------------------
(***************************************************************************)
(* Changes of a queue.                                                     *)
(***************************************************************************)
LEMMA QueueChange ==
  ASSUME NEW f \in [Task -> Record \union {NoTask}], NEW o, NEW n \in Nat \ {0}, NEW b,
         \A t \in Task : f[t] # NoTask => t < n
  PROVE  QueueType([task |-> f, order |-> o, nextId |-> n, paused |-> b])
BY DEF QueueType, Present

\* A record for one task.
LEMMA UpdatedOK ==
  ASSUME NEW q, QueueType(q), NEW t \in Present(q), NEW record \in Record
  PROVE  /\ QueueType(Updated(q, t, record))
         /\ Updated(q, t, record).nextId = q.nextId
         /\ Updated(q, t, record).task[t] = record
         /\ \A u \in Task \ {t} : Updated(q, t, record).task[u] = q.task[u]
         /\ Present(Updated(q, t, record)) = Present(q)
<1>1. t \in Task /\ t < q.nextId BY DEF Present, QueueType
<1> DEFINE f == [q.task EXCEPT ![t] = record]
<1>2. f \in [Task -> Record \union {NoTask}] /\ \A u \in Task : f[u] # NoTask => u < q.nextId
  BY <1>1 DEF QueueType, Present
<1>3. Updated(q, t, record) = [task |-> f, order |-> q.order, nextId |-> q.nextId, paused |-> q.paused]
  BY DEF Updated, QueueType
<1>4. f[t] = record /\ \A u \in Task \ {t} : f[u] = q.task[u]
  BY <1>1 DEF QueueType
<1>5. q.nextId \in Nat \ {0} BY DEF QueueType
<1> HIDE DEF f
<1>6. QueueType(Updated(q, t, record)) BY <1>2, <1>3, <1>5, QueueChange
<1>7. Present(Updated(q, t, record)) = Present(q)
  BY <1>1, <1>3, <1>4, NoTaskIsNoTask DEF Present
<1>. QED BY <1>3, <1>4, <1>6, <1>7

\* It leaves the queue right about the processes of other tasks.
LEMMA UpdatedRight ==
  ASSUME NEW q, QueueType(q), NEW t \in Present(q), NEW record \in Record,
         NEW p, NEW c \in Child, c.task # t, Right(q, p, c)
  PROVE  Right(Updated(q, t, record), p, c)
<1>1. c.task \in Task \ {t} BY DEF Child
<1>2. /\ Updated(q, t, record).nextId = q.nextId
      /\ Updated(q, t, record).task[c.task] = q.task[c.task]
      /\ Present(Updated(q, t, record)) = Present(q)
  BY <1>1, UpdatedOK
<1>. QED BY <1>2 DEF Right, Names, Over, Has

\* What keeps running tasks running, under their locks, and failed ones failed.
Spares(q, q2) ==
  /\ q.nextId <= q2.nextId
  /\ \A t \in Task :
       /\ Has(q, t, "running") =>
            Has(q2, t, "running") /\ q2.task[t].lock = q.task[t].lock
       /\ t < q.nextId /\ (t \in Present(q) => q.task[t].status = "failed") =>
            (t \in Present(q2) => q2.task[t].status = "failed")

LEMMA SparesFits ==
  ASSUME NEW q, NEW q2, NEW processes, Fits(q, processes), QueueType(q2), Spares(q, q2),
         \A p \in Pid : processes[p] # NoChild => processes[p] \in Child
  PROVE  Fits(q2, processes)
<1>. SUFFICES ASSUME NEW p \in Pid, processes[p] # NoChild PROVE Right(q2, p, processes[p])
  BY DEF Fits
<1> DEFINE c == processes[p]
<1>1. c.task \in Task /\ Right(q, p, c) BY DEF Child, Fits
<1>2. q.nextId \in Nat /\ q2.nextId \in Nat /\ c.task \in Nat
  BY <1>1 DEF Fits, QueueType, Task
<1> HIDE DEF c
<1>3. CASE c.phase = "errored"
  <2>1. Over(q, c) BY <1>1, <1>3 DEF Right
  <2>2. Over(q2, c) BY <1>1, <1>2, <2>1 DEF Over, Spares
  <2>. QED BY <1>3, <2>2 DEF Right, c
<1>4. CASE c.phase # "errored"
  <2>1. Names(q, p, c) BY <1>1, <1>4 DEF Right
  <2>2. Names(q2, p, c) BY <1>1, <2>1 DEF Names, Spares
  <2>. QED BY <1>4, <2>2 DEF Right, c
<1>. QED BY <1>3, <1>4

\* Processes that end, or report, leave a queue fitting.
Kin(c, c2) ==
  /\ c2.task = c.task
  /\ \/ c2.phase = c.phase
     \/ c.phase = "up" /\ c2.phase = "exited"

Fewer(processes, processes2) ==
  \A p \in Pid : processes2[p] # NoChild => processes[p] # NoChild /\ Kin(processes[p], processes2[p])

LEMMA FewerFits ==
  ASSUME NEW q, NEW processes, NEW processes2, Fits(q, processes), Fewer(processes, processes2)
  PROVE  Fits(q, processes2)
BY DEF Fits, Fewer, Kin, Right, Names, Over

LEMMA RightKin ==
  ASSUME NEW q, NEW p, NEW c, NEW c2, Right(q, p, c), Kin(c, c2)
  PROVE  Right(q, p, c2)
BY DEF Kin, Right, Names, Over

-----------------------------------------------------------------------------
(***************************************************************************)
(* What the carry commands will save.                                      *)
(***************************************************************************)
LEMMA WithTaskOK ==
  ASSUME NEW q, QueueType(q), q.nextId <= MaxTasks, NEW record \in Record
  PROVE  QueueType(WithTask(q, record)) /\ Spares(q, WithTask(q, record))
<1> DEFINE n == q.nextId
           f == [q.task EXCEPT ![n] = record]
<1>1. n \in Task /\ n + 1 \in Nat \ {0} /\ n \in Nat
  BY MaxTasksType DEF Task, QueueType
<1>2. n \notin Present(q) BY <1>1 DEF QueueType
<1>3. WithTask(q, record) = [task |-> f, order |-> Append(q.order, n), nextId |-> n + 1,
                             paused |-> q.paused]
  <2>1. WithTask(q, record) = [q EXCEPT !.task = f, !.order = Append(q.order, n), !.nextId = n + 1]
    BY Zenon DEF WithTask
  <2> HIDE DEF f, n
  <2>. QED BY <2>1 DEF QueueType
<1>4. f \in [Task -> Record \union {NoTask}] /\ \A t \in Task \ {n} : f[t] = q.task[t]
  BY <1>1 DEF QueueType
<1>5. \A t \in Task : f[t] # NoTask => t < n + 1
  <2>1. \A t \in Task : q.task[t] # NoTask => t < n /\ t \in Nat
    BY DEF QueueType, Present, Task
  <2>. HIDE DEF f
  <2>. QED BY <1>1, <1>4, <2>1
<1> HIDE DEF n, f
<1>6. QueueType(WithTask(q, record)) BY <1>1, <1>3, <1>4, <1>5, QueueChange
<1>7. q.nextId = n BY DEF n
<1>8. Spares(q, WithTask(q, record))
  <2>1. n <= n + 1 BY <1>1
  <2>2. ASSUME NEW t \in Task, Has(q, t, "running")
        PROVE  f[t] = q.task[t]
    BY <1>2, <1>4, <2>2 DEF Has
  <2>3. ASSUME NEW t \in Task, t < n PROVE f[t] = q.task[t]
    BY <1>1, <1>4, <2>3 DEF Task
  <2>. QED BY <1>3, <1>7, <2>1, <2>2, <2>3 DEF Spares, Has, Present
<1>. QED BY <1>6, <1>8

LEMMA WithoutOK ==
  ASSUME NEW q, QueueType(q), NEW T, \A t \in T \intersect Present(q) : q.task[t].status # "running"
  PROVE  QueueType(Without(q, T)) /\ Spares(q, Without(q, T))
<1> DEFINE f == [t \in Task |-> IF t \in T THEN NoTask ELSE q.task[t]]
           o == Remaining(q.order, T)
<1>1. Without(q, T) = [task |-> f, order |-> o, nextId |-> q.nextId, paused |-> q.paused]
  <2>1. Without(q, T) = [q EXCEPT !.task = f, !.order = o]
    BY Zenon DEF Without
  <2> HIDE DEF f, o
  <2>. QED BY <2>1 DEF QueueType
<1>2. /\ f \in [Task -> Record \union {NoTask}]
      /\ \A t \in Task : f[t] # NoTask => t < q.nextId /\ f[t] = q.task[t]
      /\ \A t \in Task : Has(q, t, "running") => f[t] = q.task[t]
  BY DEF QueueType, Present, Has
<1>3. q.nextId \in Nat \ {0} BY DEF QueueType
<1> HIDE DEF f, o
<1>4. QueueType(Without(q, T)) BY <1>1, <1>2, <1>3, QueueChange
<1>5. Spares(q, Without(q, T)) BY <1>1, <1>2, <1>3 DEF Spares, Has, Present
<1>. QED BY <1>4, <1>5

\* An order and a flag are not looked at.
LEMMA ReorderedOK ==
  ASSUME NEW q, QueueType(q), NEW q2, NEW o, NEW b,
         q2 = [task |-> q.task, order |-> o, nextId |-> q.nextId, paused |-> b]
  PROVE  QueueType(q2) /\ Spares(q, q2)
<1>1. QueueType(q2) BY QueueChange DEF QueueType, Present
<1>2. q.nextId \in Nat BY DEF QueueType
<1>. QED BY <1>1, <1>2 DEF Spares, Has, Present

\* A changed record of a task that does not run and has not failed, or one whose
\* status and lock are as before.
LEMMA UpdatedSpares ==
  ASSUME NEW q, QueueType(q), NEW t \in Present(q), NEW record \in Record,
         \/ q.task[t].status \notin {"running", "failed"}
         \/ record.status = q.task[t].status /\ record.lock = q.task[t].lock
  PROVE  QueueType(Updated(q, t, record)) /\ Spares(q, Updated(q, t, record))
<1> DEFINE q2 == Updated(q, t, record)
<1>1. /\ QueueType(q2) /\ q2.nextId = q.nextId /\ q2.task[t] = record
      /\ \A u \in Task \ {t} : q2.task[u] = q.task[u]
      /\ Present(q2) = Present(q)
  BY UpdatedOK
<1>2. q.nextId \in Nat BY DEF QueueType
<1> HIDE DEF q2
<1>3. Spares(q, q2) BY <1>1, <1>2 DEF Spares, Has
<1>. QED BY <1>1, <1>3 DEF q2

LEMMA CleanedUpOK ==
  ASSUME NEW q, QueueType(q), NEW T \in SUBSET Present(q), NEW all \in BOOLEAN
  PROVE  QueueType(CleanedUp(q, T, all)) /\ Spares(q, CleanedUp(q, T, all))
<1> DEFINE f == [t \in Task |-> IF t \in T THEN [q.task[t] EXCEPT !.worktree = FALSE] ELSE q.task[t]]
           kept == [q EXCEPT !.task = f]
           over == {t \in Present(q) : q.task[t].status \in Finished}
<1>1. kept = [task |-> f, order |-> q.order, nextId |-> q.nextId, paused |-> q.paused]
  <2> HIDE DEF f
  <2>. QED BY DEF QueueType
<1>2. \A t \in T : t \in Task /\ q.task[t] \in Record
  BY DEF Present, QueueType
<1>3. ASSUME NEW t \in T
      PROVE  /\ f[t] \in Record /\ f[t].status = q.task[t].status /\ f[t].lock = q.task[t].lock
  <2>1. f[t] = [q.task[t] EXCEPT !.worktree = FALSE] BY <1>2
  <2>. HIDE DEF f
  <2>. QED BY <1>2, <2>1 DEF Record
<1>4. \A t \in Task \ T : f[t] = q.task[t] OBVIOUS
<1>5. f \in [Task -> Record \union {NoTask}]
  <2>1. \A t \in Task : f[t] \in Record \union {NoTask}
    <3>. HIDE DEF f
    <3>. QED BY <1>3, <1>4 DEF QueueType
  <2>. QED BY <2>1
<1>6. \A t \in Task : (f[t] # NoTask) = (q.task[t] # NoTask)
  <2>. HIDE DEF f
  <2>. QED BY <1>2, <1>3, <1>4, NoTaskIsNoTask
<1>7. q.nextId \in Nat \ {0} BY DEF QueueType
<1>8. QueueType(kept)
  <2>1. \A t \in Task : f[t] # NoTask => t < q.nextId
    <3>. HIDE DEF f
    <3>. QED BY <1>6 DEF QueueType, Present
  <2>. HIDE DEF f, kept
  <2>. QED BY <1>1, <1>5, <1>7, <2>1, QueueChange
<1>9. /\ kept.task = f /\ kept.nextId = q.nextId /\ Present(kept) = Present(q)
      /\ \A t \in Present(q) : f[t].status = q.task[t].status /\ f[t].lock = q.task[t].lock
  <2>. HIDE DEF f
  <2>1. kept.task = f /\ kept.nextId = q.nextId BY <1>1
  <2>. HIDE DEF kept
  <2>. QED BY <1>3, <1>4, <1>6, <2>1 DEF Present
<1> HIDE DEF f, kept
<1>10. Spares(q, kept) BY <1>7, <1>9 DEF Spares, Has
<1>11. QueueType(Without(kept, over)) /\ Spares(kept, Without(kept, over))
  <2>1. \A t \in over \intersect Present(kept) : kept.task[t].status # "running"
    BY <1>9 DEF Finished
  <2>. HIDE DEF over
  <2>. QED BY <1>8, <2>1, WithoutOK
<1>12. Spares(q, Without(kept, over))
  <2>1. Without(kept, over).nextId \in Nat /\ kept.nextId \in Nat
    BY <1>8, <1>11 DEF QueueType
  <2>. HIDE DEF over
  <2>. QED BY <1>7, <1>9, <1>10, <1>11, <2>1 DEF Spares
<1>13. CleanedUp(q, T, all) = IF all THEN Without(kept, over) ELSE kept
  BY DEF CleanedUp, kept, f
<1>. QED BY <1>8, <1>10, <1>11, <1>12, <1>13

-----------------------------------------------------------------------------
(***************************************************************************)
(* Processes and their parents.                                            *)
(***************************************************************************)
\* What a step of a runner that goes on does to the processes.
LEMMA RunnerChildren ==
  ASSUME NEW r \in Runner, OwnerInv, TypeInv, RunnerStep(r), pc'[r] \notin {"dead", "threw"}
  PROVE  \A p \in Pid : child'[p] # NoChild =>
           \/ /\ child[p] # NoChild
              /\ child'[p].parent = child[p].parent /\ child'[p].task = child[p].task
              /\ child'[p].phase = child[p].phase \/ child[p].parent = r
           \/ pc[r] = "spawn" /\ pc'[r] = "loadPid" /\ child'[p].parent = r
<1>. USE DEF Goto, Prepare, Save, Handle, disk, loop, user
<1>0. DOMAIN pc = Runner /\ DOMAIN child = Pid BY DEF OwnerInv, TypeInv
<1>1. CASE TakeLock(r) \/ Reconcile(r) \/ SaveReconciled(r)
  BY <1>1 DEF TakeLock, Reconcile, SaveReconciled
<1>2. CASE Top(r) \/ Fill(r) \/ Exit(r)
  BY <1>0, <1>2 DEF Top, Fill, Exit, End
<1>3. CASE Dispatch(r) \/ SavePark(r) \/ SaveDispatch(r)
  BY <1>0, <1>3 DEF Dispatch, SavePark, Dispatching, SaveDispatch, End, Throw
<1>4. CASE Spawn(r)
  BY <1>0, <1>4 DEF Spawn, Process
<1>5. CASE LoadPid(r) \/ SavePid(r)
  BY <1>0, <1>5 DEF LoadPid, SavePid, Dispatching, End, Throw
<1>6. CASE SaveHeard(r) \/ SaveClosed(r)
  BY <1>6 DEF SaveHeard, SaveClosed
<1>7. CASE Wake(r) \/ Crash(r)
  BY <1>0, <1>7 DEF Wake, Crash, End
<1>8. ASSUME NEW p \in Pid, HearInit(r, p) \/ HearUsage(r, p)
      PROVE  \A i \in Pid : child'[i] # NoChild =>
               /\ child[i] # NoChild
               /\ child'[i].parent = child[i].parent /\ child'[i].task = child[i].task
               /\ child'[i].phase = child[i].phase
  <2>1. child[p] # NoChild /\ child[p] \in Child BY <1>8 DEF HearInit, HearUsage, Hears, TypeInv
  <2>2. child' = child \/ child' = [child EXCEPT ![p].told = TRUE]
    BY <1>0, <1>8 DEF HearInit, HearUsage, End, Throw
  <2>. QED BY <1>0, <2>1, <2>2 DEF Child
<1>9. ASSUME NEW p \in Pid, HearClose(r, p) \/ HearError(r, p)
      PROVE  \A i \in Pid : child'[i] # NoChild =>
               /\ child[i] # NoChild
               /\ child'[i].parent = child[i].parent /\ child'[i].task = child[i].task
               /\ child'[i].phase = child[i].phase \/ child[i].parent = r
  <2>1. child[p] # NoChild /\ child[p] \in Child /\ child[p].parent = r
    BY <1>9 DEF HearClose, HearError, Hears, TypeInv
  <2>2. child' = [child EXCEPT ![p] = NoChild] \/ child' = [child EXCEPT ![p].phase = "errored"]
    BY <1>0, <1>9 DEF HearClose, HearError, End, Throw
  <2>. QED BY <1>0, <2>1, <2>2 DEF Child
<1>. QED BY <1>1, <1>2, <1>3, <1>4, <1>5, <1>6, <1>7, <1>8, <1>9 DEF RunnerStep, Stretch, Hear

\* The processes that outlive a runner.
LEMMA OrphanedOK ==
  ASSUME TypeInv, NEW r \in Runner
  PROVE  /\ DOMAIN Orphaned(r) = Pid /\ Fewer(child, Orphaned(r))
         /\ \A p \in Pid : Orphaned(r)[p] # NoChild =>
              /\ Orphaned(r)[p] \in Child
              /\ Orphaned(r)[p].phase = child[p].phase
              /\ IF child[p].parent = r
                 THEN Orphaned(r)[p].parent = NoRunner /\ child[p].phase = "up"
                 ELSE Orphaned(r)[p] = child[p]
         /\ \A p \in Pid : child[p] # NoChild /\ child[p].parent # r => Orphaned(r)[p] = child[p]
<1>1. DOMAIN Orphaned(r) = Pid BY DEF Orphaned
<1>2. ASSUME NEW p \in Pid, child[p] # NoChild, child[p].parent = r, child[p].phase = "up"
      PROVE  /\ Orphaned(r)[p] = [child[p] EXCEPT !.parent = NoRunner]
             /\ Orphaned(r)[p] \in Child /\ Orphaned(r)[p].parent = NoRunner
             /\ Orphaned(r)[p].phase = "up" /\ Orphaned(r)[p].task = child[p].task
  <2>1. Orphaned(r)[p] = [child[p] EXCEPT !.parent = NoRunner] BY <1>2 DEF Orphaned
  <2>2. child[p] \in Child BY <1>2 DEF TypeInv
  <2>. QED BY <1>2, <2>1, <2>2 DEF Child
<1>3. ASSUME NEW p \in Pid, child[p] = NoChild \/ child[p].parent # r
      PROVE  Orphaned(r)[p] = child[p]
  BY <1>3 DEF Orphaned
<1>4. ASSUME NEW p \in Pid, child[p] # NoChild, child[p].parent = r, child[p].phase # "up"
      PROVE  Orphaned(r)[p] = NoChild
  BY <1>4 DEF Orphaned
<1>5. \A p \in Pid : child[p] # NoChild => child[p] \in Child BY DEF TypeInv
<1>6. Fewer(child, Orphaned(r)) BY <1>2, <1>3, <1>4 DEF Fewer, Kin
<1>. QED BY <1>1, <1>2, <1>3, <1>4, <1>5, <1>6

\* What the user and the machine do to them.
LEMMA OthersChildren ==
  ASSUME TypeInv, User \/ Machine
  PROVE  /\ DOMAIN child' = Pid /\ Fewer(child, child')
         /\ \A p \in Pid : child'[p] # NoChild =>
              /\ child'[p] \in Child /\ child'[p].parent = child[p].parent
              /\ child[p].parent = NoRunner => child'[p].phase = child[p].phase
         /\ \A p \in Pid : child[p] # NoChild /\ child[p].parent # NoRunner => child'[p] # NoChild
<1>0. DOMAIN child = Pid /\ \A p \in Pid : child[p] # NoChild => child[p] \in Child
  BY DEF TypeInv
<1>1. CASE child' = child BY <1>0, <1>1 DEF Fewer, Kin
<1>2. ASSUME NEW p \in Pid, Say(p) \/ Finish(p), child' # child
      PROVE  /\ child' = [child EXCEPT ![p] = child'[p]] /\ child[p] # NoChild
             /\ \/ child'[p] = NoChild /\ child[p].parent = NoRunner
                \/ /\ child'[p] \in Child /\ child'[p].parent = child[p].parent
                   /\ Kin(child[p], child'[p])
                   /\ child[p].parent = NoRunner => child'[p].phase = child[p].phase
  <2>1. child[p] # NoChild /\ child[p] \in Child /\ child[p].phase = "up"
    BY <1>0, <1>2 DEF Say, Finish, Up
  <2>2. CASE Say(p) BY <1>0, <2>1, <2>2 DEF Say, Child, Kin
  <2>3. CASE Finish(p)
    <3>1. child' = [child EXCEPT ![p] = Ended(p)] BY <2>3 DEF Finish
    <3>2. child[p].parent = NoRunner => Ended(p) = NoChild BY DEF Ended
    <3>3. child[p].parent # NoRunner =>
            /\ Ended(p) \in Child /\ Ended(p).parent = child[p].parent
            /\ Ended(p).phase = "exited" /\ Ended(p).task = child[p].task
      BY <2>1 DEF Ended, Child
    <3>. QED BY <1>0, <2>1, <3>1, <3>2, <3>3 DEF Kin
  <2>. QED BY <1>2, <2>2, <2>3
<1>3. CASE \E p \in Pid : Say(p) \/ Finish(p)
  BY <1>0, <1>1, <1>2, <1>3, NoChildIsNoChild DEF Fewer, Kin
<1>4. CASE MarkAndKill
  <2>1. ASSUME NEW p \in Pid
        PROVE  \/ child'[p] = child[p]
               \/ child[p] # NoChild /\ child'[p] = [child[p] EXCEPT !.asked = TRUE]
               \/ child[p] # NoChild /\ child[p].parent = NoRunner /\ child'[p] = NoChild
               \/ /\ child[p] # NoChild /\ child[p].parent # NoRunner /\ child[p].phase = "up"
                  /\ child'[p] = [child[p] EXCEPT !.phase = "exited", !.asked = TRUE]
    BY <1>4 DEF MarkAndKill, PidAlive, Up
  <2>2. DOMAIN child' = Pid BY <1>4 DEF MarkAndKill
  <2>3. ASSUME NEW p \in Pid, child[p] # NoChild
        PROVE  \/ child'[p] = NoChild /\ child[p].parent = NoRunner
               \/ /\ child'[p] \in Child /\ child'[p].parent = child[p].parent
                  /\ Kin(child[p], child'[p])
                  /\ child[p].parent = NoRunner => child'[p].phase = child[p].phase
    <3>1. child[p] \in Child BY <1>0, <2>3
    <3>. QED BY <2>1, <2>3, <3>1 DEF Child, Kin
  <2>4. \A p \in Pid : child[p] = NoChild => child'[p] = NoChild BY <2>1
  <2>. QED BY <2>2, <2>3, <2>4, NoChildIsNoChild DEF Fewer, Kin
<1>5. CASE User /\ ~MarkAndKill
  <2>1. child' = child
    BY <1>5 DEF User, Add, Adopt, Rm, Approve, Stop, Move, Pause, Cleanup, CleanupOf, RemoveTrees,
       SaveCommand, WillSave
  <2>. QED BY <1>1, <2>1
<1>6. CASE Machine
  BY <1>1, <1>3, <1>6 DEF Machine, UserCheckout, Tick
<1>. QED BY <1>4, <1>5, <1>6

LEMMA ParentStep ==
  ASSUME OwnerInv, TypeInv, ParentInv, [Next]_vars PROVE ParentInv'
<1>0. DOMAIN pc = Runner /\ \A p \in Pid : child[p] # NoChild => child[p].parent \in Runner \union {NoRunner}
  BY DEF OwnerInv, TypeInv, Child
<1>1. CASE UNCHANGED <<pc, child>> BY <1>1 DEF ParentInv, Childless
<1>2. ASSUME NEW r \in Runner, RunnerStep(r) PROVE ParentInv'
  <2>1. /\ pc' = [pc EXCEPT ![r] = pc'[r]] /\ pc[r] \notin {"unborn", "dead", "threw"}
        /\ pc'[r] \notin {"unborn", "lock"}
        /\ pc'[r] \in {"reconcile", "saveReconciled"} => pc[r] \in {"lock", "reconcile"}
        /\ pc'[r] \in {"dead", "threw"} => child' = Orphaned(r)
    BY <1>0, <1>2, RunnerMoves
  <2>2. CASE pc'[r] \in {"dead", "threw"}
    <3>. SUFFICES ASSUME NEW p \in Pid, child'[p] # NoChild
                  PROVE  IF child'[p].parent = NoRunner THEN child'[p].phase = "up"
                         ELSE pc'[child'[p].parent] \notin Childless
      BY DEF ParentInv
    <3>1. child' = Orphaned(r) BY <2>1, <2>2
    <3>2. child[p] # NoChild BY <3>1, OrphanedOK DEF Fewer
    <3>3. CASE child[p].parent = r
      BY <3>1, <3>3, OrphanedOK
    <3>4. CASE child[p].parent # r
      <4>1. child'[p] = child[p] BY <3>1, <3>2, <3>4, OrphanedOK
      <4>. QED BY <1>0, <2>1, <3>2, <3>4, <4>1 DEF ParentInv, Childless
    <3>. QED BY <3>3, <3>4
  <2>3. CASE pc'[r] \notin {"dead", "threw"}
    <3>. SUFFICES ASSUME NEW p \in Pid, child'[p] # NoChild
                  PROVE  IF child'[p].parent = NoRunner THEN child'[p].phase = "up"
                         ELSE pc'[child'[p].parent] \notin Childless
      BY DEF ParentInv
    <3>1. CASE pc[r] = "spawn" /\ pc'[r] = "loadPid" /\ child'[p].parent = r
      BY <3>1, NoRunnerIsNoRunner DEF Childless
    <3>2. CASE /\ child[p] # NoChild
               /\ child'[p].parent = child[p].parent
               /\ child'[p].phase = child[p].phase \/ child[p].parent = r
      BY <1>0, <2>1, <2>3, <3>2, NoRunnerIsNoRunner DEF ParentInv, Childless
    <3>. QED BY <1>2, <2>3, <3>1, <3>2, RunnerChildren
  <2>. QED BY <2>2, <2>3
<1>3. ASSUME NEW r \in Runner, NEW m \in Mode, Start(r, m) PROVE ParentInv'
  <2>1. pc' = [pc EXCEPT ![r] = pc'[r]] /\ child' = child /\ pc[r] = "unborn"
    BY <1>0, <1>3 DEF Start, Goto
  <2>. QED BY <1>0, <2>1 DEF ParentInv, Childless
<1>4. CASE User \/ Machine
  <2>1. pc' = pc BY <1>4, UserMoves, MachineMoves
  <2>2. Fewer(child, child') /\ \A p \in Pid : child'[p] # NoChild =>
              /\ child'[p].parent = child[p].parent
              /\ child[p].parent = NoRunner => child'[p].phase = child[p].phase
    BY <1>4, OthersChildren
  <2>. QED BY <2>1, <2>2 DEF ParentInv, Childless, Fewer
<1>. QED BY <1>1, <1>2, <1>3, <1>4 DEF Next, RunnerStep, vars

-----------------------------------------------------------------------------
(***************************************************************************)
(* Types.                                                                  *)
(***************************************************************************)
\* A runner touches its own copy and target, and the queue only to save.
LEMMA RunnerFrame ==
  ASSUME NEW r \in Runner, TypeInv, RunnerStep(r)
  PROVE  /\ now' = now
         /\ queue' = queue \/ (pc[r] \in Saving /\ queue' = snap[r])
         /\ DOMAIN snap' = Runner /\ DOMAIN target' = Runner
         /\ \A s \in Runner \ {r} : snap'[s] = snap[s] /\ target'[s] = target[s]
         /\ target'[r] = [task |-> target'[r].task, pid |-> target'[r].pid]
<1>. USE DEF Goto, Prepare, Save, Handle, End, Throw, NoTarget, Saving, disk, loop, user
<1>0. /\ DOMAIN snap = Runner /\ DOMAIN target = Runner
      /\ target[r] = [task |-> target[r].task, pid |-> target[r].pid]
  BY DEF TypeInv
<1>1. CASE TakeLock(r) \/ Reconcile(r) \/ SaveReconciled(r)
  BY <1>0, <1>1 DEF TakeLock, Reconcile, SaveReconciled
<1>2. CASE Top(r) \/ Exit(r)
  BY <1>0, <1>2 DEF Top, Exit
<1>3. CASE Fill(r)
  <2>1. now' = now /\ queue' = queue /\ snap' = snap
        /\ (target' = target \/ \E t : target' = [target EXCEPT ![r].task = t])
    BY <1>3 DEF Fill
  <2>. QED BY <1>0, <2>1
<1>4. CASE Dispatch(r) \/ SavePark(r) \/ SaveDispatch(r)
  BY <1>0, <1>4 DEF Dispatch, SavePark, Dispatching, SaveDispatch
<1>5. CASE Spawn(r)
  <2>1. now' = now /\ queue' = queue /\ snap' = snap
        /\ \E p \in Pid : target' = [target EXCEPT ![r].pid = p]
    BY <1>5 DEF Spawn
  <2>. QED BY <1>0, <2>1
<1>6. CASE LoadPid(r) \/ SavePid(r)
  BY <1>0, <1>6 DEF LoadPid, SavePid, Dispatching
<1>7. CASE SaveHeard(r) \/ SaveClosed(r)
  BY <1>0, <1>7 DEF SaveHeard, SaveClosed
<1>8. CASE Wake(r) \/ Crash(r)
  BY <1>0, <1>8 DEF Wake, Crash
<1>9. ASSUME NEW p \in Pid, HearInit(r, p) \/ HearUsage(r, p)
      PROVE  /\ now' = now /\ queue' = queue
             /\ DOMAIN snap' = Runner /\ DOMAIN target' = Runner
             /\ \A s \in Runner \ {r} : snap'[s] = snap[s] /\ target'[s] = target[s]
             /\ target'[r] = [task |-> target'[r].task, pid |-> target'[r].pid]
  BY <1>0, <1>9 DEF HearInit, HearUsage
<1>10. ASSUME NEW p \in Pid, HearClose(r, p) \/ HearError(r, p)
      PROVE  /\ now' = now /\ queue' = queue
             /\ DOMAIN snap' = Runner /\ DOMAIN target' = Runner
             /\ \A s \in Runner \ {r} : snap'[s] = snap[s] /\ target'[s] = target[s]
             /\ target'[r] = [task |-> target'[r].task, pid |-> target'[r].pid]
  BY <1>0, <1>10 DEF HearClose, HearError
<1>. QED BY <1>1, <1>2, <1>3, <1>4, <1>5, <1>6, <1>7, <1>8, <1>9, <1>10 DEF RunnerStep, Stretch, Hear

LEMMA ProcessType ==
  ASSUME NEW r \in Runner, NEW t \in Task, NEW record \in Record, NEW phase \in {"up", "unspawned"}
  PROVE  Process(r, t, record, phase) \in Child
<1>1. record.plan \in BOOLEAN /\ record.session \in BOOLEAN BY DEF Record
<1>. QED BY <1>1 DEF Process, Child, Resumes

\* What a runner makes of the processes.
LEMMA RunnerChildType ==
  ASSUME NEW r \in Runner, TypeInv, RunnerStep(r),
         pc[r] = "spawn" => target[r].task \in Task /\ snap[r].task[target[r].task] \in Record
  PROVE  DOMAIN child' = Pid /\ \A p \in Pid : child'[p] # NoChild => child'[p] \in Child
<1>. USE DEF Goto, Prepare, Save, Handle, disk, loop, user
<1>0. DOMAIN child = Pid /\ \A p \in Pid : child[p] # NoChild => child[p] \in Child
  BY DEF TypeInv
<1>1. CASE child' = child BY <1>0, <1>1
<1>2. CASE child' = Orphaned(r) BY <1>2, OrphanedOK
<1>3. CASE Spawn(r)
  <2> DEFINE t == target[r].task
             record == snap[r].task[t]
  <2>1. PICK p \in Pid, phase \in {"up", "unspawned"} :
          child' = [child EXCEPT ![p] = Process(r, t, record, phase)]
    BY <1>3 DEF Spawn
  <2>2. t \in Task /\ record \in Record BY <1>3 DEF Spawn
  <2>3. Process(r, t, record, phase) \in Child
    <3>. HIDE DEF record, t
    <3>. QED BY <2>2, ProcessType
  <2>. HIDE DEF record, t
  <2>. QED BY <1>0, <2>1, <2>3
<1>4. ASSUME NEW p \in Pid, Hear(r, p)
      PROVE  DOMAIN child' = Pid /\ \A i \in Pid : child'[i] # NoChild => child'[i] \in Child
  <2>1. child[p] # NoChild /\ child[p] \in Child
    BY <1>0, <1>4 DEF Hear, HearInit, HearUsage, HearClose, HearError, Hears
  <2>2. \/ child' = child \/ child' = Orphaned(r)
        \/ child' = [child EXCEPT ![p].told = TRUE]
        \/ child' = [child EXCEPT ![p] = NoChild]
        \/ child' = [child EXCEPT ![p].phase = "errored"]
    BY <1>4 DEF Hear, HearInit, HearUsage, HearClose, HearError, End, Throw
  <2>3. [child[p] EXCEPT !.told = TRUE] \in Child /\ [child[p] EXCEPT !.phase = "errored"] \in Child
    BY <2>1 DEF Child
  <2>. QED BY <1>0, <1>1, <1>2, <2>2, <2>3
<1>5. CASE RunnerStep(r) /\ ~Spawn(r) /\ ~\E p \in Pid : Hear(r, p)
  <2>1. child' = child \/ child' = Orphaned(r)
    BY <1>5 DEF RunnerStep, Stretch, TakeLock, Reconcile, SaveReconciled, Top, Fill, Exit, Dispatch,
       SavePark, Dispatching, SaveDispatch, LoadPid, SavePid, SaveHeard, SaveClosed, Wake, Crash, End, Throw
  <2>. QED BY <1>1, <1>2, <2>1
<1>. QED BY <1>3, <1>4, <1>5

\* HEAD is on a branch of a task, on the user's or on none.
LEMMA HeadStep ==
  ASSUME TypeInv, [Next]_vars PROVE head' \in [Project -> Branch]
<1>0. head \in [Project -> Branch] /\ QueueType(queue) /\ \A p \in Pid : child[p] # NoChild => child[p] \in Child
  BY DEF TypeInv
<1>1. CASE head' = head BY <1>0, <1>1
<1>2. ASSUME NEW t \in Present(queue) PROVE Finalized(t, queue.task[t]) \in [Project -> Branch]
  <2>1. t \in Task /\ queue.task[t] \in Record BY <1>0 DEF Present, QueueType
  <2>2. queue.task[t].base \in Branch \union {NoBranch} BY <2>1 DEF Record, Branch
  <2>. QED BY <1>0, <2>2 DEF Finalized
<1>3. ASSUME NEW r \in Runner, NEW p \in Pid, Hear(r, p) PROVE head' \in [Project -> Branch]
  <2>1. child[p].task \in Task BY <1>0, <1>3 DEF Hear, HearInit, HearUsage, HearClose, HearError, Hears, Child
  <2>2. \/ head' = head
        \/ ~Gone(p) /\ head' = Finalized(child[p].task, queue.task[child[p].task])
    BY <1>3 DEF Hear, HearInit, HearUsage, HearClose, HearError, Throw, disk
  <2>. QED BY <1>1, <1>2, <2>1, <2>2 DEF Gone
<1>4. ASSUME NEW r \in Runner, Dispatch(r) PROVE head' \in [Project -> Branch]
  <2>1. \/ head' = head
        \/ target[r].task \in Present(queue) /\ head' = [head EXCEPT ![Cwd[target[r].task]] = target[r].task]
    BY <1>4 DEF Dispatch, Throw, disk
  <2>. QED BY <1>0, <2>1 DEF Present, Branch
<1>5. ASSUME NEW c \in Project, UserCheckout(c) PROVE head' \in [Project -> Branch]
  BY <1>0, <1>5 DEF UserCheckout, Branch
<1>6. ASSUME NEW r \in Runner, Stretch(r) \/ Wake(r) \/ Crash(r), ~Dispatch(r) PROVE head' = head
  BY <1>6 DEF Stretch, TakeLock, Reconcile, SaveReconciled, Top, Fill, Exit, SavePark, Dispatching, SaveDispatch,
     Spawn, LoadPid, SavePid, SaveHeard, SaveClosed, Wake, Crash, Throw, disk
<1>7. ASSUME NEW r \in Runner, NEW m \in Mode, Start(r, m) PROVE head' = head
  BY <1>7 DEF Start, disk
<1>8. CASE User
  BY <1>1, <1>8 DEF User, Add, Adopt, Rm, Approve, Stop, Move, Pause, Cleanup, CleanupOf, RemoveTrees,
     MarkAndKill, SaveCommand, WillSave, disk
<1>9. CASE Machine /\ ~\E c \in Project : UserCheckout(c)
  BY <1>1, <1>9 DEF Machine, Say, Finish, Tick, disk
<1>. QED BY <1>1, <1>3, <1>4, <1>5, <1>6, <1>7, <1>8, <1>9 DEF Next, Machine, vars, disk

LEMMA TypeStep ==
  ASSUME RunnerInv, [Next]_vars PROVE TypeInv'
<1>0. OwnerInv /\ TypeInv /\ CommandInv /\ (\A r \in Runner : RunnerOK(r))
      /\ head' \in [Project -> Branch]
  BY HeadStep DEF RunnerInv
<1>1. CASE UNCHANGED vars BY <1>0, <1>1 DEF TypeInv, vars, disk
<1>2. ASSUME NEW r \in Runner, RunnerStep(r) PROVE TypeInv'
  <2>1. QueueType(queue')
    <3>1. pc[r] \in Saving => QueueType(snap[r]) BY <1>0 DEF RunnerOK, Fits
    <3>. QED BY <1>0, <1>2, <3>1, RunnerFrame DEF TypeInv
  <2>2. DOMAIN child' = Pid /\ \A p \in Pid : child'[p] # NoChild => child'[p] \in Child
    <3>1. pc[r] = "spawn" => target[r].task \in Task /\ snap[r].task[target[r].task] \in Record
      <4>1. RunnerOK(r) /\ QueueType(queue) BY <1>0 DEF TypeInv
      <4>2. pc[r] = "spawn" => target[r].task \in Present(queue) /\ snap[r] = queue
        BY <4>1 DEF RunnerOK, Locked, Has
      <4>. QED BY <4>1, <4>2 DEF Present, QueueType
    <3>. QED BY <1>0, <1>2, <3>1, RunnerChildType
  <2>3. /\ now' = now
        /\ DOMAIN snap' = Runner /\ DOMAIN target' = Runner
        /\ \A s \in Runner \ {r} : snap'[s] = snap[s] /\ target'[s] = target[s]
        /\ target'[r] = [task |-> target'[r].task, pid |-> target'[r].pid]
    BY <1>0, <1>2, RunnerFrame
  <2>. QED BY <1>0, <2>1, <2>2, <2>3 DEF TypeInv
<1>3. ASSUME NEW r \in Runner, NEW m \in Mode, Start(r, m) PROVE TypeInv'
  BY <1>0, <1>3 DEF TypeInv, Start, disk
<1>4. CASE User \/ Machine
  <2>1. QueueType(queue')
    <3>1. queue' = queue \/ SaveCommand
      BY <1>4, MachineMoves DEF User, Add, Adopt, Rm, Approve, Stop, Move, Pause, Cleanup, CleanupOf,
         RemoveTrees, MarkAndKill, WillSave, disk
    <3>2. SaveCommand => QueueType(queue') BY <1>0 DEF SaveCommand, CommandInv, Fits
    <3>. QED BY <1>0, <3>1, <3>2 DEF TypeInv
  <2>2. now' \in Nat
    <3>1. User => now' = now BY UserMoves
    <3>2. Machine => now' = now \/ now' = now + 1
      BY DEF Machine, Say, Finish, UserCheckout, Tick
    <3>. QED BY <1>0, <1>4, <3>1, <3>2 DEF TypeInv
  <2>3. UNCHANGED <<snap, target>> BY <1>4, UserMoves, MachineMoves DEF Machine, Say, Finish, UserCheckout, Tick
  <2>4. DOMAIN child' = Pid /\ \A p \in Pid : child'[p] # NoChild => child'[p] \in Child
    BY <1>0, <1>4, OthersChildren
  <2>. QED BY <1>0, <2>1, <2>2, <2>3, <2>4 DEF TypeInv
<1>. QED BY <1>1, <1>2, <1>3, <1>4 DEF Next, RunnerStep

-----------------------------------------------------------------------------
(***************************************************************************)
(* The queue and the processes.                                            *)
(***************************************************************************)
\* Places where a runner has nothing in hand.
Free == Asleep \union {"lock", "reconcile", "top", "fill", "exit"}

LEMMA FreeOK ==
  ASSUME NEW r \in Runner, pc[r] \in Free PROVE RunnerOK(r)
BY DEF Free, Asleep, RunnerOK, Saving

\* With nothing in hand, the queue on disk fits the processes.
LEMMA DiskFits ==
  ASSUME DiskInv, TypeInv, \A r \in Runner : pc[r] \notin {"loadPid", "savePid", "saveClosed"}
  PROVE  Fits(queue, child)
BY DEF DiskInv, TypeInv, Fits, InHand

LEMMA FitsDisk ==
  ASSUME Fits(queue, child) PROVE DiskInv
BY DEF DiskInv, Fits

LEMMA FewerUnique ==
  ASSUME UniqueInv, Fewer(child, child') PROVE UniqueInv'
BY DEF UniqueInv, Fewer, Kin

\* The end of a runner.
LEMMA EndStep ==
  ASSUME RunnerInv, NEW r \in Runner, pc' = [pc EXCEPT ![r] = pc'[r]], pc'[r] \in {"dead", "threw"},
         pc[r] \notin {"loadPid", "savePid"},
         child' = Orphaned(r), queue' = queue, command' = command,
         \A s \in Runner \ {r} : snap'[s] = snap[s] /\ target'[s] = target[s]
  PROVE  UniqueInv' /\ DiskInv' /\ CommandInv' /\ \A s \in Runner : RunnerOK(s)'
<1>0. TypeInv /\ UniqueInv /\ DiskInv /\ CommandInv /\ DOMAIN pc = Runner /\ \A s \in Runner : RunnerOK(s)
  BY DEF RunnerInv, OwnerInv
<1>1. Fewer(child, child') BY <1>0, OrphanedOK
<1>2. UniqueInv' BY <1>0, <1>1, FewerUnique
<1>3. DiskInv'
  <2>. SUFFICES ASSUME NEW p \in Pid, child'[p] # NoChild
                PROVE  Right(queue', p, child'[p]) \/ \E s \in Runner : InHand(s, p)'
    BY DEF DiskInv
  <2>1. child[p] # NoChild /\ Kin(child[p], child'[p]) BY <1>1 DEF Fewer
  <2>2. CASE Right(queue, p, child[p]) BY <2>1, <2>2, RightKin
  <2>3. ASSUME NEW s \in Runner, InHand(s, p) PROVE InHand(s, p)'
    <3>1. s # r
      <4>. SUFFICES ASSUME s = r PROVE FALSE OBVIOUS
      <4>1. pc[r] = "saveClosed" /\ target[r].pid = p BY <2>3 DEF InHand
      <4>2. child[p].parent = r /\ child[p].phase = "errored" BY <1>0, <2>1, <4>1 DEF RunnerOK
      <4>. QED BY <1>0, <4>2, OrphanedOK
    <3>. QED BY <1>0, <2>3, <3>1 DEF InHand
  <2>. QED BY <1>0, <2>1, <2>2, <2>3 DEF DiskInv
<1>4. CommandInv' BY <1>0, <1>1, FewerFits DEF CommandInv
<1>5. ASSUME NEW s \in Runner PROVE RunnerOK(s)'
  <2>1. CASE s = r BY <1>0, <2>1 DEF RunnerOK, Saving
  <2>2. CASE s # r
    <3>1. pc'[s] = pc[s] /\ snap'[s] = snap[s] /\ target'[s] = target[s] BY <1>0, <2>2
    <3>2. Fits(snap[s], child) => Fits(snap'[s], child') BY <1>1, <3>1, FewerFits
    <3>3. \A p \in Pid : child[p] # NoChild /\ child[p].parent = s => child'[p] = child[p]
      BY <1>0, <2>2, OrphanedOK
    <3>4. \A p \in Pid : child'[p] # NoChild => child[p] # NoChild /\ Kin(child[p], child'[p])
      BY <1>1 DEF Fewer
    <3>5. RunnerOK(s) BY <1>0
    <3>. QED BY <3>1, <3>2, <3>3, <3>4, <3>5 DEF RunnerOK, Kin
  <2>. QED BY <2>1, <2>2
<1>. QED BY <1>2, <1>3, <1>4, <1>5

\* The machine goes on.
LEMMA MachineStep ==
  ASSUME RunnerInv, Machine
  PROVE  UniqueInv' /\ DiskInv' /\ CommandInv' /\ \A s \in Runner : RunnerOK(s)'
<1>0. TypeInv /\ UniqueInv /\ DiskInv /\ CommandInv /\ \A s \in Runner : RunnerOK(s)
  BY DEF RunnerInv
<1>1. /\ Fewer(child, child')
      /\ \A p \in Pid : child'[p] # NoChild => child'[p].parent = child[p].parent
      /\ \A p \in Pid : child[p] # NoChild /\ child[p].parent # NoRunner => child'[p] # NoChild
  BY <1>0, OthersChildren
<1>2. UNCHANGED <<pc, snap, target, command, queue>> BY MachineMoves DEF Machine, Say, Finish, UserCheckout, Tick
<1>3. UniqueInv' BY <1>0, <1>1, FewerUnique
<1>4. DiskInv'
  <2>. SUFFICES ASSUME NEW p \in Pid, child'[p] # NoChild
                PROVE  Right(queue', p, child'[p]) \/ \E s \in Runner : InHand(s, p)'
    BY DEF DiskInv
  <2>1. child[p] # NoChild /\ Kin(child[p], child'[p]) BY <1>1 DEF Fewer
  <2>2. Right(queue, p, child[p]) => Right(queue, p, child'[p]) BY <2>1, RightKin
  <2>. QED BY <1>0, <1>2, <2>1, <2>2 DEF DiskInv, InHand
<1>5. CommandInv' BY <1>0, <1>1, <1>2, FewerFits DEF CommandInv
<1>6. ASSUME NEW s \in Runner PROVE RunnerOK(s)'
  <2>1. Fits(snap[s], child) => Fits(snap'[s], child') BY <1>1, <1>2, FewerFits
  <2>2. \A p \in Pid : child'[p] # NoChild => child[p] # NoChild /\ Kin(child[p], child'[p])
    BY <1>1 DEF Fewer
  <2>3. RunnerOK(s) /\ s # NoRunner BY <1>0, NoRunnerIsNoRunner
  <2>. QED BY <1>1, <1>2, <2>1, <2>2, <2>3 DEF RunnerOK, Kin
<1>. QED BY <1>3, <1>4, <1>5, <1>6

\* What a command of the user will save keeps what runs running.
LEMMA CommandsSpare ==
  ASSUME TypeInv, User, ~SaveCommand, ~MarkAndKill
  PROVE  /\ queue' = queue /\ child' = child /\ MayEnter
         /\ \/ \E t \in Task : Stop(t)
            \/ \E q2 : /\ command' = [does |-> "save", queue |-> q2]
                       /\ QueueType(q2) /\ Spares(queue, q2)
<1>. USE DEF WillSave, MayType
<1>0. QueueType(queue) /\ now \in Nat BY DEF TypeInv
<1>1. CASE Add
  <2>1. PICK plan \in BOOLEAN : WillSave(WithTask(queue, Fresh(plan)))
    BY <1>1 DEF Add
  <2>2. Fresh(plan) \in Record
    BY DEF Fresh, Record, Status
  <2>3. QueueType(WithTask(queue, Fresh(plan))) /\ Spares(queue, WithTask(queue, Fresh(plan)))
    BY <1>0, <1>1, <2>2, WithTaskOK DEF Add
  <2>. QED BY <1>1, <2>1, <2>3 DEF Add
<1>2. CASE Adopt
  <2> DEFINE record == [Fresh(FALSE) EXCEPT !.session = TRUE, !.status = "waiting", !.resume = now + 1]
  <2>1. record \in Record
    <3>1. Fresh(FALSE) \in Record /\ "waiting" \in Status /\ now + 1 \in Nat
      BY <1>0 DEF Fresh, Record, Status
    <3>. QED BY <3>1 DEF Record
  <2>2. QueueType(WithTask(queue, record)) /\ Spares(queue, WithTask(queue, record))
    <3>. HIDE DEF record
    <3>. QED BY <1>0, <1>2, <2>1, WithTaskOK DEF Adopt
  <2>3. WillSave(WithTask(queue, record)) /\ MayEnter BY <1>2 DEF Adopt
  <2>. HIDE DEF record
  <2>. QED BY <2>2, <2>3
<1>3. ASSUME NEW t \in Task, Rm(t)
      PROVE  \E q2 : /\ queue' = queue /\ child' = child /\ MayEnter
                     /\ command' = [does |-> "save", queue |-> q2]
                     /\ QueueType(q2) /\ Spares(queue, q2)
  <2>1. \A u \in {t} \intersect Present(queue) : queue.task[u].status # "running"
    BY <1>3 DEF Rm, Removable
  <2>2. QueueType(Without(queue, {t})) /\ Spares(queue, Without(queue, {t}))
    BY <1>0, <2>1, WithoutOK
  <2>. QED BY <1>3, <2>2 DEF Rm
<1>4. ASSUME NEW t \in Task, Approve(t)
      PROVE  \E q2 : /\ queue' = queue /\ child' = child /\ MayEnter
                     /\ command' = [does |-> "save", queue |-> q2]
                     /\ QueueType(q2) /\ Spares(queue, q2)
  <2> DEFINE record == [queue.task[t] EXCEPT !.status = "pending", !.plan = FALSE]
  <2>1. t \in Present(queue) /\ queue.task[t].status = "needs-approval" /\ queue.task[t] \in Record
    BY <1>0, <1>4 DEF Approve, Has, Present, QueueType
  <2>2. record \in Record
    BY <2>1 DEF Record, Status
  <2>3. QueueType(Updated(queue, t, record)) /\ Spares(queue, Updated(queue, t, record))
    <3>. HIDE DEF record
    <3>. QED BY <1>0, <2>1, <2>2, UpdatedSpares
  <2>4. WillSave(Updated(queue, t, record)) /\ MayEnter BY <1>4 DEF Approve
  <2>. HIDE DEF record
  <2>. QED BY <2>3, <2>4
<1>5. ASSUME NEW i, NEW where, Move(i, where)
      PROVE  \E q2 : /\ queue' = queue /\ child' = child /\ MayEnter
                     /\ command' = [does |-> "save", queue |-> q2]
                     /\ QueueType(q2) /\ Spares(queue, q2)
  <2> DEFINE o == InsertAt(RemoveAt(queue.order, i), Place(queue.order, i, where), queue.order[i])
  <2>1. Moved(queue, i, where) = [queue EXCEPT !.order = o] BY Zenon DEF Moved
  <2>2. WillSave(Moved(queue, i, where)) /\ MayEnter BY <1>5 DEF Move
  <2>. HIDE DEF o
  <2>3. Moved(queue, i, where) =
          [task |-> queue.task, order |-> o, nextId |-> queue.nextId, paused |-> queue.paused]
    BY <1>0, <2>1 DEF QueueType
  <2>4. QueueType(Moved(queue, i, where)) /\ Spares(queue, Moved(queue, i, where))
    BY <1>0, <2>3, ReorderedOK
  <2>. QED BY <2>2, <2>4
<1>6. ASSUME NEW on, Pause(on)
      PROVE  \E q2 : /\ queue' = queue /\ child' = child /\ MayEnter
                     /\ command' = [does |-> "save", queue |-> q2]
                     /\ QueueType(q2) /\ Spares(queue, q2)
  <2> DEFINE q2 == [queue EXCEPT !.paused = on]
  <2>1. q2 = [task |-> queue.task, order |-> queue.order, nextId |-> queue.nextId, paused |-> on]
    BY <1>0 DEF QueueType
  <2>2. WillSave(q2) /\ MayEnter BY <1>6 DEF Pause
  <2>. HIDE DEF q2
  <2>3. QueueType(q2) /\ Spares(queue, q2) BY <1>0, <2>1, ReorderedOK
  <2>. QED BY <2>2, <2>3
<1>7. ASSUME NEW T \in SUBSET Present(queue), NEW all \in BOOLEAN, RemoveTrees(T, all), MayEnter
      PROVE  \E q2 : /\ queue' = queue /\ child' = child /\ MayEnter
                     /\ command' = [does |-> "save", queue |-> q2]
                     /\ QueueType(q2) /\ Spares(queue, q2)
  BY <1>0, <1>7, CleanedUpOK DEF RemoveTrees
<1>8. ASSUME NEW all \in BOOLEAN, Cleanup(all)
      PROVE  MayEnter /\ \E T \in SUBSET Present(queue) : RemoveTrees(T, all)
  BY <1>8 DEF Cleanup, Cleanable
<1>9. ASSUME NEW t \in Task, NEW all \in BOOLEAN, CleanupOf(t, all)
      PROVE  MayEnter /\ \E T \in SUBSET Present(queue) : RemoveTrees(T, all)
  BY <1>9 DEF CleanupOf
<1>10. ASSUME NEW t \in Task, Stop(t) PROVE queue' = queue /\ child' = child /\ MayEnter
  BY <1>10 DEF Stop, disk
<1>. HIDE DEF WillSave, MayType
<1>11. CASE \E all \in BOOLEAN : Cleanup(all) \/ \E t \in Task : CleanupOf(t, all)
  BY <1>7, <1>8, <1>9, <1>11
<1>. QED BY <1>1, <1>2, <1>3, <1>4, <1>5, <1>6, <1>10, <1>11 DEF User

LEMMA UserStep ==
  ASSUME ~Overlapping, RunnerInv, User
  PROVE  UniqueInv' /\ DiskInv' /\ CommandInv' /\ \A s \in Runner : RunnerOK(s)'
<1>0. TypeInv /\ UniqueInv /\ DiskInv /\ CommandInv /\ TurnInv BY DEF RunnerInv
<1>1. \A s \in Runner : pc[s] \in Asleep /\ pc'[s] = pc[s]
  <2>1. MayEnter => \A s \in Runner : pc[s] \in Asleep BY DEF MayEnter, Quiet
  <2>2. SaveCommand \/ MarkAndKill => command # NoCommand BY DEF SaveCommand, MarkAndKill
  <2>. QED BY <1>0, <2>1, <2>2, UserMoves, CommandsSpare DEF TurnInv
<1>2. \A s \in Runner : RunnerOK(s)'
  <2>. SUFFICES ASSUME NEW s \in Runner PROVE RunnerOK(s)' OBVIOUS
  <2>1. pc'[s] \in Asleep BY <1>1
  <2>. QED BY <2>1 DEF RunnerOK, Asleep, Saving
<1>3. Fits(queue, child)
  <2>1. \A r \in Runner : pc[r] \notin {"loadPid", "savePid", "saveClosed"} BY <1>1 DEF Asleep
  <2>. QED BY <1>0, <2>1, DiskFits
<1>4. Fewer(child, child') BY <1>0, OthersChildren
<1>5. UniqueInv' BY <1>0, <1>4, FewerUnique
<1>6. CASE SaveCommand
  <2>1. queue' = command.queue /\ child' = child /\ command' = NoCommand /\ Fits(command.queue, child)
    BY <1>0, <1>6 DEF SaveCommand, CommandInv
  <2>2. Fits(queue', child') BY <2>1
  <2>3. DiskInv' BY <2>2 DEF DiskInv, Fits
  <2>4. CommandInv' BY <2>1 DEF CommandInv
  <2>. QED BY <1>2, <1>5, <2>3, <2>4
<1>7. CASE MarkAndKill
  <2>1. queue' = queue /\ command' = NoCommand BY <1>7 DEF MarkAndKill
  <2>2. Fits(queue', child') BY <1>3, <1>4, <2>1, FewerFits
  <2>3. DiskInv' BY <2>2 DEF DiskInv, Fits
  <2>4. CommandInv' BY <2>1 DEF CommandInv
  <2>. QED BY <1>2, <1>5, <2>3, <2>4
<1>8. CASE ~SaveCommand /\ ~MarkAndKill
  <2>1. /\ queue' = queue /\ child' = child
        /\ \/ \E t \in Task : Stop(t)
           \/ \E q2 : /\ command' = [does |-> "save", queue |-> q2]
                      /\ QueueType(q2) /\ Spares(queue, q2)
    BY <1>0, <1>8, CommandsSpare
  <2>2. DiskInv' BY <1>3, <2>1 DEF DiskInv, Fits
  <2>3. CASE \E t \in Task : Stop(t)
    <3>1. command'.does = "stop" BY <2>3 DEF Stop
    <3>2. CommandInv' BY <3>1 DEF CommandInv
    <3>. QED BY <1>2, <1>5, <2>2, <3>2
  <2>4. ASSUME NEW q2, command' = [does |-> "save", queue |-> q2], QueueType(q2), Spares(queue, q2)
        PROVE  CommandInv'
    <3>1. \A p \in Pid : child[p] # NoChild => child[p] \in Child BY <1>0 DEF TypeInv
    <3>2. Fits(q2, child) BY <1>3, <2>4, <3>1, SparesFits
    <3>3. command'.queue = q2 BY <2>4
    <3>. QED BY <2>1, <3>2, <3>3 DEF CommandInv
  <2>. QED BY <1>2, <1>5, <2>1, <2>2, <2>3, <2>4
<1>. QED BY <1>6, <1>7, <1>8
-----------------------------------------------------------------------------
(***************************************************************************)
(* The steps of a runner that lives on.                                    *)
(***************************************************************************)
\* It is the only one at work.
LEMMA Solo ==
  ASSUME ~Overlapping, RunnerInv, NEW r \in Runner, RunnerStep(r), pc'[r] \notin {"dead", "threw"}
  PROVE  /\ pc' = [pc EXCEPT ![r] = pc'[r]] /\ DOMAIN pc = Runner
         /\ \A s \in Runner \ {r} : pc[s] \in Asleep /\ RunnerOK(s)'
         /\ CommandInv' /\ command' = NoCommand
         /\ \A p \in Pid : child[p] # NoChild => Right(queue, p, child[p]) \/ InHand(r, p)
         /\ pc[r] \notin {"loadPid", "savePid", "saveClosed"} => Fits(queue, child)
<1>0. OwnerInv /\ TurnInv /\ TypeInv /\ DiskInv /\ DOMAIN pc = Runner BY DEF RunnerInv, OwnerInv
<1>1. /\ pc' = [pc EXCEPT ![r] = pc'[r]] /\ command' = command
      /\ pc[r] \notin {"unborn", "dead", "threw"}
      /\ pc[r] = "rest" => pc'[r] = "dead" \/ MayEnter
  BY <1>0, RunnerMoves
<1>2. command = NoCommand /\ \A s \in Runner \ {r} : pc[s] \in Asleep
  <2>1. CASE pc[r] = "rest" BY <1>1, <2>1 DEF MayEnter, Quiet
  <2>2. CASE pc[r] # "rest"
    <3>1. pc[r] \notin Asleep BY <1>1, <2>2 DEF Asleep
    <3>. QED BY <1>0, <3>1 DEF TurnInv
  <2>. QED BY <2>1, <2>2
<1>3. CommandInv' BY <1>1, <1>2 DEF CommandInv
<1>4. ASSUME NEW s \in Runner \ {r} PROVE RunnerOK(s)'
  <2>1. pc'[s] \in Asleep BY <1>0, <1>1, <1>2
  <2>. QED BY <2>1 DEF RunnerOK, Saving, Asleep
<1>5. ASSUME NEW p \in Pid, child[p] # NoChild PROVE Right(queue, p, child[p]) \/ InHand(r, p)
  <2>1. \A s \in Runner \ {r} : ~InHand(s, p) BY <1>2 DEF InHand, Asleep
  <2>. QED BY <1>0, <1>5, <2>1 DEF DiskInv
<1>6. pc[r] \notin {"loadPid", "savePid", "saveClosed"} => Fits(queue, child)
  BY <1>0, <1>5 DEF InHand, Fits, TypeInv
<1>. QED BY <1>0, <1>1, <1>2, <1>3, <1>4, <1>5, <1>6

\* It comes to a place where it has nothing in hand.
LEMMA RestsOK ==
  ASSUME NEW r \in Runner, pc'[r] \in Free, UniqueInv, child' = child, Fits(queue', child)
  PROVE  UniqueInv' /\ DiskInv' /\ RunnerOK(r)'
<1>1. UniqueInv' BY DEF UniqueInv
<1>2. DiskInv' BY DEF DiskInv, Fits
<1>3. RunnerOK(r)' BY DEF Free, Asleep, RunnerOK, Saving
<1>. QED BY <1>1, <1>2, <1>3

\* It saves, or it does nothing to the queue.
LEMMA PlainStep ==
  ASSUME ~Overlapping, RunnerInv, NEW r \in Runner,
         \/ TakeLock(r) \/ SaveReconciled(r) \/ Top(r) \/ SavePark(r) \/ SavePid(r)
         \/ SaveHeard(r) \/ SaveClosed(r) \/ Wake(r)
  PROVE  UniqueInv' /\ DiskInv' /\ RunnerOK(r)'
<1>. USE DEF Goto, Save, disk
<1>0. UniqueInv /\ RunnerOK(r) /\ DOMAIN pc = Runner BY DEF RunnerInv, OwnerInv
<1>1. /\ pc'[r] \in Free /\ child' = child
      /\ \/ queue' = queue /\ pc[r] \notin {"loadPid", "savePid", "saveClosed"}
         \/ pc[r] \in Saving /\ queue' = snap[r]
  <2>1. CASE TakeLock(r) \/ Top(r) \/ Wake(r) BY <1>0, <2>1 DEF TakeLock, Top, Wake, Free, Asleep
  <2>2. CASE SaveReconciled(r) \/ SavePark(r) \/ SavePid(r)
    BY <1>0, <2>2 DEF SaveReconciled, SavePark, Dispatching, SavePid, Free, Saving
  <2>3. CASE SaveHeard(r) \/ SaveClosed(r)
    BY <1>0, <2>3 DEF SaveHeard, SaveClosed, Free, Saving, Asleep
  <2>. QED BY <2>1, <2>2, <2>3
<1>2. pc[r] \in Saving => Fits(snap[r], child) BY <1>0 DEF RunnerOK
<1>3. pc[r] \notin {"loadPid", "savePid", "saveClosed"} => Fits(queue, child)
  <2>1. pc'[r] \notin {"dead", "threw"}
    BY <1>0 DEF TakeLock, SaveReconciled, Top, SavePark, Dispatching, SavePid, SaveHeard, SaveClosed, Wake
  <2>2. RunnerStep(r) BY DEF RunnerStep, Stretch
  <2>. QED BY <2>1, <2>2, Solo
<1>. QED BY <1>0, <1>1, <1>2, <1>3, RestsOK

\* reconcile leaves the orphans alone: they live, and the queue names them.
LEMMA ReconcileStep ==
  ASSUME ~Overlapping, RunnerInv, NEW r \in Runner, Reconcile(r)
  PROVE  UniqueInv' /\ DiskInv' /\ RunnerOK(r)'
<1>0. /\ OwnerInv /\ TypeInv /\ ParentInv /\ UniqueInv /\ DiskInv /\ DOMAIN pc = Runner
      /\ DOMAIN snap = Runner
  BY DEF RunnerInv, OwnerInv, TypeInv
<1>1. /\ pc[r] = "reconcile" /\ pc'[r] \in {"top", "saveReconciled"}
      /\ queue' = queue /\ child' = child /\ target' = target
      /\ pc'[r] = "saveReconciled" => snap'[r] = Reconciled(queue)
  BY <1>0 DEF Reconcile, Goto, Prepare, disk
<1>2. Fits(queue, child)
  <2>1. RunnerStep(r) BY DEF RunnerStep, Stretch
  <2>. QED BY <1>1, <2>1, Solo
<1>3. CASE pc'[r] = "top" BY <1>0, <1>1, <1>2, <1>3, RestsOK DEF Free
<1>4. CASE pc'[r] = "saveReconciled"
  <2> DEFINE f == [t \in Task |-> IF t \in Interrupted(queue)
                     THEN [queue.task[t] EXCEPT !.status = "pending", !.lock = NoLock]
                     ELSE queue.task[t]]
  <2>1. QueueType(queue) BY <1>0 DEF TypeInv
  <2>2. Reconciled(queue) = [task |-> f, order |-> queue.order, nextId |-> queue.nextId,
                             paused |-> queue.paused]
    <3>1. Reconciled(queue) = [queue EXCEPT !.task = f] BY Zenon DEF Reconciled
    <3>. HIDE DEF f
    <3>. QED BY <2>1, <3>1 DEF QueueType
  <2>3. \A t \in Interrupted(queue) : t \in Task /\ queue.task[t] \in Record /\ queue.task[t].status = "running"
    BY <2>1 DEF Interrupted, Present, QueueType
  <2>4. ASSUME NEW t \in Interrupted(queue) PROVE f[t] \in Record
    <3>1. f[t] = [queue.task[t] EXCEPT !.status = "pending", !.lock = NoLock] BY <2>3
    <3>2. "pending" \in Status BY DEF Status
    <3>. HIDE DEF f
    <3>. QED BY <2>3, <3>1, <3>2 DEF Record
  <2>5. \A t \in Task \ Interrupted(queue) : f[t] = queue.task[t] OBVIOUS
  <2>6. f \in [Task -> Record \union {NoTask}]
    <3>1. \A t \in Task : f[t] \in Record \union {NoTask}
      <4>. HIDE DEF f
      <4>. QED BY <2>1, <2>4, <2>5 DEF QueueType
    <3>. QED BY <3>1
  <2> HIDE DEF f
  <2>7. \A t \in Task : f[t] # NoTask => t < queue.nextId
    <3>1. \A t \in Task : f[t] # NoTask => t \in Present(queue)
      BY <2>5 DEF Present, Interrupted
    <3>. QED BY <2>1, <3>1 DEF QueueType
  <2>8. QueueType(Reconciled(queue))
    <3>1. queue.nextId \in Nat \ {0} BY <2>1 DEF QueueType
    <3>. QED BY <2>2, <2>6, <2>7, <3>1, QueueChange
  <2>9. ASSUME NEW p \in Pid, child[p] # NoChild PROVE Right(Reconciled(queue), p, child[p])
    <3>1. child[p].phase = "up"
      <4>1. child[p].parent = NoRunner
        <5>. SUFFICES ASSUME child[p].parent # NoRunner PROVE FALSE OBVIOUS
        <5>1. child[p].parent \in Runner BY <1>0, <2>9 DEF TypeInv, Child
        <5>2. pc[child[p].parent] \notin Childless BY <1>0, <2>9 DEF ParentInv
        <5>3. pidFile = child[p].parent BY <1>0, <5>1, <5>2 DEF OwnerInv, Alive, Childless
        <5>4. pidFile = r BY <1>0, <1>1 DEF OwnerInv, Alive
        <5>. QED BY <1>1, <5>2, <5>3, <5>4 DEF Childless
      <4>. QED BY <1>0, <2>9, <4>1 DEF ParentInv
    <3>2. Names(queue, p, child[p]) BY <1>2, <2>9, <3>1 DEF Fits, Right
    <3>3. child[p].task \in Task \ Interrupted(queue)
      <4>1. child[p].task \in Task BY <3>2 DEF Names, Has, Present
      <4>2. PidAlive(queue.task[child[p].task].lock)
        BY <2>9, <3>1, <3>2, NoPidIsNoPid DEF Names, PidAlive, Up
      <4>. QED BY <4>1, <4>2 DEF Interrupted
    <3>4. Reconciled(queue).task[child[p].task] = queue.task[child[p].task]
      BY <2>2, <2>5, <3>3
    <3>5. Names(Reconciled(queue), p, child[p])
      BY <3>2, <3>4 DEF Names, Has, Present
    <3>. QED BY <3>1, <3>5 DEF Right
  <2>10. Fits(Reconciled(queue), child) BY <2>8, <2>9 DEF Fits
  <2>11. RunnerOK(r)' BY <1>1, <1>4, <2>10 DEF RunnerOK
  <2>12. DiskInv' BY <1>1, <1>2 DEF DiskInv, Fits
  <2>13. UniqueInv' BY <1>0, <1>1 DEF UniqueInv
  <2>. QED BY <2>11, <2>12, <2>13
<1>. QED BY <1>1, <1>3, <1>4

\* What may start has no process.
LEMMA FillStep ==
  ASSUME ~Overlapping, RunnerInv, NEW r \in Runner, Fill(r)
  PROVE  UniqueInv' /\ DiskInv' /\ RunnerOK(r)'
<1>0. UniqueInv /\ TypeInv /\ DOMAIN pc = Runner BY DEF RunnerInv, OwnerInv
<1>1. /\ pc[r] = "fill" /\ pc'[r] \in {"dispatch", "exit", "rest", "top"}
      /\ queue' = queue /\ child' = child
      /\ pc'[r] = "dispatch" => target'[r].task \in NextDispatchable(queue, now)
  <2>1. DOMAIN target = Runner /\ target[r] = [task |-> target[r].task, pid |-> target[r].pid]
    BY <1>0 DEF TypeInv
  <2>2. /\ pc[r] = "fill" /\ queue' = queue /\ child' = child
        /\ \/ /\ pc' = [pc EXCEPT ![r] = "dispatch"]
              /\ \E t \in NextDispatchable(queue, now) : target' = [target EXCEPT ![r].task = t]
           \/ pc' = [pc EXCEPT ![r] = "exit"]
           \/ pc' = [pc EXCEPT ![r] = "rest"]
           \/ pc' = [pc EXCEPT ![r] = "top"]
    BY DEF Fill, Goto, disk
  <2>3. \A t : target' = [target EXCEPT ![r].task = t] => target'[r].task = t BY <2>1
  <2>. QED BY <1>0, <2>2, <2>3
<1>2. Fits(queue, child)
  <2>1. RunnerStep(r) BY DEF RunnerStep, Stretch
  <2>. QED BY <1>1, <2>1, Solo
<1>3. CASE pc'[r] # "dispatch" BY <1>0, <1>1, <1>2, <1>3, RestsOK DEF Free, Asleep
<1>4. CASE pc'[r] = "dispatch"
  <2>1. Actionable(queue.task[target'[r].task], now)
    BY <1>1, <1>4 DEF NextDispatchable, Startable
  <2>2. ASSUME NEW p \in Pid, child[p] # NoChild, target'[r].task \in Present(queue)
        PROVE  child[p].task # target'[r].task
    BY <1>2, <2>1, <2>2 DEF Fits, Right, Names, Over, Has, Actionable
  <2>3. RunnerOK(r)' BY <1>1, <1>4, <2>2 DEF RunnerOK, Saving, Present
  <2>4. DiskInv' BY <1>1, <1>2 DEF DiskInv, Fits
  <2>5. UniqueInv' BY <1>0, <1>1 DEF UniqueInv
  <2>. QED BY <2>3, <2>4, <2>5
<1>. QED BY <1>1, <1>3, <1>4

\* A record for a task without a process leaves a queue fitting.
LEMMA UpdatedFits ==
  ASSUME NEW q, NEW processes, Fits(q, processes), NEW t \in Present(q), NEW record \in Record,
         \A p \in Pid : processes[p] # NoChild => processes[p] \in Child /\ processes[p].task # t
  PROVE  Fits(Updated(q, t, record), processes)
<1>1. QueueType(q) /\ \A p \in Pid : processes[p] # NoChild => Right(q, p, processes[p]) BY DEF Fits
<1>2. QueueType(Updated(q, t, record)) BY <1>1, UpdatedOK
<1>3. \A p \in Pid : processes[p] # NoChild => Right(Updated(q, t, record), p, processes[p])
  BY <1>1, UpdatedRight
<1>. QED BY <1>2, <1>3 DEF Fits

\* An in-folder task is on its branch, and knows where to go back to.
Branched(t, record) ==
  LET old == queue.task[t]
  IN record.branch = TRUE /\ record.base = IF FirstTime(old) THEN BaseOf(t, old) ELSE old.base

\* dispatch, up to its first save: the task is locked, or parked for want of a branch.
LEMMA DispatchPrepares ==
  ASSUME TypeInv, DOMAIN pc = Runner, NEW r \in Runner, Dispatch(r), pc'[r] \notin {"dead", "threw"}
  PROVE  /\ pc[r] = "dispatch" /\ target[r].task \in Present(queue)
         /\ queue' = queue /\ child' = child /\ target' = target /\ heard' = heard
         /\ \E record \in Record :
              /\ snap'[r] = Updated(queue, target[r].task, record)
              /\ record.session = queue.task[target[r].task].session
              /\ \/ /\ pc'[r] = "savePark"
                    /\ record.status = "needs-approval" /\ record.lock = NoLock
                    /\ record.branch = queue.task[target[r].task].branch
                    /\ record.base = queue.task[target[r].task].base
                 \/ /\ pc'[r] = "saveDispatch"
                    /\ record.status = "running" /\ record.lock = [owner |-> r, pid |-> NoPid]
                    /\ Iso[target[r].task] = "infolder" => Branched(target[r].task, record)
<1> DEFINE t == target[r].task
           old == queue.task[t]
           park == [old EXCEPT !.status = "needs-approval", !.lock = NoLock]
           go == Dispatched(r, t, old)
<1>0. DOMAIN pc = Runner /\ DOMAIN snap = Runner BY DEF TypeInv
<1>1. /\ pc[r] = "dispatch" /\ t \in Present(queue)
      /\ queue' = queue /\ child' = child /\ target' = target /\ heard' = heard
      /\ \/ pc'[r] = "savePark" /\ snap'[r] = Updated(queue, t, park)
         \/ /\ pc'[r] = "saveDispatch" /\ snap'[r] = Updated(queue, t, go)
            /\ ~MustPark(t, old)
  BY <1>0 DEF Dispatch, Throw, End, Goto, Prepare
<1>2. old \in Record BY <1>1 DEF TypeInv, QueueType, Present
<1>3. /\ park \in Record /\ park.session = old.session
      /\ park.status = "needs-approval" /\ park.lock = NoLock
      /\ park.branch = old.branch /\ park.base = old.base
  <2>1. "needs-approval" \in Status BY DEF Status
  <2> HIDE DEF old
  <2>. QED BY <1>2, <2>1 DEF Record
<1>4. ASSUME ~MustPark(t, old)
      PROVE  /\ go \in Record /\ go.session = old.session
             /\ go.status = "running" /\ go.lock = [owner |-> r, pid |-> NoPid]
             /\ Iso[t] = "infolder" => Branched(t, go)
  <2> DEFINE lock == [owner |-> r, pid |-> NoPid]
             base == IF Iso[t] = "infolder" /\ FirstTime(old) THEN BaseOf(t, old) ELSE old.base
             wt == old.worktree \/ Iso[t] = "worktree"
             br == old.branch \/ Iso[t] = "infolder"
  <2> HIDE DEF old
  <2>1. go = [old EXCEPT !.status = "running", !.lock = lock, !.worktree = wt, !.branch = br,
                         !.base = base]
    BY Zenon DEF Dispatched
  <2>2. lock \in Lock BY DEF Lock
  <2>3. "running" \in Status BY DEF Status
  <2>4. base \in Task \union {Main, NoBranch}
    <3>1. old.base \in Task \union {Main, NoBranch} BY <1>2 DEF Record
    <3>2. t \in Task /\ head[Cwd[t]] \in Branch
      BY <1>1, CwdType DEF TypeInv, Present
    <3>3. FirstTime(old) /\ Iso[t] = "infolder" => head[Cwd[t]] # Detached
      BY <1>4 DEF MustPark
    <3>. QED BY <3>1, <3>2, <3>3 DEF BaseOf, Branch
  <2>5. wt \in BOOLEAN /\ br \in BOOLEAN BY <1>2 DEF Record
  <2>. HIDE DEF lock, base, wt, br
  <2>6. go = [status |-> "running", session |-> old.session, resume |-> old.resume, lock |-> lock,
              base |-> base, branch |-> br, plan |-> old.plan, worktree |-> wt]
    <3>. HIDE DEF go
    <3>. QED BY <1>2, <2>1 DEF Record
  <2>7. go \in Record
    <3>. HIDE DEF go
    <3>. QED BY <1>2, <2>2, <2>3, <2>4, <2>5, <2>6 DEF Record
  <2>8. lock = [owner |-> r, pid |-> NoPid] BY DEF lock
  <2>9. Iso[t] = "infolder" => Branched(t, go)
    <3>1. Iso[t] = "infolder" => br = TRUE BY DEF br
    <3>2. Iso[t] = "infolder" => base = IF FirstTime(old) THEN BaseOf(t, old) ELSE old.base
      BY DEF base
    <3>3. old = queue.task[t] /\ go.branch = br /\ go.base = base
      <4>. HIDE DEF go
      <4>. QED BY <2>6 DEF old
    <3>. HIDE DEF go
    <3>. QED BY <3>1, <3>2, <3>3 DEF Branched
  <2>. HIDE DEF go
  <2>. QED BY <2>6, <2>7, <2>8, <2>9
<1> HIDE DEF park, go
<1>. QED BY <1>1, <1>3, <1>4

LEMMA DispatchStep ==
  ASSUME ~Overlapping, RunnerInv, NEW r \in Runner, Dispatch(r), pc'[r] \notin {"dead", "threw"}
  PROVE  UniqueInv' /\ DiskInv' /\ RunnerOK(r)'
<1> DEFINE t == target[r].task
<1>0. /\ UniqueInv /\ TypeInv /\ OwnerInv /\ RunnerOK(r)
      /\ \A p \in Pid : child[p] # NoChild => child[p] \in Child
  BY DEF RunnerInv, TypeInv
<1>1. Fits(queue, child)
  <2>1. RunnerStep(r) BY DEF RunnerStep, Stretch
  <2>. QED BY <2>1, Solo DEF Dispatch
<1>2. /\ pc[r] = "dispatch" /\ t \in Present(queue)
      /\ queue' = queue /\ child' = child /\ target' = target
  BY <1>0, DispatchPrepares DEF OwnerInv
<1>3. PICK record \in Record :
        /\ snap'[r] = Updated(queue, t, record)
        /\ \/ pc'[r] = "savePark"
           \/ /\ pc'[r] = "saveDispatch"
              /\ record.status = "running" /\ record.lock = [owner |-> r, pid |-> NoPid]
  BY <1>0, DispatchPrepares DEF OwnerInv
<1>4. \A p \in Pid : child[p] # NoChild => child[p].task # t BY <1>0, <1>2 DEF RunnerOK
<1>5. UniqueInv' /\ DiskInv'
  BY <1>0, <1>1, <1>2 DEF UniqueInv, DiskInv, Fits
<1> HIDE DEF t
<1>6. Fits(Updated(queue, t, record), child) BY <1>0, <1>1, <1>2, <1>4, UpdatedFits
<1>7. Fits(snap'[r], child') BY <1>2, <1>3, <1>6
<1>8. CASE pc'[r] = "savePark"
  <2>1. RunnerOK(r)' BY <1>7, <1>8 DEF RunnerOK
  <2>. QED BY <1>5, <2>1
<1>9. CASE pc'[r] = "saveDispatch"
  <2>1. record.status = "running" /\ record.lock = [owner |-> r, pid |-> NoPid] BY <1>3, <1>9
  <2>2. Locked(Updated(queue, t, record), r, t)
    <3>1. QueueType(queue) BY <1>1 DEF Fits
    <3>2. /\ Updated(queue, t, record).task[t] = record
          /\ Present(Updated(queue, t, record)) = Present(queue)
      BY <1>2, <3>1, UpdatedOK
    <3>. QED BY <1>2, <2>1, <3>2 DEF Locked, Has
  <2>3. target'[r].task = t BY <1>2 DEF t
  <2>4. RunnerOK(r)' BY <1>2, <1>3, <1>4, <1>7, <1>9, <2>2, <2>3 DEF RunnerOK
  <2>. QED BY <1>5, <2>4
<1>. QED BY <1>3, <1>5, <1>8, <1>9

LEMMA SaveDispatchStep ==
  ASSUME ~Overlapping, RunnerInv, NEW r \in Runner, SaveDispatch(r)
  PROVE  UniqueInv' /\ DiskInv' /\ RunnerOK(r)'
<1>0. UniqueInv /\ DOMAIN pc = Runner /\ RunnerOK(r) BY DEF RunnerInv, OwnerInv
<1>1. /\ pc[r] = "saveDispatch" /\ pc'[r] = "spawn"
      /\ queue' = snap[r] /\ child' = child /\ target' = target /\ snap' = snap
  BY <1>0 DEF SaveDispatch, Goto
<1>2. Fits(snap[r], child) /\ Locked(snap[r], r, target[r].task) BY <1>0, <1>1 DEF RunnerOK, Saving
<1>3. UniqueInv' /\ DiskInv' BY <1>0, <1>1, <1>2 DEF UniqueInv, DiskInv, Fits
<1>4. \A p \in Pid : child[p] # NoChild => child[p].task # target[r].task
  BY <1>0, <1>1 DEF RunnerOK
<1>5. RunnerOK(r)'
  BY <1>1, <1>2, <1>4 DEF RunnerOK, Saving
<1>. QED BY <1>3, <1>5

LEMMA SpawnStep ==
  ASSUME ~Overlapping, RunnerInv, NEW r \in Runner, Spawn(r)
  PROVE  UniqueInv' /\ DiskInv' /\ RunnerOK(r)'
<1> DEFINE t == target[r].task
<1>0. /\ UniqueInv /\ DOMAIN pc = Runner /\ DOMAIN child = Pid /\ DOMAIN target = Runner /\ RunnerOK(r)
      /\ target[r] = [task |-> target[r].task, pid |-> target[r].pid]
  BY DEF RunnerInv, OwnerInv, TypeInv
<1>1. PICK p \in Pid, phase \in {"up", "unspawned"} :
        /\ child[p] = NoChild
        /\ child' = [child EXCEPT ![p] = Process(r, t, snap[r].task[t], phase)]
        /\ target' = [target EXCEPT ![r].pid = p]
  BY DEF Spawn
<1> DEFINE c == Process(r, t, snap[r].task[t], phase)
<1>2. /\ pc[r] = "spawn" /\ pc'[r] = "loadPid" /\ queue' = queue
      /\ child'[p] = c /\ \A i \in Pid \ {p} : child'[i] = child[i]
      /\ target'[r].task = t /\ target'[r].pid = p
  BY <1>0, <1>1 DEF Spawn, Goto, disk
<1>3. c.task = t /\ c.parent = r /\ c.phase = phase BY DEF Process
<1>4. Fits(queue, child)
  <2>1. RunnerStep(r) BY DEF RunnerStep, Stretch
  <2>. QED BY <1>2, <2>1, Solo
<1>5. Locked(queue, r, t) /\ \A i \in Pid : child[i] # NoChild => child[i].task # t
  BY <1>0, <1>2 DEF RunnerOK, Locked, Has
<1> HIDE DEF t, c
<1>6. UniqueInv' BY <1>0, <1>2, <1>3, <1>5 DEF UniqueInv
<1>7. DiskInv' BY <1>2, <1>4 DEF DiskInv, Fits, InHand
<1>8. c # NoChild
  <2>1. t \in Task /\ snap[r].task[t] \in Record
    BY <1>0, <1>2, <1>4, <1>5 DEF RunnerOK, Locked, Has, Present, Fits, QueueType
  <2>2. c \in Child BY <2>1, ProcessType DEF c
  <2>. QED BY <2>2, NoChildIsNoChild
<1>9. RunnerOK(r)'
  <2>1. Locked(queue', r, target'[r].task) BY <1>2, <1>5
  <2>2. phase # "errored" /\ p \in Pid BY <1>1
  <2>. QED BY <1>2, <1>3, <1>8, <2>1, <2>2 DEF RunnerOK, Saving
<1>. QED BY <1>6, <1>7, <1>9

\* lock.pid becomes that of the process that was started.
LEMMA LoadPidPrepares ==
  ASSUME TypeInv, OwnerInv, NEW r \in Runner, RunnerOK(r), LoadPid(r), pc'[r] \notin {"dead", "threw"}
  PROVE  /\ pc'[r] = "savePid" /\ queue' = queue /\ child' = child /\ target' = target /\ heard' = heard
         /\ Locked(queue, r, target[r].task)
         /\ \E record \in Record :
              /\ snap'[r] = Updated(queue, target[r].task, record)
              /\ record.session = queue.task[target[r].task].session
              /\ record.status = "running" /\ record.lock # NoLock /\ record.lock.owner = r
              /\ record.branch = queue.task[target[r].task].branch
              /\ record.base = queue.task[target[r].task].base
              /\ record.lock.pid = IF child[target[r].pid].phase = "unspawned" THEN NoPid
                                   ELSE target[r].pid
<1> DEFINE t == target[r].task
           p == target[r].pid
           pid == IF child[p].phase = "unspawned" THEN NoPid ELSE p
           lock == [owner |-> r, pid |-> pid]
           old == queue.task[t]
           record == [old EXCEPT !.lock = lock]
<1>0. DOMAIN pc = Runner /\ DOMAIN snap = Runner /\ pc[r] = "loadPid" BY DEF OwnerInv, TypeInv, LoadPid
<1>1. Locked(queue, r, t) /\ p \in Pid /\ t \in Task /\ old \in Record
  BY <1>0 DEF RunnerOK, Locked, Has, Present, TypeInv, QueueType
<1>2. /\ pc'[r] = "savePid" /\ queue' = queue /\ child' = child /\ target' = target /\ heard' = heard
      /\ snap'[r] = [queue EXCEPT !.task[t].lock.pid = pid]
  <2>1. old.lock # NoLock
    <3>1. [owner |-> r, pid |-> NoPid] \in Lock BY DEF Lock
    <3>. QED BY <1>1, <3>1, NoLockIsNoLock DEF Locked
  <2>. QED BY <1>0, <1>1, <2>1 DEF LoadPid, Throw, End, Prepare, Goto, disk
<1>3. snap'[r] = Updated(queue, t, record)
  <2>1. old.lock = [owner |-> r, pid |-> NoPid] BY <1>1 DEF Locked
  <2>2. [old.lock EXCEPT !.pid = pid] = lock BY <2>1
  <2>3. snap'[r] = [queue EXCEPT !.task = [queue.task EXCEPT ![t] =
                      [old EXCEPT !.lock = [old.lock EXCEPT !.pid = pid]]]]
    BY <1>2, Zenon
  <2>. QED BY <2>2, <2>3, Zenon DEF Updated
<1>4. /\ record \in Record /\ record.status = "running" /\ record.session = old.session
      /\ record.lock = lock /\ lock.pid = pid /\ lock.owner = r /\ lock # NoLock
      /\ record.branch = old.branch /\ record.base = old.base
  <2>1. lock \in Lock BY <1>1 DEF Lock
  <2>2. lock.pid = pid /\ lock.owner = r OBVIOUS
  <2>3. old.status = "running" BY <1>1 DEF Locked, Has
  <2>. HIDE DEF old, lock
  <2>. QED BY <1>1, <2>1, <2>2, <2>3, NoLockIsNoLock DEF Record
<1>. HIDE DEF record, lock
<1>. QED BY <1>1, <1>2, <1>3, <1>4

LEMMA LoadPidStep ==
  ASSUME ~Overlapping, RunnerInv, NEW r \in Runner, LoadPid(r), pc'[r] \notin {"dead", "threw"}
  PROVE  UniqueInv' /\ DiskInv' /\ RunnerOK(r)'
<1> DEFINE t == target[r].task
           p == target[r].pid
<1>0. UniqueInv /\ TypeInv /\ OwnerInv /\ RunnerOK(r) BY DEF RunnerInv
<1>1. pc[r] = "loadPid" BY DEF LoadPid
<1>2. /\ p \in Pid /\ child[p] # NoChild /\ child[p].phase # "errored"
      /\ child[p].parent = r /\ child[p].task = t
  BY <1>0, <1>1 DEF RunnerOK
<1>3. /\ pc'[r] = "savePid" /\ queue' = queue /\ child' = child /\ target' = target
      /\ Locked(queue, r, t)
  BY <1>0, LoadPidPrepares
<1>4. PICK record \in Record :
        /\ snap'[r] = Updated(queue, t, record)
        /\ record.status = "running" /\ record.lock # NoLock
        /\ record.lock.pid = IF child[p].phase = "unspawned" THEN NoPid ELSE p
  BY <1>0, LoadPidPrepares
<1>5. Fits(Updated(queue, t, record), child)
  <2>1. QueueType(queue) /\ t \in Present(queue) BY <1>0, <1>3 DEF TypeInv, Locked, Has
  <2>2. QueueType(Updated(queue, t, record)) BY <2>1, UpdatedOK
  <2>3. ASSUME NEW i \in Pid, child[i] # NoChild PROVE Right(Updated(queue, t, record), i, child[i])
    <3>1. CASE i = p
      <4>1. Updated(queue, t, record).task[t] = record /\ Present(Updated(queue, t, record)) = Present(queue)
        BY <2>1, UpdatedOK
      <4>. QED BY <1>2, <1>4, <2>1, <3>1, <4>1 DEF Right, Names, Has
    <3>2. CASE i # p
      <4>1. child[i].task # t BY <1>0, <1>2, <2>3, <3>2 DEF UniqueInv
      <4>2. child[i] \in Child BY <1>0, <2>3 DEF TypeInv
      <4>3. Right(queue, i, child[i])
        <5>1. RunnerStep(r) BY DEF RunnerStep, Stretch
        <5>. QED BY <1>3, <2>3, <3>2, <5>1, Solo DEF InHand
      <4>. QED BY <2>1, <4>1, <4>2, <4>3, UpdatedRight
    <3>. QED BY <3>1, <3>2
  <2>. QED BY <2>2, <2>3 DEF Fits
<1> HIDE DEF t, p
<1>6. UniqueInv' BY <1>0, <1>3 DEF UniqueInv
<1>7. DiskInv'
  <2>1. \A i \in Pid : child[i] # NoChild => Right(queue, i, child[i]) \/ InHand(r, i)
    <3>1. RunnerStep(r) BY DEF RunnerStep, Stretch
    <3>. QED BY <3>1, Solo
  <2>2. \A i \in Pid : InHand(r, i) => InHand(r, i)' BY <1>1, <1>3 DEF InHand
  <2>. QED BY <1>3, <2>1, <2>2 DEF DiskInv
<1>8. RunnerOK(r)'
  <2>1. Fits(snap'[r], child') BY <1>3, <1>4, <1>5
  <2>2. target'[r].task = t /\ target'[r].pid = p BY <1>3 DEF t, p
  <2>. QED BY <1>2, <1>3, <2>1, <2>2 DEF RunnerOK, Saving
<1>. QED BY <1>6, <1>7, <1>8

\* A report of a process changes neither the status nor the lock of its task.
LEMMA HeardStep ==
  ASSUME ~Overlapping, RunnerInv, NEW r \in Runner, NEW p \in Pid, HearInit(r, p) \/ HearUsage(r, p),
         pc'[r] \notin {"dead", "threw"}
  PROVE  UniqueInv' /\ DiskInv' /\ RunnerOK(r)'
<1> DEFINE t == child[p].task
           record == [queue.task[t] EXCEPT !.session = TRUE]
<1>0. /\ UniqueInv /\ TypeInv /\ DOMAIN pc = Runner /\ DOMAIN snap = Runner /\ DOMAIN child = Pid
      /\ \A i \in Pid : child[i] # NoChild => child[i] \in Child
  BY DEF RunnerInv, OwnerInv, TypeInv
<1>1. Fits(queue, child)
  <2>1. RunnerStep(r) BY DEF RunnerStep, Hear
  <2>. QED BY <2>1, Solo DEF HearInit, HearUsage, Hears
<1>2. /\ child[p] # NoChild /\ t \in Present(queue)
      /\ pc'[r] = "saveHeard" /\ queue' = queue
      /\ \/ child' = child /\ snap'[r] = queue
         \/ child' = [child EXCEPT ![p].told = TRUE] /\ snap'[r] = Updated(queue, t, record)
  <2>1. child[p] # NoChild /\ t \in Task
    BY <1>0 DEF HearInit, HearUsage, Hears, Child
  <2>. QED BY <1>0, <2>1 DEF HearInit, HearUsage, Throw, End, Handle, Prepare, Goto, Named, Gone
<1>3. Fewer(child, child')
  <2>1. child[p] \in Child BY <1>0, <1>2
  <2>2. \A i \in Pid : child'[i] # NoChild => child[i] # NoChild /\ Kin(child[i], child'[i])
    BY <1>0, <1>2, <2>1 DEF Kin, Child
  <2>. QED BY <2>2 DEF Fewer
<1>4. Fits(snap'[r], child)
  <2>1. QueueType(queue) /\ queue.task[t] \in Record BY <1>0, <1>2 DEF TypeInv, QueueType, Present
  <2>2. record \in Record /\ record.status = queue.task[t].status /\ record.lock = queue.task[t].lock
    BY <2>1 DEF Record
  <2> HIDE DEF record, t
  <2>3. QueueType(Updated(queue, t, record)) /\ Spares(queue, Updated(queue, t, record))
    BY <1>2, <2>1, <2>2, UpdatedSpares
  <2>4. Fits(Updated(queue, t, record), child) BY <1>0, <1>1, <2>3, SparesFits
  <2>. QED BY <1>1, <1>2, <2>4
<1>5. UniqueInv' BY <1>0, <1>3, FewerUnique
<1>6. DiskInv'
  <2>1. Fits(queue, child') BY <1>1, <1>3, FewerFits
  <2>. QED BY <1>2, <2>1 DEF DiskInv, Fits
<1>7. RunnerOK(r)'
  <2>1. Fits(snap'[r], child') BY <1>3, <1>4, FewerFits
  <2>. QED BY <1>2, <2>1 DEF RunnerOK
<1>. QED BY <1>5, <1>6, <1>7

\* A handler of an end gives the task a new status and frees its lock.
LEMMA ClosePrepares ==
  ASSUME TypeInv, DOMAIN pc = Runner, NEW r \in Runner, NEW p \in Pid,
         HearClose(r, p) \/ HearError(r, p),
         pc'[r] \notin {"dead", "threw"}
  PROVE  /\ child[p] # NoChild /\ child[p] \in Child /\ child[p].parent = r
         /\ child[p].task \in Present(queue) /\ queue' = queue /\ heard' = heard
         /\ pc[r] = "rest" /\ pc'[r] = "saveClosed" /\ target'[r].pid = p
         /\ \E record \in Record :
              /\ snap'[r] = Updated(queue, child[p].task, record)
              /\ record.session = queue.task[child[p].task].session
              /\ record.status # "running" /\ record.lock = NoLock
              /\ record.branch = queue.task[child[p].task].branch
              /\ record.base = queue.task[child[p].task].base
              /\ \/ child' = [child EXCEPT ![p] = NoChild]
                 \/ /\ child' = [child EXCEPT ![p].phase = "errored"]
                    /\ child[p].phase = "unspawned" /\ record.status = "failed"
<1> DEFINE t == child[p].task
           old == queue.task[t]
<1>0. DOMAIN pc = Runner /\ DOMAIN snap = Runner /\ DOMAIN target = Runner /\ now \in Nat /\ QueueType(queue)
  BY DEF TypeInv
<1>1. child[p] # NoChild /\ child[p] \in Child /\ child[p].parent = r /\ pc[r] = "rest" /\ t \in Task
  BY DEF HearClose, HearError, Hears, Child, TypeInv
<1>2. /\ t \in Present(queue) /\ queue' = queue /\ heard' = heard
      /\ pc'[r] = "saveClosed" /\ target'[r].pid = p
  BY <1>0, <1>1 DEF HearClose, HearError, Throw, End, Handle, Prepare, Goto, Gone
<1>3. old \in Record BY <1>0, <1>1, <1>2 DEF QueueType, Present
<1>4. CASE HearClose(r, p)
  <2>1. PICK verdict \in Verdicts(p) :
          snap'[r] = Closed(queue, t, verdict) /\ child' = [child EXCEPT ![p] = NoChild]
    BY <1>0, <1>4 DEF HearClose, Throw, End, Handle, Prepare, Goto
  <2>2. verdict.status \in Status \ {"running"} /\ verdict.resume \in Nat
    BY <1>0 DEF Verdicts, Settled, Status
  <2> DEFINE record == [old EXCEPT !.status = verdict.status, !.resume = verdict.resume, !.lock = NoLock]
  <2>3. /\ record \in Record /\ record.session = old.session
        /\ record.status # "running" /\ record.lock = NoLock
        /\ record.branch = old.branch /\ record.base = old.base
    <3>. HIDE DEF old
    <3>. QED BY <1>3, <2>2 DEF Record
  <2>4. Closed(queue, t, verdict) = Updated(queue, t, record) BY Zenon DEF Closed
  <2>. HIDE DEF record
  <2>. QED BY <1>1, <1>2, <2>1, <2>3, <2>4
<1>5. CASE HearError(r, p)
  <2> DEFINE record == [old EXCEPT !.status = "failed", !.lock = NoLock]
  <2>1. /\ snap'[r] = Updated(queue, t, record) /\ child' = [child EXCEPT ![p].phase = "errored"]
        /\ child[p].phase = "unspawned"
    BY <1>0, <1>5 DEF HearError, Throw, End, Handle, Prepare, Goto
  <2>2. /\ record \in Record /\ record.status = "failed" /\ record.session = old.session
        /\ record.lock = NoLock /\ record.branch = old.branch /\ record.base = old.base
    <3>1. "failed" \in Status BY DEF Status
    <3>. HIDE DEF old
    <3>. QED BY <1>3, <3>1 DEF Record
  <2>. HIDE DEF record
  <2>. QED BY <1>1, <1>2, <2>1, <2>2
<1>. QED BY <1>4, <1>5

\* A process whose end, or whose failed start, has been heard leaves the other tasks
\* as they are.
LEMMA ClosedStep ==
  ASSUME ~Overlapping, RunnerInv, NEW r \in Runner, NEW p \in Pid, HearClose(r, p) \/ HearError(r, p),
         pc'[r] \notin {"dead", "threw"}
  PROVE  UniqueInv' /\ DiskInv' /\ RunnerOK(r)'
<1> DEFINE t == child[p].task
<1>0. /\ UniqueInv /\ TypeInv /\ OwnerInv /\ DOMAIN child = Pid
      /\ \A i \in Pid : child[i] # NoChild => child[i] \in Child
  BY DEF RunnerInv, TypeInv
<1>1. Fits(queue, child)
  <2>1. RunnerStep(r) BY DEF RunnerStep, Hear
  <2>. QED BY <2>1, Solo DEF HearClose, HearError, Hears
<1>2. child[p] # NoChild /\ child[p] \in Child /\ child[p].parent = r /\ QueueType(queue)
  BY <1>0, ClosePrepares DEF OwnerInv, TypeInv
<1>3. t \in Present(queue) /\ queue' = queue /\ pc'[r] = "saveClosed" /\ target'[r].pid = p
  BY <1>0, ClosePrepares DEF OwnerInv
<1>5. PICK record \in Record :
        /\ snap'[r] = Updated(queue, t, record)
        /\ \/ child' = [child EXCEPT ![p] = NoChild]
           \/ child' = [child EXCEPT ![p].phase = "errored"] /\ record.status = "failed"
  BY <1>0, ClosePrepares DEF OwnerInv
<1>6. /\ \A i \in Pid \ {p} : child'[i] = child[i]
      /\ child'[p] # NoChild => /\ child'[p].phase = "errored" /\ child'[p].task = t
                                /\ child'[p].parent = r /\ record.status = "failed"
  BY <1>0, <1>2, <1>5 DEF Child
<1> HIDE DEF t
<1>7. \A i \in Pid \ {p} : child[i] # NoChild => child[i].task # t
  BY <1>0, <1>2 DEF UniqueInv, t
<1>8. QueueType(Updated(queue, t, record)) BY <1>2, <1>3, UpdatedOK
<1>9. ASSUME NEW i \in Pid, child'[i] # NoChild PROVE Right(Updated(queue, t, record), i, child'[i])
  <2>1. CASE i = p
    <3>1. /\ Updated(queue, t, record).task[t] = record
          /\ Updated(queue, t, record).nextId = queue.nextId
      BY <1>2, <1>3, UpdatedOK
    <3>2. t < queue.nextId BY <1>2, <1>3 DEF QueueType
    <3>. QED BY <1>6, <1>9, <2>1, <3>1, <3>2 DEF Right, Over
  <2>2. CASE i # p
    <3>1. child[i] \in Child /\ child[i].task # t /\ Right(queue, i, child[i]) /\ child'[i] = child[i]
      BY <1>0, <1>1, <1>6, <1>7, <1>9, <2>2 DEF Fits
    <3>. QED BY <1>2, <1>3, <3>1, UpdatedRight
  <2>. QED BY <2>1, <2>2
<1>10. Fits(snap'[r], child') BY <1>5, <1>8, <1>9 DEF Fits
<1>11. UniqueInv' BY <1>0, <1>2, <1>6 DEF UniqueInv, t
<1>12. DiskInv'
  <2>. SUFFICES ASSUME NEW i \in Pid, child'[i] # NoChild
                PROVE  Right(queue', i, child'[i]) \/ InHand(r, i)'
    BY DEF DiskInv
  <2>1. CASE i = p BY <1>3, <2>1 DEF InHand
  <2>2. CASE i # p BY <1>1, <1>3, <1>6, <2>2 DEF Fits
  <2>. QED BY <2>1, <2>2
<1>13. RunnerOK(r)' BY <1>3, <1>6, <1>10 DEF RunnerOK
<1>. QED BY <1>11, <1>12, <1>13

-----------------------------------------------------------------------------
(***************************************************************************)
(* All steps together.                                                     *)
(***************************************************************************)
\* A runner that dies has saved nothing, and has no process that is not on record yet.
LEMMA EndsOK ==
  ASSUME RunnerInv, "crashAtSpawn" \notin Faults, NEW r \in Runner, RunnerStep(r),
         pc'[r] \in {"dead", "threw"}
  PROVE  queue' = queue /\ pc[r] \notin {"loadPid", "savePid"}
<1>. USE DEF Goto, Save, disk
<1>0. DOMAIN pc = Runner /\ RunnerOK(r) BY DEF RunnerInv, OwnerInv
<1>1. CASE LoadPid(r)
  <2>1. pc[r] = "loadPid" BY <1>1 DEF LoadPid
  <2>2. target[r].task \in Present(queue) BY <1>0, <2>1 DEF RunnerOK, Locked, Has
  <2>3. pc' = [pc EXCEPT ![r] = "savePid"] BY <1>1, <2>2 DEF LoadPid, Prepare
  <2>. QED BY <1>0, <2>3
<1>2. CASE Crash(r) BY <1>2 DEF Crash
<1>3. CASE Exit(r) \/ Dispatch(r) BY <1>3 DEF Exit, Dispatch, Throw, Prepare
<1>4. ASSUME NEW p \in Pid, Hear(r, p) PROVE queue' = queue /\ pc[r] = "rest"
  BY <1>4 DEF Hear, HearInit, HearUsage, HearClose, HearError, Hears, Throw, Handle
<1>5. CASE \/ TakeLock(r) \/ Reconcile(r) \/ SaveReconciled(r) \/ Top(r) \/ Fill(r)
           \/ SavePark(r) \/ SaveDispatch(r) \/ Spawn(r) \/ SavePid(r)
           \/ SaveHeard(r) \/ SaveClosed(r) \/ Wake(r)
  <2>1. pc'[r] \notin {"dead", "threw"}
    BY <1>0, <1>5 DEF TakeLock, Reconcile, SaveReconciled, Top, Fill, SavePark, Dispatching, SaveDispatch, Spawn,
       SavePid, SaveHeard, SaveClosed, Wake, Prepare
  <2>. QED BY <2>1
<1>. QED BY <1>1, <1>2, <1>3, <1>4, <1>5 DEF RunnerStep, Stretch

LEMMA RunnerStepOK ==
  ASSUME ~Overlapping, "crashAtSpawn" \notin Faults, RunnerInv, NEW r \in Runner, RunnerStep(r)
  PROVE  UniqueInv' /\ DiskInv' /\ CommandInv' /\ \A s \in Runner : RunnerOK(s)'
<1>1. CASE pc'[r] \in {"dead", "threw"}
  <2>1. OwnerInv /\ TypeInv /\ DOMAIN pc = Runner BY DEF RunnerInv, OwnerInv
  <2>2. /\ pc' = [pc EXCEPT ![r] = pc'[r]] /\ command' = command /\ child' = Orphaned(r)
    BY <1>1, <2>1, RunnerMoves
  <2>3. \A s \in Runner \ {r} : snap'[s] = snap[s] /\ target'[s] = target[s]
    BY <2>1, RunnerFrame
  <2>4. queue' = queue /\ pc[r] \notin {"loadPid", "savePid"} BY <1>1, EndsOK
  <2>. QED BY <1>1, <2>2, <2>3, <2>4, EndStep
<1>2. CASE pc'[r] \notin {"dead", "threw"}
  <2>1. CommandInv' /\ \A s \in Runner \ {r} : RunnerOK(s)' BY <1>2, Solo
  <2>2. UniqueInv' /\ DiskInv' /\ RunnerOK(r)'
    <3>1. CASE \/ TakeLock(r) \/ SaveReconciled(r) \/ Top(r) \/ SavePark(r) \/ SavePid(r)
               \/ SaveHeard(r) \/ SaveClosed(r) \/ Wake(r)
      BY <3>1, PlainStep
    <3>2. CASE Reconcile(r) BY <3>2, ReconcileStep
    <3>3. CASE Fill(r) BY <3>3, FillStep
    <3>4. CASE Dispatch(r) BY <1>2, <3>4, DispatchStep
    <3>5. CASE SaveDispatch(r) BY <3>5, SaveDispatchStep
    <3>6. CASE Spawn(r) BY <3>6, SpawnStep
    <3>7. CASE LoadPid(r) BY <1>2, <3>7, LoadPidStep
    <3>8. ASSUME NEW p \in Pid, Hear(r, p) PROVE UniqueInv' /\ DiskInv' /\ RunnerOK(r)'
      BY <1>2, <3>8, HeardStep, ClosedStep DEF Hear
    <3>9. CASE Exit(r) \/ Crash(r)
      <4>1. DOMAIN pc = Runner BY DEF RunnerInv, OwnerInv
      <4>2. pc'[r] = "dead" BY <3>9, <4>1 DEF Exit, Crash, End, Goto
      <4>. QED BY <1>2, <4>2
    <3>. QED BY <3>1, <3>2, <3>3, <3>4, <3>5, <3>6, <3>7, <3>8, <3>9 DEF RunnerStep, Stretch
  <2>3. \A s \in Runner : RunnerOK(s)' BY <2>1, <2>2
  <2>. QED BY <2>1, <2>2, <2>3
<1>. QED BY <1>1, <1>2

\* A runner is started while nothing else is under way.
LEMMA StartOK ==
  ASSUME ~Overlapping, RunnerInv, NEW r \in Runner, NEW m \in Mode, Start(r, m)
  PROVE  UniqueInv' /\ DiskInv' /\ CommandInv' /\ \A s \in Runner : RunnerOK(s)'
<1>0. UniqueInv /\ DiskInv /\ TypeInv /\ DOMAIN pc = Runner BY DEF RunnerInv, OwnerInv
<1>1. /\ queue' = queue /\ child' = child /\ command' = command
      /\ command = NoCommand /\ \A s \in Runner : pc[s] \in Asleep
      /\ pc' = [pc EXCEPT ![r] = pc'[r]] /\ pc'[r] \in {"lock", "dead"}
  BY <1>0 DEF Start, Goto, MayEnter, Quiet, disk, user
<1>2. Fits(queue, child)
  <2>1. \A s \in Runner : pc[s] \notin {"loadPid", "savePid", "saveClosed"} BY <1>1 DEF Asleep
  <2>. QED BY <1>0, <2>1, DiskFits
<1>3. UniqueInv' BY <1>0, <1>1 DEF UniqueInv
<1>4. DiskInv' BY <1>1, <1>2 DEF DiskInv, Fits
<1>5. CommandInv' BY <1>1 DEF CommandInv
<1>6. ASSUME NEW s \in Runner PROVE RunnerOK(s)'
  <2>1. pc'[s] \in Asleep \union {"lock"} BY <1>0, <1>1 DEF Asleep
  <2>. QED BY <2>1 DEF RunnerOK, Saving, Asleep
<1>. QED BY <1>3, <1>4, <1>5, <1>6

LEMMA RunnerInvStep ==
  ASSUME ~Overlapping, "crashAtSpawn" \notin Faults, RunnerInv, [Next]_vars PROVE RunnerInv'
<1>1. OwnerInv' /\ TurnInv' /\ TypeInv' /\ ParentInv'
  BY OwnerStep, TurnStep, TypeStep, ParentStep DEF RunnerInv
<1>2. UniqueInv' /\ DiskInv' /\ CommandInv' /\ \A s \in Runner : RunnerOK(s)'
  <2>1. CASE UNCHANGED vars
    <3>1. UniqueInv' BY <2>1 DEF RunnerInv, UniqueInv, vars
    <3>2. DiskInv' BY <2>1 DEF RunnerInv, DiskInv, InHand, vars, disk
    <3>3. CommandInv' BY <2>1 DEF RunnerInv, CommandInv, vars, user
    <3>4. \A s \in Runner : RunnerOK(s)' BY <2>1 DEF RunnerInv, RunnerOK, vars, disk
    <3>. QED BY <3>1, <3>2, <3>3, <3>4
  <2>2. CASE \E r \in Runner : RunnerStep(r) BY <2>2, RunnerStepOK
  <2>3. CASE \E r \in Runner, m \in Mode : Start(r, m) BY <2>3, StartOK
  <2>4. CASE User BY <2>4, UserStep
  <2>5. CASE Machine BY <2>5, MachineStep
  <2>. QED BY <2>1, <2>2, <2>3, <2>4, <2>5 DEF Next, RunnerStep
<1>. QED BY <1>1, <1>2 DEF RunnerInv

LEMMA RunnerInvInit ==
  ASSUME Init PROVE RunnerInv
<1>1. OwnerInv BY DEF Init, OwnerInv, Alive
<1>2. TurnInv BY DEF Init, TurnInv, Asleep
<1>3. TypeInv
  <2>1. QueueType(queue)
    <3>1. queue = EmptyQueue /\ 1 \in Nat \ {0} BY DEF Init
    <3>. QED BY <3>1 DEF EmptyQueue, QueueType, Present
  <2>2. head \in [Project -> Branch] BY DEF Init, Branch
  <2>3. \A r \in Runner : target[r] = [task |-> target[r].task, pid |-> target[r].pid]
    BY DEF Init, NoTarget
  <2>. QED BY <2>1, <2>2, <2>3 DEF Init, TypeInv
<1>4. \A p \in Pid : child[p] = NoChild BY DEF Init
<1>5. ParentInv /\ UniqueInv /\ DiskInv BY <1>4 DEF ParentInv, UniqueInv, DiskInv
<1>6. CommandInv BY DEF Init, CommandInv
<1>7. \A r \in Runner : RunnerOK(r) BY DEF Init, RunnerOK, Saving
<1>. QED BY <1>1, <1>2, <1>3, <1>5, <1>6, <1>7 DEF RunnerInv

LEMMA RunnerInvAlways ==
  ASSUME ~Overlapping, "crashAtSpawn" \notin Faults PROVE Spec => []RunnerInv
<1>1. Init => RunnerInv BY RunnerInvInit
<1>2. RunnerInv /\ [Next]_vars => RunnerInv' BY RunnerInvStep
<1>. QED BY <1>1, <1>2, PTL DEF Spec

\* "Concurrent resume of one session silently interleaves transcripts": whatever runners
\* die and are started again, and whatever the user types, two live processes never
\* work on one task.
THEOREM OneProcessPerTask ==
  ASSUME ~Overlapping, "crashAtSpawn" \notin Faults PROVE Spec => []OneChild
<1>1. RunnerInv => OneChild BY DEF RunnerInv, UniqueInv, OneChild, Up
<1>. QED BY <1>1, RunnerInvAlways, PTL

\* No live process is ever off the record: the record of its task says that it runs and
\* names it, or the runner that has just started it is about to write that.
THEOREM ProcessesAreRecorded ==
  ASSUME ~Overlapping, "crashAtSpawn" \notin Faults PROVE Spec => []LiveIsRecorded
<1>1. ASSUME RunnerInv PROVE LiveIsRecorded
  <2>. SUFFICES ASSUME NEW p \in Pid, Up(p),
                       ~\E r \in Runner : pc[r] \in {"loadPid", "savePid"} /\ target[r].pid = p
                PROVE  /\ Has(queue, child[p].task, "running")
                       /\ queue.task[child[p].task].lock # NoLock
                       /\ queue.task[child[p].task].lock.pid = p
    BY DEF LiveIsRecorded
  <2>1. child[p] # NoChild /\ child[p].phase = "up" BY DEF Up
  <2>2. \A r \in Runner : ~InHand(r, p)
    BY <1>1, <2>1 DEF InHand, RunnerInv, RunnerOK
  <2>3. Names(queue, p, child[p]) BY <1>1, <2>1, <2>2 DEF RunnerInv, DiskInv, Right
  <2>. QED BY <2>1, <2>3 DEF Names
<1>2. RunnerInv => LiveIsRecorded BY <1>1
<1>. QED BY <1>2, RunnerInvAlways, PTL

-----------------------------------------------------------------------------
(***************************************************************************)
(* The checkout of a project.  One more assumption: no spawn fails.  The   *)
(* error event of a failed spawn ends its task, and the close event after  *)
(* it moves the checkout again.                                            *)
(***************************************************************************)
InFolder(processes, p, c) ==
  processes[p] # NoChild /\ Iso[processes[p].task] = "infolder" /\ Cwd[processes[p].task] = c

\* A process works in the checkout of its project alone, and on the branch of its task.
KeptInv ==
  /\ \A p \in Pid : child[p] # NoChild => child[p].phase \in {"up", "exited"}
  /\ \A c \in Project : \A p, q \in Pid : InFolder(child, p, c) /\ InFolder(child, q, c) => p = q
  /\ \A c \in Project : \A p \in Pid : InFolder(child, p, c) => head[c] = child[p].task

\* On its way to a process, a task has the checkout for itself.
ClearOK(r) ==
  LET t == target[r].task
      c == Cwd[t]
  IN Iso[t] = "infolder" =>
       /\ pc[r] = "dispatch" /\ t \in Present(queue) => \A p \in Pid : ~InFolder(child, p, c)
       /\ pc[r] \in {"saveDispatch", "spawn"} =>
            head[c] = t /\ \A p \in Pid : ~InFolder(child, p, c)

HeadInv == KeptInv /\ \A r \in Runner : ClearOK(r)

LEMMA KeptStays ==
  ASSUME KeptInv, Fewer(child, child'), head' = head PROVE KeptInv'
<1>1. \A c \in Project : \A p \in Pid : InFolder(child', p, c) => InFolder(child, p, c) /\ child'[p].task = child[p].task
  BY DEF Fewer, Kin, InFolder
<1>2. \A p \in Pid : child'[p] # NoChild => child'[p].phase \in {"up", "exited"}
  BY DEF KeptInv, Fewer, Kin
<1>. QED BY <1>1, <1>2 DEF KeptInv

LEMMA ClearStays ==
  ASSUME NEW r \in Runner, ClearOK(r), Fewer(child, child'), head' = head,
         Present(queue') = Present(queue), pc'[r] = pc[r], target'[r] = target[r]
  PROVE  ClearOK(r)'
<1>1. \A p \in Pid : \A c : InFolder(child', p, c) => InFolder(child, p, c)
  BY DEF Fewer, Kin, InFolder
<1>. QED BY <1>1 DEF ClearOK

\* Elsewhere there is nothing to keep clear.
LEMMA ClearElsewhere ==
  ASSUME NEW r \in Runner, pc'[r] \notin {"dispatch", "saveDispatch", "spawn"} PROVE ClearOK(r)'
BY DEF ClearOK

\* Processes come by Spawn alone.
LEMMA RunnerFewer ==
  ASSUME TypeInv, NEW r \in Runner, RunnerStep(r), ~Spawn(r), \A p \in Pid : ~HearError(r, p)
  PROVE  Fewer(child, child')
<1>0. DOMAIN child = Pid /\ \A p \in Pid : child[p] # NoChild => child[p] \in Child BY DEF TypeInv
<1>1. CASE child' = child BY <1>1 DEF Fewer, Kin
<1>2. CASE child' = Orphaned(r) BY <1>2, OrphanedOK
<1>3. ASSUME NEW p \in Pid, Hear(r, p) PROVE Fewer(child, child')
  <2>1. child[p] # NoChild /\ child[p] \in Child
    BY <1>0, <1>3 DEF Hear, HearInit, HearUsage, HearClose, HearError, Hears
  <2>2. \/ child' = child \/ child' = Orphaned(r)
        \/ child' = [child EXCEPT ![p].told = TRUE]
        \/ child' = [child EXCEPT ![p] = NoChild]
    BY <1>3 DEF Hear, HearInit, HearUsage, HearClose, End, Throw
  <2>3. CASE child' = [child EXCEPT ![p].told = TRUE] BY <1>0, <2>1, <2>3 DEF Fewer, Kin, Child
  <2>4. CASE child' = [child EXCEPT ![p] = NoChild] BY <1>0, <2>4 DEF Fewer, Kin
  <2>. QED BY <1>1, <1>2, <2>2, <2>3, <2>4
<1>4. CASE RunnerStep(r) /\ ~\E p \in Pid : Hear(r, p)
  <2>1. child' = child \/ child' = Orphaned(r)
    BY <1>4 DEF RunnerStep, Stretch, TakeLock, Reconcile, SaveReconciled, Top, Fill, Exit, Dispatch,
       SavePark, Dispatching, SaveDispatch, LoadPid, SavePid, SaveHeard, SaveClosed, Wake, Crash, End, Throw
  <2>. QED BY <1>1, <1>2, <2>1
<1>. QED BY <1>3, <1>4

\* Only a dispatch and a close move a checkout.
LEMMA RunnerHead ==
  ASSUME NEW r \in Runner, RunnerStep(r), ~Dispatch(r),
         \A p \in Pid : ~HearClose(r, p) /\ ~HearError(r, p)
  PROVE  head' = head
<1>1. ASSUME NEW p \in Pid, HearInit(r, p) \/ HearUsage(r, p) PROVE head' = head
  BY <1>1 DEF HearInit, HearUsage, Throw, disk
<1>2. CASE (Stretch(r) /\ ~Dispatch(r)) \/ Wake(r) \/ Crash(r)
  BY <1>2 DEF Stretch, TakeLock, Reconcile, SaveReconciled, Top, Fill, Exit, SavePark, Dispatching, SaveDispatch,
     Spawn, LoadPid, SavePid, SaveHeard, SaveClosed, Wake, Crash, Throw, disk
<1>. QED BY <1>1, <1>2 DEF RunnerStep, Hear

\* finalizeInFolder after a run moves a checkout that its process alone worked in.
LEMMA CloseKeeps ==
  ASSUME TypeInv, OwnerInv, KeptInv, NEW r \in Runner, NEW p \in Pid, HearClose(r, p)
  PROVE  KeptInv'
<1> DEFINE t == child[p].task
<1>1. /\ child[p] # NoChild /\ child[p] \in Child /\ child[p].phase = "exited" /\ child[p].parent = r
      /\ t \in Task /\ Cwd[t] \in Project /\ DOMAIN child = Pid
  BY CwdType DEF HearClose, Hears, TypeInv, KeptInv, Child
<1>2. Fewer(child, child') /\ child'[p] = NoChild
  <2>1. RunnerStep(r) /\ ~Spawn(r) BY <1>1 DEF RunnerStep, Hear, HearClose, Hears, Spawn
  <2>2. \A i \in Pid : ~HearError(r, i) BY DEF KeptInv, HearError, Hears
  <2>3. child' = Orphaned(r) \/ child' = [child EXCEPT ![p] = NoChild]
    BY DEF HearClose, End, Throw
  <2>4. Orphaned(r)[p] = NoChild BY <1>1 DEF Orphaned
  <2>. QED BY <1>1, <2>1, <2>2, <2>3, <2>4, RunnerFewer
<1>3. head' = head \/ head' = Finalized(t, queue.task[t])
  BY DEF HearClose, Throw, disk
<1>4. CASE head' = head BY <1>2, <1>4, KeptStays
<1>5. CASE head' # head
  <2>1. Iso[t] = "infolder" /\ \A c \in Project \ {Cwd[t]} : head'[c] = head[c]
    <3>1. head \in [Project -> Branch] BY DEF TypeInv
    <3>. QED BY <1>1, <1>3, <1>5, <3>1 DEF Finalized
  <2>2. ASSUME NEW i \in Pid, NEW c \in Project, InFolder(child', i, c)
        PROVE  InFolder(child, i, c) /\ child'[i].task = child[i].task /\ c # Cwd[t]
    <3>1. InFolder(child, i, c) /\ child'[i].task = child[i].task /\ i # p
      BY <1>2, <2>2 DEF Fewer, Kin, InFolder
    <3>2. InFolder(child, p, Cwd[t]) BY <1>1, <2>1 DEF InFolder
    <3>. QED BY <1>1, <3>1, <3>2 DEF KeptInv
  <2>3. \A i \in Pid : child'[i] # NoChild => child'[i].phase \in {"up", "exited"}
    BY <1>2 DEF KeptInv, Fewer, Kin
  <2>. QED BY <2>1, <2>2, <2>3 DEF KeptInv
<1>. QED BY <1>4, <1>5

LEMMA DispatchKeeps ==
  ASSUME TypeInv, OwnerInv, HeadInv, NEW r \in Runner, Dispatch(r)
  PROVE  KeptInv' /\ ClearOK(r)'
<1> DEFINE t == target[r].task
<1>0. KeptInv /\ ClearOK(r) /\ DOMAIN pc = Runner /\ pc[r] = "dispatch"
      /\ head \in [Project -> Branch]
  BY DEF HeadInv, OwnerInv, Dispatch, TypeInv
<1>1. Fewer(child, child')
  <2>1. RunnerStep(r) BY DEF RunnerStep, Stretch
  <2>2. ~Spawn(r) /\ \A p \in Pid : ~HearError(r, p) BY <1>0 DEF Spawn, HearError, Hears
  <2>. QED BY <2>1, <2>2, RunnerFewer
<1>2. \/ head' = head /\ pc'[r] \notin {"dispatch", "saveDispatch", "spawn"}
      \/ /\ pc'[r] = "saveDispatch" /\ t \in Present(queue) /\ target' = target
         /\ child' = child
         /\ head' = IF Iso[t] = "infolder" THEN [head EXCEPT ![Cwd[t]] = t] ELSE head
  BY <1>0 DEF Dispatch, Throw, End, Prepare, Goto, disk
<1>3. CASE head' = head /\ pc'[r] \notin {"dispatch", "saveDispatch", "spawn"}
  BY <1>0, <1>1, <1>3, KeptStays, ClearElsewhere
<1>4. CASE /\ pc'[r] = "saveDispatch" /\ t \in Present(queue) /\ target' = target
           /\ child' = child
           /\ head' = IF Iso[t] = "infolder" THEN [head EXCEPT ![Cwd[t]] = t] ELSE head
  <2>1. t \in Task /\ Cwd[t] \in Project BY <1>4, CwdType DEF Present
  <2>2. CASE Iso[t] # "infolder"
    <3>1. KeptInv' BY <1>0, <1>1, <1>4, <2>2, KeptStays
    <3>2. ClearOK(r)' BY <1>4, <2>2 DEF ClearOK
    <3>. QED BY <3>1, <3>2
  <2>3. CASE Iso[t] = "infolder"
    <3>1. \A p \in Pid : ~InFolder(child, p, Cwd[t]) BY <1>0, <1>4, <2>3 DEF ClearOK
    <3>2. head'[Cwd[t]] = t /\ \A c \in Project \ {Cwd[t]} : head'[c] = head[c]
      BY <1>0, <1>4, <2>1, <2>3
    <3>3. KeptInv' BY <1>0, <1>4, <3>1, <3>2 DEF KeptInv, InFolder
    <3>4. ClearOK(r)' BY <1>4, <3>1, <3>2 DEF ClearOK
    <3>. QED BY <3>3, <3>4
  <2>. QED BY <2>2, <2>3
<1>. QED BY <1>2, <1>3, <1>4

LEMMA SpawnKeeps ==
  ASSUME "spawn" \notin Faults, TypeInv, OwnerInv, HeadInv, NEW r \in Runner, Spawn(r)
  PROVE  KeptInv' /\ ClearOK(r)'
<1> DEFINE t == target[r].task
<1>0. KeptInv /\ ClearOK(r) /\ DOMAIN pc = Runner /\ DOMAIN child = Pid /\ pc[r] = "spawn"
  BY DEF HeadInv, OwnerInv, TypeInv, Spawn
<1>1. PICK p \in Pid :
        /\ child[p] = NoChild
        /\ child' = [child EXCEPT ![p] = Process(r, t, snap[r].task[t], "up")]
  BY DEF Spawn
<1> DEFINE new == Process(r, t, snap[r].task[t], "up")
<1>2. new.task = t /\ new.phase = "up" BY DEF Process
<1>3. child'[p] = new /\ \A i \in Pid \ {p} : child'[i] = child[i] BY <1>0, <1>1
<1>4. head' = head /\ pc'[r] = "loadPid" BY <1>0 DEF Spawn, Goto, disk
<1> HIDE DEF t, new
<1>5. Iso[t] = "infolder" => head[Cwd[t]] = t /\ \A i \in Pid : ~InFolder(child, i, Cwd[t])
  BY <1>0 DEF ClearOK, t
<1>6. \A c \in Project : InFolder(child', p, c) => c = Cwd[t] /\ Iso[t] = "infolder"
  BY <1>2, <1>3 DEF InFolder
<1>7. \A c \in Project : \A i \in Pid \ {p} : InFolder(child', i, c) => InFolder(child, i, c)
  BY <1>3 DEF InFolder
<1>8. \A i \in Pid : child'[i] # NoChild => child'[i].phase \in {"up", "exited"}
  BY <1>0, <1>2, <1>3 DEF KeptInv
<1>9. \A c \in Project : \A i, j \in Pid : InFolder(child', i, c) /\ InFolder(child', j, c) => i = j
  BY <1>0, <1>5, <1>6, <1>7 DEF KeptInv
<1>10. \A c \in Project : \A i \in Pid : InFolder(child', i, c) => head'[c] = child'[i].task
  BY <1>0, <1>2, <1>3, <1>4, <1>5, <1>6, <1>7 DEF KeptInv
<1>11. KeptInv' BY <1>8, <1>9, <1>10 DEF KeptInv
<1>12. ClearOK(r)' BY <1>4, ClearElsewhere
<1>. QED BY <1>11, <1>12

\* canStart: no process works in the checkout of a task that may start.
LEMMA FillClears ==
  ASSUME ~Overlapping, RunnerInv, KeptInv, NEW r \in Runner, Fill(r)
  PROVE  ClearOK(r)'
<1>0. UniqueInv /\ TypeInv /\ DOMAIN pc = Runner BY DEF RunnerInv, OwnerInv
<1>1. /\ pc[r] = "fill" /\ pc'[r] \in {"dispatch", "exit", "rest", "top"}
      /\ queue' = queue /\ child' = child
      /\ pc'[r] = "dispatch" => CanStart(queue, target'[r].task)
  <2>1. DOMAIN target = Runner /\ target[r] = [task |-> target[r].task, pid |-> target[r].pid]
    BY <1>0 DEF TypeInv
  <2>2. /\ pc[r] = "fill" /\ queue' = queue /\ child' = child
        /\ \/ /\ pc' = [pc EXCEPT ![r] = "dispatch"]
              /\ \E t \in NextDispatchable(queue, now) : target' = [target EXCEPT ![r].task = t]
           \/ pc' = [pc EXCEPT ![r] = "exit"]
           \/ pc' = [pc EXCEPT ![r] = "rest"]
           \/ pc' = [pc EXCEPT ![r] = "top"]
    BY DEF Fill, Goto, disk
  <2>3. \A t : target' = [target EXCEPT ![r].task = t] => target'[r].task = t BY <2>1
  <2>4. \A t \in NextDispatchable(queue, now) : CanStart(queue, t)
    BY DEF NextDispatchable, Startable
  <2>. QED BY <1>0, <2>2, <2>3, <2>4
<1>2. Fits(queue, child)
  <2>1. RunnerStep(r) BY DEF RunnerStep, Stretch
  <2>. QED BY <1>1, <2>1, Solo
<1>3. CASE pc'[r] # "dispatch" BY <1>1, <1>3, ClearElsewhere
<1>4. CASE pc'[r] = "dispatch"
  <2>1. ASSUME NEW p \in Pid, Iso[target'[r].task] = "infolder", InFolder(child, p, Cwd[target'[r].task])
        PROVE  FALSE
    <3>1. Names(queue, p, child[p]) BY <1>2, <2>1 DEF InFolder, Fits, Right, KeptInv
    <3>2. child[p].task \in Present(queue) /\ queue.task[child[p].task].status = "running"
      BY <3>1 DEF Names, Has
    <3>. QED BY <1>1, <1>4, <2>1, <3>2 DEF CanStart, InFolder
  <2>. QED BY <1>1, <1>4, <2>1 DEF ClearOK
<1>. QED BY <1>1, <1>3, <1>4

LEMMA RunnerKeeps ==
  ASSUME ~Overlapping, "crashAtSpawn" \notin Faults, "spawn" \notin Faults,
         RunnerInv, HeadInv, NEW r \in Runner, RunnerStep(r)
  PROVE  HeadInv'
<1>0. OwnerInv /\ TypeInv /\ KeptInv /\ DOMAIN pc = Runner /\ \A s \in Runner : ClearOK(s)
  BY DEF RunnerInv, HeadInv, OwnerInv
<1>1. \A p \in Pid : ~HearError(r, p) BY <1>0 DEF KeptInv, HearError, Hears
<1>2. /\ pc' = [pc EXCEPT ![r] = pc'[r]]
      /\ \A s \in Runner \ {r} : pc'[s] = pc[s] /\ target'[s] = target[s]
  <2>1. pc' = [pc EXCEPT ![r] = pc'[r]] BY <1>0, RunnerMoves
  <2>2. \A s \in Runner \ {r} : target'[s] = target[s] BY <1>0, RunnerFrame
  <2>. QED BY <1>0, <2>1, <2>2
<1>3. ASSUME NEW s \in Runner \ {r}, pc'[r] \notin {"dead", "threw"} \/ \E p \in Pid : Hear(r, p)
      PROVE  ClearOK(s)'
  <2>1. pc[s] \in Asleep
    <3>1. ASSUME NEW p \in Pid, Hear(r, p) PROVE pc[s] \in Asleep
      <4>1. MayEnter /\ pc[r] = "rest" BY <3>1 DEF Hear, HearInit, HearUsage, HearClose, HearError, Hears
      <4>. QED BY <4>1 DEF MayEnter, Quiet
    <3>. QED BY <1>3, <3>1, Solo
  <2>2. pc'[s] \notin {"dispatch", "saveDispatch", "spawn"} BY <1>2, <2>1 DEF Asleep
  <2>. QED BY <2>2, ClearElsewhere
<1>4. CASE Dispatch(r)
  <2>1. KeptInv' /\ ClearOK(r)' BY <1>0, <1>4, DispatchKeeps
  <2>2. ASSUME NEW s \in Runner \ {r} PROVE ClearOK(s)'
    <3>1. pc[s] \in Asleep
      <4>1. pc[r] \notin Asleep BY <1>4 DEF Dispatch, Asleep
      <4>. QED BY <4>1 DEF RunnerInv, TurnInv
    <3>2. pc'[s] \notin {"dispatch", "saveDispatch", "spawn"} BY <1>2, <3>1 DEF Asleep
    <3>. QED BY <3>2, ClearElsewhere
  <2>. QED BY <2>1, <2>2 DEF HeadInv
<1>5. CASE Spawn(r)
  <2>1. KeptInv' /\ ClearOK(r)' BY <1>0, <1>5, SpawnKeeps
  <2>2. pc'[r] = "loadPid" BY <1>0, <1>5 DEF Spawn, Goto
  <2>. QED BY <1>3, <2>1, <2>2 DEF HeadInv
<1>6. ASSUME NEW p \in Pid, HearClose(r, p) PROVE HeadInv'
  <2>1. KeptInv' BY <1>0, <1>6, CloseKeeps
  <2>2. pc'[r] \in {"saveClosed", "threw"}
    BY <1>0, <1>6 DEF HearClose, Throw, End, Handle, Prepare, Goto
  <2>3. ClearOK(r)' BY <2>2, ClearElsewhere
  <2>4. Hear(r, p) BY <1>6 DEF Hear
  <2>. QED BY <1>3, <2>1, <2>3, <2>4 DEF HeadInv
<1>7. CASE ~Dispatch(r) /\ ~Spawn(r) /\ \A p \in Pid : ~HearClose(r, p)
  <2>1. head' = head BY <1>1, <1>7, RunnerHead
  <2>2. Fewer(child, child') BY <1>0, <1>1, <1>7, RunnerFewer
  <2>3. KeptInv' BY <1>0, <2>1, <2>2, KeptStays
  <2>4. CASE pc'[r] \in {"dead", "threw"}
    <3>1. queue' = queue BY <2>4, EndsOK
    <3>2. \A s \in Runner \ {r} : ClearOK(s)' BY <1>0, <1>2, <2>1, <2>2, <3>1, ClearStays
    <3>3. ClearOK(r)' BY <2>4, ClearElsewhere
    <3>. QED BY <2>3, <3>2, <3>3 DEF HeadInv
  <2>5. CASE pc'[r] \notin {"dead", "threw"}
    <3>1. ClearOK(r)'
      <4>1. CASE Fill(r) BY <1>0, <4>1, FillClears
      <4>2. CASE SaveDispatch(r)
        <5>1. pc[r] = "saveDispatch" /\ pc'[r] = "spawn" /\ child' = child /\ target' = target
          BY <1>0, <4>2 DEF SaveDispatch, Goto
        <5>. QED BY <1>0, <2>1, <5>1 DEF ClearOK
      <4>3. CASE ~Fill(r) /\ ~SaveDispatch(r)
        <5>1. ASSUME NEW p \in Pid, HearInit(r, p) \/ HearUsage(r, p)
              PROVE  pc'[r] \notin {"dispatch", "saveDispatch", "spawn"}
          BY <1>0, <5>1 DEF HearInit, HearUsage, Throw, End, Handle, Prepare, Goto
        <5>2. ASSUME TakeLock(r) \/ Reconcile(r) \/ SaveReconciled(r) \/ Top(r) \/ Exit(r) \/ Crash(r)
              PROVE  pc'[r] \notin {"dispatch", "saveDispatch", "spawn"}
          BY <1>0, <5>2 DEF TakeLock, Reconcile, SaveReconciled, Top, Exit, Crash, Save, Prepare, Goto, End
        <5>3. ASSUME SavePark(r) \/ LoadPid(r) \/ SavePid(r) \/ SaveHeard(r) \/ SaveClosed(r) \/ Wake(r)
              PROVE  pc'[r] \notin {"dispatch", "saveDispatch", "spawn"}
          BY <1>0, <5>3 DEF SavePark, Dispatching, LoadPid, SavePid, SaveHeard, SaveClosed, Wake,
             Save, Prepare, Goto, End, Throw
        <5>4. pc'[r] \notin {"dispatch", "saveDispatch", "spawn"}
          BY <1>1, <1>7, <4>3, <5>1, <5>2, <5>3 DEF RunnerStep, Stretch, Hear
        <5>. QED BY <5>4, ClearElsewhere
      <4>. QED BY <4>1, <4>2, <4>3
    <3>2. \A s \in Runner \ {r} : ClearOK(s)' BY <1>3, <2>5
    <3>. QED BY <2>3, <3>1, <3>2 DEF HeadInv
  <2>. QED BY <2>4, <2>5
<1>. QED BY <1>4, <1>5, <1>6, <1>7

LEMMA HeadInvStep ==
  ASSUME ~Overlapping, "crashAtSpawn" \notin Faults, "spawn" \notin Faults,
         RunnerInv, HeadInv, [Next]_vars
  PROVE  HeadInv'
<1>0. TypeInv /\ DOMAIN pc = Runner /\ KeptInv /\ \A s \in Runner : ClearOK(s)
  BY DEF RunnerInv, OwnerInv, HeadInv
<1>1. CASE \E r \in Runner : RunnerStep(r) BY <1>1, RunnerKeeps
<1>2. ASSUME UNCHANGED <<child, head>>, \A s \in Runner : \/ UNCHANGED <<queue, target>> /\ pc'[s] = pc[s]
                                                         \/ pc'[s] \in Asleep \union {"lock"}
      PROVE  HeadInv'
  <2>1. Fewer(child, child') BY <1>2 DEF Fewer, Kin
  <2>2. ASSUME NEW s \in Runner PROVE ClearOK(s)'
    <3>1. CASE pc'[s] \in Asleep \union {"lock"} BY <3>1, ClearElsewhere DEF Asleep
    <3>2. CASE UNCHANGED <<queue, target>> /\ pc'[s] = pc[s] BY <1>0, <1>2, <2>1, <3>2, ClearStays
    <3>. QED BY <1>2, <3>1, <3>2
  <2>3. KeptInv' BY <1>0, <1>2, <2>1, KeptStays
  <2>. QED BY <2>2, <2>3 DEF HeadInv
<1>3. CASE UNCHANGED vars BY <1>2, <1>3 DEF vars, disk
<1>4. ASSUME NEW r \in Runner, NEW m \in Mode, Start(r, m) PROVE HeadInv'
  <2>1. UNCHANGED <<child, head, queue, target>> /\ \A s \in Runner : pc'[s] = pc[s] \/ pc'[s] \in {"lock", "dead"}
    BY <1>0, <1>4 DEF Start, Goto, disk
  <2>. QED BY <1>2, <2>1 DEF Asleep
<1>5. CASE User
  <2>1. \A s \in Runner : pc'[s] \in Asleep
    <3>1. MayEnter => \A s \in Runner : pc[s] \in Asleep BY DEF MayEnter, Quiet
    <3>2. SaveCommand \/ MarkAndKill => command # NoCommand BY DEF SaveCommand, MarkAndKill
    <3>. QED BY <1>0, <1>5, <3>1, <3>2, UserMoves, CommandsSpare DEF RunnerInv, TurnInv
  <2>2. Fewer(child, child') BY <1>0, <1>5, OthersChildren
  <2>3. head' = head
    BY <1>5 DEF User, Add, Adopt, Rm, Approve, Stop, Move, Pause, Cleanup, CleanupOf, RemoveTrees,
       MarkAndKill, SaveCommand, WillSave, disk
  <2>4. KeptInv' BY <1>0, <2>2, <2>3, KeptStays
  <2>5. \A s \in Runner : ClearOK(s)'
    <3>1. \A s \in Runner : pc'[s] \notin {"dispatch", "saveDispatch", "spawn"} BY <2>1 DEF Asleep
    <3>. QED BY <3>1, ClearElsewhere
  <2>. QED BY <2>4, <2>5 DEF HeadInv
<1>6. ASSUME NEW c \in Project, UserCheckout(c) PROVE HeadInv'
  <2>1. /\ UNCHANGED <<child, pc, queue>> /\ \A s \in Runner : pc[s] \in Asleep
        /\ \A d \in Project \ {c} : head'[d] = head[d]
    BY <1>0, <1>6 DEF UserCheckout, Quiet, TypeInv
  <2>2. Fits(queue, child)
    <3>1. \A s \in Runner : pc[s] \notin {"loadPid", "savePid", "saveClosed"} BY <2>1 DEF Asleep
    <3>. QED BY <1>0, <3>1, DiskFits DEF RunnerInv
  <2>3. ASSUME NEW p \in Pid, InFolder(child, p, c) PROVE FALSE
    <3>1. Names(queue, p, child[p]) BY <1>0, <2>2, <2>3 DEF InFolder, Fits, Right, KeptInv
    <3>. QED BY <1>6, <2>3, <3>1 DEF Names, Has, InFolder, UserCheckout
  <2>4. KeptInv'
    <3>1. \A d \in Project : \A p \in Pid : InFolder(child', p, d) => InFolder(child, p, d) /\ d # c
      BY <2>1, <2>3
    <3>. QED BY <1>0, <2>1, <3>1 DEF KeptInv
  <2>5. \A s \in Runner : ClearOK(s)'
    <3>1. \A s \in Runner : pc'[s] \notin {"dispatch", "saveDispatch", "spawn"} BY <2>1 DEF Asleep
    <3>. QED BY <3>1, ClearElsewhere
  <2>. QED BY <2>4, <2>5 DEF HeadInv
<1>7. CASE Machine /\ ~\E c \in Project : UserCheckout(c)
  <2>1. Fewer(child, child') BY <1>0, <1>7, OthersChildren
  <2>2. UNCHANGED <<head, queue, pc, target>> BY <1>7 DEF Machine, Say, Finish, Tick, disk
  <2>3. KeptInv' BY <1>0, <2>1, <2>2, KeptStays
  <2>4. \A s \in Runner : ClearOK(s)' BY <1>0, <2>1, <2>2, ClearStays
  <2>. QED BY <2>3, <2>4 DEF HeadInv
<1>. QED BY <1>1, <1>3, <1>4, <1>5, <1>6, <1>7 DEF Next, RunnerStep, Machine

\* "An in-folder task needs exclusive use of its project's main checkout": while a process
\* works in a checkout, nobody moves it to another branch, for any number of tasks,
\* projects and slots, and over crashes of the runner.
THEOREM CheckoutIsKept ==
  ASSUME ~Overlapping, "crashAtSpawn" \notin Faults, "spawn" \notin Faults
  PROVE  Spec => []HeadFollowsRun
<1>1. Init => HeadInv
  <2>1. Init => \A p \in Pid : child[p] = NoChild BY DEF Init
  <2>2. Init => \A r \in Runner : ClearOK(r) BY DEF Init, ClearOK
  <2>. QED BY <2>1, <2>2 DEF HeadInv, KeptInv, InFolder
<1>2. RunnerInv /\ HeadInv /\ [Next]_vars => HeadInv' BY HeadInvStep
<1>3. ASSUME RunnerInv, HeadInv PROVE HeadFollowsRun
  <2>. SUFFICES ASSUME NEW p \in Pid, Up(p), Iso[child[p].task] = "infolder"
                PROVE  head[Cwd[child[p].task]] = child[p].task
    BY DEF HeadFollowsRun
  <2>1. child[p] # NoChild /\ child[p].task \in Task
    BY <1>3 DEF Up, RunnerInv, TypeInv, Child
  <2>2. Cwd[child[p].task] \in Project BY <2>1, CwdType
  <2>3. InFolder(child, p, Cwd[child[p].task]) BY <2>1 DEF InFolder
  <2>. QED BY <1>3, <2>2, <2>3 DEF HeadInv, KeptInv
<1>4. RunnerInv /\ HeadInv => HeadFollowsRun BY <1>3
<1>. QED BY <1>1, <1>2, <1>4, RunnerInvAlways, PTL DEF Spec

-----------------------------------------------------------------------------
(***************************************************************************)
(* The conversation of a task.                                             *)
(***************************************************************************)
\* A queue that has lost no session id of the tasks H.
Remembers(q, H) == \A t \in H : t \in Present(q) => q.task[t].session = TRUE

\* Nor will a runner's save lose one; and what it saves on a report has the session id.
MindOK(r) ==
  pc[r] \in Saving =>
    /\ heard \subseteq Present(snap[r]) /\ Remembers(snap[r], heard)
    /\ pc[r] = "saveHeard" =>
         /\ target[r].task \in Present(snap[r])
         /\ snap[r].task[target[r].task].session = TRUE

\* A process that has reported its session id was started, and its runner has saved the
\* id or is about to.
ToldInv ==
  \A p \in Pid : child[p] # NoChild =>
    /\ child[p].said = TRUE \/ child[p].told = TRUE => child[p].phase \in {"up", "exited"}
    /\ child[p].told = TRUE /\ child[p].parent # NoRunner =>
         \/ child[p].task \in heard
         \/ pc[child[p].parent] = "saveHeard" /\ target[child[p].parent].task = child[p].task

HeardInv ==
  /\ heard \subseteq Present(queue) /\ Remembers(queue, heard)
  /\ command # NoCommand /\ command.does = "save" => Remembers(command.queue, heard)
  /\ ToldInv
  /\ \A r \in Runner : MindOK(r)

LEMMA UpdatedRemembers ==
  ASSUME NEW q, QueueType(q), NEW t \in Present(q), NEW record \in Record,
         q.task[t].session = TRUE => record.session = TRUE, NEW H, Remembers(q, H)
  PROVE  Remembers(Updated(q, t, record), H) /\ Present(Updated(q, t, record)) = Present(q)
<1>1. /\ Updated(q, t, record).task[t] = record
      /\ \A u \in Task \ {t} : Updated(q, t, record).task[u] = q.task[u]
      /\ Present(Updated(q, t, record)) = Present(q)
  BY UpdatedOK
<1>2. Present(q) \subseteq Task BY DEF Present
<1>. QED BY <1>1, <1>2 DEF Remembers

\* What a queue keeps of another: the sessions of the tasks that both have.
LEMMA KeptRemembers ==
  ASSUME NEW q, NEW q2, NEW H, H \subseteq Present(q), Remembers(q, H),
         \A t \in Present(q) : t \in Present(q2) => q2.task[t].session = q.task[t].session
  PROVE  Remembers(q2, H)
BY DEF Remembers

LEMMA CommandsRemember ==
  ASSUME TypeInv, HeardInv, User, ~SaveCommand, ~MarkAndKill
  PROVE  /\ heard' = heard
         /\ command' # NoCommand /\ command'.does = "save" => Remembers(command'.queue, heard)
<1>. USE DEF WillSave, MayType
<1>0. QueueType(queue) /\ heard \subseteq Present(queue) /\ Remembers(queue, heard) BY DEF TypeInv, HeardInv
<1>1. ASSUME NEW record, queue.nextId <= MaxTasks, WillSave(WithTask(queue, record))
      PROVE  heard' = heard /\ Remembers(command'.queue, heard)
  <2> DEFINE n == queue.nextId
             f == [queue.task EXCEPT ![n] = record]
             o == Append(queue.order, n)
  <2>1. \A t \in Present(queue) : t < n /\ t \in Nat BY <1>0 DEF QueueType, Present, Task
  <2>2. n \in Nat BY <1>0 DEF QueueType
  <2>3. \A t \in Present(queue) : f[t] = queue.task[t]
    BY <1>0, <2>1, <2>2 DEF QueueType, Present
  <2>4. WithTask(queue, record) = [queue EXCEPT !.task = f, !.order = o, !.nextId = n + 1]
    BY Zenon DEF WithTask
  <2> HIDE DEF f, n, o
  <2>5. WithTask(queue, record).task = f BY <1>0, <2>4 DEF QueueType
  <2>6. Remembers(WithTask(queue, record), heard) BY <1>0, <2>3, <2>5, KeptRemembers
  <2>. QED BY <1>1, <2>6
<1>2. CASE Add BY <1>1, <1>2 DEF Add
<1>3. CASE Adopt BY <1>1, <1>3 DEF Adopt
<1>4. ASSUME NEW t \in Task, Rm(t) PROVE heard' = heard /\ Remembers(command'.queue, heard)
  <2>1. \A u \in Present(Without(queue, {t})) : Without(queue, {t}).task[u] = queue.task[u]
    <3> DEFINE f == [u \in Task |-> IF u \in {t} THEN NoTask ELSE queue.task[u]]
               o == Remaining(queue.order, {t})
    <3>1. Without(queue, {t}) = [queue EXCEPT !.task = f, !.order = o] BY Zenon DEF Without
    <3>2. \A u \in Task : f[u] # NoTask => f[u] = queue.task[u] OBVIOUS
    <3> HIDE DEF f, o
    <3>3. Without(queue, {t}).task = f BY <1>0, <3>1 DEF QueueType
    <3>. QED BY <3>2, <3>3 DEF Present
  <2>2. Remembers(Without(queue, {t}), heard) BY <1>0, <2>1, KeptRemembers
  <2>. QED BY <1>4, <2>2 DEF Rm
<1>5. ASSUME NEW t \in Task, Approve(t) PROVE heard' = heard /\ Remembers(command'.queue, heard)
  <2> DEFINE old == queue.task[t]
             record == [old EXCEPT !.status = "pending", !.plan = FALSE]
  <2>1. t \in Present(queue) /\ old \in Record
    BY <1>0, <1>5 DEF Approve, Has, Present, QueueType
  <2>2. record \in Record /\ record.session = old.session
    <3>1. "pending" \in Status BY DEF Status
    <3>. HIDE DEF old
    <3>. QED BY <2>1, <3>1 DEF Record
  <2>3. WillSave(Updated(queue, t, record)) BY <1>5 DEF Approve
  <2>. HIDE DEF record
  <2>4. Remembers(Updated(queue, t, record), heard) BY <1>0, <2>1, <2>2, UpdatedRemembers
  <2>. QED BY <2>3, <2>4
<1>6. ASSUME NEW i, NEW where, Move(i, where)
      PROVE  heard' = heard /\ Remembers(command'.queue, heard)
  <2> DEFINE o == InsertAt(RemoveAt(queue.order, i), Place(queue.order, i, where), queue.order[i])
  <2>1. Moved(queue, i, where) = [queue EXCEPT !.order = o] BY Zenon DEF Moved
  <2>2. WillSave(Moved(queue, i, where)) BY <1>6 DEF Move
  <2>. HIDE DEF o
  <2>3. Moved(queue, i, where).task = queue.task BY <1>0, <2>1 DEF QueueType
  <2>. QED BY <1>0, <2>2, <2>3 DEF Remembers, Present
<1>7. ASSUME NEW on, Pause(on) PROVE heard' = heard /\ Remembers(command'.queue, heard)
  <2>1. [queue EXCEPT !.paused = on].task = queue.task BY <1>0 DEF QueueType
  <2>. QED BY <1>0, <1>7, <2>1 DEF Pause, Remembers, Present
<1>8. ASSUME NEW T \in SUBSET Present(queue), NEW all \in BOOLEAN, RemoveTrees(T, all)
      PROVE  heard' = heard /\ Remembers(command'.queue, heard)
  <2> DEFINE f == [t \in Task |-> IF t \in T THEN [queue.task[t] EXCEPT !.worktree = FALSE] ELSE queue.task[t]]
             kept == [queue EXCEPT !.task = f]
             over == {t \in Present(queue) : queue.task[t].status \in Finished}
  <2>1. \A t \in Present(queue) : f[t].session = queue.task[t].session
    <3>. TAKE t \in Present(queue)
    <3>1. t \in Task /\ queue.task[t] \in Record BY <1>0 DEF Present, QueueType
    <3>2. f[t] = IF t \in T THEN [queue.task[t] EXCEPT !.worktree = FALSE] ELSE queue.task[t] BY <3>1
    <3>. HIDE DEF f
    <3>. QED BY <3>1, <3>2 DEF Record
  <2>2. kept.task = f
    <3>. HIDE DEF f
    <3>. QED BY <1>0 DEF QueueType
  <2>3. QueueType(queue) /\ kept = [task |-> f, order |-> queue.order, nextId |-> queue.nextId,
                                    paused |-> queue.paused]
    <3>. HIDE DEF f
    <3>. QED BY <1>0 DEF QueueType
  <2>4. \A t \in Present(Without(kept, over)) : Without(kept, over).task[t] = f[t]
    <3> DEFINE g == [u \in Task |-> IF u \in over THEN NoTask ELSE kept.task[u]]
               o == Remaining(kept.order, over)
    <3>. HIDE DEF kept, over
    <3>1. Without(kept, over) = [kept EXCEPT !.task = g, !.order = o] BY Zenon DEF Without
    <3>2. \A u \in Task : g[u] # NoTask => g[u] = kept.task[u] OBVIOUS
    <3>. HIDE DEF f, g, o
    <3>3. Without(kept, over).task = g BY <2>3, <3>1
    <3>. QED BY <2>2, <3>2, <3>3 DEF Present
  <2>5. CleanedUp(queue, T, all) = IF all THEN Without(kept, over) ELSE kept
    BY DEF CleanedUp
  <2>. HIDE DEF f, kept, over
  <2>6. Remembers(Without(kept, over), heard) BY <1>0, <2>1, <2>4, KeptRemembers
  <2>7. Remembers(kept, heard) BY <1>0, <2>1, <2>2, KeptRemembers
  <2>. QED BY <1>8, <2>5, <2>6, <2>7 DEF RemoveTrees
<1>9. ASSUME NEW t \in Task, Stop(t) PROVE heard' = heard /\ command'.does = "stop"
  BY <1>9 DEF Stop
<1>10. ASSUME NEW all \in BOOLEAN, Cleanup(all) PROVE \E T \in SUBSET Present(queue) : RemoveTrees(T, all)
  BY <1>10 DEF Cleanup, Cleanable
<1>11. ASSUME NEW t \in Task, NEW all \in BOOLEAN, CleanupOf(t, all)
       PROVE  \E T \in SUBSET Present(queue) : RemoveTrees(T, all)
  BY <1>11 DEF CleanupOf
<1>. HIDE DEF WillSave, MayType
<1>12. CASE \E all \in BOOLEAN : Cleanup(all) \/ \E t \in Task : CleanupOf(t, all)
  BY <1>8, <1>10, <1>11, <1>12
<1>. QED BY <1>2, <1>3, <1>4, <1>5, <1>6, <1>7, <1>9, <1>12 DEF User

\* Nothing new is told, but for a session id that runner r is about to save.
LEMMA ToldStays ==
  ASSUME ToldInv, NEW r \in Runner \union {NoRunner},
         \A s \in Runner \ {r} : pc'[s] = pc[s] /\ target'[s] = target[s],
         \A p \in Pid : child'[p] # NoChild => child'[p].parent \in Runner \union {NoRunner},
         \A p \in Pid : child'[p] # NoChild /\ (child'[p].said = TRUE \/ child'[p].told = TRUE) =>
           /\ child[p] # NoChild
           /\ child'[p].task = child[p].task /\ child'[p].parent \in {child[p].parent, NoRunner}
           /\ \/ child'[p].phase \in {"up", "exited"}
              \/ /\ child'[p].said = child[p].said /\ child'[p].told = child[p].told
                 /\ child[p].phase \notin {"up", "exited"}
           /\ \/ pc'[r] = "saveHeard" /\ child'[p].parent = r /\ target'[r].task = child'[p].task
              \/ /\ child'[p].told = child[p].told
                 /\ child'[p].parent # NoRunner =>
                      /\ child[p].task \in heard => child[p].task \in heard'
                      /\ child[p].parent = r /\ pc[r] = "saveHeard" /\ target[r].task = child[p].task
                           => child[p].task \in heard'
  PROVE  ToldInv'
<1>. SUFFICES ASSUME NEW p \in Pid, child'[p] # NoChild
              PROVE  /\ child'[p].said = TRUE \/ child'[p].told = TRUE => child'[p].phase \in {"up", "exited"}
                     /\ child'[p].told = TRUE /\ child'[p].parent # NoRunner =>
                          \/ child'[p].task \in heard'
                          \/ /\ pc'[child'[p].parent] = "saveHeard"
                             /\ target'[child'[p].parent].task = child'[p].task
  BY DEF ToldInv
<1>1. child'[p].said = TRUE \/ child'[p].told = TRUE => child'[p].phase \in {"up", "exited"}
  BY DEF ToldInv
<1>2. ASSUME child'[p].told = TRUE, child'[p].parent # NoRunner
      PROVE  \/ child'[p].task \in heard'
             \/ /\ pc'[child'[p].parent] = "saveHeard"
                /\ target'[child'[p].parent].task = child'[p].task
  <2>1. CASE pc'[r] = "saveHeard" /\ child'[p].parent = r /\ target'[r].task = child'[p].task
    BY <2>1
  <2>2. CASE ~(pc'[r] = "saveHeard" /\ child'[p].parent = r /\ target'[r].task = child'[p].task)
    <3>1. /\ child[p] # NoChild /\ child[p].told = TRUE /\ child'[p].task = child[p].task
          /\ child'[p].parent = child[p].parent
          /\ child[p].task \in heard => child[p].task \in heard'
          /\ child[p].parent = r /\ pc[r] = "saveHeard" /\ target[r].task = child[p].task
               => child[p].task \in heard'
      BY <1>2, <2>2
    <3>2. \/ child[p].task \in heard
          \/ pc[child[p].parent] = "saveHeard" /\ target[child[p].parent].task = child[p].task
      BY <1>2, <3>1 DEF ToldInv
    <3>3. child[p].parent # r => child[p].parent \in Runner \ {r} BY <1>2, <3>1
    <3>. QED BY <3>1, <3>2, <3>3
  <2>. QED BY <2>1, <2>2
<1>. QED BY <1>1, <1>2

\* As it is while the processes stay as they are.
LEMMA ToldKept ==
  ASSUME ToldInv, TypeInv, NEW r \in Runner \union {NoRunner},
         \A s \in Runner \ {r} : pc'[s] = pc[s] /\ target'[s] = target[s],
         child' = child, heard \subseteq heard',
         r \in Runner /\ pc[r] = "saveHeard" => target[r].task \in heard'
  PROVE  ToldInv'
<1>1. \A p \in Pid : child[p] # NoChild => child[p].parent \in Runner \union {NoRunner}
  BY DEF TypeInv, Child
<1>. QED BY <1>1, ToldStays DEF ToldInv

LEMMA OthersStay ==
  ASSUME OwnerInv, TypeInv, NEW r \in Runner, RunnerStep(r)
  PROVE  \A s \in Runner \ {r} : pc'[s] = pc[s] /\ target'[s] = target[s]
<1>1. DOMAIN pc = Runner BY DEF OwnerInv
<1>2. pc' = [pc EXCEPT ![r] = pc'[r]] BY <1>1, RunnerMoves
<1>3. \A s \in Runner \ {r} : target'[s] = target[s] BY RunnerFrame
<1>. QED BY <1>1, <1>2, <1>3

\* What a runner saves is on disk, or its queue is as it was; it hears nothing new.
LEMMA HeardSaves ==
  ASSUME ~Overlapping, RunnerInv, HeardInv, NEW r \in Runner,
         \/ TakeLock(r) \/ SaveReconciled(r) \/ Top(r) \/ Fill(r) \/ SavePark(r) \/ SaveDispatch(r)
         \/ SavePid(r) \/ SaveHeard(r) \/ SaveClosed(r) \/ Wake(r)
  PROVE  HeardInv'
<1>. USE DEF Goto, Save, disk
<1>0. /\ TypeInv /\ OwnerInv /\ DOMAIN pc = Runner /\ MindOK(r) /\ ToldInv
      /\ heard \subseteq Present(queue) /\ Remembers(queue, heard)
      /\ \A p \in Pid : child[p] # NoChild => child[p].parent \in Runner \union {NoRunner}
  BY DEF RunnerInv, OwnerInv, HeardInv, TypeInv, Child
<1>1. RunnerStep(r) BY DEF RunnerStep, Stretch
<1>2. /\ child' = child /\ pc'[r] \notin Saving \union {"dead", "threw"}
      /\ \/ /\ pc[r] # "saveHeard" /\ heard' = heard
            /\ queue' = queue \/ (pc[r] \in Saving /\ queue' = snap[r])
         \/ /\ pc[r] = "saveHeard" /\ heard' = heard \union {target[r].task}
            /\ queue' = snap[r]
  <2>1. CASE TakeLock(r) \/ Top(r) \/ Wake(r) \/ Fill(r)
    BY <1>0, <2>1 DEF TakeLock, Top, Wake, Fill, Saving
  <2>2. CASE SaveReconciled(r) \/ SavePark(r) \/ SavePid(r) \/ SaveDispatch(r)
    BY <1>0, <2>2 DEF SaveReconciled, SavePark, Dispatching, SavePid, SaveDispatch, Saving
  <2>3. CASE SaveHeard(r) \/ SaveClosed(r)
    BY <1>0, <2>3 DEF SaveHeard, SaveClosed, Saving
  <2>. QED BY <2>1, <2>2, <2>3
<1>3. /\ \A s \in Runner \ {r} : pc'[s] = pc[s] /\ pc[s] \in Asleep
      /\ \A s \in Runner \ {r} : target'[s] = target[s]
      /\ command' = command
  <2>1. pc' = [pc EXCEPT ![r] = pc'[r]] /\ \A s \in Runner \ {r} : pc[s] \in Asleep
    BY <1>1, <1>2, Solo
  <2>2. \A s \in Runner \ {r} : target'[s] = target[s] BY <1>0, <1>1, RunnerFrame
  <2>3. command' = command BY <1>0, <1>1, RunnerMoves
  <2>. QED BY <1>0, <2>1, <2>2, <2>3
<1>4. heard' \subseteq Present(queue') /\ Remembers(queue', heard')
  BY <1>0, <1>2 DEF MindOK, Remembers, Saving
<1>5. ToldInv'
  <2>1. heard \subseteq heard' /\ (pc[r] = "saveHeard" => target[r].task \in heard') BY <1>2
  <2>. QED BY <1>0, <1>2, <1>3, <2>1, ToldKept
<1>6. \A s \in Runner : MindOK(s)'
  BY <1>2, <1>3 DEF MindOK, Saving, Asleep
<1>7. command' = NoCommand
  <2>1. CASE pc[r] \in Asleep
    BY <1>2, <2>1, RunnerMoves, <1>0, <1>1, <1>3 DEF Asleep, MayEnter, Quiet
  <2>2. CASE pc[r] \notin Asleep BY <1>3, <2>2 DEF RunnerInv, TurnInv
  <2>. QED BY <2>1, <2>2
<1>. QED BY <1>4, <1>5, <1>6, <1>7 DEF HeardInv

\* What it has prepared to save keeps every session id.
LEMMA HeardPrepares ==
  ASSUME ~Overlapping, RunnerInv, HeardInv, NEW r \in Runner, RunnerStep(r),
         pc'[r] \notin {"dead", "threw"}, pc[r] # "saveHeard",
         queue' = queue, heard' = heard, ToldInv',
         pc'[r] \in Saving => Present(snap'[r]) = Present(queue) /\ Remembers(snap'[r], heard),
         pc'[r] = "saveHeard" => /\ target'[r].task \in Present(snap'[r])
                                 /\ snap'[r].task[target'[r].task].session = TRUE
  PROVE  HeardInv'
<1>0. /\ OwnerInv /\ TypeInv /\ DOMAIN pc = Runner
      /\ heard \subseteq Present(queue) /\ Remembers(queue, heard)
      /\ command # NoCommand /\ command.does = "save" => Remembers(command.queue, heard)
  BY DEF RunnerInv, OwnerInv, HeardInv
<1>1. pc' = [pc EXCEPT ![r] = pc'[r]] /\ \A s \in Runner \ {r} : pc[s] \in Asleep BY Solo
<1>2. command' = command BY <1>0, RunnerMoves
<1>3. ASSUME NEW s \in Runner PROVE MindOK(s)'
  <2>1. CASE s = r BY <1>0, <2>1 DEF MindOK
  <2>2. CASE s # r
    <3>1. pc'[s] \notin Saving BY <1>0, <1>1, <2>2 DEF Saving, Asleep
    <3>. QED BY <3>1 DEF MindOK
  <2>. QED BY <2>1, <2>2
<1>. QED BY <1>0, <1>2, <1>3 DEF HeardInv

LEMMA ReconciledRemembers ==
  ASSUME QueueType(queue), NEW H, Remembers(queue, H)
  PROVE  Present(Reconciled(queue)) = Present(queue) /\ Remembers(Reconciled(queue), H)
<1> DEFINE f == [t \in Task |-> IF t \in Interrupted(queue)
                   THEN [queue.task[t] EXCEPT !.status = "pending", !.lock = NoLock]
                   ELSE queue.task[t]]
<1>1. Reconciled(queue) = [queue EXCEPT !.task = f] BY Zenon DEF Reconciled
<1>2. ASSUME NEW t \in Task
      PROVE  (f[t] # NoTask <=> queue.task[t] # NoTask) /\ (f[t] # NoTask => f[t].session = queue.task[t].session)
  <2>1. CASE t \in Interrupted(queue)
    <3>1. queue.task[t] \in Record BY <2>1 DEF Interrupted, Present, QueueType
    <3>2. f[t] = [queue.task[t] EXCEPT !.status = "pending", !.lock = NoLock] BY <2>1
    <3>3. "pending" \in Status BY DEF Status
    <3>. HIDE DEF f
    <3>4. f[t] \in Record /\ f[t].session = queue.task[t].session BY <3>1, <3>2, <3>3 DEF Record
    <3>. QED BY <3>1, <3>4, NoTaskIsNoTask
  <2>2. CASE t \notin Interrupted(queue) BY <2>2
  <2>. QED BY <2>1, <2>2
<1>. HIDE DEF f
<1>3. Reconciled(queue).task = f BY <1>1 DEF QueueType
<1>4. Present(Reconciled(queue)) = Present(queue) BY <1>2, <1>3 DEF Present
<1>5. Present(queue) \subseteq Task BY DEF Present
<1>. QED BY <1>2, <1>3, <1>4, <1>5 DEF Remembers, Present

\* reconcile, dispatch and the record of a pid keep the session ids.
LEMMA HeardChanges ==
  ASSUME ~Overlapping, RunnerInv, HeardInv, NEW r \in Runner,
         Reconcile(r) \/ Dispatch(r) \/ LoadPid(r), pc'[r] \notin {"dead", "threw"}
  PROVE  HeardInv'
<1>0. /\ TypeInv /\ OwnerInv /\ DOMAIN pc = Runner /\ DOMAIN snap = Runner /\ RunnerOK(r)
      /\ ToldInv /\ Remembers(queue, heard) /\ QueueType(queue)
  BY DEF RunnerInv, OwnerInv, HeardInv, TypeInv
<1>1. RunnerStep(r) BY DEF RunnerStep, Stretch
<1>2. /\ queue' = queue /\ heard' = heard /\ child' = child
      /\ pc[r] # "saveHeard" /\ pc'[r] # "saveHeard"
      /\ pc'[r] \in Saving => Present(snap'[r]) = Present(queue) /\ Remembers(snap'[r], heard)
  <2>1. CASE Reconcile(r)
    <3>1. /\ pc[r] = "reconcile" /\ pc'[r] \in {"top", "saveReconciled"}
          /\ queue' = queue /\ child' = child /\ heard' = heard
          /\ pc'[r] = "saveReconciled" => snap'[r] = Reconciled(queue)
      BY <1>0, <2>1 DEF Reconcile, Goto, Prepare, disk
    <3>2. Present(Reconciled(queue)) = Present(queue) /\ Remembers(Reconciled(queue), heard)
      BY <1>0, ReconciledRemembers
    <3>3. pc'[r] \in Saving => pc'[r] = "saveReconciled" BY <3>1 DEF Saving
    <3>. QED BY <3>1, <3>2, <3>3
  <2>2. CASE Dispatch(r)
    <3>1. /\ pc[r] = "dispatch" /\ target[r].task \in Present(queue)
          /\ queue' = queue /\ child' = child /\ heard' = heard
      BY <1>0, <2>2, DispatchPrepares DEF OwnerInv
    <3>2. PICK record \in Record :
            /\ snap'[r] = Updated(queue, target[r].task, record)
            /\ record.session = queue.task[target[r].task].session
            /\ pc'[r] = "savePark" \/ pc'[r] = "saveDispatch"
      BY <1>0, <2>2, DispatchPrepares DEF OwnerInv
    <3>3. Remembers(snap'[r], heard) /\ Present(snap'[r]) = Present(queue)
      BY <1>0, <3>1, <3>2, UpdatedRemembers
    <3>. QED BY <3>1, <3>2, <3>3
  <2>3. CASE LoadPid(r)
    <3>1. /\ pc'[r] = "savePid" /\ target[r].task \in Present(queue) /\ pc[r] = "loadPid"
          /\ queue' = queue /\ child' = child /\ heard' = heard
      BY <1>0, <2>3, LoadPidPrepares DEF Locked, Has, LoadPid
    <3>2. PICK record \in Record :
            /\ snap'[r] = Updated(queue, target[r].task, record)
            /\ record.session = queue.task[target[r].task].session
      BY <1>0, <2>3, LoadPidPrepares
    <3>3. Remembers(snap'[r], heard) /\ Present(snap'[r]) = Present(queue)
      BY <1>0, <3>1, <3>2, UpdatedRemembers
    <3>. QED BY <3>1, <3>2, <3>3
  <2>. QED BY <2>1, <2>2, <2>3
<1>3. ToldInv'
  <2>1. \A s \in Runner \ {r} : pc'[s] = pc[s] /\ target'[s] = target[s]
    BY <1>0, <1>1, OthersStay
  <2>. QED BY <1>0, <1>2, <2>1, ToldKept
<1>. QED BY <1>1, <1>2, <1>3, HeardPrepares

\* A process starts with nothing said.
LEMMA HeardSpawn ==
  ASSUME ~Overlapping, RunnerInv, HeardInv, NEW r \in Runner, Spawn(r)
  PROVE  HeardInv'
<1>0. /\ TypeInv /\ OwnerInv /\ DOMAIN pc = Runner /\ DOMAIN child = Pid
      /\ ToldInv /\ \A p \in Pid : child[p] # NoChild => child[p] \in Child
  BY DEF RunnerInv, OwnerInv, HeardInv, TypeInv
<1>1. RunnerStep(r) BY DEF RunnerStep, Stretch
<1>2. PICK p \in Pid, phase \in {"up", "unspawned"} :
        child' = [child EXCEPT ![p] = Process(r, target[r].task, snap[r].task[target[r].task], phase)]
  BY DEF Spawn
<1> DEFINE c == Process(r, target[r].task, snap[r].task[target[r].task], phase)
<1>3. c.said = FALSE /\ c.told = FALSE /\ c.parent = r BY DEF Process
<1>4. child'[p] = c /\ \A i \in Pid \ {p} : child'[i] = child[i]
  <2>. HIDE DEF c
  <2>. QED BY <1>0, <1>2 DEF c
<1>. HIDE DEF c
<1>5. queue' = queue /\ heard' = heard /\ pc[r] = "spawn" /\ pc'[r] = "loadPid"
  BY <1>0 DEF Spawn, Goto, disk
<1>6. ToldInv'
  <2>1. \A s \in Runner \ {r} : pc'[s] = pc[s] /\ target'[s] = target[s]
    BY <1>0, <1>1, OthersStay
  <2>2. \A i \in Pid : child[i] # NoChild => child[i].parent \in Runner \union {NoRunner}
    BY <1>0 DEF Child
  <2>3. \A i \in Pid : child'[i] # NoChild => child'[i].parent \in Runner \union {NoRunner}
    BY <1>3, <1>4, <2>2
  <2>. QED BY <1>0, <1>3, <1>4, <1>5, <2>1, <2>3, ToldStays DEF ToldInv
<1>. QED BY <1>1, <1>5, <1>6, HeardPrepares DEF Saving

\* What a runner hears of a session id it saves at once.
LEMMA HeardHears ==
  ASSUME ~Overlapping, RunnerInv, HeardInv, NEW r \in Runner, NEW p \in Pid,
         HearInit(r, p) \/ HearUsage(r, p), pc'[r] \notin {"dead", "threw"}
  PROVE  HeardInv'
<1> DEFINE t == child[p].task
           record == [queue.task[t] EXCEPT !.session = TRUE]
<1>0. /\ TypeInv /\ OwnerInv /\ DOMAIN pc = Runner /\ DOMAIN snap = Runner /\ DOMAIN child = Pid
      /\ DOMAIN target = Runner /\ QueueType(queue) /\ ToldInv
      /\ heard \subseteq Present(queue) /\ Remembers(queue, heard)
      /\ \A i \in Pid : child[i] # NoChild => child[i] \in Child
  BY DEF RunnerInv, OwnerInv, HeardInv, TypeInv
<1>1. RunnerStep(r) BY DEF RunnerStep, Hear
<1>2. /\ child[p] # NoChild /\ child[p].parent = r /\ pc[r] = "rest" /\ t \in Task
      /\ child[p] \in Child
  BY <1>0 DEF HearInit, HearUsage, Hears, Child
<1>3. /\ t \in Present(queue) /\ pc'[r] = "saveHeard" /\ queue' = queue /\ heard' = heard
      /\ target'[r] = [task |-> t, pid |-> p]
      /\ \/ /\ child' = child /\ snap'[r] = queue /\ child[p].told = TRUE
         \/ /\ child' = [child EXCEPT ![p].told = TRUE] /\ snap'[r] = Updated(queue, t, record)
            /\ child[p].said = TRUE
  BY <1>0, <1>2 DEF HearInit, HearUsage, Throw, End, Handle, Prepare, Goto, Named, Gone, Child
<1>4. target'[r].task = t BY <1>3
<1>5. /\ Present(snap'[r]) = Present(queue) /\ Remembers(snap'[r], heard)
      /\ t \in Present(snap'[r]) /\ snap'[r].task[t].session = TRUE
  <2>1. CASE child' = child /\ snap'[r] = queue /\ child[p].told = TRUE
    <3>1. t \in heard BY <1>0, <1>2, <2>1, NoRunnerIsNoRunner DEF ToldInv
    <3>. QED BY <1>0, <1>3, <2>1, <3>1 DEF Remembers
  <2>2. CASE snap'[r] = Updated(queue, t, record)
    <3>1. queue.task[t] \in Record BY <1>0, <1>3 DEF QueueType, Present
    <3>2. record \in Record /\ record.session = TRUE
      <4>. HIDE DEF t
      <4>. QED BY <3>1 DEF Record
    <3>. HIDE DEF record, t
    <3>3. Remembers(Updated(queue, t, record), heard) /\ Present(Updated(queue, t, record)) = Present(queue)
      BY <1>0, <1>3, <3>2, UpdatedRemembers
    <3>4. snap'[r].task[t] = record BY <1>0, <1>3, <2>2, <3>2, UpdatedOK
    <3>. QED BY <1>3, <2>2, <3>2, <3>3, <3>4
  <2>. QED BY <1>3, <2>1, <2>2
<1>6. ToldInv'
  <2>1. \A s \in Runner \ {r} : pc'[s] = pc[s] /\ target'[s] = target[s]
    BY <1>0, <1>1, OthersStay
  <2>2. CASE child' = child
    BY <1>0, <1>2, <1>3, <2>1, <2>2, ToldKept
  <2>3. CASE child' = [child EXCEPT ![p].told = TRUE] /\ child[p].said = TRUE
    <3>. HIDE DEF t
    <3>1. /\ \A i \in Pid \ {p} : child'[i] = child[i]
          /\ child'[p] \in Child /\ child'[p].parent = r /\ child'[p].said = child[p].said
          /\ child'[p].phase = child[p].phase /\ child'[p].task = child[p].task
      BY <1>0, <1>2, <2>3 DEF Child
    <3>2. child[p].phase \in {"up", "exited"} BY <1>0, <1>2, <2>3 DEF ToldInv
    <3>3. \A i \in Pid : child'[i] # NoChild => child'[i].parent \in Runner \union {NoRunner}
      BY <1>0, <3>1 DEF Child
    <3>4. target'[r].task = child'[p].task BY <1>4, <3>1 DEF t
    <3>. QED BY <1>0, <1>2, <1>3, <2>1, <3>1, <3>2, <3>3, <3>4, ToldStays DEF ToldInv
  <2>. QED BY <1>3, <2>2, <2>3
<1>. HIDE DEF t
<1>. QED BY <1>1, <1>2, <1>3, <1>4, <1>5, <1>6, HeardPrepares

\* The end of a process changes nothing about its session id.
LEMMA HeardCloses ==
  ASSUME ~Overlapping, RunnerInv, HeardInv, NEW r \in Runner, NEW p \in Pid,
         HearClose(r, p) \/ HearError(r, p), pc'[r] \notin {"dead", "threw"}
  PROVE  HeardInv'
<1> DEFINE t == child[p].task
<1>0. /\ TypeInv /\ OwnerInv /\ DOMAIN pc = Runner /\ DOMAIN child = Pid
      /\ QueueType(queue) /\ ToldInv /\ Remembers(queue, heard)
      /\ \A i \in Pid : child[i] # NoChild => child[i] \in Child
  BY DEF RunnerInv, OwnerInv, HeardInv, TypeInv
<1>1. RunnerStep(r) BY DEF RunnerStep, Hear
<1>2. /\ child[p] # NoChild /\ child[p] \in Child /\ t \in Present(queue)
      /\ queue' = queue /\ heard' = heard /\ pc[r] = "rest" /\ pc'[r] = "saveClosed"
  BY <1>0, ClosePrepares DEF OwnerInv
<1>3. PICK record \in Record :
        /\ snap'[r] = Updated(queue, t, record)
        /\ record.session = queue.task[t].session
        /\ \/ child' = [child EXCEPT ![p] = NoChild]
           \/ child' = [child EXCEPT ![p].phase = "errored"] /\ child[p].phase = "unspawned"
  BY <1>0, ClosePrepares DEF OwnerInv
<1>. HIDE DEF t
<1>4. Remembers(snap'[r], heard) /\ Present(snap'[r]) = Present(queue)
  <2>1. QueueType(queue) /\ Remembers(queue, heard) /\ t \in Present(queue) BY <1>0, <1>2
  <2>2. snap'[r] = Updated(queue, t, record) /\ (queue.task[t].session = TRUE => record.session = TRUE)
    BY <1>3
  <2>3. Remembers(Updated(queue, t, record), heard) /\ Present(Updated(queue, t, record)) = Present(queue)
    BY <2>1, <2>2, UpdatedRemembers
  <2>. QED BY <2>2, <2>3
<1>5. ToldInv'
  <2>1. \A s \in Runner \ {r} : pc'[s] = pc[s] /\ target'[s] = target[s]
    BY <1>0, <1>1, OthersStay
  <2>2. \A i \in Pid \ {p} : child'[i] = child[i] BY <1>0, <1>3
  <2>3. child'[p] # NoChild =>
          /\ child[p].phase = "unspawned" /\ child'[p].parent = child[p].parent
          /\ child'[p].said = child[p].said /\ child'[p].told = child[p].told
    BY <1>0, <1>2, <1>3 DEF Child
  <2>4. child'[p] # NoChild => child'[p].said # TRUE /\ child'[p].told # TRUE
    BY <1>0, <1>2, <2>3 DEF ToldInv
  <2>5. \A i \in Pid : child'[i] # NoChild => child'[i].parent \in Runner \union {NoRunner}
    BY <1>0, <1>2, <2>2, <2>3 DEF Child
  <2>6. \A i \in Pid : child'[i] # NoChild /\ (child'[i].said = TRUE \/ child'[i].told = TRUE) =>
          /\ child[i] # NoChild /\ child'[i].task = child[i].task
          /\ child'[i].parent = child[i].parent /\ child'[i].told = child[i].told
          /\ child'[i].phase \in {"up", "exited"}
    BY <1>0, <2>2, <2>4 DEF ToldInv
  <2>7. ToldInv /\ heard' = heard /\ pc[r] = "rest" BY <1>0, <1>2
  <2>. QED BY <2>1, <2>5, <2>6, <2>7, ToldStays DEF ToldInv
<1>. QED BY <1>1, <1>2, <1>4, <1>5, HeardPrepares

\* Nor does the end of a runner.
LEMMA HeardEnds ==
  ASSUME RunnerInv, HeardInv, "crashAtSpawn" \notin Faults, NEW r \in Runner, RunnerStep(r),
         pc'[r] \in {"dead", "threw"}, heard' = heard
  PROVE  HeardInv'
<1>0. /\ TypeInv /\ OwnerInv /\ DOMAIN pc = Runner /\ ToldInv
      /\ heard \subseteq Present(queue) /\ Remembers(queue, heard)
      /\ command # NoCommand /\ command.does = "save" => Remembers(command.queue, heard)
      /\ \A s \in Runner : MindOK(s)
      /\ \A p \in Pid : child[p] # NoChild => child[p] \in Child
  BY DEF RunnerInv, OwnerInv, HeardInv, TypeInv
<1>1. /\ pc' = [pc EXCEPT ![r] = pc'[r]] /\ command' = command /\ child' = Orphaned(r)
      /\ queue' = queue /\ \A s \in Runner \ {r} : snap'[s] = snap[s] /\ target'[s] = target[s]
  BY <1>0, RunnerMoves, RunnerFrame, EndsOK
<1>2. \A s \in Runner : MindOK(s)'
  <2>. SUFFICES ASSUME NEW s \in Runner PROVE MindOK(s)' OBVIOUS
  <2>1. CASE s = r BY <1>0, <2>1 DEF MindOK, Saving
  <2>2. CASE s # r BY <1>0, <1>1, <2>2 DEF MindOK
  <2>. QED BY <2>1, <2>2
<1>3. ToldInv'
  <2>1. ASSUME NEW p \in Pid, child'[p] # NoChild
        PROVE  /\ child[p] # NoChild /\ child'[p].task = child[p].task /\ child'[p].phase = child[p].phase
               /\ child'[p].said = child[p].said /\ child'[p].told = child[p].told
               /\ IF child[p].parent = r THEN child'[p].parent = NoRunner
                  ELSE child'[p].parent = child[p].parent
    <3>1. child[p] # NoChild /\ child'[p] = Orphaned(r)[p] BY <1>0, <1>1, <2>1 DEF Orphaned
    <3>2. child[p] \in Child BY <1>0, <3>1
    <3>3. CASE child[p].parent = r
      <4>1. child'[p] = [child[p] EXCEPT !.parent = NoRunner] BY <2>1, <3>1, <3>3 DEF Orphaned
      <4>. QED BY <3>1, <3>2, <3>3, <4>1 DEF Child
    <3>4. CASE child[p].parent # r BY <3>1, <3>4 DEF Orphaned
    <3>. QED BY <3>3, <3>4
  <2>2. \A p \in Pid : child'[p] # NoChild => child'[p].parent \in Runner \union {NoRunner}
    BY <1>0, <2>1 DEF Child
  <2>3. \A s \in Runner \ {r} : pc'[s] = pc[s] /\ target'[s] = target[s] BY <1>0, <1>1
  <2>. QED BY <1>0, <2>1, <2>2, <2>3, NoRunnerIsNoRunner, ToldStays DEF ToldInv
<1>. QED BY <1>0, <1>1, <1>2, <1>3 DEF HeardInv

\* While no runner is at work, the user forgets only with the task.
LEMMA HeardUser ==
  ASSUME ~Overlapping, RunnerInv, HeardInv, User
  PROVE  HeardInv'
<1>0. /\ TypeInv /\ ToldInv /\ CommandInv
      /\ heard \subseteq Present(queue) /\ Remembers(queue, heard)
      /\ command # NoCommand /\ command.does = "save" => Remembers(command.queue, heard)
      /\ \A p \in Pid : child[p] # NoChild => child[p] \in Child
  BY DEF RunnerInv, HeardInv, TypeInv
<1>1. /\ \A s \in Runner : pc[s] \in Asleep
      /\ UNCHANGED <<pc, target>>
  <2>1. MayEnter => \A s \in Runner : pc[s] \in Asleep BY DEF MayEnter, Quiet
  <2>2. SaveCommand \/ MarkAndKill => command # NoCommand BY DEF SaveCommand, MarkAndKill
  <2>. QED BY <1>0, <2>1, <2>2, UserMoves, CommandsSpare DEF RunnerInv, TurnInv
<1>2. \A s \in Runner : MindOK(s)' BY <1>1 DEF MindOK, Asleep, Saving
<1>3. \A s \in Runner : pc[s] # "saveHeard" BY <1>1 DEF Asleep
<1>4. CASE SaveCommand
  <2>1. /\ queue' = command.queue /\ child' = child /\ command' = NoCommand
        /\ heard' = {t \in Present(queue') : t \in heard \/ queue'.task[t].session}
        /\ Fits(command.queue, child) /\ Remembers(command.queue, heard)
    BY <1>0, <1>4 DEF SaveCommand, CommandInv
  <2>2. heard' \subseteq Present(queue') /\ Remembers(queue', heard')
    <3>1. QueueType(queue') BY <2>1 DEF Fits
    <3>2. \A t \in Present(queue') : queue'.task[t].session \in BOOLEAN
      BY <3>1 DEF QueueType, Present, Record
    <3>3. \A t \in Present(queue') : t \in heard => queue'.task[t].session = TRUE
      BY <2>1 DEF Remembers
    <3>. QED BY <2>1, <3>2, <3>3 DEF Remembers
  <2>3. ASSUME NEW p \in Pid, child[p] # NoChild, child[p].said = TRUE \/ child[p].told = TRUE
        PROVE  child[p].phase \in {"up", "exited"} /\ child[p].task \in Present(queue')
    <3>1. child[p].phase \in {"up", "exited"} BY <1>0, <2>3 DEF ToldInv
    <3>. QED BY <2>1, <2>3, <3>1 DEF Fits, Right, Names, Has
  <2>4. \A p \in Pid : child'[p] # NoChild => child'[p].parent \in Runner \union {NoRunner}
    BY <1>0, <2>1 DEF Child
  <2>5. ToldInv' BY <1>0, <1>1, <2>1, <2>3, <2>4, ToldStays DEF ToldInv
  <2>. QED BY <1>2, <2>1, <2>2, <2>5 DEF HeardInv
<1>5. CASE MarkAndKill
  <2>1. queue' = queue /\ heard' = heard /\ command' = NoCommand BY <1>5 DEF MarkAndKill
  <2>2. ASSUME NEW p \in Pid, child'[p] # NoChild
        PROVE  /\ child[p] # NoChild /\ child'[p].task = child[p].task /\ child'[p].parent = child[p].parent
               /\ child'[p].said = child[p].said /\ child'[p].told = child[p].told
               /\ child'[p].phase = child[p].phase \/ child'[p].phase = "exited"
    <3>1. child[p] # NoChild BY <1>5, <2>2 DEF MarkAndKill
    <3>2. child[p] \in Child BY <1>0, <3>1
    <3>3. child'[p] = child[p] \/ child'[p] = [child[p] EXCEPT !.asked = TRUE]
      BY <1>5, <2>2 DEF MarkAndKill
    <3>. QED BY <3>1, <3>2, <3>3 DEF Child
  <2>3. \A p \in Pid : child'[p] # NoChild => child'[p].parent \in Runner \union {NoRunner}
    BY <1>0, <2>2 DEF Child
  <2>4. ToldInv' BY <1>0, <1>1, <2>1, <2>2, <2>3, ToldStays DEF ToldInv
  <2>. QED BY <1>0, <1>2, <2>1, <2>4 DEF HeardInv
<1>6. CASE ~SaveCommand /\ ~MarkAndKill
  <2>1. queue' = queue /\ child' = child BY <1>0, <1>6, CommandsSpare
  <2>2. /\ heard' = heard
        /\ command' # NoCommand /\ command'.does = "save" => Remembers(command'.queue, heard)
    BY <1>0, <1>6, CommandsRemember
  <2>3. ToldInv' BY <1>0, <1>1, <2>1, <2>2 DEF ToldInv
  <2>. QED BY <1>0, <1>2, <2>1, <2>2, <2>3 DEF HeardInv
<1>. QED BY <1>4, <1>5, <1>6

\* Nor do the processes, be they heard or not.
LEMMA HeardMachine ==
  ASSUME RunnerInv, HeardInv, Machine
  PROVE  HeardInv'
<1>0. /\ TypeInv /\ ToldInv /\ \A s \in Runner : MindOK(s)
      /\ heard \subseteq Present(queue) /\ Remembers(queue, heard)
      /\ command # NoCommand /\ command.does = "save" => Remembers(command.queue, heard)
      /\ DOMAIN child = Pid /\ \A p \in Pid : child[p] # NoChild => child[p] \in Child
  BY DEF RunnerInv, HeardInv, TypeInv
<1>1. UNCHANGED <<pc, snap, target, command, queue>> /\ heard' = heard
  BY MachineMoves DEF Machine, Say, Finish, UserCheckout, Tick
<1>2. \A s \in Runner : MindOK(s)' BY <1>0, <1>1 DEF MindOK
<1>3. ASSUME NEW p \in Pid, child'[p] # NoChild
      PROVE  /\ child[p] # NoChild /\ child'[p].task = child[p].task /\ child'[p].parent = child[p].parent
             /\ child'[p].told = child[p].told
             /\ child'[p] = child[p] \/ child'[p].phase \in {"up", "exited"}
  <2>1. ASSUME NEW i \in Pid, Say(i) \/ Finish(i)
        PROVE  /\ child[i] \in Child /\ child[i] # NoChild /\ child[i].phase = "up"
               /\ child' = [child EXCEPT ![i] = child'[i]]
               /\ \/ child'[i] = NoChild \/ child'[i] = [child[i] EXCEPT !.said = TRUE]
                  \/ child'[i] = [child[i] EXCEPT !.phase = "exited"]
    BY <1>0, <2>1 DEF Say, Finish, Ended, Up
  <2>2. ASSUME NEW i \in Pid, Say(i) \/ Finish(i)
        PROVE  /\ child[p] # NoChild /\ child'[p].task = child[p].task
               /\ child'[p].parent = child[p].parent /\ child'[p].told = child[p].told
               /\ child'[p] = child[p] \/ child'[p].phase \in {"up", "exited"}
    <3>1. CASE i = p BY <1>3, <2>1, <2>2, <3>1 DEF Child
    <3>2. CASE i # p BY <1>0, <1>3, <2>1, <2>2, <3>2
    <3>. QED BY <3>1, <3>2
  <2>3. CASE child' = child BY <1>3, <2>3
  <2>. QED BY <2>2, <2>3 DEF Machine, UserCheckout, Tick
<1>4. ToldInv'
  <2>1. \A p \in Pid : child'[p] # NoChild => child'[p].parent \in Runner \union {NoRunner}
    BY <1>0, <1>3 DEF Child
  <2>. QED BY <1>0, <1>1, <1>3, <2>1 DEF ToldInv
<1>. QED BY <1>0, <1>1, <1>2, <1>4 DEF HeardInv

LEMMA HeardStart ==
  ASSUME ~Overlapping, RunnerInv, HeardInv, NEW r \in Runner, NEW m \in Mode, Start(r, m)
  PROVE  HeardInv'
<1>0. TypeInv /\ ToldInv /\ DOMAIN pc = Runner BY DEF RunnerInv, OwnerInv, HeardInv
<1>1. /\ UNCHANGED <<queue, child, command, heard, target>>
      /\ pc' = [pc EXCEPT ![r] = pc'[r]] /\ pc[r] = "unborn" /\ pc'[r] \in {"lock", "dead"}
      /\ \A s \in Runner : pc[s] \in Asleep
  BY <1>0 DEF Start, Goto, MayEnter, Quiet, disk, user
<1>2. \A s \in Runner : MindOK(s)'
  <2>1. \A s \in Runner : pc'[s] \notin Saving BY <1>0, <1>1 DEF Saving, Asleep
  <2>. QED BY <2>1 DEF MindOK
<1>3. ToldInv'
  <2>1. \A s \in Runner \ {r} : pc'[s] = pc[s] /\ target'[s] = target[s] BY <1>0, <1>1
  <2>. QED BY <1>0, <1>1, <2>1, ToldKept
<1>. QED BY <1>1, <1>2, <1>3 DEF HeardInv

LEMMA HeardInvStep ==
  ASSUME ~Overlapping, "crashAtSpawn" \notin Faults, RunnerInv, HeardInv, [Next]_vars
  PROVE  HeardInv'
<1>1. CASE UNCHANGED vars
  BY <1>1 DEF HeardInv, ToldInv, MindOK, vars, disk, user
<1>2. ASSUME NEW r \in Runner, RunnerStep(r) PROVE HeardInv'
  <2>0. DOMAIN pc = Runner BY DEF RunnerInv, OwnerInv
  <2>1. CASE pc'[r] \in {"dead", "threw"}
    <3>1. heard' = heard
      BY <1>2, <2>0, <2>1 DEF RunnerStep, Stretch, Hear, TakeLock, Reconcile, SaveReconciled, Top, Fill,
         Exit, Dispatch, SavePark, Dispatching, SaveDispatch, Spawn, LoadPid, SavePid, SaveHeard, SaveClosed, Wake, Crash, HearInit, HearUsage, HearClose, HearError, Throw, Save, Goto
    <3>. QED BY <1>2, <2>1, <3>1, HeardEnds
  <2>2. CASE pc'[r] \notin {"dead", "threw"}
    <3>1. CASE \/ TakeLock(r) \/ SaveReconciled(r) \/ Top(r) \/ Fill(r) \/ SavePark(r)
               \/ SaveDispatch(r) \/ SavePid(r) \/ SaveHeard(r) \/ SaveClosed(r) \/ Wake(r)
      BY <3>1, HeardSaves
    <3>2. CASE Reconcile(r) \/ Dispatch(r) \/ LoadPid(r) BY <2>2, <3>2, HeardChanges
    <3>3. CASE Spawn(r) BY <3>3, HeardSpawn
    <3>4. ASSUME NEW p \in Pid, Hear(r, p) PROVE HeardInv'
      BY <2>2, <3>4, HeardHears, HeardCloses DEF Hear
    <3>5. CASE Exit(r) \/ Crash(r)
      <4>1. pc'[r] = "dead" BY <2>0, <3>5 DEF Exit, Crash, End, Goto
      <4>. QED BY <2>2, <4>1
    <3>. QED BY <1>2, <3>1, <3>2, <3>3, <3>4, <3>5 DEF RunnerStep, Stretch
  <2>. QED BY <2>1, <2>2
<1>3. CASE \E r \in Runner, m \in Mode : Start(r, m) BY <1>3, HeardStart
<1>4. CASE User BY <1>4, HeardUser
<1>5. CASE Machine BY <1>5, HeardMachine
<1>. QED BY <1>1, <1>2, <1>3, <1>4, <1>5 DEF Next, RunnerStep

\* A process that is new is that of a spawn, of the task in hand, and what it resumes is
\* what the queue says.
LEMMA NewProcess ==
  ASSUME ~Overlapping, RunnerInv, [Next]_vars, NEW p \in Pid, child[p] = NoChild, child'[p] # NoChild
  PROVE  /\ child'[p].task \in Present(queue)
         /\ child'[p].fresh = ~queue.task[child'[p].task].session
<1>0. TypeInv /\ OwnerInv /\ DOMAIN child = Pid /\ \A r \in Runner : RunnerOK(r)
  BY DEF RunnerInv, TypeInv
<1>1. ASSUME Fewer(child, child') PROVE FALSE BY <1>1 DEF Fewer
<1>2. CASE UNCHANGED child BY <1>2
<1>3. ASSUME NEW r \in Runner, RunnerStep(r), ~Spawn(r) PROVE FALSE
  <2>1. CASE \A i \in Pid : ~HearError(r, i) BY <1>0, <1>1, <1>3, <2>1, RunnerFewer
  <2>2. ASSUME NEW i \in Pid, HearError(r, i) PROVE FALSE
    <3>1. child[i] # NoChild BY <2>2 DEF HearError, Hears
    <3>2. child' = Orphaned(r) \/ child' = child \/ child' = [child EXCEPT ![i].phase = "errored"]
      BY <2>2 DEF HearError, Throw, End
    <3>. QED BY <1>0, <3>1, <3>2 DEF Orphaned
  <2>. QED BY <2>1, <2>2
<1>4. ASSUME NEW r \in Runner, Spawn(r)
      PROVE  /\ child'[p].task \in Present(queue)
             /\ child'[p].fresh = ~queue.task[child'[p].task].session
  <2>1. PICK i \in Pid, phase \in {"up", "unspawned"} :
          child' = [child EXCEPT ![i] = Process(r, target[r].task, snap[r].task[target[r].task], phase)]
    BY <1>4 DEF Spawn
  <2> DEFINE c == Process(r, target[r].task, snap[r].task[target[r].task], phase)
  <2>2. c.task = target[r].task /\ c.fresh = ~snap[r].task[target[r].task].session
    BY DEF Process, Resumes
  <2>3. child'[p] = c
    <3>. HIDE DEF c
    <3>. QED BY <1>0, <2>1 DEF c
  <2>4. snap[r] = queue /\ target[r].task \in Present(queue)
    BY <1>0, <1>4 DEF Spawn, RunnerOK, Locked, Has
  <2>. HIDE DEF c
  <2>. QED BY <2>2, <2>3, <2>4
<1>5. CASE \E r \in Runner, m \in Mode : Start(r, m) BY <1>2, <1>5 DEF Start
<1>6. CASE User \/ Machine BY <1>0, <1>1, <1>6, OthersChildren
<1>. QED BY <1>2, <1>3, <1>4, <1>5, <1>6 DEF Next, RunnerStep, vars

\* "On any interruption resumes the SAME conversation later": whatever runners die and are
\* started again, whatever processes live on, and whatever the user types, once the
\* session id of a task is on disk its task is never started from scratch.
THEOREM ConversationsResume ==
  ASSUME ~Overlapping, "crashAtSpawn" \notin Faults PROVE Spec => ResumesTheSame
<1>1. Init => HeardInv
  <2>1. Init => /\ heard = {} /\ command = NoCommand /\ \A p \in Pid : child[p] = NoChild
                /\ \A r \in Runner : pc[r] = "unborn"
    BY DEF Init
  <2>. QED BY <2>1 DEF HeardInv, Remembers, ToldInv, MindOK, Saving
<1>2. RunnerInv /\ HeardInv /\ [Next]_vars => HeardInv' BY HeardInvStep
<1>3. ASSUME RunnerInv, HeardInv, [Next]_vars
      PROVE  \A p \in Pid : child[p] = NoChild /\ child'[p] # NoChild /\ child'[p].fresh =>
               child'[p].task \notin heard
  <2>. SUFFICES ASSUME NEW p \in Pid, child[p] = NoChild, child'[p] # NoChild, child'[p].task \in heard
                PROVE  ~child'[p].fresh
    OBVIOUS
  <2>1. child'[p].fresh = ~queue.task[child'[p].task].session BY <1>3, NewProcess
  <2>2. queue.task[child'[p].task].session = TRUE BY <1>3 DEF HeardInv, Remembers
  <2>. QED BY <2>1, <2>2, Zenon
<1>4. RunnerInv /\ HeardInv /\ [Next]_vars =>
        [\A p \in Pid : child[p] = NoChild /\ child'[p] # NoChild /\ child'[p].fresh =>
           child'[p].task \notin heard]_vars
  BY <1>3
<1>. QED BY <1>1, <1>2, <1>4, RunnerInvAlways, PTL DEF Spec, ResumesTheSame

-----------------------------------------------------------------------------
(***************************************************************************)
(* The worktrees.                                                          *)
(***************************************************************************)
\* Process p, as processes describe it, lives and has made its worktree.
AtWork(processes, p) ==
  processes[p] # NoChild /\ processes[p].phase = "up" /\ processes[p].said = TRUE

TreeInv ==
  \A p \in Pid : AtWork(child, p) /\ Iso[child[p].task] = "worktree" => child[p].task \in trees

\* A step that gives no process a worktree.
SameWork ==
  \A p \in Pid : AtWork(child', p) => AtWork(child, p) /\ child'[p].task = child[p].task

LEMMA RunnerTrees ==
  ASSUME TypeInv, OwnerInv, NEW r \in Runner, RunnerStep(r) PROVE trees' = trees /\ SameWork
<1>. USE DEF Goto, Prepare, Save, Handle, disk, loop, user
<1>0. DOMAIN child = Pid /\ \A p \in Pid : child[p] # NoChild => child[p] \in Child BY DEF TypeInv
<1>1. ASSUME child' = child PROVE SameWork BY <1>1 DEF SameWork, AtWork
<1>2. ASSUME child' = Orphaned(r) PROVE SameWork
  <2>1. ASSUME NEW p \in Pid, AtWork(child', p)
        PROVE  AtWork(child, p) /\ child'[p].task = child[p].task
    <3>1. /\ child[p] # NoChild /\ child[p] \in Child
          /\ child'[p] = child[p] \/ child'[p] = [child[p] EXCEPT !.parent = NoRunner]
      BY <1>0, <1>2, <2>1 DEF Orphaned, AtWork
    <3>. QED BY <2>1, <3>1 DEF AtWork, Child
  <2>. QED BY <2>1 DEF SameWork
<1>3. CASE Spawn(r)
  <2>1. PICK i \in Pid, phase \in {"up", "unspawned"} :
          child' = [child EXCEPT ![i] = Process(r, target[r].task, snap[r].task[target[r].task], phase)]
    BY <1>3 DEF Spawn
  <2> DEFINE c == Process(r, target[r].task, snap[r].task[target[r].task], phase)
  <2>2. c.said = FALSE BY DEF Process
  <2>3. child' = [child EXCEPT ![i] = c] BY <2>1
  <2>. HIDE DEF c
  <2>4. SameWork BY <1>0, <2>2, <2>3 DEF SameWork, AtWork
  <2>. QED BY <1>3, <2>4 DEF Spawn
<1>4. ASSUME NEW i \in Pid, Hear(r, i) PROVE trees' = trees /\ SameWork
  <2>1. child[i] # NoChild /\ child[i] \in Child
    BY <1>0, <1>4 DEF Hear, HearInit, HearUsage, HearClose, HearError, Hears
  <2>2. /\ trees' = trees
        /\ \/ child' = child \/ child' = Orphaned(r)
           \/ child' = [child EXCEPT ![i].told = TRUE]
           \/ child' = [child EXCEPT ![i] = NoChild]
           \/ child' = [child EXCEPT ![i].phase = "errored"]
    BY <1>4 DEF Hear, HearInit, HearUsage, HearClose, HearError, End, Throw
  <2>3. ASSUME child' = [child EXCEPT ![i].told = TRUE] PROVE SameWork
    BY <1>0, <2>1, <2>3 DEF SameWork, AtWork, Child
  <2>4. ASSUME child' = [child EXCEPT ![i] = NoChild] PROVE SameWork
    BY <1>0, <2>4 DEF SameWork, AtWork
  <2>5. ASSUME child' = [child EXCEPT ![i].phase = "errored"] PROVE SameWork
    BY <1>0, <2>1, <2>5 DEF SameWork, AtWork, Child
  <2>. QED BY <1>1, <1>2, <2>2, <2>3, <2>4, <2>5
<1>5. CASE RunnerStep(r) /\ ~Spawn(r) /\ ~\E i \in Pid : Hear(r, i)
  <2>1. trees' = trees /\ (child' = child \/ child' = Orphaned(r))
    BY <1>5 DEF RunnerStep, Stretch, TakeLock, Reconcile, SaveReconciled, Top, Fill, Exit, Dispatch,
       SavePark, Dispatching, SaveDispatch, LoadPid, SavePid, SaveHeard, SaveClosed, Wake, Crash, End, Throw
  <2>. QED BY <1>1, <1>2, <2>1
<1>. QED BY <1>3, <1>4, <1>5

\* carry cleanup looks at the queue, and a queue that fits says of what lives that it runs.
LEMMA CleanupSpares ==
  ASSUME ~Overlapping, RunnerInv, TreeInv, NEW all, Cleanup(all) PROVE TreeInv'
<1>0. TypeInv /\ DiskInv BY DEF RunnerInv
<1>1. Fits(queue, child)
  <2>1. \A s \in Runner : pc[s] \in Asleep BY DEF Cleanup, MayType, MayEnter, Quiet
  <2>2. \A s \in Runner : pc[s] \notin {"loadPid", "savePid", "saveClosed"} BY <2>1 DEF Asleep
  <2>. QED BY <1>0, <2>2, DiskFits
<1>2. child' = child /\ trees' = trees \ {t \in Cleanable(queue) : queue.task[t].worktree}
  BY DEF Cleanup, RemoveTrees, WillSave
<1>3. ASSUME NEW p \in Pid, AtWork(child, p) PROVE child[p].task \notin Cleanable(queue)
  <2>1. Has(queue, child[p].task, "running") BY <1>1, <1>3 DEF AtWork, Fits, Right, Names
  <2>. QED BY <2>1 DEF Has, Cleanable, Finished
<1>. QED BY <1>2, <1>3 DEF TreeInv, AtWork

LEMMA UserTrees ==
  ASSUME ~Overlapping, "cleanupId" \notin Commands, RunnerInv, TreeInv, User PROVE TreeInv'
<1>0. TypeInv BY DEF RunnerInv
<1>1. CASE MarkAndKill
  <2>1. trees' = trees BY <1>1 DEF MarkAndKill
  <2>2. ASSUME NEW p \in Pid, AtWork(child', p)
        PROVE  AtWork(child, p) /\ child'[p].task = child[p].task
    <3>1. child[p] # NoChild /\ child[p] \in Child
      BY <1>0, <1>1, <2>2 DEF MarkAndKill, AtWork, TypeInv
    <3>2. child'[p] = child[p] \/ child'[p] = [child[p] EXCEPT !.asked = TRUE]
      BY <1>1, <2>2 DEF MarkAndKill, AtWork
    <3>. QED BY <2>2, <3>1, <3>2 DEF AtWork, Child
  <2>. QED BY <2>1, <2>2 DEF TreeInv
<1>2. CASE \E all \in BOOLEAN : Cleanup(all) BY <1>2, CleanupSpares
<1>3. CASE ~MarkAndKill /\ ~\E all \in BOOLEAN : Cleanup(all)
  <2>1. child' = child /\ trees' = trees
    BY <1>3 DEF User, Add, Adopt, Rm, Approve, Stop, Move, Pause, CleanupOf, MayType, SaveCommand,
       WillSave, disk
  <2>. QED BY <2>1 DEF TreeInv, AtWork
<1>. QED BY <1>1, <1>2, <1>3

LEMMA MachineTrees ==
  ASSUME TypeInv, TreeInv, Machine PROVE TreeInv'
<1>0. DOMAIN child = Pid /\ \A p \in Pid : child[p] # NoChild => child[p] \in Child BY DEF TypeInv
<1>1. ASSUME NEW i \in Pid, Say(i) PROVE TreeInv'
  <2>1. /\ child[i] # NoChild /\ child[i] \in Child
        /\ child' = [child EXCEPT ![i].said = TRUE] /\ trees \subseteq trees'
        /\ Iso[child[i].task] = "worktree" => child[i].task \in trees'
    BY <1>0, <1>1 DEF Say, Up
  <2>2. \A p \in Pid \ {i} : child'[p] = child[p] BY <1>0, <2>1
  <2>3. child'[i].task = child[i].task BY <1>0, <2>1 DEF Child
  <2>. QED BY <2>1, <2>2, <2>3 DEF TreeInv, AtWork
<1>2. ASSUME NEW i \in Pid, Finish(i) PROVE TreeInv'
  <2>1. /\ child[i] # NoChild /\ child[i] \in Child /\ trees' = trees
        /\ child' = [child EXCEPT ![i] = Ended(i)]
    BY <1>0, <1>2 DEF Finish, Up, disk
  <2>2. ~AtWork(child', i)
    <3>1. child'[i] = NoChild \/ child'[i] = [child[i] EXCEPT !.phase = "exited"]
      BY <1>0, <2>1 DEF Ended
    <3>. QED BY <2>1, <3>1 DEF AtWork, Child
  <2>3. \A p \in Pid \ {i} : child'[p] = child[p] BY <1>0, <2>1
  <2>. QED BY <2>1, <2>2, <2>3 DEF TreeInv, AtWork
<1>3. CASE \A i \in Pid : ~Say(i) /\ ~Finish(i)
  <2>1. child' = child /\ trees' = trees BY <1>3 DEF Machine, UserCheckout, Tick, disk
  <2>. QED BY <2>1 DEF TreeInv, AtWork
<1>. QED BY <1>1, <1>2, <1>3

\* "Never for ones that might still resume": while a process works in its worktree, be it
\* an orphan of a runner that died, no cleanup removes the tree; that takes --id.
THEOREM WorktreesStand ==
  ASSUME ~Overlapping, "crashAtSpawn" \notin Faults, "cleanupId" \notin Commands
  PROVE  Spec => []TreeStands
<1>1. Init => TreeInv BY DEF Init, TreeInv, AtWork
<1>2. ASSUME RunnerInv, TreeInv, [Next]_vars PROVE TreeInv'
  <2>0. TypeInv /\ OwnerInv BY <1>2 DEF RunnerInv
  <2>1. CASE UNCHANGED <<child, trees>> BY <1>2, <2>1 DEF TreeInv, AtWork
  <2>2. ASSUME NEW r \in Runner, RunnerStep(r) PROVE TreeInv'
    <3>1. trees' = trees /\ SameWork BY <2>0, <2>2, RunnerTrees
    <3>. QED BY <1>2, <3>1 DEF SameWork, TreeInv
  <2>3. CASE \E r \in Runner, m \in Mode : Start(r, m) BY <2>1, <2>3 DEF Start, disk
  <2>4. CASE User BY <1>2, <2>4, UserTrees
  <2>5. CASE Machine BY <1>2, <2>0, <2>5, MachineTrees
  <2>. QED BY <1>2, <2>1, <2>2, <2>3, <2>4, <2>5 DEF Next, RunnerStep, vars, disk
<1>3. RunnerInv /\ TreeInv /\ [Next]_vars => TreeInv' BY <1>2
<1>4. ASSUME RunnerInv, TreeInv PROVE TreeStands
  <2>. SUFFICES ASSUME NEW p \in Pid, Up(p), child[p].said, Iso[child[p].task] = "worktree"
                PROVE  child[p].task \in trees
    BY DEF TreeStands
  <2>1. child[p] # NoChild /\ child[p].phase = "up" /\ child[p].said \in BOOLEAN
    BY <1>4 DEF Up, RunnerInv, TypeInv, Child
  <2>2. child[p].said = TRUE BY <2>1, Zenon
  <2>. QED BY <1>4, <2>1, <2>2 DEF TreeInv, AtWork
<1>5. RunnerInv /\ TreeInv => TreeStands BY <1>4
<1>. QED BY <1>1, <1>3, <1>5, RunnerInvAlways, PTL DEF Spec

-----------------------------------------------------------------------------
(***************************************************************************)
(* What the processes work with: the refinement of CarrySessions.          *)
(***************************************************************************)
\* The process as CarrySessions sees it.
Session(processes, p) ==
  [task |-> processes[p].task, pid |-> p, fresh |-> processes[p].fresh]

Lives(processes, p) == processes[p] # NoChild /\ processes[p].phase = "up"

\* The processes but those of P live on, or have ended, as before.
SameBut(P) ==
  \A p \in Pid \ P :
    /\ Lives(child', p) <=> Lives(child, p)
    /\ Lives(child, p) => child'[p].task = child[p].task /\ child'[p].fresh = child[p].fresh

LEMMA WorkIs ==
  /\ Work = {Session(child, p) : p \in {i \in Pid : Lives(child, i)}}
  /\ Work' = {Session(child', p) : p \in {i \in Pid : Lives(child', i)}}
BY DEF Work, Session, Lives, Up

LEMMA SameWorkBut ==
  ASSUME NEW P, SameBut(P)
  PROVE  \A w : w.pid \notin P => (w \in Work <=> w \in Work')
<1>. SUFFICES ASSUME NEW w, w.pid \notin P PROVE w \in Work <=> w \in Work'
  OBVIOUS
<1>1. w \in Work <=> \E p \in Pid \ P : Lives(child, p) /\ w = Session(child, p)
  BY WorkIs DEF Session
<1>2. w \in Work' <=> \E p \in Pid \ P : Lives(child', p) /\ w = Session(child', p)
  BY WorkIs DEF Session
<1>3. \A p \in Pid \ P : Lives(child, p) => Session(child', p) = Session(child, p)
  BY DEF SameBut, Session
<1>. QED BY <1>1, <1>2, <1>3 DEF SameBut

LEMMA AllSame ==
  ASSUME SameBut({}) PROVE Work' = Work
BY SameWorkBut

LEMMA AtWorkIs ==
  \A t : t \in Sessions!AtWork <=> \E p \in Pid : Lives(child, p) /\ child[p].task = t
<1>1. \A p \in Pid : Session(child, p).task = child[p].task BY DEF Session
<1>2. Sessions!AtWork = {w.task : w \in Work} BY DEF Sessions!AtWork
<1>. QED BY <1>1, <1>2, WorkIs

LEMMA OneMore ==
  ASSUME NEW p \in Pid, SameBut({p}), ~Lives(child, p), Lives(child', p)
  PROVE  Work' = Work \union {Session(child', p)}
<1>1. \A w : w.pid # p => (w \in Work <=> w \in Work') BY SameWorkBut
<1>2. \A i \in Pid : Session(child, i).pid = i /\ Session(child', i).pid = i BY DEF Session
<1>3. \A w \in Work : w.pid # p BY <1>2, WorkIs
<1>4. \A w \in Work' : w.pid = p => w = Session(child', p) BY <1>2, WorkIs
<1>5. Session(child', p) \in Work' BY WorkIs
<1>. QED BY <1>1, <1>2, <1>3, <1>4, <1>5

LEMMA OneLess ==
  ASSUME NEW p \in Pid, SameBut({p}), Lives(child, p), ~Lives(child', p)
  PROVE  Session(child, p) \in Work /\ Work' = Work \ {Session(child, p)}
<1>1. \A w : w.pid # p => (w \in Work <=> w \in Work') BY SameWorkBut
<1>2. \A i \in Pid : Session(child, i).pid = i /\ Session(child', i).pid = i BY DEF Session
<1>3. \A w \in Work' : w.pid # p BY <1>2, WorkIs
<1>4. \A w \in Work : w.pid = p => w = Session(child, p) BY <1>2, WorkIs
<1>5. Session(child, p) \in Work BY WorkIs
<1>. QED BY <1>1, <1>2, <1>3, <1>4, <1>5

\* What a runner does to its processes, their start aside, changes nothing at that level.
LEMMA RunnerWork ==
  ASSUME TypeInv, OwnerInv, NEW r \in Runner, RunnerStep(r), ~Spawn(r)
  PROVE  SameBut({}) /\ trees' = trees
<1>. USE DEF Goto, Prepare, Save, Handle, disk, loop, user
<1>0. DOMAIN child = Pid /\ \A p \in Pid : child[p] # NoChild => child[p] \in Child BY DEF TypeInv
<1>1. ASSUME child' = child PROVE SameBut({}) BY <1>1 DEF SameBut, Lives
<1>2. ASSUME child' = Orphaned(r) PROVE SameBut({})
  <2>. SUFFICES ASSUME NEW p \in Pid
                PROVE  /\ Lives(child', p) <=> Lives(child, p)
                       /\ Lives(child, p) => child'[p].task = child[p].task /\ child'[p].fresh = child[p].fresh
    BY DEF SameBut
  <2>1. child'[p] = IF child[p] = NoChild \/ child[p].parent # r THEN child[p]
                    ELSE IF child[p].phase = "up" THEN [child[p] EXCEPT !.parent = NoRunner]
                    ELSE NoChild
    BY <1>2 DEF Orphaned
  <2>2. CASE child[p] = NoChild \/ child[p].parent # r BY <2>1, <2>2 DEF Lives
  <2>3. CASE child[p] # NoChild /\ child[p].parent = r /\ child[p].phase # "up"
    BY <2>1, <2>3 DEF Lives
  <2>4. CASE child[p] # NoChild /\ child[p].parent = r /\ child[p].phase = "up"
    <3>1. child'[p] = [child[p] EXCEPT !.parent = NoRunner] /\ child[p] \in Child BY <1>0, <2>1, <2>4
    <3>2. child'[p] \in Child BY <3>1 DEF Child
    <3>. QED BY <2>4, <3>1, <3>2, NoChildIsNoChild DEF Lives, Child
  <2>. QED BY <2>2, <2>3, <2>4
<1>3. ASSUME NEW i \in Pid, Hear(r, i) PROVE SameBut({}) /\ trees' = trees
  <2>1. child[i] # NoChild /\ child[i] \in Child
    BY <1>0, <1>3 DEF Hear, HearInit, HearUsage, HearClose, HearError, Hears
  <2>2. /\ trees' = trees
        /\ \/ child' = child \/ child' = Orphaned(r)
           \/ child' = [child EXCEPT ![i].told = TRUE]
           \/ child' = [child EXCEPT ![i] = NoChild] /\ child[i].phase # "up"
           \/ child' = [child EXCEPT ![i].phase = "errored"] /\ child[i].phase # "up"
    BY <1>3 DEF Hear, HearInit, HearUsage, HearClose, HearError, End, Throw
  <2>3. ASSUME child' = [child EXCEPT ![i].told = TRUE] PROVE SameBut({})
    <3>1. child'[i] = [child[i] EXCEPT !.told = TRUE] /\ \A p \in Pid \ {i} : child'[p] = child[p]
      BY <1>0, <2>3
    <3>2. child'[i] \in Child BY <2>1, <3>1 DEF Child
    <3>3. Lives(child', i) <=> Lives(child, i) BY <2>1, <3>1, <3>2, NoChildIsNoChild DEF Lives, Child
    <3>4. child'[i].task = child[i].task /\ child'[i].fresh = child[i].fresh BY <2>1, <3>1 DEF Child
    <3>. QED BY <3>1, <3>3, <3>4 DEF SameBut, Lives
  <2>4. ASSUME child' = [child EXCEPT ![i] = NoChild], child[i].phase # "up" PROVE SameBut({})
    BY <1>0, <2>4 DEF SameBut, Lives
  <2>5. ASSUME child' = [child EXCEPT ![i].phase = "errored"], child[i].phase # "up" PROVE SameBut({})
    <3>1. child'[i] = [child[i] EXCEPT !.phase = "errored"] /\ \A p \in Pid \ {i} : child'[p] = child[p]
      BY <1>0, <2>5
    <3>2. child'[i].phase = "errored" BY <2>1, <3>1 DEF Child
    <3>. QED BY <2>5, <3>1, <3>2 DEF SameBut, Lives
  <2>. QED BY <1>1, <1>2, <2>2, <2>3, <2>4, <2>5
<1>4. CASE RunnerStep(r) /\ ~\E i \in Pid : Hear(r, i)
  <2>1. trees' = trees /\ (child' = child \/ child' = Orphaned(r))
    BY <1>4 DEF RunnerStep, Stretch, TakeLock, Reconcile, SaveReconciled, Top, Fill, Exit, Dispatch,
       SavePark, Dispatching, SaveDispatch, LoadPid, SavePid, SaveHeard, SaveClosed, Wake, Crash, End, Throw
  <2>. QED BY <1>1, <1>2, <2>1
<1>. QED BY <1>3, <1>4

\* A runner writes down a session id, or moves a checkout, or does neither.
LEMMA RunnerRecords ==
  ASSUME TypeInv, NEW r \in Runner, RunnerStep(r)
  PROVE  \/ UNCHANGED <<heard, head>>
         \/ SaveHeard(r)
         \/ heard' = heard /\ \E c \in Project : head' = [head EXCEPT ![c] = head'[c]]
<1>. USE DEF Goto, Prepare, Save, Handle, disk, loop, user
<1>0. /\ head \in [Project -> Branch] /\ QueueType(queue)
      /\ \A p \in Pid : child[p] # NoChild => child[p] \in Child
  BY DEF TypeInv
<1>1. ASSUME NEW t \in Task, NEW b, head' = [head EXCEPT ![Cwd[t]] = b]
      PROVE  \E c \in Project : head' = [head EXCEPT ![c] = head'[c]]
  <2>1. Cwd[t] \in Project BY CwdType
  <2>2. head' = [head EXCEPT ![Cwd[t]] = head'[Cwd[t]]] BY <1>0, <1>1, <2>1
  <2>. QED BY <2>1, <2>2
<1>2. ASSUME NEW i \in Pid, Hear(r, i)
      PROVE  heard' = heard /\ (head' = head \/ \E c \in Project : head' = [head EXCEPT ![c] = head'[c]])
  <2>1. child[i].task \in Task
    BY <1>0, <1>2 DEF Hear, HearInit, HearUsage, HearClose, HearError, Hears, Child
  <2>2. heard' = heard /\ (head' = head \/ head' = Finalized(child[i].task, queue.task[child[i].task]))
    BY <1>2 DEF Hear, HearInit, HearUsage, HearClose, HearError, End, Throw
  <2>. QED BY <1>1, <2>1, <2>2 DEF Finalized
<1>3. ASSUME Dispatch(r)
      PROVE  heard' = heard /\ (head' = head \/ \E c \in Project : head' = [head EXCEPT ![c] = head'[c]])
  <2>1. heard' = heard /\ (head' = head \/ (target[r].task \in Present(queue)
                             /\ head' = [head EXCEPT ![Cwd[target[r].task]] = target[r].task]))
    BY <1>3 DEF Dispatch, Throw, End
  <2>. QED BY <1>1, <2>1 DEF Present
<1>4. CASE ~Dispatch(r) /\ ~SaveHeard(r) /\ ~\E i \in Pid : Hear(r, i)
  BY <1>4 DEF RunnerStep, Stretch, TakeLock, Reconcile, SaveReconciled, Top, Fill, Exit,
     SavePark, Dispatching, SaveDispatch, Spawn, LoadPid, SavePid, SaveClosed, Wake, Crash, End, Throw
<1>. QED BY <1>2, <1>3, <1>4

\* A spawn starts a process for a task that has none: in the conversation that is known,
\* on the branch of the task, with the checkout to itself.
LEMMA SpawnStarts ==
  ASSUME ~Overlapping, "spawn" \notin Faults, RunnerInv, RunnerInv', HeadInv', HeardInv,
         NEW r \in Runner, Spawn(r)
  PROVE  \E w \in [task: Task, pid: Pid, fresh: BOOLEAN] : Sessions!Start(w)
<1>0. DOMAIN child = Pid BY DEF RunnerInv, TypeInv
<1>1. PICK p \in Pid, phase \in {"up", "unspawned"} :
        /\ child[p] = NoChild /\ (phase = "unspawned" => "spawn" \in Faults)
        /\ child' = [child EXCEPT ![p] =
             Process(r, target[r].task, snap[r].task[target[r].task], phase)]
  BY DEF Spawn
<1> DEFINE w == Session(child', p)
<1>2. child'[p].phase = "up" /\ \A i \in Pid \ {p} : child'[i] = child[i]
  BY <1>0, <1>1 DEF Process
<1>3. child'[p] # NoChild /\ child'[p] \in Child
  <2>1. Process(r, target[r].task, snap[r].task[target[r].task], phase).phase = phase BY DEF Process
  <2>2. child'[p] = NoChild \/ child'[p] \in Child BY DEF RunnerInv, TypeInv
  <2>3. child'[p] # NoChild
    <3>1. RunnerOK(r) /\ TypeInv BY DEF RunnerInv
    <3>2. snap[r] = queue /\ target[r].task \in Present(queue)
      BY <3>1 DEF Spawn, RunnerOK, Locked, Has
    <3>3. target[r].task \in Task /\ snap[r].task[target[r].task] \in Record
      BY <3>1, <3>2 DEF TypeInv, QueueType, Present
    <3>4. Process(r, target[r].task, snap[r].task[target[r].task], phase) \in Child
      BY <3>3, ProcessType
    <3>5. child'[p] = Process(r, target[r].task, snap[r].task[target[r].task], phase)
      BY <1>0, <1>1
    <3>. QED BY <3>4, <3>5, NoChildIsNoChild
  <2>. QED BY <2>2, <2>3
<1>4. SameBut({p}) /\ ~Lives(child, p) /\ Lives(child', p)
  BY <1>1, <1>2, <1>3 DEF SameBut, Lives
<1>5. Work' = Work \union {w} BY <1>4, OneMore
<1>6. w \in [task: Task, pid: Pid, fresh: BOOLEAN] /\ w.task = child'[p].task /\ w.fresh = child'[p].fresh
      /\ w.pid = p
  BY <1>3 DEF Session, Child
<1>7. w.task \notin Sessions!AtWork
  <2>. SUFFICES ASSUME NEW i \in Pid, Lives(child, i), child[i].task = child'[p].task PROVE FALSE
    BY <1>6, AtWorkIs
  <2>1. i # p /\ child'[i] = child[i] /\ child'[i] # NoChild BY <1>1, <1>2 DEF Lives
  <2>. QED BY <1>3, <2>1 DEF RunnerInv, UniqueInv
<1>8. \A v \in Work : v.pid # w.pid BY <1>4, <1>6, WorkIs DEF Session
<1>9. w.fresh => w.task \notin heard
  <2>. SUFFICES ASSUME w.task \in heard PROVE ~w.fresh OBVIOUS
  <2>0. [Next]_vars BY DEF Next, Stretch
  <2>1. w.fresh = ~queue.task[w.task].session BY <1>1, <1>3, <1>6, <2>0, NewProcess
  <2>2. queue.task[w.task].session = TRUE BY DEF HeardInv, Remembers
  <2>. HIDE DEF w
  <2>. QED BY <2>1, <2>2, Zenon
<1>10. UNCHANGED <<heard, head, trees>> BY DEF Spawn, disk
<1>11. ASSUME Iso[w.task] = "infolder"
       PROVE  ~Sessions!Occupied(Cwd[w.task]) /\ head[Cwd[w.task]] = w.task
  <2>1. Cwd[w.task] \in Project BY <1>6, CwdType
  <2>2. InFolder(child', p, Cwd[w.task]) BY <1>3, <1>6, <1>11 DEF InFolder
  <2>3. head[Cwd[w.task]] = w.task BY <1>6, <1>10, <2>1, <2>2 DEF HeadInv, KeptInv
  <2>4. ASSUME Sessions!Occupied(Cwd[w.task]) PROVE FALSE
    <3>1. PICK t \in Sessions!AtWork : Iso[t] = "infolder" /\ Cwd[t] = Cwd[w.task]
      BY <2>4 DEF Sessions!Occupied
    <3>2. PICK i \in Pid : Lives(child, i) /\ child[i].task = t BY <3>1, AtWorkIs
    <3>3. i # p /\ child'[i] = child[i] BY <1>1, <1>2, <3>2 DEF Lives
    <3>4. InFolder(child', i, Cwd[w.task]) BY <3>1, <3>2, <3>3 DEF InFolder, Lives
    <3>. QED BY <2>1, <2>2, <3>3, <3>4 DEF HeadInv, KeptInv
  <2>. QED BY <2>3, <2>4
<1>12. Sessions!Start(w) BY <1>5, <1>7, <1>8, <1>9, <1>10, <1>11 DEF Sessions!Start
<1>. QED BY <1>6, <1>12

\* A checkout that is moved is nobody's: who lives on would be on another branch after.
LEMMA MovesFree ==
  ASSUME TypeInv, HeadInv, HeadInv', [Next]_vars, Work' = Work, UNCHANGED <<heard, trees>>,
         NEW c \in Project, head' = [head EXCEPT ![c] = head'[c]]
  PROVE  [Sessions!Next]_Sessions!vars
<1>0. head' \in [Project -> Branch] /\ head \in [Project -> Branch] BY HeadStep DEF TypeInv
<1>1. CASE head'[c] = head[c]
  <2>1. head' = head BY <1>0, <1>1
  <2>. QED BY <2>1 DEF Sessions!vars
<1>2. CASE head'[c] # head[c]
  <2>1. ASSUME Sessions!Occupied(c) PROVE FALSE
    <3>1. PICK w \in Work : Iso[w.task] = "infolder" /\ Cwd[w.task] = c
      BY <2>1 DEF Sessions!Occupied, Sessions!AtWork
    <3>2. PICK p \in Pid : Lives(child, p) /\ w = Session(child, p) BY WorkIs
    <3>3. PICK i \in Pid : Lives(child', i) /\ w = Session(child', i) BY WorkIs
    <3>4. InFolder(child, p, c) /\ child[p].task = w.task BY <3>1, <3>2 DEF InFolder, Lives, Session
    <3>5. InFolder(child', i, c) /\ child'[i].task = w.task BY <3>1, <3>3 DEF InFolder, Lives, Session
    <3>. QED BY <1>2, <3>4, <3>5 DEF HeadInv, KeptInv
  <2>2. Sessions!Checkout(c, head'[c]) BY <2>1 DEF Sessions!Checkout
  <2>. QED BY <1>0, <2>2 DEF Sessions!Next, Branch
<1>. QED BY <1>1, <1>2

LEMMA RunnerImplements ==
  ASSUME ~Overlapping, "spawn" \notin Faults, RunnerInv, RunnerInv', HeadInv, HeadInv', HeardInv,
         NEW r \in Runner, RunnerStep(r)
  PROVE  [Sessions!Next]_Sessions!vars
<1>0. TypeInv /\ OwnerInv /\ [Next]_vars BY DEF RunnerInv, Next, RunnerStep
<1>1. CASE Spawn(r)
  <2>1. \E w \in [task: Task, pid: Pid, fresh: BOOLEAN] : Sessions!Start(w) BY <1>1, SpawnStarts
  <2>. QED BY <2>1 DEF Sessions!Next
<1>2. CASE ~Spawn(r)
  <2>1. Work' = Work /\ trees' = trees BY <1>0, <1>2, RunnerWork, AllSame
  <2>2. CASE UNCHANGED <<heard, head>> BY <2>1, <2>2 DEF Sessions!vars
  <2>3. CASE SaveHeard(r)
    <3>1. target[r].task \in Task BY <2>3 DEF HeardInv, MindOK, SaveHeard, Save, Saving, Present
    <3>2. head' = head /\ heard' = heard \union {target[r].task} BY <2>3 DEF SaveHeard
    <3>3. heard' \in SUBSET Task BY <3>1, <3>2 DEF HeardInv, Present
    <3>4. Sessions!OnRecord(heard') BY <2>1, <3>2 DEF Sessions!OnRecord
    <3>. QED BY <3>3, <3>4 DEF Sessions!Next
  <2>4. CASE heard' = heard /\ \E c \in Project : head' = [head EXCEPT ![c] = head'[c]]
    BY <1>0, <2>1, <2>4, MovesFree
  <2>. QED BY <1>0, <2>2, <2>3, <2>4, RunnerRecords
<1>. QED BY <1>1, <1>2

LEMMA UserImplements ==
  ASSUME ~Overlapping, "cleanupId" \notin Commands, RunnerInv, HeardInv, User
  PROVE  [Sessions!Next]_Sessions!vars
<1>0. TypeInv /\ DiskInv /\ CommandInv BY DEF RunnerInv
<1>1. CASE MarkAndKill
  <2>0. UNCHANGED <<heard, head, trees>> BY <1>1 DEF MarkAndKill
  <2>1. ASSUME NEW i \in Pid
        PROVE  /\ Lives(child', i) <=> Lives(child, i)
               /\ Lives(child, i) => child'[i].task = child[i].task /\ child'[i].fresh = child[i].fresh
    <3>0. child[i] # NoChild => child[i] \in Child BY <1>0 DEF TypeInv
    <3>1. CASE child'[i] = child[i] BY <3>1 DEF Lives
    <3>2. CASE child[i] # NoChild /\ child'[i] = [child[i] EXCEPT !.asked = TRUE]
      <4>1. child'[i] \in Child BY <3>0, <3>2 DEF Child
      <4>. QED BY <3>0, <3>2, <4>1, NoChildIsNoChild DEF Lives, Child
    <3>. QED BY <1>1, <3>1, <3>2 DEF MarkAndKill
  <2>2. SameBut({}) BY <2>1 DEF SameBut
  <2>. QED BY <2>0, <2>2, AllSame DEF Sessions!vars
<1>2. CASE SaveCommand
  <2>1. Work' = Work /\ UNCHANGED <<head, trees>> BY <1>2, AllSame DEF SaveCommand, SameBut, Lives
  <2>2. heard \intersect Present(command.queue) \subseteq heard' /\ heard' \in SUBSET Task
    BY <1>2 DEF SaveCommand, Present
  <2>3. Sessions!AtWork \subseteq Present(command.queue)
    <3>. SUFFICES ASSUME NEW p \in Pid, Lives(child, p) PROVE child[p].task \in Present(command.queue)
      BY AtWorkIs
    <3>1. Right(command.queue, p, child[p]) BY <1>0, <1>2 DEF SaveCommand, CommandInv, Fits, Lives
    <3>. QED BY <3>1 DEF Right, Names, Has, Lives
  <2>4. Sessions!OnRecord(heard') BY <2>1, <2>2, <2>3 DEF Sessions!OnRecord
  <2>. QED BY <2>2, <2>4 DEF Sessions!Next
<1>3. ASSUME NEW all \in BOOLEAN, Cleanup(all) PROVE [Sessions!Next]_Sessions!vars
  <2> DEFINE T == {t \in Cleanable(queue) : queue.task[t].worktree}
  <2>1. UNCHANGED <<child, heard, head>> /\ trees' = trees \ T
    BY <1>3 DEF Cleanup, RemoveTrees, WillSave
  <2>2. Work' = Work BY <2>1, AllSame DEF SameBut, Lives
  <2>3. T \intersect Sessions!AtWork = {}
    <3>1. \A s \in Runner : pc[s] \in Asleep BY <1>3 DEF Cleanup, MayType, MayEnter, Quiet
    <3>2. Fits(queue, child) BY <1>0, <3>1, DiskFits DEF Asleep
    <3>. SUFFICES ASSUME NEW t \in T, NEW p \in Pid, Lives(child, p), child[p].task = t PROVE FALSE
      BY AtWorkIs
    <3>3. Right(queue, p, child[p]) BY <3>2 DEF Fits, Lives
    <3>. QED BY <3>3 DEF Right, Names, Has, Lives, Cleanable, Finished
  <2>4. T \in SUBSET Task BY DEF Cleanable, Present
  <2>5. Sessions!RemoveTrees(T) BY <2>1, <2>2, <2>3 DEF Sessions!RemoveTrees
  <2>. QED BY <2>4, <2>5 DEF Sessions!Next
<1>4. CASE ~MarkAndKill /\ ~SaveCommand /\ ~\E all \in BOOLEAN : Cleanup(all)
  <2>1. UNCHANGED <<child, heard, head, trees>>
    BY <1>4 DEF User, Add, Adopt, Rm, Approve, Stop, Move, Pause, CleanupOf, MayType, WillSave, disk
  <2>2. Work' = Work BY <2>1, AllSame DEF SameBut, Lives
  <2>. QED BY <2>1, <2>2 DEF Sessions!vars
<1>. QED BY <1>1, <1>2, <1>3, <1>4

LEMMA MachineImplements ==
  ASSUME RunnerInv, HeadInv, HeadInv', Machine
  PROVE  [Sessions!Next]_Sessions!vars
<1>0. /\ TypeInv /\ DOMAIN child = Pid /\ [Next]_vars
      /\ \A p \in Pid : child[p] # NoChild => child[p] \in Child
  BY DEF RunnerInv, TypeInv, Next
<1>1. ASSUME NEW p \in Pid, Say(p) PROVE [Sessions!Next]_Sessions!vars
  <2>1. /\ Lives(child, p) /\ child[p] \in Child /\ UNCHANGED <<heard, head>>
        /\ child' = [child EXCEPT ![p].said = TRUE]
        /\ trees' = trees \/ trees' = trees \union {child[p].task}
    BY <1>0, <1>1 DEF Say, Up, Lives
  <2>2. child'[p] = [child[p] EXCEPT !.said = TRUE] /\ \A i \in Pid \ {p} : child'[i] = child[i]
    BY <1>0, <2>1
  <2>3. [child[p] EXCEPT !.said = TRUE] \in Child
    <3>1. child[p] \in Child BY <2>1
    <3>. QED BY <3>1 DEF Child
  <2>4. Lives(child', p) /\ child'[p].task = child[p].task /\ child'[p].fresh = child[p].fresh
    <3>1. child'[p] # NoChild BY <2>2, <2>3, NoChildIsNoChild
    <3>2. child[p] \in Child /\ child[p].phase = "up" BY <2>1 DEF Lives
    <3>. QED BY <2>2, <3>1, <3>2 DEF Lives, Child
  <2>5. SameBut({}) BY <2>1, <2>2, <2>4 DEF SameBut, Lives
  <2>6. Work' = Work BY <2>5, AllSame
  <2>7. child[p].task \in Sessions!AtWork /\ child[p].task \in Task BY <2>1, AtWorkIs DEF Child
  <2>8. CASE trees' = trees BY <2>1, <2>6, <2>8 DEF Sessions!vars
  <2>9. CASE trees' = trees \union {child[p].task}
    <3>1. Sessions!MakeTree(child[p].task) BY <2>1, <2>6, <2>7, <2>9 DEF Sessions!MakeTree
    <3>. QED BY <2>7, <3>1 DEF Sessions!Next
  <2>. QED BY <2>1, <2>8, <2>9
<1>2. ASSUME NEW p \in Pid, Finish(p) PROVE [Sessions!Next]_Sessions!vars
  <2>1. /\ Lives(child, p) /\ child[p] \in Child /\ UNCHANGED <<heard, head, trees>>
        /\ child' = [child EXCEPT ![p] = Ended(p)]
    BY <1>0, <1>2 DEF Finish, Up, Lives, disk
  <2>2. child'[p] = Ended(p) /\ \A i \in Pid \ {p} : child'[i] = child[i] BY <1>0, <2>1
  <2>3. ~Lives(child', p) BY <2>1, <2>2 DEF Ended, Lives, Child
  <2>4. SameBut({p}) BY <2>2 DEF SameBut, Lives
  <2>5. Session(child, p) \in Work /\ Work' = Work \ {Session(child, p)} BY <2>1, <2>3, <2>4, OneLess
  <2>6. Sessions!End(Session(child, p)) BY <2>1, <2>5 DEF Sessions!End
  <2>. QED BY <2>5, <2>6 DEF Sessions!Next
<1>3. CASE \A p \in Pid : ~Say(p) /\ ~Finish(p)
  <2>1. UNCHANGED <<child, heard, trees>> BY <1>3 DEF Machine, UserCheckout, Tick, disk
  <2>2. Work' = Work BY <2>1, AllSame DEF SameBut, Lives
  <2>3. head' = head \/ \E c \in Project : head' = [head EXCEPT ![c] = head'[c]]
    <3>1. head \in [Project -> Branch] BY <1>0 DEF TypeInv
    <3>. QED BY <1>3, <3>1 DEF Machine, UserCheckout, Tick, disk
  <2>4. CASE head' = head BY <2>1, <2>2, <2>4 DEF Sessions!vars
  <2>. QED BY <1>0, <2>1, <2>2, <2>3, <2>4, MovesFree
<1>. QED BY <1>1, <1>2, <1>3

\* Carry keeps apart what its processes work with (CarrySessions): however many runners
\* come, die and go, whatever they and the user's commands save over one another's
\* loads in turn, each step is one of a conversation, a checkout or a worktree that is
\* taken, moved or removed while nobody else works with it, or is not to be seen.
THEOREM SessionsImplemented ==
  ASSUME ~Overlapping, "crashAtSpawn" \notin Faults, "spawn" \notin Faults, "cleanupId" \notin Commands
  PROVE  Spec => ImplementsSessions
<1>1. Init => HeadInv /\ HeardInv /\ Sessions!Init
  <2>. SUFFICES ASSUME Init PROVE HeadInv /\ HeardInv /\ Sessions!Init OBVIOUS
  <2>1. /\ heard = {} /\ trees = {} /\ head = [c \in Project |-> Main] /\ command = NoCommand
        /\ \A p \in Pid : child[p] = NoChild
        /\ \A r \in Runner : pc[r] = "unborn"
    BY DEF Init
  <2>2. HeadInv BY <2>1 DEF HeadInv, KeptInv, InFolder, ClearOK
  <2>3. HeardInv BY <2>1 DEF HeardInv, Remembers, ToldInv, MindOK, Saving
  <2>4. Work = {} BY <2>1 DEF Work, Up
  <2>. QED BY <2>1, <2>2, <2>3, <2>4 DEF Sessions!Init
<1>2. RunnerInv /\ HeadInv /\ HeardInv /\ [Next]_vars => HeadInv' /\ HeardInv'
  BY HeadInvStep, HeardInvStep
<1>3. ASSUME RunnerInv, RunnerInv', HeadInv, HeadInv', HeardInv, [Next]_vars
      PROVE  [Sessions!Next]_Sessions!vars
  <2>1. ASSUME UNCHANGED <<child, heard, head, trees>> PROVE [Sessions!Next]_Sessions!vars
    <3>1. Work' = Work BY <2>1, AllSame DEF SameBut, Lives
    <3>. QED BY <2>1, <3>1 DEF Sessions!vars
  <2>2. CASE UNCHANGED vars BY <2>1, <2>2 DEF vars, disk
  <2>3. CASE \E r \in Runner, m \in Mode : Start(r, m) BY <2>1, <2>3 DEF Start, disk
  <2>4. CASE \E r \in Runner : RunnerStep(r) BY <1>3, <2>4, RunnerImplements
  <2>5. CASE User BY <1>3, <2>5, UserImplements
  <2>6. CASE Machine BY <1>3, <2>6, MachineImplements
  <2>. QED BY <1>3, <2>2, <2>3, <2>4, <2>5, <2>6 DEF Next, RunnerStep
<1>4. RunnerInv /\ RunnerInv' /\ HeadInv /\ HeadInv' /\ HeardInv /\ [Next]_vars
        => [Sessions!Next]_Sessions!vars
  BY <1>3
<1>. QED BY <1>1, <1>2, <1>4, RunnerInvAlways, PTL DEF Spec, ImplementsSessions, Sessions!Spec

=============================================================================
