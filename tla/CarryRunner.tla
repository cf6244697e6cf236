------------------------------ MODULE CarryRunner ------------------------------
(***************************************************************************)
(* packages/claude-carry: the night runner (lib/runner.mjs) with the       *)
(* headless Claude processes it starts, the branches of lib/git.mjs it     *)
(* moves a project's checkout between, and the carry commands a user types *)
(* meanwhile (bin/carry.mjs, lib/cleanup.mjs).                             *)
(*                                                                         *)
(* All of them change queue.json the same way: load it, compute, save it   *)
(* whole, and no file lock spans the two.  A loaded queue with its changes *)
(* is kept in snap (of a runner) or command (of the user) until it is      *)
(* saved.  Everything a runner does between two awaits is one synchronous  *)
(* stretch; Overlapping says whether stretches and commands of different    *)
(* processes may overlap in time.  A runner that dies leaves its children  *)
(* running, and a handler that throws kills its runner.                    *)
(***************************************************************************)
EXTENDS CarryQueue, FiniteSets

CONSTANTS
  NoRunner, NoChild, NoCommand,
  Mode,           \* how runners are started: "night", "once", "idle", "drain"
  Concurrency,    \* config.concurrency
  Commands,       \* the commands the user types
  MaxCommands,    \* bound: how many
  MaxTime,        \* bound: clock readings that matter
  Overlapping,     \* stretches and commands of two processes may overlap
  Faults          \* "crash", "crashAtSpawn", "spawn", "detach"

ASSUME ConcurrencyType == Concurrency \in Nat \ {0}
ASSUME ModeType == Mode \subseteq {"night", "once", "idle", "drain"}
ASSUME FaultsType == Faults \subseteq {"crash", "crashAtSpawn", "spawn", "detach"}
ASSUME InterleaveType == Overlapping \in BOOLEAN
ASSUME BoundsType == MaxCommands \in Nat /\ MaxTime \in Nat
ASSUME NoRunnerIsNoRunner == NoRunner \notin Runner

VARIABLES
  queue,          \* queue.json
  pidFile,        \* runner.pid
  stop,           \* tasks whose stop marker file exists
  head,           \* branch that is checked out in each project
  trees,          \* tasks whose Git worktree exists
  now,            \* the clock
  pc,             \* where each runner is
  mode,           \* the options it was started with
  snap,           \* the queue it has loaded and will save
  target,         \* the task and the process it is dispatching or hearing
  gate,           \* gateClosed
  fired,          \* dispatchedOnce
  inFlight,       \* tasks whose dispatch has not settled; of a runner that is
                  \* gone, history: what it was at when it ended
  child,          \* the Claude process of each pid
  command,        \* what the user's command will save or do
  typed,          \* how many commands were typed
  heard           \* history: tasks whose session id has been saved

disk == <<queue, pidFile, stop, head, trees>>
loop == <<mode, gate, fired, inFlight>>
user == <<command, typed>>
vars == <<disk, now, pc, loop, snap, target, child, user, heard>>

Asleep == {"unborn", "rest", "dead", "threw"}
NoTarget == [task |-> 0, pid |-> NoPid]
Alive(r) == pc[r] \notin {"unborn", "dead", "threw"}

Up(p) == child[p] # NoChild /\ child[p].phase = "up"

\* pidAlive of a recorded child.
PidAlive(lock) == lock # NoLock /\ lock.pid # NoPid /\ Up(lock.pid)

\* No synchronous stretch and no command is under way.
Quiet == command = NoCommand /\ \A r \in Runner : pc[r] \in Asleep

MayEnter == Overlapping \/ Quiet

-----------------------------------------------------------------------------
Init ==
  /\ queue = EmptyQueue
  /\ pidFile = NoRunner
  /\ stop = {}
  /\ head = [c \in Project |-> Main]
  /\ trees = {}
  /\ now = 0
  /\ pc = [r \in Runner |-> "unborn"]
  /\ mode = [r \in Runner |-> "night"]
  /\ snap = [r \in Runner |-> EmptyQueue]
  /\ target = [r \in Runner |-> NoTarget]
  /\ gate = [r \in Runner |-> FALSE]
  /\ fired = [r \in Runner |-> FALSE]
  /\ inFlight = [r \in Runner |-> {}]
  /\ child = [p \in Pid |-> NoChild]
  /\ command = NoCommand
  /\ typed = 0
  /\ heard = {}

Goto(r, place) == pc' = [pc EXCEPT ![r] = place]

\* The processes of a runner that ends: live ones run on without a parent,
\* and nobody hears any more of those that have ended.
Orphaned(r) ==
  [p \in Pid |-> IF child[p] = NoChild \/ child[p].parent # r THEN child[p]
                 ELSE IF child[p].phase = "up" THEN [child[p] EXCEPT !.parent = NoRunner]
                 ELSE NoChild]

\* The tasks it was at.
AtHand(r) == inFlight[r] \union {t \in Task : t = target[r].task}

End(r, place) ==
  /\ Goto(r, place)
  /\ child' = Orphaned(r)
  /\ mode' = [mode EXCEPT ![r] = "night"]
  /\ gate' = [gate EXCEPT ![r] = FALSE]
  /\ fired' = [fired EXCEPT ![r] = FALSE]
  /\ inFlight' = [inFlight EXCEPT ![r] = AtHand(r)]
  /\ snap' = [snap EXCEPT ![r] = EmptyQueue]
  /\ target' = [target EXCEPT ![r] = NoTarget]

\* An uncaught exception.
Throw(r) == End(r, "threw") /\ UNCHANGED <<disk, now, user, heard>>

\* What was loaded, with the changes made to it; the save comes next.
Prepare(r, q, place) ==
  /\ snap' = [snap EXCEPT ![r] = q]
  /\ Goto(r, place)

\* saveQueue
Save(r, from, to) ==
  /\ pc[r] = from
  /\ queue' = snap[r]
  /\ snap' = [snap EXCEPT ![r] = EmptyQueue]
  /\ Goto(r, to)

-----------------------------------------------------------------------------
(***************************************************************************)
(* Start of a runner: takeRunnerLock and reconcile.                        *)
(***************************************************************************)

\* Mutant: runner.pid is not looked at.
MayTakeLockAlways(r) == pidFile # r

\* Another runner is active when runner.pid names a live process.
MayTakeLock(r) == pidFile = NoRunner \/ ~Alive(pidFile)

Start(r, m) ==
  /\ pc[r] = "unborn"
  /\ MayEnter
  /\ mode' = [mode EXCEPT ![r] = m]
  /\ Goto(r, IF MayTakeLock(r) THEN "lock" ELSE "dead")
  /\ UNCHANGED <<disk, now, gate, fired, inFlight, snap, target, child, user, heard>>

TakeLock(r) ==
  /\ pc[r] = "lock"
  /\ pidFile' = r
  /\ Goto(r, "reconcile")
  /\ UNCHANGED <<queue, stop, head, trees, now, loop, snap, target, child, user, heard>>

\* Mutant: whether the recorded process is alive is not asked.
InterruptedUnasked(q) == {t \in Present(q) : q.task[t].status = "running"}

\* Tasks that are recorded as running by a process that is gone.
Interrupted(q) ==
  {t \in Present(q) : q.task[t].status = "running" /\ ~PidAlive(q.task[t].lock)}

Reconciled(q) ==
  [q EXCEPT !.task =
     [t \in Task |-> IF t \in Interrupted(q)
                     THEN [q.task[t] EXCEPT !.status = "pending", !.lock = NoLock]
                     ELSE q.task[t]]]

Reconcile(r) ==
  /\ pc[r] = "reconcile"
  /\ IF Interrupted(queue) = {}
     THEN Goto(r, "top") /\ UNCHANGED snap
     ELSE Prepare(r, Reconciled(queue), "saveReconciled")
  /\ UNCHANGED <<disk, now, loop, target, child, user, heard>>

SaveReconciled(r) ==
  /\ Save(r, "saveReconciled", "top")
  /\ UNCHANGED <<pidFile, stop, head, trees, now, loop, target, child, user, heard>>

-----------------------------------------------------------------------------
(***************************************************************************)
(* runLoop.                                                                *)
(***************************************************************************)
Top(r) ==
  /\ pc[r] = "top"
  /\ gate' = [gate EXCEPT ![r] = queue.paused]
  /\ Goto(r, "fill")
  /\ UNCHANGED <<disk, now, mode, fired, inFlight, snap, target, child, user, heard>>

Slots(r) == IF mode[r] = "once" THEN 1 ELSE Concurrency

MayFill(r) ==
  /\ ~gate[r]
  /\ ~(mode[r] = "once" /\ fired[r])
  /\ Cardinality(inFlight[r]) < Slots(r)

\* With nothing to dispatch: wait, or leave.
Leaves(r) ==
  /\ inFlight[r] = {}
  /\ \/ mode[r] \in {"once", "idle"}
     \/ mode[r] = "drain" /\ ~gate[r] /\ Waiting(queue) = {}

\* Mutant: the dispatch of a parked task never settles.
UnsettledEver(r) == inFlight[r]

\* Dispatches that wait for a process; the others, parked ones, are settled as
\* soon as the loop awaits, and it goes on at once.
Unsettled(r) ==
  {t \in inFlight[r] : \E p \in Pid :
     child[p] # NoChild /\ child[p].task = t /\ child[p].parent = r}

Fill(r) ==
  /\ pc[r] = "fill"
  /\ \/ /\ MayFill(r)
        /\ \E t \in NextDispatchable(queue, now) : target' = [target EXCEPT ![r].task = t]
        /\ Goto(r, "dispatch")
        /\ UNCHANGED inFlight
     \/ /\ MayFill(r) => NextDispatchable(queue, now) = {}
        /\ Goto(r, IF Leaves(r) THEN "exit"
                   ELSE IF inFlight[r] = Unsettled(r) THEN "rest" ELSE "top")
        /\ inFlight' = [inFlight EXCEPT ![r] = Unsettled(r)]
        /\ UNCHANGED target
  /\ UNCHANGED <<disk, now, mode, gate, fired, snap, child, user, heard>>

\* After writing the report.
Exit(r) ==
  /\ pc[r] = "exit"
  /\ End(r, "dead")
  /\ UNCHANGED <<disk, now, user, heard>>

\* A dispatch has settled or the poll interval is over.
Wake(r) ==
  /\ pc[r] = "rest"
  /\ MayEnter
  /\ Goto(r, "top")
  /\ UNCHANGED <<disk, now, loop, snap, target, child, user, heard>>

-----------------------------------------------------------------------------
(***************************************************************************)
(* dispatch.                                                               *)
(***************************************************************************)

\* prepareInFolder, also for a resumed task without a recorded branch: go to
\* carry/<id>, and remember the branch to go back to, but never carry/<id>.
BaseOf(t, record) == IF head[Cwd[t]] = t THEN record.base ELSE head[Cwd[t]]

FirstTime(record) == ~record.session \/ ~record.branch

\* Mutant: the task is not locked.
DispatchedUnlocked(r, t, record) ==
  [record EXCEPT
     !.status = "running",
     !.worktree = (@ \/ Iso[t] = "worktree"),
     !.branch = (@ \/ Iso[t] = "infolder"),
     !.base = IF Iso[t] = "infolder" /\ FirstTime(record) THEN BaseOf(t, record) ELSE @]

\* What dispatch records before it starts a process.
Dispatched(r, t, record) ==
  [record EXCEPT
     !.status = "running",
     !.lock = [owner |-> r, pid |-> NoPid],
     !.worktree = (@ \/ Iso[t] = "worktree"),
     !.branch = (@ \/ Iso[t] = "infolder"),
     !.base = IF Iso[t] = "infolder" /\ FirstTime(record) THEN BaseOf(t, record) ELSE @]

\* No branch to go back to.
MustPark(t, record) ==
  Iso[t] = "infolder" /\ FirstTime(record) /\ head[Cwd[t]] = Detached

Dispatch(r) ==
  /\ pc[r] = "dispatch"
  /\ LET t == target[r].task IN
     \/ /\ t \in Present(queue) => ~LockAllows(queue.task[t], r)
        /\ Throw(r)
     \/ /\ t \in Present(queue) /\ LockAllows(queue.task[t], r)
        /\ IF MustPark(t, queue.task[t])
           THEN /\ Prepare(r, Updated(queue, t, [queue.task[t] EXCEPT
                                !.status = "needs-approval", !.lock = NoLock]), "savePark")
                /\ UNCHANGED head
           ELSE /\ Prepare(r, Updated(queue, t, Dispatched(r, t, queue.task[t])),
                           "saveDispatch")
                /\ head' = IF Iso[t] = "infolder" THEN [head EXCEPT ![Cwd[t]] = t] ELSE head
        /\ UNCHANGED <<queue, pidFile, stop, trees, now, loop, target, child, user, heard>>

\* dispatch has returned, and its promise is in the map.
Dispatching(r) ==
  /\ inFlight' = [inFlight EXCEPT ![r] = @ \union {target[r].task}]
  /\ fired' = [fired EXCEPT ![r] = TRUE]
  /\ target' = [target EXCEPT ![r] = NoTarget]
  /\ UNCHANGED <<pidFile, stop, head, trees, now, mode, gate, child, user, heard>>

SavePark(r) == Save(r, "savePark", "fill") /\ Dispatching(r)

SaveDispatch(r) ==
  /\ pc[r] = "saveDispatch"
  /\ queue' = snap[r]
  /\ Goto(r, "spawn")
  /\ UNCHANGED <<pidFile, stop, head, trees, now, loop, snap, target, child, user, heard>>

\* isResume
Resumes(record) == record.session

\* A pid is not reused while a queue still names it.
Unnamed(p) ==
  \A q \in {queue} \union {snap[r] : r \in Runner} : \A t \in Present(q) :
    q.task[t].lock # NoLock => q.task[t].lock.pid # p

\* The process keeps what buildArgs gave it: a fresh conversation or a resumed
\* one, of a task whose plan is or is not yet to be approved.
Process(r, t, record, phase) ==
  [task |-> t, parent |-> r, phase |-> phase, fresh |-> ~Resumes(record),
   plan |-> record.plan, said |-> FALSE, told |-> FALSE, asked |-> FALSE]

Spawn(r) ==
  /\ pc[r] = "spawn"
  /\ \E p \in Pid, phase \in {"up", "unspawned"} :
       /\ child[p] = NoChild /\ Unnamed(p)
       /\ phase = "unspawned" => "spawn" \in Faults
       /\ child' = [child EXCEPT ![p] =
            Process(r, target[r].task, snap[r].task[target[r].task], phase)]
       /\ target' = [target EXCEPT ![r].pid = p]
  /\ Goto(r, "loadPid")
  /\ UNCHANGED <<disk, now, loop, snap, user, heard>>

\* lock.pid = child.pid, if the lock is still there; a spawn that failed has
\* no pid.
LoadPid(r) ==
  /\ pc[r] = "loadPid"
  /\ LET t == target[r].task
         pid == IF child[target[r].pid].phase = "unspawned" THEN NoPid
                ELSE target[r].pid
     IN \/ t \notin Present(queue) /\ Throw(r)
        \/ /\ t \in Present(queue)
           /\ Prepare(r, IF queue.task[t].lock = NoLock THEN queue
                         ELSE [queue EXCEPT !.task[t].lock.pid = pid], "savePid")
           /\ UNCHANGED <<disk, now, loop, target, child, user, heard>>

SavePid(r) == Save(r, "savePid", "fill") /\ Dispatching(r)

-----------------------------------------------------------------------------
(***************************************************************************)
(* What a runner hears of its children while it awaits.                    *)
(***************************************************************************)
Hears(r, p) ==
  /\ pc[r] = "rest"
  /\ MayEnter
  /\ child[p] # NoChild
  /\ child[p].parent = r

\* The changes of a handler; a task that is gone makes it throw.
Handle(r, p, q, place) ==
  /\ Prepare(r, q, place)
  /\ target' = [target EXCEPT ![r] = [task |-> child[p].task, pid |-> p]]
  /\ UNCHANGED <<queue, pidFile, trees, now, loop, user>>

Gone(p) == child[p].task \notin Present(queue)

\* Mutant: the session id is not recorded.
NamedNot(q, t) == Updated(q, t, q.task[t])

\* updateTask(q2, taskId, { session_id })
Named(q, t) == Updated(q, t, [q.task[t] EXCEPT !.session = TRUE])

\* The init event.
HearInit(r, p) ==
  /\ Hears(r, p)
  /\ child[p].said /\ ~child[p].told
  /\ \/ Gone(p) /\ Throw(r)
     \/ /\ ~Gone(p)
        /\ Handle(r, p, Named(queue, child[p].task), "saveHeard")
        /\ child' = [child EXCEPT ![p].told = TRUE]
        /\ UNCHANGED <<stop, head, heard>>

\* A usage event rewrites the queue with a new cost; the last ones may be heard
\* after the process has ended.
HearUsage(r, p) ==
  /\ Hears(r, p)
  /\ child[p].told /\ child[p].phase \in {"up", "exited"}
  /\ \/ Gone(p) /\ Throw(r)
     \/ /\ ~Gone(p)
        /\ Handle(r, p, queue, "saveHeard")
        /\ UNCHANGED <<stop, head, child, heard>>

SaveHeard(r) ==
  /\ Save(r, "saveHeard", "rest")
  /\ heard' = heard \union {target[r].task}
  /\ target' = [target EXCEPT ![r] = NoTarget]
  /\ UNCHANGED <<pidFile, stop, head, trees, now, loop, child, user>>

\* What a task is left with when its run ends.
Settled(status, resume) == [status |-> status, resume |-> resume]

\* classify, a gray-zone denial, or a plan that is ready; a stop marker
\* overrides them all.
Verdicts(p) ==
  LET t == child[p].task IN
  IF t \in stop THEN {Settled("pending", 0)}
  ELSE IF child[p].phase = "errored" THEN {Settled("failed", 0)}
  ELSE {Settled(IF child[p].plan THEN "needs-approval" ELSE "done", 0),
        Settled("needs-approval", 0), Settled("failed", 0),
        Settled("waiting", now + 1), Settled("parked", now + 1)}

Closed(q, t, verdict) ==
  Updated(q, t, [q.task[t] EXCEPT !.status = verdict.status, !.resume = verdict.resume,
                                  !.lock = NoLock])

\* Mutant: the checkout stays where it is.
FinalizedNot(t, record) == [head EXCEPT ![Cwd[t]] = IF record.branch THEN @ ELSE @]

\* finalizeInFolder: back to the branch the task was started from.
Finalized(t, record) ==
  IF Iso[t] = "infolder" /\ record.branch /\ record.base # NoBranch
  THEN [head EXCEPT ![Cwd[t]] = record.base]
  ELSE head

\* Mutant: the marker is not removed.
UnmarkedNot(t) == stop

\* The marker is removed where it is read.
Unmarked(t) == stop \ {t}

\* The close event, after all output; it also follows the error event of a
\* spawn that failed.
HearClose(r, p) ==
  /\ Hears(r, p)
  /\ child[p].phase \in {"exited", "errored"}
  /\ child[p].said => child[p].told
  /\ LET t == child[p].task
     IN \/ Gone(p) /\ Throw(r)
        \/ /\ ~Gone(p) /\ ~LockAllows(queue.task[t], r)
           /\ End(r, "threw")
           /\ stop' = Unmarked(t)
           /\ head' = Finalized(t, queue.task[t])
           /\ UNCHANGED <<queue, pidFile, trees, now, user, heard>>
        \/ /\ ~Gone(p) /\ LockAllows(queue.task[t], r)
           /\ \E verdict \in Verdicts(p) :
                Handle(r, p, Closed(queue, t, verdict), "saveClosed")
           /\ stop' = Unmarked(t)
           /\ head' = Finalized(t, queue.task[t])
           /\ child' = [child EXCEPT ![p] = NoChild]
           /\ UNCHANGED heard

\* The error event of a spawn that failed.
HearError(r, p) ==
  /\ Hears(r, p)
  /\ child[p].phase = "unspawned"
  /\ LET t == child[p].task
     IN \/ Gone(p) /\ Throw(r)
        \/ /\ ~Gone(p) /\ ~LockAllows(queue.task[t], r)
           /\ End(r, "threw")
           /\ head' = Finalized(t, queue.task[t])
           /\ UNCHANGED <<queue, pidFile, stop, trees, now, user, heard>>
        \/ /\ ~Gone(p) /\ LockAllows(queue.task[t], r)
           /\ Handle(r, p, Updated(queue, t, [queue.task[t] EXCEPT
                                     !.status = "failed", !.lock = NoLock]), "saveClosed")
           /\ head' = Finalized(t, queue.task[t])
           /\ child' = [child EXCEPT ![p].phase = "errored"]
           /\ UNCHANGED <<stop, heard>>

\* The dispatch settles when its handler returns.
SaveClosed(r) ==
  /\ Save(r, "saveClosed", "rest")
  /\ inFlight' = [inFlight EXCEPT ![r] = @ \ {target[r].task}]
  /\ target' = [target EXCEPT ![r] = NoTarget]
  /\ UNCHANGED <<pidFile, stop, head, trees, now, mode, gate, fired, child, user, heard>>

-----------------------------------------------------------------------------
(***************************************************************************)
(* The headless Claude processes, the clock and the machine.               *)
(***************************************************************************)

\* A process reports its session id; by then it has made its worktree.
Say(p) ==
  /\ Up(p) /\ ~child[p].said
  /\ child' = [child EXCEPT ![p].said = TRUE]
  /\ trees' = IF Iso[child[p].task] = "worktree" THEN trees \union {child[p].task} ELSE trees
  /\ UNCHANGED <<queue, pidFile, stop, head, now, pc, loop, snap, target, user, heard>>

Ended(p) == IF child[p].parent = NoRunner THEN NoChild ELSE [child[p] EXCEPT !.phase = "exited"]

Finish(p) ==
  /\ Up(p)
  /\ child' = [child EXCEPT ![p] = Ended(p)]
  /\ UNCHANGED <<disk, now, pc, loop, snap, target, user, heard>>

\* Time that nothing waits for need not pass.
Tick ==
  /\ now < MaxTime
  /\ \E t \in Present(queue) : queue.task[t].resume > now
  /\ now' = now + 1
  /\ UNCHANGED <<disk, pc, loop, snap, target, child, user, heard>>

\* A runner dies between two statements.
Crash(r) ==
  /\ "crash" \in Faults
  /\ Alive(r)
  /\ pc[r] \in {"loadPid", "savePid"} => "crashAtSpawn" \in Faults
  /\ End(r, "dead")
  /\ UNCHANGED <<disk, now, user, heard>>

\* The user leaves a project on no branch, or comes back to one.
UserCheckout(c) ==
  /\ "detach" \in Faults
  /\ Quiet
  /\ \A t \in Present(queue) : Cwd[t] = c => queue.task[t].status # "running"
  /\ head' = [head EXCEPT ![c] = IF @ = Detached THEN Main ELSE Detached]
  /\ UNCHANGED <<queue, pidFile, stop, trees, now, pc, loop, snap, target, child, user, heard>>

-----------------------------------------------------------------------------
(***************************************************************************)
(* The commands of a user at a terminal, one at a time.                    *)
(***************************************************************************)
MayType(name) ==
  /\ name \in Commands
  /\ command = NoCommand
  /\ MayEnter

\* A command has loaded the queue and computed what it will save.
WillSave(q) ==
  /\ command' = [does |-> "save", queue |-> q]
  /\ UNCHANGED <<queue, pidFile, stop, head, now, pc, loop, snap, target, child, heard>>

Types == typed < MaxCommands /\ typed' = typed + 1

\* carry add [--plan]: what the user queues is bounded by MaxTasks alone.
Add ==
  /\ MayType("add")
  /\ queue.nextId <= MaxTasks
  /\ \E plan \in IF "plan" \in Commands THEN BOOLEAN ELSE {FALSE} :
       WillSave(WithTask(queue, Fresh(plan)))
  /\ UNCHANGED <<typed, trees>>

\* carry adopt: a conversation of the user's own, to be continued in place.
Adopt ==
  /\ MayType("adopt")
  /\ queue.nextId <= MaxTasks /\ Iso[queue.nextId] = "none"
  /\ WillSave(WithTask(queue, [Fresh(FALSE) EXCEPT
                !.session = TRUE, !.status = "waiting", !.resume = now + 1]))
  /\ UNCHANGED <<typed, trees>>

Rm(t) ==
  /\ MayType("rm") /\ Types
  /\ Removable(queue, t)
  /\ WillSave(Without(queue, {t}))
  /\ UNCHANGED trees

Move(i, where) ==
  /\ MayType("move") /\ Types
  /\ WillSave(Moved(queue, i, where))
  /\ UNCHANGED trees

Pause(on) ==
  /\ MayType("pause") /\ Types
  /\ WillSave([queue EXCEPT !.paused = on])
  /\ UNCHANGED trees

\* approveTask: the next run is a resume with the plan accepted or the action
\* allowed.
Approve(t) ==
  /\ MayType("approve") /\ Types
  /\ Has(queue, t, "needs-approval")
  /\ WillSave(Updated(queue, t, [queue.task[t] EXCEPT !.status = "pending", !.plan = FALSE]))
  /\ UNCHANGED trees

\* carry cleanup removes the worktrees of some tasks, and with --all the
\* finished tasks themselves.
CleanedUp(q, T, all) ==
  LET kept == [q EXCEPT !.task = [t \in Task |->
                 IF t \in T THEN [q.task[t] EXCEPT !.worktree = FALSE] ELSE q.task[t]]]
  IN IF all THEN Without(kept, {t \in Present(q) : q.task[t].status \in Finished})
     ELSE kept

RemoveTrees(T, all) ==
  /\ trees' = trees \ {t \in T : queue.task[t].worktree}
  /\ WillSave(CleanedUp(queue, T, all))

\* Mutant: whatever does not run is cleaned up.
CleanableButRunning(q) == {t \in Present(q) : q.task[t].status # "running"}

Cleanable(q) == {t \in Present(q) : q.task[t].status \in Finished}

Cleanup(all) == MayType("cleanup") /\ Types /\ RemoveTrees(Cleanable(queue), all)

\* carry cleanup --id: whatever the status of the task.
CleanupOf(t, all) ==
  MayType("cleanupId") /\ Types /\ t \in Present(queue) /\ RemoveTrees({t}, all)

\* requestStop looks the task up, then marks it and kills its process.
Stop(t) ==
  /\ MayType("stop") /\ Types
  /\ Has(queue, t, "running")
  /\ command' = [does |-> "stop", task |-> t]
  /\ UNCHANGED <<disk, now, pc, loop, snap, target, child, heard>>

\* The signal is sent to the process that the record names, if that is alive; when
\* it ends, it is by Finish, like one that nobody kills.  asked is history: the
\* processes of the task there were when it was marked.
MarkAndKill ==
  /\ command # NoCommand /\ command.does = "stop"
  /\ stop' = stop \union {command.task}
  /\ child' = [p \in Pid |->
       IF child[p] # NoChild /\ child[p].task = command.task
       THEN [child[p] EXCEPT !.asked = TRUE] ELSE child[p]]
  /\ command' = NoCommand
  /\ UNCHANGED <<queue, pidFile, head, trees, now, pc, loop, snap, target, typed, heard>>

SaveCommand ==
  /\ command # NoCommand /\ command.does = "save"
  /\ queue' = command.queue
  /\ heard' = {t \in Present(command.queue) : t \in heard \/ command.queue.task[t].session}
  /\ command' = NoCommand
  /\ UNCHANGED <<pidFile, stop, head, trees, now, pc, loop, snap, target, child, typed>>

-----------------------------------------------------------------------------
\* The steps of a runner's synchronous stretch.
Stretch(r) ==
  \/ TakeLock(r) \/ Reconcile(r) \/ SaveReconciled(r)
  \/ Top(r) \/ Fill(r) \/ Exit(r)
  \/ Dispatch(r) \/ SavePark(r) \/ SaveDispatch(r) \/ Spawn(r) \/ LoadPid(r) \/ SavePid(r)
  \/ SaveHeard(r) \/ SaveClosed(r)

Hear(r, p) == HearInit(r, p) \/ HearUsage(r, p) \/ HearClose(r, p) \/ HearError(r, p)

User ==
  \/ Add \/ Adopt
  \/ \E t \in Task : Rm(t) \/ Approve(t) \/ Stop(t)
  \/ \E i \in 1..Len(queue.order), where \in {"top", "bottom", "up", "down"} : Move(i, where)
  \/ \E on \in BOOLEAN : Pause(on)
  \/ \E all \in BOOLEAN : Cleanup(all) \/ \E t \in Task : CleanupOf(t, all)
  \/ MarkAndKill \/ SaveCommand

Machine ==
  \/ \E p \in Pid : Say(p) \/ Finish(p)
  \/ \E c \in Project : UserCheckout(c)
  \/ Tick

Next ==
  \/ \E r \in Runner : Stretch(r) \/ Wake(r) \/ Crash(r)
  \/ \E r \in Runner, m \in Mode : Start(r, m)
  \/ \E r \in Runner, p \in Pid : Hear(r, p)
  \/ User
  \/ Machine

Spec == Init /\ [][Next]_vars

\* Every statement of a live process is executed; the event loop delivers every
\* pending event and every timer in its turn; someone starts each runner; a
\* headless process ends, a typed command completes and time goes on.
FairSpec ==
  /\ Spec
  /\ \A r \in Runner :
       /\ WF_vars(Stretch(r)) /\ SF_vars(Wake(r)) /\ WF_vars(\E m \in Mode : Start(r, m))
       /\ \A p \in Pid : SF_vars(HearInit(r, p)) /\ SF_vars(HearClose(r, p))
                         /\ SF_vars(HearError(r, p))
  /\ \A p \in Pid : WF_vars(Finish(p))
  /\ WF_vars(MarkAndKill \/ SaveCommand) /\ WF_vars(Tick)

-----------------------------------------------------------------------------
(***************************************************************************)
(* Properties.                                                             *)
(***************************************************************************)
Places == {"unborn", "lock", "reconcile", "saveReconciled", "top", "fill", "exit", "dispatch",
           "savePark", "saveDispatch", "spawn", "loadPid", "savePid", "rest", "saveHeard",
           "saveClosed", "dead", "threw"}

Child == [task: Task, parent: Runner \union {NoRunner},
          phase: {"up", "unspawned", "errored", "exited"}, fresh: BOOLEAN, plan: BOOLEAN,
          said: BOOLEAN, told: BOOLEAN, asked: BOOLEAN]

ASSUME NoChildIsNoChild == NoChild \notin Child

QueueOK(q) ==
  /\ \A t \in Task : q.task[t] \in Record \union {NoTask}
  /\ {q.order[i] : i \in 1..Len(q.order)} = Present(q) /\ Len(q.order) = Cardinality(Present(q))
  /\ \A t \in Present(q) : t < q.nextId
  /\ q.nextId \in 1..(MaxTasks + 1) /\ q.paused \in BOOLEAN

\* Every variable holds what its file or its JavaScript variable can hold; the
\* ids of a queue are distinct and have been given out.
TypeOK ==
  /\ QueueOK(queue) /\ \A r \in Runner : QueueOK(snap[r])
  /\ pidFile \in Runner \union {NoRunner}
  /\ stop \subseteq Task /\ trees \subseteq Task /\ heard \subseteq Task
  /\ head \in [Project -> Task \union {Main, Detached}]
  /\ now \in 0..MaxTime
  /\ pc \in [Runner -> Places]
  /\ mode \in [Runner -> Mode \union {"night"}]
  /\ target \in [Runner -> [task: Task \union {0}, pid: Pid \union {NoPid}]]
  /\ gate \in [Runner -> BOOLEAN] /\ fired \in [Runner -> BOOLEAN]
  /\ inFlight \in [Runner -> SUBSET Task]
  /\ \A p \in Pid : child[p] \in Child \union {NoChild}
  /\ typed \in 0..MaxCommands

\* "Concurrent resume of one session silently interleaves transcripts": at most
\* one Claude process works on a task.
OneChild ==
  \A p, q \in Pid : Up(p) /\ Up(q) /\ child[p].task = child[q].task => p = q

\* "A second instance would double-dispatch tasks": at most one runner is past
\* takeRunnerLock.
OneRunner ==
  \A r, s \in Runner : Alive(r) /\ Alive(s) /\ pc[r] # "lock" /\ pc[s] # "lock" => r = s

\* What keeps tasks from being dispatched twice, over restarts: a live process
\* is the one its task's record names, except while its pid is being recorded.
LiveIsRecorded ==
  \A p \in Pid : Up(p) =>
    \/ /\ Has(queue, child[p].task, "running")
       /\ queue.task[child[p].task].lock # NoLock
       /\ queue.task[child[p].task].lock.pid = p
    \/ \E r \in Runner : pc[r] \in {"loadPid", "savePid"} /\ target[r].pid = p

\* "An in-folder task needs exclusive use of its project's main checkout": as
\* long as its process lives, the checkout is on the task's own branch.
HeadFollowsRun ==
  \A p \in Pid : Up(p) /\ Iso[child[p].task] = "infolder" =>
    head[Cwd[child[p].task]] = child[p].task

\* No file a user deletes, no order of commands and no stale lock makes a
\* handler throw: the unattended supervisor does not end by itself.
SupervisorSurvives == \A r \in Runner : pc[r] # "threw"

\* "On any interruption resumes the SAME conversation later": once a session id is
\* on disk, heard from a process or given by carry adopt, its task is never started
\* from scratch again.
ResumesTheSame ==
  [][\A p \in Pid :
       child[p] = NoChild /\ child'[p] # NoChild /\ child'[p].fresh =>
         child'[p].task \notin heard]_vars

\* Tasks a runner was at when it ended: it had picked them or started their process
\* and had not seen them off.  One that leaves by itself was at none.
CutOff == UNION {inFlight[r] : r \in {s \in Runner : pc[s] \in {"dead", "threw"}}}

\* A process works in the checkout of c, or has, and its close was not heard yet.
Occupies(p, c) ==
  /\ child[p] # NoChild /\ child[p].phase # "errored"
  /\ Iso[child[p].task] = "infolder" /\ Cwd[child[p].task] = c

\* "Then return the checkout to the user's base branch": when no stretch is under way
\* and no process works in a checkout, its HEAD is on no branch of a task, but for a
\* branch the end of a runner left it on, which later tasks take for the user's.
HomeAgain ==
  \A c \in Project :
    Quiet /\ (\A p \in Pid : ~Occupies(p, c)) => head[c] \in {Main, Detached} \union CutOff

\* "Phase 1 runs READ-ONLY (plan mode) to produce a plan to approve": no process
\* executes a task whose plan is still to be approved.
PlanIsReadOnly ==
  \A p \in Pid : child[p] # NoChild /\ child[p].plan => child[p].fresh

\* "Marker file tells the close handler this exit was user-requested": no close
\* handler takes a marker that was set before its process was started, but one
\* that the death of a runner kept from being taken.
MarkerIsForThisRun ==
  [][\A r \in Runner, p \in Pid :
       HearClose(r, p) /\ child[p].task \in stop =>
         child[p].asked \/ child[p].task \in CutOff]_vars

\* "Never for ones that might still resume": as long as a task is to be continued,
\* whoever ran it and however that ended, the worktree its conversation is about
\* exists.
TreeAwaitsResume ==
  \A t \in Present(queue) :
    Iso[t] = "worktree" /\ queue.task[t].session /\ queue.task[t].status \notin Finished =>
      t \in trees

\* A worktree is not removed under the process that works in it, be it an
\* orphan of a runner that died.
TreeStands ==
  \A p \in Pid : Up(p) /\ child[p].said /\ Iso[child[p].task] = "worktree" =>
    child[p].task \in trees

\* What the live processes work on, and whether they began afresh.
Work ==
  {[task |-> child[p].task, pid |-> p, fresh |-> child[p].fresh] : p \in {i \in Pid : Up(i)}}

Sessions == INSTANCE CarrySessions WITH work <- Work, known <- heard

\* Over all deaths and restarts of runners, whatever each of them and the user's
\* commands load, change and save: a conversation is one process's at a time and
\* continued once it is known, a checkout is that of the task at work in it, and a
\* worktree stays under its process.
ImplementsSessions == Sessions!Spec

\* A queued task is taken up, whatever runs before it.
PendingIsTaken == \A t \in Task : Has(queue, t, "pending") ~> ~Has(queue, t, "pending")
==============================================================================
