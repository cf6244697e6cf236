------------------------------ MODULE CarryQueue ------------------------------
(***************************************************************************)
(* packages/claude-carry/lib/store.mjs: the content of queue.json and the  *)
(* operators that the night runner and the carry commands apply to it.     *)
(* The file is replaced by a rename, so a reader sees a whole queue, and a *)
(* queue is a plain value here; who reads and writes it when is the        *)
(* business of CarryRunner.                                                *)
(***************************************************************************)
EXTENDS Integers, Sequences, SequencesExt

CONSTANTS
  MaxTasks,       \* bound: ids ever given out (t1, t2, ... in the code)
  Project,        \* working directories that tasks name
  Cwd,            \* the directory of each task
  Iso,            \* its isolationMode: "infolder", "worktree" or "none"
  Runner,         \* runner processes; each is one operating system process
  Pid,            \* process ids of headless Claude children
  NoPid, NoLock, NoTask

Task == 1..MaxTasks

ASSUME MaxTasksType == MaxTasks \in Nat
ASSUME CwdType == Cwd \in [Task -> Project]
ASSUME IsoType == Iso \in [Task -> {"infolder", "worktree", "none"}]
ASSUME NoPidIsNoPid == NoPid \notin Pid

(***************************************************************************)
(* Branches of a project: carry/t<n> is n itself, the branch of the user   *)
(* is Main, and a HEAD that is on no branch is Detached.                   *)
(***************************************************************************)
Main == 0
Detached == -1
NoBranch == -2      \* base_branch is null

Status == {"pending", "running", "waiting", "parked", "needs-approval", "done", "failed"}
Finished == {"done", "failed"}

Lock == [owner: Runner, pid: Pid \union {NoPid}]

ASSUME NoLockIsNoLock == NoLock \notin Lock

(***************************************************************************)
(* A task: the fields the supervisor decides by.  session stands for a     *)
(* session_id that is not null, resume for resume_at (0 is null), plan for *)
(* plan_first, branch and worktree for the recorded names.                 *)
(***************************************************************************)
Record == [status: Status, session: BOOLEAN, resume: Nat, lock: Lock \union {NoLock},
           base: Task \union {Main, NoBranch}, branch: BOOLEAN, plan: BOOLEAN,
           worktree: BOOLEAN]

ASSUME NoTaskIsNoTask == NoTask \notin Record

Queue == [task: [Task -> Record \union {NoTask}], order: Seq(Task), nextId: Nat,
          paused: BOOLEAN]

EmptyQueue ==
  [task |-> [t \in Task |-> NoTask], order |-> <<>>, nextId |-> 1, paused |-> FALSE]

Present(q) == {t \in Task : q.task[t] # NoTask}
Has(q, t, status) == t \in Present(q) /\ q.task[t].status = status

-----------------------------------------------------------------------------
Fresh(plan) ==
  [status |-> "pending", session |-> FALSE, resume |-> 0, lock |-> NoLock,
   base |-> NoBranch, branch |-> FALSE, plan |-> plan, worktree |-> FALSE]

\* Mutant: nextId is not counted up.
WithTaskSameId(q, record) ==
  [q EXCEPT !.task[q.nextId] = record, !.order = Append(@, q.nextId)]

\* addTask, with the fields the commands assign before they save.
WithTask(q, record) ==
  [q EXCEPT !.task[q.nextId] = record, !.order = Append(@, q.nextId), !.nextId = @ + 1]

\* updateTask: a task changes, the others and the order do not.
Updated(q, t, record) == [q EXCEPT !.task[t] = record]

\* Mutant: a running task can be removed.
RemovableAlways(q, t) == t \in Present(q)

\* removeTask refuses a running task; so does nothing else.
Removable(q, t) == t \in Present(q) /\ q.task[t].status # "running"

\* What a filter leaves of an order: its ids that are not in T, as they stood.
Remaining(order, T) ==
  LET left[n \in 0..Len(order)] ==
        IF n = 0 THEN <<>>
        ELSE IF order[n] \in T THEN left[n - 1] ELSE Append(left[n - 1], order[n])
  IN left[Len(order)]

Without(q, T) ==
  [q EXCEPT !.task = [t \in Task |-> IF t \in T THEN NoTask ELSE @[t]],
            !.order = Remaining(@, T)]

\* moveTask: splice the task out and in again.
Place(order, from, where) ==
  CASE where = "top" -> 1
    [] where = "bottom" -> Len(order)
    [] where = "up" -> IF from = 1 THEN 1 ELSE from - 1
    [] where = "down" -> IF from = Len(order) THEN from ELSE from + 1

Moved(q, from, where) ==
  [q EXCEPT !.order = InsertAt(RemoveAt(@, from), Place(@, from, where), @[from])]

\* acquireLock fails on the lock of another owner, and so does releaseLock.
LockAllows(record, r) == record.lock # NoLock => record.lock.owner = r

-----------------------------------------------------------------------------
(***************************************************************************)
(* What the runner reads off a queue.                                      *)
(***************************************************************************)

\* isActionable
Actionable(record, now) ==
  \/ record.status = "pending"
  \/ record.status = "waiting" /\ record.resume # 0 /\ record.resume <= now

\* Mutant: nothing serializes the tasks of one checkout.
CanStartAlways(q, t) == t \in Present(q)

\* canStart: a task that works in its project's own checkout needs it alone.
CanStart(q, t) ==
  Iso[t] = "infolder" =>
    \A s \in Present(q) :
      ~(q.task[s].status = "running" /\ Cwd[s] = Cwd[t] /\ Iso[s] = "infolder")

\* nextDispatchable: the first task in queue order that may start now.
Startable(q, now) ==
  {i \in 1..Len(q.order) :
     Actionable(q.task[q.order[i]], now) /\ CanStart(q, q.order[i])}

NextDispatchable(q, now) ==
  {q.order[i] : i \in {k \in Startable(q, now) : \A j \in Startable(q, now) : k <= j}}

Waiting(q) == {t \in Present(q) : q.task[t].status = "waiting" /\ q.task[t].resume # 0}
==============================================================================
