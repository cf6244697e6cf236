----------------------------- MODULE CarrySessions -----------------------------
(***************************************************************************)
(* What Carry promises about the things its headless Claude processes work *)
(* with.  A task's conversation belongs to one process at a time, and once *)
(* its id is known it is continued, not begun again.  A project's checkout *)
(* is on the branch of the in-folder task at work in it, and nobody moves  *)
(* it away meanwhile.  A worktree stays while a process works on its task. *)
(* Runners, their deaths and restarts, queue.json and its copies do not    *)
(* exist at this level; CarryRunner has them.                              *)
(***************************************************************************)
EXTENDS FiniteSets

CONSTANTS
  Task, Project, Pid,
  Cwd,              \* the project of each task
  Iso,              \* how it is kept apart: "infolder", "worktree" or "none"
  Main, Detached    \* what a checkout is on that is on no branch of a task

VARIABLES
  work,     \* the processes at work: task, pid, and whether it began afresh
  known,    \* the tasks whose conversation has an id on record
  head,     \* the branch that is checked out in each project
  trees     \* the tasks whose worktree exists

vars == <<work, known, head, trees>>

AtWork == {w.task : w \in work}
Occupied(c) == \E t \in AtWork : Iso[t] = "infolder" /\ Cwd[t] = c

TypeOK ==
  /\ work \subseteq [task: Task, pid: Pid, fresh: BOOLEAN]
  /\ known \subseteq Task /\ trees \subseteq Task
  /\ head \in [Project -> Task \union {Main, Detached}]

Init == work = {} /\ known = {} /\ trees = {} /\ head = [c \in Project |-> Main]

Start(w) ==
  /\ w.task \notin AtWork /\ \A v \in work : v.pid # w.pid
  /\ w.fresh => w.task \notin known
  /\ Iso[w.task] = "infolder" => ~Occupied(Cwd[w.task]) /\ head[Cwd[w.task]] = w.task
  /\ work' = work \union {w}
  /\ UNCHANGED <<known, head, trees>>

End(w) == work' = work \ {w} /\ UNCHANGED <<known, head, trees>>

\* Conversations become known and tasks are removed, but none that is at work.
OnRecord(K) ==
  /\ known \intersect AtWork \subseteq K
  /\ known' = K
  /\ UNCHANGED <<work, head, trees>>

Checkout(c, b) ==
  /\ ~Occupied(c)
  /\ head' = [head EXCEPT ![c] = b]
  /\ UNCHANGED <<work, known, trees>>

MakeTree(t) == t \in AtWork /\ trees' = trees \union {t} /\ UNCHANGED <<work, known, head>>

RemoveTrees(T) == T \intersect AtWork = {} /\ trees' = trees \ T /\ UNCHANGED <<work, known, head>>

Next ==
  \/ \E w \in [task: Task, pid: Pid, fresh: BOOLEAN] : Start(w)
  \/ \E w \in work : End(w)
  \/ \E t \in Task : MakeTree(t)
  \/ \E T \in SUBSET Task : OnRecord(T) \/ RemoveTrees(T)
  \/ \E c \in Project, b \in Task \union {Main, Detached} : Checkout(c, b)

Spec == Init /\ [][Next]_vars
================================================================================
