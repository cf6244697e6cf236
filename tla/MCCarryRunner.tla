---------------------------- MODULE MCCarryRunner ----------------------------
(***************************************************************************)
(* CarryRunner on small instances: one project, two or three tasks, two    *)
(* runner processes, two or three Claude processes.                        *)
(***************************************************************************)
EXTENDS CarryRunner

CONSTANTS c1, p1, p2, r1, r2

\* Two tasks in one checkout.
SameCwd == [t \in Task |-> c1]
AllInFolder == [t \in Task |-> "infolder"]

\* A task in the checkout, one in a worktree of its own.
FolderAndTree == [t \in Task |-> IF t = 1 THEN "infolder" ELSE "worktree"]

\* A task in a worktree, and a conversation of the user's.
TreeAndAdopted == [t \in Task |-> IF t = 1 THEN "worktree" ELSE "none"]

Pids == Permutations(Pid)
==============================================================================
