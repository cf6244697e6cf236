---------------------------- MODULE LeaseRegistry ----------------------------
(***************************************************************************)
(* What the RunSteward scheduler promises its callers: one registry of     *)
(* worktree leases that grows by atomic grants and atomic releases.  A run *)
(* holds at most one lease at a time, the leases of a run are numbered by  *)
(* consecutive epochs, a lease is granted only when nothing that clashes   *)
(* with it is held, and nothing that was recorded is ever forgotten.       *)
(* Lock files, prior-state digests, crashes and failing file operations    *)
(* do not exist at this level; LeaseScheduler has them.                    *)
(***************************************************************************)
EXTENDS Naturals

CONSTANTS
  Run,            \* run ids: one per (repository, task, source head)
  Task,           \* task ids
  TaskOf,         \* the task of each run
  Overlap         \* pairs {r, s} of runs one of whose lease paths contains
                  \* (or is) a lease path of the other

VARIABLE leases   \* every lease ever granted, with its present status

(***************************************************************************)
(* A lease is its run, its epoch and its status.  The digest of a lease is *)
(* the digest of its content, so equality of these records stands for      *)
(* equality of digests.  "releasing", "stale" and "quarantined" are legal  *)
(* statuses of the contract that no operation of the scheduler assigns.    *)
(***************************************************************************)
Lease == [run: Run, epoch: Nat \ {0}, status: {"proposed", "active", "released"}]

\* Two different runs that may not be held at the same time.
Clash(r, s) == r # s /\ (TaskOf[r] = TaskOf[s] \/ {r, s} \in Overlap)

Held(S) == {l \in S : l.status # "released"}

\* Nothing held in S stands in the way of a lease for run r.
Unclaimed(r, S) == \A l \in Held(S) : l.run # r /\ ~Clash(r, l.run)

\* Lease number e of run r directly follows what S records of that run.
FollowsChain(r, e, S) ==
  /\ \A l \in S : l.run = r => l.epoch # e
  /\ e > 1 => \E l \in S : l.run = r /\ l.epoch = e - 1 /\ l.status = "released"

Granted(r, e) == [run |-> r, epoch |-> e, status |-> "active"]
Released(l) == [l EXCEPT !.status = "released"]

Init == leases = {}

Grant(r, e) ==
  /\ Unclaimed(r, leases)
  /\ FollowsChain(r, e, leases)
  /\ leases' = leases \union {Granted(r, e)}

Release(l) ==
  /\ l \in leases
  /\ l.status = "active"
  /\ leases' = (leases \ {l}) \union {Released(l)}

Next ==
  \/ \E r \in Run, e \in {1} \union {l.epoch + 1 : l \in leases} : Grant(r, e)
  \/ \E l \in leases : Release(l)

Spec == Init /\ [][Next]_leases
==============================================================================
