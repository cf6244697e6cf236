---------------------------- MODULE LeaseScheduler ----------------------------
(***************************************************************************)
(* packages/runsteward-core/src/scheduler.mjs: reserveLease and            *)
(* releaseReservedLease, file operation by file operation, run by several  *)
(* processes over one state file.                                          *)
(*                                                                         *)
(* Everything the processes share is on disk: the scheduler state file,    *)
(* its coordination lock file, one physical lock file per run, and the Git *)
(* branch and worktree of each run.  A lock file is taken by an exclusive  *)
(* create (flag "wx") and given back by unlinking it; nothing else ever    *)
(* removes one.  A process may die between any two file operations, a      *)
(* write may fail, and an unlink may fail.                                 *)
(***************************************************************************)
EXTENDS Integers

CONSTANTS
  Proc,           \* processes that call the scheduler
  Run, Task, TaskOf, Overlap,   \* as in LeaseRegistry
  MaxEpoch,       \* bound: the leases one run may have
  Faults,         \* which faults happen: "crash", "write", "unlink"
  NoState,        \* the state file does not exist (null in the code)
  NoLease,        \* no operation in progress
  Free            \* a lock file that does not exist

ASSUME TaskOfType == TaskOf \in [Run -> Task]
ASSUME OverlapType == Overlap \subseteq SUBSET Run
ASSUME FaultsType == Faults \subseteq {"crash", "write", "unlink"}
ASSUME MaxEpochType == MaxEpoch \in Nat
ASSUME FreeIsNoProc == Free \notin Proc
ASSUME CoordinationIsNoRun == "coordination" \notin Run

VARIABLES
  state,          \* content of the scheduler state file
  coordLock,      \* creator of ${stateFile}.lock, or Free
  leaseLock,      \* for each run, creator of its lock_path file, or Free
  git,            \* runs whose branch and worktree physically exist
  pc,             \* where each process is
  lease,          \* the lease its current operation is about
  prior,          \* the priorState each caller will pass
  inventory,      \* the inventory each caller will pass
  held,           \* the lock files the current operation has acquired
  committed,      \* whether its state replacement happened
  residue         \* history: lock files orphaned by a crash or reported as
                  \* residual by a RUNSTEWARD_CLEANUP_REQUIRED error

vars == <<state, coordLock, leaseLock, git, pc, lease, prior, inventory, held,
          committed, residue>>
disk == <<state, coordLock, leaseLock, git>>
memory == <<pc, lease, prior, inventory, held, committed>>

LeasesIn(s) == IF s = NoState THEN {} ELSE s.leases
\* Mutant: the revision is copied instead of advanced.
NextRevisionCopied(s) == IF s = NoState THEN -1 ELSE s.revision

NextRevision(s) == IF s = NoState THEN 0 ELSE s.revision + 1

Registry == INSTANCE LeaseRegistry WITH leases <- LeasesIn(state)

Lease == Registry!Lease
State == [revision: Nat, leases: SUBSET Lease]
Lock == {"coordination"} \union Run

ASSUME NoLeaseIsNoLease == NoLease \notin Lease
ASSUME NoStateIsNoState == NoState \notin State

-----------------------------------------------------------------------------
(***************************************************************************)
(* The checks on lease sets.                                               *)
(***************************************************************************)

\* Mutant: task_id is missing from the identities.
UniqueButForTask(S) ==
  /\ \A a, b \in S : a.run = b.run /\ a.epoch = b.epoch => a = b
  /\ \A a, b \in Registry!Held(S) : a # b => a.run # b.run

\* assertLeaseUniqueness: one record per (run, epoch), an unbroken chain of
\* predecessors bound by their released digest, and no two unreleased leases
\* with a common identity.
Unique(S) ==
  /\ \A a, b \in S : a.run = b.run /\ a.epoch = b.epoch => a = b
  /\ \A a \in S : a.epoch > 1 =>
       \E b \in S : b.run = a.run /\ b.epoch = a.epoch - 1 /\ b.status = "released"
  /\ \A a, b \in Registry!Held(S) : a # b =>
       a.run # b.run /\ TaskOf[a.run] # TaskOf[b.run]

\* assertSchedulerPathContainment, assertNoLeasePathContainment.
Disjoint(S) == \A a, b \in Registry!Held(S) : {a.run, b.run} \notin Overlap \/ a = b

WellFormed(S) == Unique(S) /\ Disjoint(S)

\* assertAllocationAvailable, for a lease proposed against an inventory.
AllocationAvailable(l, inv) ==
  /\ WellFormed(inv.leases \union {l})
  /\ l.run \notin inv.git
  /\ \A g \in inv.git : {l.run, g} \notin Overlap

\* The leases a caller may propose (proposeInitialLease): epoch 1 of any run.
InitialProposals == [run: Run, epoch: {1}, status: {"proposed"}]

\* The successors of the released leases it knows of (proposeSuccessorLease).
SuccessorProposals(known) ==
  {[run |-> l.run, epoch |-> l.epoch + 1, status |-> "proposed"] :
      l \in {k \in known : k.status = "released" /\ k.epoch < MaxEpoch}}

Proposals(known) == InitialProposals \union SuccessorProposals(known)

Activated(l) == [l EXCEPT !.status = "active"]
Released(l) == [l EXCEPT !.status = "released"]

\* The state a reservation and a release will write, computed from prior.
AfterReserve(s, l) ==
  [revision |-> NextRevision(s), leases |-> LeasesIn(s) \union {Activated(l)}]
AfterRelease(s, l) ==
  [revision |-> NextRevision(s), leases |-> (LeasesIn(s) \ {l}) \union {Released(l)}]

Reserving(p) == lease[p] # NoLease /\ lease[p].status = "proposed"
Releasing(p) == lease[p] # NoLease /\ lease[p].status = "active"

-----------------------------------------------------------------------------
Init ==
  /\ state = NoState
  /\ coordLock = Free
  /\ leaseLock = [r \in Run |-> Free]
  /\ git = {}
  /\ pc = [p \in Proc |-> "idle"]
  /\ lease = [p \in Proc |-> NoLease]
  /\ prior = [p \in Proc |-> NoState]
  /\ inventory = [p \in Proc |-> [leases |-> {}, git |-> {}]]
  /\ held = [p \in Proc |-> {}]
  /\ committed = [p \in Proc |-> FALSE]
  /\ residue = {}

(***************************************************************************)
(* The caller gathers its arguments, at moments of its own choosing.       *)
(***************************************************************************)
ReadPrior(p) ==
  /\ pc[p] = "idle"
  /\ prior' = [prior EXCEPT ![p] = state]
  /\ UNCHANGED <<disk, pc, lease, inventory, held, committed, residue>>

TakeInventory(p) ==
  /\ pc[p] = "idle"
  /\ inventory' = [inventory EXCEPT ![p] = [leases |-> LeasesIn(state), git |-> git]]
  /\ UNCHANGED <<disk, pc, lease, prior, held, committed, residue>>

(***************************************************************************)
(* reserveLease and releaseReservedLease up to their first file operation: *)
(* a call whose arguments fail a check throws with nothing done.           *)
(***************************************************************************)
StartReserve(p) ==
  /\ pc[p] = "idle"
  /\ \E l \in Proposals(inventory[p].leases) :
       /\ AllocationAvailable(l, inventory[p])
       /\ LeasesIn(prior[p]) \subseteq inventory[p].leases
       /\ lease' = [lease EXCEPT ![p] = l]
  /\ pc' = [pc EXCEPT ![p] = "openLease"]
  /\ UNCHANGED <<disk, prior, inventory, held, committed, residue>>

StartRelease(p) ==
  /\ pc[p] = "idle"
  /\ prior[p] # NoState
  /\ \E l \in inventory[p].leases :
       /\ l.status = "active"
       /\ lease' = [lease EXCEPT ![p] = l]
  /\ pc' = [pc EXCEPT ![p] = "openCoordination"]
  /\ UNCHANGED <<disk, prior, inventory, held, committed, residue>>

\* Mutant: a failure at the coordination lock forgets the lease lock.
CleanupAtCoordinationOnly(locks) ==
  IF "coordination" \in locks THEN "unlinkCoordination" ELSE "return"

\* Where an operation that has just failed goes: it cleans up what it holds.
CleanupAt(locks) ==
  IF "coordination" \in locks THEN "unlinkCoordination"
  ELSE IF locks # {} THEN "unlinkLease"
  ELSE "return"

Fail(p) ==
  /\ pc' = [pc EXCEPT ![p] = CleanupAt(held[p])]
  /\ UNCHANGED <<disk, lease, prior, inventory, held, committed, residue>>

\* open(lock_path, "wx")
OpenLeaseLock(p) ==
  /\ pc[p] = "openLease"
  /\ LET r == lease[p].run
     IN \/ /\ leaseLock[r] = Free
           /\ leaseLock' = [leaseLock EXCEPT ![r] = p]
           /\ held' = [held EXCEPT ![p] = {r}]
           /\ pc' = [pc EXCEPT ![p] = "openCoordination"]
           /\ UNCHANGED <<state, coordLock, git, lease, prior, inventory, committed, residue>>
        \/ leaseLock[r] # Free /\ Fail(p)

\* Mutant: the coordination lock is opened with "w" and never collides.
OpenCoordinationLockShared(p) ==
  /\ pc[p] = "openCoordination"
  /\ coordLock' = p
  /\ held' = [held EXCEPT ![p] = @ \union {"coordination"}]
  /\ pc' = [pc EXCEPT ![p] = "compare"]
  /\ UNCHANGED <<state, leaseLock, git, lease, prior, inventory, committed, residue>>

\* open(`${stateFile}.lock`, "wx")
OpenCoordinationLock(p) ==
  /\ pc[p] = "openCoordination"
  /\ \/ /\ coordLock = Free
        /\ coordLock' = p
        /\ held' = [held EXCEPT ![p] = @ \union {"coordination"}]
        /\ pc' = [pc EXCEPT ![p] = "compare"]
        /\ UNCHANGED <<state, leaseLock, git, lease, prior, inventory, committed, residue>>
     \/ coordLock # Free /\ Fail(p)

(***************************************************************************)
(* readSchedulerState, the digest comparison and buildSchedulerState, all  *)
(* under the coordination lock.  What will be written is built here, from  *)
(* the state just read, which the comparison has found equal to prior.     *)
(***************************************************************************)
Replacement(p) ==
  IF Reserving(p) THEN AfterReserve(prior[p], lease[p]) ELSE AfterRelease(prior[p], lease[p])

\* Mutant: no digest comparison.
MayReplaceStale(p) ==
  /\ Releasing(p) => lease[p] \in LeasesIn(state)
  /\ WellFormed(Replacement(p).leases)

MayReplace(p) ==
  /\ state = prior[p]
  /\ Releasing(p) => lease[p] \in LeasesIn(state)
  /\ WellFormed(Replacement(p).leases)

Compare(p) ==
  /\ pc[p] = "compare"
  /\ \/ /\ MayReplace(p)
        /\ pc' = [pc EXCEPT ![p] = "rename"]
        /\ UNCHANGED <<disk, lease, prior, inventory, held, committed, residue>>
     \/ ~MayReplace(p) /\ Fail(p)

\* atomicWriteJson up to and including its rename: the old content or the new.
Rename(p) ==
  /\ pc[p] = "rename"
  /\ state' = Replacement(p)
  /\ committed' = [committed EXCEPT ![p] = TRUE]
  /\ pc' = [pc EXCEPT ![p] = IF Reserving(p) THEN "unlinkCoordination" ELSE "unlinkLease"]
  /\ UNCHANGED <<coordLock, leaseLock, git, lease, prior, inventory, held, residue>>

\* An open (other than by EEXIST), a write, a sync, a close or the rename
\* fails, or beforeRename throws.
WriteFails(p) ==
  /\ "write" \in Faults
  /\ pc[p] \in {"openLease", "openCoordination", "compare", "rename"}
  /\ Fail(p)

(***************************************************************************)
(* Cleanup.  A reservation gives back the coordination lock and, unless it *)
(* committed, its lease lock; a release removes the lease lock as soon as  *)
(* it has committed, then the coordination lock.                           *)
(***************************************************************************)
\* Mutant: a committed reservation gives its lease lock back.
AfterCoordinationAlways(p) == IF Reserving(p) THEN "unlinkLease" ELSE "return"

AfterCoordination(p) ==
  IF Reserving(p) /\ ~committed[p] THEN "unlinkLease" ELSE "return"

\* Mutant: a release returns with the coordination lock in place.
AfterLeaseReturns(p) == "return"

AfterLease(p) ==
  IF Releasing(p) THEN "unlinkCoordination" ELSE "return"

UnlinkCoordination(p) ==
  /\ pc[p] = "unlinkCoordination"
  /\ \/ /\ coordLock' = Free
        /\ UNCHANGED residue
     \/ /\ "unlink" \in Faults
        /\ residue' = residue \union {"coordination"}
        /\ UNCHANGED coordLock
  /\ held' = [held EXCEPT ![p] = @ \ {"coordination"}]
  /\ pc' = [pc EXCEPT ![p] = AfterCoordination(p)]
  /\ UNCHANGED <<state, leaseLock, git, lease, prior, inventory, committed>>

UnlinkLease(p) ==
  /\ pc[p] = "unlinkLease"
  /\ LET r == lease[p].run
     IN /\ \/ /\ leaseLock' = [leaseLock EXCEPT ![r] = Free]
              /\ UNCHANGED residue
           \/ /\ "unlink" \in Faults
              /\ residue' = residue \union {r}
              /\ UNCHANGED leaseLock
        /\ held' = [held EXCEPT ![p] = @ \ {r}]
  /\ pc' = [pc EXCEPT ![p] = AfterLease(p)]
  /\ UNCHANGED <<state, coordLock, git, lease, prior, inventory, committed>>

\* The call returns or throws; the caller keeps what it had read.
Return(p) ==
  /\ pc[p] = "return"
  /\ pc' = [pc EXCEPT ![p] = "idle"]
  /\ lease' = [lease EXCEPT ![p] = NoLease]
  /\ held' = [held EXCEPT ![p] = {}]
  /\ committed' = [committed EXCEPT ![p] = FALSE]
  /\ UNCHANGED <<disk, prior, inventory, residue>>

\* The lock files that nobody will remove once p is dead.
Orphans(p) ==
  {k \in held[p] : k = "coordination" \/ (Reserving(p) /\ ~committed[p])} \union
  {r \in Run : Releasing(p) /\ pc[p] = "unlinkLease" /\ r = lease[p].run}

Crash(p) ==
  /\ "crash" \in Faults
  /\ pc[p] # "idle"
  /\ residue' = residue \union Orphans(p)
  /\ pc' = [pc EXCEPT ![p] = "idle"]
  /\ lease' = [lease EXCEPT ![p] = NoLease]
  /\ held' = [held EXCEPT ![p] = {}]
  /\ committed' = [committed EXCEPT ![p] = FALSE]
  /\ UNCHANGED <<disk, prior, inventory>>

(***************************************************************************)
(* The holder of a lease creates its branch and worktree; they outlive the *)
(* lease until someone removes them.                                       *)
(***************************************************************************)
AddWorktree(r) ==
  /\ \E l \in LeasesIn(state) : l.run = r /\ l.status = "active"
  /\ git' = git \union {r}
  /\ UNCHANGED <<state, coordLock, leaseLock, memory, residue>>

RemoveWorktree(r) ==
  /\ \A l \in LeasesIn(state) : l.run = r => l.status = "released"
  /\ git' = git \ {r}
  /\ UNCHANGED <<state, coordLock, leaseLock, memory, residue>>

Operation(p) ==
  \/ OpenLeaseLock(p) \/ OpenCoordinationLock(p) \/ Compare(p) \/ Rename(p)
  \/ UnlinkCoordination(p) \/ UnlinkLease(p) \/ Return(p)

Caller(p) ==
  ReadPrior(p) \/ TakeInventory(p) \/ StartReserve(p) \/ StartRelease(p)

Next ==
  \/ \E p \in Proc : Operation(p) \/ Caller(p) \/ WriteFails(p) \/ Crash(p)
  \/ \E r \in Run : AddWorktree(r) \/ RemoveWorktree(r)

Spec == Init /\ [][Next]_vars

\* A started call runs on to its end: the event loop of a live process keeps
\* taking the steps of a pending promise.  Nobody is obliged to start one.
FairSpec == Spec /\ \A p \in Proc : WF_vars(Operation(p))
-----------------------------------------------------------------------------
(***************************************************************************)
(* Properties.                                                             *)
(***************************************************************************)
PcType == {"idle", "openLease", "openCoordination", "compare", "rename",
           "unlinkCoordination", "unlinkLease", "return"}

\* Every variable holds what its file or its JavaScript variable can hold.
TypeOK ==
  /\ state \in State \union {NoState}
  /\ coordLock \in Proc \union {Free}
  /\ leaseLock \in [Run -> Proc \union {Free}]
  /\ git \subseteq Run
  /\ pc \in [Proc -> PcType]
  /\ lease \in [Proc -> Lease \union {NoLease}]
  /\ prior \in [Proc -> State \union {NoState}]
  /\ inventory \in [Proc -> [leases: SUBSET Lease, git: SUBSET Run]]
  /\ held \in [Proc -> SUBSET Lock]
  /\ committed \in [Proc -> BOOLEAN]
  /\ residue \subseteq Lock

\* Two leases that are held at once never share a run, a task or a path,
\* whatever stale inventory and prior state the callers passed.
NoTwoHolders ==
  \A a, b \in Registry!Held(LeasesIn(state)) :
    a # b => a.run # b.run /\ ~Registry!Clash(a.run, b.run)

IsActive(r) == \E l \in LeasesIn(state) : l.run = r /\ l.status = "active"

\* A lease recorded as active is backed by its physical lock file: no failing
\* reservation, late release or crash takes the file from under it.
ActiveIsLocked ==
  \A r \in Run : IsActive(r) => leaseLock[r] # Free

\* "A failed reservation removes only locks it acquired; if removal fails,
\* the call fails": a lock file on disk is in use by a call in progress, or
\* backs an active lease, or a crash or a reported cleanup failure left it.
\* p created the lock file of r for a reservation that has not committed.
Claims(p, r) == r \in held[p] /\ ~committed[p]

\* p has recorded the release of the lease of r and will unlink its lock file.
Frees(p, r) == Releasing(p) /\ lease[p].run = r /\ pc[p] = "unlinkLease"

LocksAccountedFor ==
  /\ coordLock # Free =>
       \/ "coordination" \in residue
       \/ "coordination" \in held[coordLock]
  /\ \A r \in Run : leaseLock[r] # Free =>
       \/ r \in residue
       \/ IsActive(r)
       \/ \E p \in Proc : Claims(p, r) \/ Frees(p, r)

\* "Such a residual lock never authorizes automatic deletion or takeover": a
\* residual coordination lock freezes the state file, a residual lease lock
\* keeps its run from being granted, and no operation removes either.
NoTakeover ==
  /\ "coordination" \in residue => coordLock' = coordLock /\ state' = state
  /\ \A r \in Run \cap residue :
       /\ leaseLock'[r] = leaseLock[r]
       /\ \A l \in LeasesIn(state') \ LeasesIn(state) : l.run # r
ResidueIsNeverTakenOver == [][NoTakeover]_vars

\* Nothing is lost: seen through the state file alone, every behaviour is one
\* of atomic grants and releases, so "concurrent writers with a stale prior
\* state are rejected rather than losing an update".
ImplementsRegistry == Registry!Spec

\* "An active successor may reuse the same intended branch/path identity only
\* through the explicit predecessor chain": with a current prior state and the
\* complete inventory, and nothing held in its way, a released run can resume.
SuccessorAdmissible ==
  \A p \in Proc : \A l \in Proposals(LeasesIn(state)) :
    /\ prior[p] = state
    /\ inventory[p] = [leases |-> LeasesIn(state), git |-> git]
    /\ l.epoch > 1
    /\ Registry!Unclaimed(l.run, LeasesIn(state))
    /\ Registry!FollowsChain(l.run, l.epoch, LeasesIn(state))
    => AllocationAvailable(l, inventory[p])

\* The coordination lock is short-lived: whoever holds it, however the calls
\* interleave and whatever write fails, it becomes free again, unless a crash or
\* a failing unlink has made it residue.
CoordinationIsShortLived ==
  coordLock # Free ~> coordLock = Free \/ "coordination" \in residue

-----------------------------------------------------------------------------
(***************************************************************************)
(* The inductive invariant behind these properties (LeaseScheduler_proofs).*)
(***************************************************************************)

\* What a process knows at each place of its operation.
ProcInv(p) ==
  /\ pc[p] = "idle" => lease[p] = NoLease /\ held[p] = {} /\ ~committed[p]
  /\ pc[p] # "idle" => Reserving(p) \/ Releasing(p)
  /\ pc[p] = "openLease" => Reserving(p) /\ held[p] = {} /\ ~committed[p]
  /\ pc[p] \in {"compare", "rename", "unlinkCoordination"} => "coordination" \in held[p]
  /\ Releasing(p) => held[p] \subseteq {"coordination"}
  /\ Releasing(p) /\ pc[p] = "unlinkLease" => "coordination" \in held[p]
  /\ Reserving(p) /\ pc[p] \in {"openCoordination", "compare", "rename", "unlinkLease"} =>
       ~committed[p] /\ lease[p].run \in held[p]
  /\ Reserving(p) /\ pc[p] = "unlinkCoordination" /\ ~committed[p] =>
       lease[p].run \in held[p]
  /\ pc[p] = "openCoordination" \/ (Reserving(p) /\ pc[p] = "unlinkLease") =>
       "coordination" \notin held[p]
  /\ pc[p] = "return" => "coordination" \notin held[p] /\ (committed[p] \/ held[p] = {})
  /\ pc[p] = "rename" => MayReplace(p)
  /\ Reserving(p) => held[p] \subseteq {"coordination", lease[p].run}

\* Lock files belong to the operation that created them.
OwnInv(p) ==
  /\ "coordination" \in held[p] => coordLock = p /\ "coordination" \notin residue
  /\ \A r \in Run : Claims(p, r) => leaseLock[r] = p /\ ~IsActive(r) /\ r \notin residue

\* A lock file being removed after a release is nobody else's.
FreeInv(p, r) ==
  Frees(p, r) => /\ leaseLock[r] # Free /\ ~IsActive(r) /\ r \notin residue
                 /\ \A q \in Proc : ~Claims(q, r)

StateInv ==
  /\ WellFormed(LeasesIn(state))
  /\ \A l \in LeasesIn(state) : l.status \in {"active", "released"}

ResidueInv ==
  /\ "coordination" \in residue => coordLock # Free
  /\ \A r \in Run \cap residue : leaseLock[r] # Free /\ ~IsActive(r)

IInv ==
  /\ \A p \in Proc : ProcInv(p) /\ OwnInv(p)
  /\ \A p \in Proc, r \in Run : FreeInv(p, r)
  /\ StateInv
  /\ ActiveIsLocked
  /\ LocksAccountedFor
  /\ ResidueInv
==============================================================================
