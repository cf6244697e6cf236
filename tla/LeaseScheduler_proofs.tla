------------------------ MODULE LeaseScheduler_proofs ------------------------
(***************************************************************************)
(* Theorems about LeaseScheduler, for every set of processes and runs,     *)
(* every clash relation, every bound on epochs and every mix of faults.    *)
(***************************************************************************)
EXTENDS LeaseScheduler, TLAPS

USE FreeIsNoProc, CoordinationIsNoRun, NoLeaseIsNoLease, NoStateIsNoState

-----------------------------------------------------------------------------
(***************************************************************************)
(* Types.                                                                  *)
(***************************************************************************)

\* What a state or its absence offers as leases and as next revision.
LEMMA StateParts ==
  ASSUME NEW s \in State \union {NoState}
  PROVE  LeasesIn(s) \in SUBSET Lease /\ NextRevision(s) \in Nat
BY DEF LeasesIn, NextRevision, State

\* A proposed lease is a lease when the leases it succeeds are.
LEMMA ProposalType ==
  ASSUME NEW S \in SUBSET Lease, NEW l \in Proposals(S)
  PROVE  l \in Lease /\ l.status = "proposed"
BY DEF Proposals, InitialProposals, SuccessorProposals, Lease, Registry!Lease

\* Changing the status of a lease gives a lease.
LEMMA StatusType ==
  ASSUME NEW l \in Lease
  PROVE  /\ Activated(l) \in Lease
         /\ Activated(l).run = l.run /\ Activated(l).epoch = l.epoch
         /\ Activated(l).status = "active"
         /\ Released(l) \in Lease
         /\ Released(l).run = l.run /\ Released(l).epoch = l.epoch
         /\ Released(l).status = "released"
BY DEF Activated, Released, Lease, Registry!Lease

\* The state an operation writes is a state.
LEMMA ReplacementType ==
  ASSUME TypeOK, NEW p \in Proc, lease[p] # NoLease
  PROVE  Replacement(p) \in State
<1>1. prior[p] \in State \union {NoState} /\ lease[p] \in Lease
  BY DEF TypeOK
<1>2. LeasesIn(prior[p]) \in SUBSET Lease /\ NextRevision(prior[p]) \in Nat
  BY <1>1, StateParts
<1>3. Activated(lease[p]) \in Lease /\ Released(lease[p]) \in Lease
  BY <1>1, StatusType
<1>4. QED
  BY <1>2, <1>3 DEF Replacement, AfterReserve, AfterRelease, State

\* An operation in progress has a lease to work on.
Busy == \A p \in Proc : pc[p] # "idle" => lease[p] # NoLease

\* The initial state is well typed.
LEMMA TypeInit == Init => TypeOK /\ Busy
BY DEF Init, TypeOK, Busy, PcType, Lock, Lease, Registry!Lease

\* A failing operation keeps the types: it only moves to its cleanup.
LEMMA FailType ==
  ASSUME TypeOK, Busy, NEW p \in Proc, pc[p] # "idle", Fail(p)
  PROVE  TypeOK' /\ Busy'
<1>1. CleanupAt(held[p]) \in PcType
  BY DEF CleanupAt, PcType
<1>2. QED
  BY <1>1 DEF Fail, TypeOK, Busy, disk, PcType

\* Every step keeps the types.
LEMMA TypeStep == TypeOK /\ Busy /\ [Next]_vars => TypeOK' /\ Busy'
<1> SUFFICES ASSUME TypeOK, Busy, [Next]_vars
             PROVE  TypeOK' /\ Busy'
  OBVIOUS
<1> USE DEF TypeOK, Busy, PcType, Lock, disk, memory
<1>s. LeasesIn(state) \in SUBSET Lease
  BY StateParts
<1>1. ASSUME NEW p \in Proc, OpenLeaseLock(p) PROVE TypeOK' /\ Busy'
  <2>1. lease[p] \in Lease /\ lease[p].run \in Run
    BY <1>1 DEF OpenLeaseLock, Lease, Registry!Lease
  <2>2. CASE leaseLock[lease[p].run] # Free
    BY <1>1, <2>2, FailType DEF OpenLeaseLock
  <2>3. CASE leaseLock[lease[p].run] = Free
    <3>1. held' = [held EXCEPT ![p] = {lease[p].run}] /\ {lease[p].run} \in SUBSET Lock
      BY <1>1, <2>1, <2>3 DEF OpenLeaseLock
    <3>2. held' \in [Proc -> SUBSET Lock]
      BY <3>1
    <3>3. /\ pc' = [pc EXCEPT ![p] = "openCoordination"]
          /\ leaseLock' = [leaseLock EXCEPT ![lease[p].run] = p]
          /\ UNCHANGED <<state, coordLock, git, lease, prior, inventory, committed, residue>>
      BY <1>1, <2>3 DEF OpenLeaseLock
    <3>4. leaseLock' \in [Run -> Proc \union {Free}]
      BY <3>3
    <3>5. QED
      BY <1>1, <2>1, <3>2, <3>3, <3>4
  <2>4. QED
    BY <2>2, <2>3
<1>2. ASSUME NEW p \in Proc, OpenCoordinationLock(p) PROVE TypeOK' /\ Busy'
  <2>1. CASE coordLock # Free
    BY <1>2, <2>1, FailType DEF OpenCoordinationLock
  <2>2. CASE coordLock = Free
    <3>1. held' = [held EXCEPT ![p] = held[p] \union {"coordination"}]
      BY <1>2, <2>2 DEF OpenCoordinationLock
    <3>2. held' \in [Proc -> SUBSET Lock]
      BY <3>1
    <3>3. QED
      BY <1>2, <2>2, <3>2 DEF OpenCoordinationLock
  <2>3. QED
    BY <2>1, <2>2
<1>3. ASSUME NEW p \in Proc, Compare(p) PROVE TypeOK' /\ Busy'
  BY <1>3, FailType DEF Compare
<1>4. ASSUME NEW p \in Proc, Rename(p) PROVE TypeOK' /\ Busy'
  <2>1. Replacement(p) \in State
    BY <1>4, ReplacementType DEF Rename
  <2>2. QED
    BY <1>4, <2>1 DEF Rename
<1>5. ASSUME NEW p \in Proc, UnlinkCoordination(p) PROVE TypeOK' /\ Busy'
  BY <1>5 DEF UnlinkCoordination, AfterCoordination
<1>6. ASSUME NEW p \in Proc, UnlinkLease(p) PROVE TypeOK' /\ Busy'
  <2>1. lease[p] \in Lease /\ lease[p].run \in Run
    BY <1>6 DEF UnlinkLease, Lease, Registry!Lease
  <2>2. QED
    BY <1>6, <2>1 DEF UnlinkLease, AfterLease
<1>7. ASSUME NEW p \in Proc, Return(p) PROVE TypeOK' /\ Busy'
  BY <1>7 DEF Return
<1>8. ASSUME NEW p \in Proc, ReadPrior(p) PROVE TypeOK' /\ Busy'
  BY <1>8 DEF ReadPrior
<1>9. ASSUME NEW p \in Proc, TakeInventory(p) PROVE TypeOK' /\ Busy'
  BY <1>9, <1>s DEF TakeInventory
<1>10. ASSUME NEW p \in Proc, StartReserve(p) PROVE TypeOK' /\ Busy'
  <2>1. PICK l \in Proposals(inventory[p].leases) : lease' = [lease EXCEPT ![p] = l]
    BY <1>10 DEF StartReserve
  <2>2. l \in Lease
    BY ProposalType
  <2>3. QED
    BY <1>10, <2>1, <2>2 DEF StartReserve
<1>11. ASSUME NEW p \in Proc, StartRelease(p) PROVE TypeOK' /\ Busy'
  BY <1>11 DEF StartRelease
<1>12. ASSUME NEW p \in Proc, WriteFails(p) PROVE TypeOK' /\ Busy'
  BY <1>12, FailType DEF WriteFails
<1>13. ASSUME NEW p \in Proc, Crash(p) PROVE TypeOK' /\ Busy'
  BY <1>13 DEF Crash, Orphans
<1>14. ASSUME NEW r \in Run, AddWorktree(r) \/ RemoveWorktree(r) PROVE TypeOK' /\ Busy'
  BY <1>14 DEF AddWorktree, RemoveWorktree
<1>15. CASE UNCHANGED vars
  BY <1>15 DEF vars
<1>16. QED
  BY <1>1, <1>2, <1>3, <1>4, <1>5, <1>6, <1>7, <1>8, <1>9, <1>10, <1>11, <1>12,
     <1>13, <1>14, <1>15 DEF Next, Operation, Caller

\* Type correctness: every file and every variable of every operation keeps
\* its type, through every interleaving and fault.
THEOREM TypeCorrect == Spec => [](TypeOK /\ Busy)
<1>1. Init => TypeOK /\ Busy
  BY TypeInit
<1>2. TypeOK /\ Busy /\ [Next]_vars => (TypeOK /\ Busy)'
  BY TypeStep
<1>3. QED
  BY <1>1, <1>2, PTL DEF Spec

-----------------------------------------------------------------------------
(***************************************************************************)
(* The inductive invariant.                                                *)
(***************************************************************************)

\* A step that touches nothing of q.
Same(q) ==
  /\ pc'[q] = pc[q] /\ lease'[q] = lease[q] /\ held'[q] = held[q]
  /\ committed'[q] = committed[q] /\ prior'[q] = prior[q]

\* What q knows survives a step that touches neither q nor the state file.
LEMMA ProcInvSame ==
  ASSUME NEW q \in Proc, Same(q), state' = state, ProcInv(q)
  PROVE  ProcInv(q)'
BY DEF Same, ProcInv, Reserving, Releasing, MayReplace, Replacement

\* What is active is a matter of the state file alone.
LEMMA ActiveSame ==
  ASSUME state' = state
  PROVE  \A r \in Run : IsActive(r)' <=> IsActive(r)
BY DEF IsActive

\* The coordination lock has one holder.
LEMMA OneCoordinator ==
  ASSUME IInv, NEW p \in Proc, NEW q \in Proc,
         "coordination" \in held[p], "coordination" \in held[q]
  PROVE  p = q
BY DEF IInv, OwnInv

\* And so has the lock file of a run that is being reserved.
LEMMA OneClaimant ==
  ASSUME IInv, NEW p \in Proc, NEW q \in Proc, NEW r \in Run,
         Claims(p, r), Claims(q, r)
  PROVE  p = q
BY DEF IInv, OwnInv

\* The initial state satisfies the inductive invariant.
LEMMA InitIInv == Init => IInv
<1> SUFFICES ASSUME Init PROVE IInv
  OBVIOUS
<1>1. LeasesIn(state) = {}
  BY DEF Init, LeasesIn
<1>2. \A r \in Run : ~IsActive(r)
  BY <1>1 DEF IsActive
<1>3. \A p \in Proc : ProcInv(p) /\ OwnInv(p)
  BY DEF Init, ProcInv, OwnInv, Reserving, Releasing, Claims
<1>4. \A p \in Proc, r \in Run : ~Frees(p, r)
  BY DEF Init, Frees
<1>5. StateInv
  BY <1>1 DEF StateInv, WellFormed, Unique, Disjoint, Registry!Held
<1>6. QED
  BY <1>2, <1>3, <1>4, <1>5 DEF Init, IInv, FreeInv, ActiveIsLocked, LocksAccountedFor, ResidueInv

(***************************************************************************)
(* A step of p that changes neither the state file nor a lock file, nor    *)
(* what p claims or frees, preserves IInv as soon as p knows what it       *)
(* should at the place it has reached.                                     *)
(***************************************************************************)
LEMMA Quiet ==
  ASSUME TypeOK, IInv, NEW p \in Proc,
         UNCHANGED <<state, coordLock, leaseLock, residue>>,
         \A q \in Proc \ {p} : Same(q),
         "coordination" \in held'[p] <=> "coordination" \in held[p],
         \A r \in Run : (Claims(p, r)' <=> Claims(p, r)) /\ (Frees(p, r)' <=> Frees(p, r)),
         ProcInv(p)'
  PROVE  IInv'
<1>1. \A q \in Proc : ProcInv(q)'
  BY ProcInvSame DEF IInv
<1>2. \A q \in Proc, r \in Run : /\ Claims(q, r)' <=> Claims(q, r)
                                 /\ Frees(q, r)' <=> Frees(q, r)
  <2> SUFFICES ASSUME NEW q \in Proc, NEW r \in Run
               PROVE  /\ Claims(q, r)' <=> Claims(q, r)
                      /\ Frees(q, r)' <=> Frees(q, r)
    OBVIOUS
  <2>1. CASE q = p
    BY <2>1 DEF Claims, Frees, Releasing
  <2>2. CASE q # p
    BY <2>2 DEF Same, Claims, Frees, Releasing
  <2>3. QED
    BY <2>1, <2>2
<1>3. \A r \in Run : IsActive(r)' <=> IsActive(r)
  BY ActiveSame
<1>4. \A q \in Proc : "coordination" \in held'[q] <=> "coordination" \in held[q]
  BY DEF Same
<1>5. \A q \in Proc : OwnInv(q)'
  BY <1>2, <1>3, <1>4 DEF IInv, OwnInv
<1>6. \A q \in Proc, r \in Run : FreeInv(q, r)'
  BY <1>2, <1>3 DEF IInv, FreeInv
<1>7. StateInv'
  BY DEF IInv, StateInv
<1>8. ActiveIsLocked'
  BY <1>3 DEF IInv, ActiveIsLocked
<1>9. LocksAccountedFor'
  <2>1. coordLock # Free => "coordination" \in residue \/ "coordination" \in held'[coordLock]
    <3>1. CASE coordLock \in Proc
      BY <3>1, <1>4 DEF IInv, LocksAccountedFor
    <3>2. QED
      BY <3>1 DEF TypeOK
  <2>2. QED
    BY <1>2, <1>3, <2>1 DEF IInv, LocksAccountedFor
<1>10. ResidueInv'
  BY <1>3 DEF IInv, ResidueInv
<1>11. QED
  BY <1>1, <1>5, <1>6, <1>7, <1>8, <1>9, <1>10 DEF IInv

\* A failing operation turns to cleaning up exactly what it holds.
LEMMA FailStep ==
  ASSUME TypeOK, IInv, NEW p \in Proc, Fail(p),
         pc[p] \in {"openLease", "openCoordination", "compare", "rename"}
  PROVE  IInv'
<1>1. /\ pc' = [pc EXCEPT ![p] = CleanupAt(held[p])]
      /\ UNCHANGED <<state, coordLock, leaseLock, residue, lease, prior, held, committed>>
  BY DEF Fail, disk
<1>2. pc'[p] = CleanupAt(held[p]) /\ \A q \in Proc \ {p} : Same(q)
  BY <1>1 DEF TypeOK, Same
<1>3. ProcInv(p)
  BY DEF IInv
<1>4. CASE "coordination" \in held[p]
  <2>1. pc'[p] = "unlinkCoordination"
    BY <1>2, <1>4 DEF CleanupAt
  <2>2. ProcInv(p)'
    BY <1>1, <1>3, <1>4, <2>1 DEF ProcInv, Reserving, Releasing
  <2>3. \A r \in Run : (Claims(p, r)' <=> Claims(p, r)) /\ (Frees(p, r)' <=> Frees(p, r))
    BY <1>1, <2>1 DEF Claims, Frees
  <2>4. QED
    BY <1>1, <1>2, <2>2, <2>3, Quiet
<1>5. CASE "coordination" \notin held[p] /\ held[p] # {}
  <2>1. pc'[p] = "unlinkLease"
    BY <1>2, <1>5 DEF CleanupAt
  <2>2. Reserving(p) /\ ~Releasing(p)
    BY <1>3, <1>5 DEF ProcInv, Reserving, Releasing
  <2>3. ProcInv(p)'
    BY <1>1, <1>3, <1>5, <2>1, <2>2 DEF ProcInv, Reserving, Releasing
  <2>4. \A r \in Run : (Claims(p, r)' <=> Claims(p, r)) /\ (Frees(p, r)' <=> Frees(p, r))
    BY <1>1, <2>2 DEF Claims, Frees, Releasing
  <2>5. QED
    BY <1>1, <1>2, <2>3, <2>4, Quiet
<1>6. CASE held[p] = {}
  <2>1. pc'[p] = "return"
    BY <1>2, <1>6 DEF CleanupAt
  <2>2. ProcInv(p)'
    BY <1>1, <1>3, <1>6, <2>1 DEF ProcInv, Reserving, Releasing
  <2>3. \A r \in Run : (Claims(p, r)' <=> Claims(p, r)) /\ (Frees(p, r)' <=> Frees(p, r))
    BY <1>1, <2>1 DEF Claims, Frees
  <2>4. QED
    BY <1>1, <1>2, <1>6, <2>2, <2>3, Quiet
<1>7. QED
  BY <1>4, <1>5, <1>6

\* The steps of a caller between its calls, and the start of a call.
LEMMA CallerStep ==
  ASSUME TypeOK, IInv, NEW p \in Proc, Caller(p)
  PROVE  IInv'
<1>1. /\ pc[p] = "idle"
      /\ UNCHANGED <<state, coordLock, leaseLock, residue, held, committed>>
      /\ \A q \in Proc \ {p} : Same(q)
  BY DEF Caller, ReadPrior, TakeInventory, StartReserve, StartRelease, TypeOK, Same, disk
<1>2. lease[p] = NoLease /\ held[p] = {} /\ ~committed[p]
  BY <1>1 DEF IInv, ProcInv
<1>3. pc'[p] # "unlinkLease"
  BY <1>1 DEF Caller, ReadPrior, TakeInventory, StartReserve, StartRelease, TypeOK
<1>4. \A r \in Run : (Claims(p, r)' <=> Claims(p, r)) /\ (Frees(p, r)' <=> Frees(p, r))
  BY <1>1, <1>3 DEF Claims, Frees
<1>5. ProcInv(p)'
  <2>1. CASE ReadPrior(p) \/ TakeInventory(p)
    <3>1. pc'[p] = "idle" /\ lease'[p] = NoLease
      BY <1>1, <1>2, <2>1 DEF ReadPrior, TakeInventory
    <3>2. QED
      BY <1>1, <1>2, <3>1 DEF ProcInv, Reserving, Releasing
  <2>2. CASE StartReserve(p)
    <3>1. PICK l \in Proposals(inventory[p].leases) : lease' = [lease EXCEPT ![p] = l]
      BY <2>2 DEF StartReserve
    <3>2. l \in Lease /\ l.status = "proposed"
      BY <3>1, ProposalType DEF TypeOK
    <3>3. lease'[p] = l /\ pc'[p] = "openLease"
      BY <2>2, <3>1 DEF StartReserve, TypeOK
    <3>4. QED
      BY <1>1, <1>2, <3>2, <3>3 DEF ProcInv, Reserving, Releasing
  <2>3. CASE StartRelease(p)
    <3>1. PICK l \in inventory[p].leases :
            l.status = "active" /\ lease' = [lease EXCEPT ![p] = l]
      BY <2>3 DEF StartRelease
    <3>2. l \in Lease
      BY <3>1 DEF TypeOK
    <3>3. lease'[p] = l /\ pc'[p] = "openCoordination"
      BY <2>3, <3>1 DEF StartRelease, TypeOK
    <3>4. QED
      BY <1>1, <1>2, <3>1, <3>2, <3>3 DEF ProcInv, Reserving, Releasing
  <2>4. QED
    BY <2>1, <2>2, <2>3 DEF Caller
<1>6. QED
  BY <1>1, <1>4, <1>5, Quiet

\* The comparison under the coordination lock changes nothing on disk; passing
\* it is what ProcInv asks of a process about to rename.
LEMMA CompareStep ==
  ASSUME TypeOK, IInv, NEW p \in Proc, Compare(p)
  PROVE  IInv'
<1>1. CASE ~MayReplace(p)
  BY <1>1, FailStep DEF Compare
<1>2. CASE MayReplace(p)
  <2>1. /\ pc[p] = "compare" /\ pc'[p] = "rename"
        /\ UNCHANGED <<state, coordLock, leaseLock, residue, lease, prior, held, committed>>
        /\ \A q \in Proc \ {p} : Same(q)
    BY <1>2 DEF Compare, TypeOK, Same, disk
  <2>2. ProcInv(p)'
    BY <1>2, <2>1 DEF IInv, ProcInv, Reserving, Releasing, MayReplace, Replacement
  <2>3. \A r \in Run : (Claims(p, r)' <=> Claims(p, r)) /\ (Frees(p, r)' <=> Frees(p, r))
    BY <2>1 DEF Claims, Frees
  <2>4. QED
    BY <2>1, <2>2, <2>3, Quiet
<1>3. QED
  BY <1>1, <1>2

\* Returning forgets the operation, which by now claims and frees nothing.
LEMMA ReturnStep ==
  ASSUME TypeOK, IInv, NEW p \in Proc, Return(p)
  PROVE  IInv'
<1>1. /\ pc[p] = "return" /\ pc'[p] = "idle" /\ lease'[p] = NoLease
      /\ held'[p] = {} /\ committed'[p] = FALSE
      /\ UNCHANGED <<state, coordLock, leaseLock, residue, prior>>
      /\ \A q \in Proc \ {p} : Same(q)
  BY DEF Return, TypeOK, Same, disk
<1>2. "coordination" \notin held[p] /\ (committed[p] \/ held[p] = {})
  BY <1>1 DEF IInv, ProcInv
<1>3. ProcInv(p)'
  BY <1>1 DEF ProcInv, Reserving, Releasing
<1>4. \A r \in Run : (Claims(p, r)' <=> Claims(p, r)) /\ (Frees(p, r)' <=> Frees(p, r))
  BY <1>1, <1>2 DEF Claims, Frees
<1>5. QED
  BY <1>1, <1>2, <1>3, <1>4, Quiet

\* Creating the lease lock: the file was free, so the run was neither active
\* nor claimed nor being freed.
LEMMA OpenLeaseLockStep ==
  ASSUME TypeOK, IInv, NEW p \in Proc, OpenLeaseLock(p)
  PROVE  IInv'
<1> DEFINE r == lease[p].run
<1>1. CASE leaseLock[r] # Free
  BY <1>1, FailStep DEF OpenLeaseLock
<1>2. CASE leaseLock[r] = Free
  <2>1. ProcInv(p) /\ Reserving(p) /\ held[p] = {} /\ ~committed[p] /\ r \in Run
    BY DEF OpenLeaseLock, IInv, ProcInv, Reserving, TypeOK, Lease, Registry!Lease
  <2>2. /\ pc[p] = "openLease" /\ pc'[p] = "openCoordination" /\ held'[p] = {r}
        /\ leaseLock' = [leaseLock EXCEPT ![r] = p]
        /\ UNCHANGED <<state, coordLock, residue, lease, prior, committed>>
        /\ \A q \in Proc \ {p} : Same(q)
    BY <1>2 DEF OpenLeaseLock, TypeOK, Same, disk
  <2>3. ~IsActive(r) /\ r \notin residue /\ \A q \in Proc : ~Claims(q, r) /\ ~Frees(q, r)
    BY <1>2, <2>1 DEF IInv, ActiveIsLocked, ResidueInv, OwnInv, FreeInv
  <2>4. leaseLock'[r] = p /\ \A x \in Run \ {r} : leaseLock'[x] = leaseLock[x]
    BY <2>1, <2>2 DEF TypeOK
  <2>5. \A x \in Run : IsActive(x)' <=> IsActive(x)
    BY <2>2, ActiveSame
  <2>6. \A q \in Proc : ProcInv(q)'
    <3>1. ProcInv(p)'
      BY <2>1, <2>2 DEF ProcInv, Reserving, Releasing
    <3>2. \A q \in Proc \ {p} : ProcInv(q)'
      BY <2>2, ProcInvSame DEF IInv
    <3>3. QED
      BY <3>1, <3>2
  <2>7. \A q \in Proc, x \in Run : Claims(q, x)' <=> Claims(q, x) \/ (q = p /\ x = r)
    BY <2>1, <2>2 DEF Claims, Same
  <2>8. \A q \in Proc, x \in Run : Frees(q, x)' <=> Frees(q, x)
    BY <2>2 DEF Frees, Releasing, Same
  <2>9. \A q \in Proc : "coordination" \in held'[q] <=> "coordination" \in held[q]
    BY <2>1, <2>2 DEF Same
  <2>10. \A q \in Proc : OwnInv(q)'
    BY <2>2, <2>3, <2>4, <2>5, <2>7, <2>9 DEF IInv, OwnInv
  <2>11. \A q \in Proc, x \in Run : FreeInv(q, x)'
    BY <2>2, <2>3, <2>4, <2>5, <2>7, <2>8 DEF IInv, FreeInv
  <2>12. StateInv'
    BY <2>2 DEF IInv, StateInv
  <2>13. ActiveIsLocked'
    BY <2>3, <2>4, <2>5 DEF IInv, ActiveIsLocked
  <2>14. LocksAccountedFor'
    BY <2>2, <2>4, <2>5, <2>7, <2>8, <2>9 DEF IInv, LocksAccountedFor, TypeOK
  <2>15. ResidueInv'
    BY <2>2, <2>3, <2>4, <2>5 DEF IInv, ResidueInv
  <2>16. QED
    BY <2>6, <2>10, <2>11, <2>12, <2>13, <2>14, <2>15 DEF IInv
<1>3. QED
  BY <1>1, <1>2

\* Creating the coordination lock: nobody held it.
LEMMA OpenCoordinationLockStep ==
  ASSUME TypeOK, IInv, NEW p \in Proc, OpenCoordinationLock(p)
  PROVE  IInv'
<1>1. CASE coordLock # Free
  BY <1>1, FailStep DEF OpenCoordinationLock
<1>2. CASE coordLock = Free
  <2>1. /\ pc[p] = "openCoordination" /\ pc'[p] = "compare"
        /\ held'[p] = held[p] \union {"coordination"} /\ coordLock' = p
        /\ UNCHANGED <<state, leaseLock, residue, lease, prior, committed>>
        /\ \A q \in Proc \ {p} : Same(q)
    BY <1>2 DEF OpenCoordinationLock, TypeOK, Same, disk
  <2>2. "coordination" \notin residue /\ \A q \in Proc : "coordination" \notin held[q]
    BY <1>2 DEF IInv, ResidueInv, OwnInv
  <2>3. \A x \in Run : IsActive(x)' <=> IsActive(x)
    BY <2>1, ActiveSame
  <2>4. \A q \in Proc : ProcInv(q)'
    <3>1. ProcInv(p)'
      <4>1. ProcInv(p)
        BY DEF IInv
      <4>2. QED
        BY <2>1, <4>1 DEF ProcInv, Reserving, Releasing
    <3>2. \A q \in Proc \ {p} : ProcInv(q)'
      BY <2>1, ProcInvSame DEF IInv
    <3>3. QED
      BY <3>1, <3>2
  <2>5. \A q \in Proc, x \in Run : Claims(q, x)' <=> Claims(q, x)
    BY <2>1 DEF Claims, Same
  <2>6. \A q \in Proc, x \in Run : Frees(q, x)' <=> Frees(q, x)
    BY <2>1 DEF Frees, Releasing, Same
  <2>7. \A q \in Proc : "coordination" \in held'[q] <=> q = p
    BY <2>1, <2>2 DEF Same
  <2>8. \A q \in Proc : OwnInv(q)'
    BY <2>1, <2>2, <2>3, <2>5, <2>7 DEF IInv, OwnInv
  <2>9. \A q \in Proc, x \in Run : FreeInv(q, x)'
    BY <2>1, <2>3, <2>5, <2>6 DEF IInv, FreeInv
  <2>10. StateInv' /\ ActiveIsLocked'
    BY <2>1, <2>3 DEF IInv, StateInv, ActiveIsLocked
  <2>11. LocksAccountedFor'
    BY <2>1, <2>3, <2>5, <2>6, <2>7 DEF IInv, LocksAccountedFor
  <2>12. ResidueInv'
    BY <2>1, <2>2, <2>3 DEF IInv, ResidueInv
  <2>13. QED
    BY <2>4, <2>8, <2>9, <2>10, <2>11, <2>12 DEF IInv
<1>3. QED
  BY <1>1, <1>2

(***************************************************************************)
(* The two replacements of the state file.  What a step of p does to it:   *)
(* a reservation adds an active lease of its run, a release turns the one  *)
(* active lease of its run into a released one.                            *)
(***************************************************************************)
LEMMA ReserveContent ==
  ASSUME TypeOK, IInv, NEW p \in Proc, Rename(p), Reserving(p)
  PROVE  /\ LeasesIn(state') = LeasesIn(state) \union {Activated(lease[p])}
         /\ WellFormed(LeasesIn(state'))
         /\ ~IsActive(lease[p].run)
         /\ lease[p] \in Lease
<1>1. MayReplace(p) /\ lease[p].run \in held[p] /\ ~committed[p]
  BY DEF IInv, ProcInv, Rename
<1>2. lease[p] \in Lease /\ lease[p].run \in Run
  BY DEF Reserving, TypeOK, Lease, Registry!Lease
<1>3. ~IsActive(lease[p].run)
  BY <1>1, <1>2 DEF IInv, OwnInv, Claims
<1>4. state' = AfterReserve(state, lease[p])
  BY <1>1 DEF Rename, Replacement, MayReplace
<1>5. state' \in State
  BY ReplacementType DEF Rename, Reserving
<1>6. LeasesIn(state') = state'.leases
  BY <1>5 DEF LeasesIn
<1>7. state'.leases = LeasesIn(state) \union {Activated(lease[p])}
  BY <1>4 DEF AfterReserve
<1>8. WellFormed(state'.leases)
  BY <1>1 DEF Rename, MayReplace
<1>9. QED
  BY <1>2, <1>3, <1>6, <1>7, <1>8

\* The release, likewise.
LEMMA ReleaseContent ==
  ASSUME TypeOK, IInv, NEW p \in Proc, Rename(p), Releasing(p)
  PROVE  /\ LeasesIn(state') = (LeasesIn(state) \ {lease[p]}) \union {Released(lease[p])}
         /\ WellFormed(LeasesIn(state'))
         /\ lease[p] \in LeasesIn(state)
         /\ \A l \in LeasesIn(state) :
               l.run = lease[p].run /\ l.status = "active" => l = lease[p]
         /\ lease[p] \in Lease
<1>1. MayReplace(p) /\ ~Reserving(p)
  BY DEF IInv, ProcInv, Rename, Reserving, Releasing
<1>2. lease[p] \in Lease /\ lease[p] \in LeasesIn(state) /\ lease[p].status = "active"
  BY <1>1 DEF Releasing, MayReplace, TypeOK
<1>3. \A l \in LeasesIn(state) : l.run = lease[p].run /\ l.status = "active" => l = lease[p]
  BY <1>2 DEF IInv, StateInv, WellFormed, Unique, Registry!Held
<1>4. state' = AfterRelease(state, lease[p])
  BY <1>1 DEF Rename, Replacement, MayReplace
<1>5. state' \in State
  BY ReplacementType DEF Rename, Releasing
<1>6. LeasesIn(state') = state'.leases
  BY <1>5 DEF LeasesIn
<1>7. state'.leases = (LeasesIn(state) \ {lease[p]}) \union {Released(lease[p])}
  BY <1>4 DEF AfterRelease
<1>8. WellFormed(state'.leases)
  BY <1>1 DEF Rename, MayReplace
<1>9. QED
  BY <1>2, <1>3, <1>6, <1>7, <1>8

\* While p is about to rename, no other process is at its rename or unlinking
\* a released lease's lock: each would hold the coordination lock too.
LEMMA RenameAlone ==
  ASSUME TypeOK, IInv, NEW p \in Proc, pc[p] = "rename"
  PROVE  \A q \in Proc \ {p} : pc[q] # "rename" /\ \A r \in Run : ~Frees(q, r)
BY OneCoordinator DEF IInv, ProcInv, Frees

\* The commit point of both operations preserves the invariant.
LEMMA RenameStep ==
  ASSUME TypeOK, IInv, NEW p \in Proc, Rename(p)
  PROVE  IInv'
<1> DEFINE r == lease[p].run
<1>1. /\ pc[p] = "rename" /\ committed'[p] = TRUE
      /\ pc'[p] = IF Reserving(p) THEN "unlinkCoordination" ELSE "unlinkLease"
      /\ UNCHANGED <<coordLock, leaseLock, residue, lease, prior, held>>
      /\ \A q \in Proc \ {p} : Same(q)
  BY DEF Rename, TypeOK, Same
<1>2. /\ ProcInv(p) /\ "coordination" \in held[p]
      /\ (Reserving(p) /\ ~Releasing(p)) \/ (Releasing(p) /\ ~Reserving(p))
      /\ r \in Run
  BY <1>1 DEF IInv, ProcInv, Reserving, Releasing, TypeOK, Lease, Registry!Lease
<1>3. ProcInv(p)'
  BY <1>1, <1>2 DEF ProcInv, Reserving, Releasing
<1>4. \A q \in Proc \ {p} : ProcInv(q)'
  BY <1>1, RenameAlone DEF IInv, ProcInv, Same, Reserving, Releasing
<1>5. \A q \in Proc, x \in Run : Claims(q, x)' <=> Claims(q, x) /\ q # p
  BY <1>1 DEF Claims, Same
<1>6. \A q \in Proc : "coordination" \in held'[q] <=> "coordination" \in held[q]
  BY <1>1
<1>7. ASSUME Reserving(p) PROVE IInv'
  <2>1. /\ LeasesIn(state') = LeasesIn(state) \union {Activated(lease[p])}
        /\ WellFormed(LeasesIn(state'))
        /\ ~IsActive(r)
        /\ lease[p] \in Lease
    BY <1>7, ReserveContent
  <2>2. Activated(lease[p]).run = r /\ Activated(lease[p]).status = "active"
    BY <2>1, StatusType
  <2>3. \A x \in Run : IsActive(x)' <=> IsActive(x) \/ x = r
    BY <2>1, <2>2 DEF IsActive
  <2>4. leaseLock[r] = p /\ r \notin residue /\ \A q \in Proc : Claims(q, r) => q = p
    BY <1>1, <1>2, <1>7 DEF IInv, ProcInv, OwnInv, Claims
  <2>5. \A q \in Proc, x \in Run : Frees(q, x)' <=> FALSE
    BY <1>1, <1>2, <1>7, RenameAlone DEF Frees, Same, Releasing
  <2>6. \A q \in Proc : OwnInv(q)'
    BY <1>1, <1>5, <1>6, <2>3, <2>4 DEF IInv, OwnInv
  <2>7. \A q \in Proc, x \in Run : FreeInv(q, x)'
    BY <2>5 DEF FreeInv
  <2>8. StateInv'
    BY <2>1, <2>2 DEF IInv, StateInv
  <2>9. ActiveIsLocked'
    BY <1>1, <2>3, <2>4 DEF IInv, ActiveIsLocked
  <2>10. LocksAccountedFor'
    <3>1. \A x \in Run : leaseLock[x] # Free =>
             x \in residue \/ IsActive(x)' \/ \E q \in Proc : Claims(q, x)' \/ Frees(q, x)'
      <4>1. SUFFICES ASSUME NEW x \in Run, leaseLock[x] # Free, x \notin residue, x # r, ~IsActive(x)
                     PROVE  \E q \in Proc : Claims(q, x)' \/ Frees(q, x)'
        BY <2>3
      <4>2. PICK q \in Proc : Claims(q, x) \/ Frees(q, x)
        BY <4>1 DEF IInv, LocksAccountedFor
      <4>3. ~Frees(q, x)
        BY <1>1, <1>2, <1>7, RenameAlone DEF Frees
      <4>4. q # p
        BY <1>2, <1>7, <4>1, <4>2, <4>3 DEF ProcInv, Claims
      <4>5. QED
        BY <1>5, <4>2, <4>3, <4>4
    <3>2. QED
      BY <1>1, <1>6, <3>1 DEF IInv, LocksAccountedFor
  <2>11. ResidueInv'
    BY <1>1, <2>3, <2>4 DEF IInv, ResidueInv
  <2>12. QED
    BY <1>3, <1>4, <2>6, <2>7, <2>8, <2>9, <2>10, <2>11 DEF IInv
<1>8. ASSUME Releasing(p) PROVE IInv'
  <2>1. /\ LeasesIn(state') = (LeasesIn(state) \ {lease[p]}) \union {Released(lease[p])}
        /\ WellFormed(LeasesIn(state'))
        /\ lease[p] \in LeasesIn(state)
        /\ \A l \in LeasesIn(state) : l.run = r /\ l.status = "active" => l = lease[p]
        /\ lease[p] \in Lease
    BY <1>8, ReleaseContent
  <2>2. Released(lease[p]).run = r /\ Released(lease[p]).status = "released"
    BY <2>1, StatusType
  <2>3. IsActive(r)
    BY <1>8, <2>1 DEF IsActive, Releasing
  <2>4. \A x \in Run : IsActive(x)' <=> IsActive(x) /\ x # r
    BY <2>1, <2>2 DEF IsActive
  <2>5. leaseLock[r] # Free /\ r \notin residue /\ \A q \in Proc : ~Claims(q, r)
    BY <1>2, <2>3 DEF IInv, ActiveIsLocked, ResidueInv, OwnInv
  <2>6. \A q \in Proc, x \in Run : Frees(q, x)' <=> q = p /\ x = r
    BY <1>1, <1>2, <1>8, RenameAlone DEF Frees, Same, Releasing
  <2>7. \A q \in Proc : OwnInv(q)'
    BY <1>1, <1>5, <1>6, <2>4 DEF IInv, OwnInv
  <2>8. \A q \in Proc, x \in Run : FreeInv(q, x)'
    BY <1>1, <1>5, <2>4, <2>5, <2>6 DEF FreeInv
  <2>9. StateInv'
    BY <2>1, <2>2 DEF IInv, StateInv
  <2>10. ActiveIsLocked'
    BY <1>1, <2>4 DEF IInv, ActiveIsLocked
  <2>11. LocksAccountedFor'
    <3>1. \A x \in Run : leaseLock[x] # Free =>
             x \in residue \/ IsActive(x)' \/ \E q \in Proc : Claims(q, x)' \/ Frees(q, x)'
      <4>1. SUFFICES ASSUME NEW x \in Run, leaseLock[x] # Free, x \notin residue, x # r, ~IsActive(x)
                     PROVE  \E q \in Proc : Claims(q, x)' \/ Frees(q, x)'
        BY <2>4, <2>6
      <4>2. PICK q \in Proc : Claims(q, x) \/ Frees(q, x)
        BY <4>1 DEF IInv, LocksAccountedFor
      <4>3. ~Frees(q, x)
        BY <1>1, RenameAlone DEF Frees
      <4>4. q # p
        BY <1>2, <1>8, <4>2, <4>3 DEF ProcInv, Claims
      <4>5. QED
        BY <1>5, <4>2, <4>3, <4>4
    <3>2. QED
      BY <1>1, <1>6, <3>1 DEF IInv, LocksAccountedFor
  <2>12. ResidueInv'
    BY <1>1, <2>4 DEF IInv, ResidueInv
  <2>13. QED
    BY <1>3, <1>4, <2>7, <2>8, <2>9, <2>10, <2>11, <2>12 DEF IInv
<1>9. QED
  BY <1>2, <1>7, <1>8

\* Giving the coordination lock back, or failing to and reporting it.
LEMMA UnlinkCoordinationStep ==
  ASSUME TypeOK, IInv, NEW p \in Proc, UnlinkCoordination(p)
  PROVE  IInv'
<1>1. /\ pc[p] = "unlinkCoordination" /\ pc'[p] = AfterCoordination(p)
      /\ held'[p] = held[p] \ {"coordination"}
      /\ UNCHANGED <<state, leaseLock, lease, prior, committed>>
      /\ \A q \in Proc \ {p} : Same(q)
  BY DEF UnlinkCoordination, TypeOK, Same
<1>2. \/ coordLock' = Free /\ residue' = residue
      \/ coordLock' = coordLock /\ residue' = residue \union {"coordination"}
  BY DEF UnlinkCoordination
<1>3. ProcInv(p) /\ "coordination" \in held[p] /\ coordLock = p /\ "coordination" \notin residue
  BY <1>1 DEF IInv, ProcInv, OwnInv
<1>4. \A q \in Proc : "coordination" \in held[q] => q = p
  BY <1>3, OneCoordinator
<1>5. \A q \in Proc : "coordination" \notin held'[q]
  BY <1>1, <1>4 DEF Same
<1>6. \A x \in Run : IsActive(x)' <=> IsActive(x)
  BY <1>1, ActiveSame
<1>7. \A x \in Run : x \in residue' <=> x \in residue
  BY <1>2
<1>8. \A q \in Proc, x \in Run : Claims(q, x)' <=> Claims(q, x)
  BY <1>1 DEF Claims, Same
<1>9. \A q \in Proc, x \in Run : Frees(q, x)' <=> Frees(q, x)
  BY <1>1 DEF Frees, Releasing, Reserving, AfterCoordination, Same
<1>10. \A q \in Proc : ProcInv(q)'
  <2>1. ProcInv(p)'
    <3>1. CASE Reserving(p) /\ ~committed[p]
      <4>1. pc'[p] = "unlinkLease" /\ lease[p].run \in held[p] /\ lease[p].run \in Run
        BY <1>1, <1>3, <3>1
           DEF AfterCoordination, ProcInv, Reserving, TypeOK, Lease, Registry!Lease
      <4>2. QED
        BY <1>1, <1>3, <3>1, <4>1 DEF ProcInv, Reserving, Releasing
    <3>2. CASE ~(Reserving(p) /\ ~committed[p])
      <4>1. pc'[p] = "return"
        BY <1>1, <3>2 DEF AfterCoordination
      <4>2. QED
        BY <1>1, <1>3, <3>2, <4>1 DEF ProcInv, Reserving, Releasing
    <3>3. QED
      BY <3>1, <3>2
  <2>2. \A q \in Proc \ {p} : ProcInv(q)'
    BY <1>1, ProcInvSame DEF IInv
  <2>3. QED
    BY <2>1, <2>2
<1>11. \A q \in Proc : OwnInv(q)'
  BY <1>1, <1>5, <1>6, <1>7, <1>8 DEF IInv, OwnInv
<1>12. \A q \in Proc, x \in Run : FreeInv(q, x)'
  BY <1>1, <1>6, <1>7, <1>8, <1>9 DEF IInv, FreeInv
<1>13. StateInv' /\ ActiveIsLocked'
  BY <1>1, <1>6 DEF IInv, StateInv, ActiveIsLocked
<1>14. LocksAccountedFor'
  BY <1>1, <1>2, <1>6, <1>7, <1>8, <1>9 DEF IInv, LocksAccountedFor
<1>15. ResidueInv'
  BY <1>1, <1>2, <1>3, <1>6, <1>7 DEF IInv, ResidueInv
<1>16. QED
  BY <1>10, <1>11, <1>12, <1>13, <1>14, <1>15 DEF IInv

\* Removing a lease lock: a claimed one after a failed reservation, a freed
\* one after a committed release.
LEMMA UnlinkLeaseStep ==
  ASSUME TypeOK, IInv, NEW p \in Proc, UnlinkLease(p)
  PROVE  IInv'
<1> DEFINE r == lease[p].run
<1>1. /\ pc[p] = "unlinkLease" /\ pc'[p] = AfterLease(p)
      /\ held'[p] = held[p] \ {r}
      /\ UNCHANGED <<state, coordLock, lease, prior, committed>>
      /\ \A q \in Proc \ {p} : Same(q)
  BY DEF UnlinkLease, TypeOK, Same
<1>2. /\ ProcInv(p) /\ r \in Run /\ r # "coordination"
      /\ (Reserving(p) /\ ~Releasing(p)) \/ (Releasing(p) /\ ~Reserving(p))
  BY <1>1 DEF IInv, ProcInv, Reserving, Releasing, TypeOK, Lease, Registry!Lease
<1>3. \/ leaseLock' = [leaseLock EXCEPT ![r] = Free] /\ residue' = residue
      \/ leaseLock' = leaseLock /\ residue' = residue \union {r}
  BY DEF UnlinkLease
<1>4. /\ leaseLock[r] # Free /\ ~IsActive(r) /\ r \notin residue
      /\ \A q \in Proc \ {p} : ~Claims(q, r) /\ ~Frees(q, r)
  <2>1. CASE Reserving(p)
    <3>1. Claims(p, r)
      BY <1>1, <1>2, <2>1 DEF ProcInv, Claims
    <3>2. leaseLock[r] = p /\ ~IsActive(r) /\ r \notin residue
      BY <1>2, <3>1 DEF IInv, OwnInv
    <3>3. \A q \in Proc \ {p} : ~Claims(q, r)
      BY <1>2, <3>1, OneClaimant
    <3>4. \A q \in Proc \ {p} : ~Frees(q, r)
      BY <1>2, <3>1 DEF IInv, FreeInv
    <3>5. QED
      BY <3>2, <3>3, <3>4
  <2>2. CASE Releasing(p)
    <3>1. Frees(p, r) /\ "coordination" \in held[p]
      BY <1>1, <1>2, <2>2 DEF ProcInv, Frees
    <3>2. leaseLock[r] # Free /\ ~IsActive(r) /\ r \notin residue /\ \A q \in Proc : ~Claims(q, r)
      BY <1>2, <3>1 DEF IInv, FreeInv
    <3>3. ASSUME NEW q \in Proc \ {p}, Frees(q, r) PROVE FALSE
      <4>1. "coordination" \in held[q]
        BY <3>3 DEF IInv, ProcInv, Frees
      <4>2. QED
        BY <3>1, <4>1, OneCoordinator
    <3>4. QED
      BY <3>2, <3>3
  <2>3. QED
    BY <1>2, <2>1, <2>2
<1>5. \A x \in Run \ {r} : leaseLock'[x] = leaseLock[x] /\ (x \in residue' <=> x \in residue)
  BY <1>3 DEF TypeOK
<1>6. leaseLock'[r] # Free => r \in residue'
  BY <1>2, <1>3 DEF TypeOK
<1>7. r \in residue' => leaseLock'[r] # Free
  BY <1>2, <1>3, <1>4
<1>8. "coordination" \in residue' <=> "coordination" \in residue
  BY <1>2, <1>3
<1>9. \A x \in Run : IsActive(x)' <=> IsActive(x)
  BY <1>1, ActiveSame
<1>10. \A q \in Proc, x \in Run : Claims(q, x)' <=> Claims(q, x) /\ x # r
  BY <1>1, <1>4 DEF Claims, Same
<1>11. \A q \in Proc, x \in Run : Frees(q, x)' <=> Frees(q, x) /\ x # r
  BY <1>1, <1>2, <1>4 DEF Frees, Releasing, AfterLease, Same
<1>12. \A q \in Proc : "coordination" \in held'[q] <=> "coordination" \in held[q]
  BY <1>1, <1>2 DEF Same
<1>13. \A q \in Proc : ProcInv(q)'
  <2>1. ProcInv(p)'
    <3>1. CASE Reserving(p)
      <4>1. pc'[p] = "return" /\ held'[p] = {}
        BY <1>1, <1>2, <3>1 DEF AfterLease, ProcInv
      <4>2. QED
        BY <1>1, <1>2, <3>1, <4>1 DEF ProcInv, Reserving, Releasing
    <3>2. CASE Releasing(p)
      <4>1. pc'[p] = "unlinkCoordination" /\ held'[p] = held[p] /\ "coordination" \in held[p]
        BY <1>1, <1>2, <3>2 DEF AfterLease, ProcInv
      <4>2. QED
        BY <1>1, <1>2, <3>2, <4>1 DEF ProcInv, Reserving, Releasing
    <3>3. QED
      BY <1>2, <3>1, <3>2
  <2>2. \A q \in Proc \ {p} : ProcInv(q)'
    BY <1>1, ProcInvSame DEF IInv
  <2>3. QED
    BY <2>1, <2>2
<1>14. \A q \in Proc : OwnInv(q)'
  BY <1>1, <1>5, <1>8, <1>9, <1>10, <1>12 DEF IInv, OwnInv
<1>15. \A q \in Proc, x \in Run : FreeInv(q, x)'
  BY <1>5, <1>9, <1>10, <1>11 DEF IInv, FreeInv
<1>16. StateInv'
  BY <1>1 DEF IInv, StateInv
<1>17. ActiveIsLocked'
  BY <1>4, <1>5, <1>9 DEF IInv, ActiveIsLocked
<1>18. LocksAccountedFor'
  BY <1>1, <1>5, <1>6, <1>8, <1>9, <1>10, <1>11, <1>12 DEF IInv, LocksAccountedFor, TypeOK
<1>19. ResidueInv'
  BY <1>1, <1>4, <1>5, <1>7, <1>8, <1>9 DEF IInv, ResidueInv
<1>20. QED
  BY <1>13, <1>14, <1>15, <1>16, <1>17, <1>18, <1>19 DEF IInv

\* A crash leaves on disk what the dead process would have removed.
LEMMA CrashStep ==
  ASSUME TypeOK, IInv, NEW p \in Proc, Crash(p)
  PROVE  IInv'
<1>1. /\ pc[p] # "idle" /\ pc'[p] = "idle" /\ lease'[p] = NoLease
      /\ held'[p] = {} /\ committed'[p] = FALSE
      /\ UNCHANGED <<state, coordLock, leaseLock, prior>>
      /\ residue' = residue \union Orphans(p)
      /\ \A q \in Proc \ {p} : Same(q)
  BY DEF Crash, TypeOK, Same, disk
<1>2. ProcInv(p) /\ OwnInv(p) /\ (Reserving(p) \/ Releasing(p))
  BY <1>1 DEF IInv, ProcInv
<1>3. "coordination" \in Orphans(p) <=> "coordination" \in held[p]
  BY DEF Orphans
<1>4. \A x \in Run : x \in Orphans(p) <=> Claims(p, x) \/ Frees(p, x)
  BY <1>2 DEF Orphans, Claims, Frees, ProcInv, Reserving, Releasing
<1>5. \A x \in Run : IsActive(x)' <=> IsActive(x)
  BY <1>1, ActiveSame
<1>6. \A q \in Proc, x \in Run : Claims(q, x)' <=> Claims(q, x) /\ q # p
  BY <1>1 DEF Claims, Same
<1>7. \A q \in Proc, x \in Run : Frees(q, x)' <=> Frees(q, x) /\ q # p
  BY <1>1 DEF Frees, Releasing, Same
<1>8. \A q \in Proc : "coordination" \in held'[q] <=> "coordination" \in held[q] /\ q # p
  BY <1>1 DEF Same
<1>9. \A x \in Run, q \in Proc \ {p} : x \in Orphans(p) => ~Claims(q, x) /\ ~Frees(q, x)
  <2>1. SUFFICES ASSUME NEW x \in Run, NEW q \in Proc \ {p}, Claims(p, x) \/ Frees(p, x)
                 PROVE  ~Claims(q, x) /\ ~Frees(q, x)
    BY <1>4
  <2>2. ~Claims(q, x)
    BY <2>1, OneClaimant DEF IInv, FreeInv
  <2>3. ASSUME Claims(p, x), Frees(q, x) PROVE FALSE
    BY <2>3 DEF IInv, FreeInv
  <2>4. ASSUME Frees(p, x), Frees(q, x) PROVE FALSE
    <3>1. "coordination" \in held[p] /\ "coordination" \in held[q]
      BY <2>4 DEF IInv, ProcInv, Frees
    <3>2. QED
      BY <3>1, OneCoordinator
  <2>5. QED
    BY <2>1, <2>2, <2>3, <2>4
<1>10. \A x \in Run : x \in Orphans(p) => leaseLock[x] # Free /\ ~IsActive(x)
  BY <1>4 DEF IInv, OwnInv, FreeInv
<1>11. \A q \in Proc : ProcInv(q)'
  <2>1. ProcInv(p)'
    BY <1>1 DEF ProcInv, Reserving, Releasing
  <2>2. \A q \in Proc \ {p} : ProcInv(q)'
    BY <1>1, ProcInvSame DEF IInv
  <2>3. QED
    BY <2>1, <2>2
<1>12. \A q \in Proc : OwnInv(q)'
  <2>1. \A q \in Proc \ {p} : "coordination" \in held[q] => "coordination" \notin residue'
    BY <1>1, <1>3, OneCoordinator DEF IInv, OwnInv
  <2>2. QED
    BY <1>1, <1>5, <1>6, <1>8, <1>9, <2>1 DEF IInv, OwnInv
<1>13. \A q \in Proc, x \in Run : FreeInv(q, x)'
  BY <1>1, <1>5, <1>6, <1>7, <1>9 DEF IInv, FreeInv
<1>14. StateInv' /\ ActiveIsLocked'
  BY <1>1, <1>5 DEF IInv, StateInv, ActiveIsLocked
<1>15. LocksAccountedFor'
  <2>1. coordLock # Free => "coordination" \in residue' \/ "coordination" \in held'[coordLock]
    BY <1>1, <1>3, <1>8 DEF IInv, LocksAccountedFor, TypeOK
  <2>2. ASSUME NEW x \in Run, leaseLock[x] # Free
        PROVE  x \in residue' \/ IsActive(x) \/ \E q \in Proc : q # p /\ (Claims(q, x) \/ Frees(q, x))
    BY <1>1, <1>4, <2>2 DEF IInv, LocksAccountedFor
  <2>3. QED
    BY <1>1, <1>5, <1>6, <1>7, <2>1, <2>2 DEF LocksAccountedFor
<1>16. ResidueInv'
  <2>1. "coordination" \in residue' => coordLock # Free
    BY <1>1, <1>2, <1>3 DEF IInv, ResidueInv, OwnInv
  <2>2. QED
    BY <1>1, <1>5, <1>10, <2>1 DEF IInv, ResidueInv
<1>17. QED
  BY <1>11, <1>12, <1>13, <1>14, <1>15, <1>16 DEF IInv

\* Every step of the scheduler, its callers and its faults preserves the
\* inductive invariant.
THEOREM InductiveStep == TypeOK /\ IInv /\ [Next]_vars => IInv'
<1> SUFFICES ASSUME TypeOK, IInv, [Next]_vars
             PROVE  IInv'
  OBVIOUS
<1>1. ASSUME NEW p \in Proc, Operation(p) PROVE IInv'
  BY <1>1, OpenLeaseLockStep, OpenCoordinationLockStep, CompareStep, RenameStep,
     UnlinkCoordinationStep, UnlinkLeaseStep, ReturnStep DEF Operation
<1>2. ASSUME NEW p \in Proc, Caller(p) PROVE IInv'
  BY <1>2, CallerStep
<1>3. ASSUME NEW p \in Proc, WriteFails(p) PROVE IInv'
  BY <1>3, FailStep DEF WriteFails
<1>4. ASSUME NEW p \in Proc, Crash(p) PROVE IInv'
  BY <1>4, CrashStep
<1>5. ASSUME UNCHANGED <<state, coordLock, leaseLock, residue>>, UNCHANGED memory
      PROVE  IInv'
  BY <1>5 DEF memory, IInv, ProcInv, OwnInv, FreeInv, StateInv, ActiveIsLocked,
     LocksAccountedFor, ResidueInv, Claims, Frees, IsActive, Reserving, Releasing,
     MayReplace, Replacement
<1>6. ASSUME NEW r \in Run, AddWorktree(r) \/ RemoveWorktree(r) PROVE IInv'
  BY <1>5, <1>6 DEF AddWorktree, RemoveWorktree
<1>7. CASE UNCHANGED vars
  BY <1>5, <1>7 DEF vars, memory
<1>8. QED
  BY <1>1, <1>2, <1>3, <1>4, <1>6, <1>7 DEF Next

\* So it holds in every reachable state.
LEMMA Invariance == Spec => [](TypeOK /\ IInv)
<1>1. Init => TypeOK /\ Busy /\ IInv
  BY TypeInit, InitIInv
<1>2. TypeOK /\ Busy /\ IInv /\ [Next]_vars => (TypeOK /\ Busy /\ IInv)'
  BY TypeStep, InductiveStep
<1>3. QED
  BY <1>1, <1>2, PTL DEF Spec

-----------------------------------------------------------------------------
(***************************************************************************)
(* What follows from it.                                                   *)
(***************************************************************************)

\* No two unreleased leases in the state file share a run, a task or a path.
THEOREM Exclusion == Spec => []NoTwoHolders
<1>1. IInv => NoTwoHolders
  BY DEF IInv, StateInv, WellFormed, Unique, Disjoint, NoTwoHolders, Registry!Clash
<1>2. QED
  BY <1>1, Invariance, PTL

\* Every active lease is backed by its lock file.
THEOREM Backing == Spec => []ActiveIsLocked
<1>1. IInv => ActiveIsLocked
  BY DEF IInv
<1>2. QED
  BY <1>1, Invariance, PTL

\* Every lock file is in use, backs an active lease, or was left by a crash
\* or a reported cleanup failure.
THEOREM Accounting == Spec => []LocksAccountedFor
<1>1. IInv => LocksAccountedFor
  BY DEF IInv
<1>2. QED
  BY <1>1, Invariance, PTL

-----------------------------------------------------------------------------
(***************************************************************************)
(* The implementation of LeaseRegistry and the fate of residual locks.     *)
(***************************************************************************)

\* Which steps change which file.
LEMMA WhoWrites ==
  ASSUME Next
  PROVE  /\ state' = state \/ \E p \in Proc : Rename(p)
         /\ coordLock' = coordLock \/ \E p \in Proc : \/ OpenCoordinationLock(p) /\ coordLock = Free
                                                   \/ UnlinkCoordination(p)
         /\ \/ leaseLock' = leaseLock
            \/ \E p \in Proc : UnlinkLease(p)
            \/ \E p \in Proc : OpenLeaseLock(p) /\ leaseLock[lease[p].run] = Free
<1>1. ASSUME NEW p \in Proc, OpenLeaseLock(p)
      PROVE  /\ state' = state /\ coordLock' = coordLock
             /\ leaseLock' = leaseLock \/ leaseLock[lease[p].run] = Free
  BY <1>1 DEF OpenLeaseLock, Fail, disk
<1>2. ASSUME NEW p \in Proc, OpenCoordinationLock(p)
      PROVE  /\ state' = state /\ leaseLock' = leaseLock
             /\ coordLock' = coordLock \/ coordLock = Free
  BY <1>2 DEF OpenCoordinationLock, Fail, disk
<1>3. ASSUME NEW p \in Proc, Rename(p)
      PROVE  coordLock' = coordLock /\ leaseLock' = leaseLock
  BY <1>3 DEF Rename
<1>4. ASSUME NEW p \in Proc, UnlinkCoordination(p)
      PROVE  state' = state /\ leaseLock' = leaseLock
  BY <1>4 DEF UnlinkCoordination
<1>5. ASSUME NEW p \in Proc, UnlinkLease(p)
      PROVE  state' = state /\ coordLock' = coordLock
  BY <1>5 DEF UnlinkLease
<1>6. ASSUME NEW p \in Proc, Compare(p) \/ Return(p) \/ WriteFails(p) \/ Crash(p) \/ Caller(p)
      PROVE  state' = state /\ coordLock' = coordLock /\ leaseLock' = leaseLock
  BY <1>6 DEF Compare, Return, WriteFails, Crash, Caller, ReadPrior, TakeInventory,
     StartReserve, StartRelease, Fail, disk
<1>7. ASSUME NEW r \in Run, AddWorktree(r) \/ RemoveWorktree(r)
      PROVE  state' = state /\ coordLock' = coordLock /\ leaseLock' = leaseLock
  BY <1>7 DEF AddWorktree, RemoveWorktree
<1>8. CASE \E p \in Proc : Operation(p) \/ Caller(p) \/ WriteFails(p) \/ Crash(p)
  <2>1. PICK p \in Proc : Operation(p) \/ Caller(p) \/ WriteFails(p) \/ Crash(p)
    BY <1>8
  <2>2. CASE OpenLeaseLock(p)
    BY <1>1, <2>2
  <2>3. CASE OpenCoordinationLock(p)
    BY <1>2, <2>3
  <2>4. CASE Rename(p)
    BY <1>3, <2>4
  <2>5. CASE UnlinkCoordination(p)
    BY <1>4, <2>5
  <2>6. CASE UnlinkLease(p)
    BY <1>5, <2>6
  <2>7. CASE Compare(p) \/ Return(p) \/ WriteFails(p) \/ Crash(p) \/ Caller(p)
    BY <1>6, <2>7
  <2>8. QED
    BY <2>1, <2>2, <2>3, <2>4, <2>5, <2>6, <2>7 DEF Operation
<1>9. QED
  BY <1>7, <1>8 DEF Next

\* A committed reservation is an atomic grant.
LEMMA RenameGrants ==
  ASSUME TypeOK, IInv, NEW p \in Proc, Rename(p), Reserving(p)
  PROVE  Registry!Next
<1> DEFINE r == lease[p].run
           e == lease[p].epoch
           a == Activated(lease[p])
           S == LeasesIn(state)
<1>1. /\ LeasesIn(state') = S \union {a} /\ WellFormed(LeasesIn(state'))
      /\ ~IsActive(r) /\ lease[p] \in Lease
  BY ReserveContent
<1>2. a \in Lease /\ a.run = r /\ a.epoch = e /\ a.status = "active"
  BY <1>1, StatusType
<1>3. a = Registry!Granted(r, e) /\ r \in Run /\ e \in Nat \ {0}
  BY <1>1, <1>2 DEF Registry!Granted, Lease, Registry!Lease, Activated
<1>4. a \notin S
  BY <1>1, <1>2 DEF IsActive
<1>5. S \in SUBSET Lease
  BY StateParts DEF TypeOK
<1>6. Unique(S \union {a}) /\ Disjoint(S \union {a})
  BY <1>1 DEF WellFormed
<1>7. Registry!Unclaimed(r, S)
  <2>1. SUFFICES ASSUME NEW l \in S, l.status # "released"
                 PROVE  l.run # r /\ ~Registry!Clash(r, l.run)
    BY DEF Registry!Unclaimed, Registry!Held
  <2>2. a # l /\ a \in Registry!Held(S \union {a}) /\ l \in Registry!Held(S \union {a})
    BY <1>2, <1>4, <2>1 DEF Registry!Held
  <2>3. a.run # l.run /\ TaskOf[a.run] # TaskOf[l.run]
    BY <1>6, <2>2 DEF Unique
  <2>4. {a.run, l.run} \notin Overlap
    BY <1>6, <2>2 DEF Disjoint
  <2>5. a.run = r
    BY <1>2
  <2>6. l.run # r /\ TaskOf[r] # TaskOf[l.run] /\ {r, l.run} \notin Overlap
    BY <2>3, <2>4, <2>5
  <2>7. QED
    BY <2>6 DEF Registry!Clash
<1>8. Registry!FollowsChain(r, e, S)
  <2>1. \A l \in S : l.run = r => l.epoch # e
    BY <1>2, <1>4, <1>6 DEF Unique
  <2>2. e > 1 => \E l \in S : l.run = r /\ l.epoch = e - 1 /\ l.status = "released"
    BY <1>2, <1>6 DEF Unique
  <2>3. QED
    BY <2>1, <2>2 DEF Registry!FollowsChain
<1>9. e \in {1} \union {l.epoch + 1 : l \in S}
  <2>1. CASE e > 1
    <3>1. PICK l \in S : l.run = r /\ l.epoch = e - 1
      BY <1>8, <2>1 DEF Registry!FollowsChain
    <3>2. e = l.epoch + 1
      BY <1>3, <3>1
    <3>3. QED
      BY <3>1, <3>2
  <2>2. CASE e = 1
    BY <2>2
  <2>3. QED
    BY <1>3, <2>1, <2>2
<1>10. Registry!Grant(r, e)
  BY <1>1, <1>3, <1>7, <1>8 DEF Registry!Grant
<1>11. QED
  BY <1>3, <1>9, <1>10 DEF Registry!Next

\* A committed release is an atomic release.
LEMMA RenameReleases ==
  ASSUME TypeOK, IInv, NEW p \in Proc, Rename(p), Releasing(p)
  PROVE  Registry!Next
<1>1. /\ LeasesIn(state') = (LeasesIn(state) \ {lease[p]}) \union {Released(lease[p])}
      /\ lease[p] \in LeasesIn(state)
  BY ReleaseContent
<1>2. Registry!Release(lease[p])
  BY <1>1 DEF Registry!Release, Registry!Released, Released, Releasing
<1>3. QED
  BY <1>1, <1>2 DEF Registry!Next

\* Every behaviour of the file-level scheduler is, seen through the state
\* file, a behaviour of the registry: no update is ever lost or merged.
THEOREM Implementation == Spec => ImplementsRegistry
<1>1. Init => Registry!Init
  BY DEF Init, Registry!Init, LeasesIn
<1>2. TypeOK /\ IInv /\ [Next]_vars => [Registry!Next]_(LeasesIn(state))
  <2>1. ASSUME TypeOK, IInv, Next, state' # state PROVE Registry!Next
    <3>1. PICK p \in Proc : Rename(p)
      BY <2>1, WhoWrites
    <3>2. Reserving(p) \/ Releasing(p)
      BY <2>1, <3>1 DEF IInv, ProcInv, Rename
    <3>3. QED
      BY <2>1, <3>1, <3>2, RenameGrants, RenameReleases
  <2>2. state' = state => LeasesIn(state)' = LeasesIn(state)
    OBVIOUS
  <2>3. QED
    BY <2>1, <2>2 DEF vars
<1>3. QED
  BY <1>1, <1>2, Invariance, PTL DEF Spec, ImplementsRegistry, Registry!Spec

\* A residual lock is never removed, and what it guards never changes hands.
THEOREM NoSilentTakeover == Spec => ResidueIsNeverTakenOver
<1>1. TypeOK /\ IInv /\ [Next]_vars => [NoTakeover]_vars
  <2> SUFFICES ASSUME TypeOK, IInv, Next PROVE NoTakeover
    OBVIOUS
  <2>1. ASSUME "coordination" \in residue PROVE coordLock' = coordLock /\ state' = state
    <3>1. coordLock # Free /\ \A p \in Proc : "coordination" \notin held[p]
      BY <2>1 DEF IInv, ResidueInv, OwnInv
    <3>2. \A p \in Proc : ~Rename(p) /\ ~UnlinkCoordination(p)
      BY <3>1 DEF IInv, ProcInv, Rename, UnlinkCoordination
    <3>3. QED
      BY <3>1, <3>2, WhoWrites
  <2>2. ASSUME NEW r \in Run, r \in residue
        PROVE  /\ leaseLock'[r] = leaseLock[r]
               /\ \A l \in LeasesIn(state') \ LeasesIn(state) : l.run # r
    <3>1. /\ leaseLock[r] # Free /\ ~IsActive(r)
          /\ \A p \in Proc : ~Claims(p, r) /\ ~Frees(p, r)
      BY <2>2 DEF IInv, ResidueInv, OwnInv, FreeInv
    <3>2. leaseLock'[r] = leaseLock[r]
      <4>1. ASSUME NEW p \in Proc, UnlinkLease(p) PROVE lease[p].run # r
        BY <3>1, <4>1 DEF IInv, ProcInv, UnlinkLease, Claims, Frees
      <4>2. ASSUME NEW p \in Proc, UnlinkLease(p) PROVE leaseLock'[r] = leaseLock[r]
        BY <4>1, <4>2 DEF UnlinkLease, TypeOK
      <4>3. ASSUME NEW p \in Proc, OpenLeaseLock(p), leaseLock[lease[p].run] = Free
            PROVE  leaseLock'[r] = leaseLock[r]
        BY <3>1, <4>3 DEF OpenLeaseLock, TypeOK
      <4>4. QED
        BY <4>2, <4>3, WhoWrites
    <3>3. \A l \in LeasesIn(state') \ LeasesIn(state) : l.run # r
      <4>1. ASSUME NEW p \in Proc, Rename(p), Reserving(p)
            PROVE  \A l \in LeasesIn(state') \ LeasesIn(state) : l.run # r
        <5>1. Claims(p, lease[p].run)
          BY <4>1 DEF IInv, ProcInv, Rename, Claims
        <5>2. QED
          BY <3>1, <4>1, <5>1, ReserveContent, StatusType
      <4>2. ASSUME NEW p \in Proc, Rename(p), Releasing(p)
            PROVE  \A l \in LeasesIn(state') \ LeasesIn(state) : l.run # r
        BY <3>1, <4>2, ReleaseContent, StatusType DEF IsActive, Releasing
      <4>3. ASSUME NEW p \in Proc, Rename(p) PROVE Reserving(p) \/ Releasing(p)
        BY <4>3 DEF IInv, ProcInv, Rename
      <4>4. QED
        BY <4>1, <4>2, <4>3, WhoWrites
    <3>4. QED
      BY <3>2, <3>3
  <2>3. QED
    BY <2>1, <2>2 DEF NoTakeover
<1>2. QED
  BY <1>1, Invariance, PTL DEF Spec, ResidueIsNeverTakenOver
==============================================================================
