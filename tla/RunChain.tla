------------------------------ MODULE RunChain -------------------------------
(***************************************************************************)
(* The event chain of one run, as far as foldStateEvents accepts it.  A    *)
(* chain is a sequence of events, each with the projection of the run it   *)
(* results in; an action appends one event that the fold accepts.          *)
(*                                                                         *)
(* An event is named by its place in the chain, which stands for its id,   *)
(* its sequence number and its digest.  An artifact is named by what it is *)
(* about: a lease by its epoch, whether active or released, a checkpoint   *)
(* by its run.checkpointed event, a report by its report.finalized event.  *)
(* None stands for null.                                                   *)
(***************************************************************************)
EXTENDS Naturals, Sequences, FiniteSets, FiniteSetsExt

CONSTANTS
  MaxEvents,  \* bound on the length of the chain
  Plan        \* the capability plans there are

ASSUME RunChainConstants == MaxEvents \in Nat \ {0} /\ Plan \subseteq Nat \ {0}

None == 0

Resumable == {"waiting", "checkpointed", "stopped"}
Terminal == {"completed", "failed", "cancelled"}
Closing == Terminal \union {"stopped"}
Preparing == {"planned", "queued", "allocated"}
Active == {"running", "waiting", "needs_approval", "checkpointed", "stopping"}

\* The owner gates of a projection, taken together: there are none, one is not
\* satisfied, or all are satisfied with evidence.
Gates == {"none", "open", "satisfied"}

\* Which events lead from which states to which.
Goes(type, froms, to) == {<<type, from, to>> : from \in froms}
Stays(type, states) == {<<type, s, s>> : s \in states}

Transitions == UNION {
  Stays("capability-plan.bound", {"planned", "needs_approval", "stopped"}),
  Goes("run.queued", {"planned", "needs_approval"}, "queued"),
  Goes("lease.acquired", Resumable \union {"queued"}, "allocated"),
  Goes("run.started", {"allocated"}, "running"),
  Goes("run.resumed", {"allocated"}, "running"),
  Goes("run.waiting", {"running"}, "waiting"),
  Goes("run.approval_required", Resumable \union {"planned", "running"}, "needs_approval"),
  Goes("run.checkpointed", {"running"}, "checkpointed"),
  Stays("checkpoint.finalized", {"checkpointed"}),
  Goes("run.stop_requested", {"running"}, "stopping"),
  Goes("run.stopped", {"waiting", "needs_approval", "checkpointed", "stopping"}, "stopped"),
  Goes("run.completed", {"stopping"}, "completed"),
  Goes("run.failed", {"running", "waiting", "stopping"}, "failed"),
  Goes("run.cancelled", {"needs_approval", "checkpointed", "stopped"}, "cancelled"),
  Stays("report.finalized", Closing),
  Stays("lease.released", Closing \union {"waiting", "checkpointed"})}

VARIABLE chain

Places == 1..Len(chain)
Last == chain[Len(chain)]
Run == Last.proj
At(type) == {i \in Places : chain[i].type = type}

NoData == [purpose |-> "none", origin |-> "none", previous |-> None, ref |-> None]

\* findLatest: the lease given back last.
Returned == IF At("lease.released") = {} THEN None ELSE chain[Max(At("lease.released"))].data.ref

HasPriorAttempt ==
  \E i \in Places : chain[i].type \in
    {"lease.acquired", "lease.released", "run.checkpointed", "checkpoint.finalized"}

\* pairAllowed, assertProjectionMutation and the end of the loop of the fold:
\* the projection of the new event differs only where proj says so.
Accept(type, to, proj, data) ==
  /\ Len(chain) < MaxEvents
  /\ <<type, Run.status, to>> \in Transitions
  /\ chain' = Append(chain, [type |-> type, data |-> data, proj |-> [proj EXCEPT !.status = to]])

-----------------------------------------------------------------------------
Created(policy) ==
  [type |-> "run.created", data |-> NoData,
   proj |-> [status |-> "planned", lease |-> None, plan |-> None, checkpoint |-> None,
             gates |-> "none", stopped |-> None, final |-> None, mayResume |-> policy]]

Init == \E policy \in BOOLEAN : chain = <<Created(policy)>>

BindPlan ==
  \E p \in Plan :
    Accept("capability-plan.bound", Run.status, [Run EXCEPT !.plan = p], [NoData EXCEPT !.ref = p])

RequireApproval ==
  /\ Run.plan # None
  /\ \E g \in Gates \ {"none"} :
       Accept("run.approval_required", "needs_approval", [Run EXCEPT !.gates = g], NoData)

\* The event that led to needs_approval, and the state it came from.
Approval == Last.type = "run.approval_required"
Origin == chain[Len(chain) - 1].proj.status

Queue(data) ==
  /\ Run.lease = None
  /\ \/ Run.status = "planned" /\ Run.gates = "none"
        /\ Accept("run.queued", "queued", Run, data)
     \/ Run.status = "needs_approval" /\ Approval
        /\ Accept("run.queued", "queued", [Run EXCEPT !.gates = "satisfied"], data)

QueueInitial ==
  /\ ~HasPriorAttempt
  /\ Approval => Origin = "planned"
  /\ Queue([NoData EXCEPT !.purpose = "initial"])

QueueResume ==
  /\ Approval /\ Origin \in Resumable /\ Returned # None
  /\ Queue([purpose |-> "resume", origin |-> Origin, previous |-> Returned, ref |-> None])

\* The lease of the next epoch, as the scheduler grants it.
NextLease == Cardinality(At("lease.acquired")) + 1

Queued(purpose) == Last.type = "run.queued" /\ Last.data.purpose = purpose

AcquireInitial ==
  /\ Run.lease = None /\ Queued("initial")
  /\ ~HasPriorAttempt /\ NextLease = 1
  /\ Accept("lease.acquired", "allocated", [Run EXCEPT !.lease = NextLease],
            [NoData EXCEPT !.purpose = "initial", !.ref = NextLease])

\* The origin and the predecessor a resume acquisition must have: those of the
\* queue entry right before it, if there is one.
EffectiveOrigin == IF Queued("resume") THEN Last.data.origin ELSE Run.status

AcquireResume ==
  /\ Run.lease = None /\ ~Queued("initial")
  /\ EffectiveOrigin \in Resumable
  /\ Returned # None /\ (Queued("resume") => Returned = Last.data.previous)
  /\ NextLease >= 2
  /\ Accept("lease.acquired", "allocated",
            [Run EXCEPT !.lease = NextLease,
                        !.stopped = IF EffectiveOrigin = "stopped" THEN None ELSE @],
            [NoData EXCEPT !.purpose = "resume", !.previous = Returned, !.ref = NextLease])

Start ==
  /\ Last.type = "lease.acquired" /\ Last.data.purpose = "initial"
  /\ Accept("run.started", "running", Run, NoData)

Finalized(k) == \E j \in At("checkpoint.finalized") : chain[j].data.ref = k

\* Mutant: any finalized checkpoint will do.
ResumesAny(k) == TRUE

ResumesFrom(k) == k = Run.checkpoint

Resume ==
  /\ Last.type = "lease.acquired" /\ Last.data.purpose = "resume"
  /\ Run.mayResume /\ Run.plan # None
  /\ \E k \in At("run.checkpointed") :
       /\ ResumesFrom(k) /\ Finalized(k)
       /\ Accept("run.resumed", "running", Run, [NoData EXCEPT !.previous = Last.data.previous, !.ref = k])

Wait == Accept("run.waiting", "waiting", Run, NoData)
Checkpoint == Accept("run.checkpointed", "checkpointed", Run, NoData)
RequestStop == Accept("run.stop_requested", "stopping", Run, NoData)
Stop == Accept("run.stopped", "stopped", Run, NoData)
Complete == Accept("run.completed", "completed", Run, NoData)
Fail == Accept("run.failed", "failed", Run, NoData)
Cancel == Accept("run.cancelled", "cancelled", Run, NoData)

\* Mutant: the checkpoint binds whatever event comes before it.
FinalizeCheckpointUnbound ==
  Accept("checkpoint.finalized", Run.status, [Run EXCEPT !.checkpoint = Len(chain)],
         [NoData EXCEPT !.ref = Len(chain)])

FinalizeCheckpoint ==
  /\ Last.type = "run.checkpointed"
  /\ Accept("checkpoint.finalized", Run.status, [Run EXCEPT !.checkpoint = Len(chain)],
            [NoData EXCEPT !.ref = Len(chain)])

ReleaseLease ==
  /\ Run.lease # None
  /\ Accept("lease.released", Run.status, [Run EXCEPT !.lease = None],
            [NoData EXCEPT !.ref = Run.lease])

(***************************************************************************)
(* assertReportFinalized.  The report names an event that closed the run   *)
(* in its present state; the lease held at that event has been released    *)
(* since, or the one before it was released before it.                     *)
(***************************************************************************)
Closes(t) ==
  /\ chain[t].type \in {"run.stopped", "run.completed", "run.failed", "run.cancelled"}
  /\ chain[t].proj.status = Run.status

\* Mutant: the release is not looked for.
ReleasedForNever(t) == TRUE

\* Mutant: an attempt that never had a lease has no release to show.
ReleasedForLeased(t) ==
  \E i \in At("lease.acquired"), j \in At("lease.released") :
    i < t /\ chain[j].data.ref = chain[i].data.ref

ReleasedFor(t) ==
  LET before == {i \in At("lease.acquired") : i < t}
  IN IF chain[t].proj.lease # None
     THEN \E j \in At("lease.released") : j > t /\ chain[j].data.ref = chain[t].proj.lease
     ELSE before # {} =>
            \E j \in At("lease.released") :
              Max(before) < j /\ j < t /\ chain[j].data.ref = chain[Max(before)].data.ref

FinalizeReport ==
  \E t \in Places :
    /\ Closes(t) /\ ReleasedFor(t)
    /\ \/ /\ Run.status = "stopped" /\ Run.stopped = None
          /\ Accept("report.finalized", Run.status, [Run EXCEPT !.stopped = Len(chain) + 1],
                    [NoData EXCEPT !.ref = t])
       \/ /\ Run.status \in Terminal /\ Run.final = None
          /\ Accept("report.finalized", Run.status, [Run EXCEPT !.final = Len(chain) + 1],
                    [NoData EXCEPT !.ref = t])

Next ==
  \/ BindPlan \/ RequireApproval \/ QueueInitial \/ QueueResume
  \/ AcquireInitial \/ AcquireResume \/ Start \/ Resume
  \/ Wait \/ Checkpoint \/ RequestStop \/ Stop \/ Complete \/ Fail \/ Cancel
  \/ FinalizeCheckpoint \/ ReleaseLease \/ FinalizeReport

Spec == Init /\ [][Next]_chain

-----------------------------------------------------------------------------
(***************************************************************************)
(* assertFinalReport, for a report that was made when it was finalized.    *)
(***************************************************************************)
Report == IF Run.status = "stopped" THEN Run.stopped
          ELSE IF Run.status \in Terminal THEN Run.final ELSE None

\* The history of leases and checkpoints and the plan are those of the report.
Proven ==
  /\ Report # None
  /\ chain[chain[Report].data.ref].proj.status = Run.status
  /\ \A i \in At("lease.released") \union At("checkpoint.finalized") : i < Report
  /\ Run.plan # None /\ chain[Report].proj.plan = Run.plan

-----------------------------------------------------------------------------
(***************************************************************************)
(* Properties.                                                             *)
(***************************************************************************)
Ref == 0..MaxEvents

Projection ==
  [status: Preparing \union Active \union Closing, lease: Ref, plan: Plan \union {None},
   checkpoint: Ref, gates: Gates, stopped: Ref, final: Ref, mayResume: BOOLEAN]

\* Every event has a legal type and refers to what is in the chain before it.
TypeOK ==
  /\ Len(chain) \in 1..MaxEvents
  /\ \A i \in Places :
       /\ chain[i].proj \in Projection
       /\ {chain[i].proj.stopped, chain[i].proj.final} \subseteq {None} \union At("report.finalized")
       /\ chain[i].proj.checkpoint \in {None} \union At("run.checkpointed")

Stage ==
  IF Run.lease = None THEN "none"
  ELSE IF Run.status = "allocated" THEN "allocated"
  ELSE IF Run.status \in {"running", "stopping"} THEN "working" ELSE "resting"

Life == INSTANCE RunLife WITH
  attempt <- Cardinality(At("lease.acquired")),
  stage <- Stage,
  outcome <- IF Run.status \in Terminal THEN Run.status ELSE "none",
  proven <- Run.final # None

\* "The attempt lease must be released before report finalization": the chain
\* implements the life of a run, so that a terminal report is bound once and
\* after the lease is back, and attempts neither overlap nor work twice.
ImplementsLife == Life!Spec

\* "In every closing case" the run can be proven complete: when its lease is
\* back and its report slot is empty there is an event a report can name,
\* be the run closed before its first lease or after several attempts.
ClosureIsProvable ==
  Run.status \in Closing /\ Run.lease = None /\ Report = None =>
    \E t \in Places : Closes(t) /\ ReleasedFor(t)

\* A run is resumed from the newest checkpoint that was finalized.
ResumesNewest ==
  \A i \in At("run.resumed"), j \in At("checkpoint.finalized") :
    j < i => chain[j].data.ref <= chain[i].data.ref

\* "Plan binding, owner gates, and an isolated lease are established before
\* execution": no work under an open gate.
GatesBindWork == Run.status = "running" => Run.gates # "open"

\* "The attempt's lease.released event must precede report.finalized", of a
\* stopped attempt as well.
ReportAfterRelease == Last.type = "report.finalized" => Run.lease = None
==============================================================================
