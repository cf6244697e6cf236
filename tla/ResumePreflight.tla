--------------------------- MODULE ResumePreflight ---------------------------
(***************************************************************************)
(* What packages/runsteward-core/src/checkpoint-runtime.mjs and            *)
(* invariants.mjs check before a run may go on from a checkpoint: the      *)
(* checkpoint and the handoff when they are made, and both again, with the *)
(* leases and the chain, when an adapter calls assertResumePreflight.      *)
(*                                                                         *)
(* A checkpoint names the event it was made for, the lease and the plan it *)
(* was made under, whether it is complete and how the provider's session   *)
(* was identified.  Its digest covers all of it, so the artifact that is   *)
(* finalized at an event is one of the records with that event.            *)
(***************************************************************************)
EXTENDS RunChain

\* Whose session a checkpoint belongs to: one identity digest, or null.
Binding ==
  [state: {"verified", "not-required", "unknown", "mismatched"}, id: {None, 1}]

\* assertProviderResumeBinding, resumableProviderBinding.
FailClosed(b) ==
  \/ b.state = "verified" /\ b.id # None
  \/ b.state = "not-required" /\ b.id = None

Checkpoints ==
  [event: At("run.checkpointed"), lease: 1..(NextLease - 1), plan: Plan,
   complete: BOOLEAN, binding: Binding]

\* createCheckpointArtifact: what it was made under is taken from its author.
MadeCheckpoint(c) ==
  /\ c.complete \/ c.binding.state \in {"verified", "not-required"} => FailClosed(c.binding)
  /\ c.binding.state = "unknown" => c.binding.id = None

Handoffs(c) == [checkpoint: {c}, eligible: BOOLEAN, id: {None, 1}]

\* createBoundedHandoffArtifact.
MadeHandoff(h, c) ==
  /\ h.checkpoint = c
  /\ IF h.eligible
     THEN /\ FailClosed([state |-> c.binding.state, id |-> h.id])
          /\ h.id = c.binding.id
     ELSE h.id = None

\* assertHandoffSafeResume.
SafeHandoff(h, c) ==
  h.eligible =>
    /\ c.complete /\ h.checkpoint = c
    /\ \E j \in At("checkpoint.finalized") : chain[j].data.ref = c.event /\ j > c.event
    /\ FailClosed(c.binding)
    /\ h.id = c.binding.id

(***************************************************************************)
(* assertCheckpointResumable, for the resume event at place a.at of the    *)
(* chain, the released lease a.prior, the active one a.new and the plan    *)
(* a.plan, each supplied by the caller, and what that event says of the    *)
(* adapter and its provider's session, which the fold compares with        *)
(* nothing.                                                                *)
(***************************************************************************)
Arguments ==
  [at: At("run.resumed"), prior: 1..(NextLease - 1), new: 1..(NextLease - 1), plan: Plan,
   identity: {None, 1}]

\* The lease that was given back last before the event at place i.
\* Mutant: the one that was given back first.
ReturnedFirst(i) ==
  chain[Min({j \in At("lease.released") : j < i})].data.ref

ReturnedBefore(i) ==
  chain[Max({j \in At("lease.released") : j < i})].data.ref

\* The predecessor that the lease of epoch e was acquired with.
Predecessor(e) ==
  LET i == CHOOSE i \in At("lease.acquired") : chain[i].data.ref = e
  IN chain[i].data.previous

\* Mutant: a checkpoint of any attempt before will do.
OfEarlierAttempt(c, a) == c.lease <= a.prior

\* The checkpoint was made under the lease that was given back.
OfPriorAttempt(c, a) == c.lease = a.prior

CheckpointBound(c, a) ==
  /\ Finalized(c.event)
  /\ Run.checkpoint = c.event
  /\ chain[a.at].data.ref = c.event

PlanBound(c, a) ==
  /\ c.plan = Run.plan
  /\ c.plan = chain[a.at].proj.plan
  /\ c.plan = a.plan

LeasesBound(c, a) ==
  /\ \E j \in At("lease.released") : chain[j].data.ref = a.prior
  /\ OfPriorAttempt(c, a)
  /\ a.new > a.prior /\ Predecessor(a.new) = a.prior
  /\ chain[a.at - 1].type = "lease.acquired" /\ chain[a.at - 1].data.purpose = "resume"
  /\ {chain[a.at - 1].data.previous, ReturnedBefore(a.at - 1)} = {a.prior}
  /\ chain[a.at].data.previous = a.prior /\ chain[a.at].proj.lease = a.new

Preflight(c, h, a) ==
  /\ SafeHandoff(h, c)
  /\ c.complete /\ FailClosed(c.binding)
  /\ CheckpointBound(c, a)
  /\ Run.mayResume
  /\ PlanBound(c, a)
  /\ LeasesBound(c, a)
  /\ a.identity = c.binding.id

-----------------------------------------------------------------------------
(***************************************************************************)
(* Properties.                                                             *)
(***************************************************************************)

\* The author of the checkpoint has told the truth.
Truthful(c) ==
  /\ c.lease = chain[c.event].proj.lease
  /\ c.plan = chain[c.event].proj.plan

\* Something was worked on between the events at i and j.
WorkBetween(i, j) == \E k \in (i + 1)..(j - 1) : chain[k].proj.status = "running"

\* The resume that has just been recorded.
Resuming(a) == a.at = Len(chain)

\* "Stale lease reuse or a broken checkpoint event position must stop resume":
\* whatever leases, plan and handoff a caller supplies, no resume passes that
\* would leave out what an attempt has worked on since the checkpoint.
ResumeLosesNoWork ==
  Last.type = "run.resumed" =>
    \A c \in {k \in Checkpoints : Truthful(k)}, a \in {b \in Arguments : Resuming(b)} :
      WorkBetween(c.event, a.at) => \A h \in Handoffs(c) : ~Preflight(c, h, a)

\* "Builds deterministic checkpoints and bounded handoffs, then applies the
\* existing strict resume invariants": what the one end makes the other accepts.
\* A run that goes on from a truthful complete checkpoint, with the plan it was
\* made under and no work since, passes with every handoff made for it, after
\* any number of attempts.
MadeIsAccepted ==
  Last.type = "run.resumed" =>
    \A c \in {k \in Checkpoints : Truthful(k) /\ MadeCheckpoint(k)} :
      c.complete /\ c.event = Last.data.ref /\ c.plan = Run.plan
        /\ ~WorkBetween(c.event, Len(chain))
      => \E a \in Arguments : \A h \in Handoffs(c) : MadeHandoff(h, c) => Preflight(c, h, a)
==============================================================================
