----------------------------- MODULE GateDispatch ----------------------------
(***************************************************************************)
(* packages/runsteward-core/src/choicegate-runtime.mjs: whether the route  *)
(* of a frozen capability plan may be dispatched, given the receipt behind *)
(* it, the present authorities, the present state of the request and, for  *)
(* a plan with owner gates, the event chain of the run.                    *)
(*                                                                         *)
(* The artifacts are known by how they compare with one another.  A plan   *)
(* declares owner gates or none; all that declare some declare the same.   *)
(***************************************************************************)
EXTENDS RunChain

\* One call.  Of the plan: whether it declares owner gates and what it says of its
\* authorization.  Of the receipt: whether it asks for approvals or for an
\* authorization, and what was decided ("original" for an atomic or bundle route,
\* which may be executable).  Whether every other comparison of the binding agrees
\* and the original of a handoff resolves; whether an authority, frozen or current,
\* differs from the accepted one; whether the request or a declared condition has
\* changed since, or one nobody declared; whether the event chain is supplied, and
\* whether its first approval asks for the gates the plan declares, no more and no less.
Calls ==
  [plan: Plan, gated: BOOLEAN, state: {"requires-owner", "not-required"},
   approvals: BOOLEAN, authorization: BOOLEAN, executable: BOOLEAN,
   route: {"original", "handoff", "no-safe-route", "setup"}, binds: BOOLEAN,
   drift: BOOLEAN, changed: {"nothing", "declared", "undeclared"}, events: BOOLEAN,
   asked: BOOLEAN]

\* What the receipt makes of the plan's authorization.
Requires(call) ==
  IF call.authorization \/ call.approvals THEN "requires-owner" ELSE "not-required"

\* assertQualifiedCapabilityPlanBinding: the plan is what the receipt decided, its
\* gates and its authorization state are those of the receipt.
Qualified(call) ==
  /\ call.binds
  /\ call.gated = call.approvals
  /\ call.state = Requires(call)

\* The approvals asked for before anything was queued.
InitialApprovals ==
  {i \in At("run.approval_required") : chain[i - 1].proj.status = "planned"}

\* Mutant: the queue entry that shows the gates satisfied is not looked for.
QueuedAlready(i) == TRUE

QueuedAfter(i) == \E q \in At("run.queued") : q > i

\* assertRunOwnerGateBinding: the plan bound first is this one, and the gates it
\* declares were asked for at the start and the run was queued after that.
OwnerGateBinding(call) ==
  /\ At("capability-plan.bound") # {}
  /\ chain[Min(At("capability-plan.bound"))].data.ref = call.plan
  /\ IF call.gated
     THEN InitialApprovals # {} /\ call.asked /\ QueuedAfter(Min(InitialApprovals))
     ELSE InitialApprovals = {}

\* The checks of ingestQualifiedChoiceGateReceipt in their order, each with what
\* the call comes to when it is the first that applies.
Checks(call) ==
  << <<~Qualified(call), "throws">>,
     <<call.drift, "AUTHORITY_DRIFT">>,
     <<call.changed = "undeclared", "throws">>,
     <<call.changed = "declared", "STALE_RECEIPT">>,
     <<call.route = "no-safe-route", "NO_SAFE_ROUTE">>,
     <<call.route = "handoff", "HANDOFF_CONTINUITY_ONLY">>,
     <<call.route # "original" \/ ~call.executable, "NON_EXECUTABLE_SELECTION">>,
     <<call.gated /\ ~call.events, "OWNER_APPROVAL_REQUIRED">>,
     <<call.gated /\ ~OwnerGateBinding(call), "throws">>,
     <<~call.gated /\ (call.state # "not-required" \/ call.authorization \/ call.approvals),
       "AUTHORIZATION_DRIFT">>,
     <<TRUE, "authorized">> >>

Ingest(call) ==
  LET checks == Checks(call)
  IN checks[Min({i \in DOMAIN checks : checks[i][1]})][2]

-----------------------------------------------------------------------------
(***************************************************************************)
(* Properties.                                                             *)
(***************************************************************************)

\* The owner has satisfied the gates of a plan when the run was queued out of an
\* approval that named it.
Approved(p) ==
  \E q \in At("run.queued") :
    /\ chain[q - 1].type = "run.approval_required" /\ chain[q - 1].proj.plan = p
    /\ chain[q].proj.gates = "satisfied"

\* The calls with a receipt that asks for approvals.
GatedCalls == {call \in Calls : call.approvals}

\* Another plan was bound over the first one.
Rebound ==
  \E i, j \in At("capability-plan.bound") : chain[i].data.ref # chain[j].data.ref

\* "Owner-gated selections remain stopped until the existing event-chain
\* invariant proves the exact declared gates satisfied": before a run starts, no
\* route whose receipt asks for approvals is dispatched that the owner has not
\* approved, whatever its plan declares and by whatever stops, refusals and
\* cancellations the chain has gone through.  A chain in
\* which one plan was bound over another is left out (see the README).
DispatchIsApproved ==
  At("run.started") = {} /\ ~Rebound =>
    \A call \in GatedCalls : Approved(call.plan) \/ Ingest(call) # "authorized"
==============================================================================
