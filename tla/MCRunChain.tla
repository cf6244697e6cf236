---------------------------- MODULE MCRunChain -------------------------------
(***************************************************************************)
(* RunChain, and those who read the chain, for TLC.                        *)
(***************************************************************************)
EXTENDS ResumePreflight, GateDispatch, ChildJoin

\* Binding a plan again and asking for approval again lead nowhere new: a chain
\* with few of them has room for the attempts.
CONSTANTS MaxBindings, MaxApprovals

Bounded ==
  /\ Cardinality(At("capability-plan.bound")) <= MaxBindings
  /\ Cardinality(At("run.approval_required")) <= MaxApprovals
==============================================================================
