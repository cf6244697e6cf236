------------------------------ MODULE ChildJoin ------------------------------
(***************************************************************************)
(* packages/runsteward-core/src/child-join.mjs: what a parent makes of the *)
(* runs it depends on.  One of its children is the run of the chain, the   *)
(* others are known by what was found of them.  An evaluation is a record  *)
(* that is kept and looked at again later.                                 *)
(***************************************************************************)
EXTENDS RunChain

Unproven == {"missing", "identity-mismatch", "unfinished", "invalid-final-proof"}

\* proofFor, for a child of which state was found; only a proof has a digest.
ProofOf(child, state, required) ==
  [child |-> child, required |-> required, state |-> state,
   terminal |-> state \in Closing, joined |-> state = "completed", proof |-> state \in Closing]

\* proofFor, for the run of the chain.
FoundState ==
  IF Run.status \notin Closing THEN "unfinished"
  ELSE IF Proven THEN Run.status ELSE "invalid-final-proof"

\* evaluateChildDependencies; it throws without any child.
Evaluation(children) ==
  LET required == {c \in children : c.required}
      wait == \A c \in required : c.terminal
      join == \A c \in required : c.joined
  IN [children |-> children, wait |-> wait, join |-> join, mayComplete |-> wait /\ join]

\* Mutant: that a child is closed is taken for that it has joined.
ConsistentWait(e) ==
  LET required == {c \in e.children : c.required}
  IN /\ e.wait = (\A c \in required : c.terminal)
     /\ e.mayComplete = e.wait

\* assertChildDependencyEvaluation, what is recomputed: the three results.
Consistent(e) ==
  LET required == {c \in e.children : c.required}
  IN /\ e.wait = (\A c \in required : c.terminal)
     /\ e.join = (\A c \in required : c.joined)
     /\ e.mayComplete = (e.wait /\ e.join)

\* assertChildDependencyEvaluation: the flags a record may have with its state.
Possible(c) ==
  \/ c.state \in Unproven /\ ~c.terminal /\ ~c.joined /\ ~c.proof
  \/ c.state = "completed" /\ c.terminal /\ c.joined /\ c.proof
  \/ c.state \in Closing \ {"completed"} /\ c.terminal /\ ~c.joined /\ c.proof

Accepted(e) ==
  /\ e.children # {}
  /\ \A c \in e.children : Possible(c)
  /\ Consistent(e)

-----------------------------------------------------------------------------
(***************************************************************************)
(* Properties.                                                             *)
(***************************************************************************)

\* The run of the chain as a required child, with whatever flags its record has.
Records ==
  {c \in [child: {"this"}, required: {TRUE}, state: {FoundState},
          terminal: BOOLEAN, joined: BOOLEAN, proof: BOOLEAN] : Possible(c)}

\* Another child: none, one that has joined, or one not waited for.
Others == {{}, {ProofOf("other", "completed", TRUE)}, {ProofOf("other", "unfinished", FALSE)}}

MayComplete(others) ==
  Evaluation({ProofOf("this", FoundState, TRUE)} \union others).mayComplete

\* "Only a required child proven completed satisfies join": a parent that keeps an
\* accepted evaluation which lets it complete is right to, and stays right: the
\* children evaluated anew, after whatever has been appended to the chain of one
\* that was already closed, let it complete too.
CompletionIsFinal == [][
  Run.status \in Closing =>
    \A c \in Records, others \in Others, wait, join \in BOOLEAN :
      Accepted([children |-> {c} \union others, wait |-> wait, join |-> join, mayComplete |-> TRUE])
      => MayComplete(others) /\ MayComplete(others)']_chain
==============================================================================
