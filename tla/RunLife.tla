------------------------------- MODULE RunLife -------------------------------
(***************************************************************************)
(* What the event chain of a run promises to those who read it: attempts   *)
(* follow one another, each under a lease of its own; an attempt works at  *)
(* most once; the run ends at most once; and that it has ended is proven,  *)
(* at most once, after the lease of its last attempt has been given back.  *)
(***************************************************************************)
EXTENDS Naturals

Terminal == {"completed", "failed", "cancelled"}

VARIABLES
  attempt,  \* the number of attempts begun
  stage,    \* of the present attempt: "none", "allocated", "working", "resting"
  outcome,  \* "none" or the terminal state of the run
  proven    \* whether the final report is bound

vars == <<attempt, stage, outcome, proven>>

TypeOK ==
  /\ attempt \in Nat
  /\ stage \in {"none", "allocated", "working", "resting"}
  /\ outcome \in Terminal \union {"none"}
  /\ proven \in BOOLEAN

Init == attempt = 0 /\ stage = "none" /\ outcome = "none" /\ proven = FALSE

Begin ==
  /\ outcome = "none" /\ stage = "none"
  /\ attempt' = attempt + 1 /\ stage' = "allocated"
  /\ UNCHANGED <<outcome, proven>>

Work ==
  /\ outcome = "none" /\ stage = "allocated" /\ stage' = "working"
  /\ UNCHANGED <<attempt, outcome, proven>>

Rest ==
  /\ outcome = "none" /\ stage = "working" /\ stage' = "resting"
  /\ UNCHANGED <<attempt, outcome, proven>>

Release ==
  /\ stage = "resting" /\ stage' = "none"
  /\ UNCHANGED <<attempt, outcome, proven>>

End ==
  /\ outcome = "none" /\ stage # "allocated"
  /\ outcome' \in Terminal
  /\ stage' = IF stage = "working" THEN "resting" ELSE stage
  /\ UNCHANGED <<attempt, proven>>

Prove ==
  /\ outcome # "none" /\ stage = "none" /\ ~proven /\ proven' = TRUE
  /\ UNCHANGED <<attempt, stage, outcome>>

Next == Begin \/ Work \/ Rest \/ Release \/ End \/ Prove

Spec == Init /\ [][Next]_vars
==============================================================================
