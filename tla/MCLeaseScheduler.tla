--------------------------- MODULE MCLeaseScheduler ---------------------------
(***************************************************************************)
(* Small instances of LeaseScheduler.                                      *)
(***************************************************************************)
EXTENDS LeaseScheduler, TLC, FiniteSets

CONSTANTS p1, p2, r1, r2, t1, t2

\* Two runs of the same task (two source heads).
SameTask == r1 :> t1 @@ r2 :> t1

\* One run alone.
OneRun == r1 :> t1
NoOverlap == {}

\* The bound of the fair instance: two grants in all, and p1 only ever calls for
\* r1, so that r1 is contested and r2 is the run that clashes with it.  Calls are
\* not fair, so cutting them off takes no fair step away.
FewCalls ==
  /\ \A p \in Proc :
       pc[p] = "idle" /\ pc'[p] = "openLease" => Cardinality(LeasesIn(state)) < 2
  /\ lease'[p1] # NoLease => lease'[p1].run = r1

Symmetry == Permutations({p1, p2})
==============================================================================
