---------------------------- MODULE MCLimitTrigger ---------------------------
(***************************************************************************)
(* Small instances of LimitTrigger.                                        *)
(***************************************************************************)
EXTENDS LimitTrigger, TLC

CONSTANTS s1, s2, l1, q1, w1, w2

\* The user turns from the dry run to the real thing, unattended, with a reserve
\* measured from one wrap-up.
Unattended == [Defaults EXCEPT !.mode = "auto", !.dryRun = FALSE, !.measured = 12]
AutoOnly == {Unattended}

\* Bounds: the clock stands while a hook, a status line or a poll, a matter of at most
\* seconds, is under way, and so does the user's hand while a hook or a status line is;
\* at most two processes are between their reads and their writes at one time, two
\* hooks, two sensors or one of each.
UnderWay ==
  {s \in Session : hook[s].step # "idle"} \union {l \in Line : line[l] # Nothing}
PollsIn(steps) == {q \in Poller : poll[q].step \in steps}

Brief ==
  /\ now' # now => UnderWay \union PollsIn({"spawned", "asked", "read"}) = {}
  /\ config' # config => UnderWay = {}
Pairwise == Cardinality(UnderWay \union PollsIn({"read"})) <= 2

\* Once each session has lost a latch nothing more is promised of what they are told.
OneKept == lost # Session

Symmetry == Permutations(Session)
==============================================================================
