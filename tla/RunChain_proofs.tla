--------------------------- MODULE RunChain_proofs ---------------------------
(***************************************************************************)
(* Theorems about the event chain of a run and those who read it, for      *)
(* every set of capability plans and chains of every length.               *)
(***************************************************************************)
EXTENDS ResumePreflight, GateDispatch, ChildJoin, Extrema, FiniteSetTheorems, TLAPS

USE RunChainConstants DEF None

-----------------------------------------------------------------------------
(***************************************************************************)
(* What one event adds to the chain.                                       *)
(***************************************************************************)
Purposes == {"none", "initial", "resume"}
Origins == {"none", "waiting", "checkpointed", "stopped"}
Types == {"run.created"} \union {row[1] : row \in Transitions}

Data == [purpose: Purposes, origin: Origins, previous: Nat, ref: Nat]
Event == [type: Types, data: Data, proj: Projection]

TypeInv == TypeOK /\ chain \in Seq(Event)

Appended(type, data, proj) ==
  /\ chain' = Append(chain, [type |-> type, data |-> data, proj |-> proj])
  /\ Len(chain) < MaxEvents
  /\ <<type, Run.status, proj.status>> \in Transitions

\* What an event of each type refers to and what it changes.
Changes(type, data, proj) ==
  /\ type = "lease.acquired" =>
       /\ Run.lease = None /\ proj.lease = NextLease /\ data.ref = NextLease
       /\ data.purpose = "resume" => data.previous = Returned /\ Returned # None
  /\ type = "lease.released" =>
       Run.lease # None /\ proj.lease = None /\ data.ref = Run.lease
  /\ type \notin {"lease.acquired", "lease.released"} => proj.lease = Run.lease
  /\ IF type = "capability-plan.bound"
     THEN data.ref \in Plan /\ proj.plan = data.ref ELSE proj.plan = Run.plan
  /\ IF type = "checkpoint.finalized"
     THEN /\ Last.type = "run.checkpointed"
          /\ data.ref = Len(chain) /\ proj.checkpoint = Len(chain)
     ELSE proj.checkpoint = Run.checkpoint
  /\ type = "run.resumed" =>
       /\ Last.type = "lease.acquired" /\ Last.data.purpose = "resume"
       /\ data.ref = Run.checkpoint /\ data.previous = Last.data.previous
       /\ Finalized(Run.checkpoint) /\ proj.mayResume
  /\ type = "run.approval_required" => Run.plan # None
  /\ type = "run.queued" =>
       Run.status = "planned" \/ (Approval /\ proj.gates = "satisfied")
  /\ IF type = "report.finalized"
     THEN \E t \in Places :
            /\ Closes(t) /\ ReleasedFor(t) /\ data.ref = t
            /\ \/ /\ Run.status = "stopped"
                  /\ proj.stopped = Len(chain) + 1 /\ proj.final = Run.final
               \/ /\ Run.status \in Terminal /\ Run.final = None
                  /\ proj.final = Len(chain) + 1 /\ proj.stopped = Run.stopped
     ELSE proj.final = Run.final /\ proj.stopped \in {Run.stopped, None}

Statuses == Preparing \union Active \union Closing

\* The last event and its projection.
LEMMA LastEvent ==
  ASSUME TypeInv
  PROVE  /\ Len(chain) \in Places /\ Len(chain) \in 1..MaxEvents
         /\ Last \in Event /\ Last = chain[Len(chain)]
         /\ Run \in Projection /\ Run = chain[Len(chain)].proj
         /\ \A i \in Places : chain[i] \in Event
<1>1. chain \in Seq(Event) /\ Len(chain) \in 1..MaxEvents
  BY DEF TypeInv, TypeOK
<1>2. \A i \in 1..Len(chain) : chain[i] \in Event
  BY <1>1
<1>3. Len(chain) \in 1..Len(chain)
  BY <1>1
<1>4. chain[Len(chain)] \in Event /\ chain[Len(chain)].proj \in Projection
  BY <1>2, <1>3 DEF Event
<1> QED BY <1>1, <1>2, <1>3, <1>4 DEF Places, Last, Run

\* Setting the status of a projection.
LEMMA StatusSet ==
  ASSUME NEW p \in Projection, NEW s \in Statuses
  PROVE  /\ [p EXCEPT !.status = s] \in Projection
         /\ [p EXCEPT !.status = s].status = s
         /\ [p EXCEPT !.status = s].lease = p.lease
         /\ [p EXCEPT !.status = s].plan = p.plan
         /\ [p EXCEPT !.status = s].checkpoint = p.checkpoint
         /\ [p EXCEPT !.status = s].gates = p.gates
         /\ [p EXCEPT !.status = s].stopped = p.stopped
         /\ [p EXCEPT !.status = s].final = p.final
         /\ [p EXCEPT !.status = s].mayResume = p.mayResume
BY DEF Projection, Statuses

\* The rows of the transition table.
LEMMA Rows ==
  ASSUME NEW type, NEW from, NEW to, <<type, from, to>> \in Transitions
  PROVE  \/ type = "capability-plan.bound" /\ from \in {"planned", "needs_approval", "stopped"} /\ to = from
         \/ type = "run.queued" /\ from \in {"planned", "needs_approval"} /\ to = "queued"
         \/ type = "lease.acquired" /\ from \in Resumable \union {"queued"} /\ to = "allocated"
         \/ type \in {"run.started", "run.resumed"} /\ from \in {"allocated"} /\ to = "running"
         \/ type = "run.waiting" /\ from \in {"running"} /\ to = "waiting"
         \/ /\ type = "run.approval_required" /\ to = "needs_approval"
            /\ from \in Resumable \union {"planned", "running"}
         \/ type = "run.checkpointed" /\ from \in {"running"} /\ to = "checkpointed"
         \/ type = "checkpoint.finalized" /\ from \in {"checkpointed"} /\ to = from
         \/ type = "run.stop_requested" /\ from \in {"running"} /\ to = "stopping"
         \/ /\ type = "run.stopped" /\ to = "stopped"
            /\ from \in {"waiting", "needs_approval", "checkpointed", "stopping"}
         \/ type = "run.completed" /\ from \in {"stopping"} /\ to = "completed"
         \/ type = "run.failed" /\ from \in {"running", "waiting", "stopping"} /\ to = "failed"
         \/ /\ type = "run.cancelled" /\ to = "cancelled"
            /\ from \in {"needs_approval", "checkpointed", "stopped"}
         \/ type = "report.finalized" /\ from \in Closing /\ to = from
         \/ type = "lease.released" /\ from \in Closing \union {"waiting", "checkpointed"} /\ to = from
<1>1. \/ <<type, from, to>> \in Stays("capability-plan.bound", {"planned", "needs_approval", "stopped"})
      \/ <<type, from, to>> \in Goes("run.queued", {"planned", "needs_approval"}, "queued")
      \/ <<type, from, to>> \in Goes("lease.acquired", Resumable \union {"queued"}, "allocated")
      \/ <<type, from, to>> \in Goes("run.started", {"allocated"}, "running")
      \/ <<type, from, to>> \in Goes("run.resumed", {"allocated"}, "running")
      \/ <<type, from, to>> \in Goes("run.waiting", {"running"}, "waiting")
      \/ <<type, from, to>> \in Goes("run.approval_required", Resumable \union {"planned", "running"}, "needs_approval")
      \/ <<type, from, to>> \in Goes("run.checkpointed", {"running"}, "checkpointed")
      \/ <<type, from, to>> \in Stays("checkpoint.finalized", {"checkpointed"})
      \/ <<type, from, to>> \in Goes("run.stop_requested", {"running"}, "stopping")
      \/ <<type, from, to>> \in Goes("run.stopped", {"waiting", "needs_approval", "checkpointed", "stopping"}, "stopped")
      \/ <<type, from, to>> \in Goes("run.completed", {"stopping"}, "completed")
      \/ <<type, from, to>> \in Goes("run.failed", {"running", "waiting", "stopping"}, "failed")
      \/ <<type, from, to>> \in Goes("run.cancelled", {"needs_approval", "checkpointed", "stopped"}, "cancelled")
      \/ <<type, from, to>> \in Stays("report.finalized", Closing)
      \/ <<type, from, to>> \in Stays("lease.released", Closing \union {"waiting", "checkpointed"})
  BY DEF Transitions
<1>2. \A k, states : <<type, from, to>> \in Stays(k, states) =>
        type = k /\ from \in states /\ to = from
  BY DEF Stays
<1>3. \A k, froms, end : <<type, from, to>> \in Goes(k, froms, end) =>
        type = k /\ from \in froms /\ to = end
  BY DEF Goes
<1> QED BY <1>1, <1>2, <1>3, Zenon

LEMMA RowStatus ==
  ASSUME NEW type, NEW from, NEW to, <<type, from, to>> \in Transitions
  PROVE  from \in Statuses /\ to \in Statuses
<1>1. \A s : s \in Statuses <=>
        \/ s = "planned" \/ s = "queued" \/ s = "allocated" \/ s = "running"
        \/ s = "waiting" \/ s = "needs_approval" \/ s = "checkpointed" \/ s = "stopping"
        \/ s = "completed" \/ s = "failed" \/ s = "cancelled" \/ s = "stopped"
  BY DEF Closing, Terminal, Statuses, Preparing, Active
<1>2. Resumable \subseteq Statuses /\ Closing \subseteq Statuses
  BY <1>1 DEF Resumable, Closing, Terminal
<1> QED BY <1>1, <1>2, Rows

\* The places of a chain of length n.
LEMMA Interval ==
  ASSUME NEW n \in Nat
  PROVE  IsFiniteSet(1..n) /\ Cardinality(1..n) = n
<1>1. 1 \in Int /\ n \in Int
  OBVIOUS
<1>2. IsFiniteSet(1..n) /\ Cardinality(1..n) = IF 1 > n THEN 0 ELSE n - 1 + 1
  BY <1>1, FS_Interval, Zenon
<1> QED BY <1>2

\* The epoch of the next lease.
LEMMA NextLeaseType ==
  ASSUME TypeInv, Len(chain) < MaxEvents
  PROVE  /\ NextLease \in 1..MaxEvents
         /\ IsFiniteSet(At("lease.acquired")) /\ Cardinality(At("lease.acquired")) \in Nat
<1>1. Len(chain) \in 1..MaxEvents /\ Len(chain) \in Nat
  BY LastEvent
<1>2. IsFiniteSet(1..Len(chain)) /\ Cardinality(1..Len(chain)) = Len(chain)
  BY <1>1, Interval
<1>3. At("lease.acquired") \subseteq 1..Len(chain)
  BY DEF At, Places
<1>4. /\ IsFiniteSet(At("lease.acquired"))
      /\ Cardinality(At("lease.acquired")) <= Len(chain)
  BY <1>2, <1>3, FS_Subset
<1>5. Cardinality(At("lease.acquired")) \in Nat
  BY <1>4, FS_CardinalityType
<1> QED BY <1>1, <1>4, <1>5 DEF NextLease

\* What Accept does with the projection it is given.
LEMMA AcceptStep ==
  ASSUME TypeInv, NEW type, NEW to, NEW proj \in Projection, NEW data,
         Accept(type, to, proj, data)
  PROVE  LET p == [proj EXCEPT !.status = to]
         IN /\ Appended(type, data, p)
            /\ p \in Projection /\ p.status = to /\ p.lease = proj.lease /\ p.plan = proj.plan
            /\ p.checkpoint = proj.checkpoint /\ p.gates = proj.gates
            /\ p.stopped = proj.stopped /\ p.final = proj.final /\ p.mayResume = proj.mayResume
<1>1. to \in Statuses
  BY RowStatus DEF Accept
<1>2. Appended(type, data, [proj EXCEPT !.status = to])
  BY <1>1, StatusSet DEF Accept, Appended
<1> QED BY <1>1, <1>2, StatusSet

\* The lease that was given back last is None or a lease of the chain.
LEMMA ReturnedType ==
  ASSUME TypeInv
  PROVE  Returned \in Nat
<1>1. CASE At("lease.released") = {}
  BY <1>1 DEF Returned
<1>2. CASE At("lease.released") # {}
  <2>1. Len(chain) \in Nat /\ At("lease.released") \in SUBSET (1..Len(chain))
    BY LastEvent DEF At, Places
  <2>2. PICK m \in At("lease.released") : \A x \in At("lease.released") : x <= m
    BY <1>2, <2>1, HasMax
  <2>3. Max(At("lease.released")) = m
    BY <2>1, <2>2, MaxIs
  <2>4. chain[m] \in Event
    BY LastEvent DEF At
  <2> QED BY <1>2, <2>3, <2>4 DEF Returned, Event, Data
<1> QED BY <1>1, <1>2

\* The data an event is given; that of an acquisition has a name.
AcquiredFirst(e) == [NoData EXCEPT !.purpose = "initial", !.ref = e]
AcquiredAgain(q, e) == [NoData EXCEPT !.purpose = "resume", !.previous = q, !.ref = e]

LEMMA DataType ==
  /\ NoData \in Data
  /\ \A r \in Nat : [NoData EXCEPT !.ref = r] \in Data /\ [NoData EXCEPT !.ref = r].ref = r
  /\ \A w \in Purposes : [NoData EXCEPT !.purpose = w] \in Data
  /\ \A r \in Nat :
       /\ AcquiredFirst(r) \in Data /\ AcquiredFirst(r).ref = r
       /\ AcquiredFirst(r).purpose = "initial"
  /\ \A q, r \in Nat :
       /\ AcquiredAgain(q, r) \in Data /\ AcquiredAgain(q, r).ref = r
       /\ AcquiredAgain(q, r).previous = q
  /\ \A q, r \in Nat :
       /\ [NoData EXCEPT !.previous = q, !.ref = r] \in Data
       /\ [NoData EXCEPT !.previous = q, !.ref = r].ref = r
       /\ [NoData EXCEPT !.previous = q, !.ref = r].previous = q
  /\ \A w \in Purposes, o \in Origins, q \in Nat :
       [purpose |-> w, origin |-> o, previous |-> q, ref |-> None] \in Data
<1>1. NoData \in Data
  BY DEF Data, NoData, Purposes, Origins
<1>2. ASSUME NEW w \in Purposes, NEW d \in Data PROVE [d EXCEPT !.purpose = w] \in Data
  BY DEF Data
<1>3. ASSUME NEW r \in Nat, NEW d \in Data
      PROVE  [d EXCEPT !.ref = r] \in Data /\ [d EXCEPT !.ref = r].ref = r
  BY DEF Data
<1>4. ASSUME NEW r \in Nat, NEW d \in Data PROVE [d EXCEPT !.previous = r] \in Data
  BY DEF Data
<1>5. ASSUME NEW w \in Purposes, NEW o \in Origins, NEW q \in Nat
      PROVE  [purpose |-> w, origin |-> o, previous |-> q, ref |-> None] \in Data
  BY DEF Data, Purposes, Origins
<1>6. ASSUME NEW r \in Nat
      PROVE  /\ AcquiredFirst(r) \in Data /\ AcquiredFirst(r).ref = r
             /\ AcquiredFirst(r).purpose = "initial"
  BY DEF Data, NoData, Purposes, Origins, AcquiredFirst
<1>7. ASSUME NEW q \in Nat, NEW r \in Nat
      PROVE  /\ AcquiredAgain(q, r) \in Data /\ AcquiredAgain(q, r).ref = r
             /\ AcquiredAgain(q, r).previous = q
  BY DEF Data, NoData, Purposes, Origins, AcquiredAgain
<1>8. ASSUME NEW q \in Nat, NEW r \in Nat
      PROVE  /\ [NoData EXCEPT !.previous = q, !.ref = r] \in Data
             /\ [NoData EXCEPT !.previous = q, !.ref = r].ref = r
             /\ [NoData EXCEPT !.previous = q, !.ref = r].previous = q
  BY DEF Data, NoData, Purposes, Origins
<1> QED BY <1>1, <1>2, <1>3, <1>5, <1>6, <1>7, <1>8, Zenon

Recorded ==
  \E type \in Types, data \in Data, proj \in Projection :
    Appended(type, data, proj) /\ Changes(type, data, proj)

\* An event that Accept takes is recorded when its changes are legal.
LEMMA AcceptRecords ==
  ASSUME TypeInv, NEW type, NEW to, NEW proj \in Projection, NEW data \in Data,
         Accept(type, to, proj, data),
         Changes(type, data, proj)
  PROVE  Recorded
<1> DEFINE p == [proj EXCEPT !.status = to]
<1>1. type \in Types
  BY DEF Accept, Types
<1>2. /\ Appended(type, data, p)
      /\ p \in Projection /\ p.status = to /\ p.lease = proj.lease /\ p.plan = proj.plan
      /\ p.checkpoint = proj.checkpoint /\ p.gates = proj.gates
      /\ p.stopped = proj.stopped /\ p.final = proj.final /\ p.mayResume = proj.mayResume
  BY AcceptStep
<1> HIDE DEF p
<1>3. Changes(type, data, p)
  BY <1>2 DEF Changes
<1> QED BY <1>1, <1>2, <1>3 DEF Recorded

\* Events that only lead from one state to another.
LEMMA PlainStep ==
  ASSUME TypeInv, NEW to,
         NEW type \in {"run.started", "run.waiting", "run.checkpointed", "run.stop_requested",
                       "run.stopped", "run.completed", "run.failed", "run.cancelled"},
         Accept(type, to, Run, NoData)
  PROVE  Recorded
<1>1. Run \in Projection /\ NoData \in Data
  BY LastEvent, DataType
<1>2. Changes(type, NoData, Run)
  BY DEF Changes
<1> QED BY <1>1, <1>2, AcceptRecords

\* Every step appends one event of which this holds.
LEMMA NextRecords ==
  ASSUME TypeInv, Next
  PROVE  Recorded
<1>0. /\ Run \in Projection /\ NoData \in Data /\ Len(chain) \in 1..MaxEvents
      /\ Len(chain) \in Nat /\ MaxEvents \in Nat
  <2>1. Run \in Projection /\ Len(chain) \in 1..MaxEvents
    BY LastEvent
  <2>2. NoData \in Data
    BY DataType
  <2> QED BY <2>1, <2>2
<1>1. CASE BindPlan
  <2>1. PICK p \in Plan :
          Accept("capability-plan.bound", Run.status, [Run EXCEPT !.plan = p], [NoData EXCEPT !.ref = p])
    BY <1>1 DEF BindPlan
  <2> DEFINE q == [Run EXCEPT !.plan = p]
             d == [NoData EXCEPT !.ref = p]
  <2>2. /\ q \in Projection /\ q.plan = p /\ q.lease = Run.lease
        /\ q.checkpoint = Run.checkpoint /\ q.stopped = Run.stopped /\ q.final = Run.final
    BY <1>0 DEF Projection
  <2>3. d \in Data /\ d.ref = p
    BY DataType
  <2>4. Accept("capability-plan.bound", Run.status, q, d)
    BY <2>1
  <2> HIDE DEF q, d
  <2>5. Changes("capability-plan.bound", d, q)
    BY <2>2, <2>3 DEF Changes
  <2> QED BY <2>2, <2>3, <2>4, <2>5, AcceptRecords
<1>2. CASE RequireApproval
  <2>1. PICK g \in Gates \ {"none"} :
          Accept("run.approval_required", "needs_approval", [Run EXCEPT !.gates = g], NoData)
    BY <1>2 DEF RequireApproval
  <2> DEFINE q == [Run EXCEPT !.gates = g]
  <2>2. /\ q \in Projection /\ q.plan = Run.plan /\ q.lease = Run.lease
        /\ q.checkpoint = Run.checkpoint /\ q.stopped = Run.stopped /\ q.final = Run.final
    BY <1>0 DEF Projection
  <2>3. Accept("run.approval_required", "needs_approval", q, NoData)
    BY <2>1
  <2> HIDE DEF q
  <2>4. Changes("run.approval_required", NoData, q)
    BY <1>2, <2>2 DEF Changes, RequireApproval
  <2> QED BY <1>0, <2>2, <2>3, <2>4, AcceptRecords
<1>3. ASSUME NEW d \in Data, Queue(d) PROVE Recorded
  <2>1. CASE Run.status = "planned" /\ Run.gates = "none" /\ Accept("run.queued", "queued", Run, d)
    <3>1. Changes("run.queued", d, Run)
      BY <2>1 DEF Changes
    <3> QED BY <1>0, <2>1, <3>1, AcceptRecords
  <2>2. CASE /\ Run.status = "needs_approval" /\ Approval
             /\ Accept("run.queued", "queued", [Run EXCEPT !.gates = "satisfied"], d)
    <3> DEFINE q == [Run EXCEPT !.gates = "satisfied"]
    <3>1. /\ q \in Projection /\ q.gates = "satisfied" /\ q.plan = Run.plan /\ q.lease = Run.lease
          /\ q.checkpoint = Run.checkpoint /\ q.stopped = Run.stopped /\ q.final = Run.final
      BY <1>0 DEF Projection, Gates
    <3>2. Accept("run.queued", "queued", q, d)
      BY <2>2
    <3> HIDE DEF q
    <3>3. Changes("run.queued", d, q)
      BY <2>2, <3>1 DEF Changes
    <3> QED BY <3>1, <3>2, <3>3, AcceptRecords
  <2> QED BY <1>3, <2>1, <2>2 DEF Queue
<1>4. CASE QueueInitial
  <2>1. [NoData EXCEPT !.purpose = "initial"] \in Data
    BY DataType DEF Purposes
  <2> QED BY <1>3, <1>4, <2>1 DEF QueueInitial
<1>5. CASE QueueResume
  <2>1. Returned \in Nat /\ Origin \in Origins
    BY <1>5, ReturnedType DEF QueueResume, Origins, Resumable
  <2>2. [purpose |-> "resume", origin |-> Origin, previous |-> Returned, ref |-> None] \in Data
    BY <2>1, DataType DEF Purposes
  <2> QED BY <1>3, <1>5, <2>2 DEF QueueResume
<1>6. CASE AcquireInitial
  <2> DEFINE q == [Run EXCEPT !.lease = NextLease]
             d == [NoData EXCEPT !.purpose = "initial", !.ref = NextLease]
  <2>1. Run.lease = None /\ Accept("lease.acquired", "allocated", q, d)
    BY <1>6 DEF AcquireInitial
  <2>2. NextLease \in 1..MaxEvents
    BY <2>1, NextLeaseType DEF Accept
  <2>3. /\ q \in Projection /\ q.lease = NextLease /\ q.plan = Run.plan
        /\ q.checkpoint = Run.checkpoint /\ q.stopped = Run.stopped /\ q.final = Run.final
    BY <1>0, <2>2 DEF Projection, Ref
  <2>4. d \in Data /\ d.ref = NextLease /\ d.purpose = "initial"
    <3>1. NextLease \in Nat
      BY <2>2
    <3>2. d = AcquiredFirst(NextLease)
      BY DEF AcquiredFirst
    <3> HIDE DEF d
    <3>3. /\ AcquiredFirst(NextLease) \in Data /\ AcquiredFirst(NextLease).ref = NextLease
          /\ AcquiredFirst(NextLease).purpose = "initial"
      BY <3>1, DataType
    <3> QED BY <3>2, <3>3, Zenon
  <2> HIDE DEF q, d
  <2>5. Changes("lease.acquired", d, q)
    BY <2>1, <2>3, <2>4 DEF Changes
  <2> QED BY <2>1, <2>3, <2>4, <2>5, AcceptRecords
<1>7. CASE AcquireResume
  <2> DEFINE q == [Run EXCEPT !.lease = NextLease,
                              !.stopped = IF EffectiveOrigin = "stopped" THEN None ELSE @]
             d == [NoData EXCEPT !.purpose = "resume", !.previous = Returned, !.ref = NextLease]
  <2>1. Run.lease = None /\ Returned # None /\ Accept("lease.acquired", "allocated", q, d)
    BY <1>7 DEF AcquireResume
  <2>2. NextLease \in 1..MaxEvents
    BY <2>1, NextLeaseType DEF Accept
  <2>3. /\ q \in Projection /\ q.lease = NextLease /\ q.plan = Run.plan
        /\ q.checkpoint = Run.checkpoint /\ q.stopped \in {Run.stopped, None} /\ q.final = Run.final
    <3> DEFINE e == NextLease
               s == IF EffectiveOrigin = "stopped" THEN None ELSE Run.stopped
    <3>1. e \in Ref /\ s \in {Run.stopped, None}
      BY <2>2 DEF Ref
    <3>2. s \in Ref
      BY <1>0, <3>1 DEF Projection, Ref
    <3>3. q = [Run EXCEPT !.lease = e, !.stopped = s] /\ e = NextLease
      OBVIOUS
    <3> HIDE DEF q, e, s
    <3> QED BY <1>0, <3>1, <3>2, <3>3 DEF Projection
  <2>4. d \in Data /\ d.ref = NextLease /\ d.previous = Returned
    <3>1. NextLease \in Nat /\ Returned \in Nat
      BY <2>2, ReturnedType
    <3>2. d = AcquiredAgain(Returned, NextLease)
      BY DEF AcquiredAgain
    <3> HIDE DEF d
    <3>3. \A x, r \in Nat : /\ AcquiredAgain(x, r) \in Data /\ AcquiredAgain(x, r).ref = r
                            /\ AcquiredAgain(x, r).previous = x
      BY DataType
    <3> QED BY <3>1, <3>2, <3>3, Zenon
  <2> HIDE DEF q, d
  <2>5. Changes("lease.acquired", d, q)
    BY <2>1, <2>3, <2>4 DEF Changes
  <2> QED BY <2>1, <2>3, <2>4, <2>5, AcceptRecords
<1>8. CASE Resume
  <2>1. PICK k \in At("run.checkpointed") :
          /\ ResumesFrom(k) /\ Finalized(k)
          /\ Accept("run.resumed", "running", Run, [NoData EXCEPT !.previous = Last.data.previous, !.ref = k])
    BY <1>8 DEF Resume
  <2> DEFINE d == [NoData EXCEPT !.previous = Last.data.previous, !.ref = k]
  <2>2. Last.data.previous \in Nat /\ k \in Nat
    BY LastEvent DEF Event, Data, At, Places
  <2>3. d \in Data /\ d.ref = k /\ d.previous = Last.data.previous
    BY <2>2, DataType
  <2>4. /\ k = Run.checkpoint /\ Finalized(k) /\ Accept("run.resumed", "running", Run, d)
        /\ Last.type = "lease.acquired" /\ Last.data.purpose = "resume" /\ Run.mayResume
    BY <1>8, <2>1 DEF ResumesFrom, Resume
  <2> HIDE DEF d
  <2>5. Changes("run.resumed", d, Run)
    BY <2>3, <2>4 DEF Changes
  <2> QED BY <1>0, <2>3, <2>4, <2>5, AcceptRecords
<1>9. CASE FinalizeCheckpoint
  <2> DEFINE q == [Run EXCEPT !.checkpoint = Len(chain)]
             d == [NoData EXCEPT !.ref = Len(chain)]
  <2>1. /\ q \in Projection /\ q.lease = Run.lease /\ q.plan = Run.plan
        /\ q.checkpoint = Len(chain) /\ q.stopped = Run.stopped /\ q.final = Run.final
    BY <1>0 DEF Projection, Ref
  <2>2. d \in Data /\ d.ref = Len(chain)
    BY <1>0, DataType
  <2>3. Last.type = "run.checkpointed" /\ Accept("checkpoint.finalized", Run.status, q, d)
    BY <1>9 DEF FinalizeCheckpoint
  <2> HIDE DEF q, d
  <2>4. Changes("checkpoint.finalized", d, q)
    BY <2>1, <2>2, <2>3 DEF Changes
  <2> QED BY <2>1, <2>2, <2>3, <2>4, AcceptRecords
<1>10. CASE ReleaseLease
  <2> DEFINE q == [Run EXCEPT !.lease = None]
             d == [NoData EXCEPT !.ref = Run.lease]
  <2>1. /\ q \in Projection /\ q.lease = None /\ q.plan = Run.plan
        /\ q.checkpoint = Run.checkpoint /\ q.stopped = Run.stopped /\ q.final = Run.final
    BY <1>0 DEF Projection, Ref
  <2>2. Run.lease \in Nat
    BY <1>0 DEF Projection, Ref
  <2>3. d \in Data /\ d.ref = Run.lease
    BY <2>2, DataType
  <2>4. Run.lease # None /\ Accept("lease.released", Run.status, q, d)
    BY <1>10 DEF ReleaseLease
  <2> HIDE DEF q, d
  <2>5. Changes("lease.released", d, q)
    BY <2>1, <2>3, <2>4 DEF Changes
  <2> QED BY <2>1, <2>3, <2>4, <2>5, AcceptRecords
<1>11. CASE FinalizeReport
  <2>1. PICK t \in Places :
          /\ Closes(t) /\ ReleasedFor(t)
          /\ \/ /\ Run.status = "stopped" /\ Run.stopped = None
                /\ Accept("report.finalized", Run.status, [Run EXCEPT !.stopped = Len(chain) + 1],
                          [NoData EXCEPT !.ref = t])
             \/ /\ Run.status \in Terminal /\ Run.final = None
                /\ Accept("report.finalized", Run.status, [Run EXCEPT !.final = Len(chain) + 1],
                          [NoData EXCEPT !.ref = t])
    BY <1>11 DEF FinalizeReport
  <2> DEFINE d == [NoData EXCEPT !.ref = t]
  <2>2. t \in Nat
    BY DEF Places
  <2>3. d \in Data /\ d.ref = t
    BY <2>2, DataType
  <2>4. Len(chain) + 1 \in Ref
    BY <1>0, <2>1 DEF Accept, Ref
  <2>5. CASE /\ Run.status = "stopped"
             /\ Accept("report.finalized", Run.status, [Run EXCEPT !.stopped = Len(chain) + 1], d)
    <3> DEFINE q == [Run EXCEPT !.stopped = Len(chain) + 1]
    <3>1. /\ q \in Projection /\ q.lease = Run.lease /\ q.plan = Run.plan
          /\ q.checkpoint = Run.checkpoint /\ q.stopped = Len(chain) + 1 /\ q.final = Run.final
      BY <1>0, <2>4 DEF Projection
    <3>2. Accept("report.finalized", Run.status, q, d)
      BY <2>5
    <3> HIDE DEF q, d
    <3>3. Changes("report.finalized", d, q)
      BY <2>1, <2>3, <2>5, <3>1 DEF Changes
    <3> QED BY <2>3, <3>1, <3>2, <3>3, AcceptRecords
  <2>6. CASE /\ Run.status \in Terminal /\ Run.final = None
             /\ Accept("report.finalized", Run.status, [Run EXCEPT !.final = Len(chain) + 1], d)
    <3> DEFINE q == [Run EXCEPT !.final = Len(chain) + 1]
    <3>1. /\ q \in Projection /\ q.lease = Run.lease /\ q.plan = Run.plan
          /\ q.checkpoint = Run.checkpoint /\ q.stopped = Run.stopped /\ q.final = Len(chain) + 1
      BY <1>0, <2>4 DEF Projection
    <3>2. Accept("report.finalized", Run.status, q, d)
      BY <2>6
    <3> HIDE DEF q, d
    <3>3. Changes("report.finalized", d, q)
      BY <2>1, <2>3, <2>6, <3>1 DEF Changes
    <3> QED BY <2>3, <3>1, <3>2, <3>3, AcceptRecords
  <2> QED BY <2>1, <2>5, <2>6
<1>12. CASE Start \/ Wait \/ Checkpoint \/ RequestStop \/ Stop \/ Complete \/ Fail \/ Cancel
  BY <1>12, PlainStep DEF Start, Wait, Checkpoint, RequestStop, Stop, Complete, Fail, Cancel
<1> QED BY <1>1, <1>2, <1>4, <1>5, <1>6, <1>7, <1>8, <1>9, <1>10, <1>11, <1>12 DEF Next

\* What stays of the chain, and what is new.
LEMMA Grows ==
  ASSUME TypeInv, NEW type \in Types, NEW data \in Data, NEW proj \in Projection,
         Appended(type, data, proj)
  PROVE  /\ Len(chain) \in Nat /\ Len(chain)' = Len(chain) + 1 /\ Len(chain)' \in 1..MaxEvents
         /\ Places' = Places \union {Len(chain) + 1} /\ Len(chain) + 1 \notin Places
         /\ \A i \in Places : i \in Nat /\ i < Len(chain) + 1 /\ chain'[i] = chain[i]
         /\ chain'[Len(chain) + 1].type = type /\ chain'[Len(chain) + 1].data = data
         /\ chain'[Len(chain) + 1].proj = proj /\ Run' = proj
         /\ chain' \in Seq(Event)
<1> DEFINE e == [type |-> type, data |-> data, proj |-> proj]
<1>1. chain \in Seq(Event) /\ Len(chain) \in 1..MaxEvents /\ Len(chain) < MaxEvents
  BY LastEvent DEF TypeInv, Appended
<1>2. e \in Event /\ e.type = type /\ e.data = data /\ e.proj = proj
  BY DEF Event
<1>3. chain' = Append(chain, e)
  BY DEF Appended
<1> HIDE DEF e
<1>4. /\ Len(chain') = Len(chain) + 1
      /\ \A i \in 1..Len(chain) : chain'[i] = chain[i]
      /\ chain'[Len(chain) + 1] = e
      /\ chain' \in Seq(Event)
  BY <1>1, <1>2, <1>3
<1>5. Len(chain) \in Nat /\ Len(chain)' = Len(chain) + 1 /\ Len(chain)' \in 1..MaxEvents
  BY <1>1, <1>4
<1>6. Places' = Places \union {Len(chain) + 1} /\ Len(chain) + 1 \notin Places
  BY <1>5 DEF Places
<1>7. \A i \in Places : i \in Nat /\ i < Len(chain) + 1 /\ chain'[i] = chain[i]
  BY <1>1, <1>4 DEF Places
<1>8. Run' = proj
  BY <1>2, <1>4, <1>5 DEF Last, Run
<1> QED BY <1>2, <1>4, <1>5, <1>6, <1>7, <1>8

\* The events of a type: those there were, and the new one if it is of that type.
LEMMA AtGrows ==
  ASSUME TypeInv, NEW type \in Types, NEW data \in Data, NEW proj \in Projection,
         Appended(type, data, proj), NEW k
  PROVE  /\ At(k) \subseteq Places /\ At(k)' \subseteq Places'
         /\ At(k)' = IF k = type THEN At(k) \union {Len(chain) + 1} ELSE At(k)
<1>1. /\ Places' = Places \union {Len(chain) + 1}
      /\ \A i \in Places : chain'[i] = chain[i]
      /\ chain'[Len(chain) + 1].type = type
  BY Grows
<1> QED BY <1>1 DEF At

-----------------------------------------------------------------------------
(***************************************************************************)
(* Types.                                                                  *)
(***************************************************************************)
LEMMA InitTypes ==
  ASSUME Init
  PROVE  TypeInv
<1>1. PICK policy \in BOOLEAN : chain = <<Created(policy)>>
  BY DEF Init
<1>2. Created(policy).proj \in Projection
  BY DEF Created, Projection, Ref, Gates, Preparing
<1>3. /\ Created(policy).proj.stopped = None /\ Created(policy).proj.final = None
      /\ Created(policy).proj.checkpoint = None
  BY DEF Created
<1>4. Created(policy) \in Event
  <2>1. NoData \in Data
    BY DataType
  <2> QED BY <1>2, <2>1 DEF Created, Event, Types
<1>5. Len(chain) = 1 /\ chain[1] = Created(policy) /\ chain \in Seq(Event)
  BY <1>1, <1>4
<1>6. Places = {1} /\ Len(chain) \in 1..MaxEvents
  BY <1>5 DEF Places
<1> QED BY <1>2, <1>3, <1>5, <1>6 DEF TypeInv, TypeOK

LEMMA TypeStep ==
  ASSUME TypeInv, NEW type \in Types, NEW data \in Data, NEW proj \in Projection,
         Appended(type, data, proj), Changes(type, data, proj)
  PROVE  TypeInv'
<1> DEFINE n == Len(chain) + 1
<1>1. /\ Places' = Places \union {n} /\ \A i \in Places : chain'[i] = chain[i]
      /\ chain'[n].proj = proj /\ Len(chain)' \in 1..MaxEvents /\ chain' \in Seq(Event)
      /\ n = Len(chain)'
  BY Grows
<1>2. /\ At("report.finalized") \subseteq At("report.finalized")'
      /\ At("run.checkpointed") \subseteq At("run.checkpointed")'
      /\ type = "report.finalized" => n \in At("report.finalized")'
  BY AtGrows
<1>3. /\ Len(chain) \in Places /\ Run = chain[Len(chain)].proj /\ Last = chain[Len(chain)]
      /\ {Run.stopped, Run.final} \subseteq {None} \union At("report.finalized")
      /\ Run.checkpoint \in {None} \union At("run.checkpointed")
  BY LastEvent DEF TypeInv, TypeOK
<1>4. {proj.stopped, proj.final} \subseteq {None} \union At("report.finalized")'
  BY <1>2, <1>3 DEF Changes
<1>5. proj.checkpoint \in {None} \union At("run.checkpointed")'
  <2>1. Last.type = "run.checkpointed" => Len(chain) \in At("run.checkpointed")
    BY <1>3 DEF At
  <2> QED BY <1>2, <1>3, <2>1 DEF Changes
<1>6. ASSUME NEW i \in Places'
      PROVE  /\ chain'[i].proj \in Projection
             /\ {chain'[i].proj.stopped, chain'[i].proj.final} \subseteq {None} \union At("report.finalized")'
             /\ chain'[i].proj.checkpoint \in {None} \union At("run.checkpointed")'
  <2>1. CASE i = n
    BY <1>1, <1>4, <1>5, <2>1
  <2>2. CASE i \in Places
    <3>1. /\ chain[i].proj \in Projection
          /\ {chain[i].proj.stopped, chain[i].proj.final} \subseteq {None} \union At("report.finalized")
          /\ chain[i].proj.checkpoint \in {None} \union At("run.checkpointed")
      BY <2>2 DEF TypeInv, TypeOK
    <3> QED BY <1>1, <1>2, <2>2, <3>1
  <2> QED BY <1>1, <1>6, <2>1, <2>2
<1> QED BY <1>1, <1>6 DEF TypeInv, TypeOK

\* The chain is well formed, and every event refers to what came before it.
THEOREM TypeCorrect == Spec => []TypeOK
<1>1. Init => TypeInv
  BY InitTypes
<1>2. TypeInv /\ [Next]_chain => TypeInv'
  <2> SUFFICES ASSUME TypeInv, [Next]_chain PROVE TypeInv'
    OBVIOUS
  <2>1. CASE Next
    BY <2>1, NextRecords, TypeStep DEF Recorded
  <2>2. CASE UNCHANGED chain
    BY <2>2 DEF TypeInv, TypeOK, Places, At
  <2> QED BY <2>1, <2>2
<1>3. TypeInv => TypeOK
  BY DEF TypeInv
<1> QED BY <1>1, <1>2, <1>3, PTL DEF Spec

-----------------------------------------------------------------------------
(***************************************************************************)
(* The newest checkpoint.                                                  *)
(***************************************************************************)
\* The checkpoint of the projection is the newest that was finalized.
CheckpointInv ==
  \A j \in At("checkpoint.finalized") : chain[j].data.ref <= Run.checkpoint

LEMMA CheckpointStep ==
  ASSUME TypeInv, CheckpointInv, ResumesNewest,
         NEW type \in Types, NEW data \in Data, NEW proj \in Projection,
         Appended(type, data, proj), Changes(type, data, proj)
  PROVE  CheckpointInv' /\ ResumesNewest'
<1> DEFINE n == Len(chain) + 1
           C == At("checkpoint.finalized")
           R == At("run.resumed")
<1>1. /\ Places' = Places \union {n} /\ \A i \in Places : i < n /\ i \in Nat /\ chain'[i] = chain[i]
      /\ chain'[n].data = data /\ Run' = proj /\ Len(chain) \in Nat
  BY Grows
<1>2. /\ C \subseteq Places /\ C' = IF type = "checkpoint.finalized" THEN C \union {n} ELSE C
      /\ R \subseteq Places /\ R' = IF type = "run.resumed" THEN R \union {n} ELSE R
  BY AtGrows
<1>3. /\ Run.checkpoint \in Nat /\ Run.checkpoint <= Len(chain)
      /\ \A j \in Places : chain[j].data.ref \in Nat
  <2>1. Run.checkpoint \in {None} \union At("run.checkpointed")
    BY LastEvent DEF TypeInv, TypeOK
  <2>2. At("run.checkpointed") \subseteq 1..Len(chain)
    BY DEF At, Places
  <2>3. \A j \in Places : chain[j].data.ref \in Nat
    BY LastEvent DEF Event, Data
  <2> QED BY <1>1, <2>1, <2>2, <2>3
<1>4. Run.checkpoint <= proj.checkpoint /\ proj.checkpoint \in Nat
  BY <1>1, <1>3 DEF Changes
<1>5. ASSUME NEW j \in C' PROVE chain'[j].data.ref <= proj.checkpoint
  <2>1. CASE j \in C
    <3>1. chain[j].data.ref <= Run.checkpoint /\ chain[j].data.ref \in Nat /\ chain'[j] = chain[j]
      BY <1>1, <1>2, <1>3, <2>1 DEF CheckpointInv
    <3> QED BY <1>3, <1>4, <3>1
  <2>2. CASE j = n /\ type = "checkpoint.finalized"
    BY <1>1, <1>4, <2>2 DEF Changes
  <2> QED BY <1>2, <1>5, <2>1, <2>2
<1>6. ASSUME NEW i \in R', NEW j \in C', j < i
      PROVE  chain'[j].data.ref <= chain'[i].data.ref
  <2>1. CASE i \in R
    <3>1. i < n /\ n \in Nat /\ i \in Nat
      BY <1>1, <1>2, <2>1
    <3>2. j # n
      BY <1>6, <3>1
    <3>3. j \in C
      BY <1>2, <1>6, <3>2
    <3> QED BY <1>1, <1>2, <1>6, <2>1, <3>3 DEF ResumesNewest
  <2>2. CASE i = n /\ type = "run.resumed"
    <3>1. j \in C
      BY <1>2, <1>6, <2>2
    <3>2. chain[j].data.ref <= Run.checkpoint /\ chain'[j] = chain[j]
      BY <1>1, <1>2, <3>1 DEF CheckpointInv
    <3>3. chain'[i].data.ref = Run.checkpoint
      BY <1>1, <2>2 DEF Changes
    <3> QED BY <3>2, <3>3
  <2> QED BY <1>2, <1>6, <2>1, <2>2
<1>7. CheckpointInv'
  BY <1>1, <1>5 DEF CheckpointInv
<1>8. ResumesNewest'
  BY <1>6 DEF ResumesNewest
<1> QED BY <1>7, <1>8

-----------------------------------------------------------------------------
(***************************************************************************)
(* Leases and ends.                                                        *)
(***************************************************************************)
Acquired == At("lease.acquired")
Released == At("lease.released")

\* The lease acquired last is held, or it has been given back.
LeaseInv ==
  \A a \in Acquired :
    /\ chain[a].data.ref # None
    /\ (\A b \in Acquired : b <= a) =>
         \/ Run.lease = chain[a].data.ref
         \/ /\ Run.lease = None
            /\ \E j \in Released : a < j /\ chain[j].data.ref = chain[a].data.ref

\* The lease held at the event t is still held or was given back after it; when
\* none was held there, the one before was given back before it.
Settled(t) ==
  /\ chain[t].proj.lease # None =>
       \/ Run.lease = chain[t].proj.lease
       \/ \E j \in Released : t < j /\ chain[j].data.ref = chain[t].proj.lease
  /\ chain[t].proj.lease = None =>
       \A a \in Acquired :
         a < t /\ (\A b \in Acquired : b < t => b <= a) =>
           \E j \in Released : a < j /\ j < t /\ chain[j].data.ref = chain[a].data.ref

\* A closed run has the event that closed it.
CloseInv == Run.status \in Closing => \E t \in Places : Closes(t) /\ Settled(t)

\* What has ended stays ended, under the lease it ended with or none.
EndInv ==
  \A t \in Places :
    chain[t].proj.status \in Terminal =>
      /\ Run.status \in Terminal
      /\ Run.lease = None \/ (Run.lease = chain[t].proj.lease /\ \A j \in Released : j <= t)

FinalInv == Run.final # None => Run.status \in Terminal /\ Run.lease = None

BusyInv == Run.status \in {"allocated", "running", "stopping"} => Run.lease # None

\* The events after which a run is closed.
LEMMA ClosingRows ==
  ASSUME NEW type, NEW from, NEW to, <<type, from, to>> \in Transitions, to \in Closing
  PROVE  \/ type \in {"run.stopped", "run.completed", "run.failed", "run.cancelled"}
         \/ from = to /\ type \notin {"lease.acquired", "run.stopped", "run.completed", "run.failed", "run.cancelled"}
<1>1. \A s : s \in Closing <=> s = "completed" \/ s = "failed" \/ s = "cancelled" \/ s = "stopped"
  BY DEF Closing, Terminal
<1> QED BY <1>1, Rows

\* The events of a run that has ended.
LEMMA EndRows ==
  ASSUME NEW type, NEW from, NEW to, <<type, from, to>> \in Transitions, from \in Terminal
  PROVE  to = from /\ type \in {"report.finalized", "lease.released"}
<1>1. \A s : s \in Terminal <=> s = "completed" \/ s = "failed" \/ s = "cancelled"
  BY DEF Terminal
<1> QED BY <1>1, Rows DEF Resumable

\* The events after which a run is at work.
LEMMA BusyRows ==
  ASSUME NEW type, NEW from, NEW to, <<type, from, to>> \in Transitions,
         to \in {"allocated", "running", "stopping"}
  PROVE  \/ type = "lease.acquired" /\ to = "allocated"
         \/ /\ type \notin {"lease.acquired", "lease.released"}
            /\ from \in {"allocated", "running"} /\ to \in {"running", "stopping"}
<1>1. \A s : s \in Closing <=> s = "completed" \/ s = "failed" \/ s = "cancelled" \/ s = "stopped"
  BY DEF Closing, Terminal
<1> QED BY <1>1, Rows

LEMMA LeaseStep ==
  ASSUME TypeInv, LeaseInv,
         NEW type \in Types, NEW data \in Data, NEW proj \in Projection,
         Appended(type, data, proj), Changes(type, data, proj)
  PROVE  LeaseInv'
<1> DEFINE n == Len(chain) + 1
<1>1. /\ Places' = Places \union {n} /\ \A i \in Places : i < n /\ i \in Nat /\ chain'[i] = chain[i]
      /\ chain'[n].data = data /\ Run' = proj /\ n \in Nat
  BY Grows
<1>2. /\ Acquired \subseteq Places /\ Acquired' = IF type = "lease.acquired" THEN Acquired \union {n} ELSE Acquired
      /\ Released \subseteq Places /\ Released' = IF type = "lease.released" THEN Released \union {n} ELSE Released
  BY AtGrows DEF Acquired, Released
<1>3. type = "lease.acquired" => data.ref # None /\ proj.lease = data.ref
  <2>1. Len(chain) < MaxEvents
    BY DEF Appended
  <2> QED BY <2>1, NextLeaseType DEF Changes
<1>4. ASSUME NEW a \in Acquired'
      PROVE  /\ chain'[a].data.ref # None
             /\ (\A b \in Acquired' : b <= a) =>
                  \/ proj.lease = chain'[a].data.ref
                  \/ /\ proj.lease = None
                     /\ \E j \in Released' : a < j /\ chain'[j].data.ref = chain'[a].data.ref
  <2>1. CASE type = "lease.acquired" /\ a = n
    BY <1>1, <1>3, <2>1
  <2>2. CASE type = "lease.acquired" /\ a # n
    <3>1. a \in Acquired /\ n \in Acquired' /\ ~(n <= a)
      BY <1>1, <1>2, <1>4, <2>2
    <3> QED BY <1>1, <1>2, <3>1 DEF LeaseInv
  <2>3. CASE type # "lease.acquired"
    <3>1. a \in Acquired /\ Acquired' = Acquired /\ chain'[a] = chain[a] /\ chain[a].data.ref # None
      BY <1>1, <1>2, <1>4, <2>3 DEF LeaseInv
    <3>2. ASSUME \A b \in Acquired : b <= a
          PROVE  \/ proj.lease = chain[a].data.ref
                 \/ /\ proj.lease = None
                    /\ \E j \in Released' : a < j /\ chain'[j].data.ref = chain[a].data.ref
      <4>1. CASE type = "lease.released"
        <5>1. Run.lease = chain[a].data.ref /\ data.ref = Run.lease /\ proj.lease = None
          BY <3>1, <3>2, <4>1 DEF LeaseInv, Changes
        <5>2. n \in Released' /\ a < n /\ chain'[n].data.ref = chain[a].data.ref
          BY <1>1, <1>2, <3>1, <4>1, <5>1
        <5> QED BY <5>1, <5>2
      <4>2. CASE type # "lease.released"
        <5>1. proj.lease = Run.lease /\ Released' = Released
          BY <1>2, <2>3, <4>2 DEF Changes
        <5>2. \A j \in Released : chain'[j] = chain[j]
          BY <1>1, <1>2
        <5> QED BY <3>1, <3>2, <5>1, <5>2 DEF LeaseInv
      <4> QED BY <4>1, <4>2
    <3> QED BY <3>1, <3>2
  <2> QED BY <2>1, <2>2, <2>3
<1> QED BY <1>1, <1>4 DEF LeaseInv

LEMMA CloseStep ==
  ASSUME TypeInv, LeaseInv, CloseInv,
         NEW type \in Types, NEW data \in Data, NEW proj \in Projection,
         Appended(type, data, proj), Changes(type, data, proj)
  PROVE  CloseInv'
<1>0. PICK n : n = Len(chain) + 1
  OBVIOUS
<1>1. /\ Places' = Places \union {n} /\ \A i \in Places : i < n /\ i \in Nat /\ chain'[i] = chain[i]
      /\ chain'[n].type = type /\ chain'[n].data = data /\ chain'[n].proj = proj
      /\ Run' = proj /\ n \in Nat
  BY <1>0, Grows
<1>2. /\ Acquired \subseteq Places /\ Acquired' = IF type = "lease.acquired" THEN Acquired \union {n} ELSE Acquired
      /\ Released \subseteq Places /\ Released' = IF type = "lease.released" THEN Released \union {n} ELSE Released
  BY <1>0, AtGrows DEF Acquired, Released
<1>3. SUFFICES ASSUME proj.status \in Closing PROVE \E t \in Places' : Closes(t)' /\ Settled(t)'
  BY <1>1 DEF CloseInv
<1>4. <<type, Run.status, proj.status>> \in Transitions
  BY DEF Appended
<1>5. CASE type \in {"run.stopped", "run.completed", "run.failed", "run.cancelled"}
  <2>1. Closes(n)'
    BY <1>1, <1>5 DEF Closes
  <2>2. proj.lease = Run.lease /\ Acquired' = Acquired /\ Released' = Released
    BY <1>2, <1>5 DEF Changes
  <2>3. ASSUME proj.lease = None, NEW a \in Acquired, \A b \in Acquired : b < n => b <= a
        PROVE  \E j \in Released : a < j /\ j < n /\ chain[j].data.ref = chain[a].data.ref
    <3>1. \A b \in Acquired : b <= a
      BY <1>1, <1>2, <2>3
    <3>2. \E j \in Released : a < j /\ chain[j].data.ref = chain[a].data.ref
      BY <2>2, <2>3, <3>1 DEF LeaseInv
    <3> QED BY <1>1, <1>2, <3>2
  <2>4. \A i \in Acquired \union Released : chain'[i] = chain[i]
    BY <1>1, <1>2
  <2>5. Settled(n)'
    BY <1>1, <2>2, <2>3, <2>4 DEF Settled
  <2> QED BY <1>1, <2>1, <2>5
<1>6. CASE /\ Run.status = proj.status
           /\ type \notin {"lease.acquired", "run.stopped", "run.completed", "run.failed", "run.cancelled"}
  <2>1. PICK t \in Places : Closes(t) /\ Settled(t)
    BY <1>3, <1>6 DEF CloseInv
  <2>2. t \in Places' /\ chain'[t] = chain[t] /\ t < n /\ t \in Nat
    BY <1>1
  <2>3. Closes(t)'
    BY <1>1, <1>6, <2>1, <2>2 DEF Closes
  <2>4. Acquired' = Acquired /\ \A i \in Acquired \union Released : chain'[i] = chain[i]
    BY <1>1, <1>2, <1>6
  <2>5. ASSUME chain[t].proj.lease # None
        PROVE  \/ proj.lease = chain[t].proj.lease
               \/ \E j \in Released' : t < j /\ chain'[j].data.ref = chain[t].proj.lease
    <3>1. CASE Run.lease = chain[t].proj.lease
      <4>1. CASE type = "lease.released"
        <5>1. n \in Released' /\ t < n /\ chain'[n].data.ref = chain[t].proj.lease
          BY <1>1, <1>2, <2>2, <3>1, <4>1 DEF Changes
        <5> QED BY <5>1
      <4>2. CASE type # "lease.released"
        BY <1>6, <3>1, <4>2 DEF Changes
      <4> QED BY <4>1, <4>2
    <3>2. CASE \E j \in Released : t < j /\ chain[j].data.ref = chain[t].proj.lease
      BY <1>2, <2>4, <3>2
    <3> QED BY <2>1, <2>5, <3>1, <3>2 DEF Settled
  <2>6. ASSUME chain[t].proj.lease = None, NEW a \in Acquired, a < t, \A b \in Acquired : b < t => b <= a
        PROVE  \E j \in Released' : a < j /\ j < t /\ chain'[j].data.ref = chain'[a].data.ref
    <3>1. \E j \in Released : a < j /\ j < t /\ chain[j].data.ref = chain[a].data.ref
      BY <2>1, <2>6 DEF Settled
    <3> QED BY <1>2, <2>4, <3>1
  <2>7. Settled(t)'
    BY <1>1, <2>2, <2>4, <2>5, <2>6 DEF Settled
  <2> QED BY <2>2, <2>3, <2>7
<1> QED BY <1>3, <1>4, <1>5, <1>6, ClosingRows

LEMMA EndStep ==
  ASSUME TypeInv, EndInv,
         NEW type \in Types, NEW data \in Data, NEW proj \in Projection,
         Appended(type, data, proj), Changes(type, data, proj)
  PROVE  EndInv'
<1> DEFINE n == Len(chain) + 1
<1>1. /\ Places' = Places \union {n} /\ \A i \in Places : i < n /\ i \in Nat /\ chain'[i] = chain[i]
      /\ chain'[n].proj = proj /\ Run' = proj /\ n \in Nat
  BY Grows
<1>2. Released \subseteq Places /\ Released' = IF type = "lease.released" THEN Released \union {n} ELSE Released
  BY AtGrows DEF Released
<1>3. ASSUME NEW t \in Places', chain'[t].proj.status \in Terminal
      PROVE  /\ proj.status \in Terminal
             /\ proj.lease = None \/ (proj.lease = chain'[t].proj.lease /\ \A j \in Released' : j <= t)
  <2>1. CASE t = n
    BY <1>1, <1>2, <1>3, <2>1
  <2>2. CASE t \in Places
    <3>1. /\ chain'[t] = chain[t] /\ Run.status \in Terminal
          /\ Run.lease = None \/ (Run.lease = chain[t].proj.lease /\ \A j \in Released : j <= t)
      BY <1>1, <1>3, <2>2 DEF EndInv
    <3>2. proj.status = Run.status /\ type \in {"report.finalized", "lease.released"}
      BY <3>1, EndRows DEF Appended
    <3>3. CASE type = "lease.released"
      BY <3>1, <3>2, <3>3 DEF Changes
    <3>4. CASE type = "report.finalized"
      <4>1. proj.lease = Run.lease /\ Released' = Released
        BY <1>2, <3>4 DEF Changes
      <4> QED BY <3>1, <3>2, <4>1
    <3> QED BY <3>2, <3>3, <3>4
  <2> QED BY <1>1, <1>3, <2>1, <2>2
<1> QED BY <1>1, <1>3 DEF EndInv

LEMMA BusyStep ==
  ASSUME TypeInv, BusyInv,
         NEW type \in Types, NEW data \in Data, NEW proj \in Projection,
         Appended(type, data, proj), Changes(type, data, proj)
  PROVE  BusyInv'
<1>1. Run' = proj /\ <<type, Run.status, proj.status>> \in Transitions /\ Len(chain) < MaxEvents
  BY Grows DEF Appended
<1>2. ASSUME proj.status \in {"allocated", "running", "stopping"} PROVE proj.lease # None
  <2>1. CASE type = "lease.acquired"
    BY <1>1, <2>1, NextLeaseType DEF Changes
  <2>2. CASE type # "lease.acquired"
    BY <1>1, <1>2, <2>2, BusyRows DEF Changes, BusyInv
  <2> QED BY <2>1, <2>2
<1> QED BY <1>1, <1>2 DEF BusyInv

\* The report of a run that has ended finds the lease given back.
LEMMA ReportUnleased ==
  ASSUME TypeInv, EndInv, Run.status \in Terminal, NEW t \in Places, Closes(t), ReleasedFor(t)
  PROVE  Run.lease = None
<1>1. chain[t].proj.status \in Terminal
  BY DEF Closes
<1>2. Run.lease = None \/ (Run.lease = chain[t].proj.lease /\ \A j \in Released : j <= t)
  BY <1>1 DEF EndInv
<1>3. CASE chain[t].proj.lease # None
  <2>1. \E j \in Released : j > t
    BY <1>3 DEF ReleasedFor, Released
  <2>2. Released \subseteq Nat /\ t \in Nat
    BY DEF Released, At, Places
  <2> QED BY <1>2, <2>1, <2>2
<1>4. CASE chain[t].proj.lease = None
  BY <1>2, <1>4
<1> QED BY <1>3, <1>4

LEMMA FinalStep ==
  ASSUME TypeInv, EndInv, FinalInv,
         NEW type \in Types, NEW data \in Data, NEW proj \in Projection,
         Appended(type, data, proj), Changes(type, data, proj)
  PROVE  FinalInv'
<1>1. Run' = proj /\ <<type, Run.status, proj.status>> \in Transitions
  BY Grows DEF Appended
<1>2. CASE Run.final # None
  <2>1. Run.status \in Terminal /\ Run.lease = None
    BY <1>2 DEF FinalInv
  <2>2. proj.status = Run.status /\ type \in {"report.finalized", "lease.released"}
    BY <1>1, <2>1, EndRows
  <2> QED BY <1>1, <2>1, <2>2 DEF FinalInv, Changes
<1>3. CASE Run.final = None /\ proj.final # None
  <2>1. type = "report.finalized"
    BY <1>3 DEF Changes
  <2>2. PICK t \in Places : Closes(t) /\ ReleasedFor(t) /\ Run.status \in Terminal
    BY <1>3, <2>1 DEF Changes
  <2>3. Run.lease = None /\ proj.lease = Run.lease /\ proj.status = Run.status
    BY <1>1, <2>1, <2>2, ReportUnleased, EndRows DEF Changes
  <2> QED BY <1>1, <2>2, <2>3 DEF FinalInv
<1> QED BY <1>1, <1>2, <1>3 DEF FinalInv

-----------------------------------------------------------------------------
(***************************************************************************)
(* Epochs: leases are acquired in the order of their epochs, each after    *)
(* the one before it was given back.                                       *)
(***************************************************************************)
Begun == {"allocated", "running"}

EpochInv ==
  /\ \A y \in Places : chain[y].proj.lease <= Cardinality(At("lease.acquired"))
  /\ \A x \in Acquired : chain[x].data.ref <= Cardinality(At("lease.acquired"))
  /\ \A x \in Acquired, y \in Places : y < x => chain[y].proj.lease < chain[x].data.ref
  /\ \A x \in Acquired, y \in Places :
       x <= y => chain[y].proj.lease = None \/ chain[x].data.ref <= chain[y].proj.lease
  /\ \A x \in Acquired, j \in Released : x < j => chain[x].data.ref <= chain[j].data.ref
  /\ Run.lease = None => \A x \in Acquired : \E j \in Released : x < j
  /\ \A x, y \in Acquired : x < y => \E j \in Released : x < j /\ j < y

\* Nothing is worked on after a pause but by an attempt acquired after it.
WorkInv ==
  /\ \A x \in Places :
       /\ chain[x].type = "run.checkpointed" => chain[x].proj.status = "checkpointed"
       /\ chain[x].type = "lease.acquired" => chain[x].proj.status = "allocated"
  /\ \A x, k \in Places :
       x < k /\ chain[x].proj.status \notin Begun /\ chain[k].proj.status \in Begun =>
         \E i \in Acquired : x < i /\ i <= k

\* The number of attempts.
LEMMA Attempts ==
  ASSUME TypeInv, NEW type \in Types, NEW data \in Data, NEW proj \in Projection,
         Appended(type, data, proj)
  PROVE  Cardinality(At("lease.acquired"))' =
           IF type = "lease.acquired" THEN Cardinality(At("lease.acquired")) + 1
           ELSE Cardinality(At("lease.acquired"))
<1> DEFINE A == At("lease.acquired")
           n == Len(chain) + 1
<1>1. IsFiniteSet(A)
  BY NextLeaseType DEF Appended
<1>2. A \subseteq Places /\ At("lease.acquired")' = IF type = "lease.acquired" THEN A \union {n} ELSE A
  BY AtGrows
<1>3. n \notin A
  BY <1>2, Grows
<1>4. Cardinality(A \union {n}) = IF n \in A THEN Cardinality(A) ELSE Cardinality(A) + 1
  <2> HIDE DEF A, n
  <2> QED BY <1>1, FS_AddElement, Zenon
<1> QED BY <1>2, <1>3, <1>4

LEMMA EpochStep ==
  ASSUME TypeInv, EpochInv,
         NEW type \in Types, NEW data \in Data, NEW proj \in Projection,
         Appended(type, data, proj), Changes(type, data, proj)
  PROVE  EpochInv'
<1>0. PICK n, c, d : /\ n = Len(chain) + 1 /\ c = Cardinality(At("lease.acquired"))
                     /\ d = Cardinality(At("lease.acquired"))'
  OBVIOUS
<1>1. /\ Places' = Places \union {n} /\ \A i \in Places : i < n /\ i \in Nat /\ chain'[i] = chain[i]
      /\ chain'[n].data = data /\ chain'[n].proj = proj /\ Run' = proj /\ n \in Nat
  BY <1>0, Grows
<1>2. /\ Acquired \subseteq Places /\ Acquired' = IF type = "lease.acquired" THEN Acquired \union {n} ELSE Acquired
      /\ Released \subseteq Places /\ Released' = IF type = "lease.released" THEN Released \union {n} ELSE Released
  BY <1>0, AtGrows DEF Acquired, Released
<1>3. c \in Nat /\ d = IF type = "lease.acquired" THEN c + 1 ELSE c
  <2>1. Len(chain) < MaxEvents
    BY DEF Appended
  <2>2. c \in Nat
    BY <1>0, <2>1, NextLeaseType
  <2> QED BY <1>0, <2>2, Attempts
<1>4. /\ \A y \in Places : chain[y].proj.lease \in Nat /\ chain[y].data.ref \in Nat
      /\ proj.lease \in Nat /\ data.ref \in Nat
  <2>1. \A y \in Places : chain[y] \in Event
    BY LastEvent
  <2>2. \A q \in Projection : q.lease \in Nat
    BY DEF Projection, Ref
  <2>3. \A q \in Data : q.ref \in Nat
    BY DEF Data
  <2> QED BY <2>1, <2>2, <2>3 DEF Event
<1>5. n - 1 \in Places /\ Run = chain[n - 1].proj
  BY <1>0, <1>1, LastEvent, Grows
<1>6. /\ \A y \in Places : chain[y].proj.lease <= c
      /\ \A x \in Acquired : chain[x].data.ref <= c
  BY <1>0 DEF EpochInv
<1>7. /\ type = "lease.acquired" => Run.lease = None /\ proj.lease = d /\ data.ref = d
      /\ type = "lease.released" => Run.lease # None /\ proj.lease = None /\ data.ref = Run.lease
      /\ type \notin {"lease.acquired", "lease.released"} => proj.lease = Run.lease
  BY <1>0, <1>3 DEF Changes, NextLease
<1>8. \A x \in Acquired : Run.lease = None \/ chain[x].data.ref <= Run.lease
  BY <1>1, <1>2, <1>5 DEF EpochInv
<1>11. ASSUME NEW y \in Places' PROVE chain'[y].proj.lease <= d
  BY <1>1, <1>3, <1>4, <1>5, <1>6, <1>7, <1>11
<1>12. ASSUME NEW x \in Acquired' PROVE chain'[x].data.ref <= d
  BY <1>1, <1>2, <1>3, <1>4, <1>6, <1>7, <1>12
<1>13. ASSUME NEW x \in Acquired', NEW y \in Places', y < x
       PROVE  chain'[y].proj.lease < chain'[x].data.ref
  <2>1. CASE x \in Acquired
    <3>1. y \in Places
      BY <1>1, <1>2, <1>13, <2>1
    <3> QED BY <1>1, <1>2, <1>13, <2>1, <3>1 DEF EpochInv
  <2>2. CASE x = n /\ type = "lease.acquired"
    <3>1. y \in Places
      BY <1>1, <1>13, <2>2
    <3> QED BY <1>1, <1>3, <1>4, <1>6, <1>7, <2>2, <3>1
  <2> QED BY <1>2, <1>13, <2>1, <2>2
<1>14. ASSUME NEW x \in Acquired', NEW y \in Places', x <= y
       PROVE  chain'[y].proj.lease = None \/ chain'[x].data.ref <= chain'[y].proj.lease
  <2>1. CASE y \in Places
    <3>1. x \in Acquired
      BY <1>1, <1>2, <1>14, <2>1
    <3> QED BY <1>1, <1>2, <1>14, <2>1, <3>1 DEF EpochInv
  <2>2. CASE y = n /\ type = "lease.acquired"
    <3>1. chain'[x].data.ref <= d
      BY <1>12
    <3> QED BY <1>1, <1>7, <2>2, <3>1
  <2>3. CASE y = n /\ type # "lease.acquired"
    <3>1. x \in Acquired /\ chain'[x] = chain[x]
      BY <1>1, <1>2, <2>3
    <3> QED BY <1>1, <1>7, <1>8, <2>3, <3>1
  <2> QED BY <1>1, <1>14, <2>1, <2>2, <2>3
<1>15. ASSUME NEW x \in Acquired', NEW j \in Released', x < j
       PROVE  chain'[x].data.ref <= chain'[j].data.ref
  <2>1. CASE j \in Released
    <3>1. x \in Acquired
      BY <1>1, <1>2, <1>15, <2>1
    <3> QED BY <1>1, <1>2, <1>15, <2>1, <3>1 DEF EpochInv
  <2>2. CASE j = n /\ type = "lease.released"
    <3>1. x \in Acquired
      BY <1>2, <2>2
    <3> QED BY <1>1, <1>2, <1>7, <1>8, <2>2, <3>1
  <2> QED BY <1>2, <1>15, <2>1, <2>2
<1>16. ASSUME proj.lease = None, NEW x \in Acquired' PROVE \E j \in Released' : x < j
  <2>1. type # "lease.acquired"
    BY <1>3, <1>7, <1>16
  <2>2. x \in Acquired
    BY <1>2, <1>16, <2>1
  <2>3. CASE type = "lease.released"
    BY <1>1, <1>2, <2>2, <2>3
  <2>4. CASE type # "lease.released"
    <3>1. Run.lease = None /\ Released' = Released
      BY <1>2, <1>7, <1>16, <2>1, <2>4
    <3> QED BY <2>2, <3>1 DEF EpochInv
  <2> QED BY <2>3, <2>4
<1>17. ASSUME NEW x \in Acquired', NEW y \in Acquired', x < y
       PROVE  \E j \in Released' : x < j /\ j < y
  <2>1. CASE y \in Acquired
    <3>1. x \in Acquired
      BY <1>1, <1>2, <1>17, <2>1
    <3>2. \E j \in Released : x < j /\ j < y
      BY <1>17, <2>1, <3>1 DEF EpochInv
    <3> QED BY <1>2, <3>2
  <2>2. CASE y = n /\ type = "lease.acquired"
    <3>1. x \in Acquired /\ Released' = Released
      BY <1>1, <1>2, <1>17, <2>2
    <3>2. \E j \in Released : x < j
      BY <1>7, <2>2, <3>1 DEF EpochInv
    <3> QED BY <1>1, <1>2, <2>2, <3>1, <3>2
  <2> QED BY <1>2, <1>17, <2>1, <2>2
<1> QED BY <1>0, <1>1, <1>11, <1>12, <1>13, <1>14, <1>15, <1>16, <1>17 DEF EpochInv

LEMMA WorkStep ==
  ASSUME TypeInv, WorkInv,
         NEW type \in Types, NEW data \in Data, NEW proj \in Projection,
         Appended(type, data, proj), Changes(type, data, proj)
  PROVE  WorkInv'
<1>0. PICK n : n = Len(chain) + 1
  OBVIOUS
<1>1. /\ Places' = Places \union {n} /\ \A i \in Places : i < n /\ i \in Nat /\ chain'[i] = chain[i]
      /\ chain'[n].type = type /\ chain'[n].proj = proj /\ n \in Nat
  BY <1>0, Grows
<1>2. Acquired \subseteq Places /\ Acquired' = IF type = "lease.acquired" THEN Acquired \union {n} ELSE Acquired
  BY <1>0, AtGrows DEF Acquired
<1>3. n - 1 \in Places /\ Run = chain[n - 1].proj
  BY <1>0, <1>1, LastEvent, Grows
<1>4. proj.status \in Begun /\ type # "lease.acquired" => Run.status \in Begun
  BY BusyRows DEF Appended, Begun
<1>5. ASSUME NEW x \in Places', NEW k \in Places',
             x < k, chain'[x].proj.status \notin Begun, chain'[k].proj.status \in Begun
      PROVE  \E i \in Acquired' : x < i /\ i <= k
  <2>1. x \in Places
    BY <1>1, <1>5
  <2>2. CASE k \in Places
    <3>1. \E i \in Acquired : x < i /\ i <= k
      BY <1>1, <1>5, <2>1, <2>2 DEF WorkInv
    <3> QED BY <1>2, <3>1
  <2>3. CASE k = n /\ type = "lease.acquired"
    BY <1>1, <1>2, <2>1, <2>3
  <2>4. CASE k = n /\ type # "lease.acquired"
    <3>1. chain[n - 1].proj.status \in Begun /\ x # n - 1
      BY <1>1, <1>3, <1>4, <1>5, <2>1, <2>4
    <3>2. x < n - 1
      BY <1>1, <1>3, <2>1, <3>1
    <3>3. \E i \in Acquired : x < i /\ i <= n - 1
      BY <1>1, <1>3, <1>5, <2>1, <3>1, <3>2 DEF WorkInv
    <3>4. PICK i \in Acquired : x < i /\ i <= n - 1
      BY <3>3
    <3>5. i \in Places /\ i \in Acquired' /\ n \in Int
      BY <1>1, <1>2, <3>4
    <3>6. i \in Int /\ x < i /\ i <= k
      BY <1>1, <2>4, <3>4, <3>5
    <3> QED BY <3>5, <3>6
  <2> QED BY <1>1, <1>5, <2>2, <2>3, <2>4
<1>6. ASSUME NEW x \in Places'
      PROVE  /\ chain'[x].type = "run.checkpointed" => chain'[x].proj.status = "checkpointed"
             /\ chain'[x].type = "lease.acquired" => chain'[x].proj.status = "allocated"
  <2>1. CASE x \in Places
    BY <1>1, <2>1 DEF WorkInv
  <2>2. CASE x = n
    <3>1. <<type, Run.status, proj.status>> \in Transitions
      BY DEF Appended
    <3>2. /\ type = "run.checkpointed" => proj.status = "checkpointed"
          /\ type = "lease.acquired" => proj.status = "allocated"
      BY <3>1, Rows
    <3> QED BY <1>1, <2>2, <3>2
  <2> QED BY <1>1, <1>6, <2>1, <2>2
<1> QED BY <1>1, <1>5, <1>6 DEF WorkInv

\* No preflight lets a resume pass that would leave work out.
LEMMA PreflightRefuses ==
  ASSUME TypeInv, EpochInv, WorkInv,
         NEW c \in Checkpoints, Truthful(c), NEW a \in Arguments, Resuming(a),
         WorkBetween(c.event, a.at), NEW h, Preflight(c, h, a)
  PROVE  FALSE
<1>1. /\ c.event \in Places /\ c.event \in Nat /\ chain[c.event].type = "run.checkpointed"
      /\ a.at \in Places /\ a.at \in Nat /\ c.lease = chain[c.event].proj.lease
  BY DEF Checkpoints, Arguments, At, Places, Truthful
<1>2. PICK k \in (c.event + 1)..(a.at - 1) : chain[k].proj.status = "running"
  BY DEF WorkBetween
<1>3. /\ k \in Places /\ k \in Nat /\ c.event < k /\ k <= a.at - 1
  BY <1>1, <1>2 DEF Places
<1>4. LeasesBound(c, a)
  BY DEF Preflight
<1>5. /\ c.lease = a.prior /\ ReturnedBefore(a.at - 1) = a.prior
      /\ chain[a.at - 1].type = "lease.acquired"
  BY <1>4 DEF LeasesBound, OfPriorAttempt
<1>6. a.at - 1 \in Places /\ a.at - 1 \in Acquired
  BY <1>1, <1>3, <1>5 DEF Places, Acquired, At
<1>7. chain[c.event].proj.status \notin Begun /\ chain[a.at - 1].proj.status = "allocated"
  BY <1>1, <1>5, <1>6 DEF WorkInv, Begun
<1>8. PICK i \in Acquired : c.event < i /\ i <= k
  BY <1>1, <1>2, <1>3, <1>7 DEF WorkInv, Begun
<1>9. i < a.at - 1 /\ i \in Nat
  <2>1. i \in Nat /\ i \in Places
    BY DEF Acquired, At, Places
  <2>2. i # a.at - 1
    BY <1>2, <1>3, <1>7, <1>8, <2>1
  <2> QED BY <1>1, <1>3, <1>8, <2>1, <2>2
<1>10. PICK j \in Released : i < j /\ j < a.at - 1
  BY <1>6, <1>9 DEF EpochInv
<1> DEFINE before == {x \in Released : x < a.at - 1}
<1>11. before \in SUBSET (1..Len(chain)) /\ Len(chain) \in Nat /\ j \in before /\ before \in SUBSET Int
  BY <1>10, LastEvent DEF Released, At, Places
<1>12. PICK m \in before : \A x \in before : x <= m
  <2> HIDE DEF before
  <2> QED BY <1>11, HasMax
<1>13. Max(before) = m
  <2> HIDE DEF before
  <2> QED BY <1>11, <1>12, MaxIs
<1>14. chain[m].data.ref = c.lease
  BY <1>5, <1>13 DEF ReturnedBefore, Released
<1>15. m \in Released /\ i < m
  BY <1>9, <1>10, <1>11, <1>12
<1>16. chain[i].data.ref <= chain[m].data.ref
  BY <1>15 DEF EpochInv
<1>17. chain[c.event].proj.lease < chain[i].data.ref
  BY <1>1, <1>8 DEF EpochInv
<1>18. /\ chain[c.event].proj.lease \in Nat /\ chain[i].data.ref \in Nat /\ chain[m].data.ref \in Nat
  <2>1. \A y \in Places : chain[y].proj.lease \in Nat /\ chain[y].data.ref \in Nat
    <3>1. \A e \in Event : e.data \in Data /\ e.proj \in Projection
      BY DEF Event
    <3>2. \A d \in Data : d.ref \in Nat
      BY DEF Data
    <3>3. \A p \in Projection : p.lease \in Nat
      BY RunChainConstants DEF Projection, Ref
    <3>4. \A y \in Places : chain[y] \in Event
      BY LastEvent
    <3> QED BY <3>1, <3>2, <3>3, <3>4
  <2>2. i \in Places /\ m \in Places
    BY <1>15 DEF Acquired, Released, At
  <2> QED BY <1>1, <2>1, <2>2
<1> QED BY <1>1, <1>14, <1>16, <1>17, <1>18

-----------------------------------------------------------------------------
(***************************************************************************)
(* A resume finds what it needs: the acquisition right before it, with the *)
(* lease that was given back last, and a checkpoint made under that lease  *)
(* unless an attempt has worked since.                                     *)
(***************************************************************************)
\* An attempt begins with its lease and runs at once; between two leases given
\* back one was acquired; what was held is held still or was given back after.
AttemptInv ==
  /\ \A x \in Acquired : chain[x].proj.lease = chain[x].data.ref
  /\ \A x \in Acquired, y \in Places : y = x + 1 => chain[y].proj.status = "running"
  /\ \A i \in Released : Run.lease # None => \E x \in Acquired : i < x
  /\ \A i, j \in Released : i < j => \E x \in Acquired : i < x /\ x < j
  /\ \A y \in Places :
       chain[y].proj.lease # None =>
         \/ Run.lease = chain[y].proj.lease
         \/ \E j \in Released : y < j /\ chain[j].data.ref = chain[y].proj.lease

\* What an acquisition for a resume, and the resume after it, were made with.
ResumeInv ==
  /\ \A j \in At("checkpoint.finalized") : chain[j].data.ref < j
  /\ Last.type = "lease.acquired" /\ Last.data.purpose = "resume" =>
       Released # {} /\ Last.data.previous = Returned
  /\ Last.type = "run.resumed" =>
       /\ Len(chain) - 1 \in Acquired /\ chain[Len(chain) - 1].data.purpose = "resume"
       /\ Released # {} /\ chain[Len(chain) - 1].data.previous = Returned
       /\ Last.data.previous = Returned /\ Last.data.ref = Run.checkpoint
       /\ Finalized(Run.checkpoint) /\ Run.mayResume

\* What an allocated attempt does next.
LEMMA FromAllocated ==
  ASSUME NEW type, NEW to, <<type, "allocated", to>> \in Transitions
  PROVE  to = "running"
<1>1. \A s : s \in Closing <=> s = "completed" \/ s = "failed" \/ s = "cancelled" \/ s = "stopped"
  BY DEF Closing, Terminal
<1> QED BY <1>1, Rows DEF Resumable

\* The release that Returned speaks of.
LEMMA LastReturned ==
  ASSUME TypeInv, Released # {}
  PROVE  \E m \in Released : /\ Max(Released) = m /\ Returned = chain[m].data.ref
                             /\ \A x \in Released : x <= m
<1>1. Len(chain) \in Nat /\ Released \in SUBSET (1..Len(chain)) /\ Released \in SUBSET Int
  BY LastEvent DEF Released, At, Places
<1>2. PICK m \in Released : \A x \in Released : x <= m
  BY <1>1, HasMax
<1>3. Max(Released) = m
  BY <1>1, <1>2, MaxIs
<1> QED BY <1>2, <1>3 DEF Returned, Released

LEMMA AttemptStep ==
  ASSUME TypeInv, WorkInv, BusyInv, AttemptInv,
         NEW type \in Types, NEW data \in Data, NEW proj \in Projection,
         Appended(type, data, proj), Changes(type, data, proj)
  PROVE  AttemptInv'
<1>0. PICK n : n = Len(chain) + 1
  OBVIOUS
<1>1. /\ Places' = Places \union {n} /\ \A i \in Places : i < n /\ i \in Nat /\ chain'[i] = chain[i]
      /\ chain'[n].type = type /\ chain'[n].data = data /\ chain'[n].proj = proj /\ Run' = proj /\ n \in Nat
  BY <1>0, Grows
<1>2. /\ Acquired \subseteq Places /\ Acquired' = IF type = "lease.acquired" THEN Acquired \union {n} ELSE Acquired
      /\ Released \subseteq Places /\ Released' = IF type = "lease.released" THEN Released \union {n} ELSE Released
  BY <1>0, AtGrows DEF Acquired, Released
<1>3. /\ type = "lease.acquired" => Run.lease = None /\ proj.lease = data.ref
      /\ type = "lease.released" => Run.lease # None /\ proj.lease = None /\ data.ref = Run.lease
      /\ type \notin {"lease.acquired", "lease.released"} => proj.lease = Run.lease
  BY DEF Changes
<1>4. \A x \in Acquired' : chain'[x].proj.lease = chain'[x].data.ref
  BY <1>1, <1>2, <1>3 DEF AttemptInv
<1>5. ASSUME NEW x \in Acquired', NEW y \in Places', y = x + 1
      PROVE  chain'[y].proj.status = "running"
  <2>1. CASE y \in Places
    <3>1. y # n /\ x # n /\ x \in Acquired
      BY <1>1, <1>2, <1>5, <2>1
    <3> QED BY <1>1, <1>5, <2>1, <3>1 DEF AttemptInv
  <2>2. CASE y = n
    <3>1. x \in Acquired /\ x = Len(chain) /\ Run = chain[x].proj
      <4>1. Len(chain) \in Nat /\ Run = chain[Len(chain)].proj
        BY LastEvent, Grows
      <4>2. x # n
        BY <1>1, <1>5, <2>2
      <4>3. x \in Acquired /\ x \in Places
        BY <1>2, <4>2
      <4> QED BY <1>0, <1>1, <1>5, <2>2, <4>1, <4>3
    <3>2. Run.status = "allocated"
      <4>1. x \in Places /\ chain[x].type = "lease.acquired"
        BY <3>1 DEF Acquired, At
      <4> QED BY <3>1, <4>1 DEF WorkInv
    <3>3. <<type, "allocated", proj.status>> \in Transitions
      BY <3>2 DEF Appended
    <3>4. proj.status = "running"
      BY <3>3, FromAllocated
    <3> QED BY <1>1, <2>2, <3>4
  <2> QED BY <1>1, <1>5, <2>1, <2>2
<1>6. ASSUME NEW i \in Released', proj.lease # None
      PROVE  \E x \in Acquired' : i < x
  <2>1. type # "lease.released" /\ i \in Released
    BY <1>2, <1>3, <1>6
  <2>2. CASE type = "lease.acquired"
    BY <1>1, <1>2, <2>1, <2>2
  <2>3. CASE type # "lease.acquired"
    <3>1. Run.lease # None
      BY <1>3, <1>6, <2>1, <2>3
    <3> QED BY <1>2, <2>1, <2>3, <3>1 DEF AttemptInv
  <2> QED BY <2>2, <2>3
<1>7. ASSUME NEW i \in Released', NEW j \in Released', i < j
      PROVE  \E x \in Acquired' : i < x /\ x < j
  <2>1. i \in Released
    <3>1. CASE i = n
      BY <1>1, <1>2, <1>7, <3>1
    <3> QED BY <1>2, <3>1
  <2>2. CASE j \in Released
    BY <1>2, <1>7, <2>1, <2>2 DEF AttemptInv
  <2>3. CASE j = n /\ type = "lease.released"
    <3>1. PICK x \in Acquired : i < x
      BY <1>3, <2>1, <2>3 DEF AttemptInv
    <3> QED BY <1>1, <1>2, <2>3, <3>1
  <2> QED BY <1>2, <2>2, <2>3
<1>8. ASSUME NEW y \in Places', chain'[y].proj.lease # None
      PROVE  \/ proj.lease = chain'[y].proj.lease
             \/ \E j \in Released' : y < j /\ chain'[j].data.ref = chain'[y].proj.lease
  <2>1. CASE y = n
    BY <1>1, <2>1
  <2>2. CASE y \in Places /\ \E j \in Released : y < j /\ chain[j].data.ref = chain[y].proj.lease
    BY <1>1, <1>2, <2>2
  <2>3. CASE y \in Places /\ Run.lease = chain[y].proj.lease
    <3>1. chain'[y] = chain[y] /\ y < n /\ Run.lease # None
      BY <1>1, <1>8, <2>3
    <3>2. CASE type = "lease.released"
      <4>1. n \in Released' /\ chain'[n].data.ref = chain'[y].proj.lease
        BY <1>1, <1>2, <1>3, <2>3, <3>1, <3>2
      <4> QED BY <3>1, <4>1
    <3>3. CASE type # "lease.released"
      BY <1>3, <2>3, <3>1, <3>3
    <3> QED BY <3>2, <3>3
  <2>4. y \in Places => chain'[y] = chain[y]
    BY <1>1
  <2> QED BY <1>1, <1>8, <2>1, <2>2, <2>3, <2>4 DEF AttemptInv
<1> QED BY <1>1, <1>4, <1>5, <1>6, <1>7, <1>8 DEF AttemptInv

LEMMA ResumeStep ==
  ASSUME TypeInv, ResumeInv,
         NEW type \in Types, NEW data \in Data, NEW proj \in Projection,
         Appended(type, data, proj), Changes(type, data, proj)
  PROVE  ResumeInv'
<1>0. PICK n : n = Len(chain) + 1
  OBVIOUS
<1>1. /\ Places' = Places \union {n} /\ \A i \in Places : i < n /\ i \in Nat /\ chain'[i] = chain[i]
      /\ chain'[n].type = type /\ chain'[n].data = data /\ chain'[n].proj = proj /\ Run' = proj /\ n \in Nat
      /\ Len(chain)' = n
  BY <1>0, Grows
<1>2. /\ Acquired \subseteq Places /\ Acquired' = IF type = "lease.acquired" THEN Acquired \union {n} ELSE Acquired
      /\ Released \subseteq Places /\ Released' = IF type = "lease.released" THEN Released \union {n} ELSE Released
  BY <1>0, AtGrows DEF Acquired, Released
<1>3. Last'.type = type /\ Last'.data = data
  BY <1>1 DEF Last
<1>4. ASSUME NEW j \in At("checkpoint.finalized")' PROVE chain'[j].data.ref < j
  <2>1. /\ At("checkpoint.finalized") \subseteq Places
        /\ At("checkpoint.finalized")' =
             IF type = "checkpoint.finalized" THEN At("checkpoint.finalized") \union {n}
             ELSE At("checkpoint.finalized")
    BY <1>0, AtGrows
  <2>2. CASE j \in At("checkpoint.finalized")
    BY <1>1, <2>1, <2>2 DEF ResumeInv
  <2>3. CASE type = "checkpoint.finalized" /\ j = n
    <3>1. data.ref = Len(chain) /\ Len(chain) \in Nat
      BY <2>3, Grows DEF Changes
    <3> QED BY <1>0, <1>1, <2>3, <3>1
  <2> QED BY <1>4, <2>1, <2>2, <2>3
<1>5. ASSUME type # "lease.released" PROVE Released' = Released /\ Returned' = Returned
  <2>1. Released' = Released /\ At("lease.released")' = At("lease.released")
    BY <1>2, <1>5 DEF Released
  <2>2. CASE Released = {}
    BY <2>1, <2>2 DEF Returned, Released
  <2>3. CASE Released # {}
    <3>1. PICK m \in Released : Max(Released) = m
      BY <2>3, LastReturned
    <3>2. chain'[m] = chain[m]
      BY <1>1, <1>2
    <3> QED BY <2>1, <3>1, <3>2 DEF Returned, Released
  <2> QED BY <2>1, <2>2, <2>3
<1>6. ASSUME type = "lease.acquired", data.purpose = "resume"
      PROVE  Released' # {} /\ data.previous = Returned'
  <2>1. data.previous = Returned /\ Returned # None
    BY <1>6 DEF Changes
  <2>2. Released # {}
    BY <2>1 DEF Returned, Released
  <2> QED BY <1>5, <1>6, <2>1, <2>2
<1>7. ASSUME type = "run.resumed"
      PROVE  /\ n - 1 \in Acquired' /\ chain'[n - 1].data.purpose = "resume"
             /\ Released' # {} /\ chain'[n - 1].data.previous = Returned'
             /\ data.previous = Returned' /\ data.ref = proj.checkpoint
             /\ \E j \in At("checkpoint.finalized")' : chain'[j].data.ref = proj.checkpoint
             /\ proj.mayResume
  <2>1. /\ Last.type = "lease.acquired" /\ Last.data.purpose = "resume"
        /\ data.ref = Run.checkpoint /\ data.previous = Last.data.previous
        /\ Finalized(Run.checkpoint) /\ proj.mayResume /\ proj.checkpoint = Run.checkpoint
    BY <1>7 DEF Changes
  <2>2. n - 1 = Len(chain) /\ n - 1 \in Places /\ chain'[n - 1] = Last
    <3>1. Len(chain) \in Places /\ Last = chain[Len(chain)] /\ n - 1 = Len(chain)
      BY <1>0, <1>1, LastEvent, Grows
    <3> QED BY <1>1, <3>1
  <2>3. n - 1 \in Acquired'
    BY <1>2, <1>7, <2>1, <2>2, LastEvent DEF Acquired, At
  <2>4. Released' # {} /\ Last.data.previous = Returned'
    BY <1>5, <1>7, <2>1 DEF ResumeInv
  <2>5. \E j \in At("checkpoint.finalized")' : chain'[j].data.ref = proj.checkpoint
    <3>1. PICK j \in At("checkpoint.finalized") : chain[j].data.ref = proj.checkpoint
      BY <2>1 DEF Finalized
    <3>2. j \in At("checkpoint.finalized")' /\ chain'[j] = chain[j]
      BY <1>0, <1>1, AtGrows
    <3> QED BY <3>1, <3>2
  <2> QED BY <2>1, <2>2, <2>3, <2>4, <2>5
<1> QED BY <1>1, <1>3, <1>4, <1>6, <1>7 DEF ResumeInv, Finalized

\* The checkpoint a resume goes on from was made under the lease that was given
\* back last, if nothing was worked on since.
LEMMA CheckpointOfLast ==
  ASSUME TypeInv, EpochInv, WorkInv, AttemptInv, ResumeInv, Last.type = "run.resumed",
         NEW k \in At("run.checkpointed"), chain[k].proj.lease # None,
         ~WorkBetween(k, Len(chain))
  PROVE  Returned = chain[k].proj.lease /\ k < Len(chain) - 1
<1>0. PICK n : n = Len(chain)
  OBVIOUS
<1>1. /\ n \in Nat /\ n - 1 \in Acquired /\ Released # {} /\ \A i \in Places : i \in Nat /\ i <= n
      /\ chain[n].type = "run.resumed" /\ Acquired \subseteq Places /\ Released \subseteq Places
      /\ Run = chain[n].proj /\ n \in Places
  BY <1>0, LastEvent DEF ResumeInv, Last, Acquired, Released, At, Places
<1>2. k \in Places /\ chain[k].type = "run.checkpointed" /\ chain[n - 1].type = "lease.acquired"
  BY <1>1 DEF At, Acquired
<1>3. k # n /\ k # n - 1
  BY <1>1, <1>2
<1>4. k < n - 1
  BY <1>1, <1>2, <1>3
<1>5. \A y \in Places : chain[y].proj.lease \in Nat
  BY LastEvent DEF Event, Projection, Ref
<1>6. Run.lease # chain[k].proj.lease
  <2>1. chain[k].proj.lease < chain[n - 1].data.ref
    BY <1>1, <1>2, <1>4 DEF EpochInv
  <2>2. Run.lease = None \/ chain[n - 1].data.ref <= Run.lease
    BY <1>1 DEF EpochInv
  <2>3. chain[n - 1].data.ref \in Nat
    BY <1>1, LastEvent DEF Event, Data
  <2> QED BY <1>1, <1>2, <1>5, <2>1, <2>2, <2>3
<1>7. PICK j \in Released : k < j /\ chain[j].data.ref = chain[k].proj.lease
  BY <1>2, <1>6 DEF AttemptInv
<1>8. PICK m \in Released : Returned = chain[m].data.ref /\ \A x \in Released : x <= m
  BY <1>1, LastReturned
<1>9. CASE j = m
  BY <1>0, <1>4, <1>7, <1>8, <1>9
<1>10. CASE j # m
  <2>1. j < m
    BY <1>1, <1>8, <1>10
  <2>2. PICK x \in Acquired : j < x /\ x < m
    BY <2>1 DEF AttemptInv
  <2>3. m # n /\ m <= n
    BY <1>1, <1>8 DEF Released, At
  <2>4. x + 1 \in Places /\ x \in Nat /\ x + 1 \in (k + 1)..(n - 1)
    <3>1. x \in Nat /\ j \in Nat /\ m \in Nat /\ k \in Nat
      BY <1>1, <1>2, <2>2
    <3>2. x + 1 \in Nat /\ 1 <= x + 1 /\ x + 1 <= n /\ k + 1 <= x + 1 /\ x + 1 <= n - 1
      BY <1>1, <1>7, <2>2, <2>3, <3>1
    <3> QED BY <1>0, <1>1, <1>2, <3>1, <3>2 DEF Places
  <2>5. chain[x + 1].proj.status = "running"
    BY <2>4 DEF AttemptInv
  <2> QED BY <1>0, <2>4, <2>5 DEF WorkBetween
<1> QED BY <1>9, <1>10

\* The predecessor of the lease acquired last.
LEMMA PredecessorOf ==
  ASSUME TypeInv, EpochInv, AttemptInv, NEW i \in Acquired
  PROVE  Predecessor(chain[i].data.ref) = chain[i].data.previous
<1>1. \A x \in Acquired : x \in Places /\ x \in Nat /\ chain[x].proj.lease \in Nat
  BY LastEvent DEF Acquired, At, Places, Event, Projection, Ref
<1>2. ASSUME NEW x \in Acquired, chain[x].data.ref = chain[i].data.ref PROVE x = i
  <2>1. chain[x].proj.lease = chain[x].data.ref /\ chain[i].proj.lease = chain[i].data.ref
    BY DEF AttemptInv
  <2>2. x < i => chain[x].proj.lease < chain[i].data.ref
    BY <1>1 DEF EpochInv
  <2>3. i < x => chain[i].proj.lease < chain[x].data.ref
    BY <1>1 DEF EpochInv
  <2> QED BY <1>1, <1>2, <2>1, <2>2, <2>3
<1> DEFINE e == chain[i].data.ref
           a == CHOOSE x \in At("lease.acquired") : chain[x].data.ref = e
<1>3. a \in At("lease.acquired") /\ chain[a].data.ref = e
  BY DEF Acquired
<1>4. a = i
  BY <1>2, <1>3 DEF Acquired
<1> QED BY <1>4 DEF Predecessor

\* A truthful complete checkpoint, with no work since, passes the preflight.
LEMMA PreflightAccepts ==
  ASSUME TypeInv, EpochInv, WorkInv, AttemptInv, ResumeInv, Last.type = "run.resumed",
         NEW c \in Checkpoints, Truthful(c), MadeCheckpoint(c), c.complete,
         c.event = Last.data.ref, c.plan = Run.plan, ~WorkBetween(c.event, Len(chain))
  PROVE  \E a \in Arguments : \A h \in Handoffs(c) : MadeHandoff(h, c) => Preflight(c, h, a)
<1> DEFINE n == Len(chain)
           a == [at |-> n, prior |-> c.lease, new |-> Run.lease, plan |-> c.plan,
                 identity |-> c.binding.id]
<1>1. /\ c.event \in At("run.checkpointed") /\ c.lease \in 1..(NextLease - 1) /\ c.plan \in Plan
      /\ c.lease # None
  BY DEF Checkpoints
<1>2. c.lease = chain[c.event].proj.lease /\ c.plan = chain[c.event].proj.plan
  BY DEF Truthful
<1>3. Returned = c.lease /\ c.event < n - 1
  BY <1>1, <1>2, CheckpointOfLast
<1>4. /\ n - 1 \in Acquired /\ chain[n - 1].data.purpose = "resume"
      /\ Released # {} /\ chain[n - 1].data.previous = c.lease
      /\ Last.data.previous = c.lease /\ Last.data.ref = Run.checkpoint
      /\ Finalized(Run.checkpoint) /\ Run.mayResume
  BY <1>3 DEF ResumeInv
<1>5. n \in At("run.resumed") /\ n \in Nat /\ chain[n] = Last /\ Run = chain[n].proj /\ n \in Places
  BY LastEvent DEF At, Places, Last
<1>6. \A y \in Places : y \in Nat /\ y <= n /\ chain[y].proj.lease \in Nat /\ chain[y].data.ref \in Nat
  BY LastEvent DEF Event, Projection, Ref, Data, Places
<1>7. Acquired \subseteq Places /\ Released \subseteq Places
  BY DEF Acquired, Released, At
<1>8. Run.lease = chain[n - 1].data.ref /\ c.lease < Run.lease
  <2>1. chain[n - 1].proj.lease = chain[n - 1].data.ref
    BY <1>4 DEF AttemptInv
  <2>2. c.lease < chain[n - 1].data.ref
    BY <1>1, <1>2, <1>3, <1>4 DEF EpochInv, At
  <2>3. chain[n - 1].data.ref # None
    BY <1>1, <1>4, <1>6, <1>7, <2>2
  <2>4. ASSUME NEW j \in Released, n - 1 < j PROVE FALSE
    <3>1. j = n
      BY <1>5, <1>6, <1>7, <2>4
    <3> QED BY <1>5, <3>1 DEF Released, At
  <2>5. Run.lease = chain[n - 1].proj.lease
    BY <1>4, <1>7, <2>1, <2>3, <2>4 DEF AttemptInv
  <2> QED BY <2>1, <2>2, <2>5
<1>9. Run.lease \in 1..(NextLease - 1)
  <2>1. chain[n - 1].data.ref <= Cardinality(At("lease.acquired"))
    BY <1>4 DEF EpochInv
  <2>2. Cardinality(At("lease.acquired")) \in Nat
    <3>1. Places = 1..n /\ n \in Nat /\ At("lease.acquired") \subseteq 1..n
      BY <1>5 DEF At, Places
    <3>2. IsFiniteSet(1..n)
      BY <3>1, Interval
    <3> QED BY <3>1, <3>2, FS_Subset, FS_CardinalityType
  <2>3. Run.lease \in Nat /\ c.lease \in Nat
    BY <1>5, <1>6, <1>1
  <2> QED BY <1>1, <1>8, <2>1, <2>2, <2>3 DEF NextLease
<1>10. a \in Arguments
  <2>1. c.binding.id \in {None, 1}
    BY DEF Checkpoints, Binding
  <2> QED BY <1>1, <1>5, <1>9, <2>1 DEF Arguments
<1> SUFFICES ASSUME NEW h \in Handoffs(c), MadeHandoff(h, c) PROVE Preflight(c, h, a)
  BY <1>10
<1>11. FailClosed(c.binding)
  BY DEF MadeCheckpoint
<1>12. SafeHandoff(h, c)
  <2> SUFFICES ASSUME h.eligible PROVE SafeHandoff(h, c)
    BY DEF SafeHandoff
  <2>1. h.checkpoint = c /\ h.id = c.binding.id
    BY DEF MadeHandoff
  <2>2. PICK j \in At("checkpoint.finalized") : chain[j].data.ref = c.event
    BY <1>4 DEF Finalized
  <2>3. c.event < j
    BY <2>2 DEF ResumeInv
  <2>4. j > c.event
    BY <1>1, <1>6, <2>2, <2>3 DEF At
  <2> QED BY <1>11, <2>1, <2>2, <2>4 DEF SafeHandoff
<1>13. CheckpointBound(c, a)
  BY <1>4, <1>5 DEF CheckpointBound
<1>14. PlanBound(c, a)
  BY <1>5 DEF PlanBound
<1>15. LeasesBound(c, a)
  <2>1. PICK m \in Released : Max(Released) = m /\ Returned = chain[m].data.ref
    BY <1>4, LastReturned
  <2>2. \E j \in At("lease.released") : chain[j].data.ref = a.prior
    BY <1>3, <2>1 DEF Released
  <2>3. OfPriorAttempt(c, a)
    BY DEF OfPriorAttempt
  <2>4. a.new > a.prior
    BY <1>1, <1>8, <1>9
  <2>5. Predecessor(a.new) = a.prior
    BY <1>4, <1>8, PredecessorOf
  <2>6. chain[a.at - 1].type = "lease.acquired" /\ chain[a.at - 1].data.purpose = "resume"
    BY <1>4 DEF Acquired, At
  <2>7. ReturnedBefore(a.at - 1) = c.lease
    <3>1. ASSUME NEW j \in Released PROVE j < n - 1
      <4>1. j # n /\ j # n - 1
        BY <1>4, <1>5 DEF Released, Acquired, At
      <4> QED BY <1>5, <1>6, <1>7, <3>1, <4>1
    <3>2. {j \in At("lease.released") : j < a.at - 1} = Released
      BY <3>1 DEF Released
    <3> QED BY <1>3, <2>1, <3>2 DEF ReturnedBefore
  <2>8. chain[a.at].data.previous = a.prior /\ chain[a.at].proj.lease = a.new
    BY <1>4, <1>5
  <2>9. {chain[a.at - 1].data.previous, ReturnedBefore(a.at - 1)} = {a.prior}
    BY <1>4, <2>7
  <2> QED BY <2>2, <2>3, <2>4, <2>5, <2>6, <2>8, <2>9 DEF LeasesBound
<1> QED BY <1>4, <1>11, <1>12, <1>13, <1>14, <1>15 DEF Preflight

-----------------------------------------------------------------------------
(***************************************************************************)
(* Plans and approvals.                                                    *)
(***************************************************************************)
Bound == At("capability-plan.bound")

\* A plan was bound, an approval names one, and a run that is asked to wait for
\* approval is not queued without it.
ApprovalInv ==
  /\ \A i \in Places : chain[i].proj.plan = None \/ \E j \in Bound : chain[j].data.ref = chain[i].proj.plan
  /\ \A i \in At("run.approval_required") :
       /\ chain[i].proj.plan # None
       /\ \A j \in Places : i <= j => chain[j].proj.status # "planned"
  /\ \A q \in At("run.queued") :
       /\ q - 1 \in Places
       /\ \/ chain[q - 1].proj.status = "planned"
          \/ chain[q - 1].type = "run.approval_required" /\ chain[q].proj.gates = "satisfied"

\* A run is planned only while nothing but plans was recorded.
LEMMA PlannedRows ==
  ASSUME NEW type, NEW from, NEW to, <<type, from, to>> \in Transitions, to = "planned"
  PROVE  type = "capability-plan.bound" /\ from = "planned"
<1>1. "planned" \notin Closing
  BY DEF Closing, Terminal
<1> QED BY <1>1, Rows

LEMMA ApprovalStep ==
  ASSUME TypeInv, ApprovalInv,
         NEW type \in Types, NEW data \in Data, NEW proj \in Projection,
         Appended(type, data, proj), Changes(type, data, proj)
  PROVE  ApprovalInv'
<1>0. PICK n : n = Len(chain) + 1
  OBVIOUS
<1>1. /\ Places' = Places \union {n} /\ n \notin Places
      /\ \A i \in Places : i < n /\ i \in Nat /\ chain'[i] = chain[i]
      /\ chain'[n].type = type /\ chain'[n].data = data /\ chain'[n].proj = proj
      /\ Run' = proj /\ n \in Nat
  BY <1>0, Grows
<1>2. /\ Len(chain) \in Places /\ n - 1 = Len(chain) /\ Run = chain[n - 1].proj /\ Last = chain[n - 1]
  BY <1>0, LastEvent, Grows
<1>3. \A k : At(k) \subseteq Places /\ At(k)' = IF k = type THEN At(k) \union {n} ELSE At(k)
  BY <1>0, AtGrows
<1>4. Bound \subseteq Places /\ Bound' = IF type = "capability-plan.bound" THEN Bound \union {n} ELSE Bound
  BY <1>3 DEF Bound
<1>5. ASSUME NEW i \in Places'
      PROVE  chain'[i].proj.plan = None \/ \E j \in Bound' : chain'[j].data.ref = chain'[i].proj.plan
  <2>1. \A k \in Places : chain[k].proj.plan = None \/ \E j \in Bound' : chain'[j].data.ref = chain[k].proj.plan
    BY <1>1, <1>4 DEF ApprovalInv
  <2>2. CASE i \in Places
    BY <1>1, <2>1, <2>2
  <2>3. CASE i = n /\ type = "capability-plan.bound"
    BY <1>1, <1>4, <2>3 DEF Changes
  <2>4. CASE i = n /\ type # "capability-plan.bound"
    <3>1. proj.plan = chain[n - 1].proj.plan
      BY <1>2, <2>4 DEF Changes
    <3> QED BY <1>1, <1>2, <2>1, <2>4, <3>1
  <2> QED BY <1>1, <1>5, <2>2, <2>3, <2>4
<1>6. ASSUME NEW i \in At("run.approval_required")'
      PROVE  /\ chain'[i].proj.plan # None
             /\ \A j \in Places' : i <= j => chain'[j].proj.status # "planned"
  <2>1. <<type, Run.status, proj.status>> \in Transitions
    BY DEF Appended
  <2>2. CASE i = n /\ type = "run.approval_required"
    <3>1. proj.plan # None /\ proj.status # "planned"
      BY <2>1, <2>2, PlannedRows DEF Changes
    <3>2. \A j \in Places' : n <= j => j = n
      BY <1>1
    <3> QED BY <1>1, <2>2, <3>1, <3>2
  <2>3. CASE i \in At("run.approval_required")
    <3>1. /\ i \in Places /\ chain[i].proj.plan # None
          /\ \A j \in Places : i <= j => chain[j].proj.status # "planned"
      BY <1>3, <2>3 DEF ApprovalInv
    <3>2. Run.status # "planned"
      BY <1>1, <1>2, <3>1
    <3>3. proj.status # "planned"
      BY <2>1, <3>2, PlannedRows
    <3> QED BY <1>1, <3>1, <3>3
  <2> QED BY <1>3, <1>6, <2>2, <2>3
<1>7. ASSUME NEW q \in At("run.queued")'
      PROVE  /\ q - 1 \in Places'
             /\ \/ chain'[q - 1].proj.status = "planned"
                \/ chain'[q - 1].type = "run.approval_required" /\ chain'[q].proj.gates = "satisfied"
  <2>1. CASE q = n /\ type = "run.queued"
    <3>1. Run.status = "planned" \/ (Last.type = "run.approval_required" /\ proj.gates = "satisfied")
      BY <2>1 DEF Changes, Approval
    <3> QED BY <1>1, <1>2, <2>1, <3>1
  <2>2. CASE q \in At("run.queued")
    <3>1. /\ q \in Places /\ q - 1 \in Places
          /\ \/ chain[q - 1].proj.status = "planned"
             \/ chain[q - 1].type = "run.approval_required" /\ chain[q].proj.gates = "satisfied"
      BY <1>3, <2>2 DEF ApprovalInv
    <3> QED BY <1>1, <3>1
  <2> QED BY <1>3, <1>7, <2>1, <2>2
<1> QED BY <1>5, <1>6, <1>7 DEF ApprovalInv

\* When no plan was bound over another, all that were bound are the same.
LEMMA OnePlan ==
  ASSUME ~Rebound, NEW i \in Bound, NEW j \in Bound
  PROVE  chain[i].data.ref = chain[j].data.ref
BY DEF Rebound, Bound

\* A check that does not apply.
LEMMA NotFirst ==
  ASSUME NEW check, NEW applies, NEW result, check = <<applies, result>>, ~check[1]
  PROVE  ~applies
<1>1. check[1] = applies
  OBVIOUS
<1> QED BY <1>1, Zenon

\* A route with gates is authorized only when the chain binds its plan and they
\* were asked for and the run queued after that.
LEMMA Authorized ==
  ASSUME NEW call \in GatedCalls, Ingest(call) = "authorized"
  PROVE  OwnerGateBinding(call) /\ call.gated
<1> DEFINE checks == Checks(call)
           S == {i \in 1..11 : checks[i][1]}
<1>1. DOMAIN checks = 1..11
  BY DEF Checks
<1>2. \A i \in 1..10 : checks[i][2] # "authorized"
  BY DEF Checks
<1>3. 11 \in S /\ S \in SUBSET Nat
  <2>1. checks[11] = <<TRUE, "authorized">>
    BY DEF Checks
  <2>2. checks[11][1] = TRUE
    BY <2>1
  <2>3. 11 \in 1..11
    OBVIOUS
  <2>4. 11 \in S
    BY <2>2, <2>3, Zenon
  <2> QED BY <2>4
<1>4. PICK m \in S : \A i \in S : m <= i
  <2> HIDE DEF S
  <2> QED BY <1>3, HasMin
<1>5. Min(S) = m
  <2>1. S \in SUBSET Int
    BY <1>3
  <2> HIDE DEF S
  <2> QED BY <1>4, <2>1, MinIs
<1>6. Ingest(call) = checks[m][2]
  BY <1>1, <1>5 DEF Ingest
<1>7. m = 11
  BY <1>2, <1>4, <1>6
<1>8. 1 \notin S /\ 9 \notin S
  BY <1>4, <1>7
<1>9. ~checks[1][1] /\ ~checks[9][1]
  BY <1>8
<1>10. Qualified(call) /\ ~(call.gated /\ ~OwnerGateBinding(call))
  <2>1. checks[1] = <<~Qualified(call), "throws">>
    BY DEF Checks
  <2>2. checks[9] = <<call.gated /\ ~OwnerGateBinding(call), "throws">>
    BY DEF Checks
  <2> HIDE DEF checks, S
  <2>3. ~~Qualified(call)
    BY <1>9, <2>1, NotFirst, Zenon
  <2>4. ~(call.gated /\ ~OwnerGateBinding(call))
    BY <1>9, <2>2, NotFirst, Zenon
  <2> QED BY <2>3, <2>4
<1>11. call.gated = TRUE
  BY <1>10 DEF Qualified, GatedCalls, Calls
<1> QED BY <1>10, <1>11

\* No route is authorized that the owner has not approved, at any time of a run.
ApprovedOnly ==
  ~Rebound => \A call \in GatedCalls : Ingest(call) = "authorized" => Approved(call.plan)

LEMMA ApprovalImplies ==
  ASSUME TypeInv, ApprovalInv
  PROVE  ApprovedOnly
<1> SUFFICES ASSUME ~Rebound, NEW call \in GatedCalls, Ingest(call) = "authorized"
             PROVE  Approved(call.plan)
  BY DEF ApprovedOnly
<1> DEFINE I == InitialApprovals
<1>1. /\ Bound # {} /\ chain[Min(Bound)].data.ref = call.plan
      /\ I # {} /\ QueuedAfter(Min(I))
  BY Authorized DEF OwnerGateBinding, Bound
<1>2. Bound \in SUBSET Nat /\ I \in SUBSET Nat /\ I \subseteq At("run.approval_required")
  BY DEF Bound, InitialApprovals, At, Places
<1>3. PICK b \in Bound : Min(Bound) = b
  <2>1. PICK b \in Bound : \A x \in Bound : b <= x
    BY <1>1, <1>2, HasMin
  <2>2. Bound \in SUBSET Int
    BY <1>2
  <2> QED BY <2>1, <2>2, MinIs
<1>4. PICK i \in I : Min(I) = i
  <2>1. PICK i \in I : \A x \in I : i <= x
    BY <1>1, <1>2, HasMin
  <2>2. I \in SUBSET Int
    BY <1>2
  <2> QED BY <2>1, <2>2, MinIs
<1>5. PICK q \in At("run.queued") : q > i
  BY <1>1, <1>4 DEF QueuedAfter
<1>6. /\ i \in Nat /\ q \in Nat /\ q - 1 \in Places /\ i <= q - 1 /\ i \in At("run.approval_required")
  BY <1>2, <1>4, <1>5 DEF ApprovalInv, At, Places
<1>7. chain[q - 1].proj.status # "planned"
  BY <1>6 DEF ApprovalInv
<1>8. chain[q - 1].type = "run.approval_required" /\ chain[q].proj.gates = "satisfied"
  BY <1>5, <1>7 DEF ApprovalInv
<1>9. q - 1 \in At("run.approval_required")
  BY <1>6, <1>8 DEF At
<1>10. PICK j \in Bound : chain[j].data.ref = chain[q - 1].proj.plan
  BY <1>6, <1>9 DEF ApprovalInv
<1>11. chain[q - 1].proj.plan = call.plan
  BY <1>1, <1>3, <1>10, OnePlan
<1> QED BY <1>5, <1>8, <1>11 DEF Approved

-----------------------------------------------------------------------------
(***************************************************************************)
(* All of it together.                                                     *)
(***************************************************************************)
RunInv ==
  /\ TypeInv /\ CheckpointInv /\ ResumesNewest
  /\ LeaseInv /\ CloseInv /\ EndInv /\ FinalInv /\ BusyInv
  /\ ApprovalInv /\ EpochInv /\ WorkInv /\ AttemptInv /\ ResumeInv

LEMMA InitRun ==
  ASSUME Init
  PROVE  RunInv
<1>1. PICK policy \in BOOLEAN : chain = <<Created(policy)>>
  BY DEF Init
<1>2. Places = {1} /\ chain[1] = Created(policy) /\ Run = Created(policy).proj
  BY <1>1 DEF Places, Run, Last
<1>3. \A k \in {"lease.acquired", "lease.released", "checkpoint.finalized", "run.resumed",
                "run.approval_required", "run.queued"} : At(k) = {}
  BY <1>2 DEF At, Created
<1>4. Acquired = {} /\ Released = {}
  BY <1>3 DEF Acquired, Released
<1>5. Run.status = "planned" /\ Run.lease = None /\ Run.plan = None /\ Run.final = None
  BY <1>2 DEF Created
<1>6. "planned" \notin Closing /\ "planned" \notin Terminal
  BY DEF Closing, Terminal
<1>7. CheckpointInv /\ ResumesNewest
  BY <1>3 DEF CheckpointInv, ResumesNewest
<1>8. LeaseInv /\ CloseInv /\ FinalInv /\ BusyInv
  BY <1>4, <1>5, <1>6 DEF LeaseInv, CloseInv, FinalInv, BusyInv
<1>9. EndInv
  BY <1>2, <1>5, <1>6 DEF EndInv
<1>10. ApprovalInv
  BY <1>2, <1>3, <1>5 DEF ApprovalInv
<1>11. EpochInv
  <2>1. Cardinality(At("lease.acquired")) = 0
    BY <1>3, FS_EmptySet
  <2> QED BY <1>2, <1>4, <1>5, <2>1 DEF EpochInv
<1>12. WorkInv
  BY <1>2 DEF WorkInv, Created
<1>13. AttemptInv
  BY <1>2, <1>4, <1>5 DEF AttemptInv
<1>14. ResumeInv
  <2>1. Last.type = "run.created"
    BY <1>1 DEF Last, Created
  <2> QED BY <1>3, <2>1 DEF ResumeInv
<1> QED BY <1>7, <1>8, <1>9, <1>10, <1>11, <1>12, <1>13, <1>14, InitTypes DEF RunInv

LEMMA RunStep ==
  ASSUME RunInv, NEW type \in Types, NEW data \in Data, NEW proj \in Projection,
         Appended(type, data, proj), Changes(type, data, proj)
  PROVE  RunInv'
<1>1. TypeInv' /\ CheckpointInv' /\ ResumesNewest'
  BY TypeStep, CheckpointStep DEF RunInv
<1>2. LeaseInv' /\ CloseInv'
  BY LeaseStep, CloseStep DEF RunInv
<1>3. EndInv' /\ FinalInv' /\ BusyInv'
  BY EndStep, FinalStep, BusyStep DEF RunInv
<1>4. ApprovalInv' /\ EpochInv' /\ WorkInv'
  BY ApprovalStep, EpochStep, WorkStep DEF RunInv
<1>5. AttemptInv' /\ ResumeInv'
  BY AttemptStep, ResumeStep DEF RunInv
<1> QED BY <1>1, <1>2, <1>3, <1>4, <1>5 DEF RunInv

\* The invariant behind the theorems below is inductive.
THEOREM InductiveRun == Spec => []RunInv
<1>1. Init => RunInv
  BY InitRun
<1>2. RunInv /\ [Next]_chain => RunInv'
  <2> SUFFICES ASSUME RunInv, [Next]_chain PROVE RunInv'
    OBVIOUS
  <2>1. CASE Next
    <3>1. TypeInv
      BY DEF RunInv
    <3>2. PICK type \in Types, data \in Data, proj \in Projection :
            Appended(type, data, proj) /\ Changes(type, data, proj)
      BY <2>1, <3>1, NextRecords DEF Recorded
    <3> QED BY <3>2, RunStep
  <2>2. CASE UNCHANGED chain
    <3>1. Places' = Places /\ Run' = Run /\ \A k : At(k)' = At(k)
      BY <2>2 DEF Places, Run, Last, At
    <3>2. Acquired' = Acquired /\ Released' = Released /\ Bound' = Bound
      BY <3>1 DEF Acquired, Released, Bound
    <3>3. TypeInv' /\ CheckpointInv' /\ ResumesNewest'
      BY <2>2, <3>1 DEF RunInv, TypeInv, TypeOK, CheckpointInv, ResumesNewest
    <3>4. LeaseInv' /\ EndInv' /\ FinalInv' /\ BusyInv'
      BY <2>2, <3>1, <3>2 DEF RunInv, LeaseInv, EndInv, FinalInv, BusyInv
    <3>5. CloseInv'
      BY <2>2, <3>1, <3>2 DEF RunInv, CloseInv, Closes, Settled
    <3>6. ApprovalInv'
      BY <2>2, <3>1, <3>2 DEF RunInv, ApprovalInv
    <3>7. EpochInv'
      BY <2>2, <3>1, <3>2 DEF RunInv, EpochInv
    <3>8. WorkInv'
      BY <2>2, <3>1, <3>2 DEF RunInv, WorkInv
    <3>9. AttemptInv' /\ ResumeInv'
      <4>1. Last' = Last /\ Returned' = Returned
        BY <2>2, <3>1 DEF Last, Returned
      <4> QED BY <2>2, <3>1, <3>2, <4>1 DEF RunInv, AttemptInv, ResumeInv, Finalized
    <3> QED BY <3>3, <3>4, <3>5, <3>6, <3>7, <3>8, <3>9 DEF RunInv
  <2> QED BY <2>1, <2>2
<1> QED BY <1>1, <1>2, PTL DEF Spec

\* A run goes on from the newest checkpoint that was finalized, over any number
\* of attempts.
THEOREM NewestCheckpoint == Spec => []ResumesNewest
<1>1. RunInv => ResumesNewest
  BY DEF RunInv
<1> QED BY <1>1, InductiveRun, PTL

LEMMA ClosureImplied ==
  ASSUME TypeInv, CloseInv
  PROVE  ClosureIsProvable
<1> SUFFICES ASSUME Run.status \in Closing, Run.lease = None
             PROVE  \E t \in Places : Closes(t) /\ ReleasedFor(t)
  BY DEF ClosureIsProvable
<1>1. PICK t \in Places : Closes(t) /\ Settled(t)
  BY DEF CloseInv
<1>2. CASE chain[t].proj.lease # None
  <2>1. \E j \in Released : t < j /\ chain[j].data.ref = chain[t].proj.lease
    BY <1>1, <1>2 DEF Settled
  <2>2. Released \subseteq Nat /\ t \in Nat
    BY DEF Released, At, Places
  <2>3. ReleasedFor(t)
    BY <1>2, <2>1, <2>2 DEF ReleasedFor, Released
  <2> QED BY <1>1, <2>3
<1>3. CASE chain[t].proj.lease = None
  <2> DEFINE before == {i \in Acquired : i < t}
  <2>1. CASE before = {}
    BY <1>1, <1>3, <2>1 DEF ReleasedFor, Acquired
  <2>2. CASE before # {}
    <3>1. before \in SUBSET (1..Len(chain)) /\ Len(chain) \in Nat
      BY LastEvent DEF Acquired, At, Places
    <3>2. PICK a \in before : \A b \in before : b <= a
      BY <2>2, <3>1, HasMax
    <3>3. Max(before) = a
      <4>1. before \in SUBSET Int
        BY <3>1
      <4> HIDE DEF before
      <4> QED BY <3>2, <4>1, MaxIs
    <3>4. \E j \in Released : a < j /\ j < t /\ chain[j].data.ref = chain[a].data.ref
      BY <1>1, <1>3, <3>2 DEF Settled
    <3>5. ReleasedFor(t)
      BY <1>3, <3>3, <3>4 DEF ReleasedFor, Released, Acquired
    <3> QED BY <1>1, <3>5
  <2> QED BY <2>1, <2>2
<1> QED BY <1>2, <1>3

\* A closed run whose lease is back has an event that a report may name.
THEOREM ClosureProvable == Spec => []ClosureIsProvable
<1>1. RunInv => ClosureIsProvable
  BY ClosureImplied DEF RunInv
<1> QED BY <1>1, InductiveRun, PTL

\* No preflight passes a resume that would leave out what an attempt has worked on
\* since the checkpoint, whatever the caller supplies.
THEOREM NoWorkLost == Spec => []ResumeLosesNoWork
<1>1. RunInv => ResumeLosesNoWork
  BY PreflightRefuses DEF RunInv, ResumeLosesNoWork
<1> QED BY <1>1, InductiveRun, PTL

\* What the authors of checkpoints and handoffs make, the preflight accepts: a run
\* that goes on from a truthful complete checkpoint, under the plan it was made
\* with and no work since, passes after any number of attempts.
THEOREM MadeAccepted == Spec => []MadeIsAccepted
<1>1. RunInv => MadeIsAccepted
  <2> SUFFICES ASSUME RunInv, Last.type = "run.resumed",
                      NEW c \in Checkpoints, Truthful(c), MadeCheckpoint(c), c.complete,
                      c.event = Last.data.ref, c.plan = Run.plan, ~WorkBetween(c.event, Len(chain))
               PROVE  \E a \in Arguments : \A h \in Handoffs(c) : MadeHandoff(h, c) => Preflight(c, h, a)
    BY DEF MadeIsAccepted
  <2> QED BY PreflightAccepts DEF RunInv
<1> QED BY <1>1, InductiveRun, PTL

\* No route with owner gates is authorized without the owner's approval, neither
\* before the run starts nor later.
THEOREM DispatchApproved == Spec => [](ApprovedOnly /\ DispatchIsApproved)
<1>1. RunInv => ApprovedOnly
  BY ApprovalImplies DEF RunInv
<1>2. ApprovedOnly => DispatchIsApproved
  BY DEF ApprovedOnly, DispatchIsApproved
<1> QED BY <1>1, <1>2, InductiveRun, PTL

-----------------------------------------------------------------------------
(***************************************************************************)
(* The chain is the life of a run.                                         *)
(***************************************************************************)
Phase(lease, status) ==
  IF lease = None THEN "none"
  ELSE IF status = "allocated" THEN "allocated"
  ELSE IF status \in {"running", "stopping"} THEN "working" ELSE "resting"

Outcome(status) == IF status \in Terminal THEN status ELSE "none"

LEMMA LifeStep ==
  ASSUME RunInv, NEW type \in Types, NEW data \in Data, NEW proj \in Projection,
         Appended(type, data, proj), Changes(type, data, proj)
  PROVE  [Life!Next]_(Life!vars)
<1> DEFINE attempt == Cardinality(At("lease.acquired"))
           outcome == IF Run.status \in Terminal THEN Run.status ELSE "none"
           proven == Run.final # None
           from == Run.status
           to == proj.status
<1>0. TypeInv
  BY DEF RunInv
<1>1. Run' = proj /\ <<type, from, to>> \in Transitions /\ Len(chain) < MaxEvents
  BY <1>0, Grows DEF Appended
<1>2. attempt' = IF type = "lease.acquired" THEN attempt + 1 ELSE attempt
  BY <1>0, Attempts, Zenon
<1>3. Stage = Phase(Run.lease, from) /\ Stage' = Phase(proj.lease, to)
  BY <1>1 DEF Stage, Phase
<1>4. outcome = Outcome(from) /\ outcome' = Outcome(to) /\ proven' = (proj.final # None)
  <2>1. outcome = Outcome(from) /\ outcome' = Outcome(to)
    BY <1>1 DEF Outcome
  <2>2. proven' = (proj.final # None)
    BY <1>1, Zenon
  <2> QED BY <2>1, <2>2
<1>5. \A s : s \in Terminal <=> s = "completed" \/ s = "failed" \/ s = "cancelled"
  BY DEF Terminal
<1>6. /\ from \in {"allocated", "running", "stopping"} => Run.lease # None
      /\ NextLease # None
  BY <1>0, <1>1, NextLeaseType DEF RunInv, BusyInv
<1>7. type \notin {"lease.acquired", "lease.released"} => proj.lease = Run.lease /\ attempt' = attempt
  BY <1>2 DEF Changes
<1>8. type # "report.finalized" => proven' = proven
  BY <1>4 DEF Changes
<1> HIDE DEF attempt, outcome, proven, from, to
<1>10. CASE type = "lease.acquired"
  <2>1. Stage = "none" /\ Stage' = "allocated" /\ outcome = "none" /\ outcome' = "none"
    <3>1. from \in Resumable \union {"queued"} /\ to = "allocated"
      BY <1>1, <1>10, Rows
    <3>2. Run.lease = None /\ proj.lease # None
      BY <1>6, <1>10 DEF Changes
    <3> QED BY <1>3, <1>4, <1>5, <3>1, <3>2 DEF Phase, Outcome, Resumable
  <2>2. attempt' = attempt + 1 /\ proven' = proven
    BY <1>2, <1>8, <1>10
  <2> QED BY <2>1, <2>2 DEF Life!Next, Life!Begin, attempt, outcome, proven
<1>11. CASE type \in {"run.started", "run.resumed"}
  <2>1. from = "allocated" /\ to = "running"
    BY <1>1, <1>11, Rows
  <2>2. Stage = "allocated" /\ Stage' = "working" /\ outcome = "none" /\ outcome' = "none"
    BY <1>3, <1>4, <1>5, <1>6, <1>7, <1>11, <2>1 DEF Phase, Outcome
  <2>3. attempt' = attempt /\ proven' = proven
    BY <1>7, <1>8, <1>11
  <2> QED BY <2>2, <2>3 DEF Life!Next, Life!Work, attempt, outcome, proven
<1>12. CASE /\ type \in {"run.waiting", "run.checkpointed", "run.approval_required", "run.stopped"}
            /\ from \in {"running", "stopping"}
  <2>1. to \in {"waiting", "checkpointed", "needs_approval", "stopped"}
    BY <1>1, <1>12, Rows
  <2>2. Stage = "working" /\ Stage' = "resting" /\ outcome = "none" /\ outcome' = "none"
    BY <1>3, <1>4, <1>5, <1>6, <1>7, <1>12, <2>1 DEF Phase, Outcome
  <2>3. attempt' = attempt /\ proven' = proven
    BY <1>7, <1>8, <1>12
  <2> QED BY <2>2, <2>3 DEF Life!Next, Life!Rest, attempt, outcome, proven
<1>13. CASE type \in {"run.completed", "run.failed", "run.cancelled"}
  <2>1. /\ to \in {"completed", "failed", "cancelled"}
        /\ from \in {"running", "stopping", "waiting", "needs_approval", "checkpointed", "stopped"}
    BY <1>1, <1>13, Rows
  <2>2. /\ Stage # "allocated" /\ Stage' = IF Stage = "working" THEN "resting" ELSE Stage
        /\ outcome = "none" /\ outcome' \in {"completed", "failed", "cancelled"}
    BY <1>3, <1>4, <1>5, <1>6, <1>7, <1>13, <2>1 DEF Phase, Outcome
  <2>3. attempt' = attempt /\ proven' = proven
    BY <1>7, <1>8, <1>13
  <2> QED BY <2>2, <2>3 DEF Life!Next, Life!End, Life!Terminal, attempt, outcome, proven
<1>14. CASE type = "lease.released"
  <2>1. to = from /\ from \in Closing \union {"waiting", "checkpointed"}
    BY <1>1, <1>14, Rows
  <2>2. Run.lease # None /\ proj.lease = None
    BY <1>14 DEF Changes
  <2>3. Stage = "resting" /\ Stage' = "none" /\ outcome' = outcome
    BY <1>3, <1>4, <1>5, <2>1, <2>2 DEF Phase, Closing
  <2>4. attempt' = attempt /\ proven' = proven
    BY <1>2, <1>8, <1>14
  <2> QED BY <2>3, <2>4 DEF Life!Next, Life!Release, attempt, outcome, proven
<1>15. CASE type = "report.finalized"
  <2>1. to = from
    BY <1>1, <1>15, Rows
  <2>2. Stage' = Stage /\ outcome' = outcome /\ attempt' = attempt
    BY <1>3, <1>4, <1>7, <1>15, <2>1
  <2>3. CASE proj.final = Run.final
    BY <1>4, <2>2, <2>3 DEF Life!vars, attempt, outcome, proven
  <2>4. CASE proj.final # Run.final
    <3>1. PICK t \in Places :
            /\ Closes(t) /\ ReleasedFor(t)
            /\ from \in Terminal /\ Run.final = None /\ proj.final = Len(chain) + 1
      BY <1>15, <2>4 DEF Changes, from
    <3>2. Run.lease = None
      BY <3>1, ReportUnleased DEF RunInv, from
    <3>3. Stage = "none" /\ outcome # "none"
      BY <1>3, <1>4, <1>5, <3>1, <3>2 DEF Phase, Outcome
    <3>4. ~proven /\ proven'
      BY <1>4, <2>4, <3>1 DEF proven
    <3> QED BY <2>2, <3>3, <3>4 DEF Life!Next, Life!Prove, attempt, outcome, proven
  <2> QED BY <2>3, <2>4
<1>16. CASE /\ type \in {"run.approval_required", "run.stopped"}
            /\ from \notin {"running", "stopping"}
  <2>1. /\ to \in {"needs_approval", "stopped"}
        /\ from \in {"planned", "waiting", "checkpointed", "stopped", "needs_approval"}
    BY <1>1, <1>16, Rows DEF Resumable
  <2>2. Stage' = Stage /\ outcome' = outcome /\ attempt' = attempt /\ proven' = proven
    BY <1>3, <1>4, <1>5, <1>7, <1>8, <1>16, <2>1 DEF Phase, Outcome
  <2> QED BY <2>2 DEF Life!vars, attempt, outcome, proven
<1>17. CASE type = "run.stop_requested"
  <2>1. from = "running" /\ to = "stopping"
    BY <1>1, <1>17, Rows
  <2>2. Stage' = Stage /\ outcome' = outcome /\ attempt' = attempt /\ proven' = proven
    BY <1>3, <1>4, <1>5, <1>7, <1>8, <1>17, <2>1 DEF Phase, Outcome
  <2> QED BY <2>2 DEF Life!vars, attempt, outcome, proven
<1>18. CASE type = "run.queued"
  <2>1. from \in {"planned", "needs_approval"} /\ to = "queued"
    BY <1>1, <1>18, Rows
  <2>2. Stage' = Stage /\ outcome' = outcome /\ attempt' = attempt /\ proven' = proven
    BY <1>3, <1>4, <1>5, <1>7, <1>8, <1>18, <2>1 DEF Phase, Outcome
  <2> QED BY <2>2 DEF Life!vars, attempt, outcome, proven
<1>19. CASE type \in {"capability-plan.bound", "checkpoint.finalized"}
  <2>1. to = from
    BY <1>1, <1>19, Rows
  <2>2. Stage' = Stage /\ outcome' = outcome /\ attempt' = attempt /\ proven' = proven
    BY <1>3, <1>4, <1>7, <1>8, <1>19, <2>1
  <2> QED BY <2>2 DEF Life!vars, attempt, outcome, proven
<1>20. type \in {"capability-plan.bound", "checkpoint.finalized", "run.queued", "run.stop_requested",
                 "run.approval_required", "run.stopped", "report.finalized", "lease.released",
                 "run.completed", "run.failed", "run.cancelled", "run.waiting", "run.checkpointed",
                 "run.started", "run.resumed", "lease.acquired"}
  BY <1>1, Rows
<1>21. type \in {"run.waiting", "run.checkpointed"} => from \in {"running", "stopping"}
  BY <1>1, Rows
<1> QED BY <1>10, <1>11, <1>12, <1>13, <1>14, <1>15, <1>16, <1>17, <1>18, <1>19, <1>20, <1>21

\* The chain of a run implements its life: attempts follow one another and work once,
\* the run ends once, and its end is proven once, after the last lease is back.
THEOREM LifeImplemented == Spec => ImplementsLife
<1>1. Init => Life!Init
  <2> SUFFICES ASSUME Init PROVE Life!Init
    OBVIOUS
  <2>1. PICK policy \in BOOLEAN : chain = <<Created(policy)>>
    BY DEF Init
  <2>2. Places = {1} /\ chain[1] = Created(policy) /\ Run = Created(policy).proj
    BY <2>1 DEF Places, Run, Last
  <2>3. Cardinality(At("lease.acquired")) = 0
    <3>1. At("lease.acquired") = {}
      BY <2>2 DEF At, Created
    <3> QED BY <3>1, FS_EmptySet
  <2>4. Run.status = "planned" /\ Run.lease = None /\ Run.final = None
    BY <2>2 DEF Created
  <2> QED BY <2>3, <2>4 DEF Life!Init, Stage, Terminal
<1>2. RunInv /\ [Next]_chain => [Life!Next]_(Life!vars)
  <2> SUFFICES ASSUME RunInv, [Next]_chain PROVE [Life!Next]_(Life!vars)
    OBVIOUS
  <2>1. CASE Next
    <3>1. TypeInv
      BY DEF RunInv
    <3>2. PICK type \in Types, data \in Data, proj \in Projection :
            Appended(type, data, proj) /\ Changes(type, data, proj)
      BY <2>1, <3>1, NextRecords DEF Recorded
    <3> QED BY <3>2, LifeStep
  <2>2. CASE UNCHANGED chain
    <3>1. Places' = Places /\ Run' = Run /\ At("lease.acquired")' = At("lease.acquired")
      BY <2>2 DEF Places, Run, Last, At
    <3> QED BY <3>1 DEF Life!vars, Stage
  <2> QED BY <2>1, <2>2
<1> QED BY <1>1, <1>2, InductiveRun, PTL DEF Spec, ImplementsLife, Life!Spec

-----------------------------------------------------------------------------
(***************************************************************************)
(* The join.                                                               *)
(***************************************************************************)
\* A parent may complete by a child only when that child is proven completed.
LEMMA JoinNeedsProof ==
  ASSUME NEW c \in Records, NEW others \in Others, NEW wait \in BOOLEAN, NEW join \in BOOLEAN,
         Accepted([children |-> {c} \union others, wait |-> wait, join |-> join, mayComplete |-> TRUE])
  PROVE  Run.status = "completed" /\ Proven
<1> DEFINE e == [children |-> {c} \union others, wait |-> wait, join |-> join, mayComplete |-> TRUE]
<1>1. Possible(c) /\ Consistent(e)
  BY DEF Accepted
<1>2. c.required = TRUE /\ c.state = FoundState
  BY DEF Records
<1>3. c.joined
  <2>1. c \in {x \in e.children : x.required}
    BY <1>2
  <2>2. e.mayComplete = TRUE /\ e.join = join
    OBVIOUS
  <2> HIDE DEF e
  <2> QED BY <1>1, <2>1, <2>2, Zenon DEF Consistent
<1>4. FoundState = "completed"
  BY <1>1, <1>2, <1>3 DEF Possible
<1> QED BY <1>4 DEF FoundState

\* A child that is proven completed has no further event.
LEMMA ProvenIsLast ==
  ASSUME RunInv, Run.status = "completed", Proven
  PROVE  ~Next
<1>1. Run.final # None /\ Run.lease = None /\ Run.status \in Terminal
  BY DEF Proven, Report, Terminal, RunInv, FinalInv
<1>2. SUFFICES ASSUME Next PROVE FALSE
  OBVIOUS
<1>3. TypeInv
  BY DEF RunInv
<1>4. PICK type \in Types, data \in Data, proj \in Projection :
        Appended(type, data, proj) /\ Changes(type, data, proj)
  BY <1>2, <1>3, NextRecords DEF Recorded
<1>5. type \in {"report.finalized", "lease.released"}
  BY <1>1, <1>4, EndRows DEF Appended
<1>6. type # "lease.released"
  BY <1>1, <1>4 DEF Changes
<1>7. type # "report.finalized"
  BY <1>1, <1>4 DEF Changes
<1> QED BY <1>5, <1>6, <1>7

\* A child that is proven completed, with those that do not hold the parent up, lets
\* it complete.
LEMMA ProvenJoins ==
  ASSUME Run.status = "completed", Proven, NEW others \in Others
  PROVE  MayComplete(others)
<1> DEFINE this == ProofOf("this", FoundState, TRUE)
           required == {c \in {this} \union others : c.required}
<1>1. FoundState = "completed" /\ "completed" \in Closing
  BY DEF FoundState, Closing, Terminal
<1>2. this.terminal /\ this.joined
  BY <1>1, Zenon DEF ProofOf
<1>3. ASSUME NEW c \in others, c.required PROVE c.terminal /\ c.joined
  <2>1. \/ c = ProofOf("other", "completed", TRUE)
        \/ c = ProofOf("other", "unfinished", FALSE)
    BY DEF Others
  <2>2. ~ProofOf("other", "unfinished", FALSE).required
    BY Zenon DEF ProofOf
  <2>3. ProofOf("other", "completed", TRUE).terminal /\ ProofOf("other", "completed", TRUE).joined
    BY <1>1, Zenon DEF ProofOf
  <2> QED BY <1>3, <2>1, <2>2, <2>3, Zenon
<1>4. \A c \in required : c.terminal /\ c.joined
  <2> HIDE DEF this
  <2> QED BY <1>2, <1>3, Zenon
<1> QED BY <1>4, Zenon DEF MayComplete, Evaluation

\* An evaluation that lets a parent complete is right.
ClaimsHold ==
  \A c \in Records, others \in Others, wait, join \in BOOLEAN :
    Accepted([children |-> {c} \union others, wait |-> wait, join |-> join, mayComplete |-> TRUE])
    => MayComplete(others)

\* A parent that may complete by its children is right to at any time, and may still
\* do so whatever is appended to the chain of the child.
THEOREM JoinIsFinal == Spec => []ClaimsHold /\ CompletionIsFinal
<1> DEFINE Kept ==
      Run.status \in Closing =>
        \A c \in Records, others \in Others, wait, join \in BOOLEAN :
          Accepted([children |-> {c} \union others, wait |-> wait, join |-> join, mayComplete |-> TRUE])
          => MayComplete(others) /\ MayComplete(others)'
<1>1. ClaimsHold
  BY JoinNeedsProof, ProvenJoins DEF ClaimsHold
<1>2. RunInv /\ [Next]_chain => [Kept]_chain
  <2> SUFFICES ASSUME RunInv, Next PROVE Kept
    OBVIOUS
  <2> SUFFICES ASSUME NEW c \in Records, NEW others \in Others, NEW wait \in BOOLEAN, NEW join \in BOOLEAN,
                      Accepted([children |-> {c} \union others, wait |-> wait, join |-> join, mayComplete |-> TRUE])
               PROVE  FALSE
    OBVIOUS
  <2> QED BY JoinNeedsProof, ProvenIsLast
<1> QED BY <1>1, <1>2, InductiveRun, PTL DEF Spec, CompletionIsFinal
==============================================================================
