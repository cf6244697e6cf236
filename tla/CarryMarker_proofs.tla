--------------------------- MODULE CarryMarker_proofs --------------------------
(***************************************************************************)
(* The marker that carry stop leaves for the close handler of a task's     *)
(* process: that it is taken by the process it was set for, and by none    *)
(* that is started later, but for tasks that a runner was at when it       *)
(* ended; for any number of tasks, runners and processes.                  *)
(***************************************************************************)
EXTENDS CarrySafety_proofs

Occupied(processes, t) == \E p \in Pid : processes[p] # NoChild /\ processes[p].task = t

Asked(processes, t) ==
  \E p \in Pid : processes[p] # NoChild /\ processes[p].task = t /\ processes[p].asked = TRUE

\* Every task that a queue says runs has a process, those in T aside.
Backed(q, processes, T) ==
  \A t \in Present(q) \ T : q.task[t].status = "running" => Occupied(processes, t)

\* A task that is recorded as running before its process is there, and after it is gone.
Bare(r) == IF pc[r] \in {"spawn", "saveClosed"} THEN {target[r].task} ELSE {}

\* So says what a runner will save, those aside that a runner that ended was at; and a
\* failed task is not dispatched.
BackedOK(r) ==
  /\ pc[r] \in Saving =>
       Backed(snap[r], child, CutOff \union IF pc[r] = "saveDispatch" THEN {target[r].task} ELSE {})
  /\ pc[r] = "dispatch" => queue.task[target[r].task].status \in Ready
  /\ pc[r] = "saveClosed" =>
       \A p \in Pid : child[p] # NoChild /\ p = target[r].pid => child[p].task = target[r].task

\* So say the queue on disk and what the user's command will save; and a task that
\* is about to be marked is on record as running.
BackedInv ==
  /\ Backed(queue, child, CutOff \union UNION {Bare(r) : r \in Runner})
  /\ command # NoCommand =>
       IF command.does = "save" THEN Backed(command.queue, child, CutOff)
       ELSE Has(queue, command.task, "running")
  /\ \A r \in Runner : BackedOK(r)

\* A task that has failed, or was removed, and will have no process again.
Spent(q, t) == t < q.nextId /\ (t \in Present(q) => q.task[t].status = "failed")

\* What runner r has in hand says so too.
SpentFor(r, t) ==
  /\ ~Occupied(child, t) /\ Spent(queue, t)
  /\ pc[r] \in Saving => Spent(snap[r], t)

Past(t) ==
  /\ \A r \in Runner : SpentFor(r, t)
  /\ ~Occupied(child, t) /\ Spent(queue, t)
  /\ command # NoCommand /\ command.does = "save" => Spent(command.queue, t)

\* A marker is for a process that is there, or for none that will ever come: the
\* spawn of its process failed, and the runner left before it heard the close.
MarkInv ==
  /\ BackedInv
  /\ \A t \in stop \ CutOff : Asked(child, t) \/ Past(t)

-----------------------------------------------------------------------------
(***************************************************************************)
(* Changes of a queue and of the processes.                                *)
(***************************************************************************)
\* The same processes, for the same tasks, and asked if they were; those of tasks in K
\* may be gone.
Same(K, processes, processes2) ==
  \A p \in Pid :
    /\ processes2[p] # NoChild =>
         processes[p] # NoChild /\ processes2[p].task = processes[p].task
    /\ processes[p] # NoChild /\ processes[p].task \notin K =>
         /\ processes2[p] # NoChild /\ processes2[p].task = processes[p].task
         /\ processes[p].asked = TRUE => processes2[p].asked = TRUE

LEMMA SameOccupied ==
  ASSUME NEW K, NEW processes, NEW processes2, Same(K, processes, processes2)
  PROVE  /\ \A t : Occupied(processes2, t) => Occupied(processes, t)
         /\ \A t : t \notin K /\ Asked(processes, t) => Asked(processes2, t)
         /\ \A q, T : Backed(q, processes, K \union T) => Backed(q, processes2, K \union T)
<1>1. \A t : t \notin K /\ Occupied(processes, t) => Occupied(processes2, t) BY DEF Same, Occupied
<1>2. \A t : t \notin K /\ Asked(processes, t) => Asked(processes2, t) BY DEF Same, Asked
<1>3. \A t : Occupied(processes2, t) => Occupied(processes, t) BY DEF Same, Occupied
<1>. QED BY <1>1, <1>2, <1>3 DEF Backed

LEMMA UpdatedBacked ==
  ASSUME NEW q, QueueType(q), NEW t \in Present(q), NEW record \in Record, NEW processes, NEW T,
         Backed(q, processes, T),
         record.status = "running" => t \in T \/ Occupied(processes, t)
  PROVE  Backed(Updated(q, t, record), processes, T)
<1> DEFINE q2 == Updated(q, t, record)
<1>1. /\ q2.task[t] = record /\ \A u \in Task \ {t} : q2.task[u] = q.task[u]
      /\ Present(q2) = Present(q)
  BY UpdatedOK
<1>. HIDE DEF q2
<1>2. Backed(q2, processes, T) BY <1>1 DEF Backed, Present
<1>. QED BY <1>2 DEF q2

LEMMA UpdatedSpent ==
  ASSUME NEW q, QueueType(q), NEW t \in Present(q), NEW record \in Record,
         NEW u \in Task \ {t}, Spent(q, u)
  PROVE  Spent(Updated(q, t, record), u)
<1> DEFINE q2 == Updated(q, t, record)
<1>1. q2.nextId = q.nextId /\ q2.task[u] = q.task[u] /\ Present(q2) = Present(q)
  BY UpdatedOK
<1>. HIDE DEF q2
<1>2. Spent(q2, u) BY <1>1 DEF Spent
<1>. QED BY <1>2 DEF q2

LEMMA SparesSpent ==
  ASSUME NEW q, NEW q2, QueueType(q), QueueType(q2), Spares(q, q2), NEW t \in Task, Spent(q, t)
  PROVE  Spent(q2, t)
BY DEF Spent, Spares, QueueType, Task

-----------------------------------------------------------------------------
(***************************************************************************)
(* Steps of a runner.                                                      *)
(***************************************************************************)
\* The part of the invariant that a step of runner r is about.
Minded(r) ==
  /\ Backed(queue', child', CutOff' \union Bare(r)') /\ BackedOK(r)'
  /\ \A t \in stop' \ CutOff' : Asked(child', t) \/ SpentFor(r, t)'

\* What a step of r begins with: the other runners are asleep.  It does not end r.
Minding(r) ==
  /\ CutOff' = CutOff
  /\ Backed(queue, child, CutOff \union Bare(r)) /\ BackedOK(r)
  /\ \A t \in stop \ CutOff : Asked(child, t) \/ SpentFor(r, t)

LEMMA MindingIs ==
  ASSUME MarkInv, NEW r \in Runner, \A s \in Runner \ {r} : pc[s] \in Asleep, CutOff' = CutOff
  PROVE  Minding(r)
<1>1. \A s \in Runner \ {r} : Bare(s) = {} BY DEF Bare, Asleep
<1>2. (UNION {Bare(s) : s \in Runner}) = Bare(r) BY <1>1
<1>. QED BY <1>2 DEF Minding, MarkInv, BackedInv, Past

\* Steps that save what was prepared, or read and decide.
LEMMA PlainMinded ==
  ASSUME RunnerInv, Typed, NEW r \in Runner, Minding(r),
         \/ TakeLock(r) \/ SaveReconciled(r) \/ Top(r) \/ SavePark(r) \/ SavePid(r)
         \/ SaveHeard(r) \/ SaveClosed(r) \/ Wake(r) \/ SaveDispatch(r)
  PROVE  Minded(r)
<1>. USE DEF Goto, Save, disk
<1>0. DOMAIN pc = Runner /\ DOMAIN snap = Runner BY DEF RunnerInv, OwnerInv, TypeInv
<1>1. /\ child' = child /\ stop' = stop /\ pc'[r] \notin Saving /\ pc'[r] # "dispatch"
      /\ \/ queue' = queue /\ pc[r] \notin Saving \union {"spawn"} /\ pc'[r] # "spawn"
         \/ queue' = snap[r] /\ pc[r] \in Saving \ {"saveDispatch"} /\ pc'[r] # "spawn"
         \/ queue' = snap[r] /\ pc[r] = "saveDispatch" /\ pc'[r] = "spawn" /\ target' = target
  <2>1. CASE TakeLock(r) \/ Top(r) \/ Wake(r)
    BY <1>0, <2>1 DEF TakeLock, Top, Wake, Saving
  <2>2. CASE SaveReconciled(r) \/ SavePark(r) \/ SavePid(r)
    BY <1>0, <2>2 DEF SaveReconciled, SavePark, Dispatching, SavePid, Saving
  <2>3. CASE SaveHeard(r) \/ SaveClosed(r)
    BY <1>0, <2>3 DEF SaveHeard, SaveClosed, Saving
  <2>4. CASE SaveDispatch(r) BY <1>0, <2>4 DEF SaveDispatch, Saving
  <2>. QED BY <2>1, <2>2, <2>3, <2>4
<1>2. Backed(queue', child', CutOff' \union Bare(r)')
  <2>1. CASE queue' = queue /\ pc[r] \notin Saving \union {"spawn"} /\ pc'[r] # "spawn"
    BY <1>1, <2>1 DEF Minding, Bare, Saving, Backed
  <2>2. CASE queue' = snap[r] /\ pc[r] \in Saving \ {"saveDispatch"} /\ pc'[r] # "spawn"
    <3>1. Backed(snap[r], child, CutOff) BY <2>2 DEF Minding, BackedOK, Backed
    <3>. QED BY <1>1, <2>2, <3>1 DEF Backed, Minding
  <2>3. CASE queue' = snap[r] /\ pc[r] = "saveDispatch" /\ pc'[r] = "spawn" /\ target' = target
    BY <1>1, <2>3 DEF Minding, BackedOK, Bare, Saving
  <2>. QED BY <1>1, <2>1, <2>2, <2>3
<1>3. BackedOK(r)' BY <1>1 DEF BackedOK, Saving
<1>4. \A t : SpentFor(r, t) => SpentFor(r, t)' BY <1>1 DEF SpentFor, Saving
<1>. QED BY <1>1, <1>2, <1>3, <1>4 DEF Minded, Minding

\* Reconcile leaves fewer tasks running, and failed ones alone.
LEMMA ReconcileMinded ==
  ASSUME RunnerInv, Typed, NEW r \in Runner, Minding(r), Reconcile(r)
  PROVE  Minded(r)
<1>0. DOMAIN pc = Runner /\ DOMAIN snap = Runner /\ QueueType(queue) /\ stop \subseteq Task
  BY DEF RunnerInv, OwnerInv, TypeInv, Typed, FieldsInv
<1>1. /\ pc[r] = "reconcile" /\ pc'[r] \in {"top", "saveReconciled"}
      /\ queue' = queue /\ child' = child /\ stop' = stop
      /\ pc'[r] = "saveReconciled" => snap'[r] = Reconciled(queue)
  BY <1>0 DEF Reconcile, Goto, Prepare, disk
<1>2. PICK f \in [Task -> Record \union {NoTask}] :
        /\ Reconciled(queue) = [queue EXCEPT !.task = f]
        /\ \A t \in Task : (f[t] = NoTask) <=> (queue.task[t] = NoTask)
        /\ \A t \in Task \ Interrupted(queue) : f[t] = queue.task[t]
        /\ \A t \in Interrupted(queue) : f[t].status = "pending"
  BY <1>0, ReconciledTasks
<1>3. Reconciled(queue).task = f /\ Reconciled(queue).nextId = queue.nextId
  BY <1>0, <1>2 DEF QueueType
<1>4. Backed(queue, child, CutOff) /\ CutOff' = CutOff BY <1>1 DEF Minding, Bare, Backed
<1>5. Backed(Reconciled(queue), child, CutOff)
  <2>. SUFFICES ASSUME NEW t \in Task \ CutOff, f[t] # NoTask, f[t].status = "running"
                PROVE  Occupied(child, t)
    BY <1>3 DEF Backed, Present
  <2>1. f[t] = queue.task[t] /\ t \in Present(queue) BY <1>2 DEF Present
  <2>. QED BY <1>4, <2>1 DEF Backed
<1>6. \A t \in Task : Spent(queue, t) => Spent(Reconciled(queue), t)
  <2>. SUFFICES ASSUME NEW t \in Task, Spent(queue, t), t \in Present(Reconciled(queue))
                PROVE  f[t].status = "failed"
    BY <1>3 DEF Spent
  <2>1. t \in Present(queue) BY <1>2, <1>3 DEF Present
  <2>2. queue.task[t].status = "failed" BY <2>1 DEF Spent
  <2>3. t \notin Interrupted(queue) BY <2>2 DEF Interrupted
  <2>. QED BY <1>2, <2>2, <2>3
<1>7. BackedOK(r)'
  <2>1. CASE pc'[r] = "top" BY <2>1 DEF BackedOK, Saving
  <2>2. CASE pc'[r] = "saveReconciled" BY <1>1, <1>4, <1>5, <2>2 DEF BackedOK, Backed
  <2>. QED BY <1>1, <2>1, <2>2
<1>8. \A t \in stop : SpentFor(r, t) => SpentFor(r, t)'
  BY <1>0, <1>1, <1>6 DEF SpentFor, Saving
<1>9. Backed(queue', child', CutOff' \union Bare(r)') BY <1>1, <1>4 DEF Backed
<1>. QED BY <1>1, <1>4, <1>7, <1>8, <1>9 DEF Minded, Minding

\* isActionable: what is taken is neither running nor failed.
LEMMA FillMinded ==
  ASSUME RunnerInv, Typed, NEW r \in Runner, Minding(r), Fill(r)
  PROVE  Minded(r)
<1>0. DOMAIN pc = Runner /\ target \in [Runner -> Target]
  BY DEF RunnerInv, OwnerInv, Typed, FieldsInv
<1>1. /\ queue' = queue /\ child' = child /\ stop' = stop /\ pc[r] = "fill"
      /\ pc'[r] \in {"dispatch", "exit", "rest", "top"}
      /\ pc'[r] = "dispatch" => target'[r].task \in NextDispatchable(queue, now)
  <2>1. /\ queue' = queue /\ child' = child /\ stop' = stop /\ pc[r] = "fill"
        /\ \/ /\ pc' = [pc EXCEPT ![r] = "dispatch"]
              /\ \E t \in NextDispatchable(queue, now) : target' = [target EXCEPT ![r].task = t]
           \/ \E place \in {"exit", "rest", "top"} : pc' = [pc EXCEPT ![r] = place]
    BY DEF Fill, Goto, disk
  <2>2. \A t : [target EXCEPT ![r].task = t][r].task = t BY <1>0 DEF Target
  <2>3. pc'[r] \in {"dispatch", "exit", "rest", "top"} BY <1>0, <2>1
  <2>4. ASSUME pc'[r] = "dispatch" PROVE target'[r].task \in NextDispatchable(queue, now)
    <3>1. \A place \in {"exit", "rest", "top"} : pc' # [pc EXCEPT ![r] = place] BY <1>0, <2>4
    <3>2. \E t \in NextDispatchable(queue, now) : target' = [target EXCEPT ![r].task = t] BY <2>1, <3>1
    <3>. QED BY <2>2, <3>2
  <2>. QED BY <2>1, <2>3, <2>4
<1>2. \A t \in NextDispatchable(queue, now) : queue.task[t].status \in Ready
  BY DEF NextDispatchable, Startable, Actionable, Ready
<1>3. BackedOK(r)' BY <1>1, <1>2 DEF BackedOK, Saving
<1>4. \A t : SpentFor(r, t) => SpentFor(r, t)' BY <1>1 DEF SpentFor, Saving
<1>5. Bare(r)' = {} /\ Bare(r) = {} BY <1>1 DEF Bare
<1>. QED BY <1>1, <1>3, <1>4, <1>5 DEF Minded, Minding

\* What a dispatch records runs, or is parked; it has not failed.
LEMMA DispatchMinded ==
  ASSUME RunnerInv, Typed, NEW r \in Runner, Minding(r), Dispatch(r), pc'[r] \notin {"dead", "threw"}
  PROVE  Minded(r)
<1> DEFINE t == target[r].task
<1>0. /\ TypeInv /\ DOMAIN pc = Runner /\ QueueType(queue) /\ stop \subseteq Task /\ pc[r] = "dispatch"
  BY DEF RunnerInv, OwnerInv, TypeInv, Typed, FieldsInv, Dispatch
<1>1. /\ t \in Present(queue) /\ queue' = queue /\ child' = child /\ target' = target
      /\ \E record \in Record :
           /\ snap'[r] = Updated(queue, t, record)
           /\ \/ pc'[r] = "savePark" /\ record.status = "needs-approval"
              \/ pc'[r] = "saveDispatch"
  BY <1>0, DispatchPrepares
<1>2. stop' = stop BY <1>0, <1>1 DEF Dispatch, Throw, End, Prepare, Goto, disk
<1>3. PICK record \in Record :
        /\ snap'[r] = Updated(queue, t, record)
        /\ \/ pc'[r] = "savePark" /\ record.status = "needs-approval"
           \/ pc'[r] = "saveDispatch"
  BY <1>1
<1>4. Backed(queue, child, CutOff) /\ CutOff' = CutOff BY <1>0 DEF Minding, Bare, Backed
<1>5. BackedOK(r)'
  <2>1. CASE pc'[r] = "savePark" /\ record.status = "needs-approval"
    <3>. HIDE DEF t
    <3>1. Backed(snap'[r], child, CutOff) BY <1>0, <1>1, <1>3, <1>4, <2>1, UpdatedBacked
    <3>. QED BY <1>1, <1>4, <2>1, <3>1 DEF BackedOK, Backed
  <2>2. CASE pc'[r] = "saveDispatch"
    <3>1. Backed(queue, child, CutOff \union {t}) BY <1>4 DEF Backed
    <3>2. t \in CutOff \union {t} OBVIOUS
    <3>3. Backed(snap'[r], child, CutOff \union {t})
      <4>. HIDE DEF t
      <4>. QED BY <1>0, <1>1, <1>3, <3>1, <3>2, UpdatedBacked
    <3>. QED BY <1>1, <1>4, <2>2, <3>3 DEF BackedOK
  <2>. QED BY <1>3, <2>1, <2>2
<1>6. ASSUME NEW u \in stop, SpentFor(r, u) PROVE SpentFor(r, u)'
  <2>1. queue.task[t].status # "failed" BY <1>0 DEF Minding, BackedOK, Ready
  <2>2. u # t BY <1>1, <1>6, <2>1 DEF SpentFor, Spent
  <2>3. Spent(snap'[r], u)
    <3>. HIDE DEF t
    <3>. QED BY <1>0, <1>1, <1>3, <1>6, <2>2, UpdatedSpent DEF SpentFor
  <2>. QED BY <1>1, <1>6, <2>3 DEF SpentFor
<1>7. Backed(queue', child', CutOff' \union Bare(r)') BY <1>1, <1>4 DEF Backed
<1>. QED BY <1>1, <1>2, <1>4, <1>5, <1>6, <1>7 DEF Minded, Minding

\* The process takes the task that was recorded as running.
LEMMA SpawnMinded ==
  ASSUME RunnerInv, Typed, NEW r \in Runner, Minding(r), Spawn(r)
  PROVE  Minded(r)
<1> DEFINE t == target[r].task
<1>0. /\ DOMAIN pc = Runner /\ DOMAIN child = Pid /\ pc[r] = "spawn" /\ Locked(queue, r, t)
      /\ target \in [Runner -> Target]
  BY DEF RunnerInv, OwnerInv, RunnerOK, Typed, FieldsInv, Spawn
<1>1. PICK i \in Pid, phase \in {"up", "unspawned"} :
        /\ child[i] = NoChild
        /\ child' = [child EXCEPT ![i] = Process(r, t, snap[r].task[t], phase)]
  BY DEF Spawn
<1>2. queue' = queue /\ stop' = stop /\ pc'[r] = "loadPid"
  BY <1>0 DEF Spawn, Goto, disk
<1> DEFINE c == Process(r, t, snap[r].task[t], phase)
<1>3. c.task = t /\ c # NoChild
  <2>1. t \in Task /\ snap[r].task[t] \in Record
    <3>1. t \in Task /\ t \in Present(snap[r]) BY <1>0 DEF Typed, HandInv, Hand, Holding
    <3>2. QueueType(snap[r]) BY SoundOK DEF Typed, SoundInv
    <3>. QED BY <3>1, <3>2 DEF QueueType, Present
  <2>2. c \in Child
    <3>. HIDE DEF t
    <3>. QED BY <2>1, ProcessType DEF t
  <2>. QED BY <2>2, NoChildIsNoChild DEF Process
<1>. HIDE DEF c
<1>4. child'[i] = c /\ \A p \in Pid \ {i} : child'[p] = child[p] BY <1>0, <1>1 DEF c
<1>5. \A u : Occupied(child, u) => Occupied(child', u) BY <1>1, <1>4 DEF Occupied
<1>6. \A u : Asked(child, u) => Asked(child', u) BY <1>1, <1>4 DEF Asked
<1>7. Backed(queue', child', CutOff' \union Bare(r)') /\ CutOff' = CutOff
  <2>1. Occupied(child', t) BY <1>3, <1>4 DEF Occupied
  <2>2. Backed(queue, child, CutOff \union {t}) /\ CutOff' = CutOff BY <1>0 DEF Minding, Bare
  <2>. HIDE DEF t
  <2>. QED BY <1>2, <1>5, <2>1, <2>2 DEF Backed
<1>8. BackedOK(r)' BY <1>2 DEF BackedOK, Saving
<1>9. ASSUME NEW u \in stop, SpentFor(r, u) PROVE SpentFor(r, u)'
  <2>1. queue.task[t].status = "running" /\ t \in Present(queue) BY <1>0 DEF Locked, Has
  <2>2. u # t BY <1>9, <2>1 DEF SpentFor, Spent
  <2>3. ~Occupied(child', u) BY <1>3, <1>4, <1>9, <2>2 DEF SpentFor, Occupied
  <2>. QED BY <1>2, <1>9, <2>3 DEF SpentFor, Saving
<1>. QED BY <1>2, <1>6, <1>7, <1>8, <1>9 DEF Minded, Minding

LEMMA LoadPidMinded ==
  ASSUME RunnerInv, Typed, NEW r \in Runner, Minding(r), LoadPid(r), pc'[r] \notin {"dead", "threw"}
  PROVE  Minded(r)
<1> DEFINE t == target[r].task
<1>0. /\ TypeInv /\ OwnerInv /\ QueueType(queue) /\ RunnerOK(r) /\ pc[r] = "loadPid" /\ stop \subseteq Task
  BY DEF RunnerInv, TypeInv, Typed, FieldsInv, LoadPid
<1>1. /\ pc'[r] = "savePid" /\ queue' = queue /\ child' = child /\ Locked(queue, r, t)
      /\ \E record \in Record : snap'[r] = Updated(queue, t, record)
  BY <1>0, LoadPidPrepares
<1>2. t \in Present(queue) /\ queue.task[t].status = "running" BY <1>1 DEF Locked, Has
<1>3. stop' = stop BY <1>2 DEF LoadPid, disk
<1>4. PICK record \in Record : snap'[r] = Updated(queue, t, record) BY <1>1
<1>5. Occupied(child, t) BY <1>0 DEF RunnerOK, Occupied
<1>6. Backed(queue, child, CutOff) /\ CutOff' = CutOff BY <1>0 DEF Minding, Bare, Backed
<1>7. BackedOK(r)'
  <2>1. Backed(snap'[r], child, CutOff)
    <3>. HIDE DEF t
    <3>. QED BY <1>0, <1>2, <1>4, <1>5, <1>6, UpdatedBacked
  <2>. QED BY <1>1, <1>6, <2>1 DEF BackedOK, Backed
<1>8. ASSUME NEW u \in stop, SpentFor(r, u) PROVE SpentFor(r, u)'
  <2>1. u # t BY <1>5, <1>8 DEF SpentFor
  <2>2. Spent(snap'[r], u)
    <3>. HIDE DEF t
    <3>. QED BY <1>0, <1>2, <1>4, <1>8, <2>1, UpdatedSpent DEF SpentFor
  <2>. QED BY <1>1, <1>8, <2>2 DEF SpentFor
<1>9. Backed(queue', child', CutOff' \union Bare(r)') BY <1>1, <1>6 DEF Backed
<1>. QED BY <1>1, <1>3, <1>6, <1>7, <1>8, <1>9 DEF Minded, Minding

LEMMA HeardMinded ==
  ASSUME RunnerInv, Typed, NEW r \in Runner, Minding(r), NEW p \in Pid,
         HearInit(r, p) \/ HearUsage(r, p), pc'[r] \notin {"dead", "threw"}
  PROVE  Minded(r)
<1> DEFINE t == child[p].task
           old == queue.task[t]
           record == [old EXCEPT !.session = TRUE]
<1>0. /\ DOMAIN pc = Runner /\ DOMAIN snap = Runner /\ QueueType(queue) /\ stop \subseteq Task
      /\ DOMAIN child = Pid
  BY DEF RunnerInv, OwnerInv, TypeInv, Typed, FieldsInv
<1>1. /\ child[p] # NoChild /\ child[p] \in Child /\ t \in Present(queue) /\ pc[r] = "rest"
      /\ pc'[r] = "saveHeard" /\ queue' = queue /\ stop' = stop
      /\ child' = child \/ child' = [child EXCEPT ![p].told = TRUE]
      /\ snap'[r] = queue \/ snap'[r] = Named(queue, t)
  BY <1>0 DEF HearInit, HearUsage, Hears, Throw, End, Handle, Prepare, Goto, Gone, Typed, FieldsInv
<1>2. Named(queue, t) = Updated(queue, t, record) BY Zenon DEF Named
<1>3. record \in Record /\ record.status = old.status
  <2>1. old \in Record BY <1>0, <1>1 DEF QueueType, Present
  <2>. HIDE DEF old
  <2>. QED BY <2>1 DEF Record
<1>4. Same(CutOff, child, child')
  <2>1. CASE child' = child BY <2>1 DEF Same
  <2>2. CASE child' = [child EXCEPT ![p].told = TRUE]
    <3> DEFINE c == [child[p] EXCEPT !.told = TRUE]
    <3>1. c \in Child /\ c.task = child[p].task /\ c.asked = child[p].asked BY <1>1 DEF Child
    <3>2. child'[p] = c /\ \A i \in Pid \ {p} : child'[i] = child[i] BY <1>0, <2>2
    <3>. HIDE DEF c
    <3>. QED BY <1>1, <3>1, <3>2, NoChildIsNoChild DEF Same
  <2>. QED BY <1>1, <2>1, <2>2
<1>5. Occupied(child, t) BY <1>1 DEF Occupied
<1>6. Backed(queue, child, CutOff) /\ CutOff' = CutOff BY <1>1 DEF Minding, Bare, Backed
<1>. HIDE DEF t, old, record
<1>7. Backed(snap'[r], child, CutOff) /\ \A u \in Task : Spent(queue, u) /\ ~Occupied(child, u) => Spent(snap'[r], u)
  <2>1. CASE snap'[r] = queue BY <1>6, <2>1
  <2>2. CASE snap'[r] = Updated(queue, t, record)
    BY <1>0, <1>1, <1>3, <1>5, <1>6, <2>2, UpdatedBacked, UpdatedSpent
  <2>. QED BY <1>1, <1>2, <2>1, <2>2
<1>8. Backed(queue, child', CutOff) /\ Backed(snap'[r], child', CutOff)
  <2>1. CutOff = CutOff \union {} OBVIOUS
  <2>. QED BY <1>4, <1>6, <1>7, <2>1, SameOccupied
<1>9. BackedOK(r)' BY <1>1, <1>6, <1>8 DEF BackedOK, Backed
<1>10. ASSUME NEW u \in stop \ CutOff PROVE Asked(child', u) \/ SpentFor(r, u)'
  <2>1. CASE Asked(child, u) BY <1>4, <2>1, SameOccupied
  <2>2. CASE SpentFor(r, u)
    <3>1. ~Occupied(child', u) BY <1>4, <2>2, SameOccupied DEF SpentFor
    <3>2. Spent(snap'[r], u) BY <1>0, <1>7, <2>2 DEF SpentFor
    <3>. QED BY <1>1, <2>2, <3>1, <3>2 DEF SpentFor
  <2>. QED BY <2>1, <2>2 DEF Minding
<1>11. Backed(queue', child', CutOff' \union Bare(r)') BY <1>1, <1>6, <1>8 DEF Backed
<1>. QED BY <1>1, <1>6, <1>9, <1>10, <1>11 DEF Minded

\* The close handler takes the marker with the process.
LEMMA ClosedMinded ==
  ASSUME RunnerInv, Typed, NEW r \in Runner, Minding(r), NEW p \in Pid,
         HearClose(r, p) \/ HearError(r, p), pc'[r] \notin {"dead", "threw"}
  PROVE  Minded(r)
<1> DEFINE t == child[p].task
<1>0. /\ TypeInv /\ DOMAIN pc = Runner /\ DOMAIN target = Runner /\ DOMAIN child = Pid
      /\ QueueType(queue) /\ UniqueInv /\ stop \subseteq Task
  BY DEF RunnerInv, OwnerInv, TypeInv, Typed, FieldsInv
<1>1. /\ child[p] # NoChild /\ child[p] \in Child /\ t \in Present(queue) /\ queue' = queue
      /\ pc[r] = "rest" /\ pc'[r] = "saveClosed"
      /\ \E record \in Record :
           /\ snap'[r] = Updated(queue, t, record) /\ record.status # "running"
           /\ \/ child' = [child EXCEPT ![p] = NoChild]
              \/ child' = [child EXCEPT ![p].phase = "errored"]
  BY <1>0, ClosePrepares
<1>2. /\ target'[r].task = t
      /\ \/ stop' = stop \ {t}
         \/ stop' = stop /\ child' = [child EXCEPT ![p].phase = "errored"]
  BY <1>0, <1>1 DEF HearClose, HearError, Throw, End, Handle, Prepare, Goto, Gone, Unmarked
<1>3. PICK record \in Record : snap'[r] = Updated(queue, t, record) /\ record.status # "running"
  BY <1>1
<1>4. \A i \in Pid \ {p} : child'[i] = child[i] BY <1>0, <1>1
<1>5. Occupied(child, t) BY <1>1 DEF Occupied
<1>6. Backed(queue, child, CutOff) /\ CutOff' = CutOff BY <1>1 DEF Minding, Bare, Backed
<1>7. child'[p] # NoChild => child'[p].task = t /\ (child[p].asked = TRUE => child'[p].asked = TRUE)
  <2> DEFINE c == [child[p] EXCEPT !.phase = "errored"]
  <2>1. c.task = t /\ c.asked = child[p].asked BY <1>1 DEF Child
  <2>2. child'[p] = NoChild \/ child'[p] = c BY <1>0, <1>1
  <2>. QED BY <2>1, <2>2
<1>8. child' = [child EXCEPT ![p].phase = "errored"] => child'[p] # NoChild
  <2> DEFINE c == [child[p] EXCEPT !.phase = "errored"]
  <2>1. c \in Child BY <1>1 DEF Child
  <2>2. child' = [child EXCEPT ![p].phase = "errored"] => child'[p] = c BY <1>0
  <2>. HIDE DEF c
  <2>. QED BY <2>1, <2>2, NoChildIsNoChild
<1>9. \A u : u # t => /\ Occupied(child', u) <=> Occupied(child, u)
                      /\ Asked(child, u) => Asked(child', u)
  <2>. SUFFICES ASSUME NEW u, u # t
                PROVE  /\ Occupied(child', u) <=> Occupied(child, u)
                       /\ Asked(child, u) => Asked(child', u)
    OBVIOUS
  <2>1. Occupied(child', u) => Occupied(child, u) BY <1>4, <1>7 DEF Occupied
  <2>2. Occupied(child, u) => Occupied(child', u) BY <1>4 DEF Occupied
  <2>3. Asked(child, u) => Asked(child', u) BY <1>4 DEF Asked
  <2>. QED BY <2>1, <2>2, <2>3
<1>. HIDE DEF t
<1>10. Backed(snap'[r], child, CutOff) /\ queue'.task = queue.task /\ snap'[r].task[t] = record
  BY <1>0, <1>1, <1>3, <1>6, UpdatedBacked, UpdatedOK
<1>11. Backed(queue', child', CutOff' \union Bare(r)') /\ BackedOK(r)'
  <2>1. Bare(r)' = {t} BY <1>1, <1>2 DEF Bare
  <2>2. Backed(queue, child', CutOff \union {t}) BY <1>6, <1>9 DEF Backed
  <2>3. Backed(snap'[r], child', CutOff) BY <1>3, <1>9, <1>10 DEF Backed
  <2>4. target'[r].pid = p BY <1>0, <1>1, ClosePrepares
  <2>. QED BY <1>1, <1>2, <1>6, <1>7, <2>1, <2>2, <2>3, <2>4 DEF BackedOK, Backed, t
<1>12. ASSUME NEW u \in stop' \ CutOff, u # t PROVE Asked(child', u) \/ SpentFor(r, u)'
  <2>1. u \in stop \ CutOff BY <1>2, <1>12
  <2>2. CASE Asked(child, u) BY <1>9, <1>12, <2>2
  <2>3. CASE SpentFor(r, u)
    <3>1. ~Occupied(child', u) BY <1>9, <1>12, <2>3 DEF SpentFor
    <3>2. Spent(snap'[r], u) BY <1>0, <1>1, <1>3, <1>12, <2>1, <2>3, UpdatedSpent DEF SpentFor
    <3>. QED BY <1>1, <2>3, <3>1, <3>2 DEF SpentFor
  <2>. QED BY <2>1, <2>2, <2>3 DEF Minding
<1>13. ASSUME t \in stop' \ CutOff PROVE Asked(child', t)
  <2>1. t \in stop \ CutOff /\ child' = [child EXCEPT ![p].phase = "errored"] BY <1>2, <1>13
  <2>2. Asked(child, t) BY <1>5, <2>1 DEF Minding, SpentFor
  <2>3. child[p].asked = TRUE
    <3>1. PICK i \in Pid : child[i] # NoChild /\ child[i].task = t /\ child[i].asked = TRUE
      BY <2>2 DEF Asked
    <3>2. i = p BY <1>0, <1>1, <3>1 DEF UniqueInv, t
    <3>. QED BY <3>1, <3>2
  <2>. QED BY <1>7, <1>8, <2>1, <2>3 DEF Asked
<1>. QED BY <1>6, <1>11, <1>12, <1>13 DEF Minded

\* With a runner that ends go its processes that have ended; those that tasks it was not
\* at had were never started.
LEMMA EndMarked ==
  ASSUME RunnerInv, Typed, HomeInv, MarkInv, NEW r \in Runner, RunnerStep(r), pc'[r] \in Ends
  PROVE  MarkInv'
<1>0. /\ TypeInv /\ UniqueInv /\ DiskInv /\ ParentInv /\ CommandInv /\ RunnerOK(r) /\ BackedInv
  BY DEF RunnerInv, MarkInv
<1>1. Alone(r) /\ command' = command /\ CutOff \subseteq CutOff' BY HomeSolo
<1>2. child' = Orphaned(r) /\ queue' = queue /\ stop' \subseteq stop BY EndMoves
<1>3. /\ AtHand(r) \subseteq CutOff'
      /\ \A p \in Pid : Working(child, p) => child[p].task \in CutOff'
  BY <1>1, EndCuts
<1>4. ASSUME NEW s \in Runner
      PROVE  Bare(s)' = {} /\ BackedOK(s)' /\ pc'[s] \notin Saving
  <2>1. pc'[s] \in {"unborn", "dead", "threw"} BY <1>1 DEF Alone, Ends
  <2>. QED BY <2>1 DEF Bare, BackedOK, Saving
<1>5. \A p \in Pid : child'[p] # NoChild => child[p] # NoChild /\ child'[p].task = child[p].task
  BY <1>0, <1>2, OrphanedOK DEF Fewer, Kin
<1>6. ASSUME NEW p \in Pid, child[p] # NoChild, child[p].task \notin CutOff'
      PROVE  /\ child'[p] = NoChild /\ Spent(queue, child[p].task)
             /\ command # NoCommand /\ command.does = "save" => Spent(command.queue, child[p].task)
  <2>1. child[p].phase = "errored" BY <1>3, <1>6 DEF Working
  <2>2. child[p].parent \in Runner /\ pc[child[p].parent] \notin Childless
    <3>1. child[p] \in Child BY <1>0, <1>6 DEF TypeInv
    <3>. QED BY <1>0, <1>6, <2>1, <3>1 DEF ParentInv, Child
  <2>3. child[p].parent = r BY <1>1, <2>2 DEF Alone, Childless
  <2>4. child'[p] = NoChild BY <1>2, <1>6, <2>1, <2>3 DEF Orphaned
  <2>5. \A s \in Runner : ~InHand(s, p)
    <3>. SUFFICES ASSUME NEW s \in Runner, InHand(s, p) PROVE FALSE OBVIOUS
    <3>1. s = r BY <1>1 DEF InHand, Alone
    <3>2. child[p].task = target[r].task BY <1>0, <1>6, <2>1, <3>1 DEF InHand, RunnerOK, BackedInv, BackedOK
    <3>3. child[p].task \in Task BY <1>0, <1>6 DEF TypeInv, Child
    <3>. QED BY <1>3, <1>6, <3>2, <3>3 DEF AtHand
  <2>6. Right(queue, p, child[p]) BY <1>0, <1>6, <2>5 DEF DiskInv
  <2>7. command # NoCommand /\ command.does = "save" => Right(command.queue, p, child[p])
    BY <1>0, <1>6 DEF CommandInv, Fits
  <2>. QED BY <2>1, <2>4, <2>6, <2>7 DEF Right, Over, Spent
<1>7. Backed(queue', child', CutOff' \union UNION {Bare(s)' : s \in Runner})
  <2>. SUFFICES ASSUME NEW t \in Present(queue) \ CutOff', queue.task[t].status = "running" PROVE FALSE
    BY <1>2 DEF Backed
  <2>1. t \notin UNION {Bare(s) : s \in Runner}
    <3>. SUFFICES ASSUME NEW s \in Runner, t \in Bare(s) PROVE FALSE OBVIOUS
    <3>1. s = r /\ t = target[r].task BY <1>1 DEF Bare, Alone
    <3>2. t \in AtHand(r) BY <3>1 DEF AtHand, Present
    <3>. QED BY <1>3, <3>2
  <2>2. PICK p \in Pid : child[p] # NoChild /\ child[p].task = t
    BY <1>0, <1>1, <2>1 DEF BackedInv, Backed, Occupied
  <2>. QED BY <1>6, <2>2 DEF Spent
<1>8. command' # NoCommand =>
        IF command'.does = "save" THEN Backed(command'.queue, child', CutOff')
        ELSE Has(queue', command'.task, "running")
  <2>1. ASSUME command # NoCommand, command.does = "save",
               NEW t \in Present(command.queue) \ CutOff', command.queue.task[t].status = "running"
        PROVE  FALSE
    <3>1. PICK p \in Pid : child[p] # NoChild /\ child[p].task = t
      BY <1>0, <1>1, <2>1 DEF BackedInv, Backed, Occupied
    <3>. QED BY <1>6, <2>1, <3>1 DEF Spent
  <2>2. command # NoCommand /\ command.does # "save" => Has(queue, command.task, "running")
    BY <1>0 DEF BackedInv
  <2>. QED BY <1>1, <1>2, <2>1, <2>2 DEF Backed
<1>9. ASSUME NEW t \in stop' \ CutOff' PROVE Past(t)'
  <2>1. ~Occupied(child', t) BY <1>5, <1>6, <1>9 DEF Occupied
  <2>2. Spent(queue, t) /\ (command # NoCommand /\ command.does = "save" => Spent(command.queue, t))
    <3>1. CASE Past(t) BY <3>1 DEF Past
    <3>2. CASE Asked(child, t) BY <1>6, <1>9, <3>2 DEF Asked
    <3>. QED BY <1>1, <1>2, <3>1, <3>2 DEF MarkInv
  <2>. QED BY <1>1, <1>2, <1>4, <2>1, <2>2 DEF Past, SpentFor
<1>. QED BY <1>4, <1>7, <1>8, <1>9 DEF MarkInv, BackedInv

LEMMA MarkRunner ==
  ASSUME ~Overlapping, RunnerInv, Typed, HomeInv, MarkInv, NEW r \in Runner, RunnerStep(r),
         pc'[r] \notin Ends
  PROVE  MarkInv'
<1>0. pc'[r] \notin {"dead", "threw"} BY DEF Ends
<1>1. /\ command' = NoCommand /\ CutOff' = CutOff
      /\ \A s \in Runner \ {r} : pc[s] \in Asleep /\ pc'[s] = pc[s]
  BY <1>0, Solo, HomeSolo DEF Alone
<1>2. Minding(r) BY <1>1, MindingIs
<1>3. Minded(r)
  <2>1. CASE \/ TakeLock(r) \/ SaveReconciled(r) \/ Top(r) \/ SavePark(r) \/ SavePid(r)
             \/ SaveHeard(r) \/ SaveClosed(r) \/ Wake(r) \/ SaveDispatch(r)
    BY <1>2, <2>1, PlainMinded
  <2>2. CASE Reconcile(r) BY <1>2, <2>2, ReconcileMinded
  <2>3. CASE Fill(r) BY <1>2, <2>3, FillMinded
  <2>4. CASE Dispatch(r) BY <1>0, <1>2, <2>4, DispatchMinded
  <2>5. CASE Spawn(r) BY <1>2, <2>5, SpawnMinded
  <2>6. CASE LoadPid(r) BY <1>0, <1>2, <2>6, LoadPidMinded
  <2>7. ASSUME NEW p \in Pid, Hear(r, p) PROVE Minded(r)
    <3>1. CASE HearInit(r, p) \/ HearUsage(r, p) BY <1>0, <1>2, <3>1, HeardMinded
    <3>2. CASE HearClose(r, p) \/ HearError(r, p) BY <1>0, <1>2, <3>2, ClosedMinded
    <3>. QED BY <2>7, <3>1, <3>2 DEF Hear
  <2>8. CASE Exit(r) \/ Crash(r)
    <3>1. DOMAIN pc = Runner BY DEF RunnerInv, OwnerInv
    <3>. QED BY <1>0, <2>8, <3>1 DEF Exit, Crash, End, Goto
  <2>. QED BY <2>1, <2>2, <2>3, <2>4, <2>5, <2>6, <2>7, <2>8 DEF RunnerStep, Stretch
<1>4. ASSUME NEW s \in Runner, s # r
      PROVE  Bare(s)' = {} /\ BackedOK(s)' /\ pc'[s] \notin Saving
  BY <1>1, <1>4 DEF Bare, BackedOK, Asleep, Saving
<1>5. Backed(queue', child', CutOff' \union UNION {Bare(s)' : s \in Runner})
  <2>1. (UNION {Bare(s)' : s \in Runner}) = Bare(r)' BY <1>4
  <2>. QED BY <1>3, <2>1 DEF Minded
<1>6. BackedInv' BY <1>1, <1>3, <1>4, <1>5 DEF BackedInv, Minded
<1>7. \A t : SpentFor(r, t)' => Past(t)' BY <1>1, <1>4 DEF Past, SpentFor
<1>. QED BY <1>3, <1>6, <1>7 DEF MarkInv, Minded

-----------------------------------------------------------------------------
(***************************************************************************)
(* The user and the processes.                                             *)
(***************************************************************************)
\* The same processes, with the queue and all that waits to be saved as it was.
LEMMA SameMarked ==
  ASSUME MarkInv, Same(CutOff, child, child'),
         UNCHANGED <<queue, pc, snap, target, inFlight>>,
         command' # NoCommand => command' = command,
         \A t \in stop' \ stop : Asked(child', t) \/ t \in CutOff
  PROVE  MarkInv'
<1>0. CutOff' = CutOff BY DEF CutOff
<1>1. /\ \A t : Occupied(child', t) => Occupied(child, t)
      /\ \A t : t \notin CutOff /\ Asked(child, t) => Asked(child', t)
      /\ \A q, T : Backed(q, child, CutOff \union T) => Backed(q, child', CutOff \union T)
  BY SameOccupied
<1>2. \A r \in Runner : Bare(r)' = Bare(r) BY DEF Bare
<1>3. Backed(queue', child', CutOff' \union UNION {Bare(r)' : r \in Runner})
  <2>1. (UNION {Bare(r)' : r \in Runner}) = UNION {Bare(r) : r \in Runner} BY <1>2
  <2>. QED BY <1>0, <1>1, <2>1 DEF MarkInv, BackedInv
<1>4. \A r \in Runner : BackedOK(r)'
  <2>. SUFFICES ASSUME NEW r \in Runner PROVE BackedOK(r)' OBVIOUS
  <2>1. BackedOK(r) BY DEF MarkInv, BackedInv
  <2>2. pc'[r] \in Saving =>
          Backed(snap'[r], child', CutOff' \union IF pc'[r] = "saveDispatch" THEN {target'[r].task} ELSE {})
    BY <1>0, <1>1, <2>1 DEF BackedOK
  <2>3. \A p \in Pid : child'[p] # NoChild => child[p] # NoChild /\ child'[p].task = child[p].task
    BY DEF Same
  <2>. QED BY <2>1, <2>2, <2>3 DEF BackedOK, Saving
<1>5. command' # NoCommand =>
        IF command'.does = "save" THEN Backed(command'.queue, child', CutOff')
        ELSE Has(queue', command'.task, "running")
  <2>1. CutOff = CutOff \union {} OBVIOUS
  <2>. QED BY <1>0, <1>1, <2>1 DEF MarkInv, BackedInv
<1>6. BackedInv' BY <1>3, <1>4, <1>5 DEF BackedInv
<1>7. \A t : Past(t) => Past(t)' BY <1>1 DEF Past, SpentFor, Saving
<1>. QED BY <1>0, <1>1, <1>6, <1>7 DEF MarkInv

\* requestStop: a task that runs when it is looked up runs when it is marked, and has its
\* process unless the end of a runner left it without one.
LEMMA MarkUser ==
  ASSUME ~Overlapping, RunnerInv, Typed, MarkInv, User
  PROVE  MarkInv'
<1>0. /\ TypeInv /\ TurnInv /\ QueueType(queue) /\ stop \subseteq Task /\ DOMAIN child = Pid
  BY DEF RunnerInv, TypeInv, Typed, FieldsInv
<1>1. UNCHANGED <<pc, snap, target, inFlight>>
  <2>1. inFlight' = inFlight
    BY DEF User, Add, Adopt, Rm, Approve, Stop, Move, Pause, Cleanup, CleanupOf, RemoveTrees,
       MarkAndKill, SaveCommand, WillSave, loop
  <2>. QED BY <2>1, UserMoves
<1>a. CutOff' = CutOff BY <1>1 DEF CutOff
<1>2. \A s \in Runner : pc[s] \in Asleep
  <2>1. MayEnter => \A s \in Runner : pc[s] \in Asleep BY DEF MayEnter, Quiet
  <2>2. SaveCommand \/ MarkAndKill => command # NoCommand BY DEF SaveCommand, MarkAndKill
  <2>. QED BY <1>0, <2>1, <2>2, CommandsSpare DEF TurnInv
<1>3. \A s \in Runner : Bare(s) = {} /\ Bare(s)' = {} /\ BackedOK(s)' /\ pc'[s] \notin Saving
  BY <1>1, <1>2 DEF Bare, BackedOK, Asleep, Saving
<1>4. (UNION {Bare(s) : s \in Runner}) = {} /\ (UNION {Bare(s)' : s \in Runner}) = {} BY <1>3
<1>5. Backed(queue, child, CutOff) BY <1>4 DEF MarkInv, BackedInv, Backed
<1>6. \A t : (~Occupied(child, t) /\ Spent(queue, t) => \A r \in Runner : SpentFor(r, t))
  BY <1>1, <1>3 DEF SpentFor
<1>7. CASE SaveCommand
  <2>1. /\ queue' = command.queue /\ command' = NoCommand /\ child' = child /\ stop' = stop
        /\ command # NoCommand /\ command.does = "save"
    BY <1>7 DEF SaveCommand
  <2>2. BackedInv' BY <1>3, <1>4, <1>a, <2>1 DEF MarkInv, BackedInv, Backed
  <2>3. \A t : Past(t) => Past(t)' BY <1>3, <2>1 DEF Past, SpentFor, Saving
  <2>. QED BY <1>a, <2>1, <2>2, <2>3 DEF MarkInv
<1>8. CASE MarkAndKill
  <2> DEFINE t == command.task
  <2>1. /\ queue' = queue /\ command' = NoCommand /\ stop' = stop \union {t}
        /\ command # NoCommand /\ command.does = "stop"
    BY <1>8 DEF MarkAndKill
  <2>2. ASSUME NEW p \in Pid, child[p] # NoChild
        PROVE  /\ child'[p] # NoChild /\ child'[p].task = child[p].task
               /\ child[p].asked = TRUE => child'[p].asked = TRUE
               /\ child[p].task = t => child'[p].asked = TRUE
    <3>1. child[p] \in Child BY <2>2 DEF Typed, FieldsInv
    <3>2. \/ child'[p] = child[p] /\ child[p].task # t
          \/ child'[p] = [child[p] EXCEPT !.asked = TRUE]
      BY <1>8, <2>2 DEF MarkAndKill
    <3>3. /\ child'[p] \in Child /\ child'[p].task = child[p].task
          /\ child[p].asked = TRUE => child'[p].asked = TRUE
          /\ child[p].task = t => child'[p].asked = TRUE
      BY <3>1, <3>2 DEF Child
    <3>. QED BY <3>3, NoChildIsNoChild
  <2>3. \A p \in Pid : child[p] = NoChild => child'[p] = NoChild BY <1>8 DEF MarkAndKill
  <2>4. Same(CutOff, child, child') BY <2>2, <2>3 DEF Same
  <2>5. Asked(child', t) \/ t \in CutOff
    <3>1. Has(queue, t, "running") BY <2>1 DEF MarkInv, BackedInv
    <3>2. Occupied(child, t) \/ t \in CutOff BY <1>5, <3>1 DEF Backed, Has
    <3>. QED BY <2>2, <3>2 DEF Asked, Occupied
  <2>. HIDE DEF t
  <2>. QED BY <1>1, <2>1, <2>4, <2>5, SameMarked
<1>9. CASE ~SaveCommand /\ ~MarkAndKill
  <2>1. queue' = queue /\ child' = child BY <1>0, <1>9, CommandsSpare
  <2>2. stop' = stop
    BY <1>9 DEF User, Add, Adopt, Rm, Approve, Stop, Move, Pause, Cleanup, CleanupOf, RemoveTrees,
       WillSave, disk
  <2>3. command = NoCommand
    <3>1. MayEnter => command = NoCommand BY DEF MayEnter, Quiet
    <3>. QED BY <1>0, <1>9, <3>1, CommandsSpare
  <2>4. command' # NoCommand =>
          IF command'.does = "save" THEN Backed(command'.queue, child, CutOff)
          ELSE Has(queue, command'.task, "running")
    <3>1. ASSUME NEW t \in Task, Stop(t)
          PROVE  command'.does = "stop" /\ command'.task = t /\ Has(queue, t, "running")
      BY <3>1 DEF Stop
    <3>2. ASSUME NEW q2, command' = [does |-> "save", queue |-> q2], Edited(queue, q2)
          PROVE  command'.does = "save" /\ Backed(command'.queue, child, CutOff)
      BY <1>5, <3>2 DEF Backed, Edited, Ready
    <3>. QED BY <1>9, <3>1, <3>2, CommandsEdit
  <2>5. BackedInv' BY <1>3, <1>4, <1>5, <1>a, <2>1, <2>4 DEF BackedInv, Backed
  <2>6. ASSUME NEW t \in stop, Past(t) PROVE Past(t)'
    <3>1. command' # NoCommand /\ command'.does = "save" => Spent(command'.queue, t)
      <4>1. CASE \E u \in Task : Stop(u) BY <4>1 DEF Stop
      <4>2. CASE \E q2 : /\ command' = [does |-> "save", queue |-> q2]
                         /\ QueueType(q2) /\ Spares(queue, q2)
        <5>1. PICK q2 : /\ command' = [does |-> "save", queue |-> q2]
                        /\ QueueType(q2) /\ Spares(queue, q2)
          BY <4>2
        <5>2. Spent(q2, t) BY <1>0, <2>6, <5>1, SparesSpent DEF Past
        <5>. QED BY <5>1, <5>2
      <4>. QED BY <1>0, <1>9, <4>1, <4>2, CommandsSpare
    <3>2. \A r \in Runner : SpentFor(r, t)' BY <1>3, <2>1, <2>6 DEF Past, SpentFor, Saving
    <3>. QED BY <2>1, <2>6, <3>1, <3>2 DEF Past
  <2>. QED BY <1>a, <2>1, <2>2, <2>5, <2>6 DEF MarkInv
<1>. QED BY <1>7, <1>8, <1>9

\* A process that ends is there until its runner hears it; an orphan is of a task that its
\* runner was at.
LEMMA MarkMachine ==
  ASSUME RunnerInv, Typed, HomeInv, MarkInv, Machine
  PROVE  MarkInv'
<1>. USE DEF disk, user, loop
<1>1. UNCHANGED <<pc, snap, target, command, queue, stop, inFlight>>
  BY DEF Machine, Say, Finish, UserCheckout, Tick
<1>2. Same(CutOff, child, child')
  <2>1. ASSUME NEW i \in Pid, Say(i) \/ Finish(i) PROVE Same(CutOff, child, child')
    <3>1. DOMAIN child = Pid /\ child[i] \in Child /\ child[i] # NoChild /\ child[i].phase = "up"
      BY <2>1 DEF Typed, FieldsInv, Say, Finish, Up
    <3>2. \/ child' = [child EXCEPT ![i].said = TRUE]
          \/ child' = [child EXCEPT ![i] = [child[i] EXCEPT !.phase = "exited"]]
          \/ child[i].parent = NoRunner /\ child' = [child EXCEPT ![i] = NoChild]
      BY <2>1 DEF Say, Finish, Ended
    <3>3. /\ \A j \in Pid \ {i} : child'[j] = child[j]
          /\ \/ /\ child'[i] \in Child /\ child'[i].task = child[i].task
                /\ child'[i].asked = child[i].asked
             \/ child[i].parent = NoRunner /\ child'[i] = NoChild
      <4>1. CASE child' = [child EXCEPT ![i].said = TRUE] BY <3>1, <4>1 DEF Child
      <4>2. CASE child' = [child EXCEPT ![i] = [child[i] EXCEPT !.phase = "exited"]]
        BY <3>1, <4>2 DEF Child
      <4>3. CASE child[i].parent = NoRunner /\ child' = [child EXCEPT ![i] = NoChild]
        BY <3>1, <4>3
      <4>. QED BY <3>2, <4>1, <4>2, <4>3
    <3>4. child[i].parent = NoRunner => child[i].task \in CutOff
      BY <3>1 DEF HomeInv, TendedInv, Working
    <3>. QED BY <3>1, <3>3, <3>4, NoChildIsNoChild DEF Same
  <2>2. ASSUME child' = child PROVE Same(CutOff, child, child') BY <2>2 DEF Same
  <2>. QED BY <2>1, <2>2 DEF Machine, UserCheckout, Tick
<1>. QED BY <1>1, <1>2, SameMarked

LEMMA MarkStep ==
  ASSUME ~Overlapping, RunnerInv, Typed, HomeInv, MarkInv, [Next]_vars
  PROVE  MarkInv'
<1>1. ASSUME NEW r \in Runner, RunnerStep(r) PROVE MarkInv' BY <1>1, EndMarked, MarkRunner
<1>2. CASE UNCHANGED vars
  <2>1. Same(CutOff, child, child') BY <1>2 DEF vars, Same
  <2>. QED BY <1>2, <2>1, SameMarked DEF vars, disk, user, loop
<1>3. ASSUME NEW r \in Runner, NEW m \in Mode, Start(r, m) PROVE MarkInv'
  <2>1. /\ UNCHANGED <<queue, child, snap, target, command, stop, inFlight>> /\ DOMAIN pc = Runner
        /\ pc[r] = "unborn" /\ pc' = [pc EXCEPT ![r] = pc'[r]] /\ pc'[r] \in {"lock", "dead"}
    BY <1>3 DEF Start, Goto, disk, user, RunnerInv, OwnerInv
  <2>2. \A s \in Runner : pc'[s] = pc[s] \/ (pc[s] = "unborn" /\ pc'[s] \in {"lock", "dead"})
    BY <2>1
  <2>0. CutOff \subseteq CutOff' BY <2>1, <2>2, CutGrows DEF Ends
  <2>3. ASSUME NEW s \in Runner
        PROVE  /\ Bare(s)' = Bare(s) /\ (BackedOK(s) => BackedOK(s)')
               /\ pc'[s] \in Saving => pc[s] \in Saving
    <3>1. CASE pc'[s] = pc[s]
      <4>1. pc[s] \in Saving /\ BackedOK(s) =>
              Backed(snap[s], child, CutOff' \union IF pc[s] = "saveDispatch" THEN {target[s].task} ELSE {})
        BY <2>0 DEF BackedOK, Backed
      <4>. QED BY <2>1, <3>1, <4>1 DEF Bare, BackedOK, Saving
    <3>2. CASE pc[s] = "unborn" /\ pc'[s] \in {"lock", "dead"}
      BY <2>1, <3>2 DEF Bare, BackedOK, Saving
    <3>. QED BY <2>2, <3>1, <3>2
  <2>4. (UNION {Bare(s)' : s \in Runner}) = UNION {Bare(s) : s \in Runner} BY <2>3
  <2>5. Backed(queue', child', CutOff' \union UNION {Bare(s)' : s \in Runner})
    BY <2>0, <2>1, <2>4 DEF MarkInv, BackedInv, Backed
  <2>6. command' # NoCommand /\ command'.does = "save" => Backed(command'.queue, child', CutOff')
    BY <2>0, <2>1 DEF MarkInv, BackedInv, Backed
  <2>7. BackedInv' BY <2>1, <2>3, <2>5, <2>6 DEF MarkInv, BackedInv
  <2>8. \A t : Past(t) => Past(t)' BY <2>1, <2>3 DEF Past, SpentFor, Saving
  <2>. QED BY <2>0, <2>1, <2>7, <2>8 DEF MarkInv
<1>4. CASE User BY <1>4, MarkUser
<1>5. CASE Machine BY <1>5, MarkMachine
<1>. QED BY <1>1, <1>2, <1>3, <1>4, <1>5 DEF Next, RunnerStep

\* The marker of carry stop tells the close handler of the process it was set for that its
\* end was asked for (requestStop, runner.mjs): no process that is started later is taken
\* for stopped, whatever was added, stopped, approved, adopted or removed, whichever
\* spawns failed, and however many runners came, left and died; but one of a task that a
\* runner was at when it ended, which is on record as running without a process, or with
\* one whose close nobody hears, and can be marked for its next one.
THEOREM MarkersMeetTheirRun ==
  ASSUME ~Overlapping, "crashAtSpawn" \notin Faults
  PROVE  Spec => MarkerIsForThisRun
<1>1. Init => HomeInv /\ MarkInv
  <2>. SUFFICES ASSUME Init PROVE HomeInv /\ MarkInv OBVIOUS
  <2>1. HomeInv BY HomeStart
  <2>2. Present(queue) = {} BY DEF Init, EmptyQueue, Present
  <2>3. \A r \in Runner : BackedOK(r) BY DEF Init, BackedOK, Saving
  <2>. QED BY <2>1, <2>2, <2>3 DEF Init, MarkInv, BackedInv, Backed
<1>2. RunnerInv /\ Typed /\ HomeInv /\ MarkInv /\ [Next]_vars => HomeInv' /\ MarkInv'
  BY HomeStep, MarkStep
<1>3. RunnerInv /\ MarkInv =>
        \A r \in Runner, p \in Pid : HearClose(r, p) /\ child[p].task \in stop =>
          child[p].asked \/ child[p].task \in CutOff
  <2>. SUFFICES ASSUME RunnerInv, MarkInv, NEW r \in Runner, NEW p \in Pid, HearClose(r, p),
                       child[p].task \in stop \ CutOff
                PROVE  child[p].asked = TRUE
    OBVIOUS
  <2>1. child[p] # NoChild BY DEF HearClose, Hears
  <2>2. Asked(child, child[p].task) BY <2>1 DEF MarkInv, Past, Occupied
  <2>. QED BY <2>1, <2>2 DEF Asked, RunnerInv, UniqueInv
<1>. QED BY <1>1, <1>2, <1>3, RunnerInvAlways, TypedAlways, PTL DEF Spec, MarkerIsForThisRun
==============================================================================
