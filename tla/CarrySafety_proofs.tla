------------------------- MODULE CarrySafety_proofs --------------------------
(***************************************************************************)
(* More of what the night runner promises, whatever is typed and however   *)
(* processes and runners end: its variables keep their types, its          *)
(* supervisor does not end by itself, the user's checkout comes home, and  *)
(* a task that is to be continued keeps its worktree.                      *)
(***************************************************************************)
EXTENDS CarryRunner_proofs, CarryQueue_proofs

-----------------------------------------------------------------------------
(***************************************************************************)
(* Types.                                                                  *)
(***************************************************************************)
Target == [task: Task \union {0}, pid: Pid \union {NoPid}]

\* Where a runner has a task in hand, and where that task is on the queue it keeps.
Holding == {"dispatch", "savePark", "saveDispatch", "spawn", "loadPid", "savePid", "saveHeard",
            "saveClosed"}

Hand(place, t, q) ==
  /\ place \in Holding => t \in Task
  /\ place \in {"saveDispatch", "spawn"} => t \in Present(q)

HandInv == \A r \in Runner : Hand(pc[r], target[r].task, snap[r])

\* Every copy of the queue is sound: that on disk, the runners' and the user's.
SoundInv ==
  /\ Sound(queue)
  /\ \A r \in Runner : Sound(snap[r])
  /\ command # NoCommand =>
       /\ command.does = "save" => Sound(command.queue)
       /\ command.does = "stop" => command.task \in Task

FieldsInv ==
  /\ pidFile \in Runner \union {NoRunner}
  /\ stop \subseteq Task /\ trees \subseteq Task /\ heard \subseteq Task
  /\ head \in [Project -> Branch]
  /\ now \in 0..MaxTime
  /\ pc \in [Runner -> Places]
  /\ mode \in [Runner -> Mode \union {"night"}]
  /\ target \in [Runner -> Target]
  /\ gate \in [Runner -> BOOLEAN] /\ fired \in [Runner -> BOOLEAN]
  /\ inFlight \in [Runner -> SUBSET Task]
  /\ DOMAIN snap = Runner /\ DOMAIN child = Pid
  /\ \A p \in Pid : child[p] # NoChild => child[p] \in Child
  /\ typed \in 0..MaxCommands

Typed == SoundInv /\ FieldsInv /\ HandInv

LEMMA SoundOK ==
  ASSUME NEW q, Sound(q) PROVE QueueOK(q) /\ QueueType(q)
<1>1. /\ Listing(q.order) /\ Ids(q.order) = Present(q)
      /\ \A t \in Task : q.task[t] \in Record \union {NoTask}
  BY DEF Sound
<1>2. Len(q.order) = Cardinality(Ids(q.order)) BY <1>1, ListingLength
<1>3. {q.order[i] : i \in 1..Len(q.order)} = Present(q) BY <1>1 DEF Ids
<1>4. q.nextId \in Nat \ {0} BY MaxTasksType DEF Sound
<1>. QED BY <1>1, <1>2, <1>3, <1>4 DEF Sound, QueueOK, QueueType

LEMMA TypedOK == ASSUME Typed PROVE TypeOK /\ TypeInv
<1>1. QueueOK(queue) /\ QueueType(queue) /\ \A r \in Runner : QueueOK(snap[r])
  BY SoundOK DEF Typed, SoundInv
<1>2. TypeOK BY <1>1 DEF Typed, FieldsInv, TypeOK, Branch, Target
<1>3. TypeInv
  <2>1. now \in Nat BY BoundsType DEF Typed, FieldsInv
  <2>2. \A r \in Runner : target[r] = [task |-> target[r].task, pid |-> target[r].pid]
    BY DEF Typed, FieldsInv, Target
  <2>3. DOMAIN target = Runner BY DEF Typed, FieldsInv
  <2>. QED BY <1>1, <2>1, <2>2, <2>3 DEF TypeInv, Typed, FieldsInv
<1>. QED BY <1>2, <1>3

LEMMA TypedInit == Init => Typed
<1>. SUFFICES ASSUME Init PROVE Typed OBVIOUS
<1>1. SoundInv BY EmptySound DEF Init, SoundInv
<1>2. FieldsInv
  <2>1. NoTarget \in Target BY DEF NoTarget, Target
  <2>2. "unborn" \in Places BY DEF Places
  <2>3. 0 \in 0..MaxTime /\ 0 \in 0..MaxCommands BY BoundsType
  <2>4. Main \in Branch BY DEF Branch
  <2>. QED BY <2>1, <2>2, <2>3, <2>4 DEF Init, FieldsInv
<1>3. HandInv BY DEF Init, HandInv, Hand, Holding
<1>. QED BY <1>1, <1>2, <1>3 DEF Typed

-----------------------------------------------------------------------------
(***************************************************************************)
(* What a runner saves.                                                    *)
(***************************************************************************)
\* reconcile changes the records of the interrupted tasks.
LEMMA ReconciledTasks ==
  ASSUME NEW q, QueueType(q)
  PROVE  \E f \in [Task -> Record \union {NoTask}] :
           /\ Reconciled(q) = [q EXCEPT !.task = f]
           /\ \A t \in Task : (f[t] = NoTask) <=> (q.task[t] = NoTask)
           /\ \A t \in Task \ Interrupted(q) : f[t] = q.task[t]
           /\ \A t \in Interrupted(q) :
                f[t].status = "pending" /\ f[t].lock = NoLock /\ f[t].session = q.task[t].session
<1> DEFINE f == [t \in Task |-> IF t \in Interrupted(q)
                   THEN [q.task[t] EXCEPT !.status = "pending", !.lock = NoLock]
                   ELSE q.task[t]]
<1>1. Reconciled(q) = [q EXCEPT !.task = f] BY Zenon DEF Reconciled
<1>2. ASSUME NEW t \in Interrupted(q)
      PROVE  /\ f[t] \in Record /\ f[t].status = "pending" /\ f[t].lock = NoLock
             /\ f[t].session = q.task[t].session
             /\ q.task[t] # NoTask
  <2>1. t \in Task /\ q.task[t] \in Record /\ q.task[t] # NoTask
    BY <1>2 DEF Interrupted, Present, QueueType
  <2>2. f[t] = [q.task[t] EXCEPT !.status = "pending", !.lock = NoLock] BY <1>2, <2>1
  <2>3. "pending" \in Status BY DEF Status
  <2>. HIDE DEF f
  <2>. QED BY <2>1, <2>2, <2>3 DEF Record
<1>3. \A t \in Task \ Interrupted(q) : f[t] = q.task[t] OBVIOUS
<1>4. \A t \in Task : (f[t] = NoTask) <=> (q.task[t] = NoTask)
  <2>. HIDE DEF f
  <2>. QED BY <1>2, <1>3, NoTaskIsNoTask
<1>5. f \in [Task -> Record \union {NoTask}]
  <2>1. \A t \in Task : f[t] \in Record \union {NoTask}
    <3>. HIDE DEF f
    <3>. QED BY <1>2, <1>3 DEF QueueType
  <2>. QED BY <2>1
<1>. HIDE DEF f
<1>. QED BY <1>1, <1>2, <1>3, <1>4, <1>5

LEMMA ReconciledSound ==
  ASSUME NEW q, Sound(q) PROVE Sound(Reconciled(q))
<1>0. QueueType(q) BY SoundOK
<1>1. PICK f \in [Task -> Record \union {NoTask}] :
        /\ Reconciled(q) = [q EXCEPT !.task = f]
        /\ \A t \in Task : (f[t] = NoTask) <=> (q.task[t] = NoTask)
  BY <1>0, ReconciledTasks
<1>2. Sound([q EXCEPT !.task = f]) BY <1>1, EditedSound
<1>. QED BY <1>1, <1>2

\* carry cleanup
LEMMA CleanedUpSound ==
  ASSUME NEW q, Sound(q), NEW T \in SUBSET Present(q), NEW all \in BOOLEAN
  PROVE  Sound(CleanedUp(q, T, all))
<1> DEFINE f == [t \in Task |-> IF t \in T THEN [q.task[t] EXCEPT !.worktree = FALSE] ELSE q.task[t]]
           kept == [q EXCEPT !.task = f]
           over == {t \in Present(q) : q.task[t].status \in Finished}
<1>1. CleanedUp(q, T, all) = IF all THEN Without(kept, over) ELSE kept
  BY DEF CleanedUp
<1>2. ASSUME NEW t \in T PROVE f[t] \in Record /\ q.task[t] # NoTask
  <2>1. t \in Task /\ q.task[t] \in Record /\ q.task[t] # NoTask BY DEF Present, Sound
  <2>2. f[t] = [q.task[t] EXCEPT !.worktree = FALSE] BY <2>1
  <2>. HIDE DEF f
  <2>. QED BY <2>1, <2>2 DEF Record
<1>3. \A t \in Task \ T : f[t] = q.task[t] OBVIOUS
<1>4. f \in [Task -> Record \union {NoTask}]
  <2>1. \A t \in Task : f[t] \in Record \union {NoTask}
    <3>. HIDE DEF f
    <3>. QED BY <1>2, <1>3 DEF Sound
  <2>. QED BY <2>1
<1>5. \A t \in Task : (f[t] = NoTask) <=> (q.task[t] = NoTask)
  <2>. HIDE DEF f
  <2>. QED BY <1>2, <1>3, NoTaskIsNoTask
<1>. HIDE DEF f
<1>6. Sound(kept) BY <1>4, <1>5, EditedSound
<1>. HIDE DEF kept, over
<1>. QED BY <1>1, <1>6, WithoutSound

\* loadPid's edit of the lock
LEMMA RepidSound ==
  ASSUME NEW q, Sound(q), NEW t \in Present(q), q.task[t].lock # NoLock,
         NEW pid \in Pid \union {NoPid}
  PROVE  Sound([q EXCEPT !.task[t].lock.pid = pid])
<1> DEFINE old == q.task[t]
           lock == [old.lock EXCEPT !.pid = pid]
           record == [old EXCEPT !.lock = lock]
<1>1. old \in Record BY DEF Sound, Present
<1>2. old.lock \in Lock BY <1>1 DEF Record
<1>3. lock \in Lock BY <1>2 DEF Lock
<1>4. record \in Record
  <2>. HIDE DEF old, lock
  <2>. QED BY <1>1, <1>3 DEF Record
<1>5. [q EXCEPT !.task[t].lock.pid = pid] = Updated(q, t, record) BY Zenon DEF Updated
<1>. HIDE DEF record
<1>. QED BY <1>4, <1>5, UpdatedSound

\* The step of a runner leaves it a sound copy, and the task in hand.
LEMMA RunnerHolds ==
  ASSUME Typed, NEW r \in Runner, RunnerStep(r)
  PROVE  /\ Sound(snap'[r]) /\ target'[r] \in Target /\ pc'[r] \in Places
         /\ Hand(pc'[r], target'[r].task, snap'[r])
<1>. USE DEF Goto
<1>0. /\ DOMAIN pc = Runner /\ DOMAIN snap = Runner /\ DOMAIN target = Runner
      /\ Sound(queue) /\ Sound(snap[r]) /\ target[r] \in Target
      /\ Hand(pc[r], target[r].task, snap[r]) /\ QueueType(queue)
  BY SoundOK DEF Typed, SoundInv, FieldsInv, HandInv
<1>1. TypeInv /\ now \in Nat /\ \A p \in Pid : child[p] # NoChild => child[p] \in Child
  BY TypedOK DEF TypeInv
<1>2. NoTarget \in Target BY DEF NoTarget, Target
<1>3. CASE End(r, "dead") \/ End(r, "threw")
  <2>1. snap'[r] = EmptyQueue /\ target'[r] = NoTarget /\ pc'[r] \in {"dead", "threw"}
    BY <1>0, <1>3 DEF End
  <2>. QED BY <1>2, <2>1, EmptySound DEF Places, Hand, Holding
<1>4. CASE TakeLock(r) \/ Top(r) \/ Wake(r)
  <2>1. snap' = snap /\ target' = target /\ pc'[r] \in {"reconcile", "fill", "top"}
    BY <1>0, <1>4 DEF TakeLock, Top, Wake
  <2>. QED BY <1>0, <2>1 DEF Places, Hand, Holding
<1>5. CASE Reconcile(r)
  <2>1. /\ target' = target /\ pc'[r] \in {"top", "saveReconciled"}
        /\ snap'[r] = snap[r] \/ snap'[r] = Reconciled(queue)
    BY <1>0, <1>5 DEF Reconcile, Prepare
  <2>. QED BY <1>0, <2>1, ReconciledSound DEF Places, Hand, Holding
<1>6. CASE SaveReconciled(r) \/ SavePark(r) \/ SavePid(r) \/ SaveHeard(r) \/ SaveClosed(r)
  <2>1. /\ snap'[r] = EmptyQueue /\ (target' = target \/ target'[r] = NoTarget)
        /\ pc'[r] \in {"top", "fill", "rest"}
    BY <1>0, <1>6 DEF SaveReconciled, SavePark, Dispatching, SavePid, SaveHeard, SaveClosed, Save
  <2>. QED BY <1>0, <1>2, <2>1, EmptySound DEF Places, Hand, Holding
<1>7. CASE Fill(r)
  <2>1. /\ snap' = snap /\ pc'[r] \in {"dispatch", "exit", "rest", "top"}
        /\ \/ target' = target /\ pc'[r] # "dispatch"
           \/ \E t \in NextDispatchable(queue, now) : target' = [target EXCEPT ![r].task = t]
    BY <1>0, <1>7 DEF Fill
  <2>2. NextDispatchable(queue, now) \subseteq Task
    <3>1. NextDispatchable(queue, now) \subseteq Ids(queue.order)
      BY DEF NextDispatchable, Startable, Ids
    <3>2. Ids(queue.order) = Present(queue) BY <1>0 DEF Sound
    <3>. QED BY <3>1, <3>2 DEF Present
  <2>3. \A t \in Task : [target EXCEPT ![r].task = t][r] \in Target
                        /\ [target EXCEPT ![r].task = t][r].task = t
    BY <1>0 DEF Target
  <2>4. target'[r] \in Target /\ (pc'[r] = "dispatch" => target'[r].task \in Task)
    <3>1. CASE target' = target /\ pc'[r] # "dispatch" BY <1>0, <3>1
    <3>2. CASE \E t \in NextDispatchable(queue, now) : target' = [target EXCEPT ![r].task = t]
      <4>1. PICK t \in Task : target' = [target EXCEPT ![r].task = t] BY <2>2, <3>2
      <4>. QED BY <2>3, <4>1
    <3>. QED BY <2>1, <3>1, <3>2
  <2>5. Sound(snap'[r]) BY <1>0, <2>1
  <2>. QED BY <2>1, <2>4, <2>5 DEF Places, Hand, Holding
<1>8. CASE Dispatch(r) /\ pc'[r] \notin {"dead", "threw"}
  <2>1. /\ target[r].task \in Present(queue) /\ target' = target
        /\ \E record \in Record : snap'[r] = Updated(queue, target[r].task, record)
        /\ pc'[r] \in {"savePark", "saveDispatch"}
    BY <1>0, <1>1, <1>8, DispatchPrepares
  <2>2. Sound(snap'[r]) /\ Present(snap'[r]) = Present(queue) BY <1>0, <2>1, UpdatedSound
  <2>. QED BY <1>0, <2>1, <2>2 DEF Places, Hand, Holding, Present
<1>9. CASE SaveDispatch(r)
  <2>1. pc[r] = "saveDispatch" /\ snap' = snap /\ target' = target /\ pc'[r] = "spawn"
    BY <1>0, <1>9 DEF SaveDispatch, loop
  <2>. QED BY <1>0, <2>1 DEF Places, Hand, Holding
<1>10. CASE Spawn(r)
  <2>1. /\ pc[r] = "spawn" /\ snap' = snap /\ pc'[r] = "loadPid"
        /\ \E p \in Pid : target' = [target EXCEPT ![r].pid = p]
    BY <1>0, <1>10 DEF Spawn
  <2>2. \A p \in Pid : [target EXCEPT ![r].pid = p][r] \in Target
                       /\ [target EXCEPT ![r].pid = p][r].task = target[r].task
    BY <1>0 DEF Target
  <2>. QED BY <1>0, <2>1, <2>2 DEF Places, Hand, Holding
<1>11. CASE LoadPid(r) /\ pc'[r] \notin {"dead", "threw"}
  <2> DEFINE t == target[r].task
             pid == IF child[target[r].pid].phase = "unspawned" THEN NoPid ELSE target[r].pid
  <2>1. /\ pc[r] = "loadPid" /\ pc'[r] = "savePid" /\ target' = target /\ t \in Present(queue)
        /\ snap'[r] = IF queue.task[t].lock = NoLock THEN queue
                      ELSE [queue EXCEPT !.task[t].lock.pid = pid]
    BY <1>0, <1>11 DEF LoadPid, Throw, End, Prepare
  <2>2. pid \in Pid \union {NoPid} BY <1>0 DEF Target
  <2>. HIDE DEF pid
  <2>3. CASE queue.task[t].lock = NoLock BY <1>0, <2>1, <2>3 DEF Places, Hand, Holding
  <2>4. CASE queue.task[t].lock # NoLock
    <3>1. Sound([queue EXCEPT !.task[t].lock.pid = pid]) BY <1>0, <2>1, <2>2, <2>4, RepidSound
    <3>2. Sound(snap'[r]) BY <2>1, <2>4, <3>1
    <3>. QED BY <1>0, <2>1, <3>2 DEF Places, Hand, Holding
  <2>. QED BY <2>3, <2>4
<1>12. ASSUME NEW p \in Pid, HearInit(r, p) \/ HearUsage(r, p), pc'[r] \notin {"dead", "threw"}
       PROVE  /\ Sound(snap'[r]) /\ target'[r] \in Target /\ pc'[r] \in Places
              /\ Hand(pc'[r], target'[r].task, snap'[r])
  <2> DEFINE t == child[p].task
             old == queue.task[t]
             record == [old EXCEPT !.session = TRUE]
  <2>1. /\ pc'[r] = "saveHeard" /\ target'[r] = [task |-> t, pid |-> p]
        /\ child[p] # NoChild /\ t \in Present(queue)
        /\ snap'[r] = queue \/ snap'[r] = Named(queue, t)
    BY <1>0, <1>12 DEF HearInit, HearUsage, Hears, Handle, Prepare, Throw, End, Gone
  <2>2. t \in Task BY <1>1, <2>1 DEF Child
  <2>3. Named(queue, t) = Updated(queue, t, record) BY Zenon DEF Named
  <2>4. old \in Record BY <1>0, <2>1 DEF QueueType, Present
  <2>5. record \in Record
    <3>. HIDE DEF old
    <3>. QED BY <2>4 DEF Record
  <2>. HIDE DEF record, t
  <2>6. Sound(snap'[r]) BY <1>0, <2>1, <2>3, <2>5, UpdatedSound
  <2>7. target'[r] \in Target /\ target'[r].task = t BY <2>1, <2>2 DEF Target
  <2>. QED BY <2>1, <2>2, <2>6, <2>7 DEF Places, Hand, Holding
<1>13. ASSUME NEW p \in Pid, HearClose(r, p) \/ HearError(r, p), pc'[r] \notin {"dead", "threw"}
       PROVE  /\ Sound(snap'[r]) /\ target'[r] \in Target /\ pc'[r] \in Places
              /\ Hand(pc'[r], target'[r].task, snap'[r])
  <2> DEFINE t == child[p].task
  <2>1. /\ child[p] # NoChild /\ child[p] \in Child /\ t \in Present(queue) /\ pc'[r] = "saveClosed"
        /\ \E record \in Record : snap'[r] = Updated(queue, t, record)
    BY <1>0, <1>1, <1>13, ClosePrepares
  <2>2. target'[r] = [task |-> t, pid |-> p]
    BY <1>0, <1>13 DEF HearClose, HearError, Handle, Prepare, Throw, End
  <2>3. t \in Task BY <2>1 DEF Child
  <2>. HIDE DEF t
  <2>4. Sound(snap'[r]) BY <1>0, <2>1, UpdatedSound
  <2>5. target'[r] \in Target /\ target'[r].task = t BY <2>2, <2>3 DEF Target
  <2>. QED BY <2>1, <2>3, <2>4, <2>5 DEF Places, Hand, Holding
<1>14. CASE pc'[r] \in {"dead", "threw"}
  <2>1. End(r, "dead") \/ End(r, "threw")
    BY <1>0, <1>14 DEF RunnerStep, Stretch, Hear, TakeLock, Reconcile, SaveReconciled, Top, Fill, Exit,
       Dispatch, SavePark, Dispatching, SaveDispatch, Spawn, LoadPid, SavePid, SaveHeard, SaveClosed,
       HearInit, HearUsage, HearClose, HearError, Wake, Crash, Throw, Handle, Prepare, Save
  <2>. QED BY <1>3, <2>1
<1>15. Exit(r) \/ Crash(r) => pc'[r] \in {"dead", "threw"} BY <1>0 DEF Exit, Crash, End
<1>. QED BY <1>4, <1>5, <1>6, <1>7, <1>8, <1>9, <1>10, <1>11, <1>12, <1>13, <1>14, <1>15
     DEF RunnerStep, Stretch, Hear

\* What a step of a runner leaves in the other variables.
LEMMA RunnerFields ==
  ASSUME Typed, NEW r \in Runner, RunnerStep(r)
  PROVE  /\ pidFile' \in Runner \union {NoRunner}
         /\ stop' \subseteq Task /\ trees' \subseteq Task /\ heard' \subseteq Task
         /\ mode' \in [Runner -> Mode \union {"night"}]
         /\ gate' \in [Runner -> BOOLEAN] /\ fired' \in [Runner -> BOOLEAN]
         /\ inFlight' \in [Runner -> SUBSET Task]
         /\ typed' = typed
<1>. USE DEF disk, loop, user
<1>0. /\ pidFile \in Runner \union {NoRunner}
      /\ stop \subseteq Task /\ trees \subseteq Task /\ heard \subseteq Task
      /\ mode \in [Runner -> Mode \union {"night"}]
      /\ gate \in [Runner -> BOOLEAN] /\ fired \in [Runner -> BOOLEAN]
      /\ inFlight \in [Runner -> SUBSET Task]
      /\ queue.paused \in BOOLEAN
      /\ pc[r] \in Holding => target[r].task \in Task
  BY DEF Typed, SoundInv, Sound, FieldsInv, HandInv, Hand
<1>a. AtHand(r) \subseteq Task /\ Unsettled(r) \subseteq Task BY <1>0 DEF AtHand, Unsettled
<1>1. CASE TakeLock(r) \/ Reconcile(r) \/ SaveReconciled(r) \/ Wake(r)
  BY <1>0, <1>1 DEF TakeLock, Reconcile, SaveReconciled, Wake
<1>2. CASE Top(r) BY <1>0, <1>2 DEF Top
<1>3. CASE Fill(r) \/ SaveDispatch(r) \/ Spawn(r)
  BY <1>0, <1>a, <1>3 DEF Fill, SaveDispatch, Spawn
<1>4. ASSUME NEW place, End(r, place)
      PROVE  /\ mode' \in [Runner -> Mode \union {"night"}]
             /\ gate' \in [Runner -> BOOLEAN] /\ fired' \in [Runner -> BOOLEAN]
             /\ inFlight' \in [Runner -> SUBSET Task]
  BY <1>0, <1>a, <1>4 DEF End
<1>5. CASE Exit(r) \/ Crash(r) \/ Throw(r) BY <1>0, <1>4, <1>5 DEF Exit, Crash, Throw
<1>6. CASE Dispatch(r) \/ LoadPid(r) BY <1>0, <1>5, <1>6 DEF Dispatch, LoadPid
<1>8. CASE SavePark(r) \/ SavePid(r)
  <2>1. target[r].task \in Task BY <1>0, <1>8 DEF SavePark, SavePid, Save, Holding
  <2>2. /\ inFlight' = [inFlight EXCEPT ![r] = @ \union {target[r].task}]
        /\ fired' = [fired EXCEPT ![r] = TRUE]
        /\ UNCHANGED <<pidFile, stop, trees, heard, mode, gate, typed>>
    BY <1>8 DEF SavePark, SavePid, Dispatching
  <2>3. inFlight' \in [Runner -> SUBSET Task] /\ fired' \in [Runner -> BOOLEAN]
    BY <1>0, <2>1, <2>2
  <2>. QED BY <1>0, <2>2, <2>3
<1>9. CASE SaveHeard(r)
  <2>1. target[r].task \in Task BY <1>0, <1>9 DEF SaveHeard, Save, Holding
  <2>. QED BY <1>0, <1>9, <2>1 DEF SaveHeard
<1>10. CASE SaveClosed(r) BY <1>0, <1>10 DEF SaveClosed
<1>11. ASSUME NEW p \in Pid, Hear(r, p), ~Throw(r)
       PROVE  /\ pidFile' = pidFile /\ stop' \subseteq stop /\ trees' = trees /\ heard' = heard
              /\ \/ UNCHANGED <<mode, gate, fired, inFlight>>
                 \/ End(r, "threw")
              /\ typed' = typed
  BY <1>11 DEF Hear, HearInit, HearUsage, HearClose, HearError, Handle, Unmarked
<1>12. CASE \E p \in Pid : Hear(r, p) BY <1>0, <1>4, <1>5, <1>11, <1>12
<1>. QED BY <1>1, <1>2, <1>3, <1>5, <1>6, <1>8, <1>9, <1>10, <1>12 DEF RunnerStep, Stretch

LEMMA RunnerTarget ==
  ASSUME Typed, NEW r \in Runner, RunnerStep(r)
  PROVE  target' \in [Runner -> Target]
<1>0. /\ target \in [Runner -> Target] /\ Sound(queue)
      /\ \A p \in Pid : child[p] # NoChild => child[p].task \in Task
  BY DEF Typed, SoundInv, FieldsInv, Child
<1>1. CASE target' = target BY <1>0, <1>1
<1>2. CASE target' = [target EXCEPT ![r] = NoTarget]
  BY <1>0, <1>2 DEF NoTarget, Target
<1>3. CASE Fill(r)
  <2>1. NextDispatchable(queue, now) \subseteq Task
    <3>1. NextDispatchable(queue, now) \subseteq Ids(queue.order)
      BY DEF NextDispatchable, Startable, Ids
    <3>2. Ids(queue.order) = Present(queue) BY <1>0 DEF Sound
    <3>. QED BY <3>1, <3>2 DEF Present
  <2>2. target' = target \/ \E t \in Task : target' = [target EXCEPT ![r].task = t]
    BY <1>3, <2>1 DEF Fill
  <2>3. \A t \in Task : [target EXCEPT ![r].task = t] \in [Runner -> Target]
    BY <1>0 DEF Target
  <2>. QED BY <1>1, <2>2, <2>3
<1>4. CASE Spawn(r)
  <2>1. \E p \in Pid : target' = [target EXCEPT ![r].pid = p] BY <1>4 DEF Spawn
  <2>. QED BY <1>0, <2>1 DEF Target
<1>5. CASE \E p \in Pid : Hear(r, p)
  <2>1. PICK p \in Pid : Hear(r, p) BY <1>5
  <2>2. \/ target' = [target EXCEPT ![r] = NoTarget]
        \/ target' = [target EXCEPT ![r] = [task |-> child[p].task, pid |-> p]]
    BY <2>1 DEF Hear, HearInit, HearUsage, HearClose, HearError, Handle, Throw, End
  <2>3. child[p] # NoChild BY <2>1 DEF Hear, HearInit, HearUsage, HearClose, HearError, Hears
  <2>4. [task |-> child[p].task, pid |-> p] \in Target BY <1>0, <2>3 DEF Target
  <2>. QED BY <1>0, <1>2, <2>2, <2>4
<1>6. CASE (Stretch(r) /\ ~Fill(r) /\ ~Spawn(r)) \/ Wake(r) \/ Crash(r)
  <2>1. target' = target \/ target' = [target EXCEPT ![r] = NoTarget]
    BY <1>6 DEF Stretch, TakeLock, Reconcile, SaveReconciled, Top, Exit, Dispatch, SavePark, Dispatching,
       SaveDispatch, LoadPid, SavePid, SaveHeard, SaveClosed, Wake, Crash, Throw, End
  <2>. QED BY <1>1, <1>2, <2>1
<1>. QED BY <1>3, <1>4, <1>5, <1>6 DEF RunnerStep

LEMMA RunnerTyped ==
  ASSUME Typed, NEW r \in Runner, RunnerStep(r) PROVE Typed'
<1>0. /\ TypeInv /\ DOMAIN pc = Runner /\ pc \in [Runner -> Places]
      /\ (\A s \in Runner : Sound(snap[s])) /\ Sound(queue)
      /\ \A s \in Runner : Hand(pc[s], target[s].task, snap[s])
  BY TypedOK DEF Typed, SoundInv, FieldsInv, HandInv
<1>1. /\ Sound(snap'[r]) /\ pc'[r] \in Places
      /\ Hand(pc'[r], target'[r].task, snap'[r])
  BY RunnerHolds
<1>2. /\ now' = now
      /\ queue' = queue \/ queue' = snap[r]
      /\ DOMAIN snap' = Runner
      /\ \A s \in Runner \ {r} : snap'[s] = snap[s] /\ target'[s] = target[s]
  BY <1>0, RunnerFrame
<1>3. pc' = [pc EXCEPT ![r] = pc'[r]] /\ command' = command BY <1>0, RunnerMoves
<1>4. pc' \in [Runner -> Places] /\ \A s \in Runner \ {r} : pc'[s] = pc[s]
  BY <1>0, <1>1, <1>3
<1>5. SoundInv'
  <2>1. \A s \in Runner : Sound(snap'[s]) BY <1>0, <1>1, <1>2
  <2>2. Sound(queue') BY <1>0, <1>2
  <2>. QED BY <1>3, <2>1, <2>2 DEF Typed, SoundInv
<1>6. HandInv' BY <1>0, <1>1, <1>2, <1>4 DEF HandInv
<1>7. DOMAIN child' = Pid /\ \A p \in Pid : child'[p] # NoChild => child'[p] \in Child
  <2>1. pc[r] = "spawn" => target[r].task \in Present(snap[r]) BY <1>0 DEF Hand
  <2>2. pc[r] = "spawn" => target[r].task \in Task /\ snap[r].task[target[r].task] \in Record
    BY <1>0, <2>1 DEF Sound, Present
  <2>. QED BY <1>0, <2>2, RunnerChildType
<1>8. head' \in [Project -> Branch]
  <2>1. Next BY DEF RunnerStep, Next
  <2>. QED BY <1>0, <2>1, HeadStep
<1>9. FieldsInv'
  <2>1. now \in 0..MaxTime /\ typed \in 0..MaxCommands BY DEF Typed, FieldsInv
  <2>. QED BY <1>2, <1>4, <1>7, <1>8, <2>1, RunnerFields, RunnerTarget DEF FieldsInv
<1>. QED BY <1>5, <1>6, <1>9 DEF Typed

-----------------------------------------------------------------------------
(***************************************************************************)
(* What the others do.                                                     *)
(***************************************************************************)
\* Every command computes a sound queue from the one it has loaded.
LEMMA CommandTyped ==
  ASSUME Typed, User
  PROVE  /\ command' # NoCommand =>
              /\ command'.does = "save" => Sound(command'.queue)
              /\ command'.does = "stop" => command'.task \in Task
         /\ queue' = queue \/ SaveCommand
         /\ stop' \subseteq Task /\ trees' \subseteq trees /\ heard' \subseteq Task
         /\ typed' \in 0..MaxCommands
         /\ UNCHANGED <<pidFile, mode, gate, fired, inFlight, snap, target, now, pc>>
<1>. USE DEF disk, loop
<1>0. /\ Sound(queue) /\ QueueType(queue) /\ stop \subseteq Task /\ heard \subseteq Task
      /\ typed \in 0..MaxCommands /\ MaxCommands \in Nat /\ now \in Nat
      /\ command # NoCommand => (command.does = "stop" => command.task \in Task)
  BY SoundOK, BoundsType DEF Typed, SoundInv, FieldsInv
<1> DEFINE Frame == /\ queue' = queue \/ SaveCommand
                    /\ stop' \subseteq Task /\ trees' \subseteq trees /\ heard' \subseteq Task
                    /\ UNCHANGED <<pidFile, mode, gate, fired, inFlight, snap, target, now, pc>>
<1>1. ASSUME NEW q, Sound(q), WillSave(q)
      PROVE  command' # NoCommand => /\ command'.does = "save" => Sound(command'.queue)
                                     /\ command'.does = "stop" => command'.task \in Task
  <2>1. command' = [does |-> "save", queue |-> q] BY <1>1 DEF WillSave
  <2>2. command'.does = "save" /\ command'.queue = q BY <2>1
  <2>. QED BY <1>1, <2>2
<1>2. ASSUME NEW q, WillSave(q), trees' \subseteq trees PROVE Frame
  BY <1>0, <1>2 DEF WillSave
<1>3. Types => typed' \in 0..MaxCommands BY <1>0 DEF Types
<1> HIDE DEF Frame
<1>4. ASSUME NEW plan \in BOOLEAN PROVE Fresh(plan) \in Record
  <2>1. "pending" \in Status BY DEF Status
  <2>. QED BY <2>1 DEF Fresh, Record
<1>5. CASE Add
  <2>1. PICK plan \in BOOLEAN : WillSave(WithTask(queue, Fresh(plan))) BY <1>5 DEF Add
  <2>2. queue.nextId <= MaxTasks /\ UNCHANGED <<typed, trees>> BY <1>5 DEF Add
  <2>3. Sound(WithTask(queue, Fresh(plan))) BY <1>0, <1>4, <2>2, WithTaskSound
  <2>. QED BY <1>0, <1>1, <1>2, <2>1, <2>2, <2>3 DEF Frame
<1>6. CASE Adopt
  <2> DEFINE record == [Fresh(FALSE) EXCEPT !.session = TRUE, !.status = "waiting", !.resume = now + 1]
  <2>1. /\ WillSave(WithTask(queue, record)) /\ queue.nextId <= MaxTasks /\ UNCHANGED <<typed, trees>>
    BY <1>6 DEF Adopt
  <2>2. record \in Record
    <3>1. Fresh(FALSE) \in Record
      <4>1. FALSE \in BOOLEAN OBVIOUS
      <4>. QED BY <1>4, <4>1
    <3>2. "waiting" \in Status /\ now + 1 \in Nat BY <1>0 DEF Status
    <3>. QED BY <3>1, <3>2 DEF Record
  <2>. HIDE DEF record
  <2>3. Sound(WithTask(queue, record)) BY <1>0, <2>1, <2>2, WithTaskSound
  <2>. QED BY <1>0, <1>1, <1>2, <2>1, <2>3 DEF Frame
<1>7. ASSUME NEW t \in Task, Rm(t) PROVE Sound(Without(queue, {t})) BY <1>0, WithoutSound
<1>8. CASE \E t \in Task : Rm(t)
  <2>1. PICK t \in Task : Rm(t) BY <1>8
  <2>2. WillSave(Without(queue, {t})) /\ Types /\ trees' = trees BY <2>1 DEF Rm
  <2>. QED BY <1>1, <1>2, <1>3, <1>7, <2>1, <2>2 DEF Frame
<1>9. CASE \E t \in Task : Approve(t)
  <2>1. PICK t \in Task : Approve(t) BY <1>9
  <2> DEFINE old == queue.task[t]
             record == [old EXCEPT !.status = "pending", !.plan = FALSE]
  <2>2. WillSave(Updated(queue, t, record)) /\ Types /\ trees' = trees /\ t \in Present(queue)
    BY <2>1 DEF Approve, Has
  <2>3. old \in Record /\ "pending" \in Status BY <1>0, <2>2 DEF QueueType, Present, Status
  <2>4. record \in Record
    <3>. HIDE DEF old
    <3>. QED BY <2>3 DEF Record
  <2>. HIDE DEF record
  <2>5. Sound(Updated(queue, t, record)) BY <1>0, <2>2, <2>4, UpdatedSound
  <2>. QED BY <1>1, <1>2, <1>3, <2>2, <2>5 DEF Frame
<1>10. CASE \E i \in 1..Len(queue.order), where \in {"top", "bottom", "up", "down"} : Move(i, where)
  <2>1. PICK i \in 1..Len(queue.order), where \in {"top", "bottom", "up", "down"} : Move(i, where)
    BY <1>10
  <2>2. WillSave(Moved(queue, i, where)) /\ Types /\ trees' = trees BY <2>1 DEF Move
  <2>3. Sound(Moved(queue, i, where)) BY <1>0, MovedSound
  <2>. QED BY <1>1, <1>2, <1>3, <2>2, <2>3 DEF Frame
<1>11. CASE \E on \in BOOLEAN : Pause(on)
  <2>1. PICK on \in BOOLEAN : Pause(on) BY <1>11
  <2>2. WillSave([queue EXCEPT !.paused = on]) /\ Types /\ trees' = trees BY <2>1 DEF Pause
  <2>3. Sound([queue EXCEPT !.paused = on]) BY <1>0, PausedSound
  <2>. QED BY <1>1, <1>2, <1>3, <2>2, <2>3 DEF Frame
<1>12. ASSUME NEW T \in SUBSET Present(queue), NEW all \in BOOLEAN, RemoveTrees(T, all), Types
       PROVE  /\ command' # NoCommand => /\ command'.does = "save" => Sound(command'.queue)
                                         /\ command'.does = "stop" => command'.task \in Task
              /\ Frame /\ typed' \in 0..MaxCommands
  <2>1. WillSave(CleanedUp(queue, T, all)) /\ trees' \subseteq trees BY <1>12 DEF RemoveTrees
  <2>2. Sound(CleanedUp(queue, T, all)) BY <1>0, CleanedUpSound
  <2>. QED BY <1>1, <1>2, <1>3, <1>12, <2>1, <2>2
<1>13. CASE \E all \in BOOLEAN : Cleanup(all) \/ \E t \in Task : CleanupOf(t, all)
  <2>1. PICK all \in BOOLEAN : Cleanup(all) \/ \E t \in Task : CleanupOf(t, all) BY <1>13
  <2>2. Cleanable(queue) \in SUBSET Present(queue) BY DEF Cleanable
  <2>3. \E T \in SUBSET Present(queue) : RemoveTrees(T, all) /\ Types
    BY <2>1, <2>2 DEF Cleanup, CleanupOf
  <2>. QED BY <1>12, <2>3 DEF Frame
<1>14. CASE \E t \in Task : Stop(t)
  <2>1. PICK t \in Task : Stop(t) BY <1>14
  <2>2. /\ command' = [does |-> "stop", task |-> t]
        /\ UNCHANGED <<disk, now, pc, loop, snap, target, child, heard>> /\ Types
    BY <2>1 DEF Stop
  <2>3. command'.does = "stop" /\ command'.task = t BY <2>2
  <2>. QED BY <1>0, <1>3, <2>2, <2>3
<1>15. CASE MarkAndKill BY <1>0, <1>15 DEF MarkAndKill
<1>16. CASE SaveCommand
  <2>1. Present(command.queue) \subseteq Task BY DEF Present
  <2>. QED BY <1>0, <1>16, <2>1 DEF SaveCommand
<1>. QED BY <1>5, <1>6, <1>8, <1>9, <1>10, <1>11, <1>13, <1>14, <1>15, <1>16 DEF User

\* Whatever steps overlap, every step leaves every copy of the queue sound.
LEMMA TypedStep ==
  ASSUME Typed, [Next]_vars PROVE Typed'
<1>0. TypeInv /\ head' \in [Project -> Branch] BY TypedOK, HeadStep
<1>1. CASE UNCHANGED vars
  BY <1>1 DEF Typed, SoundInv, FieldsInv, HandInv, vars, disk, loop, user
<1>2. ASSUME NEW r \in Runner, RunnerStep(r) PROVE Typed' BY <1>2, RunnerTyped
<1>3. ASSUME NEW r \in Runner, NEW m \in Mode, Start(r, m) PROVE Typed'
  <2>1. /\ UNCHANGED <<disk, now, gate, fired, inFlight, snap, target, child, user, heard>>
        /\ mode' = [mode EXCEPT ![r] = m]
        /\ pc' = [pc EXCEPT ![r] = "lock"] \/ pc' = [pc EXCEPT ![r] = "dead"]
    BY <1>3 DEF Start, Goto
  <2>2. pc' \in [Runner -> Places] /\ HandInv'
    <3>1. pc \in [Runner -> Places] /\ HandInv BY DEF Typed, FieldsInv
    <3>2. "lock" \in Places /\ "dead" \in Places BY DEF Places
    <3>. QED BY <2>1, <3>1, <3>2 DEF HandInv, Hand, Holding
  <2>3. mode' \in [Runner -> Mode \union {"night"}] BY <2>1 DEF Typed, FieldsInv
  <2>. QED BY <2>1, <2>2, <2>3 DEF Typed, SoundInv, FieldsInv, disk, user
<1>4. CASE User
  <2>1. DOMAIN child' = Pid /\ \A p \in Pid : child'[p] # NoChild => child'[p] \in Child
    BY <1>0, <1>4, OthersChildren
  <2>2. Sound(queue')
    <3>1. SaveCommand => Sound(queue') BY DEF SaveCommand, Typed, SoundInv
    <3>. QED BY <1>4, <3>1, CommandTyped DEF Typed, SoundInv
  <2>3. SoundInv' BY <1>4, <2>2, CommandTyped DEF Typed, SoundInv
  <2>4. FieldsInv' BY <1>0, <1>4, <2>1, CommandTyped DEF Typed, FieldsInv
  <2>5. HandInv' BY <1>4, CommandTyped DEF Typed, HandInv
  <2>. QED BY <2>3, <2>4, <2>5 DEF Typed
<1>5. CASE Machine
  <2>1. DOMAIN child' = Pid /\ \A p \in Pid : child'[p] # NoChild => child'[p] \in Child
    BY <1>0, <1>5, OthersChildren
  <2>2. /\ UNCHANGED <<queue, pidFile, stop, pc, mode, gate, fired, inFlight, snap, target, user, heard>>
        /\ now' = now \/ (now < MaxTime /\ now' = now + 1)
        /\ trees' = trees \/ \E p \in Pid : Up(p) /\ trees' = trees \union {child[p].task}
    BY <1>5 DEF Machine, Say, Finish, UserCheckout, Tick, disk, loop
  <2>3. trees' \subseteq Task
    <3>1. \A p \in Pid : Up(p) => child[p].task \in Task BY DEF Typed, FieldsInv, Up, Child
    <3>. QED BY <2>2, <3>1 DEF Typed, FieldsInv
  <2>4. now' \in 0..MaxTime BY <2>2, BoundsType DEF Typed, FieldsInv
  <2>5. SoundInv' /\ HandInv' BY <2>2 DEF Typed, SoundInv, HandInv, user
  <2>6. FieldsInv' BY <1>0, <2>1, <2>2, <2>3, <2>4 DEF Typed, FieldsInv, user
  <2>. QED BY <2>5, <2>6 DEF Typed
<1>. QED BY <1>1, <1>2, <1>3, <1>4, <1>5 DEF Next, RunnerStep

LEMMA TypedAlways == Spec => []Typed
<1>. QED BY TypedInit, TypedStep, PTL DEF Spec

\* Every variable holds what its file or its JavaScript variable can hold, and
\* whatever runners and commands do to it, in whatever order and however they
\* overlap, queue.json lists each of its tasks once, under ids that were given
\* out (store.mjs addTask, removeTask, moveTask, updateTask; cleanup.mjs).
THEOREM TypesHold == Spec => []TypeOK
<1>1. Typed => TypeOK BY TypedOK
<1>. QED BY <1>1, TypedAlways, PTL

-----------------------------------------------------------------------------
(***************************************************************************)
(* The supervisor does not end by itself.                                  *)
(***************************************************************************)
\* A task that does not run is not locked; that of a process is there, and it is
\* locked by nobody but the runner that hears the process.
Unlocked(q) == \A t \in Present(q) : q.task[t].status # "running" => q.task[t].lock = NoLock

Heeds(q, processes) ==
  \A p \in Pid : processes[p] # NoChild /\ processes[p].parent # NoRunner =>
    /\ processes[p].task \in Present(q)
    /\ LockAllows(q.task[processes[p].task], processes[p].parent)

Calm(q, processes) == Unlocked(q) /\ Heeds(q, processes)

\* Processes that fade away, or outlive their runner.
Fade(processes, processes2) ==
  \A p \in Pid : processes2[p] # NoChild =>
    /\ processes[p] # NoChild /\ processes2[p].task = processes[p].task
    /\ processes2[p].parent \in {processes[p].parent, NoRunner}

\* The status of a task that may be dispatched.
Ready == {"pending", "waiting"}

\* Every copy of the queue that will be saved says so; the task on its way to be
\* dispatched is there and ready; and so far nothing was thrown.
CalmInv ==
  /\ \A r \in Runner : pc[r] # "threw"
  /\ \A p \in Pid : child[p] # NoChild /\ child[p].phase \in {"unspawned", "errored"} =>
       "spawn" \in Faults
  /\ Calm(queue, child)
  /\ command # NoCommand /\ command.does = "save" => Calm(command.queue, child)
  /\ \A r \in Runner : pc[r] \in Saving => Calm(snap[r], child)
  /\ \A r \in Runner : pc[r] = "dispatch" =>
       target[r].task \in Present(queue) /\ queue.task[target[r].task].status \in Ready

LEMMA FadeCalm ==
  ASSUME NEW q, NEW processes, NEW processes2, Calm(q, processes), Fade(processes, processes2)
  PROVE  Calm(q, processes2)
BY DEF Calm, Fade, Heeds

\* A change that spares running tasks, unlocks all others, and removes no task of
\* a process whose start failed.
LEMMA SparesCalm ==
  ASSUME NEW q, NEW q2, NEW processes, Calm(q, processes), Fits(q, processes), Spares(q, q2),
         Unlocked(q2),
         \A p \in Pid : processes[p] # NoChild =>
           /\ processes[p] \in Child
           /\ processes[p].phase = "errored" => Present(q) \subseteq Present(q2)
  PROVE  Calm(q2, processes)
<1>. SUFFICES ASSUME NEW p \in Pid, processes[p] # NoChild, processes[p].parent # NoRunner
              PROVE  /\ processes[p].task \in Present(q2)
                     /\ LockAllows(q2.task[processes[p].task], processes[p].parent)
  BY DEF Calm, Heeds
<1> DEFINE c == processes[p]
<1>1. /\ c.task \in Task /\ Right(q, p, c) /\ c.task \in Present(q)
      /\ LockAllows(q.task[c.task], c.parent)
      /\ c.phase = "errored" => Present(q) \subseteq Present(q2)
  BY DEF Child, Fits, Calm, Heeds
<1>. HIDE DEF c
<1>2. CASE c.phase # "errored"
  <2>1. Has(q, c.task, "running") BY <1>1, <1>2 DEF Right, Names
  <2>2. Has(q2, c.task, "running") /\ q2.task[c.task].lock = q.task[c.task].lock
    BY <1>1, <2>1 DEF Spares
  <2>. QED BY <1>1, <2>2 DEF LockAllows, Has, c
<1>3. CASE c.phase = "errored"
  <2>1. c.task \in Present(q2) BY <1>1, <1>3
  <2>2. c.task < q.nextId /\ q.task[c.task].status = "failed"
    BY <1>1, <1>3 DEF Right, Over
  <2>3. q2.task[c.task].status = "failed" BY <1>1, <2>1, <2>2 DEF Spares
  <2>4. q2.task[c.task].lock = NoLock BY <2>1, <2>3 DEF Unlocked
  <2>. QED BY <2>1, <2>4 DEF LockAllows, c
<1>. QED BY <1>2, <1>3

\* A record that is locked only while it runs, and by the runner of its process.
LEMMA UpdatedCalm ==
  ASSUME NEW q, QueueType(q), NEW t \in Present(q), NEW record \in Record, NEW processes,
         Calm(q, processes), record.status # "running" => record.lock = NoLock,
         \A p \in Pid : processes[p] # NoChild =>
           /\ processes[p].task \in Task
           /\ processes[p].task = t /\ processes[p].parent # NoRunner =>
                LockAllows(record, processes[p].parent)
  PROVE  Calm(Updated(q, t, record), processes)
<1> DEFINE q2 == Updated(q, t, record)
<1>1. /\ q2.task[t] = record /\ \A u \in Task \ {t} : q2.task[u] = q.task[u]
      /\ Present(q2) = Present(q)
  BY UpdatedOK
<1>. HIDE DEF q2
<1>2. Unlocked(q2) BY <1>1 DEF Calm, Unlocked, Present
<1>3. Heeds(q2, processes)
  <2>. SUFFICES ASSUME NEW p \in Pid, processes[p] # NoChild, processes[p].parent # NoRunner
                PROVE  /\ processes[p].task \in Present(q2)
                       /\ LockAllows(q2.task[processes[p].task], processes[p].parent)
    BY DEF Heeds
  <2>1. /\ processes[p].task \in Present(q)
        /\ LockAllows(q.task[processes[p].task], processes[p].parent)
    BY DEF Calm, Heeds
  <2>. QED BY <1>1, <2>1
<1>. QED BY <1>2, <1>3 DEF Calm, q2

\* No statement and no handler of a runner throws.
LEMMA NothingThrows ==
  ASSUME ~Overlapping, RunnerInv, CalmInv, NEW r \in Runner, RunnerStep(r)
  PROVE  pc'[r] # "threw"
<1>. USE DEF Goto
<1>0. /\ DOMAIN pc = Runner /\ TypeInv /\ DiskInv /\ RunnerOK(r)
      /\ Calm(queue, child)
  BY DEF RunnerInv, OwnerInv, CalmInv
<1>1. CASE \/ TakeLock(r) \/ Reconcile(r) \/ SaveReconciled(r) \/ Top(r) \/ Fill(r)
           \/ SavePark(r) \/ SaveDispatch(r) \/ Spawn(r) \/ SavePid(r)
           \/ SaveHeard(r) \/ SaveClosed(r) \/ Wake(r)
  BY <1>0, <1>1 DEF TakeLock, Reconcile, SaveReconciled, Top, Fill, SavePark, Dispatching, SaveDispatch, Spawn,
     SavePid, SaveHeard, SaveClosed, Wake, Prepare, Save
<1>2. CASE Exit(r) \/ Crash(r) BY <1>0, <1>2 DEF Exit, Crash, End
<1>3. CASE Dispatch(r)
  <2>1. target[r].task \in Present(queue) /\ queue.task[target[r].task].status \in Ready
    BY <1>3 DEF Dispatch, CalmInv
  <2>2. LockAllows(queue.task[target[r].task], r)
    BY <1>0, <2>1 DEF Calm, Unlocked, LockAllows, Ready
  <2>3. pc' = [pc EXCEPT ![r] = "savePark"] \/ pc' = [pc EXCEPT ![r] = "saveDispatch"]
    BY <1>3, <2>1, <2>2 DEF Dispatch, Prepare
  <2>. QED BY <1>0, <2>3
<1>4. CASE LoadPid(r)
  <2>1. target[r].task \in Present(queue)
    BY <1>0, <1>4 DEF LoadPid, RunnerOK, Locked, Has
  <2>2. pc' = [pc EXCEPT ![r] = "savePid"] BY <1>4, <2>1 DEF LoadPid, Prepare
  <2>. QED BY <1>0, <2>2
<1>5. ASSUME NEW p \in Pid, Hear(r, p) PROVE pc'[r] # "threw"
  <2> DEFINE t == child[p].task
  <2>1. pc[r] = "rest" /\ child[p] # NoChild /\ child[p].parent = r
    BY <1>5 DEF Hear, HearInit, HearUsage, HearClose, HearError, Hears
  <2>2. t \in Present(queue) /\ LockAllows(queue.task[t], r)
    BY <1>0, <2>1, NoRunnerIsNoRunner DEF Calm, Heeds
  <2>3. pc' = [pc EXCEPT ![r] = "saveHeard"] \/ pc' = [pc EXCEPT ![r] = "saveClosed"]
    BY <1>5, <2>2 DEF Hear, HearInit, HearUsage, HearClose, HearError, Handle, Prepare, Gone
  <2>. QED BY <1>0, <2>3
<1>. QED BY <1>1, <1>2, <1>3, <1>4, <1>5 DEF RunnerStep, Stretch

\* What a command makes of the records: those of old tasks keep their lock, their
\* branches and their session, and their status but for an approval; those of new ones
\* have none, but that carry adopt names a session of a task without a checkout.
Edited(q, q2) ==
  \A t \in Present(q2) :
    \/ /\ t \in Present(q)
       /\ q2.task[t].lock = q.task[t].lock
       /\ q2.task[t].branch = q.task[t].branch /\ q2.task[t].base = q.task[t].base
       /\ q2.task[t].session = q.task[t].session
       /\ \/ q2.task[t].status = q.task[t].status
          \/ q.task[t].status = "needs-approval" /\ q2.task[t].status = "pending"
    \/ /\ q2.task[t].lock = NoLock
       /\ q2.task[t].branch = FALSE /\ q2.task[t].base = NoBranch
       /\ q2.task[t].status \in Ready
       /\ q2.task[t].session = TRUE => Iso[t] = "none"

Removing == {"rm", "cleanup", "cleanupId"}

LEMMA EditedUnlocked ==
  ASSUME NEW q, NEW q2, Edited(q, q2), Unlocked(q) PROVE Unlocked(q2)
<1>. SUFFICES ASSUME NEW t \in Present(q2), q2.task[t].status # "running"
              PROVE  q2.task[t].lock = NoLock
  BY DEF Unlocked
<1>. QED BY DEF Edited, Unlocked

LEMMA CommandsEdit ==
  ASSUME Typed, User, ~SaveCommand, ~MarkAndKill
  PROVE  \/ \E t \in Task : Stop(t)
         \/ \E q2 : /\ command' = [does |-> "save", queue |-> q2]
                    /\ Edited(queue, q2)
                    /\ Commands \intersect Removing = {} => Present(queue) \subseteq Present(q2)
<1>. USE DEF WillSave
<1>0. /\ Sound(queue) /\ QueueType(queue) /\ now \in Nat
      /\ Commands \intersect Removing = {} =>
           "rm" \notin Commands /\ "cleanup" \notin Commands /\ "cleanupId" \notin Commands
  BY SoundOK, TypedOK DEF Typed, SoundInv, TypeInv, Removing
<1> DEFINE Goal(q2) == /\ Edited(queue, q2)
                       /\ Commands \intersect Removing = {} => Present(queue) \subseteq Present(q2)
<1>1. ASSUME NEW record \in Record, queue.nextId <= MaxTasks, record.lock = NoLock,
             record.branch = FALSE, record.base = NoBranch, record.status \in Ready,
             record.session = TRUE => Iso[queue.nextId] = "none"
      PROVE  Goal(WithTask(queue, record))
  <2> DEFINE n == queue.nextId
             q2 == WithTask(queue, record)
             f == [queue.task EXCEPT ![n] = record]
  <2>1. n \in Task BY <1>0, <1>1, MaxTasksType DEF Task, Sound
  <2>2. q2.task = f
    <3>1. WithTask(queue, record) =
            [queue EXCEPT !.task = f, !.order = Append(queue.order, n), !.nextId = n + 1]
      BY Zenon DEF WithTask
    <3>. HIDE DEF f, n
    <3>. QED BY <1>0, <3>1 DEF QueueType
  <2>3. f[n] = record /\ \A t \in Task \ {n} : f[t] = queue.task[t]
    BY <1>0, <2>1 DEF QueueType
  <2>4. n \notin Present(queue) BY <1>0, <2>1 DEF QueueType, Task
  <2>8. record.session = TRUE => Iso[n] = "none" BY <1>1
  <2>. HIDE DEF f, q2, n
  <2>5. ASSUME NEW t \in Present(q2), t # n PROVE t \in Present(queue) /\ q2.task[t] = queue.task[t]
    BY <2>2, <2>3, <2>5 DEF Present
  <2>6. Edited(queue, q2) BY <1>1, <2>2, <2>3, <2>5, <2>8 DEF Edited
  <2>7. Present(queue) \subseteq Present(q2) BY <2>2, <2>3, <2>4 DEF Present
  <2>. QED BY <2>6, <2>7 DEF q2
<1>2. ASSUME NEW T PROVE Edited(queue, Without(queue, T))
  <2> DEFINE f == [t \in Task |-> IF t \in T THEN NoTask ELSE queue.task[t]]
  <2>1. Without(queue, T).task = f
    <3>1. Without(queue, T) = [queue EXCEPT !.task = f, !.order = Remaining(queue.order, T)]
      BY Zenon DEF Without
    <3>. HIDE DEF f
    <3>. QED BY <1>0, <3>1 DEF QueueType
  <2>2. \A t \in Task : f[t] # NoTask => f[t] = queue.task[t] /\ queue.task[t] # NoTask OBVIOUS
  <2>. HIDE DEF f
  <2>. QED BY <2>1, <2>2 DEF Edited, Present
<1>3. ASSUME NEW q2, q2.task = queue.task PROVE Goal(q2)
  BY <1>3 DEF Edited, Present
<1>4. ASSUME NEW t \in Present(queue), queue.task[t].status = "needs-approval"
      PROVE  Goal(Updated(queue, t, [queue.task[t] EXCEPT !.status = "pending", !.plan = FALSE]))
  <2> DEFINE old == queue.task[t]
             record == [old EXCEPT !.status = "pending", !.plan = FALSE]
  <2>1. old \in Record /\ "pending" \in Status BY <1>0, <1>4 DEF QueueType, Present, Status
  <2>2. /\ record \in Record /\ record.status = "pending" /\ record.lock = old.lock
        /\ record.branch = old.branch /\ record.base = old.base /\ record.session = old.session
    <3>. HIDE DEF old
    <3>. QED BY <2>1 DEF Record
  <2>. HIDE DEF record
  <2> DEFINE q2 == Updated(queue, t, record)
  <2>3. /\ q2.task[t] = record /\ \A u \in Task \ {t} : q2.task[u] = queue.task[u]
        /\ Present(q2) = Present(queue)
    BY <1>0, <2>2, UpdatedOK
  <2>. HIDE DEF q2
  <2>4. Edited(queue, q2) BY <1>4, <2>2, <2>3 DEF Edited, Present
  <2>. QED BY <2>3, <2>4 DEF q2, record
<1>5. ASSUME NEW T \in SUBSET Present(queue), NEW all \in BOOLEAN
      PROVE  Edited(queue, CleanedUp(queue, T, all))
  <2> DEFINE f == [t \in Task |-> IF t \in T THEN [queue.task[t] EXCEPT !.worktree = FALSE]
                                  ELSE queue.task[t]]
             kept == [queue EXCEPT !.task = f]
             over == {t \in Present(queue) : queue.task[t].status \in Finished}
             g == [t \in Task |-> IF t \in over THEN NoTask ELSE f[t]]
  <2>1. CleanedUp(queue, T, all) = IF all THEN Without(kept, over) ELSE kept BY DEF CleanedUp
  <2>2. kept.task = f
    <3>. HIDE DEF f
    <3>. QED BY <1>0 DEF QueueType
  <2>3. Without(kept, over).task = g
    <3>1. kept = [task |-> f, order |-> queue.order, nextId |-> queue.nextId, paused |-> queue.paused]
      <4>. HIDE DEF f
      <4>. QED BY <1>0 DEF QueueType
    <3>2. Without(kept, over) = [kept EXCEPT !.task = g, !.order = Remaining(kept.order, over)]
      <4>. HIDE DEF kept, over, f
      <4>1. g = [t \in Task |-> IF t \in over THEN NoTask ELSE kept.task[t]] BY <2>2
      <4>. HIDE DEF g
      <4>. QED BY <4>1, Zenon DEF Without
    <3>. HIDE DEF g, over, f, kept
    <3>. QED BY <3>1, <3>2
  <2>4. ASSUME NEW t \in Task
        PROVE  /\ f[t] # NoTask => queue.task[t] # NoTask
               /\ f[t] # NoTask => /\ f[t].lock = queue.task[t].lock /\ f[t].status = queue.task[t].status
                                   /\ f[t].branch = queue.task[t].branch /\ f[t].base = queue.task[t].base
                                   /\ f[t].session = queue.task[t].session
    <3>1. CASE t \in T
      <4>1. queue.task[t] \in Record /\ queue.task[t] # NoTask BY <1>0, <3>1 DEF QueueType, Present
      <4>2. f[t] = [queue.task[t] EXCEPT !.worktree = FALSE] BY <3>1
      <4>. HIDE DEF f
      <4>. QED BY <4>1, <4>2 DEF Record
    <3>2. CASE t \notin T BY <3>2
    <3>. QED BY <3>1, <3>2
  <2>5. \A t \in Task : g[t] # NoTask => g[t] = f[t] OBVIOUS
  <2>. HIDE DEF f, g, over, kept
  <2>. QED BY <2>1, <2>2, <2>3, <2>4, <2>5 DEF Edited, Present
<1>. HIDE DEF Goal
<1>6. CASE Add
  <2>1. PICK plan \in BOOLEAN : command' = [does |-> "save", queue |-> WithTask(queue, Fresh(plan))]
    BY <1>6 DEF Add
  <2>2. /\ Fresh(plan) \in Record /\ Fresh(plan).lock = NoLock /\ Fresh(plan).status = "pending"
        /\ Fresh(plan).branch = FALSE /\ Fresh(plan).base = NoBranch /\ Fresh(plan).session = FALSE
    <3>1. "pending" \in Status BY DEF Status
    <3>. QED BY <3>1 DEF Fresh, Record
  <2>3. Goal(WithTask(queue, Fresh(plan))) BY <1>1, <1>6, <2>2 DEF Add, Ready
  <2>. QED BY <2>1, <2>3 DEF Goal
<1>7. CASE Adopt
  <2> DEFINE record == [Fresh(FALSE) EXCEPT !.session = TRUE, !.status = "waiting", !.resume = now + 1]
  <2>1. command' = [does |-> "save", queue |-> WithTask(queue, record)] BY <1>7 DEF Adopt
  <2>2. /\ record \in Record /\ record.lock = NoLock /\ record.status = "waiting"
        /\ record.branch = FALSE /\ record.base = NoBranch
    <3>1. "waiting" \in Status /\ "pending" \in Status /\ now + 1 \in Nat BY <1>0 DEF Status
    <3>2. /\ Fresh(FALSE) \in Record /\ Fresh(FALSE).lock = NoLock
          /\ Fresh(FALSE).branch = FALSE /\ Fresh(FALSE).base = NoBranch
      BY <3>1 DEF Fresh, Record
    <3>. QED BY <3>1, <3>2 DEF Record
  <2>. HIDE DEF record
  <2>3. Goal(WithTask(queue, record)) BY <1>1, <1>7, <2>2 DEF Adopt, Ready
  <2>. QED BY <2>1, <2>3 DEF Goal
<1>8. CASE \E t \in Task : Rm(t)
  <2>1. PICK t \in Task : Rm(t) BY <1>8
  <2>2. command' = [does |-> "save", queue |-> Without(queue, {t})] /\ "rm" \in Commands
    BY <2>1 DEF Rm, MayType
  <2>. QED BY <1>0, <1>2, <2>2
<1>9. CASE \E t \in Task : Approve(t)
  <2>1. PICK t \in Task : Approve(t) BY <1>9
  <2> DEFINE q2 == Updated(queue, t, [queue.task[t] EXCEPT !.status = "pending", !.plan = FALSE])
  <2>2. command' = [does |-> "save", queue |-> q2] /\ t \in Present(queue)
        /\ queue.task[t].status = "needs-approval"
    BY <2>1 DEF Approve, Has
  <2>3. Goal(q2) BY <1>4, <2>2
  <2>. HIDE DEF q2
  <2>. QED BY <2>2, <2>3 DEF Goal
<1>10. CASE \E i \in 1..Len(queue.order), where \in {"top", "bottom", "up", "down"} : Move(i, where)
  <2>1. PICK i \in 1..Len(queue.order), where \in {"top", "bottom", "up", "down"} : Move(i, where)
    BY <1>10
  <2> DEFINE o == InsertAt(RemoveAt(queue.order, i), Place(queue.order, i, where), queue.order[i])
  <2>2. command' = [does |-> "save", queue |-> Moved(queue, i, where)] BY <2>1 DEF Move
  <2>3. Moved(queue, i, where) = [queue EXCEPT !.order = o] BY Zenon DEF Moved
  <2>. HIDE DEF o
  <2>4. Moved(queue, i, where).task = queue.task BY <1>0, <2>3 DEF QueueType
  <2>. QED BY <1>3, <2>2, <2>4 DEF Goal
<1>11. CASE \E on \in BOOLEAN : Pause(on)
  <2>1. PICK on \in BOOLEAN : Pause(on) BY <1>11
  <2> DEFINE q2 == [queue EXCEPT !.paused = on]
  <2>2. command' = [does |-> "save", queue |-> q2] BY <2>1 DEF Pause
  <2>3. q2.task = queue.task BY <1>0 DEF QueueType
  <2>. HIDE DEF q2
  <2>. QED BY <1>3, <2>2, <2>3 DEF Goal
<1>12. CASE \E all \in BOOLEAN : Cleanup(all) \/ \E t \in Task : CleanupOf(t, all)
  <2>1. PICK all \in BOOLEAN : Cleanup(all) \/ \E t \in Task : CleanupOf(t, all) BY <1>12
  <2>2. PICK T \in SUBSET Present(queue) : RemoveTrees(T, all)
    <3>1. Cleanable(queue) \in SUBSET Present(queue) BY DEF Cleanable
    <3>. QED BY <2>1, <3>1 DEF Cleanup, CleanupOf
  <2>3. "cleanup" \in Commands \/ "cleanupId" \in Commands
    BY <2>1 DEF Cleanup, CleanupOf, MayType
  <2>4. command' = [does |-> "save", queue |-> CleanedUp(queue, T, all)] BY <2>2 DEF RemoveTrees
  <2>. QED BY <1>0, <1>5, <2>3, <2>4
<1>. QED BY <1>6, <1>7, <1>8, <1>9, <1>10, <1>11, <1>12 DEF User

\* What a step of a runner that lives on leaves calm: the queue, and what it holds.
Composed(r) ==
  /\ \A p \in Pid : child'[p] # NoChild /\ child'[p].phase \in {"unspawned", "errored"} =>
       "spawn" \in Faults
  /\ Calm(queue', child')
  /\ pc'[r] \in Saving => Calm(snap'[r], child')
  /\ pc'[r] = "dispatch" =>
       target'[r].task \in Present(queue') /\ queue'.task[target'[r].task].status \in Ready

\* It saves, or does nothing to the queue.
LEMMA PlainComposed ==
  ASSUME RunnerInv, CalmInv, NEW r \in Runner,
         \/ TakeLock(r) \/ SaveReconciled(r) \/ Top(r) \/ SavePark(r) \/ SavePid(r)
         \/ SaveHeard(r) \/ SaveClosed(r) \/ Wake(r) \/ SaveDispatch(r)
  PROVE  Composed(r)
<1>. USE DEF Goto, Save, disk
<1>0. DOMAIN pc = Runner /\ DOMAIN snap = Runner BY DEF RunnerInv, OwnerInv, TypeInv
<1>1. /\ child' = child /\ pc'[r] \notin Saving \union {"dispatch"}
      /\ queue' = queue \/ (pc[r] \in Saving /\ queue' = snap[r])
  <2>1. CASE TakeLock(r) \/ Top(r) \/ Wake(r)
    BY <1>0, <2>1 DEF TakeLock, Top, Wake, Saving
  <2>2. CASE SaveReconciled(r) \/ SavePark(r) \/ SavePid(r) \/ SaveDispatch(r)
    BY <1>0, <2>2 DEF SaveReconciled, SavePark, Dispatching, SavePid, SaveDispatch, Saving
  <2>3. CASE SaveHeard(r) \/ SaveClosed(r)
    BY <1>0, <2>3 DEF SaveHeard, SaveClosed, Saving
  <2>. QED BY <2>1, <2>2, <2>3
<1>2. Calm(queue', child') BY <1>1 DEF CalmInv
<1>. QED BY <1>1, <1>2 DEF Composed, CalmInv

LEMMA ReconcileComposed ==
  ASSUME RunnerInv, CalmInv, NEW r \in Runner, Reconcile(r)
  PROVE  Composed(r)
<1>0. /\ DOMAIN pc = Runner /\ DOMAIN snap = Runner /\ QueueType(queue) /\ OwnerInv /\ ParentInv
      /\ Calm(queue, child)
      /\ \A p \in Pid : child[p] # NoChild => child[p].parent \in Runner \union {NoRunner}
  BY DEF RunnerInv, OwnerInv, TypeInv, CalmInv, Child
<1>1. /\ pc[r] = "reconcile" /\ pc'[r] \in {"top", "saveReconciled"}
      /\ queue' = queue /\ child' = child
      /\ pc'[r] = "saveReconciled" => snap'[r] = Reconciled(queue)
  BY <1>0 DEF Reconcile, Goto, Prepare, disk
<1>2. ASSUME NEW p \in Pid, child[p] # NoChild PROVE child[p].parent = NoRunner
  <2>. SUFFICES ASSUME child[p].parent # NoRunner PROVE FALSE OBVIOUS
  <2>1. child[p].parent \in Runner BY <1>0, <1>2
  <2>2. pc[child[p].parent] \notin Childless BY <1>0, <1>2 DEF ParentInv
  <2>3. pidFile = child[p].parent BY <1>0, <2>1, <2>2 DEF OwnerInv, Alive, Childless
  <2>4. pidFile = r BY <1>0, <1>1 DEF OwnerInv, Alive
  <2>. QED BY <1>1, <2>2, <2>3, <2>4 DEF Childless
<1>3. PICK f \in [Task -> Record \union {NoTask}] :
        /\ Reconciled(queue) = [queue EXCEPT !.task = f]
        /\ \A t \in Task : (f[t] = NoTask) <=> (queue.task[t] = NoTask)
        /\ \A t \in Task \ Interrupted(queue) : f[t] = queue.task[t]
        /\ \A t \in Interrupted(queue) : f[t].status = "pending" /\ f[t].lock = NoLock
  BY <1>0, ReconciledTasks
<1>4. Reconciled(queue).task = f BY <1>0, <1>3 DEF QueueType
<1>5. Unlocked(Reconciled(queue))
  <2>. SUFFICES ASSUME NEW t \in Task, f[t] # NoTask, f[t].status # "running" PROVE f[t].lock = NoLock
    BY <1>4 DEF Unlocked, Present
  <2>1. CASE t \in Interrupted(queue) BY <1>3, <2>1
  <2>2. CASE t \notin Interrupted(queue)
    <3>1. f[t] = queue.task[t] /\ t \in Present(queue) BY <1>3, <2>2 DEF Present
    <3>. QED BY <1>0, <3>1 DEF Calm, Unlocked
  <2>. QED BY <2>1, <2>2
<1>6. Calm(Reconciled(queue), child) BY <1>2, <1>5 DEF Calm, Heeds
<1>7. pc'[r] \in Saving => Calm(snap'[r], child') BY <1>1, <1>6 DEF Saving
<1>8. Calm(queue', child') /\ pc'[r] # "dispatch" BY <1>0, <1>1
<1>. QED BY <1>1, <1>7, <1>8 DEF Composed, CalmInv

LEMMA FillComposed ==
  ASSUME RunnerInv, Typed, CalmInv, NEW r \in Runner, Fill(r)
  PROVE  Composed(r)
<1>0. /\ DOMAIN pc = Runner /\ Sound(queue) /\ target \in [Runner -> Target]
  BY DEF RunnerInv, OwnerInv, Typed, SoundInv, FieldsInv
<1>1. /\ queue' = queue /\ child' = child /\ pc'[r] \notin Saving
      /\ pc'[r] = "dispatch" => target'[r].task \in NextDispatchable(queue, now)
  <2>1. /\ queue' = queue /\ child' = child
        /\ \/ /\ pc' = [pc EXCEPT ![r] = "dispatch"]
              /\ \E t \in NextDispatchable(queue, now) : target' = [target EXCEPT ![r].task = t]
           \/ \E place \in {"exit", "rest", "top"} : pc' = [pc EXCEPT ![r] = place]
    BY DEF Fill, Goto, disk
  <2>2. \A t : [target EXCEPT ![r].task = t][r].task = t BY <1>0 DEF Target
  <2>. QED BY <1>0, <2>1, <2>2 DEF Saving
<1>2. \A t \in NextDispatchable(queue, now) :
        t \in Present(queue) /\ queue.task[t].status \in Ready
  <2>1. Ids(queue.order) = Present(queue) BY <1>0 DEF Sound
  <2>. QED BY <2>1 DEF NextDispatchable, Startable, Actionable, Ids, Ready
<1>. QED BY <1>1, <1>2 DEF Composed, CalmInv

LEMMA DispatchComposed ==
  ASSUME RunnerInv, CalmInv, NEW r \in Runner, Dispatch(r), pc'[r] \notin {"dead", "threw"}
  PROVE  Composed(r)
<1> DEFINE t == target[r].task
<1>0. /\ TypeInv /\ DOMAIN pc = Runner /\ QueueType(queue) /\ RunnerOK(r) /\ Calm(queue, child)
      /\ \A p \in Pid : child[p] # NoChild => child[p].task \in Task
  BY DEF RunnerInv, OwnerInv, TypeInv, CalmInv, Child
<1>1. /\ pc[r] = "dispatch" /\ t \in Present(queue) /\ queue' = queue /\ child' = child
      /\ pc'[r] # "dispatch"
      /\ \E record \in Record :
           /\ snap'[r] = Updated(queue, t, record)
           /\ record.status = "running" \/ record.lock = NoLock
  BY <1>0, DispatchPrepares
<1>2. \A p \in Pid : child[p] # NoChild => child[p].task # t BY <1>0, <1>1 DEF RunnerOK
<1>. HIDE DEF t
<1>3. Calm(snap'[r], child) BY <1>0, <1>1, <1>2, UpdatedCalm
<1>. QED BY <1>0, <1>1, <1>3 DEF Composed, CalmInv

LEMMA SpawnComposed ==
  ASSUME RunnerInv, CalmInv, NEW r \in Runner, Spawn(r)
  PROVE  Composed(r)
<1> DEFINE t == target[r].task
<1>0. /\ DOMAIN pc = Runner /\ DOMAIN child = Pid /\ RunnerOK(r) /\ Calm(queue, child)
      /\ pc[r] = "spawn"
  BY DEF RunnerInv, OwnerInv, TypeInv, CalmInv, Spawn
<1>1. PICK i \in Pid, phase \in {"up", "unspawned"} :
        /\ phase = "unspawned" => "spawn" \in Faults
        /\ child' = [child EXCEPT ![i] = Process(r, t, snap[r].task[t], phase)]
  BY DEF Spawn
<1>2. queue' = queue /\ pc'[r] = "loadPid" BY <1>0 DEF Spawn, Goto, disk
<1>3. t \in Present(queue) /\ LockAllows(queue.task[t], r)
  BY <1>0 DEF RunnerOK, Locked, Has, LockAllows
<1> DEFINE c == Process(r, t, snap[r].task[t], phase)
<1>4. c.task = t /\ c.parent = r /\ c.phase = phase BY DEF Process
<1>. HIDE DEF c, t
<1>5. child'[i] = c /\ \A p \in Pid \ {i} : child'[p] = child[p] BY <1>0, <1>1 DEF c
<1>6. Heeds(queue, child')
  <2>. SUFFICES ASSUME NEW p \in Pid, child'[p] # NoChild, child'[p].parent # NoRunner
                PROVE  /\ child'[p].task \in Present(queue)
                       /\ LockAllows(queue.task[child'[p].task], child'[p].parent)
    BY DEF Heeds
  <2>1. CASE p = i BY <1>3, <1>4, <1>5, <2>1
  <2>2. CASE p # i BY <1>0, <1>5, <2>2 DEF Calm, Heeds
  <2>. QED BY <2>1, <2>2
<1>7. \A p \in Pid : child'[p] # NoChild /\ child'[p].phase \in {"unspawned", "errored"} =>
        "spawn" \in Faults
  BY <1>1, <1>4, <1>5 DEF CalmInv
<1>8. Calm(queue', child') BY <1>0, <1>2, <1>6 DEF Calm
<1>. QED BY <1>2, <1>7, <1>8 DEF Composed, Saving

LEMMA LoadPidComposed ==
  ASSUME RunnerInv, CalmInv, NEW r \in Runner, LoadPid(r), pc'[r] \notin {"dead", "threw"}
  PROVE  Composed(r)
<1> DEFINE t == target[r].task
           i == target[r].pid
<1>0. /\ TypeInv /\ OwnerInv /\ UniqueInv /\ QueueType(queue) /\ RunnerOK(r) /\ Calm(queue, child)
      /\ \A p \in Pid : child[p] # NoChild => child[p].task \in Task
      /\ pc[r] = "loadPid"
  BY DEF RunnerInv, TypeInv, CalmInv, Child, LoadPid
<1>1. /\ pc'[r] = "savePid" /\ queue' = queue /\ child' = child /\ Locked(queue, r, t)
      /\ \E record \in Record :
           /\ snap'[r] = Updated(queue, t, record)
           /\ record.status = "running" /\ record.lock.owner = r
  BY <1>0, LoadPidPrepares
<1>2. i \in Pid /\ child[i] # NoChild /\ child[i].task = t /\ child[i].parent = r
  BY <1>0 DEF RunnerOK
<1>. HIDE DEF t, i
<1>3. \A p \in Pid : child[p] # NoChild /\ child[p].task = t => child[p].parent = r
  BY <1>0, <1>2 DEF UniqueInv
<1>4. t \in Present(queue) BY <1>1 DEF Locked, Has
<1>5. Calm(snap'[r], child)
  <2>1. PICK record \in Record : /\ snap'[r] = Updated(queue, t, record)
                                 /\ record.status = "running" /\ record.lock.owner = r
    BY <1>1
  <2>2. LockAllows(record, r) BY <2>1 DEF LockAllows
  <2>. QED BY <1>0, <1>3, <1>4, <2>1, <2>2, UpdatedCalm
<1>. QED BY <1>0, <1>1, <1>5 DEF Composed, CalmInv

LEMMA HeardComposed ==
  ASSUME RunnerInv, CalmInv, NEW r \in Runner, NEW p \in Pid, HearInit(r, p) \/ HearUsage(r, p),
         pc'[r] \notin {"dead", "threw"}
  PROVE  Composed(r)
<1> DEFINE t == child[p].task
           old == queue.task[t]
           record == [old EXCEPT !.session = TRUE]
<1>0. /\ DOMAIN pc = Runner /\ DOMAIN snap = Runner /\ DOMAIN child = Pid /\ QueueType(queue)
      /\ Calm(queue, child)
      /\ \A i \in Pid : child[i] # NoChild => child[i] \in Child
  BY DEF RunnerInv, OwnerInv, TypeInv, CalmInv
<1>1. /\ child[p] # NoChild /\ t \in Present(queue)
      /\ pc'[r] = "saveHeard" /\ queue' = queue
      /\ \/ child' = child /\ snap'[r] = queue
         \/ child' = [child EXCEPT ![p].told = TRUE] /\ snap'[r] = Named(queue, t)
  BY <1>0 DEF HearInit, HearUsage, Hears, Throw, End, Handle, Prepare, Goto, Gone
<1>2. \A i \in Pid : child'[i] # NoChild =>
        /\ child[i] # NoChild /\ child'[i].task = child[i].task
        /\ child'[i].parent = child[i].parent /\ child'[i].phase = child[i].phase
  <2>1. child[p] \in Child BY <1>0, <1>1
  <2>. QED BY <1>0, <1>1, <2>1 DEF Child
<1>3. Fade(child, child') BY <1>2 DEF Fade
<1>4. Named(queue, t) = Updated(queue, t, record) BY Zenon DEF Named
<1>5. record \in Record /\ record.lock = old.lock /\ record.status = old.status
  <2>1. old \in Record BY <1>0, <1>1 DEF QueueType, Present
  <2>. HIDE DEF old
  <2>. QED BY <2>1 DEF Record
<1>. HIDE DEF record
<1>6. Calm(Updated(queue, t, record), child)
  <2>1. record.status # "running" => record.lock = NoLock
    BY <1>0, <1>1, <1>5 DEF Calm, Unlocked
  <2>2. ASSUME NEW i \in Pid, child[i] # NoChild
        PROVE  /\ child[i].task \in Task
               /\ child[i].task = t /\ child[i].parent # NoRunner => LockAllows(record, child[i].parent)
    BY <1>0, <1>5, <2>2 DEF Calm, Heeds, LockAllows, Child
  <2>. HIDE DEF t
  <2>. QED BY <1>0, <1>1, <1>5, <2>1, <2>2, UpdatedCalm
<1>7. Calm(snap'[r], child) BY <1>0, <1>1, <1>4, <1>6
<1>8. Calm(snap'[r], child') /\ Calm(queue', child') BY <1>0, <1>1, <1>3, <1>7, FadeCalm
<1>. QED BY <1>1, <1>2, <1>8 DEF Composed, CalmInv

LEMMA ClosedComposed ==
  ASSUME RunnerInv, CalmInv, NEW r \in Runner, NEW p \in Pid, HearClose(r, p) \/ HearError(r, p),
         pc'[r] \notin {"dead", "threw"}
  PROVE  Composed(r)
<1> DEFINE t == child[p].task
<1>0. /\ TypeInv /\ DOMAIN pc = Runner /\ DOMAIN child = Pid /\ QueueType(queue) /\ Calm(queue, child)
      /\ UniqueInv /\ \A i \in Pid : child[i] # NoChild => child[i] \in Child
  BY DEF RunnerInv, OwnerInv, TypeInv, CalmInv
<1>1. /\ child[p] # NoChild /\ t \in Present(queue) /\ queue' = queue /\ pc'[r] = "saveClosed"
      /\ \E record \in Record :
           /\ snap'[r] = Updated(queue, t, record)
           /\ record.status # "running" /\ record.lock = NoLock
           /\ \/ child' = [child EXCEPT ![p] = NoChild]
              \/ child' = [child EXCEPT ![p].phase = "errored"] /\ child[p].phase = "unspawned"
  BY <1>0, ClosePrepares
<1>2. \A i \in Pid : child'[i] # NoChild =>
        /\ child[i] # NoChild /\ child'[i].task = child[i].task
        /\ child'[i].parent = child[i].parent
        /\ child'[i].phase = child[i].phase \/ child[i].phase = "unspawned"
  <2>1. child[p] \in Child BY <1>0, <1>1
  <2>. QED BY <1>0, <1>1, <2>1 DEF Child
<1>3. Fade(child, child') BY <1>2 DEF Fade
<1>4. Calm(snap'[r], child)
  <2>1. \A i \in Pid : child[i] # NoChild => child[i].task \in Task BY <1>0 DEF Child
  <2>. HIDE DEF t
  <2>. QED BY <1>0, <1>1, <2>1, UpdatedCalm DEF LockAllows
<1>5. Calm(snap'[r], child') /\ Calm(queue', child') BY <1>0, <1>1, <1>3, <1>4, FadeCalm
<1>. QED BY <1>1, <1>2, <1>5 DEF Composed, CalmInv

LEMMA LivesComposed ==
  ASSUME RunnerInv, Typed, CalmInv, NEW r \in Runner, RunnerStep(r), pc'[r] \notin {"dead", "threw"}
  PROVE  Composed(r)
<1>1. CASE \/ TakeLock(r) \/ SaveReconciled(r) \/ Top(r) \/ SavePark(r) \/ SavePid(r)
           \/ SaveHeard(r) \/ SaveClosed(r) \/ Wake(r) \/ SaveDispatch(r)
  BY <1>1, PlainComposed
<1>2. CASE Reconcile(r) BY <1>2, ReconcileComposed
<1>3. CASE Fill(r) BY <1>3, FillComposed
<1>4. CASE Dispatch(r) BY <1>4, DispatchComposed
<1>5. CASE Spawn(r) BY <1>5, SpawnComposed
<1>6. CASE LoadPid(r) BY <1>6, LoadPidComposed
<1>7. ASSUME NEW p \in Pid, Hear(r, p) PROVE Composed(r)
  BY <1>7, HeardComposed, ClosedComposed DEF Hear
<1>8. CASE Exit(r) \/ Crash(r)
  <2>1. DOMAIN pc = Runner BY DEF RunnerInv, OwnerInv
  <2>2. pc'[r] = "dead" BY <1>8, <2>1 DEF Exit, Crash, End, Goto
  <2>. QED BY <2>2
<1>. QED BY <1>1, <1>2, <1>3, <1>4, <1>5, <1>6, <1>7, <1>8 DEF RunnerStep, Stretch

\* A runner that lives on is the only one at work, and no command is under way.
LEMMA CalmRunner ==
  ASSUME ~Overlapping, "crashAtSpawn" \notin Faults, RunnerInv, Typed, CalmInv,
         NEW r \in Runner, RunnerStep(r)
  PROVE  CalmInv'
<1>0. /\ DOMAIN pc = Runner /\ TypeInv /\ OwnerInv
      /\ \A s \in Runner \ {r} : snap'[s] = snap[s] /\ target'[s] = target[s]
  BY RunnerFrame DEF RunnerInv, OwnerInv
<1>1. /\ pc' = [pc EXCEPT ![r] = pc'[r]] /\ command' = command
      /\ pc'[r] \in {"dead", "threw"} => child' = Orphaned(r)
  BY <1>0, RunnerMoves
<1>2. \A s \in Runner : pc'[s] # "threw"
  <2>1. pc'[r] # "threw" BY NothingThrows
  <2>2. \A s \in Runner \ {r} : pc'[s] = pc[s] BY <1>0, <1>1
  <2>. QED BY <2>1, <2>2 DEF CalmInv
<1>3. CASE pc'[r] \in {"dead", "threw"}
  <2>1. queue' = queue BY <1>3, EndsOK
  <2>2. Fade(child, child')
    <3>. SUFFICES ASSUME NEW p \in Pid, child'[p] # NoChild
                  PROVE  /\ child[p] # NoChild /\ child'[p].task = child[p].task
                         /\ child'[p].parent \in {child[p].parent, NoRunner}
      BY DEF Fade
    <3>1. child' = Orphaned(r) BY <1>1, <1>3
    <3>2. child[p] # NoChild /\ child'[p].task = child[p].task
      BY <1>0, <3>1, OrphanedOK DEF Fewer, Kin
    <3>. QED BY <1>0, <3>1, <3>2, OrphanedOK
  <2>3. \A p \in Pid : child'[p] # NoChild /\ child'[p].phase \in {"unspawned", "errored"} =>
          "spawn" \in Faults
    <3>1. child' = Orphaned(r) BY <1>1, <1>3
    <3>2. \A p \in Pid : child'[p] # NoChild => child[p] # NoChild /\ child'[p].phase = child[p].phase
      BY <1>0, <3>1, OrphanedOK DEF Fewer
    <3>. QED BY <3>2 DEF CalmInv
  <2>4. \A s \in Runner \ {r} : pc'[s] = pc[s] /\ snap'[s] = snap[s] /\ target'[s] = target[s]
    BY <1>0, <1>1
  <2>5. Calm(queue', child') BY <2>1, <2>2, FadeCalm DEF CalmInv
  <2>6. command' # NoCommand /\ command'.does = "save" => Calm(command'.queue, child')
    BY <1>1, <2>2, FadeCalm DEF CalmInv
  <2>7. ASSUME NEW s \in Runner, pc'[s] \in Saving PROVE Calm(snap'[s], child')
    <3>1. s # r BY <1>3, <2>7 DEF Saving
    <3>. QED BY <2>2, <2>4, <2>7, <3>1, FadeCalm DEF CalmInv
  <2>8. \A s \in Runner : pc'[s] = "dispatch" =>
          target'[s].task \in Present(queue') /\ queue'.task[target'[s].task].status \in Ready
    BY <1>3, <2>1, <2>4 DEF CalmInv
  <2>. QED BY <1>2, <2>3, <2>5, <2>6, <2>7, <2>8 DEF CalmInv
<1>4. CASE pc'[r] \notin {"dead", "threw"}
  <2>1. Composed(r) BY <1>4, LivesComposed
  <2>2. command' = NoCommand /\ \A s \in Runner \ {r} : pc'[s] \in Asleep
    <3>1. command' = NoCommand /\ \A s \in Runner \ {r} : pc[s] \in Asleep BY <1>4, Solo
    <3>. QED BY <1>0, <1>1, <3>1
  <2>3. ASSUME NEW s \in Runner, s # r PROVE pc'[s] \notin Saving \union {"dispatch"}
    <3>1. pc'[s] \in Asleep BY <2>2, <2>3
    <3>. QED BY <3>1 DEF Asleep, Saving
  <2>. QED BY <1>2, <2>1, <2>2, <2>3 DEF Composed, CalmInv
<1>. QED BY <1>3, <1>4

\* A command edits what it has loaded while nothing else is under way.
LEMMA CalmUser ==
  ASSUME ~Overlapping, "spawn" \notin Faults \/ Commands \intersect Removing = {},
         RunnerInv, Typed, CalmInv, User
  PROVE  CalmInv'
<1>0. /\ TypeInv /\ TurnInv /\ DiskInv /\ Calm(queue, child)
      /\ \A p \in Pid : child[p] # NoChild => child[p] \in Child
  BY DEF RunnerInv, TypeInv, CalmInv
<1>1. pc' = pc /\ snap' = snap /\ target' = target BY UserMoves
<1>2. \A s \in Runner : pc[s] \in Asleep
  <2>1. MayEnter => \A s \in Runner : pc[s] \in Asleep BY DEF MayEnter, Quiet
  <2>2. SaveCommand \/ MarkAndKill => command # NoCommand BY DEF SaveCommand, MarkAndKill
  <2>. QED BY <1>0, <2>1, <2>2, CommandsSpare DEF TurnInv
<1>3. \A s \in Runner : pc'[s] # "threw" /\ pc'[s] \notin Saving \union {"dispatch"}
  BY <1>1, <1>2 DEF CalmInv, Asleep, Saving
<1>4. Fade(child, child') /\ \A p \in Pid : child'[p] # NoChild =>
        (child'[p].phase \in {"unspawned", "errored"} => "spawn" \in Faults)
  <2>1. /\ Fewer(child, child')
        /\ \A p \in Pid : child'[p] # NoChild => child'[p].parent = child[p].parent
    BY <1>0, OthersChildren
  <2>. QED BY <2>1 DEF Fewer, Kin, Fade, CalmInv
<1>5. CASE SaveCommand
  <2>1. queue' = command.queue /\ child' = child /\ command' = NoCommand /\ Calm(command.queue, child)
    BY <1>5 DEF SaveCommand, CalmInv
  <2>2. Calm(queue', child') BY <2>1
  <2>. QED BY <1>3, <1>4, <2>1, <2>2 DEF CalmInv
<1>6. CASE MarkAndKill
  <2>1. queue' = queue /\ command' = NoCommand BY <1>6 DEF MarkAndKill
  <2>2. Calm(queue', child') BY <1>0, <1>4, <2>1, FadeCalm
  <2>. QED BY <1>3, <1>4, <2>1, <2>2 DEF CalmInv
<1>7. CASE ~SaveCommand /\ ~MarkAndKill
  <2>1. queue' = queue /\ child' = child BY <1>0, <1>7, CommandsSpare
  <2>2. Calm(queue', child') BY <1>0, <2>1
  <2>3. CASE \E t \in Task : Stop(t)
    <3>1. command'.does = "stop" BY <2>3 DEF Stop
    <3>. QED BY <1>3, <1>4, <2>2, <3>1 DEF CalmInv
  <2>4. CASE ~\E t \in Task : Stop(t)
    <3>1. PICK q2 : /\ command' = [does |-> "save", queue |-> q2]
                    /\ Edited(queue, q2)
                    /\ Commands \intersect Removing = {} => Present(queue) \subseteq Present(q2)
      BY <1>7, <2>4, CommandsEdit
    <3>2. PICK q3 : /\ command' = [does |-> "save", queue |-> q3]
                    /\ QueueType(q3) /\ Spares(queue, q3)
      BY <1>0, <1>7, <2>4, CommandsSpare
    <3>3. command'.queue = q2 /\ command'.queue = q3 BY <3>1, <3>2
    <3>4. q3 = q2 BY <3>3
    <3>5. Fits(queue, child)
      <4>1. \A s \in Runner : pc[s] \notin {"loadPid", "savePid", "saveClosed"} BY <1>2 DEF Asleep
      <4>. QED BY <1>0, <4>1, DiskFits
    <3>6. Unlocked(q2) BY <1>0, <3>1, EditedUnlocked DEF Calm
    <3>7. \A p \in Pid : child[p] # NoChild /\ child[p].phase = "errored" =>
            Present(queue) \subseteq Present(q2)
      BY <3>1 DEF CalmInv
    <3>8. Calm(q2, child) BY <1>0, <3>2, <3>4, <3>5, <3>6, <3>7, SparesCalm
    <3>9. command'.does = "save" => Calm(command'.queue, child') BY <2>1, <3>3, <3>8
    <3>. QED BY <1>3, <1>4, <2>2, <3>9 DEF CalmInv
  <2>. QED BY <2>3, <2>4
<1>. QED BY <1>5, <1>6, <1>7

LEMMA CalmMachine ==
  ASSUME RunnerInv, CalmInv, Machine PROVE CalmInv'
<1>0. TypeInv BY DEF RunnerInv
<1>1. UNCHANGED <<pc, snap, target, command, queue>> BY MachineMoves
<1>2. /\ Fewer(child, child')
      /\ \A p \in Pid : child'[p] # NoChild => child'[p].parent = child[p].parent
  BY <1>0, OthersChildren
<1>3. Fade(child, child') /\ \A p \in Pid : child'[p] # NoChild =>
        (child'[p].phase \in {"unspawned", "errored"} => "spawn" \in Faults)
  BY <1>2 DEF Fewer, Kin, Fade, CalmInv
<1>4. \A q : Calm(q, child) => Calm(q, child') BY <1>3, FadeCalm
<1>. QED BY <1>1, <1>3, <1>4 DEF CalmInv

LEMMA CalmStep ==
  ASSUME ~Overlapping, "crashAtSpawn" \notin Faults,
         "spawn" \notin Faults \/ Commands \intersect Removing = {},
         RunnerInv, Typed, CalmInv, [Next]_vars
  PROVE  CalmInv'
<1>1. CASE UNCHANGED vars BY <1>1 DEF CalmInv, vars, disk, user
<1>2. CASE \E r \in Runner : RunnerStep(r) BY <1>2, CalmRunner
<1>3. ASSUME NEW r \in Runner, NEW m \in Mode, Start(r, m) PROVE CalmInv'
  <2>1. /\ UNCHANGED <<queue, child, snap, target, command>> /\ DOMAIN pc = Runner
        /\ pc' = [pc EXCEPT ![r] = pc'[r]] /\ pc'[r] \in {"lock", "dead"}
    BY <1>3 DEF Start, Goto, disk, user, RunnerInv, OwnerInv
  <2>. QED BY <2>1 DEF CalmInv, Saving
<1>4. CASE User BY <1>4, CalmUser
<1>5. CASE Machine BY <1>5, CalmMachine
<1>. QED BY <1>1, <1>2, <1>3, <1>4, <1>5 DEF Next, RunnerStep

\* updateTask, acquireLock and releaseLock throw in a handler whose task is gone or locked
\* by another, and that ends the runner (runner.mjs).  It does not come to that, whatever
\* runners die, whatever is typed and whichever process ends when.  A spawn that fails is
\* heard of twice, by error and by close, and rm may take the failed task away between the
\* two: hence the last assumption.
THEOREM SupervisorGoesOn ==
  ASSUME ~Overlapping, "crashAtSpawn" \notin Faults,
         "spawn" \notin Faults \/ Commands \intersect Removing = {}
  PROVE  Spec => []SupervisorSurvives
<1>1. Init => CalmInv
  <2>. SUFFICES ASSUME Init PROVE CalmInv OBVIOUS
  <2>1. Present(queue) = {} BY DEF Init, EmptyQueue, Present
  <2>2. Calm(queue, child) BY <2>1 DEF Init, Calm, Unlocked, Heeds
  <2>. QED BY <2>2 DEF Init, CalmInv, Saving
<1>2. RunnerInv /\ Typed /\ CalmInv /\ [Next]_vars => CalmInv' BY CalmStep
<1>3. CalmInv => SupervisorSurvives BY DEF CalmInv, SupervisorSurvives
<1>. QED BY <1>1, <1>2, <1>3, RunnerInvAlways, TypedAlways, PTL DEF Spec

-----------------------------------------------------------------------------
(***************************************************************************)
(* The checkout comes home, also when runners die: what a dead runner left *)
(* on a task's branch is all that is not at home, and what later tasks can *)
(* take for the user's.                                                    *)
(***************************************************************************)
Ends == {"dead", "threw"}

\* An in-folder task that runs has a branch, and the way back from it is to the user's
\* branch or to one a runner left; it has none if it is itself such a task.
Sane(K, t, record) ==
  Iso[t] = "infolder" =>
    /\ record.base \in {Main, NoBranch} \union K
    /\ record.branch = TRUE /\ record.base = NoBranch => t \in K
    /\ record.status = "running" => record.branch = TRUE

Rooted(K, q) == \A t \in Present(q) : Sane(K, t, q.task[t])

\* A process whose end the checkout waits for.
Working(processes, p) == processes[p] # NoChild /\ processes[p].phase # "errored"

Works(processes, p, c) ==
  Working(processes, p) /\ Iso[processes[p].task] = "infolder" /\ Cwd[processes[p].task] = c

\* A task that is about to have its process.
Coming(r, t) == pc[r] \in {"saveDispatch", "spawn"} /\ target[r].task = t

\* A checkout is on the branch of a task for a process of that task, or because a runner
\* that was at the task died.
AwayInv ==
  \A c \in Project : head[c] \in Task \ CutOff =>
    \/ \E p \in Pid : Works(child, p, c) /\ child[p].task = head[c]
    \/ /\ \E r \in Runner : Coming(r, head[c])
       /\ Iso[head[c]] = "infolder" /\ Cwd[head[c]] = c

\* A runner waits for its processes; an orphan's task was in the hands of the dead.
TendedInv ==
  \A p \in Pid : Working(child, p) =>
    IF child[p].parent = NoRunner THEN child[p].task \in CutOff
    ELSE /\ child[p].parent \in Runner
         /\ \/ child[p].task \in inFlight[child[p].parent]
            \/ pc[child[p].parent] \in {"loadPid", "savePid"} /\ target[child[p].parent].pid = p

\* A runner frees a slot when the process is gone, and moves a checkout when nothing
\* works there.
HomeOK(r) ==
  /\ pc[r] \in Saving => Rooted(CutOff, snap[r])
  /\ pc[r] = "saveClosed" => \A p \in Pid : Working(child, p) => child[p].task # target[r].task
  /\ pc[r] = "dispatch" /\ Iso[target[r].task] = "infolder" =>
       \A p \in Pid : ~Works(child, p, Cwd[target[r].task])

HomeInv ==
  /\ Rooted(CutOff, queue)
  /\ command # NoCommand /\ command.does = "save" => Rooted(CutOff, command.queue)
  /\ AwayInv /\ TendedInv /\ \A r \in Runner : HomeOK(r)

LEMMA HomeBranch == Main \notin Task /\ Detached \notin Task /\ Main # NoBranch /\ NoBranch \notin Task
BY MaxTasksType DEF Main, Detached, NoBranch, Task

\* The dead stay dead, and what they were at stays what it was.
LEMMA CutGrows ==
  ASSUME \A s \in Runner : pc[s] \in Ends => pc'[s] = pc[s] /\ inFlight'[s] = inFlight[s]
  PROVE  CutOff \subseteq CutOff'
BY DEF CutOff, Ends

LEMMA CutSteady ==
  ASSUME \A s \in Runner : pc[s] \in Ends => pc'[s] = pc[s] /\ inFlight'[s] = inFlight[s],
         \A s \in Runner : pc'[s] \in Ends => pc[s] \in Ends
  PROVE  CutOff' = CutOff
<1>1. \A s \in Runner : pc'[s] \in Ends <=> pc[s] \in Ends OBVIOUS
<1>. QED BY <1>1 DEF CutOff, Ends

LEMMA RootedMore ==
  ASSUME NEW K, NEW K2, K \subseteq K2, NEW q, Rooted(K, q) PROVE Rooted(K2, q)
BY DEF Rooted, Sane

\* Processes that go on working for their runners.
Steady(processes, processes2) ==
  \A p \in Pid :
    /\ Working(processes2, p) => /\ Working(processes, p)
                                 /\ processes2[p].task = processes[p].task
                                 /\ processes2[p].parent = processes[p].parent
    /\ Working(processes, p) /\ processes[p].parent # NoRunner =>
         Working(processes2, p)

LEMMA AwaySteady ==
  ASSUME AwayInv, TendedInv, head' = head, Steady(child, child'), CutOff \subseteq CutOff',
         \A s \in Runner : pc[s] \in {"saveDispatch", "spawn"} =>
           pc'[s] \in {"saveDispatch", "spawn"} /\ target'[s] = target[s]
  PROVE  AwayInv'
<1>. SUFFICES ASSUME NEW c \in Project, head'[c] \in Task \ CutOff'
              PROVE  \/ \E p \in Pid : Works(child', p, c) /\ child'[p].task = head'[c]
                     \/ /\ \E r \in Runner : Coming(r, head[c])'
                        /\ Iso[head'[c]] = "infolder" /\ Cwd[head'[c]] = c
  BY DEF AwayInv
<1>0. head[c] \in Task \ CutOff OBVIOUS
<1>1. ASSUME NEW p \in Pid, Works(child, p, c), child[p].task = head[c]
      PROVE  Works(child', p, c) /\ child'[p].task = head'[c]
  <2>1. child[p].parent # NoRunner BY <1>0, <1>1 DEF TendedInv, Works
  <2>. QED BY <1>1, <2>1 DEF Works, Steady
<1>2. ASSUME NEW r \in Runner, Coming(r, head[c]) PROVE Coming(r, head[c])'
  BY <1>2 DEF Coming
<1>. QED BY <1>0, <1>1, <1>2 DEF AwayInv

LEMMA TendedSteady ==
  ASSUME TendedInv, Steady(child, child'), CutOff \subseteq CutOff',
         \A s \in Runner :
           /\ \A p \in Pid : Working(child, p) /\ child[p].parent = s /\ child[p].task \in inFlight[s] =>
                child[p].task \in inFlight'[s]
           /\ pc[s] \in {"loadPid", "savePid"} =>
                pc'[s] \in {"loadPid", "savePid"} /\ target'[s] = target[s]
  PROVE  TendedInv'
<1>. SUFFICES ASSUME NEW p \in Pid, Working(child', p)
              PROVE  IF child'[p].parent = NoRunner THEN child'[p].task \in CutOff'
                     ELSE /\ child'[p].parent \in Runner
                          /\ \/ child'[p].task \in inFlight'[child'[p].parent]
                             \/ /\ pc'[child'[p].parent] \in {"loadPid", "savePid"}
                                /\ target'[child'[p].parent].pid = p
  BY DEF TendedInv
<1>1. /\ Working(child, p) /\ child'[p].task = child[p].task /\ child'[p].parent = child[p].parent
  BY DEF Steady
<1>. QED BY <1>1 DEF TendedInv

LEMMA UpdatedRooted ==
  ASSUME NEW K, NEW q, QueueType(q), Rooted(K, q), NEW t \in Present(q), NEW record \in Record,
         Sane(K, t, record)
  PROVE  Rooted(K, Updated(q, t, record))
<1> DEFINE q2 == Updated(q, t, record)
<1>1. /\ q2.task[t] = record /\ \A u \in Task \ {t} : q2.task[u] = q.task[u]
      /\ Present(q2) = Present(q)
  BY UpdatedOK
<1>. HIDE DEF q2
<1>2. \A u \in Present(q2) : Sane(K, u, q2.task[u]) BY <1>1 DEF Rooted, Present
<1>. QED BY <1>2 DEF Rooted, q2

\* The fields that count are as they were, but that the task may have stopped to run.
LEMMA SaneStays ==
  ASSUME NEW K, NEW t, NEW old, NEW record, Sane(K, t, old),
         record.branch = old.branch, record.base = old.base,
         record.status = "running" => old.status = "running"
  PROVE  Sane(K, t, record)
BY DEF Sane

LEMMA EditedRooted ==
  ASSUME NEW K, NEW q, NEW q2, Edited(q, q2), Rooted(K, q) PROVE Rooted(K, q2)
<1>. SUFFICES ASSUME NEW t \in Present(q2) PROVE Sane(K, t, q2.task[t]) BY DEF Rooted
<1>1. CASE t \in Present(q) /\ q2.task[t].branch = q.task[t].branch /\ q2.task[t].base = q.task[t].base
           /\ (q2.task[t].status = "running" => q.task[t].status = "running")
  BY <1>1 DEF Sane, Rooted
<1>2. CASE /\ q2.task[t].branch = FALSE /\ q2.task[t].base = NoBranch
           /\ q2.task[t].status \in Ready
  BY <1>2 DEF Sane, Ready
<1>. QED BY <1>1, <1>2 DEF Edited

\* What a runner waits for changes in its own step.
LEMMA RunnerInFlight ==
  ASSUME NEW r \in Runner, DOMAIN inFlight = Runner, RunnerStep(r)
  PROVE  \A s \in Runner \ {r} : inFlight'[s] = inFlight[s]
<1>1. ASSUME NEW p \in Pid, Hear(r, p) PROVE \A s \in Runner \ {r} : inFlight'[s] = inFlight[s]
  BY <1>1 DEF Hear, HearInit, HearUsage, HearClose, HearError, Throw, End, Handle, loop
<1>2. CASE Stretch(r) \/ Wake(r) \/ Crash(r)
  <2>1. inFlight' = inFlight \/ \E S : inFlight' = [inFlight EXCEPT ![r] = S]
    BY <1>2 DEF Stretch, TakeLock, Reconcile, SaveReconciled, Top, Fill, Exit, Dispatch, SavePark,
       SaveDispatch, Spawn, LoadPid, Dispatching, SavePid, SaveHeard, SaveClosed, Wake, Crash,
       Throw, End, loop
  <2>. QED BY <2>1
<1>. QED BY <1>1, <1>2 DEF RunnerStep

\* The other runners are gone, or were never there.
Alone(r) ==
  \A s \in Runner \ {r} :
    /\ pc[s] \in {"unborn", "dead", "threw"} /\ pc'[s] = pc[s]
    /\ target'[s] = target[s] /\ inFlight'[s] = inFlight[s]

\* The runner that takes a step is always the only one.
LEMMA HomeSolo ==
  ASSUME RunnerInv, Typed, NEW r \in Runner, RunnerStep(r)
  PROVE  /\ Alone(r) /\ command' = command /\ pc[r] \notin Ends
         /\ CutOff \subseteq CutOff'
         /\ pc'[r] \notin Ends => CutOff' = CutOff
<1>0. /\ DOMAIN pc = Runner /\ TypeInv /\ OwnerInv /\ DOMAIN inFlight = Runner
  BY DEF RunnerInv, OwnerInv, Typed, FieldsInv
<1>1. /\ pc' = [pc EXCEPT ![r] = pc'[r]] /\ command' = command
      /\ pc[r] \notin {"unborn", "dead", "threw"}
  BY <1>0, RunnerMoves
<1>2. \A s \in Runner \ {r} : target'[s] = target[s] /\ inFlight'[s] = inFlight[s]
  BY <1>0, RunnerFrame, RunnerInFlight
<1>3. \A s \in Runner \ {r} : ~Alive(s) BY <1>0, <1>1 DEF OwnerInv, Alive
<1>4. Alone(r) BY <1>0, <1>1, <1>2, <1>3 DEF Alone, Alive
<1>5. \A s \in Runner : pc[s] \in Ends => pc'[s] = pc[s] /\ inFlight'[s] = inFlight[s]
  BY <1>1, <1>4 DEF Alone, Ends
<1>6. CutOff \subseteq CutOff' BY <1>5, CutGrows
<1>7. ASSUME pc'[r] \notin Ends PROVE CutOff' = CutOff
  <2>1. \A s \in Runner : pc'[s] \in Ends => pc[s] \in Ends BY <1>4, <1>7 DEF Alone
  <2>. QED BY <1>5, <2>1, CutSteady
<1>. QED BY <1>1, <1>4, <1>6, <1>7 DEF Ends

\* The part of the invariant that a step of runner r is about.
Returned(r) == Rooted(CutOff', queue') /\ AwayInv' /\ TendedInv' /\ HomeOK(r)'

\* Steps that leave the processes and the checkouts alone.
LEMMA PlainReturned ==
  ASSUME RunnerInv, HomeInv, NEW r \in Runner, Alone(r), CutOff' = CutOff, DOMAIN inFlight = Runner,
         \/ TakeLock(r) \/ SaveReconciled(r) \/ Top(r) \/ SavePark(r)
         \/ SaveHeard(r) \/ Wake(r) \/ SaveDispatch(r)
  PROVE  Returned(r)
<1>. USE DEF Goto, Save, disk, loop
<1>0. DOMAIN pc = Runner /\ DOMAIN snap = Runner BY DEF RunnerInv, OwnerInv, TypeInv
<1>1. /\ child' = child /\ head' = head /\ inFlight[r] \subseteq inFlight'[r]
      /\ pc'[r] \notin Saving \union {"dispatch"} /\ pc[r] \notin {"loadPid", "savePid"}
      /\ queue' = queue \/ (pc[r] \in Saving /\ queue' = snap[r])
      /\ pc[r] \in {"saveDispatch", "spawn"} => pc'[r] \in {"saveDispatch", "spawn"} /\ target' = target
  <2>1. CASE TakeLock(r) \/ Top(r) \/ Wake(r)
    BY <1>0, <2>1 DEF TakeLock, Top, Wake, Saving
  <2>2. CASE SaveReconciled(r) \/ SavePark(r) \/ SaveDispatch(r)
    BY <1>0, <2>2 DEF SaveReconciled, SavePark, Dispatching, SaveDispatch, Saving
  <2>3. CASE SaveHeard(r)
    BY <1>0, <2>3 DEF SaveHeard, Saving
  <2>. QED BY <2>1, <2>2, <2>3
<1>2. Steady(child, child') BY <1>1 DEF Steady
<1>3. AwayInv'
  <2>1. \A s \in Runner : pc[s] \in {"saveDispatch", "spawn"} =>
          pc'[s] \in {"saveDispatch", "spawn"} /\ target'[s] = target[s]
    BY <1>1 DEF Alone
  <2>. QED BY <1>1, <1>2, <2>1, AwaySteady DEF HomeInv
<1>4. TendedInv'
  <2>1. \A s \in Runner :
          /\ \A p \in Pid : Working(child, p) /\ child[p].parent = s /\ child[p].task \in inFlight[s] =>
               child[p].task \in inFlight'[s]
          /\ pc[s] \in {"loadPid", "savePid"} =>
               pc'[s] \in {"loadPid", "savePid"} /\ target'[s] = target[s]
    BY <1>1 DEF Alone
  <2>. QED BY <1>2, <2>1, TendedSteady DEF HomeInv
<1>5. Rooted(CutOff', queue') BY <1>1 DEF HomeInv, HomeOK
<1>6. HomeOK(r)' BY <1>1 DEF HomeOK, Saving
<1>. QED BY <1>3, <1>4, <1>5, <1>6 DEF Returned

\* What a runner computes to save: reconcile, the record of a pid, what a process said.
LEMMA PreparedReturned ==
  ASSUME Typed, HomeInv, NEW r \in Runner, Alone(r), CutOff' = CutOff,
         child' = child \/ \E p \in Pid : child[p] # NoChild /\ child' = [child EXCEPT ![p].told = TRUE],
         head' = head, inFlight' = inFlight, queue' = queue,
         pc[r] \notin {"saveDispatch", "spawn", "savePid"},
         pc[r] = "loadPid" => pc'[r] = "savePid" /\ target' = target,
         pc'[r] \notin {"saveClosed", "dispatch"},
         pc'[r] \in Saving => Rooted(CutOff, snap'[r])
  PROVE  Returned(r)
<1>0. DOMAIN child = Pid /\ \A p \in Pid : child[p] # NoChild => child[p] \in Child
  BY DEF Typed, FieldsInv
<1>1. Steady(child, child')
  <2>1. CASE child' = child BY <2>1 DEF Steady
  <2>2. ASSUME NEW p \in Pid, child[p] # NoChild, child' = [child EXCEPT ![p].told = TRUE]
        PROVE  Steady(child, child')
    <3>1. child[p] \in Child BY <1>0, <2>2
    <3> DEFINE c == [child[p] EXCEPT !.told = TRUE]
    <3>2. c \in Child /\ c.task = child[p].task /\ c.parent = child[p].parent /\ c.phase = child[p].phase
      BY <3>1 DEF Child
    <3>3. child'[p] = c /\ \A i \in Pid \ {p} : child'[i] = child[i] BY <1>0, <2>2
    <3>. HIDE DEF c
    <3>4. Working(child', p) <=> Working(child, p) BY <2>2, <3>2, <3>3, NoChildIsNoChild DEF Working
    <3>. QED BY <3>2, <3>3, <3>4 DEF Steady, Working
  <2>. QED BY <2>1, <2>2
<1>2. AwayInv'
  <2>1. \A s \in Runner : pc[s] \in {"saveDispatch", "spawn"} =>
          pc'[s] \in {"saveDispatch", "spawn"} /\ target'[s] = target[s]
    BY DEF Alone
  <2>. QED BY <1>1, <2>1, AwaySteady DEF HomeInv
<1>3. TendedInv'
  <2>1. \A s \in Runner :
          pc[s] \in {"loadPid", "savePid"} =>
               pc'[s] \in {"loadPid", "savePid"} /\ target'[s] = target[s]
    BY DEF Alone
  <2>. QED BY <1>1, <2>1, TendedSteady DEF HomeInv
<1>4. HomeOK(r)' BY DEF HomeOK
<1>. QED BY <1>2, <1>3, <1>4 DEF Returned, HomeInv

LEMMA ReconcileReturned ==
  ASSUME RunnerInv, Typed, HomeInv, NEW r \in Runner, Reconcile(r),
         Alone(r), CutOff' = CutOff
  PROVE  Returned(r)
<1>0. DOMAIN pc = Runner /\ DOMAIN snap = Runner /\ QueueType(queue) /\ Rooted(CutOff, queue)
  BY DEF RunnerInv, OwnerInv, TypeInv, HomeInv
<1>1. /\ pc[r] = "reconcile" /\ pc'[r] \in {"top", "saveReconciled"}
      /\ queue' = queue /\ child' = child /\ head' = head /\ inFlight' = inFlight
      /\ pc'[r] = "saveReconciled" => snap'[r] = Reconciled(queue)
  BY <1>0 DEF Reconcile, Goto, Prepare, disk, loop
<1>2. Rooted(CutOff, Reconciled(queue))
  <2>1. ASSUME NEW t \in Interrupted(queue)
        PROVE  LET record == [queue.task[t] EXCEPT !.status = "pending", !.lock = NoLock]
               IN  Sane(CutOff, t, record)
    <3> DEFINE old == queue.task[t]
               record == [old EXCEPT !.status = "pending", !.lock = NoLock]
    <3>1. old \in Record /\ t \in Present(queue) BY <1>0, <2>1 DEF Interrupted, Present, QueueType
    <3>2. record.status = "pending" /\ record.branch = old.branch /\ record.base = old.base
      <4>. HIDE DEF old
      <4>. QED BY <3>1 DEF Record
    <3>3. Sane(CutOff, t, old) BY <1>0, <3>1 DEF Rooted
    <3>. HIDE DEF record, old
    <3>4. Sane(CutOff, t, record) BY <3>2, <3>3, SaneStays
    <3>. QED BY <3>4 DEF record, old
  <2> DEFINE f == [t \in Task |-> IF t \in Interrupted(queue)
                     THEN [queue.task[t] EXCEPT !.status = "pending", !.lock = NoLock]
                     ELSE queue.task[t]]
  <2>2. Reconciled(queue) = [queue EXCEPT !.task = f] BY Zenon DEF Reconciled
  <2>3. \A t \in Interrupted(queue) : Sane(CutOff, t, f[t])
    <3>1. \A t \in Interrupted(queue) :
            f[t] = [queue.task[t] EXCEPT !.status = "pending", !.lock = NoLock]
      BY DEF Interrupted, Present
    <3>. HIDE DEF f
    <3>. QED BY <2>1, <3>1
  <2>4. \A t \in Task \ Interrupted(queue) : f[t] = queue.task[t] OBVIOUS
  <2>. HIDE DEF f
  <2>5. Reconciled(queue).task = f BY <1>0, <2>2 DEF QueueType
  <2>. SUFFICES ASSUME NEW t \in Task, f[t] # NoTask PROVE Sane(CutOff, t, f[t])
    BY <2>5 DEF Rooted, Present
  <2>6. CASE t \in Interrupted(queue) BY <2>3, <2>6
  <2>7. CASE t \notin Interrupted(queue)
    <3>1. f[t] = queue.task[t] /\ t \in Present(queue) BY <2>4, <2>7 DEF Present
    <3>. QED BY <1>0, <3>1 DEF Rooted
  <2>. QED BY <2>6, <2>7
<1>3. pc'[r] \in Saving => Rooted(CutOff, snap'[r]) BY <1>1, <1>2 DEF Saving
<1>. QED BY <1>1, <1>3, PreparedReturned

LEMMA LoadPidReturned ==
  ASSUME RunnerInv, Typed, HomeInv, NEW r \in Runner, LoadPid(r), pc'[r] \notin {"dead", "threw"},
         Alone(r), CutOff' = CutOff
  PROVE  Returned(r)
<1> DEFINE t == target[r].task
<1>0. /\ TypeInv /\ OwnerInv /\ QueueType(queue) /\ Rooted(CutOff, queue) /\ RunnerOK(r) /\ pc[r] = "loadPid"
  BY DEF RunnerInv, TypeInv, HomeInv, LoadPid
<1>1. /\ pc'[r] = "savePid" /\ queue' = queue /\ child' = child /\ target' = target
      /\ Locked(queue, r, t)
      /\ \E record \in Record :
           /\ snap'[r] = Updated(queue, t, record) /\ record.status = "running"
           /\ record.branch = queue.task[t].branch /\ record.base = queue.task[t].base
  BY <1>0, LoadPidPrepares
<1>2. head' = head /\ inFlight' = inFlight
  <2>1. t \in Present(queue) BY <1>1 DEF Locked, Has
  <2>. QED BY <2>1 DEF LoadPid, disk, loop, Throw, End, Goto, Prepare
<1>. HIDE DEF t
<1>3. Rooted(CutOff, snap'[r])
  <2>1. t \in Present(queue) /\ queue.task[t].status = "running" BY <1>1 DEF Locked, Has
  <2>2. Sane(CutOff, t, queue.task[t]) BY <1>0, <2>1 DEF Rooted
  <2>3. PICK record \in Record :
           /\ snap'[r] = Updated(queue, t, record) /\ record.status = "running"
           /\ record.branch = queue.task[t].branch /\ record.base = queue.task[t].base
    BY <1>1
  <2>4. Sane(CutOff, t, record) BY <2>1, <2>2, <2>3, SaneStays
  <2>. QED BY <1>0, <2>1, <2>3, <2>4, UpdatedRooted
<1>. QED BY <1>0, <1>1, <1>2, <1>3, PreparedReturned

LEMMA HeardReturned ==
  ASSUME RunnerInv, Typed, HomeInv, NEW r \in Runner, NEW p \in Pid,
         HearInit(r, p) \/ HearUsage(r, p), pc'[r] \notin {"dead", "threw"},
         Alone(r), CutOff' = CutOff
  PROVE  Returned(r)
<1> DEFINE t == child[p].task
           old == queue.task[t]
           record == [old EXCEPT !.session = TRUE]
<1>0. /\ DOMAIN pc = Runner /\ DOMAIN snap = Runner /\ QueueType(queue) /\ Rooted(CutOff, queue)
  BY DEF RunnerInv, OwnerInv, TypeInv, HomeInv
<1>1. /\ child[p] # NoChild /\ t \in Present(queue) /\ pc[r] = "rest"
      /\ pc'[r] = "saveHeard" /\ queue' = queue /\ head' = head /\ inFlight' = inFlight
      /\ \/ child' = child /\ snap'[r] = queue
         \/ child' = [child EXCEPT ![p].told = TRUE] /\ snap'[r] = Named(queue, t)
  BY <1>0 DEF HearInit, HearUsage, Hears, Throw, End, Handle, Prepare, Goto, Gone, loop
<1>2. Named(queue, t) = Updated(queue, t, record) BY Zenon DEF Named
<1>3. /\ record \in Record /\ record.status = old.status
      /\ record.branch = old.branch /\ record.base = old.base
  <2>1. old \in Record BY <1>0, <1>1 DEF QueueType, Present
  <2>. HIDE DEF old
  <2>. QED BY <2>1 DEF Record
<1>4. Sane(CutOff, t, old) BY <1>0, <1>1 DEF Rooted
<1>. HIDE DEF record, old
<1>5. Sane(CutOff, t, record) BY <1>3, <1>4, SaneStays
<1>6. Rooted(CutOff, Updated(queue, t, record))
  <2>. HIDE DEF t
  <2>. QED BY <1>0, <1>1, <1>3, <1>5, UpdatedRooted
<1>7. Rooted(CutOff, snap'[r]) BY <1>0, <1>1, <1>2, <1>6
<1>8. child' = child \/ \E i \in Pid : child[i] # NoChild /\ child' = [child EXCEPT ![i].told = TRUE]
  BY <1>1
<1>. QED BY <1>1, <1>7, <1>8, PreparedReturned

\* canStart: a task is taken when nothing works in its checkout.
LEMMA FillReturned ==
  ASSUME ~Overlapping, RunnerInv, Typed, HomeInv, NEW r \in Runner, Fill(r),
         Alone(r), CutOff' = CutOff
  PROVE  Returned(r)
<1>0. UniqueInv /\ TypeInv /\ DOMAIN pc = Runner /\ DOMAIN inFlight = Runner
  BY DEF RunnerInv, OwnerInv, Typed, FieldsInv
<1>1. /\ pc[r] = "fill" /\ pc'[r] \in {"dispatch", "exit", "rest", "top"}
      /\ queue' = queue /\ child' = child /\ head' = head
      /\ inFlight'[r] = inFlight[r] \/ inFlight'[r] = Unsettled(r)
      /\ pc'[r] = "dispatch" => CanStart(queue, target'[r].task)
  <2>1. DOMAIN target = Runner /\ target[r] = [task |-> target[r].task, pid |-> target[r].pid]
    BY <1>0 DEF TypeInv
  <2>2. /\ pc[r] = "fill" /\ queue' = queue /\ child' = child /\ head' = head
        /\ \/ /\ pc' = [pc EXCEPT ![r] = "dispatch"] /\ inFlight' = inFlight
              /\ \E t \in NextDispatchable(queue, now) : target' = [target EXCEPT ![r].task = t]
           \/ /\ \E place \in {"exit", "rest", "top"} : pc' = [pc EXCEPT ![r] = place]
              /\ inFlight' = [inFlight EXCEPT ![r] = Unsettled(r)]
    BY DEF Fill, Goto, disk
  <2>3. \A t : target' = [target EXCEPT ![r].task = t] => target'[r].task = t BY <2>1
  <2>4. \A t \in NextDispatchable(queue, now) : CanStart(queue, t)
    BY DEF NextDispatchable, Startable
  <2>. QED BY <1>0, <2>2, <2>3, <2>4
<1>2. Fits(queue, child)
  <2>1. RunnerStep(r) BY DEF RunnerStep, Stretch
  <2>. QED BY <1>1, <2>1, Solo
<1>3. ASSUME pc'[r] = "dispatch", Iso[target'[r].task] = "infolder",
             NEW p \in Pid, Works(child, p, Cwd[target'[r].task])
      PROVE  FALSE
  <2>1. Names(queue, p, child[p]) BY <1>2, <1>3 DEF Works, Working, Fits, Right
  <2>2. child[p].task \in Present(queue) /\ queue.task[child[p].task].status = "running"
    BY <2>1 DEF Names, Has
  <2>. QED BY <1>1, <1>3, <2>2 DEF CanStart, Works
<1>4. HomeOK(r)'
  <2>1. pc'[r] \notin Saving \union {"saveClosed"} BY <1>1 DEF Saving
  <2>. QED BY <1>1, <1>3, <2>1 DEF HomeOK
<1>5. Steady(child, child') BY <1>1 DEF Steady
<1>6. AwayInv'
  <2>1. \A s \in Runner : pc[s] \in {"saveDispatch", "spawn"} =>
          pc'[s] \in {"saveDispatch", "spawn"} /\ target'[s] = target[s]
    BY <1>1 DEF Alone
  <2>. QED BY <1>1, <1>5, <2>1, AwaySteady DEF HomeInv
<1>7. TendedInv'
  <2>1. ASSUME NEW p \in Pid, Working(child, p), child[p].parent = r, child[p].task \in inFlight[r]
        PROVE  child[p].task \in inFlight'[r]
    BY <1>1, <2>1 DEF Working, Unsettled
  <2>2. \A s \in Runner :
          /\ \A p \in Pid : Working(child, p) /\ child[p].parent = s /\ child[p].task \in inFlight[s] =>
               child[p].task \in inFlight'[s]
          /\ pc[s] \in {"loadPid", "savePid"} =>
               pc'[s] \in {"loadPid", "savePid"} /\ target'[s] = target[s]
    BY <1>1, <2>1 DEF Alone
  <2>. QED BY <1>5, <2>2, TendedSteady DEF HomeInv
<1>. QED BY <1>1, <1>4, <1>6, <1>7 DEF Returned, HomeInv

\* Whether it leaves, dies or throws: what a runner that ends was at is cut off.
LEMMA EndMoves ==
  ASSUME RunnerInv, Typed, NEW r \in Runner, RunnerStep(r), pc'[r] \in Ends
  PROVE  /\ child' = Orphaned(r) /\ queue' = queue /\ stop' \subseteq stop
         /\ inFlight'[r] = AtHand(r)
         /\ head' = head \/ \E t \in Present(queue) : head' = Finalized(t, queue.task[t])
<1>. USE DEF Goto, Prepare, Save, Throw, Handle, disk, Ends
<1>0. DOMAIN pc = Runner /\ DOMAIN inFlight = Runner BY DEF RunnerInv, OwnerInv, Typed, FieldsInv
<1>1. ASSUME NEW place, End(r, place) PROVE child' = Orphaned(r) /\ inFlight'[r] = AtHand(r)
  BY <1>0, <1>1 DEF End
<1>2. CASE Exit(r) \/ Crash(r) BY <1>1, <1>2 DEF Exit, Crash
<1>3. CASE Dispatch(r) \/ LoadPid(r) BY <1>0, <1>1, <1>3 DEF Dispatch, LoadPid
<1>4. ASSUME NEW p \in Pid, HearInit(r, p) \/ HearUsage(r, p)
      PROVE  /\ child' = Orphaned(r) /\ queue' = queue /\ stop' \subseteq stop
             /\ inFlight'[r] = AtHand(r) /\ head' = head
  BY <1>0, <1>1, <1>4 DEF HearInit, HearUsage, Hears
<1>5. ASSUME NEW p \in Pid, HearClose(r, p) \/ HearError(r, p)
      PROVE  /\ child' = Orphaned(r) /\ queue' = queue /\ stop' \subseteq stop
             /\ inFlight'[r] = AtHand(r)
             /\ \/ head' = head
                \/ /\ child[p].task \in Present(queue)
                   /\ head' = Finalized(child[p].task, queue.task[child[p].task])
  BY <1>0, <1>1, <1>5 DEF HearClose, HearError, Hears, Gone, Unmarked
<1>6. CASE \/ TakeLock(r) \/ Reconcile(r) \/ SaveReconciled(r) \/ Top(r) \/ Fill(r) \/ Wake(r)
           \/ SavePark(r) \/ SaveDispatch(r) \/ Spawn(r) \/ SavePid(r) \/ SaveHeard(r) \/ SaveClosed(r)
  BY <1>0, <1>6 DEF TakeLock, Reconcile, SaveReconciled, Top, Fill, Wake, SavePark, SaveDispatch,
     Spawn, SavePid, SaveHeard, SaveClosed
<1>. QED BY <1>2, <1>3, <1>4, <1>5, <1>6 DEF RunnerStep, Stretch, Hear

\* A runner that ends was at all that worked for it.
LEMMA EndCuts ==
  ASSUME RunnerInv, Typed, HomeInv, NEW r \in Runner, RunnerStep(r), pc'[r] \in Ends,
         Alone(r), CutOff \subseteq CutOff'
  PROVE  /\ AtHand(r) \subseteq CutOff'
         /\ \A p \in Pid : Working(child, p) => child[p].task \in CutOff'
<1>0. TypeInv /\ ParentInv /\ RunnerOK(r) /\ TendedInv BY DEF RunnerInv, HomeInv
<1>1. inFlight'[r] = AtHand(r) BY EndMoves
<1>2. AtHand(r) \subseteq CutOff' BY <1>1 DEF CutOff, Ends
<1>3. ASSUME NEW p \in Pid, Working(child, p) PROVE child[p].task \in CutOff'
  <2>1. CASE child[p].parent = NoRunner BY <1>0, <1>3, <2>1 DEF TendedInv
  <2>2. CASE child[p].parent # NoRunner
    <3>1. child[p].parent \in Runner /\ pc[child[p].parent] \notin Childless
      BY <1>0, <1>3, <2>2 DEF TendedInv, ParentInv, Working
    <3>2. child[p].parent = r BY <3>1 DEF Alone, Childless
    <3>3. child[p].task \in inFlight[r] \/ (pc[r] \in {"loadPid", "savePid"} /\ target[r].pid = p)
      BY <1>0, <1>3, <2>2, <3>2 DEF TendedInv
    <3>4. pc[r] \in {"loadPid", "savePid"} /\ target[r].pid = p => child[p].task = target[r].task
      BY <1>0 DEF RunnerOK
    <3>5. child[p].task \in Task BY <1>0, <1>3 DEF Working, TypeInv, Child
    <3>. QED BY <1>2, <3>3, <3>4, <3>5 DEF AtHand
  <2>. QED BY <2>1, <2>2
<1>. QED BY <1>2, <1>3

LEMMA EndReturned ==
  ASSUME RunnerInv, Typed, HomeInv, NEW r \in Runner, RunnerStep(r), pc'[r] \in Ends,
         Alone(r), CutOff \subseteq CutOff'
  PROVE  Returned(r)
<1>0. /\ TypeInv /\ DOMAIN pc = Runner /\ ParentInv /\ RunnerOK(r)
      /\ Rooted(CutOff, queue) /\ AwayInv /\ TendedInv /\ head \in [Project -> Branch]
      /\ QueueType(queue)
  BY DEF RunnerInv, OwnerInv, HomeInv, TypeInv
<1>1. /\ child' = Orphaned(r) /\ queue' = queue /\ inFlight'[r] = AtHand(r)
      /\ head' = head \/ \E t \in Present(queue) : head' = Finalized(t, queue.task[t])
  BY EndMoves
<1>2. AtHand(r) \subseteq CutOff' BY EndCuts
<1>3. \A p \in Pid : Working(child, p) => child[p].task \in CutOff' BY EndCuts
<1>4. ASSUME NEW c \in Project PROVE head'[c] \notin Task \ CutOff'
  <2>. SUFFICES ASSUME head'[c] \in Task \ CutOff' PROVE FALSE OBVIOUS
  <2>1. head'[c] = head[c]
    <3>1. CASE head' = head BY <3>1
    <3>2. ASSUME NEW t \in Present(queue), head' = Finalized(t, queue.task[t])
          PROVE  head'[c] = head[c]
      <4> DEFINE old == queue.task[t]
      <4>1. \/ head' = head
            \/ /\ head' = [head EXCEPT ![Cwd[t]] = old.base] /\ Iso[t] = "infolder"
               /\ old.base # NoBranch
        BY <3>2 DEF Finalized
      <4>2. Sane(CutOff, t, old) BY <1>0, <3>2 DEF Rooted
      <4>3. Iso[t] = "infolder" /\ old.base # NoBranch => old.base \notin Task \ CutOff'
        BY <4>2, HomeBranch DEF Sane
      <4>4. t \in Task /\ Cwd[t] \in Project BY <3>2, CwdType DEF Present
      <4>. HIDE DEF old
      <4>. QED BY <1>0, <4>1, <4>3, <4>4
    <3>. QED BY <1>1, <3>1, <3>2
  <2>2. head[c] \in Task \ CutOff BY <2>1
  <2>3. ~\E p \in Pid : Works(child, p, c) /\ child[p].task = head[c]
    BY <1>3, <2>1 DEF Works
  <2>4. PICK s \in Runner : Coming(s, head[c]) BY <1>0, <2>2, <2>3 DEF AwayInv
  <2>5. s = r BY <2>4 DEF Coming, Alone
  <2>6. head[c] \in AtHand(r) BY <2>1, <2>4, <2>5 DEF Coming, AtHand
  <2>. QED BY <1>2, <2>1, <2>6
<1>5. AwayInv' BY <1>4 DEF AwayInv
<1>6. TendedInv'
  <2>. SUFFICES ASSUME NEW p \in Pid, Working(child', p)
                PROVE  child'[p].parent = NoRunner /\ child'[p].task \in CutOff'
    BY DEF TendedInv
  <2>1. /\ child[p] # NoChild /\ child'[p].phase = child[p].phase /\ child'[p].task = child[p].task
        /\ IF child[p].parent = r THEN child'[p].parent = NoRunner ELSE child'[p] = child[p]
    <3>1. /\ Fewer(child, child')
          /\ child'[p].phase = child[p].phase
          /\ IF child[p].parent = r THEN child'[p].parent = NoRunner ELSE child'[p] = child[p]
      BY <1>0, <1>1, OrphanedOK DEF Working
    <3>2. child[p] # NoChild /\ child'[p].task = child[p].task BY <3>1 DEF Fewer, Kin, Working
    <3>. QED BY <3>1, <3>2
  <2>2. Working(child, p) BY <2>1 DEF Working
  <2>3. child'[p].parent = NoRunner
    <3>1. CASE child[p].parent = r BY <2>1, <3>1
    <3>2. CASE child[p].parent # r
      <4>. SUFFICES ASSUME child[p].parent # NoRunner PROVE FALSE BY <2>1, <3>2
      <4>1. child[p].parent \in Runner /\ pc[child[p].parent] \notin Childless
        BY <1>0, <2>2 DEF TendedInv, ParentInv, Working
      <4>. QED BY <3>2, <4>1 DEF Alone, Childless
    <3>. QED BY <3>1, <3>2
  <2>. QED BY <1>3, <2>1, <2>2, <2>3
<1>7. Rooted(CutOff', queue') BY <1>0, <1>1, RootedMore
<1>8. HomeOK(r)' BY DEF HomeOK, Saving, Ends
<1>. QED BY <1>5, <1>6, <1>7, <1>8 DEF Returned

\* prepareInFolder moves a checkout that nothing works in, and records its branch as the
\* way back.
LEMMA DispatchReturned ==
  ASSUME RunnerInv, Typed, HomeInv, NEW r \in Runner, Dispatch(r), pc'[r] \notin {"dead", "threw"},
         Alone(r), CutOff' = CutOff
  PROVE  Returned(r)
<1> DEFINE t == target[r].task
           old == queue.task[t]
<1>0. /\ TypeInv /\ DOMAIN pc = Runner /\ QueueType(queue) /\ Rooted(CutOff, queue) /\ HomeOK(r) /\ AwayInv
      /\ head \in [Project -> Branch] /\ pc[r] = "dispatch"
  BY DEF RunnerInv, OwnerInv, TypeInv, HomeInv, Dispatch
<1>1. /\ t \in Present(queue) /\ queue' = queue /\ child' = child /\ target' = target
      /\ \E record \in Record :
           /\ snap'[r] = Updated(queue, t, record)
           /\ \/ /\ pc'[r] = "savePark" /\ record.status = "needs-approval"
                 /\ record.branch = old.branch /\ record.base = old.base
              \/ pc'[r] = "saveDispatch" /\ (Iso[t] = "infolder" => Branched(t, record))
  BY <1>0, DispatchPrepares
<1>2. /\ inFlight' = inFlight
      /\ \/ pc'[r] = "savePark" /\ head' = head
         \/ /\ pc'[r] = "saveDispatch" /\ ~MustPark(t, old)
            /\ head' = IF Iso[t] = "infolder" THEN [head EXCEPT ![Cwd[t]] = t] ELSE head
  BY <1>0, <1>1 DEF Dispatch, Throw, End, Prepare, Goto, disk, loop
<1>3. t \in Task /\ Cwd[t] \in Project /\ old \in Record
  BY <1>0, <1>1, CwdType DEF Present, QueueType
<1>4. \A s \in Runner : pc[s] \notin {"saveDispatch", "spawn", "loadPid", "savePid"}
  BY <1>0 DEF Alone
<1>5. ASSUME Iso[t] = "infolder", ~MustPark(t, old), FirstTime(old)
      PROVE  head[Cwd[t]] \in {Main} \union CutOff /\ head[Cwd[t]] # NoBranch
  <2>1. head[Cwd[t]] \notin Task \ CutOff
    <3>1. \A p \in Pid : ~Works(child, p, Cwd[t]) BY <1>0, <1>5 DEF HomeOK
    <3>. QED BY <1>0, <1>3, <1>4, <3>1 DEF AwayInv, Coming
  <2>2. head[Cwd[t]] # Detached BY <1>5 DEF MustPark
  <2>. QED BY <1>0, <1>3, <2>1, <2>2, HomeBranch DEF Branch
<1>6. Sane(CutOff, t, old) BY <1>0, <1>1 DEF Rooted
<1>7. ~FirstTime(old) => old.branch = TRUE
  <2>1. old.branch \in BOOLEAN BY <1>3 DEF Record
  <2>. HIDE DEF old
  <2>. QED BY <2>1, Zenon DEF FirstTime
<1>8. Rooted(CutOff, snap'[r])
  <2>1. PICK record \in Record :
          /\ snap'[r] = Updated(queue, t, record)
          /\ \/ /\ pc'[r] = "savePark" /\ record.status = "needs-approval"
                /\ record.branch = old.branch /\ record.base = old.base
             \/ pc'[r] = "saveDispatch" /\ (Iso[t] = "infolder" => Branched(t, record))
    BY <1>1
  <2>2. CASE pc'[r] = "savePark"
    <3>1. record.status = "needs-approval" /\ record.branch = old.branch /\ record.base = old.base
      BY <2>1, <2>2
    <3>2. Sane(CutOff, t, record) BY <1>6, <3>1, SaneStays
    <3>. HIDE DEF t
    <3>. QED BY <1>0, <1>1, <2>1, <3>2, UpdatedRooted
  <2>3. CASE pc'[r] = "saveDispatch"
    <3>1. ASSUME Iso[t] = "infolder"
          PROVE  /\ record.branch = TRUE /\ record.base \in {Main, NoBranch} \union CutOff
                 /\ record.base = NoBranch => t \in CutOff
      <4>1. record.branch = TRUE /\ record.base = IF FirstTime(old) THEN BaseOf(t, old) ELSE old.base
        BY <2>1, <2>3, <3>1 DEF Branched
      <4>2. ~MustPark(t, old) BY <1>2, <2>3
      <4>3. CASE FirstTime(old)
        <5>1. head[Cwd[t]] \in {Main} \union CutOff /\ head[Cwd[t]] # NoBranch
          BY <1>5, <3>1, <4>2, <4>3
        <5>2. CASE head[Cwd[t]] = t
          <6>1. t \in CutOff BY <1>3, <5>1, <5>2, HomeBranch
          <6>. QED BY <1>6, <3>1, <4>1, <4>3, <5>2, <6>1 DEF BaseOf, Sane
        <5>3. CASE head[Cwd[t]] # t BY <4>1, <4>3, <5>1, <5>3 DEF BaseOf
        <5>. QED BY <5>2, <5>3
      <4>4. CASE ~FirstTime(old) BY <1>6, <1>7, <3>1, <4>1, <4>4 DEF Sane
      <4>. QED BY <4>3, <4>4
    <3>2. Sane(CutOff, t, record) BY <3>1 DEF Sane
    <3>. HIDE DEF t
    <3>. QED BY <1>0, <1>1, <2>1, <3>2, UpdatedRooted
  <2>. QED BY <2>1, <2>2, <2>3
<1>9. AwayInv'
  <2>. SUFFICES ASSUME NEW c \in Project, head'[c] \in Task \ CutOff
                PROVE  \/ \E p \in Pid : Works(child', p, c) /\ child'[p].task = head'[c]
                       \/ /\ \E s \in Runner : Coming(s, head[c])'
                          /\ Iso[head'[c]] = "infolder" /\ Cwd[head'[c]] = c
    BY DEF AwayInv
  <2>1. CASE head'[c] = head[c]
    <3>1. PICK p \in Pid : Works(child, p, c) /\ child[p].task = head[c]
      BY <1>0, <1>4, <2>1 DEF AwayInv, Coming
    <3>. QED BY <1>1, <2>1, <3>1
  <2>2. CASE head'[c] # head[c]
    <3>1. pc'[r] = "saveDispatch" /\ Iso[t] = "infolder" /\ c = Cwd[t] /\ head'[c] = t
      BY <1>0, <1>2, <1>3, <2>2
    <3>2. Coming(r, head[c])' BY <1>1, <3>1 DEF Coming
    <3>. QED BY <3>1, <3>2
  <2>. QED BY <2>1, <2>2
<1>10. TendedInv'
  <2>1. Steady(child, child') BY <1>1 DEF Steady
  <2>2. \A s \in Runner :
          /\ \A p \in Pid : Working(child, p) /\ child[p].parent = s /\ child[p].task \in inFlight[s] =>
               child[p].task \in inFlight'[s]
          /\ pc[s] \in {"loadPid", "savePid"} =>
               pc'[s] \in {"loadPid", "savePid"} /\ target'[s] = target[s]
    BY <1>2, <1>4
  <2>. QED BY <2>1, <2>2, TendedSteady DEF HomeInv
<1>11. HomeOK(r)' BY <1>2, <1>8 DEF HomeOK
<1>. QED BY <1>0, <1>1, <1>9, <1>10, <1>11 DEF Returned

\* The process takes over the checkout.
LEMMA SpawnReturned ==
  ASSUME RunnerInv, Typed, HomeInv, NEW r \in Runner, Spawn(r),
         Alone(r), CutOff' = CutOff
  PROVE  Returned(r)
<1> DEFINE t == target[r].task
<1>0. /\ DOMAIN pc = Runner /\ DOMAIN child = Pid /\ target \in [Runner -> Target] /\ pc[r] = "spawn"
      /\ AwayInv /\ TendedInv /\ Rooted(CutOff, queue)
  BY DEF RunnerInv, OwnerInv, Typed, FieldsInv, Spawn, HomeInv
<1>1. PICK i \in Pid, phase \in {"up", "unspawned"} :
        /\ child[i] = NoChild
        /\ child' = [child EXCEPT ![i] = Process(r, t, snap[r].task[t], phase)]
        /\ target' = [target EXCEPT ![r].pid = i]
  BY DEF Spawn
<1>2. queue' = queue /\ head' = head /\ inFlight' = inFlight /\ pc'[r] = "loadPid"
  BY <1>0 DEF Spawn, Goto, disk, loop
<1>3. target'[r].pid = i BY <1>0, <1>1 DEF Target
<1> DEFINE c == Process(r, t, snap[r].task[t], phase)
<1>4. c.task = t /\ c.parent = r /\ c.phase = phase /\ c # NoChild
  <2>1. r \in Runner /\ t \in Task /\ snap[r].task[t] \in Record
    <3>1. t \in Task /\ t \in Present(snap[r]) BY <1>0 DEF Typed, HandInv, Hand, Holding
    <3>2. QueueType(snap[r])
      BY SoundOK DEF Typed, SoundInv
    <3>. QED BY <3>1, <3>2 DEF QueueType, Present
  <2>2. c \in Child
    <3>. HIDE DEF t
    <3>. QED BY <2>1, ProcessType DEF t
  <2>. QED BY <2>2, NoChildIsNoChild DEF Process
<1>. HIDE DEF c
<1>5. child'[i] = c /\ \A p \in Pid \ {i} : child'[p] = child[p] BY <1>0, <1>1 DEF c
<1>6. AwayInv'
  <2>. SUFFICES ASSUME NEW d \in Project, head'[d] \in Task \ CutOff
                PROVE  \E p \in Pid : Works(child', p, d) /\ child'[p].task = head'[d]
    BY DEF AwayInv
  <2>1. CASE \E p \in Pid : Works(child, p, d) /\ child[p].task = head[d]
    <3>1. PICK p \in Pid : Works(child, p, d) /\ child[p].task = head[d] BY <2>1
    <3>2. p # i BY <1>1, <3>1 DEF Works, Working
    <3>. QED BY <1>2, <1>5, <3>1, <3>2 DEF Works, Working
  <2>2. CASE /\ \E s \in Runner : Coming(s, head[d])
             /\ Iso[head[d]] = "infolder" /\ Cwd[head[d]] = d
    <3>1. \A s \in Runner \ {r} : ~Coming(s, head[d]) BY DEF Coming, Alone
    <3>2. t = head[d] BY <2>2, <3>1 DEF Coming
    <3>3. Works(child', i, d) /\ child'[i].task = head'[d]
      BY <1>2, <1>4, <1>5, <2>2, <3>2 DEF Works, Working
    <3>. QED BY <3>3
  <2>. QED BY <1>0, <1>2, <2>1, <2>2 DEF AwayInv
<1>7. TendedInv'
  <2>. SUFFICES ASSUME NEW p \in Pid, Working(child', p)
                PROVE  IF child'[p].parent = NoRunner THEN child'[p].task \in CutOff
                       ELSE /\ child'[p].parent \in Runner
                            /\ \/ child'[p].task \in inFlight'[child'[p].parent]
                               \/ /\ pc'[child'[p].parent] \in {"loadPid", "savePid"}
                                  /\ target'[child'[p].parent].pid = p
    BY DEF TendedInv
  <2>1. CASE p = i BY <1>2, <1>3, <1>4, <1>5, <2>1, NoRunnerIsNoRunner
  <2>2. CASE p # i
    <3>1. child'[p] = child[p] /\ Working(child, p) BY <1>5, <2>2 DEF Working
    <3>2. \A s \in Runner : pc[s] \notin {"loadPid", "savePid"} BY <1>0 DEF Alone
    <3>. QED BY <1>0, <1>2, <3>1, <3>2 DEF TendedInv
  <2>. QED BY <2>1, <2>2
<1>8. HomeOK(r)'
  <2>1. pc'[r] \notin Saving \/ pc'[r] = "savePid" BY <1>2 DEF Saving
  <2>. QED BY <1>2, <2>1 DEF HomeOK
<1>. QED BY <1>0, <1>2, <1>6, <1>7, <1>8 DEF Returned

\* The slot of a process is taken, or freed when the process is gone.
LEMMA SlotReturned ==
  ASSUME RunnerInv, Typed, HomeInv, NEW r \in Runner, SavePid(r) \/ SaveClosed(r),
         Alone(r), CutOff' = CutOff
  PROVE  Returned(r)
<1>. USE DEF Goto, Save
<1>0. /\ DOMAIN pc = Runner /\ DOMAIN inFlight = Runner /\ RunnerOK(r) /\ HomeOK(r)
      /\ AwayInv /\ TendedInv
  BY DEF RunnerInv, OwnerInv, Typed, FieldsInv, HomeInv
<1>1. /\ child' = child /\ head' = head /\ pc'[r] \in {"fill", "rest"}
      /\ pc[r] \in {"savePid", "saveClosed"} /\ queue' = snap[r]
      /\ pc[r] = "savePid" => inFlight'[r] = inFlight[r] \union {target[r].task}
      /\ pc[r] = "saveClosed" => inFlight'[r] = inFlight[r] \ {target[r].task}
  BY <1>0 DEF SavePid, Dispatching, SaveClosed
<1>2. Rooted(CutOff, queue') BY <1>0, <1>1 DEF HomeOK, Saving
<1>3. AwayInv'
  <2>1. Steady(child, child') BY <1>1 DEF Steady
  <2>2. \A s \in Runner : pc[s] \in {"saveDispatch", "spawn"} =>
          pc'[s] \in {"saveDispatch", "spawn"} /\ target'[s] = target[s]
    BY <1>1 DEF Alone
  <2>. QED BY <1>0, <1>1, <2>1, <2>2, AwaySteady
<1>4. TendedInv'
  <2>. SUFFICES ASSUME NEW p \in Pid, Working(child, p), child[p].parent # NoRunner
                PROVE  /\ child[p].parent \in Runner
                       /\ child[p].task \in inFlight'[child[p].parent]
    BY <1>0, <1>1 DEF TendedInv
  <2>1. child[p].parent \in Runner BY <1>0 DEF TendedInv
  <2>2. CASE child[p].parent # r
    <3>1. pc[child[p].parent] \notin {"loadPid", "savePid"} BY <2>1, <2>2 DEF Alone
    <3>. QED BY <1>0, <2>1, <2>2, <3>1 DEF TendedInv, Alone
  <2>3. CASE child[p].parent = r /\ pc[r] = "savePid"
    <3>1. child[p].task \in inFlight[r] \/ target[r].pid = p BY <1>0, <2>3 DEF TendedInv
    <3>2. target[r].pid = p => child[p].task = target[r].task BY <1>0, <2>3 DEF RunnerOK
    <3>. QED BY <1>1, <2>3, <3>1, <3>2
  <2>4. CASE child[p].parent = r /\ pc[r] = "saveClosed"
    <3>1. child[p].task \in inFlight[r] BY <1>0, <2>4 DEF TendedInv
    <3>2. child[p].task # target[r].task BY <1>0, <2>4 DEF HomeOK
    <3>. QED BY <1>1, <2>4, <3>1, <3>2
  <2>. QED BY <1>1, <2>2, <2>3, <2>4
<1>5. HomeOK(r)' BY <1>1 DEF HomeOK, Saving
<1>. QED BY <1>2, <1>3, <1>4, <1>5 DEF Returned

\* finalizeInFolder: a process that worked in a checkout gives it back.
LEMMA ClosedReturned ==
  ASSUME ~Overlapping, RunnerInv, Typed, HomeInv, NEW r \in Runner, NEW p \in Pid,
         HearClose(r, p) \/ HearError(r, p), pc'[r] \notin {"dead", "threw"},
         Alone(r), CutOff' = CutOff
  PROVE  Returned(r)
<1> DEFINE t == child[p].task
           old == queue.task[t]
<1>0. /\ TypeInv /\ DOMAIN pc = Runner /\ DOMAIN target = Runner /\ DOMAIN child = Pid
      /\ QueueType(queue) /\ UniqueInv /\ Rooted(CutOff, queue) /\ AwayInv /\ TendedInv
      /\ head \in [Project -> Branch]
  BY DEF RunnerInv, OwnerInv, TypeInv, HomeInv
<1>1. /\ child[p] # NoChild /\ child[p] \in Child /\ t \in Present(queue) /\ queue' = queue
      /\ pc[r] = "rest" /\ pc'[r] = "saveClosed"
      /\ \E record \in Record :
           /\ snap'[r] = Updated(queue, t, record) /\ record.status # "running"
           /\ record.branch = old.branch /\ record.base = old.base
           /\ \/ child' = [child EXCEPT ![p] = NoChild]
              \/ child' = [child EXCEPT ![p].phase = "errored"]
  BY <1>0, ClosePrepares
<1>2. target'[r].task = t /\ head' = Finalized(t, old) /\ inFlight' = inFlight
  BY <1>0, <1>1 DEF HearClose, HearError, Throw, End, Handle, Prepare, Goto, Gone, loop
<1>3. Fits(queue, child)
  <2>1. RunnerStep(r) BY DEF RunnerStep, Hear
  <2>. QED BY <1>1, <2>1, Solo
<1>4. t \in Task /\ Cwd[t] \in Project /\ old.branch \in BOOLEAN
  BY <1>0, <1>1, CwdType DEF Present, QueueType, Record
<1>5. Sane(CutOff, t, old) BY <1>0, <1>1 DEF Rooted
<1>6. ~Working(child', p) /\ \A i \in Pid \ {p} : child'[i] = child[i]
  <2>1. [child[p] EXCEPT !.phase = "errored"].phase = "errored" BY <1>1 DEF Child
  <2>. QED BY <1>0, <1>1, <2>1 DEF Working
<1>7. ASSUME Works(child, p, Cwd[t]) PROVE head'[Cwd[t]] \notin Task \ CutOff \/ t \in CutOff
  <2>1. Names(queue, p, child[p]) BY <1>3, <1>7 DEF Works, Working, Fits, Right
  <2>2. old.status = "running" BY <2>1 DEF Names, Has
  <2>3. /\ Iso[t] = "infolder" /\ old.branch = TRUE /\ old.base \in {Main, NoBranch} \union CutOff
        /\ old.base = NoBranch => t \in CutOff
    BY <1>5, <1>7, <2>2 DEF Sane, Works
  <2>. QED BY <1>0, <1>2, <1>4, <2>3, HomeBranch DEF Finalized
<1>8. \A c \in Project : head'[c] \in Task \ CutOff => head'[c] = head[c]
  <2>1. \/ head' = head
        \/ /\ head' = [head EXCEPT ![Cwd[t]] = old.base] /\ Iso[t] = "infolder"
           /\ old.base # NoBranch
    BY <1>2 DEF Finalized
  <2>2. CASE head' = head BY <2>2
  <2>3. CASE /\ head' = [head EXCEPT ![Cwd[t]] = old.base] /\ Iso[t] = "infolder"
             /\ old.base # NoBranch
    <3>1. old.base \notin Task \ CutOff BY <1>5, <2>3, HomeBranch DEF Sane
    <3>. HIDE DEF old
    <3>. QED BY <1>0, <1>4, <2>3, <3>1
  <2>. QED BY <2>1, <2>2, <2>3
<1>. HIDE DEF t
<1>9. Rooted(CutOff, snap'[r])
  <2>1. PICK record \in Record :
           /\ snap'[r] = Updated(queue, t, record) /\ record.status # "running"
           /\ record.branch = old.branch /\ record.base = old.base
    BY <1>1
  <2>2. Sane(CutOff, t, record) BY <1>5, <2>1, SaneStays
  <2>. QED BY <1>0, <1>1, <2>1, <2>2, UpdatedRooted
<1>. HIDE DEF old
<1>10. AwayInv'
  <2>. SUFFICES ASSUME NEW c \in Project, head'[c] \in Task \ CutOff
                PROVE  \E i \in Pid : Works(child', i, c) /\ child'[i].task = head'[c]
    BY DEF AwayInv
  <2>1. head'[c] = head[c] BY <1>8
  <2>2. \A s \in Runner : ~Coming(s, head[c]) BY <1>1 DEF Coming, Alone
  <2>3. PICK i \in Pid : Works(child, i, c) /\ child[i].task = head[c] BY <1>0, <2>1, <2>2 DEF AwayInv
  <2>4. i # p
    <3>. SUFFICES ASSUME i = p PROVE FALSE OBVIOUS
    <3>1. c = Cwd[t] /\ t = head[c] BY <2>3 DEF Works, t
    <3>. QED BY <1>7, <2>1, <2>3, <3>1
  <2>. QED BY <1>6, <2>1, <2>3, <2>4 DEF Works, Working
<1>11. TendedInv'
  <2>. SUFFICES ASSUME NEW i \in Pid, Working(child', i)
                PROVE  IF child'[i].parent = NoRunner THEN child'[i].task \in CutOff
                       ELSE /\ child'[i].parent \in Runner
                            /\ child'[i].task \in inFlight'[child'[i].parent]
    BY DEF TendedInv
  <2>1. i # p /\ child'[i] = child[i] /\ Working(child, i) BY <1>6 DEF Working
  <2>2. \A s \in Runner : pc[s] \notin {"loadPid", "savePid"} BY <1>1 DEF Alone
  <2>. QED BY <1>0, <1>2, <2>1, <2>2 DEF TendedInv
<1>12. HomeOK(r)'
  <2>1. ASSUME NEW i \in Pid, Working(child', i) PROVE child'[i].task # target'[r].task
    <3>1. i # p /\ child'[i] = child[i] /\ child[i] # NoChild BY <1>6, <2>1 DEF Working
    <3>. QED BY <1>0, <1>1, <1>2, <3>1 DEF UniqueInv, t
  <2>. QED BY <1>1, <1>9, <2>1 DEF HomeOK
<1>. QED BY <1>0, <1>1, <1>10, <1>11, <1>12 DEF Returned

LEMMA HomeRunner ==
  ASSUME ~Overlapping, RunnerInv, Typed, HomeInv, NEW r \in Runner, RunnerStep(r)
  PROVE  HomeInv'
<1>0. DOMAIN inFlight = Runner BY DEF Typed, FieldsInv
<1>1. /\ Alone(r) /\ command' = command /\ CutOff \subseteq CutOff'
      /\ pc'[r] \notin Ends => CutOff' = CutOff
  BY HomeSolo
<1>2. Returned(r)
  <2>1. CASE pc'[r] \in Ends BY <1>1, <2>1, EndReturned
  <2>2. CASE pc'[r] \notin Ends
    <3>0. pc'[r] \notin {"dead", "threw"} /\ CutOff' = CutOff BY <1>1, <2>2 DEF Ends
    <3>1. CASE \/ TakeLock(r) \/ SaveReconciled(r) \/ Top(r) \/ SavePark(r)
               \/ SaveHeard(r) \/ Wake(r) \/ SaveDispatch(r)
      BY <1>0, <1>1, <3>0, <3>1, PlainReturned
    <3>2. CASE Reconcile(r) BY <1>1, <3>0, <3>2, ReconcileReturned
    <3>3. CASE Fill(r) BY <1>1, <3>0, <3>3, FillReturned
    <3>4. CASE Dispatch(r) BY <1>1, <3>0, <3>4, DispatchReturned
    <3>5. CASE Spawn(r) BY <1>1, <3>0, <3>5, SpawnReturned
    <3>6. CASE LoadPid(r) BY <1>1, <3>0, <3>6, LoadPidReturned
    <3>7. CASE SavePid(r) \/ SaveClosed(r) BY <1>1, <3>0, <3>7, SlotReturned
    <3>8. ASSUME NEW p \in Pid, Hear(r, p) PROVE Returned(r)
      <4>1. CASE HearInit(r, p) \/ HearUsage(r, p) BY <1>1, <3>0, <4>1, HeardReturned
      <4>2. CASE HearClose(r, p) \/ HearError(r, p) BY <1>1, <3>0, <4>2, ClosedReturned
      <4>. QED BY <3>8, <4>1, <4>2 DEF Hear
    <3>9. CASE Exit(r) \/ Crash(r)
      <4>1. DOMAIN pc = Runner BY DEF RunnerInv, OwnerInv
      <4>. QED BY <3>0, <3>9, <4>1 DEF Exit, Crash, End, Goto
    <3>. QED BY <3>1, <3>2, <3>3, <3>4, <3>5, <3>6, <3>7, <3>8, <3>9 DEF RunnerStep, Stretch
  <2>. QED BY <2>1, <2>2
<1>3. ASSUME NEW s \in Runner, s # r PROVE HomeOK(s)'
  <2>1. pc'[s] \in {"unborn", "dead", "threw"} BY <1>1, <1>3 DEF Alone
  <2>. QED BY <2>1 DEF HomeOK, Saving
<1>4. command' # NoCommand /\ command'.does = "save" => Rooted(CutOff', command'.queue)
  BY <1>1, RootedMore DEF HomeInv
<1>. QED BY <1>2, <1>3, <1>4 DEF Returned, HomeInv

\* While a command runs, or a checkout is moved by hand, every runner waits.
LEMMA HomeUser ==
  ASSUME ~Overlapping, RunnerInv, Typed, HomeInv, User
  PROVE  HomeInv'
<1>0. TypeInv /\ TurnInv BY DEF RunnerInv
<1>1. pc' = pc /\ target' = target /\ inFlight' = inFlight /\ head' = head
  <2>1. inFlight' = inFlight /\ head' = head
    BY DEF User, Add, Adopt, Rm, Approve, Stop, Move, Pause, Cleanup, CleanupOf, RemoveTrees,
       MarkAndKill, SaveCommand, WillSave, disk, loop
  <2>. QED BY <2>1, UserMoves
<1>2. \A s \in Runner : pc[s] \in Asleep
  <2>1. MayEnter => \A s \in Runner : pc[s] \in Asleep BY DEF MayEnter, Quiet
  <2>2. SaveCommand \/ MarkAndKill => command # NoCommand BY DEF SaveCommand, MarkAndKill
  <2>. QED BY <1>0, <2>1, <2>2, CommandsSpare DEF TurnInv
<1>a. CutOff' = CutOff BY <1>1 DEF CutOff
<1>3. ASSUME NEW s \in Runner PROVE HomeOK(s)'
  <2>1. pc'[s] \in Asleep BY <1>1, <1>2
  <2>. QED BY <2>1 DEF HomeOK, Asleep, Saving
<1>4. Steady(child, child')
  <2>1. CASE ~MarkAndKill
    <3>1. child' = child
      <4>1. CASE SaveCommand BY <4>1 DEF SaveCommand
      <4>2. CASE ~SaveCommand BY <1>0, <2>1, <4>2, CommandsSpare
      <4>. QED BY <4>1, <4>2
    <3>. QED BY <3>1 DEF Steady
  <2>2. CASE MarkAndKill
    <3>. SUFFICES ASSUME NEW p \in Pid
                  PROVE  /\ Working(child', p) <=> Working(child, p)
                         /\ Working(child, p) => /\ child'[p].task = child[p].task
                                                 /\ child'[p].parent = child[p].parent
      BY DEF Steady
    <3>1. CASE child[p] = NoChild
      <4>1. child'[p] = NoChild BY <2>2, <3>1 DEF MarkAndKill
      <4>. QED BY <3>1, <4>1 DEF Working
    <3>2. CASE child[p] # NoChild
      <4>1. child[p] \in Child BY <3>2 DEF Typed, FieldsInv
      <4>2. child'[p] = child[p] \/ child'[p] = [child[p] EXCEPT !.asked = TRUE]
        BY <2>2, <3>2 DEF MarkAndKill
      <4>3. /\ child'[p] \in Child /\ child'[p].task = child[p].task /\ child'[p].parent = child[p].parent
            /\ child'[p].phase = child[p].phase
        BY <4>1, <4>2 DEF Child
      <4>4. child'[p] # NoChild BY <4>3, NoChildIsNoChild
      <4>. QED BY <3>2, <4>3, <4>4 DEF Working
    <3>. QED BY <3>1, <3>2
  <2>. QED BY <2>1, <2>2
<1>5. AwayInv' /\ TendedInv' BY <1>1, <1>a, <1>4, AwaySteady, TendedSteady DEF HomeInv
<1>6. CASE SaveCommand
  <2>1. queue' = command.queue /\ command' = NoCommand /\ Rooted(CutOff, command.queue)
    BY <1>6 DEF SaveCommand, HomeInv
  <2>. QED BY <1>3, <1>5, <1>a, <2>1 DEF HomeInv
<1>7. CASE MarkAndKill
  <2>1. queue' = queue /\ command' = NoCommand BY <1>7 DEF MarkAndKill
  <2>. QED BY <1>3, <1>5, <1>a, <2>1 DEF HomeInv
<1>8. CASE ~SaveCommand /\ ~MarkAndKill
  <2>1. queue' = queue /\ Rooted(CutOff, queue) BY <1>0, <1>8, CommandsSpare DEF HomeInv
  <2>2. command'.does = "save" => Rooted(CutOff, command'.queue)
    <3>1. CASE \E t \in Task : Stop(t) BY <3>1 DEF Stop
    <3>2. CASE ~\E t \in Task : Stop(t)
      <4>1. PICK q2 : command' = [does |-> "save", queue |-> q2] /\ Edited(queue, q2)
        BY <1>8, <3>2, CommandsEdit
      <4>. QED BY <2>1, <4>1, EditedRooted
    <3>. QED BY <3>1, <3>2
  <2>. QED BY <1>3, <1>5, <1>a, <2>1, <2>2 DEF HomeInv
<1>. QED BY <1>6, <1>7, <1>8

LEMMA HomeMachine ==
  ASSUME RunnerInv, Typed, HomeInv, Machine
  PROVE  HomeInv'
<1>. USE DEF disk, user, loop
<1>1. UNCHANGED <<pc, snap, target, command, queue, inFlight>>
  BY DEF Machine, Say, Finish, UserCheckout, Tick
<1>a. CutOff' = CutOff BY <1>1 DEF CutOff
<1>2. Steady(child, child')
  <2>1. ASSUME NEW i \in Pid, Say(i) \/ Finish(i) PROVE Steady(child, child')
    <3>1. DOMAIN child = Pid /\ child[i] \in Child /\ child[i] # NoChild /\ child[i].phase = "up"
      BY <2>1 DEF Typed, FieldsInv, Say, Finish, Up
    <3>2. \/ child' = [child EXCEPT ![i].said = TRUE]
          \/ child' = [child EXCEPT ![i] = [child[i] EXCEPT !.phase = "exited"]]
          \/ child[i].parent = NoRunner /\ child' = [child EXCEPT ![i] = NoChild]
      BY <2>1 DEF Say, Finish, Ended
    <3>3. /\ \A j \in Pid \ {i} : child'[j] = child[j]
          /\ \/ /\ child'[i] \in Child /\ child'[i].task = child[i].task
                /\ child'[i].parent = child[i].parent /\ child'[i].phase # "errored"
             \/ child[i].parent = NoRunner /\ child'[i] = NoChild
      <4>1. CASE child' = [child EXCEPT ![i].said = TRUE] BY <3>1, <4>1 DEF Child
      <4>2. CASE child' = [child EXCEPT ![i] = [child[i] EXCEPT !.phase = "exited"]]
        BY <3>1, <4>2 DEF Child
      <4>3. CASE child[i].parent = NoRunner /\ child' = [child EXCEPT ![i] = NoChild]
        BY <3>1, <4>3
      <4>. QED BY <3>2, <4>1, <4>2, <4>3
    <3>. QED BY <3>1, <3>3, NoChildIsNoChild DEF Steady, Working
  <2>2. ASSUME child' = child PROVE Steady(child, child') BY <2>2 DEF Steady
  <2>. QED BY <2>1, <2>2 DEF Machine, UserCheckout, Tick
<1>3. TendedInv' BY <1>1, <1>a, <1>2, TendedSteady DEF HomeInv
<1>4. AwayInv'
  <2>1. CASE head' = head BY <1>1, <1>a, <1>2, <2>1, AwaySteady DEF HomeInv
  <2>2. ASSUME NEW c \in Project, UserCheckout(c) PROVE AwayInv'
    <3>1. DOMAIN head = Project /\ AwayInv /\ child' = child BY <2>2 DEF RunnerInv, TypeInv, HomeInv, UserCheckout
    <3>2. head'[c] \in {Main, Detached} /\ \A d \in Project \ {c} : head'[d] = head[d]
      BY <2>2, <3>1 DEF UserCheckout
    <3>. SUFFICES ASSUME NEW d \in Project, head'[d] \in Task \ CutOff
                  PROVE  \/ \E p \in Pid : Works(child', p, d) /\ child'[p].task = head'[d]
                         \/ /\ \E r \in Runner : Coming(r, head[d])'
                            /\ Iso[head'[d]] = "infolder" /\ Cwd[head'[d]] = d
      BY <1>a DEF AwayInv
    <3>3. d # c /\ head'[d] = head[d] BY <3>2, HomeBranch
    <3>4. \A r \in Runner : Coming(r, head[d]) => Coming(r, head[d])' BY <1>1, <3>3 DEF Coming
    <3>. QED BY <3>1, <3>3, <3>4 DEF AwayInv
  <2>. QED BY <2>1, <2>2 DEF Machine, Say, Finish, Tick
<1>5. ASSUME NEW s \in Runner PROVE HomeOK(s)'
  <2>1. HomeOK(s) BY DEF HomeInv
  <2>2. \A p \in Pid : Working(child', p) => Working(child, p) /\ child'[p].task = child[p].task
    BY <1>2 DEF Steady
  <2>3. \A c : \A p \in Pid : Works(child', p, c) => Works(child, p, c) BY <2>2 DEF Works
  <2>. QED BY <1>1, <1>a, <2>1, <2>2, <2>3 DEF HomeOK
<1>. QED BY <1>1, <1>a, <1>3, <1>4, <1>5 DEF HomeInv

LEMMA HomeStep ==
  ASSUME ~Overlapping, RunnerInv, Typed, HomeInv, [Next]_vars
  PROVE  HomeInv'
<1>1. ASSUME NEW r \in Runner, RunnerStep(r) PROVE HomeInv' BY <1>1, HomeRunner
<1>2. ASSUME UNCHANGED <<queue, child, snap, target, command, head, inFlight>>,
             \A s \in Runner : pc'[s] = pc[s] \/ (pc[s] = "unborn" /\ pc'[s] \in {"lock", "dead"})
      PROVE  HomeInv'
  <2>0. CutOff \subseteq CutOff' BY <1>2, CutGrows DEF Ends
  <2>1. Steady(child, child') BY <1>2 DEF Steady
  <2>2. \A s \in Runner : pc[s] # "unborn" => pc'[s] = pc[s] BY <1>2
  <2>3. AwayInv' /\ TendedInv' BY <1>2, <2>0, <2>1, <2>2, AwaySteady, TendedSteady DEF HomeInv
  <2>4. ASSUME NEW s \in Runner PROVE HomeOK(s)'
    <3>1. HomeOK(s) BY DEF HomeInv
    <3>2. CASE pc'[s] = pc[s] BY <1>2, <2>0, <3>1, <3>2, RootedMore DEF HomeOK
    <3>3. CASE pc'[s] \in {"lock", "dead"} BY <3>3 DEF HomeOK, Saving
    <3>. QED BY <1>2, <3>2, <3>3
  <2>5. Rooted(CutOff', queue') BY <1>2, <2>0, RootedMore DEF HomeInv
  <2>6. command' # NoCommand /\ command'.does = "save" => Rooted(CutOff', command'.queue)
    BY <1>2, <2>0, RootedMore DEF HomeInv
  <2>. QED BY <2>3, <2>4, <2>5, <2>6 DEF HomeInv
<1>3. CASE UNCHANGED vars BY <1>2, <1>3 DEF vars, disk, user, loop
<1>4. ASSUME NEW r \in Runner, NEW m \in Mode, Start(r, m) PROVE HomeInv'
  <2>1. /\ UNCHANGED <<queue, child, snap, target, command, head, inFlight>> /\ DOMAIN pc = Runner
        /\ pc[r] = "unborn" /\ pc' = [pc EXCEPT ![r] = pc'[r]] /\ pc'[r] \in {"lock", "dead"}
    BY <1>4 DEF Start, Goto, disk, user, loop, RunnerInv, OwnerInv
  <2>. QED BY <1>2, <2>1
<1>5. CASE User BY <1>5, HomeUser
<1>6. CASE Machine BY <1>6, HomeMachine
<1>. QED BY <1>1, <1>3, <1>4, <1>5, <1>6 DEF Next, RunnerStep

LEMMA HomeStart ==
  ASSUME Init PROVE HomeInv
<1>1. Present(queue) = {} BY DEF Init, EmptyQueue, Present
<1>2. /\ Rooted(CutOff, queue) /\ AwayInv /\ TendedInv
  BY <1>1, HomeBranch DEF Init, Rooted, AwayInv, TendedInv, Working
<1>3. \A r \in Runner : HomeOK(r) BY DEF Init, HomeOK, Saving
<1>. QED BY <1>2, <1>3 DEF Init, HomeInv

\* finalizeInFolder puts the checkout back when a run of an in-folder task ends
\* (git.mjs, runner.mjs).  So when no command and no handler is under way and no process
\* works in the checkout, its HEAD is on no branch of a task, whatever was added, stopped,
\* approved, adopted or removed, whatever starts failed, and however many runners came, left
\* and died; but for the branch of a task that a runner was at when it ended.
THEOREM CheckoutComesHome ==
  ASSUME ~Overlapping, "crashAtSpawn" \notin Faults
  PROVE  Spec => []HomeAgain
<1>1. Init => HomeInv BY HomeStart
<1>2. RunnerInv /\ Typed /\ HomeInv /\ [Next]_vars => HomeInv' BY HomeStep
<1>3. RunnerInv /\ HomeInv => HomeAgain
  <2>. SUFFICES ASSUME RunnerInv, HomeInv, NEW c \in Project, Quiet, \A p \in Pid : ~Occupies(p, c)
                PROVE  head[c] \in {Main, Detached} \union CutOff
    BY DEF HomeAgain
  <2>1. head[c] \in Branch BY DEF RunnerInv, TypeInv
  <2>2. head[c] \notin Task \ CutOff
    <3>1. \A p \in Pid : ~Works(child, p, c) BY DEF Works, Working, Occupies
    <3>2. \A r \in Runner : ~Coming(r, head[c]) BY DEF Coming, Quiet, Asleep
    <3>. QED BY <3>1, <3>2 DEF HomeInv, AwayInv
  <2>. QED BY <2>1, <2>2 DEF Branch
<1>. QED BY <1>1, <1>2, <1>3, RunnerInvAlways, TypedAlways, PTL DEF Spec

-----------------------------------------------------------------------------
(***************************************************************************)
(* The worktree of a task that is to be continued.                         *)
(***************************************************************************)
\* Every task of a queue that has a conversation about a worktree and is not finished
\* has its worktree among T.
Stocked(T, q) ==
  \A t \in Present(q) :
    Iso[t] = "worktree" /\ q.task[t].session = TRUE /\ q.task[t].status \notin Finished => t \in T

\* A process that has said its session id, whether or not it is still up.
Said(processes, p) == processes[p] # NoChild /\ processes[p].said = TRUE

AwaitInv ==
  /\ Stocked(trees, queue)
  /\ command # NoCommand /\ command.does = "save" => Stocked(trees, command.queue)
  /\ \A r \in Runner : pc[r] \in Saving => Stocked(trees, snap[r])
  /\ \A p \in Pid : Said(child, p) /\ Iso[child[p].task] = "worktree" => child[p].task \in trees

LEMMA UpdatedStocked ==
  ASSUME NEW T, NEW q, QueueType(q), Stocked(T, q), NEW t \in Present(q), NEW record \in Record,
         Iso[t] = "worktree" /\ record.session = TRUE /\ record.status \notin Finished => t \in T
  PROVE  Stocked(T, Updated(q, t, record))
<1> DEFINE q2 == Updated(q, t, record)
<1>1. /\ q2.task[t] = record /\ \A u \in Task \ {t} : q2.task[u] = q.task[u]
      /\ Present(q2) = Present(q)
  BY UpdatedOK
<1>. HIDE DEF q2
<1>2. Stocked(T, q2) BY <1>1 DEF Stocked, Present
<1>. QED BY <1>2 DEF q2

\* The record is no less settled than the one it replaces.
LEMMA KeptStocked ==
  ASSUME NEW T, NEW q, QueueType(q), Stocked(T, q), NEW t \in Present(q), NEW record \in Record,
         record.session = q.task[t].session,
         q.task[t].status \in Finished => record.status \in Finished
  PROVE  Stocked(T, Updated(q, t, record))
<1>1. Iso[t] = "worktree" /\ record.session = TRUE /\ record.status \notin Finished => t \in T
  BY DEF Stocked
<1>. QED BY <1>1, UpdatedStocked

LEMMA EditedStocked ==
  ASSUME NEW T, NEW q, NEW q2, Edited(q, q2), Stocked(T, q) PROVE Stocked(T, q2)
<1>. SUFFICES ASSUME NEW t \in Present(q2), Iso[t] = "worktree", q2.task[t].session = TRUE,
                     q2.task[t].status \notin Finished
              PROVE  t \in T
  BY DEF Stocked
<1>1. /\ t \in Present(q) /\ q2.task[t].session = q.task[t].session
      /\ \/ q2.task[t].status = q.task[t].status
         \/ q.task[t].status = "needs-approval"
  BY DEF Edited
<1>. QED BY <1>1 DEF Stocked, Finished

\* reconcile returns tasks that ran.
LEMMA ReconciledStocked ==
  ASSUME NEW T, NEW q, QueueType(q), Stocked(T, q) PROVE Stocked(T, Reconciled(q))
<1>1. PICK f \in [Task -> Record \union {NoTask}] :
        /\ Reconciled(q) = [q EXCEPT !.task = f]
        /\ \A t \in Task : (f[t] = NoTask) <=> (q.task[t] = NoTask)
        /\ \A t \in Task \ Interrupted(q) : f[t] = q.task[t]
        /\ \A t \in Interrupted(q) :
             f[t].status = "pending" /\ f[t].lock = NoLock /\ f[t].session = q.task[t].session
  BY ReconciledTasks
<1>2. Reconciled(q).task = f BY <1>1 DEF QueueType
<1>3. \A t \in Interrupted(q) : q.task[t].status \notin Finished BY DEF Interrupted, Finished
<1>4. \A t \in Task : f[t] # NoTask => q.task[t] # NoTask /\ f[t].session = q.task[t].session
  BY <1>1
<1>5. \A t \in Task : f[t].status \notin Finished => q.task[t].status \notin Finished
  BY <1>1, <1>3
<1>. QED BY <1>2, <1>4, <1>5 DEF Stocked, Present

\* A runner's step makes no process say its session id.
LEMMA RunnerSaid ==
  ASSUME TypeInv, OwnerInv, NEW r \in Runner, RunnerStep(r)
  PROVE  \A p \in Pid : Said(child', p) => Said(child, p) /\ child'[p].task = child[p].task
<1>. USE DEF Goto, Prepare, Save, Handle, disk, loop, user
<1> DEFINE Goal == \A p \in Pid : Said(child', p) => Said(child, p) /\ child'[p].task = child[p].task
<1>0. DOMAIN child = Pid /\ \A p \in Pid : child[p] # NoChild => child[p] \in Child BY DEF TypeInv
<1>1. ASSUME child' = child PROVE Goal BY <1>1 DEF Said
<1>2. ASSUME child' = Orphaned(r) PROVE Goal
  <2>. SUFFICES ASSUME NEW p \in Pid, Said(child', p)
                PROVE  Said(child, p) /\ child'[p].task = child[p].task
    OBVIOUS
  <2>1. /\ child[p] # NoChild /\ child[p] \in Child
        /\ child'[p] = child[p] \/ child'[p] = [child[p] EXCEPT !.parent = NoRunner]
    BY <1>0, <1>2 DEF Orphaned, Said
  <2>. QED BY <2>1 DEF Said, Child
<1>3. CASE Spawn(r)
  <2>1. PICK i \in Pid, phase \in {"up", "unspawned"} :
          child' = [child EXCEPT ![i] = Process(r, target[r].task, snap[r].task[target[r].task], phase)]
    BY <1>3 DEF Spawn
  <2> DEFINE c == Process(r, target[r].task, snap[r].task[target[r].task], phase)
  <2>2. c.said = FALSE BY DEF Process
  <2>3. child' = [child EXCEPT ![i] = c] BY <2>1
  <2>. HIDE DEF c
  <2>. QED BY <1>0, <2>2, <2>3 DEF Said
<1>4. ASSUME NEW i \in Pid, Hear(r, i) PROVE Goal
  <2>1. child[i] # NoChild /\ child[i] \in Child
    BY <1>0, <1>4 DEF Hear, HearInit, HearUsage, HearClose, HearError, Hears
  <2>2. \/ child' = child \/ child' = Orphaned(r)
        \/ child' = [child EXCEPT ![i].told = TRUE]
        \/ child' = [child EXCEPT ![i] = NoChild]
        \/ child' = [child EXCEPT ![i].phase = "errored"]
    BY <1>4 DEF Hear, HearInit, HearUsage, HearClose, HearError, End, Throw
  <2>3. ASSUME child' = [child EXCEPT ![i].told = TRUE] PROVE Goal
    BY <1>0, <2>1, <2>3 DEF Said, Child
  <2>4. ASSUME child' = [child EXCEPT ![i] = NoChild] PROVE Goal
    BY <1>0, <2>4 DEF Said
  <2>5. ASSUME child' = [child EXCEPT ![i].phase = "errored"] PROVE Goal
    BY <1>0, <2>1, <2>5 DEF Said, Child
  <2>. QED BY <1>1, <1>2, <2>2, <2>3, <2>4, <2>5
<1>5. CASE RunnerStep(r) /\ ~Spawn(r) /\ ~\E i \in Pid : Hear(r, i)
  <2>1. child' = child \/ child' = Orphaned(r)
    BY <1>5 DEF RunnerStep, Stretch, TakeLock, Reconcile, SaveReconciled, Top, Fill, Exit, Dispatch,
       SavePark, Dispatching, SaveDispatch, LoadPid, SavePid, SaveHeard, SaveClosed, Wake, Crash, End, Throw
  <2>. QED BY <1>1, <1>2, <2>1
<1>. QED BY <1>3, <1>4, <1>5

\* What a runner computes to save is stocked: a task it dispatches was ready, one whose
\* process ended ran, and a session id comes from a process that has its worktree.
LEMMA PreparesStocked ==
  ASSUME ~Overlapping, "spawn" \notin Faults, RunnerInv, CalmInv, AwaitInv,
         NEW r \in Runner, RunnerStep(r), pc'[r] \in Saving
  PROVE  Stocked(trees, snap'[r])
<1>0. /\ TypeInv /\ OwnerInv /\ DOMAIN pc = Runner /\ DOMAIN snap = Runner /\ RunnerOK(r)
      /\ QueueType(queue) /\ Stocked(trees, queue) /\ pc'[r] \notin {"dead", "threw"}
      /\ \A p \in Pid : child[p] # NoChild => child[p] \in Child
  BY DEF RunnerInv, OwnerInv, TypeInv, AwaitInv, Saving
<1>1. CASE Reconcile(r)
  <2>1. snap'[r] = Reconciled(queue)
    BY <1>0, <1>1 DEF Reconcile, Goto, Prepare, Saving
  <2>. QED BY <1>0, <2>1, ReconciledStocked
<1>2. CASE Dispatch(r)
  <2>1. pc[r] = "dispatch" /\ target[r].task \in Present(queue) BY <1>0, <1>2, DispatchPrepares
  <2>2. queue.task[target[r].task].status \in Ready BY <2>1 DEF CalmInv
  <2>3. PICK record \in Record :
          /\ snap'[r] = Updated(queue, target[r].task, record)
          /\ record.session = queue.task[target[r].task].session
    BY <1>0, <1>2, DispatchPrepares
  <2>4. queue.task[target[r].task].status \notin Finished BY <2>2 DEF Ready, Finished
  <2>. QED BY <1>0, <2>1, <2>3, <2>4, KeptStocked
<1>3. CASE LoadPid(r)
  <2>1. target[r].task \in Present(queue) /\ queue.task[target[r].task].status = "running"
    BY <1>0, <1>3, LoadPidPrepares DEF Locked, Has
  <2>2. PICK record \in Record :
          /\ snap'[r] = Updated(queue, target[r].task, record)
          /\ record.session = queue.task[target[r].task].session
    BY <1>0, <1>3, LoadPidPrepares
  <2>3. queue.task[target[r].task].status \notin Finished BY <2>1 DEF Finished
  <2>. QED BY <1>0, <2>1, <2>2, <2>3, KeptStocked
<1>4. ASSUME NEW p \in Pid, HearInit(r, p) \/ HearUsage(r, p) PROVE Stocked(trees, snap'[r])
  <2> DEFINE t == child[p].task
             old == queue.task[t]
             record == [old EXCEPT !.session = TRUE]
  <2>1. /\ child[p] # NoChild /\ t \in Present(queue)
        /\ \/ snap'[r] = queue
           \/ child[p].said /\ snap'[r] = Named(queue, t)
    BY <1>0, <1>4 DEF HearInit, HearUsage, Hears, Throw, End, Handle, Prepare, Goto, Gone
  <2>2. Named(queue, t) = Updated(queue, t, record) BY Zenon DEF Named
  <2>3. record \in Record
    <3>1. old \in Record BY <1>0, <2>1 DEF QueueType, Present
    <3>. HIDE DEF old
    <3>. QED BY <3>1 DEF Record
  <2>4. CASE snap'[r] = queue BY <1>0, <2>4
  <2>5. CASE child[p].said /\ snap'[r] = Named(queue, t)
    <3>1. child[p].said = TRUE
      <4>1. child[p].said \in BOOLEAN BY <1>0, <2>1 DEF Child
      <4>. QED BY <2>5, <4>1
    <3>2. Iso[t] = "worktree" => t \in trees BY <2>1, <3>1 DEF AwaitInv, Said
    <3>. HIDE DEF record, t
    <3>. QED BY <1>0, <2>1, <2>2, <2>3, <2>5, <3>2, UpdatedStocked
  <2>. QED BY <2>1, <2>4, <2>5
<1>5. ASSUME NEW p \in Pid, HearClose(r, p) \/ HearError(r, p) PROVE Stocked(trees, snap'[r])
  <2> DEFINE t == child[p].task
  <2>1. /\ child[p] # NoChild /\ t \in Present(queue) /\ pc[r] = "rest"
        /\ \E record \in Record :
             snap'[r] = Updated(queue, t, record) /\ record.session = queue.task[t].session
    BY <1>0, <1>5, ClosePrepares
  <2>2. Fits(queue, child)
    <3>1. RunnerStep(r) BY <1>5 DEF RunnerStep, Hear
    <3>. QED BY <1>0, <2>1, <3>1, Solo
  <2>3. child[p].phase # "errored" BY <2>1 DEF CalmInv
  <2>4. queue.task[t].status = "running" BY <2>1, <2>2, <2>3 DEF Fits, Right, Names, Has
  <2>5. queue.task[t].status \notin Finished BY <2>4 DEF Finished
  <2>. HIDE DEF t
  <2>. QED BY <1>0, <2>1, <2>5, KeptStocked
<1>6. CASE \/ TakeLock(r) \/ SaveReconciled(r) \/ Top(r) \/ Fill(r) \/ Wake(r)
           \/ SavePark(r) \/ SaveDispatch(r) \/ Spawn(r) \/ SavePid(r) \/ SaveHeard(r) \/ SaveClosed(r)
  BY <1>0, <1>6 DEF TakeLock, SaveReconciled, Top, Fill, Wake, SavePark, Dispatching, SaveDispatch,
     Spawn, SavePid, SaveHeard, SaveClosed, Save, Goto, Saving
<1>7. CASE Exit(r) \/ Crash(r) BY <1>0, <1>7 DEF Exit, Crash, End, Goto
<1>. QED BY <1>1, <1>2, <1>3, <1>4, <1>5, <1>6, <1>7 DEF RunnerStep, Stretch, Hear

LEMMA AwaitRunner ==
  ASSUME ~Overlapping, "spawn" \notin Faults, RunnerInv, CalmInv, AwaitInv,
         NEW r \in Runner, RunnerStep(r)
  PROVE  AwaitInv'
<1>0. TypeInv /\ OwnerInv /\ DOMAIN pc = Runner BY DEF RunnerInv, OwnerInv
<1>1. trees' = trees BY <1>0, RunnerTrees
<1>2. /\ queue' = queue \/ (pc[r] \in Saving /\ queue' = snap[r])
      /\ command' = command
      /\ \A s \in Runner \ {r} : pc'[s] = pc[s] /\ snap'[s] = snap[s]
  <2>1. pc' = [pc EXCEPT ![r] = pc'[r]] /\ command' = command BY <1>0, RunnerMoves
  <2>. QED BY <1>0, <2>1, RunnerFrame
<1>3. \A s \in Runner : pc'[s] \in Saving => Stocked(trees', snap'[s])
  BY <1>1, <1>2, PreparesStocked DEF AwaitInv
<1>4. \A p \in Pid : Said(child', p) /\ Iso[child'[p].task] = "worktree" => child'[p].task \in trees'
  BY <1>0, <1>1, RunnerSaid DEF AwaitInv
<1>. QED BY <1>1, <1>2, <1>3, <1>4 DEF AwaitInv

\* carry cleanup takes the worktrees of finished tasks, and no process of one is left.
LEMMA AwaitUser ==
  ASSUME ~Overlapping, "spawn" \notin Faults, "cleanupId" \notin Commands,
         RunnerInv, Typed, CalmInv, AwaitInv, User
  PROVE  AwaitInv'
<1>0. /\ TypeInv /\ TurnInv /\ DiskInv
      /\ \A p \in Pid : child[p] # NoChild => child[p] \in Child
  BY DEF RunnerInv, TypeInv
<1>1. pc' = pc /\ snap' = snap BY UserMoves
<1>2. \A s \in Runner : pc[s] \in Asleep
  <2>1. MayEnter => \A s \in Runner : pc[s] \in Asleep BY DEF MayEnter, Quiet
  <2>2. SaveCommand \/ MarkAndKill => command # NoCommand BY DEF SaveCommand, MarkAndKill
  <2>. QED BY <1>0, <2>1, <2>2, CommandsSpare DEF TurnInv
<1>3. \A s \in Runner : pc'[s] \notin Saving BY <1>1, <1>2 DEF Asleep, Saving
<1>4. CASE SaveCommand
  <2>1. queue' = command.queue /\ command' = NoCommand /\ Stocked(trees, command.queue)
        /\ child' = child /\ trees' = trees
    BY <1>4 DEF SaveCommand, AwaitInv
  <2>. QED BY <1>3, <2>1 DEF AwaitInv, Said
<1>5. CASE MarkAndKill
  <2>1. queue' = queue /\ command' = NoCommand /\ trees' = trees BY <1>5 DEF MarkAndKill
  <2>2. ASSUME NEW p \in Pid, Said(child', p)
        PROVE  Said(child, p) /\ child'[p].task = child[p].task
    <3>1. child[p] # NoChild /\ child[p] \in Child
      BY <1>0, <1>5, <2>2 DEF MarkAndKill, Said
    <3>2. child'[p] = child[p] \/ child'[p] = [child[p] EXCEPT !.asked = TRUE]
      BY <1>5, <2>2 DEF MarkAndKill, Said
    <3>. QED BY <2>2, <3>1, <3>2 DEF Said, Child
  <2>. QED BY <1>3, <2>1, <2>2 DEF AwaitInv
<1>6. CASE ~SaveCommand /\ ~MarkAndKill
  <2>1. queue' = queue /\ child' = child BY <1>0, <1>6, CommandsSpare
  <2>2. trees' = trees \/ \E all \in BOOLEAN : Cleanup(all)
    BY <1>6 DEF User, Add, Adopt, Rm, Approve, Stop, Move, Pause, CleanupOf, MayType, WillSave, disk
  <2>3. ASSUME NEW all \in BOOLEAN, Cleanup(all)
        PROVE  trees' = trees \ {t \in Cleanable(queue) : queue.task[t].worktree}
    BY <2>3 DEF Cleanup, RemoveTrees
  <2>4. Fits(queue, child)
    <3>1. \A s \in Runner : pc[s] \notin {"loadPid", "savePid", "saveClosed"} BY <1>2 DEF Asleep
    <3>. QED BY <1>0, <3>1, DiskFits
  <2>5. Stocked(trees', queue)
    <3>1. \A t \in trees \ trees' : queue.task[t].status \in Finished BY <2>2, <2>3 DEF Cleanable
    <3>. QED BY <3>1 DEF AwaitInv, Stocked
  <2>6. ASSUME NEW p \in Pid, Said(child, p), Iso[child[p].task] = "worktree"
        PROVE  child[p].task \in trees'
    <3>1. child[p].phase # "errored" BY <2>6 DEF Said, CalmInv
    <3>2. Has(queue, child[p].task, "running") BY <2>4, <2>6, <3>1 DEF Said, Fits, Right, Names
    <3>3. child[p].task \notin Cleanable(queue) BY <3>2 DEF Has, Cleanable, Finished
    <3>. QED BY <2>2, <2>3, <2>6, <3>3 DEF AwaitInv
  <2>7. command'.does = "save" => Stocked(trees', command'.queue)
    <3>1. CASE \E t \in Task : Stop(t) BY <3>1 DEF Stop
    <3>2. CASE ~\E t \in Task : Stop(t)
      <4>1. PICK q2 : command' = [does |-> "save", queue |-> q2] /\ Edited(queue, q2)
        BY <1>6, <3>2, CommandsEdit
      <4>. QED BY <2>5, <4>1, EditedStocked
    <3>. QED BY <3>1, <3>2
  <2>. QED BY <1>3, <2>1, <2>5, <2>6, <2>7 DEF AwaitInv
<1>. QED BY <1>4, <1>5, <1>6

LEMMA AwaitMachine ==
  ASSUME TypeInv, AwaitInv, Machine PROVE AwaitInv'
<1>0. DOMAIN child = Pid /\ \A p \in Pid : child[p] # NoChild => child[p] \in Child BY DEF TypeInv
<1>1. UNCHANGED <<pc, snap, command, queue>> BY MachineMoves
<1>2. trees \subseteq trees' BY DEF Machine, Say, Finish, UserCheckout, Tick, disk
<1>3. \A p \in Pid : Said(child', p) /\ Iso[child'[p].task] = "worktree" => child'[p].task \in trees'
  <2>1. ASSUME NEW i \in Pid, Say(i)
        PROVE  \A p \in Pid : Said(child', p) /\ Iso[child'[p].task] = "worktree" =>
                 child'[p].task \in trees'
    <3>1. /\ child[i] # NoChild /\ child[i] \in Child
          /\ child' = [child EXCEPT ![i].said = TRUE]
          /\ Iso[child[i].task] = "worktree" => child[i].task \in trees'
      BY <1>0, <2>1 DEF Say, Up
    <3>2. \A p \in Pid \ {i} : child'[p] = child[p] BY <1>0, <3>1
    <3>3. child'[i].task = child[i].task BY <1>0, <3>1 DEF Child
    <3>. QED BY <1>2, <3>1, <3>2, <3>3 DEF AwaitInv, Said
  <2>2. ASSUME NEW i \in Pid, Finish(i)
        PROVE  \A p \in Pid : Said(child', p) => Said(child, p) /\ child'[p].task = child[p].task
    <3>1. /\ child[i] # NoChild /\ child[i] \in Child
          /\ child' = [child EXCEPT ![i] = Ended(i)]
      BY <1>0, <2>2 DEF Finish, Up
    <3>2. \A p \in Pid \ {i} : child'[p] = child[p] BY <1>0, <3>1
    <3>3. child'[i] = NoChild \/ child'[i] = [child[i] EXCEPT !.phase = "exited"]
      BY <1>0, <3>1 DEF Ended
    <3>4. Said(child', i) => Said(child, i) /\ child'[i].task = child[i].task
      BY <3>1, <3>3 DEF Said, Child
    <3>. QED BY <3>2, <3>4 DEF Said
  <2>3. CASE \A i \in Pid : ~Say(i) /\ ~Finish(i)
    <3>1. child' = child BY <2>3 DEF Machine, UserCheckout, Tick
    <3>. QED BY <1>2, <3>1 DEF AwaitInv, Said
  <2>. QED BY <1>2, <2>1, <2>2, <2>3 DEF AwaitInv
<1>4. \A q : Stocked(trees, q) => Stocked(trees', q) BY <1>2 DEF Stocked
<1>. QED BY <1>1, <1>3, <1>4 DEF AwaitInv

LEMMA AwaitStep ==
  ASSUME ~Overlapping, "spawn" \notin Faults, "cleanupId" \notin Commands,
         RunnerInv, Typed, CalmInv, AwaitInv, [Next]_vars
  PROVE  AwaitInv'
<1>. USE DEF disk, user, loop
<1>1. ASSUME UNCHANGED <<queue, command, child, trees, snap>>,
             \A s \in Runner : pc'[s] \in Saving => pc[s] \in Saving
      PROVE  AwaitInv'
  BY <1>1 DEF AwaitInv, Said
<1>2. CASE UNCHANGED vars BY <1>1, <1>2 DEF vars
<1>3. ASSUME NEW r \in Runner, NEW m \in Mode, Start(r, m) PROVE AwaitInv'
  <2>1. /\ UNCHANGED <<queue, command, child, trees, snap>> /\ DOMAIN pc = Runner
        /\ \E place \in {"lock", "dead"} : pc' = [pc EXCEPT ![r] = place]
    BY <1>3 DEF Start, Goto, RunnerInv, OwnerInv
  <2>. QED BY <1>1, <2>1 DEF Saving
<1>4. ASSUME NEW r \in Runner, RunnerStep(r) PROVE AwaitInv' BY <1>4, AwaitRunner
<1>5. CASE User BY <1>5, AwaitUser
<1>6. CASE Machine BY <1>6, AwaitMachine DEF RunnerInv
<1>. QED BY <1>2, <1>3, <1>4, <1>5, <1>6 DEF Next, RunnerStep

\* "Never for ones that might still resume" (cleanup.mjs): the worktree of a conversation
\* that is to be continued is there, from the first thing its process says through every
\* limit, question, stop, death of a runner and restart, and whatever cleanups are typed
\* between; it goes only when the task is done or has failed, and then the task is not
\* taken up again.  --id removes whatever it is told to, and a task that could not be
\* started can turn from failed to pending: hence the last two assumptions.
THEOREM TreesAwaitTheirTasks ==
  ASSUME ~Overlapping, "crashAtSpawn" \notin Faults, "spawn" \notin Faults,
         "cleanupId" \notin Commands
  PROVE  Spec => []TreeAwaitsResume
<1>1. Init => CalmInv /\ AwaitInv
  <2>. SUFFICES ASSUME Init PROVE CalmInv /\ AwaitInv OBVIOUS
  <2>1. Present(queue) = {} BY DEF Init, EmptyQueue, Present
  <2>2. Calm(queue, child) BY <2>1 DEF Init, Calm, Unlocked, Heeds
  <2>3. CalmInv BY <2>2 DEF Init, CalmInv, Saving
  <2>4. AwaitInv BY <2>1 DEF Init, AwaitInv, Stocked, Said, Saving
  <2>. QED BY <2>3, <2>4
<1>2. RunnerInv /\ Typed /\ CalmInv /\ AwaitInv /\ [Next]_vars => CalmInv' /\ AwaitInv'
  BY CalmStep, AwaitStep
<1>3. RunnerInv /\ AwaitInv => TreeAwaitsResume
  <2>. SUFFICES ASSUME RunnerInv, AwaitInv, NEW t \in Present(queue), Iso[t] = "worktree",
                       queue.task[t].session, queue.task[t].status \notin Finished
                PROVE  t \in trees
    BY DEF TreeAwaitsResume
  <2>1. queue.task[t].session \in BOOLEAN BY DEF RunnerInv, TypeInv, QueueType, Present, Record
  <2>2. queue.task[t].session = TRUE BY <2>1
  <2>. QED BY <2>2 DEF AwaitInv, Stocked
<1>. QED BY <1>1, <1>2, <1>3, RunnerInvAlways, TypedAlways, PTL DEF Spec

=============================================================================
