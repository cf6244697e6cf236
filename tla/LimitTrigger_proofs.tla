------------------------- MODULE LimitTrigger_proofs -------------------------
(***************************************************************************)
(* What the wrap-up trigger promises for any number of sessions, windows,  *)
(* status lines and polls, any configuration and any length of the clock:  *)
(* a latch is never used up silently, no session polls the endpoint twice  *)
(* in an interval, and what the sensor records only rises.                 *)
(***************************************************************************)
EXTENDS LimitTrigger, Extrema, SequenceTheorems, TLAPS

-----------------------------------------------------------------------------
(***************************************************************************)
(* Hooks.                                                                  *)
(***************************************************************************)
Steps == {"spawn", "latch", "emit"}

\* A hook under way knows the time it began, what it read and what is new.
UnderWayOK(h) ==
  /\ h = [step |-> h.step, now |-> h.now, dryRun |-> h.dryRun, read |-> h.read,
          since |-> h.since, news |-> h.news]
  /\ h.step \in Steps
  /\ h.now \in Int

\* What two hooks under way have in common when only their steps differ, or who has
\* spawned a poll since.
SameInHand(g, h) == UnderWayOK(g) /\ g.now = h.now /\ g.read = h.read /\ g.news = h.news

HookOK ==
  /\ now \in Int
  /\ DOMAIN hook = Session
  /\ \A s \in Session :
       IF hook[s].step = "idle" THEN hook[s] = Idle
       ELSE UnderWayOK(hook[s]) /\ hook[s].now <= now

\* The marker is never older than the last poll of any session, and a hook that goes
\* on to spawn one began when the last polls of all sessions were old enough, but
\* for those spawned since.
Spaced ==
  /\ marker \in Int /\ spawned \in [Session -> Int]
  /\ \A t \in Session : spawned[t] <= marker /\ spawned[t] <= now
  /\ \A s \in Session : hook[s].step = "spawn" =>
       \A t \in Session \ hook[s].since : hook[s].now - spawned[t] >= RefreshEvery

SpawnInv == HookOK /\ Spaced

\* A key is accounted for when its session was told, when it was held back, or
\* while the hook that latched it is about to print it.
Accounted(s, k) ==
  \/ <<s, k>> \in said \union unsaid
  \/ hook[s].step = "emit" /\ k \in hook[s].news

\* Every key in latches.json is accounted for, and so is every key in the copies
\* that hooks under way have read and may write back.
LatchInv ==
  /\ HookOK
  /\ \A s \in Session : \A k \in latches[s].keys : Accounted(s, k)
  /\ \A s, t \in Session : hook[s].step # "idle" =>
       \A k \in hook[s].read[t].keys : Accounted(t, k)

-----------------------------------------------------------------------------
LEMMA HookOKInit ==
  ASSUME Init PROVE HookOK
BY DEF Init, SensorInit, HookOK, Idle

\* No sensor turns back the clock.
LEMMA ClockRises ==
  ASSUME now \in Int, SensorNext PROVE now' \in Int /\ now <= now'
<1>1. CASE Tick BY <1>1 DEF Tick
<1>2. CASE \E w \in Window : Consume(w) BY <1>2 DEF Consume
<1>3. ASSUME NEW l \in Line, Respond(l) \/ LineReads(l) \/ LineWrites(l) \/ LineDies(l)
      PROVE  now' = now
  BY <1>3 DEF Respond, LineReads, LineWrites, LineDies
<1>4. ASSUME NEW q \in Poller, PollAsks(q) \/ PollReads(q) \/ PollWrites(q) \/ PollFails(q)
      PROVE  now' = now
  BY <1>4 DEF PollAsks, PollReads, PollWrites, PollFails
<1>. QED BY <1>1, <1>2, <1>3, <1>4 DEF SensorNext

\* While a hook spawns its poll the others keep what they have in hand.
LEMMA SpawnKeeps ==
  ASSUME HookOK, NEW s \in Session, HookSpawns(s)
  PROVE  /\ DOMAIN hook' = Session
         /\ hook[s].step = "spawn" /\ hook'[s].step = "latch"
         /\ \A t \in Session :
              /\ hook[t].step = "idle" => hook'[t] = hook[t]
              /\ hook[t].step # "idle" => hook'[t].step # "idle" /\ SameInHand(hook'[t], hook[t])
         /\ \A t \in Session \ {s} :
              /\ hook'[t].step = hook[t].step
              /\ hook[t].step = "spawn" => hook'[t].since = hook[t].since \union {s}
<1>1. hook[s].step = "spawn" /\ hook' = AfterSpawn(s) BY DEF HookSpawns
<1>2. \A t \in Session : hook[t].step # "idle" => UnderWayOK(hook[t]) BY DEF HookOK
<1>3. hook'[s].step = "latch" /\ SameInHand(hook'[s], hook[s])
  <2> DEFINE h == hook[s]
  <2>1. UnderWayOK(h) BY <1>1, <1>2
  <2>2. hook'[s] = [h EXCEPT !.step = "latch", !.since = {}] BY <1>1 DEF AfterSpawn
  <2>. HIDE DEF h
  <2>3. hook'[s] = [step |-> "latch", now |-> h.now, dryRun |-> h.dryRun, read |-> h.read,
                    since |-> {}, news |-> h.news]
    BY <2>1, <2>2 DEF UnderWayOK
  <2>4. UnderWayOK(hook'[s]) BY <2>1, <2>3 DEF UnderWayOK, Steps
  <2>. QED BY <2>3, <2>4 DEF SameInHand, h
<1>4. ASSUME NEW t \in Session \ {s}
      PROVE  /\ hook'[t].step = hook[t].step
             /\ hook[t].step = "idle" => hook'[t] = hook[t]
             /\ hook[t].step # "idle" => SameInHand(hook'[t], hook[t])
             /\ hook[t].step = "spawn" => hook'[t].since = hook[t].since \union {s}
  <2>1. CASE hook[t].step = "spawn"
    <3>1. hook'[t] = [hook[t] EXCEPT !.since = @ \union {s}] BY <1>1, <2>1 DEF AfterSpawn
    <3> DEFINE h == hook[t]
    <3>2. UnderWayOK(h) BY <1>2, <2>1
    <3>3. hook'[t] = [h EXCEPT !.since = @ \union {s}] BY <3>1
    <3>. HIDE DEF h
    <3>4. hook'[t] = [step |-> h.step, now |-> h.now, dryRun |-> h.dryRun, read |-> h.read,
                      since |-> h.since \union {s}, news |-> h.news]
      BY <3>2, <3>3 DEF UnderWayOK
    <3>5. UnderWayOK(hook'[t]) BY <3>2, <3>4 DEF UnderWayOK
    <3>. QED BY <2>1, <3>4, <3>5 DEF SameInHand, h
  <2>2. CASE hook[t].step # "spawn"
    <3>1. hook'[t] = hook[t] BY <1>1, <2>2 DEF AfterSpawn
    <3>. QED BY <1>2, <2>2, <3>1 DEF SameInHand
  <2>. QED BY <2>1, <2>2
<1>. QED BY <1>1, <1>3, <1>4 DEF AfterSpawn

\* A hook reads latches.json as it is, or nothing of it.
LEMMA ReadableIs ==
  ASSUME NEW read \in Readable PROVE read = latches \/ read = [t \in Session |-> NoLatch]
BY DEF Readable

\* Every hook under way is well formed.
LEMMA HookOKStep ==
  ASSUME HookOK, [Next]_vars PROVE HookOK'
<1>1. CASE UNCHANGED vars
  BY <1>1 DEF HookOK, vars, triggerVars, UnderWayOK
<1>2. CASE SensorNext /\ UNCHANGED triggerVars
  <2>1. now' \in Int /\ now <= now'
    BY <1>2, ClockRises DEF HookOK
  <2>2. hook' = hook BY <1>2 DEF triggerVars
  <2>3. \A s \in Session : hook[s].step # "idle" => hook[s].now <= now'
    BY <2>1 DEF HookOK, UnderWayOK
  <2>. QED BY <2>1, <2>2, <2>3 DEF HookOK
<1>3. CASE EditConfig
  BY <1>3 DEF HookOK, EditConfig, sensorVars, UnderWayOK
<1>4. ASSUME NEW s \in Session, HookDecides(s) PROVE HookOK'
  <2>1. /\ hook' = [hook EXCEPT ![s] = hook'[s]] /\ now' = now
        /\ UnderWayOK(hook'[s]) /\ hook'[s].now <= now
    BY <1>4 DEF HookDecides, HookOK, UnderWayOK, Steps
  <2>2. hook'[s].step # "idle" BY <2>1 DEF UnderWayOK, Steps
  <2>. HIDE DEF UnderWayOK
  <2>. QED BY <2>1, <2>2 DEF HookOK
<1>5. ASSUME NEW s \in Session, HookSpawns(s) PROVE HookOK'
  <2>1. now' = now BY <1>5 DEF HookSpawns
  <2>. QED BY <1>5, <2>1, SpawnKeeps DEF HookOK, SameInHand
<1>6. ASSUME NEW s \in Session, HookLatches(s) PROVE HookOK'
  <2>1. hook[s].step # "idle" /\ UnderWayOK(hook[s])
    BY <1>6 DEF HookLatches, HookOK
  <2>2. /\ hook' = [hook EXCEPT ![s] = hook'[s]] /\ now' = now
        /\ \/ hook'[s] = Idle
           \/ UnderWayOK(hook'[s]) /\ hook'[s].now = hook[s].now /\ hook'[s].step = "emit"
    BY <1>6, <2>1 DEF HookLatches, HookOK, UnderWayOK, Steps
  <2>. QED BY <2>1, <2>2 DEF HookOK, Idle
<1>7. ASSUME NEW s \in Session, HookEmits(s) \/ HookDies(s) PROVE HookOK'
  <2>1. hook' = [hook EXCEPT ![s] = Idle] /\ now' = now
    BY <1>7 DEF HookEmits, HookDies
  <2>. QED BY <2>1 DEF HookOK, Idle, UnderWayOK
<1>. QED BY <1>1, <1>2, <1>3, <1>4, <1>5, <1>6, <1>7 DEF Next

-----------------------------------------------------------------------------
(***************************************************************************)
(* Polls.                                                                  *)
(***************************************************************************)
LEMMA SpawnInvInit ==
  ASSUME Init PROVE SpawnInv
<1>1. Never \in Int /\ Never <= 0
  BY TriggerConstants DEF Never
<1>. HIDE DEF Never
<1>2. HookOK BY HookOKInit
<1>. QED BY <1>1, <1>2 DEF SpawnInv, Spaced, Init, SensorInit, Idle

LEMMA SpawnInvStep ==
  ASSUME SpawnInv, [Next]_vars PROVE SpawnInv'
<1>1. HookOK' BY HookOKStep DEF SpawnInv
<1>2. RefreshEvery \in Nat BY TriggerConstants
<1>3. CASE UNCHANGED vars
  BY <1>1, <1>3 DEF SpawnInv, Spaced, vars, triggerVars
<1>4. CASE SensorNext /\ UNCHANGED triggerVars
  <2>1. now' \in Int /\ now <= now'
    BY <1>4, ClockRises DEF SpawnInv, HookOK
  <2>. QED BY <1>1, <1>4, <2>1 DEF SpawnInv, Spaced, HookOK, triggerVars
<1>5. CASE EditConfig
  BY <1>1, <1>5 DEF SpawnInv, Spaced, EditConfig
<1>6. ASSUME NEW s \in Session, HookDecides(s) PROVE SpawnInv'
  <2>1. /\ hook' = [hook EXCEPT ![s] = hook'[s]]
        /\ hook'[s].step = "spawn" => now - marker >= RefreshEvery
        /\ hook'[s].now = now
        /\ UNCHANGED <<now, marker, spawned>>
    BY <1>2, <1>6 DEF HookDecides, SpawnInv, HookOK, Spaced
  <2>2. hook'[s].step = "spawn" => \A t \in Session : now - spawned[t] >= RefreshEvery
    BY <1>2, <2>1 DEF SpawnInv, Spaced, HookOK
  <2>. QED BY <1>1, <2>1, <2>2 DEF SpawnInv, Spaced, HookOK
<1>7. ASSUME NEW s \in Session, HookSpawns(s) PROVE SpawnInv'
  <2>1. marker' = now /\ spawned' = [spawned EXCEPT ![s] = now] /\ now' = now
    BY <1>7 DEF HookSpawns
  <2>2. \A t \in Session : spawned'[t] <= marker' /\ spawned'[t] <= now'
    BY <2>1 DEF SpawnInv, Spaced, HookOK
  <2>3. ASSUME NEW r \in Session, hook'[r].step = "spawn", NEW t \in Session \ hook'[r].since
        PROVE  hook'[r].now - spawned'[t] >= RefreshEvery
    <3>1. r # s /\ hook[r].step = "spawn" /\ hook'[r].since = hook[r].since \union {s}
      BY <1>7, <2>3, SpawnKeeps DEF SpawnInv
    <3>2. hook'[r].now = hook[r].now BY <1>7, <3>1, SpawnKeeps DEF SpawnInv, SameInHand
    <3>3. t # s /\ spawned'[t] = spawned[t] /\ t \notin hook[r].since
      BY <2>1, <2>3, <3>1 DEF SpawnInv, Spaced
    <3>. QED BY <3>1, <3>2, <3>3 DEF SpawnInv, Spaced
  <2>. QED BY <1>1, <2>1, <2>2, <2>3 DEF SpawnInv, Spaced, HookOK
<1>8. ASSUME NEW s \in Session, HookLatches(s) PROVE SpawnInv'
  <2>1. UnderWayOK(hook[s])
    BY <1>8 DEF HookLatches, HookOK, SpawnInv
  <2>2. /\ hook' = [hook EXCEPT ![s] = hook'[s]] /\ hook'[s].step # "spawn"
        /\ UNCHANGED <<now, marker, spawned>>
    BY <1>8, <2>1 DEF HookLatches, SpawnInv, HookOK, UnderWayOK, Idle
  <2>. QED BY <1>1, <1>2, <2>2 DEF SpawnInv, Spaced, HookOK
<1>9. ASSUME NEW s \in Session, HookEmits(s) \/ HookDies(s) PROVE SpawnInv'
  <2>1. hook' = [hook EXCEPT ![s] = Idle] /\ UNCHANGED <<now, marker, spawned>>
    BY <1>9 DEF HookEmits, HookDies
  <2>. QED BY <1>1, <2>1 DEF SpawnInv, Spaced, HookOK, Idle
<1>. QED BY <1>3, <1>4, <1>5, <1>6, <1>7, <1>8, <1>9 DEF Next

\* Two polls of the machine lie as far apart as the endpoint asks for, whatever sessions
\* spawn them, unless the hook of the second had looked at the marker before the first
\* was spawned: maybeSpawnOauthRefresh looks at the marker and writes it in two steps,
\* and with any number of sessions nothing but that window lets a poll through.
THEOREM PollsApart == Spec => RefreshesApart
<1>1. Init => SpawnInv BY SpawnInvInit
<1>2. SpawnInv /\ [Next]_vars => SpawnInv' BY SpawnInvStep
<1>3. SpawnInv => \A s \in Session :
        HookSpawns(s) => \A t \in Session \ hook[s].since : now - spawned[t] >= RefreshEvery
  <2>. SUFFICES ASSUME SpawnInv, NEW s \in Session, HookSpawns(s), NEW t \in Session \ hook[s].since
                PROVE  now - spawned[t] >= RefreshEvery
    OBVIOUS
  <2>1. hook[s].step = "spawn" BY DEF HookSpawns
  <2>2. hook[s].now \in Int /\ hook[s].now <= now BY <2>1 DEF SpawnInv, HookOK, UnderWayOK
  <2>3. hook[s].now - spawned[t] >= RefreshEvery /\ spawned[t] \in Int
    BY <2>1 DEF SpawnInv, Spaced
  <2>. QED BY <2>2, <2>3, TriggerConstants DEF SpawnInv, HookOK
<1>. QED BY <1>1, <1>2, <1>3, PTL DEF Spec, RefreshesApart

-----------------------------------------------------------------------------
(***************************************************************************)
(* Latches.                                                                *)
(***************************************************************************)
LEMMA LatchInvInit ==
  ASSUME Init PROVE LatchInv
<1>1. HookOK BY HookOKInit
<1>. QED BY <1>1 DEF Init, LatchInv, NoLatch, Idle

\* What is accounted for stays so, and what a step latches is accounted for.
LEMMA LatchInvStep ==
  ASSUME LatchInv, [Next]_vars PROVE LatchInv'
<1>1. HookOK' BY HookOKStep DEF LatchInv
<1>2. CASE UNCHANGED <<hook, latches, said, unsaid>>
  BY <1>1, <1>2 DEF LatchInv, Accounted
<1>3. ASSUME NEW s \in Session, HookDecides(s) PROVE LatchInv'
  <2>1. /\ hook' = [hook EXCEPT ![s] = hook'[s]] /\ hook'[s].read \in Readable
        /\ hook[s].step = "idle"
        /\ UNCHANGED <<latches, said, unsaid>>
    BY <1>3 DEF HookDecides, LatchInv, HookOK
  <2>2. \A t \in Session : \A k : Accounted(t, k) => Accounted(t, k)'
    BY <2>1 DEF Accounted, LatchInv, HookOK
  <2>3. \A t \in Session : hook'[s].read[t].keys \subseteq latches[t].keys
    BY <2>1, ReadableIs DEF NoLatch
  <2>4. \A t \in Session : \A k \in hook'[s].read[t].keys : Accounted(t, k)'
    BY <2>2, <2>3 DEF LatchInv
  <2>. QED BY <1>1, <2>1, <2>2, <2>4 DEF LatchInv, HookOK
<1>4. ASSUME NEW s \in Session, HookSpawns(s) PROVE LatchInv'
  <2>1. UNCHANGED <<latches, said, unsaid>> BY <1>4 DEF HookSpawns
  <2>2. \A t \in Session :
          /\ hook'[t].step # "idle" => hook[t].step # "idle" /\ hook'[t].read = hook[t].read
          /\ hook[t].step = "emit" => hook'[t].step = "emit" /\ hook'[t].news = hook[t].news
    BY <1>4, SpawnKeeps DEF LatchInv, SameInHand
  <2>3. \A t \in Session : \A k : Accounted(t, k) => Accounted(t, k)'
    BY <2>1, <2>2 DEF Accounted
  <2>. QED BY <1>1, <2>1, <2>2, <2>3 DEF LatchInv
<1>5. ASSUME NEW s \in Session, HookLatches(s) PROVE LatchInv'
  <2>1. UnderWayOK(hook[s]) /\ hook[s].step = "latch"
    BY <1>5 DEF HookLatches, HookOK, LatchInv
  <2>2. /\ hook' = [hook EXCEPT ![s] = hook'[s]] /\ said' = said
        /\ latches' = Latched(s) \/ latches' = latches
        /\ \/ hook'[s].step = "idle" /\ unsaid' = unsaid \union Told(s)
           \/ /\ hook'[s].step = "emit" /\ unsaid' = unsaid
              /\ hook'[s].read = hook[s].read /\ hook'[s].news = hook[s].news
    BY <1>5, <2>1 DEF HookLatches, Saves, SaveFails, LatchInv, HookOK, UnderWayOK, Idle
  <2>3. \A t \in Session : \A k : Accounted(t, k) => Accounted(t, k)'
    BY <2>1, <2>2 DEF Accounted, LatchInv, HookOK
  <2>4. \A k \in hook[s].news : Accounted(s, k)'
    <3>1. CASE unsaid' = unsaid \union Told(s)
      <4>1. \A k \in hook[s].news : <<s, k>> \in Told(s) BY DEF Told
      <4>. QED BY <3>1, <4>1 DEF Accounted
    <3>2. CASE hook'[s].step = "emit" /\ hook'[s].news = hook[s].news
      BY <3>2 DEF Accounted
    <3>. QED BY <2>2, <3>1, <3>2
  <2>5. latches' = Latched(s) => \A t \in Session : \A k \in latches'[t].keys :
          k \in hook[s].read[t].keys \/ (t = s /\ k \in hook[s].news)
    <3>. SUFFICES ASSUME latches' = Latched(s), NEW t \in Session, NEW k \in latches'[t].keys
                  PROVE  k \in hook[s].read[t].keys \/ (t = s /\ k \in hook[s].news)
      OBVIOUS
    <3>1. CASE t = s BY <2>2, <3>1 DEF Latched
    <3>2. CASE t # s BY <2>2, <3>2 DEF Latched, NoLatch
    <3>. QED BY <3>1, <3>2
  <2>6. \A t \in Session : \A k \in latches'[t].keys : Accounted(t, k)'
    BY <2>1, <2>2, <2>3, <2>4, <2>5 DEF LatchInv
  <2>7. \A r, t \in Session : hook'[r].step # "idle" =>
          hook[r].step # "idle" /\ hook'[r].read = hook[r].read
    BY <2>1, <2>2 DEF LatchInv, HookOK
  <2>. QED BY <1>1, <2>3, <2>6, <2>7 DEF LatchInv
<1>6. ASSUME NEW s \in Session, HookEmits(s) \/ HookDies(s) PROVE LatchInv'
  <2>1. /\ hook' = [hook EXCEPT ![s] = Idle] /\ latches' = latches
        /\ said \subseteq said' /\ unsaid \subseteq unsaid'
        /\ hook[s].step = "emit" => Told(s) \subseteq said' \union unsaid'
    BY <1>6 DEF HookEmits, HookDies
  <2>2. hook'[s].step = "idle" /\ \A t \in Session \ {s} : hook'[t] = hook[t]
    BY <2>1 DEF LatchInv, HookOK, Idle
  <2>3. hook[s].step = "emit" => \A k \in hook[s].news : <<s, k>> \in said' \union unsaid'
    BY <2>1 DEF Told
  <2>4. \A t \in Session : \A k : Accounted(t, k) => Accounted(t, k)'
    <3>. SUFFICES ASSUME NEW t \in Session, NEW k, Accounted(t, k)
                  PROVE  Accounted(t, k)'
      OBVIOUS
    <3>1. CASE t = s BY <2>1, <2>3, <3>1 DEF Accounted
    <3>2. CASE t # s BY <2>1, <2>2, <3>2 DEF Accounted
    <3>. QED BY <3>1, <3>2
  <2>. QED BY <1>1, <2>1, <2>2, <2>4 DEF LatchInv
<1>7. CASE UNCHANGED vars \/ (SensorNext /\ UNCHANGED triggerVars) \/ EditConfig
  BY <1>2, <1>7 DEF vars, triggerVars, EditConfig
<1>. QED BY <1>3, <1>4, <1>5, <1>6, <1>7 DEF Next

\* A latch in latches.json stands for a directive its session was told, or that a
\* dry run or a killed hook is known to have swallowed: no interleaving of hooks
\* that read, merge and replace the file uses up a latch without a trace.
THEOREM LatchesSaid == Spec => []LatchedIsSaid
<1>1. Init => LatchInv BY LatchInvInit
<1>2. LatchInv /\ [Next]_vars => LatchInv' BY LatchInvStep
<1>3. LatchInv => LatchedIsSaid BY DEF LatchInv, LatchedIsSaid, Accounted
<1>. QED BY <1>1, <1>2, <1>3, PTL DEF Spec

-----------------------------------------------------------------------------
(***************************************************************************)
(* The sensor's file.                                                      *)
(***************************************************************************)
Limits == UNION {[V -> Reading] : V \in SUBSET Window}
Sample == [ts : Int, src : {"line", "oauth"}, limits : Limits]

\* What a status line may put after what stands before it.
Follows(before, after) ==
  /\ before.reset <= after.reset
  /\ before.reset = after.reset => before.util <= after.util

Rises(file) ==
  \A j \in DOMAIN file : file[j].src = "line" =>
    \A i \in 1..(j - 1) : \A w \in DOMAIN file[j].limits \intersect DOMAIN file[i].limits :
      Follows(file[i].limits[w], file[j].limits[w])

IsFile(file) == file \in Seq(Sample) /\ Rises(file)

\* The file on disk, those a status line or a poll is about to write, and what
\* they are made of.
SensorInv ==
  /\ now \in Int
  /\ account \in [Window -> [util : Utilization \union {0}, reset : 1..(MaxTime + Period)]]
  /\ DOMAIN cached = Line /\ DOMAIN line = Line /\ DOMAIN poll = Poller
  /\ \A l \in Line : cached[l] = Nothing \/ cached[l] \in [Window -> Reading]
  /\ IsFile(samples)
  /\ \A l \in Line : IsFile(line[l])
  /\ \A q \in Poller :
       poll[q] = [step |-> poll[q].step, file |-> poll[q].file] /\ IsFile(poll[q].file)

LEMMA ReadingType ==
  ASSUME NEW r \in Reading
  PROVE  r.util \in Int /\ r.reset \in Int /\ r.reset <= MaxTime + Period
<1>1. Utilization \union {0} \subseteq Int
  BY SensorConstants DEF Full
<1>2. MaxTime + Period \in Int /\ 0 - Jitter \in Int
  BY SensorConstants
<1>3. r.util \in Utilization \union {0} /\ r.reset \in (0 - Jitter)..(MaxTime + Period)
  BY DEF Reading
<1>. QED BY <1>1, <1>2, <1>3

\* A reading that does not regress follows every reading on record.
LEMMA KeptFollows ==
  ASSUME NEW file \in Seq(Sample), NEW w, NEW reading \in Reading,
         ~Regresses(file, w, reading),
         NEW i \in DOMAIN file, w \in DOMAIN file[i].limits
  PROVE  Follows(file[i].limits[w], reading)
<1> DEFINE known == Readings(file, w)
           resets == {r.reset : r \in known}
           before == file[i].limits[w]
<1>1. known \subseteq Reading
  <2>. SUFFICES ASSUME NEW j \in DOMAIN file, w \in DOMAIN file[j].limits
                PROVE  file[j].limits[w] \in Reading
    BY DEF Readings
  <2>1. file[j] \in Sample OBVIOUS
  <2>2. file[j].limits \in Limits BY <2>1 DEF Sample
  <2>3. PICK V \in SUBSET Window : file[j].limits \in [V -> Reading] BY <2>2 DEF Limits
  <2>. QED BY <2>3
<1>2. before \in known BY DEF Readings
<1>3. known # {} /\ before \in Reading BY <1>1, <1>2
<1>4. /\ resets \in SUBSET Int /\ \A x \in resets : x <= MaxTime + Period
      /\ before.reset \in resets /\ MaxTime + Period \in Int
  <2>. HIDE DEF known, before
  <2>. QED BY <1>1, <1>2, ReadingType, SensorConstants
<1>5. PICK m \in resets : \A x \in resets : x <= m
  <2>. HIDE DEF resets, before
  <2>. QED BY <1>4, HasGreatest
<1>6. Max(resets) = m
  <2>. HIDE DEF resets, before
  <2>. QED BY <1>4, <1>5, MaxIs
<1>7. /\ ~(reading.reset < m)
      /\ \A r \in known : ~(r.reset = m /\ reading.reset = m /\ reading.util < r.util)
  BY <1>3, <1>6 DEF Regresses
<1>8. before.reset <= m /\ m \in Int /\ before.reset \in Int
  BY <1>4, <1>5
<1>9. before.util \in Int /\ reading.util \in Int /\ reading.reset \in Int
  BY <1>3, ReadingType
<1>10. before.reset <= reading.reset
  BY <1>7, <1>8, <1>9
<1>11. before.reset = reading.reset => before.util <= reading.util
  <2>. HIDE DEF known, before
  <2>. QED BY <1>2, <1>7, <1>8, <1>9
<1>. QED BY <1>10, <1>11 DEF Follows

\* What is kept of a sample is a part of it that follows all that is on record.
LEMMA KeptOK ==
  ASSUME NEW file \in Seq(Sample), NEW x \in Sample
  PROVE  /\ Kept(file, x) \in Limits
         /\ x.src = "line" =>
              \A i \in DOMAIN file :
                \A w \in DOMAIN Kept(file, x) \intersect DOMAIN file[i].limits :
                  Follows(file[i].limits[w], Kept(file, x)[w])
<1>1. x.limits \in Limits /\ x.src \in {"line", "oauth"} BY DEF Sample
<1>2. CASE x.src = "oauth" BY <1>1, <1>2 DEF Kept
<1>3. CASE x.src = "line"
  <2> DEFINE V == {w \in DOMAIN x.limits : ~Regresses(file, w, x.limits[w])}
  <2>1. Kept(file, x) = [w \in V |-> x.limits[w]]
    BY <1>3 DEF Kept, Restrict
  <2>2. V \in SUBSET Window /\ \A w \in V : x.limits[w] \in Reading
    <3>1. PICK U \in SUBSET Window : x.limits \in [U -> Reading]
      BY <1>1 DEF Limits
    <3>. QED BY <3>1
  <2>3. Kept(file, x) \in [V -> Reading]
    <3>. HIDE DEF V
    <3>. QED BY <2>1, <2>2
  <2>4. Kept(file, x) \in Limits
    <3>. HIDE DEF V
    <3>. QED BY <2>2, <2>3 DEF Limits
  <2>5. ASSUME NEW i \in DOMAIN file, NEW w \in V, w \in DOMAIN file[i].limits
        PROVE  Follows(file[i].limits[w], x.limits[w])
    <3>1. ~Regresses(file, w, x.limits[w]) /\ x.limits[w] \in Reading
      BY <2>2
    <3>. HIDE DEF V
    <3>. QED BY <2>5, <3>1, KeptFollows
  <2>6. DOMAIN Kept(file, x) = V /\ \A w \in V : Kept(file, x)[w] = x.limits[w]
    <3>. HIDE DEF V
    <3>. QED BY <2>1
  <2>. HIDE DEF V
  <2>. QED BY <2>4, <2>5, <2>6
<1>. QED BY <1>1, <1>2, <1>3

\* Appending a sample, and cutting the file to the newest, leaves a file that rises.
LEMMA AppendedOK ==
  ASSUME NEW file, IsFile(file), NEW x \in Sample
  PROVE  IsFile(Appended(file, x))
<1> DEFINE kept == [x EXCEPT !.limits = Kept(file, x)]
           longer == Append(file, kept)
<1>1. file \in Seq(Sample) /\ Len(file) \in Nat /\ DOMAIN file = 1..Len(file)
  BY DEF IsFile
<1>2. kept \in Sample /\ kept.src = x.src /\ kept.limits = Kept(file, x)
  BY <1>1, KeptOK DEF Sample
<1>3. /\ longer \in Seq(Sample) /\ Len(longer) = Len(file) + 1
      /\ DOMAIN longer = 1..(Len(file) + 1)
      /\ \A i \in 1..Len(file) : longer[i] = file[i]
      /\ longer[Len(file) + 1] = kept
  <2>. HIDE DEF kept
  <2>. QED BY <1>1, <1>2
<1>4. Rises(longer)
  <2>. SUFFICES ASSUME NEW j \in DOMAIN longer, longer[j].src = "line", NEW i \in 1..(j - 1),
                       NEW w \in DOMAIN longer[j].limits \intersect DOMAIN longer[i].limits
                PROVE  Follows(longer[i].limits[w], longer[j].limits[w])
    BY DEF Rises
  <2>1. i \in 1..Len(file) /\ longer[i] = file[i]
    <3>. HIDE DEF longer
    <3>. QED BY <1>1, <1>3
  <2>2. CASE j \in 1..Len(file)
    <3>1. longer[j] = file[j] /\ j \in DOMAIN file
      <4>. HIDE DEF longer
      <4>. QED BY <1>1, <1>3, <2>2
    <3>. HIDE DEF longer
    <3>. QED BY <2>1, <3>1 DEF IsFile, Rises
  <2>3. CASE j = Len(file) + 1
    <3>1. longer[j] = kept BY <1>3, <2>3
    <3>. HIDE DEF longer, kept
    <3>2. x.src = "line" /\ w \in DOMAIN Kept(file, x) \intersect DOMAIN file[i].limits
      BY <1>2, <2>1, <3>1
    <3>3. Follows(file[i].limits[w], Kept(file, x)[w])
      BY <1>1, <2>1, <3>2, KeptOK
    <3>. QED BY <1>2, <2>1, <3>1, <3>3
  <2>. HIDE DEF longer
  <2>. QED BY <1>1, <1>3, <2>2, <2>3
<1> DEFINE cut == SubSeq(longer, Len(longer) - MaxSamples + 1, Len(longer))
<1>5. ASSUME Len(longer) > MaxSamples PROVE IsFile(cut)
  <2>. HIDE DEF longer
  <2> DEFINE d == Len(longer) - MaxSamples
  <2>1. d \in Nat /\ Len(longer) \in Nat /\ MaxSamples \in Nat
    BY <1>1, <1>3, <1>5, SensorConstants
  <2>2. /\ cut \in Seq(Sample) /\ DOMAIN cut = 1..MaxSamples
        /\ \A i \in 1..MaxSamples : cut[i] = longer[i + d] /\ i + d \in DOMAIN longer
    <3>1. d + 1 \in 1..(Len(longer) + 1) /\ Len(longer) \in d..Len(longer)
      BY <2>1
    <3>2. /\ cut \in Seq(Sample) /\ Len(cut) = MaxSamples
          /\ \A i \in 1..MaxSamples : cut[i] = longer[i + d]
      BY <1>3, <2>1, <3>1, SubSeqProperties
    <3>3. \A i \in 1..MaxSamples : i + d \in DOMAIN longer
      <4>1. d + MaxSamples = Len(longer) /\ DOMAIN longer = 1..Len(longer)
        BY <1>3, <2>1
      <4>. HIDE DEF d
      <4>. QED BY <2>1, <4>1
    <3>4. DOMAIN cut = 1..MaxSamples
      <4>. HIDE DEF cut
      <4>. QED BY <3>2
    <3>. HIDE DEF cut, d
    <3>. QED BY <3>2, <3>3, <3>4
  <2>3. Rises(cut)
    <3>. SUFFICES ASSUME NEW j \in DOMAIN cut, cut[j].src = "line", NEW i \in 1..(j - 1),
                         NEW w \in DOMAIN cut[j].limits \intersect DOMAIN cut[i].limits
                  PROVE  Follows(cut[i].limits[w], cut[j].limits[w])
      BY DEF Rises
    <3>1. j \in 1..MaxSamples /\ i \in 1..MaxSamples BY <2>1, <2>2
    <3>2. cut[j] = longer[j + d] /\ cut[i] = longer[i + d] /\ j + d \in DOMAIN longer
      BY <2>2, <3>1
    <3>3. i + d \in 1..((j + d) - 1) BY <2>1, <3>1
    <3>. HIDE DEF cut, d
    <3>. QED BY <1>4, <3>2, <3>3 DEF Rises
  <2>. HIDE DEF cut
  <2>. QED BY <2>2, <2>3 DEF IsFile
<1>6. Appended(file, x) = IF Len(longer) > MaxSamples THEN cut ELSE longer
  BY DEF Appended
<1>. HIDE DEF longer, cut
<1>. QED BY <1>3, <1>4, <1>5, <1>6 DEF IsFile

LEMMA NothingIsFile == IsFile(Nothing)
BY DEF IsFile, Nothing, Rises

LEMMA SensorInvInit ==
  ASSUME Init PROVE SensorInv
<1>1. Period <= MaxTime + Period /\ Period \in Int /\ MaxTime + Period \in Int
  BY SensorConstants
<1>2. account \in [Window -> [util : Utilization \union {0}, reset : 1..(MaxTime + Period)]]
  BY <1>1 DEF Init, SensorInit
<1>. QED BY <1>2, NothingIsFile DEF Init, SensorInit, SensorInv

\* What the endpoint tells of the account is a sample.
LEMMA SeenSample ==
  ASSUME SensorInv, NEW early \in {0, Jitter}
  PROVE  LET seen == [w \in Window |-> [account[w] EXCEPT !.reset = @ - early]]
         IN [ts |-> now, src |-> "oauth", limits |-> seen] \in Sample
<1> DEFINE seen == [w \in Window |-> [account[w] EXCEPT !.reset = @ - early]]
<1>1. seen \in [Window -> Reading]
  <2>1. Jitter \in Nat /\ early \in {0, Jitter} /\ MaxTime + Period \in Int BY SensorConstants
  <2>2. ASSUME NEW w \in Window PROVE [account[w] EXCEPT !.reset = @ - early] \in Reading
    <3>1. account[w] \in [util : Utilization \union {0}, reset : 1..(MaxTime + Period)]
      BY DEF SensorInv
    <3>2. account[w].reset - early \in (0 - Jitter)..(MaxTime + Period)
      BY <2>1, <3>1
    <3>. QED BY <3>1, <3>2 DEF Reading
  <2>. QED BY <2>2
<1>. HIDE DEF seen
<1>2. seen \in Limits BY <1>1 DEF Limits
<1>3. [ts |-> now, src |-> "oauth", limits |-> seen] \in Sample BY <1>2 DEF Sample, SensorInv
<1>. QED BY <1>3 DEF seen

LEMMA SensorInvStep ==
  ASSUME SensorInv, [Next]_vars PROVE SensorInv'
<1>1. CASE UNCHANGED <<now, sensorVars>>
  BY <1>1 DEF SensorInv, sensorVars
<1>2. CASE Tick
  <2>1. account' \in [Window -> [util : Utilization \union {0}, reset : 1..(MaxTime + Period)]]
    <3>1. MaxTime \in Nat /\ Period \in Nat \ {0} BY SensorConstants
    <3>2. ASSUME NEW w \in Window
          PROVE  account'[w] \in [util : Utilization \union {0}, reset : 1..(MaxTime + Period)]
      BY <1>2, <3>1 DEF Tick, SensorInv
    <3>3. account' = [w \in Window |-> account'[w]] BY <1>2 DEF Tick
    <3>. QED BY <3>2, <3>3
  <2>2. now' \in Int /\ UNCHANGED <<cached, samples, line, poll>> BY <1>2 DEF Tick, SensorInv
  <2>. QED BY <2>1, <2>2 DEF SensorInv
<1>3. ASSUME NEW w \in Window, Consume(w) PROVE SensorInv'
  <2>1. account' \in [Window -> [util : Utilization \union {0}, reset : 1..(MaxTime + Period)]]
    BY <1>3 DEF Consume, SensorInv
  <2>. QED BY <1>3, <2>1 DEF SensorInv, Consume
<1>4. ASSUME NEW l \in Line, Respond(l) PROVE SensorInv'
  <2>1. 1..(MaxTime + Period) \subseteq (0 - Jitter)..(MaxTime + Period)
    BY SensorConstants
  <2>2. account \in [Window -> Reading] BY <2>1 DEF SensorInv, Reading
  <2>. QED BY <1>4, <2>2 DEF SensorInv, Respond
<1>5. ASSUME NEW l \in Line, LineReads(l) PROVE SensorInv'
  <2> DEFINE x == [ts |-> now, src |-> "line", limits |-> cached[l]]
  <2>1. cached[l] \in Limits BY <1>5 DEF LineReads, SensorInv, Limits
  <2>2. x \in Sample BY <2>1 DEF Sample, SensorInv
  <2>3. IsFile(Appended(samples, x))
    <3>. HIDE DEF x
    <3>. QED BY <2>2, AppendedOK DEF SensorInv
  <2>4. line' = [line EXCEPT ![l] = Appended(samples, x)]
        /\ UNCHANGED <<now, account, cached, samples, poll>>
    BY <1>5 DEF LineReads
  <2>. HIDE DEF x
  <2>. QED BY <2>3, <2>4 DEF SensorInv
<1>6. ASSUME NEW l \in Line, LineWrites(l) \/ LineDies(l) PROVE SensorInv'
  <2>1. line' = [line EXCEPT ![l] = Nothing] /\ samples' \in {samples, line[l]}
        /\ UNCHANGED <<now, account, cached, poll>>
    BY <1>6 DEF LineWrites, LineDies, Write
  <2>. QED BY <2>1, NothingIsFile DEF SensorInv
<1>7. ASSUME NEW q \in Poller, PollReads(q) PROVE SensorInv'
  <2>1. PICK early \in {0, Jitter} :
          LET seen == [w \in Window |-> [account[w] EXCEPT !.reset = @ - early]]
          IN poll' = [poll EXCEPT ![q] =
               [step |-> "read", file |-> Appended(samples, [ts |-> now, src |-> "oauth", limits |-> seen])]]
    BY <1>7 DEF PollReads
  <2> DEFINE seen == [w \in Window |-> [account[w] EXCEPT !.reset = @ - early]]
             x == [ts |-> now, src |-> "oauth", limits |-> seen]
  <2>3. x \in Sample BY SeenSample
  <2>4. IsFile(Appended(samples, x))
    <3>. HIDE DEF x
    <3>. QED BY <2>3, AppendedOK DEF SensorInv
  <2>5. poll' = [poll EXCEPT ![q] = [step |-> "read", file |-> Appended(samples, x)]]
        /\ UNCHANGED <<now, account, cached, samples, line>>
    BY <1>7, <2>1 DEF PollReads
  <2>. HIDE DEF x
  <2>. QED BY <2>4, <2>5 DEF SensorInv
<1>13. ASSUME NEW q \in Poller, PollAsks(q) PROVE SensorInv'
  <2>1. poll' = [poll EXCEPT ![q].step = "asked"] /\ UNCHANGED <<now, account, cached, samples, line>>
    BY <1>13 DEF PollAsks
  <2>2. /\ poll' = [poll EXCEPT ![q] = poll'[q]]
        /\ poll'[q] = [step |-> "asked", file |-> poll[q].file]
    BY <2>1 DEF SensorInv
  <2>. QED BY <2>1, <2>2 DEF SensorInv
<1>8. ASSUME NEW q \in Poller, PollWrites(q) \/ PollFails(q) PROVE SensorInv'
  <2>1. poll' = [poll EXCEPT ![q] = [step |-> "idle", file |-> Nothing]]
        /\ samples' \in {samples, poll[q].file}
        /\ UNCHANGED <<now, account, cached, line>>
    BY <1>8 DEF PollWrites, PollFails, PollEnds, Write
  <2>. QED BY <2>1, NothingIsFile DEF SensorInv
<1>9. CASE SensorNext
  BY <1>2, <1>3, <1>4, <1>5, <1>6, <1>7, <1>8, <1>9, <1>13 DEF SensorNext
<1>10. ASSUME NEW s \in Session, HookSpawns(s) PROVE SensorInv'
  <2>1. PICK q \in Poller : poll' = [poll EXCEPT ![q].step = "spawned"]
    BY <1>10 DEF HookSpawns
  <2>2. /\ poll' = [poll EXCEPT ![q] = poll'[q]]
        /\ poll'[q] = [step |-> "spawned", file |-> poll[q].file]
    BY <2>1 DEF SensorInv
  <2>. QED BY <1>10, <2>2 DEF SensorInv, HookSpawns
<1>11. ASSUME NEW s \in Session,
              HookDecides(s) \/ HookLatches(s) \/ HookEmits(s) \/ HookDies(s)
       PROVE  UNCHANGED <<now, sensorVars>>
  BY <1>11 DEF HookDecides, HookLatches, HookEmits, HookDies
<1>12. CASE UNCHANGED vars \/ EditConfig
  BY <1>1, <1>12 DEF vars, EditConfig
<1>. QED BY <1>1, <1>9, <1>10, <1>11, <1>12 DEF Next

\* Whatever writer replaces state.json, with what it read before others wrote, no
\* status-line sample in it goes back behind an earlier one: a cached payload that
\* dropRegressions let through once is never followed by an older one.
THEOREM ReadingsOnlyRise == Spec => []ReadingsRise
<1>1. Init => SensorInv BY SensorInvInit
<1>2. SensorInv /\ [Next]_vars => SensorInv' BY SensorInvStep
<1>3. SensorInv => ReadingsRise
  BY DEF SensorInv, IsFile, Rises, Follows, ReadingsRise
<1>. QED BY <1>1, <1>2, <1>3, PTL DEF Spec

-----------------------------------------------------------------------------
(***************************************************************************)
(* Types.                                                                  *)
(***************************************************************************)
\* What TypeOK says of state.json.
Short(file) == Len(file) <= MaxSamples /\ \A i \in DOMAIN file : IsSample(file[i])

LatchOK(latch) == latch.keys \subseteq Keys /\ latch.last \in Never..MaxTime

\* The files and the copies of them that will be written, and what a hook has in hand.
TriggerInv ==
  /\ now \in 0..MaxTime
  /\ Short(samples)
  /\ \A l \in Line : Short(line[l])
  /\ \A q \in Poller : Short(poll[q].file)
  /\ config \in Configs \union {Defaults}
  /\ DOMAIN latches = Session /\ \A s \in Session : LatchOK(latches[s])
  /\ \A s \in Session : hook[s].step # "idle" =>
       /\ hook[s].now \in 0..MaxTime /\ hook[s].news \subseteq Keys
       /\ DOMAIN hook[s].read = Session /\ \A t \in Session : LatchOK(hook[s].read[t])
  /\ said \union unsaid \subseteq Session \X Keys

\* The warning thresholds of a configuration are numbers.
Thresholds == \A cfg \in Configs : cfg.warnAt \subseteq Int

LEMMA NeverBefore == Never \in Int /\ Never <= 0 /\ MaxTime \in Nat
BY TriggerConstants, SensorConstants DEF Never

\* A file grows by a sample that says something, and is cut to MaxSamples.
LEMMA AppendedShort ==
  ASSUME NEW file \in Seq(Sample), Short(file), NEW x \in Sample, x.ts \in 0..MaxTime,
         DOMAIN Kept(file, x) # {}
  PROVE  Short(Appended(file, x))
<1> DEFINE kept == [x EXCEPT !.limits = Kept(file, x)]
           longer == Append(file, kept)
           cut == SubSeq(longer, Len(longer) - MaxSamples + 1, Len(longer))
<1>1. kept \in Sample /\ kept.ts = x.ts /\ kept.src = x.src /\ kept.limits = Kept(file, x)
  BY KeptOK DEF Sample
<1>2. IsSample(kept)
  <2>1. Kept(file, x) \in Limits /\ x.src \in {"line", "oauth"} BY KeptOK DEF Sample
  <2>2. PICK V \in SUBSET Window : Kept(file, x) \in [V -> Reading] BY <2>1 DEF Limits
  <2>. HIDE DEF kept
  <2>. QED BY <1>1, <2>1, <2>2 DEF IsSample
<1>. HIDE DEF kept
<1>3. /\ longer \in Seq(Sample) /\ Len(longer) = Len(file) + 1 /\ Len(file) \in Nat
      /\ MaxSamples \in Nat \ {0}
  BY <1>1, SensorConstants
<1>4. ASSUME NEW i \in DOMAIN longer PROVE IsSample(longer[i])
  <2>1. i \in 1..(Len(file) + 1) BY <1>3, <1>4
  <2>2. CASE i = Len(file) + 1
    <3>1. longer[i] = kept BY <1>1, <2>2
    <3>. QED BY <1>2, <3>1
  <2>3. CASE i # Len(file) + 1
    <3>1. i \in DOMAIN file /\ longer[i] = file[i] BY <1>1, <1>3, <2>1, <2>3
    <3>. QED BY <3>1 DEF Short
  <2>. QED BY <2>2, <2>3
<1>. HIDE DEF longer
<1>5. ASSUME Len(longer) > MaxSamples PROVE Short(cut)
  <2> DEFINE d == Len(longer) - MaxSamples
  <2>1. d \in Nat /\ d + MaxSamples = Len(longer) /\ Len(longer) \in Nat BY <1>3, <1>5
  <2>2. /\ Len(cut) = MaxSamples /\ cut \in Seq(Sample)
        /\ \A i \in 1..MaxSamples : cut[i] = longer[i + d]
    <3>1. d + 1 \in 1..(Len(longer) + 1) /\ Len(longer) \in d..Len(longer) BY <1>3, <2>1
    <3>. QED BY <1>3, <2>1, <3>1, SubSeqProperties
  <2>3. \A i \in 1..MaxSamples : i + d \in DOMAIN longer
    <3>1. DOMAIN longer = 1..Len(longer) BY <1>3
    <3>. HIDE DEF d
    <3>. QED BY <1>3, <2>1, <3>1
  <2>. HIDE DEF cut, d
  <2>4. DOMAIN cut = 1..MaxSamples BY <2>2
  <2>. QED BY <1>3, <1>4, <2>2, <2>3, <2>4 DEF Short
<1>6. ASSUME ~(Len(longer) > MaxSamples) PROVE Short(longer)
  BY <1>3, <1>4, <1>6 DEF Short
<1>7. Appended(file, x) = IF Len(longer) > MaxSamples THEN cut ELSE longer
  BY DEF Appended, longer, kept
<1>. HIDE DEF cut
<1>. QED BY <1>5, <1>6, <1>7

\* A level is one of the thresholds that count, or the order to wrap up.
LEMMA LevelIs ==
  ASSUME Thresholds, NEW cfg \in Configs \union {Defaults}, NEW util \in Int
  PROVE  Level(cfg, util) \in {0} \union WarnAt(cfg) \union {Wrapup}
<1> DEFINE S == {0} \union {t \in WarnAt(cfg) : util >= t}
           n == IF util > 0 THEN util ELSE 0
<1>1. WarnAt(cfg) \subseteq Int
  <2>1. Defaults.warnAt \subseteq Int BY DEF Defaults
  <2>. QED BY <2>1 DEF WarnAt, Thresholds
<1>2. n \in Int /\ S \in SUBSET Int /\ S # {} /\ \A x \in S : x <= n
  BY <1>1
<1>3. PICK m \in S : \A x \in S : x <= m
  <2>. HIDE DEF S, n
  <2>. QED BY <1>2, HasGreatest
<1>4. Max(S) = m
  <2>. HIDE DEF S, n
  <2>. QED BY <1>2, <1>3, MaxIs
<1>. QED BY <1>3, <1>4 DEF Level

LEMMA DecidedKeys ==
  ASSUME Thresholds, NEW cfg \in Configs \union {Defaults}, NEW file \in Seq(Sample), Short(file),
         NEW keys, NEW at
  PROVE  Decide(cfg, file, keys, at) \subseteq Keys
<1> DEFINE limits == file[Len(file)].limits
<1>. SUFFICES ASSUME file # Nothing, NEW w \in DOMAIN limits, Key(cfg, w, limits[w]).level > 0
              PROVE  Key(cfg, w, limits[w]) \in Keys
  BY DEF Decide, Stale
<1>1. Len(file) \in DOMAIN file BY DEF Nothing
<1>2. w \in Window /\ limits[w] \in Reading
  <2>. HIDE DEF limits
  <2>. QED BY <1>1 DEF Short, IsSample, limits
<1>3. limits[w].reset \in (0 - Jitter)..(MaxTime + Period) BY <1>2 DEF Reading
<1>4. Level(cfg, limits[w].util) \in {0} \union WarnAt(cfg) \union {Wrapup}
  BY <1>2, ReadingType, LevelIs
<1>5. Level(cfg, limits[w].util) # 0 BY DEF Key
<1> DEFINE level == Level(cfg, limits[w].util)
           wanted == UNION {WarnAt(c) : c \in Configs \union {Defaults}}
<1>6. \A t \in WarnAt(cfg) : t \in wanted OBVIOUS
<1>7. level \in WarnAt(cfg) \/ level = Wrapup BY <1>4, <1>5
<1>8. level \in wanted \union {Wrapup}
  <2>. HIDE DEF level, wanted
  <2>. QED BY <1>6, <1>7
<1>9. Key(cfg, w, limits[w]) = [window |-> w, reset |-> limits[w].reset, level |-> level]
  BY DEF Key
<1>10. Keys = [window: Window, reset: (0 - Jitter)..(MaxTime + Period), level: wanted \union {Wrapup}]
  BY DEF Keys
<1>. HIDE DEF limits, level, wanted
<1>11. [window |-> w, reset |-> limits[w].reset, level |-> level] \in Keys BY <1>2, <1>3, <1>8, <1>10
<1>. QED BY <1>9, <1>11

LEMMA TriggerInvInit ==
  ASSUME Init PROVE TriggerInv
<1>1. Short(Nothing) BY SensorConstants DEF Short, Nothing
<1>2. LatchOK(NoLatch) BY NeverBefore DEF LatchOK, NoLatch
<1>3. 0 \in 0..MaxTime BY NeverBefore
<1>. QED BY <1>1, <1>2, <1>3 DEF Init, SensorInit, TriggerInv, Idle

\* What the sensor writes.
LEMMA SensorTyped ==
  ASSUME Window # {}, SensorInv, TriggerInv, SensorNext, UNCHANGED triggerVars
  PROVE  TriggerInv'
<1>. USE DEF triggerVars
<1>0. /\ now \in 0..MaxTime /\ Short(samples) /\ Short(Nothing) /\ samples \in Seq(Sample)
      /\ DOMAIN line = Line /\ DOMAIN poll = Poller
  BY SensorConstants DEF TriggerInv, SensorInv, IsFile, Short, Nothing
<1>1. CASE Tick
  <2>1. now' \in 0..MaxTime BY <1>0, <1>1, NeverBefore DEF Tick
  <2>. QED BY <1>1, <2>1 DEF Tick, TriggerInv
<1>2. CASE \E w \in Window : Consume(w) BY <1>2 DEF Consume, TriggerInv
<1>3. ASSUME NEW l \in Line, Respond(l) PROVE TriggerInv' BY <1>3 DEF Respond, TriggerInv
<1>4. ASSUME NEW l \in Line, LineReads(l) PROVE TriggerInv'
  <2> DEFINE x == [ts |-> now, src |-> "line", limits |-> cached[l]]
  <2>1. x \in Sample
    <3>1. cached[l] \in Limits BY <1>4 DEF LineReads, SensorInv, Limits
    <3>. QED BY <3>1 DEF Sample, SensorInv
  <2>2. /\ DOMAIN Kept(samples, x) # {} /\ line' = [line EXCEPT ![l] = Appended(samples, x)]
        /\ UNCHANGED <<now, samples, poll>> /\ x.ts = now
    BY <1>4 DEF LineReads
  <2>. HIDE DEF x
  <2>3. Short(Appended(samples, x)) BY <1>0, <2>1, <2>2, AppendedShort
  <2>. QED BY <1>0, <2>2, <2>3 DEF TriggerInv
<1>5. ASSUME NEW l \in Line, LineWrites(l) \/ LineDies(l) PROVE TriggerInv'
  <2>1. line' = [line EXCEPT ![l] = Nothing] /\ samples' \in {samples, line[l]} /\ UNCHANGED <<now, poll>>
    BY <1>5 DEF LineWrites, LineDies, Write
  <2>. QED BY <1>0, <2>1 DEF TriggerInv
<1>6. ASSUME NEW q \in Poller, PollReads(q) PROVE TriggerInv'
  <2>1. PICK early \in {0, Jitter} :
          LET seen == [w \in Window |-> [account[w] EXCEPT !.reset = @ - early]]
          IN poll' = [poll EXCEPT ![q] =
               [step |-> "read", file |-> Appended(samples, [ts |-> now, src |-> "oauth", limits |-> seen])]]
    BY <1>6 DEF PollReads
  <2> DEFINE seen == [w \in Window |-> [account[w] EXCEPT !.reset = @ - early]]
             x == [ts |-> now, src |-> "oauth", limits |-> seen]
  <2>2. x \in Sample BY SeenSample DEF SensorInv
  <2>3. x.ts = now /\ DOMAIN Kept(samples, x) = Window BY DEF Kept
  <2>4. poll' = [poll EXCEPT ![q] = [step |-> "read", file |-> Appended(samples, x)]]
        /\ UNCHANGED <<now, samples, line>>
    BY <1>6, <2>1 DEF PollReads
  <2>. HIDE DEF x
  <2>5. Short(Appended(samples, x)) BY <1>0, <2>2, <2>3, AppendedShort
  <2>. QED BY <1>0, <2>4, <2>5 DEF TriggerInv
<1>8. ASSUME NEW q \in Poller, PollAsks(q) PROVE TriggerInv'
  <2>1. poll' = [poll EXCEPT ![q].step = "asked"] /\ UNCHANGED <<now, samples, line>>
    BY <1>8 DEF PollAsks
  <2>2. poll[q] = [step |-> poll[q].step, file |-> poll[q].file] BY DEF SensorInv
  <2>3. \A i \in Poller : poll'[i].file = poll[i].file BY <1>0, <2>1, <2>2
  <2>. QED BY <2>1, <2>3 DEF TriggerInv
<1>7. ASSUME NEW q \in Poller, PollWrites(q) \/ PollFails(q) PROVE TriggerInv'
  <2>1. poll' = [poll EXCEPT ![q] = [step |-> "idle", file |-> Nothing]]
        /\ samples' \in {samples, poll[q].file} /\ UNCHANGED <<now, line>>
    BY <1>7 DEF PollWrites, PollFails, PollEnds, Write
  <2>. QED BY <1>0, <2>1 DEF TriggerInv
<1>. QED BY <1>1, <1>2, <1>3, <1>4, <1>5, <1>6, <1>7, <1>8 DEF SensorNext

\* What a hook decides, latches and prints.
LEMMA HookTyped ==
  ASSUME Thresholds, HookOK, SensorInv, TriggerInv, NEW s \in Session,
         \/ HookDecides(s) \/ HookSpawns(s) \/ HookLatches(s) \/ HookEmits(s) \/ HookDies(s)
  PROVE  TriggerInv'
<1> DEFINE h == hook[s]
           InHand(g) == /\ g.now \in 0..MaxTime /\ g.news \subseteq Keys
                        /\ DOMAIN g.read = Session /\ \A t \in Session : LatchOK(g.read[t])
<1>0. /\ DOMAIN hook = Session /\ DOMAIN poll = Poller /\ DOMAIN latches = Session
      /\ \A t \in Session : hook[t].step # "idle" => InHand(hook[t])
      /\ said \union unsaid \subseteq Session \X Keys
  BY DEF HookOK, SensorInv, TriggerInv
<1>1. ASSUME h.step # "idle"
      PROVE  /\ UnderWayOK(h) /\ InHand(h) /\ Told(s) \subseteq Session \X Keys
  <2>1. h.news \subseteq Keys BY <1>0, <1>1
  <2>. QED BY <1>0, <1>1, <2>1 DEF HookOK, Told
<1>. HIDE DEF InHand
<1>2. ASSUME NEW g, hook' = [hook EXCEPT ![s] = g], g.step # "idle" => InHand(g),
             UNCHANGED <<now, samples, line, poll, config>>,
             DOMAIN latches' = Session, \A t \in Session : LatchOK(latches'[t]),
             said' \union unsaid' \subseteq Session \X Keys
      PROVE  TriggerInv'
  <2>1. \A t \in Session : hook'[t].step # "idle" => InHand(hook'[t]) BY <1>0, <1>2
  <2>. QED BY <1>2, <2>1 DEF TriggerInv, InHand
<1>3. CASE HookDecides(s)
  <2> DEFINE g == hook'[s]
  <2>1. /\ hook' = [hook EXCEPT ![s] = g]
        /\ g.now = now /\ g.read \in Readable /\ g.news = Decide(config, samples, g.read[s].keys, now)
        /\ UNCHANGED <<now, samples, line, poll, config, latches, said, unsaid>>
    BY <1>0, <1>3 DEF HookDecides, sensorVars
  <2>2. g.news \subseteq Keys
    <3>1. \A keys : Decide(config, samples, keys, now) \subseteq Keys
      BY DecidedKeys DEF TriggerInv, SensorInv, IsFile
    <3>. QED BY <2>1, <3>1
  <2>3. DOMAIN g.read = Session /\ \A t \in Session : LatchOK(g.read[t])
    <3>1. LatchOK(NoLatch) BY NeverBefore DEF LatchOK, NoLatch
    <3>2. \A t \in Session : LatchOK(latches[t]) BY DEF TriggerInv
    <3>. QED BY <1>0, <2>1, <3>1, <3>2, ReadableIs
  <2>4. InHand(g) BY <2>1, <2>2, <2>3 DEF InHand, TriggerInv
  <2>. HIDE DEF g
  <2>. QED BY <1>0, <1>2, <2>1, <2>4 DEF TriggerInv
<1>4. CASE HookSpawns(s)
  <2>1. h.step # "idle" BY <1>4 DEF HookSpawns
  <2>2. PICK q \in Poller : poll' = [poll EXCEPT ![q].step = "spawned"] BY <1>4 DEF HookSpawns
  <2>3. \A i \in Poller : poll'[i].file = poll[i].file
    <3>1. poll[q] = [step |-> poll[q].step, file |-> poll[q].file] BY DEF SensorInv
    <3>. QED BY <1>0, <2>2, <3>1
  <2>4. UNCHANGED <<now, samples, line, config, latches, said, unsaid>> BY <1>4 DEF HookSpawns
  <2>5. ASSUME NEW t \in Session, hook'[t].step # "idle" PROVE InHand(hook'[t])
    <3>1. hook[t].step # "idle" /\ SameInHand(hook'[t], hook[t]) BY <1>4, <2>5, SpawnKeeps
    <3>. QED BY <1>0, <3>1 DEF InHand, SameInHand
  <2>6. \A t \in Session : hook'[t].step # "idle" => InHand(hook'[t]) BY <2>5
  <2>. QED BY <2>3, <2>4, <2>6 DEF TriggerInv, InHand
<1>5. CASE HookLatches(s)
  <2>1. h.step # "idle" BY <1>5 DEF HookLatches
  <2>2. DOMAIN latches' = Session /\ \A t \in Session : LatchOK(latches'[t])
    <3>1. latches' = Latched(s) \/ latches' = latches BY <1>5 DEF HookLatches, Saves, SaveFails
    <3>2. LatchOK(NoLatch) BY NeverBefore DEF LatchOK, NoLatch
    <3>3. LatchOK([keys |-> h.read[s].keys \union h.news, last |-> h.now])
      BY <1>1, <2>1, NeverBefore DEF InHand, LatchOK
    <3>4. \A t \in Session : LatchOK(h.read[t]) BY <1>1, <2>1 DEF InHand
    <3>5. \A t \in Session : LatchOK(latches[t]) BY DEF TriggerInv
    <3>. QED BY <1>0, <3>1, <3>2, <3>3, <3>4, <3>5 DEF Latched
  <2>3. /\ hook' = [hook EXCEPT ![s] = Idle] \/ hook' = [hook EXCEPT ![s] = [h EXCEPT !.step = "emit"]]
        /\ UNCHANGED <<now, samples, line, poll, config, said>>
        /\ unsaid' \subseteq unsaid \union Told(s)
    BY <1>5 DEF HookLatches, sensorVars
  <2>4. said' \union unsaid' \subseteq Session \X Keys BY <1>0, <1>1, <2>1, <2>3
  <2>5. CASE hook' = [hook EXCEPT ![s] = Idle] BY <1>2, <2>2, <2>3, <2>4, <2>5 DEF Idle
  <2>6. CASE hook' = [hook EXCEPT ![s] = [h EXCEPT !.step = "emit"]]
    <3>1. InHand([h EXCEPT !.step = "emit"]) BY <1>1, <2>1 DEF InHand, UnderWayOK
    <3>. QED BY <1>2, <2>2, <2>3, <2>4, <2>6, <3>1
  <2>. QED BY <2>3, <2>5, <2>6
<1>6. CASE HookEmits(s) \/ HookDies(s)
  <2>1. h.step # "idle" BY <1>6 DEF HookEmits, HookDies
  <2>2. /\ hook' = [hook EXCEPT ![s] = Idle]
        /\ UNCHANGED <<now, samples, line, poll, config, latches>>
        /\ said' \subseteq said \union Told(s) /\ unsaid' \subseteq unsaid \union Told(s)
    BY <1>6 DEF HookEmits, HookDies, sensorVars
  <2>3. said' \union unsaid' \subseteq Session \X Keys BY <1>0, <1>1, <2>1, <2>2
  <2>. QED BY <1>2, <2>2, <2>3 DEF Idle, TriggerInv
<1>. QED BY <1>3, <1>4, <1>5, <1>6

\* state.json never grows beyond MAX_SAMPLES and never holds a sample of nothing, and a
\* key that is latched, decided on or printed is one of a window the account has, of a
\* reset it can have and of a level that some configuration asks for, whoever overwrites
\* whose file and whatever the user writes into config.json.
THEOREM TypesHold ==
  ASSUME Window # {}, Thresholds
  PROVE  Spec => []TypeOK
<1>1. Init => HookOK /\ SensorInv /\ TriggerInv
  BY HookOKInit, SensorInvInit, TriggerInvInit
<1>2. ASSUME HookOK, SensorInv, TriggerInv, [Next]_vars PROVE HookOK' /\ SensorInv' /\ TriggerInv'
  <2>1. HookOK' /\ SensorInv' BY <1>2, HookOKStep, SensorInvStep
  <2>2. CASE UNCHANGED vars BY <1>2, <2>1, <2>2 DEF vars, sensorVars, triggerVars, TriggerInv
  <2>3. CASE SensorNext /\ UNCHANGED triggerVars BY <1>2, <2>1, <2>3, SensorTyped
  <2>4. CASE \E s \in Session :
               \/ HookDecides(s) \/ HookSpawns(s) \/ HookLatches(s) \/ HookEmits(s) \/ HookDies(s)
    BY <1>2, <2>1, <2>4, HookTyped
  <2>5. CASE EditConfig BY <1>2, <2>1, <2>5 DEF EditConfig, sensorVars, TriggerInv
  <2>. QED BY <1>2, <2>1, <2>2, <2>3, <2>4, <2>5 DEF Next
<1>3. HookOK /\ SensorInv /\ TriggerInv /\ [Next]_vars => HookOK' /\ SensorInv' /\ TriggerInv'
  BY <1>2
<1>4. ASSUME HookOK, TriggerInv PROVE TypeOK
  <2>1. \A s \in Session : hook[s].step \in {"idle", "spawn", "latch", "emit"}
    BY <1>4 DEF HookOK, UnderWayOK, Steps
  <2>. QED BY <1>4, <2>1 DEF TriggerInv, TypeOK, Short, LatchOK
<1>5. HookOK /\ TriggerInv => TypeOK BY <1>4
<1>. QED BY <1>1, <1>3, <1>5, PTL DEF Spec

-----------------------------------------------------------------------------
(***************************************************************************)
(* What has been said.                                                     *)
(***************************************************************************)
\* A session with latches was heard of since the clock started.
Heard(entry) == entry.keys = {} \/ entry.last \in 0..MaxTime

\* As long as no latch of a session is lost, what it was told is latched, what is about
\* to be printed is latched and was not told, and what its hook is about to latch is
\* not in what the hook has read.
Tracked == \A s \in Session \ lost :
  /\ \A k : <<s, k>> \in said => k \in latches[s].keys
  /\ hook[s].step \in {"spawn", "latch"} => hook[s].news \intersect hook[s].read[s].keys = {}
  /\ hook[s].step = "emit" =>
       hook[s].news \subseteq latches[s].keys /\ \A k \in hook[s].news : <<s, k>> \notin said

OnceInv ==
  /\ HookOK /\ now \in 0..MaxTime
  /\ DOMAIN latches = Session /\ \A t \in Session : Heard(latches[t])
  /\ \A s \in Session : hook[s].step # "idle" =>
       /\ hook[s].now \in 0..MaxTime
       /\ DOMAIN hook[s].read = Session /\ \A t \in Session : Heard(hook[s].read[t])
  /\ Tracked

LEMMA OnceInvInit ==
  ASSUME Init PROVE OnceInv
<1>1. HookOK /\ now \in 0..MaxTime BY HookOKInit, NeverBefore DEF Init, SensorInit
<1>. QED BY <1>1 DEF Init, OnceInv, Tracked, Heard, NoLatch, Idle

\* No sensor leaves the clock's bound.
LEMMA SensorApart ==
  ASSUME now \in 0..MaxTime, SensorNext PROVE now' \in 0..MaxTime
<1>1. CASE Tick BY <1>1, NeverBefore DEF Tick
<1>2. CASE \E w \in Window : Consume(w) BY <1>2 DEF Consume
<1>3. ASSUME NEW l \in Line, Respond(l) \/ LineReads(l) \/ LineWrites(l) \/ LineDies(l)
      PROVE  now' = now
  BY <1>3 DEF Respond, LineReads, LineWrites, LineDies
<1>4. ASSUME NEW q \in Poller, PollAsks(q) \/ PollReads(q) \/ PollWrites(q) \/ PollFails(q)
      PROVE  now' = now
  BY <1>4 DEF PollAsks, PollReads, PollWrites, PollFails
<1>. QED BY <1>1, <1>2, <1>3, <1>4 DEF SensorNext

\* The hook of s leaves a session with latches out of latches.json.
Forgets(s) ==
  \E t \in Session \ {s} :
    hook[s].read[t].keys # {} /\ hook[s].now - hook[s].read[t].last > LatchTTL

\* A hook that leaves nobody out keeps all the latches it has read and adds its own.
LEMMA LatchesGrow ==
  ASSUME OnceInv, NEW s \in Session, HookLatches(s), Saves(s)
  PROVE  /\ DOMAIN latches' = Session /\ \A t \in Session : Heard(latches'[t])
         /\ ~Forgets(s) => \A t \in Session : hook[s].read[t].keys \subseteq latches'[t].keys
         /\ hook[s].news \subseteq latches'[s].keys
<1> DEFINE h == hook[s]
<1>1. h.step # "idle" /\ latches' = Latched(s) BY DEF HookLatches, Saves
<1>2. h.now \in 0..MaxTime /\ \A t \in Session : Heard(h.read[t])
  BY <1>1 DEF OnceInv
<1>3. ~Forgets(s) => \A t \in Session \ {s} :
        h.now - h.read[t].last > LatchTTL => h.read[t].keys = {}
  BY DEF Forgets
<1>4. Heard(NoLatch) /\ NoLatch.keys = {} BY DEF Heard, NoLatch
<1>. HIDE DEF h
<1>5. latches' = [t \in Session |->
        IF t = s THEN [keys |-> h.read[s].keys \union h.news, last |-> h.now]
        ELSE IF h.now - h.read[t].last > LatchTTL THEN NoLatch ELSE h.read[t]]
  BY <1>1 DEF Latched, h
<1>6. ASSUME NEW t \in Session
      PROVE  /\ Heard(latches'[t])
             /\ ~Forgets(s) => h.read[t].keys \subseteq latches'[t].keys
             /\ t = s => h.news \subseteq latches'[t].keys
  <2>1. CASE t = s BY <1>2, <1>5, <2>1 DEF Heard
  <2>2. CASE t # s /\ h.now - h.read[t].last > LatchTTL
    <3>1. latches'[t] = NoLatch BY <1>5, <2>2
    <3>. QED BY <1>3, <1>4, <2>2, <3>1
  <2>3. CASE t # s /\ ~(h.now - h.read[t].last > LatchTTL)
    <3>1. latches'[t] = h.read[t] BY <1>5, <2>3
    <3>. QED BY <1>2, <2>3, <3>1
  <2>. QED BY <2>1, <2>2, <2>3
<1>. QED BY <1>5, <1>6 DEF h

LEMMA OnceInvStep ==
  ASSUME OnceInv, [Next]_vars, \A s \in Session : HookLatches(s) => ~Forgets(s)
  PROVE  OnceInv'
<1>1. HookOK' BY HookOKStep DEF OnceInv
<1>2. CASE UNCHANGED vars
  BY <1>1, <1>2 DEF OnceInv, Tracked, vars, triggerVars
<1>3. CASE SensorNext /\ UNCHANGED triggerVars
  <2>1. now' \in 0..MaxTime BY <1>3, SensorApart DEF OnceInv
  <2>. QED BY <1>1, <1>3, <2>1 DEF OnceInv, Tracked, triggerVars
<1>4. CASE EditConfig BY <1>1, <1>4 DEF OnceInv, Tracked, EditConfig
<1>5. ASSUME NEW s \in Session, HookDecides(s) PROVE OnceInv'
  <2>1. /\ hook' = [hook EXCEPT ![s] = hook'[s]] /\ hook'[s].step \in {"spawn", "latch"}
        /\ hook'[s].now = now /\ hook'[s].read \in Readable
        /\ hook'[s].news = Decide(config, samples, hook'[s].read[s].keys, now)
        /\ UNCHANGED <<now, latches, said, lost>>
    BY <1>5 DEF HookDecides, OnceInv, HookOK
  <2>2. hook'[s].news \intersect hook'[s].read[s].keys = {} BY <2>1 DEF Decide
  <2>3. Tracked' BY <2>1, <2>2 DEF OnceInv, HookOK, Tracked
  <2>4. DOMAIN hook'[s].read = Session /\ \A t \in Session : Heard(hook'[s].read[t])
    <3>1. Heard(NoLatch) BY DEF Heard, NoLatch
    <3>. QED BY <2>1, <3>1, ReadableIs DEF OnceInv
  <2>. QED BY <1>1, <2>1, <2>3, <2>4 DEF OnceInv, HookOK
<1>6. ASSUME NEW s \in Session, HookSpawns(s) PROVE OnceInv'
  <2>1. UNCHANGED <<now, latches, said, lost>> BY <1>6 DEF HookSpawns
  <2>2. \A t \in Session :
          /\ hook'[t].step # "idle" => /\ hook[t].step # "idle" /\ hook'[t].now = hook[t].now
                                      /\ hook'[t].read = hook[t].read /\ hook'[t].news = hook[t].news
          /\ hook'[t].step \in {"spawn", "latch"} => hook[t].step \in {"spawn", "latch"}
          /\ hook'[t].step = "emit" => hook[t].step = "emit"
    BY <1>6, SpawnKeeps DEF OnceInv, SameInHand
  <2>3. Tracked' BY <2>1, <2>2 DEF OnceInv, Tracked
  <2>. QED BY <1>1, <2>1, <2>2, <2>3 DEF OnceInv
<1>7. ASSUME NEW s \in Session, HookLatches(s) PROVE OnceInv'
  <2>1. UnderWayOK(hook[s]) /\ hook[s].step = "latch"
    BY <1>7 DEF HookLatches, HookOK, OnceInv
  <2>2. /\ hook' = [hook EXCEPT ![s] = hook'[s]] /\ UNCHANGED <<now, said>>
        /\ \/ hook'[s] = Idle
           \/ /\ hook'[s].step = "emit" /\ hook'[s].now = hook[s].now /\ hook[s].news # {}
              /\ hook'[s].read = hook[s].read /\ hook'[s].news = hook[s].news
    BY <1>7, <2>1 DEF HookLatches, OnceInv, HookOK, UnderWayOK
  <2>3. \A t \in Session \ {s} : hook'[t] = hook[t] BY <2>2 DEF OnceInv, HookOK
  <2>4. lost \subseteq lost' BY <1>7 DEF HookLatches, Saves, SaveFails
  <2>5. CASE Saves(s)
    <3>1. /\ DOMAIN latches' = Session /\ \A t \in Session : Heard(latches'[t])
          /\ \A t \in Session : hook[s].read[t].keys \subseteq latches'[t].keys
          /\ hook[s].news \subseteq latches'[s].keys
      BY <1>7, <2>5, LatchesGrow
    <3>2. \A t \in Session \ lost' : latches[t].keys \subseteq hook[s].read[t].keys
      BY <2>5 DEF Saves, Overwritten
    <3>3. \A t \in Session \ lost' : t \notin lost /\ latches[t].keys \subseteq latches'[t].keys
      BY <2>4, <3>1, <3>2
    <3>4. s \notin lost' => \A k \in hook[s].news : <<s, k>> \notin said
      BY <2>1, <3>2, <3>3 DEF OnceInv, Tracked
    <3>5. ASSUME NEW t \in Session \ lost'
          PROVE  /\ \A k : <<t, k>> \in said' => k \in latches'[t].keys
                 /\ hook'[t].step \in {"spawn", "latch"} => hook'[t].news \intersect hook'[t].read[t].keys = {}
                 /\ hook'[t].step = "emit" =>
                      hook'[t].news \subseteq latches'[t].keys /\ \A k \in hook'[t].news : <<t, k>> \notin said'
      <4>1. \A k : <<t, k>> \in said' => k \in latches'[t].keys
        BY <2>2, <3>3 DEF OnceInv, Tracked
      <4>2. CASE t = s BY <2>2, <3>1, <3>4, <3>5, <4>1, <4>2 DEF Idle
      <4>3. CASE t # s BY <2>2, <2>3, <3>3, <4>1, <4>3 DEF OnceInv, Tracked
      <4>. QED BY <4>2, <4>3
    <3>6. Tracked' BY <3>5 DEF Tracked
    <3>7. hook'[s].step # "idle" => hook'[s].now = hook[s].now /\ hook'[s].read = hook[s].read
      BY <2>2 DEF Idle
    <3>. QED BY <1>1, <2>1, <2>2, <2>3, <3>1, <3>6, <3>7 DEF OnceInv
  <2>6. CASE SaveFails(s)
    <3>1. latches' = latches /\ (hook[s].news # {} => s \in lost') BY <2>6 DEF SaveFails
    <3>2. s \notin lost' => hook'[s].step = "idle" BY <2>2, <3>1 DEF Idle
    <3>3. Tracked' BY <2>2, <2>3, <2>4, <3>1, <3>2 DEF OnceInv, Tracked
    <3>4. hook'[s].step # "idle" => hook'[s].now = hook[s].now /\ hook'[s].read = hook[s].read
      BY <2>2 DEF Idle
    <3>. QED BY <1>1, <2>1, <2>2, <2>3, <3>1, <3>3, <3>4 DEF OnceInv
  <2>. QED BY <1>7, <2>5, <2>6 DEF HookLatches
<1>8. ASSUME NEW s \in Session, HookEmits(s) \/ HookDies(s) PROVE OnceInv'
  <2>1. /\ hook' = [hook EXCEPT ![s] = Idle] /\ UNCHANGED <<now, latches, lost>>
        /\ said' = said \/ (hook[s].step = "emit" /\ said' = said \union Told(s))
    BY <1>8 DEF HookEmits, HookDies
  <2>2. hook'[s].step = "idle" /\ \A t \in Session \ {s} : hook'[t] = hook[t]
    BY <2>1 DEF OnceInv, HookOK, Idle
  <2>3. \A t \in Session : \A k : <<t, k>> \in said' \ said =>
          t = s /\ hook[s].step = "emit" /\ k \in hook[s].news
    BY <2>1 DEF Told
  <2>4. Tracked' BY <2>1, <2>2, <2>3 DEF OnceInv, Tracked
  <2>. QED BY <1>1, <2>1, <2>2, <2>4 DEF OnceInv
<1>. QED BY <1>2, <1>3, <1>4, <1>5, <1>6, <1>7, <1>8 DEF Next

\* No session is told a thing twice, whatever the sensor records, loses and records again,
\* whenever hooks are killed, cannot read latches.json or cannot write it, and whatever
\* becomes of the latches of others, unless a latch of its own was not written or another
\* hook wrote over it, and as long as no session with latches is silent for so long
\* that another one's hook leaves it out of the file.
THEOREM SaidOnce ==
  Spec /\ [][\A s \in Session : HookLatches(s) => ~Forgets(s)]_vars => SaysOnce
<1>1. Init => OnceInv BY OnceInvInit
<1>2. OnceInv /\ [Next]_vars /\ [\A s \in Session : HookLatches(s) => ~Forgets(s)]_vars => OnceInv'
  <2>. SUFFICES ASSUME OnceInv, [Next]_vars, [\A s \in Session : HookLatches(s) => ~Forgets(s)]_vars
                PROVE  OnceInv'
    OBVIOUS
  <2>1. CASE UNCHANGED vars
    <3>1. HookOK' BY <2>1, HookOKStep DEF OnceInv
    <3>. QED BY <2>1, <3>1 DEF OnceInv, Tracked, vars, triggerVars
  <2>. QED BY <2>1, OnceInvStep
<1>3. OnceInv => \A s \in Session :
        HookEmits(s) => Told(s) \intersect said = {} \/ s \in lost
  BY DEF OnceInv, Tracked, HookEmits, Told
<1>. QED BY <1>1, <1>2, <1>3, PTL DEF Spec, SaysOnce

\* That is so for LATCH_SESSION_TTL_MS at least.
COROLLARY SaidOnceWithinTTL ==
  ASSUME MaxTime <= LatchTTL
  PROVE  Spec => SaysOnce
<1>1. OnceInv => \A s \in Session : HookLatches(s) => ~Forgets(s)
  <2>. SUFFICES ASSUME OnceInv, NEW s \in Session, HookLatches(s), NEW t \in Session,
                       hook[s].read[t].keys # {}
                PROVE  ~(hook[s].now - hook[s].read[t].last > LatchTTL)
    BY DEF Forgets
  <2>1. hook[s].now \in 0..MaxTime /\ hook[s].read[t].last \in 0..MaxTime
    BY DEF OnceInv, Heard, HookLatches
  <2>. QED BY <2>1, NeverBefore, TriggerConstants
<1>2. OnceInv /\ [Next]_vars => OnceInv' BY <1>1, OnceInvStep
<1>3. Init => OnceInv BY OnceInvInit
<1>4. OnceInv => \A s \in Session :
        HookEmits(s) => Told(s) \intersect said = {} \/ s \in lost
  BY DEF OnceInv, Tracked, HookEmits, Told
<1>. QED BY <1>2, <1>3, <1>4, PTL DEF Spec, SaysOnce
=============================================================================
