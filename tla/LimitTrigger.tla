---------------------------- MODULE LimitTrigger -----------------------------
(***************************************************************************)
(* The wrap-up trigger of limit-aware-wrapup: a hook that runs at every    *)
(* prompt and tool call of a session, decides on the newest sample of the  *)
(* sensor whether to warn or to order a wrap-up, latches what it says in   *)
(* latches.json and spawns polls of the usage endpoint.                    *)
(*                                                                         *)
(* The hooks of one session come one after another; those of different     *)
(* sessions run at the same time and share latches.json and the marker of  *)
(* the last poll.  A hook may be killed between any two steps, and may     *)
(* fail to read or to write latches.json, which it does not notice.        *)
(***************************************************************************)
EXTENDS LimitSensor

CONSTANTS
  Session,         \* the sessions whose hooks run
  MaxChecks,       \* bound: the full checks there may be
  Configs,         \* what the user may write into config.json
  Faults,          \* what may fail of latches.json: "read", "write"
  StaleAfter,      \* stale_after_min
  SuppressWithin,  \* suppress_warn_if_reset_within_min
  Throttle,        \* THROTTLE_MS
  RefreshEvery,    \* REFRESH_MIN_MS
  LatchTTL         \* LATCH_SESSION_TTL_MS

ASSUME TriggerConstants ==
  {MaxChecks, StaleAfter, SuppressWithin, Throttle, RefreshEvery, LatchTTL} \subseteq Nat

VARIABLES
  config,    \* config.json
  latches,   \* latches.json
  marker,    \* when the marker of the last poll was written
  checks,    \* how many full checks have been started
  hook,      \* the hook of each session: its step, its clock, what it has read
  said,      \* history: what sessions have been told
  unsaid,    \* history: what was decided for a session that was not told
  lost,      \* history: the sessions that a latch was lost of
  spawned    \* history: when each session last spawned a poll

triggerVars == <<config, latches, marker, checks, hook, said, unsaid, lost, spawned>>
vars == <<now, sensorVars, mishaps, triggerVars>>

-----------------------------------------------------------------------------
(***************************************************************************)
(* Configuration: mergeConfig and effectiveReserve.  Zero stands for a     *)
(* number that is not set.                                                 *)
(***************************************************************************)
\* CONFIG_DEFAULTS: a dry run of warnings.
Defaults == [enabled |-> TRUE, mode |-> "warn", warnAt |-> {700, 850}, reserve |-> 0,
             measured |-> 0, margin |-> 25, plan |-> "pro", dryRun |-> TRUE]

WarnAt(cfg) ==
  IF cfg.warnAt # {} /\ \A t \in cfg.warnAt : 0 < t /\ t < Full THEN cfg.warnAt ELSE Defaults.warnAt

FallbackReserve == [pro |-> 30, max_5x |-> 20, max_10x |-> 15, max_20x |-> 10]

\* What is held back for the wrap-up: as set, else measured with a margin (in
\* tenths), else by the plan; at least half a per cent and at most ten.
Reserve(cfg) ==
  LET margin == IF cfg.margin > 0 THEN cfg.margin ELSE Defaults.margin
      plan == IF cfg.plan \in DOMAIN FallbackReserve THEN cfg.plan ELSE "pro"
      wanted == IF cfg.reserve > 0 THEN cfg.reserve
                ELSE IF cfg.measured > 0 THEN (cfg.measured * margin) \div 10
                ELSE FallbackReserve[plan]
  IN Max({5, Min({100, wanted})})

(***************************************************************************)
(* decide.  A level is a warning threshold, or Full for a wrap-up.         *)
(***************************************************************************)
Wrapup == Full

Inside(cfg, util) == util >= Full - Reserve(cfg)

\* The highest level a utilization has reached, 0 for none.
Level(cfg, util) ==
  IF cfg.mode = "auto" /\ Inside(cfg, util) THEN Wrapup
  ELSE Max({0} \union {t \in WarnAt(cfg) : util >= t})

\* What a latch is kept for.
Key(cfg, w, reading) ==
  [window |-> w, reset |-> reading.reset, level |-> Level(cfg, reading.util)]

Stale(file, at) == file = Nothing \/ at - file[Len(file)].ts > StaleAfter

NearReset(reading, at) == reading.reset - at \in 0..SuppressWithin

\* The newest sample alone decides, each of its windows for itself.
Decide(cfg, file, keys, at) ==
  IF Stale(file, at) THEN {}
  ELSE LET limits == file[Len(file)].limits
           due == {w \in DOMAIN limits : ~NearReset(limits[w], at)}
       IN {k \in {Key(cfg, w, limits[w]) : w \in due} : k.level > 0} \ keys

-----------------------------------------------------------------------------
(***************************************************************************)
(* check.js.                                                               *)
(***************************************************************************)
Never == 0 - (LatchTTL + RefreshEvery + Throttle)
NoLatch == [keys |-> {}, last |-> Never]
Idle == [step |-> "idle"]

Init ==
  /\ SensorInit
  /\ config = Defaults
  /\ latches = [s \in Session |-> NoLatch]
  /\ marker = Never
  /\ checks = 0
  /\ hook = [s \in Session |-> Idle]
  /\ said = {} /\ unsaid = {} /\ lost = {}
  /\ spawned = [s \in Session |-> Never]

\* What the hook may read: the file, or nothing of it.
Readable == {latches} \union IF "read" \in Faults THEN {[s \in Session |-> NoLatch]} ELSE {}

\* The hook reads config, latches and state.json, decides, and looks at the
\* marker of the last poll: four reads that nothing else depends on.  At a tool
\* call it leaves at once when the last full check of its session is recent.
\* Who spawns a poll from now on is kept for the record.
HookDecides(s) ==
  /\ hook[s].step = "idle"
  /\ checks < MaxChecks /\ checks' = checks + 1
  /\ config.enabled
  /\ \E read \in Readable, event \in {"UserPromptSubmit", "PreToolUse"} :
       /\ event = "PreToolUse" => now - read[s].last >= Throttle
       /\ hook' = [hook EXCEPT ![s] =
            [step |-> IF now - marker < RefreshEvery THEN "latch" ELSE "spawn", now |-> now,
             dryRun |-> config.dryRun, read |-> read, since |-> {},
             news |-> Decide(config, samples, read[s].keys, now)]]
  /\ UNCHANGED <<now, sensorVars, mishaps, config, latches, marker, said, unsaid, lost, spawned>>

\* The hook of s goes on; those that have looked at the marker see no more of it.
AfterSpawn(s) ==
  [t \in Session |->
    IF t = s THEN [hook[t] EXCEPT !.step = "latch", !.since = {}]
    ELSE IF hook[t].step = "spawn" THEN [hook[t] EXCEPT !.since = @ \union {s}] ELSE hook[t]]

\* Mutant: the marker is not written.
HookSpawnsUnmarked(s) ==
  /\ hook[s].step = "spawn"
  /\ \E q \in Poller :
       poll[q].step = "idle" /\ poll' = [poll EXCEPT ![q].step = "spawned"]
  /\ spawned' = [spawned EXCEPT ![s] = now]
  /\ hook' = AfterSpawn(s)
  /\ UNCHANGED <<now, account, cached, samples, line, mishaps, config, latches, marker, checks, said, unsaid, lost>>

\* It writes the marker and spawns the poll.
HookSpawns(s) ==
  /\ hook[s].step = "spawn"
  /\ marker' = now
  /\ \E q \in Poller :
       poll[q].step = "idle" /\ poll' = [poll EXCEPT ![q].step = "spawned"]
  /\ spawned' = [spawned EXCEPT ![s] = now]
  /\ hook' = AfterSpawn(s)
  /\ UNCHANGED <<now, account, cached, samples, line, mishaps, config, latches, checks, said, unsaid, lost>>

\* Mutant: the latches of earlier checks are not kept.
LatchedAnew(s) ==
  LET h == hook[s] IN [h.read EXCEPT ![s] = [keys |-> h.news, last |-> h.now]]

\* latches.json as the hook read it, with its own session's latches added and
\* sessions not heard of for LatchTTL left out.
Latched(s) ==
  LET h == hook[s]
      mine == [keys |-> h.read[s].keys \union h.news, last |-> h.now]
  IN [t \in Session |->
       IF t = s THEN mine ELSE IF h.now - h.read[t].last > LatchTTL THEN NoLatch ELSE h.read[t]]

\* What the hook has decided to say to its session.
Told(s) == {<<s, k>> : k \in hook[s].news}

\* The sessions with latches that are newer than what the hook has read.
Overwritten(s) == {t \in Session : ~(latches[t].keys \subseteq hook[s].read[t].keys)}

Saves(s) ==
  /\ latches' = Latched(s)
  /\ lost' = lost \union Overwritten(s)

SaveFails(s) ==
  /\ "write" \in Faults
  /\ lost' = IF hook[s].news = {} THEN lost ELSE lost \union {s}
  /\ UNCHANGED latches

\* The latches are saved, or not; the hook goes on either way.
HookLatches(s) ==
  /\ hook[s].step = "latch"
  /\ Saves(s) \/ SaveFails(s)
  /\ IF hook[s].news = {} \/ hook[s].dryRun
     THEN /\ hook' = [hook EXCEPT ![s] = Idle]
          /\ unsaid' = unsaid \union Told(s)
     ELSE /\ hook' = [hook EXCEPT ![s].step = "emit"]
          /\ UNCHANGED unsaid
  /\ UNCHANGED <<now, sensorVars, mishaps, config, marker, checks, said, spawned>>

\* Mutant: only an order to wrap up is printed.
HookEmitsWrapups(s) ==
  /\ hook[s].step = "emit"
  /\ said' = said \union {x \in Told(s) : x[2].level = Wrapup}
  /\ hook' = [hook EXCEPT ![s] = Idle]
  /\ UNCHANGED <<now, sensorVars, mishaps, config, latches, marker, checks, unsaid, lost, spawned>>

HookEmits(s) ==
  /\ hook[s].step = "emit"
  /\ said' = said \union Told(s)
  /\ hook' = [hook EXCEPT ![s] = Idle]
  /\ UNCHANGED <<now, sensorVars, mishaps, config, latches, marker, checks, unsaid, lost, spawned>>

HookDies(s) ==
  /\ hook[s].step # "idle"
  /\ hook' = [hook EXCEPT ![s] = Idle]
  /\ unsaid' = IF hook[s].step = "emit" THEN unsaid \union Told(s) ELSE unsaid
  /\ UNCHANGED <<now, sensorVars, mishaps, config, latches, marker, checks, said, lost, spawned>>

\* The user edits config.json.
EditConfig ==
  /\ config' \in Configs \ {config}
  /\ mishaps' = IF said = {} THEN mishaps ELSE mishaps \union {"edit"}
  /\ UNCHANGED <<now, sensorVars, latches, marker, checks, hook, said, unsaid, lost, spawned>>

Next ==
  \/ SensorNext /\ UNCHANGED triggerVars
  \/ \E s \in Session :
       \/ HookDecides(s) \/ HookSpawns(s) \/ HookLatches(s) \/ HookEmits(s)
       \/ HookDies(s)
  \/ EditConfig

Spec == Init /\ [][Next]_vars

-----------------------------------------------------------------------------
(***************************************************************************)
(* Properties.                                                             *)
(***************************************************************************)
Keys ==
  [window: Window, reset: (0 - Jitter)..(MaxTime + Period),
   level: (UNION {WarnAt(c) : c \in Configs \union {Defaults}}) \union {Wrapup}]

\* Every file holds what its readers expect of it.
TypeOK ==
  /\ now \in 0..MaxTime
  /\ Len(samples) <= MaxSamples /\ \A i \in DOMAIN samples : IsSample(samples[i])
  /\ \A s \in Session :
       /\ latches[s].keys \subseteq Keys /\ latches[s].last \in Never..MaxTime
       /\ hook[s].step \in {"idle", "spawn", "latch", "emit"}
  /\ \A x \in said \union unsaid : x[1] \in Session /\ x[2] \in Keys

\* "Latched once per session+window+reset": nothing is said to a session twice,
\* whatever the sensor records and forgets and whatever befalls the latches of
\* other sessions, as long as no latch of its own was overwritten or not written.
SaysOnce == [][\A s \in Session :
  HookEmits(s) => Told(s) \intersect said = {} \/ s \in lost]_vars

\* A session is warned of higher and higher levels of one window, unless a sample
\* was lost to another writer, a latch of its own, or the configuration changed.
LevelsRise == [][\A x \in said' \ said : \A y \in said :
  x[1] = y[1] /\ x[2].window = y[2].window /\ x[2].reset = y[2].reset =>
    x[2].level > y[2].level \/ x[1] \in lost \/ mishaps # {}]_vars

\* What is latched for a session it has been told, or it was held back in a dry
\* run, or its hook was killed with the latch written and nothing said.
LatchedIsSaid == \A s \in Session :
  hook[s].step # "emit" => \A k \in latches[s].keys : <<s, k>> \in said \union unsaid

\* "One spawn per REFRESH_MIN_MS machine-wide", but for hooks at the marker at the
\* same time: a session spawns a poll only when all sessions' last ones are as old
\* as that, those apart that spawned theirs after its hook had looked.
RefreshesApart == [][\A s \in Session :
  HookSpawns(s) => \A t \in Session \ hook[s].since : now - spawned[t] >= RefreshEvery]_vars

\* "Remaining budget is inside the wrap-up reserve -> directive to run the
\* ritual NOW": at the moment of the decision it is.
WrapsInsideReserve == [][\A s \in Session :
  HookDecides(s) =>
    \A k \in hook'[s].news : k.level = Wrapup => Inside(config, account[k.window].util)]_vars
==============================================================================
