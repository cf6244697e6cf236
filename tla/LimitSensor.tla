----------------------------- MODULE LimitSensor -----------------------------
(***************************************************************************)
(* The usage sensor of limit-aware-wrapup.  The account has usage windows, *)
(* each with a utilization and the instant of its next reset.  Two kinds   *)
(* of processes append what they see of it to state.json: the status line  *)
(* of each session, which may re-emit a payload it has cached long ago,    *)
(* and the poll of the OAuth usage endpoint, which tells the truth.        *)
(*                                                                         *)
(* Each reads state.json, changes its copy and replaces the file: what     *)
(* another one wrote in between is lost.  Utilization is in tenths of a    *)
(* per cent, time in ticks.                                                *)
(***************************************************************************)
EXTENDS Integers, Sequences, FiniteSets, FiniteSetsExt, Functions

CONSTANTS
  Window,        \* usage windows of the account
  Line,          \* the sessions that have a status line
  Poller,        \* bound: the OAuth polls under way at one time
  Utilization,   \* bound: the utilizations there are
  Period,        \* the length of a window
  Jitter,        \* how much too early the endpoint may put a reset
  Cadence,       \* SAMPLE_MIN_AGE_MS
  PollGuard,     \* the age below which an OAuth sample needs no other
  MaxSamples,    \* MAX_SAMPLES
  MaxTime        \* bound on the clock

Full == 1000

ASSUME SensorConstants ==
  /\ Utilization \subseteq 0..Full
  /\ Period \in Nat \ {0} /\ MaxSamples \in Nat \ {0}
  /\ {Jitter, Cadence, PollGuard, MaxTime} \subseteq Nat

VARIABLES
  now,       \* the clock
  account,   \* what the account's windows really stand at
  cached,    \* the rate limits of the last response each session had, if any
  samples,   \* state.json
  line,      \* the file each status line is about to write, if any
  poll,      \* what each poll is doing
  mishaps    \* history: what has been lost by one writer to another

sensorVars == <<account, cached, samples, line, poll>>

Nothing == <<>>
Readings(file, w) == {file[i].limits[w] : i \in {j \in DOMAIN file : w \in DOMAIN file[j].limits}}

(***************************************************************************)
(* dropRegressions: a reading of a status line with an older reset than    *)
(* the newest one known, or with less utilization than already seen before *)
(* that reset, comes from its cache.  The endpoint is always believed.     *)
(***************************************************************************)
\* Mutant: utilization may fall within a window.
RegressesByReset(file, w, reading) ==
  LET known == Readings(file, w) IN
  known # {} /\ reading.reset < Max({r.reset : r \in known})

Regresses(file, w, reading) ==
  LET known == Readings(file, w)
      newest == Max({r.reset : r \in known})
  IN /\ known # {}
     /\ \/ reading.reset < newest
        \/ \E r \in known : r.reset = newest /\ reading.reset = newest /\ reading.util < r.util

Kept(file, sample) ==
  IF sample.src = "oauth" THEN sample.limits
  ELSE Restrict(sample.limits,
                {w \in DOMAIN sample.limits : ~Regresses(file, w, sample.limits[w])})

\* Mutant: the file is not cut.
AppendedUncut(file, sample) ==
  Append(file, [sample EXCEPT !.limits = Kept(file, sample)])

\* The file with the sample appended, cut to the newest MaxSamples.
Appended(file, sample) ==
  LET longer == Append(file, [sample EXCEPT !.limits = Kept(file, sample)])
  IN IF Len(longer) > MaxSamples THEN SubSeq(longer, Len(longer) - MaxSamples + 1, Len(longer))
     ELSE longer

NewestSample == samples[Len(samples)]

-----------------------------------------------------------------------------
SensorInit ==
  /\ now = 0
  /\ account \in [Window -> [util: Utilization, reset: 1..Period]]
  /\ cached = [l \in Line |-> Nothing]
  /\ samples = Nothing
  /\ line = [l \in Line |-> Nothing]
  /\ poll = [q \in Poller |-> [step |-> "idle", file |-> Nothing]]
  /\ mishaps = {}

\* Time passes; a window whose reset has come starts anew.
Tick ==
  /\ now < MaxTime
  /\ now' = now + 1
  /\ account' = [w \in Window |->
       IF account[w].reset > now + 1 THEN account[w]
       ELSE [util |-> 0, reset |-> account[w].reset + Period]]
  /\ UNCHANGED <<cached, samples, line, poll, mishaps>>

\* Somebody works on the account.
Consume(w) ==
  /\ \E u \in Utilization : u > account[w].util /\ account' = [account EXCEPT ![w].util = u]
  /\ UNCHANGED <<now, cached, samples, line, poll, mishaps>>

\* A session has a response; what its status line shows comes from it.
Respond(l) ==
  /\ cached' = [cached EXCEPT ![l] = account]
  /\ UNCHANGED <<now, account, samples, line, poll, mishaps>>

\* The status line runs: it reads the file and, unless the newest sample is too
\* young or nothing of its own can be trusted, goes on to write it.
LineReads(l) ==
  /\ line[l] = Nothing /\ cached[l] # Nothing
  /\ LET sample == [ts |-> now, src |-> "line", limits |-> cached[l]] IN
       /\ DOMAIN Kept(samples, sample) # {}
       /\ samples # Nothing => now - NewestSample.ts > Cadence
       /\ line' = [line EXCEPT ![l] = Appended(samples, sample)]
  /\ UNCHANGED <<now, account, cached, samples, poll, mishaps>>

\* Another writer has replaced the file since it was read.
Loses(file) ==
  SubSeq(file, 1, Len(file) - 1) # IF Len(samples) < MaxSamples THEN samples ELSE Tail(samples)

Write(file) ==
  /\ samples' = file
  /\ mishaps' = IF Loses(file) THEN mishaps \union {"sample"} ELSE mishaps

LineDies(l) ==
  /\ line[l] # Nothing
  /\ line' = [line EXCEPT ![l] = Nothing]
  /\ UNCHANGED <<now, account, cached, samples, poll, mishaps>>

LineWrites(l) ==
  /\ line[l] # Nothing
  /\ Write(line[l])
  /\ line' = [line EXCEPT ![l] = Nothing]
  /\ UNCHANGED <<now, account, cached, poll>>

(***************************************************************************)
(* refresh-oauth.js, spawned by a hook: it looks at the file, asks the     *)
(* endpoint, reads the file again, appends and writes.  It may fail or be  *)
(* killed at any moment, and nothing is written then.                      *)
(***************************************************************************)
PollEnds(q) == poll' = [poll EXCEPT ![q] = [step |-> "idle", file |-> Nothing]]

\* Nothing is asked when another poll has just brought its answer (PollFails).
FreshAnswer ==
  samples # Nothing /\ NewestSample.src = "oauth" /\ now - NewestSample.ts < PollGuard

PollAsks(q) ==
  /\ poll[q].step = "spawned" /\ ~FreshAnswer
  /\ poll' = [poll EXCEPT ![q].step = "asked"]
  /\ UNCHANGED <<now, account, cached, samples, line, mishaps>>

\* The answer is there; the file is read again.
PollReads(q) ==
  /\ poll[q].step = "asked"
  /\ \E early \in {0, Jitter} :
       LET seen == [w \in Window |-> [account[w] EXCEPT !.reset = @ - early]]
       IN poll' = [poll EXCEPT ![q] =
            [step |-> "read", file |-> Appended(samples, [ts |-> now, src |-> "oauth", limits |-> seen])]]
  /\ UNCHANGED <<now, account, cached, samples, line, mishaps>>

PollWrites(q) ==
  /\ poll[q].step = "read"
  /\ Write(poll[q].file)
  /\ PollEnds(q)
  /\ UNCHANGED <<now, account, cached, line>>

PollFails(q) ==
  /\ poll[q].step # "idle"
  /\ PollEnds(q)
  /\ UNCHANGED <<now, account, cached, samples, line, mishaps>>

SensorNext ==
  \/ Tick
  \/ \E w \in Window : Consume(w)
  \/ \E l \in Line : Respond(l) \/ LineReads(l) \/ LineWrites(l) \/ LineDies(l)
  \/ \E q \in Poller : PollAsks(q) \/ PollReads(q) \/ PollWrites(q) \/ PollFails(q)

-----------------------------------------------------------------------------
Reading == [util: Utilization \union {0}, reset: (0 - Jitter)..(MaxTime + Period)]
IsSample(x) ==
  /\ x.ts \in 0..MaxTime /\ x.src \in {"line", "oauth"}
  /\ DOMAIN x.limits \in (SUBSET Window) \ {{}}
  /\ \A w \in DOMAIN x.limits : x.limits[w] \in Reading

\* "Within the newest reset window, utilization only rises; a lower reading is
\* stale": whatever writer replaced the file, no status-line sample in it falls
\* below, or goes back to a reset before, what stands before it in the file.
ReadingsRise ==
  \A j \in DOMAIN samples : samples[j].src = "line" =>
    \A w \in DOMAIN samples[j].limits : \A i \in 1..(j - 1) :
      w \in DOMAIN samples[i].limits =>
        LET before == samples[i].limits[w]
            after == samples[j].limits[w]
        IN /\ before.reset <= after.reset
           /\ before.reset = after.reset => before.util <= after.util
==============================================================================
