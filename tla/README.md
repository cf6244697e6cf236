# A verification development of RunSteward

RunSteward keeps long, unattended coding runs of AI agents safe: it leases Git
worktrees to runs, records runs as digest-bound event chains, carries a queue of
tasks through the night, warns before a usage limit is reached and watches a
Codex process. This directory holds TLA+ modules that model the parts of it in
which several processes, crashes and shared files meet, TLC configurations that
check them on small instances, and proofs that hold for every instance.

1. [Inventory](#1-inventory) — the system's parts, their state and what makes
   them hard
2. [Modules](#2-modules) — what models what
3. [Runs](#3-runs) — what is checked, within which bounds
4. [Findings](#4-findings) — where the code and its comments disagree
5. [Proofs](#5-proofs)
6. [What is not modelled](#6-what-is-not-modelled-and-why)
7. [Plan](#7-plan)

All paths below are relative to the repository; `core` is
`packages/runsteward-core/src`, `carry` is `packages/claude-carry`, `wrapup` is
`packages/limit-aware-wrapup`, `nightwatch.py` is
`packages/codex-nightwatch/scripts/nightwatch.py`.

## 1. Inventory

### RunSteward core

| component | state | operations | interacts through |
|---|---|---|---|
| lease scheduler (`core/scheduler.mjs`) | scheduler state file; its coordination lock file; one lock file per run | `reserveLease`, `releaseReservedLease` | the file system: any number of processes share the three kinds of file |
| atomic write (`core/atomic-write.mjs`) | a temporary file | write, sync, rename | called by the scheduler |
| run invariants (`core/invariants.mjs`) | none | checks on sets of leases, reports, checkpoints | called by scheduler and verifiers |
| event fold (`core/event-fold.mjs`) | the hash chain of one run | `foldStateEvents`: accept or refuse the next event | leases, checkpoints and reports are bound by digest |
| child join (`core/child-join.mjs`) | an evaluation its caller keeps | `evaluateChildDependencies`, `assertChildDependencyEvaluation` | the chains of the children |
| checkpoint runtime (`core/checkpoint-runtime.mjs`, `core/provider-evidence.mjs`) | checkpoints and handoffs, kept by their callers | making both, and `assertResumePreflight` over a chain, leases and a plan | fold, leases, provider session |
| ChoiceGate (`core/choicegate-runtime.mjs`, `core/choicegate-authority.mjs`) | frozen receipts and plans | `ingestQualifiedChoiceGateReceipt` | the chain of the run, the present authority |
| wrap orchestration | none | a sequence of the calls above | by value |

*Hard*: lock files are taken by exclusive create and removed by hand, so a death
between two file operations leaves evidence that must block, not mislead; the
state file is replaced under a compare-and-swap on a digest the caller read
earlier; a release must hand its lock over to its successor; the fold accepts
events of attempts, leases and checkpoints whose order is only partly fixed; who
reads the chain is handed artifacts that were made at an earlier point of it.
*Correct* means: no two holders of one task, run or path; nothing recorded is
lost; an active lease always has its lock file; nothing else is ever locked; a run
ends once and its end can be proven; a resume leaves out no work; no route is
dispatched that its owner has not approved; a parent that may complete may go on to.

### Carry, the night runner

| component | state | operations |
|---|---|---|
| queue store (`carry/lib/store.mjs`) | `queue.json` | load, save (atomic rename), operators on tasks |
| runner (`carry/lib/runner.mjs`) | `runner.pid`, the queue it has loaded, `inFlight`, its children | start, reconcile, loop, dispatch, handlers of child events, stop, approve |
| in-folder branches (`carry/lib/git.mjs`) | HEAD of each project's checkout | checkout before a run, return after it |
| sentinel (`carry/lib/sentinel.mjs`) | run log | `classify` a finished run, budget gate |
| command line (`carry/bin/carry.mjs`, `lib/cleanup.mjs`) | worktrees | add, adopt, rm, move, pause, approve, stop, cleanup |
| guardrails, wake, report, handoff, doctor, pricing | none that others decide by | permission lists, wake-ups, text |

The runner is one Node process: between two `await`s it runs alone, but its
children, the user's commands and a second runner do not wait for it. All of them
change `queue.json` by loading it, changing the copy and saving the whole.
*Hard*: interleaved load and save; children that outlive their runner; a stop that
meets a run that has just ended; the HEAD of a checkout that several tasks use in
turn; deaths between a side effect and its record. *Correct* means: no task runs
in two processes; a conversation is resumed, never started over; the checkout
belongs to the running task and comes home afterwards; the unattended supervisor
does not die of its own handlers; queued work is eventually taken up.

### Limit-aware wrap-up, Nightwatch, the rest

* **Wrap-up sensor** (`wrapup/sensor`): the status lines of all sessions and the poll
  of the usage endpoint append samples to `state.json`, each by reading the file,
  changing its copy and replacing the whole. *Hard*: lost samples; payloads that
  come from a cache. Correct: within a window what is recorded only rises.
* **Wrap-up trigger** (`wrapup/trigger`): hooks of several sessions read that file,
  share `latches.json` and the marker of the last poll, and may be killed anywhere.
  Correct: at most one directive per session, window, reset and level, and no latch
  for something nobody was told; no decision about a window that is over.
* **Nightwatch** (`nightwatch.py`): two reader threads, a monitor loop with two
  timeouts, a supervise cycle that restarts the child. Correct: what the child
  wrote is recorded; a result is not turned into a timeout; budgets hold.
* **Command line, sensors, adapters, contracts, the Python verifier, skills**:
  conversions and schema checks of single values.

`PROJECT.json` lists every component with its status and, under `hazards`, each
place where this code can go wrong in a way a test hardly reaches.

## 2. Modules

| module | models | 
|---|---|
| `LeaseRegistry` | what the scheduler promises: atomic grants and releases |
| `LeaseScheduler` | the scheduler, one action per file operation, under faults |
| `MCLeaseScheduler` | its instances for TLC |
| `LeaseScheduler_proofs` | theorems about it |
| `CarryQueue` | `queue.json` as a value and the operators on it |
| `CarryQueue_proofs` | theorems about those operators: order and tasks of a queue agree |
| `CarrySessions` | what Carry promises of conversations, checkouts and worktrees |
| `CarryRunner` | runners, children, checkout, commands over that queue |
| `CarryRunner_proofs` | theorems about it: processes, conversations, checkouts, worktrees, refinement of `CarrySessions` |
| `CarrySafety_proofs` | theorems about it: types, the supervisor, the way home of a checkout |
| `CarryMarker_proofs` | theorem about it: the stop marker |
| `MCCarryRunner` | its instances for TLC |
| `RunLife` | what the event chain of a run promises: attempts, one end, one proof of it |
| `RunChain` | the chains the event fold accepts, one action per event type |
| `ResumePreflight` | checkpoints, handoffs and the preflight of a resume, over such a chain |
| `GateDispatch` | whether a frozen plan may be dispatched, over such a chain |
| `ChildJoin` | what a parent makes of its children, one of which has such a chain |
| `MCRunChain` | the four together for TLC |
| `RunChain_proofs` | theorems about the four |
| `LimitSensor` | the account's windows and the writers of `state.json` |
| `LimitTrigger` | the hooks that decide on it |
| `MCLimitTrigger` | its instances for TLC |
| `LimitTrigger_proofs` | theorems about both, proved with TLAPS |
| `Extrema` | lemmas about Min and Max for the proof modules |

### LeaseRegistry and LeaseScheduler

`state`, `coordLock` and `leaseLock` are the files, `git` the branches and
worktrees that exist; `pc`, `lease`, `prior`, `inventory`, `held` and `committed`
are what one call has in its JavaScript variables (`held` is the list of lock
files it has created, `committed` its `stateReplacementCommitted`). `residue` is
history: the lock files a crash or a reported cleanup failure left.

A reservation is `StartReserve`, `OpenLeaseLock`, `OpenCoordinationLock`,
`Compare`, `Rename`, `UnlinkCoordination`, `Return`; a release is `StartRelease`,
`OpenCoordinationLock`, `Compare`, `Rename`, `UnlinkLease`, `UnlinkCoordination`,
`Return`. Every failing step goes to `CleanupAt` of what is held. `ReadPrior` and
`TakeInventory` happen whenever the caller likes, so both may be stale.
A lease is `[run, epoch, status]`; two leases have equal digests when the records
are equal. Paths enter as the relation `Overlap` between runs (one path contains
another), tasks as `TaskOf`. `Crash` is possible at any place, `WriteFails` at any
write, and an unlink may fail: the constant `Faults` says which of them happen.

### CarryQueue and CarryRunner

`queue`, `pidFile`, `stop`, `head` and `trees` are on disk: `queue.json`,
`runner.pid`, the stop markers, HEAD of every project, the worktrees. A runner
has a place `pc`, its options `mode`, the queue `snap` it has loaded and will save,
the task and process it is busy with (`target`), and `gate`, `fired`, `inFlight`
of `runLoop`. `child` holds the Claude processes: what they were started with,
whether they live, whether their session id was said and heard. `command` is the
user's command between its load and its save.

Each handler is cut where others can see a difference: at every save, at the
spawn, at the checkout. So dispatch is `Dispatch` (load, lock, checkout), then
`SaveDispatch`, `Spawn`, `LoadPid`, `SavePid`; the handlers are `HearInit`,
`HearUsage`, `HearClose` and `HearError`, each followed by its save. An exception
in a handler (a task that is gone, a lock of another owner) is the place
`"threw"`: Node ends the process. A runner that ends leaves its children running
(`Orphaned`); a `Runner` is started at most once, so a restart is another one.

The constant `Overlapping` says whether a command or a second runner may run
*inside* a synchronous stretch of a runner. Nothing in the code prevents that;
with `FALSE` the model asks what is right apart from that one weakness,
with `TRUE` it shows the weakness. Crashes fall between any two steps in both,
with one exception behind a fault of its own (`"crashAtSpawn"`: between a spawn
and the record of its pid; [Findings](#4-findings) says what it breaks).

A verdict of `classify` is chosen freely among those the code can return for the
child's end. The dispatch of a task parked for a detached HEAD has its slot until the
loop awaits (`Unsettled`). A stop sends a signal: the process it is sent to ends by
`Finish`, sooner or later, like one that nobody kills. The clock `now` moves only while
a task's `resume_at` lies ahead. One thing is brought forward: an exception of `dispatch`
itself is a rejected promise, which ends the runner when the loop awaits it
(`runner.mjs:555`) and in the model at once. It takes a task that is gone or locked by
another runner between `nextDispatchable` and the lock, so it takes overlap.

Three variables carry history for the properties. `heard` are the tasks whose session id
was on disk. A process is `asked` when a stop marked its task while it was there. And what
a runner had `inFlight` or in hand when it ended stays in `inFlight`: `CutOff` are the
tasks a dead runner was at.

`CarrySessions` is what a user is promised about the sessions of a night: which
processes work (`work`), which session ids are on disk (`known`), where each project's
HEAD and each worktree stands. `CarryRunner` maps `Work` and `heard` onto the first
two and its own `head` and `trees` onto the others; everything about queues, pid
files, counters and markers is hidden by that mapping.

### RunLife and RunChain

`chain` is the event chain of one run, each event with the projection that results
from it. An action appends one event that `foldStateEvents` accepts: its guard is
the row of `PAIRS_BY_EVENT` (`Transitions`) together with the checks of that event
type. The fold is a pure function over a chain that somebody else writes; the model
is the writer who may append whatever the fold lets pass. An event stands for its
id, sequence number and digest by its place; an artifact by what it is about: a lease
by its epoch, a checkpoint and a report by the event that made them. So the writer
cannot refer to an event that is not there or reuse a digest: that is the part of
the digest checks. Two things the fold leaves to others are taken from them: the
epochs are those `proposeSuccessorLease` grants, and a report has the lease and
checkpoint history of the moment it is finalized (`Proven` is then
`assertFinalReport`).

`RunLife` has six steps: `Begin` an attempt, `Work`, `Rest`, `Release`, `End`,
`Prove`. `RunChain` implements it under the mapping in `Life`: the stage of an
attempt is read off the lease and the status of the projection.

### ResumePreflight, GateDispatch, ChildJoin

Three readers of the chain. They keep no state of their own: what they are given was
made at an earlier point of the chain, or is made up by the caller. So each is an
operator over the chain and every possible argument, and the properties are asked
in every state the chain can reach.

* `ResumePreflight`: `MadeCheckpoint` and `MadeHandoff` are what the makers refuse,
  `Preflight` is `assertResumePreflight` with the strict invariants behind it. What
  a checkpoint says of itself (lease, plan, completeness, binding) is its author's;
  its digest covers it, so the checkpoint finalized at an event is one of the
  records for that event. Heads, branches, worktrees and paths are equal or the call
  fails, and are left out.
* `GateDispatch`: `Calls` is every outcome of the comparisons
  `ingestQualifiedChoiceGateReceipt` makes, `Checks` its checks in their order, each
  with what it comes to, `OwnerGateBinding` the one that reads the chain.
* `ChildJoin`: `FoundState` and `ProofOf` are `proofFor`, `Evaluation` is
  `evaluateChildDependencies`, `Accepted` what `assertChildDependencyEvaluation` lets
  pass of a record that was kept.

### LimitSensor and LimitTrigger

`account` is what the windows really stand at; `cached` the rate limits of the last
response of each session, which its status line may show again at any time;
`samples` is `state.json`, a sequence. A status line reads the file and holds the
whole new file in `line[l]` until `LineWrites`; a poll is `spawned`, `asked` after its look at the file, `read` when the
answer is there (with the file it will write), then idle. `Regresses` is the rule that drops a window
of a payload from a cache; the endpoint is always believed, and may put a reset
`Jitter` too early.

A hook goes through `HookDecides` (its four reads, which commute with everything but
the write it does at the end, are one step), `HookSpawns` when the marker of the last
poll is old, `HookLatches`, and `HookEmits` unless nothing is due or it is a dry run.
What it read of `latches.json` it keeps in `hook[s].read`; that is what it writes
back. The file may be unreadable, and is then taken to be empty (`Readable`), and a write
that fails is swallowed (`SaveFails`): the constant `Faults` says whether they do. `since`
are the sessions whose hooks spawned a poll after this one had looked at the marker. `Decide` is `decide`: the newest sample alone, each of its windows for itself.
`HookDies` is possible between any two steps, and so is the death of a sensor.

`mishaps` is history: `"sample"` when a writer replaced a file that had changed since
it read it, `"edit"` when the configuration changed after something was said. `lost` are
the sessions of which a latch was lost: another hook wrote an older file over it, or its
own write failed.

## 3. Runs

| run | instance | shows |
|---|---|---|
| `lease_faults` | 2 processes, 2 runs of one task, 2 epochs, all faults, fair | exclusion, locks and leases agree, hand-over from release to successor, residue is never taken over, refinement; the coordination lock is given back or left as residue |
| `carry_night` | 2 in-folder tasks of one project, 2 slots, 2 runners, 2 pids, crashes, a detached HEAD, 2 commands of rm, approve, stop, cleanup --id | no double run, one runner, checkout and recorded pids follow the runs, conversations are resumed, no handler throws; HEAD comes home and a stop belongs to its run, but for tasks a dead runner was at |
| `carry_trees` | a worktree task and an adopted one, runners in modes once, until-idle, drain, crashes, one command of move, pause, cleanup | the worktree of a conversation to be continued is there, that of an orphan stands; what runs, and where, is what `CarrySessions` promises |
| `carry_home` | 2 in-folder tasks, one slot, failing spawns, detached HEAD, a stop, usage limits | HEAD comes home; a stop belongs to its run; every pending task is taken up |
| `chain_life` | one run, every chain of up to 17 events, two plans, at most two bindings and two approvals, resuming allowed or not; every argument of the three readers | the chain is the life of a run; a closed run can be proven; resumes take the newest checkpoint, lose no work and are not refused for nothing; gated routes wait for their owner; a join stays a join |
| `trigger_hooks` | 2 sessions, a status line, a poll, one window, a reset at tick 1 or beyond, a user who leaves the dry run, failing reads and writes of `latches.json` | recorded readings rise; nothing is said twice and levels rise for whoever lost no latch; latched is said; polls of the machine keep their distance, but for hooks at the marker together |

The violation runs are listed under [Findings](#4-findings).

Why the bounds suffice: every hazard needs at most two actors on one object (two
operations on one file, two tasks in one checkout, an old and a new runner, two hooks
on one file of latches), and two epochs or attempts for a hand-over. `MaxTasks`,
`MaxEpoch`, `MaxCommands` and `MaxTime` bound what grows without end: ids, leases of
a run, typed commands (`add` and `adopt` count as tasks) and clock readings. In
`lease_faults` `FewCalls` admits two grants in all and gives one process to one run,
so that one run is contested and another clashes with it; overlapping paths and two
tasks are left to the theorems, which hold for every clash relation and every number
of epochs.

Seventeen events (`MaxEvents`) hold two attempts, each with its checkpoint, and a
third that resumes, or two with their report; the constraint `Bounded`
(`MaxBindings`, `MaxApprovals`) keeps events that may be repeated at will from filling
them. `Pid` is reused once no queue names the pid; a reuse by a foreign process is not
modelled. The pids of Carry, the processes of the scheduler and the sessions of the
trigger are symmetric; runs with liveness properties use no symmetry.

The trigger's instance has utilizations below and inside the reserve, two samples in
the file (so that it is cut), three full checks (`MaxChecks`), and a clock of two
readings: a window may be at any point of its period at the start, so a reset falls
on tick 1 or beyond it. `Brief` lets the clock stand while a hook or a
status line, a matter of milliseconds, or a poll, which gives up after eight seconds, is
under way, and the user's hand while a hook or a status line is; `Pairwise` lets at most
two processes be between their reads and their writes, two hooks among them; `OneKept`
ends what follows when both sessions have lost a latch. A latch does not outlive `LatchTTL`
within the instance (the code's is a week). `SaysOnce` excuses a session
that lost a latch of its own, and nothing that befalls the rest of the file; `LevelsRise`
also a lost sample and an edited configuration. The code prevents none of these.

Deadlock is checked for the scheduler. The trigger runs switch it off (the clock and
the checks run out). The chain runs switch it off: a chain of
`MaxEvents` events, or one whose final report is bound, ends. The Carry runs switch it
off too: a runner is started once, and when all have ended and the user has typed all
the commands the instance has, nothing more happens; that is an end, not a deadlock.

**Fairness.** `LeaseScheduler!FairSpec`: a started call takes its next step (weak
fairness of `Operation`); nobody must start one. Node's event loop resolves a
pending file operation, so the assumption is the code's own, and it
is all that `CoordinationIsShortLived` needs, under every fault. `CarryRunner!FairSpec`: the
statements of a live runner are executed, pending child events and the poll timer
are delivered (strongly fair, because a stretch of the same process disables them
in between: the event queue is first-in first-out), a headless process ends, a
typed command completes, the clock goes on, someone starts each runner.
`PendingIsTaken` is checked without crashes and without a pause: after a crash
nothing in the code starts the next runner.

Each property of a passing run is also checked against a plausible bug: a mutant
of one definition, kept next to it (`MayTakeLockAlways`, `UnmarkedNot`, ...), under
which TLC finds the property violated.

## 4. Findings

Violations of what the repository says of itself; each has a run.

| run | what happens |
|---|---|
| `lease_successor` | a released run whose branch exists cannot be resumed: with the complete inventory the scheduler demands, its own branch counts as a collision |
| `carry_overlap` | a command that loads before a save of the runner and saves after it undoes it: the running task is pending again and runs twice |
| `carry_plan_limit` | plan, usage limit, resume: the second run executes an unapproved plan |
| `chain_gates` | a run stopped under an open owner gate acquires its successor lease directly and resumes with the gate open |
| `chain_report` | the report of a stopped attempt names the stop of an earlier one and is accepted before the attempt's lease is released |
| `trigger_reset` | a session is ordered to wrap up for a window that is over: once the reset is past, the distance to it is negative and nothing suppresses the old reading |

More disagreements were found than there are runs above. Two of them contradict words of
the repository, and changing a constant shows them:

* `cleanup.mjs:4-6` says that worktrees go "only for tasks that are truly finished
  (done/failed), never for ones that might still resume
  (waiting/needs-approval/running)". `cleanup --id` looks at no status
  (`cleanup.mjs:44`). With `"cleanupId"` in the `Commands` of `carry_trees`, `TreeAwaitsResume`
  fails after add, dispatch, first output, `cleanup --id`, and so does `TreeStands`: the
  worktree goes while its process works in it.
  `cleanup` without `--id` keeps the promise as long as every spawn succeeds. With
  `"spawn"` in `Faults` and `"stop"` in `Commands` it does not: a task that ran before is
  dispatched again, its spawn fails, the `error` event makes it `failed`
  (`runner.mjs:479-486`), a cleanup removes its worktree, and the `close` event of the same
  spawn, under a stop marker, makes it `pending` with its session.
* `check.js:46-47` says "Marker-file throttle keeps it to one spawn per REFRESH_MIN_MS
  machine-wide", `refresh-oauth.js:8-10` "throttled there to once per 180s machine-wide",
  and so do lines 133 and 240-241 of the README of limit-aware-wrapup. The marker is looked
  at (`check.js:49`) and then written (`:51`), with nothing between that keeps others out:
  the hooks of two sessions that both look before either writes both spawn a poll. That is
  what the exception in `RefreshesApart` (`since`) stands for; take `\ hook[s].since` out
  of it and the run `trigger_hooks` shows it. `PollsApart` proves that it is the only way.

The model has more weaknesses of the code in it. The passing runs are stated so that
they do not meet them, or name what they break. Changing one or two constants shows each:

* `Overlapping = TRUE` with two runners: both read `runner.pid` before either
  writes it (`runner.mjs:183-189`), and `OneRunner` fails.
* `"crashAtSpawn"` in `Faults`: a death between a spawn and the save of its pid
  (`runner.mjs:330-342`) leaves a process that `reconcile` takes for gone, and
  `OneChild` fails.
* `"spawn"` in `Faults` with two in-folder tasks: the `error` event of a failed spawn
  settles its dispatch, the next task moves HEAD, and the `close` event that follows
  moves it back (`runner.mjs:408-487`): `HeadFollowsRun` fails. Both events are
  documented by Node; that another dispatch fits between them depends on the
  platform.
* Without `CutOff` in `HomeAgain` or in `MarkerIsForThisRun` the run `carry_night` fails: a
  death between the checkout and the save loses the base branch (`runner.mjs:110`), HEAD
  stays on `carry/<id>`, and the next task takes that for the user's branch and goes back
  to it; the marker of a stop no handler has heard discards the next run's result
  (`runner.mjs:646`). Both stay with the tasks the dead runner was at, which is what the
  two properties say.

More are visible in the code and the models without a property.

Carry: nothing continues a task that is parked until the billing refresh
(`runner.mjs:225`).

The chain and its readers:

* A run that acquires a successor lease although its policy forbids resuming, or
  without a finalized checkpoint, stays in `allocated`: only `run.resumed` could lead
  out of it and is refused (`event-fold.mjs:196-203`).
* Binding another plan to a stopped run, which the fold allows (`event-fold.mjs:7`),
  invalidates the final report it already has, because `assertFinalReport` compares
  the plans (`invariants.mjs:386`). A completed run cannot be bound again, so
  `CompletionIsFinal` stands.
* `assertRunOwnerGateBinding` takes the *first* plan that was bound
  (`invariants.mjs:196`) and compares the plan of the initial approval only with
  itself (`:204`). When a plan was bound over another, an approval that was given for
  the second authorizes the dispatch of the first, and the second is refused: without
  `~Rebound`, `DispatchIsApproved` fails.
* The preflight accepts a resume event that is not the last of the chain: an old one
  can be replayed while nothing was finalized since. `ResumeLosesNoWork` is therefore
  about the resume that has just been recorded. A checkpoint that names another lease
  than that of its event is not noticed (`Truthful`).
* A run that was resumed and stopped before its next checkpoint can never pass the
  preflight again, although the fold lets it resume: the checkpoint was not made under
  the lease that was given back last (`invariants.mjs:260`). In general the fold lets
  resumes pass that the preflight refuses. `MadeIsAccepted` says which are accepted.
* A handoff that is not eligible is compared with nothing and stops no resume.
* The join of a parent without required children holds vacuously
  (`child-join.mjs:52`).

Wrap-up: a status-line sample of which one window was dropped as stale is still the
newest, and hides a fresh reading of that window by the endpoint (`decide.js:92`); it
takes two windows, more than the run has.

## 5. Proofs

### The scheduler

`LeaseScheduler_proofs` proves, for every set of processes, runs and tasks, every
clash relation, every bound and every mix of faults:

| theorem | statement |
|---|---|
| `TypeCorrect` | `Spec => [](TypeOK /\ Busy)` |
| `InductiveStep` | `TypeOK /\ IInv /\ [Next]_vars => IInv'` |
| `Exclusion` | `Spec => []NoTwoHolders` |
| `Backing` | `Spec => []ActiveIsLocked` |
| `Accounting` | `Spec => []LocksAccountedFor` |
| `NoSilentTakeover` | `Spec => ResidueIsNeverTakenOver` |
| `Implementation` | `Spec => ImplementsRegistry` |

The assumptions are the constants' types and that `Free`, `NoLease`, `NoState` and
`"coordination"` are not what they stand beside; TLC evaluates them in every run.

None of the safety properties is inductive. That an active lease has its lock file
depends on who may still remove that file, which depends on where every call is and
what it has created. `IInv` says it: `ProcInv` (what a call holds and has
committed at each place of its code, and at the rename that the compared state is
still the present one), `OwnInv` (a lock file in `held` was created by its holder,
is nobody's residue, and a claimed run is not active), `FreeInv` (a lock file that a
release is about to remove is claimed by nobody), `StateInv` (the recorded leases
are unique, chained and disjoint), `ResidueInv`. The proof has one lemma per action
(`OpenLeaseLockStep` ... `CrashStep`), `Quiet` for the steps that change nothing the
invariant reads, and `RenameStep` for the one that writes the state. The key fact
is `OneCoordinator`: whoever is between compare and rename holds the only
coordination lock, so nobody else renames. `WhoWrites` says that only a rename
changes the state, and `RenameGrants` and `RenameReleases` that such a step is a
grant or a release of the registry; everything else stutters. That gives the
refinement.

### The chain and its readers

`RunChain_proofs` proves, for chains of every length and every set of plans:

| theorem | statement |
|---|---|
| `TypeCorrect` | `Spec => []TypeOK` |
| `InductiveRun` | `Spec => []RunInv` |
| `NewestCheckpoint` | `Spec => []ResumesNewest` |
| `ClosureProvable` | `Spec => []ClosureIsProvable` |
| `NoWorkLost` | `Spec => []ResumeLosesNoWork` |
| `MadeAccepted` | `Spec => []MadeIsAccepted` |
| `DispatchApproved` | `Spec => [](ApprovedOnly /\ DispatchIsApproved)` |
| `LifeImplemented` | `Spec => ImplementsLife` |
| `JoinIsFinal` | `Spec => []ClaimsHold /\ CompletionIsFinal` |

`ApprovedOnly` is `DispatchIsApproved` without the restriction to runs that have not
started, which TLC needs to finish. The only assumption is on the constants: a bound
on the chain, and plans that are positive numbers.

The seventeen actions of `RunChain` differ in their guards more than in what they do.
`NextRecords` brings them to one form: a step appends an event of some type
(`Appended`) that changes the projection in the way of its type (`Changes`). From there
each part of the invariant has one lemma that looks at the types that can disturb it;
`Rows` and its consequences say which statuses a type joins. The parts:

* `CheckpointInv`: no finalized checkpoint is newer than the one of the projection.
* `LeaseInv`: the lease acquired last is held or was given back after it. `CloseInv`:
  a closed run has an event that closed it, whose lease is held still or was given
  back since (`Settled`). Neither the report's check nor the projection says this
  alone: it takes the acquisition, the closing event and the release together.
* `EndInv`, `FinalInv`: what has ended stays ended, under its lease or none; once the
  end is proven there is no lease. `BusyInv`: a run at work has a lease.
* `ApprovalInv`: bound plans are those of the projections; after an approval was asked
  for the run is never `planned` again, so it is queued out of an approval.
* `EpochInv`, `WorkInv`: epochs rise along the chain, between two acquisitions there
  is a release, and work after a pause needs an acquisition in between. The preflight
  compares the lease of the checkpoint with the one given back last: if an attempt
  had worked in between, its release would be later and of a later epoch.
* `AttemptInv`, `ResumeInv`: what `MadeIsAccepted` needs, the converse of the above. An
  attempt that was acquired runs at once; between two releases there is an
  acquisition; what was held is held still or was given back after. The acquisition for
  a resume names the lease that was given back last, and the resume follows it at once
  and names the checkpoint of the projection. So if nobody worked since the checkpoint,
  the lease it was made under is the one given back last, and the arguments the
  preflight wants are those of the chain.

### The trigger and its sensor

`LimitTrigger_proofs` proves, for any number of sessions, windows, status lines and
polls, any configurations and any clock:

| theorem | statement |
|---|---|
| `PollsApart` | `Spec => RefreshesApart` |
| `LatchesSaid` | `Spec => []LatchedIsSaid` |
| `ReadingsOnlyRise` | `Spec => []ReadingsRise` |
| `TypesHold` | `Spec => []TypeOK` |
| `SaidOnce` | `Spec /\ [][\A s \in Session : HookLatches(s) => ~Forgets(s)]_vars => SaysOnce` |
| `SaidOnceWithinTTL` | `Spec => SaysOnce`, if `MaxTime <= LatchTTL` |

Each has an invariant of its own, because each is about what a process carries
between a read and a write. `SpawnInv`: the marker is never older than the last poll of any
session, and a hook that passed it began at least the interval after the last polls of
all, those apart that were spawned since. `LatchInv`: not only the keys in `latches.json` are accounted for
but those in every copy a hook under way may write back over it. `SensorInv`: the
files that a status line or a poll is about to write rise as the one on disk does;
`KeptFollows` is the step that takes work, because `dropRegressions` compares with the
newest reset on record only, and a reading behind an older reset has to be excluded by
the maximum (`Extrema`). The TLC runs bound the processes between their reads and
writes to two and let the clock stand meanwhile; the theorems do not. They assume only
that the constants are numbers and that a period is positive; `TypesHold` also that
there is a window and that the thresholds of the configurations are numbers.

`OnceInv` is the invariant of `SaidOnce`: as long as a session has lost no latch,
whatever became of those of others, what it was told is latched, what is about to
be printed is latched and was not told, and what its hook is about to latch is not among
what it has read (`Tracked`). `Forgets` is the one thing that breaks it: a hook drops
from the file a session that was silent for `LATCH_SESSION_TTL_MS` (check.js:107-109).
That takes at least as long as the constant says, which is the second theorem. It
cannot be had without the hypothesis. The time to live is that of the longest window,
seven days, so what is dropped was about a window that is over; but `decide` does not
look whether it is, and a status line that shows the payload of its last response makes
a fresh sample of it: TLC finds a session told again of the old window with `Period`
and `LatchTTL` 1 and a clock of 3.

`LevelsRise` is not proved, and is not true of every instance. With `Jitter` the
readings of one window carry different resets, and one that must be known may be pushed
out of the file; with two windows and a small `MAX_SAMPLES` samples from which
`dropRegressions` took one window push out its last reading, and a stale lower one is
accepted; and the configuration may be edited while the hook of a session that was told
nothing yet is under way. It is model-checked for one window without jitter.

### The night runner

`CarryRunner_proofs` proves, for any number of tasks, projects, slots, runners,
processes and commands:

| theorem | statement | without |
|---|---|---|
| `OneRunnerAtATime` | `Spec => []OneRunner` | a write of `runner.pid` over the pid of a live runner |
| `OneProcessPerTask` | `Spec => []OneChild` | overlap, a death at the spawn |
| `ProcessesAreRecorded` | `Spec => []LiveIsRecorded` | overlap, a death at the spawn |
| `ConversationsResume` | `Spec => ResumesTheSame` | overlap, a death at the spawn |
| `WorktreesStand` | `Spec => []TreeStands` | overlap, a death at the spawn, `cleanup --id` |
| `CheckoutIsKept` | `Spec => []HeadFollowsRun` | overlap, a death at the spawn, a failing spawn |
| `SessionsImplemented` | `Spec => ImplementsSessions` | overlap, a death at the spawn, a failing spawn, `cleanup --id` |

and `CarrySafety_proofs` and `CarryMarker_proofs`

| theorem | statement | without |
|---|---|---|
| `TypesHold` | `Spec => []TypeOK` | nothing |
| `SupervisorGoesOn` | `Spec => []SupervisorSurvives` | overlap, a death at the spawn, removals while spawns fail |
| `CheckoutComesHome` | `Spec => []HomeAgain` | overlap, a death at the spawn |
| `TreesAwaitTheirTasks` | `Spec => []TreeAwaitsResume` | overlap, a death at the spawn, a failing spawn, `cleanup --id` |
| `MarkersMeetTheirRun` | `Spec => MarkerIsForThisRun` | overlap, a death at the spawn |

The assumptions in the last column are `~Overlapping`, `"crashAtSpawn" \notin Faults`,
`"spawn" \notin Faults`, `"cleanupId" \notin Commands` and
`"spawn" \notin Faults \/ Commands \intersect Removing = {}`. `cleanup --id` is the
user's own wish; each of the others is a real weakness of the code, and under
[Findings](#4-findings) is what happens without it. Deaths everywhere else, restarts,
orphans, stops, approvals and cleanups are all in.

`OneRunnerAtATime` is stated for every interleaving, overlapping ones included. The
code does not exclude a second runner between the look at `runner.pid` and the write, so
the theorem is about the behaviours in which no write hits a live runner's pid,
`[][\A r : TakeLock(r) => MayTakeLock(r)]_vars`: in all of them there is one runner. The
race at that line is thus the whole of what is wrong with the lock: neither a dead
runner's pid file nor a restart, a death while it is taken or a runner that leaves leads to two.

No file lock spans the load and the save of `queue.json`, so the properties cannot be
proved of the queue on disk alone. `RunnerInv` says of every copy somebody will save,
a runner's `snap` and a command's queue, that it `Fits` the processes: the record of a
process's task says running and names its pid (`Names`), or the task of a process that
could not be started is over (`Over`). That is what a save needs to be harmless.
Only one copy can exist at a time (`TurnInv`), which is where the absence of overlap
enters; at a death the copy is lost, and the queue on disk must fit without it
(`DiskInv`, `EndStep`), which is where the spawn enters: between `Spawn` and
`SavePid` the new process is in hand (`InHand`) and on no record. `ParentInv` says that
a runner has no children before it has reconciled, so the processes `Reconcile` meets
are orphans that live: it spares their tasks (`ReconcileStep`). From
the places between `Fill` and `Spawn` the task on its way has no process
(`RunnerOK`), because what is `Actionable` neither runs nor has failed (`FillStep`).
`SparesFits` reduces each command to two questions: does it leave running tasks
running, under their locks, and failed ones failed or gone.

`HeadInv` is proved on top of it. A process is alone in its checkout and on the branch
of its task; `canStart` keeps a second task of the project away until the first is
closed (`FillClears`), so the checkout that a dispatch or a close moves is nobody
else's (`DispatchKeeps`, `CloseKeeps`).

`HeardInv` says of the same copies that they have lost no session id (`Remembers`): every
change a runner or a command makes to a queue keeps the `session` of the tasks it keeps
(`DispatchPrepares`, `LoadPidPrepares`, `ClosePrepares`, `ReconciledRemembers`,
`CommandsRemember`). The hard case is a usage event, whose handler rewrites the queue of
a task it takes to be known: `ToldInv` says that a process has reported its id only if
its runner has saved it. `NewProcess` ties a process to the queue it was started from.
`WorktreesStand` needs no more than `RunnerInv`: a cleanup decides on a queue that fits,
so what it finds finished does not run (`CleanupSpares`).

`SessionsImplemented` puts these together. `CarrySessions` has no runners and no
queue, only the processes at work, the tasks whose conversation is known, the branches
that are checked out and the worktrees; `Work` and `heard` are its state in terms of
`CarryRunner`. Steps of a runner but `Spawn` are not to be seen in it, or write down an
id, or move one checkout (`RunnerWork`, `RunnerRecords`); `Spawn` is its `Start`
(`SpawnStarts`, from the invariants after the step). That nobody works in a checkout
that is moved needs no look at the code: who lived on would have to be on both branches
(`MovesFree`).

`TypesHold` says of the queue on disk and of every copy that the order lists the tasks
there are, once each. `removeTask` filters the order; the library's `SelectSeq` has no
axioms the provers can use, so `Remaining` writes it as a recursive function, and the
facts about it that would take an induction are had from a least counterexample
(`Extrema`, `HasMin`). `Sound` is the invariant of a queue, `Typed` of them all;
`CarryQueue_proofs` shows that each operator keeps it.

A handler throws when its task is gone or locked by another one. `CalmInv` says that
neither happens: in every copy a task that does not run is not locked, and that of a
process is there and locked by nobody but the runner that hears it (`Heeds`, `Unlocked`).
Between the error and the close event of a spawn that failed the task is `failed`
and may be removed: then the close handler does throw (runner.mjs:410-411). Hence the
assumption about removals.

`HomeInv` follows a checkout on its way: it is on the branch of a task only while that
task has a process or is about to get one (`AwayInv`); a runner waits for each of these
processes (`TendedInv`); and every copy of the queue sends the checkout back to the user's
branch (`Rooted`). Each of the three makes an exception of `CutOff`: a runner that dies
leaves a checkout where it is, and a later task may take the branch it finds for
the user's and go back to it. The theorem says that no more than that can happen: however
many runners die, a checkout never stays on the branch of a task that no dead runner was
at. `CutGrows` is why the exception is stable: the dead stay dead.

`MarkInv` says of every stop marker that a process of its task was asked to go, or that
the task is `Past` (it has failed, its process never started, and it gets no other
one), or that it is in `CutOff`. That the mark finds a process is `BackedInv`: a task that
any copy of the queue says is running has one, but for the instants between a record and
its process (`Bare`), and but for tasks whose runner died, whose record outlives the
process; a stop then marks the next one.

`AwaitInv`, the invariant of `TreesAwaitTheirTasks`, says of the queue on disk, of every
copy somebody will save and of every process that was heard or is about to be, that the
worktree is there (`Stocked`, `Said`). It needs that a cleanup meets no task that
is finished on record and goes on: a finished task runs nowhere (`RunnerInv`), is not
dispatched (`Actionable`), not interrupted and not approved, and no older copy of its
record is waiting to be saved. That a failing spawn breaks the first of these is the second
half of the disagreement under Findings.

Only model-checked are `CoordinationIsShortLived` and `PendingIsTaken`, which are liveness
properties, `LevelsRise`, and what the runs that expect a violation refute. Liveness under fairness
and ENABLED are beyond the prover; so is induction over data, which a least
counterexample replaces in the one place that needs it; recursive operators there are none.

## 6. What is not modelled, and why

* The temporary file of an atomic write: a reader sees the old content or the new.
* Schema validation, canonical JSON, digests: equality of values.
* Carry: costs and the budget gate, retry counters, the wake-up of the machine,
  report texts; dirty trees, stash, baseline and checkpoint commits, empty
  repositories; failing Git commands (their results are ignored, see the hazards);
  a pid that another program gets; the drain runner that `adopt` starts.
* Event fold: the contents of schema-checked fields, the fields no event may change,
  chains with forged digests.
* Checkpoint runtime and ChoiceGate: shapes and bounds of fields; the fields of the
  authority, which are one comparison; `assertDispatchAuthorized`, the form of the
  dispatch check that sees no event chain. Called without an expected authority it
  compares with another one than the adapters do.
* Sensor: readings without a parseable reset, and the burn rate, which only feeds the
  text of a directive. Trigger: that text; two hooks of one session at once (the
  client waits for a hook).
* Codex Nightwatch, a supervisor of its own that shares nothing with the other parts.
* Wrap orchestration, command line, adapters, the Python verifier, reports and wake are
  conversions or plain I/O.

## 7. Plan

Done: the scheduler with its proofs; the Carry queue and runner, with theirs, and what
they promise of the things their processes work with (`CarrySessions`); the event chain,
its abstract life and its three readers, with theirs; the wrap-up sensor and trigger,
with theirs. Every safety property of a passing run but `LevelsRise` is a theorem.

What a next step would take up, in this order:

1. `LevelsRise` for one window without jitter, the instance it is checked on.
2. Composition of the chain with `LeaseRegistry`: the epochs of a chain are those the
   scheduler granted.
3. A run of `CarryRunner` with the drain runner of `adopt`, failing Git commands, and the
   budget gate.
4. `Nightwatch`: reader threads, monitor, timeouts, supervise cycles.
