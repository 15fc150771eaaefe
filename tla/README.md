# paceq in TLA+

paceq is a single-node scheduler: one daemon (`paceq serve`) over one SQLite
database turns schedules, sensors and manual triggers into *runs*, drives each
run's *steps* as operating-system processes, and survives crashes of itself and
of the machine. Its contract is `docs/guarantees.md` (G1 to G11) and the
invariants that `fsck` looks for (I1 to I14). This directory models that program
from its source, checks it with TLC on small instances and proves the central
safety properties with TLAPS for every instance.

## 1. The system

| Part | State it keeps | Operations | Interacts with |
|---|---|---|---|
| transitions (`store/transitions.go`, `store/reopen.go`) | `runs`, `steps`, `run_events` | StartStep, RecordStepOutcome, FinishRun, ObserveRunCancel, DrainRun, RequeueCrashedRun, ReconcileRunStates, reopen | every writer below; one `BEGIN IMMEDIATE` transaction each |
| leases and reaper (`store/runlease.go`) | `lease_owner`, `lease_epoch`, `lease_expires_at`, `crash_count`, `available_at` | claim, sweep of cancelled queued runs, renew, reap | dispatcher, lease keeper, reaper loop |
| state machines (`model/`) | none | NextRunState, NextStepState, RunAggregate, TerminalVerdict | called inside every transition |
| engine (`engine/`) | the drive in memory, the lease keeper's table | ExecuteRun, renewOnce, HeldLease, Recover | store, runner, spool |
| executor pool (`daemon/executors.go`) | the runs it is driving | submit, execute, hand back | dispatcher, engine |
| runner, shim, spool (`runner/`, `spool/`) | process groups, result files, cancel marks | spawn, kill, write and read a result | engine, start-up reconciliation |
| reconciliation (`reconcile/`) | none of its own | OnStartup, Periodic, process sweep, spool consumer | store, spool, `/proc` |
| admission (`store/admission.go`, `store/concurrency_key.go`) | running counts per job and key | choosing what may be claimed | claim |
| role leases (`leases/`, `store/leases.go`) | `leases` rows | acquire, renew, release, lead | scheduler, reaper, janitor, notifier loops |
| scheduler (`scheduler/`, `store/schedules.go`) | schedule cursors, `ticks`, `outages` | plan a pass, commit a tick, catch-up, gap walk | store, cronx |
| cron (`cronx/`) | none | parse, Between, Next, Prev with two DST policies | scheduler, CLI |
| sensors (`sensor/`, `store/sensor_*.go`) | cursor, epoch, breaker, `run_keys` | evaluate, commit a tick, reset, set the cursor | runner, store |
| outbox and notifier (`store/outbox.go`, `notify/`) | `outbox`, `throttle` rows | enqueue with the transition, claim, deliver, give up | transitions, notifier process, disk guard |
| daemon (`daemon/`, `cli/servecmd.go`) | session row, state lock, loops, the pool's book | start, migrate, reconcile, serve, stop in four phases | everything below it |
| apply (`cli/applycmd.go`, `store/apply.go`) | `jobs`, `schedules`, `sensors` rows | plan a batch of files, write it | state lock, the rows the daemon moves |
| cutover (`cutover/`, `cli/cutover.go`) | the user's crontab, backups, `cutover_events` | comment out, roll back, restore | crontab(1), state lock |
| janitor, disk guard (`janitor/`, `obs/diskguard.go`, `store/retention.go`) | log shards, backup generations, the last cycle | delete in batches, copy, check, rotate | the whole database |
| fsck and repair (`store/fsck*.go`, `store/invariants.go`) | none of its own | sweep, scope, four repairs, the health gate | the run rows |
| spec, importer, explain, status, obs | none | parse, render, count | reads of the above |

What is hard here is that nothing but the database row is shared. An executor
reads, decides and writes in separate transactions and runs a process for hours
in between; a reaper, an operator, a reconciler or a second executor may commit
between any two of them; the daemon may be killed between any two of them, and
its child may outlive it. `PROJECT.json` lists these hazards at their lines.

What makes each part correct:

* **a run**: its state is what its steps add up to (I10), a terminal run has no
  open step (I2), a step never runs ahead of its upstreams (I8) or past its
  budget (I5), only an operator leaves a terminal state, and every run reaches
  one (G5);
* **a lease**: the token never falls and rises with every owner (I11), under a
  live lease nobody else writes (G7), at most one process of a step runs (G6);
* **cancellation**: set, cleared by an operator's reopen alone, no new attempt
  after it but one already chosen (G8);
* **spool**: a result is committed once, to the attempt that produced it;
* **admission**: never more running than `max_concurrent` or than the key admits;
* **scheduler**: one run per trigger identity (G2), ticks independent of uptime (G9);
* **sensors**: no trigger lost between cursor and commit (G4);
* **outbox**: a row per alert in the transition's own transaction, delivered at
  least once or kept as failed (G11);
* **daemon**: a session closed as clean left no process; whatever state a stop, a
  crash or a failed start leaves, the next start gets past it;
* **apply**: a batch lands whole and keeps what the daemon and the operator did;
* **upkeep**: nothing is forgotten before its horizon, and the last good backup
  outlives bad ones;
* **repair**: mends without breaking, and its result is served again;
* **cutover**: can be undone line for line.

## 2. The plan

| Module | Component | Run | Proofs |
|---|---|---|---|
| `RunLifecycle`, with `MCRunGuarantees` | one run, its steps, its lease and everybody who writes them | `RunGuarantees` | `RunLifecycleProofs`: fifteen theorems |
| `Repair` (EXTENDS `RunLifecycle`) | fsck, its repairs and the health gate, composed with the run | `Repair` | one theorem in `RunLifecycleProofs` |
| `AttemptSpool` | one step's process trees and result files across crashes and reboots | `SpoolRestart` | `AttemptSpoolProofs`: six |
| `Admission` | several runs: ceilings, keys, claim order, replay, reopen | `Admission` | `AdmissionProofs`: four |
| `TickLedger`, `Scheduler` | what the ticks table promises, and the scheduler that implements it | `Scheduler` | `SchedulerProofs`: six, the refinement among them |
| `Sensor` | one sensor's evaluations against its operator | `Sensor` | `SensorProofs`: five |
| `Delivery` | outbox, throttle, dispatcher, disk guard episodes | `Delivery` | `DeliveryProofs`: three |
| `Serve` | the daemon's life: start, loops, role lease, stop, and a command beside it | `Serve` | `StateLockProofs`: two |
| `Upkeep` | retention, log shards, backups, the nightly cycle, disk pressure | `Upkeep` | `UpkeepProofs`: five |
| `Apply` | files into jobs, schedules and sensors | `Apply` | `StateLockProofs`: four |
| `Cron` | the parser's field sets and the iterator over a change of offset | `Cron` | `SchedulerProofs`: two; emissions and windows TLC only |
| `Cutover` | the crontab and its way back | `Cutover` | `StateLockProofs`: three |

There is one run for each module that answers a question of its own, and each
checks the invariants, action properties and liveness of its module together.

Every invariant and every action property that a run checks is a theorem for
all values of the constants, but for two of `Cron`: `TimetableIsExact` and
`CutsDoNotShow` speak of instants, whose days are counted by
cardinality, and of the emissions a library fold collects over a walk. They stay
with TLC, as does liveness under fairness, for which the prover has no ENABLED.
`Apply`, `Cutover` and the field jumps of `Cron` loop as their code does, over the
files of a batch, the lines of a crontab and the days of a calendar. Their loops
are recursive functions, and what each of them returns is proved from laws that
`StateLockProofs` and `SchedulerProofs` derive from least counterexamples. Each module's
section names the inductive invariant, why it is needed and on what it rests.
Assumptions on constants are the `ASSUME`s of the modules (sizes are naturals,
some are positive, sets are finite where rows are counted); the bounds on faults,
edits, restarts and tokens are constants like any other, so the theorems hold for
every number of them.

What is left, in order:

1. More of what the modules promise each other: that `Serve` implements the
   session ledger the janitor and `Scheduler`'s gap walk read, and that a claim of
   `Admission` is `RunLifecycle`'s claim.
2. What `Between` emits for one wall clock (`ClassifyEmissions` against the
   instants that show it), which needs the days of the calendar as numbers.
3. SLA episodes beside the disk episodes of `Delivery`, once its state space
   allows for a second kind.
4. Replay with reuse of steps, which needs a run whose steps come from another.

## 3. RunLifecycle

Every store method is one transaction, hence one action. `ExecuteRun` is one
action per read and per transaction, with the drive's place in `pc`.

| Variable | Code |
|---|---|
| `state`, `owner`, `epoch`, `cancel`, `crashes`, `defer`, `code` | `runs.state`, `lease_owner`, `lease_epoch`, `cancel_requested_at`, `crash_count`, `defer_reason`, `reason_code` |
| `lease` | `lease_expires_at` against the clock: `live`, `lapsed` (passed), `dead` (passed by more than the skew allowance), `none` (NULL) |
| `due` | `available_at <= now` |
| `step`, `attempt`, `maxAttempts` | the columns of `steps` |
| `gate` | `next_attempt_at`: NULL, in the future, or passed |
| `pc`, `tok`, `cur`, `out`, `todo`, `why` | the drive: its place in `execute`, its token, the step in hand, the step's outcome, the list `skipPending` read, the reason `finishReason` chose |
| `held`, `lost` | the lease keeper's entry and its lost signal |
| `killed` | the process died with its context, so the launcher left a cancel mark |
| `interrupts` | bound: how many stops, failed hand-backs, manual recoveries and reopens have happened |

| Action | Code |
|---|---|
| `RequestCancel` | `store.RequestCancel` |
| `CloseCancelledQueued`, `ClaimRun` | the two halves of `ClaimRuns`, then `engine.hold` |
| `RenewRunLeases` | `store.RenewRunLeases` and `renewOnce`'s comparison |
| `CheckSignals`, `PickStep`, `Wake` | the loop of `drive.execute` |
| `StartStep`, `ProcessEnds`, `Abandon`, `RecordStepOutcome` | `runStep`: the two transactions, the process, the watcher |
| `ListPending`, `SkipPending`, `FinishReason`, `FinishRun` | the end of the loop |
| `ObserveRunCancel` | `observeCancel` |
| `StopDriving` | every way out of `ExecuteRun` without a verdict: a dead context, a failed store call, a failed log |
| `HandBack`, `HandBackFails` | `handBackWhenOwed` with `DrainRun`; all three tries failing |
| `ReapToCancelled`, `ReapToFailed`, `ReapToQueued` | the arms of `reapOneTx`, with `reapToAggregateTx` inside |
| `ReconcileRunStates`, `CommitSpooledOutcome` | start-up and periodic reconciliation |
| `RecoverStep`, `RequeueCrashedRun` | `Engine.Recover` |
| `ReopenTerminalRunByOperator` | `store.ReopenTerminalRunByOperator`, whole run or one step |
| `Crash`, `LeaseElapses`, `BackoffElapses`, `RetryGateOpens` | SIGKILL or power loss; time |

Abstractions. Time is kept by its consequences (phases of a deadline). Events,
log metadata, artifacts and detail objects carry no control and are left out.
The reaper's spent-run-budget arm is left out because no writer of a `runs` row
gives it more than `attempt` 0 of 1. A machine restart is a state in which no
executor lives: only then may the boot sweep reap a run under a live lease, and
only then does a changed boot id void a lease. Two executors stand for any two
holders the fence is meant for; on one node the state lock makes them a daemon
and its successor, and the model also lets the first one linger, which is the
case fencing exists for. Recovery and the spool commit run in a fresh process
under the state lock and are guarded by the old one being gone.

Mutants sit beside the definitions they stand for (`NeverVetoes` before
`VetoesRetry`), here and in every other module; `PROJECT.json` says which
property each one breaks.

### The run

`RunGuarantees` is one instance with two executors (symmetric), a chain of two
steps of which the first has a budget of two, one crash before poison, one
interrupt (a stop, a failed hand-back, a manual recovery or a reopen) and store
calls that may fail. It adds two history variables to the specification: how
many attempts began since the standing cancellation, and whether a holder's
lease ran out while its keeper was renewing. It shows

* that a verdict, whoever wrote it, is what the steps add up to
  (`VerdictMatchesSteps`, I10), dependencies and budgets hold although `StartStep`
  reads neither (`UpstreamSucceeded`, I8; `AttemptBudget`, I5), and what a holder
  read some transactions ago still stands when it acts on it
  (`WhatTheHolderReadStands`);
* the fence: under a live lease nobody but its holder moves a step or the run
  (`OnlyTheHolderWrites`, G7);
* G8: at most the attempt already chosen starts after a request
  (`AtMostOneLateStart`);
* G6: without a stalled holder at most one process (`OneExecution`). The premise
  is the document's own ("the lease TTL exceeds the longest stall").

Two steps are enough for an upstream and a dependant, a budget of two is the
smallest with a retry, one crash short of `MaxCrashCount` reaches both the
requeue and the poison arm. The interrupts bound is the one that limits depth;
crashes, cancellations and lapses are not bounded by it, and attempts, tokens
and crash counts are finite because budgets and the poison line are. Deadlock is
not checked: a run that has ended rests, and nothing is owed after it.

Liveness of the run (G5) is checked where the daemon that owes it is modelled:
`Repair` composes this module with the daemon's loops and checks that the run
ends (section 5.6), and `Serve` that every run ends over stops, crashes and
failing hand-backs (section 5.5).

### Proofs

`RunLifecycleProofs` proves, for every number of steps, dependency relation,
budget and set of executors, from the assumptions of `RunLifecycle` alone
(steps need others than themselves, budgets are positive, `NoOne` is no
executor):

* `VerdictsAgree` (I10), `DependenciesRespected` (I8), `BudgetRespected` (I5),
  `ReadsStand` and the action property `OnlyHolderWrites` (G7): what
  `RunGuarantees` checks on its instance;
* `CancelStopsStarts` (G8) and `ProcessesAreExclusive` (G6), over the
  specification with its two history variables;
* `RepairsAddNoFinding` (section 5.6);
* `TypeCorrect`, `RunsCloseWhole` (I2), `HolderOwnsTheStep`, `RetriesAreReady`
  and the action properties `TokensRise` (I11) and `TerminalStays`, which rest
  with the proof: no run repeats them.

None of the invariants is inductive alone. A verdict read off the steps is right
only if all steps have ended; the holder may rely on that only if nobody but the
holder writes; that rests on the fence. `Inv` adds three facts that carry the
argument: `OwnerFence` (only a running run has an owner, whose token is the
row's; no token is ahead of the row), `KeeperEntry` (a live drive that holds the
run is in the keeper's table, so a drain finds it) and `MarksAreFresh` (the mark
of a spent run budget is carried only from its record on). The proof has one
lemma per conjunct and, under it, one step per action that can disturb it;
`StepMoves` reduces all writers of step rows to one relation, and `HoldsFrame`
says nobody comes to hold a run except by claiming it.

`GuaranteeInv` adds what the histories need. `LateStartSpent`: once an attempt
has begun under a standing request, no holder is past the choice of a step, so
each meets the request at the top of its loop. `LeaseKept`: while no holder was
stalled, a holder's lease is live and a process runs only under the executor that
holds the run; the row names one owner, so there is one.

`Inv` and the invariants of the other sections were checked by TLC on their
modules' instances before they were proved.
## 4. AttemptSpool

`RunLifecycle` takes a step's process and its result for granted.
`AttemptSpool` opens that box for a run of one step. The state lock admits one
daemon at a time, but its shims outlive it, and so do files. A *launch* is one
call of `SpawnViaShim`: the shim, its job and the result it may leave. Result
files and cancel marks are named by run, step and attempt, and `DrainRun` gives
attempt numbers back, so launches and names are kept apart.

| Variable | Code |
|---|---|
| `run`, `step`, `attempt`, `epoch`, `lease`, `asked` | the rows, as in `RunLifecycle` (`done` is any terminal run) |
| `base` | `steps.pid` with its start ticks: the launch whose job is recorded |
| `made`, `shim`, `job` | per launch: attempt, claim epoch and boot id on the shim's command line; the two processes |
| `file`, `mark`, `stamped` | the spool directory: whose result stands under an attempt's name, the `.cancel` files, `killed_by = cancel` in a result |
| `place`, `pass` | where the daemon is between `StartSession` and serving; the files `ConsumeSpoolResults` has still to look at |
| `drive`, `token`, `mine`, `told`, `heard` | `runStep` and `SpawnViaShim` in the serving daemon |
| `boot`, `bootOnFile`, `changed` | the kernel's boot id, `meta.current_boot_id`, `BootChanged` |

| Action | Code |
|---|---|
| `ClaimRuns`, `Loop`, `DrainRun`, `Reaped`, `ReconcileRunStates` | the transactions of `RunLifecycle` for one step |
| `SpawnViaShim`, `RecordAttemptProcess`, `CancelStep`, `ReadResult` | `SpawnViaShim` with its baseline reader, `cmd.Cancel` and its end |
| `RecordStepOutcome`, `RemoveResult`, `GiveUp` | the rest of `runStep`, with the ways out that record nothing |
| `StartJob`, `JobEnds`, `ShimKills`, `WriteResult`, `ShimDies` | `ShimMain`; a shim lost with or without its job |
| `Crash`, `PowerLoss`, `Stop`, `Exit`, `LeaseElapses` | the daemon's ends, the machine's, and time |
| `StartSession`, `SweepProcesses`, `List`, `ConsumeSpoolResult`, `RemoveCommitted`, `SpoolPassEnds`, `SpoolPassFails`, `StartupReap` | `OnStartup`, in its order, with a crash possible between any two |
| `ReapExpiredRuns`, `PeriodicSweep` | the reaper's loop and `Periodic` |

A crash leaves at least forty seconds of a sixty-second lease and a shim waits
ten for its job (`GraceFits`); `--kill-grace` can undo that, and with
`GraceFits = FALSE` TLC finds two jobs at once. The ten seconds of clock skew
that separate an expired lease from a dead one outlast the start-up sequence.
Retries are due at once, poison and the run's deadline stay with
`RunLifecycle`, and the shutdown's last resort (killing the groups still there)
is left out. A machine restart takes all processes; results were fsynced and
survive, marks may not.

`SpoolRestart` (3.9 million states; two launches, two claims, budget 2, one
reboot, one lost shim, one refused verdict or failed pass, any number of kills
and restarts of the daemon) checks that a start commits from a file only what
the present attempt's own launch said (`SpooledVerdictIsItsOwn`), that the
start-up order never hands a run back over a result on disk
(`StartupKeepsKnownResults`, window W8), that a step counted as succeeded had a
job that succeeded, whichever of the three paths the verdict took
(`SucceededRan`), and that no two jobs of a step run at once while shims live
(`OneJobAtATime`, G6). Two launches are what a stale file, a second job or a
wrong verdict needs; a third would only repeat the second. It checks no
deadlock: the daemon may be down for good and the bounds end it. The module
states no fairness, since it makes no liveness claim: progress of the run is
`RunLifecycle`'s.

### Proofs

`AttemptSpoolProofs` proves, for every budget and any number of launches, claims,
machine restarts, lost shims and store errors: `SuccessIsReal` (G3, no step counts
as succeeded without a job that succeeded), `SpooledVerdictsAreOwn`,
`JobsRunOneAtATime` (G6), `KnownResultsAreKept` (W8) and, as a property of its
own, `SpoolTypesHold` with the fact that a file stands under the attempt its
launch was made for.

A file is honest only because of what stood behind it when it was written, so the
invariant follows a result from the launch (`LaunchesAreReal`, `MineIsLaunched`)
over the job's end (`FilesAreResults`) to whoever reads it (`HeardRan`,
`PassHasFiles`). The start-up order carries the rest: `BootsAgree` says that a
machine restart shows in the boot id before anybody relies on it and that it took
the shims; `ShimsArePlaced` that a shim outlives its drive only over a run nobody
may take yet; `ResultsAreKept` that what the spool pass has passed by is no result
of a run about to be handed back.

`JobsRunOneAtATime` and `KnownResultsAreKept` have `GraceFits` as their hypothesis:
a shim's grace for its job ends before a crashed daemon's lease may be called
dead. The defaults satisfy it (ten seconds against forty). `--kill-grace` is not
bounded by the lease (`cli/servecmd.go:85`), so an operator can leave it; the other
theorems hold either way. Inside the properties, a lost shim (`faults`) and a
refused verdict or failed pass (`errors`) are exempt, as in the run.

## 5. The other modules

### 5.1 Admission

Which trigger becomes a run and which queued run may start. A run is a number in
creation order; what happens after its claim is `RunLifecycle`'s, and here it
only ends or is reaped.

| Variable | Code |
|---|---|
| `state`, `job`, `key`, `defer`, `cancel` | the columns of `runs`; `ended` is failed or cancelled |
| `want`, `wanted` | the key the run's own spec resolves to, and the one a deferral names in its detail |
| `due`, `timed` | `available_at <= now`, and whether `scheduled_for` is set (it leads the claim order) |
| `ceiling` | `jobs.max_concurrent` |

`TriggerManual`, `FireSchedule`, `FireSensor` and `Replay` are the four ways a run
is made, each with its own answer to a held key (refuse, defer or stand down, a
constraint error). `ClaimRuns` is one transaction: close cancelled rows, count,
choose per job under the ceiling, then try the key-deferred rows one guarded
start after another. `ReapToQueued`, `Reopen`, `SetCeiling` and `RequestCancel`
disturb it.

The run `Admission` has one job with a ceiling of two that an apply lowers to
one, three runs of which any may want the one key, claims of up to two rows and
one reap or reopen. Three runs are the smallest number with a holder, a waiter
and one that may start past either; the second job and other batch sizes add no
count the first does not have. It shows that at most one active run carries a
key (`OneHolderPerKey`), that no claim starts a job over its ceiling
(`ClaimStaysUnderCeiling`), and that every queued run leaves the queue
(`EveryQueuedRunLeaves`) under fairness of the dispatcher's ticker, of the end
of runs and of backoffs. No deadlock check: when all runs have ended nothing is
owed.

`AdmissionProofs` proves both safety properties for any number of runs, jobs and
keys, any ceilings, policies and batch sizes: `KeysAreExclusive`,
`ClaimsRespectCeilings` and `AdmissionTypes`. `OneHolderPerKey` is inductive with
the types; what is hard is that `ClaimRuns` is one transaction of many guarded
starts, each of which reads what those before it wrote. The model says so with a
predicate over the set of runs started (`StartedInOrder`), and the proof with two
facts about the claim order: it is total (`BeforeTotal`), so of two starts that
would hold one key the later sees the earlier; and any set of starts has a last
one (`LastInOrder`, by a least counterexample), whose guard counted all the others
under the job's ceiling. There is at least one job (`JobAssumption`): a run has one.

### 5.2 TickLedger and Scheduler

`TickLedger` is what the `ticks` table promises: one entry per fire-time, never
rewritten, except that a "missed" entry may be taken over by the attempt that
replays it, and a run is created with the entry that says so and by nothing
else. `Scheduler` implements it (`Ledger == INSTANCE TickLedger`, with
`LedgerHolds == Ledger!Spec` checked as a property).

| Variable | Code |
|---|---|
| `now` | the clock, in instants; `exact` in `Wake` tells whether a wake falls within the millisecond of the fire-time |
| `row` | `schedules`: id, `last_fire_at`, `next_fire_at`, `paused` |
| `tick`, `folded`, `latest` | `ticks`, with what a `repeat_count` absorbed and the newest row of a schedule |
| `runs` | runs by fire-time |
| `plan` | what `Source.Tick` decided and has not written |
| `stage`, `gap`, `fill`, `pending`, `outages` | `StartSession`, `recordGap`, `backfillOutages`, with the batches of `recordMissedTickChunk` |
| `origin` | the first instant the row promised |

`Wake` plans all due schedules, `WriteTick` and `FailTick` are one transaction
each, `StopPass` is a lost or unprovable lease; `PauseSchedule`, `ResumeByDaemon`,
`ResumeByCli`, `RemoveSchedule` and `AddSchedule` are the operator; `Crash`,
`Start`, `RecordGap`, `Backfill`, `MissedChunk` and `Ready` are a restart.

The run `Scheduler` has two instances of the loop over one database (two state
directories, as `docs/reference/reason-codes.md` describes), one schedule that
fires at three instants, one failed transaction or dropped pass, one crash and
two edits. Catch-up is `skip`; `last`, `all`, instants the DST policy skips,
unreadable schedules and shadow mode are in the module and were tried one at a
time with one instance of the loop: the properties hold as well, but for the
liveness of `all` with a dose smaller than the backlog, whose remainder waits for
an occurrence behind the last instant. It shows that the cursor passes nothing in silence
(`NothingPassedInSilence`), that a pause between plan and write wins
(`NoRunWhilePaused`), the refinement (`LedgerHolds`, G2), and that every
fire-time an active row owes gets an entry (`EveryFireTimeIsAccounted`) under
fairness of the clock, of the wakes, of the writes and of a restart.

`SchedulerProofs` proves, for any number of loops and schedules, every timetable,
DST skips, all three catch-up policies with any dose, window and chunk, and any
number of failures, crashes and edits: `NoFireTimeIsLostInSilence`,
`CursorOnlyMovesForward`, `PauseWins`, `SchedulerTypes`, and `LedgerIsKept`, the
refinement of `TickLedger` (initial state to initial state, every step to a step
of the ledger or to a stutter). That no cursor passes a fire-time in silence is a
claim on plans not written yet, made by loops that do not see each other. The
invariant says that what a decision in hand would carry the cursor over is behind
the cursor, accounted for, or ahead of it in the same plan (`PlanCovers`); that a
row removed and added again has an id no plan has (`IdsAreFresh`); that no
decision is for an instant to come (`PlanIsOld`); and that a row that never ticked
is due from its first promise (`PromiseIsDue`).

This invariant does not hold for catch-up `all` without an exemption, and the
attempt to prove it showed why: a DST skip written in the same pass as the dose may
lie behind fire-times the dose left over. Its tick moves the cursor past them, and
the next wake, which `scheduler/policy.go:40-42` counts on, does not find them. TLC
finds it without the exemption with one loop and no fault: fire-times at 1 and 2, a
lost hour at 3, a dose of one, a first wake after all three (a machine that slept).
The gap walk does not help, since no daemon was down. `NothingPassedInSilence` exempts
exactly these fire-times (`Overtaken`); with the other policies nothing is exempt.

### 5.3 Sensor

| Variable | Code |
|---|---|
| `row` | `sensors`: cursor, epoch, failures, breaker (stamp and cooldown as `shut`, `cooling`, `cooled`), paused, due |
| `keys`, `runs`, `offered`, `jumped` | `run_keys`, the runs they made, what a committed batch carried, what an operator stepped over |
| `spec`, `ev` | the row as the due query read it, and the evaluation between its two transactions; `match` is the comparison of `cursor_version` |
| `hung` | `ticks` left running by a dead daemon |
| `tainted` | an evaluation was begun from a row that had moved on: the time between the due query and `BeginSensorTick` is not fenced |

`Due`, `Dispatch`, `Begin`, `Evaluate` and `Commit` are an evaluation;
`ResetSensor`, `SetSensorCursor`, `PauseSensor`, `ResumeSensor`,
`RunSensorsTick`, `RemoveSensor` and `AddSensor` the operator, through the daemon
or beside it.

The run `Sensor` has two events, a limit of one trigger, one evaluation that errs
or answers over the limit, one crash, a breaker that trips at once and two
operator moves to cursor 0 or 1: a batch of both events is over the limit, and
two moves are what undoing one takes. It
shows that no event falls behind the cursor unless a batch carried it or an
operator jumped it (`NothingBehindTheCursor`, G4), one run per key and epoch
(`OneRunPerKey`), and that every event is offered in the end
(`EveryEventIsOffered`), where the loop wakes, an evaluation is killed at its
timeout, cooldowns pass and a daemon comes back. The first and the last exempt
tainted histories (section 6).

`SensorProofs` proves, for every feed, limit and threshold and any number of
operator moves, errors and crashes: `CursorFollowsTheWork`, `RunKeysDeduplicate`,
`SensorTypes`, and `BreakerAgrees` (the failures counted, the breaker's stamp and
what closes it tell one story), which no run lists. An evaluation lives between
two transactions, so the invariant says what its answer is worth when it commits:
a batch with triggers covers exactly what lies between the cursor the sensor was
given and the one it returns (`AnswerIsTheGap`), and while the version matches, that
first cursor is the row's (`OpenTickIsCurrent`). A key is registered exactly while
it accounts for one run (`KeysCountRuns`): a reset that forgets keys starts their
counts again, and a sensor dropped and added again finds its old keys.

### 5.4 Delivery

Variables: `row`, `due`, `attempts` (`outbox`), `window` (`throttle`), `guard` (the
disk guard's memory), `batch` and `sending` (the dispatcher between its claim and
its write). `sent` holds every alert that ever went out, whatever became of its row,
and `repeats` counts the sends of what was in it. `faults`, `retries`, `killed` and
`expired` count the troubles of a history: stops and lost writes, what operators
reopen or retry, notifiers that delivered and still ended with an error, delivered
rows that retention removed. `FinishRun` commits the verdict with its alerts; `GuardStep` is a cycle
of the disk guard; `ClaimOutbox`, `Send`, `DeliverOne` and `WriteLost` are the
dispatcher; `Restart` loses everything in memory; `RunNotificationsRetry` and
`Prune` are the operator and retention.

`Send` has three outcomes. `told` is whether the alert went out and `ok` what
`deliverOne` is answered: a notifier that is killed at its deadline, or exits
nonzero, after it delivered has told the world and is recorded as failed.

The run `Delivery` has one run that may fail, be reopened and fail again, two
disk episodes, one target, two claims before giving up and one trouble of any
kind. Two episodes in one throttle window are
what swallowing takes. It shows that every alert settles (`EveryAlertSettles`, G11)
and that an episode that
begins inside a window is told if it lasts (`DiskEpisodeIsTold`) under fairness of
the dispatcher, the guard and of time. Deadlock is checked.

It also checks `RepeatsAreAccounted`: repeats are at most the stops, lost writes,
killed notifiers and removed rows together. Retention is among them because the
outbox row is the only memory of a dedup key: an event that is reported again after
its row went (an episode that still lasts, a reopened run that fails again) is
recorded and sent again. It takes no fault: the alert is delivered, retention removes
its row, the window closes, and the next cycle of the guard records the episode anew.
One trouble reaches each of the four causes with its repeat; the theorem below has
any number of them in any order.

`DeliveryProofs` proves `RepeatsStayBounded` and `DeliveryTypes` for any number of
runs, notifiers and episodes and every batch and attempt limit. A bound on repeats
is inductive only together with what may still be repeated: `RepeatsAreCovered`
says that the repeats so far and the sends that no row records and nobody is about
to record (`Losses`) are together no more than the causes behind them. A send stays
one that happened when its row is removed, so each step that takes the record of a
send away is shown to make one loss at most (`OneMoreLost`), and each send of what
was sent to use one up. The rest of the invariant finds those sends: one notifier works at a time, on a claimed row
(`OneAtATime`), and a claimed row stays pending (`ClaimedIsPending`). The notifiers
are a finite set (`DeliveryAssumption`), so sends can be counted.

### 5.5 Serve

One daemon after another on a state directory. `phase` is where `serve` is, from
`OpenState` over the migrations (`schema`, `migrator`) and `StartSession` to the
four phases of a stop; `loops`, `body` and `role` the goroutines and the reaper's
role lease, `hand`, `exec` and `told` the pool, `row`, `lease`, `started` and
`procs` the runs and their process groups, `owed`, `late` and `survived` the
census, `cmd` and `applied` the operator's `runs retry` through the socket or
around it. `Die` and `HardStop` end the process at any point.

The run `Serve` has two daemons, a pool of one, two runs, one pending migration.
One slot and two runs make the pool full; the last of the two daemons is neither
stopped nor killed and its reaper's sweeps do not fail, which bounds the sessions
and keeps the last item of section 6's list on the daemon out of the liveness
claim. It shows that a session closed as
clean left no process (`CleanMeansQuiet`) and that every run ends
(`EveryRunEnds`). Fairness: a supervisor restarts the daemon, and a start does not
fail for ever (strong fairness of its steps); loops, the stop's own steps and
ttls are scheduled (weak fairness); executors make progress only while the daemon
serves, so no stop rests on one. No deadlock check: the end is rest.

`StateLockProofs` proves `CleanSessionsAreQuiet` for any number of runs, workers,
daemons and migrations, whatever fails. The clean close is written several
transactions after the executors were told to stop, so the invariant says for each
phase where this daemon's processes are: driven until then (`ProcessesAreDriven`),
then owed by the census or handed over late, and after the kill among its survivors
or late (`StopKnowsTheRest`). The session of a living daemon is open
(`SessionIsOpen`), and the pool is told exactly from the end of the census on
(`PoolFollowsPhase`). Only model-checked: `EveryRunEnds`, which is liveness.

### 5.6 Repair

EXTENDS `RunLifecycle`, so every action of a run happens here too, while the
daemon holds the state lock. `lock` is the lock, `critical` a break of I3, I6 or
I9, `legacy` the steps of a release that had no reasons, `stray` steps a repair
left under an old token, `queue`, `scope` and `swept` the repair at work. The
`Plant...` actions are `store/inject.go`'s catalogue; `Sweep`, then one
transaction per repair; `Serve` is the health gate.

The run `Repair` damages one row of a two-step run at any moment the daemon is
down, with `--only` empty or one check. It shows that no repair, whole or cut
short, makes a finding (`RepairAddsNoFinding`) and that the run ends
(`RepairedRunEnds`, G5) under the fairness of the daemon's tickers, strong
because a stop may interrupt each of them, and of an operator who starts the
daemon again. Stops, reopens, manual recoveries and failing hand-backs are taken
out here (`MaxInterrupts = 0`; crashes and cancellations are not): with them the
product is past what can be checked, and `Serve` has them at a coarser grain. No
deadlock check: a critical finding keeps the daemon down for good.

`RepairsAddNoFinding` (in `RunLifecycleProofs`) proves the first for every graph of
steps, every damage and every scope. It needs no invariant: the rows may be broken
in any way, and each transaction of a repair is shown to leave a finding absent that
was absent. The one that could trade a finding for another closes the open steps of
a terminal run and so changes what the steps add up to: as long as one was open, the
run disagreed with them already.

### 5.7 Upkeep

Time is the day. `rows`, `seen`, `shards`, `path` and `dir` are what the janitor
deletes; `cyc`, `who`, `base` and `doomed` where a pass is and who runs it.
`Drain`, `DrainKeys`, `PruneLogShards`, `ClearPaths`, `VacuumInto`, `VerifyCopy`,
`RecordBackup`, `RotateGenerations` and `RecordGCCycle` are the pass, `Prune` the
operator's, `PruneOldestShards` the guard's; `RetentionFails` and `Crash` its
faults.

The run `Upkeep` has three days, one fault, and horizons of zero or one day, so
that each class of rows ages out within the history. It shows that a dedup key
outlives the run it made (`NeverTwiceWithinHorizon`), that a `log_path` names a
file (`LogPathNamesAFile`), that a verified backup is not rotated away for a bad
one (`VerifiedBackupStays`) and that a night still owed is worked
(`LastNightIsWorked`) when the maintenance loop is scheduled and days pass.
A removal may fail half-way (`RemovalFails`): the shard stays, some of its files may
be gone, the paths stay, and the pass leaves the remaining shards for the next night.
`excused` marks the three cases section 6 names. No deadlock check: the last day
ends the history.

`UpkeepProofs` proves `KeysOutliveTheirHorizon`, `LogPathsAreHonest`,
`VerifiedBackupIsKept` and `UpkeepTypes` for every retention policy (days are
naturals, the counts kept at least are positive), every number of days and of
faults. A key may go long after the run it made, so `KeysAreCovered` keeps the
account over all days on which the key made one: it is remembered, or older than
the horizon. An open run has its shard, or lost it to a case that is excused
(`OpenRunsHaveShards`); the copy in hand is the newest generation and good from its
check on (`NewestCopy`), so a rotation that keeps at least one keeps it.

### 5.8 Cutover

A crontab line is a number of `#` before a text. A command reads the crontab
without the lock (`ReadCutoverSource`), takes the lock, decides, backs up, writes
and records, each a step of its own; the user and another operator act in
between. `trail` holds the jobs whose latest row in `cutover_events` says cutover. A
cutover and a rollback write a row for each line; a whole-file restore (`--rollback
--from`) writes one row that names the backup and no job (`cli/cutover.go:750-760`),
so it leaves `trail` alone, and `turned` remembers whose lines it commented out or
back. The run `Cutover` has two operators (symmetric), three jobs of which two
were imported from the same line, a crontab in which a comment looks like a
cutover's, three commands and one edit: the third command is the rollback of two
that overlapped. `RollbackRestores` holds after all of them, and so does
`TrailTellsTheTruth`: the latest rows are wrong about exactly the jobs that
restores turned an odd number of times since a row last named them, and so about
none where nothing was restored. The head of `cli/cutover.go` promises more, "an
audit row for every line touched"; a cutover and a restore of its backup give the
line back under a latest row that says cutover. There is no liveness to claim and no deadlock check: the commands end.

`StateLockProofs` proves both, `RollbackGivesBack` and `TheTrailIsTrue`, for
crontabs of any length over any texts, any list of imported jobs (several from one
line among them), any number of operators, commands and edits.
`Comment` and `Uncomment` walk the lines with a function each, and no invariant can
be stated about their results until it is known what a walk returns on a longer
crontab. The module starts with the laws of walks: a walk is determined by its
first value and its steps (`StepsAgree`), there is one (`StepsExist`), and what
holds of the empty sequence and survives an `Append` holds of all (`AllSequences`).
From these follow the laws of the two commands: commenting out changes nothing that
a rollback gives back and adds just the markers of the jobs it hit, uncommenting some
jobs leaves the rest to be uncommented, and a line of the user's passes through
either. They need that every marker stands over the line it marks (`Paired`), which
a crontab may lose to an edit between the two; the model's user adds lines at the end.

The invariant `CutoverInv` then says of a command in hand what it will have done
(`CommandsAreSound`): what it read and what it is about to write are paired, give the
same crontab back, and differ in their markers by exactly the jobs it will record;
and only the holder of the lock is past its read. `RowsAreOnTheWay` covers the step
between the write and the rows, the one in which `TrailTellsTheTruth` would be false
without its exemption for commands that have written: it carries the symmetric
difference of rows and markers over the write, whichever way a restore turns a line.

### 5.9 Cron

The pure algorithm. `Between`, `CronNext` and `CronPrev` are the field jumps of
`iter.go`, over a calendar of three years of two months of one or two days of three
hours of two half hours, with every field restricted and not, both DST policies
and four changes of offset: an hour forward and back over the end of a month, half
an hour up to and back from a midnight. `JumpsAreExact` compares the jumps with the
set of matching wall clocks, forwards and back. `Meant` is the reference for what is
emitted: a search over every instant. `TimetableIsExact` compares the two, in the
window (`BetweenIsTheTimetable`) and around every instant of it (`Neighbours`), and
`CutsDoNotShow` lets a caller walk the window in pieces (G9), as long as no piece ends
beside a change of offset. The premise is needed: after a cut in the first pass of a
fold the slots of the second pass that lie before it on the wall are in neither
piece. The
bounds make every carry happen (hour to day, day to month, month to year, in either
direction), and month and day next to a change. `Reach` is the number of years a jump
looks ahead (six in `iter.go`; one here), and the second month has its second day
only in every other year, so some jumps give up where a later year has a match, as
the real ones do at 29 February around a century that is no leap year. The four-year
horizon of Next and Prev is left out: it lies beyond the instance. No deadlock check:
the walk ends.

`SchedulerProofs` proves `JumpsAreExactAlways` for every calendar, every reach and every
expression: the iterator's next is the least matching wall clock after the one it is
given, its last the greatest before, and each gives up only when its reach holds
none. The loop of `nextAfter` is shown to skip nothing that is awaited (`OnTheWay`): a
carry goes to the first hour behind the month, day or hour it leaves
(`NextMonthIs`, `NextDayIs`, `NextHourIs`), and what is left had nothing awaited in
it. Every turn that does not arrive reaches a later day, the days are ranked
(`RankGrows`), and there are more turns than ranks (`HopsSuffice`), so the loop has
arrived when it stops (`LoopArrives`). Backwards the same argument runs from the last
minutes of hours. It rests on fields that hold numbers of their ranges and on a
minute at least: `CanonicalReadsBack` proves that the stored form of a field reads
back as the set it was made from, Sunday's second name and the collapsed `*`
included, and `FieldsFitAlways` that what is compiled fits.

### 5.10 Apply

`current`, `schedules` and `sensors` are rows; `drift` is whatever the daemon or
the operator did to one since it was fresh. `LoadFiles`, `OpenState`, `PlanJobs`
and `ApplyJobs` are the command, beside `Tick`, `Evaluate` and pauses. The run
`Apply` has two jobs that contest a sensor name and change a schedule, two
commands (jobs and commands symmetric), batches of up to two files: the smallest
where order and split can matter. `CatalogIsTheBatch`, `DriftSurvives` and
`OneApplyOrTwo` hold. No deadlock check: a daemon may hold the lock for good.

`StateLockProofs` proves all three for any jobs, schedules, sensors and documents, any
number of commands and of files in a batch: `ApplyIsComplete`, `ApplyKeepsDrift` and
`SplitsAgree`. A command plans from rows it reads before the transaction that writes
them; the invariant says why that is safe: whoever has a plan has the state lock, and the
plan is what its files ask of the rows as they stand (`PlansAreFresh`), which the
daemon's own writes would undo but for the lock. The files of one batch share no
sensor name once the check in `LoadFiles` let them pass (`NamesAreApart`), and a
sensor row has an owner exactly when it has a definition (`RowsAreOwned`). What the
transaction does file by file is proved to be one function of the batch
(`ApplyAgain` and the lemmas before it): for every row it is the file of the row's
job that speaks, so neither the order of the files nor their split matters.
The premise `OneFileAJob` is the one section 6 names.

## 6. What the code does that its documents do not say

Met while modelling. The models follow the code; where a property would fail on
one of these, its statement names the exemption. None of them is the subject of a
run.

Runs and results:

* A reopen clears the cancellation (`store/reopen.go`), which G8 calls monotone.
* A run drained after its last step ended is closed by the reconciler with
  `defer_reason` standing (`store/transitions.go:664`).
* A stop followed by a crash becomes a cancelled run nobody asked for: the launcher
  marks a cancellation for any dead context (`runner/shim.go:566`).
* A hand-back that fails three times leaves a claim the keeper goes on renewing
  (`daemon/executors.go:172`). `Serve` has it: only the next daemon frees it.
* `SpawnViaShim` does not read the result's claim epoch (`runner/shim.go:650`);
  after a hand-back an earlier launch's file may answer for the next.
* `Periodic` is given no spool directory (`daemon/serve.go:353`): a result that
  comes in under a live lease after a crash is lost and its step runs again.
* The start-up sweep spares a surviving child while its run says running
  (`reconcile/procsweep.go:119`); it is killed after the hand-back.
* `runs retry --step` on a poisoned run whose steps are all skipped ends succeeded.

Scheduler and cron:

* Catch-up `all` loses the fire-times a dose leaves over before a DST skip of the
  same pass (`scheduler/loop.go:364`, against `scheduler/policy.go:40-42`).
* The daemon's resume passes the zero time, so a schedule that never ticked loses
  the instant it was due (`daemon/handlers.go`); the CLI's does not. `origin` is 0
  from then on.
* A crash between two chunks of missed ticks leaves the rest to the next start,
  which may write them for a schedule paused in the meantime.
* `CutsDoNotShow` needs its exemption: with `fall_back: both` a cursor inside the
  fold loses slots of the second pass, with `first` the rows that say so
  (`cronx/iter.go:290` calls the walk split safe). A fold that is not of thirty
  or sixty minutes is not seen by it.

Sensors and notifications:

* The row is read by the due query and again in no transaction before the program
  runs: a cursor moved in between is handed to the program as it was
  (`tainted`). A direct `sensors tick` reads it before the lock as well.
* A batch over the limit is cut and moves no cursor, so a sensor that ignores the
  limit every time gets its head repeated for ever and its tail never
  (`sensor/truncate.go`: "handled over the following ticks without loss"). The
  model lets a sensor answer over the limit a bounded number of times.
* Reaper, recovery and the spool close a run as failed without a notification,
  while G11 allows no committed failure without its row.
* A notifier that delivered and is killed at its deadline, or exits nonzero, is run
  again (`killed`).
* A disk episode that outlasts the retention of its delivered alert is told again
  (`janitor/janitor.go:293`, `obs/diskguard.go:358`, against
  `store/outbox.go:669-673`, "a persistent episode is one notification"). So is a reopened run that
  fails again, whose event is the same.

Daemon:

* `<-loopsDone` has no bound of its own, so a loop that does not return holds the
  process. The renewals stop with the intake, before the drain is over.
* A run the dispatcher hands over between the census and the cancel is looked for
  by nobody (`late`).
* A crash between `StartSession` and the outage's row loses that outage.
* A retry whose answer is lost after its commit is applied a second time where
  the run has ended again in between.
* A role's body that fails leaves a leader that leads nothing until its daemon
  ends.

Repair, upkeep, apply, cutover:

* `--only` takes the scope before the refusal (`store/fsckrepair.go`): critical
  findings outside it ask for no `--confirm`.
* `prune` stamps the nightly cycle, so a backup owed that night is not made.
* A step still running when its shard goes, a clearing that was lost, and a removal
  that fails half-way (`janitor/janitor.go:369-371`) leave a `log_path` without a
  file (`excused`). Left-over copies of a crash count as
  generations.
* Two files that name one job in one apply are not refused; the plans of both are
  made from the same rows (`OneFileAJob` is the premise of `Apply`'s properties).
* Two identical crontab lines of one job: a second cutover comments out the
  second. A crontab read before the lock may be written over a concurrent edit
  (`strayed`).
* A whole-file restore writes one row without a job (`cli/cutover.go:750-760`,
  against the head of the file, lines 25-26: "an audit row for every line touched").
* A dry run of a cutover that would change something writes a backup file
  (`cli/cutover.go:508-523`).

## 7. Not modelled

`PROJECT.json` names every part with its reason. In short: parts without state of
their own (the specification language, CLI presentation, explain, status,
reasons, metrics, the importer, identifiers and clocks); the direct runner, the
wake-up bus and systemd's watchdog, which add no behaviour to what is modelled;
interval schedules, a division; `ClaimNextStep` and the worker pool, which only
their tests call; SLA episodes, for their state space; reuse of steps by a
replay; and I/O below the model (SQLite's durability and isolation, the content
of log files, the mechanics of `VACUUM INTO`). The arithmetic of the retry delay
is a gate that opens later.
