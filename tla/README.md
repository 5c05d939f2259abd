# ProxyPilot: a verification of its coordination protocols

ProxyPilot administers a host of application guests: a reverse proxy, an
administration backend with its UI, and a command-line tool. Most of the
repository is request handling, rendering and prompts. Two parts coordinate
concurrent work over durable state and must stay right across crashes:

* the **setup engine** (`admin/backend/src/lib/setup-engine/`, driven by the host
  runner in `cli/src/setup-runner/` or by the backend itself): operations on a
  guest as saved jobs;
* the **build queue and checkout lock of mock2** (`admin/backend/src/mock2/`):
  who may write to a project's container, and which build runs next.

This project models both in TLA+, checks them with TLC on small instances and
proves their safety properties with TLAPS.

| file | content |
|---|---|
| `SetupEngine.tla` | jobs, lease, executor, reconciler, guest, operator, for host runners, command by command; the properties |
| `JobLedger.tla` | the abstract specification of the job table, which `SetupEngine` implements |
| `Executors.tla` | who executes a job: the backend's drains and boot sweep beside a host runner |
| `CheckoutLock.tla` | the checkout lock of a project and the remote writes that reserve it |
| `BuildQueue.tla` | the build queue, the builds it starts and the stall watchdog, composed with `CheckoutLock` |
| `MCSetupEngine.tla`, `*.cfg` | the instances TLC checks |
| `SetupEngineProofs.tla`, `GuestProofs.tla`, `ExecutorsProofs.tla`, `BuildQueueProofs.tla` | theorems for every value of the constants |
| `PROJECT.json` | components, runs, faulty variants (mutants), the map from definitions to source lines, findings, hazards, theorems |

Paths below are relative to the repository; the setup engine's files and mock2's
files are given by name.

## 1. Inventory

### The setup engine

An operation on a guest (deploy an application, recover it, restart the
instance...) is a *saved job*: a row of `setup_jobs` created by the backend and
executed by the host runner, a service outside the backend, so that a restart of
the backend does not interrupt it. Two processes meet only in the database.

| component | state it keeps | operations | talks to |
|---|---|---|---|
| store (`store.js`) | `setup_jobs` (status, owner, epoch, lease, checkpoint, progress, plan), `setup_locks` (owner, epoch, lease, stale_since, recovery_job_id), runner heartbeats, events | createJob, claimNextJob, heartbeat, checkpoint, finishJob, requeueJob, recordJobOutcome, requestCancel, fenceJob; acquireLock, renewLock, releaseLock, takeoverLock, markLockStale, holdStaleLock | SQLite |
| decisions (`logic.js`) | none | lockVerdict, leaseHold, reconcileDecision, verificationState, plan validation | the executor |
| executor and reconciler (`executor.js`) | a job in hand: claim epoch, lease epoch, result so far | executeJob, guest (fence, checkpoint, run), fin, queueFollowUp, reconcile | store, guest |
| deploy (`deploy-op.js`) | local: whether the disruptive step began | build, stop, migrate, swap, health, restart after a failure | executor's guest() |
| lifecycle verbs (`lifecycle-op.js`) | none | validate, issue, read back | host `incus` |
| runner service (`runner.js`, `setup-runner.js`) | its identity (one per incarnation), its heartbeat | serve: reconcile, claim, execute; once | store, host commands |
| requests (`orchestrator.js`, `backend.js`, `routes/setup.js`) | none | submit, retry, cancel, acknowledge, request recovery | store |
| in-process executor (`backend.js`, `mock2/deploy.js`) | the backend's owner identity | drains, boot sweep | store |
| other operations (restores, guest setup, configuration verbs, application releases, storage cleanup, platform services) | checkpoints of their own | their job kinds | executor's guest() |

A claim gives a job an owner, a higher *epoch* and a lease that is renewed at
every fence. The application's *lease row* keeps two jobs off one guest. Every
fenced write names owner and epoch, so a worker that lost its job changes
nothing. When a lease expires, a reconciler reads the dead job's merged
checkpoint and decides: run it again, record it, queue a recovery, queue a
verification, or hold the guest because nobody can know what happened.

### The builds of mock2

A project is a container with a working tree. People (chat, concept, design),
remote writes of the API and build cycles all write to it, one at a time: the
project's row of `mock2_locks` says who. The backend is one process of
asynchronous tasks; what is kept in memory is lost when it restarts.

| component | state it keeps | operations | talks to |
|---|---|---|---|
| checkout lock (`locks.js`, `lock-logic.js`) | `mock2_locks`: one user or cycle, an operation with its state, the time of the last write | acquireLock, touchLock, releaseLock, acquireCheckoutOperationLease, markUncertain, settle, sweepMock2Locks | SQLite |
| reserved writes (`checkout-operation.js`, `task-files.js`) | whether anything was dispatched, whether its outcome is known | withCheckoutOperationLease, trackCheckoutTransport, writeTaskFilesInContainer | lock, container |
| build queue (`build-queue.js`, `cycle-logic.js`) | `mock2_build_queue`; a re-entrancy guard in memory | enqueueBuild, cancelQueuedBuild, settleStartedBuilds, requeueOrphanedStartedBuilds, drainBuildQueue | startBuild |
| build start (`audit.js`, `runner.js` startCycle) | requests, cycles | startBuild, proceedToBuild, startCycle | lock, cycles |
| cycle runner (`runner.js`) | the task of a cycle, in memory | runCycle, scheduleJobCleanup | lock, container, model |
| stall watchdog (`stall-watchdog.js`) | none | sweepStalledBuilds | cycles, lock, queue |
| boot sweep (`db.js`) | none | sweepMock2OnBoot | cycles, lock |

### What is hard here

* A process may die between any two statements, the reconciler included; the
  checkpoint is written *before* the step it describes, and merges into the old
  one, so a flag a later phase does not name stays.
* A command in a guest or a project container outlives the process that started
  it, and after a timeout nobody knows whether it runs.
* The lease row and the job row expire and are rewritten separately; a lease is
  released, kept, flagged, taken over or reasserted, each with its own condition.
* A restart of an instance must never be issued twice, and its result may be
  unknown for ever.
* A cancel may arrive at any moment; only before the disruptive step may it be
  honoured.
* A job may owe another (a credential check after a deploy) and must not report
  done before that one is on record.
* Two kinds of executor meet in one queue: one reconciles every minute, the other
  once, when it boots; one has a worker, the other several under one identity.
* A build's start crosses five awaits (gates, install, base-app upgrade, mirror,
  first turn), the checkout changes hands between them and is free during one,
  while polls, sweeps and close hooks drain the queue at any of them.
* The queue is advanced by whoever notices: a row nobody settles blocks all that
  follow.

The list of hazards, each at its line with the properties that would catch it,
is in `PROJECT.json`.

### Components left out

Proxy routes and certificates, authentication, MCP tools, notifications,
backups, self-update, the frontend and the host administration commands are I/O,
rendering and sequential commands; they share no protocol with another process
beyond the two modelled here. They are listed in `PROJECT.json` as not modelled,
with the parts that are planned (section 7). They are also most of the
repository: the modelled files are a small share of its lines.

## 2. The model

### `SetupEngine`

`SetupEngine.tla` describes one application guest, its lease row, all jobs about
it, any number of runner incarnations and the operator.

| variable | code |
|---|---|
| `jobs` | rows of `setup_jobs`; `cp` is `checkpoint_json` reduced to the keys `reconcileDecision` reads |
| `lock` | the application's row of `setup_locks`; `NoLock` when there is none |
| `proc`, `wk` | a runner process, and what its `executeJob` or `reconcile` has in local variables |
| `app`, `downBy` | whether the application's unit runs; which job's command last took it down (history) |
| `pend` | commands started and not ended, also those whose runner is gone |
| `issued` | how often a job issued its lifecycle verb (history) |

The job kinds modelled are `deploy`, `recover_app`, `verify_app` and
`instance_restart`: a disruptive operation, the two kinds a reconciler or an
executor queues itself, and a verb that is never replayed and needs the guest to
itself.

How actions correspond to code (exact lines are in the map):

| actions | code |
|---|---|
| `ClaimNextJob`, `Busy`, `AcquireLock`, `TakeoverLock` | claimNextJob; the head of executeJob: hold, verdict, busy(), acquire or take over |
| `Issue`, `Fenced`, `HonourCancel` | guest(): fence (heartbeat, cancel, renewLock), checkpoint, start the command; FencedError; CancelledError |
| `ReapCounted`, `ReapBlind`, `ReapAgain`, `PreviousWriterAlive` | the containment reap and its second try |
| `BuildDone` ... `HealthFailed`, `RestartUnitDone`, `ContainmentUnavailable` | the phases of runDeployOperation and their error paths |
| `StatusDone`, `StartDone`, `ProbeDone` | recover_app and verify_app |
| `QueryDone` ... `ReadBack` | runLifecycleOperation for a restart |
| `QueueFollowUp`, `Finish`, `MarkStale`, `ReleaseLock` | the tail of executeJob: follow-up, fin, finally |
| `Reconcile`, `ReconcileFollow`, `ReconcileRecord`, `ReconcileLock` | reconcile, one action per database write |
| `SubmitDeploy`, `RequestRecovery`, `SubmitRestart`, `Retry`, `RequestCancel`, `AcknowledgeUncertainJob` | the routes and what they call |
| `Start`, `Crash`, `ExpireJob`, `ExpireLock`, `OrphanRuns` | processes, time, and commands left behind in the guest |

Abstractions, and why they lose nothing the properties are about:

* *Time* is a flag per lease. A lease expires while its holder is dead, idle or
  waiting for a command: those are the moments the code does not renew it. A
  runner between two statements is assumed fast against the lease.
* *A synchronous stretch between two awaits* of one process is one action when
  no other process can see the middle of it (the hold check and the acquisition
  of the lease; the last probe and the result). Where a crash in the middle
  matters, each write is its own action (the follow-up, the finish and the
  release; the three writes of the reconciler).
* *One reconcile step takes one expired job*; the code's loop over all of them
  is several such steps.
* A command is identified by its job and phase, so the same command issued again
  after a resume is the same member of `pend`.
* The mint of a credential is part of the `migrate` phase (same flags, same
  failure path). `unit_written` and `app_started` are written in one step when
  the swap succeeds. `starting` is written as the build is issued. The ladder of
  probes is one `probe` command with an undetermined answer.
* The effect of a failed or timed-out command is undetermined: none, all of it,
  or it still runs.

Definitions whose comment begins with "Faulty variant" (in every module) are not
used by the model: each is a plausible wrong version of the definition below it, kept so
that one can see a property fail when the code loses the guard, order or write
that the property rests on (`PROJECT.json`, mutants).

Bounds: `MaxJobs` (rows), `MaxRequests` (rows an operator asks for; the rest are
follow-ups and recoveries), `MaxEpoch` (claims of one job) and the number of
`Runners` (incarnations; the last one does not die). `Requests` selects what the
operator may do. `Overlap` allows a second runner process beside a live one (a
manual `setup-runner once`), `Guarded` is a managed application with a data guard.

### `JobLedger`, and what implements it

What a reader of `setup_jobs` may rely on without knowing runners, leases or the
guest: rows are filled in order, one row changes at a time, a job is executed
only under a claim with a number of its own, and a job that ended has ended. Four
actions: `Submit`, `Claim`, `GiveUp`, `Conclude`. `SetupEngine` implements it
under the mapping `stage <- ` the status with all terminal ones as `done`,
`claims <- ` the row's epoch (`Ledger == INSTANCE JobLedger WITH ...`,
`ImplementsLedger`); every other step of the engine is a stutter.

### `Executors`

One guest's jobs under the policy `backend-allowed`. Workers are the drains of
the backend, which share the owner identity of their process (`Me`), and the
loop of the runner. A drain starts when the backend is up, has swept and no
runner heartbeats (`Looks`); it then runs its share of jobs without asking again.
Kinds: `deploy`, `restore_db` (exclusive, owes a verification always),
`recover_app`, `verify_app`. An operation is reduced to the commands that take
the application down and up and its checkpoint to what `reconcileDecision` reads;
`SetupEngine` has the details. A restore may also fail with its stop unconfirmed
(`StopUnconfirmed`) or after it brought the application up (`RestoreFailed`).
`Reconcile` is the runner's, at any time between
jobs and for any expired claim; `SweepJob` is the backend's, for the claims that
had expired when it booted, and it cannot resume a job. `JobLapses` and
`LeaseLapses` happen while every worker of the owner waits for a command, as
nothing renews a lease of these kinds then (the keep-alive timer of executor.js is
for configuration, application and platform kinds), or when the owner is gone. A
row that has ended keeps only its kind and status. A follow-up that meets the same
live lease again is put back as it was, so only a look that meets something else
is a step.

Bounds: `MaxBoots` and `MaxRuns` (processes, one after the other), `MaxRequests`,
`Drains` (how many at once); `Share` is the code's `max`.

### `CheckoutLock` and `BuildQueue`

`CheckoutLock` has the lock row and the remote writes (`op`): each function of
`locks.js` is an operator from row to row, and a write is acquired, dispatched,
and then settled or lost; the command in the container ends when it likes
(`RemoteEnds`). `BuildQueue` extends it and adds the queue, the passes through
`startBuild` (`start`), the cycle of each, the task that drives it (`runner`), chat
writes, the sweeps and the restart. An action is what runs between two awaits:

| actions | code |
|---|---|
| `EnqueueQuick`, `EnqueueGroup`, `CancelQueuedBuild`, `PressBuild`, `Abandon` | the routes |
| `Drain`, `EnterDrain` | drainBuildQueue up to the await of startBuild's gates |
| `GatesRefuse`, `GatesPass`, `DrainReturns` | the rest of startBuild and of the drain |
| `InstallStarts`, `InstallEnds` | proceedToBuild: the checkout is taken for the install and released after it |
| `StartCycle` | startCycle after the await of the base-app upgrade, which holds no checkout (`pc = "upgrade"`): the lock is read and taken for the cycle |
| `MirrorStarts`, `RunnerStarts`, `RunnerBoundary`, `RunnerTools`, `RunnerCloses`, `RunnerFinishes`, `RunnerCrashes` | driveCycle and runCycle |
| `FinishCycle`, `RunnerReleases`, `EndRunner` | the end of a cycle: the success and the crash exit await something between finishCycle and releaseLock, the others do both at once (`EndRunner`); then the close hook |
| `PollDrain`, `StallSweep`, `SweepIdle`, `GoesIdle`, `ForceRelease` | the poll, the 60 s timers, time, the administrator |
| `Crash` | the backend restarts and sweeps; remote commands go on |

A cycle's status folds in what the queue asks: `defined` is a request that has
only its concluded define cycle, `blocked` is `awaiting_admin` or `awaiting_user` on
questions, `pending` is `awaiting_user` with only the live check outstanding. Gates,
checkpoints and the deployment inside a turn are one step with an undetermined
result. Every chat, concept or design write is a chat write that releases or is
left to the idle timer. A refusal for quota counts as one of the gates (the concluded
define cycle it leaves behind is not kept). The grace period of an orphaned row is not kept: the sweep
may come at any time after it.

Bounds: `Rows`, `Cycles` (passes through startBuild), `Tokens` (remote writes),
`MaxVisits` (chat writes and pressed builds), `MaxCrashes`. `Evictions` says how a
writer at work may lose the checkout: `idle` (a command longer than the timeout),
`force` (an administrator), `stall` (the watchdog). `Refusals` lets the gates refuse.

## 3. Runs

All runs take the deadlock check off: the systems stop when the bounded number
of requests is served and nothing is left to fail.

| run | instance | what it shows |
|---|---|---|
| `DeployCrashes` | 3 runners, 3 jobs, 1 deploy | `NoForgottenStop`: however runners and reconcilers die, an application a deploy took down stays on a record that leads to its recovery |
| `DeployCancel` | 2 runners, 3 jobs, 1 deploy, cancels, guarded | `CancelledNeverStopped`, `ObligationKept`: a cancelled job took nothing down and will not; a serving deploy owes its check as a job that is never dropped for a busy application |
| `DeployAndRestart` | 2 runners, 3 jobs, 2 requests of deploy, recover, retry, restart | `TypeOK`, `WorkerHoldsLease`, `WriterContained`, `HeldGuestUntouched`, `HoldKept`: a worker holds the lease at its epoch; after a counted reap no other job's command runs beside it; no job, release, takeover or expiry clears the hold of an uncertain restart before it is acknowledged, and nobody works on the guest meanwhile |
| `OverlapFence` | 2 runners at once, 2 jobs, restart and recovery | `TerminalStays`, `LaterClaimPrevails`, `ImplementsLedger`: terminal records are final; beside a later claim of the same job the earlier worker starts no command and changes no record; the engine implements the ledger |
| `ClaimsEnd` | 2 runners, 3 jobs, `FairSpec` | `EveryClaimEnds`: every claim ends, by its owner or by a reconciler |
| `Handover` | 2 backends and 2 runners in turn, 1 drain, 1 request and what follows from it | `TypeOK`, `OneStop`, `DownIsRecorded`, `JobsSettle`: no deploy or restore has two workers beyond its stop; a stopped application is on record as failed or to be recovered; every job ends |
| `QueueSafety` | 1 row, 2 starts, 1 remote write, 2 visits, 1 restart, refusals, every eviction | `TypeOK`, `ReservationHeld`, `NoLeakedCheckout`: a write under way or of unknown outcome owns the checkout; a cycle's checkout has a task that will release it |
| `QueueMoves` | 2 rows, 3 starts, 1 visit, the watchdog | `LiveBuildHoldsCheckout`, `QueueMoves`: a cycle under way owns the checkout, whoever took it while the start's upgrade ran; a queued build leaves the queue unless people keep the project |

Why the bounds are enough for the questions asked. A crash story of the engine
needs the worker that dies, the reconciler that dies, and one that finishes: three
incarnations (`DeployCrashes`). A takeover, a fence or a hold needs two. One
deploy leads to at most a recovery and a verification, hence three rows; two
requests put a second operation against the leftovers of the first. Two claims
of a job are one resume. A handover needs a process of each kind that dies and one
of each that comes after it; the follow-ups make two or three jobs of one request.
In the queue, a row, a pressed build and a chat write are three writers after one
checkout (`QueueSafety`), two rows are a build and one behind it (`QueueMoves`), a third start is the one a
person presses or a requeued row gets, and one restart or one lost write is the
fault of each story. Runner incarnations differ only in their name, so the safety
runs of `SetupEngine` use symmetry; the liveness runs do not.

*Fairness.* `ClaimsEnd`: `Start`, `ExecutorStep` and `ReconcileStep` are weakly
fair: systemd restarts the runner, its loop polls the queue and reconciles every
minute, and every command has a timeout, so a runner that stays up does not stay
in one state. `ExpireJob` and `ExpireLock` are weakly fair because time passes.
Nothing is assumed of the operator, and nothing of commands left behind.
`Handover`: the same for each worker, for the restart of the backend and of an
installed runner, for heartbeats, and for the leases of processes that are gone;
a lease that lapses while its owner lives may do so or not. `QueueMoves`: awaited
calls return because they carry timeouts, the two sweeps run on 60 second timers
(`index.js:845`, `:864`), and a holder that has left becomes idle. `RunnerCloses` is
*strongly* fair: a model call is one of boundedly many turns (`MAX_TURNS`), so a
runner that comes back to it again and again closes. Polls and people promise
nothing: `QueueMoves` rests on the watchdog's drain alone.

`WorkerHoldsLease`, `WriterContained`, `NoForgottenStop` and the hold properties
are checked with one runner process at a time, as the service unit has it. With
two processes (`Overlap`) `WorkerHoldsLease` and `NoForgottenStop` do not hold:
the lease is renewed only at fences (`executor.js:327`), so it may pass to the
second process while the first waits for a long command, and `requeueJob` is not
fenced. The documentation claims neither for two processes. `Handover` has such a
pair, a backend and a runner, and states what still holds: `OneStop` and
`DownIsRecorded`.

`HoldKept` excuses the reconciler's last write: with a third incarnation that
write can clear a hold (section 4).

`LiveBuildHoldsCheckout` needs `Evictions` without `idle` and `force`: both take the
checkout from a cycle that goes on running, the first because a hold is acquirable
once it is older than the timeout (`lock-logic.js:110`), whoever holds it.

## 4. Where the code and its documentation disagree

Each of these runs ends with a counterexample; `PROJECT.json` (findings) quotes
the text.

| run | statement | what happens |
|---|---|---|
| `DocReplay` | a restart is never replayed | the last checkpoint makes the job resumable; a runner that dies before finishJob leaves a job that is run again |
| `DocLostStart` | a start that got no cycle is requeued once | the define cycle of the same request has succeeded by then, so the row is taken for a finished build and deleted |
| `DocSharedOwner` | deploys and restores of one application exclude each other for their whole lifetime | two drains of one backend are one owner: the second job reasserts the first one's lease |
| `DocBootSweep` | a dead backend's job is recorded by its successor's boot sweep | the sweep looks once, at leases that have expired; a quick restart finds none, and without a runner the job stays running |

The models also show these, which have no run of their own:

* a deploy that died at `app_started` is recovered as stopped, not verified
  (`docs/features/setup-engine.md:189`): `disruptive` stays set because checkpoints
  merge (`store.js:334`);
* the lease kept for a surviving writer (`docs/features/setup-engine.md:261`) is
  reasserted and then released by the same runner's next job (`store.js:163`);
* an uncertain restart is recorded and its lease flagged in two statements
  (`executor.js:149`); a reconciler that dies between them leaves no hold
  (`docs/features/setup-engine.md:528`);
* a deploy took the dead restart's lease over and died too: settling the restart
  flags the deploy's row, settling the deploy releases it (`executor.js:96`, against
  `store.js:232`);
* a credential check claimed by a runner that dies before its first checkpoint ends
  interrupted and is not queued again (`logic.js:438`, against `deploy-op.js:381`);
* a build the watchdog has "stopped safely" (`stall-watchdog.js:8`) still runs the
  tools of a late answer, because the status is read at the step boundary only
  (`runner.js:1806`), possibly beside the next writer;
* every lock write is said to name its owner and epoch
  (`docs/features/setup-engine.md:39`), but `markLockStale` does not (`store.js:212`): with
  two runner processes, a worker that lost its job and lease during its second reap
  and finds a previous writer alive (`executor.js:786-793`) flags the row its successor
  holds (`PreviousWriterAlive`, `MarkStale`);
* the checkout is said to be "held by whatever writes" (`lock-logic.js:2-4`), but
  between the install and its cycle a start holds nothing while the base-app upgrade
  writes files of the app and commits all of the tree (`runner.js:503`,
  `base-app-upgrade.js:136-192`); a chat write may take the checkout beside it
  (`InstallEnds`, `ChatStarts`);
* the install's writes are said to take the checkout "like any other writer"
  (`audit.js:796-797`), but two starts of one person both pass the check before the gates
  (`audit.js:494`), the second re-acquires the first one's hold (`lock-logic.js:104-107`), and
  the first install to end releases it under the other (`audit.js:816`): `InstallStarts`
  twice, `InstallEnds` once;
* a refused queue entry drains again without awaiting, and the outer `finally`
  deletes the inner drain's guard (`build-queue.js:204-207`), so two drains may start
  one row; the checkout lock, not the guard, is what keeps their cycles apart.

Met while reading: the comment at `executor.js:267` names recovery kinds as the
ones that take over an expired lease, the condition at `executor.js:284` lets every
non-exclusive kind do it; `docs/features/setup-engine.md:268` describes the reap's
count as a condition, while a first reap that returns no count proceeds
(`executor.js:462`, `ReapBlind`); the boot sweep records a resumable `recover_app` of
the dead backend as interrupted, since it cannot resume it.

## 5. Proofs

### The setup engine

`SetupEngineProofs.tla` and, on top of it, `GuestProofs.tla` prove, for every number
of runners, jobs, requests and claims, and from the named assumptions of `SetupEngine` only (`NoOne` is no
runner, the bounds are naturals, the flags Boolean, requests of the known
kinds):

| theorem | statement |
|---|---|
| `TypeCorrect` | `Spec => []TypeOK` |
| `TerminalIsFinal` | `Spec => TerminalStays`, overlapping runners included |
| `LaterClaimWins` | `Spec => LaterClaimPrevails`, overlapping runners included |
| `EngineImplementsLedger` | `Spec => ImplementsLedger`, overlapping runners included |
| `WorkUnderLease` | with `Overlap = FALSE`: `Spec => []WorkerHoldsLease` |
| `HoldExcludesWork` | with `Overlap = FALSE`: `Spec => []HeldGuestUntouched` |
| `HoldStaysUp` | with `Overlap = FALSE`: `Spec => HoldKept` |
| `ObligationsKept` | `Spec => []ObligationKept`, overlapping runners included |
| `NoWriterBeside` | with `Overlap = FALSE`: `Spec => []WriterContained` |
| `StopNeverForgotten` | with `Overlap = FALSE`: `Spec => []NoForgottenStop` |
| `CancelledIsSafe` | with `Overlap = FALSE`: `Spec => []CancelledNeverStopped` |

*Types.* `TypeOK` is not inductive: it lets a working runner have no job, and
then the next phase, which is looked up in the job table, is anything. `TypeInv`
adds `JobInHand`: a runner that is not idle has a row in hand. Lemmas say what
each write of the store and each way of moving on does to the types; there is
one step per action.

*Terminal records.* `TypeInv` and one fact about every step, `OpenRowWritten`:
the job table changes in at most one row, and one that is not terminal (fenced
writes because the claim says `running`, unfenced ones because they ask for it,
new rows because they were empty). Only the acknowledgement differs, and it
keeps the status.

*The ledger.* The initial rows are absent and unclaimed. For a step, the same fact,
refined: the one row that changes was open or absent, and it changes as one of the
ledger's four actions does; a step that changes no row, or not its stage and claim
number, is a stutter. That a new row is the next one comes from the guard of
`createJob`'s callers.

*Claims of one job* (`GuestProofs.tla`). `LaterClaimPrevails` compares two workers,
and nothing in the state of one says what the other may do. `ClaimInv` relates them
through the row: the claim number in a worker's hand is at most the row's, the
row's only grow, and no two workers have the same one. So a worker beside a later
claim has a number the row has left behind: the fence, the checkpoint and finishJob
of that worker find nothing, wherever in its operation the requeue met it. What it
still writes is the lease row (section 4) and a follow-up it already
owed, a new row.

*The lease.* `WorkerHoldsLease` alone is not inductive: the acknowledgement of an
uncertain restart removes a flagged row, a release and a reconcile rewrite it.
`LeaseInv` says that at most one runner is up (`OneUp`, from `Overlap = FALSE`
and the guard of `Start`), that a runner that is not up has nothing in hand
(`DownIsIdle`), and that from acquisition to release the runner's lease is its
own, at its epoch, and *not flagged* (`EngagedHolds`). The last part protects
the row from the acknowledgement, and it is also why a held guest has no worker:
a hold is a flagged row.

*The hold.* `HoldStaysUp` combines both invariants: the record a hold points at is
terminal, so no write but the acknowledgement touches its row; the lease row is
rewritten by a worker (which a flagged row does not have), by a job that found no
hold, by the acknowledgement, or by the reconciler, which the property excuses.

*Containment* (`GuestProofs.tla`). `WriterContained` speaks of a worker between its
phases; `ReapInv` keeps its count as long as it has the job in hand. Commands only
end, except for those the worker itself starts, and `LeaseInv` says that nobody
else starts any.

*What a deploy owes.* A record of success comes from the local state of the runner
that writes it, so `ObligationKept` is not inductive. `OwedInv` adds that a runner's
phase is one of its job's kind (`Fits`), that no operation ends as deferred or
refused (`busy` records those, and never for a follow-up), and that a guarded deploy
about to report success already has a follow-up (`Reporting`). Every other write
keeps a row's kind and origin and makes no such record (`StoreMove`).

*The stop.* Neither property is inductive: a stop that still runs in the guest takes
the application down later, and a job that is running now is cancelled, requeued or
recorded later. `StopInv` therefore speaks of every job and of its commands still in
the guest:

* a job whose checkpoint marks no stop took nothing down and has only builds and
  starts in the guest (`Safe`); a row that is absent, queued or cancelled marks none;
* a deploy that took the application down, or whose stop may still run, answers for
  it: running with its mark, `recovery_required`, or failed with a follow-up;
* a runner in an operation has its claim (`ClaimKept`), no mark in the phases before
  the stop and one from there on (`Marked`); after a stop that returned none is left
  in the guest, and a restart that succeeded has ended every script (`Stopped`);
* a reconciler's decision is about the checkpoint as it still is (`DecisionFresh`);
* an operation that is about to report `cancelled` marked nothing, one that succeeded
  did not leave the application down, and a deploy that failed did not or has its
  verification queued (`Ending`).

`ClaimKept` and `DecisionFresh` are where one runner at a time enters: nobody else
settles a job in hand. The steps are grouped by what they do (before the mark, after
it, the verb, taking, recording, reconciling) and each group has one lemma about such
a move (`EarlyMove`, `LateMove`, `StopStep`); the environment's steps leave the
runners alone, and a command that runs on is covered by `Safe` and the answer its job
already owes (`OrphanStop`).

### The executors

`ExecutorsProofs.tla` proves, for every number of drains, boots, runs and requests,
from the named assumptions of `Executors`:

| theorem | statement |
|---|---|
| `TypeCorrect` | `Spec => []TypeOK` |
| `OneWorkerBeyondStop` | `Spec => []OneStop` |
| `DownRecorded` | `Spec => []DownIsRecorded` |

There a backend and a runner work at once and settle each other's jobs, so no claim
can be taken to stand. The inductive invariant (`IInv`) says instead: only deploys and
restores mark a stop, and neither is a follow-up, which alone goes back to the queue
unfenced (`RowInv`); two workers on one open job have different epochs, so the fence
lets at most one pass (`ClaimInv`); and a worker beyond the stop of an open job is the
one the fence lets pass, with the mark on record (`StageInv`). A worker that was
settled meanwhile is before its stop and held back there, or its job is no longer open
and is not run again. `DownIsRecorded` follows: a reconciler records a
marked job as to be recovered, and its worker reports success only when it finds the
application up.

### The build queue

`BuildQueueProofs.tla` proves, for every number of people, rows, starts, remote
writes, visits and restarts, from the named assumptions of `CheckoutLock` and
`BuildQueue`:

| theorem | statement |
|---|---|
| `TypeCorrect` | `Spec => []TypeOK` |
| `ReservationsHold` | `Spec => []ReservationHeld`, under every eviction |
| `NoCheckoutLeaks` | `Spec => []NoLeakedCheckout`, under every eviction |
| `OneBuildAtATime` | with `Evictions` without idle and force: `Spec => []LiveBuildHoldsCheckout` |

Lemmas first say what each operator of `CheckoutLock` does to a well-formed row:
which fields it keeps, and that none but `Settled` removes an operation. Then there
is one step per action. `ReservationHeld` is inductive with the types: a reservation
starts only on a row without one, and the sweeps, releases and the restart keep it.
`NoLeakedCheckout` is too: only `StartCycle` writes a cycle into the row, and it
starts the task in the same step; a task ends only by releasing.
`LiveBuildHoldsCheckout` is not: without knowing where a runner is in its turn,
`RunnerStarts` makes a cycle active that owns nothing, and a hold might be idle and
then acquirable. `BuildInv` adds `RunnerOrder` (the runner's place in its turn bounds
what its cycle can be, a cycle whose runner has yet to release is no longer active,
and a start that may still write its cycle has no runner) and `HoldFresh` (the hold
of a cycle is not idle, which is where the assumption on `Evictions` enters). Nothing
is assumed of the checkout between `InstallEnds` and `StartCycle`: others may take it
there, and then the start gets no cycle.

### Only model-checked

The liveness properties `EveryClaimEnds`, `JobsSettle` and `QueueMoves`: liveness under
fairness is out of the prover's reach. Every invariant and action property of the
passing runs is also a theorem; the four statements of section 4 are refuted by TLC.

## 6. Not modelled

* `checkpoint_json` beyond the keys the reconciler reads; events, redaction,
  progress texts.
* Several guests at once, and the parent leases of configuration verbs.
* The other job kinds, and the backend's own step kinds after a deploy.
* The policy `runner-required` without a runner: jobs then only wait.
* `container-lock.js`: it has no caller outside tests at this commit.
* The content of guest scripts, prompts and tools: a command is its class, its
  effect on the unit or on the checkout, and whether it still runs.
* Full builds (the rule interview between define and build), resumes of stopped
  cycles, the administrator's settlement of an inspected write, roles and takeover
  requests of the checkout lock.
* The last catch of executeJob (`executor.js:794-795`): a store exception or a
  synchronous throw ends the job `failed`, releases the lease and queues nothing. The
  models have no failing database.
* The drains that take `verify_app` only (`mock2/deploy.js:151`, `orchestrator.js:72`,
  `:81`): in `Executors` every drain takes the oldest job.
* Two statements of startBuild in one turn: the define cycle of a quick build is
  inserted `running` and concluded before anything else runs (`audit.js:592-602`;
  concludeCycle does not await for a cycle without a container), so only a kill
  between them could show it. `auditJobActive` (`audit.js:497`) refuses full builds'
  phases only.
* The hook of a closed request as an action of its own: it drains without looking at
  the latest cycle (`screen-plan.js:430`), as `EnqueueGroup` does; the drains of the
  close hook and of the poll stand for the others.
* The rest of the repository (section 1): I/O and rendering, where a model would
  repeat the code.

## 7. Plan

Done: the two protocols above, the refinement, and the theorems. Then, in order:

1. Proofs: what two runner processes (`Overlap`) leave of `CancelledNeverStopped` and
   `WriterContained`, with the part of `StopInv` that then still holds.
2. Resumes of stopped cycles in `BuildQueue` (a blocked cycle and a queued build
   compete for the checkout), and the settlement of inspected writes.
3. Further job kinds: idempotent lifecycle verbs (`alreadyDone`), guest setup with
   its hold, application releases, storage cleanup.
4. Guest configuration verbs: several leases held together and kept alive.
5. `VerificationLadder`: `verificationState` of `logic.js` against a reference
   definition, and the rungs that follow-ups record on finished jobs.
6. `OperationalRuns`: the coordinator of agent runs.
