----------------------------- MODULE BuildQueue -----------------------------
(***************************************************************************)
(* The build queue of one mock2 project (build-queue.js), the quick builds  *)
(* it starts (audit.js startBuild and proceedToBuild, runner.js startCycle  *)
(* and runCycle), the stall watchdog, and the checkout lock they compete    *)
(* for with people and with remote project writes (CheckoutLock).           *)
(*                                                                          *)
(* The backend is one process of asynchronous tasks: an action is what runs *)
(* between two awaits.  A start s is one pass through startBuild; it names  *)
(* the request it opens, the define cycle it concludes and the build cycle  *)
(* it may get.  Only quick builds are queued, so the rule interview of a    *)
(* full build is left out, and so is the resume of a stopped cycle.         *)
(***************************************************************************)
EXTENDS CheckoutLock

CONSTANTS
  Rows,         \* mock2_build_queue.id, in order of submission
  Builder,      \* the user whose builds these are (initiated_by)
  Visitors,     \* the users who write to the project from the chat
  MaxVisits,    \* bound: chat writes and pressed builds
  MaxCrashes,   \* bound: restarts of the backend
  Refusals,     \* whether the pre-build gates may refuse a queued build
  Evictions     \* subset of {"idle", "force", "stall"}: how a writer at work
                \* may lose the checkout

Starts == Cycles

ASSUME QueueAssumption ==
  /\ Rows \subseteq Nat /\ Cycles \subseteq Nat
  /\ NoId \notin Rows
  /\ Builder \in Users
  /\ Visitors \subseteq Users
  /\ MaxVisits \in Nat /\ MaxCrashes \in Nat
  /\ Refusals \in BOOLEAN
  /\ Evictions \subseteq {"idle", "force", "stall"}

VARIABLES
  queue,        \* rows of mock2_build_queue
  draining,     \* the in-process re-entrancy guard
  start,        \* the passes through startBuild and proceedToBuild
  cycle,        \* the newest cycle of each start's request
  latest,       \* latestCycle(project): the start whose cycle is the newest
  runner,       \* the task that drives each build cycle
  chat,         \* the users with a chat write in progress
  visits, crashes

queueVars == <<queue, draining, start, cycle, latest, runner, chat, visits, crashes>>
vars == <<lock, op, queueVars>>

RowStatus == {"none", "queued", "started", "failed", "cancelled", "deleted"}
CycleStatus == {"none", "defined", "estimating", "running", "succeeded", "failed",
                "interrupted", "blocked", "pending", "abandoned"}

QueueRow == [status : RowStatus, req : Starts \cup {NoId}, again : BOOLEAN]
\* handoff: the request is open and its define cycle concluded.  install: the
\* components are written under the user's hold.  upgrade: the base app is
\* written with no hold at all.
StartPC == {"none", "gates", "handoff", "install", "upgrade", "off"}
Start == [pc : StartPC, row : Rows \cup {NoId}, told : BOOLEAN]

\* release: the cycle is finished and still holds the checkout.
RunnerState == {"off", "mirror", "boundary", "model", "finish", "release"}

\* defined: only the define cycle exists, and it has succeeded.  blocked:
\* awaiting_admin, or awaiting_user on open questions.  pending: awaiting_user
\* with the deployed build's live check outstanding.
Active == {"estimating", "running"}
Live == Active \cup {"blocked", "pending"}
MayAdvancePast(status) == status \notin Active \cup {"blocked"}
RowConcluded(status) == status # "none" /\ MayAdvancePast(status)

LatestStatus(c, l) == IF l = NoId THEN "none" ELSE c[l]

------------------------------------------------------------------------------
\* build-queue.js on the rows

\* Faulty variant of SettleStarted: only a closed request settles its row, as before the
\* queue judged by the cycle.
SettleClosed(q, c) ==
  [i \in Rows |-> IF q[i].status = "started" /\ c[q[i].req] \in {"succeeded", "abandoned"}
                  THEN [q[i] EXCEPT !.status = "deleted"] ELSE q[i]]

SettleStarted(q, c) ==
  [i \in Rows |-> IF q[i].status = "started" /\ RowConcluded(c[q[i].req])
                  THEN [q[i] EXCEPT !.status = "deleted"] ELSE q[i]]

\* After settling, a started row past its grace period with no live cycle goes
\* back once, then fails.
RequeueOrphans(q, c) ==
  LET settled == SettleStarted(q, c)
      orphan(i) == settled[i].status = "started" /\ c[settled[i].req] \notin Live
  IN [i \in Rows |->
        CASE orphan(i) /\ settled[i].again -> [settled[i] EXCEPT !.status = "failed"]
          [] orphan(i) /\ ~settled[i].again ->
               [settled[i] EXCEPT !.status = "queued", !.req = NoId, !.again = TRUE]
          [] OTHER -> settled[i]]

Queued(q) == {i \in Rows : q[i].status = "queued"}
NextQueued(q, i) == i \in Queued(q) /\ \A j \in Queued(q) : i <= j

FreshStart(row) == [pc |-> "gates", row |-> row, told |-> FALSE]
NoStart == [pc |-> "none", row |-> NoId, told |-> FALSE]

\* The next unused start; once the bound on Cycles is reached no drain starts one.
Unused(st, s) == st[s] = NoStart /\ cycle[s] = "none"
NextStart(st, s) == Unused(st, s) /\ \A r \in Starts : Unused(st, r) => s <= r

\* drainBuildQueue up to the gates of startBuild, from the state with queue q,
\* cycles c, lock l and starts st; startBuild refuses while anyone holds the
\* checkout, and the row then stays queued.
Drain(q, c, l, st, guard) ==
  LET settled == SettleStarted(q, c)
      go == /\ \A i \in Rows : settled[i].status # "started"
            /\ Queued(settled) # {}
            /\ Free(l)
            /\ \E s \in Starts : Unused(st, s)
  IN /\ queue' = settled
     /\ \/ /\ go
           /\ \E s \in Starts, i \in Rows :
                /\ NextStart(st, s)
                /\ NextQueued(settled, i)
                /\ start' = [st EXCEPT ![s] = FreshStart(i)]
           /\ draining' = guard
        \/ /\ ~go
           /\ start' = st
           /\ draining' = FALSE

\* The entry of drainBuildQueue: a drain under way makes this one return.
EnterDrain(q, c, l) ==
  \/ /\ ~draining
     /\ Drain(q, c, l, start, TRUE)
  \/ /\ draining
     /\ queue' = q
     /\ UNCHANGED <<draining, start>>

------------------------------------------------------------------------------
Init ==
  /\ LockInit
  /\ queue = [i \in Rows |-> [status |-> "none", req |-> NoId, again |-> FALSE]]
  /\ draining = FALSE
  /\ start = [s \in Starts |-> NoStart]
  /\ cycle = [s \in Starts |-> "none"]
  /\ latest = NoId
  /\ runner = [s \in Starts |-> "off"]
  /\ chat = {}
  /\ visits = 0 /\ crashes = 0

\* Requests of people

NextRow(i) == queue[i].status = "none" /\ \A j \in Rows : j < i => queue[j].status # "none"
WithRow(i) == [queue EXCEPT ![i].status = "queued"]

\* A quick build while the latest cycle is busy or waits for an answer: queued.
EnqueueQuick(i) ==
  /\ NextRow(i)
  /\ LatestStatus(cycle, latest) \in Live
  /\ queue' = WithRow(i)
  /\ UNCHANGED <<lock, op, draining, start, cycle, latest, runner, chat, visits, crashes>>

\* One part of a split build: queued and drained at once, whatever the latest
\* cycle.
EnqueueGroup(i) ==
  /\ NextRow(i)
  /\ EnterDrain(WithRow(i), cycle, lock)
  /\ UNCHANGED <<lock, op, cycle, latest, runner, chat, visits, crashes>>

CancelQueuedBuild(i) ==
  /\ queue[i].status = "queued"
  /\ queue' = [queue EXCEPT ![i].status = "cancelled"]
  /\ UNCHANGED <<lock, op, draining, start, cycle, latest, runner, chat, visits, crashes>>

\* A quick build pressed while nothing is busy goes straight to startBuild.
PressBuild ==
  /\ visits < MaxVisits
  /\ LatestStatus(cycle, latest) \notin Live
  /\ Free(lock)
  /\ \E s \in Starts : NextStart(start, s) /\ start' = [start EXCEPT ![s] = FreshStart(NoId)]
  /\ visits' = visits + 1
  /\ UNCHANGED <<lock, op, queue, draining, cycle, latest, runner, chat, crashes>>

\* The operator abandons a blocked cycle.
Abandon(s) ==
  /\ cycle[s] = "blocked"
  /\ cycle' = [cycle EXCEPT ![s] = "abandoned"]
  /\ UNCHANGED <<lock, op, queue, draining, start, latest, runner, chat, visits, crashes>>

\* A chat write takes the checkout; it ends by releasing it or by leaving it to
\* the idle timer.
ChatStarts(u) ==
  /\ visits < MaxVisits
  /\ u \in Visitors \ chat
  /\ MayAcquire(lock, User(u))
  /\ lock' = AcquireLock(lock, User(u))
  /\ chat' = chat \cup {u}
  /\ visits' = visits + 1
  /\ UNCHANGED <<op, queue, draining, start, cycle, latest, runner, crashes>>

ChatEnds(u) ==
  /\ u \in chat
  /\ lock' \in {ReleaseLock(lock, User(u)), TouchLock(lock, User(u))}
  /\ chat' = chat \ {u}
  /\ UNCHANGED <<op, queue, draining, start, cycle, latest, runner, visits, crashes>>

\* A project write through the API reserves the free checkout.
ProjectWrite(t) == OperationStarts(t, NoId) /\ UNCHANGED queueVars

------------------------------------------------------------------------------
\* startBuild and proceedToBuild

\* The gates refuse: a queued row fails and the drain moves on to the next one.
\* The return of that inner drain is not awaited, so the outer drain's finally
\* takes the guard away from it.
GatesRefuse(s) ==
  /\ Refusals
  /\ start[s].pc = "gates"
  /\ \/ /\ start[s].row # NoId
        /\ Drain([queue EXCEPT ![start[s].row].status = "failed"], cycle, lock,
                 [start EXCEPT ![s] = NoStart], FALSE)
     \/ /\ start[s].row = NoId
        /\ start' = [start EXCEPT ![s] = NoStart]
        /\ UNCHANGED <<queue, draining>>
  /\ UNCHANGED <<lock, op, cycle, latest, runner, chat, visits, crashes>>

\* The gates pass: the request opens and its define cycle is inserted and
\* concluded.
GatesPass(s) ==
  /\ start[s].pc = "gates"
  /\ cycle' = [cycle EXCEPT ![s] = "defined"]
  /\ latest' = s
  /\ start' = [start EXCEPT ![s].pc = "handoff"]
  /\ UNCHANGED <<lock, op, queue, draining, runner, chat, visits, crashes>>

\* proceedToBuild takes the checkout for the component install, or gives up.  A
\* second start of the same person passes: the hold is theirs already.
InstallStarts(s) ==
  /\ start[s].pc = "handoff"
  /\ \/ /\ MayAcquire(lock, User(Builder))
        /\ lock' = AcquireLock(lock, User(Builder))
        /\ start' = [start EXCEPT ![s].pc = "install"]
     \/ /\ ~MayAcquire(lock, User(Builder))
        /\ start' = [start EXCEPT ![s].pc = "off"]
        /\ UNCHANGED lock
  /\ UNCHANGED <<op, queue, draining, cycle, latest, runner, chat, visits, crashes>>

\* startBuild has returned: the drain records the start on its row.
DrainReturns(s) ==
  /\ start[s].pc \in {"install", "upgrade", "off"}
  /\ start[s].row # NoId
  /\ ~start[s].told
  /\ start' = [start EXCEPT ![s].told = TRUE]
  /\ queue' = [queue EXCEPT ![start[s].row].status = "started", ![start[s].row].req = s]
  /\ draining' = FALSE
  /\ UNCHANGED <<lock, op, cycle, latest, runner, chat, visits, crashes>>

\* The install ends and the checkout is released; if it succeeded, startCycle
\* rewrites the platform's files of the app, which takes no checkout.
InstallEnds(s) ==
  /\ start[s].pc = "install"
  /\ \E pc \in {"upgrade", "off"} : start' = [start EXCEPT ![s].pc = pc]
  /\ lock' = ReleaseLock(lock, User(Builder))
  /\ UNCHANGED <<op, queue, draining, cycle, latest, runner, chat, visits, crashes>>

\* Faulty variant of StartCycle: it trusts the hold that proceedToBuild had.
StartCycleUnchecked(s) ==
  /\ start[s].pc = "upgrade"
  /\ start' = [start EXCEPT ![s].pc = "off"]
  /\ lock' = AcquireLock(lock, Cycle(s))
  /\ cycle' = [cycle EXCEPT ![s] = "estimating"]
  /\ latest' = s
  /\ runner' = [runner EXCEPT ![s] = "mirror"]
  /\ UNCHANGED <<op, queue, draining, chat, visits, crashes>>

\* The rest of startCycle, without an await: the build cycle needs a free
\* checkout.  Readiness, the quota and the no-op check may also refuse it.
StartCycle(s) ==
  /\ start[s].pc = "upgrade"
  /\ start' = [start EXCEPT ![s].pc = "off"]
  /\ \/ /\ Free(lock)
        /\ lock' = AcquireLock(lock, Cycle(s))
        /\ cycle' = [cycle EXCEPT ![s] = "estimating"]
        /\ latest' = s
        /\ runner' = [runner EXCEPT ![s] = "mirror"]
     \/ UNCHANGED <<lock, cycle, latest, runner>>
  /\ UNCHANGED <<op, queue, draining, chat, visits, crashes>>

StartStep(s) ==
  \/ GatesRefuse(s)
  \/ GatesPass(s)
  \/ InstallStarts(s)
  \/ DrainReturns(s)
  \/ InstallEnds(s)
  \/ StartCycle(s)

------------------------------------------------------------------------------
\* The runner of a build cycle: the task mirror, then turns of a boundary check,
\* a model call and tools, then the checkpoint and deploy

Waiting(s) == \E t \in Tokens : op[t].by = s /\ op[t].call = "open"

\* Before the first turn and at every checkpoint the runner writes the task's
\* files under a reservation attached to its own hold.
MirrorStarts(s, t) ==
  /\ runner[s] \in {"mirror", "finish"}
  /\ ~Waiting(s)
  /\ OperationStarts(t, s)
  /\ UNCHANGED queueVars

CloseHook(status) ==
  IF MayAdvancePast(status) THEN EnterDrain(queue, cycle', lock')
  ELSE UNCHANGED <<queue, draining, start>>

\* Faulty variant of EndRunner: the crash path forgets the release.
EndRunnerKeeping(s, status) ==
  /\ cycle' = [cycle EXCEPT ![s] = status]
  /\ lock' = IF status = "failed" THEN lock ELSE ReleaseLock(lock, Cycle(s))
  /\ runner' = [runner EXCEPT ![s] = "off"]
  /\ CloseHook(status)

\* finishCycle is unconditional; the release is the cycle's own; the close hook
\* drains the queue unless the cycle blocks it.
EndRunner(s, status) ==
  /\ cycle' = [cycle EXCEPT ![s] = status]
  /\ lock' = ReleaseLock(lock, Cycle(s))
  /\ runner' = [runner EXCEPT ![s] = "off"]
  /\ CloseHook(status)

\* The success and the crash exits await something between the record and the
\* release.
FinishCycle(s, status) ==
  /\ cycle' = [cycle EXCEPT ![s] = status]
  /\ runner' = [runner EXCEPT ![s] = "release"]
  /\ UNCHANGED <<lock, queue, draining, start>>

RunnerReleases(s) ==
  /\ runner[s] = "release"
  /\ EndRunner(s, cycle[s])
  /\ UNCHANGED <<op, latest, chat, visits, crashes>>

\* An unknown write outcome in the row stops the runner (assertTaskMirrorSettled),
\* and so does any other exception.
RunnerCrashes(s) ==
  /\ runner[s] \in {"mirror", "model", "finish"}
  /\ ~Waiting(s)
  /\ FinishCycle(s, "failed")
  /\ UNCHANGED <<op, latest, chat, visits, crashes>>

RunnerStarts(s) ==
  /\ runner[s] = "mirror"
  /\ ~Waiting(s)
  /\ ~lock.unsure
  /\ cycle' = [cycle EXCEPT ![s] = "running"]
  /\ runner' = [runner EXCEPT ![s] = "boundary"]
  /\ UNCHANGED <<lock, op, queue, draining, start, latest, chat, visits, crashes>>

\* The step boundary: a cycle no longer running releases and stops.
RunnerBoundary(s) ==
  /\ runner[s] = "boundary"
  /\ \/ /\ cycle[s] = "running"
        /\ runner' = [runner EXCEPT ![s] = "model"]
        /\ UNCHANGED <<lock, cycle, queue, draining, start>>
     \/ /\ cycle[s] # "running"
        /\ EndRunner(s, cycle[s])
  /\ UNCHANGED <<op, latest, chat, visits, crashes>>

\* The model has answered: its tools write the container.
RunnerTools(s) ==
  /\ runner[s] = "model"
  /\ ~lock.unsure
  /\ lock' = TouchLock(lock, Cycle(s))
  /\ runner' = [runner EXCEPT ![s] = "boundary"]
  /\ UNCHANGED <<op, queue, draining, start, cycle, latest, chat, visits, crashes>>

\* The model has finished, halted or been stopped: gates, checkpoint, deploy.
RunnerCloses(s) ==
  /\ runner[s] = "model"
  /\ runner' = [runner EXCEPT ![s] = "finish"]
  /\ UNCHANGED <<lock, op, queue, draining, start, cycle, latest, chat, visits, crashes>>

RunnerFinishes(s) ==
  /\ runner[s] = "finish"
  /\ ~Waiting(s)
  /\ ~lock.unsure
  /\ \/ FinishCycle(s, "succeeded")
     \/ \E status \in {"failed", "interrupted", "blocked", "pending"} : EndRunner(s, status)
  /\ UNCHANGED <<op, latest, chat, visits, crashes>>

RunnerStep(s) ==
  \/ RunnerCrashes(s)
  \/ RunnerStarts(s)
  \/ RunnerBoundary(s)
  \/ RunnerTools(s)
  \/ RunnerFinishes(s)
  \/ RunnerReleases(s)

------------------------------------------------------------------------------
\* The sweeps, the poll, the administrator and the restart

\* Every open chat polls, and the poll drains.
PollDrain ==
  /\ MayAdvancePast(LatestStatus(cycle, latest))
  /\ EnterDrain(queue, cycle, lock)
  /\ UNCHANGED <<lock, op, cycle, latest, runner, chat, visits, crashes>>

\* sweepStalledBuilds: stop the silent cycles, requeue the orphans, drain.
StallSweep(silent) ==
  /\ silent # {} => "stall" \in Evictions
  /\ cycle' = [s \in Starts |-> IF s \in silent THEN "interrupted" ELSE cycle[s]]
  /\ lock' = IF lock.cycle \in silent THEN ReleaseLock(lock, Cycle(lock.cycle)) ELSE lock
  /\ LET q == RequeueOrphans(queue, cycle')
     IN IF MayAdvancePast(LatestStatus(cycle', latest))
        THEN EnterDrain(q, cycle', lock')
        ELSE queue' = q /\ UNCHANGED <<draining, start>>
  /\ UNCHANGED <<op, latest, runner, chat, visits, crashes>>

Silent == {s \in Starts : cycle[s] = "running" /\ runner[s] \in {"model", "finish"}}

\* A holder has written nothing for the idle timeout: one that has left, or, with
\* the eviction "idle", one whose command or model call takes longer than that.
AtWork == \/ lock.user \in chat
          \/ lock.user = Builder /\ \E s \in Starts : start[s].pc = "install"
          \/ lock.cycle # NoId

GoesIdle ==
  /\ lock.op = NoId /\ ~Free(lock) /\ ~lock.idle
  /\ AtWork => "idle" \in Evictions
  /\ lock' = [lock EXCEPT !.idle = TRUE]
  /\ UNCHANGED <<op, queueVars>>

SweepIdle == IdleSweep /\ UNCHANGED queueVars

ForceRelease ==
  /\ "force" \in Evictions
  /\ lock # NoRow
  /\ lock' = ForceReleased(lock)
  /\ UNCHANGED <<op, queueVars>>

\* The backend stops; its successor sweeps the database before it serves.
\* Remote commands go on.
Crash ==
  /\ crashes < MaxCrashes
  /\ crashes' = crashes + 1
  /\ lock' = BootSwept(lock)
  /\ op' = [t \in Tokens |->
              [op[t] EXCEPT !.call = IF op[t].call = "open" THEN "closed" ELSE op[t].call]]
  /\ cycle' = [s \in Starts |-> IF cycle[s] \in Active THEN "failed" ELSE cycle[s]]
  /\ start' = [s \in Starts |->
                 IF start[s].pc \in {"none", "gates"} THEN NoStart
                 ELSE [start[s] EXCEPT !.pc = "off", !.told = TRUE]]
  /\ runner' = [s \in Starts |-> "off"]
  /\ draining' = FALSE
  /\ chat' = {}
  /\ UNCHANGED <<queue, latest, visits>>

------------------------------------------------------------------------------
Next ==
  \/ \E i \in Rows : EnqueueQuick(i) \/ EnqueueGroup(i) \/ CancelQueuedBuild(i)
  \/ PressBuild
  \/ \E u \in Users : ChatStarts(u) \/ ChatEnds(u)
  \/ \E t \in Tokens : ProjectWrite(t) \/ (OperationStep(t) /\ UNCHANGED queueVars)
  \/ \E s \in Starts : Abandon(s) \/ StartStep(s) \/ RunnerStep(s) \/ RunnerCloses(s)
  \/ \E s \in Starts, t \in Tokens : MirrorStarts(s, t)
  \/ PollDrain
  \/ \E silent \in SUBSET Silent : StallSweep(silent)
  \/ GoesIdle
  \/ SweepIdle
  \/ ForceRelease
  \/ Crash

\* Awaited calls return (they carry timeouts), a runner closes within its limit
\* of turns, and the sweeps run on 60 second timers.  People, and commands left
\* running in a container, promise nothing.
Fairness ==
  /\ \A s \in Starts : WF_vars(StartStep(s)) /\ WF_vars(RunnerStep(s)) /\ SF_vars(RunnerCloses(s))
  /\ WF_vars(\E u \in Users : ChatEnds(u))
  /\ \A t \in Tokens : WF_vars((OperationSettles(t) \/ OperationLost(t)) /\ UNCHANGED queueVars)
  /\ WF_vars(StallSweep({}))
  /\ WF_vars(GoesIdle)
  /\ WF_vars(SweepIdle)

Spec == Init /\ [][Next]_vars /\ Fairness

------------------------------------------------------------------------------
\* The types, and of the lock row that it names one holder (locks.js:55-73).
TypeOK ==
  /\ LockTypeOK
  /\ queue \in [Rows -> QueueRow]
  /\ draining \in BOOLEAN
  /\ start \in [Starts -> Start]
  /\ cycle \in [Starts -> CycleStatus]
  /\ latest \in Starts \cup {NoId}
  /\ runner \in [Starts -> RunnerState]
  /\ chat \subseteq Users
  /\ visits \in 0..MaxVisits
  /\ crashes \in 0..MaxCrashes

\* A checkout held by a cycle has a task in this process that will release it,
\* through crashes of the runner, restarts of the backend and stops by the
\* watchdog (db.js:75-78, runner.js:869-870): no build leaves the project checked
\* out to nobody.
NoLeakedCheckout == lock.cycle # NoId => runner[lock.cycle] # "off"

\* Every build cycle that counts as under way owns the checkout, so two never
\* run at once (ADR-004; lock-logic.js:2-7), although nobody owns it from the end
\* of the install to the cycle (audit.js:816, runner.js:500-764) and any writer or
\* second start may take it there.  It needs Evictions without idle and force: an
\* expired or forced release takes the hold from a running cycle.
LiveBuildHoldsCheckout == \A s \in Starts : cycle[s] \in Active => lock.cycle = s

\* The project is in the hands of people: a cycle is blocked, or a write of
\* unknown outcome holds the checkout.
NeedsHuman ==
  \/ \E s \in Starts : cycle[s] = "blocked"
  \/ \E t \in Tokens : lock.op = t /\ op[t].call = "closed"

\* A queued build leaves the queue (build-queue.js:1-9, the wedges of
\* cycle-logic.js:475-498) unless the project stays in the hands of people.
QueueMoves ==
  <>[]NeedsHuman \/ \A i \in Rows : queue[i].status = "queued" ~> queue[i].status # "queued"

\* What build-queue.js:110-117 says of a start that was lost before its cycle: the
\* row is requeued once, never taken for a finished build.
LostStartRequeued ==
  [][\A i \in Rows : queue[i].status = "started" /\ queue'[i].status = "deleted"
        => cycle[queue[i].req] # "defined"]_vars
=============================================================================
