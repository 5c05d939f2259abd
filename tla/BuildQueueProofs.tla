-------------------------- MODULE BuildQueueProofs --------------------------
(***************************************************************************)
(* Proofs about BuildQueue for every set of users, rows, starts and tokens: *)
(* the types, the reservations, the checkouts of cycles, and the exclusion  *)
(* of builds where no hold can expire or be forced away.                    *)
(***************************************************************************)
EXTENDS BuildQueue, TLAPS

------------------------------------------------------------------------------
\* The rows that the lock's functions write

\* lockHolder reads the columns in the order operation, cycle, user.
LEMMA HolderReads ==
  ASSUME NEW row \in Row
  PROVE  /\ Free(row) <=> row.op = NoId /\ row.cycle = NoId /\ row.user = NoId
         /\ \A u \in Users : LockHolder(row) = User(u) <=>
              row.op = NoId /\ row.cycle = NoId /\ row.user = u
         /\ \A c \in Cycles : LockHolder(row) = Cycle(c) <=> row.op = NoId /\ row.cycle = c
         /\ LockHolder(row).type = "user" => row.op = NoId /\ row.cycle = NoId
  BY IdAssumption DEF Row, Free, LockHolder, User, Cycle, Nobody

LEMMA NoRowIsGood == GoodRow(NoRow) /\ NoRow.op = NoId /\ NoRow.cycle = NoId /\ ~NoRow.idle
  BY DEF GoodRow, Row, NoRow

\* Only a free, an own or an idle hold is acquired, never an operation's.
LEMMA AcquireByUser ==
  ASSUME NEW row \in Row, NEW u \in Users, MayAcquire(row, User(u))
  PROVE  /\ GoodRow(AcquireLock(row, User(u)))
         /\ AcquireLock(row, User(u)).cycle = NoId
         /\ AcquireLock(row, User(u)).op = NoId
         /\ row.op = NoId
         /\ row.cycle # NoId => row.idle
  BY HolderReads, IdAssumption DEF AcquireLock, MayAcquire, User, GoodRow, Row, NoRow

LEMMA AcquireByCycle ==
  ASSUME NEW row \in Row, NEW c \in Cycles
  PROVE  /\ GoodRow(AcquireLock(row, Cycle(c)))
         /\ AcquireLock(row, Cycle(c)).cycle = c
         /\ AcquireLock(row, Cycle(c)).op = NoId
         /\ ~AcquireLock(row, Cycle(c)).idle
  BY IdAssumption DEF AcquireLock, Cycle, GoodRow, Row, NoRow

LEMMA TouchKeeps ==
  ASSUME NEW row, GoodRow(row), NEW h
  PROVE  /\ GoodRow(TouchLock(row, h))
         /\ TouchLock(row, h).op = row.op
         /\ TouchLock(row, h).cycle = row.cycle
         /\ TouchLock(row, h).idle => row.idle
  BY DEF TouchLock, GoodRow, Row

\* A release takes away the releasing holder and leaves every operation.
LEMMA UserRelease ==
  ASSUME NEW row, GoodRow(row), NEW u \in Users
  PROVE  /\ GoodRow(ReleaseLock(row, User(u)))
         /\ row.op # NoId => ReleaseLock(row, User(u)).op = row.op
         /\ ReleaseLock(row, User(u)).cycle = row.cycle
         /\ ReleaseLock(row, User(u)).idle => row.idle
  BY HolderReads, NoRowIsGood, IdAssumption
  DEF ReleaseLock, LockHolder, Nobody, User, Cycle, GoodRow, Row

LEMMA CycleRelease ==
  ASSUME NEW row, GoodRow(row), NEW c \in Cycles
  PROVE  /\ GoodRow(ReleaseLock(row, Cycle(c)))
         /\ row.op # NoId => ReleaseLock(row, Cycle(c)).op = row.op
         /\ ReleaseLock(row, Cycle(c)).cycle = IF row.cycle = c THEN NoId ELSE row.cycle
         /\ ReleaseLock(row, Cycle(c)).idle => row.idle
  BY HolderReads, NoRowIsGood, IdAssumption
  DEF ReleaseLock, LockHolder, Nobody, User, Cycle, GoodRow, Row

LEMMA ForceKeeps ==
  ASSUME NEW row, GoodRow(row)
  PROVE  /\ GoodRow(ForceReleased(row))
         /\ row.op # NoId => ForceReleased(row).op = row.op
         /\ ForceReleased(row).cycle \in {row.cycle, NoId}
         /\ ForceReleased(row).idle => row.idle
  BY NoRowIsGood DEF ForceReleased

LEMMA BootKeeps ==
  ASSUME NEW row, GoodRow(row)
  PROVE  /\ GoodRow(BootSwept(row))
         /\ row.op # NoId => BootSwept(row).op = row.op
         /\ BootSwept(row).cycle = NoId
  BY NoRowIsGood DEF BootSwept, GoodRow, Row

LEMMA ReserveRow ==
  ASSUME NEW row, GoodRow(row), NEW t \in Tokens, NEW c \in Cycles \cup {NoId},
         MayReserve(row, c)
  PROVE  /\ GoodRow(Reserved(row, c, t))
         /\ row.op = NoId
         /\ Reserved(row, c, t).op = t
         /\ Reserved(row, c, t).cycle = row.cycle
         /\ Reserved(row, c, t).idle => row.idle
  BY HolderReads, NoRowIsGood, IdAssumption DEF MayReserve, Reserved, Free, GoodRow, Row, NoRow

LEMMA SettleRow ==
  ASSUME NEW row, GoodRow(row), NEW t \in Tokens
  PROVE  /\ GoodRow(Settled(row, t))
         /\ Settled(row, t).op = IF row.op = t THEN NoId ELSE row.op
         /\ Settled(row, t).cycle = row.cycle
         /\ Settled(row, t).idle => row.idle
  BY NoRowIsGood, IdAssumption DEF Settled, GoodRow, Row, NoRow

LEMMA UncertainRow ==
  ASSUME NEW row, GoodRow(row), NEW t \in Tokens
  PROVE  /\ GoodRow(MarkedUncertain(row, t))
         /\ MarkedUncertain(row, t).op = row.op
         /\ MarkedUncertain(row, t).cycle = row.cycle
         /\ MarkedUncertain(row, t).idle => row.idle
  BY DEF MarkedUncertain, GoodRow, Row

------------------------------------------------------------------------------
\* The queue's functions keep the tables typed

QueueTable == [Rows -> QueueRow]
StartTable == [Starts -> Start]

LEMMA SettleType ==
  ASSUME NEW q \in QueueTable, NEW c
  PROVE  SettleStarted(q, c) \in QueueTable
<1>1. \A i \in Rows : [q[i] EXCEPT !.status = "deleted"] \in QueueRow
  BY DEF QueueTable, QueueRow, RowStatus
<1> QED
  BY <1>1 DEF SettleStarted, QueueTable

LEMMA RequeueType ==
  ASSUME NEW q \in QueueTable, NEW c
  PROVE  RequeueOrphans(q, c) \in QueueTable
<1> DEFINE w == SettleStarted(q, c)
<1>1. w \in QueueTable
  BY SettleType
<1> HIDE DEF w
<1>2. \A i \in Rows : /\ w[i] \in QueueRow
                      /\ [w[i] EXCEPT !.status = "failed"] \in QueueRow
                      /\ [w[i] EXCEPT !.status = "queued", !.req = NoId, !.again = TRUE] \in QueueRow
  BY <1>1 DEF QueueTable, QueueRow, RowStatus
<1> QED
  BY <1>2 DEF RequeueOrphans, w, QueueTable

LEMMA FreshStartType == NoStart \in Start /\ \A i \in Rows \cup {NoId} : FreshStart(i) \in Start
  BY DEF NoStart, FreshStart, Start, StartPC

\* A drain may put one unused start to the gates; it leaves the others alone.
LEMMA DrainEffect ==
  ASSUME NEW q \in QueueTable, NEW c, NEW l, NEW st \in StartTable, NEW guard \in BOOLEAN,
         Drain(q, c, l, st, guard)
  PROVE  /\ queue' \in QueueTable
         /\ start' \in StartTable
         /\ draining' \in BOOLEAN
         /\ \A s \in Starts : start'[s] # st[s] => Unused(st, s)
<1> DEFINE w == SettleStarted(q, c)
<1>1. w \in QueueTable
  BY SettleType
<1> HIDE DEF w
<1>2. queue' = w
  BY DEF Drain, w
<1>3. \/ start' = st /\ draining' = FALSE
      \/ /\ \E s \in Starts, i \in Rows : NextStart(st, s) /\ start' = [st EXCEPT ![s] = FreshStart(i)]
         /\ draining' = guard
  BY DEF Drain
<1>4. CASE start' = st /\ draining' = FALSE
  BY <1>1, <1>2, <1>4
<1>5. CASE /\ \E s \in Starts, i \in Rows : NextStart(st, s) /\ start' = [st EXCEPT ![s] = FreshStart(i)]
           /\ draining' = guard
  <2>1. PICK s \in Starts, i \in Rows : NextStart(st, s) /\ start' = [st EXCEPT ![s] = FreshStart(i)]
    BY <1>5
  <2>2. FreshStart(i) \in Start
    BY FreshStartType
  <2>3. start' \in StartTable
    BY <2>1, <2>2 DEF StartTable
  <2>4. Unused(st, s)
    BY <2>1 DEF NextStart
  <2>5. \A r \in Starts : start'[r] # st[r] => r = s
    BY <2>1 DEF StartTable
  <2> QED
    BY <1>1, <1>2, <1>5, <2>3, <2>4, <2>5
<1> QED
  BY <1>3, <1>4, <1>5

LEMMA EnterDrainEffect ==
  ASSUME start \in StartTable, draining \in BOOLEAN,
         NEW q \in QueueTable, NEW c, NEW l, EnterDrain(q, c, l)
  PROVE  /\ queue' \in QueueTable
         /\ start' \in StartTable
         /\ draining' \in BOOLEAN
         /\ \A s \in Starts : start'[s] # start[s] => Unused(start, s)
  BY DrainEffect DEF EnterDrain

LEMMA CloseHookEffect ==
  ASSUME queue \in QueueTable, start \in StartTable, draining \in BOOLEAN,
         NEW status, CloseHook(status)
  PROVE  /\ queue' \in QueueTable
         /\ start' \in StartTable
         /\ draining' \in BOOLEAN
         /\ \A s \in Starts : start'[s] # start[s] => Unused(start, s)
  BY EnterDrainEffect DEF CloseHook

------------------------------------------------------------------------------
\* What the steps do to the checkout and to the project writes

\* A step that touches no project write and takes no reservation away.
Unreserving == /\ op' = op
               /\ lock.op # NoId => lock'.op = lock.op

LEMMA StartReserves ==
  ASSUME LockTypeOK, NEW t \in Tokens, NEW c \in Cycles \cup {NoId}, OperationStarts(t, c)
  PROVE  /\ LockTypeOK'
         /\ lock.op = NoId /\ lock'.op = t /\ lock'.cycle = lock.cycle
         /\ lock'.idle => lock.idle
         /\ \A u \in Tokens : u # t => op'[u] = op[u]
<1>1. GoodRow(lock)' /\ lock.op = NoId /\ lock'.op = t /\ lock'.cycle = lock.cycle
      /\ (lock'.idle => lock.idle)
  BY ReserveRow DEF OperationStarts, LockTypeOK
<1>2. [op[t] EXCEPT !.by = c, !.call = "open"] \in Operation
  BY DEF LockTypeOK, Operation
<1>3. op' = [op EXCEPT ![t] = [op[t] EXCEPT !.by = c, !.call = "open"]]
  BY DEF OperationStarts, LockTypeOK, Operation
<1> QED
  BY <1>1, <1>2, <1>3 DEF LockTypeOK

LEMMA OperationEffect ==
  ASSUME LockTypeOK, NEW t \in Tokens, OperationStep(t)
  PROVE  /\ LockTypeOK'
         /\ lock'.cycle = lock.cycle
         /\ lock'.idle => lock.idle
         /\ ReservationHeld => ReservationHeld'
<1> USE DEF LockTypeOK
<1>1. CASE Dispatch(t)
  <2>1. [op[t] EXCEPT !.remote = "writing"] \in Operation
    BY DEF Operation
  <2>2. op' = [op EXCEPT ![t] = [op[t] EXCEPT !.remote = "writing"]] /\ lock' = lock
    BY <1>1 DEF Dispatch, Operation
  <2> QED
    BY <1>1, <2>1, <2>2 DEF Dispatch, ReservationHeld, Operation
<1>2. CASE RemoteEnds(t)
  <2>1. [op[t] EXCEPT !.remote = "ended"] \in Operation
    BY DEF Operation
  <2>2. op' = [op EXCEPT ![t] = [op[t] EXCEPT !.remote = "ended"]] /\ lock' = lock
    BY <1>2 DEF RemoteEnds, Operation
  <2> QED
    BY <1>2, <2>1, <2>2 DEF RemoteEnds, ReservationHeld, Operation
<1>3. CASE OperationSettles(t) \/ OperationLost(t)
  <2>1. [op[t] EXCEPT !.call = "closed"] \in Operation
    BY DEF Operation
  <2>2. op' = [op EXCEPT ![t] = [op[t] EXCEPT !.call = "closed"]]
    BY <1>3 DEF OperationSettles, OperationLost, Operation
  <2>3. CASE OperationSettles(t)
    <3>1. /\ GoodRow(lock)' /\ lock'.cycle = lock.cycle /\ (lock'.idle => lock.idle)
          /\ lock'.op = IF lock.op = t THEN NoId ELSE lock.op
      BY <2>3, SettleRow DEF OperationSettles
    <3>2. op'[t].call # "open" /\ op'[t].remote # "writing"
      BY <2>2, <2>3 DEF OperationSettles, Operation
    <3> QED
      BY <2>1, <2>2, <3>1, <3>2 DEF ReservationHeld
  <2>4. CASE OperationLost(t)
    <3>1. /\ GoodRow(lock)' /\ lock'.cycle = lock.cycle /\ (lock'.idle => lock.idle)
          /\ lock'.op = lock.op
      BY <2>4, UncertainRow DEF OperationLost
    <3> QED
      BY <2>1, <2>2, <2>4, <3>1 DEF ReservationHeld, OperationLost, Operation
  <2> QED
    BY <1>3, <2>3, <2>4
<1> QED
  BY <1>1, <1>2, <1>3 DEF OperationStep

\* The end of a runner, whatever the outcome it writes.
LEMMA EndRunnerEffect ==
  ASSUME TypeOK, NEW s \in Starts, NEW status \in CycleStatus, EndRunner(s, status)
  PROVE  /\ GoodRow(lock')
         /\ lock.op # NoId => lock'.op = lock.op
         /\ lock'.cycle = IF lock.cycle = s THEN NoId ELSE lock.cycle
         /\ lock'.idle => lock.idle
         /\ cycle' = [cycle EXCEPT ![s] = status]
         /\ runner' = [runner EXCEPT ![s] = "off"]
         /\ cycle' \in [Starts -> CycleStatus]
         /\ runner' \in [Starts -> RunnerState]
         /\ queue' \in QueueTable /\ start' \in StartTable /\ draining' \in BOOLEAN
         /\ \A r \in Starts : start'[r] # start[r] => Unused(start, r)
<1>1. /\ queue' \in QueueTable /\ start' \in StartTable /\ draining' \in BOOLEAN
      /\ \A r \in Starts : start'[r] # start[r] => Unused(start, r)
  BY CloseHookEffect DEF EndRunner, TypeOK, QueueTable, StartTable
<1>2. /\ GoodRow(lock') /\ (lock.op # NoId => lock'.op = lock.op)
      /\ lock'.cycle = IF lock.cycle = s THEN NoId ELSE lock.cycle
      /\ lock'.idle => lock.idle
  BY CycleRelease DEF EndRunner, TypeOK, LockTypeOK, Starts
<1> QED
  BY <1>1, <1>2 DEF EndRunner, TypeOK, RunnerState

\* A runner's step ends it, records its end before the release, or is a turn.
Ends(s) ==
  \E status \in CycleStatus :
     /\ EndRunner(s, status)
     /\ status \in Active => /\ status = cycle[s]
                             /\ runner[s] = "release" \/ (runner[s] = "boundary" /\ status # "running")

Finishes(s) == \E status \in {"succeeded", "failed"} : FinishCycle(s, status)

Turns(s) == \/ RunnerStarts(s) \/ RunnerTools(s) \/ RunnerCloses(s)
            \/ (RunnerBoundary(s) /\ cycle[s] = "running")

LEMMA RunnerCases ==
  ASSUME TypeOK, NEW s \in Starts, RunnerStep(s) \/ RunnerCloses(s)
  PROVE  /\ runner[s] # "off"
         /\ \/ (Ends(s) \/ Finishes(s)) /\ UNCHANGED <<op, latest, chat, visits, crashes>>
            \/ Turns(s)
<1>1. CASE RunnerCrashes(s)
  BY <1>1 DEF RunnerCrashes, Finishes
<1>2. CASE RunnerFinishes(s)
  <2>1. CASE FinishCycle(s, "succeeded")
    BY <1>2, <2>1 DEF RunnerFinishes, Finishes
  <2>2. ASSUME NEW status \in {"failed", "interrupted", "blocked", "pending"}, EndRunner(s, status)
        PROVE  Ends(s)
    BY <2>2 DEF Ends, CycleStatus, Active
  <2> QED
    BY <1>2, <2>1, <2>2 DEF RunnerFinishes
<1>3. cycle[s] \in CycleStatus
  BY DEF TypeOK
<1>4. CASE RunnerReleases(s)
  BY <1>3, <1>4 DEF RunnerReleases, Ends
<1>5. CASE RunnerBoundary(s) /\ cycle[s] # "running"
  BY <1>3, <1>5 DEF RunnerBoundary, Ends
<1>6. CASE Turns(s)
  BY <1>6 DEF Turns, RunnerStarts, RunnerTools, RunnerCloses, RunnerBoundary
<1> QED
  BY <1>1, <1>2, <1>4, <1>5, <1>6 DEF RunnerStep, Turns

\* The record of an end leaves the checkout with the cycle.
LEMMA FinishEffect ==
  ASSUME TypeOK, NEW s \in Starts, NEW status \in {"succeeded", "failed"}, FinishCycle(s, status)
  PROVE  /\ cycle' = [cycle EXCEPT ![s] = status]
         /\ runner' = [runner EXCEPT ![s] = "release"]
         /\ cycle' \in [Starts -> CycleStatus]
         /\ runner' \in [Starts -> RunnerState]
         /\ UNCHANGED <<lock, queue, draining, start>>
  BY DEF FinishCycle, TypeOK, CycleStatus, RunnerState

\* The turns of a runner that do not end it.
LEMMA RunnerTurns ==
  ASSUME TypeOK, NEW s \in Starts, Turns(s)
  PROVE  /\ GoodRow(lock') /\ lock'.op = lock.op /\ lock'.cycle = lock.cycle
         /\ lock'.idle => lock.idle
         /\ runner[s] # "off"
         /\ \E to \in {"boundary", "model", "finish"} : runner' = [runner EXCEPT ![s] = to]
         /\ \/ cycle' = cycle /\ runner[s] \notin {"mirror", "release"}
            \/ cycle' = [cycle EXCEPT ![s] = "running"] /\ runner[s] = "mirror"
         /\ UNCHANGED <<op, queue, draining, start, latest, chat, visits, crashes>>
<1>1. GoodRow(lock)
  BY DEF TypeOK, LockTypeOK
<1>2. CASE RunnerStarts(s)
  BY <1>1, <1>2 DEF RunnerStarts
<1>3. CASE RunnerTools(s)
  BY <1>1, <1>3, TouchKeeps DEF RunnerTools
<1>4. CASE RunnerCloses(s)
  BY <1>1, <1>4 DEF RunnerCloses
<1>5. CASE RunnerBoundary(s) /\ cycle[s] = "running"
  BY <1>1, <1>5 DEF RunnerBoundary
<1> QED
  BY <1>2, <1>3, <1>4, <1>5 DEF Turns

\* The start of a build: what startBuild and proceedToBuild do to the lock.
LEMMA StartEffect ==
  ASSUME TypeOK, NEW s \in Starts, StartStep(s)
  PROVE  /\ TypeOK'
         /\ Unreserving
<1> USE DEF TypeOK, LockTypeOK
<1>1. CASE GatesRefuse(s)
  <2>1. [start EXCEPT ![s] = NoStart] \in StartTable
    BY FreshStartType DEF StartTable
  <2>2. ASSUME start[s].row # NoId
        PROVE  [queue EXCEPT ![start[s].row].status = "failed"] \in QueueTable
    BY <2>2 DEF QueueTable, QueueRow, RowStatus, Start
  <2>3. queue' \in QueueTable /\ start' \in StartTable /\ draining' \in BOOLEAN
    <3>1. CASE start[s].row # NoId
      BY <1>1, <2>1, <2>2, <3>1, DrainEffect DEF GatesRefuse
    <3>2. CASE start[s].row = NoId
      BY <1>1, <2>1, <3>2 DEF GatesRefuse, QueueTable
    <3> QED
      BY <3>1, <3>2
  <2> QED
    BY <1>1, <2>3 DEF GatesRefuse, QueueTable, StartTable, Unreserving
<1>2. CASE GatesPass(s)
  <2>1. cycle' \in [Starts -> CycleStatus] /\ latest' \in Starts \cup {NoId}
    BY <1>2 DEF GatesPass, CycleStatus
  <2>2. start' \in [Starts -> Start]
    BY <1>2 DEF GatesPass, Start, StartPC
  <2> QED
    BY <1>2, <2>1, <2>2 DEF GatesPass, Unreserving
<1>3. CASE InstallStarts(s)
  <2>1. start' \in [Starts -> Start]
    BY <1>3 DEF InstallStarts, Start, StartPC
  <2>2. GoodRow(lock') /\ (lock.op # NoId => lock'.op = lock.op)
    BY <1>3, AcquireByUser, QueueAssumption DEF InstallStarts, GoodRow
  <2> QED
    BY <1>3, <2>1, <2>2 DEF InstallStarts, Unreserving
<1>4. CASE DrainReturns(s)
  <2>1. start' \in [Starts -> Start]
    BY <1>4 DEF DrainReturns, Start
  <2>2. queue' \in [Rows -> QueueRow]
    <3>1. start[s].row \in Rows
      BY <1>4 DEF DrainReturns, Start
    <3>2. [queue[start[s].row] EXCEPT !.status = "started", !.req = s] \in QueueRow
      BY <3>1 DEF QueueRow, RowStatus
    <3>3. queue' = [queue EXCEPT ![start[s].row] =
                      [queue[start[s].row] EXCEPT !.status = "started", !.req = s]]
      BY <1>4, <3>1 DEF DrainReturns, QueueRow
    <3> QED
      BY <3>2, <3>3
  <2> QED
    BY <1>4, <2>1, <2>2 DEF DrainReturns, Unreserving
<1>5. CASE InstallEnds(s)
  <2>1. start' \in [Starts -> Start]
    BY <1>5 DEF InstallEnds, Start, StartPC
  <2>2. GoodRow(lock') /\ (lock.op # NoId => lock'.op = lock.op)
    BY <1>5, UserRelease, QueueAssumption DEF InstallEnds
  <2> QED
    BY <1>5, <2>1, <2>2 DEF InstallEnds, Unreserving
<1>6. CASE StartCycle(s)
  <2>1. start' \in [Starts -> Start]
    BY <1>6 DEF StartCycle, Start, StartPC
  <2>2. GoodRow(lock') /\ (lock.op # NoId => lock'.op = lock.op)
    BY <1>6, AcquireByCycle, HolderReads DEF StartCycle, GoodRow, Starts
  <2>3. cycle' \in [Starts -> CycleStatus] /\ latest' \in Starts \cup {NoId}
        /\ runner' \in [Starts -> RunnerState]
    BY <1>6 DEF StartCycle, CycleStatus, RunnerState
  <2> QED
    BY <1>6, <2>1, <2>2, <2>3 DEF StartCycle, Unreserving
<1> QED
  BY <1>1, <1>2, <1>4, <1>5, <1>3, <1>6 DEF StartStep

LEMMA StallEffect ==
  ASSUME TypeOK, NEW silent \in SUBSET Silent, StallSweep(silent)
  PROVE  /\ TypeOK'
         /\ Unreserving
         /\ lock'.cycle = IF lock.cycle \in silent THEN NoId ELSE lock.cycle
         /\ lock'.idle => lock.idle
         /\ \A s \in Starts : start'[s] # start[s] => Unused(start, s)
<1>1. /\ GoodRow(lock') /\ (lock.op # NoId => lock'.op = lock.op)
      /\ lock'.cycle = IF lock.cycle \in silent THEN NoId ELSE lock.cycle
      /\ lock'.idle => lock.idle
  <2>1. CASE lock.cycle \in silent
    <3>1. lock.cycle \in Cycles
      BY <2>1 DEF Silent, Starts
    <3> QED
      BY <2>1, <3>1, CycleRelease DEF StallSweep, TypeOK, LockTypeOK
  <2>2. CASE lock.cycle \notin silent
    BY <2>2 DEF StallSweep, TypeOK, LockTypeOK
  <2> QED
    BY <2>1, <2>2
<1>2. cycle' \in [Starts -> CycleStatus]
  BY DEF StallSweep, TypeOK, CycleStatus
<1> DEFINE q == RequeueOrphans(queue, cycle')
<1>3. q \in QueueTable
  BY RequeueType DEF TypeOK, QueueTable
<1> HIDE DEF q
<1>4. \/ EnterDrain(q, cycle', lock')
      \/ queue' = q /\ UNCHANGED <<draining, start>>
  BY DEF StallSweep, q
<1>5. /\ queue' \in QueueTable /\ start' \in StartTable /\ draining' \in BOOLEAN
      /\ \A s \in Starts : start'[s] # start[s] => Unused(start, s)
  BY <1>3, <1>4, EnterDrainEffect DEF TypeOK, StartTable
<1> QED
  BY <1>1, <1>2, <1>5 DEF StallSweep, TypeOK, LockTypeOK, QueueTable, StartTable, Unreserving

\* The places of a start that may still write its cycle.
InFlight == {"gates", "handoff", "install", "upgrade"}

LEMMA CrashEffect ==
  ASSUME TypeOK, Crash
  PROVE  /\ TypeOK'
         /\ lock'.cycle = NoId
         /\ lock.op # NoId => lock'.op = lock.op
         /\ \A t \in Tokens : op'[t].call # "open" /\ op'[t].remote = op[t].remote
         /\ \A s \in Starts : start'[s].pc \notin InFlight
<1> USE DEF TypeOK, LockTypeOK
<1>1. GoodRow(lock') /\ lock'.cycle = NoId /\ (lock.op # NoId => lock'.op = lock.op)
  BY BootKeeps DEF Crash
<1>2. op' \in [Tokens -> Operation]
      /\ \A t \in Tokens : op'[t].call # "open" /\ op'[t].remote = op[t].remote
  BY DEF Crash, Operation
<1>3. start' \in [Starts -> Start] /\ \A s \in Starts : start'[s].pc \notin InFlight
  <2>1. \A s \in Starts : [start[s] EXCEPT !.pc = "off", !.told = TRUE] \in Start
    BY DEF Start, StartPC
  <2>2. \A s \in Starts : /\ [start[s] EXCEPT !.pc = "off", !.told = TRUE].pc = "off"
                           /\ NoStart.pc = "none"
    BY DEF Start, NoStart
  <2> QED
    BY <2>1, <2>2, FreshStartType DEF Crash, InFlight
<1>4. cycle' \in [Starts -> CycleStatus] /\ runner' \in [Starts -> RunnerState]
  BY DEF Crash, CycleStatus, RunnerState
<1>5. crashes' \in 0..MaxCrashes /\ draining' \in BOOLEAN /\ chat' \subseteq Users
  <2>1. MaxCrashes \in Nat
    BY QueueAssumption
  <2>2. crashes \in 0..MaxCrashes /\ crashes < MaxCrashes /\ crashes' = crashes + 1
    BY DEF Crash
  <2>3. crashes' \in 0..MaxCrashes
    BY ONLY <2>1, <2>2
  <2> QED
    BY <2>3 DEF Crash
<1> QED
  BY <1>1, <1>2, <1>3, <1>4, <1>5 DEF Crash

------------------------------------------------------------------------------
LEMMA InitType == Init => TypeOK
<1> SUFFICES ASSUME Init PROVE TypeOK
  OBVIOUS
<1>1. LockTypeOK
  BY NoRowIsGood DEF Init, LockInit, LockTypeOK, Operation
<1>2. queue \in [Rows -> QueueRow] /\ start \in [Starts -> Start]
  BY FreshStartType DEF Init, QueueRow, RowStatus
<1>3. visits \in 0..MaxVisits /\ crashes \in 0..MaxCrashes
  <2>1. MaxVisits \in Nat /\ MaxCrashes \in Nat
    BY QueueAssumption
  <2> QED
    BY <2>1 DEF Init
<1> QED
  BY <1>1, <1>2, <1>3 DEF Init, TypeOK, CycleStatus, RunnerState

LEMMA NextType == TypeOK /\ [Next]_vars => TypeOK'
<1> SUFFICES ASSUME TypeOK, [Next]_vars PROVE TypeOK'
  OBVIOUS
<1> USE DEF TypeOK
<1>1. ASSUME NEW i \in Rows, EnqueueQuick(i) \/ CancelQueuedBuild(i)
      PROVE  TypeOK'
  <2>1. queue' \in [Rows -> QueueRow]
    BY <1>1 DEF EnqueueQuick, CancelQueuedBuild, WithRow, QueueRow, RowStatus
  <2> QED
    BY <1>1, <2>1 DEF EnqueueQuick, CancelQueuedBuild, LockTypeOK
<1>2. ASSUME NEW i \in Rows, EnqueueGroup(i)
      PROVE  TypeOK'
  <2>1. WithRow(i) \in QueueTable
    BY DEF WithRow, QueueTable, QueueRow, RowStatus
  <2>2. queue' \in QueueTable /\ start' \in StartTable /\ draining' \in BOOLEAN
    BY <1>2, <2>1, EnterDrainEffect DEF EnqueueGroup, StartTable
  <2> QED
    BY <1>2, <2>2 DEF EnqueueGroup, LockTypeOK, QueueTable, StartTable
<1>3. CASE PressBuild
  <2>1. start' \in [Starts -> Start]
    BY <1>3, FreshStartType DEF PressBuild
  <2>2. visits' \in 0..MaxVisits
    <3>1. MaxVisits \in Nat
      BY QueueAssumption
    <3> QED
      BY <1>3, <3>1 DEF PressBuild
  <2> QED
    BY <1>3, <2>1, <2>2 DEF PressBuild, LockTypeOK
<1>4. ASSUME NEW u \in Users, ChatStarts(u)
      PROVE  TypeOK'
  <2>1. GoodRow(lock')
    BY <1>4, AcquireByUser DEF ChatStarts, LockTypeOK, GoodRow
  <2>2. visits' \in 0..MaxVisits
    <3>1. MaxVisits \in Nat
      BY QueueAssumption
    <3> QED
      BY <1>4, <3>1 DEF ChatStarts
  <2> QED
    BY <1>4, <2>1, <2>2 DEF ChatStarts, LockTypeOK
<1>5. ASSUME NEW u \in Users, ChatEnds(u)
      PROVE  TypeOK'
  <2>1. GoodRow(lock')
    BY <1>5, UserRelease, TouchKeeps DEF ChatEnds, LockTypeOK
  <2> QED
    BY <1>5, <2>1 DEF ChatEnds, LockTypeOK
<1>6. ASSUME NEW t \in Tokens, ProjectWrite(t)
      PROVE  TypeOK'
  BY <1>6, StartReserves DEF ProjectWrite, queueVars
<1>7. ASSUME NEW t \in Tokens, OperationStep(t), UNCHANGED queueVars
      PROVE  TypeOK'
  BY <1>7, OperationEffect DEF queueVars
<1>8. ASSUME NEW s \in Starts, Abandon(s)
      PROVE  TypeOK'
  BY <1>8 DEF Abandon, CycleStatus, LockTypeOK
<1>9. ASSUME NEW s \in Starts, StartStep(s)
      PROVE  TypeOK'
  BY <1>9, StartEffect
<1>10. ASSUME NEW s \in Starts, RunnerStep(s) \/ RunnerCloses(s)
       PROVE  TypeOK'
  <2>1. CASE Ends(s) /\ UNCHANGED <<op, latest, chat, visits, crashes>>
    BY <2>1, EndRunnerEffect DEF Ends, LockTypeOK, QueueTable, StartTable
  <2>2. CASE Finishes(s) /\ UNCHANGED <<op, latest, chat, visits, crashes>>
    BY <2>2, FinishEffect DEF Finishes, LockTypeOK
  <2>3. CASE Turns(s)
    BY <2>3, RunnerTurns DEF LockTypeOK, RunnerState, CycleStatus
  <2> QED
    BY <1>10, <2>1, <2>2, <2>3, RunnerCases
<1>11. ASSUME NEW s \in Starts, NEW t \in Tokens, MirrorStarts(s, t)
       PROVE  TypeOK'
  BY <1>11, StartReserves DEF MirrorStarts, queueVars, Starts
<1>12. CASE PollDrain
  <2>1. queue' \in QueueTable /\ start' \in StartTable /\ draining' \in BOOLEAN
    BY <1>12, EnterDrainEffect DEF PollDrain, QueueTable, StartTable
  <2> QED
    BY <1>12, <2>1 DEF PollDrain, LockTypeOK, QueueTable, StartTable
<1>13. ASSUME NEW silent \in SUBSET Silent, StallSweep(silent)
       PROVE  TypeOK'
  BY <1>13, StallEffect
<1>14. CASE GoesIdle
  BY <1>14 DEF GoesIdle, queueVars, LockTypeOK, GoodRow, Row
<1>15. CASE SweepIdle \/ ForceRelease
  BY <1>15, ForceKeeps DEF SweepIdle, IdleSweep, ForceRelease, queueVars, LockTypeOK
<1>16. CASE Crash
  BY <1>16, CrashEffect
<1>17. CASE UNCHANGED vars
  BY <1>17 DEF vars, queueVars, LockTypeOK
<1> QED
  BY <1>1, <1>2, <1>3, <1>4, <1>5, <1>6, <1>7, <1>8, <1>9, <1>10, <1>11, <1>12, <1>13,
     <1>14, <1>15, <1>16, <1>17 DEF Next

\* Type correctness, and with it the shape of the row: one holder at most.
THEOREM TypeCorrect == Spec => []TypeOK
BY InitType, NextType, PTL DEF Spec

------------------------------------------------------------------------------
\* Project writes and their reservations

LEMMA UnreservingKeeps ==
  ASSUME ReservationHeld, Unreserving
  PROVE  ReservationHeld'
  BY IdAssumption DEF ReservationHeld, Unreserving

\* Every step but those of the project writes themselves, and the restart,
\* leaves the reservation in the row.
LEMMA OtherStepsUnreserving ==
  ASSUME TypeOK, Next
  PROVE  \/ Unreserving
         \/ \E t \in Tokens, c \in Cycles \cup {NoId} : OperationStarts(t, c)
         \/ \E t \in Tokens : OperationStep(t)
         \/ Crash
<1> USE DEF TypeOK, LockTypeOK, Unreserving
<1>1. ASSUME NEW i \in Rows, EnqueueQuick(i) \/ EnqueueGroup(i) \/ CancelQueuedBuild(i)
      PROVE  Unreserving
  BY <1>1 DEF EnqueueQuick, EnqueueGroup, CancelQueuedBuild
<1>2. CASE PressBuild \/ PollDrain
  BY <1>2 DEF PressBuild, PollDrain
<1>3. ASSUME NEW u \in Users, ChatStarts(u) \/ ChatEnds(u)
      PROVE  Unreserving
  BY <1>3, AcquireByUser, UserRelease, TouchKeeps DEF ChatStarts, ChatEnds, GoodRow
<1>4. ASSUME NEW s \in Starts, Abandon(s) \/ StartStep(s)
      PROVE  Unreserving
  BY <1>4, StartEffect DEF Abandon
<1>5. ASSUME NEW s \in Starts, RunnerStep(s) \/ RunnerCloses(s)
      PROVE  Unreserving
  <2>1. CASE Ends(s) /\ op' = op
    BY <2>1, EndRunnerEffect DEF Ends
  <2>2. CASE Finishes(s) /\ op' = op
    BY <2>2, FinishEffect DEF Finishes
  <2>3. CASE Turns(s)
    BY <2>3, RunnerTurns
  <2> QED
    BY <1>5, <2>1, <2>2, <2>3, RunnerCases
<1>6. ASSUME NEW silent \in SUBSET Silent, StallSweep(silent)
      PROVE  Unreserving
  BY <1>6, StallEffect
<1>7. CASE GoesIdle
  BY <1>7 DEF GoesIdle
<1>8. CASE SweepIdle \/ ForceRelease
  BY <1>8, ForceKeeps DEF SweepIdle, IdleSweep, ForceRelease
<1>9. ASSUME NEW s \in Starts, NEW t \in Tokens, MirrorStarts(s, t)
      PROVE  OperationStarts(t, s) /\ s \in Cycles
  BY <1>9 DEF MirrorStarts, Starts
<1>10. ASSUME NEW t \in Tokens, ProjectWrite(t)
       PROVE  OperationStarts(t, NoId)
  BY <1>10 DEF ProjectWrite
<1> QED
  BY <1>1, <1>2, <1>3, <1>4, <1>5, <1>6, <1>7, <1>8, <1>9, <1>10 DEF Next

\* A project write keeps the checkout until its outcome is known.
THEOREM ReservationsHold == Spec => []ReservationHeld
<1>1. Init => ReservationHeld
  BY DEF Init, LockInit, ReservationHeld
<1>2. TypeOK /\ ReservationHeld /\ [Next]_vars => ReservationHeld'
  <2> SUFFICES ASSUME TypeOK, ReservationHeld, [Next]_vars PROVE ReservationHeld'
    OBVIOUS
  <2>1. CASE Unreserving
    BY <2>1, UnreservingKeeps
  <2>2. ASSUME NEW t \in Tokens, NEW c \in Cycles \cup {NoId}, OperationStarts(t, c)
        PROVE  ReservationHeld'
    BY <2>2, StartReserves, IdAssumption DEF ReservationHeld, TypeOK
  <2>3. ASSUME NEW t \in Tokens, OperationStep(t)
        PROVE  ReservationHeld'
    BY <2>3, OperationEffect DEF TypeOK
  <2>4. CASE Crash
    BY <2>4, CrashEffect, IdAssumption DEF ReservationHeld
  <2>5. CASE UNCHANGED vars
    BY <2>5 DEF vars, ReservationHeld
  <2> QED
    BY <2>1, <2>2, <2>3, <2>4, <2>5, OtherStepsUnreserving
<1> QED
  BY <1>1, <1>2, TypeCorrect, PTL DEF Spec

------------------------------------------------------------------------------
\* The hold of a cycle

\* Every step but the ones of runners and of startCycle, and the restart,
\* leaves the runners alone and gives the checkout to no other cycle.
Handless == runner' = runner /\ lock'.cycle \in {lock.cycle, NoId}

LEMMA StartCycleEffect ==
  ASSUME TypeOK, NEW s \in Starts, StartCycle(s)
  PROVE  \/ Handless /\ lock' = lock /\ cycle' = cycle
         \/ /\ lock.cycle = NoId /\ lock'.cycle = s /\ ~lock'.idle
            /\ runner' = [runner EXCEPT ![s] = "mirror"]
            /\ cycle' = [cycle EXCEPT ![s] = "estimating"]
<1>1. lock \in Row
  BY DEF TypeOK, LockTypeOK, GoodRow
<1> QED
  BY <1>1, AcquireByCycle, HolderReads DEF StartCycle, Handless, Starts

LEMMA OtherStepsHandless ==
  ASSUME TypeOK, Next
  PROVE  \/ Handless
         \/ \E s \in Starts : RunnerStep(s) \/ RunnerCloses(s) \/ StartCycle(s)
         \/ Crash
<1> USE DEF TypeOK, LockTypeOK, Handless
<1>1. ASSUME NEW i \in Rows, EnqueueQuick(i) \/ EnqueueGroup(i) \/ CancelQueuedBuild(i)
      PROVE  Handless
  BY <1>1 DEF EnqueueQuick, EnqueueGroup, CancelQueuedBuild
<1>2. CASE PressBuild \/ PollDrain
  BY <1>2 DEF PressBuild, PollDrain
<1>3. ASSUME NEW u \in Users, ChatStarts(u) \/ ChatEnds(u)
      PROVE  Handless
  BY <1>3, AcquireByUser, UserRelease, TouchKeeps DEF ChatStarts, ChatEnds, GoodRow
<1>4. ASSUME NEW s \in Starts, Abandon(s) \/ GatesRefuse(s) \/ GatesPass(s) \/ DrainReturns(s)
      PROVE  Handless
  BY <1>4 DEF Abandon, GatesRefuse, GatesPass, DrainReturns
<1>5. ASSUME NEW s \in Starts, InstallStarts(s) \/ InstallEnds(s)
      PROVE  Handless
  BY <1>5, AcquireByUser, UserRelease, QueueAssumption DEF InstallStarts, InstallEnds, GoodRow
<1>6. ASSUME NEW silent \in SUBSET Silent, StallSweep(silent)
      PROVE  Handless
  BY <1>6, StallEffect DEF StallSweep
<1>7. CASE GoesIdle
  BY <1>7 DEF GoesIdle, queueVars, GoodRow, Row
<1>8. CASE SweepIdle \/ ForceRelease
  BY <1>8, ForceKeeps DEF SweepIdle, IdleSweep, ForceRelease, queueVars
<1>9. ASSUME NEW s \in Starts, NEW t \in Tokens, MirrorStarts(s, t)
      PROVE  Handless
  BY <1>9, StartReserves DEF MirrorStarts, queueVars, Starts
<1>10. ASSUME NEW t \in Tokens, ProjectWrite(t) \/ (OperationStep(t) /\ UNCHANGED queueVars)
       PROVE  Handless
  BY <1>10, StartReserves, OperationEffect DEF ProjectWrite, queueVars
<1> QED
  BY <1>1, <1>2, <1>3, <1>4, <1>5, <1>6, <1>7, <1>8, <1>9, <1>10 DEF Next, StartStep

\* No checkout is left to a cycle that nobody drives.
THEOREM NoCheckoutLeaks == Spec => []NoLeakedCheckout
<1>1. Init => NoLeakedCheckout
  BY NoRowIsGood DEF Init, LockInit, NoLeakedCheckout
<1>2. TypeOK /\ NoLeakedCheckout /\ [Next]_vars => NoLeakedCheckout'
  <2> SUFFICES ASSUME TypeOK, NoLeakedCheckout, [Next]_vars PROVE NoLeakedCheckout'
    OBVIOUS
  <2> USE DEF NoLeakedCheckout
  <2>1. CASE Handless
    BY <2>1 DEF Handless
  <2>2. ASSUME NEW s \in Starts, RunnerStep(s) \/ RunnerCloses(s)
        PROVE  NoLeakedCheckout'
    <3>1. CASE Ends(s)
      <4>1. PICK status \in CycleStatus : EndRunner(s, status)
        BY <3>1 DEF Ends
      <4>2. /\ lock'.cycle = IF lock.cycle = s THEN NoId ELSE lock.cycle
            /\ runner' = [runner EXCEPT ![s] = "off"]
        BY <4>1, EndRunnerEffect
      <4> QED
        BY <4>2 DEF TypeOK, LockTypeOK, GoodRow, Row, Starts
    <3>2. CASE Finishes(s)
      <4>1. PICK status \in {"succeeded", "failed"} : FinishCycle(s, status)
        BY <3>2 DEF Finishes
      <4>2. lock' = lock /\ runner' = [runner EXCEPT ![s] = "release"]
        BY <4>1, FinishEffect
      <4> QED
        BY <4>2 DEF TypeOK, LockTypeOK, GoodRow, Row, Starts
    <3>3. CASE Turns(s)
      BY <3>3, RunnerTurns DEF TypeOK, LockTypeOK, GoodRow, Row, Starts
    <3> QED
      BY <2>2, <3>1, <3>2, <3>3, RunnerCases
  <2>3. ASSUME NEW s \in Starts, StartCycle(s)
        PROVE  NoLeakedCheckout'
    BY <2>1, <2>3, StartCycleEffect DEF TypeOK
  <2>4. CASE Crash
    BY <2>4, CrashEffect
  <2>5. CASE UNCHANGED vars
    BY <2>5 DEF vars, queueVars
  <2> QED
    BY <2>1, <2>2, <2>3, <2>4, <2>5, OtherStepsHandless
<1> QED
  BY <1>1, <1>2, TypeCorrect, PTL DEF Spec

------------------------------------------------------------------------------
\* One build at a time, where no hold expires or is forced away under its cycle

\* The inductive invariant: the runner's place in its turn bounds what the cycle
\* can be, a start that may still write its cycle has no runner, and the
\* hold of a cycle does not expire.
RunnerOrder ==
  \A s \in Starts :
    /\ runner[s] = "mirror" => cycle[s] = "estimating"
    /\ runner[s] \in {"boundary", "model", "finish"} => cycle[s] \notin {"estimating", "none"}
    /\ runner[s] = "release" => cycle[s] \notin Active \cup {"none"}
    /\ start[s].pc \in InFlight => runner[s] = "off"

HoldFresh == lock.cycle # NoId => ~lock.idle

BuildInv == TypeOK /\ RunnerOrder /\ HoldFresh /\ LiveBuildHoldsCheckout

\* Steps that start no runner: new starts take unused cycles, and a cycle changes
\* only without a runner or to a status its runner may meet.
LEMMA OrderKept ==
  ASSUME TypeOK, RunnerOrder,
         \A s \in Starts : start'[s].pc \in InFlight => start[s].pc \in InFlight \/ cycle[s] = "none",
         \A s \in Starts : runner'[s] \in {runner[s], "off"},
         \A s \in Starts : \/ cycle'[s] = cycle[s]
                           \/ runner'[s] = "off"
                           \/ runner[s] # "mirror" /\ cycle'[s] \notin Active \cup {"none"}
  PROVE  RunnerOrder'
<1>1. \A s \in Starts : runner[s] \in {"off", "mirror", "boundary", "model", "finish", "release"}
  BY DEF TypeOK, RunnerState
<1> SUFFICES ASSUME NEW s \in Starts
    PROVE  /\ runner'[s] = "mirror" => cycle'[s] = "estimating"
           /\ runner'[s] \in {"boundary", "model", "finish"} => cycle'[s] \notin {"estimating", "none"}
           /\ runner'[s] = "release" => cycle'[s] \notin Active \cup {"none"}
           /\ start'[s].pc \in InFlight => runner'[s] = "off"
  BY DEF RunnerOrder
<1>2. cycle[s] = "none" => runner[s] = "off"
  BY <1>1 DEF RunnerOrder
<1> QED
  BY <1>1, <1>2 DEF RunnerOrder, Active

\* Steps that make no cycle active and take the checkout from no active one.
LEMMA HoldKept ==
  ASSUME HoldFresh, LiveBuildHoldsCheckout,
         lock'.cycle # NoId => lock'.cycle = lock.cycle,
         lock'.idle => lock.idle \/ lock.cycle = NoId,
         \A s \in Starts : cycle'[s] \in Active =>
            cycle[s] \in Active /\ (lock.cycle = s => lock'.cycle = s)
  PROVE  HoldFresh' /\ LiveBuildHoldsCheckout'
  BY DEF HoldFresh, LiveBuildHoldsCheckout

\* A drain leaves RunnerOrder alone.
LEMMA DrainKeepsOrder ==
  ASSUME TypeOK, RunnerOrder, start' \in StartTable,
         \A s \in Starts : start'[s] # start[s] => Unused(start, s),
         \A s \in Starts : runner'[s] \in {runner[s], "off"},
         \A s \in Starts : \/ cycle'[s] = cycle[s]
                           \/ runner'[s] = "off"
                           \/ runner[s] # "mirror" /\ cycle'[s] \notin Active \cup {"none"}
  PROVE  RunnerOrder'
<1>1. \A s \in Starts : start'[s].pc \in InFlight => start[s].pc \in InFlight \/ cycle[s] = "none"
  BY DEF Unused
<1> QED
  BY <1>1, OrderKept

\* No two build cycles are under way at once, and the one that is has the
\* checkout, unless the idle timer or an administrator may take it.
THEOREM OneBuildAtATime ==
  ASSUME Evictions \cap {"idle", "force"} = {}
  PROVE  Spec => []LiveBuildHoldsCheckout
<1>1. Init => BuildInv
  <2> SUFFICES ASSUME Init, TypeOK PROVE BuildInv
    BY InitType
  <2>1. RunnerOrder
    BY DEF Init, RunnerOrder, NoStart
  <2>2. HoldFresh /\ LiveBuildHoldsCheckout
    BY NoRowIsGood DEF Init, LockInit, HoldFresh, LiveBuildHoldsCheckout, Active
  <2> QED
    BY <2>1, <2>2 DEF BuildInv
<1>2. BuildInv /\ [Next]_vars => BuildInv'
  <2> SUFFICES ASSUME TypeOK, RunnerOrder, HoldFresh, LiveBuildHoldsCheckout, [Next]_vars,
                      TypeOK'
               PROVE  RunnerOrder' /\ HoldFresh' /\ LiveBuildHoldsCheckout'
    BY NextType DEF BuildInv
  <2>0. GoodRow(lock) /\ lock \in Row /\ cycle \in [Starts -> CycleStatus]
        /\ runner \in [Starts -> RunnerState] /\ start \in [Starts -> Start]
        /\ start' \in StartTable
    BY DEF TypeOK, LockTypeOK, GoodRow, StartTable
  <2>1. ASSUME NEW i \in Rows, EnqueueQuick(i) \/ CancelQueuedBuild(i)
        PROVE  RunnerOrder' /\ HoldFresh' /\ LiveBuildHoldsCheckout'
    BY <2>1 DEF EnqueueQuick, CancelQueuedBuild, RunnerOrder, HoldFresh, LiveBuildHoldsCheckout
  <2>2. ASSUME NEW i \in Rows, EnqueueGroup(i)
        PROVE  RunnerOrder' /\ HoldFresh' /\ LiveBuildHoldsCheckout'
    <3>1. WithRow(i) \in QueueTable
      BY DEF WithRow, QueueTable, QueueRow, RowStatus, TypeOK
    <3>2. \A s \in Starts : start'[s] # start[s] => Unused(start, s)
      BY <2>2, <3>1, EnterDrainEffect DEF EnqueueGroup, StartTable, TypeOK
    <3>3. UNCHANGED <<lock, runner, cycle>>
      BY <2>2 DEF EnqueueGroup
    <3> QED
      BY <2>0, <3>2, <3>3, DrainKeepsOrder, HoldKept
  <2>3. CASE PressBuild
    <3>1. \A s \in Starts : start'[s] # start[s] => Unused(start, s)
      BY <2>0, <2>3 DEF PressBuild, NextStart
    <3>2. UNCHANGED <<lock, runner, cycle>>
      BY <2>3 DEF PressBuild
    <3> QED
      BY <2>0, <3>1, <3>2, DrainKeepsOrder, HoldKept
  <2>4. CASE PollDrain
    <3>1. \A s \in Starts : start'[s] # start[s] => Unused(start, s)
      BY <2>4, EnterDrainEffect DEF PollDrain, QueueTable, StartTable, TypeOK
    <3>2. UNCHANGED <<lock, runner, cycle>>
      BY <2>4 DEF PollDrain
    <3> QED
      BY <2>0, <3>1, <3>2, DrainKeepsOrder, HoldKept
  <2>5. ASSUME NEW u \in Users, ChatStarts(u)
        PROVE  RunnerOrder' /\ HoldFresh' /\ LiveBuildHoldsCheckout'
    <3>1. lock.cycle = NoId /\ lock'.cycle = NoId
      BY <2>0, <2>5, AcquireByUser DEF ChatStarts, HoldFresh
    <3>2. UNCHANGED <<start, runner, cycle>>
      BY <2>5 DEF ChatStarts
    <3>3. RunnerOrder'
      BY <3>2 DEF RunnerOrder
    <3> QED
      BY <3>1, <3>2, <3>3 DEF HoldFresh, LiveBuildHoldsCheckout
  <2>6. ASSUME NEW u \in Users, ChatEnds(u)
        PROVE  RunnerOrder' /\ HoldFresh' /\ LiveBuildHoldsCheckout'
    <3>1. lock'.cycle = lock.cycle /\ (lock'.idle => lock.idle)
      BY <2>0, <2>6, UserRelease, TouchKeeps DEF ChatEnds
    <3>2. UNCHANGED <<start, runner, cycle>>
      BY <2>6 DEF ChatEnds
    <3> QED
      BY <3>1, <3>2, HoldKept DEF RunnerOrder
  <2>7. ASSUME \/ \E t \in Tokens : ProjectWrite(t) \/ (OperationStep(t) /\ UNCHANGED queueVars)
               \/ \E s \in Starts, t \in Tokens : MirrorStarts(s, t)
        PROVE  RunnerOrder' /\ HoldFresh' /\ LiveBuildHoldsCheckout'
    <3>1. lock'.cycle = lock.cycle /\ (lock'.idle => lock.idle)
      BY <2>7, StartReserves, OperationEffect DEF ProjectWrite, MirrorStarts, TypeOK, Starts
    <3>2. UNCHANGED <<start, runner, cycle>>
      BY <2>7 DEF ProjectWrite, MirrorStarts, queueVars
    <3> QED
      BY <3>1, <3>2, HoldKept DEF RunnerOrder
  <2>8. ASSUME NEW s \in Starts, Abandon(s)
        PROVE  RunnerOrder' /\ HoldFresh' /\ LiveBuildHoldsCheckout'
    <3>1. cycle[s] = "blocked" /\ cycle' = [cycle EXCEPT ![s] = "abandoned"]
          /\ UNCHANGED <<lock, start, runner>>
      BY <2>8 DEF Abandon
    <3>2. RunnerOrder'
      BY <2>0, <3>1 DEF RunnerOrder, Active
    <3>3. \A r \in Starts : cycle'[r] \in Active => cycle[r] \in Active
      BY <2>0, <3>1 DEF Active
    <3> QED
      BY <3>1, <3>2, <3>3, HoldKept
  <2>9. ASSUME NEW s \in Starts, GatesRefuse(s)
        PROVE  RunnerOrder' /\ HoldFresh' /\ LiveBuildHoldsCheckout'
    <3> DEFINE st == [start EXCEPT ![s] = NoStart]
    <3>1. st \in StartTable
      BY <2>0, FreshStartType DEF StartTable
    <3>2. ASSUME start[s].row # NoId
          PROVE  [queue EXCEPT ![start[s].row].status = "failed"] \in QueueTable
      <4>1. start[s].row \in Rows /\ queue \in [Rows -> QueueRow]
        BY <2>0, <3>2 DEF Start, TypeOK
      <4>2. [queue[start[s].row] EXCEPT !.status = "failed"] \in QueueRow
        BY <4>1 DEF QueueRow, RowStatus
      <4> QED
        BY <4>1, <4>2 DEF QueueTable
    <3>3. \A r \in Starts : start'[r] # st[r] => Unused(st, r)
      BY <2>9, <3>1, <3>2, DrainEffect DEF GatesRefuse
    <3>4. UNCHANGED <<lock, runner, cycle>>
      BY <2>9 DEF GatesRefuse
    <3>5. \A r \in Starts : start'[r].pc \in InFlight => start[r].pc \in InFlight \/ cycle[r] = "none"
      BY <2>0, <3>3 DEF Unused, NoStart, InFlight
    <3> HIDE DEF st
    <3> QED
      BY <3>4, <3>5, OrderKept, HoldKept
  <2>10. ASSUME NEW s \in Starts, GatesPass(s)
         PROVE  RunnerOrder' /\ HoldFresh' /\ LiveBuildHoldsCheckout'
    <3>1. /\ start[s].pc = "gates" /\ runner' = runner
          /\ cycle' = [cycle EXCEPT ![s] = "defined"]
          /\ \A r \in Starts : r # s => start'[r] = start[r]
      BY <2>0, <2>10 DEF GatesPass
    <3>2. RunnerOrder'
      BY <2>0, <3>1 DEF RunnerOrder, InFlight
    <3>3. \A r \in Starts : cycle'[r] \in Active => cycle[r] \in Active
      BY <2>0, <3>1 DEF Active
    <3> QED
      BY <2>10, <3>2, <3>3, HoldKept DEF GatesPass
  <2>11. ASSUME NEW s \in Starts, InstallStarts(s)
         PROVE  RunnerOrder' /\ HoldFresh' /\ LiveBuildHoldsCheckout'
    <3>1. /\ start[s].pc \in InFlight
          /\ \A r \in Starts : r # s => start'[r] = start[r]
          /\ UNCHANGED <<runner, cycle>>
      BY <2>0, <2>11 DEF InstallStarts, InFlight
    <3>2. RunnerOrder'
      BY <3>1 DEF RunnerOrder
    <3>3. CASE lock' = lock
      BY <3>1, <3>2, <3>3, HoldKept
    <3>4. CASE MayAcquire(lock, User(Builder)) /\ lock' = AcquireLock(lock, User(Builder))
      <4>1. lock.cycle = NoId /\ lock'.cycle = NoId
        BY <2>0, <3>4, AcquireByUser, QueueAssumption DEF HoldFresh
      <4> QED
        BY <3>1, <3>2, <4>1 DEF HoldFresh, LiveBuildHoldsCheckout
    <3> QED
      BY <2>11, <3>3, <3>4 DEF InstallStarts
  <2>12. ASSUME NEW s \in Starts, DrainReturns(s)
         PROVE  RunnerOrder' /\ HoldFresh' /\ LiveBuildHoldsCheckout'
    <3>1. UNCHANGED <<lock, runner, cycle>> /\ \A r \in Starts : start'[r].pc = start[r].pc
      BY <2>0, <2>12 DEF DrainReturns, Start
    <3> QED
      BY <3>1, OrderKept, HoldKept
  <2>13. ASSUME NEW s \in Starts, InstallEnds(s)
         PROVE  RunnerOrder' /\ HoldFresh' /\ LiveBuildHoldsCheckout'
    <3>1. /\ start[s].pc \in InFlight
          /\ \A r \in Starts : r # s => start'[r] = start[r]
          /\ UNCHANGED <<runner, cycle>>
      BY <2>0, <2>13 DEF InstallEnds, InFlight
    <3>2. RunnerOrder'
      BY <3>1 DEF RunnerOrder
    <3>3. lock'.cycle = lock.cycle /\ (lock'.idle => lock.idle)
      BY <2>0, <2>13, UserRelease, QueueAssumption DEF InstallEnds
    <3> QED
      BY <3>1, <3>2, <3>3, HoldKept
  <2>14. ASSUME NEW s \in Starts, StartCycle(s)
         PROVE  RunnerOrder' /\ HoldFresh' /\ LiveBuildHoldsCheckout'
    <3>1. start'[s].pc \notin InFlight /\ \A r \in Starts : r # s => start'[r] = start[r]
      BY <2>0, <2>14 DEF StartCycle, Start, InFlight
    <3>2. CASE Handless /\ lock' = lock /\ cycle' = cycle
      <4>1. RunnerOrder'
        BY <3>1, <3>2 DEF RunnerOrder, Handless
      <4> QED
        BY <3>2, <4>1, HoldKept
    <3>3. CASE /\ lock.cycle = NoId /\ lock'.cycle = s /\ ~lock'.idle
               /\ runner' = [runner EXCEPT ![s] = "mirror"]
               /\ cycle' = [cycle EXCEPT ![s] = "estimating"]
      <4>1. RunnerOrder'
        BY <2>0, <3>1, <3>3 DEF RunnerOrder
      <4>2. \A r \in Starts : r # s => cycle'[r] \notin Active
        BY <2>0, <3>3, IdAssumption DEF LiveBuildHoldsCheckout, Starts
      <4> QED
        BY <3>3, <4>1, <4>2 DEF HoldFresh, LiveBuildHoldsCheckout
    <3> QED
      BY <2>14, <3>2, <3>3, StartCycleEffect
  <2>15. ASSUME NEW s \in Starts, Ends(s)
         PROVE  RunnerOrder' /\ HoldFresh' /\ LiveBuildHoldsCheckout'
    <3>1. PICK status \in CycleStatus :
            /\ EndRunner(s, status)
            /\ status \in Active => /\ status = cycle[s]
                                    /\ \/ runner[s] = "release"
                                       \/ (runner[s] = "boundary" /\ status # "running")
      BY <2>15 DEF Ends
    <3>2. status \notin Active
      BY <3>1 DEF Active, RunnerOrder
    <3>3. /\ lock'.cycle = IF lock.cycle = s THEN NoId ELSE lock.cycle
          /\ lock'.idle => lock.idle
          /\ cycle' = [cycle EXCEPT ![s] = status]
          /\ runner' = [runner EXCEPT ![s] = "off"]
          /\ \A r \in Starts : start'[r] # start[r] => Unused(start, r)
      BY <3>1, EndRunnerEffect
    <3>4. RunnerOrder'
      BY <2>0, <3>3, DrainKeepsOrder
    <3> QED
      BY <2>0, <3>2, <3>3, <3>4, HoldKept
  <2>16. ASSUME NEW s \in Starts, Finishes(s), runner[s] # "off"
         PROVE  RunnerOrder' /\ HoldFresh' /\ LiveBuildHoldsCheckout'
    <3>1. PICK status \in {"succeeded", "failed"} : FinishCycle(s, status)
      BY <2>16 DEF Finishes
    <3>2. /\ cycle' = [cycle EXCEPT ![s] = status]
          /\ runner' = [runner EXCEPT ![s] = "release"]
          /\ UNCHANGED <<lock, start>>
      BY <3>1, FinishEffect
    <3>3. status \notin Active \cup {"none"}
      BY DEF Active
    <3>4. RunnerOrder'
      BY <2>0, <2>16, <3>2, <3>3 DEF RunnerOrder
    <3> QED
      BY <2>0, <3>2, <3>3, <3>4, HoldKept
  <2>17. ASSUME NEW s \in Starts, Turns(s)
         PROVE  RunnerOrder' /\ HoldFresh' /\ LiveBuildHoldsCheckout'
    <3>1. /\ lock'.cycle = lock.cycle /\ (lock'.idle => lock.idle)
          /\ runner[s] # "off" /\ start' = start
          /\ \E to \in {"boundary", "model", "finish"} : runner' = [runner EXCEPT ![s] = to]
          /\ \/ cycle' = cycle /\ runner[s] \notin {"mirror", "release"}
             \/ cycle' = [cycle EXCEPT ![s] = "running"] /\ runner[s] = "mirror"
      BY <2>17, RunnerTurns
    <3>2. runner[s] \in {"mirror", "boundary", "model", "finish"}
      BY <2>0, <3>1 DEF RunnerState
    <3>3. RunnerOrder'
      BY <2>0, <3>1, <3>2 DEF RunnerOrder
    <3>4. \A r \in Starts : cycle'[r] \in Active => cycle[r] \in Active
      BY <2>0, <3>1 DEF Active, RunnerOrder
    <3> QED
      BY <3>1, <3>3, <3>4, HoldKept
  <2>18. ASSUME NEW silent \in SUBSET Silent, StallSweep(silent)
         PROVE  RunnerOrder' /\ HoldFresh' /\ LiveBuildHoldsCheckout'
    <3>1. /\ lock'.cycle = IF lock.cycle \in silent THEN NoId ELSE lock.cycle
          /\ lock'.idle => lock.idle
          /\ \A s \in Starts : start'[s] # start[s] => Unused(start, s)
      BY <2>18, StallEffect
    <3>2. /\ runner' = runner
          /\ cycle' = [s \in Starts |-> IF s \in silent THEN "interrupted" ELSE cycle[s]]
          /\ \A s \in silent : runner[s] \in {"model", "finish"}
      BY <2>18 DEF StallSweep, Silent
    <3>3. RunnerOrder'
      BY <2>0, <3>1, <3>2, DrainKeepsOrder DEF Active
    <3>4. \A s \in Starts : cycle'[s] \in Active => s \notin silent /\ cycle[s] \in Active
      BY <3>2 DEF Active
    <3> QED
      BY <3>1, <3>3, <3>4, HoldKept
  <2>19. CASE GoesIdle
    <3>1. lock.cycle = NoId /\ lock'.cycle = NoId
      BY <2>0, <2>19 DEF GoesIdle, AtWork, GoodRow, Row
    <3>2. UNCHANGED <<start, runner, cycle>>
      BY <2>19 DEF GoesIdle, queueVars
    <3>3. RunnerOrder'
      BY <3>2 DEF RunnerOrder
    <3> QED
      BY <3>1, <3>2, <3>3 DEF HoldFresh, LiveBuildHoldsCheckout
  <2>20. CASE SweepIdle
    <3>1. lock.cycle = NoId /\ lock'.cycle = NoId
      BY <2>0, <2>20, HolderReads, ForceKeeps DEF SweepIdle, IdleSweep
    <3>2. UNCHANGED <<start, runner, cycle>>
      BY <2>20 DEF SweepIdle, queueVars
    <3>3. RunnerOrder'
      BY <3>2 DEF RunnerOrder
    <3> QED
      BY <3>1, <3>2, <3>3 DEF HoldFresh, LiveBuildHoldsCheckout
  <2>21. CASE ForceRelease
    BY <2>21 DEF ForceRelease
  <2>22. CASE Crash
    <3>1. /\ lock'.cycle = NoId
          /\ runner' = [s \in Starts |-> "off"]
          /\ cycle' = [s \in Starts |-> IF cycle[s] \in Active THEN "failed" ELSE cycle[s]]
          /\ \A s \in Starts : start'[s].pc \notin InFlight
      BY <2>22, CrashEffect DEF Crash
    <3>2. RunnerOrder'
      BY <3>1 DEF RunnerOrder
    <3> QED
      BY <3>1, <3>2 DEF HoldFresh, LiveBuildHoldsCheckout, Active
  <2>23. CASE UNCHANGED vars
    BY <2>23 DEF vars, queueVars, RunnerOrder, HoldFresh, LiveBuildHoldsCheckout
  <2>24. ASSUME NEW s \in Starts, RunnerStep(s) \/ RunnerCloses(s)
         PROVE  RunnerOrder' /\ HoldFresh' /\ LiveBuildHoldsCheckout'
    BY <2>15, <2>16, <2>17, <2>24, RunnerCases
  <2>25. ASSUME NEW s \in Starts, StartStep(s)
         PROVE  RunnerOrder' /\ HoldFresh' /\ LiveBuildHoldsCheckout'
    BY <2>9, <2>10, <2>11, <2>12, <2>13, <2>14, <2>25 DEF StartStep
  <2> QED
    BY <2>1, <2>2, <2>3, <2>4, <2>5, <2>6, <2>7, <2>8, <2>18, <2>19, <2>20, <2>21, <2>22,
       <2>23, <2>24, <2>25 DEF Next
<1>3. BuildInv => LiveBuildHoldsCheckout
  BY DEF BuildInv
<1> QED
  BY <1>1, <1>2, <1>3, PTL DEF Spec
=============================================================================
