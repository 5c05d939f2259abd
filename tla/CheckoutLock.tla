---------------------------- MODULE CheckoutLock ----------------------------
(***************************************************************************)
(* The checkout lock of one mock2 project (admin/backend/src/mock2/locks.js *)
(* and lock-logic.js): the project's row of mock2_locks and the operations  *)
(* on it, and the remote project writes (checkout-operation.js and          *)
(* task-files.js) that reserve the checkout until their outcome is known.   *)
(*                                                                          *)
(* A row names at most one user or cycle; an operation reservation stands   *)
(* alone or is attached to the cycle that owns the checkout.  Time is the   *)
(* field idle: last_write_at is older than the idle timeout.  The absent    *)
(* row is the record with no holder.  Roles and the takeover request, which *)
(* changes nothing but a banner, are left out.                              *)
(***************************************************************************)
EXTENDS Integers

CONSTANTS
  Users,      \* users.id of the people who may hold the checkout
  Cycles,     \* mock2_cycles.id of the build cycles
  Tokens,     \* the random tokens of operation reservations
  NoId        \* SQL NULL

ASSUME IdAssumption == NoId \notin Users \cup Cycles \cup Tokens

VARIABLES
  lock,       \* the project's mock2_locks row
  op          \* the remote project writes, by token

Row == [user : Users \cup {NoId}, cycle : Cycles \cup {NoId},
        op : Tokens \cup {NoId}, unsure : BOOLEAN, idle : BOOLEAN]

NoRow == [user |-> NoId, cycle |-> NoId, op |-> NoId,
          unsure |-> FALSE, idle |-> FALSE]

\* by: the cycle whose task mirror this is.  call: whether the caller in the
\* backend still waits.  remote: what the command in the container does.
Operation == [by : Cycles \cup {NoId}, call : {"none", "open", "closed"},
              remote : {"idle", "writing", "ended"}]

------------------------------------------------------------------------------
\* lockHolder, mayAcquire and the row each function of locks.js writes

User(u) == [type |-> "user", id |-> u]
Cycle(c) == [type |-> "cycle", id |-> c]
Nobody == [type |-> "none", id |-> NoId]

LockHolder(row) ==
  CASE row.op # NoId -> [type |-> "operation", id |-> row.op]
    [] row.op = NoId /\ row.cycle # NoId -> Cycle(row.cycle)
    [] row.op = NoId /\ row.cycle = NoId /\ row.user # NoId -> User(row.user)
    [] OTHER -> Nobody

Free(row) == LockHolder(row) = Nobody

MayAcquire(row, h) == row.op = NoId /\ (Free(row) \/ LockHolder(row) = h \/ row.idle)

\* Faulty variant of AcquireLock: the update keeps the column of the previous holder.
AcquireKeeping(row, h) ==
  [row EXCEPT !.user = IF h.type = "user" THEN h.id ELSE row.user,
              !.cycle = IF h.type = "cycle" THEN h.id ELSE row.cycle, !.idle = FALSE]

AcquireLock(row, h) ==
  [NoRow EXCEPT !.user = IF h.type = "user" THEN h.id ELSE NoId,
                !.cycle = IF h.type = "cycle" THEN h.id ELSE NoId]

TouchLock(row, h) == IF LockHolder(row) = h THEN [row EXCEPT !.idle = FALSE] ELSE row

\* A cycle that releases under its own attached operation leaves the operation
\* in the row, its outcome unknown.
ReleaseLock(row, h) ==
  CASE row.op # NoId /\ h = Cycle(row.cycle) -> [row EXCEPT !.cycle = NoId, !.unsure = TRUE]
    [] row.op = NoId /\ h = LockHolder(row) -> NoRow
    [] OTHER -> row

\* releaseLock with no holder: the administrator's release and the idle sweep
ForceReleased(row) == IF row.op # NoId THEN row ELSE NoRow

MayReserve(row, c) == LockHolder(row) = IF c = NoId THEN Nobody ELSE Cycle(c)

Reserved(row, c, t) ==
  IF c = NoId THEN [NoRow EXCEPT !.op = t] ELSE [row EXCEPT !.op = t, !.unsure = FALSE]

MarkedUncertain(row, t) == IF row.op = t THEN [row EXCEPT !.unsure = TRUE] ELSE row

Settled(row, t) ==
  CASE row.op # t -> row
    [] row.op = t /\ row.cycle = NoId /\ row.user = NoId -> NoRow
    [] OTHER -> [row EXCEPT !.op = NoId, !.unsure = FALSE, !.idle = FALSE]

\* Faulty variant of BootSwept: the sweep forgets the reservations of the old process.
BootSweptAll(row) == IF row.cycle # NoId \/ row.op # NoId THEN NoRow ELSE row

\* sweepMock2OnBoot on the row.  The user and cycle columns are never both set,
\* so the row it deletes is a cycle's.
BootSwept(row) ==
  CASE row.op # NoId -> [row EXCEPT !.cycle = NoId, !.unsure = TRUE]
    [] row.op = NoId /\ row.cycle # NoId -> NoRow
    [] OTHER -> row

------------------------------------------------------------------------------
\* Remote project writes: acquire, dispatch, and one of three ends

LockInit ==
  /\ lock = NoRow
  /\ op = [t \in Tokens |-> [by |-> NoId, call |-> "none", remote |-> "idle"]]

OperationStarts(t, c) ==
  /\ op[t].call = "none"
  /\ MayReserve(lock, c)
  /\ lock' = Reserved(lock, c, t)
  /\ op' = [op EXCEPT ![t].by = c, ![t].call = "open"]

Dispatch(t) ==
  /\ op[t].call = "open"
  /\ op[t].remote = "idle"
  /\ op' = [op EXCEPT ![t].remote = "writing"]
  /\ UNCHANGED lock

\* The command in the container ends, whether or not anyone still waits for it.
RemoteEnds(t) ==
  /\ op[t].remote = "writing"
  /\ op' = [op EXCEPT ![t].remote = "ended"]
  /\ UNCHANGED lock

\* Nothing was dispatched, or its completion was acknowledged: settle.
OperationSettles(t) ==
  /\ op[t].call = "open"
  /\ op[t].remote # "writing"
  /\ lock' = Settled(lock, t)
  /\ op' = [op EXCEPT ![t].call = "closed"]

\* A timeout, a lost answer or an untracked error: the caller gives up and the
\* command, if one was sent, may go on.
OperationLost(t) ==
  /\ op[t].call = "open"
  /\ lock' = MarkedUncertain(lock, t)
  /\ op' = [op EXCEPT ![t].call = "closed"]

OperationStep(t) ==
  \/ Dispatch(t)
  \/ RemoteEnds(t)
  \/ OperationSettles(t)
  \/ OperationLost(t)

\* sweepMock2Locks: every 60 seconds, idle holds of people only
IdleSweep ==
  /\ lock.idle
  /\ LockHolder(lock).type = "user"
  /\ lock' = ForceReleased(lock)
  /\ UNCHANGED op

\* One holder at most, and an operation beside none but its cycle.
GoodRow(row) ==
  /\ row \in Row
  /\ row.user = NoId \/ row.cycle = NoId
  /\ row.op # NoId => row.user = NoId

LockTypeOK ==
  /\ GoodRow(lock)
  /\ op \in [Tokens -> Operation]

\* A project write that is under way, or whose command may still be running in
\* the container, owns the checkout: no clock, administrator, cycle release or
\* restart frees it (locks.js:117-119, db.js:82-84).
ReservationHeld ==
  \A t \in Tokens :
    op[t].call = "open" \/ op[t].remote = "writing" => lock.op = t
=============================================================================
