----------------------------- MODULE GuestProofs -----------------------------
(***************************************************************************)
(* Theorems about what SetupEngine's jobs do to the guest and what they    *)
(* leave on record of it, for every number of runners, jobs, requests and  *)
(* claims.                                                                 *)
(***************************************************************************)
EXTENDS SetupEngineProofs

-----------------------------------------------------------------------------
(* The moves of a runner. *)

Moved(r) ==
    /\ OnlyOwnRow(r)
    /\ wk'[r].job = wk[r].job
    /\ wk'[r].epoch = wk[r].epoch
SameEnd(r) == wk'[r].status = wk[r].status /\ wk'[r].outcome = wk[r].outcome

LEMMA GotoMove ==
    ASSUME WorkInv, NEW r \in Runners, NEW pc, Goto(r, pc)
    PROVE  Moved(r) /\ SameEnd(r) /\ wk'[r].reap = wk[r].reap /\ wk'[r].pc = pc
BY DEF WorkInv, WorkTable, WorkRow, Goto, Moved, SameEnd, OnlyOwnRow

LEMMA SettleMove ==
    ASSUME WorkInv, NEW r \in Runners, NEW status, NEW outcome, NEW owed,
           Settle(r, status, outcome, owed)
    PROVE  /\ Moved(r) /\ wk'[r].reap = wk[r].reap
           /\ wk'[r].pc = IF owed THEN "followup" ELSE "finish"
           /\ wk'[r].status = status /\ wk'[r].outcome = outcome
BY DEF WorkInv, WorkTable, WorkRow, Settle, Moved, OnlyOwnRow

LEMMA ReapedMove ==
    ASSUME WorkInv, NEW r \in Runners, NEW reap, Reaped(r, reap)
    PROVE  Moved(r) /\ SameEnd(r) /\ wk'[r].reap = reap /\ wk'[r].pc = AfterReap(r)
BY DEF WorkInv, WorkTable, WorkRow, Reaped, Moved, SameEnd, OnlyOwnRow

LEMMA ExitedMove ==
    ASSUME WorkInv, NEW r \in Runners, NEW outcome, Exited(r, outcome)
    PROVE  /\ Moved(r) /\ wk'[r].reap = wk[r].reap /\ wk'[r].pc = "readback"
           /\ wk'[r].status = wk[r].status /\ wk'[r].outcome = outcome
BY DEF WorkInv, WorkTable, WorkRow, Exited, Moved, OnlyOwnRow

LEMMA IssueMove ==
    ASSUME WorkInv, NEW r \in Runners, NEW ph, Issue(r, ph)
    PROVE  /\ Moved(r) /\ SameEnd(r) /\ wk'[r].reap = wk[r].reap
           /\ wk[r].pc = ph /\ wk'[r].pc = ph
BY DEF WorkInv, WorkTable, WorkRow, Issue, At, Moved, SameEnd, OnlyOwnRow

LEMMA FencedMove ==
    ASSUME WorkInv, NEW r \in Runners, Fenced(r)
    PROVE  Moved(r) /\ SameEnd(r) /\ wk'[r].reap = wk[r].reap /\ wk'[r].pc = "release"
BY DEF WorkInv, WorkTable, WorkRow, Fenced, Moved, SameEnd, OnlyOwnRow

LEMMA ReapAgainMove ==
    ASSUME WorkInv, NEW r \in Runners, ReapAgain(r)
    PROVE  Moved(r) /\ SameEnd(r) /\ wk'[r].reap = "again" /\ wk'[r].pc = "reap"
BY DEF WorkInv, WorkTable, WorkRow, ReapAgain, Awaits, Moved, SameEnd, OnlyOwnRow

LEMMA WriterAliveMove ==
    ASSUME WorkInv, NEW r \in Runners, PreviousWriterAlive(r)
    PROVE  /\ Moved(r) /\ wk'[r].reap = wk[r].reap /\ wk'[r].pc = "finish"
           /\ wk'[r].status = "recovery_required"
BY DEF WorkInv, WorkTable, WorkRow, PreviousWriterAlive, Moved, OnlyOwnRow

LEMMA LeaseMove ==
    ASSUME WorkInv, NEW r \in Runners, AcquireLock(r) \/ TakeoverLock(r)
    PROVE  /\ Moved(r) /\ SameEnd(r) /\ wk'[r].reap = wk[r].reap
           /\ wk[r].pc = "lease" /\ wk'[r].pc = FirstPhase(jobs[wk[r].job].kind)
<1>0. wk \in [Runners -> WorkRow] /\ wk[r] \in WorkRow
  BY DEF WorkInv, WorkTable
<1>1. CASE AcquireLock(r)
  <2> DEFINE e == IF lock.owner = NoOne THEN 1 ELSE lock.epoch
  <2>1. wk' = [wk EXCEPT ![r].pc = FirstPhase(jobs[wk[r].job].kind), ![r].lockEpoch = e]
    BY <1>1 DEF AcquireLock
  <2> HIDE DEF e
  <2> QED
    BY <1>0, <1>1, <2>1 DEF AcquireLock, WorkRow, At, Moved, SameEnd, OnlyOwnRow
<1>2. CASE TakeoverLock(r)
  <2> DEFINE e == lock.epoch + 1
  <2>1. wk' = [wk EXCEPT ![r].pc = FirstPhase(jobs[wk[r].job].kind), ![r].lockEpoch = e]
    BY <1>2 DEF TakeoverLock
  <2> HIDE DEF e
  <2> QED
    BY <1>0, <1>2, <2>1 DEF TakeoverLock, WorkRow, At, Moved, SameEnd, OnlyOwnRow
<1> QED
  BY <1>1, <1>2

LEMMA ClaimMove ==
    ASSUME WorkInv, NEW r \in Runners, NEW j \in Jobs, ClaimNextJob(r, j)
    PROVE  /\ OnlyOwnRow(r) /\ wk'[r].pc = "lease" /\ wk'[r].job = j
           /\ wk'[r].epoch = jobs[j].epoch + 1
           /\ wk'[r].reap = "none" /\ wk'[r].status = "failed" /\ wk'[r].outcome = "none"
<1> DEFINE e == jobs[j].epoch + 1
<1>1. wk' = [wk EXCEPT ![r] = [Idle EXCEPT !.pc = "lease", !.job = j, !.epoch = e]]
  BY DEF ClaimNextJob
<1> HIDE DEF e
<1>2. OnlyOwnRow(r) /\ wk'[r] = [Idle EXCEPT !.pc = "lease", !.job = j, !.epoch = e]
  BY <1>1 DEF WorkInv, WorkTable, OnlyOwnRow
<1>3. wk'[r].epoch = e
  BY <1>2 DEF Idle
<1> QED
  BY <1>2, <1>3 DEF Idle, e

LEMMA ReadMove ==
    ASSUME WorkInv, NEW r \in Runners, NEW j \in Jobs, Reconcile(r, j)
    PROVE  /\ OnlyOwnRow(r) /\ wk'[r].pc \in {"rc_follow", "rc_record"} /\ wk'[r].job = j
           /\ wk'[r].act = ReconcileDecision(jobs[j].cp)
           /\ wk'[r].reap = "none" /\ wk'[r].status = "failed"
<1>1. OnlyOwnRow(r) /\ wk'[r] = Read(j, ReconcileDecision(jobs[j].cp))
  BY DEF Reconcile, WorkInv, WorkTable, OnlyOwnRow
<1> QED
  BY <1>1 DEF Read, Idle

LEMMA FollowMove ==
    ASSUME WorkInv, NEW r \in Runners, ReconcileFollow(r)
    PROVE  /\ Moved(r) /\ SameEnd(r) /\ wk'[r].reap = wk[r].reap
           /\ wk[r].pc = "rc_follow" /\ wk'[r].pc = "rc_record" /\ wk'[r].act = wk[r].act
BY DEF WorkInv, WorkTable, WorkRow, ReconcileFollow, At, Moved, SameEnd, OnlyOwnRow

LEMMA IdleMove ==
    ASSUME WorkInv, NEW r \in Runners, wk' = [wk EXCEPT ![r] = Idle]
    PROVE  OnlyOwnRow(r) /\ wk'[r] = Idle /\ wk'[r].pc = "idle" /\ wk'[r].status = "failed"
BY DEF WorkInv, WorkTable, OnlyOwnRow, Idle

(* The steps after which a runner has nothing in hand. *)
LEMMA LeavesMove ==
    ASSUME WorkInv, NEW r \in Runners,
           Crash(r) \/ Busy(r) \/ MarkStale(r) \/ ReleaseLock(r) \/ ReconcileLock(r)
    PROVE  OnlyOwnRow(r) /\ wk'[r] = Idle /\ wk'[r].pc = "idle" /\ wk'[r].status = "failed"
BY IdleMove DEF Crash, Busy, MarkStale, ReleaseLock, ReconcileLock

-----------------------------------------------------------------------------
(***************************************************************************)
(* Containment.  WriterContained speaks of a worker on the guest; the       *)
(* invariant keeps its count through the whole of its operation, and adds   *)
(* that one runner at a time has anything in hand (LeaseInv), so no other   *)
(* starts a command beside it.                                              *)
(***************************************************************************)
ReapInv == \A r \in Runners : wk[r].pc # "idle" /\ wk[r].reap = "counted" => Survivors(r) = {}

StartsOnlyOwn(r) == \A e \in pend' \ pend : e.job = wk[r].job

LEMMA OthersIdle ==
    ASSUME LeaseInv, NEW r \in Runners, proc[r] = "up", OnlyOwnRow(r)
    PROVE  \A q \in Runners \ {r} : wk[q].pc = "idle" /\ wk'[q].pc = "idle"
BY DEF LeaseInv, OneUp, DownIsIdle, OnlyOwnRow

LEMMA ReapKept ==
    ASSUME LeaseInv, ReapInv, NEW r \in Runners, proc[r] = "up", OnlyOwnRow(r),
           \/ wk'[r].pc = "idle"
           \/ wk'[r].reap # "counted"
           \/ Survivors(r)' = {}
           \/ /\ wk[r].pc # "idle" /\ Moved(r) /\ wk'[r].reap = wk[r].reap
              /\ StartsOnlyOwn(r)
    PROVE  ReapInv'
<1>1. \A q \in Runners \ {r} : wk'[q].pc = "idle"
  BY OthersIdle
<1>2. ASSUME wk[r].pc # "idle", Moved(r), wk'[r].reap = wk[r].reap, StartsOnlyOwn(r),
             wk'[r].reap = "counted"
      PROVE  Survivors(r)' = {}
  <2>1. Survivors(r) = {}
    BY <1>2 DEF ReapInv
  <2> QED
    BY <1>2, <2>1 DEF Survivors, StartsOnlyOwn, Moved
<1> QED
  BY <1>1, <1>2 DEF ReapInv

(* The steps of an operation that leave its count alone. *)
LEMMA CountStays ==
    ASSUME TypeInv, NEW r \in Runners,
           \/ AcquireLock(r) \/ TakeoverLock(r) \/ (\E ph \in Phases : Issue(r, ph))
           \/ Fenced(r) \/ HonourCancel(r)
           \/ (DeployStep(r) /\ ~ReapCounted(r) /\ ~ReapBlind(r) /\ ~ReapAgain(r))
           \/ RecoverStep(r) \/ LifecycleStep(r) \/ QueueFollowUp(r) \/ Finish(r)
           \/ ReconcileFollow(r) \/ ReconcileRecord(r)
    PROVE  proc[r] = "up" /\ wk[r].pc # "idle" /\ Moved(r) /\ wk'[r].reap = wk[r].reap
<1>0. WorkInv /\ Guarded \in BOOLEAN
  BY FlagsAssumption DEF TypeInv
<1>1. CASE \/ AcquireLock(r) \/ TakeoverLock(r) \/ (\E ph \in Phases : Issue(r, ph))
           \/ Fenced(r) \/ ReconcileFollow(r)
  <2>1. proc[r] = "up" /\ wk[r].pc # "idle"
    BY <1>1 DEF AcquireLock, TakeoverLock, Issue, Fenced, ReconcileFollow, At, Phases, Contained
  <2> QED
    BY <1>0, <1>1, <2>1, LeaseMove, IssueMove, FencedMove, FollowMove
<1>2. CASE HonourCancel(r)
  BY <1>0, <1>2, SettleMove DEF HonourCancel, At, SafePhases
<1>3. CASE DeployStep(r) /\ ~ReapCounted(r) /\ ~ReapBlind(r) /\ ~ReapAgain(r)
  <2>1. proc[r] = "up" /\ wk[r].pc # "idle"
    BY <1>3
    DEF DeployStep, PreviousWriterAlive, BuildDone, NoContract,
        BuildFailed, MarkStop, StopDone, MigrateDone, SwapDone, HealthDone, DeployStepFailed,
        HealthFailed, RestartUnitDone, ContainmentUnavailable, At, Awaits, Contained
  <2>2. CASE \/ BuildDone(r) \/ MarkStop(r) \/ StopDone(r) \/ MigrateDone(r) \/ SwapDone(r)
             \/ DeployStepFailed(r)
    BY <1>0, <2>1, <2>2, GotoMove
    DEF BuildDone, MarkStop, StopDone, MigrateDone, SwapDone, DeployStepFailed
  <2>3. CASE NoContract(r) \/ BuildFailed(r) \/ HealthDone(r) \/ HealthFailed(r)
             \/ RestartUnitDone(r) \/ ContainmentUnavailable(r)
    <3>1. \E status, outcome, owed : Settle(r, status, outcome, owed)
      BY <2>3
      DEF NoContract, BuildFailed, HealthDone, HealthFailed, RestartUnitDone,
          ContainmentUnavailable
    <3> QED
      BY <1>0, <2>1, <3>1, SettleMove
  <2> QED
    BY <1>0, <1>3, <2>1, <2>2, <2>3, WriterAliveMove DEF DeployStep
<1>4. CASE RecoverStep(r)
  BY <1>0, <1>4, GotoMove, SettleMove
  DEF RecoverStep, StatusDone, StartDone, ProbeDone, Awaits
<1>5. CASE LifecycleStep(r)
  BY <1>0, <1>5, GotoMove, SettleMove, ExitedMove
  DEF LifecycleStep, QueryDone, QueryFailed, MarkIssue, VerbDone, VerbFailed, ReadBack, At, Awaits
<1>6. CASE QueueFollowUp(r) \/ Finish(r) \/ ReconcileRecord(r)
  BY <1>0, <1>6, GotoMove DEF QueueFollowUp, Finish, ReconcileRecord, At
<1> QED
  BY <1>1, <1>2, <1>3, <1>4, <1>5, <1>6

LEMMA ReapInvNext ==
    TypeInv /\ LeaseInv /\ ReapInv /\ [Next]_vars => ReapInv'
<1> SUFFICES ASSUME TypeInv, LeaseInv, ReapInv, [Next]_vars PROVE ReapInv'
  OBVIOUS
<1>0. WorkInv
  BY DEF TypeInv
<1>1. ASSUME wk' = wk, pend' \subseteq pend PROVE ReapInv'
  BY <1>1 DEF ReapInv, Survivors
<1>2. ASSUME NEW r \in Runners, ExecutorStep(r) \/ ReconcileStep(r) PROVE ReapInv'
  <2>1. CASE Busy(r) \/ MarkStale(r) \/ ReleaseLock(r) \/ ReconcileLock(r)
    <3>1. proc[r] = "up"
      BY <2>1 DEF Busy, MarkStale, ReleaseLock, ReconcileLock, At
    <3> QED
      BY <1>0, <2>1, <3>1, LeavesMove, ReapKept
  <2>2. ASSUME NEW j \in Jobs, ClaimNextJob(r, j) PROVE ReapInv'
    <3>1. proc[r] = "up" /\ OnlyOwnRow(r) /\ wk'[r].reap = "none"
      BY <1>0, <2>2, ClaimMove DEF ClaimNextJob, At
    <3> QED
      BY <3>1, ReapKept
  <2>3. ASSUME NEW j \in Jobs, Reconcile(r, j) PROVE ReapInv'
    <3>1. proc[r] = "up" /\ OnlyOwnRow(r) /\ wk'[r].reap = "none"
      BY <1>0, <2>3, ReadMove DEF Reconcile, At
    <3> QED
      BY <3>1, ReapKept
  <2>4. CASE ReapBlind(r) \/ ReapAgain(r)
    <3>1. proc[r] = "up" /\ OnlyOwnRow(r) /\ wk'[r].reap # "counted"
      BY <1>0, <2>4, ReapedMove, ReapAgainMove DEF ReapBlind, ReapAgain, Awaits, Moved
    <3> QED
      BY <3>1, ReapKept
  <2>5. CASE ReapCounted(r)
    <3>1. proc[r] = "up" /\ Moved(r)
      BY <1>0, <2>5, ReapedMove DEF ReapCounted, Awaits
    <3>2. Survivors(r)' = {}
      BY <2>5, <3>1 DEF ReapCounted, Survivors, Moved
    <3> QED
      BY <3>1, <3>2, ReapKept DEF Moved
  <2>6. ASSUME NEW ph \in Phases, Issue(r, ph) PROVE ReapInv'
    <3>1. proc[r] = "up" /\ wk[r].pc # "idle" /\ Moved(r) /\ wk'[r].reap = wk[r].reap
      BY <2>6, CountStays
    <3>2. StartsOnlyOwn(r)
      BY <2>6 DEF Issue, Command, StartsOnlyOwn
    <3> QED
      BY <3>1, <3>2, ReapKept DEF Moved
  <2>7. ASSUME \/ AcquireLock(r) \/ TakeoverLock(r) \/ Fenced(r) \/ HonourCancel(r)
               \/ (DeployStep(r) /\ ~ReapCounted(r) /\ ~ReapBlind(r) /\ ~ReapAgain(r))
               \/ RecoverStep(r) \/ LifecycleStep(r) \/ QueueFollowUp(r) \/ Finish(r)
               \/ ReconcileFollow(r) \/ ReconcileRecord(r)
        PROVE ReapInv'
    <3>1. proc[r] = "up" /\ wk[r].pc # "idle" /\ Moved(r) /\ wk'[r].reap = wk[r].reap
      BY <2>7, CountStays
    <3>2. pend' \subseteq pend
      BY <2>7, OthersStartNothing DEF TakeJob, RecordStep, ReconcileStep
    <3>3. StartsOnlyOwn(r)
      BY <3>2 DEF StartsOnlyOwn
    <3> QED
      BY <3>1, <3>3, ReapKept DEF Moved
  <2> QED
    BY <1>2, <2>1, <2>2, <2>3, <2>4, <2>5, <2>6, <2>7
    DEF ExecutorStep, TakeJob, RecordStep, ReconcileStep
<1>3. ASSUME NEW r \in Runners, Start(r) PROVE ReapInv'
  BY <1>1, <1>3 DEF Start
<1>4. ASSUME NEW r \in Runners, Crash(r) PROVE ReapInv'
  <2>1. proc[r] = "up" /\ OnlyOwnRow(r) /\ wk'[r].pc = "idle"
    BY <1>0, <1>4, LeavesMove DEF Crash
  <2> QED
    BY <2>1, ReapKept
<1>5. CASE ExpireLock \/ \E j \in Jobs : ExpireJob(j)
  BY <1>1, <1>5 DEF ExpireLock, ExpireJob
<1>6. CASE \E e \in pend : OrphanRuns(e)
  BY <1>1, <1>6, FailEffectEnds DEF OrphanRuns
<1>7. CASE OperatorStep
  BY <1>1, <1>7
  DEF OperatorStep, SubmitDeploy, RequestRecovery, SubmitRestart, Retry, RequestCancel,
      AcknowledgeUncertainJob
<1>8. CASE UNCHANGED vars
  BY <1>1, <1>8 DEF vars
<1> QED
  BY <1>2, <1>3, <1>4, <1>5, <1>6, <1>7, <1>8 DEF Next

(***************************************************************************)
(* Where one runner runs at a time: after a reap that counted no survivor,  *)
(* no contained command of another job runs beside this job's, whatever     *)
(* dead runners left in the guest (executor.js, containment).               *)
(***************************************************************************)
THEOREM NoWriterBeside ==
    ASSUME Overlap = FALSE
    PROVE  Spec => []WriterContained
<1>1. Init => ReapInv
  BY DEF Init, ReapInv, Idle
<1>2. Spec => []ReapInv
  BY <1>1, TypeInvAlways, LeaseInvAlways, ReapInvNext, PTL DEF Spec
<1>3. ReapInv => WriterContained
  BY DEF ReapInv, WriterContained, Working, Phases, Contained
<1> QED
  BY <1>2, <1>3, PTL

-----------------------------------------------------------------------------
(***************************************************************************)
(* Claims of one job.  Runners may overlap: a slow owner's job is requeued *)
(* and claimed again while that owner still works.  The invariant says of  *)
(* every worker that its claim is at most the row's, and that no two       *)
(* workers have the same claim of a job; so a worker beside a later claim  *)
(* has lost its own.                                                       *)
(***************************************************************************)
ClaimOf(r) ==
    /\ jobs[wk[r].job].status # "none"
    /\ wk[r].epoch <= jobs[wk[r].job].epoch
    /\ \A q \in Runners \ {r} :
          Executing(q) /\ wk[q].job = wk[r].job => wk[q].epoch # wk[r].epoch
ClaimInv == \A r \in Runners : Executing(r) => ClaimOf(r)

ClaimsGrow == \A j \in Jobs : jobs[j].status # "none" =>
                 jobs'[j].status # "none" /\ jobs[j].epoch <= jobs'[j].epoch
KeepsClaim(r) == Executing(r)' => /\ Executing(r)
                                  /\ wk'[r].job = wk[r].job
                                  /\ wk'[r].epoch = wk[r].epoch
RowsStand == \A j \in Jobs : jobs[j].status # "none" => jobs'[j] = jobs[j]

(* No row vanishes and no claim number is given twice (store.js). *)
LEMMA ClaimsOnlyGrow == ASSUME TypeInv, Next PROVE ClaimsGrow
<1>0. \A j \in Jobs : jobs[j].epoch \in Nat /\ jobs'[j].epoch \in Nat
  <2>1. TypeInv'
    BY TypeInvNext
  <2> QED
    BY <2>1 DEF TypeInv, JobTable, JobRow
<1>1. ASSUME NEW j \in Jobs, jobs[j].status # "none", LegalMove(j)
      PROVE  jobs'[j].status # "none" /\ jobs[j].epoch <= jobs'[j].epoch
  BY <1>0, <1>1 DEF LegalMove, NextRow, TERMINAL_STATUS
<1>2. CASE OpenRowWritten
  BY <1>0, <1>1, <1>2 DEF OpenRowWritten, ClaimsGrow
<1>3. ASSUME NEW j \in Jobs, AcknowledgeUncertainJob(j) PROVE ClaimsGrow
  BY <1>0, <1>3, AcknowledgeWrites DEF ClaimsGrow
<1> QED
  BY <1>2, <1>3, EveryWrite

(* Every step but a claim leaves a worker its claim, or takes it off it. *)
LEMMA OperationKeepsClaim ==
    ASSUME TypeInv, NEW r \in Runners,
           \/ AcquireLock(r) \/ TakeoverLock(r) \/ (\E ph \in Phases : Issue(r, ph))
           \/ Fenced(r) \/ HonourCancel(r) \/ DeployStep(r) \/ RecoverStep(r)
           \/ LifecycleStep(r) \/ QueueFollowUp(r) \/ Finish(r)
    PROVE  Moved(r) /\ Executing(r)
<1>0. WorkInv
  BY DEF TypeInv
<1>1. Moved(r)
  <2>1. CASE ReapCounted(r) \/ ReapBlind(r) \/ ReapAgain(r)
    BY <1>0, <2>1, ReapedMove, ReapAgainMove DEF ReapCounted, ReapBlind
  <2> QED
    BY <2>1, CountStays
<1> USE DEF Executing, PastLease, Phases, Contained, At, Awaits
<1>2. CASE AcquireLock(r) \/ TakeoverLock(r) \/ QueueFollowUp(r) \/ Finish(r)
  BY <1>1, <1>2 DEF AcquireLock, TakeoverLock, QueueFollowUp, Finish
<1>3. CASE (\E ph \in Phases : Issue(r, ph)) \/ Fenced(r) \/ HonourCancel(r)
  BY <1>1, <1>3 DEF Issue, Fenced, HonourCancel, SafePhases
<1>4. CASE DeployStep(r)
  BY <1>1, <1>4
  DEF DeployStep, ReapCounted, ReapBlind, ReapAgain, PreviousWriterAlive, BuildDone, NoContract,
      BuildFailed, MarkStop, StopDone, MigrateDone, SwapDone, HealthDone, DeployStepFailed,
      HealthFailed, RestartUnitDone, ContainmentUnavailable
<1>5. CASE RecoverStep(r) \/ LifecycleStep(r)
  BY <1>1, <1>5
  DEF RecoverStep, StatusDone, StartDone, ProbeDone, LifecycleStep, QueryDone, QueryFailed,
      MarkIssue, VerbDone, VerbFailed, ReadBack
<1> QED
  BY <1>2, <1>3, <1>4, <1>5

LEMMA StepsKeepClaim ==
    ASSUME TypeInv, NEW r \in Runners, ExecutorStep(r) \/ ReconcileStep(r) \/ Crash(r),
           ~\E j \in Jobs : ClaimNextJob(r, j)
    PROVE  OnlyOwnRow(r) /\ KeepsClaim(r)
<1>0. WorkInv
  BY DEF TypeInv
<1>1. CASE \/ AcquireLock(r) \/ TakeoverLock(r) \/ (\E ph \in Phases : Issue(r, ph))
           \/ Fenced(r) \/ HonourCancel(r) \/ DeployStep(r) \/ RecoverStep(r)
           \/ LifecycleStep(r) \/ QueueFollowUp(r) \/ Finish(r)
  BY <1>1, OperationKeepsClaim DEF Moved, KeepsClaim
<1>2. ASSUME OnlyOwnRow(r), wk'[r].pc \in {"idle", "rc_follow", "rc_record", "rc_lock"}
      PROVE  OnlyOwnRow(r) /\ KeepsClaim(r)
  BY <1>2 DEF KeepsClaim, Executing, PastLease, Phases, Contained
<1>3. CASE Busy(r) \/ MarkStale(r) \/ ReleaseLock(r) \/ ReconcileLock(r) \/ Crash(r)
  BY <1>0, <1>2, <1>3, LeavesMove
<1>4. CASE ReconcileFollow(r) \/ ReconcileRecord(r)
  BY <1>0, <1>2, <1>4, FollowMove, GotoMove DEF ReconcileRecord, Moved
<1>5. ASSUME NEW j \in Jobs, Reconcile(r, j) PROVE OnlyOwnRow(r) /\ KeepsClaim(r)
  BY <1>0, <1>2, <1>5, ReadMove
<1> QED
  BY <1>1, <1>3, <1>4, <1>5 DEF ExecutorStep, TakeJob, RecordStep, ReconcileStep

LEMMA ClaimsStay ==
    ASSUME TypeInv, ClaimInv, ClaimsGrow, TypeInv', \A r \in Runners : KeepsClaim(r)
    PROVE  ClaimInv'
<1> SUFFICES ASSUME NEW r \in Runners, Executing(r)' PROVE ClaimOf(r)'
  BY DEF ClaimInv
<1>1. ClaimOf(r) /\ wk'[r].job = wk[r].job /\ wk'[r].epoch = wk[r].epoch
  BY DEF ClaimInv, KeepsClaim
<1>2. wk[r].job \in Jobs
  BY DEF KeepsClaim, Executing, PastLease, Phases, Contained, TypeInv, WorkInv, JobInHand
<1>3. jobs'[wk[r].job].status # "none"
  BY <1>1, <1>2 DEF ClaimOf, ClaimsGrow
<1>4. wk[r].epoch <= jobs'[wk[r].job].epoch
  <2>1. /\ wk[r].epoch \in Nat /\ jobs[wk[r].job].epoch \in Nat
        /\ jobs'[wk[r].job].epoch \in Nat
    BY <1>2 DEF TypeInv, WorkInv, WorkTable, WorkRow, JobTable, JobRow
  <2>2. wk[r].epoch <= jobs[wk[r].job].epoch /\ jobs[wk[r].job].epoch <= jobs'[wk[r].job].epoch
    BY <1>1, <1>2 DEF ClaimOf, ClaimsGrow
  <2> QED
    BY <2>1, <2>2
<1>5. ASSUME NEW q \in Runners \ {r}, Executing(q)', wk'[q].job = wk'[r].job
      PROVE  wk'[q].epoch # wk'[r].epoch
  <2>1. Executing(q) /\ wk'[q].job = wk[q].job /\ wk'[q].epoch = wk[q].epoch
    BY <1>5 DEF KeepsClaim
  <2> QED
    BY <1>1, <1>5, <2>1 DEF ClaimOf
<1> QED
  BY <1>1, <1>3, <1>4, <1>5 DEF ClaimOf

(* A claim is later than every claim some worker still has (claimNextJob). *)
LEMMA NewClaim ==
    ASSUME TypeInv, ClaimInv, ClaimsGrow, TypeInv', NEW r \in Runners, NEW j \in Jobs,
           ClaimNextJob(r, j)
    PROVE  ClaimInv'
<1>0. /\ WorkInv
      /\ jobs[j].epoch \in Nat /\ jobs'[j].epoch = jobs[j].epoch + 1 /\ jobs'[j].status # "none"
  BY DEF TypeInv, JobTable, JobRow, ClaimNextJob
<1>1. /\ OnlyOwnRow(r) /\ wk'[r].job = j /\ wk'[r].epoch = jobs[j].epoch + 1
  BY <1>0, ClaimMove
<1>2. ASSUME NEW q \in Runners \ {r}
      PROVE  /\ wk'[q] = wk[q] /\ (Executing(q)' => Executing(q))
             /\ Executing(q) => wk[q].job \in Jobs
  BY <1>0, <1>1 DEF OnlyOwnRow, Executing, PastLease, Phases, Contained, WorkInv, JobInHand
<1>3. ASSUME NEW q \in Runners \ {r}, Executing(q), wk[q].job = j
      PROVE  wk[q].epoch < jobs[j].epoch + 1
  <2>1. wk[q].epoch \in Nat /\ wk[q].epoch <= jobs[j].epoch
    BY <1>0, <1>3 DEF ClaimInv, ClaimOf, WorkInv, WorkTable, WorkRow
  <2> QED
    BY <1>0, <2>1
<1>4. ClaimOf(r)'
  <2>1. \A q \in Runners \ {r} :
           Executing(q)' /\ wk'[q].job = wk'[r].job => wk'[q].epoch # wk'[r].epoch
    BY <1>0, <1>1, <1>2, <1>3 DEF WorkInv, WorkTable, WorkRow
  <2> QED
    BY <1>0, <1>1, <2>1 DEF ClaimOf
<1>5. ASSUME NEW q \in Runners \ {r}, Executing(q)' PROVE ClaimOf(q)'
  <2>1. ClaimOf(q) /\ wk'[q] = wk[q] /\ wk[q].job \in Jobs
    BY <1>2, <1>5 DEF ClaimInv
  <2>2. /\ wk[q].epoch \in Nat /\ jobs[wk[q].job].epoch \in Nat
        /\ jobs'[wk[q].job].epoch \in Nat
    BY <2>1 DEF TypeInv, WorkInv, WorkTable, WorkRow, JobTable, JobRow
  <2>3. jobs'[wk[q].job].status # "none" /\ wk[q].epoch <= jobs'[wk[q].job].epoch
    BY <2>1, <2>2 DEF ClaimOf, ClaimsGrow
  <2>4. wk'[r].job = wk'[q].job => wk'[r].epoch # wk'[q].epoch
    BY <1>0, <1>1, <1>2, <1>3, <1>5, <2>1, <2>2
  <2>5. \A p \in Runners \ {q, r} :
           Executing(p)' /\ wk'[p].job = wk'[q].job => wk'[p].epoch # wk'[q].epoch
    BY <1>2, <2>1 DEF ClaimOf
  <2> QED
    BY <2>1, <2>3, <2>4, <2>5 DEF ClaimOf
<1> QED
  BY <1>4, <1>5 DEF ClaimInv

LEMMA ClaimInvNext == TypeInv /\ ClaimInv /\ [Next]_vars => ClaimInv'
<1> SUFFICES ASSUME TypeInv, ClaimInv, [Next]_vars PROVE ClaimInv'
  OBVIOUS
<1>0. TypeInv'
  BY TypeInvNext
<1>1. CASE UNCHANGED vars
  BY <1>1 DEF vars, ClaimInv, ClaimOf, Executing, PastLease
<1>2. CASE Next
  <2>0. ClaimsGrow
    BY <1>2, ClaimsOnlyGrow
  <2>1. CASE wk' = wk
    <3>1. \A r \in Runners : KeepsClaim(r)
      BY <2>1 DEF KeepsClaim, Executing, PastLease
    <3> QED
      BY <1>0, <2>0, <3>1, ClaimsStay
  <2>2. ASSUME NEW r \in Runners, ExecutorStep(r) \/ ReconcileStep(r) \/ Crash(r) PROVE ClaimInv'
    <3>1. ASSUME NEW j \in Jobs, ClaimNextJob(r, j) PROVE ClaimInv'
      BY <1>0, <2>0, <3>1, NewClaim
    <3>2. CASE ~\E j \in Jobs : ClaimNextJob(r, j)
      <4>1. OnlyOwnRow(r) /\ KeepsClaim(r)
        BY <2>2, <3>2, StepsKeepClaim
      <4>2. \A q \in Runners : KeepsClaim(q)
        BY <4>1 DEF OnlyOwnRow, KeepsClaim, Executing, PastLease
      <4> QED
        BY <1>0, <2>0, <4>2, ClaimsStay
    <3> QED
      BY <3>1, <3>2
  <2>3. (\E r \in Runners : ExecutorStep(r) \/ ReconcileStep(r) \/ Crash(r)) \/ wk' = wk
    BY <1>2
    DEF Next, Start, ExpireJob, ExpireLock, OrphanRuns, OperatorStep, SubmitDeploy,
        RequestRecovery, SubmitRestart, Retry, RequestCancel, AcknowledgeUncertainJob
  <2> QED
    BY <2>1, <2>2, <2>3
<1> QED
  BY <1>1, <1>2

(* A worker that has lost its claim writes no row and starts no command. *)
LEMMA LostClaimActs ==
    ASSUME TypeInv, NEW r \in Runners, PastLease(r), ~Claimed(r),
           ExecutorStep(r) \/ ReconcileStep(r) \/ Crash(r)
    PROVE  (wk'[r].await => wk[r].await) /\ RowsStand
<1>0. WorkInv /\ wk \in [Runners -> WorkRow] /\ wk[r] \in WorkRow
  BY DEF TypeInv, WorkInv, WorkTable
<1>1. wk[r].pc \notin {"idle", "lease", "rc_follow", "rc_record", "rc_lock"}
  BY DEF PastLease, Phases, Contained
<1>2. CASE ReconcileStep(r) \/ TakeJob(r) \/ HonourCancel(r) \/ \E ph \in Phases : Issue(r, ph)
  BY <1>1, <1>2
  DEF ReconcileStep, Reconcile, ReconcileFollow, ReconcileRecord, ReconcileLock, TakeJob,
      ClaimNextJob, Busy, AcquireLock, TakeoverLock, HonourCancel, Issue, FenceJob, At
<1>3. CASE Fenced(r)
  BY <1>0, <1>3 DEF Fenced, RowsStand, WorkRow
<1>4. CASE Crash(r) \/ MarkStale(r) \/ ReleaseLock(r)
  BY <1>0, <1>4 DEF Crash, MarkStale, ReleaseLock, Idle, RowsStand
<1>5. CASE DeployStep(r)
  <2>1. jobs' = jobs
    BY <1>5
    DEF DeployStep, ReapCounted, ReapBlind, ReapAgain, PreviousWriterAlive, BuildDone,
        NoContract, BuildFailed, MarkStop, StopDone, MigrateDone, SwapDone, HealthDone,
        DeployStepFailed, HealthFailed, RestartUnitDone, ContainmentUnavailable, Checkpoint
  <2>2. ~wk'[r].await
    BY <1>0, <1>5
    DEF DeployStep, ReapCounted, ReapBlind, ReapAgain, PreviousWriterAlive, BuildDone,
        NoContract, BuildFailed, MarkStop, StopDone, MigrateDone, SwapDone, HealthDone,
        DeployStepFailed, HealthFailed, RestartUnitDone, ContainmentUnavailable, Goto, Settle,
        Reaped, WorkRow
  <2> QED
    BY <2>1, <2>2 DEF RowsStand
<1>6. CASE RecoverStep(r) \/ LifecycleStep(r)
  <2>1. jobs' = jobs
    BY <1>6
    DEF RecoverStep, StatusDone, StartDone, ProbeDone, LifecycleStep, QueryDone, QueryFailed,
        MarkIssue, VerbDone, VerbFailed, ReadBack, Checkpoint
  <2>2. ~wk'[r].await
    BY <1>0, <1>6
    DEF RecoverStep, StatusDone, StartDone, ProbeDone, LifecycleStep, QueryDone, QueryFailed,
        MarkIssue, VerbDone, VerbFailed, ReadBack, Goto, Settle, Exited, WorkRow
  <2> QED
    BY <2>1, <2>2 DEF RowsStand
<1>7. CASE QueueFollowUp(r)
  BY <1>0, <1>7 DEF QueueFollowUp, NextRow, Goto, RowsStand, WorkRow, TypeInv, JobTable
<1>8. CASE Finish(r)
  BY <1>0, <1>8 DEF Finish, FinishJob, Goto, RowsStand, WorkRow
<1> QED
  BY <1>2, <1>3, <1>4, <1>5, <1>6, <1>7, <1>8 DEF ExecutorStep, RecordStep

LaterPrevails ==
    \A r \in Runners : (PastLease(r) /\ Overtaken(r) /\ wk'[r] # wk[r]) =>
        /\ wk'[r].await => wk[r].await
        /\ \A j \in Jobs : jobs[j].status # "none" => jobs'[j] = jobs[j]

(***************************************************************************)
(* Of two workers of one job only the one with the later claim starts       *)
(* commands and writes records; no assumption on how many runners overlap   *)
(* or how often a job is requeued under a living owner (executor.js fence,  *)
(* store.js checkpoint, finishJob).                                         *)
(***************************************************************************)
THEOREM LaterClaimWins == Spec => LaterClaimPrevails
<1>1. Init => ClaimInv
  BY DEF Init, ClaimInv, Executing, PastLease, Idle, Phases, Contained
<1>2. TypeInv /\ ClaimInv /\ [Next]_vars => [LaterPrevails]_vars
  <2> SUFFICES ASSUME TypeInv, ClaimInv, Next, NEW r \in Runners, PastLease(r), Overtaken(r),
                      wk'[r] # wk[r]
               PROVE  (wk'[r].await => wk[r].await) /\ RowsStand
    BY DEF LaterPrevails, RowsStand, vars
  <2>1. ~Claimed(r)
    <3>1. PICK q \in Runners \ {r} : /\ Executing(q) /\ wk[q].job = wk[r].job
                                     /\ wk[q].epoch >= wk[r].epoch
      BY DEF Overtaken
    <3>2. wk[r].job \in Jobs
      BY DEF PastLease, Phases, Contained, TypeInv, WorkInv, JobInHand
    <3>3. /\ wk[q].epoch \in Nat /\ wk[r].epoch \in Nat /\ jobs[wk[r].job].epoch \in Nat
      BY <3>2 DEF TypeInv, WorkInv, WorkTable, WorkRow, JobTable, JobRow
    <3>4. wk[q].epoch <= jobs[wk[r].job].epoch /\ wk[q].epoch # wk[r].epoch
      BY <3>1 DEF ClaimInv, ClaimOf, Executing
    <3> QED
      BY <3>1, <3>3, <3>4 DEF Claimed
  <2>2. ExecutorStep(r) \/ ReconcileStep(r) \/ Crash(r)
    <3>1. ASSUME NEW q \in Runners, ExecutorStep(q) \/ ReconcileStep(q) \/ Crash(q) PROVE q = r
      <4>1. OnlyOwnRow(q)
        <5>1. ASSUME NEW j \in Jobs, ClaimNextJob(q, j) PROVE OnlyOwnRow(q)
          BY <5>1, ClaimMove DEF TypeInv
        <5> QED
          BY <3>1, <5>1, StepsKeepClaim
      <4> QED
        BY <4>1 DEF OnlyOwnRow
    <3> QED
      BY <3>1
      DEF Next, Start, ExpireJob, ExpireLock, OrphanRuns, OperatorStep, SubmitDeploy,
          RequestRecovery, SubmitRestart, Retry, RequestCancel, AcknowledgeUncertainJob
  <2> QED
    BY <2>1, <2>2, LostClaimActs
<1>3. Spec => [][LaterPrevails]_vars
  BY <1>1, <1>2, TypeInvAlways, ClaimInvNext, PTL DEF Spec
<1> QED
  BY <1>3 DEF LaterPrevails, LaterClaimPrevails

-----------------------------------------------------------------------------
(***************************************************************************)
(* What every write keeps of a row that exists: that it does, its kind and  *)
(* its origin.  Only a job that ends says succeeded, deferred or refused.   *)
(***************************************************************************)
Harmless == {"none", "queued", "running", "failed", "recovery_required", "cancelled"}
RowKept(j) == jobs[j].status # "none" =>
    /\ jobs'[j].status # "none"
    /\ jobs'[j].kind = jobs[j].kind
    /\ jobs'[j].origin = jobs[j].origin
RowQuiet(j) ==
    \/ jobs'[j].status \in Harmless
    \/ /\ jobs'[j].status = jobs[j].status
       /\ jobs'[j].outcome = jobs[j].outcome
       /\ jobs'[j].kind = jobs[j].kind
       /\ jobs'[j].origin = jobs[j].origin
RowsKept == \A j \in Jobs : RowKept(j)
StoreMove == \A j \in Jobs : RowKept(j) /\ RowQuiet(j)

LEMMA StoreStays == ASSUME jobs' = jobs PROVE StoreMove
BY DEF StoreMove, RowKept, RowQuiet

LEMMA OneRowMoves ==
    ASSUME NEW j \in Jobs, \A k \in Jobs \ {j} : jobs'[k] = jobs[k], RowKept(j)
    PROVE  RowsKept /\ (RowQuiet(j) => StoreMove)
BY DEF RowsKept, StoreMove, RowKept, RowQuiet

LEMMA CheckpointStore ==
    ASSUME jobs \in JobTable, NEW r, NEW name, Checkpoint(r, name) PROVE StoreMove
<1>1. CASE Claimed(r)
  <2> DEFINE cp == Merge(name, jobs[wk[r].job].cp)
  <2>1. wk[r].job \in Jobs
    BY <1>1 DEF Claimed
  <2>2. jobs' = [jobs EXCEPT ![wk[r].job] = [jobs[wk[r].job] EXCEPT !.cp = cp, !.live = TRUE]]
    BY <1>1, <2>1 DEF Checkpoint, JobTable
  <2> HIDE DEF cp
  <2>3. \A k \in Jobs \ {wk[r].job} : jobs'[k] = jobs[k]
    BY <2>2 DEF JobTable
  <2>4. RowKept(wk[r].job) /\ RowQuiet(wk[r].job)
    BY <2>1, <2>2 DEF JobTable, JobRow, RowKept, RowQuiet
  <2> QED
    BY <2>1, <2>3, <2>4, OneRowMoves
<1>2. CASE ~Claimed(r)
  BY <1>2, StoreStays DEF Checkpoint
<1> QED
  BY <1>1, <1>2

LEMMA FinishJobStore ==
    ASSUME jobs \in JobTable, NEW r, NEW status \in JOB_STATUS \ {"none"}, NEW outcome,
           FinishJob(r, status, outcome)
    PROVE  /\ RowsKept
           /\ status \in Harmless \/ ~Claimed(r) => StoreMove
           /\ Claimed(r) => /\ wk[r].job \in Jobs
                            /\ \A k \in Jobs \ {wk[r].job} : jobs'[k] = jobs[k]
                            /\ jobs'[wk[r].job].status = status
                            /\ jobs'[wk[r].job].outcome = outcome
<1>1. CASE Claimed(r)
  <2>1. wk[r].job \in Jobs
    BY <1>1 DEF Claimed
  <2>2. \A k \in Jobs \ {wk[r].job} : jobs'[k] = jobs[k]
    BY <1>1 DEF FinishJob, JobTable
  <2>3. /\ RowKept(wk[r].job)
        /\ jobs'[wk[r].job].status = status
        /\ jobs'[wk[r].job].outcome = outcome
    BY <1>1, <2>1 DEF FinishJob, JobTable, JobRow, RowKept
  <2> QED
    BY <1>1, <2>1, <2>2, <2>3, OneRowMoves DEF RowQuiet
<1>2. CASE ~Claimed(r)
  BY <1>2, StoreStays DEF FinishJob, StoreMove, RowsKept
<1> QED
  BY <1>1, <1>2

LEMMA RequeueStore ==
    ASSUME jobs \in JobTable, NEW j \in Jobs, NEW wait, RequeueJob(j, wait) PROVE StoreMove
<1>1. CASE jobs[j].status = "running"
  <2>1. \A k \in Jobs \ {j} : jobs'[k] = jobs[k]
    BY <1>1 DEF RequeueJob, JobTable
  <2>2. RowKept(j) /\ RowQuiet(j)
    BY <1>1 DEF RequeueJob, JobTable, JobRow, RowKept, RowQuiet, Harmless
  <2> QED
    BY <2>1, <2>2, OneRowMoves
<1>2. CASE jobs[j].status # "running"
  BY <1>2, StoreStays DEF RequeueJob
<1> QED
  BY <1>1, <1>2

LEMMA RecordStore ==
    ASSUME jobs \in JobTable, NEW j \in Jobs, NEW status \in {"failed", "recovery_required"},
           NEW outcome, RecordJobOutcome(j, status, outcome)
    PROVE  StoreMove
<1>1. CASE jobs[j].status = "running"
  <2>1. \A k \in Jobs \ {j} : jobs'[k] = jobs[k]
    BY <1>1 DEF RecordJobOutcome, JobTable
  <2>2. RowKept(j) /\ RowQuiet(j)
    BY <1>1 DEF RecordJobOutcome, JobTable, JobRow, RowKept, RowQuiet, Harmless
  <2> QED
    BY <2>1, <2>2, OneRowMoves
<1>2. CASE jobs[j].status # "running"
  BY <1>2, StoreStays DEF RecordJobOutcome
<1> QED
  BY <1>1, <1>2

LEMMA CreateStore ==
    ASSUME jobs \in JobTable, NEW job, job.status = "queued" \/ job.status = "cancelled", Create(job)
    PROVE  StoreMove
<1>1. PICK j \in Jobs : NextRow(j) /\ jobs' = [jobs EXCEPT ![j] = job]
  BY DEF Create
<1>2. \A k \in Jobs \ {j} : jobs'[k] = jobs[k]
  BY <1>1 DEF JobTable
<1>3. RowKept(j) /\ RowQuiet(j)
  BY <1>1 DEF NextRow, JobTable, RowKept, RowQuiet, Harmless
<1> QED
  BY <1>2, <1>3, OneRowMoves

-----------------------------------------------------------------------------
(* The steps, by what they write. *)

LEMMA OperationStore ==
    ASSUME TypeInv, NEW r \in Runners,
           \/ (\E j \in Jobs : ClaimNextJob(r, j)) \/ AcquireLock(r) \/ TakeoverLock(r)
           \/ (\E ph \in Phases : Issue(r, ph)) \/ Fenced(r) \/ HonourCancel(r)
           \/ DeployStep(r) \/ RecoverStep(r) \/ LifecycleStep(r)
           \/ QueueFollowUp(r) \/ MarkStale(r) \/ ReleaseLock(r)
    PROVE  StoreMove
<1>0. jobs \in JobTable
  BY DEF TypeInv
<1>1. ASSUME NEW j \in Jobs, ClaimNextJob(r, j) PROVE StoreMove
  <2> DEFINE e == jobs[j].epoch + 1
  <2>1. jobs' = [jobs EXCEPT ![j] = [jobs[j] EXCEPT !.status = "running", !.owner = r,
                                          !.epoch = e, !.live = TRUE, !.wait = FALSE]]
    BY <1>0, <1>1 DEF ClaimNextJob, JobTable
  <2> HIDE DEF e
  <2>2. \A k \in Jobs \ {j} : jobs'[k] = jobs[k]
    BY <1>0, <2>1 DEF JobTable
  <2>3. RowKept(j) /\ RowQuiet(j)
    BY <1>0, <2>1 DEF JobTable, JobRow, RowKept, RowQuiet, Harmless
  <2> QED
    BY <2>2, <2>3, OneRowMoves
<1>2. ASSUME NEW ph \in Phases, Issue(r, ph) PROVE StoreMove
  <2> DEFINE j == wk[r].job
             cp == MarkBefore(ph, jobs[j].cp)
  <2>1. j \in Jobs
    BY <1>2 DEF Issue, FenceJob, Claimed
  <2>2. jobs' = [jobs EXCEPT ![j] = [jobs[j] EXCEPT !.live = TRUE, !.cp = cp]]
    BY <1>0, <1>2, <2>1 DEF Issue, JobTable
  <2> HIDE DEF cp
  <2>3. \A k \in Jobs \ {j} : jobs'[k] = jobs[k]
    BY <1>0, <2>2 DEF JobTable
  <2>4. RowKept(j) /\ RowQuiet(j)
    BY <1>0, <2>1, <2>2 DEF JobTable, JobRow, RowKept, RowQuiet
  <2> QED
    BY <2>1, <2>3, <2>4, OneRowMoves
<1>3. CASE HonourCancel(r)
  <2>1. wk[r].job \in Jobs
    BY <1>3 DEF HonourCancel, FenceJob, Claimed
  <2>2. \A k \in Jobs \ {wk[r].job} : jobs'[k] = jobs[k]
    BY <1>0, <1>3 DEF HonourCancel, JobTable
  <2>3. RowKept(wk[r].job) /\ RowQuiet(wk[r].job)
    BY <1>0, <1>3, <2>1 DEF HonourCancel, JobTable, JobRow, RowKept, RowQuiet
  <2> QED
    BY <2>1, <2>2, <2>3, OneRowMoves
<1>4. CASE DeployStep(r)
  <2>1. jobs' = jobs \/ \E name : Checkpoint(r, name)
    BY <1>4
    DEF DeployStep, ReapCounted, ReapBlind, ReapAgain, PreviousWriterAlive, BuildDone,
        NoContract, BuildFailed, MarkStop, StopDone, MigrateDone, SwapDone, HealthDone,
        DeployStepFailed, HealthFailed, RestartUnitDone, ContainmentUnavailable
  <2> QED
    BY <1>0, <2>1, StoreStays, CheckpointStore
<1>5. CASE LifecycleStep(r)
  <2>1. jobs' = jobs \/ \E name : Checkpoint(r, name)
    BY <1>5
    DEF LifecycleStep, QueryDone, QueryFailed, MarkIssue, VerbDone, VerbFailed, ReadBack
  <2> QED
    BY <1>0, <2>1, StoreStays, CheckpointStore
<1>6. CASE QueueFollowUp(r)
  <2>1. Create(NewJob("verify_app", wk[r].job, FALSE))
    BY <1>6 DEF QueueFollowUp, Create
  <2> QED
    BY <1>0, <2>1, CreateStore, NewJobQueued
<1>7. CASE AcquireLock(r) \/ TakeoverLock(r) \/ Fenced(r) \/ RecoverStep(r) \/ MarkStale(r) \/ ReleaseLock(r)
  BY <1>7, StoreStays
  DEF AcquireLock, TakeoverLock, Fenced, RecoverStep, StatusDone, StartDone, ProbeDone,
      MarkStale, ReleaseLock
<1> QED
  BY <1>1, <1>2, <1>3, <1>4, <1>5, <1>6, <1>7

LEMMA ReconcileStore ==
    ASSUME TypeInv, NEW r \in Runners, ReconcileStep(r) PROVE StoreMove
<1>0. jobs \in JobTable /\ WorkInv
  BY DEF TypeInv
<1>1. CASE ReconcileFollow(r)
  <2> DEFINE job == NewJob(IF wk[r].act = "recover" THEN "recover_app" ELSE "verify_app",
                           wk[r].job, FALSE)
  <2>1. jobs' = jobs \/ Create(job)
    BY <1>1 DEF ReconcileFollow, Create
  <2>2. job.status = "queued"
    BY NewJobQueued
  <2> HIDE DEF job
  <2> QED
    BY <1>0, <2>1, <2>2, CreateStore, StoreStays
<1>2. CASE ReconcileRecord(r)
  <2>1. wk[r].job \in Jobs
    BY <1>0, <1>2, AtWork DEF ReconcileRecord, WorkInv
  <2>2. \/ RequeueJob(wk[r].job, FALSE)
        \/ \E outcome : \/ RecordJobOutcome(wk[r].job, "failed", outcome)
                       \/ RecordJobOutcome(wk[r].job, "recovery_required", outcome)
    BY <1>2 DEF ReconcileRecord
  <2> QED
    BY <1>0, <2>1, <2>2, RequeueStore, RecordStore
<1>3. CASE ReconcileLock(r) \/ \E j \in Jobs : Reconcile(r, j)
  BY <1>3, StoreStays DEF ReconcileLock, Reconcile
<1> QED
  BY <1>1, <1>2, <1>3 DEF ReconcileStep

LEMMA EnvironmentStore ==
    ASSUME TypeInv, \/ OperatorStep \/ ExpireLock \/ (\E j \in Jobs : ExpireJob(j))
                    \/ (\E e \in pend : OrphanRuns(e))
                    \/ (\E r \in Runners : Start(r) \/ Crash(r)) \/ UNCHANGED vars
    PROVE  StoreMove
<1>0. jobs \in JobTable
  BY DEF TypeInv
<1>1. ASSUME NEW j \in Jobs, RequestCancel(j) \/ ExpireJob(j) \/ AcknowledgeUncertainJob(j)
      PROVE  StoreMove
  <2>1. \A k \in Jobs \ {j} : jobs'[k] = jobs[k]
    BY <1>0, <1>1 DEF RequestCancel, ExpireJob, AcknowledgeUncertainJob, JobTable
  <2>2. RowKept(j) /\ RowQuiet(j)
    BY <1>0, <1>1
    DEF RequestCancel, ExpireJob, AcknowledgeUncertainJob, JobTable, JobRow, RowKept, RowQuiet,
        Harmless
  <2> QED
    BY <2>1, <2>2, OneRowMoves
<1>2. CASE SubmitDeploy \/ RequestRecovery \/ \E j \in Jobs : Retry(j)
  BY <1>0, <1>2, CreateStore, NewJobQueued DEF SubmitDeploy, RequestRecovery, Retry
<1>3. CASE SubmitRestart
  <2> DEFINE job == NewJob("instance_restart", 0, TRUE)
             lost == [job EXCEPT !.status = "cancelled", !.outcome = "runner_unavailable"]
  <2>1. job.status = "queued" /\ lost.status = "cancelled"
    BY DEF NewJob, NoJob
  <2>2. Create(job) \/ Create(lost)
    BY <1>3 DEF SubmitRestart
  <2> HIDE DEF job, lost
  <2> QED
    BY <1>0, <2>1, <2>2, CreateStore
<1>4. CASE \/ ExpireLock \/ (\E e \in pend : OrphanRuns(e))
           \/ (\E r \in Runners : Start(r) \/ Crash(r)) \/ UNCHANGED vars
  BY <1>4, StoreStays DEF ExpireLock, OrphanRuns, Start, Crash, vars
<1> QED
  BY <1>1, <1>2, <1>3, <1>4 DEF OperatorStep

-----------------------------------------------------------------------------
(***************************************************************************)
(* What a job owes.  ObligationKept is about records; its invariant says of *)
(* the runner that is about to write one that the phases of an operation    *)
(* are those of its job's kind, and that a guarded deploy that reports      *)
(* success has passed through the queueing of its check.  It needs no       *)
(* assumption on how many runners run.                                      *)
(***************************************************************************)
Fits(pc, kind) ==
    /\ pc \in {"build", "mark_stop", "stop", "migrate", "swap", "health", "restart_unit"}
         => kind = "deploy"
    /\ pc = "reap" => kind \in {"deploy", "recover_app"}
    /\ pc \in {"status", "start"} => kind = "recover_app"
    /\ pc = "probe" => kind \in {"recover_app", "verify_app"}
    /\ pc \in {"query", "mark_issue", "verb", "readback"} => kind = "instance_restart"
RowInHand(r) ==
    wk[r].pc # "idle" =>
        jobs[wk[r].job].status # "none" /\ Fits(wk[r].pc, jobs[wk[r].job].kind)
Reporting(r) ==
    /\ wk[r].status \notin {"deferred", "refused"}
    /\ (Guarded /\ wk[r].pc = "finish" /\ jobs[wk[r].job].kind = "deploy"
          /\ wk[r].status = "succeeded" /\ wk[r].outcome # "skipped")
       => FollowUps(wk[r].job) # {}
OwedInv == (\A r \in Runners : RowInHand(r) /\ Reporting(r)) /\ ObligationKept

LEMMA FollowUpsKept == ASSUME RowsKept, NEW j PROVE FollowUps(j) \subseteq FollowUps(j)'
BY DEF RowsKept, RowKept, FollowUps

LEMMA MovesKeepRows == ASSUME StoreMove PROVE RowsKept
BY DEF StoreMove, RowsKept

(* A record says what it said. *)
LEMMA RecordsKept == ASSUME ObligationKept, StoreMove PROVE ObligationKept'
<1> SUFFICES ASSUME NEW j \in Jobs
    PROVE  /\ (Guarded /\ jobs'[j].kind = "deploy" /\ jobs'[j].status = "succeeded"
                 /\ jobs'[j].outcome # "skipped") => FollowUps(j)' # {}
           /\ jobs'[j].origin # 0 => jobs'[j].status \notin {"deferred", "refused"}
  BY DEF ObligationKept, IsFollowUp
<1>1. FollowUps(j) \subseteq FollowUps(j)'
  BY FollowUpsKept, MovesKeepRows
<1>2. RowQuiet(j)
  BY DEF StoreMove
<1>3. CASE jobs'[j].status \in Harmless
  BY <1>3 DEF Harmless
<1>4. CASE jobs'[j].status \notin Harmless
  BY <1>1, <1>2, <1>4 DEF RowQuiet, ObligationKept, IsFollowUp
<1> QED
  BY <1>3, <1>4

(* A runner that does not move. *)
LEMMA OthersReport ==
    ASSUME TypeInv, OwedInv, RowsKept, NEW q \in Runners, wk'[q] = wk[q]
    PROVE  RowInHand(q)' /\ Reporting(q)'
<1>1. wk[q].pc # "idle" => wk[q].job \in Jobs
  BY DEF TypeInv, WorkInv, JobInHand
<1>2. FollowUps(wk[q].job) \subseteq FollowUps(wk[q].job)'
  BY FollowUpsKept
<1>3. RowInHand(q) /\ Reporting(q)
  BY DEF OwedInv
<1>4. CASE wk[q].pc = "idle"
  BY <1>3, <1>4 DEF RowInHand, Reporting
<1>5. CASE wk[q].pc # "idle"
  <2>1. /\ jobs[wk[q].job].status # "none" /\ jobs'[wk[q].job].status # "none"
        /\ jobs'[wk[q].job].kind = jobs[wk[q].job].kind
    BY <1>1, <1>3, <1>5 DEF RowInHand, RowsKept, RowKept
  <2>2. RowInHand(q)'
    BY <1>3, <1>5, <2>1 DEF RowInHand
  <2>3. Reporting(q)'
    BY <1>2, <1>3, <2>1 DEF Reporting
  <2> QED
    BY <2>2, <2>3
<1> QED
  BY <1>4, <1>5

LEMMA OwedStep ==
    ASSUME TypeInv, OwedInv, NEW r \in Runners, OnlyOwnRow(r), RowsKept, ObligationKept',
           RowInHand(r)', Reporting(r)'
    PROVE  OwedInv'
<1>1. ASSUME NEW q \in Runners PROVE RowInHand(q)' /\ Reporting(q)'
  <2>1. CASE q = r
    BY <2>1
  <2>2. CASE q # r
    <3>1. wk'[q] = wk[q]
      BY <2>2 DEF OnlyOwnRow
    <3> QED
      BY <3>1, OthersReport
  <2> QED
    BY <2>1, <2>2
<1> QED
  BY <1>1 DEF OwedInv

(* A runner that goes on with its job. *)
LEMMA OwedMove ==
    ASSUME TypeInv, OwedInv, NEW r \in Runners, wk[r].pc # "idle", Moved(r), StoreMove,
           Fits(wk'[r].pc, jobs[wk[r].job].kind),
           wk'[r].status \notin {"deferred", "refused"},
           \/ wk'[r].pc # "finish"
           \/ wk'[r].status # "succeeded" \/ wk'[r].outcome = "skipped"
           \/ jobs[wk[r].job].kind # "deploy" \/ ~Guarded
           \/ FollowUps(wk[r].job)' # {}
    PROVE  OwedInv'
<1>1. RowsKept /\ ObligationKept'
  BY MovesKeepRows, RecordsKept DEF OwedInv
<1>2. wk[r].job \in Jobs
  BY DEF TypeInv, WorkInv, JobInHand
<1>3. /\ jobs[wk[r].job].status # "none" /\ jobs'[wk[r].job].status # "none"
      /\ jobs'[wk[r].job].kind = jobs[wk[r].job].kind
  BY <1>1, <1>2 DEF OwedInv, RowInHand, RowsKept, RowKept
<1>4. RowInHand(r)' /\ Reporting(r)'
  BY <1>3 DEF RowInHand, Reporting, Moved
<1> QED
  BY <1>1, <1>4, OwedStep DEF Moved

(* One that has nothing in hand, or has just taken a job up. *)
LEMMA OwedFresh ==
    ASSUME TypeInv, OwedInv, NEW r \in Runners, OnlyOwnRow(r), RowsKept, ObligationKept',
           wk'[r].status = "failed",
           \/ wk'[r].pc = "idle"
           \/ /\ wk'[r].pc \in {"lease", "rc_follow", "rc_record"} /\ wk'[r].job \in Jobs
              /\ jobs'[wk'[r].job].status # "none"
    PROVE  OwedInv'
<1>1. RowInHand(r)' /\ Reporting(r)'
  BY DEF RowInHand, Reporting, Fits
<1> QED
  BY <1>1, OwedStep

(* Nobody moves. *)
LEMMA OwedStays ==
    ASSUME TypeInv, OwedInv, StoreMove, wk' = wk PROVE OwedInv'
<1>1. RowsKept /\ ObligationKept'
  BY MovesKeepRows, RecordsKept DEF OwedInv
<1> QED
  BY <1>1, OthersReport DEF OwedInv

LEMMA TakeJobOwed ==
    ASSUME TypeInv, OwedInv, NEW r \in Runners, TakeJob(r)
    PROVE  OwedInv'
<1>0. WorkInv /\ jobs \in JobTable
  BY DEF TypeInv
<1>1. ASSUME NEW j \in Jobs, ClaimNextJob(r, j) PROVE OwedInv'
  <2>1. StoreMove /\ RowsKept /\ ObligationKept'
    BY <1>1, OperationStore, MovesKeepRows, RecordsKept DEF OwedInv
  <2>2. OnlyOwnRow(r) /\ wk'[r].pc = "lease" /\ wk'[r].job = j /\ wk'[r].status = "failed"
    BY <1>0, <1>1, ClaimMove
  <2>3. jobs'[j].status # "none"
    BY <1>1, <2>1 DEF ClaimNextJob, RowsKept, RowKept
  <2> QED
    BY <2>1, <2>2, <2>3, OwedFresh
<1>2. CASE Busy(r)
  <2>1. wk[r].job \in Jobs
    BY <1>0, <1>2, AtWork DEF Busy, WorkInv
  <2>2. OnlyOwnRow(r) /\ wk'[r].pc = "idle" /\ wk'[r].status = "failed"
    BY <1>0, <1>2, LeavesMove
  <2>3. CASE IsFollowUp(wk[r].job)
    <3>1. RequeueJob(wk[r].job, TRUE)
      BY <1>2, <2>3 DEF Busy
    <3>2. StoreMove
      BY <1>0, <2>1, <3>1, RequeueStore
    <3> QED
      BY <2>2, <3>2, MovesKeepRows, RecordsKept, OwedFresh DEF OwedInv
  <2>4. CASE ~IsFollowUp(wk[r].job)
    <3>1. PICK status, outcome :
              status \in {"refused", "deferred"} /\ FinishJob(r, status, outcome)
      BY <1>2, <2>4 DEF Busy
    <3>2. status \in JOB_STATUS \ {"none"}
      BY <3>1 DEF JOB_STATUS, TERMINAL_STATUS
    <3>3. /\ RowsKept
          /\ ~Claimed(r) => StoreMove
          /\ Claimed(r) => /\ \A k \in Jobs \ {wk[r].job} : jobs'[k] = jobs[k]
                           /\ jobs'[wk[r].job].status = status
      BY <1>0, <3>1, <3>2, FinishJobStore
    <3>4. CASE ~Claimed(r)
      BY <2>2, <3>3, <3>4, RecordsKept, OwedFresh DEF OwedInv
    <3>5. CASE Claimed(r)
      <4>1. jobs'[wk[r].job].origin = 0
        BY <2>1, <2>4, <3>3, <3>5 DEF RowsKept, RowKept, Claimed, IsFollowUp
      <4>2. \A k \in Jobs : FollowUps(k) \subseteq FollowUps(k)'
        BY <3>3, FollowUpsKept
      <4>3. ObligationKept'
        <5> SUFFICES ASSUME NEW k \in Jobs
            PROVE  /\ (Guarded /\ jobs'[k].kind = "deploy" /\ jobs'[k].status = "succeeded"
                         /\ jobs'[k].outcome # "skipped") => FollowUps(k)' # {}
                   /\ jobs'[k].origin # 0 => jobs'[k].status \notin {"deferred", "refused"}
          BY DEF ObligationKept, IsFollowUp
        <5>1. CASE k = wk[r].job
          BY <3>1, <3>3, <3>5, <4>1, <5>1
        <5>2. CASE k # wk[r].job
          BY <3>3, <3>5, <4>2, <5>2 DEF OwedInv, ObligationKept, IsFollowUp
        <5> QED
          BY <5>1, <5>2
      <4> QED
        BY <2>2, <3>3, <4>3, OwedFresh
    <3> QED
      BY <3>4, <3>5
  <2> QED
    BY <2>3, <2>4
<1>3. CASE AcquireLock(r) \/ TakeoverLock(r)
  <2>1. /\ Moved(r) /\ SameEnd(r) /\ wk[r].pc = "lease"
        /\ wk'[r].pc = FirstPhase(jobs[wk[r].job].kind)
    BY <1>0, <1>3, LeaseMove
  <2>2. wk[r].job \in Jobs
    BY <2>1 DEF TypeInv, WorkInv, JobInHand
  <2>3. jobs[wk[r].job].kind \in Kinds
    BY <1>0, <2>2 DEF JobTable, JobRow
  <2>4. Fits(wk'[r].pc, jobs[wk[r].job].kind) /\ wk'[r].pc # "finish"
    BY <2>1, <2>3 DEF FirstPhase, Kinds, Fits
  <2>5. StoreMove
    BY <1>3, OperationStore
  <2>6. wk'[r].status \notin {"deferred", "refused"}
    BY <2>1 DEF SameEnd, OwedInv, Reporting
  <2> QED
    BY <2>1, <2>4, <2>5, <2>6, OwedMove
<1> QED
  BY <1>1, <1>2, <1>3 DEF TakeJob

(* The phases follow one another within the kind of the job. *)
LEMMA OperationOwed ==
    ASSUME TypeInv, OwedInv, NEW r \in Runners,
           \/ (\E ph \in Phases : Issue(r, ph)) \/ Fenced(r) \/ HonourCancel(r)
           \/ DeployStep(r) \/ RecoverStep(r) \/ LifecycleStep(r)
    PROVE  OwedInv'
<1> DEFINE kind == jobs[wk[r].job].kind
<1>0. /\ WorkInv /\ StoreMove /\ wk[r].status \notin {"deferred", "refused"}
      /\ wk[r].pc # "idle" => Fits(wk[r].pc, kind)
  BY OperationStore DEF TypeInv, OwedInv, RowInHand, Reporting
<1>g. ASSUME NEW pc, Goto(r, pc), pc # "finish", wk[r].pc # "idle", Fits(pc, kind) PROVE OwedInv'
  BY <1>0, <1>g, GotoMove, OwedMove DEF SameEnd
<1>s. ASSUME NEW status, NEW outcome, NEW owed, Settle(r, status, outcome, owed),
             wk[r].pc # "idle", status \notin {"deferred", "refused"},
             \/ owed \/ status # "succeeded" \/ outcome = "skipped" \/ kind # "deploy" \/ ~Guarded
      PROVE  OwedInv'
  <2>1. /\ Moved(r) /\ wk'[r].pc = IF owed THEN "followup" ELSE "finish"
        /\ wk'[r].status = status /\ wk'[r].outcome = outcome
    BY <1>0, <1>s, SettleMove
  <2>2. Fits(wk'[r].pc, kind)
    BY <2>1 DEF Fits
  <2> QED
    BY <1>0, <1>s, <2>1, <2>2, OwedMove
<1> HIDE DEF kind
<1>1. CASE \E ph \in Phases : Issue(r, ph)
  <2>1. Moved(r) /\ SameEnd(r) /\ wk'[r].pc = wk[r].pc /\ wk[r].pc \notin {"idle", "finish"}
    BY <1>0, <1>1, IssueMove DEF Phases, Contained
  <2> QED
    BY <1>0, <2>1, OwedMove DEF SameEnd, kind
<1>2. CASE Fenced(r)
  <2>1. Moved(r) /\ SameEnd(r) /\ wk'[r].pc = "release" /\ wk[r].pc # "idle"
    BY <1>0, <1>2, FencedMove DEF Fenced, At, Phases, Contained
  <2>2. Fits("release", kind)
    BY DEF Fits
  <2> QED
    BY <1>0, <2>1, <2>2, OwedMove DEF SameEnd, kind
<1>3. CASE HonourCancel(r)
  BY <1>3, <1>s DEF HonourCancel, At, SafePhases
<1>4. CASE ReapCounted(r) \/ ReapBlind(r) \/ ReapAgain(r)
  <2>1. /\ Moved(r) /\ SameEnd(r) /\ wk[r].pc = "reap"
        /\ wk'[r].pc \in {"reap", AfterReap(r)}
    BY <1>0, <1>4, ReapedMove, ReapAgainMove DEF ReapCounted, ReapBlind, ReapAgain, Awaits
  <2>2. Fits(wk'[r].pc, kind) /\ wk'[r].pc # "finish"
    BY <1>0, <2>1 DEF Fits, AfterReap, kind
  <2> QED
    BY <1>0, <2>1, <2>2, OwedMove DEF SameEnd, kind
<1>5. CASE PreviousWriterAlive(r)
  <2>1. /\ Moved(r) /\ wk'[r].pc = "finish" /\ wk'[r].status = "recovery_required"
        /\ wk[r].pc = "reap"
    BY <1>0, <1>5, WriterAliveMove DEF PreviousWriterAlive, Awaits
  <2>2. Fits("finish", kind)
    BY DEF Fits
  <2> QED
    BY <1>0, <2>1, <2>2, OwedMove DEF kind
<1>6. CASE BuildDone(r) \/ MarkStop(r) \/ StopDone(r) \/ MigrateDone(r) \/ SwapDone(r)
  BY <1>0, <1>6, <1>g DEF BuildDone, MarkStop, StopDone, MigrateDone, SwapDone, At, Awaits, Fits
<1>7. CASE DeployStepFailed(r)
  BY <1>0, <1>7, <1>g DEF DeployStepFailed, Awaits, Fits
<1>8. CASE NoContract(r) \/ BuildFailed(r) \/ HealthFailed(r) \/ RestartUnitDone(r)
  BY <1>8, <1>s DEF NoContract, BuildFailed, HealthFailed, RestartUnitDone, Awaits
<1>9. CASE HealthDone(r)
  BY <1>9, <1>s DEF HealthDone, Awaits
<1>10. CASE ContainmentUnavailable(r)
  <2>1. Settle(r, "recovery_required", "containment_unavailable", FALSE) /\ wk[r].pc # "idle"
    BY <1>10 DEF ContainmentUnavailable, Awaits, Contained
  <2> QED
    BY <2>1, <1>s
<1>11. CASE StatusDone(r) \/ StartDone(r)
  BY <1>0, <1>11, <1>g DEF StatusDone, StartDone, Awaits, Fits
<1>12. CASE ProbeDone(r)
  <2>1. kind # "deploy" /\ wk[r].pc # "idle"
    BY <1>0, <1>12 DEF ProbeDone, Awaits, Fits
  <2> QED
    BY <1>12, <1>s, <2>1 DEF ProbeDone
<1>13. CASE QueryDone(r) \/ MarkIssue(r)
  <2>1. wk[r].pc # "idle" /\ kind = "instance_restart"
    BY <1>0, <1>13 DEF QueryDone, MarkIssue, At, Awaits, Fits
  <2>2. PICK pc \in {"mark_issue", "release", "verb"} : Goto(r, pc)
    BY <1>13 DEF QueryDone, MarkIssue
  <2>3. Fits(pc, kind)
    BY <2>1 DEF Fits
  <2> QED
    BY <1>g, <2>1, <2>2, <2>3
<1>14. CASE QueryFailed(r)
  BY <1>14, <1>s DEF QueryFailed, Awaits
<1>15. CASE VerbDone(r) \/ VerbFailed(r)
  <2>1. /\ Moved(r) /\ wk'[r].pc = "readback" /\ wk'[r].status = wk[r].status
        /\ wk[r].pc = "verb"
    BY <1>0, <1>15, ExitedMove DEF VerbDone, VerbFailed, Awaits
  <2>2. Fits("readback", kind)
    BY <1>0, <2>1 DEF Fits
  <2> QED
    BY <1>0, <2>1, <2>2, OwedMove DEF kind
<1>16. CASE ReadBack(r)
  <2>1. kind # "deploy" /\ wk[r].pc # "idle"
    BY <1>0, <1>16 DEF ReadBack, Awaits, Fits
  <2> QED
    BY <1>16, <1>s, <2>1 DEF ReadBack
<1> QED
  BY <1>1, <1>2, <1>3, <1>4, <1>5, <1>6, <1>7, <1>8, <1>9, <1>10, <1>11, <1>12, <1>13, <1>14,
     <1>15, <1>16
  DEF DeployStep, RecoverStep, LifecycleStep

LEMMA RecordOwed ==
    ASSUME TypeInv, OwedInv, NEW r \in Runners, RecordStep(r)
    PROVE  OwedInv'
<1> DEFINE j == wk[r].job
<1>0. /\ WorkInv /\ jobs \in JobTable
      /\ wk[r].status \notin {"deferred", "refused"} /\ wk[r].status \in TERMINAL_STATUS
  BY DEF TypeInv, OwedInv, Reporting, WorkInv, WorkTable, WorkRow
<1>1. CASE QueueFollowUp(r)
  <2>1. Moved(r) /\ SameEnd(r) /\ wk'[r].pc = "finish" /\ wk[r].pc # "idle"
    BY <1>0, <1>1, GotoMove DEF QueueFollowUp, At
  <2>2. StoreMove
    BY <1>1, OperationStore
  <2>3. FollowUps(j)' # {}
    <3>1. PICK k \in Jobs : jobs' = [jobs EXCEPT ![k] = NewJob("verify_app", j, FALSE)]
      BY <1>1 DEF QueueFollowUp
    <3>2. jobs'[k].status = "queued" /\ jobs'[k].origin = j
      BY <1>0, <3>1 DEF JobTable, NewJob, NoJob
    <3> QED
      BY <2>1, <3>2 DEF FollowUps, Moved
  <2>4. Fits("finish", jobs[j].kind)
    BY DEF Fits
  <2> QED
    BY <1>0, <2>1, <2>2, <2>3, <2>4, OwedMove DEF SameEnd
<1>2. CASE Finish(r)
  <2>1. /\ Moved(r) /\ SameEnd(r) /\ wk'[r].pc \in {"mark_stale", "release"}
        /\ wk[r].pc = "finish"
    BY <1>0, <1>2, GotoMove DEF Finish, At
  <2>2. Fits(wk'[r].pc, jobs[j].kind) /\ wk'[r].pc # "finish" /\ wk'[r].pc # "idle"
    BY <2>1 DEF Fits
  <2>3. wk[r].status \in JOB_STATUS \ {"none"}
    BY <1>0 DEF JOB_STATUS, TERMINAL_STATUS
  <2>4. /\ RowsKept
        /\ wk[r].status \in Harmless \/ ~Claimed(r) => StoreMove
        /\ Claimed(r) => /\ j \in Jobs
                         /\ \A k \in Jobs \ {j} : jobs'[k] = jobs[k]
                         /\ jobs'[j].status = wk[r].status
                         /\ jobs'[j].outcome = wk[r].outcome
    BY <1>0, <1>2, <2>3, FinishJobStore DEF Finish
  <2>5. CASE StoreMove
    BY <1>0, <2>1, <2>2, <2>5, OwedMove DEF SameEnd
  <2>6. CASE Claimed(r) /\ wk[r].status = "succeeded"
    <3>1. jobs'[j].kind = jobs[j].kind /\ jobs'[j].status # "none"
      BY <2>4, <2>6 DEF RowsKept, RowKept, Claimed
    <3>2. \A k \in Jobs : FollowUps(k) \subseteq FollowUps(k)'
      BY <2>4, FollowUpsKept
    <3>3. ObligationKept'
      <4> SUFFICES ASSUME NEW k \in Jobs
          PROVE  /\ (Guarded /\ jobs'[k].kind = "deploy" /\ jobs'[k].status = "succeeded"
                       /\ jobs'[k].outcome # "skipped") => FollowUps(k)' # {}
                 /\ jobs'[k].origin # 0 => jobs'[k].status \notin {"deferred", "refused"}
        BY DEF ObligationKept, IsFollowUp
      <4>1. CASE k = j
        <5>1. Guarded /\ jobs[j].kind = "deploy" /\ wk[r].outcome # "skipped" => FollowUps(j) # {}
          BY <2>1, <2>6 DEF OwedInv, Reporting
        <5> QED
          BY <2>4, <2>6, <3>1, <3>2, <4>1, <5>1
      <4>2. CASE k # j
        BY <2>4, <2>6, <3>2, <4>2 DEF OwedInv, ObligationKept, IsFollowUp
      <4> QED
        BY <4>1, <4>2
    <3>4. RowInHand(r)' /\ Reporting(r)'
      BY <1>0, <2>1, <2>2, <3>1 DEF RowInHand, Reporting, Moved, SameEnd
    <3> QED
      BY <2>1, <2>4, <3>3, <3>4, OwedStep DEF Moved
  <2>7. wk[r].status \in Harmless \/ wk[r].status = "succeeded"
    BY <1>0 DEF TERMINAL_STATUS, Harmless
  <2> QED
    BY <2>4, <2>5, <2>6, <2>7
<1>3. CASE MarkStale(r) \/ ReleaseLock(r)
  <2>1. OnlyOwnRow(r) /\ wk'[r].pc = "idle" /\ wk'[r].status = "failed"
    BY <1>0, <1>3, LeavesMove
  <2>2. StoreMove
    BY <1>3, OperationStore
  <2> QED
    BY <2>1, <2>2, MovesKeepRows, RecordsKept, OwedFresh DEF OwedInv
<1> QED
  BY <1>1, <1>2, <1>3 DEF RecordStep

LEMMA ReconcileOwed ==
    ASSUME TypeInv, OwedInv, NEW r \in Runners, ReconcileStep(r)
    PROVE  OwedInv'
<1>0. WorkInv /\ StoreMove /\ RowsKept /\ ObligationKept'
      /\ wk[r].status \notin {"deferred", "refused"}
  BY ReconcileStore, MovesKeepRows, RecordsKept DEF TypeInv, OwedInv, Reporting
<1>1. ASSUME NEW j \in Jobs, Reconcile(r, j) PROVE OwedInv'
  <2>1. /\ OnlyOwnRow(r) /\ wk'[r].pc \in {"rc_follow", "rc_record"} /\ wk'[r].job = j
        /\ wk'[r].status = "failed"
    BY <1>0, <1>1, ReadMove
  <2>2. jobs'[j].status # "none"
    BY <1>1 DEF Reconcile
  <2> QED
    BY <1>0, <2>1, <2>2, OwedFresh
<1>2. CASE ReconcileFollow(r) \/ ReconcileRecord(r)
  <2>1. Moved(r) /\ SameEnd(r) /\ wk'[r].pc \in {"rc_record", "rc_lock"} /\ wk[r].pc # "idle"
    BY <1>0, <1>2, FollowMove, GotoMove DEF ReconcileRecord, At
  <2>2. Fits(wk'[r].pc, jobs[wk[r].job].kind) /\ wk'[r].pc # "finish"
    BY <2>1 DEF Fits
  <2> QED
    BY <1>0, <2>1, <2>2, OwedMove DEF SameEnd
<1>3. CASE ReconcileLock(r)
  BY <1>0, <1>3, LeavesMove, OwedFresh
<1> QED
  BY <1>1, <1>2, <1>3 DEF ReconcileStep

LEMMA OwedInvNext == TypeInv /\ OwedInv /\ [Next]_vars => OwedInv'
<1> SUFFICES ASSUME TypeInv, OwedInv, [Next]_vars PROVE OwedInv'
  OBVIOUS
<1>1. ASSUME NEW r \in Runners, ExecutorStep(r) \/ ReconcileStep(r) PROVE OwedInv'
  BY <1>1, TakeJobOwed, OperationOwed, RecordOwed, ReconcileOwed DEF ExecutorStep
<1>2. ASSUME NEW r \in Runners, Crash(r) PROVE OwedInv'
  <2>1. WorkInv /\ StoreMove
    BY <1>2, EnvironmentStore DEF TypeInv
  <2>2. OnlyOwnRow(r) /\ wk'[r].pc = "idle" /\ wk'[r].status = "failed"
    BY <1>2, <2>1, LeavesMove
  <2> QED
    BY <2>1, <2>2, MovesKeepRows, RecordsKept, OwedFresh DEF OwedInv
<1>3. CASE \/ OperatorStep \/ ExpireLock \/ (\E j \in Jobs : ExpireJob(j))
           \/ (\E e \in pend : OrphanRuns(e)) \/ (\E r \in Runners : Start(r)) \/ UNCHANGED vars
  <2>1. StoreMove
    BY <1>3, EnvironmentStore
  <2>2. wk' = wk
    BY <1>3
    DEF OperatorStep, SubmitDeploy, RequestRecovery, SubmitRestart, Retry, RequestCancel,
        AcknowledgeUncertainJob, ExpireLock, ExpireJob, OrphanRuns, Start, vars
  <2> QED
    BY <2>1, <2>2, OwedStays
<1> QED
  BY <1>1, <1>2, <1>3 DEF Next

LEMMA OwedInvAlways == Spec => []OwedInv
<1>1. Init => OwedInv
  BY DEF Init, OwedInv, RowInHand, Reporting, ObligationKept, IsFollowUp, Idle, NoJob
<1> QED
  BY <1>1, TypeInvAlways, OwedInvNext, PTL DEF Spec

(***************************************************************************)
(* Through crashes, overlapping runners and late writes: every deploy       *)
(* recorded as serving on a guarded application has its credential check    *)
(* queued as a job of its own, and a follow-up is never dropped for a busy  *)
(* application (executor.js queueFollowUp, busy).                           *)
(***************************************************************************)
THEOREM ObligationsKept == Spec => []ObligationKept
<1>1. OwedInv => ObligationKept
  BY DEF OwedInv
<1> QED
  BY <1>1, OwedInvAlways, PTL

-----------------------------------------------------------------------------
(***************************************************************************)
(* The stop, with one runner at a time.  Neither NoForgottenStop nor        *)
(* CancelledNeverStopped is inductive: a stop that still runs in the guest  *)
(* takes the application down later, and a job that is only running now is  *)
(* cancelled, requeued or recorded later.  So the invariant speaks of every *)
(* job and of its commands still in the guest: a job whose checkpoint marks *)
(* no stop took nothing down and will not (Safe), and a deploy that did or  *)
(* may answers for it.  Of a runner it says that its claim stands, that its *)
(* phases before the stop have no mark and those after it have one, that a  *)
(* reconciler's decision is about the checkpoint as it is, and that what an *)
(* operation reports agrees with what it left in the guest.                 *)
(***************************************************************************)
StopOf(j) == [job |-> j, cmd |-> "stop"]
Safe(j) == downBy # j /\ \A e \in pend : e.job = j => e.cmd \in {"build", "start"}
NotDown(j) == StopOf(j) \notin pend /\ ~(downBy = j /\ app = "down")
Answerable(j) ==
    \/ jobs[j].status = "running" /\ Disruptive(jobs[j].cp)
    \/ jobs[j].status = "recovery_required"
    \/ jobs[j].status = "failed" /\ FollowUps(j) # {}
JobOK(j) ==
    /\ jobs[j].status \in {"none", "queued", "cancelled"} => ~Disruptive(jobs[j].cp)
    /\ ~Disruptive(jobs[j].cp) => Safe(j)
    /\ jobs[j].kind = "deploy" /\ ~NotDown(j) => Answerable(j)

EarlyPcs == {"lease", "reap", "build", "mark_stop", "status", "start", "probe", "query",
             "mark_issue"}
LatePcs == {"stop", "migrate", "swap", "health", "restart_unit", "verb", "readback"}
EndPcs == {"followup", "finish"}
ClaimKept(r) == wk[r].pc \in EarlyPcs \cup LatePcs \cup EndPcs => Claimed(r)
DecisionFresh(r) ==
    wk[r].pc \in {"rc_follow", "rc_record"} =>
        /\ jobs[wk[r].job].status = "running"
        /\ wk[r].act = ReconcileDecision(jobs[wk[r].job].cp)
Marked(r) ==
    /\ wk[r].pc \in EarlyPcs => ~Disruptive(jobs[wk[r].job].cp)
    /\ wk[r].pc \in LatePcs => jobs[wk[r].job].cp.disruptive
Stopped(r) ==
    /\ wk[r].pc \in {"migrate", "swap", "health"} => StopOf(wk[r].job) \notin pend
    /\ wk[r].pc = "verb" =>
         /\ downBy # wk[r].job
         /\ \A e \in pend : e.job = wk[r].job => e.cmd \in {"build", "start", "verb"}
    /\ wk[r].pc = "readback" /\ wk[r].outcome = "restarted" => Safe(wk[r].job)
Ending(r) ==
    wk[r].pc \in EndPcs =>
        /\ wk[r].status = "cancelled" => ~Disruptive(jobs[wk[r].job].cp)
        /\ wk[r].status = "succeeded" => NotDown(wk[r].job) \/ jobs[wk[r].job].kind # "deploy"
        /\ wk[r].status = "failed" /\ wk[r].pc = "finish" =>
             \/ NotDown(wk[r].job) \/ FollowUps(wk[r].job) # {}
             \/ jobs[wk[r].job].kind # "deploy"
RunnerOK(r) == ClaimKept(r) /\ DecisionFresh(r) /\ Marked(r) /\ Stopped(r) /\ Ending(r)
StopInv == (\A r \in Runners : RunnerOK(r)) /\ \A j \in Jobs : JobOK(j)

LEMMA SafeIsNotDown == ASSUME NEW j, Safe(j) PROVE NotDown(j)
BY DEF Safe, NotDown, StopOf

(* The guest moves for one job only. *)
GuestMove(j) ==
    /\ \A e \in pend' : e \in pend \/ e.job = j
    /\ downBy' = j \/ (downBy' = downBy /\ app' \in {app, "up"})
LEMMA OthersSafe ==
    ASSUME NEW j, NEW k, k # j, GuestMove(j)
    PROVE  (Safe(k) => Safe(k)') /\ (NotDown(k) => NotDown(k)')
BY DEF GuestMove, Safe, NotDown, StopOf

(* A row that is not written, or is new. *)
LEMMA OtherRow ==
    ASSUME NEW k \in Jobs, JobOK(k), RowsKept, Safe(k) => Safe(k)', NotDown(k) => NotDown(k)',
           \/ jobs'[k] = jobs[k]
           \/ jobs[k].status = "none" /\ ~Disruptive(jobs'[k].cp)
    PROVE  JobOK(k)'
<1>1. FollowUps(k) \subseteq FollowUps(k)'
  BY FollowUpsKept
<1>2. CASE jobs'[k] = jobs[k]
  BY <1>1, <1>2 DEF JobOK, Answerable
<1>3. CASE jobs[k].status = "none" /\ ~Disruptive(jobs'[k].cp)
  <2>1. Safe(k)'
    BY <1>3 DEF JobOK
  <2>2. NotDown(k)'
    BY <2>1 DEF Safe, NotDown, StopOf
  <2> QED
    BY <1>3, <2>1, <2>2 DEF JobOK
<1> QED
  BY <1>2, <1>3

(* A step of the one live runner, for one job. *)
LEMMA StopStep ==
    ASSUME LeaseInv, StopInv, NEW r \in Runners, proc[r] = "up", OnlyOwnRow(r), RowsKept,
           NEW j \in Jobs, GuestMove(j),
           \A k \in Jobs \ {j} : \/ jobs'[k] = jobs[k]
                                 \/ jobs[k].status = "none" /\ ~Disruptive(jobs'[k].cp),
           JobOK(j)', RunnerOK(r)'
    PROVE  StopInv'
<1>1. ASSUME NEW k \in Jobs, k # j PROVE JobOK(k)'
  <2>1. (Safe(k) => Safe(k)') /\ (NotDown(k) => NotDown(k)')
    BY <1>1, OthersSafe
  <2>2. JobOK(k)
    BY DEF StopInv
  <2>3. jobs'[k] = jobs[k] \/ (jobs[k].status = "none" /\ ~Disruptive(jobs'[k].cp))
    BY <1>1
  <2> QED
    BY <2>1, <2>2, <2>3, OtherRow
<1>2. ASSUME NEW q \in Runners, q # r PROVE RunnerOK(q)'
  <2>1. wk'[q].pc = "idle"
    BY <1>2, OthersIdle
  <2> QED
    BY <2>1
    DEF RunnerOK, ClaimKept, DecisionFresh, Marked, Stopped, Ending, EarlyPcs, LatePcs, EndPcs
<1> QED
  BY <1>1, <1>2 DEF StopInv

(* A running job is in order when its stop is marked, or when it is safe. *)
LEMMA RunningOK ==
    ASSUME NEW j \in Jobs, jobs'[j].status = "running", Disruptive(jobs'[j].cp) \/ Safe(j)'
    PROVE  JobOK(j)'
<1>1. Safe(j)' => NotDown(j)'
  BY DEF Safe, NotDown, StopOf
<1> QED
  BY <1>1 DEF JobOK, Answerable

(* The operation in hand writes its own row and keeps its claim. *)
OwnRow(j) ==
    /\ \A k \in Jobs \ {j} : jobs'[k] = jobs[k]
    /\ jobs'[j].status = jobs[j].status /\ jobs'[j].owner = jobs[j].owner
    /\ jobs'[j].epoch = jobs[j].epoch /\ jobs'[j].kind = jobs[j].kind
    /\ jobs'[j].origin = jobs[j].origin

LEMMA OwnRowKept == ASSUME NEW j \in Jobs, OwnRow(j) PROVE RowsKept
BY OneRowMoves DEF OwnRow, RowKept

LEMMA InOperation ==
    ASSUME LeaseInv, StopInv, NEW r \in Runners, proc[r] = "up", NEW j \in Jobs, j = wk[r].job,
           wk[r].pc \in EarlyPcs \cup LatePcs \cup EndPcs, Moved(r), OwnRow(j), GuestMove(j),
           wk'[r].pc \notin {"rc_follow", "rc_record"},
           Disruptive(jobs'[j].cp) \/ Safe(j)',
           Marked(r)', Stopped(r)', Ending(r)'
    PROVE  StopInv'
<1>1. Claimed(r)
  BY DEF StopInv, RunnerOK, ClaimKept
<1>2. jobs'[j].status = "running" /\ Claimed(r)'
  BY <1>1 DEF Claimed, OwnRow, Moved
<1>3. JobOK(j)'
  BY <1>2, RunningOK
<1>4. RunnerOK(r)'
  BY <1>2 DEF RunnerOK, ClaimKept, DecisionFresh
<1>5. RowsKept /\ OnlyOwnRow(r)
  BY OwnRowKept DEF Moved
<1> QED
  BY <1>3, <1>4, <1>5, StopStep DEF OwnRow

(* Before the stop: nothing is marked, and the guest only builds or starts. *)
LEMMA EarlyMove ==
    ASSUME LeaseInv, StopInv, NEW r \in Runners, proc[r] = "up", NEW j \in Jobs, j = wk[r].job,
           wk[r].pc \in EarlyPcs, Moved(r), OwnRow(j), ~Disruptive(jobs'[j].cp),
           wk'[r].pc \in EarlyPcs \cup EndPcs,
           \A e \in pend' : e \in pend \/ (e.job = j /\ e.cmd \in {"build", "start"}),
           downBy' = downBy, app' \in {app, "up"}
    PROVE  StopInv'
<1>1. Safe(j)
  BY DEF StopInv, RunnerOK, Marked, JobOK
<1>2. Safe(j)'
  BY <1>1 DEF Safe
<1>3. NotDown(j)'
  BY <1>2 DEF Safe, NotDown, StopOf
<1>4. GuestMove(j)
  BY DEF GuestMove
<1>5. wk'[r].job = j
  BY DEF Moved
<1>6. Marked(r)' /\ Stopped(r)'
  BY <1>5 DEF Marked, Stopped, EarlyPcs, LatePcs, EndPcs
<1>7. Ending(r)'
  BY <1>3, <1>5 DEF Ending
<1>8. wk'[r].pc \notin {"rc_follow", "rc_record"}
  BY DEF EarlyPcs, EndPcs
<1> QED
  BY <1>2, <1>4, <1>6, <1>7, <1>8, InOperation

(* From the mark on. *)
LEMMA LateMove ==
    ASSUME LeaseInv, StopInv, NEW r \in Runners, proc[r] = "up", NEW j \in Jobs, j = wk[r].job,
           wk[r].pc \in EarlyPcs \cup LatePcs, Moved(r), OwnRow(j), GuestMove(j),
           jobs'[j].cp.disruptive,
           \/ wk'[r].pc \in LatePcs /\ Stopped(r)'
           \/ wk'[r].pc = "followup" /\ wk'[r].status = "failed"
           \/ wk'[r].pc = "finish" /\ wk'[r].status = "failed" /\ jobs[j].kind # "deploy"
           \/ wk'[r].pc \in EndPcs /\ wk'[r].status = "recovery_required"
           \/ wk'[r].pc \in EndPcs /\ wk'[r].status = "succeeded" /\ NotDown(j)'
    PROVE  StopInv'
<1>1. Disruptive(jobs'[j].cp)
  BY DEF Disruptive
<1>2. wk'[r].job = j /\ wk'[r].pc \in LatePcs \cup EndPcs
  BY DEF Moved, EndPcs
<1>3. wk'[r].pc \notin {"rc_follow", "rc_record"}
  BY <1>2 DEF LatePcs, EndPcs
<1>4. Marked(r)'
  BY <1>2 DEF Marked, EarlyPcs, LatePcs, EndPcs
<1>5. Stopped(r)'
  BY DEF Stopped, EndPcs
<1>6. Ending(r)'
  BY <1>2 DEF Ending, EndPcs, LatePcs, OwnRow
<1> QED
  BY <1>1, <1>3, <1>4, <1>5, <1>6, InOperation

(* What the checkpoints do to the marks (executor.js guest, deploy-op.js). *)
LEMMA MergeMarks ==
    ASSUME NEW cp \in Flags, NEW name
    PROVE  /\ name \in {"stopping_app", "migrating", "issuing"} => Merge(name, cp).disruptive
           /\ name \in {"unit_written", "app_started", "deploy_verified", "restart_served",
                        "restart_not_served"} => Merge(name, cp).disruptive = cp.disruptive
           /\ name \in {"reap_previous_writer", "unit_status", "probe_port", "starting",
                        "start_unit", "validated"} /\ ~Disruptive(cp)
                => ~Disruptive(Merge(name, cp))
<1>1. CASE name \in {"stopping_app", "migrating", "issuing"}
  BY <1>1 DEF Merge, Flags
<1>2. CASE name \in {"unit_written", "app_started", "deploy_verified", "restart_served",
                     "restart_not_served"}
  BY <1>2 DEF Merge, Flags
<1>3. CASE name \in {"reap_previous_writer", "unit_status", "probe_port", "starting",
                     "start_unit", "validated"}
  BY <1>3 DEF Merge, Flags, Disruptive
<1> QED
  BY <1>1, <1>2, <1>3

LEMMA IssueMarks ==
    ASSUME NEW cp \in Flags, NEW ph
    PROVE  /\ ph \in EarlyPcs /\ ~Disruptive(cp) => ~Disruptive(MarkBefore(ph, cp))
           /\ ph \in LatePcs /\ cp.disruptive => MarkBefore(ph, cp).disruptive
BY MergeMarks DEF MarkBefore, EarlyPcs, LatePcs

LEMMA CheckpointRow ==
    ASSUME jobs \in JobTable, NEW r, NEW j \in Jobs, j = wk[r].job, Claimed(r), NEW name,
           Checkpoint(r, name)
    PROVE  OwnRow(j) /\ jobs'[j].cp = Merge(name, jobs[j].cp)
<1> DEFINE cp == Merge(name, jobs[j].cp)
<1>1. jobs' = [jobs EXCEPT ![j] = [jobs[j] EXCEPT !.cp = cp, !.live = TRUE]]
  BY DEF Checkpoint, JobTable
<1> HIDE DEF cp
<1>2. \A k \in Jobs \ {j} : jobs'[k] = jobs[k]
  BY <1>1 DEF JobTable
<1>3. jobs[j] \in JobRow /\ jobs'[j] = [jobs[j] EXCEPT !.cp = cp, !.live = TRUE]
  BY <1>1 DEF JobTable
<1>4. jobs'[j].cp = cp
  BY <1>3 DEF JobRow
<1>5. OwnRow(j)
  BY <1>2, <1>3 DEF OwnRow, JobRow
<1> QED
  BY <1>4, <1>5 DEF cp

LEMMA IssueRow ==
    ASSUME jobs \in JobTable, NEW r, NEW ph, Issue(r, ph), NEW j \in Jobs, j = wk[r].job
    PROVE  OwnRow(j) /\ jobs'[j].cp = MarkBefore(ph, jobs[j].cp)
<1> DEFINE cp == MarkBefore(ph, jobs[j].cp)
<1>1. jobs' = [jobs EXCEPT ![j] = [jobs[j] EXCEPT !.live = TRUE, !.cp = cp]]
  BY DEF Issue, JobTable
<1> HIDE DEF cp
<1>2. \A k \in Jobs \ {j} : jobs'[k] = jobs[k]
  BY <1>1 DEF JobTable
<1>3. jobs[j] \in JobRow /\ jobs'[j] = [jobs[j] EXCEPT !.live = TRUE, !.cp = cp]
  BY <1>1 DEF JobTable
<1>4. jobs'[j].cp = cp
  BY <1>3 DEF JobRow
<1>5. OwnRow(j)
  BY <1>2, <1>3 DEF OwnRow, JobRow
<1> QED
  BY <1>4, <1>5 DEF cp

LEMMA UnwrittenRow == ASSUME NEW j, jobs' = jobs PROVE OwnRow(j)
BY DEF OwnRow

(* What a command does to the guest when it ends, runs, or fails. *)
LEMMA CommandEnds ==
    ASSUME NEW e, Ends(e) \/ Runs(e) \/ FailEffect(e)
    PROVE  /\ pend' \subseteq pend
           /\ e.cmd # "stop" => downBy' = downBy /\ app' \in {app, "up"}
           /\ GuestMove(e.job)
<1>1. pend' \subseteq pend
  BY FailEffectEnds
<1>2. \/ UNCHANGED <<app, downBy>>
      \/ app' = AfterApp(e.cmd) /\ downBy' = IF e.cmd = "stop" THEN e.job ELSE downBy
  BY DEF Ends, Runs, FailEffect
<1>3. e.cmd # "stop" => AfterApp(e.cmd) \in {app, "up"}
  BY DEF AfterApp
<1>4. e.cmd # "stop" => downBy' = downBy /\ app' \in {app, "up"}
  BY <1>2, <1>3
<1>5. e.cmd = "stop" => downBy' = e.job \/ (downBy' = downBy /\ app' = app)
  BY <1>2
<1> QED
  BY <1>1, <1>4, <1>5 DEF GuestMove

(* What is known of a runner in the middle of its operation. *)
LEMMA MidOperation ==
    ASSUME TypeInv, OwedInv, StopInv, NEW r \in Runners, wk[r].pc \in EarlyPcs \cup LatePcs
    PROVE  /\ wk[r].job \in Jobs /\ Claimed(r) /\ jobs[wk[r].job].cp \in Flags
           /\ jobs[wk[r].job].kind \in Kinds /\ Fits(wk[r].pc, jobs[wk[r].job].kind)
           /\ wk[r].pc \in EarlyPcs => ~Disruptive(jobs[wk[r].job].cp) /\ Safe(wk[r].job)
           /\ wk[r].pc \in LatePcs => jobs[wk[r].job].cp.disruptive
           /\ Stopped(r) /\ WorkInv /\ jobs \in JobTable
<1>1. wk[r].pc # "idle"
  BY DEF EarlyPcs, LatePcs
<1>2. wk[r].job \in Jobs /\ WorkInv /\ jobs \in JobTable
  BY <1>1 DEF TypeInv, WorkInv, JobInHand
<1>3. jobs[wk[r].job].cp \in Flags /\ jobs[wk[r].job].kind \in Kinds
  BY <1>2 DEF JobTable, JobRow
<1>4. RunnerOK(r) /\ JobOK(wk[r].job) /\ Fits(wk[r].pc, jobs[wk[r].job].kind)
  BY <1>1, <1>2 DEF StopInv, OwedInv, RowInHand
<1> QED
  BY <1>2, <1>3, <1>4 DEF RunnerOK, ClaimKept, Marked, JobOK

(* The phases before the stop. *)
LEMMA EarlyStop ==
    ASSUME TypeInv, LeaseInv, OwedInv, StopInv, NEW r \in Runners,
           \/ AcquireLock(r) \/ TakeoverLock(r) \/ HonourCancel(r)
           \/ ReapCounted(r) \/ ReapBlind(r) \/ ReapAgain(r) \/ PreviousWriterAlive(r)
           \/ BuildDone(r) \/ NoContract(r) \/ BuildFailed(r)
           \/ (ContainmentUnavailable(r) /\ wk[r].pc = "build")
           \/ RecoverStep(r) \/ QueryDone(r) \/ QueryFailed(r)
    PROVE  StopInv'
<1>1. proc[r] = "up" /\ wk[r].pc \in EarlyPcs
  BY DEF AcquireLock, TakeoverLock, HonourCancel, SafePhases, ReapCounted, ReapBlind, ReapAgain,
         PreviousWriterAlive, BuildDone, NoContract, BuildFailed, ContainmentUnavailable,
         RecoverStep, StatusDone, StartDone, ProbeDone, QueryDone, QueryFailed, At, Awaits, EarlyPcs
<1>2. PICK j \in Jobs : j = wk[r].job
  BY <1>1, MidOperation
<1>3. /\ Claimed(r) /\ jobs[j].cp \in Flags /\ jobs[j].kind \in Kinds
      /\ ~Disruptive(jobs[j].cp) /\ WorkInv /\ jobs \in JobTable
  BY <1>1, <1>2, MidOperation
<1>e. ASSUME Moved(r), jobs' = jobs, wk'[r].pc \in EarlyPcs \cup EndPcs,
             pend' \subseteq pend, downBy' = downBy, app' \in {app, "up"}
      PROVE  StopInv'
  <2>1. OwnRow(j) /\ ~Disruptive(jobs'[j].cp)
    BY <1>e, <1>3, UnwrittenRow
  <2> QED
    BY <1>e, <1>1, <1>2, <2>1, EarlyMove
<1>c. Command(r).cmd = wk[r].pc
  BY DEF Command
<1>4. CASE AcquireLock(r) \/ TakeoverLock(r)
  <2>1. Moved(r) /\ wk'[r].pc = FirstPhase(jobs[j].kind)
    BY <1>2, <1>3, <1>4, LeaseMove
  <2>2. wk'[r].pc \in EarlyPcs
    BY <1>3, <2>1 DEF FirstPhase, Kinds, EarlyPcs
  <2> QED
    BY <1>4, <1>e, <2>1, <2>2 DEF AcquireLock, TakeoverLock
<1>5. CASE HonourCancel(r)
  <2>1. Moved(r) /\ wk'[r].pc = "finish"
    BY <1>3, <1>5, SettleMove DEF HonourCancel
  <2>2. OwnRow(j) /\ jobs'[j].cp = jobs[j].cp
    BY <1>2, <1>3, <1>5 DEF HonourCancel, OwnRow, JobTable, JobRow
  <2> QED
    BY <1>1, <1>2, <1>3, <1>5, <2>1, <2>2, EarlyMove DEF HonourCancel, EndPcs
<1>6. CASE ReapCounted(r) \/ ReapBlind(r) \/ ReapAgain(r)
  <2>1. Moved(r) /\ wk'[r].pc \in {"reap", AfterReap(r)}
    BY <1>3, <1>6, ReapedMove, ReapAgainMove DEF ReapCounted, ReapBlind, ReapAgain
  <2>2. wk'[r].pc \in EarlyPcs
    BY <2>1 DEF AfterReap, EarlyPcs
  <2> QED
    BY <1>6, <1>e, <2>1, <2>2 DEF ReapCounted, ReapBlind, ReapAgain
<1>7. CASE PreviousWriterAlive(r)
  <2>1. Moved(r) /\ wk'[r].pc = "finish"
    BY <1>3, <1>7, WriterAliveMove
  <2> QED
    BY <1>7, <1>e, <2>1 DEF PreviousWriterAlive, EndPcs
<1>8. CASE BuildDone(r) \/ StartDone(r)
  <2>1. Moved(r) /\ wk'[r].pc \in {"mark_stop", "probe"}
    BY <1>3, <1>8, GotoMove DEF BuildDone, StartDone
  <2>2. pend' \subseteq pend /\ downBy' = downBy /\ app' \in {app, "up"} /\ jobs' = jobs
    BY <1>8, <1>c, CommandEnds DEF BuildDone, StartDone, Awaits
  <2> QED
    BY <1>e, <2>1, <2>2 DEF EarlyPcs
<1>9. CASE NoContract(r) \/ BuildFailed(r) \/ (ContainmentUnavailable(r) /\ wk[r].pc = "build")
  <2>1. \E status, outcome : Settle(r, status, outcome, FALSE)
    BY <1>9 DEF NoContract, BuildFailed, ContainmentUnavailable
  <2>2. Moved(r) /\ wk'[r].pc = "finish"
    BY <1>3, <2>1, SettleMove
  <2>3. wk[r].pc = "build" /\ jobs' = jobs /\ (Ends(Command(r)) \/ FailEffect(Command(r)))
    BY <1>9 DEF NoContract, BuildFailed, ContainmentUnavailable, Awaits
  <2>4. pend' \subseteq pend /\ downBy' = downBy /\ app' \in {app, "up"}
    BY <1>c, <2>3, CommandEnds
  <2> QED
    BY <1>e, <2>2, <2>3, <2>4 DEF EndPcs
<1>10. CASE StatusDone(r)
  <2>1. Moved(r) /\ wk'[r].pc \in {"probe", "start"}
    BY <1>3, <1>10, GotoMove DEF StatusDone
  <2> QED
    BY <1>10, <1>e, <2>1 DEF StatusDone, EarlyPcs
<1>11. CASE ProbeDone(r) \/ QueryFailed(r)
  <2>1. \E status, outcome, owed : Settle(r, status, outcome, owed)
    BY <1>11 DEF ProbeDone, QueryFailed
  <2>2. Moved(r) /\ wk'[r].pc \in EndPcs
    BY <1>3, <2>1, SettleMove DEF EndPcs
  <2> QED
    BY <1>11, <1>e, <2>2 DEF ProbeDone, QueryFailed
<1>12. CASE QueryDone(r)
  <2>1. Moved(r) /\ wk'[r].pc = "mark_issue"
    BY <1>3, <1>12, GotoMove DEF QueryDone
  <2>2. OwnRow(j) /\ jobs'[j].cp = Merge("validated", jobs[j].cp)
    BY <1>2, <1>3, <1>12, CheckpointRow DEF QueryDone
  <2>3. ~Disruptive(jobs'[j].cp)
    BY <1>3, <2>2, MergeMarks
  <2> QED
    BY <1>1, <1>2, <1>12, <2>1, <2>2, <2>3, EarlyMove DEF QueryDone, EarlyPcs
<1> QED
  BY <1>4, <1>5, <1>6, <1>7, <1>8, <1>9, <1>10, <1>11, <1>12 DEF RecoverStep

(* A command is issued: before the stop, a build or a start of the unit. *)
LEMMA IssueStop ==
    ASSUME TypeInv, LeaseInv, OwedInv, StopInv, NEW r \in Runners, NEW ph \in Phases, Issue(r, ph)
    PROVE  StopInv'
<1>1. proc[r] = "up" /\ wk[r].pc = ph /\ ph \in EarlyPcs \cup LatePcs
  BY DEF Issue, At, Phases, Contained, EarlyPcs, LatePcs
<1>2. PICK j \in Jobs : j = wk[r].job
  BY <1>1, MidOperation
<1>3. /\ Claimed(r) /\ jobs[j].cp \in Flags /\ Stopped(r) /\ WorkInv /\ jobs \in JobTable
      /\ ph \in EarlyPcs => ~Disruptive(jobs[j].cp)
      /\ ph \in LatePcs => jobs[j].cp.disruptive
  BY <1>1, <1>2, MidOperation
<1>4. Moved(r) /\ SameEnd(r) /\ wk'[r].pc = ph
  BY <1>3, IssueMove
<1>5. OwnRow(j) /\ jobs'[j].cp = MarkBefore(ph, jobs[j].cp)
  BY <1>2, <1>3, IssueRow
<1>6. /\ \A e \in pend' : e \in pend \/ (e.job = j /\ e.cmd = ph /\ ph \in Effectful)
      /\ downBy' = downBy /\ app' = app
  BY <1>1, <1>2 DEF Issue, Command
<1>7. CASE ph \in EarlyPcs
  <2>1. ~Disruptive(jobs'[j].cp)
    BY <1>3, <1>5, <1>7, IssueMarks
  <2>2. ph \in Effectful => ph \in {"build", "start"}
    BY <1>7 DEF EarlyPcs, Effectful, Contained
  <2> QED
    BY <1>1, <1>2, <1>4, <1>5, <1>6, <1>7, <2>1, <2>2, EarlyMove
<1>8. CASE ph \in LatePcs
  <2>1. jobs'[j].cp.disruptive
    BY <1>3, <1>5, <1>8, IssueMarks
  <2>2. GuestMove(j)
    BY <1>6 DEF GuestMove
  <2>3. wk'[r].job = j /\ wk'[r].outcome = wk[r].outcome
    BY <1>2, <1>4 DEF Moved, SameEnd
  <2>4. Stopped(r)'
    <3>1. ph \in {"migrate", "swap", "health"} => StopOf(j) \notin pend'
      BY <1>1, <1>2, <1>3, <1>6 DEF Stopped, StopOf
    <3>2. ph = "verb" => /\ downBy' # j
                         /\ \A e \in pend' : e.job = j => e.cmd \in {"build", "start", "verb"}
      BY <1>1, <1>2, <1>3, <1>6 DEF Stopped
    <3>3. ph = "readback" => ph \notin Effectful
      BY DEF Effectful, Contained
    <3>4. ph = "readback" /\ wk[r].outcome = "restarted" => Safe(j)'
      BY <1>1, <1>2, <1>3, <1>6, <3>3 DEF Stopped, Safe
    <3> QED
      BY <1>4, <2>3, <3>1, <3>2, <3>4 DEF Stopped
  <2> QED
    BY <1>1, <1>2, <1>4, <1>5, <1>8, <2>1, <2>2, <2>4, LateMove
<1> QED
  BY <1>1, <1>7, <1>8

(* The stop, and what follows it. *)
LEMMA LateStop ==
    ASSUME TypeInv, LeaseInv, OwedInv, StopInv, NEW r \in Runners,
           \/ MarkStop(r) \/ StopDone(r) \/ MigrateDone(r) \/ SwapDone(r) \/ HealthDone(r)
           \/ DeployStepFailed(r) \/ HealthFailed(r) \/ RestartUnitDone(r)
           \/ (ContainmentUnavailable(r) /\ wk[r].pc # "build")
    PROVE  StopInv'
<1>1. proc[r] = "up" /\ wk[r].pc \in EarlyPcs \cup LatePcs
  BY DEF MarkStop, StopDone, MigrateDone, SwapDone, HealthDone, DeployStepFailed, HealthFailed,
         RestartUnitDone, ContainmentUnavailable, Contained, At, Awaits, EarlyPcs, LatePcs
<1>2. PICK j \in Jobs : j = wk[r].job
  BY <1>1, MidOperation
<1>3. /\ Claimed(r) /\ jobs[j].cp \in Flags /\ Stopped(r) /\ WorkInv /\ jobs \in JobTable
      /\ wk[r].pc \in LatePcs => jobs[j].cp.disruptive
  BY <1>1, <1>2, MidOperation
<1>c. Command(r).cmd = wk[r].pc /\ Command(r).job = j
  BY <1>2 DEF Command
<1>g. Ends(Command(r)) \/ Runs(Command(r)) \/ FailEffect(Command(r))
      => pend' \subseteq pend /\ GuestMove(j)
  BY <1>c, CommandEnds
<1>m. ASSUME NEW name \in {"unit_written", "app_started", "deploy_verified", "restart_served",
                           "restart_not_served"},
             Checkpoint(r, name), wk[r].pc \in LatePcs
      PROVE  OwnRow(j) /\ jobs'[j].cp.disruptive
  <2>1. OwnRow(j) /\ jobs'[j].cp = Merge(name, jobs[j].cp)
    BY <1>m, <1>2, <1>3, CheckpointRow
  <2> QED
    BY <1>m, <1>3, <2>1, MergeMarks
<1>n. ASSUME jobs' = jobs, wk[r].pc \in LatePcs PROVE OwnRow(j) /\ jobs'[j].cp.disruptive
  BY <1>n, <1>3, UnwrittenRow
<1>4. CASE MarkStop(r)
  <2>1. Moved(r) /\ wk'[r].pc = "stop"
    BY <1>3, <1>4, GotoMove DEF MarkStop
  <2>2. OwnRow(j) /\ jobs'[j].cp = Merge("stopping_app", jobs[j].cp)
    BY <1>2, <1>3, <1>4, CheckpointRow DEF MarkStop
  <2>3. jobs'[j].cp.disruptive /\ GuestMove(j)
    BY <1>3, <1>4, <2>2, MergeMarks DEF MarkStop, GuestMove
  <2>4. Stopped(r)' /\ wk'[r].pc \in LatePcs
    BY <2>1 DEF Stopped, LatePcs
  <2> QED
    BY <1>1, <1>2, <2>1, <2>2, <2>3, <2>4, LateMove
<1>5. CASE StopDone(r)
  <2>1. Moved(r) /\ wk'[r].pc = "migrate" /\ wk[r].pc = "stop"
    BY <1>3, <1>5, GotoMove DEF StopDone, Awaits
  <2>2. OwnRow(j) /\ jobs'[j].cp.disruptive
    BY <1>5, <1>n, <2>1 DEF StopDone, LatePcs
  <2>3. GuestMove(j) /\ StopOf(j) \notin pend'
    <3>1. Command(r) = StopOf(j)
      BY <1>2, <2>1 DEF Command, StopOf
    <3>2. pend' = pend \ {Command(r)}
      BY <1>5, <1>c, <2>1 DEF StopDone, Runs, AfterPend
    <3> QED
      BY <1>5, <1>g, <3>1, <3>2 DEF StopDone
  <2>4. Stopped(r)' /\ wk'[r].pc \in LatePcs
    BY <1>2, <2>1, <2>3 DEF Stopped, LatePcs, Moved
  <2> QED
    BY <1>1, <1>2, <2>1, <2>2, <2>3, <2>4, LateMove
<1>6. CASE MigrateDone(r) \/ SwapDone(r)
  <2>1. Moved(r) /\ wk'[r].pc \in {"swap", "health"} /\ wk[r].pc \in {"migrate", "swap"}
    BY <1>3, <1>6, GotoMove DEF MigrateDone, SwapDone, Awaits
  <2>2. wk[r].pc \in LatePcs
    BY <2>1 DEF LatePcs
  <2>3. OwnRow(j) /\ jobs'[j].cp.disruptive
    BY <1>6, <1>n, <1>m, <2>2 DEF MigrateDone, SwapDone
  <2>4. GuestMove(j) /\ pend' \subseteq pend
    BY <1>6, <1>g DEF MigrateDone, SwapDone
  <2>5. Stopped(r)' /\ wk'[r].pc \in LatePcs
    BY <1>2, <1>3, <2>1, <2>4 DEF Stopped, LatePcs, Moved
  <2> QED
    BY <1>1, <1>2, <2>1, <2>3, <2>4, <2>5, LateMove
<1>7. CASE HealthDone(r)
  <2>1. PICK status \in {"succeeded", "recovery_required"} : Settle(r, status, "serving", Guarded)
    BY <1>7 DEF HealthDone
  <2>2. Moved(r) /\ wk'[r].pc \in EndPcs /\ wk'[r].status = status
    BY <1>3, <2>1, SettleMove DEF EndPcs
  <2>3. wk[r].pc = "health" /\ wk[r].pc \in LatePcs
    BY <1>7 DEF HealthDone, Awaits, LatePcs
  <2>4. OwnRow(j) /\ jobs'[j].cp.disruptive
    BY <1>7, <1>m, <2>3 DEF HealthDone
  <2>5. GuestMove(j) /\ pend' \subseteq pend /\ app' = "up"
    BY <1>7, <1>g DEF HealthDone, Ends
  <2>6. NotDown(j)'
    BY <1>2, <1>3, <2>3, <2>5 DEF NotDown, Stopped, StopOf
  <2> QED
    BY <1>1, <1>2, <2>1, <2>2, <2>4, <2>5, <2>6, LateMove
<1>8. CASE DeployStepFailed(r)
  <2>1. Moved(r) /\ wk'[r].pc = "restart_unit" /\ wk[r].pc \in LatePcs
    BY <1>3, <1>8, GotoMove DEF DeployStepFailed, Awaits, LatePcs
  <2>2. OwnRow(j) /\ jobs'[j].cp.disruptive
    BY <1>8, <1>n, <1>m, <2>1 DEF DeployStepFailed
  <2>3. GuestMove(j)
    BY <1>8, <1>g DEF DeployStepFailed
  <2>4. Stopped(r)' /\ wk'[r].pc \in LatePcs
    BY <2>1 DEF Stopped, LatePcs
  <2> QED
    BY <1>1, <1>2, <2>1, <2>2, <2>3, <2>4, LateMove
<1>9. CASE HealthFailed(r) \/ RestartUnitDone(r)
  <2>1. Settle(r, "failed", "step_failed", TRUE)
    BY <1>9 DEF HealthFailed, RestartUnitDone
  <2>2. Moved(r) /\ wk'[r].pc = "followup" /\ wk'[r].status = "failed"
    BY <1>3, <2>1, SettleMove
  <2>3. wk[r].pc \in LatePcs
    BY <1>9 DEF HealthFailed, RestartUnitDone, Awaits, LatePcs
  <2>4. OwnRow(j) /\ jobs'[j].cp.disruptive
    BY <1>9, <1>n, <1>m, <2>3 DEF HealthFailed, RestartUnitDone
  <2>5. GuestMove(j)
    <3>1. CASE HealthFailed(r)
      BY <1>2, <3>1 DEF HealthFailed, GuestMove
    <3>2. CASE RestartUnitDone(r) /\ ~Runs(Command(r))
      BY <3>2 DEF RestartUnitDone, GuestMove
    <3> QED
      BY <1>9, <1>g, <3>1, <3>2
  <2> QED
    BY <1>1, <1>2, <2>2, <2>4, <2>5, LateMove
<1>10. CASE ContainmentUnavailable(r) /\ wk[r].pc # "build"
  <2>1. Settle(r, "recovery_required", "containment_unavailable", FALSE)
    BY <1>10 DEF ContainmentUnavailable
  <2>2. Moved(r) /\ wk'[r].pc = "finish" /\ wk'[r].status = "recovery_required"
    BY <1>3, <2>1, SettleMove
  <2>3. wk[r].pc \in LatePcs
    BY <1>10 DEF ContainmentUnavailable, Contained, Awaits, LatePcs
  <2>4. OwnRow(j) /\ jobs'[j].cp.disruptive /\ GuestMove(j)
    BY <1>10, <1>n, <1>g, <2>3 DEF ContainmentUnavailable
  <2> QED
    BY <1>1, <1>2, <2>2, <2>4, LateMove DEF EndPcs
<1> QED
  BY <1>4, <1>5, <1>6, <1>7, <1>8, <1>9, <1>10

(* The verb: it ends every script in the guest, its own stop included. *)
LEMMA LifecycleStop ==
    ASSUME TypeInv, LeaseInv, OwedInv, StopInv, NEW r \in Runners,
           MarkIssue(r) \/ VerbDone(r) \/ VerbFailed(r) \/ ReadBack(r)
    PROVE  StopInv'
<1>1. proc[r] = "up" /\ wk[r].pc \in EarlyPcs \cup LatePcs
  BY DEF MarkIssue, VerbDone, VerbFailed, ReadBack, At, Awaits, EarlyPcs, LatePcs
<1>2. PICK j \in Jobs : j = wk[r].job
  BY <1>1, MidOperation
<1>3. /\ Claimed(r) /\ jobs[j].cp \in Flags /\ Stopped(r) /\ WorkInv /\ jobs \in JobTable
      /\ Fits(wk[r].pc, jobs[j].kind)
      /\ wk[r].pc \in EarlyPcs => Safe(j)
      /\ wk[r].pc \in LatePcs => jobs[j].cp.disruptive
  BY <1>1, <1>2, MidOperation
<1>c. Command(r).cmd = wk[r].pc /\ Command(r).job = j
  BY <1>2 DEF Command
<1>n. ASSUME jobs' = jobs, wk[r].pc \in LatePcs PROVE OwnRow(j) /\ jobs'[j].cp.disruptive
  BY <1>n, <1>3, UnwrittenRow
<1>4. CASE MarkIssue(r)
  <2>1. Moved(r) /\ wk'[r].pc = "verb" /\ wk[r].pc \in EarlyPcs
    BY <1>3, <1>4, GotoMove DEF MarkIssue, At, EarlyPcs
  <2>2. OwnRow(j) /\ jobs'[j].cp = Merge("issuing", jobs[j].cp)
    BY <1>2, <1>3, <1>4, CheckpointRow DEF MarkIssue
  <2>3. jobs'[j].cp.disruptive /\ GuestMove(j)
    BY <1>3, <1>4, <2>2, MergeMarks DEF MarkIssue, GuestMove
  <2>4. Stopped(r)' /\ wk'[r].pc \in LatePcs
    BY <1>2, <1>3, <1>4, <2>1 DEF MarkIssue, Moved, Stopped, Safe, LatePcs
  <2> QED
    BY <1>1, <1>2, <2>1, <2>2, <2>3, <2>4, LateMove
<1>5. CASE VerbDone(r)
  <2>1. /\ Moved(r) /\ wk'[r].pc = "readback" /\ wk'[r].outcome = "restarted"
        /\ wk[r].pc = "verb" /\ wk[r].pc \in LatePcs
    BY <1>3, <1>5, ExitedMove DEF VerbDone, Awaits, LatePcs
  <2>2. OwnRow(j) /\ jobs'[j].cp.disruptive
    BY <1>5, <1>n, <2>1 DEF VerbDone
  <2>3. GuestMove(j)
    BY <1>5, <1>c, CommandEnds DEF VerbDone
  <2>4. Safe(j)'
    <3>1. pend' \subseteq {x \in pend : x.cmd = "verb"} \ {Command(r)} /\ downBy' = downBy
      BY <1>5, <1>c, <2>1 DEF VerbDone, Runs, AfterPend
    <3>2. \A x \in pend : x.cmd = "verb" /\ x.job = j => x = Command(r)
      BY <1>c, <2>1 DEF TypeInv, GuestType, Commands, Command
    <3> QED
      BY <1>2, <1>3, <2>1, <3>1, <3>2 DEF Safe, Stopped
  <2>5. Stopped(r)' /\ wk'[r].pc \in LatePcs
    BY <1>2, <2>1, <2>4 DEF Moved, Stopped, LatePcs
  <2> QED
    BY <1>1, <1>2, <2>1, <2>2, <2>3, <2>5, LateMove
<1>6. CASE VerbFailed(r)
  <2>1. /\ Moved(r) /\ wk'[r].pc = "readback" /\ wk'[r].outcome = "step_failed"
        /\ wk[r].pc = "verb" /\ wk[r].pc \in LatePcs
    BY <1>3, <1>6, ExitedMove DEF VerbFailed, Awaits, LatePcs
  <2>2. OwnRow(j) /\ jobs'[j].cp.disruptive
    BY <1>6, <1>n, <2>1 DEF VerbFailed
  <2>3. GuestMove(j)
    <3>1. CASE FailEffect(Command(r))
      BY <1>c, <3>1, CommandEnds
    <3>2. CASE downBy' = wk[r].job /\ pend' = AfterPend(Command(r))
      BY <1>2, <3>2 DEF GuestMove, AfterPend
    <3> QED
      BY <1>6, <3>1, <3>2 DEF VerbFailed
  <2>4. Stopped(r)' /\ wk'[r].pc \in LatePcs
    BY <2>1 DEF Stopped, LatePcs
  <2> QED
    BY <1>1, <1>2, <2>1, <2>2, <2>3, <2>4, LateMove
<1>7. CASE ReadBack(r)
  <2>1. wk[r].pc = "readback" /\ wk[r].pc \in LatePcs /\ jobs[j].kind # "deploy"
    BY <1>3, <1>7 DEF ReadBack, Awaits, LatePcs, Fits
  <2>2. GuestMove(j)
    BY <1>7 DEF ReadBack, GuestMove
  <2>3. CASE wk[r].outcome = "restarted" /\ Checkpoint(r, "lifecycle_verified")
             /\ Settle(r, "succeeded", "restarted", Guarded)
    <3>1. Moved(r) /\ wk'[r].pc \in EndPcs /\ wk'[r].status = "succeeded"
      BY <1>3, <2>3, SettleMove DEF EndPcs
    <3>2. OwnRow(j)
      BY <1>2, <1>3, <2>3, CheckpointRow
    <3>3. Safe(j)'
      BY <1>2, <1>3, <1>7, <2>1, <2>3 DEF Stopped, ReadBack, Safe
    <3>4. NotDown(j)'
      BY <3>3 DEF Safe, NotDown, StopOf
    <3>5. Marked(r)' /\ Stopped(r)' /\ wk'[r].pc \notin {"rc_follow", "rc_record"}
      BY <3>1 DEF Marked, Stopped, EarlyPcs, LatePcs, EndPcs
    <3>6. Ending(r)'
      BY <1>2, <3>1, <3>4 DEF Ending, Moved
    <3> QED
      BY <1>1, <1>2, <2>2, <3>1, <3>2, <3>3, <3>5, <3>6, InOperation
  <2>4. CASE jobs' = jobs /\ Settle(r, "failed", "step_failed", FALSE)
    <3>1. Moved(r) /\ wk'[r].pc = "finish" /\ wk'[r].status = "failed"
      BY <1>3, <2>4, SettleMove
    <3>2. OwnRow(j) /\ jobs'[j].cp.disruptive
      BY <1>n, <2>1, <2>4
    <3> QED
      BY <1>1, <1>2, <2>1, <2>2, <3>1, <3>2, LateMove
  <2> QED
    BY <1>7, <2>3, <2>4 DEF ReadBack
<1> QED
  BY <1>4, <1>5, <1>6, <1>7

(* A runner with nothing in hand. *)
LEMMA IdleOK == ASSUME NEW r, wk'[r].pc \in {"idle", "release", "mark_stale", "rc_lock"}
    PROVE  RunnerOK(r)'
BY DEF RunnerOK, ClaimKept, DecisionFresh, Marked, Stopped, Ending, EarlyPcs, LatePcs, EndPcs

(* A job that is safe may be recorded as anything. *)
LEMMA SafeOK ==
    ASSUME NEW j, ~Disruptive(jobs'[j].cp), Safe(j)' PROVE JobOK(j)'
<1>1. NotDown(j)'
  BY DEF Safe, NotDown, StopOf
<1> QED
  BY <1>1 DEF JobOK

(* A job's status is written, and its checkpoint is not. *)
StatusOnly(j) ==
    /\ \A k \in Jobs \ {j} : jobs'[k] = jobs[k]
    /\ jobs'[j].cp = jobs[j].cp
LEMMA StatusWrites ==
    ASSUME jobs \in JobTable, NEW r, NEW j \in Jobs,
           \/ \E wait : RequeueJob(j, wait)
           \/ \E status, outcome : \/ j = wk[r].job /\ FinishJob(r, status, outcome)
                                   \/ RecordJobOutcome(j, status, outcome)
    PROVE  StatusOnly(j)
<1>1. CASE jobs' = jobs
  BY <1>1 DEF StatusOnly
<1>2. ASSUME NEW wait, jobs[j].status = "running", RequeueJob(j, wait) PROVE StatusOnly(j)
  BY <1>2 DEF JobTable, JobRow, RequeueJob, StatusOnly
<1>3. ASSUME NEW status, NEW outcome, jobs[j].status = "running", RecordJobOutcome(j, status, outcome)
      PROVE  StatusOnly(j)
  <2>1. jobs' = [jobs EXCEPT ![j] = [jobs[j] EXCEPT !.status = status, !.outcome = outcome,
                                                   !.live = FALSE]]
    BY <1>3 DEF JobTable, RecordJobOutcome
  <2>2. jobs[j] \in JobRow /\ jobs'[j] = [jobs[j] EXCEPT !.status = status, !.outcome = outcome,
                                                       !.live = FALSE]
    BY <2>1 DEF JobTable
  <2>3. jobs'[j].cp = jobs[j].cp
    BY <2>2 DEF JobRow
  <2> QED
    BY <2>1, <2>3 DEF JobTable, StatusOnly
<1>4. ASSUME NEW status, NEW outcome, j = wk[r].job, Claimed(r), FinishJob(r, status, outcome)
      PROVE  StatusOnly(j)
  BY <1>4 DEF JobTable, JobRow, FinishJob, StatusOnly
<1>5. \/ jobs' = jobs
      \/ (jobs[j].status = "running" /\ \E wait : RequeueJob(j, wait))
      \/ \E status, outcome :
            \/ j = wk[r].job /\ Claimed(r) /\ FinishJob(r, status, outcome)
            \/ jobs[j].status = "running" /\ RecordJobOutcome(j, status, outcome)
  BY DEF RequeueJob, FinishJob, RecordJobOutcome
<1> QED
  BY <1>1, <1>2, <1>3, <1>4, <1>5

(* Nothing happens to the guest. *)
LEMMA GuestStays ==
    ASSUME NEW j, UNCHANGED <<app, downBy, pend>>
    PROVE  GuestMove(j) /\ (Safe(j) => Safe(j)') /\ (NotDown(j) => NotDown(j)')
BY DEF GuestMove, Safe, NotDown, StopOf

LEMMA TakeJobStop ==
    ASSUME TypeInv, LeaseInv, OwedInv, StopInv, NEW r \in Runners, TakeJob(r)
    PROVE  StopInv'
<1>0. WorkInv /\ jobs \in JobTable
  BY DEF TypeInv
<1>1. ASSUME NEW j \in Jobs, ClaimNextJob(r, j) PROVE StopInv'
  <2> DEFINE e == jobs[j].epoch + 1
  <2>1. jobs' = [jobs EXCEPT ![j] = [jobs[j] EXCEPT !.status = "running", !.owner = r,
                                          !.epoch = e, !.live = TRUE, !.wait = FALSE]]
    BY <1>0, <1>1 DEF ClaimNextJob, JobTable
  <2>2. OnlyOwnRow(r) /\ wk'[r].pc = "lease" /\ wk'[r].job = j /\ wk'[r].epoch = e
    BY <1>0, <1>1, ClaimMove
  <2> HIDE DEF e
  <2>3. \A k \in Jobs \ {j} : jobs'[k] = jobs[k]
    BY <1>0, <2>1 DEF JobTable
  <2>4. /\ jobs'[j].status = "running" /\ jobs'[j].owner = r /\ jobs'[j].epoch = e
        /\ jobs'[j].cp = jobs[j].cp
    BY <1>0, <2>1 DEF JobTable, JobRow
  <2>5. ~Disruptive(jobs[j].cp) /\ Safe(j)
    BY <1>1 DEF ClaimNextJob, StopInv, JobOK
  <2>6. GuestMove(j) /\ Safe(j)'
    BY <1>1, <2>5, GuestStays DEF ClaimNextJob
  <2>7. JobOK(j)'
    BY <2>4, <2>5, <2>6, SafeOK
  <2>8. Claimed(r)'
    BY <2>2, <2>4 DEF Claimed
  <2>9. RunnerOK(r)'
    BY <2>2, <2>4, <2>5, <2>8
    DEF RunnerOK, ClaimKept, DecisionFresh, Marked, Stopped, Ending, LatePcs, EndPcs
  <2>10. RowsKept /\ proc[r] = "up"
    BY <1>1, OperationStore, MovesKeepRows DEF ClaimNextJob, At
  <2> QED
    BY <2>2, <2>3, <2>6, <2>7, <2>9, <2>10, StopStep
<1>2. CASE Busy(r)
  <2>1. proc[r] = "up" /\ wk[r].pc \in EarlyPcs
    BY <1>2 DEF Busy, At, EarlyPcs
  <2>2. PICK j \in Jobs : j = wk[r].job
    BY <2>1, MidOperation
  <2>3. ~Disruptive(jobs[j].cp) /\ Safe(j)
    BY <2>1, <2>2, MidOperation
  <2>4. OnlyOwnRow(r) /\ RunnerOK(r)'
    BY <1>0, <1>2, LeavesMove, IdleOK
  <2>5. \/ RequeueJob(j, TRUE)
        \/ \E status \in {"refused", "deferred"} : \E outcome : FinishJob(r, status, outcome)
    BY <1>2, <2>2 DEF Busy
  <2>6. StatusOnly(j)
    BY <1>0, <2>2, <2>5, StatusWrites
  <2>7. RowsKept
    <3>1. {"refused", "deferred"} \subseteq JOB_STATUS \ {"none"}
      BY DEF JOB_STATUS, TERMINAL_STATUS
    <3> QED
      BY <1>0, <2>5, <3>1, RequeueStore, MovesKeepRows, FinishJobStore
  <2>8. GuestMove(j) /\ Safe(j)'
    BY <1>2, <2>3, GuestStays DEF Busy
  <2>9. JobOK(j)'
    BY <2>3, <2>6, <2>8, SafeOK DEF StatusOnly
  <2> QED
    BY <2>1, <2>4, <2>6, <2>7, <2>8, <2>9, StopStep DEF StatusOnly
<1> QED
  BY <1>1, <1>2, EarlyStop DEF TakeJob

(* A row is created, and nothing else is written. *)
LEMMA NewRowHarmless ==
    ASSUME jobs \in JobTable, NEW k \in Jobs, NEW job, NextRow(k), jobs' = [jobs EXCEPT ![k] = job],
           job.cp = NoCheckpoint
    PROVE  \A i \in Jobs : jobs'[i] = jobs[i] \/ (jobs[i].status = "none" /\ ~Disruptive(jobs'[i].cp))
BY DEF JobTable, NextRow, Disruptive, NoCheckpoint

LEMMA NewJobUnmarked ==
    ASSUME NEW kind, NEW origin, NEW asked PROVE NewJob(kind, origin, asked).cp = NoCheckpoint
BY DEF NewJob, NoJob

(* An operation ends: what it queues, and what it records. *)
LEMMA RecordStop ==
    ASSUME TypeInv, LeaseInv, OwedInv, StopInv, NEW r \in Runners, RecordStep(r)
    PROVE  StopInv'
<1>0. WorkInv /\ jobs \in JobTable
  BY DEF TypeInv
<1>1. ASSUME wk[r].pc \in EndPcs
      PROVE  /\ wk[r].job \in Jobs /\ Claimed(r) /\ Ending(r) /\ JobOK(wk[r].job)
             /\ wk[r].status \in TERMINAL_STATUS \ {"deferred", "refused"}
  <2>1. wk[r].job \in Jobs /\ wk[r].status \in TERMINAL_STATUS
    BY <1>1 DEF TypeInv, WorkInv, JobInHand, WorkTable, WorkRow, EndPcs
  <2> QED
    BY <1>1, <2>1 DEF StopInv, RunnerOK, ClaimKept, OwedInv, Reporting
<1>2. CASE QueueFollowUp(r)
  <2>1. Moved(r) /\ SameEnd(r) /\ wk'[r].pc = "finish" /\ proc[r] = "up" /\ wk[r].pc = "followup"
    BY <1>0, <1>2, GotoMove DEF QueueFollowUp, At
  <2>2. PICK j \in Jobs : j = wk[r].job
    BY <1>1, <2>1 DEF EndPcs
  <2>3. Claimed(r) /\ Ending(r) /\ JobOK(j)
    BY <1>1, <2>1, <2>2 DEF EndPcs
  <2>4. PICK k \in Jobs : NextRow(k) /\ jobs' = [jobs EXCEPT ![k] = NewJob("verify_app", j, FALSE)]
    BY <1>2, <2>2 DEF QueueFollowUp
  <2>5. \A i \in Jobs : jobs'[i] = jobs[i] \/ (jobs[i].status = "none" /\ ~Disruptive(jobs'[i].cp))
    BY <1>0, <2>4, NewRowHarmless, NewJobUnmarked
  <2>6. jobs'[j] = jobs[j]
    BY <2>2, <2>3, <2>5 DEF Claimed
  <2>7. FollowUps(j)' # {}
    <3>1. jobs'[k].status = "queued" /\ jobs'[k].origin = j
      BY <1>0, <2>4 DEF JobTable, NewJob, NoJob
    <3> QED
      BY <3>1 DEF FollowUps
  <2>8. RowsKept
    BY <1>2, OperationStore, MovesKeepRows
  <2>9. GuestMove(j) /\ (Safe(j) => Safe(j)') /\ (NotDown(j) => NotDown(j)')
    BY <1>2, GuestStays DEF QueueFollowUp
  <2>10. JobOK(j)'
    BY <2>3, <2>6, <2>8, <2>9, OtherRow
  <2>11. Claimed(r)' /\ Ending(r)'
    BY <2>1, <2>2, <2>3, <2>6, <2>7, <2>9 DEF Claimed, Ending, Moved, SameEnd, EndPcs
  <2>12. RunnerOK(r)'
    BY <2>1, <2>11
    DEF RunnerOK, ClaimKept, DecisionFresh, Marked, Stopped, EarlyPcs, LatePcs
  <2> QED
    BY <2>1, <2>5, <2>8, <2>9, <2>10, <2>12, StopStep DEF Moved
<1>3. CASE Finish(r)
  <2>1. /\ Moved(r) /\ wk'[r].pc \in {"mark_stale", "release"} /\ proc[r] = "up"
        /\ wk[r].pc = "finish"
    BY <1>0, <1>3, GotoMove DEF Finish, At
  <2>2. PICK j \in Jobs : j = wk[r].job
    BY <1>1, <2>1 DEF EndPcs
  <2>3. /\ Claimed(r) /\ Ending(r) /\ JobOK(j)
        /\ wk[r].status \in {"succeeded", "failed", "recovery_required", "cancelled"}
    BY <1>1, <2>1, <2>2 DEF EndPcs, TERMINAL_STATUS
  <2>4. FinishJob(r, wk[r].status, wk[r].outcome)
    BY <1>3 DEF Finish
  <2>5. wk[r].status \in JOB_STATUS \ {"none"}
    BY <2>3 DEF JOB_STATUS, TERMINAL_STATUS
  <2>6. RowsKept /\ jobs'[j].status = wk[r].status
    BY <1>0, <2>2, <2>3, <2>4, <2>5, FinishJobStore
  <2>7. StatusOnly(j)
    BY <1>0, <2>2, <2>4, StatusWrites
  <2>8. GuestMove(j) /\ (Safe(j) => Safe(j)') /\ (NotDown(j) => NotDown(j)')
    BY <1>3, GuestStays DEF Finish
  <2>9. jobs'[j].kind = jobs[j].kind /\ FollowUps(j) \subseteq FollowUps(j)'
    BY <2>2, <2>3, <2>6, FollowUpsKept DEF RowsKept, RowKept, Claimed
  <2>10. JobOK(j)'
    <3>1. jobs'[j].status \in {"none", "queued", "cancelled"} => ~Disruptive(jobs'[j].cp)
      BY <2>1, <2>2, <2>3, <2>6, <2>7 DEF Ending, EndPcs, StatusOnly
    <3>2. ~Disruptive(jobs'[j].cp) => Safe(j)'
      BY <2>3, <2>7, <2>8 DEF JobOK, StatusOnly
    <3>3. ASSUME jobs'[j].kind = "deploy", ~NotDown(j)' PROVE Answerable(j)'
      <4>1. Disruptive(jobs[j].cp) /\ ~NotDown(j) /\ jobs[j].kind = "deploy"
        BY <2>3, <2>7, <2>8, <2>9, <3>3, SafeIsNotDown DEF JobOK
      <4>2. \/ wk[r].status = "recovery_required"
            \/ wk[r].status = "failed" /\ FollowUps(j) # {}
        BY <2>1, <2>2, <2>3, <4>1 DEF Ending, EndPcs
      <4> QED
        BY <2>6, <2>9, <4>2 DEF Answerable
    <3> QED
      BY <3>1, <3>2, <3>3 DEF JobOK
  <2>11. RunnerOK(r)'
    BY <2>1, IdleOK
  <2> QED
    BY <2>1, <2>6, <2>7, <2>8, <2>10, <2>11, StopStep DEF Moved, StatusOnly
<1>4. CASE MarkStale(r) \/ ReleaseLock(r)
  <2>1. proc[r] = "up" /\ wk[r].pc # "idle" /\ jobs' = jobs /\ UNCHANGED <<app, downBy, pend>>
    BY <1>4 DEF MarkStale, ReleaseLock, At
  <2>2. OnlyOwnRow(r) /\ RunnerOK(r)'
    BY <1>0, <1>4, LeavesMove, IdleOK
  <2>3. PICK j \in Jobs : j = wk[r].job
    BY <1>0, <2>1 DEF WorkInv, JobInHand
  <2>4. RowsKept
    BY <2>1, StoreStays, MovesKeepRows
  <2>5. GuestMove(j) /\ (Safe(j) => Safe(j)') /\ (NotDown(j) => NotDown(j)')
    BY <2>1, GuestStays
  <2>6. JobOK(j)'
    BY <2>1, <2>4, <2>5, OtherRow DEF StopInv
  <2> QED
    BY <2>1, <2>2, <2>4, <2>5, <2>6, StopStep
<1> QED
  BY <1>2, <1>3, <1>4 DEF RecordStep

(* A decision and the marks it was made from. *)
LEMMA DecisionMarks ==
    ASSUME NEW cp \in Flags
    PROVE  /\ ReconcileDecision(cp) \in {"resume", "record_interrupted", "verify"} => ~Disruptive(cp)
           /\ ReconcileDecision(cp) \in {"resume", "record_interrupted", "verify",
                                         "record_uncertain", "recover"}
BY DEF ReconcileDecision, Flags, Disruptive

(* The reconciler: its decision is about the checkpoint as it still is. *)
LEMMA ReconcileStop ==
    ASSUME TypeInv, LeaseInv, OwedInv, StopInv, NEW r \in Runners, ReconcileStep(r)
    PROVE  StopInv'
<1>0. WorkInv /\ jobs \in JobTable /\ RowsKept /\ UNCHANGED <<app, downBy, pend>> /\ proc[r] = "up"
  BY ReconcileStore, MovesKeepRows
  DEF TypeInv, ReconcileStep, Reconcile, ReconcileFollow, ReconcileRecord, ReconcileLock, At
<1>g. ASSUME NEW j PROVE GuestMove(j) /\ (Safe(j) => Safe(j)') /\ (NotDown(j) => NotDown(j)')
  BY <1>0, GuestStays
<1>n. ASSUME NEW j \in Jobs, OnlyOwnRow(r), RunnerOK(r)',
             \A k \in Jobs : \/ jobs'[k] = jobs[k]
                             \/ jobs[k].status = "none" /\ ~Disruptive(jobs'[k].cp)
      PROVE  StopInv'
  <2>1. JobOK(j)'
    BY <1>0, <1>g, <1>n, OtherRow DEF StopInv
  <2> QED
    BY <1>0, <1>g, <1>n, <2>1, StopStep
<1>1. ASSUME NEW j \in Jobs, Reconcile(r, j) PROVE StopInv'
  <2>1. /\ OnlyOwnRow(r) /\ wk'[r].pc \in {"rc_follow", "rc_record"} /\ wk'[r].job = j
        /\ wk'[r].act = ReconcileDecision(jobs[j].cp)
    BY <1>0, <1>1, ReadMove
  <2>2. jobs' = jobs /\ jobs[j].status = "running"
    BY <1>1 DEF Reconcile
  <2>3. RunnerOK(r)'
    BY <2>1, <2>2
    DEF RunnerOK, ClaimKept, DecisionFresh, Marked, Stopped, Ending, EarlyPcs, LatePcs, EndPcs
  <2> QED
    BY <1>n, <2>1, <2>2, <2>3
<1>2. CASE ReconcileFollow(r)
  <2>1. Moved(r) /\ wk[r].pc = "rc_follow" /\ wk'[r].pc = "rc_record" /\ wk'[r].act = wk[r].act
    BY <1>0, <1>2, FollowMove
  <2>2. PICK j \in Jobs : j = wk[r].job
    BY <1>0, <2>1 DEF WorkInv, JobInHand
  <2>3. jobs[j].status = "running" /\ wk[r].act = ReconcileDecision(jobs[j].cp)
    BY <2>1, <2>2 DEF StopInv, RunnerOK, DecisionFresh
  <2>4. \A k \in Jobs : \/ jobs'[k] = jobs[k]
                        \/ jobs[k].status = "none" /\ ~Disruptive(jobs'[k].cp)
    <3>1. CASE jobs' = jobs
      BY <3>1
    <3>2. CASE jobs' # jobs
      <4>1. PICK kind, k :
               k \in Jobs /\ NextRow(k) /\ jobs' = [jobs EXCEPT ![k] = NewJob(kind, j, FALSE)]
        BY <1>2, <2>2, <3>2 DEF ReconcileFollow
      <4> QED
        BY <1>0, <4>1, NewRowHarmless, NewJobUnmarked
    <3> QED
      BY <3>1, <3>2
  <2>5. jobs'[j] = jobs[j]
    BY <2>3, <2>4
  <2>6. RunnerOK(r)'
    BY <2>1, <2>2, <2>3, <2>5
    DEF RunnerOK, ClaimKept, DecisionFresh, Marked, Stopped, Ending, EarlyPcs, LatePcs, EndPcs, Moved
  <2> QED
    BY <1>n, <2>1, <2>4, <2>6 DEF Moved
<1>3. CASE ReconcileRecord(r)
  <2>1. Moved(r) /\ wk[r].pc = "rc_record" /\ wk'[r].pc = "rc_lock"
    BY <1>0, <1>3, GotoMove DEF ReconcileRecord, At
  <2>2. PICK j \in Jobs : j = wk[r].job
    BY <1>0, <2>1 DEF WorkInv, JobInHand
  <2>3. /\ jobs[j].status = "running" /\ wk[r].act = ReconcileDecision(jobs[j].cp) /\ JobOK(j)
        /\ jobs[j].cp \in Flags
    BY <1>0, <2>1, <2>2 DEF StopInv, RunnerOK, DecisionFresh, JobTable, JobRow
  <2>4. \/ wk[r].act = "resume" /\ RequeueJob(j, FALSE)
        \/ /\ wk[r].act \in {"record_interrupted", "verify"}
           /\ \E outcome : RecordJobOutcome(j, "failed", outcome)
        \/ /\ wk[r].act \in {"record_uncertain", "recover"}
           /\ \E outcome : RecordJobOutcome(j, "recovery_required", outcome)
    BY <1>3, <2>2, <2>3, DecisionMarks DEF ReconcileRecord
  <2>5. StatusOnly(j)
    BY <1>0, <2>4, StatusWrites
  <2>6. CASE wk[r].act \in {"resume", "record_interrupted", "verify"}
    <3>1. ~Disruptive(jobs[j].cp) /\ Safe(j)
      BY <2>3, <2>6, DecisionMarks DEF JobOK
    <3> QED
      BY <1>0, <1>g, <2>1, <2>5, <3>1, SafeOK, IdleOK, StopStep DEF StatusOnly, Moved
  <2>7. CASE wk[r].act \in {"record_uncertain", "recover"}
    <3>1. PICK outcome : RecordJobOutcome(j, "recovery_required", outcome)
      BY <2>4, <2>7
    <3>2. jobs'[j].status = "recovery_required"
      BY <1>0, <2>3, <3>1 DEF RecordJobOutcome, JobTable, JobRow
    <3>3. JobOK(j)'
      BY <1>g, <2>3, <2>5, <3>2 DEF JobOK, Answerable, StatusOnly
    <3> QED
      BY <1>0, <1>g, <2>1, <2>5, <3>3, IdleOK, StopStep DEF StatusOnly, Moved
  <2> QED
    BY <2>4, <2>6, <2>7
<1>4. CASE ReconcileLock(r)
  <2>1. OnlyOwnRow(r) /\ RunnerOK(r)'
    BY <1>0, <1>4, LeavesMove, IdleOK
  <2>2. jobs' = jobs /\ wk[r].pc = "rc_lock"
    BY <1>4 DEF ReconcileLock, At
  <2>3. wk[r].job \in Jobs
    BY <1>0, <2>2 DEF WorkInv, JobInHand
  <2> QED
    BY <1>n, <2>1, <2>2, <2>3
<1> QED
  BY <1>1, <1>2, <1>3, <1>4 DEF ReconcileStep

-----------------------------------------------------------------------------
(***************************************************************************)
(* Nobody moves.  A row that is running keeps its claim and its checkpoint; *)
(* another may be created, cancelled while queued, or acknowledged.         *)
(***************************************************************************)
RowStays(k) ==
    \/ /\ jobs'[k].status = jobs[k].status /\ jobs'[k].owner = jobs[k].owner
       /\ jobs'[k].epoch = jobs[k].epoch /\ jobs'[k].cp = jobs[k].cp
       /\ jobs'[k].kind = jobs[k].kind
    \/ /\ jobs[k].status \in {"none", "queued"} /\ jobs'[k].status \in {"queued", "cancelled"}
       /\ ~Disruptive(jobs'[k].cp)

LEMMA StaysOK ==
    ASSUME NEW k \in Jobs, JobOK(k), RowsKept, RowStays(k), UNCHANGED <<app, downBy, pend>>
    PROVE  JobOK(k)'
<1>1. (Safe(k) => Safe(k)') /\ (NotDown(k) => NotDown(k)') /\ FollowUps(k) \subseteq FollowUps(k)'
  BY GuestStays, FollowUpsKept
<1>2. CASE jobs[k].status \in {"none", "queued"} /\ ~Disruptive(jobs'[k].cp)
  <2>1. Safe(k)
    BY <1>2 DEF JobOK
  <2> QED
    BY <1>1, <1>2, <2>1, SafeOK
<1>3. CASE /\ jobs'[k].status = jobs[k].status /\ jobs'[k].cp = jobs[k].cp
           /\ jobs'[k].kind = jobs[k].kind
  BY <1>1, <1>3 DEF JobOK, Answerable
<1> QED
  BY <1>2, <1>3 DEF RowStays

(* A runner that does not move, while its row keeps its claim. *)
LEMMA WaitingOK ==
    ASSUME TypeInv, NEW q \in Runners, RunnerOK(q), wk' = wk, RowsKept,
           \A k \in Jobs : jobs[k].status = "running" => RowStays(k),
           \A k \in Jobs : /\ Safe(k) => Safe(k)'
                           /\ NotDown(k) => NotDown(k)'
                           /\ StopOf(k) \notin pend => StopOf(k) \notin pend',
           pend' \subseteq pend, wk[q].pc = "verb" => downBy' # wk[q].job
    PROVE  RunnerOK(q)'
<1>1. CASE wk[q].pc \in EarlyPcs \cup LatePcs \cup EndPcs \cup {"rc_follow", "rc_record"}
  <2>1. wk[q].pc # "idle"
    BY <1>1 DEF EarlyPcs, LatePcs, EndPcs
  <2>2. PICK j \in Jobs : j = wk[q].job
    BY <2>1 DEF TypeInv, WorkInv, JobInHand
  <2>3. jobs[j].status = "running"
    BY <1>1, <2>2 DEF RunnerOK, ClaimKept, DecisionFresh, Claimed
  <2>4. /\ jobs'[j].status = "running" /\ jobs'[j].owner = jobs[j].owner
        /\ jobs'[j].epoch = jobs[j].epoch /\ jobs'[j].cp = jobs[j].cp
        /\ jobs'[j].kind = jobs[j].kind
    BY <2>3 DEF RowStays
  <2>5. /\ Safe(j) => Safe(j)'
        /\ NotDown(j) => NotDown(j)'
        /\ StopOf(j) \notin pend => StopOf(j) \notin pend'
        /\ FollowUps(j) \subseteq FollowUps(j)'
    BY FollowUpsKept
  <2>6. ClaimKept(q)' /\ DecisionFresh(q)' /\ Marked(q)'
    BY <2>2, <2>4 DEF RunnerOK, ClaimKept, DecisionFresh, Marked, Claimed
  <2>7. Stopped(q)'
    BY <2>2, <2>5 DEF RunnerOK, Stopped
  <2>8. Ending(q)'
    BY <2>2, <2>4, <2>5 DEF RunnerOK, Ending
  <2> QED
    BY <2>6, <2>7, <2>8 DEF RunnerOK
<1>2. CASE wk[q].pc \notin EarlyPcs \cup LatePcs \cup EndPcs \cup {"rc_follow", "rc_record"}
  BY <1>2 DEF RunnerOK, ClaimKept, DecisionFresh, Marked, Stopped, Ending, EarlyPcs, LatePcs, EndPcs
<1> QED
  BY <1>1, <1>2

LEMMA StoreStop ==
    ASSUME TypeInv, StopInv, wk' = wk, StoreMove, \A k \in Jobs : RowStays(k),
           UNCHANGED <<app, downBy, pend>>
    PROVE  StopInv'
<1>1. RowsKept
  BY MovesKeepRows
<1>2. ASSUME NEW k \in Jobs PROVE JobOK(k)'
  BY <1>1, StaysOK DEF StopInv
<1>3. \A k \in Jobs : (Safe(k) => Safe(k)') /\ (NotDown(k) => NotDown(k)')
  BY GuestStays
<1>4. ASSUME NEW q \in Runners PROVE RunnerOK(q)'
  <2>1. RunnerOK(q)
    BY DEF StopInv
  <2>2. wk[q].pc = "verb" => downBy' # wk[q].job
    BY <2>1 DEF RunnerOK, Stopped
  <2> QED
    BY <1>1, <1>3, <2>1, <2>2, WaitingOK
<1> QED
  BY <1>2, <1>4 DEF StopInv

(* What the operator writes, and a lease that expires. *)
LEMMA RequestsStay ==
    ASSUME TypeInv, StopInv,
           \/ OperatorStep \/ ExpireLock \/ (\E j \in Jobs : ExpireJob(j))
           \/ (\E r \in Runners : Start(r)) \/ UNCHANGED vars
    PROVE  /\ wk' = wk /\ UNCHANGED <<app, downBy, pend>>
           /\ \A k \in Jobs : RowStays(k)
<1>0. jobs \in JobTable
  BY DEF TypeInv
<1>n. ASSUME NEW job, job.status \in {"queued", "cancelled"}, job.cp = NoCheckpoint, Create(job)
      PROVE  \A k \in Jobs : RowStays(k)
  <2>1. PICK j \in Jobs : NextRow(j) /\ jobs' = [jobs EXCEPT ![j] = job]
    BY <1>n DEF Create
  <2> QED
    BY <1>0, <1>n, <2>1 DEF JobTable, NextRow, RowStays, Disruptive, NoCheckpoint
<1>j. \A kind, origin, asked : /\ NewJob(kind, origin, asked).status = "queued"
                               /\ NewJob(kind, origin, asked).cp = NoCheckpoint
  BY NewJobQueued, NewJobUnmarked
<1>1. CASE SubmitDeploy \/ RequestRecovery \/ \E j \in Jobs : Retry(j)
  <2>1. PICK kind, origin, asked : Create(NewJob(kind, origin, asked))
    BY <1>1 DEF SubmitDeploy, RequestRecovery, Retry
  <2>2. \A k \in Jobs : RowStays(k)
    BY <1>n, <1>j, <2>1
  <2>3. wk' = wk /\ UNCHANGED <<app, downBy, pend>>
    BY <1>1 DEF SubmitDeploy, RequestRecovery, Retry
  <2> QED
    BY <2>2, <2>3
<1>2. CASE SubmitRestart
  <2> DEFINE job == NewJob("instance_restart", 0, TRUE)
             lost == [job EXCEPT !.status = "cancelled", !.outcome = "runner_unavailable"]
  <2>1. job.status = "queued" /\ lost.status = "cancelled"
        /\ job.cp = NoCheckpoint /\ lost.cp = NoCheckpoint
    BY DEF NewJob, NoJob
  <2>2. (Create(job) \/ Create(lost)) /\ wk' = wk /\ UNCHANGED <<app, downBy, pend>>
    BY <1>2 DEF SubmitRestart
  <2> HIDE DEF job, lost
  <2> QED
    BY <1>n, <2>1, <2>2
<1>3. ASSUME NEW j \in Jobs, RequestCancel(j) \/ AcknowledgeUncertainJob(j) \/ ExpireJob(j)
      PROVE  wk' = wk /\ UNCHANGED <<app, downBy, pend>> /\ \A k \in Jobs : RowStays(k)
  <2>1. wk' = wk /\ UNCHANGED <<app, downBy, pend>>
    BY <1>3 DEF RequestCancel, AcknowledgeUncertainJob, ExpireJob
  <2>2. \A k \in Jobs \ {j} : jobs'[k] = jobs[k]
    BY <1>0, <1>3 DEF RequestCancel, AcknowledgeUncertainJob, ExpireJob, JobTable
  <2>3. /\ jobs'[j].owner = jobs[j].owner /\ jobs'[j].epoch = jobs[j].epoch
        /\ jobs'[j].cp = jobs[j].cp /\ jobs'[j].kind = jobs[j].kind
        /\ \/ jobs'[j].status = jobs[j].status
           \/ jobs[j].status = "queued" /\ jobs'[j].status = "cancelled"
    BY <1>0, <1>3 DEF RequestCancel, AcknowledgeUncertainJob, ExpireJob, JobTable, JobRow
  <2>4. jobs[j].status = "queued" => ~Disruptive(jobs[j].cp)
    BY DEF StopInv, JobOK
  <2>5. \A k \in Jobs : RowStays(k)
    BY <2>2, <2>3, <2>4 DEF RowStays
  <2> QED
    BY <2>1, <2>5
<1>4. CASE ExpireLock \/ (\E r \in Runners : Start(r)) \/ UNCHANGED vars
  BY <1>4 DEF ExpireLock, Start, vars, RowStays
<1> QED
  BY <1>1, <1>2, <1>3, <1>4 DEF OperatorStep

(* A command left behind in the guest runs to its end: only a stop takes the *)
(* application down, and the job it was started for answers for it already.  *)
LEMMA OrphanStop ==
    ASSUME TypeInv, StopInv, NEW e \in pend, OrphanRuns(e)
    PROVE  StopInv'
<1>0. /\ wk' = wk /\ jobs' = jobs /\ pend' \subseteq pend /\ e \in Commands /\ Runs(e)
      /\ downBy' = IF e.cmd = "stop" THEN e.job ELSE downBy
  BY DEF OrphanRuns, Runs, AfterPend, TypeInv, GuestType
<1>1. e.cmd # "stop" => app' \in {app, "up"}
  BY <1>0, CommandEnds
<1>2. e.cmd = "stop" => e = StopOf(e.job)
  BY <1>0 DEF Commands, StopOf
<1>3. ASSUME NEW k \in Jobs
      PROVE  (Safe(k) => Safe(k)') /\ (NotDown(k) => NotDown(k)')
  BY <1>0, <1>1, <1>2 DEF Safe, NotDown, StopOf
<1>4. RowsKept
  BY <1>0, StoreStays, MovesKeepRows
<1>5. ASSUME NEW k \in Jobs PROVE JobOK(k)'
  BY <1>0, <1>3, <1>4, OtherRow DEF StopInv
<1>6. ASSUME NEW q \in Runners PROVE RunnerOK(q)'
  <2>1. RunnerOK(q)
    BY DEF StopInv
  <2>2. wk[q].pc = "verb" => downBy' # wk[q].job
    BY <1>0, <2>1 DEF RunnerOK, Stopped
  <2>3. \A k \in Jobs : RowStays(k)
    BY <1>0 DEF RowStays
  <2> QED
    BY <1>0, <1>3, <1>4, <2>1, <2>2, <2>3, WaitingOK
<1> QED
  BY <1>5, <1>6 DEF StopInv

LEMMA CrashStop ==
    ASSUME TypeInv, LeaseInv, StopInv, NEW r \in Runners, Crash(r)
    PROVE  StopInv'
<1>1. WorkInv /\ proc[r] = "up" /\ jobs' = jobs /\ UNCHANGED <<app, downBy, pend>>
  BY DEF TypeInv, Crash
<1>2. OnlyOwnRow(r) /\ RunnerOK(r)'
  BY <1>1, LeavesMove, IdleOK
<1>3. ASSUME NEW q \in Runners, q # r PROVE RunnerOK(q)'
  BY <1>1, <1>2, <1>3, OthersIdle, IdleOK
<1>4. RowsKept
  BY <1>1, StoreStays, MovesKeepRows
<1>5. ASSUME NEW k \in Jobs PROVE JobOK(k)'
  <2>1. (Safe(k) => Safe(k)') /\ (NotDown(k) => NotDown(k)')
    BY <1>1, GuestStays
  <2> QED
    BY <1>1, <1>4, <2>1, OtherRow DEF StopInv
<1> QED
  BY <1>2, <1>3, <1>5 DEF StopInv

(* A worker is never fenced off while one runner runs: its claim stands. *)
LEMMA FencedStop ==
    ASSUME TypeInv, LeaseInv, OwedInv, StopInv, NEW r \in Runners, Fenced(r)
    PROVE  StopInv'
<1>1. wk[r].pc \in EarlyPcs \cup LatePcs /\ ~Claimed(r)
  BY DEF Fenced, FenceJob, At, Phases, Contained, EarlyPcs, LatePcs
<1> QED
  BY <1>1 DEF StopInv, RunnerOK, ClaimKept

LEMMA StopInvNext == TypeInv /\ LeaseInv /\ OwedInv /\ StopInv /\ [Next]_vars => StopInv'
<1> SUFFICES ASSUME TypeInv, LeaseInv, OwedInv, StopInv, [Next]_vars PROVE StopInv'
  OBVIOUS
<1>1. ASSUME NEW r \in Runners, ExecutorStep(r) PROVE StopInv'
  <2>1. CASE DeployStep(r)
    BY <2>1, EarlyStop, LateStop DEF DeployStep
  <2>2. CASE RecoverStep(r) \/ LifecycleStep(r) \/ HonourCancel(r)
    BY <2>2, EarlyStop, LifecycleStop DEF LifecycleStep
  <2> QED
    BY <1>1, <2>1, <2>2, TakeJobStop, IssueStop, FencedStop, RecordStop DEF ExecutorStep
<1>2. ASSUME NEW r \in Runners, Crash(r) \/ ReconcileStep(r) PROVE StopInv'
  BY <1>2, CrashStop, ReconcileStop
<1>3. CASE \/ OperatorStep \/ ExpireLock \/ (\E j \in Jobs : ExpireJob(j))
           \/ (\E r \in Runners : Start(r)) \/ UNCHANGED vars
  <2>1. StoreMove
    BY <1>3, EnvironmentStore
  <2>2. wk' = wk /\ UNCHANGED <<app, downBy, pend>> /\ \A k \in Jobs : RowStays(k)
    BY <1>3, RequestsStay
  <2> QED
    BY <2>1, <2>2, StoreStop
<1>4. ASSUME NEW e \in pend, OrphanRuns(e) PROVE StopInv'
  BY <1>4, OrphanStop
<1> QED
  BY <1>1, <1>2, <1>3, <1>4 DEF Next

LEMMA StopInvInit == Init => StopInv
<1> SUFFICES ASSUME Init PROVE StopInv
  OBVIOUS
<1>1. ASSUME NEW r \in Runners PROVE RunnerOK(r)
  <2>1. wk[r].pc = "idle"
    BY DEF Init, Idle
  <2> QED
    BY <2>1
    DEF RunnerOK, ClaimKept, DecisionFresh, Marked, Stopped, Ending, EarlyPcs, LatePcs, EndPcs
<1>2. ASSUME NEW j \in Jobs PROVE JobOK(j)
  <2>1. /\ pend = {} /\ app = "up" /\ downBy = 0 /\ jobs[j].status = "none"
        /\ ~Disruptive(jobs[j].cp)
    BY DEF Init, NoJob, NoCheckpoint, Disruptive
  <2>2. 0 \notin Jobs
    BY BoundsAssumption DEF Jobs
  <2> QED
    BY <2>1, <2>2 DEF JobOK, Safe, NotDown
<1> QED
  BY <1>1, <1>2 DEF StopInv

LEMMA StopInvAlways == ASSUME Overlap = FALSE PROVE Spec => []StopInv
<1>1. Spec => []LeaseInv
  BY LeaseInvAlways
<1> QED
  BY <1>1, StopInvInit, StopInvNext, TypeInvAlways, OwedInvAlways, PTL DEF Spec

(***************************************************************************)
(* With one runner at a time, and whenever it dies: an application a deploy *)
(* took down is never forgotten.  While it is down that deploy is running   *)
(* with its stop on record, or is recorded recovery_required, or failed     *)
(* with a verification of its own (deploy-op.js; executor.js reconcile).    *)
(***************************************************************************)
THEOREM StopNeverForgotten == ASSUME Overlap = FALSE PROVE Spec => []NoForgottenStop
<1>1. TypeInv /\ StopInv => NoForgottenStop
  <2> SUFFICES ASSUME TypeInv, StopInv, app = "down", downBy # 0, jobs[downBy].kind = "deploy"
      PROVE  Answerable(downBy)
    BY DEF NoForgottenStop, Answerable
  <2>1. downBy \in Jobs
    BY DEF TypeInv, GuestType
  <2> QED
    BY <2>1 DEF StopInv, JobOK, NotDown
<1> QED
  BY <1>1, StopInvAlways, TypeInvAlways, PTL

(***************************************************************************)
(* With one runner at a time: a job recorded cancelled took nothing down    *)
(* and will not, whatever a dead runner left running in the guest           *)
(* (deploy-op.js: a cancel is honoured at the fences before the stop; the   *)
(* reconciler requeues only what marked no stop).                           *)
(***************************************************************************)
THEOREM CancelledIsSafe == ASSUME Overlap = FALSE PROVE Spec => []CancelledNeverStopped
<1>1. StopInv => CancelledNeverStopped
  BY DEF StopInv, JobOK, Safe, CancelledNeverStopped
<1> QED
  BY <1>1, StopInvAlways, PTL

=============================================================================
