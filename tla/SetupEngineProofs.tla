-------------------------- MODULE SetupEngineProofs --------------------------
(***************************************************************************)
(* Theorems about SetupEngine, for every number of runners, jobs, requests *)
(* and claims.                                                             *)
(***************************************************************************)
EXTENDS SetupEngine, TLAPS

JobTable == [Jobs -> JobRow]
WorkTable == [Runners -> WorkRow]
Written == {"reap_previous_writer", "unit_status", "probe_port", "starting", "stopping_app",
            "migrating", "unit_written", "app_started", "deploy_verified", "restart_served",
            "restart_not_served", "start_unit", "validated", "lifecycle_verified", "issuing"}

-----------------------------------------------------------------------------
(* What the operators of the store do to the job table. *)

(* Merging a checkpoint keeps the flags Boolean (store.js checkpoint). *)
LEMMA MergeType ==
    ASSUME NEW name \in Written, NEW cp \in Flags
    PROVE  Merge(name, cp) \in Flags
<1>1. /\ [cp EXCEPT !.resumable = TRUE] \in Flags
      /\ [cp EXCEPT !.app_stopped = FALSE, !.resumable = TRUE] \in Flags
      /\ [cp EXCEPT !.app_stopped = TRUE, !.resumable = FALSE, !.disruptive = TRUE] \in Flags
      /\ [cp EXCEPT !.app_stopped = TRUE, !.unit_swapped = TRUE] \in Flags
      /\ [cp EXCEPT !.app_stopped = FALSE, !.unit_swapped = TRUE] \in Flags
      /\ [cp EXCEPT !.app_stopped = FALSE, !.verification_state = TRUE] \in Flags
  BY DEF Flags
<1>2. /\ [cp EXCEPT !.app_stopped = FALSE] \in Flags
      /\ [cp EXCEPT !.app_stopped = TRUE] \in Flags
      /\ [cp EXCEPT !.resumable = TRUE, !.disruptive = FALSE] \in Flags
      /\ [cp EXCEPT !.lifecycle = TRUE, !.resumable = TRUE, !.disruptive = FALSE] \in Flags
      /\ [cp EXCEPT !.lifecycle = TRUE, !.resumable = FALSE, !.disruptive = TRUE] \in Flags
  BY DEF Flags
<1> QED
  BY <1>1, <1>2 DEF Written, Merge

(* The checkpoint on the way to a command does too (executor.js guest). *)
LEMMA MarkBeforeType ==
    ASSUME NEW ph, NEW cp \in Flags
    PROVE  MarkBefore(ph, cp) \in Flags
BY MergeType DEF MarkBefore, Written

(* A new row is a row (store.js createJob). *)
LEMMA NewJobType ==
    ASSUME NEW kind \in Kinds, NEW origin \in Jobs \cup {0}, NEW asked \in BOOLEAN
    PROVE  NewJob(kind, origin, asked) \in JobRow
BY DEF NewJob, NoJob, JobRow, Kinds, JOB_STATUS, TERMINAL_STATUS, Outcomes, Flags, NoCheckpoint

(* A fenced checkpoint keeps the table typed (store.js checkpoint). *)
LEMMA CheckpointType ==
    ASSUME jobs \in JobTable, NEW r, NEW name \in Written, Checkpoint(r, name)
    PROVE  jobs' \in JobTable
<1>1. CASE Claimed(r)
  <2>1. wk[r].job \in Jobs
    BY <1>1 DEF Claimed
  <2>2. Merge(name, jobs[wk[r].job].cp) \in Flags
    BY <2>1, MergeType DEF JobTable, JobRow
  <2> QED
    BY <1>1, <2>1, <2>2 DEF Checkpoint, JobTable, JobRow
<1>2. CASE ~Claimed(r)
  BY <1>2 DEF Checkpoint
<1> QED
  BY <1>1, <1>2

(* A fenced finish keeps the table typed (store.js finishJob). *)
LEMMA FinishJobType ==
    ASSUME jobs \in JobTable, NEW r, NEW status \in JOB_STATUS, NEW outcome \in Outcomes,
           FinishJob(r, status, outcome)
    PROVE  jobs' \in JobTable
<1>1. CASE Claimed(r)
  <2>1. wk[r].job \in Jobs
    BY <1>1 DEF Claimed
  <2> QED
    BY <1>1, <2>1 DEF FinishJob, JobTable, JobRow
<1>2. CASE ~Claimed(r)
  BY <1>2 DEF FinishJob
<1> QED
  BY <1>1, <1>2

(* A requeue keeps the table typed (store.js requeueJob). *)
LEMMA RequeueJobType ==
    ASSUME jobs \in JobTable, NEW j \in Jobs, NEW wait \in BOOLEAN, RequeueJob(j, wait)
    PROVE  jobs' \in JobTable
<1>1. CASE jobs[j].status = "running"
  <2>1. jobs' = [jobs EXCEPT ![j].status = "queued", ![j].owner = NoOne,
                             ![j].live = FALSE, ![j].wait = wait]
    BY <1>1 DEF RequeueJob
  <2>2. [jobs[j] EXCEPT !.status = "queued", !.owner = NoOne, !.live = FALSE, !.wait = wait]
            \in JobRow
    BY DEF JobTable, JobRow, JOB_STATUS
  <2> QED
    BY <2>1, <2>2 DEF JobTable
<1>2. CASE jobs[j].status # "running"
  BY <1>2 DEF RequeueJob
<1> QED
  BY <1>1, <1>2

(* A reconciler's record keeps the table typed (store.js recordJobOutcome). *)
LEMMA RecordJobOutcomeType ==
    ASSUME jobs \in JobTable, NEW j \in Jobs, NEW status \in JOB_STATUS, NEW outcome \in Outcomes,
           RecordJobOutcome(j, status, outcome)
    PROVE  jobs' \in JobTable
<1>1. CASE jobs[j].status = "running"
  <2>1. jobs' = [jobs EXCEPT ![j].status = status, ![j].outcome = outcome, ![j].live = FALSE]
    BY <1>1 DEF RecordJobOutcome
  <2>2. [jobs[j] EXCEPT !.status = status, !.outcome = outcome, !.live = FALSE] \in JobRow
    BY DEF JobTable, JobRow
  <2> QED
    BY <2>1, <2>2 DEF JobTable
<1>2. CASE jobs[j].status # "running"
  BY <1>2 DEF RecordJobOutcome
<1> QED
  BY <1>1, <1>2

(* Filling the next row keeps the table typed (store.js createJob). *)
LEMMA CreateType ==
    ASSUME jobs \in JobTable, NEW job \in JobRow, Create(job)
    PROVE  jobs' \in JobTable
BY DEF Create, JobTable

-----------------------------------------------------------------------------
(***************************************************************************)
(* TypeOK is not inductive alone: a runner at work indexes the job table   *)
(* with the job it has in hand, which TypeOK lets be 0.                    *)
(***************************************************************************)
JobInHand == \A r \in Runners : wk[r].pc # "idle" => wk[r].job \in Jobs
GuestType == /\ app \in {"up", "down"}
             /\ downBy \in Jobs \cup {0}
             /\ pend \subseteq Commands
WorkInv == wk \in WorkTable /\ JobInHand
TypeInv == /\ proc \in [Runners -> {"off", "up", "dead"}]
           /\ WorkInv
           /\ jobs \in JobTable
           /\ lock \in LockRow
           /\ GuestType
           /\ issued \in [Jobs -> Nat]

(* A step that leaves a variable alone keeps what is said of it. *)
LEMMA SameWork == ASSUME WorkInv, wk' = wk PROVE WorkInv'
BY DEF WorkInv, WorkTable, JobInHand

LEMMA SameGuest == ASSUME GuestType, UNCHANGED <<app, downBy, pend>> PROVE GuestType'
BY DEF GuestType

(* A runner's row is replaced by one with a job in hand. *)
LEMMA WorkRowType ==
    ASSUME WorkInv, NEW r \in Runners, NEW w \in WorkRow, w.job \in Jobs,
           wk' = [wk EXCEPT ![r] = w]
    PROVE  WorkInv'
BY DEF WorkInv, WorkTable, JobInHand

(* Moving on within an operation. *)
LEMMA GotoType ==
    ASSUME WorkInv, NEW r \in Runners, wk[r].job \in Jobs,
           NEW pc \in Phases \cup Control, Goto(r, pc)
    PROVE  WorkInv'
<1>1. wk' \in WorkTable
  <2>1. [wk[r] EXCEPT !.pc = pc, !.await = FALSE] \in WorkRow
    BY DEF WorkInv, WorkTable, WorkRow
  <2> QED
    BY <2>1 DEF WorkInv, Goto, WorkTable
<1>2. JobInHand'
  <2>1. \A q \in Runners : wk'[q].job = wk[q].job /\ (q # r => wk'[q].pc = wk[q].pc)
    BY DEF WorkInv, Goto, WorkTable, WorkRow
  <2> QED
    BY <2>1 DEF WorkInv, JobInHand
<1> QED
  BY <1>1, <1>2 DEF WorkInv

(* Ending an operation. *)
LEMMA SettleType ==
    ASSUME WorkInv, NEW r \in Runners, wk[r].job \in Jobs, NEW status \in TERMINAL_STATUS,
           NEW outcome \in Outcomes, NEW owed \in BOOLEAN, Settle(r, status, outcome, owed)
    PROVE  WorkInv'
<1> DEFINE pc == IF owed THEN "followup" ELSE "finish"
<1>1. pc \in Phases \cup Control
  BY DEF Control
<1>2. wk' = [wk EXCEPT ![r].pc = pc, ![r].await = FALSE,
                       ![r].status = status, ![r].outcome = outcome]
  BY DEF Settle
<1> HIDE DEF pc
<1>3. wk' \in WorkTable
  <2>1. [wk[r] EXCEPT !.pc = pc, !.await = FALSE, !.status = status, !.outcome = outcome]
            \in WorkRow
    BY <1>1 DEF WorkInv, WorkTable, WorkRow
  <2> QED
    BY <1>2, <2>1 DEF WorkInv, WorkTable
<1>4. JobInHand'
  <2>1. \A q \in Runners : wk'[q].job = wk[q].job /\ (q # r => wk'[q].pc = wk[q].pc)
    BY <1>2 DEF WorkInv, WorkTable, WorkRow
  <2> QED
    BY <2>1 DEF WorkInv, JobInHand
<1> QED
  BY <1>3, <1>4 DEF WorkInv

(* A runner with nothing in hand. *)
LEMMA IdleType ==
    ASSUME WorkInv, NEW r \in Runners, wk' = [wk EXCEPT ![r] = Idle]
    PROVE  WorkInv'
<1>1. Idle \in WorkRow
  BY DEF Idle, WorkRow, Control, TERMINAL_STATUS, Outcomes, Actions
<1>2. wk' \in WorkTable
  BY <1>1 DEF WorkInv, WorkTable
<1>3. JobInHand'
  BY DEF WorkInv, JobInHand, WorkTable, Idle
<1> QED
  BY <1>2, <1>3 DEF WorkInv

(* Taking the lease. *)
LEMMA LeaseTaken ==
    ASSUME WorkInv, NEW r \in Runners, wk[r].job \in Jobs, NEW pc \in Phases, NEW epoch \in Nat,
           wk' = [wk EXCEPT ![r].pc = pc, ![r].lockEpoch = epoch]
    PROVE  WorkInv'
<1> DEFINE w == [wk[r] EXCEPT !.pc = pc, !.lockEpoch = epoch]
<1>1. w \in WorkRow /\ w.job \in Jobs
  BY DEF WorkInv, WorkTable, WorkRow
<1>2. wk' = [wk EXCEPT ![r] = w]
  BY DEF WorkInv, WorkTable
<1> HIDE DEF w
<1> QED
  BY <1>1, <1>2, WorkRowType

(* What a command may leave in the guest. *)
LEMMA FailEffectType ==
    ASSUME GuestType, NEW e, e.job \in Jobs, FailEffect(e)
    PROVE  GuestType'
<1>1. CASE Runs(e)
  BY <1>1 DEF Runs, GuestType, AfterApp, AfterPend
<1>2. CASE Ends(e)
  BY <1>2 DEF Ends, GuestType
<1>3. CASE UNCHANGED <<app, downBy, pend>>
  BY <1>3 DEF GuestType
<1> QED
  BY <1>1, <1>2, <1>3 DEF FailEffect

(* A command names the job in hand. *)
LEMMA CommandJob == ASSUME NEW r PROVE Command(r).job = wk[r].job
BY DEF Command

(* Flagging a lease keeps it a lease (store.js markLockStale). *)
LEMMA MarkLockStaleType ==
    ASSUME lock \in LockRow, NEW rec \in Jobs \cup {0}, MarkLockStale(rec)
    PROVE  lock' \in LockRow
BY DEF MarkLockStale, LockRow

(* A renewal too (store.js renewLock). *)
LEMMA RenewLockType ==
    ASSUME lock \in LockRow, NEW r, RenewLock(r)
    PROVE  lock' \in LockRow
BY DEF RenewLock, LockRow

(* A runner about to do something, or waiting, has a job. *)
LEMMA AtWork ==
    ASSUME JobInHand, NEW r \in Runners, NEW pc, pc # "idle", At(r, pc) \/ Awaits(r, pc)
    PROVE  wk[r].job \in Jobs
BY DEF JobInHand, At, Awaits

-----------------------------------------------------------------------------
(* Every step keeps TypeInv, by the groups of Next. *)

LEMMA FirstPhaseType ==
    ASSUME NEW kind \in Kinds
    PROVE  FirstPhase(kind) \in Phases
BY DEF Kinds, FirstPhase, Phases

(* Claiming a job and taking the lease (executor.js executeJob). *)
LEMMA TakeJobType ==
    ASSUME TypeInv, NEW r \in Runners, TakeJob(r)
    PROVE  TypeInv'
<1> USE DEF TypeInv
<1>1. ASSUME NEW j \in Jobs, ClaimNextJob(r, j) PROVE TypeInv'
  <2>0. jobs[j] \in JobRow /\ jobs[j].epoch + 1 \in Nat
    BY DEF JobTable, JobRow
  <2>1. [jobs[j] EXCEPT !.status = "running", !.owner = r, !.epoch = jobs[j].epoch + 1,
                        !.live = TRUE, !.wait = FALSE] \in JobRow
    BY <2>0 DEF JobRow, JOB_STATUS
  <2>2. jobs' \in JobTable
    <3>1. jobs' = [jobs EXCEPT ![j] = [jobs[j] EXCEPT !.status = "running", !.owner = r,
                                   !.epoch = jobs[j].epoch + 1, !.live = TRUE, !.wait = FALSE]]
      BY <1>1 DEF ClaimNextJob
    <3> QED
      BY <2>1, <3>1 DEF JobTable
  <2>3. WorkInv'
    <3> DEFINE w == [Idle EXCEPT !.pc = "lease", !.job = j, !.epoch = jobs[j].epoch + 1]
    <3>1. w \in WorkRow
      BY <2>0 DEF Idle, WorkRow, Control, TERMINAL_STATUS, Outcomes, Actions
    <3>2. w.job \in Jobs
      BY DEF Idle
    <3>3. wk' = [wk EXCEPT ![r] = w]
      BY <1>1 DEF ClaimNextJob
    <3> HIDE DEF w
    <3> QED
      BY <3>1, <3>2, <3>3, WorkRowType
  <2> QED
    BY <1>1, <2>2, <2>3, SameGuest DEF ClaimNextJob
<1>2. CASE Busy(r)
  <2>1. wk[r].job \in Jobs
    BY <1>2, AtWork DEF Busy, WorkInv
  <2>2. jobs' \in JobTable
    <3>1. CASE RequeueJob(wk[r].job, TRUE)
      BY <2>1, <3>1, RequeueJobType
    <3>2. ASSUME NEW status \in {"refused", "deferred"}, NEW outcome \in {"lock_held", "lock_stale"},
                 FinishJob(r, status, outcome)
          PROVE  jobs' \in JobTable
      BY <3>2, FinishJobType DEF JOB_STATUS, TERMINAL_STATUS, Outcomes
    <3> QED
      BY <1>2, <3>1, <3>2 DEF Busy
  <2>3. WorkInv'
    BY <1>2, IdleType DEF Busy
  <2> QED
    BY <1>2, <2>2, <2>3, SameGuest DEF Busy
<1>3. CASE AcquireLock(r)
  <2>1. wk[r].job \in Jobs
    BY <1>3, AtWork DEF AcquireLock, WorkInv
  <2>2. FirstPhase(jobs[wk[r].job].kind) \in Phases
    BY <2>1, FirstPhaseType DEF JobTable, JobRow
  <2>3. (IF lock.owner = NoOne THEN 1 ELSE lock.epoch) \in Nat
    BY DEF LockRow
  <2>4. WorkInv'
    BY <1>3, <2>1, <2>2, <2>3, LeaseTaken DEF AcquireLock
  <2>5. lock' \in LockRow
    BY <1>3 DEF AcquireLock, LockRow
  <2> QED
    BY <1>3, <2>4, <2>5, SameGuest DEF AcquireLock
<1>4. CASE TakeoverLock(r)
  <2>1. wk[r].job \in Jobs
    BY <1>4, AtWork DEF TakeoverLock, WorkInv
  <2>2. FirstPhase(jobs[wk[r].job].kind) \in Phases
    BY <2>1, FirstPhaseType DEF JobTable, JobRow
  <2>3. lock.epoch + 1 \in Nat
    BY DEF LockRow
  <2>4. WorkInv'
    BY <1>4, <2>1, <2>2, <2>3, LeaseTaken DEF TakeoverLock
  <2>5. lock' \in LockRow
    BY <1>4 DEF TakeoverLock, LockRow
  <2> QED
    BY <1>4, <2>4, <2>5, SameGuest DEF TakeoverLock
<1> QED
  BY <1>1, <1>2, <1>3, <1>4 DEF TakeJob

(* Fences, commands and cancels (executor.js guest, fence). *)
LEMMA IssueType ==
    ASSUME TypeInv, NEW r \in Runners, NEW ph \in Phases, Issue(r, ph)
    PROVE  TypeInv'
<1> USE DEF TypeInv
<1>1. wk[r].job \in Jobs /\ wk[r] \in WorkRow
  BY DEF Issue, FenceJob, Claimed, WorkInv, WorkTable
<1>2. jobs' \in JobTable
  <2>1. jobs[wk[r].job] \in JobRow /\ MarkBefore(ph, jobs[wk[r].job].cp) \in Flags
    BY <1>1, MarkBeforeType DEF JobTable, JobRow
  <2> DEFINE row == [jobs[wk[r].job] EXCEPT !.live = TRUE,
                                            !.cp = MarkBefore(ph, jobs[wk[r].job].cp)]
  <2>2. row \in JobRow
    BY <2>1 DEF JobRow
  <2>3. jobs' = [jobs EXCEPT ![wk[r].job] = row]
    BY DEF Issue
  <2> HIDE DEF row
  <2> QED
    BY <1>1, <2>2, <2>3 DEF JobTable
<1>3. WorkInv'
  <2> DEFINE w == [wk[r] EXCEPT !.await = TRUE]
  <2>1. w \in WorkRow /\ w.job \in Jobs
    BY <1>1 DEF WorkRow
  <2>2. wk' = [wk EXCEPT ![r] = w]
    BY DEF Issue
  <2> HIDE DEF w
  <2> QED
    BY <2>1, <2>2, WorkRowType
<1>4. GuestType'
  <2>1. Command(r) \in Commands
    BY <1>1 DEF Issue, At, Command, Commands
  <2> QED
    BY <2>1 DEF Issue, GuestType
<1>5. issued' \in [Jobs -> Nat]
  BY <1>1 DEF Issue
<1>6. lock' \in LockRow
  BY RenewLockType DEF Issue
<1> QED
  BY <1>2, <1>3, <1>4, <1>5, <1>6 DEF Issue

LEMMA FencedType ==
    ASSUME TypeInv, NEW r \in Runners, Fenced(r)
    PROVE  TypeInv'
<1> USE DEF TypeInv
<1>1. wk[r].job \in Jobs /\ wk[r] \in WorkRow
  BY DEF Fenced, At, WorkInv, JobInHand, WorkTable, Phases, Contained
<1> DEFINE w == [wk[r] EXCEPT !.pc = "release"]
<1>2. w \in WorkRow /\ w.job \in Jobs
  BY <1>1 DEF WorkRow, Control
<1>3. wk' = [wk EXCEPT ![r] = w]
  BY DEF Fenced
<1>4. WorkInv'
  <2> HIDE DEF w
  <2> QED BY <1>2, <1>3, WorkRowType
<1> QED
  BY <1>4, SameGuest DEF Fenced

LEMMA HonourCancelType ==
    ASSUME TypeInv, NEW r \in Runners, HonourCancel(r)
    PROVE  TypeInv'
<1> USE DEF TypeInv
<1>1. wk[r].job \in Jobs
  BY DEF HonourCancel, FenceJob, Claimed
<1>2. jobs' \in JobTable
  <2>1. jobs[wk[r].job] \in JobRow
    BY <1>1 DEF JobTable
  <2>2. [jobs[wk[r].job] EXCEPT !.live = TRUE] \in JobRow
    BY <2>1 DEF JobRow
  <2> QED
    BY <1>1, <2>2 DEF HonourCancel, JobTable
<1>3. WorkInv'
  BY <1>1, SettleType DEF HonourCancel, TERMINAL_STATUS, Outcomes
<1> QED
  BY <1>2, <1>3, SameGuest DEF HonourCancel

(* The steps of an operation from its first command on. *)
LEMMA ReapType ==
    ASSUME TypeInv, NEW r \in Runners,
           ReapCounted(r) \/ ReapBlind(r) \/ ReapAgain(r) \/ PreviousWriterAlive(r)
    PROVE  TypeInv'
<1> USE DEF TypeInv
<1>1. wk[r].job \in Jobs /\ wk[r] \in WorkRow
  BY DEF ReapCounted, ReapBlind, ReapAgain, PreviousWriterAlive, Awaits, WorkInv, JobInHand, WorkTable
<1>2. ASSUME NEW reap \in {"counted", "blind"}, Reaped(r, reap) PROVE WorkInv'
  <2> DEFINE w == [wk[r] EXCEPT !.pc = AfterReap(r), !.await = FALSE, !.reap = reap]
  <2>0. AfterReap(r) \in Phases
    BY DEF AfterReap, Phases, Contained
  <2>1. w \in WorkRow /\ w.job \in Jobs
    BY <1>1, <2>0 DEF WorkRow
  <2>2. wk' = [wk EXCEPT ![r] = w]
    BY <1>2 DEF Reaped
  <2> HIDE DEF w
  <2> QED
    BY <2>1, <2>2, WorkRowType
<1>3. CASE ReapCounted(r)
  BY <1>2, <1>3 DEF ReapCounted, GuestType
<1>4. CASE ReapBlind(r)
  BY <1>2, <1>4 DEF ReapBlind, GuestType
<1>5. CASE ReapAgain(r)
  <2> DEFINE w == [wk[r] EXCEPT !.await = FALSE, !.reap = "again"]
  <2>1. w \in WorkRow /\ w.job \in Jobs
    BY <1>1 DEF WorkRow
  <2>2. wk' = [wk EXCEPT ![r] = w]
    BY <1>5 DEF ReapAgain
  <2>3. WorkInv'
    <3> HIDE DEF w
    <3> QED BY <2>1, <2>2, WorkRowType
  <2> QED
    BY <1>5, <2>3, SameGuest DEF ReapAgain
<1>6. CASE PreviousWriterAlive(r)
  <2> DEFINE w == [wk[r] EXCEPT !.pc = "finish", !.await = FALSE, !.keep = TRUE,
                                !.status = "recovery_required",
                                !.outcome = "previous_writer_alive"]
  <2>0. /\ "finish" \in Control
        /\ "recovery_required" \in TERMINAL_STATUS
        /\ "previous_writer_alive" \in Outcomes
    BY DEF Control, TERMINAL_STATUS, Outcomes
  <2>1. w \in WorkRow /\ w.job \in Jobs
    BY <1>1, <2>0 DEF WorkRow
  <2>2. wk' = [wk EXCEPT ![r] = w]
    BY <1>6 DEF PreviousWriterAlive
  <2>3. WorkInv'
    <3> HIDE DEF w
    <3> QED BY <2>1, <2>2, WorkRowType
  <2> QED
    BY <1>6, <2>3, SameGuest DEF PreviousWriterAlive
<1> QED
  BY <1>3, <1>4, <1>5, <1>6

(* The deploy after the reap (deploy-op.js). *)
LEMMA DeployStepType ==
    ASSUME TypeInv, NEW r \in Runners, DeployStep(r)
    PROVE  TypeInv'
<1> USE DEF TypeInv
<1>w. ASSUME NEW pc \in Phases \cup {"mark_stop"}, At(r, pc) \/ Awaits(r, pc)
      PROVE  wk[r].job \in Jobs
  BY <1>w, AtWork DEF WorkInv, Phases, Contained
<1>p. {"stop", "migrate", "swap", "health", "restart_unit", "mark_stop"}
        \subseteq Phases \cup Control
  BY DEF Phases, Contained, Control
<1>s. /\ {"succeeded", "failed", "recovery_required"} \subseteq TERMINAL_STATUS
      /\ {"skipped", "serving", "step_failed", "containment_unavailable"} \subseteq Outcomes
  BY DEF TERMINAL_STATUS, Outcomes
<1>c. {"stopping_app", "unit_written", "app_started", "deploy_verified", "restart_served",
       "restart_not_served"} \subseteq Written
  BY DEF Written
<1>e. ASSUME wk[r].job \in Jobs,
             Runs(Command(r)) \/ Ends(Command(r)) \/ FailEffect(Command(r))
      PROVE  GuestType'
  BY <1>e, FailEffectType, CommandJob DEF FailEffect
<1>b. Phases \cap {"idle"} = {} /\ Contained \subseteq Phases
  BY DEF Phases, Contained
<1>1. CASE ReapCounted(r) \/ ReapBlind(r) \/ ReapAgain(r) \/ PreviousWriterAlive(r)
  BY <1>1, ReapType
<1>2. CASE BuildDone(r)
  <2>1. wk[r].job \in Jobs
    BY <1>2, <1>w DEF BuildDone, Phases, Contained
  <2> QED
    BY <1>2, <2>1, <1>p, <1>e, GotoType DEF BuildDone
<1>3. CASE NoContract(r)
  <2>1. wk[r].job \in Jobs
    BY <1>3, <1>w DEF NoContract, Phases, Contained
  <2> QED
    BY <1>3, <2>1, <1>s, <1>e, SettleType DEF NoContract
<1>4. CASE BuildFailed(r)
  <2>1. wk[r].job \in Jobs
    BY <1>4, <1>w DEF BuildFailed, Phases, Contained
  <2> QED
    BY <1>4, <2>1, <1>s, <1>e, SettleType DEF BuildFailed
<1>5. CASE MarkStop(r)
  <2>1. wk[r].job \in Jobs
    BY <1>5, <1>w DEF MarkStop
  <2> QED
    BY <1>5, <2>1, <1>p, <1>c, GotoType, CheckpointType, SameGuest DEF MarkStop
<1>6. CASE StopDone(r)
  <2>1. wk[r].job \in Jobs
    BY <1>6, <1>w DEF StopDone, Phases, Contained
  <2> QED
    BY <1>6, <2>1, <1>p, <1>e, GotoType DEF StopDone
<1>7. CASE MigrateDone(r)
  <2>1. wk[r].job \in Jobs
    BY <1>7, <1>w DEF MigrateDone, Phases, Contained
  <2> QED
    BY <1>7, <2>1, <1>p, <1>e, GotoType DEF MigrateDone
<1>8. CASE SwapDone(r)
  <2>1. wk[r].job \in Jobs
    BY <1>8, <1>w DEF SwapDone, Phases, Contained
  <2> QED
    BY <1>8, <2>1, <1>p, <1>c, <1>e, GotoType, CheckpointType DEF SwapDone
<1>9. CASE HealthDone(r)
  <2>1. wk[r].job \in Jobs
    BY <1>9, <1>w DEF HealthDone, Phases, Contained
  <2>2. WorkInv'
    BY <1>9, <2>1, <1>s, SettleType, FlagsAssumption DEF HealthDone
  <2> QED
    BY <1>9, <2>1, <2>2, <1>c, <1>e, CheckpointType DEF HealthDone
<1>10. CASE DeployStepFailed(r)
  <2>1. wk[r].job \in Jobs
    BY <1>10, <1>w DEF DeployStepFailed, Phases, Contained
  <2>2. jobs' \in JobTable
    BY <1>10, <1>c, CheckpointType DEF DeployStepFailed
  <2> QED
    BY <1>10, <2>1, <2>2, <1>p, <1>e, GotoType DEF DeployStepFailed
<1>11. CASE HealthFailed(r)
  <2>1. wk[r].job \in Jobs
    BY <1>11, <1>w DEF HealthFailed, Phases, Contained
  <2>2. GuestType'
    BY <1>11, <2>1 DEF HealthFailed, GuestType
  <2> QED
    BY <1>11, <2>1, <2>2, <1>s, SettleType DEF HealthFailed
<1>12. CASE RestartUnitDone(r)
  <2>1. wk[r].job \in Jobs
    BY <1>12, <1>w DEF RestartUnitDone, Phases, Contained
  <2>2. jobs' \in JobTable
    BY <1>12, <1>c, CheckpointType DEF RestartUnitDone
  <2>3. GuestType'
    <3>1. CASE Runs(Command(r))
      BY <2>1, <3>1, <1>e
    <3>2. CASE UNCHANGED <<app, downBy>> /\ pend' \in {pend, pend \ {Command(r)}}
      BY <3>2 DEF GuestType
    <3> QED
      BY <1>12, <3>1, <3>2 DEF RestartUnitDone
  <2> QED
    BY <1>12, <2>1, <2>2, <2>3, <1>s, SettleType DEF RestartUnitDone
<1>13. CASE ContainmentUnavailable(r)
  <2>1. wk[r].job \in Jobs
    BY <1>13, <1>w, <1>b DEF ContainmentUnavailable
  <2> QED
    BY <1>13, <2>1, <1>s, <1>e, SettleType DEF ContainmentUnavailable
<1> QED
  BY <1>1, <1>2, <1>3, <1>4, <1>5, <1>6, <1>7, <1>8, <1>9, <1>10, <1>11, <1>12, <1>13
  DEF DeployStep

(* Recovering and probing the application (executor.js recoverApp). *)
LEMMA RecoverStepType ==
    ASSUME TypeInv, NEW r \in Runners, RecoverStep(r)
    PROVE  TypeInv'
<1> USE DEF TypeInv
<1>p. {"start", "probe"} \subseteq Phases \cup Control
  BY DEF Phases
<1>1. wk[r].job \in Jobs
  BY DEF RecoverStep, StatusDone, StartDone, ProbeDone, Awaits, WorkInv, JobInHand
<1>2. CASE StatusDone(r)
  BY <1>1, <1>2, <1>p, GotoType, SameGuest DEF StatusDone
<1>3. CASE StartDone(r)
  BY <1>1, <1>3, <1>p, GotoType, FailEffectType, CommandJob DEF StartDone
<1>4. CASE ProbeDone(r)
  <2> DEFINE owed == Guarded /\ jobs[wk[r].job].kind = "recover_app"
  <2>1. /\ owed \in BOOLEAN
        /\ {"succeeded", "recovery_required"} \subseteq TERMINAL_STATUS
        /\ {"verified", "not_serving"} \subseteq Outcomes
    BY DEF TERMINAL_STATUS, Outcomes
  <2>2. \/ Settle(r, "succeeded", "verified", owed)
        \/ Settle(r, "recovery_required", "not_serving", FALSE)
    BY <1>4 DEF ProbeDone
  <2> HIDE DEF owed
  <2>3. WorkInv'
    BY <1>1, <2>1, <2>2, SettleType
  <2> QED
    BY <1>4, <2>3, SameGuest DEF ProbeDone
<1> QED
  BY <1>2, <1>3, <1>4 DEF RecoverStep

(* Restarting the guest (lifecycle-op.js). *)
LEMMA LifecycleStepType ==
    ASSUME TypeInv, NEW r \in Runners, LifecycleStep(r)
    PROVE  TypeInv'
<1> USE DEF TypeInv
<1>p. {"mark_issue", "release", "verb", "readback"} \subseteq Phases \cup Control
  BY DEF Phases, Control
<1>s. /\ {"succeeded", "failed"} \subseteq TERMINAL_STATUS
      /\ {"restarted", "step_failed"} \subseteq Outcomes
      /\ {"validated", "issuing", "lifecycle_verified"} \subseteq Written
  BY DEF TERMINAL_STATUS, Outcomes, Written
<1>1. wk[r].job \in Jobs /\ wk[r] \in WorkRow
  BY DEF LifecycleStep, QueryDone, QueryFailed, MarkIssue, VerbDone, VerbFailed, ReadBack,
         At, Awaits, WorkInv, JobInHand, WorkTable
<1>x. ASSUME NEW outcome \in {"restarted", "step_failed"}, Exited(r, outcome) PROVE WorkInv'
  <2> DEFINE w == [wk[r] EXCEPT !.pc = "readback", !.await = FALSE, !.outcome = outcome]
  <2>1. w \in WorkRow /\ w.job \in Jobs
    BY <1>1, <1>p, <1>s DEF WorkRow
  <2>2. wk' = [wk EXCEPT ![r] = w]
    BY <1>x DEF Exited
  <2> HIDE DEF w
  <2> QED
    BY <2>1, <2>2, WorkRowType
<1>2. CASE QueryDone(r)
  <2>1. WorkInv'
    <3>1. CASE Claimed(r)
      BY <1>1, <1>2, <1>p, <3>1, GotoType DEF QueryDone
    <3>2. CASE ~Claimed(r)
      BY <1>1, <1>2, <1>p, <3>2, GotoType DEF QueryDone
    <3> QED
      BY <3>1, <3>2
  <2> QED
    BY <1>2, <1>s, <2>1, CheckpointType, SameGuest DEF QueryDone
<1>3. CASE QueryFailed(r)
  BY <1>1, <1>3, <1>s, SettleType, SameGuest DEF QueryFailed
<1>4. CASE MarkIssue(r)
  BY <1>1, <1>4, <1>p, <1>s, GotoType, CheckpointType, SameGuest DEF MarkIssue
<1>5. CASE VerbDone(r)
  BY <1>1, <1>5, <1>x, FailEffectType, CommandJob DEF VerbDone, FailEffect
<1>6. CASE VerbFailed(r)
  <2>1. GuestType'
    <3>1. CASE FailEffect(Command(r))
      BY <1>1, <3>1, FailEffectType, CommandJob
    <3>2. CASE app' = "down" /\ downBy' = wk[r].job /\ pend' = AfterPend(Command(r))
      BY <1>1, <3>2 DEF GuestType, AfterPend
    <3> QED
      BY <1>6, <3>1, <3>2 DEF VerbFailed
  <2> QED
    BY <1>6, <2>1, <1>x DEF VerbFailed
<1>7. CASE ReadBack(r)
  <2>1. WorkInv'
    BY <1>1, <1>7, <1>s, SettleType, FlagsAssumption DEF ReadBack
  <2>2. jobs' \in JobTable
    BY <1>7, <1>s, CheckpointType DEF ReadBack
  <2> QED
    BY <1>7, <2>1, <2>2, SameGuest DEF ReadBack
<1> QED
  BY <1>2, <1>3, <1>4, <1>5, <1>6, <1>7 DEF LifecycleStep

(* Recording the end of an operation (executor.js runJob's tail). *)
LEMMA RecordStepType ==
    ASSUME TypeInv, NEW r \in Runners, RecordStep(r)
    PROVE  TypeInv'
<1> USE DEF TypeInv
<1>p. {"finish", "mark_stale", "release"} \subseteq Phases \cup Control
  BY DEF Control
<1>1. wk[r].job \in Jobs /\ wk[r] \in WorkRow
  BY DEF RecordStep, QueueFollowUp, Finish, MarkStale, ReleaseLock, At, WorkInv, JobInHand, WorkTable
<1>2. CASE QueueFollowUp(r)
  <2>1. NewJob("verify_app", wk[r].job, FALSE) \in JobRow
    BY <1>1, NewJobType DEF Kinds
  <2>2. jobs' \in JobTable
    BY <1>2, <2>1 DEF QueueFollowUp, JobTable
  <2> QED
    BY <1>1, <1>2, <1>p, <2>2, GotoType, SameGuest DEF QueueFollowUp
<1>3. CASE Finish(r)
  <2>1. jobs' \in JobTable
    BY <1>1, <1>3, FinishJobType DEF Finish, WorkRow, JOB_STATUS
  <2>2. WorkInv'
    BY <1>1, <1>3, <1>p, GotoType DEF Finish
  <2> QED
    BY <1>3, <2>1, <2>2, SameGuest DEF Finish
<1>4. CASE MarkStale(r)
  BY <1>1, <1>4, IdleType, MarkLockStaleType, SameGuest DEF MarkStale
<1>5. CASE ReleaseLock(r)
  <2>1. lock' \in LockRow
    BY <1>5 DEF ReleaseLock, NoLock, LockRow
  <2> QED
    BY <1>5, <2>1, IdleType, SameGuest DEF ReleaseLock
<1> QED
  BY <1>2, <1>3, <1>4, <1>5 DEF RecordStep

(* The decision is one this process can carry out (logic.js reconcileDecision). *)
LEMMA DecisionType ==
    ASSUME NEW cp PROVE ReconcileDecision(cp) \in Actions \ {"none"}
BY DEF ReconcileDecision, Actions

(* Settling the job of a dead owner (executor.js reconcile). *)
LEMMA ReconcileStepType ==
    ASSUME TypeInv, NEW r \in Runners, ReconcileStep(r)
    PROVE  TypeInv'
<1> USE DEF TypeInv
<1>1. ASSUME NEW j \in Jobs, Reconcile(r, j) PROVE TypeInv'
  <2> DEFINE act == ReconcileDecision(jobs[j].cp)
             pc == IF act \in {"recover", "verify"} THEN "rc_follow" ELSE "rc_record"
             ep == IF lock.owner = jobs[j].owner THEN lock.epoch ELSE jobs[j].epoch
             mn == lock.owner = jobs[j].owner
             w == [Idle EXCEPT !.pc = pc, !.job = j, !.act = act, !.dead = jobs[j].owner,
                               !.mine = mn, !.lockEpoch = ep]
  <2>1. act \in Actions /\ pc \in Control /\ mn \in BOOLEAN
    BY DecisionType DEF Control
  <2>2. ep \in Nat /\ jobs[j].owner \in Runners \cup {NoOne}
    BY DEF JobTable, JobRow, LockRow
  <2>3. wk' = [wk EXCEPT ![r] = w]
    BY <1>1 DEF Reconcile, Read
  <2> HIDE DEF act, pc, ep, mn
  <2>4. w \in WorkRow /\ w.job \in Jobs
    BY <2>1, <2>2 DEF Idle, WorkRow, TERMINAL_STATUS, Outcomes
  <2> HIDE DEF w
  <2>5. WorkInv'
    BY <2>3, <2>4, WorkRowType
  <2> QED
    BY <1>1, <2>5, SameGuest DEF Reconcile
<1>2. CASE ReconcileFollow(r)
  <2>1. wk[r].job \in Jobs /\ wk[r] \in WorkRow
    BY <1>2, AtWork DEF ReconcileFollow, WorkInv, WorkTable
  <2> DEFINE reuse == wk[r].act = "recover" /\ OpenRecovery # {}
             kind == IF wk[r].act = "recover" THEN "recover_app" ELSE "verify_app"
  <2>2. NewJob(kind, wk[r].job, FALSE) \in JobRow
    <3>1. kind \in Kinds
      BY DEF Kinds
    <3> HIDE DEF kind
    <3> QED
      BY <2>1, <3>1, NewJobType
  <2>3. PICK k \in Jobs :
           /\ jobs' = IF reuse THEN jobs ELSE [jobs EXCEPT ![k] = NewJob(kind, wk[r].job, FALSE)]
           /\ wk' = [wk EXCEPT ![r].pc = "rc_record", ![r].follow = k]
    BY <1>2 DEF ReconcileFollow
  <2> HIDE DEF reuse, kind
  <2>4. jobs' \in JobTable
    BY <2>2, <2>3 DEF JobTable
  <2> DEFINE w == [wk[r] EXCEPT !.pc = "rc_record", !.follow = k]
  <2>5. w \in WorkRow /\ w.job \in Jobs
    BY <2>1 DEF WorkRow, Control
  <2>6. wk' = [wk EXCEPT ![r] = w]
    BY <2>3
  <2> HIDE DEF w
  <2>7. WorkInv'
    BY <2>5, <2>6, WorkRowType
  <2> QED
    BY <1>2, <2>4, <2>7, SameGuest DEF ReconcileFollow
<1>3. CASE ReconcileRecord(r)
  <2>1. wk[r].job \in Jobs
    BY <1>3, AtWork DEF ReconcileRecord, WorkInv
  <2>2. CASE RequeueJob(wk[r].job, FALSE)
    BY <2>1, <2>2, <1>3, RequeueJobType, GotoType, SameGuest DEF ReconcileRecord, Control
  <2>3. ASSUME NEW status \in {"failed", "recovery_required"},
               NEW outcome \in {"interrupted", "interrupted_uncertain", "interrupted_unverified",
                                "interrupted_after_stop"},
               RecordJobOutcome(wk[r].job, status, outcome)
        PROVE  TypeInv'
    <3>1. status \in JOB_STATUS /\ outcome \in Outcomes
      BY DEF JOB_STATUS, TERMINAL_STATUS, Outcomes
    <3>2. jobs' \in JobTable
      BY <2>1, <2>3, <3>1, RecordJobOutcomeType
    <3> QED
      BY <2>1, <1>3, <3>2, GotoType, SameGuest DEF ReconcileRecord, Control
  <2> QED
    BY <1>3, <2>2, <2>3 DEF ReconcileRecord
<1>4. CASE ReconcileLock(r)
  <2>1. wk[r].job \in Jobs /\ wk[r] \in WorkRow
    BY <1>4, AtWork DEF ReconcileLock, WorkInv, WorkTable
  <2>2. /\ wk[r].follow \in Jobs \cup {0}
        /\ wk[r].dead \in Runners \cup {NoOne}
        /\ wk[r].lockEpoch \in Nat
    BY <2>1 DEF WorkRow
  <2>3. ASSUME HoldStaleLock(wk[r].dead, wk[r].lockEpoch, wk[r].job)
        PROVE  lock' \in LockRow
    <3>1. CASE lock.owner = NoOne
      <4>1. lock' = [owner |-> wk[r].dead, epoch |-> wk[r].lockEpoch, live |-> FALSE,
                     stale |-> TRUE, rec |-> wk[r].job]
        BY <2>3, <3>1 DEF HoldStaleLock
      <4> QED
        BY <2>1, <2>2, <4>1 DEF LockRow
    <3>2. CASE lock.owner # NoOne
      BY <2>1, <2>3, <3>2, MarkLockStaleType DEF HoldStaleLock
    <3> QED
      BY <3>1, <3>2
  <2>4. CASE MarkLockStale(wk[r].follow)
    BY <1>4, <2>2, <2>4, MarkLockStaleType, IdleType, SameGuest DEF ReconcileLock
  <2>5. CASE lock' \in {lock, NoLock}
    <3>1. NoLock \in LockRow
      BY DEF NoLock, LockRow
    <3>2. lock' \in LockRow
      BY <2>5, <3>1
    <3> QED
      BY <1>4, <3>2, IdleType, SameGuest DEF ReconcileLock
  <2>6. CASE HoldStaleLock(wk[r].dead, wk[r].lockEpoch, wk[r].job)
    BY <1>4, <2>3, <2>6, IdleType, SameGuest DEF ReconcileLock
  <2> QED
    BY <1>4, <2>4, <2>5, <2>6 DEF ReconcileLock
<1> QED
  BY <1>1, <1>2, <1>3, <1>4 DEF ReconcileStep

(* Requests (routes/setup.js, orchestrator.js). *)
LEMMA OperatorStepType ==
    ASSUME TypeInv, OperatorStep
    PROVE  TypeInv'
<1> USE DEF TypeInv
<1>1. CASE SubmitDeploy
  <2>1. NewJob("deploy", 0, TRUE) \in JobRow
    BY NewJobType DEF Kinds
  <2> QED
    BY <1>1, <2>1, CreateType, SameWork, SameGuest DEF SubmitDeploy
<1>2. CASE RequestRecovery
  <2>1. NewJob("recover_app", 0, TRUE) \in JobRow
    BY NewJobType DEF Kinds
  <2> QED
    BY <1>2, <2>1, CreateType, SameWork, SameGuest DEF RequestRecovery
<1>3. CASE SubmitRestart
  <2> DEFINE job == NewJob("instance_restart", 0, TRUE)
  <2>1. job \in JobRow
    BY NewJobType DEF Kinds
  <2>2. Create(job) \/ Create([job EXCEPT !.status = "cancelled", !.outcome = "runner_unavailable"])
    BY <1>3 DEF SubmitRestart
  <2> HIDE DEF job
  <2>3. [job EXCEPT !.status = "cancelled", !.outcome = "runner_unavailable"] \in JobRow
    BY <2>1 DEF JobRow, JOB_STATUS, TERMINAL_STATUS, Outcomes
  <2>4. jobs' \in JobTable
    BY <2>1, <2>2, <2>3, CreateType
  <2> QED
    BY <1>3, <2>4, SameWork, SameGuest DEF SubmitRestart
<1>4. ASSUME NEW j \in Jobs, Retry(j) PROVE TypeInv'
  <2>1. NewJob(jobs[j].kind, jobs[j].origin, TRUE) \in JobRow
    BY NewJobType DEF JobTable, JobRow
  <2> QED
    BY <1>4, <2>1, CreateType, SameWork, SameGuest DEF Retry
<1>5. ASSUME NEW j \in Jobs, RequestCancel(j) PROVE TypeInv'
  <2>1. jobs[j] \in JobRow
    BY DEF JobTable
  <2>2. /\ [jobs[j] EXCEPT !.status = "cancelled", !.outcome = "cancelled"] \in JobRow
        /\ [jobs[j] EXCEPT !.cancel = TRUE] \in JobRow
    BY <2>1 DEF JobRow, JOB_STATUS, TERMINAL_STATUS, Outcomes
  <2>3. jobs' \in JobTable
    BY <1>5, <2>2 DEF RequestCancel, JobTable
  <2> QED
    BY <1>5, <2>3, SameWork, SameGuest DEF RequestCancel
<1>6. ASSUME NEW j \in Jobs, AcknowledgeUncertainJob(j) PROVE TypeInv'
  <2>1. [jobs[j] EXCEPT !.outcome = "interrupted_uncertain_acknowledged"] \in JobRow
    BY DEF JobTable, JobRow, Outcomes
  <2>2. jobs' \in JobTable
    BY <1>6, <2>1 DEF AcknowledgeUncertainJob, JobTable
  <2>3. lock' \in LockRow
    BY <1>6 DEF AcknowledgeUncertainJob, NoLock, LockRow
  <2> QED
    BY <1>6, <2>2, <2>3, SameWork, SameGuest DEF AcknowledgeUncertainJob
<1> QED
  BY <1>1, <1>2, <1>3, <1>4, <1>5, <1>6 DEF OperatorStep

(* The initial state and every step. *)
LEMMA TypeInvInit == Init => TypeInv
<1> SUFFICES ASSUME Init PROVE TypeInv
  OBVIOUS
<1>1. Idle \in WorkRow
  BY DEF Idle, WorkRow, Control, TERMINAL_STATUS, Outcomes, Actions
<1>2. WorkInv
  BY <1>1 DEF Init, WorkInv, WorkTable, JobInHand, Idle
<1>3. NoJob \in JobRow
  BY DEF NoJob, JobRow, Kinds, JOB_STATUS, Outcomes, Flags, NoCheckpoint
<1>4. NoLock \in LockRow
  BY DEF NoLock, LockRow
<1> QED
  BY <1>2, <1>3, <1>4 DEF Init, TypeInv, JobTable, GuestType

LEMMA TypeInvNext == TypeInv /\ [Next]_vars => TypeInv'
<1> SUFFICES ASSUME TypeInv, [Next]_vars PROVE TypeInv'
  OBVIOUS
<1>1. ASSUME NEW r \in Runners, Start(r) PROVE TypeInv'
  BY <1>1, SameWork, SameGuest DEF Start, TypeInv
<1>2. ASSUME NEW r \in Runners, Crash(r) PROVE TypeInv'
  BY <1>2, IdleType, SameGuest DEF Crash, TypeInv
<1>3. ASSUME NEW r \in Runners, ExecutorStep(r) PROVE TypeInv'
  BY <1>3, TakeJobType, IssueType, FencedType, HonourCancelType, DeployStepType,
     RecoverStepType, LifecycleStepType, RecordStepType DEF ExecutorStep
<1>4. ASSUME NEW r \in Runners, ReconcileStep(r) PROVE TypeInv'
  BY <1>4, ReconcileStepType
<1>5. ASSUME NEW j \in Jobs, ExpireJob(j) PROVE TypeInv'
  <2>1. [jobs[j] EXCEPT !.live = FALSE] \in JobRow
    BY DEF TypeInv, JobTable, JobRow
  <2> QED
    BY <1>5, <2>1, SameWork, SameGuest DEF ExpireJob, TypeInv, JobTable
<1>6. CASE ExpireLock
  <2>1. lock' \in LockRow
    BY <1>6 DEF ExpireLock, TypeInv, LockRow
  <2> QED
    BY <1>6, <2>1, SameWork, SameGuest DEF ExpireLock, TypeInv
<1>7. ASSUME NEW e \in pend, OrphanRuns(e) PROVE TypeInv'
  <2>1. e.job \in Jobs
    BY DEF TypeInv, GuestType, Commands
  <2> QED
    BY <1>7, <2>1, FailEffectType, SameWork DEF OrphanRuns, FailEffect, TypeInv
<1>8. CASE OperatorStep
  BY <1>8, OperatorStepType
<1>9. CASE UNCHANGED vars
  BY <1>9, SameWork, SameGuest DEF vars, TypeInv
<1> QED
  BY <1>1, <1>2, <1>3, <1>4, <1>5, <1>6, <1>7, <1>8, <1>9 DEF Next

LEMMA TypeInvAlways == Spec => []TypeInv
BY TypeInvInit, TypeInvNext, PTL DEF Spec

(* Every reachable state has the types of the store's columns, and every    *)
(* reconcile decision is one the runner can carry out (store.js, executor.js *)
(* reconcile).                                                               *)
THEOREM TypeCorrect == Spec => []TypeOK
<1>1. TypeInv => TypeOK
  BY DEF TypeInv, TypeOK, WorkInv, WorkTable, JobTable, GuestType
<1> QED
  BY <1>1, TypeInvAlways, PTL

-----------------------------------------------------------------------------
(***************************************************************************)
(* A terminal record is final.  Every write of the job table touches one   *)
(* row, and a row that is not terminal, except an acknowledgement.         *)
(***************************************************************************)
TerminalKept ==
    \A j \in Jobs : IsTerminal(j) =>
        /\ jobs'[j].status = jobs[j].status
        /\ \/ jobs'[j].outcome = jobs[j].outcome
           \/ jobs'[j].outcome = "interrupted_uncertain_acknowledged"
(* What a write may do to a row's status and claim number. *)
LegalMove(j) ==
    LET old == jobs[j].status
        new == jobs'[j].status IN
    \/ new = old /\ jobs'[j].epoch = jobs[j].epoch
    \/ NextRow(j) /\ new \in TERMINAL_STATUS \cup {"queued"} /\ jobs'[j].epoch = 0
    \/ old = "queued" /\ new = "running" /\ jobs'[j].epoch = jobs[j].epoch + 1
    \/ old = "running" /\ new = "queued" /\ jobs'[j].epoch = jobs[j].epoch
    \/ old \in {"queued", "running"} /\ new \in TERMINAL_STATUS /\ jobs'[j].epoch = jobs[j].epoch
OpenRowWritten ==
    \/ jobs' = jobs
    \/ \E j \in Jobs : /\ ~IsTerminal(j)
                       /\ LegalMove(j)
                       /\ \A k \in Jobs \ {j} : jobs'[k] = jobs[k]

LEMMA OpenRowKeepsTerminal == ASSUME OpenRowWritten PROVE TerminalKept
BY DEF OpenRowWritten, TerminalKept, IsTerminal

(* The writes of the store. *)
LEMMA ClaimedIsOpen ==
    ASSUME NEW r, Claimed(r) PROVE wk[r].job \in Jobs /\ ~IsTerminal(wk[r].job)
BY DEF Claimed, IsTerminal, TERMINAL_STATUS

LEMMA CheckpointWrites ==
    ASSUME jobs \in JobTable, NEW r, NEW name, Checkpoint(r, name) PROVE OpenRowWritten
<1>1. CASE Claimed(r)
  <2>1. jobs' = [jobs EXCEPT ![wk[r].job].cp = Merge(name, @), ![wk[r].job].live = TRUE]
    BY <1>1 DEF Checkpoint
  <2>2. \A k \in Jobs \ {wk[r].job} : jobs'[k] = jobs[k]
    BY <2>1 DEF JobTable
  <2>3. wk[r].job \in Jobs /\ ~IsTerminal(wk[r].job)
    BY <1>1, ClaimedIsOpen
  <2>4. LegalMove(wk[r].job)
    BY <2>1, <2>3 DEF LegalMove, JobTable, JobRow
  <2> QED
    BY <2>2, <2>3, <2>4 DEF OpenRowWritten
<1>2. CASE ~Claimed(r)
  BY <1>2 DEF Checkpoint, OpenRowWritten
<1> QED
  BY <1>1, <1>2

LEMMA FinishJobWrites ==
    ASSUME jobs \in JobTable, NEW r, NEW status \in TERMINAL_STATUS, NEW outcome,
           FinishJob(r, status, outcome)
    PROVE  OpenRowWritten
<1>1. CASE Claimed(r)
  <2>1. \A k \in Jobs \ {wk[r].job} : jobs'[k] = jobs[k]
    BY <1>1 DEF FinishJob, JobTable
  <2>2. wk[r].job \in Jobs /\ ~IsTerminal(wk[r].job)
    BY <1>1, ClaimedIsOpen
  <2>3. LegalMove(wk[r].job)
    BY <1>1, <2>2 DEF FinishJob, Claimed, LegalMove, JobTable, JobRow
  <2> QED
    BY <2>1, <2>2, <2>3 DEF OpenRowWritten
<1>2. CASE ~Claimed(r)
  BY <1>2 DEF FinishJob, OpenRowWritten
<1> QED
  BY <1>1, <1>2

LEMMA RequeueJobWrites ==
    ASSUME jobs \in JobTable, NEW j \in Jobs, NEW wait, RequeueJob(j, wait) PROVE OpenRowWritten
<1>1. CASE jobs[j].status = "running"
  <2>1. \A k \in Jobs \ {j} : jobs'[k] = jobs[k]
    BY <1>1 DEF RequeueJob, JobTable
  <2>2. LegalMove(j)
    BY <1>1 DEF RequeueJob, LegalMove, JobTable, JobRow
  <2> QED
    BY <1>1, <2>1, <2>2 DEF OpenRowWritten, IsTerminal, TERMINAL_STATUS
<1>2. CASE jobs[j].status # "running"
  BY <1>2 DEF RequeueJob, OpenRowWritten
<1> QED
  BY <1>1, <1>2

LEMMA RecordJobOutcomeWrites ==
    ASSUME jobs \in JobTable, NEW j \in Jobs, NEW status \in TERMINAL_STATUS, NEW outcome,
           RecordJobOutcome(j, status, outcome)
    PROVE  OpenRowWritten
<1>1. CASE jobs[j].status = "running"
  <2>1. \A k \in Jobs \ {j} : jobs'[k] = jobs[k]
    BY <1>1 DEF RecordJobOutcome, JobTable
  <2>2. LegalMove(j)
    BY <1>1 DEF RecordJobOutcome, LegalMove, JobTable, JobRow
  <2> QED
    BY <1>1, <2>1, <2>2 DEF OpenRowWritten, IsTerminal, TERMINAL_STATUS
<1>2. CASE jobs[j].status # "running"
  BY <1>2 DEF RecordJobOutcome, OpenRowWritten
<1> QED
  BY <1>1, <1>2

LEMMA CreateWrites ==
    ASSUME jobs \in JobTable, NEW job, job.epoch = 0, job.status \in TERMINAL_STATUS \cup {"queued"}, Create(job)
    PROVE  OpenRowWritten
<1>1. PICK j \in Jobs : NextRow(j) /\ jobs' = [jobs EXCEPT ![j] = job]
  BY DEF Create
<1>2. LegalMove(j)
  BY <1>1 DEF LegalMove, JobTable, NextRow
<1>3. ~IsTerminal(j) /\ \A k \in Jobs \ {j} : jobs'[k] = jobs[k]
  BY <1>1 DEF NextRow, IsTerminal, TERMINAL_STATUS, JobTable
<1> QED
  BY <1>2, <1>3 DEF OpenRowWritten

(* A new job is queued and was never claimed (store.js createJob). *)
LEMMA NewJobQueued ==
    ASSUME NEW kind, NEW origin, NEW asked
    PROVE  NewJob(kind, origin, asked).epoch = 0 /\ NewJob(kind, origin, asked).status = "queued"
BY DEF NewJob, NoJob

(* The steps of a runner. *)
LEMMA ExecutorWrites ==
    ASSUME TypeInv, NEW r \in Runners, ExecutorStep(r) PROVE OpenRowWritten
<1> USE DEF TypeInv
<1>1. CASE TakeJob(r)
  <2>1. ASSUME NEW j \in Jobs, ClaimNextJob(r, j) PROVE OpenRowWritten
    <3>1. \A k \in Jobs \ {j} : jobs'[k] = jobs[k]
      BY <2>1 DEF ClaimNextJob, JobTable
    <3>2. LegalMove(j)
      BY <2>1 DEF ClaimNextJob, LegalMove, JobTable, JobRow
    <3> QED
      BY <2>1, <3>1, <3>2 DEF ClaimNextJob, OpenRowWritten, IsTerminal, TERMINAL_STATUS
  <2>2. CASE Busy(r)
    <3>1. wk[r].job \in Jobs
      BY <2>2, AtWork DEF Busy, WorkInv
    <3> QED
      BY <2>2, <3>1, RequeueJobWrites, FinishJobWrites DEF Busy, TERMINAL_STATUS
  <2>3. CASE AcquireLock(r) \/ TakeoverLock(r)
    BY <2>3 DEF AcquireLock, TakeoverLock, OpenRowWritten
  <2> QED
    BY <1>1, <2>1, <2>2, <2>3 DEF TakeJob
<1>2. ASSUME NEW ph \in Phases, Issue(r, ph) PROVE OpenRowWritten
  <2>1. wk[r].job \in Jobs /\ ~IsTerminal(wk[r].job)
    BY <1>2, ClaimedIsOpen DEF Issue, FenceJob
  <2>2. \A k \in Jobs \ {wk[r].job} : jobs'[k] = jobs[k]
    BY <1>2 DEF Issue, JobTable
  <2>3. LegalMove(wk[r].job)
    BY <1>2, <2>1 DEF Issue, LegalMove, JobTable, JobRow
  <2> QED
    BY <2>1, <2>2, <2>3 DEF OpenRowWritten
<1>3. CASE Fenced(r)
  BY <1>3 DEF Fenced, OpenRowWritten
<1>4. CASE HonourCancel(r)
  <2>1. wk[r].job \in Jobs /\ ~IsTerminal(wk[r].job)
    BY <1>4, ClaimedIsOpen DEF HonourCancel, FenceJob
  <2>2. \A k \in Jobs \ {wk[r].job} : jobs'[k] = jobs[k]
    BY <1>4 DEF HonourCancel, JobTable
  <2>3. LegalMove(wk[r].job)
    BY <1>4, <2>1 DEF HonourCancel, LegalMove, JobTable, JobRow
  <2> QED
    BY <2>1, <2>2, <2>3 DEF OpenRowWritten
<1>5. CASE DeployStep(r)
  <2>1. CASE MarkStop(r) \/ SwapDone(r) \/ HealthDone(r) \/ RestartUnitDone(r) \/ DeployStepFailed(r)
    BY <2>1, CheckpointWrites
    DEF MarkStop, SwapDone, HealthDone, RestartUnitDone, DeployStepFailed, OpenRowWritten
  <2>2. CASE ~(MarkStop(r) \/ SwapDone(r) \/ HealthDone(r) \/ RestartUnitDone(r)
               \/ DeployStepFailed(r))
    BY <1>5, <2>2
    DEF DeployStep, ReapCounted, ReapBlind, ReapAgain, PreviousWriterAlive, BuildDone,
        NoContract, BuildFailed, StopDone, MigrateDone, HealthFailed, ContainmentUnavailable,
        OpenRowWritten
  <2> QED
    BY <2>1, <2>2
<1>6. CASE RecoverStep(r)
  BY <1>6 DEF RecoverStep, StatusDone, StartDone, ProbeDone, OpenRowWritten
<1>7. CASE LifecycleStep(r)
  BY <1>7, CheckpointWrites
  DEF LifecycleStep, QueryDone, QueryFailed, MarkIssue, VerbDone, VerbFailed, ReadBack,
      OpenRowWritten
<1>8. CASE RecordStep(r)
  <2>1. CASE QueueFollowUp(r)
    <3>1. Create(NewJob("verify_app", wk[r].job, FALSE))
      BY <2>1 DEF QueueFollowUp, Create
    <3> QED
      BY <3>1, CreateWrites, NewJobQueued
  <2>2. CASE Finish(r)
    <3>1. wk[r].status \in TERMINAL_STATUS
      BY DEF WorkInv, WorkTable, WorkRow
    <3> QED
      BY <2>2, <3>1, FinishJobWrites DEF Finish
  <2>3. CASE MarkStale(r) \/ ReleaseLock(r)
    BY <2>3 DEF MarkStale, ReleaseLock, OpenRowWritten
  <2> QED
    BY <1>8, <2>1, <2>2, <2>3 DEF RecordStep
<1> QED
  BY <1>1, <1>2, <1>3, <1>4, <1>5, <1>6, <1>7, <1>8 DEF ExecutorStep

LEMMA ReconcileWrites ==
    ASSUME TypeInv, NEW r \in Runners, ReconcileStep(r) PROVE OpenRowWritten
<1> USE DEF TypeInv
<1>1. ASSUME NEW j \in Jobs, Reconcile(r, j) PROVE OpenRowWritten
  BY <1>1 DEF Reconcile, OpenRowWritten
<1>2. CASE ReconcileFollow(r)
  <2> DEFINE reuse == wk[r].act = "recover" /\ OpenRecovery # {}
             job == NewJob(IF wk[r].act = "recover" THEN "recover_app" ELSE "verify_app",
                           wk[r].job, FALSE)
  <2>1. jobs' = jobs \/ Create(job)
    BY <1>2 DEF ReconcileFollow, Create
  <2>2. job.epoch = 0 /\ job.status = "queued"
    BY NewJobQueued
  <2> HIDE DEF reuse, job
  <2> QED
    BY <2>1, <2>2, CreateWrites DEF OpenRowWritten
<1>3. CASE ReconcileRecord(r)
  <2>1. wk[r].job \in Jobs
    BY <1>3, AtWork DEF ReconcileRecord, WorkInv
  <2> QED
    BY <1>3, <2>1, RequeueJobWrites, RecordJobOutcomeWrites DEF ReconcileRecord, TERMINAL_STATUS
<1>4. CASE ReconcileLock(r)
  BY <1>4 DEF ReconcileLock, OpenRowWritten
<1> QED
  BY <1>1, <1>2, <1>3, <1>4 DEF ReconcileStep

LEMMA OperatorWrites ==
    ASSUME TypeInv, OperatorStep
    PROVE  \/ OpenRowWritten
           \/ \E j \in Jobs : AcknowledgeUncertainJob(j)
<1> USE DEF TypeInv
<1>1. CASE SubmitDeploy \/ RequestRecovery
  BY <1>1, CreateWrites, NewJobQueued DEF SubmitDeploy, RequestRecovery
<1>2. CASE SubmitRestart
  <2> DEFINE job == NewJob("instance_restart", 0, TRUE)
             lost == [job EXCEPT !.status = "cancelled", !.outcome = "runner_unavailable"]
  <2>1. job.epoch = 0 /\ job.status = "queued"
    BY NewJobQueued
  <2>2. lost.epoch = 0 /\ lost.status \in TERMINAL_STATUS
    BY DEF NewJob, NoJob, TERMINAL_STATUS
  <2>3. Create(job) \/ Create(lost)
    BY <1>2 DEF SubmitRestart
  <2> HIDE DEF job, lost
  <2> QED
    BY <2>1, <2>2, <2>3, CreateWrites
<1>3. ASSUME NEW j \in Jobs, Retry(j) PROVE OpenRowWritten
  BY <1>3, CreateWrites, NewJobQueued DEF Retry
<1>4. ASSUME NEW j \in Jobs, RequestCancel(j) PROVE OpenRowWritten
  <2>1. \A k \in Jobs \ {j} : jobs'[k] = jobs[k]
    BY <1>4 DEF RequestCancel, JobTable
  <2>2. ~IsTerminal(j)
    BY <1>4 DEF RequestCancel, IsTerminal, TERMINAL_STATUS
  <2>3. LegalMove(j)
    BY <1>4 DEF RequestCancel, LegalMove, JobTable, JobRow, TERMINAL_STATUS
  <2> QED
    BY <2>1, <2>2, <2>3 DEF OpenRowWritten
<1> QED
  BY <1>1, <1>2, <1>3, <1>4 DEF OperatorStep

(* An acknowledgement changes the outcome of one terminal row and no status. *)
LEMMA AcknowledgeWrites ==
    ASSUME TypeInv, NEW j \in Jobs, AcknowledgeUncertainJob(j)
    PROVE  /\ \A k \in Jobs \ {j} : jobs'[k] = jobs[k]
           /\ jobs'[j].outcome = "interrupted_uncertain_acknowledged"
           /\ jobs'[j].status = jobs[j].status
           /\ jobs'[j].epoch = jobs[j].epoch
BY DEF AcknowledgeUncertainJob, TypeInv, JobTable, JobRow

LEMMA ExpireJobWrites ==
    ASSUME TypeInv, NEW j \in Jobs, ExpireJob(j) PROVE OpenRowWritten
<1>1. \A k \in Jobs \ {j} : jobs'[k] = jobs[k]
  BY DEF ExpireJob, TypeInv, JobTable
<1>2. ~IsTerminal(j)
  BY DEF ExpireJob, IsTerminal, TERMINAL_STATUS
<1>3. LegalMove(j)
  BY DEF ExpireJob, LegalMove, TypeInv, JobTable, JobRow
<1> QED
  BY <1>1, <1>2, <1>3 DEF OpenRowWritten

(* Every step writes at most one row; if that row is terminal, the step is   *)
(* an acknowledgement.                                                       *)
LEMMA EveryWrite ==
    ASSUME TypeInv, Next
    PROVE  \/ OpenRowWritten
           \/ \E j \in Jobs : AcknowledgeUncertainJob(j)
<1>1. ASSUME NEW r \in Runners, Start(r) \/ Crash(r) PROVE OpenRowWritten
  BY <1>1 DEF Start, Crash, OpenRowWritten
<1>2. CASE ExpireLock \/ \E e \in pend : OrphanRuns(e)
  BY <1>2 DEF ExpireLock, OrphanRuns, OpenRowWritten
<1> QED
  BY <1>1, <1>2, ExpireJobWrites, ExecutorWrites, ReconcileWrites, OperatorWrites DEF Next

LEMMA AcknowledgeKeepsTerminal ==
    ASSUME TypeInv, NEW j \in Jobs, AcknowledgeUncertainJob(j) PROVE TerminalKept
BY AcknowledgeWrites DEF TerminalKept, IsTerminal

(* No write of any runner, reconciler or operator changes a terminal        *)
(* status, however late it comes, and an outcome changes only by an         *)
(* acknowledgement; overlapping runners included (store.js finishJob,       *)
(* recordJobOutcome, requeueJob, acknowledgeUncertainJob).                  *)
THEOREM TerminalIsFinal == Spec => TerminalStays
<1>1. TypeInv /\ [Next]_vars => [TerminalKept]_vars
  <2> SUFFICES ASSUME TypeInv, Next PROVE TerminalKept
    BY DEF TerminalKept, vars
  <2> QED
    BY EveryWrite, OpenRowKeepsTerminal, AcknowledgeKeepsTerminal
<1>2. Spec => [][TerminalKept]_vars
  BY <1>1, TypeInvAlways, PTL DEF Spec
<1> QED
  BY <1>2 DEF TerminalKept, TerminalStays

-----------------------------------------------------------------------------
(***************************************************************************)
(* The engine implements the ledger of jobs.  The mapping forgets runners, *)
(* leases and the guest; every step writes at most one row, by a move the  *)
(* ledger knows.                                                           *)
(***************************************************************************)
MappedStage == [j \in Jobs |-> Stage(jobs[j].status)]
MappedClaims == [j \in Jobs |-> jobs[j].epoch]

(* An empty table is an empty ledger. *)
LEMMA LedgerStarts == Init => Ledger!LedgerInit
BY DEF Init, Ledger!LedgerInit, NoJob, Stage

(* A write of a row is a move of the ledger or changes nothing it records. *)
LEMMA RowMoves ==
    ASSUME TypeInv, NEW j \in Jobs, LegalMove(j), \A k \in Jobs \ {j} : jobs'[k] = jobs[k]
    PROVE  Ledger!LedgerNext \/ UNCHANGED <<MappedStage, MappedClaims>>
<1> DEFINE old == jobs[j].status
           new == jobs'[j].status
<1>1. /\ MappedStage' = [MappedStage EXCEPT ![j] = Stage(new)]
      /\ MappedClaims' = [MappedClaims EXCEPT ![j] = jobs'[j].epoch]
  BY DEF MappedStage, MappedClaims
<1>2. \A k \in Jobs : MappedStage[k] = Stage(jobs[k].status) /\ MappedClaims[k] = jobs[k].epoch
  BY DEF MappedStage, MappedClaims
<1>3. CASE new = old /\ jobs'[j].epoch = jobs[j].epoch
  <2>1. [MappedStage EXCEPT ![j] = Stage(new)] = MappedStage
    BY <1>3 DEF MappedStage
  <2>2. [MappedClaims EXCEPT ![j] = jobs'[j].epoch] = MappedClaims
    BY <1>3 DEF MappedClaims
  <2> QED
    BY <1>1, <2>1, <2>2
<1>4. ASSUME jobs'[j].epoch = jobs[j].epoch PROVE UNCHANGED MappedClaims
  <2>1. [MappedClaims EXCEPT ![j] = jobs'[j].epoch] = MappedClaims
    BY <1>4 DEF MappedClaims
  <2> QED
    BY <1>1, <2>1
<1>5. CASE NextRow(j) /\ new \in TERMINAL_STATUS \cup {"queued"} /\ jobs'[j].epoch = 0
  <2>1. MappedStage[j] = "absent" /\ \A k \in Jobs : k < j => MappedStage[k] # "absent"
    BY <1>2, <1>5 DEF NextRow, Stage
  <2>2. Stage(new) \in {"queued", "done"}
    BY <1>5 DEF Stage, TERMINAL_STATUS
  <2>3. Ledger!Submit(j)
    BY <1>1, <1>5, <2>1, <2>2 DEF Ledger!Submit, Ledger!MoveTo, MappedStage, MappedClaims
  <2> QED
    BY <2>3 DEF Ledger!LedgerNext
<1>6. CASE old = "queued" /\ new = "running" /\ jobs'[j].epoch = jobs[j].epoch + 1
  <2>1. MappedStage[j] = "queued" /\ Stage(new) = "running"
    BY <1>2, <1>6 DEF Stage
  <2>2. MappedClaims' = [MappedClaims EXCEPT ![j] = @ + 1]
    BY <1>1, <1>2, <1>6
  <2>3. Ledger!Claim(j)
    BY <1>1, <2>1, <2>2 DEF Ledger!Claim, Ledger!MoveTo, MappedStage, MappedClaims
  <2> QED
    BY <2>3 DEF Ledger!LedgerNext
<1>7. CASE old = "running" /\ new = "queued" /\ jobs'[j].epoch = jobs[j].epoch
  <2>1. MappedStage[j] = "running" /\ Stage(new) = "queued"
    BY <1>2, <1>7 DEF Stage
  <2>2. Ledger!GiveUp(j)
    BY <1>1, <1>4, <1>7, <2>1 DEF Ledger!GiveUp, Ledger!MoveTo, MappedStage, MappedClaims
  <2> QED
    BY <2>2 DEF Ledger!LedgerNext
<1>8. CASE old \in {"queued", "running"} /\ new \in TERMINAL_STATUS /\ jobs'[j].epoch = jobs[j].epoch
  <2>1. MappedStage[j] \in {"queued", "running"} /\ Stage(new) = "done"
    BY <1>2, <1>8 DEF Stage, TERMINAL_STATUS
  <2>2. Ledger!Conclude(j)
    BY <1>1, <1>4, <1>8, <2>1 DEF Ledger!Conclude, Ledger!MoveTo, MappedStage, MappedClaims
  <2> QED
    BY <2>2 DEF Ledger!LedgerNext
<1> QED
  BY <1>3, <1>5, <1>6, <1>7, <1>8 DEF LegalMove

(* Every step of the engine is a step of the ledger or leaves it unchanged. *)
LEMMA LedgerMoves == TypeInv /\ [Next]_vars => [Ledger!LedgerNext]_(Ledger!ledger)
<1> SUFFICES ASSUME TypeInv, [Next]_vars
             PROVE  Ledger!LedgerNext \/ UNCHANGED <<MappedStage, MappedClaims>>
  BY DEF Ledger!ledger, MappedStage, MappedClaims
<1>1. CASE jobs' = jobs
  BY <1>1 DEF MappedStage, MappedClaims
<1>2. CASE Next /\ jobs' # jobs
  <2>1. ASSUME NEW j \in Jobs, AcknowledgeUncertainJob(j)
        PROVE  UNCHANGED <<MappedStage, MappedClaims>>
    BY <2>1, AcknowledgeWrites DEF MappedStage, MappedClaims
  <2> QED
    BY <1>2, <2>1, EveryWrite, RowMoves DEF OpenRowWritten
<1> QED
  BY <1>1, <1>2 DEF vars

(* Every behaviour of the engine, with crashes, overlapping runners, late    *)
(* fenced writes, reconcilers and operators, is a behaviour of the ledger of *)
(* jobs (store.js).                                                          *)
THEOREM EngineImplementsLedger == Spec => ImplementsLedger
<1>1. Spec => [][Ledger!LedgerNext]_(Ledger!ledger)
  BY LedgerMoves, TypeInvAlways, PTL DEF Spec
<1>2. Spec => Ledger!LedgerInit
  BY LedgerStarts DEF Spec
<1> QED
  BY <1>1, <1>2 DEF ImplementsLedger, Ledger!LedgerSpec

-----------------------------------------------------------------------------
(* Only Issue starts a command; every other step ends some or leaves them. *)
LEMMA FailEffectEnds ==
    ASSUME NEW e, Runs(e) \/ Ends(e) \/ FailEffect(e) PROVE pend' \subseteq pend
BY DEF Runs, Ends, FailEffect, AfterPend

LEMMA OthersStartNothing ==
    ASSUME NEW r \in Runners,
           TakeJob(r) \/ Fenced(r) \/ HonourCancel(r) \/ DeployStep(r) \/ RecoverStep(r)
             \/ LifecycleStep(r) \/ RecordStep(r) \/ ReconcileStep(r)
    PROVE  pend' \subseteq pend
<1>1. CASE TakeJob(r)
  BY <1>1 DEF TakeJob, ClaimNextJob, Busy, AcquireLock, TakeoverLock
<1>2. CASE Fenced(r) \/ HonourCancel(r)
  BY <1>2 DEF Fenced, HonourCancel
<1>3. CASE DeployStep(r)
  BY <1>3, FailEffectEnds
  DEF DeployStep, ReapCounted, ReapBlind, ReapAgain, PreviousWriterAlive, BuildDone, NoContract,
      BuildFailed, MarkStop, StopDone, MigrateDone, SwapDone, HealthDone, DeployStepFailed,
      HealthFailed, RestartUnitDone, ContainmentUnavailable
<1>4. CASE RecoverStep(r)
  BY <1>4, FailEffectEnds DEF RecoverStep, StatusDone, StartDone, ProbeDone
<1>5. CASE LifecycleStep(r)
  BY <1>5, FailEffectEnds
  DEF LifecycleStep, QueryDone, QueryFailed, MarkIssue, VerbDone, VerbFailed, ReadBack, AfterPend
<1>6. CASE RecordStep(r)
  BY <1>6 DEF RecordStep, QueueFollowUp, Finish, MarkStale, ReleaseLock
<1>7. CASE ReconcileStep(r)
  BY <1>7 DEF ReconcileStep, Reconcile, ReconcileFollow, ReconcileRecord, ReconcileLock
<1> QED
  BY <1>1, <1>2, <1>3, <1>4, <1>5, <1>6, <1>7

-----------------------------------------------------------------------------
(***************************************************************************)
(* One runner at a time (systemd's one unit, no overlap).  WorkerHoldsLease *)
(* is not inductive: an acknowledgement removes a flagged lease row, and a  *)
(* release, a reconciler or a takeover rewrites it.  The invariant adds     *)
(* that a runner keeps an unflagged lease from its acquisition to its       *)
(* release, and that a runner that is not up has nothing in hand.           *)
(***************************************************************************)
Engaged(r) == wk[r].pc \notin {"idle", "lease", "rc_follow", "rc_record", "rc_lock"}
OneUp == \A r, q \in Runners : proc[r] = "up" /\ proc[q] = "up" => r = q
DownIsIdle == \A r \in Runners : proc[r] # "up" => wk[r].pc = "idle"
EngagedHolds == \A r \in Runners : Engaged(r) => HoldsLease(r) /\ ~lock.stale
LeaseInv == OneUp /\ DownIsIdle /\ EngagedHolds

OnlyOwnRow(r) == \A q \in Runners \ {r} : wk'[q] = wk[q]
SameLease == lock'.owner = lock.owner /\ lock'.epoch = lock.epoch /\ lock'.stale = lock.stale

(* A step of the one live runner. *)
LEMMA RunnerStep ==
    ASSUME LeaseInv, NEW r \in Runners, proc[r] = "up", proc' = proc, OnlyOwnRow(r),
           Engaged(r)' => HoldsLease(r)' /\ ~lock'.stale
    PROVE  LeaseInv'
<1>1. OneUp'
  BY DEF LeaseInv, OneUp
<1>2. \A q \in Runners \ {r} : wk'[q].pc = "idle"
  BY DEF LeaseInv, OneUp, DownIsIdle, OnlyOwnRow
<1>3. DownIsIdle'
  BY <1>2 DEF DownIsIdle
<1>4. EngagedHolds'
  BY <1>2 DEF EngagedHolds, Engaged
<1> QED
  BY <1>1, <1>3, <1>4 DEF LeaseInv

(* One that moves on within its operation. *)
LEMMA EngagedStep ==
    ASSUME LeaseInv, NEW r \in Runners, proc[r] = "up", proc' = proc, OnlyOwnRow(r),
           Engaged(r), wk'[r].lockEpoch = wk[r].lockEpoch, SameLease
    PROVE  LeaseInv'
<1>1. HoldsLease(r)' /\ ~lock'.stale
  BY DEF LeaseInv, EngagedHolds, HoldsLease, SameLease
<1> QED
  BY <1>1, RunnerStep

(* The shapes of a move. *)
LEMMA MoveShape ==
    ASSUME WorkInv, NEW r \in Runners,
           \/ \E pc : Goto(r, pc)
           \/ \E status, outcome, owed : Settle(r, status, outcome, owed)
           \/ \E reap : Reaped(r, reap)
           \/ \E outcome : Exited(r, outcome)
    PROVE  OnlyOwnRow(r) /\ wk'[r].lockEpoch = wk[r].lockEpoch
<1>1. wk \in [Runners -> WorkRow] /\ wk[r] \in WorkRow
  BY DEF WorkInv, WorkTable
<1>2. ASSUME NEW pc, Goto(r, pc) PROVE OnlyOwnRow(r) /\ wk'[r].lockEpoch = wk[r].lockEpoch
  BY <1>1, <1>2 DEF Goto, OnlyOwnRow, WorkRow
<1>3. ASSUME NEW status, NEW outcome, NEW owed, Settle(r, status, outcome, owed)
      PROVE  OnlyOwnRow(r) /\ wk'[r].lockEpoch = wk[r].lockEpoch
  BY <1>1, <1>3 DEF Settle, OnlyOwnRow, WorkRow
<1>4. ASSUME NEW reap, Reaped(r, reap) PROVE OnlyOwnRow(r) /\ wk'[r].lockEpoch = wk[r].lockEpoch
  BY <1>1, <1>4 DEF Reaped, OnlyOwnRow, WorkRow
<1>5. ASSUME NEW outcome, Exited(r, outcome)
      PROVE  OnlyOwnRow(r) /\ wk'[r].lockEpoch = wk[r].lockEpoch
  BY <1>1, <1>5 DEF Exited, OnlyOwnRow, WorkRow
<1> QED
  BY <1>2, <1>3, <1>4, <1>5

(* A step that puts the runner back to idle. *)
LEMMA IdleStep ==
    ASSUME LeaseInv, WorkInv, NEW r \in Runners, proc[r] = "up", proc' = proc,
           wk' = [wk EXCEPT ![r] = Idle]
    PROVE  LeaseInv'
<1>1. OnlyOwnRow(r) /\ wk'[r].pc = "idle"
  BY DEF WorkInv, WorkTable, OnlyOwnRow, Idle
<1> QED
  BY <1>1, RunnerStep DEF Engaged

LEMMA TakeJobLease ==
    ASSUME TypeInv, LeaseInv, NEW r \in Runners, TakeJob(r)
    PROVE  LeaseInv'
<1>0. WorkInv /\ wk \in [Runners -> WorkRow] /\ wk[r] \in WorkRow /\ lock \in LockRow
  BY DEF TypeInv, WorkInv, WorkTable
<1>1. ASSUME NEW j \in Jobs, ClaimNextJob(r, j) PROVE LeaseInv'
  <2>1. proc[r] = "up" /\ proc' = proc
    BY <1>1 DEF ClaimNextJob, At
  <2>2. OnlyOwnRow(r) /\ wk'[r].pc = "lease"
    BY <1>0, <1>1 DEF ClaimNextJob, OnlyOwnRow, Idle
  <2> QED
    BY <2>1, <2>2, RunnerStep DEF Engaged
<1>2. CASE Busy(r)
  BY <1>0, <1>2, IdleStep DEF Busy, At
<1>3. CASE AcquireLock(r)
  <2>1. proc[r] = "up" /\ proc' = proc
    BY <1>3 DEF AcquireLock, At
  <2>2. OnlyOwnRow(r) /\ wk'[r].lockEpoch = IF lock.owner = NoOne THEN 1 ELSE lock.epoch
    BY <1>0, <1>3 DEF AcquireLock, OnlyOwnRow, WorkRow
  <2>3. HoldsLease(r)' /\ ~lock'.stale
    BY <1>0, <1>3, <2>2 DEF AcquireLock, HoldsLease, LockRow
  <2> QED
    BY <2>1, <2>2, <2>3, RunnerStep
<1>4. CASE TakeoverLock(r)
  <2>1. proc[r] = "up" /\ proc' = proc
    BY <1>4 DEF TakeoverLock, At
  <2>2. OnlyOwnRow(r) /\ wk'[r].lockEpoch = lock.epoch + 1
    BY <1>0, <1>4 DEF TakeoverLock, OnlyOwnRow, WorkRow
  <2>3. HoldsLease(r)' /\ ~lock'.stale
    BY <1>4, <2>2 DEF TakeoverLock, HoldsLease
  <2> QED
    BY <2>1, <2>2, <2>3, RunnerStep
<1> QED
  BY <1>1, <1>2, <1>3, <1>4 DEF TakeJob

LEMMA OperationLease ==
    ASSUME TypeInv, LeaseInv, NEW r \in Runners,
           \/ \E ph \in Phases : Issue(r, ph)
           \/ Fenced(r) \/ HonourCancel(r) \/ DeployStep(r) \/ RecoverStep(r) \/ LifecycleStep(r)
    PROVE  LeaseInv'
<1>0. WorkInv /\ wk \in [Runners -> WorkRow] /\ wk[r] \in WorkRow /\ lock \in LockRow
  BY DEF TypeInv, WorkInv, WorkTable
<1>p. ASSUME NEW pc \in Phases \cup {"mark_stop", "mark_issue"}, At(r, pc) \/ Awaits(r, pc)
      PROVE  proc[r] = "up" /\ Engaged(r)
  BY <1>p DEF At, Awaits, Engaged, Phases, Contained
<1>s. lock' = lock => SameLease
  BY DEF SameLease
<1>1. ASSUME NEW ph \in Phases, Issue(r, ph) PROVE LeaseInv'
  <2>1. OnlyOwnRow(r) /\ wk'[r].lockEpoch = wk[r].lockEpoch
    BY <1>0, <1>1 DEF Issue, OnlyOwnRow, WorkRow
  <2>2. SameLease
    BY <1>0, <1>1 DEF Issue, RenewLock, SameLease, LockRow
  <2>3. proc[r] = "up" /\ Engaged(r) /\ proc' = proc
    BY <1>1, <1>p DEF Issue
  <2> QED
    BY <2>1, <2>2, <2>3, EngagedStep
<1>2. CASE Fenced(r)
  <2>1. OnlyOwnRow(r) /\ wk'[r].lockEpoch = wk[r].lockEpoch
    BY <1>0, <1>2 DEF Fenced, OnlyOwnRow, WorkRow
  <2>2. proc[r] = "up" /\ Engaged(r) /\ proc' = proc /\ SameLease
    BY <1>2, <1>p, <1>s DEF Fenced
  <2> QED
    BY <2>1, <2>2, EngagedStep
<1>3. CASE HonourCancel(r)
  <2>1. OnlyOwnRow(r) /\ wk'[r].lockEpoch = wk[r].lockEpoch
    BY <1>0, <1>3, MoveShape DEF HonourCancel
  <2>2. proc[r] = "up" /\ Engaged(r) /\ proc' = proc /\ SameLease
    BY <1>3, <1>p, <1>s DEF HonourCancel, SafePhases, Phases, Contained
  <2> QED
    BY <2>1, <2>2, EngagedStep
<1>4. CASE DeployStep(r)
  <2>1. proc[r] = "up" /\ Engaged(r) /\ proc' = proc /\ SameLease
    BY <1>4, <1>s
    DEF DeployStep, ReapCounted, ReapBlind, ReapAgain, PreviousWriterAlive, BuildDone, NoContract,
        BuildFailed, MarkStop, StopDone, MigrateDone, SwapDone, HealthDone, DeployStepFailed,
        HealthFailed, RestartUnitDone, ContainmentUnavailable, At, Awaits, Engaged, Contained
  <2>2. CASE ReapAgain(r) \/ PreviousWriterAlive(r)
    <3>1. OnlyOwnRow(r) /\ wk'[r].lockEpoch = wk[r].lockEpoch
      BY <1>0, <2>2 DEF ReapAgain, PreviousWriterAlive, OnlyOwnRow, WorkRow
    <3> QED
      BY <2>1, <3>1, EngagedStep
  <2>3. CASE ~(ReapAgain(r) \/ PreviousWriterAlive(r))
    <3>1. OnlyOwnRow(r) /\ wk'[r].lockEpoch = wk[r].lockEpoch
      BY <1>0, <1>4, <2>3, MoveShape
      DEF DeployStep, ReapCounted, ReapBlind, BuildDone, NoContract,
          BuildFailed, MarkStop, StopDone, MigrateDone, SwapDone, HealthDone, DeployStepFailed,
          HealthFailed, RestartUnitDone, ContainmentUnavailable
    <3> QED
      BY <2>1, <3>1, EngagedStep
  <2> QED
    BY <2>2, <2>3
<1>5. CASE RecoverStep(r)
  <2>1. proc[r] = "up" /\ Engaged(r) /\ proc' = proc /\ SameLease
    BY <1>5, <1>s DEF RecoverStep, StatusDone, StartDone, ProbeDone, Awaits, Engaged
  <2>2. OnlyOwnRow(r) /\ wk'[r].lockEpoch = wk[r].lockEpoch
    BY <1>0, <1>5, MoveShape DEF RecoverStep, StatusDone, StartDone, ProbeDone
  <2> QED
    BY <2>1, <2>2, EngagedStep
<1>6. CASE LifecycleStep(r)
  <2>1. proc[r] = "up" /\ Engaged(r) /\ proc' = proc /\ SameLease
    BY <1>6, <1>s DEF LifecycleStep, QueryDone, QueryFailed, MarkIssue, VerbDone, VerbFailed,
                      ReadBack, At, Awaits, Engaged
  <2>2. OnlyOwnRow(r) /\ wk'[r].lockEpoch = wk[r].lockEpoch
    BY <1>0, <1>6, MoveShape DEF LifecycleStep, QueryDone, QueryFailed, MarkIssue, VerbDone,
                                 VerbFailed, ReadBack
  <2> QED
    BY <2>1, <2>2, EngagedStep
<1> QED
  BY <1>1, <1>2, <1>3, <1>4, <1>5, <1>6

LEMMA RecordLease ==
    ASSUME TypeInv, LeaseInv, NEW r \in Runners, RecordStep(r)
    PROVE  LeaseInv'
<1>0. WorkInv
  BY DEF TypeInv
<1>1. CASE QueueFollowUp(r) \/ Finish(r)
  <2>1. proc[r] = "up" /\ Engaged(r) /\ proc' = proc /\ SameLease
    BY <1>1 DEF QueueFollowUp, Finish, At, Engaged, SameLease
  <2>2. OnlyOwnRow(r) /\ wk'[r].lockEpoch = wk[r].lockEpoch
    BY <1>0, <1>1, MoveShape DEF QueueFollowUp, Finish
  <2> QED
    BY <2>1, <2>2, EngagedStep
<1>2. CASE MarkStale(r) \/ ReleaseLock(r)
  BY <1>0, <1>2, IdleStep DEF MarkStale, ReleaseLock, At
<1> QED
  BY <1>1, <1>2 DEF RecordStep

LEMMA ReconcileLease ==
    ASSUME TypeInv, LeaseInv, NEW r \in Runners, ReconcileStep(r)
    PROVE  LeaseInv'
<1>0. WorkInv /\ wk \in [Runners -> WorkRow] /\ wk[r] \in WorkRow
  BY DEF TypeInv, WorkInv, WorkTable
<1>1. CASE ReconcileLock(r)
  BY <1>0, <1>1, IdleStep DEF ReconcileLock, At
<1>2. ASSUME NEW j \in Jobs, Reconcile(r, j) PROVE LeaseInv'
  <2>1. OnlyOwnRow(r) /\ wk'[r] = Read(j, ReconcileDecision(jobs[j].cp))
    BY <1>0, <1>2 DEF Reconcile, OnlyOwnRow
  <2>2. wk'[r].pc \in {"rc_follow", "rc_record"}
    BY <2>1 DEF Read, Idle
  <2> QED
    BY <1>2, <2>1, <2>2, RunnerStep DEF Reconcile, At, Engaged
<1>3. CASE ReconcileFollow(r)
  <2>1. OnlyOwnRow(r) /\ wk'[r].pc = "rc_record"
    BY <1>0, <1>3 DEF ReconcileFollow, OnlyOwnRow, WorkRow
  <2> QED
    BY <1>3, <2>1, RunnerStep DEF ReconcileFollow, At, Engaged
<1>4. CASE ReconcileRecord(r)
  <2>1. OnlyOwnRow(r) /\ wk'[r].pc = "rc_lock"
    BY <1>0, <1>4 DEF ReconcileRecord, Goto, OnlyOwnRow, WorkRow
  <2> QED
    BY <1>4, <2>1, RunnerStep DEF ReconcileRecord, At, Engaged
<1> QED
  BY <1>1, <1>2, <1>3, <1>4 DEF ReconcileStep

(* What happens outside the runner: processes, time, the guest, requests. *)
LEMMA EnvironmentLease ==
    ASSUME TypeInv, LeaseInv, wk' = wk, proc' = proc, SameLease
    PROVE  LeaseInv'
BY DEF LeaseInv, OneUp, DownIsIdle, EngagedHolds, Engaged, HoldsLease, SameLease

LEMMA LeaseInvInit == Init => LeaseInv
BY DEF Init, LeaseInv, OneUp, DownIsIdle, EngagedHolds, Engaged, Idle

LEMMA LeaseInvNext ==
    ASSUME Overlap = FALSE
    PROVE  TypeInv /\ LeaseInv /\ [Next]_vars => LeaseInv'
<1> SUFFICES ASSUME TypeInv, LeaseInv, [Next]_vars PROVE LeaseInv'
  OBVIOUS
<1>1. ASSUME NEW r \in Runners, Start(r) PROVE LeaseInv'
  <2>1. \A q \in Runners : proc'[q] = IF q = r THEN "up" ELSE proc[q]
    BY <1>1 DEF Start, TypeInv
  <2>2. \A q \in Runners : proc[q] # "up"
    BY <1>1 DEF Start
  <2> QED
    BY <1>1, <2>1, <2>2
    DEF Start, LeaseInv, OneUp, DownIsIdle, EngagedHolds, Engaged, HoldsLease
<1>2. ASSUME NEW r \in Runners, Crash(r) PROVE LeaseInv'
  <2>1. \A q \in Runners : proc'[q] = IF q = r THEN "dead" ELSE proc[q]
    BY <1>2 DEF Crash, TypeInv
  <2>2. /\ wk'[r].pc = "idle"
        /\ \A q \in Runners \ {r} : wk'[q] = wk[q]
    BY <1>2 DEF Crash, TypeInv, WorkInv, WorkTable, Idle
  <2> QED
    BY <1>2, <2>1, <2>2
    DEF Crash, LeaseInv, OneUp, DownIsIdle, EngagedHolds, Engaged, HoldsLease
<1>3. ASSUME NEW r \in Runners, ExecutorStep(r) PROVE LeaseInv'
  BY <1>3, TakeJobLease, OperationLease, RecordLease DEF ExecutorStep
<1>4. ASSUME NEW r \in Runners, ReconcileStep(r) PROVE LeaseInv'
  BY <1>4, ReconcileLease
<1>5. ASSUME NEW j \in Jobs, ExpireJob(j) PROVE LeaseInv'
  BY <1>5, EnvironmentLease DEF ExpireJob, SameLease
<1>6. CASE ExpireLock
  <2>1. SameLease
    BY <1>6 DEF ExpireLock, SameLease, TypeInv, LockRow
  <2> QED
    BY <1>6, <2>1, EnvironmentLease DEF ExpireLock
<1>7. ASSUME NEW e \in pend, OrphanRuns(e) PROVE LeaseInv'
  BY <1>7, EnvironmentLease DEF OrphanRuns, SameLease
<1>8. CASE SubmitDeploy \/ RequestRecovery \/ SubmitRestart
  BY <1>8, EnvironmentLease DEF SubmitDeploy, RequestRecovery, SubmitRestart, SameLease
<1>9. ASSUME NEW j \in Jobs, Retry(j) \/ RequestCancel(j) PROVE LeaseInv'
  BY <1>9, EnvironmentLease DEF Retry, RequestCancel, SameLease
<1>10. ASSUME NEW j \in Jobs, AcknowledgeUncertainJob(j) PROVE LeaseInv'
  <2>1. CASE lock.stale
    BY <1>10, <2>1
    DEF AcknowledgeUncertainJob, LeaseInv, OneUp, DownIsIdle, EngagedHolds, Engaged
  <2>2. CASE ~lock.stale
    BY <1>10, <2>2, EnvironmentLease DEF AcknowledgeUncertainJob, SameLease
  <2> QED
    BY <2>1, <2>2
<1>11. CASE UNCHANGED vars
  BY <1>11, EnvironmentLease DEF vars, SameLease
<1> QED
  BY <1>1, <1>2, <1>3, <1>4, <1>5, <1>6, <1>7, <1>8, <1>9, <1>10, <1>11 DEF Next, OperatorStep

LEMMA LeaseInvAlways ==
    ASSUME Overlap = FALSE
    PROVE  Spec => []LeaseInv
BY TypeInvAlways, LeaseInvInit, LeaseInvNext, PTL DEF Spec

LEMMA WorkingIsEngaged == ASSUME NEW r, Working(r) PROVE Engaged(r)
BY DEF Working, Engaged, Phases, Contained

(* Where one runner runs at a time, a worker on the guest holds the         *)
(* application's lease at the epoch it acquired, through crashes, expiries, *)
(* takeovers, reconciles and acknowledgements (store.js acquireLock,        *)
(* takeoverLock, releaseLock; executor.js executeJob).                      *)
THEOREM WorkUnderLease ==
    ASSUME Overlap = FALSE
    PROVE  Spec => []WorkerHoldsLease
<1>1. LeaseInv => WorkerHoldsLease
  BY WorkingIsEngaged DEF LeaseInv, EngagedHolds, WorkerHoldsLease
<1> QED
  BY <1>1, LeaseInvAlways, PTL

(* Where one runner runs at a time, nobody works on a guest that is held    *)
(* for an uncertain restart (store.js leaseHold; executor.js executeJob).   *)
THEOREM HoldExcludesWork ==
    ASSUME Overlap = FALSE
    PROVE  Spec => []HeldGuestUntouched
<1>1. LeaseInv => HeldGuestUntouched
  BY WorkingIsEngaged DEF LeaseInv, EngagedHolds, HeldGuestUntouched, LeaseHold
<1> QED
  BY <1>1, LeaseInvAlways, PTL

-----------------------------------------------------------------------------
(***************************************************************************)
(* The hold.  The record it points at is terminal, so its row stands; the  *)
(* row of the lease is rewritten only by a worker, which a flagged row     *)
(* does not have, by a job that found no hold, or by an acknowledgement.   *)
(***************************************************************************)
HoldStands ==
    LeaseHold =>
        \/ LeaseHold' /\ lock'.rec = lock.rec
        \/ jobs'[lock.rec].outcome = "interrupted_uncertain_acknowledged"
        \/ \E r \in Runners : ReconcileLock(r)
SameHold == lock'.owner = lock.owner /\ lock'.stale = lock.stale /\ lock'.rec = lock.rec

LEMMA HeldRow ==
    ASSUME TypeInv, LeaseHold PROVE lock.rec \in Jobs /\ IsTerminal(lock.rec)
BY DEF TypeInv, LockRow, LeaseHold, IsTerminal, TERMINAL_STATUS

LEMMA SameHoldStands ==
    ASSUME TypeInv, OpenRowWritten, SameHold PROVE HoldStands
<1> SUFFICES ASSUME LeaseHold PROVE LeaseHold' /\ lock'.rec = lock.rec
  BY DEF HoldStands
<1>1. jobs'[lock.rec] = jobs[lock.rec]
  BY HeldRow DEF OpenRowWritten
<1> QED
  BY <1>1 DEF LeaseHold, SameHold

LEMMA ExecutorHold ==
    ASSUME TypeInv, LeaseInv, NEW r \in Runners, ExecutorStep(r) PROVE HoldStands
<1>0. OpenRowWritten
  BY ExecutorWrites
<1>l. lock' = lock => SameHold
  BY DEF SameHold
<1>e. Engaged(r) => ~LeaseHold
  BY DEF LeaseInv, EngagedHolds, LeaseHold
<1>1. CASE TakeJob(r)
  <2>1. CASE AcquireLock(r) \/ TakeoverLock(r)
    BY <2>1 DEF AcquireLock, TakeoverLock, HoldStands
  <2>2. CASE Busy(r) \/ \E j \in Jobs : ClaimNextJob(r, j)
    BY <2>2, <1>0, <1>l, SameHoldStands DEF Busy, ClaimNextJob
  <2> QED
    BY <1>1, <2>1, <2>2 DEF TakeJob
<1>2. ASSUME NEW ph \in Phases, Issue(r, ph) PROVE HoldStands
  <2>1. SameHold
    BY <1>2 DEF Issue, RenewLock, SameHold, TypeInv, LockRow
  <2> QED
    BY <2>1, <1>0, SameHoldStands
<1>3. CASE Fenced(r) \/ HonourCancel(r)
  BY <1>3, <1>0, <1>l, SameHoldStands DEF Fenced, HonourCancel
<1>4. CASE DeployStep(r)
  <2>1. lock' = lock
    BY <1>4
    DEF DeployStep, ReapCounted, ReapBlind, ReapAgain, PreviousWriterAlive, BuildDone, NoContract,
        BuildFailed, MarkStop, StopDone, MigrateDone, SwapDone, HealthDone, DeployStepFailed,
        HealthFailed, RestartUnitDone, ContainmentUnavailable
  <2> QED
    BY <2>1, <1>0, <1>l, SameHoldStands
<1>5. CASE RecoverStep(r)
  BY <1>5, <1>0, <1>l, SameHoldStands DEF RecoverStep, StatusDone, StartDone, ProbeDone
<1>6. CASE LifecycleStep(r)
  BY <1>6, <1>0, <1>l, SameHoldStands
  DEF LifecycleStep, QueryDone, QueryFailed, MarkIssue, VerbDone, VerbFailed, ReadBack
<1>7. CASE RecordStep(r)
  <2>1. CASE QueueFollowUp(r) \/ Finish(r)
    BY <2>1, <1>0, <1>l, SameHoldStands DEF QueueFollowUp, Finish
  <2>2. CASE MarkStale(r) \/ ReleaseLock(r)
    BY <2>2, <1>e DEF MarkStale, ReleaseLock, At, Engaged, HoldStands
  <2> QED
    BY <1>7, <2>1, <2>2 DEF RecordStep
<1> QED
  BY <1>1, <1>2, <1>3, <1>4, <1>5, <1>6, <1>7 DEF ExecutorStep

LEMMA ReconcileHold ==
    ASSUME TypeInv, NEW r \in Runners, ReconcileStep(r) PROVE HoldStands
<1>1. CASE ReconcileLock(r)
  BY <1>1 DEF HoldStands
<1>2. CASE ReconcileFollow(r) \/ ReconcileRecord(r) \/ \E j \in Jobs : Reconcile(r, j)
  <2>1. SameHold
    BY <1>2 DEF ReconcileFollow, ReconcileRecord, Reconcile, SameHold
  <2> QED
    BY <2>1, ReconcileWrites, SameHoldStands
<1> QED
  BY <1>1, <1>2 DEF ReconcileStep

LEMMA OperatorHold ==
    ASSUME TypeInv, OperatorStep PROVE HoldStands
<1> SUFFICES ASSUME LeaseHold PROVE HoldStands
  BY DEF HoldStands
<1>1. ASSUME NEW j \in Jobs, AcknowledgeUncertainJob(j) PROVE HoldStands
  <2>1. CASE lock.rec = j
    <3>1. jobs'[j].outcome = "interrupted_uncertain_acknowledged"
      BY <1>1 DEF AcknowledgeUncertainJob, TypeInv, JobTable, JobRow
    <3> QED
      BY <2>1, <3>1 DEF HoldStands
  <2>2. CASE lock.rec # j
    <3>1. lock' = lock /\ jobs'[lock.rec] = jobs[lock.rec]
      BY <1>1, <2>2, HeldRow DEF AcknowledgeUncertainJob, TypeInv, JobTable
    <3> QED
      BY <3>1 DEF HoldStands, LeaseHold
  <2> QED
    BY <2>1, <2>2
<1>2. CASE OpenRowWritten /\ ~\E j \in Jobs : AcknowledgeUncertainJob(j)
  <2>1. ASSUME SubmitDeploy \/ RequestRecovery \/ SubmitRestart PROVE lock' = lock
    BY <2>1 DEF SubmitDeploy, RequestRecovery, SubmitRestart
  <2>2. ASSUME NEW j \in Jobs, Retry(j) \/ RequestCancel(j) PROVE lock' = lock
    BY <2>2 DEF Retry, RequestCancel
  <2>3. lock' = lock
    BY <1>2, <2>1, <2>2 DEF OperatorStep
  <2> QED
    BY <1>2, <2>3, SameHoldStands DEF SameHold
<1> QED
  BY <1>1, <1>2, OperatorWrites

(* Where one runner runs at a time, a guest held for an uncertain restart   *)
(* stays held by the same record until that record is acknowledged, except  *)
(* for the last write of a reconciler (store.js leaseHold, acquireLock,     *)
(* releaseLock, clearStaleLock).                                            *)
THEOREM HoldStaysUp ==
    ASSUME Overlap = FALSE
    PROVE  Spec => HoldKept
<1>1. TypeInv /\ LeaseInv /\ [Next]_vars => [HoldStands]_vars
  <2> SUFFICES ASSUME TypeInv, LeaseInv, Next PROVE HoldStands
    BY DEF HoldStands, vars
  <2>1. ASSUME NEW r \in Runners, Start(r) \/ Crash(r) PROVE HoldStands
    BY <2>1, SameHoldStands DEF Start, Crash, OpenRowWritten, SameHold
  <2>2. ASSUME NEW r \in Runners, ExecutorStep(r) \/ ReconcileStep(r) PROVE HoldStands
    BY <2>2, ExecutorHold, ReconcileHold
  <2>3. ASSUME NEW j \in Jobs, ExpireJob(j) PROVE HoldStands
    <3>1. SameHold
      BY <2>3 DEF ExpireJob, SameHold
    <3> QED
      BY <2>3, <3>1, ExpireJobWrites, SameHoldStands
  <2>4. CASE ExpireLock
    <3>1. SameHold
      BY <2>4 DEF ExpireLock, SameHold, TypeInv, LockRow
    <3> QED
      BY <2>4, <3>1, SameHoldStands DEF ExpireLock, OpenRowWritten
  <2>5. CASE \E e \in pend : OrphanRuns(e)
    BY <2>5, SameHoldStands DEF OrphanRuns, OpenRowWritten, SameHold
  <2>6. CASE OperatorStep
    BY <2>6, OperatorHold
  <2> QED
    BY <2>1, <2>2, <2>3, <2>4, <2>5, <2>6 DEF Next
<1>2. Spec => [][HoldStands]_vars
  BY <1>1, TypeInvAlways, LeaseInvAlways, PTL DEF Spec
<1> QED
  BY <1>2 DEF HoldStands, HoldKept
=============================================================================
