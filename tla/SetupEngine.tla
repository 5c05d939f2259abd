----------------------------- MODULE SetupEngine -----------------------------
(***************************************************************************)
(* The setup engine of ProxyPilot for one application guest: the saved     *)
(* jobs and the application's lease (store.js, logic.js), the executor     *)
(* that claims a job, takes the lease and works on the guest (executor.js, *)
(* deploy-op.js, lifecycle-op.js), the reconciler that settles the jobs of *)
(* dead runners, and the operator's requests (orchestrator.js, backend.js, *)
(* routes/setup.js).  The executors are host runner processes              *)
(* (cli/src/setup-runner); each incarnation has an identity of its own.    *)
(*                                                                         *)
(* Time is abstract: a lease is live or expired, and it expires while its  *)
(* holder is dead, idle, or waiting for a command it started.  A process   *)
(* may die between any two of its database writes.                         *)
(***************************************************************************)
EXTENDS Naturals, FiniteSets

CONSTANTS
    Runners,      \* incarnations of the host runner, each a distinct owner
    NoOne,        \* owner of an unclaimed job and of an absent lease row
    MaxJobs,      \* bound: rows of setup_jobs
    MaxRequests,  \* bound: rows an operator asks for (the rest are follow-ups)
    MaxEpoch,     \* bound: claims of one job
    Requests,     \* what an operator may ask for
    Overlap,      \* TRUE: a second runner process may start beside a live one
    Guarded       \* TRUE: a managed application with a data guard

ASSUME RunnersAssumption == NoOne \notin Runners
ASSUME BoundsAssumption == MaxJobs \in Nat /\ MaxRequests \in Nat /\ MaxEpoch \in Nat
ASSUME FlagsAssumption == Overlap \in BOOLEAN /\ Guarded \in BOOLEAN
ASSUME RequestsAssumption ==
    Requests \subseteq {"deploy", "recover_app", "instance_restart", "retry", "cancel"}

VARIABLES
    proc,    \* runner process: off (not started), up, dead
    wk,      \* what a live runner is doing
    jobs,    \* the rows of setup_jobs
    lock,    \* the application's row of setup_locks
    app,     \* the application's unit in the guest: up or down
    downBy,  \* history: the job whose command last took it down, 0 if none
    pend,    \* commands started in the guest (or on it) and not ended
    issued   \* history: how often each job issued its lifecycle verb

vars == <<proc, wk, jobs, lock, app, downBy, pend, issued>>

Jobs == 1..MaxJobs

(* logic.js: the kinds, what they do to a guest, and how a job ends. *)
Kinds == {"deploy", "recover_app", "verify_app", "instance_restart"}
MUTATING_JOB_KINDS == {"deploy", "recover_app", "instance_restart"}
EXCLUSIVE_JOB_KINDS == {"instance_restart"}
LIFECYCLE_JOB_KINDS == {"instance_restart"}
TERMINAL_STATUS ==
    {"succeeded", "failed", "deferred", "refused", "recovery_required", "cancelled"}
JOB_STATUS == TERMINAL_STATUS \cup {"none", "queued", "running"}
Outcomes ==
    {"none", "cancelled", "runner_unavailable", "lock_held", "lock_stale", "skipped",
     "serving", "restarted", "step_failed", "not_serving", "verified", "interrupted",
     "interrupted_unverified", "interrupted_after_stop", "interrupted_uncertain",
     "interrupted_uncertain_acknowledged", "containment_unavailable",
     "previous_writer_alive"}

(***************************************************************************)
(* checkpoint_json, reduced to what reconcileDecision reads.               *)
(***************************************************************************)
Flags == [app_stopped : BOOLEAN, disruptive : BOOLEAN, resumable : BOOLEAN,
          unit_swapped : BOOLEAN, verification_state : BOOLEAN,
          lifecycle : BOOLEAN]
NoCheckpoint == [app_stopped |-> FALSE, disruptive |-> FALSE, resumable |-> FALSE,
                 unit_swapped |-> FALSE, verification_state |-> FALSE,
                 lifecycle |-> FALSE]

JobRow == [kind : Kinds, status : JOB_STATUS, outcome : Outcomes,
           owner : Runners \cup {NoOne}, epoch : Nat, live : BOOLEAN,
           cancel : BOOLEAN,          \* progress.cancel_requested
           wait : BOOLEAN,            \* progress.not_before
           origin : Jobs \cup {0},    \* plan.params.origin.jobId
           asked : BOOLEAN,           \* requested by an operator, not a follow-up
           cp : Flags]

LockRow == [owner : Runners \cup {NoOne}, epoch : Nat, live : BOOLEAN,
            stale : BOOLEAN,          \* stale_since
            rec : Jobs \cup {0}]      \* recovery_job_id
NoLock == [owner |-> NoOne, epoch |-> 0, live |-> FALSE, stale |-> FALSE, rec |-> 0]

(***************************************************************************)
(* A runner's local state.  Phases are the commands of the operations; in  *)
(* a phase the runner is about to issue the command or, with await, waits  *)
(* for its result.                                                         *)
(***************************************************************************)
Contained == {"build", "stop", "migrate", "swap", "health", "restart_unit"}
Phases == Contained \cup {"reap", "status", "start", "probe", "query", "verb", "readback"}
Control == {"idle", "lease", "mark_stop", "mark_issue", "followup", "finish",
            "mark_stale", "release", "rc_follow", "rc_record", "rc_lock"}
Actions == {"none", "resume", "record_uncertain", "verify", "record_interrupted", "recover"}

WorkRow == [pc : Phases \cup Control, await : BOOLEAN, job : Jobs \cup {0},
            epoch : Nat, lockEpoch : Nat,
            reap : {"none", "again", "counted", "blind"},
            status : TERMINAL_STATUS,         \* what the operation ends as:
            outcome : Outcomes,               \* failed, until it says otherwise
            keep : BOOLEAN,
            act : Actions,                    \* reconcile: the decision,
            dead : Runners \cup {NoOne},      \* the job's owner as read,
            mine : BOOLEAN,                   \* whether it held the lease,
            follow : Jobs \cup {0}]           \* and the recovery job
Idle == [pc |-> "idle", await |-> FALSE, job |-> 0, epoch |-> 0, lockEpoch |-> 0,
         reap |-> "none", status |-> "failed", outcome |-> "none",
         keep |-> FALSE, act |-> "none", dead |-> NoOne, mine |-> FALSE, follow |-> 0]

Commands == [job : Jobs, cmd : Phases]

(* The types of rows, processes and commands; a reconciler at work has a      *)
(* decision it can carry out (executor.js, reconcile).                       *)
TypeOK ==
    /\ proc \in [Runners -> {"off", "up", "dead"}]
    /\ wk \in [Runners -> WorkRow]
    /\ jobs \in [Jobs -> JobRow]
    /\ lock \in LockRow
    /\ app \in {"up", "down"}
    /\ downBy \in Jobs \cup {0}
    /\ pend \subseteq Commands
    /\ issued \in [Jobs -> Nat]

NoJob == [kind |-> "deploy", status |-> "none", outcome |-> "none", owner |-> NoOne,
          epoch |-> 0, live |-> FALSE, cancel |-> FALSE, wait |-> FALSE,
          origin |-> 0, asked |-> FALSE, cp |-> NoCheckpoint]

Init ==
    /\ proc = [r \in Runners |-> "off"]
    /\ wk = [r \in Runners |-> Idle]
    /\ jobs = [j \in Jobs |-> NoJob]
    /\ lock = NoLock
    /\ app = "up"
    /\ downBy = 0
    /\ pend = {}
    /\ issued = [j \in Jobs |-> 0]

-----------------------------------------------------------------------------
(* The store (store.js). *)

IsOpen(j) == jobs[j].status \in {"queued", "running"}
IsTerminal(j) == jobs[j].status \in TERMINAL_STATUS

(* createJob inserts the next row, queued. *)
NextRow(j) == /\ jobs[j].status = "none"
              /\ \A k \in Jobs : k < j => jobs[k].status # "none"
NewJob(kind, origin, asked) ==
    [NoJob EXCEPT !.kind = kind, !.status = "queued", !.origin = origin, !.asked = asked]

(* A fenced write changes the row only for the claim that is current. *)
Claimed(r) == /\ wk[r].job \in Jobs
              /\ jobs[wk[r].job].status = "running"
              /\ jobs[wk[r].job].owner = r
              /\ jobs[wk[r].job].epoch = wk[r].epoch
HoldsLease(r) == lock.owner = r /\ lock.epoch = wk[r].lockEpoch

(* What each checkpoint of the operations merges into checkpoint_json; a key *)
(* it does not name keeps its value.                                         *)
Merge(name, cp) ==
    CASE name \in {"reap_previous_writer", "unit_status", "probe_port"} ->
           [cp EXCEPT !.resumable = TRUE]
      [] name = "starting" -> [cp EXCEPT !.app_stopped = FALSE, !.resumable = TRUE]
      [] name \in {"stopping_app", "migrating"} ->
           [cp EXCEPT !.app_stopped = TRUE, !.resumable = FALSE, !.disruptive = TRUE]
      [] name = "unit_written" -> [cp EXCEPT !.app_stopped = TRUE, !.unit_swapped = TRUE]
      [] name = "app_started" -> [cp EXCEPT !.app_stopped = FALSE, !.unit_swapped = TRUE]
      [] name = "deploy_verified" -> [cp EXCEPT !.app_stopped = FALSE, !.verification_state = TRUE]
      [] name = "restart_served" -> [cp EXCEPT !.app_stopped = FALSE]
      [] name = "restart_not_served" -> [cp EXCEPT !.app_stopped = TRUE]
      [] name = "start_unit" -> [cp EXCEPT !.resumable = TRUE, !.disruptive = FALSE]
      [] name \in {"validated", "lifecycle_verified"} ->
           [cp EXCEPT !.lifecycle = TRUE, !.resumable = TRUE, !.disruptive = FALSE]
      [] name = "issuing" ->
           [cp EXCEPT !.lifecycle = TRUE, !.resumable = FALSE, !.disruptive = TRUE]

(* checkpoint: merge and renew the job's lease, fenced. *)
Checkpoint(r, name) ==
    jobs' = IF Claimed(r)
            THEN [jobs EXCEPT ![wk[r].job].cp = Merge(name, @), ![wk[r].job].live = TRUE]
            ELSE jobs

(* heartbeat and renewLock, the two renewals of a fence.  The executor does *)
(* not look at whether renewLock changed a row.                             *)
RenewLock(r) == lock' = IF HoldsLease(r) THEN [lock EXCEPT !.live = TRUE] ELSE lock

(* finishJob: terminal, fenced. *)
FinishJob(r, status, outcome) ==
    jobs' = IF Claimed(r)
            THEN [jobs EXCEPT ![wk[r].job].status = status, ![wk[r].job].outcome = outcome,
                              ![wk[r].job].live = FALSE]
            ELSE jobs

(* requeueJob: unfenced, running rows only. *)
RequeueJob(j, wait) ==
    jobs' = IF jobs[j].status = "running"
            THEN [jobs EXCEPT ![j].status = "queued", ![j].owner = NoOne,
                              ![j].live = FALSE, ![j].wait = wait]
            ELSE jobs

(* Faulty variant: writes whatever the row's status is by now. *)
RecordAnyOutcome(j, status, outcome) ==
    jobs' = [jobs EXCEPT ![j].status = status, ![j].outcome = outcome, ![j].live = FALSE]

(* recordJobOutcome: the reconciler's unfenced write about a dead owner. *)
RecordJobOutcome(j, status, outcome) ==
    jobs' = IF jobs[j].status = "running"
            THEN [jobs EXCEPT ![j].status = status, ![j].outcome = outcome, ![j].live = FALSE]
            ELSE jobs

(* markLockStale flags whatever row is there, whoever holds it. *)
MarkLockStale(rec) ==
    lock' = IF lock.owner = NoOne THEN lock
            ELSE [lock EXCEPT !.stale = TRUE, !.rec = IF rec = 0 THEN @ ELSE rec]

(* holdStaleLock writes the row in the dead owner's name when none is left. *)
HoldStaleLock(owner, epoch, rec) ==
    IF lock.owner = NoOne
    THEN lock' = [owner |-> owner, epoch |-> epoch, live |-> FALSE, stale |-> TRUE, rec |-> rec]
    ELSE MarkLockStale(rec)

(* leaseHold: the lease records an uncertain lifecycle verb. *)
LeaseHold == /\ lock.owner # NoOne
             /\ lock.stale
             /\ lock.rec # 0
             /\ jobs[lock.rec].kind \in LIFECYCLE_JOB_KINDS
             /\ jobs[lock.rec].status = "recovery_required"
             /\ jobs[lock.rec].outcome = "interrupted_uncertain"

-----------------------------------------------------------------------------
(* Runner processes (setup-runner.js, runner.js). *)

(* systemd keeps one runner; a manual `setup-runner once` may run beside it. *)
Start(r) ==
    /\ proc[r] = "off"
    /\ Overlap \/ \A q \in Runners : proc[q] # "up"
    /\ proc' = [proc EXCEPT ![r] = "up"]
    /\ UNCHANGED <<wk, jobs, lock, app, downBy, pend, issued>>

(* Bound: the last incarnation stays up.  What the runner had started in    *)
(* the guest runs on.                                                       *)
Crash(r) ==
    /\ proc[r] = "up"
    /\ \E q \in Runners : proc[q] = "off"
    /\ proc' = [proc EXCEPT ![r] = "dead"]
    /\ wk' = [wk EXCEPT ![r] = Idle]
    /\ UNCHANGED <<jobs, lock, app, downBy, pend, issued>>

At(r, pc) == proc[r] = "up" /\ wk[r].pc = pc /\ ~wk[r].await
Awaits(r, pc) == proc[r] = "up" /\ wk[r].pc = pc /\ wk[r].await

(* A lease lapses while nobody renews it: the holder is gone, idle (a lease *)
(* it kept), or waiting for a command.                                      *)
Unrenewed(r) == proc[r] # "up" \/ wk[r].await \/ wk[r].pc = "idle"

ExpireJob(j) ==
    /\ jobs[j].status = "running" /\ jobs[j].live
    /\ jobs[j].owner \in Runners /\ Unrenewed(jobs[j].owner)
    /\ jobs' = [jobs EXCEPT ![j].live = FALSE]
    /\ UNCHANGED <<proc, wk, lock, app, downBy, pend, issued>>

ExpireLock ==
    /\ lock.live
    /\ lock.owner \in Runners /\ Unrenewed(lock.owner)
    /\ lock' = [lock EXCEPT !.live = FALSE]
    /\ UNCHANGED <<proc, wk, jobs, app, downBy, pend, issued>>

-----------------------------------------------------------------------------
(* Taking a job and the application's lease (store.js, executor.js). *)

(* Faulty variant: a claim does not advance the job's epoch. *)
ClaimAtOldEpoch(r, j) ==
    /\ At(r, "idle")
    /\ jobs[j].status = "queued"
    /\ \A k \in Jobs : (k < j /\ jobs[k].status = "queued") => jobs[k].wait
    /\ jobs' = [jobs EXCEPT ![j].status = "running", ![j].owner = r,
                            ![j].live = TRUE, ![j].wait = FALSE]
    /\ wk' = [wk EXCEPT ![r] = [Idle EXCEPT !.pc = "lease", !.job = j, !.epoch = jobs[j].epoch]]
    /\ UNCHANGED <<proc, lock, app, downBy, pend, issued>>

(* The oldest queued job; a requeued one is passed over while it waits. *)
ClaimNextJob(r, j) ==
    /\ At(r, "idle")
    /\ jobs[j].status = "queued"
    /\ jobs[j].epoch < MaxEpoch
    /\ \A k \in Jobs : (k < j /\ jobs[k].status = "queued") => jobs[k].wait
    /\ jobs' = [jobs EXCEPT ![j].status = "running", ![j].owner = r,
                            ![j].epoch = @ + 1, ![j].live = TRUE, ![j].wait = FALSE]
    /\ wk' = [wk EXCEPT ![r] = [Idle EXCEPT !.pc = "lease", !.job = j,
                                            !.epoch = jobs[j].epoch + 1]]
    /\ UNCHANGED <<proc, lock, app, downBy, pend, issued>>

IsFollowUp(j) == jobs[j].origin # 0
IsExclusive(j) == jobs[j].kind \in EXCLUSIVE_JOB_KINDS
HeldByOther(r) == lock.owner \notin {NoOne, r} /\ lock.live
StaleOfOther(r) == lock.owner \notin {NoOne, r} /\ ~lock.live

(* Whether a job may take over the expired lease of a dead holder. *)
MayTakeOver(j) == ~IsExclusive(j) \/ IsFollowUp(j)

FirstPhase(kind) == CASE kind \in {"deploy", "recover_app"} -> "reap"
                      [] kind = "verify_app" -> "probe"
                      [] kind = "instance_restart" -> "query"

(* The lease is not to be had: a follow-up waits its turn in the queue, an   *)
(* exclusive kind is refused, anything else is deferred.                     *)
Busy(r) ==
    LET j == wk[r].job IN
    /\ At(r, "lease")
    /\ LeaseHold \/ HeldByOther(r) \/ (StaleOfOther(r) /\ ~MayTakeOver(j))
    /\ IF IsFollowUp(j) THEN RequeueJob(j, TRUE)
       ELSE IF IsExclusive(j)
            THEN FinishJob(r, "refused", IF HeldByOther(r) /\ ~LeaseHold THEN "lock_held" ELSE "lock_stale")
            ELSE FinishJob(r, "deferred", "lock_held")
    /\ wk' = [wk EXCEPT ![r] = Idle]
    /\ UNCHANGED <<proc, lock, app, downBy, pend, issued>>

(* acquireLock: a free row, or this owner's own row (reasserted: the stale  *)
(* flag is cleared, the epoch and recovery_job_id stay).                    *)
AcquireLock(r) ==
    /\ At(r, "lease")
    /\ ~LeaseHold
    /\ lock.owner \in {NoOne, r}
    /\ lock' = IF lock.owner = NoOne
               THEN [owner |-> r, epoch |-> 1, live |-> TRUE, stale |-> FALSE, rec |-> 0]
               ELSE [lock EXCEPT !.live = TRUE, !.stale = FALSE]
    /\ wk' = [wk EXCEPT ![r].pc = FirstPhase(jobs[wk[r].job].kind),
                        ![r].lockEpoch = IF lock.owner = NoOne THEN 1 ELSE lock.epoch]
    /\ UNCHANGED <<proc, jobs, app, downBy, pend, issued>>

(* Faulty variant: the worker keeps the epoch it read before the takeover. *)
TakeoverAtOldEpoch(r) ==
    /\ At(r, "lease")
    /\ ~LeaseHold
    /\ StaleOfOther(r)
    /\ MayTakeOver(wk[r].job)
    /\ lock' = [owner |-> r, epoch |-> lock.epoch + 1, live |-> TRUE, stale |-> FALSE, rec |-> 0]
    /\ wk' = [wk EXCEPT ![r].pc = FirstPhase(jobs[wk[r].job].kind), ![r].lockEpoch = lock.epoch]
    /\ UNCHANGED <<proc, jobs, app, downBy, pend, issued>>

(* Faulty variant: an unresolved hold is taken over like any dead lease. *)
TakeoverOfHold(r) ==
    /\ At(r, "lease")
    /\ StaleOfOther(r)
    /\ MayTakeOver(wk[r].job)
    /\ lock' = [owner |-> r, epoch |-> lock.epoch + 1, live |-> TRUE, stale |-> FALSE, rec |-> 0]
    /\ wk' = [wk EXCEPT ![r].pc = FirstPhase(jobs[wk[r].job].kind),
                        ![r].lockEpoch = lock.epoch + 1]
    /\ UNCHANGED <<proc, jobs, app, downBy, pend, issued>>

(* Faulty variant: the same, and the row's stale columns are left as found. *)
TakeoverKeepingFlags(r) ==
    /\ At(r, "lease")
    /\ StaleOfOther(r)
    /\ MayTakeOver(wk[r].job)
    /\ lock' = [lock EXCEPT !.owner = r, !.epoch = @ + 1, !.live = TRUE]
    /\ wk' = [wk EXCEPT ![r].pc = FirstPhase(jobs[wk[r].job].kind),
                        ![r].lockEpoch = lock.epoch + 1]
    /\ UNCHANGED <<proc, jobs, app, downBy, pend, issued>>

(* takeoverLock: a new owner at the next epoch. *)
TakeoverLock(r) ==
    /\ At(r, "lease")
    /\ ~LeaseHold
    /\ StaleOfOther(r)
    /\ MayTakeOver(wk[r].job)
    /\ lock' = [owner |-> r, epoch |-> lock.epoch + 1, live |-> TRUE, stale |-> FALSE, rec |-> 0]
    /\ wk' = [wk EXCEPT ![r].pc = FirstPhase(jobs[wk[r].job].kind),
                        ![r].lockEpoch = lock.epoch + 1]
    /\ UNCHANGED <<proc, jobs, app, downBy, pend, issued>>

-----------------------------------------------------------------------------
(* Commands on the guest. *)

Effectful == (Contained \ {"health"}) \cup {"start", "verb"}
Command(r) == [job |-> wk[r].job, cmd |-> wk[r].pc]

(* What a command does when it runs to its end: the stop takes the          *)
(* application down, a start of the unit brings it up, a restart of the     *)
(* guest brings it up and ends every script in the guest.                   *)
AfterApp(cmd) == CASE cmd = "stop" -> "down"
                   [] cmd \in {"swap", "restart_unit", "start", "verb"} -> "up"
                   [] OTHER -> app
AfterPend(e) == IF e.cmd = "verb" THEN {x \in pend : x.cmd = "verb"} \ {e} ELSE pend \ {e}
Runs(e) == /\ app' = AfterApp(e.cmd)
           /\ downBy' = IF e.cmd = "stop" THEN e.job ELSE downBy
           /\ pend' = AfterPend(e)
Ends(e) == pend' = pend \ {e} /\ UNCHANGED <<app, downBy>>

(* A command whose runner is gone, or gave up on it, runs on to its end. *)
OrphanRuns(e) ==
    /\ e \in pend
    /\ \A r \in Runners : ~(Awaits(r, e.cmd) /\ wk[r].job = e.job)
    /\ Runs(e)
    /\ UNCHANGED <<proc, wk, jobs, lock, issued>>

(* Faulty variant: the fence before the stop counts as safe too. *)
SafeUpToStop == {"reap", "build", "query", "stop"}

(* A cancel is honoured at a fence marked safe: before the disruptive step. *)
SafePhases == {"reap", "build", "query"}
Cancels(r, ph) == ph \in SafePhases /\ jobs[wk[r].job].cancel

(* The checkpoint the executor writes on the way to a command. *)
MarkBefore(ph, cp) ==
    CASE ph = "reap" -> Merge("reap_previous_writer", cp)
      [] ph = "build" -> Merge("starting", cp)
      [] ph = "migrate" -> Merge("migrating", cp)
      [] ph = "status" -> Merge("unit_status", cp)
      [] ph = "start" -> Merge("start_unit", cp)
      [] ph = "probe" -> Merge("probe_port", cp)
      [] OTHER -> cp

(* Faulty variant: the fence asks only whether the job still runs. *)
FenceOpen(r) == jobs[wk[r].job].status = "running"

(* The fence before every command: the claim must still be this worker's. *)
FenceJob(r) == Claimed(r)

Issue(r, ph) ==
    /\ At(r, ph)
    /\ FenceJob(r)
    /\ ~Cancels(r, ph)
    /\ jobs' = [jobs EXCEPT ![wk[r].job].live = TRUE,
                            ![wk[r].job].cp = MarkBefore(ph, @)]
    /\ RenewLock(r)
    /\ wk' = [wk EXCEPT ![r].await = TRUE]
    /\ pend' = IF ph \in Effectful THEN pend \cup {Command(r)} ELSE pend
    /\ issued' = IF ph = "verb" THEN [issued EXCEPT ![wk[r].job] = @ + 1] ELSE issued
    /\ UNCHANGED <<proc, app, downBy>>

(* FencedError: the worker stops and records nothing; the finally block     *)
(* releases the lease if it is still its own.                               *)
Fenced(r) ==
    /\ \E ph \in Phases \cup {"mark_issue"} : At(r, ph)
    /\ ~FenceJob(r)
    /\ wk' = [wk EXCEPT ![r].pc = "release"]
    /\ UNCHANGED <<proc, jobs, lock, app, downBy, pend, issued>>

Goto(r, pc) == wk' = [wk EXCEPT ![r].pc = pc, ![r].await = FALSE]

(* The operation is over: what it owes is queued before it is recorded. *)
Settle(r, status, outcome, owed) ==
    wk' = [wk EXCEPT ![r].pc = IF owed THEN "followup" ELSE "finish", ![r].await = FALSE,
                     ![r].status = status, ![r].outcome = outcome]

(* The fence renews the job's lease, then honours the cancel. *)
HonourCancel(r) ==
    /\ \E ph \in SafePhases : At(r, ph) /\ FenceJob(r) /\ Cancels(r, ph)
    /\ jobs' = [jobs EXCEPT ![wk[r].job].live = TRUE]
    /\ Settle(r, "cancelled", "cancelled", FALSE)
    /\ UNCHANGED <<proc, lock, app, downBy, pend, issued>>

-----------------------------------------------------------------------------
(* Results of the commands. *)

Survivors(r) == {e \in pend : e.cmd \in Contained /\ e.job # wk[r].job}
AfterReap(r) == IF jobs[wk[r].job].kind = "deploy" THEN "build" ELSE "status"
Reaped(r, reap) == wk' = [wk EXCEPT ![r].pc = AfterReap(r), ![r].await = FALSE, ![r].reap = reap]

(* Faulty variant: the count is of this job's own groups; nothing is killed. *)
ReapOwnOnly(r) ==
    /\ Awaits(r, "reap")
    /\ pend' = pend
    /\ Reaped(r, "counted")
    /\ UNCHANGED <<proc, jobs, lock, app, downBy, issued>>

(* The reap signalled the other jobs' process groups and counted none alive. *)
ReapCounted(r) ==
    /\ Awaits(r, "reap")
    /\ pend' = pend \ Survivors(r)
    /\ Reaped(r, "counted")
    /\ UNCHANGED <<proc, jobs, lock, app, downBy, issued>>

(* No count came back from the first reap: the executor proceeds. *)
ReapBlind(r) ==
    /\ Awaits(r, "reap") /\ wk[r].reap = "none"
    /\ \E killed \in {{}, Survivors(r)} : pend' = pend \ killed
    /\ Reaped(r, "blind")
    /\ UNCHANGED <<proc, jobs, lock, app, downBy, issued>>

(* Survivors: reaped once more. *)
ReapAgain(r) ==
    /\ Awaits(r, "reap") /\ wk[r].reap = "none"
    /\ Survivors(r) # {}
    /\ wk' = [wk EXCEPT ![r].await = FALSE, ![r].reap = "again"]
    /\ UNCHANGED <<proc, jobs, lock, app, downBy, pend, issued>>

(* Survivors, or no count, again: PreviousWriterAliveError keeps the lease. *)
PreviousWriterAlive(r) ==
    /\ Awaits(r, "reap") /\ wk[r].reap = "again"
    /\ wk' = [wk EXCEPT ![r].pc = "finish", ![r].await = FALSE, ![r].keep = TRUE,
                        ![r].status = "recovery_required",
                        ![r].outcome = "previous_writer_alive"]
    /\ UNCHANGED <<proc, jobs, lock, app, downBy, pend, issued>>

(* Install and build ran under the old application. *)
BuildDone(r) ==
    /\ Awaits(r, "build")
    /\ Ends(Command(r))
    /\ Goto(r, "mark_stop")
    /\ UNCHANGED <<proc, jobs, lock, issued>>

NoContract(r) ==
    /\ Awaits(r, "build")
    /\ Ends(Command(r))
    /\ Settle(r, "succeeded", "skipped", FALSE)
    /\ UNCHANGED <<proc, jobs, lock, issued>>

(* Faulty variant: the stop is issued without its checkpoint. *)
StopUnmarked(r) ==
    /\ At(r, "mark_stop")
    /\ Goto(r, "stop")
    /\ UNCHANGED <<proc, jobs, lock, app, downBy, pend, issued>>

(* The checkpoint before the stop: from here a cancel is declined. *)
MarkStop(r) ==
    /\ At(r, "mark_stop")
    /\ Checkpoint(r, "stopping_app")
    /\ Goto(r, "stop")
    /\ UNCHANGED <<proc, lock, app, downBy, pend, issued>>

StopDone(r) ==
    /\ Awaits(r, "stop")
    /\ Runs(Command(r))
    /\ Goto(r, "migrate")
    /\ UNCHANGED <<proc, jobs, lock, issued>>

(* The migration, the mint and the environment check all went through. *)
MigrateDone(r) ==
    /\ Awaits(r, "migrate")
    /\ Ends(Command(r))
    /\ Goto(r, "swap")
    /\ UNCHANGED <<proc, jobs, lock, issued>>

SwapDone(r) ==
    /\ Awaits(r, "swap")
    /\ Runs(Command(r))
    /\ Checkpoint(r, "app_started")
    /\ Goto(r, "health")
    /\ UNCHANGED <<proc, lock, issued>>

(* It serves; the application's own health page may still say otherwise. *)
HealthDone(r) ==
    /\ Awaits(r, "health")
    /\ app = "up"
    /\ Ends(Command(r))
    /\ Checkpoint(r, "deploy_verified")
    /\ \E status \in {"succeeded", "recovery_required"} : Settle(r, status, "serving", Guarded)
    /\ UNCHANGED <<proc, lock, issued>>

(* restartUnit after a failure: serving or not, the deploy failed and owes a *)
(* verification of what runs now.                                            *)
RestartUnitDone(r) ==
    /\ Awaits(r, "restart_unit")
    /\ \/ /\ Runs(Command(r))
          /\ Checkpoint(r, "restart_served")
       \/ /\ UNCHANGED <<app, downBy>>
          /\ pend' \in {pend, pend \ {Command(r)}}
          /\ Checkpoint(r, "restart_not_served")
    /\ Settle(r, "failed", "step_failed", TRUE)
    /\ UNCHANGED <<proc, lock, issued>>

(* A nonzero exit or a timeout: the command had no effect, had it, or still  *)
(* runs in the guest.                                                        *)
FailEffect(e) == Ends(e) \/ Runs(e) \/ UNCHANGED <<app, downBy, pend>>

DeployStepFailed(r) ==
    /\ \E ph \in {"stop", "migrate", "swap"} : Awaits(r, ph)
    /\ FailEffect(Command(r))
    /\ IF wk[r].pc = "swap"
       THEN Checkpoint(r, "unit_written")
       ELSE jobs' = jobs
    /\ Goto(r, "restart_unit")
    /\ UNCHANGED <<proc, lock, issued>>

BuildFailed(r) ==
    /\ Awaits(r, "build")
    /\ FailEffect(Command(r))
    /\ Settle(r, "failed", "step_failed", FALSE)
    /\ UNCHANGED <<proc, jobs, lock, issued>>

(* The new unit does not serve: it may have gone down again. *)
HealthFailed(r) ==
    /\ Awaits(r, "health")
    /\ \/ UNCHANGED <<app, downBy>>
       \/ app' = "down" /\ downBy' = wk[r].job
    /\ Settle(r, "failed", "step_failed", TRUE)
    /\ UNCHANGED <<proc, jobs, lock, pend, issued>>

(* The containment wrapper ran nothing: recovery_required, lease released.   *)
ContainmentUnavailable(r) ==
    /\ \E ph \in Contained \ {"restart_unit"} : Awaits(r, ph)
    /\ Ends(Command(r))
    /\ Settle(r, "recovery_required", "containment_unavailable", FALSE)
    /\ UNCHANGED <<proc, jobs, lock, issued>>

(* recover_app starts the unit unless it is seen active. *)
StatusDone(r) ==
    /\ Awaits(r, "status")
    /\ \/ app = "up" /\ Goto(r, "probe")
       \/ Goto(r, "start")
    /\ UNCHANGED <<proc, jobs, lock, app, downBy, pend, issued>>

StartDone(r) ==
    /\ Awaits(r, "start")
    /\ FailEffect(Command(r))
    /\ Goto(r, "probe")
    /\ UNCHANGED <<proc, jobs, lock, issued>>

(* The ladder of probes: a failing rung is recovery_required; a probe without *)
(* output is not a failure.                                                   *)
ProbeDone(r) ==
    /\ Awaits(r, "probe")
    /\ \/ Settle(r, "succeeded", "verified", Guarded /\ jobs[wk[r].job].kind = "recover_app")
       \/ Settle(r, "recovery_required", "not_serving", FALSE)
    /\ UNCHANGED <<proc, jobs, lock, app, downBy, pend, issued>>

(* Lifecycle: the target was read and bound; `validated` must be on record. *)
QueryDone(r) ==
    /\ Awaits(r, "query")
    /\ Checkpoint(r, "validated")
    /\ Goto(r, IF Claimed(r) THEN "mark_issue" ELSE "release")
    /\ UNCHANGED <<proc, lock, app, downBy, pend, issued>>

QueryFailed(r) ==
    /\ Awaits(r, "query")
    /\ Settle(r, "failed", "step_failed", FALSE)
    /\ UNCHANGED <<proc, jobs, lock, app, downBy, pend, issued>>

(* `issuing` must be on record before the verb is issued. *)
MarkIssue(r) ==
    /\ At(r, "mark_issue")
    /\ Claimed(r)
    /\ Checkpoint(r, "issuing")
    /\ Goto(r, "verb")
    /\ UNCHANGED <<proc, lock, app, downBy, pend, issued>>

(* The exit code is kept for the verdict after the read-back. *)
Exited(r, outcome) ==
    wk' = [wk EXCEPT ![r].pc = "readback", ![r].await = FALSE, ![r].outcome = outcome]

VerbDone(r) ==
    /\ Awaits(r, "verb")
    /\ Runs(Command(r))
    /\ Exited(r, "restarted")
    /\ UNCHANGED <<proc, jobs, lock, issued>>

VerbFailed(r) ==
    /\ Awaits(r, "verb")
    /\ \/ FailEffect(Command(r))
       \/ /\ app' = "down" /\ downBy' = wk[r].job
          /\ pend' = AfterPend(Command(r))
    /\ Exited(r, "step_failed")
    /\ UNCHANGED <<proc, jobs, lock, issued>>

ReadBack(r) ==
    /\ Awaits(r, "readback")
    /\ \/ /\ wk[r].outcome = "restarted"
          /\ Checkpoint(r, "lifecycle_verified")
          /\ Settle(r, "succeeded", "restarted", Guarded)
       \/ jobs' = jobs /\ Settle(r, "failed", "step_failed", FALSE)
    /\ UNCHANGED <<proc, lock, app, downBy, pend, issued>>

-----------------------------------------------------------------------------
(* Recording the end of an operation. *)

(* Faulty variant: the job reports done and nothing is queued. *)
FollowUpForgotten(r) ==
    /\ At(r, "followup")
    /\ Goto(r, "finish")
    /\ UNCHANGED <<proc, jobs, lock, app, downBy, pend, issued>>

(* The obligation is a job of its own, created before this one reports done. *)
QueueFollowUp(r) ==
    /\ At(r, "followup")
    /\ \E k \in Jobs :
          /\ NextRow(k)
          /\ jobs' = [jobs EXCEPT ![k] = NewJob("verify_app", wk[r].job, FALSE)]
    /\ Goto(r, "finish")
    /\ UNCHANGED <<proc, lock, app, downBy, pend, issued>>

Finish(r) ==
    /\ At(r, "finish")
    /\ FinishJob(r, wk[r].status, wk[r].outcome)
    /\ Goto(r, IF wk[r].keep THEN "mark_stale" ELSE "release")
    /\ UNCHANGED <<proc, lock, app, downBy, pend, issued>>

(* The lease of a job that met surviving writers is kept and flagged. *)
MarkStale(r) ==
    /\ At(r, "mark_stale")
    /\ MarkLockStale(wk[r].job)
    /\ wk' = [wk EXCEPT ![r] = Idle]
    /\ UNCHANGED <<proc, jobs, app, downBy, pend, issued>>

ReleaseLock(r) ==
    /\ At(r, "release")
    /\ lock' = IF HoldsLease(r) THEN NoLock ELSE lock
    /\ wk' = [wk EXCEPT ![r] = Idle]
    /\ UNCHANGED <<proc, jobs, app, downBy, pend, issued>>

-----------------------------------------------------------------------------
(* Reconciling the job of an owner whose lease expired (executor.js).  Every *)
(* write is its own statement: the reconciler may die between two of them.   *)

Disruptive(cp) == cp.app_stopped \/ cp.disruptive
(* Faulty variant: the answer for a process that cannot act. *)
ReconcileCannotAct(cp) ==
    CASE cp.resumable /\ ~Disruptive(cp) -> "resume"
      [] Disruptive(cp) /\ cp.lifecycle -> "record_uncertain"
      [] ~Disruptive(cp) /\ ~cp.resumable /\ cp.unit_swapped /\ ~cp.verification_state -> "verify"
      [] Disruptive(cp) /\ ~cp.lifecycle -> "record_recovery_required"
      [] OTHER -> "record_interrupted"

(* reconcileDecision, for a process that can act. *)
ReconcileDecision(cp) ==
    CASE cp.resumable /\ ~Disruptive(cp) -> "resume"
      [] Disruptive(cp) /\ cp.lifecycle -> "record_uncertain"
      [] ~Disruptive(cp) /\ ~cp.resumable /\ cp.unit_swapped /\ ~cp.verification_state -> "verify"
      [] Disruptive(cp) /\ ~cp.lifecycle -> "recover"
      [] OTHER -> "record_interrupted"

(* What the reconciler read when it took up a job. *)
Read(j, act) ==
    [Idle EXCEPT !.pc = IF act \in {"recover", "verify"} THEN "rc_follow" ELSE "rc_record",
                 !.job = j, !.act = act, !.dead = jobs[j].owner,
                 !.mine = lock.owner = jobs[j].owner,
                 !.lockEpoch = IF lock.owner = jobs[j].owner THEN lock.epoch ELSE jobs[j].epoch]

(* Faulty variant: only jobs whose owner still has the lease row are seen. *)
ReconcileLeased(r, j) ==
    /\ At(r, "idle")
    /\ jobs[j].status = "running" /\ ~jobs[j].live /\ jobs[j].owner # r
    /\ lock.owner = jobs[j].owner
    /\ wk' = [wk EXCEPT ![r] = Read(j, ReconcileDecision(jobs[j].cp))]
    /\ UNCHANGED <<proc, jobs, lock, app, downBy, pend, issued>>

Reconcile(r, j) ==
    /\ At(r, "idle")
    /\ jobs[j].status = "running" /\ ~jobs[j].live /\ jobs[j].owner # r
    /\ wk' = [wk EXCEPT ![r] = Read(j, ReconcileDecision(jobs[j].cp))]
    /\ UNCHANGED <<proc, jobs, lock, app, downBy, pend, issued>>

(* An open recover_app is used again; a verify_app is always new. *)
OpenRecovery == {k \in Jobs : jobs[k].kind = "recover_app" /\ IsOpen(k)}
ReconcileFollow(r) ==
    LET reuse == wk[r].act = "recover" /\ OpenRecovery # {}
        kind == IF wk[r].act = "recover" THEN "recover_app" ELSE "verify_app" IN
    /\ At(r, "rc_follow")
    /\ \E k \in Jobs :
          /\ IF reuse THEN k \in OpenRecovery ELSE NextRow(k)
          /\ jobs' = IF reuse THEN jobs ELSE [jobs EXCEPT ![k] = NewJob(kind, wk[r].job, FALSE)]
          /\ wk' = [wk EXCEPT ![r].pc = "rc_record", ![r].follow = k]
    /\ UNCHANGED <<proc, lock, app, downBy, pend, issued>>

ReconcileRecord(r) ==
    LET j == wk[r].job IN
    /\ At(r, "rc_record")
    /\ CASE wk[r].act = "resume" -> RequeueJob(j, FALSE)
         [] wk[r].act = "record_interrupted" -> RecordJobOutcome(j, "failed", "interrupted")
         [] wk[r].act = "record_uncertain" ->
              RecordJobOutcome(j, "recovery_required", "interrupted_uncertain")
         [] wk[r].act = "verify" -> RecordJobOutcome(j, "failed", "interrupted_unverified")
         [] OTHER -> RecordJobOutcome(j, "recovery_required", "interrupted_after_stop")
    /\ Goto(r, "rc_lock")
    /\ UNCHANGED <<proc, lock, app, downBy, pend, issued>>

ReconcileLock(r) ==
    /\ At(r, "rc_lock")
    /\ CASE wk[r].act = "record_uncertain" -> HoldStaleLock(wk[r].dead, wk[r].lockEpoch, wk[r].job)
         [] wk[r].act = "recover" /\ wk[r].mine -> MarkLockStale(wk[r].follow)
         [] wk[r].act \notin {"record_uncertain", "recover"} /\ wk[r].mine ->
              lock' = IF lock.owner = wk[r].dead /\ lock.epoch = wk[r].lockEpoch THEN NoLock ELSE lock
         [] OTHER -> lock' = lock
    /\ wk' = [wk EXCEPT ![r] = Idle]
    /\ UNCHANGED <<proc, jobs, app, downBy, pend, issued>>

-----------------------------------------------------------------------------
(* The operator (routes/setup.js, orchestrator.js, backend.js). *)

Asked == Cardinality({j \in Jobs : jobs[j].asked})
Create(job) == \E k \in Jobs : NextRow(k) /\ jobs' = [jobs EXCEPT ![k] = job]
Ask(what) == what \in Requests /\ Asked < MaxRequests

SubmitDeploy ==
    /\ Ask("deploy")
    /\ ~\E j \in Jobs : jobs[j].kind = "deploy" /\ IsOpen(j)
    /\ Create(NewJob("deploy", 0, TRUE))
    /\ UNCHANGED <<proc, wk, lock, app, downBy, pend, issued>>

RequestRecovery ==
    /\ Ask("recover_app")
    /\ OpenRecovery = {}
    /\ Create(NewJob("recover_app", 0, TRUE))
    /\ UNCHANGED <<proc, wk, lock, app, downBy, pend, issued>>

(* An exclusive kind is refused beside any lease row or open mutating job,   *)
(* and cancelled at once when no runner's heartbeat is recent.  A dead       *)
(* runner's heartbeat may still be.                                          *)
SubmitRestart ==
    LET job == NewJob("instance_restart", 0, TRUE) IN
    /\ Ask("instance_restart")
    /\ lock.owner = NoOne
    /\ ~\E j \in Jobs : jobs[j].kind \in MUTATING_JOB_KINDS /\ IsOpen(j)
    /\ \/ (\E r \in Runners : proc[r] \in {"up", "dead"}) /\ Create(job)
       \/ /\ \A r \in Runners : proc[r] # "up"
          /\ Create([job EXCEPT !.status = "cancelled", !.outcome = "runner_unavailable"])
    /\ UNCHANGED <<proc, wk, lock, app, downBy, pend, issued>>

(* A retry is the same plan again, without the checks of a submission. *)
Retry(j) ==
    /\ Ask("retry")
    /\ IsTerminal(j)
    /\ Create(NewJob(jobs[j].kind, jobs[j].origin, TRUE))
    /\ UNCHANGED <<proc, wk, lock, app, downBy, pend, issued>>

RequestCancel(j) ==
    /\ "cancel" \in Requests
    /\ \/ /\ jobs[j].status = "queued"
          /\ jobs' = [jobs EXCEPT ![j].status = "cancelled", ![j].outcome = "cancelled"]
       \/ /\ jobs[j].status = "running" /\ ~jobs[j].cancel
          /\ jobs' = [jobs EXCEPT ![j].cancel = TRUE]
    /\ UNCHANGED <<proc, wk, lock, app, downBy, pend, issued>>

(* One transaction: the acknowledgement and the release of the hold. *)
AcknowledgeUncertainJob(j) ==
    /\ jobs[j].status = "recovery_required" /\ jobs[j].outcome = "interrupted_uncertain"
    /\ jobs' = [jobs EXCEPT ![j].outcome = "interrupted_uncertain_acknowledged"]
    /\ lock' = IF lock.stale /\ lock.rec = j THEN NoLock ELSE lock
    /\ UNCHANGED <<proc, wk, app, downBy, pend, issued>>

-----------------------------------------------------------------------------
TakeJob(r) == (\E j \in Jobs : ClaimNextJob(r, j)) \/ Busy(r) \/ AcquireLock(r) \/ TakeoverLock(r)

DeployStep(r) ==
    \/ ReapCounted(r) \/ ReapBlind(r) \/ ReapAgain(r) \/ PreviousWriterAlive(r)
    \/ BuildDone(r) \/ NoContract(r) \/ BuildFailed(r)
    \/ MarkStop(r) \/ StopDone(r) \/ MigrateDone(r) \/ SwapDone(r) \/ HealthDone(r)
    \/ DeployStepFailed(r) \/ HealthFailed(r) \/ RestartUnitDone(r)
    \/ ContainmentUnavailable(r)

RecoverStep(r) == StatusDone(r) \/ StartDone(r) \/ ProbeDone(r)

LifecycleStep(r) ==
    \/ QueryDone(r) \/ QueryFailed(r) \/ MarkIssue(r) \/ VerbDone(r) \/ VerbFailed(r) \/ ReadBack(r)

RecordStep(r) == QueueFollowUp(r) \/ Finish(r) \/ MarkStale(r) \/ ReleaseLock(r)

ReconcileStep(r) ==
    \/ \E j \in Jobs : Reconcile(r, j)
    \/ ReconcileFollow(r) \/ ReconcileRecord(r) \/ ReconcileLock(r)

ExecutorStep(r) ==
    \/ TakeJob(r)
    \/ \E ph \in Phases : Issue(r, ph)
    \/ Fenced(r) \/ HonourCancel(r)
    \/ DeployStep(r) \/ RecoverStep(r) \/ LifecycleStep(r)
    \/ RecordStep(r)

OperatorStep ==
    \/ SubmitDeploy \/ RequestRecovery \/ SubmitRestart
    \/ \E j \in Jobs : Retry(j) \/ RequestCancel(j) \/ AcknowledgeUncertainJob(j)

Next ==
    \/ \E r \in Runners : Start(r) \/ Crash(r) \/ ExecutorStep(r) \/ ReconcileStep(r)
    \/ \E j \in Jobs : ExpireJob(j)
    \/ ExpireLock
    \/ \E e \in pend : OrphanRuns(e)
    \/ OperatorStep

Spec == Init /\ [][Next]_vars

(***************************************************************************)
(* What the code's scheduling guarantees: systemd restarts the runner; its *)
(* loop polls the queue and reconciles every minute; every command has a   *)
(* timeout; an unrenewed lease expires with time.  Nothing is assumed of   *)
(* the operator or of commands left behind in the guest.                   *)
(***************************************************************************)
Fairness ==
    /\ \A r \in Runners : /\ WF_vars(Start(r))
                          /\ WF_vars(ExecutorStep(r))
                          /\ WF_vars(ReconcileStep(r))
    /\ \A j \in Jobs : WF_vars(ExpireJob(j))
    /\ WF_vars(ExpireLock)

FairSpec == Spec /\ Fairness

-----------------------------------------------------------------------------
(* Properties. *)

Working(r) == proc[r] = "up" /\ wk[r].pc \in Phases \cup {"mark_stop", "mark_issue"}
FollowUps(j) == {k \in Jobs : jobs[k].status # "none" /\ jobs[k].origin = j}

(* A worker between its claim and the end of the job, and one past the lease. *)
PastLease(r) == wk[r].pc \in Phases \cup {"mark_stop", "mark_issue", "followup", "finish",
                                         "mark_stale", "release"}
Executing(r) == wk[r].pc = "lease" \/ PastLease(r)
Overtaken(r) == \E q \in Runners \ {r} : /\ Executing(q) /\ wk[q].job = wk[r].job
                                         /\ wk[q].epoch >= wk[r].epoch

(* An application a deploy took down is never forgotten: while it is down,   *)
(* that deploy is still running with its stop on record (so a reconciler     *)
(* recovers it), or is recorded recovery_required, or failed with a          *)
(* verification of its own queued (deploy-op.js, executor.js, reconcile).    *)
NoForgottenStop ==
    (app = "down" /\ downBy # 0 /\ jobs[downBy].kind = "deploy") =>
        \/ jobs[downBy].status = "running" /\ Disruptive(jobs[downBy].cp)
        \/ jobs[downBy].status = "recovery_required"
        \/ jobs[downBy].status = "failed" /\ FollowUps(downBy) # {}

(* A job recorded cancelled took nothing down and will not: its stop was     *)
(* never marked, no command of it did, and what of it still runs in the      *)
(* guest only builds or starts (deploy-op.js: a cancel is honoured only at   *)
(* the fences before the disruptive step; a resumed job is safe to cancel).  *)
CancelledNeverStopped ==
    \A j \in Jobs : jobs[j].status = "cancelled" =>
        /\ ~Disruptive(jobs[j].cp)
        /\ downBy # j
        /\ \A e \in pend : e.job = j => e.cmd \in {"build", "start"}

(* An executor at work on the guest holds the application's lease at the     *)
(* epoch it acquired, whatever other runners did before it (acquireLock,     *)
(* takeoverLock, the reconciler's release).                                  *)
WorkerHoldsLease == \A r \in Runners : Working(r) => HoldsLease(r)

(* After a reap that counted no survivor, no contained command of another    *)
(* job runs beside this job's, up to its end (executor.js, containment).     *)
WriterContained ==
    \A r \in Runners : (Working(r) /\ wk[r].reap = "counted") => Survivors(r) = {}

(* Every deploy recorded as serving on a guarded application has its         *)
(* credential check queued as a job of its own, and a follow-up is never     *)
(* dropped for a busy application: it is not deferred and not refused        *)
(* (executor.js queueFollowUp and busy).                                     *)
ObligationKept ==
    \A j \in Jobs :
        /\ (Guarded /\ jobs[j].kind = "deploy" /\ jobs[j].status = "succeeded"
              /\ jobs[j].outcome # "skipped") => FollowUps(j) # {}
        /\ IsFollowUp(j) => jobs[j].status \notin {"deferred", "refused"}

(* A guest held for an uncertain restart stays held, by the same record,     *)
(* until an operator acknowledges that record: no job that starts, ends, is  *)
(* fenced off or takes a lease over, and no expiry, clears the hold.  Only   *)
(* the reconciler's last write about another dead job may (leaseHold in      *)
(* executeJob, acquireLock, releaseLock, acknowledgeUncertainJob).           *)
HoldKept ==
    [][LeaseHold =>
         \/ LeaseHold' /\ lock'.rec = lock.rec
         \/ jobs'[lock.rec].outcome = "interrupted_uncertain_acknowledged"
         \/ \E r \in Runners : ReconcileLock(r)]_vars

(* While a guest is held, nobody works on it (the hold check of executeJob   *)
(* before acquireLock).                                                      *)
HeldGuestUntouched == LeaseHold => \A r \in Runners : ~Working(r)

(* A terminal record is final: its status never changes again, and its       *)
(* outcome only by an acknowledgement, however late a fenced worker or a     *)
(* second reconciler writes (finishJob, recordJobOutcome, requeueJob).       *)
TerminalStays ==
    [][\A j \in Jobs : IsTerminal(j) =>
         /\ jobs'[j].status = jobs[j].status
         /\ \/ jobs'[j].outcome = jobs[j].outcome
            \/ jobs'[j].outcome = "interrupted_uncertain_acknowledged"]_vars

(* Beside a worker with a later claim of the same job, requeued by a          *)
(* reconciler that read a lapsed lease of a living owner, the earlier one     *)
(* starts no command on the guest and changes no record: the job's steps, its *)
(* checkpoints and its outcome are the later claim's (fence, checkpoint and   *)
(* finishJob against requeueJob and claimNextJob).                            *)
LaterClaimPrevails ==
    [][\A r \in Runners : (PastLease(r) /\ Overtaken(r) /\ wk'[r] # wk[r]) =>
          /\ wk'[r].await => wk[r].await
          /\ \A j \in Jobs : jobs[j].status # "none" => jobs'[j] = jobs[j]]_vars

(* Every claim ends: the owner finishes the job, or dies and the job is      *)
(* settled by a reconciler (serve, reconcile, staleRunningJobs).             *)
EveryClaimEnds ==
    \A j \in Jobs : (jobs[j].status = "running") ~> (jobs[j].status # "running")

(* The rows as the ledger of jobs sees them. *)
Stage(status) == CASE status = "none" -> "absent"
                   [] status \in {"queued", "running"} -> status
                   [] OTHER -> "done"
Ledger == INSTANCE JobLedger WITH Rows <- Jobs,
                                  stage <- [j \in Jobs |-> Stage(jobs[j].status)],
                                  claims <- [j \in Jobs |-> jobs[j].epoch]

(* The engine implements the ledger of jobs: through crashes, overlapping    *)
(* runners, fenced late writes, reconcilers and operators, rows are filled   *)
(* in order, one at a time changes, every execution has a claim number of    *)
(* its own, and nothing reopens or ends twice a job that is done (store.js). *)
ImplementsLedger == Ledger!LedgerSpec

(* -- What the documentation says and the code does not keep. -------------- *)

(* lifecycle-logic.js:61: a restart is never replayed. *)
NeverReplayed == \A j \in Jobs : issued[j] <= 1

=============================================================================
