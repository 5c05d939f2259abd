------------------------------ MODULE Executors ------------------------------
(***************************************************************************)
(* Who executes the saved jobs of one application guest under the policy    *)
(* backend-allowed (backend.js, orchestrator.js, mock2/deploy.js): the host *)
(* runner while one heartbeats, else the backend in its own process.  The   *)
(* backend drains the queue on every request and every 30 s, so several     *)
(* drains run at once, all under the one owner identity of the process; it  *)
(* settles what a dead predecessor left only once, when it boots.           *)
(*                                                                          *)
(* SetupEngine models the operations command by command for runners that    *)
(* reconcile; here an operation is reduced to the commands that take the    *)
(* application down and up, and its executors are told apart by process.    *)
(***************************************************************************)
EXTENDS Naturals, Sequences, FiniteSets

CONSTANTS
    Drains,       \* drains of the queue the backend may have going at once
    Runner,       \* the worker of the host runner's loop
    MaxBoots,     \* bound: backend processes, one after the other
    MaxRuns,      \* bound: host runner processes; 0 if none is installed
    MaxRequests,  \* bound: jobs asked for by operators
    Share,        \* how many jobs one drain runs (max)
    Guarded       \* TRUE: the application has a data guard

ASSUME WorkersAssumption == Runner \notin Drains
ASSUME BoundsAssumption ==
    MaxBoots \in Nat \ {0} /\ MaxRuns \in Nat /\ MaxRequests \in Nat /\ Share \in Nat \ {0}
ASSUME GuardedAssumption == Guarded \in BOOLEAN

VARIABLES
    jobs,      \* the rows of setup_jobs, oldest first
    lease,     \* the application's row of setup_locks
    backend,   \* the backend process: its number, whether it is up, its sweep
    runner,    \* the runner process: its number, whether it is up, its heartbeat
    work,      \* what each drain and the runner's loop is doing
    app,       \* the application's unit: up or down
    downBy,    \* history: the job whose command last took it down, 0 if none
    asked      \* how many jobs operators asked for

vars == <<jobs, lease, backend, runner, work, app, downBy, asked>>

Workers == Drains \cup {Runner}
Nobody == <<"nobody", 0>>
Owners == {Nobody} \cup ({"backend"} \X (1..MaxBoots)) \cup ({"runner"} \X (1..MaxRuns))

Kinds == {"deploy", "restore_db", "recover_app", "verify_app"}
MUTATING_JOB_KINDS == {"deploy", "restore_db", "recover_app"}
EXCLUSIVE_JOB_KINDS == {"restore_db"}
(* A status, or the outcome that tells apart two ways of being failed. *)
Statuses == {"queued", "running", "succeeded", "failed", "interrupted",
             "interrupted_unverified", "deferred", "refused", "recovery_required"}

(* checkpoint_json as reconcileDecision reads it. *)
Checkpoints == {"none", "resumable", "disruptive", "unit_swapped"}

JobRow == [kind : Kinds, status : Statuses, owner : Owners, epoch : Nat,
           live : BOOLEAN,        \* lease_expires_at is ahead
           wait : BOOLEAN,        \* progress.not_before is ahead
           followUp : BOOLEAN,    \* plan.params.origin names a job
           cp : Checkpoints]
LeaseRow == [owner : Owners, epoch : Nat, live : BOOLEAN]
NoLease == [owner |-> Nobody, epoch |-> 0, live |-> FALSE]

(* Where a worker is: a drain not going (or a runner not up), between jobs, *)
(* about to take the lease, waiting for a command, about to release.        *)
InCommand == {"prepare", "stop", "check"}
WorkRow == [pc : {"off", "next", "lease", "release"} \cup InCommand,
            job : Nat, epoch : Nat, lockEpoch : Nat,
            ran : Nat]            \* jobs this drain has run before
At(pc, ran) == [pc |-> pc, job |-> 0, epoch |-> 0, lockEpoch |-> 0, ran |-> ran]

(* The types; a worker on a job has a row in hand, and a row the status of a  *)
(* saved job (store.js, JOB_STATUS).                                        *)
TypeOK ==
    /\ jobs \in Seq(JobRow)
    /\ lease \in LeaseRow
    /\ backend \in [boot : 1..MaxBoots, up : BOOLEAN, sweep : SUBSET DOMAIN jobs]
    /\ runner \in [run : 0..MaxRuns, up : BOOLEAN, beat : BOOLEAN]
    /\ work \in [Workers -> WorkRow]
    /\ \A w \in Workers : work[w].pc \notin {"off", "next"} => work[w].job \in DOMAIN jobs
    /\ app \in {"up", "down"}
    /\ downBy \in {0} \cup DOMAIN jobs
    /\ asked \in 0..MaxRequests

Init ==
    /\ jobs = <<>>
    /\ lease = NoLease
    /\ backend = [boot |-> 1, up |-> TRUE, sweep |-> {}]
    /\ runner = [run |-> 0, up |-> FALSE, beat |-> FALSE]
    /\ work = [w \in Workers |-> At("off", 0)]
    /\ app = "up"
    /\ downBy = 0
    /\ asked = 0

-----------------------------------------------------------------------------
(* Identities and the store. *)

(* backendOwner: one identity for everything the process does. *)
Me(w) == IF w = Runner THEN <<"runner", runner.run>> ELSE <<"backend", backend.boot>>

(* The process that owner names is gone. *)
Gone(owner) == \/ owner[1] = "backend" /\ (~backend.up \/ owner[2] # backend.boot)
               \/ owner[1] = "runner" /\ (~runner.up \/ owner[2] # runner.run)

IsOpen(j) == jobs[j].status \in {"queued", "running"}
Stale(j) == jobs[j].status = "running" /\ ~jobs[j].live
OpenOf(kinds) == {j \in DOMAIN jobs : IsOpen(j) /\ jobs[j].kind \in kinds}

NewJob(kind, followUp) ==
    [kind |-> kind, status |-> "queued", owner |-> Nobody, epoch |-> 0, live |-> FALSE,
     wait |-> FALSE, followUp |-> followUp, cp |-> "none"]

(* Faulty variant: a live lease, whose ever, passes the fence too. *)
ClaimOrLease(w) == LET j == work[w].job IN
    /\ jobs[j].status = "running"
    /\ (jobs[j].owner = Me(w) /\ jobs[j].epoch = work[w].epoch) \/ lease.live

(* The claim a worker works under is still the row's. *)
Current(w) == LET j == work[w].job IN
    /\ jobs[j].status = "running"
    /\ jobs[j].owner = Me(w)
    /\ jobs[j].epoch = work[w].epoch

(* recordJobOutcome and finishJob: of a row that has ended only the kind and *)
(* the status are read again, so the other columns are let go.               *)
Recorded(j, status) ==
    [jobs EXCEPT ![j] = [NewJob(jobs[j].kind, jobs[j].followUp) EXCEPT !.status = status]]

(* finishJob is fenced. *)
Finished(w, status) == IF Current(w) THEN Recorded(work[w].job, status) ELSE jobs

(* Faulty variant: the row gets the status executeJob returns. *)
RequeuedByName(j, wait) ==
    [jobs EXCEPT ![j].status = "requeued", ![j].owner = Nobody, ![j].live = FALSE, ![j].wait = wait]

(* requeueJob, for a row that is running. *)
Requeued(j, wait) ==
    [jobs EXCEPT ![j].status = "queued", ![j].owner = Nobody, ![j].live = FALSE, ![j].wait = wait]

(* releaseLock and renewLock name the owner and the epoch, not the job. *)
Released(owner, epoch) ==
    IF lease.owner = owner /\ lease.epoch = epoch THEN NoLease ELSE lease
Renewed(w) ==
    IF lease.owner = Me(w) /\ lease.epoch = work[w].lockEpoch
    THEN [lease EXCEPT !.live = TRUE] ELSE lease

Move(w, pc) == work' = [work EXCEPT ![w].pc = pc]

-----------------------------------------------------------------------------
(* Requests, while the backend is up and has swept. *)

Serving == backend.up /\ backend.sweep = {} /\ asked < MaxRequests

Asks(kind) == /\ jobs' = Append(jobs, NewJob(kind, FALSE))
              /\ asked' = asked + 1
              /\ UNCHANGED <<lease, backend, runner, work, app, downBy>>

(* submitDeployJob answers with the open deploy if there is one. *)
SubmitDeploy == Serving /\ OpenOf({"deploy"}) = {} /\ Asks("deploy")

(* submitRunnerJob refuses an exclusive kind over a lease or an open job. *)
SubmitRestore == /\ Serving
                 /\ lease = NoLease
                 /\ OpenOf(MUTATING_JOB_KINDS) = {}
                 /\ Asks("restore_db")

RequestAppRecovery == Serving /\ OpenOf({"recover_app"}) = {} /\ Asks("recover_app")

-----------------------------------------------------------------------------
(* Drains and the runner's loop. *)

(* The oldest queued job, passing over those that wait. *)
Claimable(j) == /\ jobs[j].status = "queued" /\ ~jobs[j].wait
                /\ \A k \in 1..(j - 1) : jobs[k].status = "queued" => jobs[k].wait

(* The loop looks for a job: the runner's between jobs, a drain when it      *)
(* starts (executionMode: the backend is up and no runner heartbeats) and,    *)
(* without asking again, after each job of its share.                         *)
Looks(w) == \/ work[w].pc = "next"
            \/ /\ w \in Drains /\ work[w].pc = "off"
               /\ backend.up /\ backend.sweep = {} /\ ~runner.beat

(* A job done: a drain goes on only while it finds another. *)
NextJob(w) ==
    LET goesOn == work[w].ran + 1 < Share /\ \E j \in DOMAIN jobs : Claimable(j) IN
    work' = [work EXCEPT ![w] = IF w = Runner THEN At("next", 0)
                                ELSE IF goesOn THEN At("next", @.ran + 1) ELSE At("off", 0)]

ClaimNextJob(w, j) ==
    /\ Looks(w)
    /\ Claimable(j)
    /\ jobs' = [jobs EXCEPT ![j].status = "running", ![j].owner = Me(w),
                            ![j].epoch = @ + 1, ![j].live = TRUE]
    /\ work' = [work EXCEPT ![w] = [At("lease", work[w].ran) EXCEPT !.job = j, !.epoch = jobs[j].epoch + 1]]
    /\ UNCHANGED <<lease, backend, runner, app, downBy, asked>>

(* The job a drain went on for was claimed by another. *)
DrainEnds(d) ==
    /\ work[d].pc = "next"
    /\ \A j \in DOMAIN jobs : ~Claimable(j)
    /\ work' = [work EXCEPT ![d] = At("off", 0)]
    /\ UNCHANGED <<jobs, lease, backend, runner, app, downBy, asked>>

(* not_before has passed.  A look that meets the same live lease again puts *)
(* the row back as it was; only the one that meets another is taken.        *)
WaitEnds(j) ==
    /\ jobs[j].wait /\ ~lease.live
    /\ jobs' = [jobs EXCEPT ![j].wait = FALSE]
    /\ UNCHANGED <<lease, backend, runner, work, app, downBy, asked>>

Exclusive(j) == jobs[j].kind \in EXCLUSIVE_JOB_KINDS /\ ~jobs[j].followUp
HeldByOther(w) == lease.owner \notin {Nobody, Me(w)} /\ lease.live
StaleOfOther(w) == lease.owner \notin {Nobody, Me(w)} /\ ~lease.live

(* The lease is not to be had: a follow-up goes back to the queue, a restore *)
(* is refused, anything else is deferred.                                    *)
Busy(w) == LET j == work[w].job IN
    /\ work[w].pc = "lease"
    /\ HeldByOther(w) \/ (StaleOfOther(w) /\ Exclusive(j))
    /\ jobs' = CASE jobs[j].followUp -> IF jobs[j].status = "running" THEN Requeued(j, TRUE) ELSE jobs
                 [] Exclusive(j) -> Finished(w, "refused")
                 [] OTHER -> Finished(w, "deferred")
    /\ NextJob(w)
    /\ UNCHANGED <<lease, backend, runner, app, downBy, asked>>

(* acquireLock (free, or reasserted by the same owner) or takeoverLock, and  *)
(* the first command, which checkpoints itself as resumable.                 *)
TakeLease(w) == LET j == work[w].job IN
    /\ work[w].pc = "lease"
    /\ \/ lease.owner \in {Nobody, Me(w)}
       \/ StaleOfOther(w) /\ ~Exclusive(j)
    /\ lease' = [owner |-> Me(w), live |-> TRUE,
                 epoch |-> IF lease.owner = Me(w) THEN lease.epoch ELSE lease.epoch + 1]
    /\ work' = [work EXCEPT ![w].pc = IF jobs[j].kind = "verify_app" THEN "check" ELSE "prepare",
                            ![w].lockEpoch = lease'.epoch]
    /\ jobs' = IF Current(w) THEN [jobs EXCEPT ![j].cp = "resumable"] ELSE jobs
    /\ UNCHANGED <<backend, runner, app, downBy, asked>>

-----------------------------------------------------------------------------
(* The operations.  Every next command passes the fence first, which renews  *)
(* the claim and the lease.                                                  *)

Fence(w) == Current(w) /\ lease' = Renewed(w)

(* A deploy or a restore checkpoints the stop and then stops the unit. *)
StopApp(w) == LET j == work[w].job IN
    /\ work[w].pc = "prepare" /\ jobs[j].kind \in {"deploy", "restore_db"}
    /\ Fence(w)
    /\ jobs' = [jobs EXCEPT ![j].cp = "disruptive", ![j].live = TRUE]
    /\ app' = "down" /\ downBy' = j
    /\ Move(w, "stop")
    /\ UNCHANGED <<backend, runner, asked>>

(* The unit is started, or a start of it fails.  A restore then clears its   *)
(* marker, or keeps app_stopped; a deploy keeps its disruptive one.          *)
StartApp(w) == LET j == work[w].job IN
    /\ \/ work[w].pc = "prepare" /\ jobs[j].kind = "recover_app"
       \/ work[w].pc = "stop"
    /\ Fence(w)
    /\ app' \in {"up", "down"}
    /\ app = "up" /\ jobs[j].kind = "recover_app" => app' = "up"
    /\ downBy' = IF app' = "down" /\ app = "up" THEN j ELSE downBy
    /\ jobs' = [jobs EXCEPT ![j].live = TRUE,
                            ![j].cp = IF jobs[j].kind = "restore_db" /\ app' = "up"
                                      THEN "unit_swapped" ELSE @]
    /\ Move(w, "check")
    /\ UNCHANGED <<backend, runner, asked>>

(* A build, a dump or a look at the unit fails: nothing was changed. *)
FailEarly(w) ==
    /\ work[w].pc = "prepare"
    /\ jobs' = Finished(w, IF jobs[work[w].job].kind = "recover_app"
                           THEN "recovery_required" ELSE "failed")
    /\ Move(w, "release")
    /\ UNCHANGED <<lease, backend, runner, app, downBy, asked>>

(* The operation has looked at what runs: it queues the verification it owes *)
(* and reports.                                                              *)
Report(w, healthy) ==
    LET kind == jobs[work[w].job].kind
        serves == app = "up" /\ healthy
        status == CASE serves -> "succeeded"
                    [] ~serves /\ (kind = "deploy" \/ (kind = "restore_db" /\ app = "down")) -> "failed"
                    [] OTHER -> "recovery_required"
        owes == \/ kind = "restore_db"
                \/ kind = "deploy" /\ (Guarded \/ ~serves)
                \/ kind = "recover_app" /\ Guarded /\ serves
    IN
    /\ work[w].pc = "check"
    /\ jobs' = Finished(w, status) \o (IF owes THEN <<NewJob("verify_app", TRUE)>> ELSE <<>>)
    /\ Move(w, "release")
    /\ UNCHANGED <<lease, backend, runner, app, downBy, asked>>

(* The stop of a restore returns unconfirmed: the job fails where it is, the  *)
(* unit is not started again and no verification is owed.                    *)
StopUnconfirmed(w) ==
    /\ work[w].pc = "stop" /\ jobs[work[w].job].kind = "restore_db"
    /\ jobs' = Finished(w, "failed")
    /\ Move(w, "release")
    /\ UNCHANGED <<lease, backend, runner, app, downBy, asked>>

(* The unit was brought up after a dump or an environment that could not be  *)
(* put in place: the restore failed, and what runs is to be verified.        *)
RestoreFailed(w) ==
    /\ work[w].pc = "check" /\ jobs[work[w].job].kind = "restore_db"
    /\ jobs' = Append(Finished(w, "failed"), NewJob("verify_app", TRUE))
    /\ Move(w, "release")
    /\ UNCHANGED <<lease, backend, runner, app, downBy, asked>>

(* The next command's fence finds the claim gone. *)
Fenced(w) ==
    /\ work[w].pc \in InCommand /\ ~Current(w)
    /\ Move(w, "release")
    /\ UNCHANGED <<jobs, lease, backend, runner, app, downBy, asked>>

(* The finally of executeJob. *)
ReleaseLease(w) ==
    /\ work[w].pc = "release"
    /\ lease' = Released(Me(w), work[w].lockEpoch)
    /\ NextJob(w)
    /\ UNCHANGED <<jobs, backend, runner, app, downBy, asked>>

WorkerStep(w) ==
    \/ \E j \in DOMAIN jobs : ClaimNextJob(w, j)
    \/ Busy(w) \/ TakeLease(w) \/ StopApp(w) \/ StartApp(w) \/ FailEarly(w)
    \/ (\E healthy \in BOOLEAN : Report(w, healthy))
    \/ StopUnconfirmed(w) \/ RestoreFailed(w)
    \/ Fenced(w) \/ ReleaseLease(w)

-----------------------------------------------------------------------------
(* Settling the job of a dead owner: reconcileDecision and what the runner's *)
(* reconcile and the backend's sweep make of it.                             *)

Decision(j, canAct) ==
    CASE jobs[j].cp = "disruptive" -> "recover"
      [] jobs[j].cp = "unit_swapped" -> "verify"
      [] jobs[j].cp = "resumable" /\ canAct -> "resume"
      [] OTHER -> "record_interrupted"

(* Faulty variant: the sweep cannot act, so it records no recovery. *)
SettleSweepForgets(j, canAct) ==
    LET d == Decision(j, canAct) IN
    /\ jobs' = CASE d = "resume" -> Requeued(j, FALSE)
                 [] d = "verify" -> Append(Recorded(j, "interrupted_unverified"),
                                           NewJob("verify_app", TRUE))
                 [] d = "recover" /\ canAct /\ OpenOf({"recover_app"}) = {} ->
                      Append(Recorded(j, "recovery_required"), NewJob("recover_app", TRUE))
                 [] d = "recover" /\ canAct -> Recorded(j, "recovery_required")
                 [] OTHER -> Recorded(j, "interrupted")
    /\ lease' = IF d # "recover" /\ lease.owner = jobs[j].owner THEN NoLease ELSE lease

Settle(j, canAct) ==
    LET d == Decision(j, canAct) IN
    /\ jobs' = CASE d = "resume" -> Requeued(j, FALSE)
                 [] d = "record_interrupted" -> Recorded(j, "interrupted")
                 [] d = "verify" -> Append(Recorded(j, "interrupted_unverified"),
                                           NewJob("verify_app", TRUE))
                 [] d = "recover" /\ OpenOf({"recover_app"}) = {} ->
                      Append(Recorded(j, "recovery_required"), NewJob("recover_app", TRUE))
                 [] OTHER -> Recorded(j, "recovery_required")
    /\ lease' = IF d # "recover" /\ lease.owner = jobs[j].owner THEN NoLease ELSE lease

(* Faulty variant: the runner settles only what runners left. *)
ReconcileRunners(j) ==
    /\ work[Runner].pc = "next"
    /\ Stale(j) /\ jobs[j].owner # Me(Runner) /\ jobs[j].owner[1] = "runner"
    /\ Settle(j, TRUE)
    /\ UNCHANGED <<backend, runner, work, app, downBy, asked>>

(* The runner, between jobs: any expired claim but its own. *)
Reconcile(j) ==
    /\ work[Runner].pc = "next"
    /\ Stale(j) /\ jobs[j].owner # Me(Runner)
    /\ Settle(j, TRUE)
    /\ UNCHANGED <<backend, runner, work, app, downBy, asked>>

(* The backend's sweep takes the jobs its boot found, one by one. *)
SweepJob(j) ==
    /\ backend.up /\ j \in backend.sweep
    /\ backend' = [backend EXCEPT !.sweep = @ \ {j}]
    /\ IF jobs[j].status = "running" THEN Settle(j, FALSE) ELSE UNCHANGED <<jobs, lease>>
    /\ UNCHANGED <<runner, work, app, downBy, asked>>

-----------------------------------------------------------------------------
(* Processes and time. *)

BackendDies ==
    /\ backend.up /\ backend.boot < MaxBoots
    /\ backend' = [backend EXCEPT !.up = FALSE, !.sweep = {}]
    /\ work' = [w \in Workers |-> IF w \in Drains THEN At("off", 0) ELSE work[w]]
    /\ UNCHANGED <<jobs, lease, runner, app, downBy, asked>>

(* sweepSetupEngineOnBoot looks once, at the claims already expired. *)
BackendBoots ==
    /\ ~backend.up
    /\ backend' = [boot |-> backend.boot + 1, up |-> TRUE,
                   sweep |-> {j \in DOMAIN jobs : Stale(j) /\ jobs[j].owner[1] = "backend"}]
    /\ UNCHANGED <<jobs, lease, runner, work, app, downBy, asked>>

RunnerStarts ==
    /\ ~runner.up /\ runner.run < MaxRuns
    /\ runner' = [run |-> runner.run + 1, up |-> TRUE, beat |-> TRUE]
    /\ work' = [work EXCEPT ![Runner] = At("next", 0)]
    /\ UNCHANGED <<jobs, lease, backend, app, downBy, asked>>

(* The last runner stays. *)
RunnerDies ==
    /\ runner.up /\ runner.run < MaxRuns
    /\ runner' = [runner EXCEPT !.up = FALSE]
    /\ work' = [work EXCEPT ![Runner] = At("off", 0)]
    /\ UNCHANGED <<jobs, lease, backend, app, downBy, asked>>

(* Stopped between two jobs, it withdraws its heartbeat itself. *)
RunnerStops ==
    /\ runner.up /\ runner.run < MaxRuns /\ work[Runner].pc = "next"
    /\ runner' = [runner EXCEPT !.up = FALSE, !.beat = FALSE]
    /\ work' = [work EXCEPT ![Runner] = At("off", 0)]
    /\ UNCHANGED <<jobs, lease, backend, app, downBy, asked>>

HeartbeatLapses ==
    /\ runner.beat /\ ~runner.up
    /\ runner' = [runner EXCEPT !.beat = FALSE]
    /\ UNCHANGED <<jobs, lease, backend, work, app, downBy, asked>>

(* Nothing renews a lease while its owner waits for a command, or is gone. *)
Waiting(owner) == \A w \in Workers : Me(w) = owner => work[w].pc \in InCommand \cup {"off", "next"}

JobLapses(j) ==
    /\ jobs[j].status = "running" /\ jobs[j].live
    /\ Gone(jobs[j].owner) \/ Waiting(jobs[j].owner)
    /\ jobs' = [jobs EXCEPT ![j].live = FALSE]
    /\ UNCHANGED <<lease, backend, runner, work, app, downBy, asked>>

LeaseLapses ==
    /\ lease.live
    /\ Gone(lease.owner) \/ Waiting(lease.owner)
    /\ lease' = [lease EXCEPT !.live = FALSE]
    /\ UNCHANGED <<jobs, backend, runner, work, app, downBy, asked>>

Next ==
    \/ SubmitDeploy \/ SubmitRestore \/ RequestAppRecovery
    \/ \E d \in Drains : DrainEnds(d)
    \/ \E w \in Workers : WorkerStep(w)
    \/ \E j \in DOMAIN jobs : WaitEnds(j) \/ Reconcile(j) \/ SweepJob(j) \/ JobLapses(j)
    \/ BackendDies \/ BackendBoots
    \/ RunnerStarts \/ RunnerDies \/ RunnerStops \/ HeartbeatLapses
    \/ LeaseLapses

(* A process that is up goes on with what it does, the backend boots again,  *)
(* systemd restarts an installed runner, drains start and time passes.       *)
Fairness ==
    /\ \A w \in Workers : WF_vars(WorkerStep(w))
    /\ WF_vars(\E j \in DOMAIN jobs : WaitEnds(j))
    /\ WF_vars(\E j \in DOMAIN jobs : Reconcile(j))
    /\ WF_vars(\E j \in DOMAIN jobs : SweepJob(j))
    /\ WF_vars(\E j \in DOMAIN jobs : Gone(jobs[j].owner) /\ JobLapses(j))
    /\ WF_vars(LeaseLapses /\ Gone(lease.owner))
    /\ WF_vars(BackendBoots) /\ WF_vars(RunnerStarts) /\ WF_vars(HeartbeatLapses)

Spec == Init /\ [][Next]_vars /\ Fairness

-----------------------------------------------------------------------------
(* executor.js, reconcileDecision: a job taken from a process that is only   *)
(* slow and run again by another never has two workers beyond its stop: the  *)
(* fence holds the first back before it, and a job past it is not resumed.   *)
OneStop ==
    \A v, w \in Workers :
        /\ v # w
        /\ work[v].pc \in {"stop", "check"} /\ work[w].pc \in {"stop", "check"}
        /\ work[v].job = work[w].job
        => jobs[work[v].job].kind \notin {"deploy", "restore_db"}

(* executor.js, backend.js, R2: while the application is down, the job whose *)
(* command took it down still runs with the stop on its checkpoint, or its   *)
(* record says that it failed or that recovery is required; no dead process, *)
(* sweep or takeover turns it into a success or an interruption that "left   *)
(* nothing changed".                                                         *)
DownIsRecorded ==
    app = "down" =>
        \/ jobs[downBy].status = "running" /\ jobs[downBy].cp = "disruptive"
        \/ jobs[downBy].status \in {"failed", "recovery_required"}

(* docs/features/setup-engine.md, "What happens when the backend dies": a    *)
(* job whose executor dies is settled by the runner or by the boot sweep,    *)
(* whichever comes first; once operators stop asking, no job stays queued or *)
(* running.                                                                  *)
JobsSettle == <>[](\A j \in DOMAIN jobs : ~IsOpen(j))

(* R1 and mock2/deploy.js: two operations never work on the guest at once.   *)
GuestExcluded ==
    \A v, w \in Workers :
        v # w /\ work[v].pc \in InCommand /\ work[w].pc \in InCommand
        => ~(Current(v) /\ Current(w))

=============================================================================
