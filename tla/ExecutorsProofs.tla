--------------------------- MODULE ExecutorsProofs ---------------------------
(***************************************************************************)
(* Theorems about Executors, for every number of drains, backend and       *)
(* runner processes and requests.                                          *)
(***************************************************************************)
EXTENDS Executors, SequenceTheorems, TLAPS

Rows == Seq(JobRow)
Disrupts == {"deploy", "restore_db"}
OnJob(w) == work[w].pc \notin {"off", "next"}

(***************************************************************************)
(* The types, and what a process that is down leaves running: nothing.     *)
(***************************************************************************)
ProcessInv ==
    /\ ~backend.up => backend.boot < MaxBoots /\ \A d \in Drains : work[d].pc = "off"
    /\ runner.up => runner.run \in 1..MaxRuns
    /\ ~runner.up => work[Runner].pc = "off"

(***************************************************************************)
(* What OneStop and DownIsRecorded rest on.  Only a deploy or a restore     *)
(* checkpoints a stop, and neither is a follow-up, which alone goes back to *)
(* the queue without a fence.  Two workers on one open job have different   *)
(* claims, so at most one of them passes a fence; one beyond the stop of an *)
(* open job is that one, and the checkpoint says so.                        *)
(***************************************************************************)
Quiet(j) == jobs[j].cp \in {"none", "resumable"}
RowInv ==
    \A j \in DOMAIN jobs :
        /\ jobs[j].followUp => jobs[j].kind \notin Disrupts
        /\ jobs[j].kind \notin Disrupts \/ jobs[j].status = "queued" => Quiet(j)
ClaimInv ==
    /\ \A w \in Workers :
         OnJob(w) /\ IsOpen(work[w].job) => work[w].epoch <= jobs[work[w].job].epoch
    /\ \A v, w \in Workers :
         v # w /\ OnJob(v) /\ OnJob(w) /\ work[v].job = work[w].job /\ IsOpen(work[w].job)
         => work[v].epoch # work[w].epoch
Beyond(pc) == IF pc = "stop" THEN {"disruptive"} ELSE {"disruptive", "unit_swapped"}
StageInv ==
    \A w \in Workers :
        /\ work[w].pc \in {"lease", "prepare"} /\ Current(w) => Quiet(work[w].job)
        /\ work[w].pc = "stop" => jobs[work[w].job].kind \in Disrupts
        /\ /\ work[w].pc \in {"stop", "check"}
           /\ jobs[work[w].job].kind \in Disrupts
           /\ IsOpen(work[w].job)
           => Current(w) /\ jobs[work[w].job].cp \in Beyond(work[w].pc)
DownInv == DownIsRecorded /\ (app = "down" => downBy \in DOMAIN jobs)
IInv == TypeOK /\ ProcessInv /\ RowInv /\ ClaimInv /\ StageInv /\ OneStop /\ DownInv

-----------------------------------------------------------------------------
(* The table of jobs. *)

(* A row of the table is written. *)
LEMMA RowWritten ==
    ASSUME NEW t \in Rows, NEW j \in DOMAIN t, NEW row \in JobRow
    PROVE  /\ [t EXCEPT ![j] = row] \in Rows
           /\ DOMAIN [t EXCEPT ![j] = row] = DOMAIN t
           /\ [t EXCEPT ![j] = row][j] = row
           /\ \A k \in DOMAIN t \ {j} : [t EXCEPT ![j] = row][k] = t[k]
<1>1. DOMAIN t = 1..Len(t)
  BY DEF Rows
<1> QED
  BY <1>1, ExceptSeq DEF Rows

(* A row is added at the end (store.js createJob). *)
LEMMA RowAdded ==
    ASSUME NEW t \in Rows, NEW row \in JobRow
    PROVE  /\ Append(t, row) \in Rows
           /\ DOMAIN t \subseteq DOMAIN Append(t, row)
           /\ \A k \in DOMAIN t : Append(t, row)[k] = t[k]
           /\ \A k \in DOMAIN Append(t, row) \ DOMAIN t : Append(t, row)[k] = row
           /\ t \o <<row>> = Append(t, row)
           /\ t \o <<>> = t
<1>1. /\ DOMAIN t = 1..Len(t) /\ Len(t) \in Nat
      /\ Append(t, row) \in Seq(JobRow)
      /\ Len(Append(t, row)) = Len(t) + 1
      /\ \A i \in 1..Len(t) : Append(t, row)[i] = t[i]
      /\ Append(t, row)[Len(t) + 1] = row
  BY AppendProperties DEF Rows
<1>2. DOMAIN Append(t, row) = 1..(Len(t) + 1)
  BY <1>1
<1>3. t \o <<row>> = Append(t, row)
  BY AppendIsConcat DEF Rows
<1>4. t \o <<>> = t
  BY ConcatEmptySeq DEF Rows
<1> QED
  BY <1>1, <1>2, <1>3, <1>4 DEF Rows

LEMMA NewJobType ==
    ASSUME NEW kind \in Kinds, NEW followUp \in BOOLEAN
    PROVE  NewJob(kind, followUp) \in JobRow
BY DEF NewJob, JobRow, Statuses, Owners, Checkpoints

(* What ends a job, or puts it back (store.js finishJob, requeueJob). *)
LEMMA RecordedRow ==
    ASSUME jobs \in Rows, NEW j \in DOMAIN jobs, NEW status \in Statuses
    PROVE  /\ Recorded(j, status) \in Rows
           /\ DOMAIN Recorded(j, status) = DOMAIN jobs
           /\ \A k \in DOMAIN jobs \ {j} : Recorded(j, status)[k] = jobs[k]
           /\ Recorded(j, status)[j].status = status
           /\ Recorded(j, status)[j].cp = "none"
           /\ Recorded(j, status)[j].kind = jobs[j].kind
           /\ Recorded(j, status)[j].followUp = jobs[j].followUp
<1> DEFINE row == [NewJob(jobs[j].kind, jobs[j].followUp) EXCEPT !.status = status]
<1>1. jobs[j] \in JobRow
  BY DEF Rows
<1>2. /\ row \in JobRow /\ row.status = status /\ row.cp = "none"
      /\ row.kind = jobs[j].kind /\ row.followUp = jobs[j].followUp
  BY <1>1 DEF NewJob, JobRow, Owners, Checkpoints
<1>3. Recorded(j, status) = [jobs EXCEPT ![j] = row]
  BY DEF Recorded
<1> HIDE DEF row
<1>4. /\ [jobs EXCEPT ![j] = row] \in Rows
      /\ DOMAIN [jobs EXCEPT ![j] = row] = DOMAIN jobs
      /\ [jobs EXCEPT ![j] = row][j] = row
      /\ \A k \in DOMAIN jobs \ {j} : [jobs EXCEPT ![j] = row][k] = jobs[k]
  BY <1>2, RowWritten
<1> QED
  BY <1>2, <1>3, <1>4

LEMMA RequeuedRow ==
    ASSUME jobs \in Rows, NEW j \in DOMAIN jobs, NEW wait \in BOOLEAN
    PROVE  /\ Requeued(j, wait) \in Rows
           /\ DOMAIN Requeued(j, wait) = DOMAIN jobs
           /\ \A k \in DOMAIN jobs \ {j} : Requeued(j, wait)[k] = jobs[k]
           /\ Requeued(j, wait)[j].status = "queued"
           /\ Requeued(j, wait)[j].cp = jobs[j].cp
           /\ Requeued(j, wait)[j].epoch = jobs[j].epoch
           /\ Requeued(j, wait)[j].kind = jobs[j].kind
           /\ Requeued(j, wait)[j].followUp = jobs[j].followUp
<1> DEFINE row == [jobs[j] EXCEPT !.status = "queued", !.owner = Nobody, !.live = FALSE, !.wait = wait]
<1>1. jobs[j] \in JobRow
  BY DEF Rows
<1>2. /\ row \in JobRow /\ row.status = "queued" /\ row.cp = jobs[j].cp
      /\ row.epoch = jobs[j].epoch
      /\ row.kind = jobs[j].kind /\ row.followUp = jobs[j].followUp
  BY <1>1 DEF JobRow, Owners, Statuses
<1>3. Requeued(j, wait) = [jobs EXCEPT ![j] = row]
  BY DEF Requeued
<1> HIDE DEF row
<1>4. /\ [jobs EXCEPT ![j] = row] \in Rows
      /\ DOMAIN [jobs EXCEPT ![j] = row] = DOMAIN jobs
      /\ [jobs EXCEPT ![j] = row][j] = row
      /\ \A k \in DOMAIN jobs \ {j} : [jobs EXCEPT ![j] = row][k] = jobs[k]
  BY <1>2, RowWritten
<1> QED
  BY <1>2, <1>3, <1>4

-----------------------------------------------------------------------------
(***************************************************************************)
(* Most steps leave a row's claim and checkpoint alone, end the row, or put *)
(* it back before anything was stopped, and add rows that nobody claimed;   *)
(* and their workers stay where they are or leave their job.                *)
(***************************************************************************)
SameRow(j) ==
    jobs'[j].kind = jobs[j].kind /\ jobs'[j].followUp = jobs[j].followUp
RowKept(j) ==
    /\ SameRow(j)
    /\ jobs'[j].status = jobs[j].status /\ jobs'[j].owner = jobs[j].owner
    /\ jobs'[j].epoch = jobs[j].epoch /\ jobs'[j].cp = jobs[j].cp
RowEnded(j) ==
    /\ SameRow(j)
    /\ IsOpen(j)
    /\ jobs'[j].status \notin {"queued", "running"} /\ jobs'[j].cp = "none"
    /\ app = "down" /\ jobs[j].cp = "disruptive"
         => jobs'[j].status \in {"failed", "recovery_required"}
RowBack(j) ==
    /\ SameRow(j)
    /\ jobs[j].status = "running" /\ Quiet(j)
    /\ jobs'[j].status = "queued"
    /\ jobs'[j].epoch = jobs[j].epoch /\ jobs'[j].cp = jobs[j].cp
RowNew(k) ==
    /\ jobs'[k].status = "queued" /\ jobs'[k].epoch = 0 /\ jobs'[k].cp = "none"
    /\ jobs'[k].followUp => jobs'[k].kind \notin Disrupts
TableMove ==
    /\ jobs' \in Rows
    /\ DOMAIN jobs \subseteq DOMAIN jobs'
    /\ \A j \in DOMAIN jobs : RowKept(j) \/ RowEnded(j) \/ RowBack(j)
    /\ \A k \in DOMAIN jobs' \ DOMAIN jobs : RowNew(k)
WorkerStays(w) ==
    \/ work'[w].pc \in {"off", "next"}
    \/ /\ OnJob(w) /\ Me(w)' = Me(w)
       /\ work'[w].job = work[w].job /\ work'[w].epoch = work[w].epoch
       /\ work'[w].pc \in {work[w].pc, "release"}

LEMMA TableMoves ==
    ASSUME IInv, TableMove, \A w \in Workers : WorkerStays(w)
    PROVE  RowInv' /\ ClaimInv' /\ StageInv' /\ OneStop'
<1>1. RowInv'
  <2> SUFFICES ASSUME NEW j \in DOMAIN jobs'
               PROVE  /\ jobs'[j].followUp => jobs'[j].kind \notin Disrupts
                      /\ jobs'[j].kind \notin Disrupts \/ jobs'[j].status = "queued"
                           => jobs'[j].cp \in {"none", "resumable"}
    BY DEF RowInv, Quiet
  <2>1. CASE j \in DOMAIN jobs
    BY <2>1 DEF IInv, RowInv, Quiet, TableMove, RowKept, RowEnded, RowBack, SameRow
  <2>2. CASE j \notin DOMAIN jobs
    BY <2>2 DEF TableMove, RowNew
  <2> QED
    BY <2>1, <2>2
<1>2. ASSUME NEW w \in Workers, OnJob(w)'
      PROVE  /\ OnJob(w) /\ work[w].job \in DOMAIN jobs /\ Me(w)' = Me(w)
             /\ work'[w].job = work[w].job /\ work'[w].epoch = work[w].epoch
             /\ work'[w].pc \in {work[w].pc, "release"}
             /\ RowKept(work[w].job) \/ RowEnded(work[w].job) \/ RowBack(work[w].job)
  <2>1. WorkerStays(w)
    OBVIOUS
  <2>2. OnJob(w) => work[w].job \in DOMAIN jobs
    BY DEF OnJob, IInv, TypeOK
  <2> QED
    BY <1>2, <2>1, <2>2 DEF WorkerStays, OnJob, TableMove
<1>3. ASSUME NEW w \in Workers, OnJob(w)', IsOpen(work[w].job)'
      PROVE  /\ IsOpen(work[w].job) /\ jobs'[work[w].job].epoch = jobs[work[w].job].epoch
  BY <1>2, <1>3 DEF IsOpen, RowKept, RowEnded, RowBack
<1>4. ClaimInv'
  <2>1. ASSUME NEW w \in Workers, OnJob(w)', IsOpen(work[w].job)'
        PROVE  work'[w].epoch <= jobs'[work'[w].job].epoch
    BY <2>1, <1>2, <1>3 DEF IInv, ClaimInv
  <2>2. ASSUME NEW v \in Workers, NEW w \in Workers, v # w, OnJob(v)', OnJob(w)',
               work'[v].job = work'[w].job, IsOpen(work[w].job)'
        PROVE  work'[v].epoch # work'[w].epoch
    BY <2>2, <1>2, <1>3 DEF IInv, ClaimInv
  <2> QED
    BY <2>1, <2>2 DEF ClaimInv
<1>5. ASSUME NEW w \in Workers, OnJob(w)', IsOpen(work[w].job)', ~RowBack(work[w].job)
      PROVE  RowKept(work[w].job) /\ (Current(w)' <=> Current(w))
  BY <1>5, <1>2 DEF IsOpen, RowEnded, RowKept, Current
<1>6. StageInv'
  <2> SUFFICES ASSUME NEW w \in Workers
      PROVE /\ work'[w].pc \in {"lease", "prepare"} /\ Current(w)' => Quiet(work[w].job)'
            /\ work'[w].pc = "stop" => jobs'[work'[w].job].kind \in Disrupts
            /\ /\ work'[w].pc \in {"stop", "check"}
               /\ jobs'[work'[w].job].kind \in Disrupts
               /\ IsOpen(work[w].job)'
               => Current(w)' /\ jobs'[work'[w].job].cp \in Beyond(work'[w].pc)
    BY DEF StageInv
  <2>0. work'[w].pc \in {"lease", "prepare", "stop", "check"} =>
          OnJob(w)' /\ work[w].pc = work'[w].pc
    BY <1>2 DEF OnJob
  <2>1. ASSUME work'[w].pc \in {"lease", "prepare"}, Current(w)' PROVE Quiet(work[w].job)'
    <3>1. IsOpen(work[w].job)' /\ ~RowBack(work[w].job)
      BY <2>0, <2>1, <1>2 DEF Current, IsOpen, RowBack
    <3>2. RowKept(work[w].job) /\ Current(w)
      BY <2>0, <2>1, <3>1, <1>5
    <3> QED
      BY <2>0, <2>1, <3>2, <1>2 DEF IInv, StageInv, Quiet, RowKept
  <2>2. ASSUME work'[w].pc = "stop" PROVE jobs'[work'[w].job].kind \in Disrupts
    <3>1. SameRow(work[w].job) /\ work'[w].job = work[w].job
      BY <2>0, <2>2, <1>2 DEF RowKept, RowEnded, RowBack
    <3> QED
      BY <2>0, <2>2, <3>1 DEF IInv, StageInv, SameRow
  <2>3. ASSUME work'[w].pc \in {"stop", "check"}, jobs'[work'[w].job].kind \in Disrupts,
               IsOpen(work[w].job)'
        PROVE  Current(w)' /\ jobs'[work'[w].job].cp \in Beyond(work'[w].pc)
    <3>1. SameRow(work[w].job) /\ work'[w].job = work[w].job /\ IsOpen(work[w].job)
      BY <2>0, <2>3, <1>2, <1>3 DEF RowKept, RowEnded, RowBack
    <3>2. Current(w) /\ jobs[work[w].job].cp \in Beyond(work[w].pc)
      BY <2>0, <2>3, <3>1 DEF IInv, StageInv, SameRow
    <3>3. ~RowBack(work[w].job)
      BY <3>2 DEF RowBack, Quiet, Beyond
    <3>4. RowKept(work[w].job) /\ Current(w)'
      BY <2>0, <2>3, <3>2, <3>3, <1>5
    <3> QED
      BY <2>0, <2>3, <3>1, <3>2, <3>4 DEF RowKept
  <2> QED
    BY <2>1, <2>2, <2>3
<1>7. OneStop'
  <2> SUFFICES ASSUME NEW v \in Workers, NEW w \in Workers, v # w,
                      work'[v].pc \in {"stop", "check"}, work'[w].pc \in {"stop", "check"},
                      work'[v].job = work'[w].job
               PROVE  jobs'[work'[v].job].kind \notin Disrupts
    BY DEF OneStop, Disrupts
  <2>1. /\ OnJob(v)' /\ work[v].pc = work'[v].pc /\ work'[v].job = work[v].job
        /\ OnJob(w)' /\ work[w].pc = work'[w].pc /\ work'[w].job = work[w].job
        /\ SameRow(work[v].job)
    BY <1>2 DEF OnJob, RowKept, RowEnded, RowBack
  <2> QED
    BY <2>1 DEF IInv, OneStop, SameRow, Disrupts
<1> QED
  BY <1>1, <1>4, <1>6, <1>7

(* The application stays as it is, and so does the record of its stop. *)
LEMMA DownStaysRecorded ==
    ASSUME IInv, TableMove, app' = app, downBy' = downBy PROVE DownInv'
<1> SUFFICES ASSUME app = "down" PROVE DownIsRecorded' /\ downBy' \in DOMAIN jobs'
  BY DEF DownInv, DownIsRecorded
<1>1. downBy \in DOMAIN jobs /\ downBy' \in DOMAIN jobs'
  BY DEF IInv, DownInv, TableMove
<1>2. \/ jobs[downBy].status = "running" /\ jobs[downBy].cp = "disruptive"
      \/ jobs[downBy].status \in {"failed", "recovery_required"}
  BY DEF IInv, DownInv, DownIsRecorded
<1>3. RowKept(downBy) \/ RowEnded(downBy) \/ RowBack(downBy)
  BY <1>1 DEF TableMove
<1> QED
  BY <1>1, <1>2, <1>3 DEF DownIsRecorded, RowKept, RowEnded, RowBack, Quiet, IsOpen

-----------------------------------------------------------------------------
(* The moves of the table. *)
Unclaimed(row) ==
    /\ row \in JobRow
    /\ row.status = "queued" /\ row.epoch = 0 /\ row.cp = "none"
    /\ row.followUp => row.kind \notin Disrupts

(* A new job is unclaimed; only a verification or a recovery follows up. *)
LEMMA NewJobUnclaimed ==
    ASSUME NEW kind \in Kinds, NEW followUp \in BOOLEAN, followUp => kind \notin Disrupts
    PROVE  Unclaimed(NewJob(kind, followUp))
BY NewJobType DEF Unclaimed, NewJob

LEMMA TableStays == ASSUME TypeOK, jobs' = jobs PROVE TableMove
BY DEF TypeOK, Rows, TableMove, RowKept, SameRow

LEMMA RowIsAdded ==
    ASSUME TypeOK, NEW row, Unclaimed(row), jobs' = Append(jobs, row) PROVE TableMove
<1>1. jobs \in Rows /\ row \in JobRow
  BY DEF TypeOK, Rows, Unclaimed
<1>2. /\ jobs' \in Rows
      /\ DOMAIN jobs \subseteq DOMAIN jobs'
      /\ \A k \in DOMAIN jobs : jobs'[k] = jobs[k]
      /\ \A k \in DOMAIN jobs' \ DOMAIN jobs : jobs'[k] = row
  BY <1>1, RowAdded
<1> QED
  BY <1>2 DEF TableMove, RowKept, SameRow, RowNew, Unclaimed

(* A job ends, and may queue another (store.js finishJob, recordJobOutcome). *)
LEMMA RowEnds ==
    ASSUME TypeOK, NEW j \in DOMAIN jobs, IsOpen(j),
           NEW status \in Statuses \ {"queued", "running"},
           app = "down" /\ jobs[j].cp = "disruptive" => status \in {"failed", "recovery_required"},
           \/ jobs' = Recorded(j, status)
           \/ \E row : Unclaimed(row) /\ jobs' = Append(Recorded(j, status), row)
    PROVE  TableMove
<1> DEFINE t == Recorded(j, status)
<1>1. jobs \in Rows
  BY DEF TypeOK, Rows
<1>2. /\ t \in Rows
      /\ DOMAIN t = DOMAIN jobs
      /\ \A k \in DOMAIN jobs \ {j} : t[k] = jobs[k]
      /\ t[j].status = status /\ t[j].cp = "none"
      /\ t[j].kind = jobs[j].kind /\ t[j].followUp = jobs[j].followUp
  BY <1>1, RecordedRow
<1>3. jobs' = t \/ \E row : Unclaimed(row) /\ jobs' = Append(t, row)
  OBVIOUS
<1> HIDE DEF t
<1>4. /\ jobs' \in Rows
      /\ DOMAIN jobs \subseteq DOMAIN jobs'
      /\ \A k \in DOMAIN jobs : jobs'[k] = t[k]
      /\ \A k \in DOMAIN jobs' \ DOMAIN jobs : Unclaimed(jobs'[k])
  <2>1. CASE jobs' = t
    BY <1>2, <2>1
  <2>2. ASSUME NEW row, Unclaimed(row), jobs' = Append(t, row) PROVE <1>4!:
    <3>1. row \in JobRow
      BY <2>2 DEF Unclaimed
    <3> QED
      BY <1>2, <2>2, <3>1, RowAdded
  <2> QED
    BY <1>3, <2>1, <2>2
<1>5. \A k \in DOMAIN jobs \ {j} : RowKept(k)
  BY <1>2, <1>4 DEF RowKept, SameRow
<1>6. RowEnded(j)
  BY <1>2, <1>4 DEF RowEnded, SameRow
<1> QED
  BY <1>4, <1>5, <1>6 DEF TableMove, RowNew, Unclaimed

(* A job that stopped nothing goes back to the queue (store.js requeueJob). *)
LEMMA RowGoesBack ==
    ASSUME TypeOK, NEW j \in DOMAIN jobs, NEW wait \in BOOLEAN,
           jobs[j].status = "running", Quiet(j), jobs' = Requeued(j, wait)
    PROVE  TableMove
<1>1. jobs \in Rows
  BY DEF TypeOK, Rows
<1>2. /\ jobs' \in Rows
      /\ DOMAIN jobs' = DOMAIN jobs
      /\ \A k \in DOMAIN jobs \ {j} : jobs'[k] = jobs[k]
      /\ jobs'[j].status = "queued" /\ jobs'[j].cp = jobs[j].cp
      /\ jobs'[j].epoch = jobs[j].epoch
      /\ jobs'[j].kind = jobs[j].kind /\ jobs'[j].followUp = jobs[j].followUp
  BY <1>1, RequeuedRow
<1> QED
  BY <1>2 DEF TableMove, RowKept, RowBack, SameRow

(* Time passes for a job. *)
LEMMA RowLapses ==
    ASSUME TypeOK, NEW j \in DOMAIN jobs,
           \/ jobs' = [jobs EXCEPT ![j].live = FALSE]
           \/ jobs' = [jobs EXCEPT ![j].wait = FALSE]
    PROVE  TableMove
<1>1. jobs \in Rows /\ jobs[j] \in JobRow
  BY DEF TypeOK, Rows
<1>2. PICK row \in JobRow :
        /\ jobs' = [jobs EXCEPT ![j] = row]
        /\ row.kind = jobs[j].kind /\ row.followUp = jobs[j].followUp
        /\ row.status = jobs[j].status /\ row.owner = jobs[j].owner
        /\ row.epoch = jobs[j].epoch /\ row.cp = jobs[j].cp
  <2>1. CASE jobs' = [jobs EXCEPT ![j].live = FALSE]
    <3> DEFINE row == [jobs[j] EXCEPT !.live = FALSE]
    <3>1. row \in JobRow
      BY <1>1 DEF JobRow
    <3> QED
      BY <1>1, <2>1, <3>1 DEF JobRow
  <2>2. CASE jobs' = [jobs EXCEPT ![j].wait = FALSE]
    <3> DEFINE row == [jobs[j] EXCEPT !.wait = FALSE]
    <3>1. row \in JobRow
      BY <1>1 DEF JobRow
    <3> QED
      BY <1>1, <2>2, <3>1 DEF JobRow
  <2> QED
    BY <2>1, <2>2
<1>3. /\ jobs' \in Rows
      /\ DOMAIN jobs' = DOMAIN jobs
      /\ jobs'[j] = row
      /\ \A k \in DOMAIN jobs \ {j} : jobs'[k] = jobs[k]
  BY <1>1, <1>2, RowWritten
<1> QED
  BY <1>2, <1>3 DEF TableMove, RowKept, SameRow

-----------------------------------------------------------------------------
(* Workers and processes. *)
BackendType == [boot : 1..MaxBoots, up : BOOLEAN, sweep : SUBSET DOMAIN jobs]
RunnerType == [run : 0..MaxRuns, up : BOOLEAN, beat : BOOLEAN]
WorkTable == [Workers -> WorkRow]

LEMMA AtType == ASSUME NEW pc \in {"off", "next"}, NEW ran \in Nat PROVE At(pc, ran) \in WorkRow
BY DEF At, WorkRow

(* One worker's row is replaced. *)
LEMMA OneMoves ==
    ASSUME work \in WorkTable, NEW w \in Workers, NEW row \in WorkRow,
           work' = [work EXCEPT ![w] = row]
    PROVE  work' \in WorkTable /\ work'[w] = row /\ \A v \in Workers \ {w} : work'[v] = work[v]
BY DEF WorkTable

LEMMA MoveShape ==
    ASSUME work \in WorkTable, NEW w \in Workers,
           NEW pc \in {"off", "next", "lease", "release"} \cup InCommand, Move(w, pc)
    PROVE  /\ work' \in WorkTable /\ work'[w] = [work[w] EXCEPT !.pc = pc]
           /\ work'[w].pc = pc /\ work'[w].job = work[w].job /\ work'[w].epoch = work[w].epoch
           /\ \A v \in Workers \ {w} : work'[v] = work[v]
<1>1. [work[w] EXCEPT !.pc = pc] \in WorkRow
  BY DEF WorkTable, WorkRow
<1>2. work' = [work EXCEPT ![w] = [work[w] EXCEPT !.pc = pc]]
  BY DEF Move, WorkTable
<1> QED
  BY <1>1, <1>2, OneMoves DEF WorkTable, WorkRow

(* After a job a worker looks for the next one, or ends. *)
LEMMA NextJobShape ==
    ASSUME work \in WorkTable, NEW w \in Workers, NextJob(w)
    PROVE  /\ work' \in WorkTable
           /\ work'[w].pc \in {"off", "next"}
           /\ \A v \in Workers \ {w} : work'[v] = work[v]
<1>1. work[w].ran \in Nat /\ work[w].ran + 1 \in Nat
  BY DEF WorkTable, WorkRow
<1>2. PICK pc \in {"off", "next"}, ran \in Nat : work' = [work EXCEPT ![w] = At(pc, ran)]
  <2>1. CASE w = Runner
    BY <2>1 DEF NextJob, WorkTable
  <2>2. CASE w # Runner /\ work[w].ran + 1 < Share /\ \E j \in DOMAIN jobs : Claimable(j)
    <3>1. work' = [work EXCEPT ![w] = At("next", work[w].ran + 1)]
      BY <2>2 DEF NextJob, WorkTable
    <3> QED
      BY <1>1, <3>1
  <2>3. CASE w # Runner /\ ~(work[w].ran + 1 < Share /\ \E j \in DOMAIN jobs : Claimable(j))
    <3>1. work' = [work EXCEPT ![w] = At("off", 0)]
      BY <2>3 DEF NextJob, WorkTable
    <3> QED
      BY <3>1
  <2> QED
    BY <2>1, <2>2, <2>3
<1>3. At(pc, ran) \in WorkRow /\ At(pc, ran).pc = pc
  BY AtType DEF At
<1> QED
  BY <1>2, <1>3, OneMoves

(* The identity of a worker is the one of its process (backendOwner). *)
LEMMA MeType ==
    ASSUME TypeOK, ProcessInv, NEW w \in Workers, work[w].pc # "off" \/ w \in Drains
    PROVE  Me(w) \in Owners /\ Me(w) # Nobody
<1>1. CASE w = Runner
  <2>1. runner.run \in 1..MaxRuns
    BY <1>1, WorkersAssumption DEF ProcessInv, TypeOK
  <2> QED
    BY <1>1, <2>1 DEF Me, Owners, Nobody
<1>2. CASE w # Runner
  <2>1. backend.boot \in 1..MaxBoots
    BY DEF TypeOK
  <2> QED
    BY <1>2, <2>1 DEF Me, Owners, Nobody
<1> QED
  BY <1>1, <1>2

(* No process starts or ends. *)
LEMMA SameProcesses ==
    ASSUME TypeOK, ProcessInv, UNCHANGED <<backend, runner>>, DOMAIN jobs \subseteq DOMAIN jobs',
           \A w \in Workers : \/ work'[w].pc = "off" \/ work[w].pc # "off"
                              \/ w \in Drains /\ backend.up
    PROVE  /\ backend' \in BackendType' /\ runner' \in RunnerType /\ ProcessInv'
           /\ \A w \in Workers : Me(w)' = Me(w)
<1>1. backend' \in BackendType' /\ runner' \in RunnerType
  BY DEF TypeOK, BackendType, RunnerType
<1>2. ProcessInv'
  BY WorkersAssumption DEF ProcessInv, Workers
<1>3. \A w \in Workers : Me(w)' = Me(w)
  BY DEF Me
<1> QED
  BY <1>1, <1>2, <1>3

(* The type invariant from its parts. *)
LEMMA TypeParts ==
    ASSUME jobs' \in Rows, lease' \in LeaseRow, backend' \in BackendType', runner' \in RunnerType,
           work' \in WorkTable, \A w \in Workers : OnJob(w)' => work'[w].job \in DOMAIN jobs',
           app' \in {"up", "down"}, downBy' \in {0} \cup DOMAIN jobs', asked' \in 0..MaxRequests
    PROVE  TypeOK'
BY DEF TypeOK, Rows, BackendType, RunnerType, WorkTable, OnJob

(* The steps of the first kind keep the invariant. *)
LEMMA QuietStep ==
    ASSUME IInv, TableMove, \A w \in Workers : WorkerStays(w), work' \in WorkTable,
           lease' \in LeaseRow, backend' \in BackendType', runner' \in RunnerType, ProcessInv',
           UNCHANGED <<app, downBy>>, asked' \in 0..MaxRequests
    PROVE  IInv'
<1>1. \A w \in Workers : OnJob(w)' => work'[w].job \in DOMAIN jobs'
  BY DEF IInv, TypeOK, WorkerStays, OnJob, TableMove
<1>2. TypeOK'
  <2>1. app' \in {"up", "down"} /\ downBy' \in {0} \cup DOMAIN jobs' /\ jobs' \in Rows
    BY DEF IInv, TypeOK, TableMove
  <2> QED
    BY <1>1, <2>1, TypeParts
<1>3. RowInv' /\ ClaimInv' /\ StageInv' /\ OneStop'
  BY TableMoves
<1>4. DownInv'
  BY DownStaysRecorded
<1> QED
  BY <1>2, <1>3, <1>4 DEF IInv

(* One worker leaves its job, or moves to its release. *)
LEMMA OneLeaves ==
    ASSUME IInv, TableMove, UNCHANGED <<backend, runner, app, downBy, asked>>, lease' \in LeaseRow,
           NEW w \in Workers, work[w].pc # "off", work' \in WorkTable,
           \A v \in Workers \ {w} : work'[v] = work[v],
           \/ work'[w].pc \in {"off", "next"}
           \/ /\ OnJob(w) /\ work'[w].pc = "release"
              /\ work'[w].job = work[w].job /\ work'[w].epoch = work[w].epoch
    PROVE  IInv'
<1>1. /\ backend' \in BackendType' /\ runner' \in RunnerType /\ ProcessInv'
      /\ \A v \in Workers : Me(v)' = Me(v)
  BY SameProcesses DEF IInv, TableMove
<1>2. \A v \in Workers : WorkerStays(v)
  BY <1>1 DEF WorkerStays, OnJob
<1>3. asked' \in 0..MaxRequests
  BY DEF IInv, TypeOK
<1> QED
  BY <1>1, <1>2, <1>3, QuietStep

(* No worker moves. *)
LEMMA NoneMoves ==
    ASSUME IInv, TableMove, UNCHANGED <<backend, runner, work, app, downBy>>, lease' \in LeaseRow,
           asked' \in 0..MaxRequests
    PROVE  IInv'
<1>1. /\ backend' \in BackendType' /\ runner' \in RunnerType /\ ProcessInv'
      /\ \A v \in Workers : Me(v)' = Me(v)
  BY SameProcesses DEF IInv, TableMove
<1>2. \A v \in Workers : WorkerStays(v)
  BY <1>1 DEF WorkerStays, OnJob
<1>3. work' \in WorkTable
  BY DEF IInv, TypeOK, WorkTable
<1> QED
  BY <1>1, <1>2, <1>3, QuietStep

-----------------------------------------------------------------------------
(* Every step keeps the invariant. *)

LEMMA LeaseTypes ==
    ASSUME IInv, NEW w \in Workers, NEW owner, NEW epoch
    PROVE  NoLease \in LeaseRow /\ Released(owner, epoch) \in LeaseRow /\ Renewed(w) \in LeaseRow
<1>1. lease \in LeaseRow
  BY DEF IInv, TypeOK
<1> QED
  BY <1>1 DEF LeaseRow, NoLease, Owners, Released, Renewed

(* finishJob, by a worker on its job. *)
LEMMA FinishedMove ==
    ASSUME IInv, NEW w \in Workers, OnJob(w), NEW status \in Statuses \ {"queued", "running"},
           /\ Current(w) /\ app = "down" /\ jobs[work[w].job].cp = "disruptive"
           => status \in {"failed", "recovery_required"},
           \/ jobs' = Finished(w, status)
           \/ \E row : Unclaimed(row) /\ jobs' = Append(Finished(w, status), row)
    PROVE  TableMove
<1>0. TypeOK /\ work[w].job \in DOMAIN jobs
  BY DEF IInv, TypeOK, OnJob
<1>1. CASE Current(w)
  <2>1. Finished(w, status) = Recorded(work[w].job, status)
    BY <1>1 DEF Finished
  <2>2. IsOpen(work[w].job)
    BY <1>1 DEF Current, IsOpen
  <2> QED
    BY <1>0, <1>1, <2>1, <2>2, RowEnds
<1>2. CASE ~Current(w)
  <2>1. Finished(w, status) = jobs
    BY <1>2 DEF Finished
  <2> QED
    BY <1>0, <2>1, TableStays, RowIsAdded
<1> QED
  BY <1>1, <1>2

(* The operators' requests (orchestrator.js, mock2/deploy.js). *)
LEMMA RequestStep ==
    ASSUME IInv, SubmitDeploy \/ SubmitRestore \/ RequestAppRecovery
    PROVE  IInv'
<1>1. PICK kind \in Kinds : Asks(kind) /\ Serving
  BY DEF SubmitDeploy, SubmitRestore, RequestAppRecovery, Kinds
<1>2. TableMove
  BY <1>1, NewJobUnclaimed, RowIsAdded DEF Asks, IInv
<1>3. asked' \in 0..MaxRequests
  BY <1>1, BoundsAssumption DEF Asks, Serving, IInv, TypeOK
<1>4. lease' \in LeaseRow
  BY <1>1 DEF Asks, IInv, TypeOK
<1> QED
  BY <1>1, <1>2, <1>3, <1>4, NoneMoves DEF Asks

(* A drain finds nothing more; a worker is fenced off, or releases. *)
LEMMA LeavingStep ==
    ASSUME IInv, NEW w \in Workers, DrainEnds(w) \/ Fenced(w) \/ ReleaseLease(w)
    PROVE  IInv'
<1>0. TypeOK /\ work \in WorkTable /\ lease \in LeaseRow
  BY DEF IInv, TypeOK, WorkTable
<1>1. TableMove
  BY <1>0, TableStays DEF DrainEnds, Fenced, ReleaseLease
<1>2. CASE DrainEnds(w)
  <2>1. At("off", 0) \in WorkRow /\ At("off", 0).pc = "off"
    BY AtType DEF At
  <2>2. work' \in WorkTable /\ work'[w].pc = "off" /\ \A v \in Workers \ {w} : work'[v] = work[v]
    BY <1>0, <1>2, <2>1, OneMoves DEF DrainEnds
  <2> QED
    BY <1>0, <1>1, <1>2, <2>2, OneLeaves DEF DrainEnds
<1>3. CASE Fenced(w)
  <2>1. OnJob(w) /\ work[w].pc # "off"
    BY <1>3 DEF Fenced, OnJob, InCommand
  <2>2. /\ work' \in WorkTable /\ work'[w].pc = "release" /\ work'[w].job = work[w].job
        /\ work'[w].epoch = work[w].epoch /\ \A v \in Workers \ {w} : work'[v] = work[v]
    BY <1>0, <1>3, MoveShape DEF Fenced
  <2> QED
    BY <1>0, <1>1, <1>3, <2>1, <2>2, OneLeaves DEF Fenced
<1>4. CASE ReleaseLease(w)
  <2>1. /\ work' \in WorkTable /\ work'[w].pc \in {"off", "next"}
        /\ \A v \in Workers \ {w} : work'[v] = work[v]
    BY <1>0, <1>4, NextJobShape DEF ReleaseLease
  <2>2. lease' \in LeaseRow
    BY <1>4, LeaseTypes DEF ReleaseLease
  <2> QED
    BY <1>1, <1>4, <2>1, <2>2, OneLeaves DEF ReleaseLease
<1> QED
  BY <1>2, <1>3, <1>4

(* The lease is not to be had (executor.js busy). *)
LEMMA BusyStep ==
    ASSUME IInv, NEW w \in Workers, Busy(w)
    PROVE  IInv'
<1> DEFINE j == work[w].job
<1>0. TypeOK /\ work \in WorkTable /\ lease \in LeaseRow
  BY DEF IInv, TypeOK, WorkTable
<1>1. OnJob(w) /\ work[w].pc = "lease" /\ j \in DOMAIN jobs /\ jobs[j] \in JobRow
  BY <1>0 DEF Busy, OnJob, TypeOK
<1>2. /\ work' \in WorkTable /\ work'[w].pc \in {"off", "next"}
      /\ \A v \in Workers \ {w} : work'[v] = work[v]
  BY <1>0, NextJobShape DEF Busy
<1>3. TableMove
  <2>1. CASE jobs[j].followUp
    <3>1. Quiet(j)
      BY <1>1, <2>1 DEF IInv, RowInv
    <3>2. jobs' = IF jobs[j].status = "running" THEN Requeued(j, TRUE) ELSE jobs
      BY <2>1 DEF Busy, Exclusive
    <3> QED
      BY <1>0, <1>1, <3>1, <3>2, RowGoesBack, TableStays
  <2>2. CASE ~jobs[j].followUp
    <3>1. PICK status \in {"refused", "deferred"} : jobs' = Finished(w, status)
      BY <2>2 DEF Busy
    <3>2. Current(w) => jobs[j].cp # "disruptive"
      BY <1>1 DEF IInv, StageInv, Quiet
    <3>3. status \in Statuses \ {"queued", "running"}
      BY DEF Statuses
    <3> QED
      BY <1>1, <3>1, <3>2, <3>3, FinishedMove
  <2> QED
    BY <2>1, <2>2
<1> QED
  BY <1>0, <1>1, <1>2, <1>3, OneLeaves DEF Busy

(* An operation ends (executor.js executeJob). *)
LEMMA EndingStep ==
    ASSUME IInv, NEW w \in Workers,
           \/ FailEarly(w) \/ StopUnconfirmed(w) \/ RestoreFailed(w)
           \/ \E healthy \in BOOLEAN : Report(w, healthy)
    PROVE  IInv'
<1>0. TypeOK /\ work \in WorkTable /\ lease \in LeaseRow
  BY DEF IInv, TypeOK, WorkTable
<1>1. OnJob(w) /\ work[w].pc # "off" /\ Move(w, "release")
  BY DEF FailEarly, StopUnconfirmed, RestoreFailed, Report, OnJob
<1>2. /\ work' \in WorkTable /\ work'[w].pc = "release" /\ work'[w].job = work[w].job
      /\ work'[w].epoch = work[w].epoch /\ \A v \in Workers \ {w} : work'[v] = work[v]
  BY <1>0, <1>1, MoveShape
<1>3. TableMove
  <2>1. CASE FailEarly(w) \/ StopUnconfirmed(w)
    <3>1. PICK status \in {"failed", "recovery_required"} : jobs' = Finished(w, status)
      BY <2>1 DEF FailEarly, StopUnconfirmed
    <3>2. status \in Statuses \ {"queued", "running"}
      BY DEF Statuses
    <3> QED
      BY <1>1, <3>1, <3>2, FinishedMove
  <2>2. ASSUME NEW healthy \in BOOLEAN, Report(w, healthy) PROVE TableMove
    <3>1. PICK status \in {"succeeded", "failed", "recovery_required"}, owes \in BOOLEAN :
            /\ app = "down" => status # "succeeded"
            /\ jobs' = Finished(w, status) \o (IF owes THEN <<NewJob("verify_app", TRUE)>> ELSE <<>>)
      BY <2>2 DEF Report
    <3>2. status \in Statuses \ {"queued", "running"}
      BY DEF Statuses
    <3>3. Unclaimed(NewJob("verify_app", TRUE)) /\ NewJob("verify_app", TRUE) \in JobRow
      BY NewJobUnclaimed DEF Kinds, Disrupts, Unclaimed
    <3>4. Finished(w, status) \in Rows
      BY <1>0, <1>1, <3>2, RecordedRow DEF Finished, TypeOK, Rows, OnJob
    <3>5. jobs' = Finished(w, status) \/ jobs' = Append(Finished(w, status), NewJob("verify_app", TRUE))
      BY <3>1, <3>3, <3>4, RowAdded
    <3> QED
      BY <1>1, <3>1, <3>2, <3>3, <3>5, FinishedMove
  <2>3. CASE RestoreFailed(w)
    <3>1. Unclaimed(NewJob("verify_app", TRUE))
      BY NewJobUnclaimed DEF Kinds, Disrupts
    <3>2. jobs' = Append(Finished(w, "failed"), NewJob("verify_app", TRUE))
      BY <2>3 DEF RestoreFailed
    <3>3. "failed" \in Statuses \ {"queued", "running"}
      BY DEF Statuses
    <3> QED
      BY <1>1, <3>1, <3>2, <3>3, FinishedMove
  <2> QED
    BY <2>1, <2>2, <2>3
<1>4. UNCHANGED <<lease, backend, runner, app, downBy, asked>>
  BY DEF FailEarly, StopUnconfirmed, RestoreFailed, Report
<1> QED
  BY <1>0, <1>1, <1>2, <1>3, <1>4, OneLeaves

(* A dead owner's job is settled (executor.js reconcile, backend.js sweep). *)
LEMMA SettleMove ==
    ASSUME IInv, NEW j \in DOMAIN jobs, NEW canAct \in BOOLEAN, jobs[j].status = "running",
           Settle(j, canAct)
    PROVE  TableMove /\ lease' \in LeaseRow
<1> DEFINE d == Decision(j, canAct)
<1>0. TypeOK /\ lease \in LeaseRow /\ jobs[j] \in JobRow /\ IsOpen(j)
  BY DEF IInv, TypeOK, IsOpen
<1>1. lease' \in LeaseRow
  <2>1. NoLease \in LeaseRow
    BY DEF LeaseRow, NoLease, Owners
  <2> QED
    BY <1>0, <2>1 DEF Settle
<1>2. d \in {"recover", "verify", "resume", "record_interrupted"}
  BY DEF Decision
<1>3. /\ d = "resume" => jobs[j].cp = "resumable"
      /\ d # "recover" => jobs[j].cp # "disruptive"
  BY DEF Decision
<1>4. /\ Unclaimed(NewJob("verify_app", TRUE))
      /\ Unclaimed(NewJob("recover_app", TRUE))
  BY NewJobUnclaimed DEF Kinds, Disrupts
<1>5. \/ d = "resume" /\ jobs' = Requeued(j, FALSE)
      \/ d = "record_interrupted" /\ jobs' = Recorded(j, "interrupted")
      \/ d = "verify" /\ jobs' = Append(Recorded(j, "interrupted_unverified"), NewJob("verify_app", TRUE))
      \/ d = "recover" /\ jobs' = Append(Recorded(j, "recovery_required"), NewJob("recover_app", TRUE))
      \/ d = "recover" /\ jobs' = Recorded(j, "recovery_required")
  BY <1>2 DEF Settle
<1>6. {"interrupted", "interrupted_unverified", "recovery_required"} \subseteq Statuses \ {"queued", "running"}
  BY DEF Statuses
<1> HIDE DEF d
<1>7. TableMove
  <2>1. CASE d = "resume" /\ jobs' = Requeued(j, FALSE)
    BY <1>0, <1>3, <2>1, RowGoesBack DEF Quiet
  <2>2. CASE d = "record_interrupted" /\ jobs' = Recorded(j, "interrupted")
    BY <1>0, <1>3, <1>6, <2>2, RowEnds
  <2>3. CASE d = "verify" /\ jobs' = Append(Recorded(j, "interrupted_unverified"), NewJob("verify_app", TRUE))
    BY <1>0, <1>3, <1>4, <1>6, <2>3, RowEnds
  <2>4. CASE d = "recover" /\ jobs' = Append(Recorded(j, "recovery_required"), NewJob("recover_app", TRUE))
    BY <1>0, <1>4, <1>6, <2>4, RowEnds
  <2>5. CASE d = "recover" /\ jobs' = Recorded(j, "recovery_required")
    BY <1>0, <1>6, <2>5, RowEnds
  <2> QED
    BY <1>5, <2>1, <2>2, <2>3, <2>4, <2>5
<1> QED
  BY <1>1, <1>7

LEMMA SettlingStep ==
    ASSUME IInv, NEW j \in DOMAIN jobs, Reconcile(j) \/ SweepJob(j)
    PROVE  IInv'
<1>0. TypeOK /\ asked \in 0..MaxRequests /\ lease \in LeaseRow
  BY DEF IInv, TypeOK
<1>1. CASE Reconcile(j)
  <2>1. TableMove /\ lease' \in LeaseRow
    BY <1>1, SettleMove DEF Reconcile, Stale
  <2> QED
    BY <1>0, <1>1, <2>1, NoneMoves DEF Reconcile
<1>2. CASE SweepJob(j)
  <2>1. TableMove /\ lease' \in LeaseRow
    BY <1>0, <1>2, SettleMove, TableStays DEF SweepJob
  <2>2. /\ backend' \in BackendType' /\ backend'.up = backend.up /\ backend'.boot = backend.boot
        /\ runner' \in RunnerType /\ work' \in WorkTable /\ asked' \in 0..MaxRequests
    <3>1. backend' = [backend EXCEPT !.sweep = @ \ {j}] /\ backend \in BackendType
      BY <1>0, <1>2 DEF SweepJob, TypeOK, BackendType
    <3>2. DOMAIN jobs \subseteq DOMAIN jobs'
      BY <2>1 DEF TableMove
    <3> QED
      BY <1>0, <1>2, <3>1, <3>2 DEF SweepJob, TypeOK, BackendType, RunnerType, WorkTable
  <2>3. ProcessInv' /\ \A w \in Workers : Me(w)' = Me(w)
    BY <1>2, <2>2 DEF SweepJob, IInv, ProcessInv, Me
  <2>4. \A w \in Workers : WorkerStays(w)
    BY <1>2, <2>3 DEF SweepJob, WorkerStays, OnJob
  <2> QED
    BY <1>2, <2>1, <2>2, <2>3, <2>4, QuietStep DEF SweepJob
<1> QED
  BY <1>1, <1>2

(* Time passes. *)
LEMMA LapseStep ==
    ASSUME IInv, LeaseLapses \/ \E j \in DOMAIN jobs : WaitEnds(j) \/ JobLapses(j)
    PROVE  IInv'
<1>0. TypeOK /\ asked \in 0..MaxRequests /\ lease \in LeaseRow
  BY DEF IInv, TypeOK
<1>1. CASE LeaseLapses
  <2>1. lease' \in LeaseRow
    BY <1>0, <1>1 DEF LeaseLapses, LeaseRow
  <2> QED
    BY <1>0, <1>1, <2>1, TableStays, NoneMoves DEF LeaseLapses
<1>2. ASSUME NEW j \in DOMAIN jobs, WaitEnds(j) \/ JobLapses(j) PROVE IInv'
  BY <1>0, <1>2, RowLapses, NoneMoves DEF WaitEnds, JobLapses
<1> QED
  BY <1>1, <1>2

(* Processes start and end. *)
LEMMA ProcessStep ==
    ASSUME IInv, \/ BackendDies \/ BackendBoots \/ RunnerStarts \/ RunnerDies \/ RunnerStops
                 \/ HeartbeatLapses
    PROVE  IInv'
<1>0. /\ TypeOK /\ ProcessInv /\ asked \in 0..MaxRequests /\ lease \in LeaseRow
      /\ work \in WorkTable /\ backend \in BackendType /\ runner \in RunnerType
      /\ At("off", 0) \in WorkRow /\ At("next", 0) \in WorkRow
      /\ At("off", 0).pc = "off" /\ At("next", 0).pc = "next"
  BY AtType DEF IInv, TypeOK, WorkTable, BackendType, RunnerType, At
<1>1. TableMove /\ UNCHANGED <<jobs, lease, app, downBy, asked>>
  BY <1>0, TableStays
  DEF BackendDies, BackendBoots, RunnerStarts, RunnerDies, RunnerStops, HeartbeatLapses
<1>2. Runner \in Workers /\ Runner \notin Drains /\ Drains \subseteq Workers
      /\ \A w \in Workers : w # Runner => w \in Drains
  BY WorkersAssumption DEF Workers
<1>3. CASE BackendDies
  <2>1. /\ backend' \in BackendType' /\ ~backend'.up /\ backend'.boot < MaxBoots
        /\ runner' = runner /\ runner' \in RunnerType
    BY <1>0, <1>1, <1>3 DEF BackendDies, BackendType
  <2>2. /\ work' \in WorkTable
        /\ \A w \in Workers : work'[w] = IF w \in Drains THEN At("off", 0) ELSE work[w]
    BY <1>0, <1>3 DEF BackendDies, WorkTable
  <2>3. ProcessInv' /\ \A w \in Workers : WorkerStays(w)
    BY <1>0, <1>2, <2>1, <2>2 DEF ProcessInv, WorkerStays, OnJob, Me
  <2> QED
    BY <1>0, <1>1, <2>1, <2>2, <2>3, QuietStep
<1>4. CASE BackendBoots
  <2>1. /\ backend' \in BackendType' /\ backend'.up
        /\ runner' = runner /\ runner' \in RunnerType /\ work' = work /\ work' \in WorkTable
    BY <1>0, <1>1, <1>4, BoundsAssumption DEF BackendBoots, BackendType, ProcessInv
  <2>2. ProcessInv' /\ \A w \in Workers : WorkerStays(w)
    BY <1>0, <1>2, <1>4, <2>1 DEF BackendBoots, ProcessInv, WorkerStays, OnJob, Me
  <2> QED
    BY <1>0, <1>1, <2>1, <2>2, QuietStep
<1>5. CASE RunnerStarts
  <2>1. /\ runner' \in RunnerType /\ runner'.up /\ runner'.run \in 1..MaxRuns
        /\ backend' = backend /\ backend' \in BackendType'
    BY <1>0, <1>1, <1>5, BoundsAssumption DEF RunnerStarts, RunnerType, BackendType
  <2>2. /\ work' \in WorkTable /\ work'[Runner].pc = "next"
        /\ \A w \in Workers \ {Runner} : work'[w] = work[w]
    BY <1>0, <1>2, <1>5, OneMoves DEF RunnerStarts
  <2>3. ProcessInv' /\ \A w \in Workers : WorkerStays(w)
    BY <1>0, <1>2, <2>1, <2>2 DEF ProcessInv, WorkerStays, OnJob, Me
  <2> QED
    BY <1>0, <1>1, <2>1, <2>2, <2>3, QuietStep
<1>6. CASE RunnerDies \/ RunnerStops
  <2>1. /\ runner' \in RunnerType /\ ~runner'.up
        /\ backend' = backend /\ backend' \in BackendType'
    BY <1>0, <1>1, <1>6 DEF RunnerDies, RunnerStops, RunnerType, BackendType
  <2>2. /\ work' \in WorkTable /\ work'[Runner].pc = "off"
        /\ \A w \in Workers \ {Runner} : work'[w] = work[w]
    BY <1>0, <1>2, <1>6, OneMoves DEF RunnerDies, RunnerStops
  <2>3. ProcessInv' /\ \A w \in Workers : WorkerStays(w)
    BY <1>0, <1>2, <2>1, <2>2 DEF ProcessInv, WorkerStays, OnJob, Me
  <2> QED
    BY <1>0, <1>1, <2>1, <2>2, <2>3, QuietStep
<1>7. CASE HeartbeatLapses
  <2>1. /\ runner' \in RunnerType /\ runner'.up = runner.up /\ runner'.run = runner.run
        /\ backend' = backend /\ backend' \in BackendType' /\ work' = work /\ work' \in WorkTable
    BY <1>0, <1>1, <1>7 DEF HeartbeatLapses, RunnerType, BackendType
  <2>2. ProcessInv' /\ \A w \in Workers : WorkerStays(w)
    BY <1>0, <2>1 DEF ProcessInv, WorkerStays, OnJob, Me
  <2> QED
    BY <1>0, <1>1, <2>1, <2>2, QuietStep
<1> QED
  BY <1>3, <1>4, <1>5, <1>6, <1>7

-----------------------------------------------------------------------------
(* The steps that claim a job or checkpoint it. *)

(* A claim is new: whoever is still on the job has an older one. *)
LEMMA ClaimStep ==
    ASSUME IInv, NEW w \in Workers, NEW j \in DOMAIN jobs, ClaimNextJob(w, j)
    PROVE  IInv'
<1> DEFINE e == jobs[j].epoch + 1
           row == [jobs[j] EXCEPT !.status = "running", !.owner = Me(w), !.epoch = e, !.live = TRUE]
           mine == [At("lease", work[w].ran) EXCEPT !.job = j, !.epoch = e]
<1>0. /\ TypeOK /\ ProcessInv /\ asked \in 0..MaxRequests /\ lease \in LeaseRow
      /\ work \in WorkTable /\ work[w] \in WorkRow
      /\ jobs \in Rows /\ jobs[j] \in JobRow /\ app \in {"up", "down"}
  BY DEF IInv, TypeOK, WorkTable, Rows
<1>1. /\ ~OnJob(w) /\ jobs[j].status = "queued"
      /\ work[w].pc # "off" \/ (w \in Drains /\ backend.up)
  <2>1. Looks(w) /\ Claimable(j)
    BY DEF ClaimNextJob
  <2>2. jobs[j].status = "queued"
    BY <2>1 DEF Claimable
  <2> QED
    BY <2>1, <2>2 DEF Looks, OnJob
<1>2. Me(w) \in Owners
  BY <1>0, <1>1, MeType
<1>e. e \in Nat /\ j \in Nat /\ jobs[j].epoch \in Nat
  BY <1>0 DEF JobRow, Rows
<1>5. jobs' = [jobs EXCEPT ![j] = row]
  BY <1>0 DEF ClaimNextJob, Rows
<1>6. work' = [work EXCEPT ![w] = mine]
  BY DEF ClaimNextJob
<1>f. e = jobs[j].epoch + 1
  OBVIOUS
<1> HIDE DEF e
<1>3. /\ row \in JobRow /\ row.kind = jobs[j].kind /\ row.followUp = jobs[j].followUp
      /\ row.status = "running" /\ row.epoch = e /\ row.cp = jobs[j].cp
      /\ row.owner = Me(w)
  BY <1>0, <1>2, <1>e DEF JobRow, Statuses
<1>4. mine \in WorkRow /\ mine.pc = "lease" /\ mine.job = j /\ mine.epoch = e
  BY <1>0, <1>e DEF At, WorkRow
<1> HIDE DEF row, mine
<1>7. /\ jobs' \in Rows /\ DOMAIN jobs' = DOMAIN jobs /\ jobs'[j] = row
      /\ \A k \in DOMAIN jobs \ {j} : jobs'[k] = jobs[k]
  BY <1>0, <1>3, <1>5, RowWritten
<1>8. work' \in WorkTable /\ work'[w] = mine /\ \A v \in Workers \ {w} : work'[v] = work[v]
  BY <1>0, <1>4, <1>6, OneMoves
<1>9. /\ backend' \in BackendType' /\ runner' \in RunnerType /\ ProcessInv'
      /\ \A v \in Workers : Me(v)' = Me(v)
  BY <1>0, <1>1, <1>7, <1>8, SameProcesses DEF ClaimNextJob
<1>10. /\ OnJob(w)' /\ \A v \in Workers \ {w} : OnJob(v)' <=> OnJob(v)
       /\ \A v \in Workers : OnJob(v) => work[v].job \in DOMAIN jobs
  BY <1>0, <1>4, <1>8 DEF OnJob, TypeOK
<1>11. TypeOK'
  <2>1. \A v \in Workers : OnJob(v)' => work'[v].job \in DOMAIN jobs'
    BY <1>4, <1>7, <1>8, <1>10
  <2>2. app' = app /\ downBy' \in {0} \cup DOMAIN jobs' /\ lease' = lease /\ asked' = asked
    BY <1>0, <1>7 DEF ClaimNextJob, TypeOK
  <2> QED
    BY <1>0, <1>7, <1>8, <1>9, <2>1, <2>2, TypeParts
<1>12. RowInv'
  BY <1>1, <1>3, <1>7 DEF IInv, RowInv, Quiet
<1>13. ASSUME NEW v \in Workers \ {w}, OnJob(v), work[v].job = j
       PROVE  work[v].epoch <= e /\ work[v].epoch # e
  <2>1. work[v].epoch <= jobs[j].epoch
    BY <1>1, <1>13 DEF IInv, ClaimInv, IsOpen
  <2>2. work[v].epoch \in Nat
    BY <1>0 DEF WorkTable, WorkRow
  <2> QED
    BY <1>e, <1>f, <2>1, <2>2
<1>14. ClaimInv'
  <2>1. ASSUME NEW v \in Workers, OnJob(v)', IsOpen(work[v].job)'
        PROVE  work'[v].epoch <= jobs'[work'[v].job].epoch
    <3>1. CASE v = w
      BY <1>e, <1>3, <1>4, <1>7, <1>8, <3>1
    <3>2. CASE v # w /\ work[v].job = j
      <4>1. work[v].epoch <= e /\ work'[v] = work[v]
        BY <1>8, <1>10, <1>13, <2>1, <3>2
      <4> QED
        BY <1>3, <1>7, <3>2, <4>1
    <3>3. CASE v # w /\ work[v].job # j
      <4>1. jobs'[work[v].job] = jobs[work[v].job] /\ work'[v] = work[v] /\ OnJob(v)
        BY <1>7, <1>8, <1>10, <2>1, <3>3
      <4> QED
        BY <2>1, <4>1 DEF IInv, ClaimInv, IsOpen
    <3> QED
      BY <3>1, <3>2, <3>3
  <2>2. ASSUME NEW u \in Workers, NEW v \in Workers, u # v, OnJob(u)', OnJob(v)',
               work'[u].job = work'[v].job, IsOpen(work[v].job)'
        PROVE  work'[u].epoch # work'[v].epoch
    <3>1. CASE u = w
      BY <1>4, <1>8, <1>10, <1>13, <2>2, <3>1
    <3>2. CASE v = w
      BY <1>4, <1>8, <1>10, <1>13, <2>2, <3>2
    <3>3. CASE u # w /\ v # w
      <4>1. work'[u] = work[u] /\ work'[v] = work[v] /\ OnJob(u) /\ OnJob(v)
        BY <1>8, <1>10, <2>2, <3>3
      <4>2. IsOpen(work[v].job)
        BY <1>1, <1>7, <1>10, <2>2, <4>1 DEF IsOpen
      <4> QED
        BY <2>2, <4>1, <4>2 DEF IInv, ClaimInv
    <3> QED
      BY <3>1, <3>2, <3>3
  <2> QED
    BY <2>1, <2>2 DEF ClaimInv
<1>15. StageInv'
  <2> SUFFICES ASSUME NEW v \in Workers
      PROVE /\ work'[v].pc \in {"lease", "prepare"} /\ Current(v)' => Quiet(work[v].job)'
            /\ work'[v].pc = "stop" => jobs'[work'[v].job].kind \in Disrupts
            /\ /\ work'[v].pc \in {"stop", "check"}
               /\ jobs'[work'[v].job].kind \in Disrupts
               /\ IsOpen(work[v].job)'
               => Current(v)' /\ jobs'[work'[v].job].cp \in Beyond(work'[v].pc)
    BY DEF StageInv
  <2>1. CASE v = w
    <3>1. Quiet(j)
      BY <1>1 DEF IInv, RowInv
    <3> QED
      BY <1>3, <1>4, <1>7, <1>8, <2>1, <3>1 DEF Quiet
  <2>2. CASE v # w /\ ~OnJob(v)
    BY <1>8, <2>2 DEF OnJob
  <2>3. CASE v # w /\ OnJob(v) /\ work[v].job = j
    <3>1. work'[v] = work[v] /\ jobs'[work'[v].job] = row
      BY <1>7, <1>8, <2>3
    <3>2. ~Current(v)'
      BY <1>3, <1>13, <2>3, <3>1 DEF Current
    <3>3. ~(work[v].pc \in {"stop", "check"} /\ jobs[j].kind \in Disrupts)
      BY <1>1, <2>3 DEF IInv, StageInv, IsOpen, Current
    <3>4. work[v].pc = "stop" => jobs[j].kind \in Disrupts
      BY <2>3 DEF IInv, StageInv
    <3> QED
      BY <1>3, <3>1, <3>2, <3>3, <3>4
  <2>4. CASE v # w /\ OnJob(v) /\ work[v].job # j
    <3>1. work'[v] = work[v] /\ jobs'[work[v].job] = jobs[work[v].job] /\ Me(v)' = Me(v)
      BY <1>7, <1>8, <1>9, <1>10, <2>4
    <3>2. Current(v)' <=> Current(v)
      BY <3>1 DEF Current
    <3> QED
      BY <3>1, <3>2 DEF IInv, StageInv, IsOpen, Quiet
  <2> QED
    BY <2>1, <2>2, <2>3, <2>4
<1>16. OneStop'
  <2>1. \A v \in Workers : OnJob(v) => jobs'[work[v].job].kind = jobs[work[v].job].kind
    BY <1>3, <1>7, <1>10
  <2>2. \A v \in Workers : work'[v].pc \in {"stop", "check"} =>
          v # w /\ work'[v] = work[v] /\ OnJob(v)
    BY <1>4, <1>8 DEF OnJob
  <2> QED
    BY <2>1, <2>2 DEF IInv, OneStop
<1>17. DownInv'
  <2> SUFFICES ASSUME app = "down" PROVE DownIsRecorded' /\ downBy' \in DOMAIN jobs'
    BY DEF DownInv, DownIsRecorded, ClaimNextJob
  <2>1. downBy \in DOMAIN jobs /\ downBy # j /\ downBy' = downBy
    BY <1>1 DEF IInv, DownInv, DownIsRecorded, ClaimNextJob
  <2>2. jobs'[downBy] = jobs[downBy]
    BY <1>7, <2>1
  <2> QED
    BY <1>7, <2>1, <2>2 DEF IInv, DownInv, DownIsRecorded
<1> QED
  BY <1>9, <1>11, <1>12, <1>14, <1>15, <1>16, <1>17 DEF IInv

(* Of the workers on one job only one has the current claim. *)
LEMMA CurrentAlone ==
    ASSUME IInv, NEW v \in Workers, NEW w \in Workers, v # w, OnJob(v), OnJob(w),
           work[v].job = work[w].job, Current(w)
    PROVE  /\ ~Current(v)
           /\ ~(work[v].pc \in {"stop", "check"} /\ jobs[work[v].job].kind \in Disrupts)
<1>1. ~Current(v)
  BY DEF IInv, ClaimInv, Current, IsOpen
<1>2. IsOpen(work[v].job)
  BY DEF Current, IsOpen
<1> QED
  BY <1>1, <1>2 DEF IInv, StageInv

(* A worker goes on to a command, and the holder of the claim checkpoints    *)
(* where it is (executor.js, checkpoint).                                   *)
RowChecked(j, cp) ==
    /\ jobs' \in Rows /\ DOMAIN jobs' = DOMAIN jobs
    /\ \A k \in DOMAIN jobs \ {j} : jobs'[k] = jobs[k]
    /\ SameRow(j)
    /\ jobs'[j].status = jobs[j].status /\ jobs'[j].owner = jobs[j].owner
    /\ jobs'[j].epoch = jobs[j].epoch /\ jobs'[j].cp = cp

LEMMA CheckedRow ==
    ASSUME TypeOK, NEW j \in DOMAIN jobs, NEW cp \in Checkpoints,
           \/ jobs' = [jobs EXCEPT ![j].cp = cp]
           \/ jobs' = [jobs EXCEPT ![j].cp = cp, ![j].live = TRUE]
           \/ jobs' = [jobs EXCEPT ![j].live = TRUE, ![j].cp = cp]
    PROVE  RowChecked(j, cp)
<1>1. jobs \in Rows /\ jobs[j] \in JobRow
  BY DEF TypeOK, Rows
<1>2. PICK row \in JobRow :
        /\ jobs' = [jobs EXCEPT ![j] = row]
        /\ row.kind = jobs[j].kind /\ row.followUp = jobs[j].followUp
        /\ row.status = jobs[j].status /\ row.owner = jobs[j].owner
        /\ row.epoch = jobs[j].epoch /\ row.cp = cp
  <2> DEFINE a == [jobs[j] EXCEPT !.cp = cp]
             b == [jobs[j] EXCEPT !.cp = cp, !.live = TRUE]
             c == [jobs[j] EXCEPT !.live = TRUE, !.cp = cp]
  <2>1. a \in JobRow /\ b \in JobRow /\ c \in JobRow
    BY <1>1 DEF JobRow
  <2>2. jobs' \in {[jobs EXCEPT ![j] = a], [jobs EXCEPT ![j] = b], [jobs EXCEPT ![j] = c]}
    BY <1>1 DEF Rows
  <2> QED
    BY <1>1, <2>1, <2>2 DEF JobRow
<1>3. /\ jobs' \in Rows
      /\ DOMAIN jobs' = DOMAIN jobs
      /\ jobs'[j] = row
      /\ \A k \in DOMAIN jobs \ {j} : jobs'[k] = jobs[k]
  BY <1>1, <1>2, RowWritten
<1> QED
  BY <1>2, <1>3 DEF RowChecked, SameRow

LEMMA CheckpointStep ==
    ASSUME IInv, NEW w \in Workers, OnJob(w), NEW cp, RowChecked(work[w].job, cp),
           Current(w) \/ jobs' = jobs,
           UNCHANGED <<backend, runner, asked>>, lease' \in LeaseRow, app' \in {"up", "down"},
           downBy' \in {0} \cup DOMAIN jobs,
           work' \in WorkTable, \A v \in Workers \ {w} : work'[v] = work[v],
           work'[w].job = work[w].job, work'[w].epoch = work[w].epoch, work'[w].pc \in InCommand,
           jobs[work[w].job].kind \notin Disrupts => cp \in {"none", "resumable"},
           work'[w].pc = "prepare" /\ Current(w) => cp \in {"none", "resumable"},
           work'[w].pc = "stop" => jobs[work[w].job].kind \in Disrupts,
           work'[w].pc \in {"stop", "check"} /\ jobs[work[w].job].kind \in Disrupts
             => Current(w) /\ cp \in Beyond(work'[w].pc),
           DownInv'
    PROVE  IInv'
<1> DEFINE j == work[w].job
<1>0. TypeOK /\ ProcessInv /\ asked' \in 0..MaxRequests /\ j \in DOMAIN jobs
  BY DEF IInv, TypeOK, OnJob
<1>1. /\ jobs' \in Rows /\ DOMAIN jobs' = DOMAIN jobs
      /\ \A k \in DOMAIN jobs \ {j} : jobs'[k] = jobs[k]
      /\ jobs'[j].kind = jobs[j].kind /\ jobs'[j].followUp = jobs[j].followUp
      /\ jobs'[j].status = jobs[j].status /\ jobs'[j].owner = jobs[j].owner
      /\ jobs'[j].epoch = jobs[j].epoch /\ jobs'[j].cp = cp
  BY DEF RowChecked, SameRow
<1>2. OnJob(w)' /\ work[w].pc # "off" /\ \A v \in Workers \ {w} : OnJob(v)' <=> OnJob(v)
  BY DEF OnJob, InCommand
<1>3. /\ backend' \in BackendType' /\ runner' \in RunnerType /\ ProcessInv'
      /\ \A v \in Workers : Me(v)' = Me(v)
  BY <1>0, <1>1, <1>2, SameProcesses
<1>4. \A v \in Workers : OnJob(v) =>
        /\ work[v].job \in DOMAIN jobs /\ OnJob(v)'
        /\ work'[v].job = work[v].job /\ work'[v].epoch = work[v].epoch
        /\ jobs'[work[v].job].epoch = jobs[work[v].job].epoch
        /\ jobs'[work[v].job].kind = jobs[work[v].job].kind
        /\ IsOpen(work[v].job)' <=> IsOpen(work[v].job)
        /\ Current(v)' <=> Current(v)
  <2> SUFFICES ASSUME NEW v \in Workers, OnJob(v) PROVE <1>4!(v)!2
    OBVIOUS
  <2>1. /\ work[v].job \in DOMAIN jobs /\ OnJob(v)'
        /\ work'[v].job = work[v].job /\ work'[v].epoch = work[v].epoch
    BY <1>0, <1>2 DEF TypeOK, OnJob
  <2>2. /\ jobs'[work[v].job].epoch = jobs[work[v].job].epoch
        /\ jobs'[work[v].job].kind = jobs[work[v].job].kind
        /\ jobs'[work[v].job].status = jobs[work[v].job].status
        /\ jobs'[work[v].job].owner = jobs[work[v].job].owner
    BY <1>1, <2>1
  <2> QED
    BY <1>3, <2>1, <2>2 DEF IsOpen, Current
<1>5. TypeOK'
  <2>1. \A v \in Workers : OnJob(v)' => work'[v].job \in DOMAIN jobs'
    BY <1>1, <1>2, <1>4
  <2> QED
    BY <1>0, <1>1, <1>3, <2>1, TypeParts
<1>6. RowInv'
  <2>1. jobs[j].status = "queued" => jobs' = jobs
    BY DEF Current
  <2> QED
    BY <1>1, <2>1 DEF IInv, RowInv, Quiet
<1>7. ClaimInv'
  BY <1>2, <1>4 DEF IInv, ClaimInv
<1>8. StageInv'
  <2> SUFFICES ASSUME NEW v \in Workers
      PROVE /\ work'[v].pc \in {"lease", "prepare"} /\ Current(v)' => Quiet(work[v].job)'
            /\ work'[v].pc = "stop" => jobs'[work'[v].job].kind \in Disrupts
            /\ /\ work'[v].pc \in {"stop", "check"}
               /\ jobs'[work'[v].job].kind \in Disrupts
               /\ IsOpen(work[v].job)'
               => Current(v)' /\ jobs'[work'[v].job].cp \in Beyond(work'[v].pc)
    BY DEF StageInv
  <2>1. CASE v = w
    BY <1>1, <1>4, <2>1 DEF Quiet, InCommand
  <2>2. CASE v # w /\ ~OnJob(v)
    BY <2>2 DEF OnJob
  <2>3. CASE v # w /\ OnJob(v) /\ jobs'[work[v].job] = jobs[work[v].job]
    <3>1. work'[v] = work[v]
      BY <2>3
    <3> QED
      BY <1>4, <2>3, <3>1 DEF IInv, StageInv, Quiet
  <2>4. CASE v # w /\ OnJob(v) /\ jobs'[work[v].job] # jobs[work[v].job]
    <3>1. work[v].job = work[w].job /\ Current(w) /\ work'[v] = work[v]
      BY <1>1, <1>4, <2>4
    <3>2. /\ ~Current(v)
          /\ ~(work[v].pc \in {"stop", "check"} /\ jobs[work[v].job].kind \in Disrupts)
      BY <2>4, <3>1, CurrentAlone
    <3>3. work[v].pc = "stop" => jobs[work[v].job].kind \in Disrupts
      BY DEF IInv, StageInv
    <3> QED
      BY <1>4, <2>4, <3>1, <3>2, <3>3
  <2> QED
    BY <2>1, <2>2, <2>3, <2>4
<1>9. OneStop'
  <2>1. ASSUME NEW v \in Workers, v # w, work'[v].pc \in {"stop", "check"},
               work'[w].pc \in {"stop", "check"}, work'[v].job = work'[w].job
        PROVE  jobs[j].kind \notin Disrupts
    <3>1. OnJob(v) /\ work'[v] = work[v]
      BY <2>1 DEF OnJob
    <3> QED
      BY <2>1, <3>1, CurrentAlone
  <2>2. ASSUME NEW u \in Workers, NEW v \in Workers, u # v,
               work'[u].pc \in {"stop", "check"}, work'[v].pc \in {"stop", "check"},
               work'[u].job = work'[v].job
        PROVE  jobs'[work'[u].job].kind \notin Disrupts
    <3>1. CASE u = w
      BY <1>1, <2>1, <2>2, <3>1
    <3>2. CASE v = w
      BY <1>1, <2>1, <2>2, <3>2
    <3>3. CASE u # w /\ v # w
      <4>1. work'[u] = work[u] /\ work'[v] = work[v] /\ OnJob(u)
        BY <2>2, <3>3 DEF OnJob
      <4> QED
        BY <1>4, <2>2, <4>1 DEF IInv, OneStop, Disrupts
    <3> QED
      BY <3>1, <3>2, <3>3
  <2> QED
    BY <2>2 DEF OneStop, Disrupts
<1> QED
  BY <1>3, <1>5, <1>6, <1>7, <1>8, <1>9 DEF IInv

LEMMA UncheckedRow ==
    ASSUME TypeOK, NEW j \in DOMAIN jobs, jobs' = jobs
    PROVE  RowChecked(j, jobs[j].cp)
BY DEF TypeOK, Rows, RowChecked, SameRow

(* The lease is taken, and the first command checkpointed. *)
LEMMA TakeLeaseStep ==
    ASSUME IInv, NEW w \in Workers, TakeLease(w)
    PROVE  IInv'
<1> DEFINE j == work[w].job
           e == IF lease.owner = Me(w) THEN lease.epoch ELSE lease.epoch + 1
           pc == IF jobs[j].kind = "verify_app" THEN "check" ELSE "prepare"
           row == [work[w] EXCEPT !.pc = pc, !.lockEpoch = e]
<1>0. /\ TypeOK /\ ProcessInv /\ OnJob(w) /\ j \in DOMAIN jobs /\ lease \in LeaseRow
      /\ work \in WorkTable /\ work[w] \in WorkRow /\ jobs[j] \in JobRow /\ work[w].pc = "lease"
  BY DEF IInv, TypeOK, TakeLease, OnJob, WorkTable
<1>1. e \in Nat
  BY <1>0 DEF LeaseRow
<1>2. Me(w) \in Owners
  BY <1>0, MeType
<1>3. lease' = [owner |-> Me(w), live |-> TRUE, epoch |-> e] /\ lease'.epoch = e
  BY DEF TakeLease
<1> HIDE DEF e
<1>4. lease' \in LeaseRow
  BY <1>1, <1>2, <1>3 DEF LeaseRow
<1>5. work' = [work EXCEPT ![w] = row]
  BY <1>0, <1>3 DEF TakeLease, WorkTable
<1>6. /\ pc \in InCommand /\ row \in WorkRow /\ row.pc = pc /\ row.job = j
      /\ row.epoch = work[w].epoch
  BY <1>0, <1>1 DEF WorkRow, InCommand
<1> HIDE DEF row
<1>7. work' \in WorkTable /\ work'[w] = row /\ \A v \in Workers \ {w} : work'[v] = work[v]
  BY <1>0, <1>5, <1>6, OneMoves
<1>8. PICK cp : /\ RowChecked(j, cp)
                /\ Current(w) => cp = "resumable"
                /\ ~Current(w) => cp = jobs[j].cp /\ jobs' = jobs
  <2>1. CASE Current(w)
    <3>1. jobs' = [jobs EXCEPT ![j].cp = "resumable"]
      BY <2>1 DEF TakeLease
    <3>2. RowChecked(j, "resumable")
      BY <1>0, <3>1, CheckedRow DEF Checkpoints
    <3> QED
      BY <2>1, <3>2
  <2>2. CASE ~Current(w)
    <3>1. jobs' = jobs
      BY <2>2 DEF TakeLease
    <3>2. RowChecked(j, jobs[j].cp)
      BY <1>0, <3>1, UncheckedRow
    <3> QED
      BY <2>2, <3>1, <3>2
  <2> QED
    BY <2>1, <2>2
<1>9. jobs[j].kind \notin Disrupts => cp \in {"none", "resumable"}
  BY <1>0, <1>8 DEF IInv, RowInv, Quiet
<1>10. DownInv'
  <2> SUFFICES ASSUME app = "down" PROVE DownIsRecorded' /\ downBy' \in DOMAIN jobs'
    BY DEF DownInv, DownIsRecorded, TakeLease
  <2>1. downBy \in DOMAIN jobs /\ downBy' = downBy
    BY DEF IInv, DownInv, TakeLease
  <2>2. Current(w) => Quiet(j) /\ jobs[j].status = "running"
    BY <1>0 DEF IInv, StageInv, Current
  <2>3. Current(w) => downBy # j
    BY <2>2 DEF IInv, DownInv, DownIsRecorded, Quiet
  <2>4. jobs'[downBy] = jobs[downBy] /\ downBy \in DOMAIN jobs'
    BY <1>8, <2>1, <2>3 DEF RowChecked
  <2> QED
    BY <2>1, <2>4 DEF IInv, DownInv, DownIsRecorded
<1>11. UNCHANGED <<backend, runner, asked, app, downBy>>
  BY DEF TakeLease
<1>12. /\ app' \in {"up", "down"} /\ downBy' \in {0} \cup DOMAIN jobs
       /\ pc # "stop" /\ (pc = "check" => jobs[j].kind \notin Disrupts)
  BY <1>0, <1>11 DEF TypeOK, Disrupts
<1> HIDE DEF pc
<1>13. work'[w].pc = pc /\ work'[w].job = work[w].job /\ work'[w].epoch = work[w].epoch
  BY <1>6, <1>7
<1> QED
  BY <1>0, <1>4, <1>6, <1>7, <1>8, <1>9, <1>10, <1>11, <1>12, <1>13, CheckpointStep

(* The unit is stopped, under the claim and after its checkpoint. *)
LEMMA StopAppStep ==
    ASSUME IInv, NEW w \in Workers, StopApp(w)
    PROVE  IInv'
<1> DEFINE j == work[w].job
<1>0. /\ TypeOK /\ OnJob(w) /\ j \in DOMAIN jobs /\ work \in WorkTable
      /\ Current(w) /\ jobs[j].kind \in Disrupts
  BY DEF IInv, TypeOK, StopApp, Fence, OnJob, WorkTable, Disrupts
<1>1. lease' \in LeaseRow
  BY LeaseTypes DEF StopApp, Fence
<1>2. RowChecked(j, "disruptive")
  <2>1. jobs' = [jobs EXCEPT ![j].cp = "disruptive", ![j].live = TRUE]
    BY DEF StopApp
  <2> QED
    BY <1>0, <2>1, CheckedRow DEF Checkpoints
<1>3. /\ work' \in WorkTable /\ work'[w].pc = "stop" /\ work'[w].job = work[w].job
      /\ work'[w].epoch = work[w].epoch /\ \A v \in Workers \ {w} : work'[v] = work[v]
  BY <1>0, MoveShape DEF StopApp, InCommand
<1>4. /\ UNCHANGED <<backend, runner, asked>> /\ app' \in {"up", "down"}
      /\ downBy' = j /\ downBy' \in {0} \cup DOMAIN jobs
  BY <1>0 DEF StopApp
<1>5. DownInv'
  BY <1>0, <1>2, <1>4 DEF DownInv, DownIsRecorded, RowChecked, Current
<1>6. "disruptive" \in Beyond("stop") /\ "stop" \in InCommand
  BY DEF Beyond, InCommand
<1> QED
  BY <1>0, <1>1, <1>2, <1>3, <1>4, <1>5, <1>6, CheckpointStep

(* The unit is started, or the start fails. *)
LEMMA StartAppStep ==
    ASSUME IInv, NEW w \in Workers, StartApp(w)
    PROVE  IInv'
<1> DEFINE j == work[w].job
           cp == IF jobs[j].kind = "restore_db" /\ app' = "up" THEN "unit_swapped" ELSE jobs[j].cp
<1>0. /\ TypeOK /\ OnJob(w) /\ j \in DOMAIN jobs /\ work \in WorkTable /\ jobs \in Rows
      /\ jobs[j] \in JobRow /\ Current(w) /\ jobs[j].status = "running" /\ IsOpen(j)
  BY DEF IInv, TypeOK, StartApp, Fence, OnJob, WorkTable, Current, IsOpen, Rows
<1>1. lease' \in LeaseRow
  BY LeaseTypes DEF StartApp, Fence
<1>2. \/ work[w].pc = "prepare" /\ jobs[j].kind = "recover_app" /\ Quiet(j)
      \/ work[w].pc = "stop" /\ jobs[j].kind \in Disrupts /\ jobs[j].cp = "disruptive"
  BY <1>0 DEF IInv, StageInv, StartApp, Beyond
<1>3. cp \in Checkpoints
  BY <1>0 DEF Checkpoints, JobRow
<1>4. jobs' = [jobs EXCEPT ![j].live = TRUE, ![j].cp = cp]
  BY <1>0 DEF StartApp, Rows
<1>5. /\ jobs[j].kind \in Disrupts => cp \in Beyond("check")
      /\ jobs[j].kind \in Disrupts /\ app' = "down" => cp = "disruptive"
      /\ jobs[j].kind \notin Disrupts => cp \in {"none", "resumable"}
  BY <1>2 DEF Beyond, Disrupts, Quiet
<1> HIDE DEF cp
<1>6. RowChecked(j, cp)
  BY <1>0, <1>3, <1>4, CheckedRow
<1>7. /\ work' \in WorkTable /\ work'[w].pc = "check" /\ work'[w].job = work[w].job
      /\ work'[w].epoch = work[w].epoch /\ \A v \in Workers \ {w} : work'[v] = work[v]
  BY <1>0, MoveShape DEF StartApp, InCommand
<1>8. /\ UNCHANGED <<backend, runner, asked>> /\ app' \in {"up", "down"}
      /\ downBy' \in {downBy, j} /\ downBy' \in {0} \cup DOMAIN jobs
      /\ app' = "down" /\ downBy' # downBy => jobs[j].kind \in Disrupts
      /\ app' = "down" /\ app = "up" => downBy' = j /\ jobs[j].kind \in Disrupts
  BY <1>0, <1>2 DEF StartApp, TypeOK
<1>9. DownInv'
  <2> SUFFICES ASSUME app' = "down" PROVE DownIsRecorded' /\ downBy' \in DOMAIN jobs'
    BY DEF DownInv, DownIsRecorded
  <2>1. CASE downBy' = j /\ jobs[j].kind \in Disrupts
    BY <1>0, <1>5, <1>6, <2>1 DEF DownIsRecorded, RowChecked
  <2>2. CASE ~(downBy' = j /\ jobs[j].kind \in Disrupts)
    <3>1. app = "down" /\ downBy' = downBy /\ downBy \in DOMAIN jobs
      BY <1>0, <1>8, <2>2 DEF IInv, DownInv, TypeOK
    <3>2. downBy # j
      BY <1>0, <1>2, <2>2, <3>1 DEF IInv, DownInv, DownIsRecorded, Quiet
    <3>3. jobs'[downBy] = jobs[downBy] /\ downBy \in DOMAIN jobs'
      BY <1>6, <3>1, <3>2 DEF RowChecked
    <3> QED
      BY <3>1, <3>3 DEF IInv, DownInv, DownIsRecorded
  <2> QED
    BY <2>1, <2>2
<1>10. "check" \in InCommand
  BY DEF InCommand
<1> QED
  BY <1>0, <1>1, <1>5, <1>6, <1>7, <1>8, <1>9, <1>10, CheckpointStep

-----------------------------------------------------------------------------
(* The theorems. *)

LEMMA IInvInit == Init => IInv
<1> SUFFICES ASSUME Init PROVE IInv
  OBVIOUS
<1>1. jobs \in Rows /\ DOMAIN jobs = {}
  BY DEF Init, Rows
<1>2. /\ work \in WorkTable
      /\ \A w \in Workers : work[w].pc = "off" /\ ~OnJob(w)
  BY AtType DEF Init, WorkTable, At, OnJob
<1>3. /\ lease \in LeaseRow /\ runner \in RunnerType /\ backend \in BackendType
      /\ app = "up" /\ downBy = 0 /\ asked \in 0..MaxRequests /\ backend.up /\ ~runner.up
  BY <1>1, BoundsAssumption
  DEF Init, LeaseRow, NoLease, Owners, RunnerType, BackendType
<1>4. TypeOK
  BY <1>1, <1>2, <1>3 DEF TypeOK, Rows, WorkTable, RunnerType, BackendType, OnJob
<1>5. ProcessInv
  BY <1>2, <1>3 DEF ProcessInv, Workers
<1>6. RowInv /\ DownInv
  BY <1>1, <1>3 DEF RowInv, DownInv, DownIsRecorded
<1>7. ClaimInv /\ StageInv /\ OneStop
  BY <1>2 DEF ClaimInv, StageInv, OneStop
<1> QED
  BY <1>4, <1>5, <1>6, <1>7 DEF IInv

LEMMA IInvNext == IInv /\ [Next]_vars => IInv'
<1> SUFFICES ASSUME IInv, [Next]_vars PROVE IInv'
  OBVIOUS
<1>1. ASSUME NEW w \in Workers, WorkerStep(w) PROVE IInv'
  BY <1>1, ClaimStep, BusyStep, TakeLeaseStep, StopAppStep, StartAppStep, EndingStep, LeavingStep
  DEF WorkerStep
<1>2. ASSUME NEW d \in Drains, DrainEnds(d) PROVE IInv'
  BY <1>2, LeavingStep DEF Workers
<1>3. ASSUME NEW j \in DOMAIN jobs, WaitEnds(j) \/ Reconcile(j) \/ SweepJob(j) \/ JobLapses(j)
      PROVE  IInv'
  BY <1>3, SettlingStep, LapseStep
<1>4. CASE UNCHANGED vars
  <2>1. TypeOK /\ lease' \in LeaseRow /\ asked' \in 0..MaxRequests
    BY <1>4 DEF IInv, TypeOK, vars
  <2> QED
    BY <1>4, <2>1, TableStays, NoneMoves DEF vars
<1> QED
  BY <1>1, <1>2, <1>3, <1>4, RequestStep, LapseStep, ProcessStep DEF Next

LEMMA IInvAlways == Spec => []IInv
BY IInvInit, IInvNext, PTL DEF Spec

(***************************************************************************)
(* The rows of setup_jobs and setup_locks, the two processes and their      *)
(* workers keep their types, and a worker on a job has a row in hand        *)
(* (store.js; backend.js drainSetupQueue; executor.js executeJob).          *)
(***************************************************************************)
THEOREM TypeCorrect == Spec => []TypeOK
<1>1. IInv => TypeOK
  BY DEF IInv
<1> QED
  BY <1>1, IInvAlways, PTL

(***************************************************************************)
(* However many drains share the backend's one owner identity, and however  *)
(* often a claim lapses under a slow command and is settled and run again   *)
(* by another process: no deploy and no restore ever has two workers beyond *)
(* its stop (executor.js fence, reconcileDecision).                         *)
(***************************************************************************)
THEOREM OneWorkerBeyondStop == Spec => []OneStop
<1>1. IInv => OneStop
  BY DEF IInv
<1> QED
  BY <1>1, IInvAlways, PTL

(***************************************************************************)
(* While the application is down, the job whose command took it down runs   *)
(* with the stop on its checkpoint, or is recorded as failed or as in need  *)
(* of recovery: no death, boot sweep, reconciliation or takeover records it *)
(* as done or as an interruption (backend.js sweepSetupEngineOnBoot,        *)
(* executor.js reconcileDecision).                                          *)
(***************************************************************************)
THEOREM DownRecorded == Spec => []DownIsRecorded
<1>1. IInv => DownIsRecorded
  BY DEF IInv, DownInv
<1> QED
  BY <1>1, IInvAlways, PTL
=============================================================================
