------------------------------ MODULE JobLedger ------------------------------
(***************************************************************************)
(* What the saved-job store promises to everyone who reads setup_jobs, with *)
(* no runner, lease or guest in sight: rows are filled in order, one row    *)
(* changes at a time, a job is executed only under a claim that has a       *)
(* number of its own, and a job that ended has ended.                       *)
(***************************************************************************)
EXTENDS Naturals

CONSTANT Rows          \* the row numbers, 1 .. n

VARIABLES stage,       \* absent, queued, running or done
          claims       \* how often the row was claimed (lease_epoch)

ledger == <<stage, claims>>

LedgerInit == /\ stage = [j \in Rows |-> "absent"]
              /\ claims = [j \in Rows |-> 0]

MoveTo(j, s) == stage' = [stage EXCEPT ![j] = s]

(* A new job is the next row.  One that nobody can run is done at once. *)
Submit(j) == /\ stage[j] = "absent"
             /\ \A k \in Rows : k < j => stage[k] # "absent"
             /\ MoveTo(j, "queued") \/ MoveTo(j, "done")
             /\ claims' = [claims EXCEPT ![j] = 0]

Claim(j) == /\ stage[j] = "queued"
            /\ MoveTo(j, "running")
            /\ claims' = [claims EXCEPT ![j] = @ + 1]

(* A claim given up: the number it used is not used again. *)
GiveUp(j) == /\ stage[j] = "running"
             /\ MoveTo(j, "queued")
             /\ UNCHANGED claims

Conclude(j) == /\ stage[j] \in {"queued", "running"}
               /\ MoveTo(j, "done")
               /\ UNCHANGED claims

LedgerNext == \E j \in Rows : Submit(j) \/ Claim(j) \/ GiveUp(j) \/ Conclude(j)

LedgerSpec == LedgerInit /\ [][LedgerNext]_ledger

=============================================================================
