------------------------------ MODULE JobStore ------------------------------
(***************************************************************************)
(* The rows of the tables `jobs` and `batches` and what each transaction   *)
(* of orchestrator/storage/db.py does to one of them.  The module has no   *)
(* variables: Dispatch applies these operators in its actions.             *)
(***************************************************************************)
EXTENDS Naturals, FiniteSets

CONSTANTS
  Job,           \* the job ids in the table
  Batch,         \* the batch ids generated_identifier can return
  NoBatch,       \* batch_id IS NULL
  MaxAttempts    \* orchestrator.scheduling.max_attempts, at least 1

ASSUME MaxAttemptsIsPositive == MaxAttempts \in Nat \ {0}
ASSUME NoBatchIsNoBatch == NoBatch \notin Batch

Status == {"pending", "completed", "failed", "cancelled"}

(* failure_code: "none" is NULL, "runner" the code the runner reported.    *)
Code == {"none", "runner", "DISPATCH_ERROR", "JOB_CANCELLED", "RUNNER_MISSING"}

(* One row of `jobs` with its row of `output_samples`: sample says whether *)
(* that row exists.  request_json, metrics and artifacts follow status.    *)
JobRow == [status  : Status,
           attempt : 1..MaxAttempts,
           batch   : Batch \cup {NoBatch},
           code    : Code,
           sample  : BOOLEAN]

(* insert_resolved_job_row: every job starts pending, at attempt one.      *)
NewRow == [status |-> "pending", attempt |-> 1, batch |-> NoBatch,
           code |-> "none", sample |-> FALSE]

(* claim_pending_batch: the row joins batch b and stays pending.           *)
ClaimedRow(row, b) == [row EXCEPT !.batch = b, !.code = "none"]

(* Mutant: the attempt is not counted.                                     *)
UncountedRetryRow(row) ==
  [status |-> "pending", attempt |-> row.attempt, batch |-> NoBatch,
   code |-> "none", sample |-> FALSE]

(* The retry of both writers: pending again, next attempt, out of its batch. *)
RetriedRow(row) ==
  [status |-> "pending", attempt |-> row.attempt + 1, batch |-> NoBatch,
   code |-> "none", sample |-> FALSE]

(* Mutant: one attempt too many.                                           *)
HasBudgetInclusive(row) == row.attempt <= MaxAttempts

HasBudget(row) == row.attempt < MaxAttempts

(* The writes of write_job_terminal_result: ok is state = finished and      *)
(* result.status = completed.  A completed job reports output files, so it *)
(* gets its output_samples row.                                            *)
TerminalRow(row, b, ok) ==
  CASE ok -> [row EXCEPT !.status = "completed", !.batch = b, !.code = "none",
                         !.sample = TRUE]
    [] ~ok /\ HasBudget(row) -> RetriedRow(row)
    [] OTHER -> [row EXCEPT !.status = "failed", !.batch = b,
                            !.code = "runner", !.sample = FALSE]

(* The writes of write_job_dispatch_failure: no result for this attempt.   *)
DispatchFailureRow(row, b) ==
  IF HasBudget(row) THEN RetriedRow(row)
  ELSE [row EXCEPT !.status = "failed", !.batch = b,
                   !.code = "DISPATCH_ERROR", !.sample = FALSE]

(* Mutant: the release also resets the status.                             *)
ResettingRelease(row) ==
  [row EXCEPT !.status = "pending", !.batch = NoBatch, !.code = "none"]

(* The UPDATE of release_batch_pending_jobs: by job_id only, whatever the  *)
(* status has become since its SELECT.                                     *)
ReleasedRow(row) == [row EXCEPT !.batch = NoBatch, !.code = "none"]

(* Mutant: a cancelled row leaves its batch.                               *)
DetachingCancel(row) ==
  [row EXCEPT !.status = "cancelled", !.batch = NoBatch, !.code = "JOB_CANCELLED"]

(* The UPDATE of cancel_jobs: by job_id only, too.                         *)
CancelledRow(row) ==
  [row EXCEPT !.status = "cancelled", !.code = "JOB_CANCELLED"]

(* claim_pending_batch, when the catalog has no such runner any more.      *)
MissingRow(row) == [row EXCEPT !.status = "failed", !.code = "RUNNER_MISSING"]

(* Mutant: the first settled job closes its batch.                         *)
HasOnlyPending(js, b) ==
  /\ \E j \in Job : js[j].batch = b
  /\ \A j \in Job : js[j].batch = b => js[j].status = "pending"

(* refresh_batch_record: batch b is open (closed_at IS NULL) exactly when  *)
(* some job of it is pending in table js; the other batches keep theirs.   *)
HasPending(js, b) == \E j \in Job : js[j].batch = b /\ js[j].status = "pending"

Refreshed(open, js, bs) ==
  {b \in Batch : IF b \in bs THEN HasPending(js, b) ELSE b \in open}
=============================================================================
