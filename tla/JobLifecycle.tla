---------------------------- MODULE JobLifecycle ----------------------------
(***************************************************************************)
(* What the jobs table promises its readers, whatever batches, runners and *)
(* crashes happen behind it: a job is pending until it is settled, every   *)
(* failure but the last gives it its next attempt, an operator's cancel    *)
(* hits only jobs that were pending when the operator asked.  Dispatch is  *)
(* shown to implement this specification.                                  *)
(***************************************************************************)
EXTENDS Naturals

CONSTANTS
  Job,           \* job ids
  MaxAttempts,   \* attempts a job has
  Orphan         \* jobs whose runner is not in the catalog

VARIABLES
  status,        \* [Job -> status]
  attempt,       \* [Job -> 1..MaxAttempts]
  output,        \* jobs whose output files are listed for later jobs
  asked          \* jobs an operator has asked to cancel, not yet cancelled

lifecycleVars == <<status, attempt, output, asked>>

Init ==
  /\ status = [j \in Job |-> "pending"]
  /\ attempt = [j \in Job |-> 1]
  /\ output = {}
  /\ asked = {}

Runs(j) == j \notin Orphan /\ status[j] = "pending"

(* The runner reports success.                                             *)
Complete(j) ==
  /\ Runs(j)
  /\ status' = [status EXCEPT ![j] = "completed"]
  /\ output' = output \cup {j}
  /\ UNCHANGED <<attempt, asked>>

(* An attempt fails, or cannot be dispatched, and another one is left.     *)
Retry(j) ==
  /\ Runs(j)
  /\ attempt[j] < MaxAttempts
  /\ attempt' = [attempt EXCEPT ![j] = @ + 1]
  /\ UNCHANGED <<status, output, asked>>

(* The last attempt fails.                                                 *)
Fail(j) ==
  /\ Runs(j)
  /\ attempt[j] = MaxAttempts
  /\ status' = [status EXCEPT ![j] = "failed"]
  /\ UNCHANGED <<attempt, output, asked>>

(* There is nothing to run the job with.                                   *)
FailOrphan(j) ==
  /\ j \in Orphan
  /\ status' = [status EXCEPT ![j] = "failed"]
  /\ UNCHANGED <<attempt, output, asked>>

Ask(S) ==
  /\ asked = {}
  /\ \A j \in S : status[j] = "pending"
  /\ asked' = S
  /\ UNCHANGED <<status, attempt, output>>

(* The cancel lands, even on jobs that settled since it was asked for.     *)
Cancel ==
  /\ status' = [j \in Job |-> IF j \in asked THEN "cancelled" ELSE status[j]]
  /\ asked' = {}
  /\ UNCHANGED <<attempt, output>>

Next ==
  \/ \E j \in Job : Complete(j) \/ Retry(j) \/ Fail(j) \/ FailOrphan(j)
  \/ \E S \in SUBSET Job : Ask(S)
  \/ Cancel

Spec == Init /\ [][Next]_lifecycleVars
=============================================================================
