---------------------------- MODULE PipelineRun -----------------------------
(***************************************************************************)
(* What the tables pipeline_runs and pipeline_stage_executions promise of  *)
(* one run, whoever writes them: a row is opened once and settled once, a  *)
(* run ends once, all that is open ends with a run that is stopped, and a  *)
(* run is completed when its rows are settled and none of them failed.     *)
(* The one exception is a job somebody read as open before it settled: it  *)
(* may still be cancelled, or fail after it was cancelled, also when the   *)
(* run has ended.                                                          *)
(***************************************************************************)

CONSTANT Exec   \* what a row can be for: stage, lane and external_key

VARIABLES
  run,    \* pipeline_runs.status
  row,    \* [Exec -> Row]: "open" is a row that is pending or running
  asked,  \* rows somebody has read as open and is about to write
  late    \* completed rows that were cancelled all the same

vars == <<run, row, asked, late>>

Settled == {"completed", "failed", "cancelled", "skipped"}

Row == {"absent", "open"} \cup Settled

Init ==
  /\ run = "pending"
  /\ row = [e \in Exec |-> "absent"]
  /\ asked = {}
  /\ late = {}

(* A stage is materialized, or skipped and settled at once.                *)
Opens(e) == row[e] = "absent" /\ row'[e] \in {"open", "skipped"}

Settles(e) == row[e] = "open" /\ row'[e] \in {"completed", "failed", "cancelled"}

(* What was read as open is written without another look.                  *)
Overwrites(e) ==
  /\ e \in asked
  /\ \/ row[e] \in {"completed", "failed"} /\ row'[e] = "cancelled"
     \/ row[e] = "cancelled" /\ row'[e] = "failed"

Write ==
  /\ UNCHANGED run
  /\ \A e \in Exec : row'[e] = row[e] \/ Opens(e) \/ Settles(e) \/ Overwrites(e)

(* The run is stopped, by its user or after an error, with all it has open. *)
Stop ==
  /\ run = "pending"
  /\ run' \in {"cancelled", "failed"}
  /\ \A e \in Exec : row'[e] = IF row[e] = "open" THEN "cancelled" ELSE row[e]

(* The run ends by itself.  Of a job that was cancelled late it may have    *)
(* seen one status or the other.                                           *)
End ==
  /\ run = "pending"
  /\ \A e \in Exec : row[e] # "open" /\ row'[e] = row[e]
  /\ \/ /\ run' = "completed"
        /\ \A e \in Exec : row[e] \in {"absent", "completed", "skipped"} \/ e \in late
     \/ /\ run' = "failed"
        /\ \E e \in Exec : row[e] \in {"failed", "cancelled"}

Next ==
  /\ Write \/ Stop \/ End
  /\ row' \in [Exec -> Row]
  /\ asked' \subseteq Exec
  /\ \A e \in asked' \ asked : row[e] = "open"
  /\ late' = late \cup {e \in Exec : row[e] = "completed" /\ row'[e] = "cancelled"}

Spec == Init /\ [][Next]_vars
=============================================================================
