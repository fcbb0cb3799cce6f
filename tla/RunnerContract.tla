--------------------------- MODULE RunnerContract ---------------------------
(***************************************************************************)
(* What the orchestrator may rely on of one runner: the values GET /status *)
(* shows and how they change.  Dispatch gives each of its runners exactly  *)
(* these steps; RunnerServer, the threads and processes of the wrapper,    *)
(* is shown to take no other.                                              *)
(***************************************************************************)

CONSTANTS Job,      \* what is asked for: a job id with its attempt number
          NoJob,
          Batch,
          NoBatch

VARIABLES state, batch, job

vars == <<state, batch, job>>

Init ==
  /\ state = "starting"
  /\ batch = NoBatch
  /\ job = NoJob

(* Jobs are taken one at a time, all of one batch.                         *)
Ready == state \in {"idle", "finished", "failed"}

Boot ==
  /\ state = "starting"
  /\ state' = "idle"
  /\ UNCHANGED <<batch, job>>

Accept(j, b) ==
  /\ Ready
  /\ batch \in {NoBatch, b}
  /\ state' = "running"
  /\ batch' = b
  /\ job' = j

(* Only the job accepted last can end, and it ends once.                   *)
Finish ==
  /\ state = "running"
  /\ state' \in {"finished", "failed"}
  /\ UNCHANGED <<batch, job>>

(* Asked for, or the idle watchdog's: the job and its result are forgotten. *)
ShutDown ==
  /\ state \notin {"starting", "gone"}
  /\ state' = "shutting_down"
  /\ job' = NoJob
  /\ UNCHANGED batch

Exit ==
  /\ state # "gone"
  /\ state' = "gone"
  /\ batch' = NoBatch
  /\ job' = NoJob

Next ==
  \/ Boot \/ Finish \/ ShutDown \/ Exit
  \/ \E j \in Job, b \in Batch : Accept(j, b)

Spec == Init /\ [][Next]_vars
=============================================================================
