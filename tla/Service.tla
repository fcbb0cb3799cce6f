------------------------------ MODULE Service ------------------------------
(***************************************************************************)
(* The orchestrator's process (app/service.py): startup, the scheduler's   *)
(* thread, the HTTP handlers and the end of the process, together with the *)
(* launcher it starts runners with and the commands whose transactions     *)
(* meet its own in the database.                                           *)
(***************************************************************************)
EXTENDS Catalog, Launcher, Windows

CONSTANTS Orchestrator, \* its connection
          Request,      \* requests to /shutdown
          MaxAttempts   \* STARTUP_DB_MAX_ATTEMPTS

ASSUME ServiceAssumption == /\ Orchestrator \in Process \ Command
                            /\ MaxAttempts \in Nat \ {0}

VARIABLES main,         \* the main thread: run_service, serve_forever
          attempt,      \* its attempts to reach the database
          state,        \* OrchestratorService.state
          loop,         \* the scheduler's thread
          request,      \* request -> how far its handler is
          config        \* the configuration file: whether it can be loaded, and ever could not

serviceVars == <<main, attempt, state, loop, request, config>>
vars == <<catalogVars, launcherVars, serviceVars, faults>>

Operating == {"reconcile", "fail_run", "clean_run", "claim", "launch", "run", "charge", "raise"}
LoopAt == {"off", "check", "load", "start", "gone"} \cup Operating

ServiceType ==
  /\ main \in {"schema", "sync", "ready", "serving", "ended", "failed"}
  /\ attempt \in 1..MaxAttempts
  /\ state \in {"starting", "idle", "running", "shutting_down"}
  /\ loop \in LoopAt
  /\ request \in [Request -> {"new", "accepted", "refused", "told", "lost"}]
  /\ config \in {"good", "broken", "repaired"} /\ faults \in 0..MaxFaults

TypeOK == CatalogType /\ LauncherType /\ ServiceType

Init ==
  /\ CatalogInit /\ LauncherInit
  /\ main = "schema" /\ attempt = 1 /\ state = "starting" /\ loop = "off"
  /\ request = [q \in Request |-> "new"]
  /\ config = "good" /\ faults = 0

(***************************************************************************)
(* Startup: the schema and the reference state, again and again until the  *)
(* database answers; then the server and the scheduler's thread.           *)
(***************************************************************************)
Booting == main \in {"schema", "sync"}

BeginBoot ==
  /\ Booting /\ Begin(Orchestrator, IF main = "schema" THEN "ensure_schema" ELSE "sync")
  /\ UNCHANGED <<disk, samples, scanned, cmd, launcherVars, serviceVars, faults>>

BootCommits ==
  /\ Booting /\ Committed(Orchestrator)
  /\ main' = IF main = "schema" THEN "sync" ELSE "ready"
  /\ UNCHANGED <<cmd, launcherVars, attempt, state, loop, request, config, faults>>

\* Mutant: one attempt too many.
BootFailsOnceMore ==
  /\ Booting /\ RolledBack(Orchestrator)
  /\ IF attempt <= MaxAttempts THEN attempt' = attempt + 1 /\ main' = "schema"
     ELSE main' = "failed" /\ UNCHANGED attempt
  /\ UNCHANGED <<cmd, launcherVars, state, loop, request, config>>

BootFails ==
  /\ Booting /\ RolledBack(Orchestrator)
  /\ IF attempt < MaxAttempts THEN attempt' = attempt + 1 /\ main' = "schema"
     ELSE main' = "failed" /\ UNCHANGED attempt
  /\ UNCHANGED <<cmd, launcherVars, state, loop, request, config>>

\* mark_ready, then the daemon thread, then serve_forever.
Serve ==
  /\ main = "ready"
  /\ main' = "serving" /\ attempt' = 1 /\ state' = "idle" /\ loop' = "check"
  /\ UNCHANGED <<catalogVars, launcherVars, request, config, faults>>

(***************************************************************************)
(* The scheduler's thread, a daemon: it stops where it is when the process *)
(* ends.  An operation of the service is what it does in state running.    *)
(***************************************************************************)
Scheduling == main = "serving"
At(p) == Scheduling /\ loop = p

\* finish_operation: idle, whatever the state was.
FinishOperation == state' = "idle"

Check ==
  /\ At("check") /\ state # "running"
  /\ loop' = IF state = "shutting_down" THEN "gone" ELSE "load"
  /\ UNCHANGED <<catalogVars, launcherVars, main, attempt, state, request, config, faults>>

Load ==
  /\ At("load")
  /\ \/ config # "broken" /\ loop' = "start" /\ UNCHANGED state
     \/ config = "broken" /\ loop' = "check" /\ FinishOperation
  /\ UNCHANGED <<catalogVars, launcherVars, main, attempt, request, config, faults>>

\* Mutant: start_operation that looks for a running operation only.
StartUnlessRunning ==
  /\ At("start")
  /\ IF state = "running" THEN loop' = "check" /\ UNCHANGED state
     ELSE state' = "running" /\ loop' = "reconcile"
  /\ UNCHANGED <<catalogVars, launcherVars, main, attempt, request, config, faults>>

StartOperation ==
  /\ At("start")
  /\ IF state \in {"running", "shutting_down"} THEN loop' = "check" /\ UNCHANGED state
     ELSE state' = "running" /\ loop' = "reconcile"
  /\ UNCHANGED <<catalogVars, launcherVars, main, attempt, request, config, faults>>

\* The transactions of a place of the loop: where the thread goes on when one
\* is committed, and where its failure leads.
Work ==
  [reconcile |-> {"sync", "stage_job", "outputs_gone"},
   fail_run  |-> {"stop_run"},
   clean_run |-> {"outputs_gone"},
   claim     |-> {"claim"},
   run       |-> {"result"},
   charge    |-> {"failure"}]

AfterCommit == [reconcile |-> "reconcile", fail_run |-> "clean_run", clean_run |-> "clean_run",
                claim |-> "launch", run |-> "run", charge |-> "run"]
AfterFailure == [reconcile |-> "fail_run", fail_run |-> "raise", clean_run |-> "raise",
                 claim |-> "raise", run |-> "charge", charge |-> "raise"]

Transacting == Scheduling /\ loop \in DOMAIN Work

BeginWork ==
  /\ Transacting /\ \E k \in Work[loop] : Begin(Orchestrator, k)
  /\ loop = "run" => launch.at = "up"
  /\ UNCHANGED <<disk, samples, scanned, cmd, launcherVars, serviceVars, faults>>

WorkCommits ==
  /\ Transacting /\ Committed(Orchestrator)
  /\ loop' = AfterCommit[loop]
  /\ UNCHANGED <<cmd, launcherVars, main, attempt, state, request, config, faults>>

\* A run whose reconciliation raised is failed and cleaned up, a result that could
\* not be recorded is charged to the job; any other error ends the operation.
WorkFails ==
  /\ Transacting /\ RolledBack(Orchestrator)
  /\ loop' = AfterFailure[loop]
  /\ UNCHANGED <<cmd, launcherVars, main, attempt, state, request, config>>

\* cleanup_pipeline_outputs, also when the run had ended before (ValueError).
EndCleanup ==
  /\ At("clean_run") /\ ~Active(Orchestrator) /\ loop' = "reconcile"
  /\ UNCHANGED <<catalogVars, launcherVars, main, attempt, state, request, config, faults>>

EndReconcile ==
  /\ At("reconcile") /\ ~Active(Orchestrator) /\ loop' = "claim"
  /\ UNCHANGED <<catalogVars, launcherVars, main, attempt, state, request, config, faults>>

\* Mutant: nothing to claim, and the operation is never finished.
ForgetToFinish ==
  /\ At("claim") /\ ~Active(Orchestrator) /\ loop' = "check"
  /\ UNCHANGED <<catalogVars, launcherVars, main, attempt, state, request, config, faults>>

NothingToClaim ==
  /\ At("claim") /\ ~Active(Orchestrator)
  /\ loop' = "check" /\ FinishOperation
  /\ UNCHANGED <<catalogVars, launcherVars, main, attempt, request, config, faults>>

\* dispatch_batch: a runner, the jobs' results, the end of the batch.
Launch ==
  /\ At("launch") /\ (GetEndpoint \/ LaunchStep)
  /\ UNCHANGED <<catalogVars, serviceVars>>

Launched ==
  /\ At("launch") /\ launch.at \in {"up", "failed"}
  /\ loop' = IF launch.at = "up" THEN "run" ELSE "charge"
  /\ UNCHANGED <<catalogVars, launcherVars, main, attempt, state, request, config, faults>>

EndBatch ==
  /\ At("run") /\ ~Active(Orchestrator)
  /\ loop' = "check" /\ FinishOperation /\ DropLauncher
  /\ UNCHANGED <<catalogVars, main, attempt, request, config>>

\* Mutant: an except clause that only logs.
LogOnly ==
  /\ At("raise")
  /\ loop' = "check" /\ DropLauncher
  /\ UNCHANGED <<catalogVars, main, attempt, state, request, config>>

\* The except clause of the loop.
Raise ==
  /\ At("raise")
  /\ loop' = "check" /\ FinishOperation /\ DropLauncher
  /\ UNCHANGED <<catalogVars, main, attempt, request, config>>

OrchestratorExecutes ==
  /\ main \in {"schema", "sync", "serving"} /\ ExecuteOf(Orchestrator)
  /\ UNCHANGED <<launcherVars, serviceVars>>

(***************************************************************************)
(* A /shutdown request: the decision under the lock, then the answer, then *)
(* the end of the server.                                                  *)
(***************************************************************************)
RequestShutdown(q) ==
  /\ Scheduling /\ request[q] = "new"
  /\ IF state = "running" THEN request' = [request EXCEPT ![q] = "refused"] /\ UNCHANGED state
     ELSE request' = [request EXCEPT ![q] = "accepted"] /\ state' = "shutting_down"
  /\ UNCHANGED <<catalogVars, launcherVars, main, attempt, loop, config, faults>>

\* A client that has gone away is an exception before server.shutdown.
Answer(q) ==
  /\ Scheduling /\ request[q] = "accepted"
  /\ \E r \in {"told", "lost"} : request' = [request EXCEPT ![q] = r]
  /\ UNCHANGED <<catalogVars, launcherVars, main, attempt, state, loop, config, faults>>

\* serve_forever returns, and the process ends with its threads.
EndProcess ==
  /\ Scheduling /\ \E q \in Request : request[q] = "told"
  /\ main' = "ended"
  /\ UNCHANGED <<catalogVars, launcherVars, attempt, state, loop, request, config, faults>>

\* The database rolls back what the process had begun.
Disconnect ==
  /\ main \in {"ended", "failed"} /\ Active(Orchestrator) /\ Close(Orchestrator)
  /\ UNCHANGED <<disk, samples, scanned, cmd, launcherVars, serviceVars, faults>>

(***************************************************************************)
(* Everyone else.                                                          *)
(***************************************************************************)
EditConfig ==
  /\ \/ config # "broken" /\ Fault /\ config' = "broken"
     \/ config = "broken" /\ config' = "repaired" /\ UNCHANGED faults
  /\ UNCHANGED <<catalogVars, launcherVars, main, attempt, state, loop, request>>

Others ==
  \/ CatalogNext /\ UNCHANGED <<launcherVars, serviceVars>>
  \/ \E c \in Container : RunnerExits(c) /\ UNCHANGED <<catalogVars, serviceVars>>
  \/ EditConfig

SchedulerStep ==
  \/ Check \/ Load \/ StartOperation \/ BeginWork \/ WorkCommits \/ WorkFails
  \/ EndCleanup \/ EndReconcile \/ NothingToClaim \/ Launch \/ Launched \/ EndBatch \/ Raise

MainStep == BeginBoot \/ BootCommits \/ BootFails \/ Serve \/ EndProcess \/ Disconnect

HandlerStep(q) == RequestShutdown(q) \/ Answer(q)

Next == \/ SchedulerStep \/ OrchestratorExecutes \/ MainStep
        \/ (\E q \in Request : HandlerStep(q)) \/ Others

Spec == Init /\ [][Next]_vars

(***************************************************************************)
(* Fairness: the threads and the commands that were started go on, a pass  *)
(* has finitely many stages and a batch finitely many jobs, the database   *)
(* ends every circle of waits.                                             *)
(***************************************************************************)
FairSpec ==
  /\ Spec
  /\ WF_vars(SchedulerStep) /\ WF_vars(OrchestratorExecutes) /\ WF_vars(MainStep)
  /\ SF_vars(EndCleanup) /\ SF_vars(EndReconcile) /\ SF_vars(EndBatch)
  /\ \A c \in Command : WF_vars(CommandStep(c) /\ UNCHANGED <<launcherVars, serviceVars>>)
  /\ \A c \in Container : WF_vars(RunnerExits(c) /\ UNCHANGED <<catalogVars, serviceVars>>)

(***************************************************************************)
(* Properties.                                                             *)
(***************************************************************************)
Accepted == \E q \in Request : request[q] \in {"accepted", "told", "lost"}

\* /status shows running exactly while the scheduler's thread is in an operation:
\* every way out of one, errors included, finishes it once.
RunningWhileOperating ==
  Scheduling => (state = "running" <=> loop \in Operating)

\* An accepted shutdown stays accepted and no operation is begun after it, so the
\* process never ends in the middle of one (as long as the configuration can be
\* loaded: finish_operation overwrites the state when it cannot).
ShutdownIsKept ==
  config = "good" /\ Accepted => state = "shutting_down" /\ loop \notin Operating

\* When the scheduler claims, the window it finds open or closed is so by the
\* schedule, at any moment of the week and for any windows.
ClaimsFollowSchedule == loop = "claim" => WindowsFollowSchedule

\* Whatever fails, the scheduler comes back to reconcile, until a shutdown is
\* accepted, the configuration stays broken, or the database never answered.
SchedulerGoesOn ==
  \/ []<>(loop = "reconcile")
  \/ <>(Accepted \/ main = "failed")
  \/ <>[](config = "broken")

\* A result is recorded unless the database failed by itself or the process ended:
\* what commands do to the database does not roll it back.
ResultIsPersisted ==
  [][txn[Orchestrator].kind = "result" /\ txn'[Orchestrator] = NoTxn
       => Complete(Orchestrator) \/ faults' # faults \/ ~Scheduling]_vars
=============================================================================
