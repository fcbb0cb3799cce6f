------------------------------ MODULE Dispatch ------------------------------
(***************************************************************************)
(* One orchestrator, the jobs table, the runners it starts and the         *)
(* operator who cancels jobs.                                              *)
(*                                                                         *)
(* The scheduler thread (service.scheduler_loop) claims a batch of pending *)
(* jobs (db.claim_pending_batch) and dispatches it (dispatch.dispatch_batch). *)
(* pc is the point of that thread between two calls that leave it: every   *)
(* action of it is one database transaction, one HTTP exchange or one      *)
(* decision on values it holds.  Cancels, runners, the clock of the        *)
(* scheduling window and crashes move between any two of these.            *)
(***************************************************************************)
EXTENDS JobStore

CONSTANTS
  Runner,        \* runner processes: container slots, or the one static runner
  NoRunner,      \* no endpoint
  NoJob,         \* no current_job_id
  Static,        \* TRUE: launcher static_http; FALSE: docker
  MaxBatchSize,  \* runner.scheduling.max_batch_size
  AllowOutside,  \* jobs with allow_start_outside_window
  Orphan,        \* jobs whose runner selector is not in the catalog
  EndPolicies,   \* the end_policy values of the windows to check
  Limit,         \* how many faults of each kind a behaviour may contain
  MaxFaults      \* how many faults in all

ASSUME DispatchAssumption ==
  /\ NoRunner \notin Runner
  /\ NoJob \notin Job
  /\ Static \in BOOLEAN
  /\ Static => Cardinality(Runner) = 1
  /\ MaxBatchSize \in Nat \ {0}
  /\ AllowOutside \subseteq Job
  /\ Orphan \subseteq Job
  /\ EndPolicies \subseteq {"finish_batch", "finish_job", "end_now"}

(* crash: the orchestrator dies.  exit: a runner dies or its idle watchdog *)
(* ends it.  loss: an HTTP exchange with a live runner fails.  error: a    *)
(* transaction fails.  cancel: an operator's command.  close: the          *)
(* scheduling window closes.                                               *)
Fault == {"crash", "exit", "loss", "error", "cancel", "close"}

ASSUME LimitAssumption == Limit \in [Fault -> Nat] /\ MaxFaults \in Nat

VARIABLES
  jobs,      \* [Job -> JobRow]
  open,      \* batches whose closed_at IS NULL
  endpoint,  \* [Batch -> Runner or NoRunner]: batches.runner_endpoint
  runner,    \* [Runner -> RunnerProcess]
  window,    \* is the scheduling window active now?
  policy,    \* end_policy of that window
  pc,        \* point of the scheduler thread
  plan,      \* its local variables: see Plan
  cli,       \* the operator's cancel in progress: see Cli
  faults     \* [Fault -> Nat]: faults so far

db    == <<jobs, open, endpoint>>
clock == <<window, policy>>
sched == <<pc, plan>>
vars  == <<jobs, open, endpoint, runner, window, policy, pc, plan, cli, faults>>

-----------------------------------------------------------------------------
(* Types *)

RunnerState ==
  {"none", "starting", "idle", "running", "finished", "failed",
   "shutting_down", "gone"}

(* GET /status of a runner: the batch it is bound to, its current job and  *)
(* the attempt number in the request it runs.                              *)
RunnerProcess == [state   : RunnerState,
                  batch   : Batch \cup {NoBatch},
                  job     : Job \cup {NoJob},
                  attempt : 0..MaxAttempts]

NoProcess(state) ==
  [state |-> state, batch |-> NoBatch, job |-> NoJob, attempt |-> 0]

(* Locals of claim_pending_batch and dispatch_batch.  cands: candidates    *)
(* not tried yet.  source: the batch id of the candidate being resolved.   *)
(* active: claim's window state.  batch, at: the plan's batch id and the   *)
(* endpoint.  todo: jobs of the plan not reached yet.  cur: the job in the *)
(* loop body.  ok, attempt: the terminal status taken for it.  released:   *)
(* rows release_batch_pending_jobs selected.  tracking: is the window      *)
(* policy enforced for this batch?  stopped: runner_shutdown_requested.    *)
Plan == [cands    : SUBSET Job,
         source   : Batch \cup {NoBatch},
         active   : BOOLEAN,
         batch    : Batch \cup {NoBatch},
         at       : Runner \cup {NoRunner},
         todo     : SUBSET Job,
         cur      : Job \cup {NoJob},
         ok       : BOOLEAN,
         attempt  : 0..MaxAttempts,
         released : SUBSET Job,
         tracking : BOOLEAN,
         stopped  : BOOLEAN]

NoPlan == [cands |-> {}, source |-> NoBatch, active |-> FALSE,
           batch |-> NoBatch, at |-> NoRunner, todo |-> {}, cur |-> NoJob,
           ok |-> FALSE, attempt |-> 0, released |-> {}, tracking |-> FALSE,
           stopped |-> FALSE]

(* The rows and the batches a cancel_jobs has read and not yet updated.    *)
Cli == [jobs : SUBSET Job, batches : SUBSET Batch]

NoCli == [jobs |-> {}, batches |-> {}]

Point ==
  {"down", "idle", "candidate", "claim", "begin", "launch", "announce",
   "startup", "startfail", "next", "recover", "submit", "poll", "record",
   "dispatchfail", "select", "release", "exit"}

TypeOK ==
  /\ jobs \in [Job -> JobRow]
  /\ open \subseteq Batch
  /\ endpoint \in [Batch -> Runner \cup {NoRunner}]
  /\ runner \in [Runner -> RunnerProcess]
  /\ window \in BOOLEAN
  /\ policy \in EndPolicies
  /\ pc \in Point
  /\ plan \in Plan
  /\ cli \in Cli
  /\ faults \in [Fault -> Nat]

Init ==
  /\ jobs = [j \in Job |-> NewRow]
  /\ open = {}
  /\ endpoint = [b \in Batch |-> NoRunner]
  /\ runner = [r \in Runner |-> NoProcess(IF Static THEN "starting" ELSE "none")]
  /\ window = TRUE
  /\ policy \in EndPolicies
  /\ pc = "idle"
  /\ plan = NoPlan
  /\ cli = NoCli
  /\ faults = [f \in Fault |-> 0]

-----------------------------------------------------------------------------
(* Helpers *)

AllFaults ==
  faults["crash"] + faults["exit"] + faults["loss"] + faults["error"]
    + faults["cancel"] + faults["close"]

Fails(f) ==
  /\ faults[f] < Limit[f]
  /\ AllFaults < MaxFaults
  /\ faults' = [faults EXCEPT ![f] = @ + 1]

Pending(j) == jobs[j].status = "pending"

(* Mutant: wait_until_ready accepts a busy runner.                         *)
ReadyOrRunning(r) == runner[r].state \in {"idle", "running", "finished", "failed"}

Ready(r) == runner[r].state \in {"idle", "finished", "failed"}

(* A runner answers HTTP once its adapter is loaded (runner main) and      *)
(* until it is gone.                                                       *)
Reachable(r) ==
  runner[r].state \in {"idle", "running", "finished", "failed", "shutting_down"}

Alive(r) == runner[r].state \notin {"none", "gone"}

(* Mutants: the job id, or the state, of the status is not looked at.      *)
ShowsAnyResult(r, j) == runner[r].state \in {"finished", "failed"}

ShowsAnyState(r, j) == runner[r].job = j

(* The result of job j is what /status of r shows.                         *)
Shows(r, j) ==
  runner[r].job = j /\ runner[r].state \in {"finished", "failed"}

(* A new uuid is no id that something still refers to.                     *)
Unreferenced(b) ==
  /\ \A j \in Job : jobs[j].batch # b
  /\ \A r \in Runner : runner[r].batch # b
  /\ b \notin cli.batches

(* Mutant: a container's name is used again while it still shuts down.     *)
NamedByNoBatch(r) ==
  \A j \in Job : jobs[j].batch # NoBatch => endpoint[jobs[j].batch] # r

(* A container name is unique, so a slot is free once its container is     *)
(* gone and no batch row in use still names it.                            *)
FreeSlot(r) ==
  /\ ~Alive(r)
  /\ \A j \in Job : jobs[j].batch # NoBatch => endpoint[jobs[j].batch] # r

(* One transaction that leaves table js and refreshes the batches bs.      *)
Write(js, bs) ==
  /\ jobs' = js
  /\ open' = Refreshed(open, js, bs)

(* Mutants: a result is written over a cancelled row; the batch record is  *)
(* not refreshed after the write.                                          *)
WriteJobAlways(j, row) == Write([jobs EXCEPT ![j] = row], {plan.batch})

WriteJobOnly(j, row) ==
  IF jobs[j].status = "cancelled" THEN UNCHANGED <<jobs, open>>
  ELSE Write([jobs EXCEPT ![j] = row], {})

(* Both result writers return early on a cancelled row, before any update. *)
WriteJob(j, row) ==
  IF jobs[j].status = "cancelled" THEN UNCHANGED <<jobs, open>>
  ELSE Write([jobs EXCEPT ![j] = row], {plan.batch})

(* runner_client.get_status raises: the runner is not there, or the exchange     *)
(* with a live one fails.                                                  *)
Unanswered(r) ==
  \/ ~Reachable(r) /\ UNCHANGED faults
  \/ Reachable(r) /\ Fails("loss")

Answered(r) == Reachable(r) /\ UNCHANGED faults

(* Runner.request_shutdown: the job, if any, is stopped and forgotten.     *)
ShutDown(r) == [runner EXCEPT ![r].state = "shutting_down",
                              ![r].job = NoJob, ![r].attempt = 0]

-----------------------------------------------------------------------------
(* Claiming: claim_pending_batch *)

(* _claim_candidate_rows: what may start now, or has no runner to start.   *)
Candidates ==
  {j \in Job : Pending(j) /\ (window \/ j \in AllowOutside \/ j \in Orphan)}

SelectCandidates ==
  /\ pc = "idle"
  /\ Candidates # {}
  /\ pc' = "candidate"
  /\ plan' = [NoPlan EXCEPT !.cands = Candidates]
  /\ UNCHANGED <<db, runner, clock, cli, faults>>

(* The runner definition is gone: the row fails, whatever it has become.   *)
FailOrphan(j) ==
  /\ pc = "candidate"
  /\ j \in plan.cands \cap Orphan
  /\ jobs' = [jobs EXCEPT ![j] = MissingRow(@)]
  /\ plan' = [plan EXCEPT !.cands = @ \ {j}]
  /\ UNCHANGED <<open, endpoint, runner, clock, pc, cli, faults>>

(* The window closed since the candidates were read: continue.             *)
PassOver(j) ==
  /\ pc = "candidate"
  /\ j \in plan.cands \ Orphan
  /\ ~window /\ j \notin AllowOutside
  /\ plan' = [plan EXCEPT !.cands = @ \ {j}]
  /\ UNCHANGED <<db, runner, clock, pc, cli, faults>>

(* _batch_runner_online: RuntimeError of get_status means offline.         *)
OnlineFor(r, b) ==
  r \in Runner /\ Reachable(r) /\ runner[r].batch = b
  /\ runner[r].state # "shutting_down"

(* _resolve_target_batch: a job that still has a batch id keeps it, with   *)
(* its runner if that one is online; any other job starts a new batch.     *)
ResolveTarget(j) ==
  LET source == jobs[j].batch
      Chosen(b, r) ==
        plan' = [plan EXCEPT !.cands = @ \ {j}, !.source = source,
                             !.active = window, !.batch = b, !.at = r]
  IN
  /\ pc = "candidate"
  /\ j \in plan.cands \ Orphan
  /\ window \/ j \in AllowOutside
  /\ pc' = "claim"
  /\ \/ /\ source = NoBatch
        /\ \E b \in Batch : Unreferenced(b) /\ Chosen(b, NoRunner)
        /\ UNCHANGED faults
     \/ /\ source # NoBatch
        /\ OnlineFor(endpoint[source], source)
        /\ Chosen(source, endpoint[source])
        /\ UNCHANGED faults
     \/ /\ source # NoBatch
        /\ ~OnlineFor(endpoint[source], source)
        /\ Chosen(source, NoRunner)
        /\ UNCHANGED faults
     \/ /\ source # NoBatch
        /\ OnlineFor(endpoint[source], source)
        /\ Chosen(source, NoRunner)
        /\ Fails("loss")
  /\ UNCHANGED <<db, runner, clock, cli>>

(* SELECT ... ORDER BY created_at LIMIT max_batch_size FOR UPDATE.  Jobs   *)
(* of one command share their created_at, so any of them may come first.   *)
Claimable ==
  {j \in Job \ Orphan :
     /\ Pending(j)
     /\ plan.active \/ j \in AllowOutside
     /\ \/ jobs[j].batch = NoBatch
        \/ plan.source # NoBatch /\ jobs[j].batch = plan.source}

ClaimBatch ==
  LET claimed(S) == [j \in Job |-> IF j \in S THEN ClaimedRow(jobs[j], plan.batch)
                                              ELSE jobs[j]]
      recorded == IF plan.source = NoBatch \/ plan.at # NoRunner
                  THEN plan.at ELSE endpoint[plan.batch]
  IN
  /\ pc = "claim"
  /\ \E S \in SUBSET Claimable :
       /\ S # {}
       /\ Cardinality(S) <= MaxBatchSize
       /\ Cardinality(S) = MaxBatchSize \/ S = Claimable
       /\ Write(claimed(S), {plan.batch})
       /\ plan' = [plan EXCEPT !.cands = {}, !.source = NoBatch,
                               !.active = FALSE, !.todo = S]
  /\ endpoint' = [endpoint EXCEPT ![plan.batch] = recorded]
  /\ pc' = "begin"
  /\ UNCHANGED <<runner, clock, cli, faults>>

(* No row left (a cancel came first): the next candidate.                  *)
ClaimNothing ==
  /\ pc = "claim"
  /\ Claimable = {}
  /\ pc' = "candidate"
  /\ plan' = [NoPlan EXCEPT !.cands = plan.cands]
  /\ UNCHANGED <<db, runner, clock, cli, faults>>

(* No candidate yielded a batch: claim_pending_batch returns None.         *)
NothingToClaim ==
  /\ pc = "candidate"
  /\ plan.cands = {}
  /\ pc' = "idle"
  /\ plan' = NoPlan
  /\ UNCHANGED <<db, runner, clock, cli, faults>>

(* A transaction of the claim fails, or the status answer times out, which *)
(* _batch_runner_online does not catch: scheduler_loop starts over.        *)
ClaimFails ==
  /\ pc \in {"candidate", "claim"}
  /\ \/ Fails("error")
     \/ /\ pc = "candidate"
        /\ \E j \in plan.cands : jobs[j].batch # NoBatch
        /\ Fails("loss")
  /\ pc' = "idle"
  /\ plan' = NoPlan
  /\ UNCHANGED <<db, runner, clock, cli>>

(* scheduler_loop evaluates the window again before it dispatches: the     *)
(* policy is enforced only if the window is active at this point.          *)
BeginDispatch ==
  /\ pc = "begin"
  /\ pc' = "launch"
  /\ plan' = [plan EXCEPT !.tracking = window]
  /\ UNCHANGED <<db, runner, clock, cli, faults>>

-----------------------------------------------------------------------------
(* Startup: the first try of dispatch_batch *)

(* launcher.get_endpoint: the endpoint of the claim, the configured static *)
(* one, or a new container.                                                *)
GetEndpoint ==
  /\ pc = "launch"
  /\ \E r \in Runner :
       /\ \/ plan.at = r /\ UNCHANGED runner
          \/ plan.at = NoRunner /\ Static /\ UNCHANGED runner
          \/ /\ plan.at = NoRunner /\ ~Static /\ FreeSlot(r)
             /\ runner' = [runner EXCEPT ![r] = NoProcess("starting")]
       /\ plan' = [plan EXCEPT !.at = r]
  /\ pc' = "announce"
  /\ UNCHANGED <<db, clock, cli, faults>>

(* The Docker API refuses, or there is no room for another container.      *)
GetEndpointFails ==
  /\ pc = "launch"
  /\ plan.at = NoRunner /\ ~Static
  /\ \/ Fails("error")
     \/ ~(\E r \in Runner : FreeSlot(r)) /\ UNCHANGED faults
  /\ pc' = "startfail"
  /\ UNCHANGED <<db, runner, clock, plan, cli>>

(* on_endpoint_ready = update_batch_runner_endpoint.                       *)
AnnounceEndpoint ==
  /\ pc = "announce"
  /\ endpoint' = [endpoint EXCEPT ![plan.batch] = plan.at]
  /\ Write(jobs, {plan.batch})
  /\ pc' = "startup"
  /\ UNCHANGED <<runner, clock, plan, cli, faults>>

(* wait_until_ready saw a ready runner that is free or bound to this batch. *)
RunnerReady ==
  /\ pc = "startup"
  /\ Ready(plan.at)
  /\ runner[plan.at].batch \in {NoBatch, plan.batch}
  /\ pc' = "next"
  /\ UNCHANGED <<db, runner, clock, plan, cli, faults>>

(* It belongs to another batch, or it was not ready before the deadline.   *)
StartupFails ==
  /\ pc = "startup"
  /\ \/ ~Ready(plan.at)
     \/ runner[plan.at].batch \notin {NoBatch, plan.batch}
  /\ pc' = "startfail"
  /\ UNCHANGED <<db, runner, clock, plan, cli, faults>>

(* _record_dispatch_failure_for_claimed_jobs: one transaction per job ...  *)
ChargeStartup(j) ==
  /\ pc = "startfail"
  /\ j \in plan.todo
  /\ WriteJob(j, DispatchFailureRow(jobs[j], plan.batch))
  /\ plan' = [plan EXCEPT !.todo = @ \ {j}]
  /\ UNCHANGED <<endpoint, runner, clock, pc, cli, faults>>

(* ... then the batch is released.                                         *)
StartupCharged ==
  /\ pc = "startfail"
  /\ plan.todo = {}
  /\ pc' = "select"
  /\ UNCHANGED <<db, runner, clock, plan, cli, faults>>

-----------------------------------------------------------------------------
(* The loop over plan.jobs *)

(* The locals once the loop is left.                                       *)
LoopLeft == [plan EXCEPT !.todo = {}, !.cur = NoJob, !.ok = FALSE,
                         !.attempt = 0]

WindowClosedOnBatch(policies) == plan.tracking /\ ~window /\ policy \in policies

(* fetch_job_status says the job is pending no more: continue.             *)
SkipJob(j) ==
  /\ pc = "next"
  /\ j \in plan.todo
  /\ ~Pending(j)
  /\ plan' = [plan EXCEPT !.todo = @ \ {j}]
  /\ UNCHANGED <<db, runner, clock, pc, cli, faults>>

(* Mutant: the batch is released but the loop is not left.                 *)
StopAtWindowWithoutBreak(j) ==
  /\ pc = "next"
  /\ j \in plan.todo
  /\ Pending(j)
  /\ WindowClosedOnBatch({"end_now", "finish_job"})
  /\ pc' = "select"
  /\ UNCHANGED <<db, runner, clock, plan, cli, faults>>

(* stop_before_next_job: the rest of the batch goes back.                  *)
StopAtWindow(j) ==
  /\ pc = "next"
  /\ j \in plan.todo
  /\ Pending(j)
  /\ WindowClosedOnBatch({"end_now", "finish_job"})
  /\ pc' = "select"
  /\ plan' = LoopLeft
  /\ UNCHANGED <<db, runner, clock, cli, faults>>

StartJob(j) ==
  /\ pc = "next"
  /\ j \in plan.todo
  /\ Pending(j)
  /\ ~WindowClosedOnBatch({"end_now", "finish_job"})
  /\ pc' = "recover"
  /\ plan' = [plan EXCEPT !.todo = @ \ {j}, !.cur = j]
  /\ UNCHANGED <<db, runner, clock, cli, faults>>

FinishBatch ==
  /\ pc = "next"
  /\ plan.todo = {}
  /\ pc' = "exit"
  /\ UNCHANGED <<db, runner, clock, plan, cli, faults>>

(* _recover_terminal_if_available.  A runner that is running here would be *)
(* polled or waited for; RunnerIsFreeInLoop shows that this never happens. *)
Recover ==
  /\ pc = "recover"
  /\ Answered(plan.at)
  /\ runner[plan.at].batch \in {NoBatch, plan.batch}
  /\ runner[plan.at].state # "running"
  /\ IF Shows(plan.at, plan.cur)
     THEN /\ pc' = "record"
          /\ plan' = [plan EXCEPT !.ok = runner[plan.at].state = "finished",
                                  !.attempt = runner[plan.at].attempt]
     ELSE /\ pc' = "submit"
          /\ plan' = plan
  /\ UNCHANGED <<db, runner, clock, cli>>

(* It raises outside the inner try: nothing is charged, nothing released.  *)
RecoverAborts ==
  /\ pc = "recover"
  /\ Unanswered(plan.at)
  /\ pc' = "exit"
  /\ plan' = LoopLeft
  /\ UNCHANGED <<db, runner, clock, cli>>

(* Runner.submit_job, at the runner: refused unless it is ready and free   *)
(* or bound to this batch; accepted, it binds the batch and runs the job.  *)
Accepts(r, b) == Ready(r) /\ runner[r].batch \in {NoBatch, b}

Accepting(r, b, j) ==
  [runner EXCEPT ![r] = [state |-> "running", batch |-> b, job |-> j,
                         attempt |-> jobs[j].attempt]]

SubmitAccepted ==
  /\ pc = "submit"
  /\ Accepts(plan.at, plan.batch)
  /\ runner' = Accepting(plan.at, plan.batch, plan.cur)
  /\ pc' = "poll"
  /\ UNCHANGED <<db, clock, plan, cli, faults>>

(* Refused, not there, or the request or its answer is lost.               *)
SubmitFails ==
  /\ pc = "submit"
  /\ \/ ~Accepts(plan.at, plan.batch) /\ UNCHANGED <<runner, faults>>
     \/ /\ Accepts(plan.at, plan.batch)
        /\ \/ UNCHANGED runner
           \/ runner' = Accepting(plan.at, plan.batch, plan.cur)
        /\ Fails("loss")
  /\ pc' = "dispatchfail"
  /\ UNCHANGED <<db, clock, plan, cli>>

(* wait_for_terminal_state: the status comes first ...                     *)
PollTerminal ==
  /\ pc = "poll"
  /\ Answered(plan.at)
  /\ Shows(plan.at, plan.cur)
  /\ pc' = "record"
  /\ plan' = [plan EXCEPT !.ok = runner[plan.at].state = "finished",
                          !.attempt = runner[plan.at].attempt]
  /\ UNCHANGED <<db, runner, clock, cli>>

(* shutdown_runner from inside a poll or from finally: delivered, or lost. *)
ShutdownTry(r, stopped) ==
  \/ /\ Reachable(r)
     /\ runner' = ShutDown(r)
     /\ stopped
     /\ UNCHANGED faults
  \/ /\ Unanswered(r)
     /\ ~stopped
     /\ UNCHANGED runner

(* ... and then _handle_job_poll, by when the runner may have finished: a  *)
(* cancelled job, or a window that closed under end_now, stops the runner  *)
(* and releases the batch.                                                 *)
PollInterrupts ==
  /\ pc = "poll"
  /\ \/ jobs[plan.cur].status = "cancelled"
     \/ WindowClosedOnBatch({"end_now"})
  /\ \E stopped \in BOOLEAN :
       /\ ShutdownTry(plan.at, stopped)
       /\ plan' = [plan EXCEPT !.todo = {}, !.stopped = stopped]
  /\ pc' = "select"
  /\ UNCHANGED <<db, clock, cli>>

(* The status request fails, or the job's timeout_seconds are over.        *)
PollFails ==
  /\ pc = "poll"
  /\ Unanswered(plan.at) \/ UNCHANGED faults
  /\ pc' = "dispatchfail"
  /\ UNCHANGED <<db, runner, clock, plan, cli>>

(* write_job_terminal_result.                                              *)
RecordTerminal ==
  /\ pc = "record"
  /\ WriteJob(plan.cur, TerminalRow(jobs[plan.cur], plan.batch, plan.ok))
  /\ pc' = "next"
  /\ plan' = [plan EXCEPT !.cur = NoJob, !.ok = FALSE, !.attempt = 0]
  /\ UNCHANGED <<endpoint, runner, clock, cli, faults>>

(* Its transaction rolls back: handled like a failed dispatch.             *)
RecordFails ==
  /\ pc = "record"
  /\ Fails("error")
  /\ pc' = "dispatchfail"
  /\ plan' = [plan EXCEPT !.ok = FALSE, !.attempt = 0]
  /\ UNCHANGED <<db, runner, clock, cli>>

(* Mutant: the shutdown is taken as requested after any failure.           *)
ChargeDispatchAsStopped ==
  /\ pc = "dispatchfail"
  /\ WriteJob(plan.cur, DispatchFailureRow(jobs[plan.cur], plan.batch))
  /\ pc' = "select"
  /\ plan' = [LoopLeft EXCEPT !.stopped = TRUE]
  /\ UNCHANGED <<endpoint, runner, clock, cli, faults>>

(* The except clause: write_job_dispatch_failure.  If the job turns out to *)
(* be cancelled, runner_shutdown_requested is set without any request.     *)
ChargeDispatch ==
  /\ pc = "dispatchfail"
  /\ WriteJob(plan.cur, DispatchFailureRow(jobs[plan.cur], plan.batch))
  /\ pc' = "select"
  /\ plan' = [LoopLeft EXCEPT
       !.stopped = plan.stopped \/ jobs[plan.cur].status = "cancelled"]
  /\ UNCHANGED <<endpoint, runner, clock, cli, faults>>

-----------------------------------------------------------------------------
(* Leaving a batch *)

(* release_batch_pending_jobs reads the pending rows without a lock ...    *)
SelectReleased ==
  /\ pc = "select"
  /\ pc' = "release"
  /\ plan' = [plan EXCEPT
       !.released = {j \in Job : Pending(j) /\ jobs[j].batch = plan.batch}]
  /\ UNCHANGED <<db, runner, clock, cli, faults>>

(* ... and updates them by job_id, even one cancelled in between.          *)
ReleaseBatch ==
  /\ pc = "release"
  /\ Write([j \in Job |-> IF j \in plan.released THEN ReleasedRow(jobs[j])
                                                ELSE jobs[j]],
           {plan.batch})
  /\ pc' = "exit"
  /\ plan' = [plan EXCEPT !.released = {}, !.cur = NoJob]
  /\ UNCHANGED <<endpoint, runner, clock, cli, faults>>

(* The release that follows an interrupted poll raises inside the inner    *)
(* try: its except clause charges the job after all.                       *)
ReleaseFails ==
  /\ pc \in {"select", "release"}
  /\ plan.cur # NoJob
  /\ Fails("error")
  /\ pc' = "dispatchfail"
  /\ plan' = [plan EXCEPT !.released = {}]
  /\ UNCHANGED <<db, runner, clock, cli>>

(* A transaction outside the inner try raises: the batch is abandoned.     *)
AbortDispatch ==
  /\ pc \in {"announce", "startfail", "next", "dispatchfail", "select", "release"}
  /\ pc \in {"select", "release"} => plan.cur = NoJob
  /\ Fails("error")
  /\ pc' = IF pc = "announce" THEN "startfail" ELSE "exit"
  /\ plan' = IF pc = "announce" THEN plan
             ELSE [LoopLeft EXCEPT !.released = {}]
  /\ UNCHANGED <<db, runner, clock, cli>>

(* Mutant: keep_runner is taken as set.                                    *)
LeaveBatchKeepingRunner ==
  /\ pc = "exit"
  /\ pc' = "idle"
  /\ plan' = NoPlan
  /\ UNCHANGED <<db, runner, clock, cli, faults>>

(* finally: shut the runner down unless that was done; back to the loop.   *)
LeaveBatch ==
  /\ pc = "exit"
  /\ IF plan.at = NoRunner \/ plan.stopped
     THEN UNCHANGED <<runner, faults>>
     ELSE \E stopped \in BOOLEAN : ShutdownTry(plan.at, stopped)
  /\ pc' = "idle"
  /\ plan' = NoPlan
  /\ UNCHANGED <<db, clock, cli>>

-----------------------------------------------------------------------------
(* The orchestrator process *)

Crash ==
  /\ pc # "down"
  /\ Fails("crash")
  /\ pc' = "down"
  /\ plan' = NoPlan
  /\ UNCHANGED <<db, runner, clock, cli>>

(* run_service: nothing of the jobs is repaired, the loop starts over.     *)
Restart ==
  /\ pc = "down"
  /\ pc' = "idle"
  /\ UNCHANGED <<db, runner, clock, plan, cli, faults>>

-----------------------------------------------------------------------------
(* The operator *)

(* Mutant: the rows are not filtered by status.                            *)
CancelSelectAny ==
  /\ cli = NoCli
  /\ \E S \in SUBSET Job :
       /\ S # {}
       /\ cli' = [jobs |-> S, batches |-> {jobs[j].batch : j \in S} \ {NoBatch}]
  /\ Fails("cancel")
  /\ UNCHANGED <<db, runner, clock, sched>>

(* cancel_jobs reads the matching rows that are pending, and their batches *)
(* (its filter selects some set of jobs) ...                               *)
CancelSelect ==
  /\ cli = NoCli
  /\ \E S \in SUBSET {j \in Job : Pending(j)} :
       /\ S # {}
       /\ cli' = [jobs |-> S, batches |-> {jobs[j].batch : j \in S} \ {NoBatch}]
  /\ Fails("cancel")
  /\ UNCHANGED <<db, runner, clock, sched>>

(* ... and cancels them by job_id, whatever they have become.              *)
CancelUpdate ==
  /\ cli # NoCli
  /\ Write([j \in Job |-> IF j \in cli.jobs THEN CancelledRow(jobs[j])
                                            ELSE jobs[j]],
           cli.batches)
  /\ cli' = NoCli
  /\ UNCHANGED <<endpoint, runner, clock, sched, faults>>

-----------------------------------------------------------------------------
(* Runners and the clock *)

RunnerBoots(r) ==
  /\ runner[r].state = "starting"
  /\ runner' = [runner EXCEPT ![r].state = "idle"]
  /\ UNCHANGED <<db, clock, sched, cli, faults>>

RunnerFinishes(r) ==
  /\ runner[r].state = "running"
  /\ \E state \in {"finished", "failed"} :
       runner' = [runner EXCEPT ![r].state = state]
  /\ UNCHANGED <<db, clock, sched, cli, faults>>

(* The idle watchdog shuts the runner down, never while a job runs.        *)
RunnerIdles(r) ==
  /\ Ready(r)
  /\ runner' = ShutDown(r)
  /\ Fails("exit")
  /\ UNCHANGED <<db, clock, sched, cli>>

(* After a shutdown the process ends; otherwise it dies.                   *)
RunnerExits(r) ==
  /\ Alive(r)
  /\ runner' = [runner EXCEPT ![r] = NoProcess("gone")]
  /\ IF runner[r].state = "shutting_down" THEN UNCHANGED faults ELSE Fails("exit")
  /\ UNCHANGED <<db, clock, sched, cli>>

(* Whoever runs a static runner starts it again.                           *)
RunnerRestarts(r) ==
  /\ Static
  /\ runner[r].state = "gone"
  /\ runner' = [runner EXCEPT ![r] = NoProcess("starting")]
  /\ UNCHANGED <<db, clock, sched, cli, faults>>

WindowCloses ==
  /\ window
  /\ Fails("close")
  /\ window' = FALSE
  /\ UNCHANGED <<db, runner, policy, sched, cli>>

WindowOpens ==
  /\ ~window
  /\ window' = TRUE
  /\ UNCHANGED <<db, runner, policy, sched, cli, faults>>

-----------------------------------------------------------------------------
Claiming ==
  \/ SelectCandidates
  \/ \E j \in Job : FailOrphan(j) \/ PassOver(j) \/ ResolveTarget(j)
  \/ ClaimBatch \/ ClaimNothing \/ NothingToClaim \/ ClaimFails
  \/ BeginDispatch

Starting ==
  \/ GetEndpoint \/ GetEndpointFails \/ AnnounceEndpoint
  \/ RunnerReady \/ StartupFails
  \/ \E j \in Job : ChargeStartup(j)
  \/ StartupCharged

Running ==
  \/ \E j \in Job : SkipJob(j) \/ StopAtWindow(j) \/ StartJob(j)
  \/ FinishBatch \/ Recover \/ RecoverAborts
  \/ SubmitAccepted \/ SubmitFails
  \/ PollTerminal \/ PollInterrupts \/ PollFails
  \/ RecordTerminal \/ RecordFails \/ ChargeDispatch

Leaving ==
  \/ SelectReleased \/ ReleaseBatch \/ ReleaseFails \/ AbortDispatch
  \/ LeaveBatch

Scheduler == Claiming \/ Starting \/ Running \/ Leaving

Operator == CancelSelect \/ CancelUpdate

Runners ==
  \E r \in Runner :
    \/ RunnerBoots(r) \/ RunnerFinishes(r) \/ RunnerIdles(r)
    \/ RunnerExits(r) \/ RunnerRestarts(r)

Next ==
  \/ Scheduler \/ Crash \/ Restart \/ Operator \/ Runners
  \/ WindowCloses \/ WindowOpens

Spec == Init /\ [][Next]_vars

-----------------------------------------------------------------------------
(* Safety *)

(* The detailed specification implements the life cycle readers of the     *)
(* jobs table rely on: retries within the budget, no job settled twice, no *)
(* cancel of a job that was not pending when it was asked for (the two     *)
(* result writers, cancel_jobs and release_batch_pending_jobs).            *)
Lifecycle ==
  INSTANCE JobLifecycle WITH
    status  <- [j \in Job |-> jobs[j].status],
    attempt <- [j \in Job |-> jobs[j].attempt],
    output  <- {j \in Job : jobs[j].sample},
    asked   <- cli.jobs

ImplementsLifecycle == Lifecycle!Spec

(* One runner, as RunnerContract describes it: a job is its id with the    *)
(* attempt number of the request.                                          *)
Contract(r) == INSTANCE RunnerContract WITH
  Job   <- Job \X (0 .. MaxAttempts),
  NoJob <- <<NoJob, 0>>,
  state <- runner[r].state,
  batch <- runner[r].batch,
  job   <- <<runner[r].job, runner[r].attempt>>

(* A new process takes the place of one that is over.                      *)
Replaced(r) == ~Alive(r) /\ (Contract(r)!Init)'

RunnerStep(r) ==
  Contract(r)!Next \/ Replaced(r) \/ UNCHANGED Contract(r)!vars

(* Whatever the orchestrator does, lost answers, crashes and new batches   *)
(* included, each runner sees only what the contract it implements allows: *)
(* a job only when it is ready and of its batch, no answer after a         *)
(* shutdown, and no new process while the old one is alive.                *)
RunnersKeepContract == [][\A r \in Runner : RunnerStep(r)]_vars

(* The jobs a dispatch still has before it, and the one in the loop body.  *)
Held == plan.todo \cup ({plan.cur} \ {NoJob})

(* A dispatch owns its jobs: nobody else settles them or moves them to     *)
(* another batch, so writing a result with plan.batch_id, without checking *)
(* the row's own batch or status, is right (write_job_terminal_result,     *)
(* write_job_dispatch_failure).                                            *)
PlanOwnsItsJobs ==
  \A j \in Held :
    /\ jobs[j].status \in {"pending", "cancelled"}
    /\ jobs[j].batch = plan.batch

(* A batch that still has a pending job is open, after any interleaving of *)
(* claims, results, releases and cancels (refresh_batch_record).           *)
PendingBatchIsOpen ==
  \A j \in Job : Pending(j) /\ jobs[j].batch # NoBatch => jobs[j].batch \in open

(* Without a cancel no batch is left open once its jobs are settled or     *)
(* gone: the comment in refresh_batch_record that says so holds.  A cancel *)
(* whose list of batches is older than a claim does leave one open, as     *)
(* nothing refreshes the batch of a cancelled job afterwards.              *)
OpenBatchIsPending ==
  faults["cancel"] = 0 => \A b \in open : HasPending(jobs, b)

(* Nothing runs on the plan's runner when the loop reaches a job: the      *)
(* "already running" branches of _recover_terminal_if_available are dead.  *)
RunnerIsFreeInLoop ==
  pc \in {"next", "recover", "submit"} => runner[plan.at].state # "running"

(* No crash, and no lost HTTP exchange together with another fault: any    *)
(* number of dead runners and failed transactions, or one lost exchange.   *)
FewFaults ==
  /\ faults["crash"] = 0
  /\ \/ faults["loss"] = 0
     \/ faults["exit"] + faults["loss"] + faults["error"] <= 1

(* The result recorded for a job is that of its current attempt, whatever  *)
(* else fails.  A crash, or a lost exchange together with a dead runner, a *)
(* failed transaction or another loss, breaks this: a batch that still has *)
(* pending jobs then keeps a runner nobody shut down, and                  *)
(* _recover_terminal_if_available takes what that runner shows for the job *)
(* id without looking at the attempt.                                      *)
ResultIsOfThisAttempt ==
  pc = "record" /\ FewFaults => plan.attempt = jobs[plan.cur].attempt

(* Two runners never run the same job, hence never write to the same       *)
(* output directory, unless a crash or a lost HTTP exchange kept the       *)
(* orchestrator from stopping the first one (finally of dispatch_batch).   *)
AtMostOneExecution ==
  faults["crash"] = 0 /\ faults["loss"] = 0 =>
    \A r, s \in Runner :
      /\ runner[r].state = "running" /\ runner[s].state = "running"
      /\ runner[r].job = runner[s].job
      => r = s

BetweenBatches == pc \in {"idle", "candidate", "claim", "begin", "launch"}

(* When no batch is being dispatched no runner runs a job, unless a crash, *)
(* a lost exchange or a cancel came in between.                            *)
NoOrphanExecution ==
  BetweenBatches /\ faults["crash"] = 0 /\ faults["loss"] = 0 /\ faults["cancel"] = 0
    => \A r \in Runner : runner[r].state # "running"

(* A cancelled row is never written again by a claim, a result, a failure  *)
(* or a retry in flight; only a release that had selected the row before   *)
(* the cancel still clears its batch and failure code.                     *)
CancelledRowIsFinal ==
  [][\A j \in Job \ Orphan :
       jobs[j].status = "cancelled" /\ j \notin plan.released
         => jobs'[j] = jobs[j]]_vars

-----------------------------------------------------------------------------
(* Liveness *)

(* The scheduler thread runs, the service manager restarts a dead          *)
(* orchestrator, commands end, containers boot, jobs end (the wrapper's    *)
(* job timeout kills them), a runner told to shut down exits, windows open *)
(* again.  Nothing makes an operator cancel or a fault happen.             *)
Fairness ==
  /\ WF_vars(Scheduler)
  /\ WF_vars(Restart)
  /\ WF_vars(CancelUpdate)
  /\ WF_vars(WindowOpens)
  /\ \A r \in Runner :
       /\ WF_vars(RunnerBoots(r))
       /\ WF_vars(RunnerFinishes(r))
       /\ WF_vars(RunnerRestarts(r))
       /\ WF_vars(runner[r].state = "shutting_down" /\ RunnerExits(r))

FairSpec == Spec /\ Fairness

(* Every job is settled in the end, whatever bounded number of crashes,    *)
(* dead runners, lost exchanges, cancels and window closings: no attempt   *)
(* is repeated forever and no claimed job is forgotten.                    *)
EveryJobSettles == \A j \in Job : Pending(j) ~> ~Pending(j)

-----------------------------------------------------------------------------
(* What documentation says and the code does not do *)

(* docs/cli.md, "Cancel pending jobs": a job that completed stays so.      *)
CompletedStaysCompleted ==
  [][\A j \in Job : jobs[j].status = "completed"
                      => jobs'[j].status = "completed"]_vars

(* docs/pipelines.md, "runner jobs survive orchestrator restarts": the     *)
(* restarted orchestrator charges no attempt to a job while the runner of  *)
(* its batch is running it.                                                *)
RunningJobSurvivesRestart ==
  pc = "startfail" /\ plan.at # NoRunner =>
    ~(/\ runner[plan.at].state = "running"
      /\ runner[plan.at].batch = plan.batch
      /\ runner[plan.at].job \in plan.todo)
=============================================================================
