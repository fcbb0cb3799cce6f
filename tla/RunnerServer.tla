---------------------------- MODULE RunnerServer ----------------------------
(***************************************************************************)
(* One runner (runner_wrapper/server.py): an HTTP server whose handlers,   *)
(* the idle watchdog and a thread per accepted job share the Runner object *)
(* under one lock, and a child process per job.  A section under the lock  *)
(* is one action; so is every call on the child or its result queue.       *)
(* A request that submit_job refuses changes nothing and has no action.    *)
(***************************************************************************)
EXTENDS Naturals, FiniteSets

CONSTANTS
  Job,          \* what /run-job asks for: a job id with its attempt number
  NoJob,
  Batch,
  NoBatch,
  MaxRuns,      \* bound: jobs accepted
  MaxShutdowns  \* bound: /shutdown requests

ASSUME RunnerAssumption ==
  /\ NoJob \notin Job
  /\ NoBatch \notin Batch
  /\ MaxRuns \in Nat
  /\ MaxShutdowns \in Nat

Run == 1..MaxRuns
NoRun == 0
Request == 1..MaxShutdowns

VARIABLES
  state, batch, job,  \* Runner.state, batch_id, current_job_id
  result,   \* Runner.result: of which run, or NoRun for None
  child,    \* Runner.child_process: the run whose process it is, or NoRun
  last,     \* jobs accepted so far
  worker,   \* [Run -> Worker]: _run_job_thread of a run
  unanswered, \* accepted runs whose /run-job handler has not answered
  proc,     \* [Run -> Proc]: the child process of a run
  pipe,     \* [Run -> Pipe]: the result queue between the two
  due,      \* runs whose kill_after_seconds are over
  request,  \* [Request -> Handler]: the /shutdown handlers
  idler,    \* idle_shutdown_loop
  main,     \* the main thread
  awaited   \* children the interpreter waits for at exit

runner   == <<state, batch, job, result>>
children == <<proc, pipe, due>>
serving  == <<idler, main, awaited>>
vars == <<runner, child, last, worker, unanswered, children, request, serving>>

-----------------------------------------------------------------------------
(* Types *)

State == {"starting", "idle", "running", "finished", "failed", "shutting_down"}

(* How a run ends: what the child returned, or what the server makes up.   *)
Returned == {"completed", "failed"}
Outcome == Returned \cup {"exited", "timeout", "error"}

(* at: the next step of the thread.  got: the result it will report.       *)
Worker == [at  : {"none", "spawn", "register", "loop", "get", "alive", "over",
                  "stop", "clear", "report", "done"},
           job : Job \cup {NoJob},
           got : Outcome \cup {"none"}]

NoWorker == [at |-> "none", job |-> NoJob, got |-> "none"]

(* returned: the handler is left and the result written; the process may   *)
(* take its time to end.                                                   *)
Proc == {"none", "running", "writing", "returned", "gone"}

(* partial: a result larger than the pipe, not written to its end.         *)
Pipe == {"empty", "partial"} \cup Returned

(* The child a /shutdown handler read under the lock and will stop.        *)
Handler == [at : {"none", "stop", "answer", "lost", "done"},
            child : Run \cup {NoRun}]

NoHandler == [at |-> "none", child |-> NoRun]

TypeOK ==
  /\ state \in State
  /\ batch \in Batch \cup {NoBatch}
  /\ job \in Job \cup {NoJob}
  /\ result \in Run \cup {NoRun}
  /\ child \in Run \cup {NoRun}
  /\ last \in 0..MaxRuns
  /\ worker \in [Run -> Worker]
  /\ unanswered \subseteq Run
  /\ proc \in [Run -> Proc]
  /\ pipe \in [Run -> Pipe]
  /\ due \subseteq Run
  /\ request \in [Request -> Handler]
  /\ idler \in {"watch", "done"}
  /\ main \in {"load", "ready", "serve", "close", "join", "exited"}
  /\ awaited \subseteq Run

Init ==
  /\ state = "starting"
  /\ batch = NoBatch
  /\ job = NoJob
  /\ result = NoRun
  /\ child = NoRun
  /\ last = 0
  /\ worker = [r \in Run |-> NoWorker]
  /\ unanswered = {}
  /\ proc = [r \in Run |-> "none"]
  /\ pipe = [r \in Run |-> "empty"]
  /\ due = {}
  /\ request = [q \in Request |-> NoHandler]
  /\ idler = "watch"
  /\ main = "load"
  /\ awaited = {}

-----------------------------------------------------------------------------
(* Helpers *)

(* Requests are handled, and threads run, from serve_forever to the exit.  *)
Up == main \in {"serve", "close", "join"}

Available == state \in {"idle", "finished", "failed"}

IsAlive(r) == proc[r] \in {"running", "writing", "returned"}

(* The job's code, or the transfer of its result, is under way.            *)
Computes(r) == proc[r] \in {"running", "writing"}

(* set_state *)
SetState(s, j, res) ==
  /\ state' = s
  /\ job' = j
  /\ result' = res

(* _stop_child_process: terminate, then kill.                              *)
StopChild(r) == proc' = [proc EXCEPT ![r] = IF IsAlive(r) THEN "gone" ELSE @]

(* The thread of run r is at point p and goes on to point q.               *)
Goes(r, p, q) ==
  /\ Up
  /\ worker[r].at = p
  /\ worker' = [worker EXCEPT ![r].at = q]

GoesWith(r, p, q, got) ==
  /\ Up
  /\ worker[r].at = p
  /\ worker' = [worker EXCEPT ![r].at = q, ![r].got = got]

-----------------------------------------------------------------------------
(* The main thread *)

(* load_run_job_handler is done; mark_ready.                               *)
MarkReady ==
  /\ main = "load"
  /\ main' = "ready"
  /\ SetState("idle", NoJob, NoRun)
  /\ UNCHANGED <<batch, child, last, worker, unanswered, children, request, idler,
                 awaited>>

(* startup_ready is set, the idle watchdog started, serve_forever entered. *)
Serve ==
  /\ main = "ready"
  /\ main' = "serve"
  /\ UNCHANGED <<runner, child, last, worker, unanswered, children, request, idler,
                 awaited>>

(* serve_forever returns once server.shutdown was called; server_close.    *)
CloseServer ==
  /\ main = "serve"
  /\ idler = "done" \/ \E q \in Request : request[q].at = "done"
  /\ main' = "close"
  /\ UNCHANGED <<runner, child, last, worker, unanswered, children, request, idler,
                 awaited>>

(* main returns.  Every thread is a daemon; multiprocessing waits for the  *)
(* children alive at this moment ...                                       *)
BeginExit ==
  /\ main = "close"
  /\ main' = "join"
  /\ awaited' = {r \in Run : IsAlive(r)}
  /\ UNCHANGED <<runner, child, last, worker, unanswered, children, request, idler>>

(* The process is gone with its threads, and what else ran in its          *)
(* container; no request is left to be answered.                           *)
Leave ==
  /\ main' = "exited"
  /\ child' = NoRun
  /\ worker' = [r \in Run |-> NoWorker]
  /\ unanswered' = {}
  /\ proc' = [r \in Run |-> "none"]
  /\ pipe' = [r \in Run |-> "empty"]
  /\ due' = {}
  /\ request' = [q \in Request |-> NoHandler]
  /\ awaited' = {}
  /\ UNCHANGED <<runner, last, idler>>

(* ... and then the interpreter ends.                                      *)
Exit ==
  /\ main = "join"
  /\ \A r \in awaited : ~IsAlive(r)
  /\ Leave

(* The startup watchdog's os._exit, or the container is killed.            *)
Killed ==
  /\ main # "exited"
  /\ Leave

-----------------------------------------------------------------------------
(* The handlers *)

(* Mutant: a running runner takes another job.                             *)
SubmitWhileRunning(j, b) ==
  /\ Up
  /\ Available \/ state = "running"
  /\ batch \in {NoBatch, b}
  /\ last < MaxRuns
  /\ last' = last + 1
  /\ batch' = b
  /\ SetState("running", j, NoRun)
  /\ worker' = [worker EXCEPT ![last + 1] = [at |-> "spawn", job |-> j, got |-> "none"]]
  /\ unanswered' = unanswered \cup {last + 1}
  /\ UNCHANGED <<child, children, request, serving>>

(* Runner.submit_job under the lock; its thread exists from here on.       *)
SubmitJob(j, b) ==
  /\ Up
  /\ Available
  /\ batch \in {NoBatch, b}
  /\ last < MaxRuns
  /\ last' = last + 1
  /\ batch' = b
  /\ SetState("running", j, NoRun)
  /\ worker' = [worker EXCEPT ![last + 1] = [at |-> "spawn", job |-> j, got |-> "none"]]
  /\ unanswered' = unanswered \cup {last + 1}
  /\ UNCHANGED <<child, children, request, serving>>

(* _handle_run_job takes the lock again for the answer.                    *)
AnswerRunJob(r) ==
  /\ Up
  /\ r \in unanswered
  /\ unanswered' = unanswered \ {r}
  /\ UNCHANGED <<runner, child, last, worker, children, request, serving>>

(* Runner.request_shutdown under the lock ...                              *)
RequestShutdown(q) ==
  /\ Up
  /\ request[q].at = "none"
  /\ request' = [request EXCEPT ![q] = [at |-> IF child = NoRun THEN "answer" ELSE "stop",
                                        child |-> child]]
  /\ SetState("shutting_down", NoJob, NoRun)
  /\ UNCHANGED <<batch, child, last, worker, unanswered, children, serving>>

(* ... then, without it, the child is stopped ...                          *)
StopForShutdown(q) ==
  /\ Up
  /\ request[q].at = "stop"
  /\ StopChild(request[q].child)
  /\ request' = [request EXCEPT ![q].at = "answer"]
  /\ UNCHANGED <<runner, child, last, worker, unanswered, pipe, due, serving>>

(* ... and the answer sent; a client that hung up ends the handler here,   *)
(* and server.shutdown is left to the idle watchdog.                       *)
AnswerShutdown(q) ==
  /\ Up
  /\ request[q].at = "answer"
  /\ \E at \in {"done", "lost"} : request' = [request EXCEPT ![q].at = at]
  /\ UNCHANGED <<runner, child, last, worker, unanswered, children, serving>>

(* Mutant: only its own timeout ends the watchdog's loop.                  *)
IdleTimeoutOnly ==
  /\ Up
  /\ idler = "watch"
  /\ Available
  /\ SetState("shutting_down", NoJob, NoRun)
  /\ idler' = "done"
  /\ UNCHANGED <<batch, child, last, worker, unanswered, children, request, main,
                 awaited>>

(* One round of idle_shutdown_loop: never while a job runs; last_status_at *)
(* is too old, or somebody asked for a shutdown.  It calls server.shutdown. *)
IdleShutdown ==
  /\ Up
  /\ idler = "watch"
  /\ state # "running"
  /\ \/ state # "shutting_down" /\ SetState("shutting_down", NoJob, NoRun)
     \/ state = "shutting_down" /\ UNCHANGED <<state, job, result>>
  /\ idler' = "done"
  /\ UNCHANGED <<batch, child, last, worker, unanswered, children, request, main,
                 awaited>>

-----------------------------------------------------------------------------
(* The thread of a run *)

StartChild(r) ==
  /\ Goes(r, "spawn", "register")
  /\ proc' = [proc EXCEPT ![r] = "running"]
  /\ UNCHANGED <<runner, child, last, unanswered, pipe, due, request, serving>>

(* process.start raises.                                                   *)
StartFails(r) ==
  /\ GoesWith(r, "spawn", "report", "error")
  /\ UNCHANGED <<runner, child, last, unanswered, children, request, serving>>

RegisterChild(r) ==
  /\ Goes(r, "register", "loop")
  /\ child' = r
  /\ UNCHANGED <<runner, last, unanswered, children, request, serving>>

(* Mutant: the deadline is not looked at.                                  *)
LoopForever(r) ==
  /\ \/ state = "shutting_down" /\ GoesWith(r, "loop", "stop", "exited")
     \/ state # "shutting_down" /\ Goes(r, "loop", "get")
  /\ UNCHANGED <<runner, child, last, unanswered, children, request, serving>>

(* The head of the while loop: the state under the lock, the deadline.     *)
Loop(r) ==
  /\ \/ state = "shutting_down" /\ GoesWith(r, "loop", "stop", "exited")
     \/ state # "shutting_down" /\ r \in due /\ Goes(r, "loop", "over")
     \/ state # "shutting_down" /\ r \notin due /\ Goes(r, "loop", "get")
  /\ UNCHANGED <<runner, child, last, unanswered, children, request, serving>>

(* result_queue.get: its timeout is for the first byte, so it does not     *)
(* return while a result is partly there.                                  *)
Get(r) ==
  /\ \/ pipe[r] \in Returned /\ GoesWith(r, "get", "clear", pipe[r])
     \/ pipe[r] = "empty" /\ Goes(r, "get", "alive")
  /\ UNCHANGED <<runner, child, last, unanswered, children, request, serving>>

CheckAlive(r) ==
  /\ IF IsAlive(r) THEN Goes(r, "alive", "loop") ELSE Goes(r, "alive", "over")
  /\ UNCHANGED <<runner, child, last, unanswered, children, request, serving>>

(* Mutant: a child that is out of time is not stopped.                     *)
TimeoutWithoutStop(r) ==
  /\ GoesWith(r, "over", "clear", IF IsAlive(r) THEN "timeout" ELSE "exited")
  /\ UNCHANGED <<runner, child, last, unanswered, children, request, serving>>

(* After the loop without a result: out of time, or the child is gone.     *)
NoPayload(r) ==
  /\ IF IsAlive(r) THEN GoesWith(r, "over", "stop", "timeout")
                   ELSE GoesWith(r, "over", "clear", "exited")
  /\ UNCHANGED <<runner, child, last, unanswered, children, request, serving>>

StopInThread(r) ==
  /\ Goes(r, "stop", "clear")
  /\ StopChild(r)
  /\ UNCHANGED <<runner, child, last, unanswered, pipe, due, request, serving>>

(* finally: the reference goes if it is this child, and the queue is closed. *)
ClearChild(r) ==
  /\ Goes(r, "clear", "report")
  /\ child' = IF child = r THEN NoRun ELSE child
  /\ pipe' = [pipe EXCEPT ![r] = "empty"]
  /\ due' = due \ {r}
  /\ UNCHANGED <<runner, last, unanswered, proc, request, serving>>

(* The thread ends, and its locals with it.                                *)
Ends(r) ==
  /\ Up
  /\ worker[r].at = "report"
  /\ worker' = [worker EXCEPT ![r] = [at |-> "done", job |-> NoJob, got |-> "none"]]

(* Mutant: the status of the result becomes the state.                     *)
ReportStatus(r) ==
  /\ Ends(r)
  /\ IF state = "shutting_down"
     THEN UNCHANGED <<state, job, result>>
     ELSE SetState(worker[r].got, worker[r].job, r)
  /\ UNCHANGED <<batch, child, last, unanswered, children, request, serving>>

(* Mutant: a runner that is shutting down reports all the same.            *)
ReportAlways(r) ==
  /\ Ends(r)
  /\ SetState(IF worker[r].got = "completed" THEN "finished" ELSE "failed",
              worker[r].job, r)
  /\ UNCHANGED <<batch, child, last, unanswered, children, request, serving>>

(* The result, under the lock; dropped when the runner is shutting down.   *)
Report(r) ==
  /\ Ends(r)
  /\ IF state = "shutting_down"
     THEN UNCHANGED <<state, job, result>>
     ELSE SetState(IF worker[r].got = "completed" THEN "finished" ELSE "failed",
                   worker[r].job, r)
  /\ UNCHANGED <<batch, child, last, unanswered, children, request, serving>>

-----------------------------------------------------------------------------
(* The child process and the clock *)

OnlyChild == UNCHANGED <<runner, child, last, worker, unanswered, due, request, serving>>

(* run_job_child: a small result is in the pipe at once, a large one when  *)
(* the thread has read it all.                                             *)
ChildReturns(r) ==
  /\ proc[r] = "running"
  /\ \/ /\ proc' = [proc EXCEPT ![r] = "returned"]
        /\ \E out \in Returned : pipe' = [pipe EXCEPT ![r] = out]
     \/ /\ proc' = [proc EXCEPT ![r] = "writing"]
        /\ pipe' = [pipe EXCEPT ![r] = "partial"]
  /\ OnlyChild

ChildWrites(r) ==
  /\ proc[r] = "writing"
  /\ worker[r].at = "get"
  /\ proc' = [proc EXCEPT ![r] = "returned"]
  /\ \E out \in Returned : pipe' = [pipe EXCEPT ![r] = out]
  /\ OnlyChild

ChildExits(r) ==
  /\ proc[r] = "returned"
  /\ proc' = [proc EXCEPT ![r] = "gone"]
  /\ UNCHANGED pipe
  /\ OnlyChild

(* Out of memory, os._exit, a result that cannot be pickled.               *)
ChildDies(r) ==
  /\ Computes(r)
  /\ proc' = [proc EXCEPT ![r] = "gone"]
  /\ UNCHANGED pipe
  /\ OnlyChild

Deadline(r) ==
  /\ Up
  /\ worker[r].at \in {"loop", "get", "alive"}
  /\ due' = due \cup {r}
  /\ UNCHANGED <<runner, child, last, worker, unanswered, proc, pipe, request, serving>>

-----------------------------------------------------------------------------
Main == MarkReady \/ Serve \/ CloseServer \/ BeginExit \/ Exit

Thread(r) ==
  \/ StartChild(r) \/ StartFails(r) \/ RegisterChild(r) \/ Loop(r) \/ Get(r)
  \/ CheckAlive(r) \/ NoPayload(r) \/ StopInThread(r) \/ ClearChild(r)
  \/ Report(r)

Shutdown(q) == RequestShutdown(q) \/ StopForShutdown(q) \/ AnswerShutdown(q)

Child(r) == ChildReturns(r) \/ ChildWrites(r) \/ ChildExits(r) \/ ChildDies(r)

Next ==
  \/ Main \/ Killed \/ IdleShutdown
  \/ \E j \in Job, b \in Batch : SubmitJob(j, b)
  \/ \E q \in Request : Shutdown(q)
  \/ \E r \in Run : Thread(r) \/ AnswerRunJob(r) \/ Child(r) \/ Deadline(r)

Spec == Init /\ [][Next]_vars

(* Threads are scheduled, time passes, and a process that has nothing left *)
(* to do ends.  Nobody needs to ask for anything, and a job may take       *)
(* for ever.                                                               *)
FairSpec ==
  /\ Spec
  /\ WF_vars(MarkReady) /\ WF_vars(Serve) /\ WF_vars(CloseServer)
  /\ WF_vars(BeginExit) /\ WF_vars(Exit)
  /\ WF_vars(IdleShutdown /\ state = "shutting_down")
  /\ \A q \in Request : WF_vars(StopForShutdown(q)) /\ WF_vars(AnswerShutdown(q))
  /\ \A r \in Run : /\ WF_vars(Thread(r)) /\ WF_vars(Deadline(r))
                    /\ WF_vars(ChildWrites(r)) /\ WF_vars(ChildExits(r))

-----------------------------------------------------------------------------
(* Properties *)

(* The job's code runs for the job accepted last and no other, and only    *)
(* while the runner is busy or shutting down: a runner that offers itself  *)
(* for the next job (Available) has no child still at work.                *)
OnlyLastJobComputes ==
  \A r \in Run : Computes(r) => r = last /\ state \in {"running", "shutting_down"}

(* The result a terminal status shows is that of the job accepted last, so *)
(* the orchestrator never records an earlier job's result for it.          *)
TerminalShowsLastResult ==
  state \in {"finished", "failed"} => result = last /\ result # NoRun

(* A child at work always has the thread that will collect its result,     *)
(* enforce its deadline and stop it at a shutdown; no path through         *)
(* _run_job_in_child_process leaves it behind.                             *)
WorkIsWatched ==
  \A r \in Run :
    Computes(r) => worker[r].at \in {"register", "loop", "get", "alive", "over", "stop"}

(* GET /status, seen from outside.                                         *)
Status(in, out) == IF main = "exited" THEN out ELSE in

Contract == INSTANCE RunnerContract WITH
  state <- Status(state, "gone"),
  batch <- Status(batch, NoBatch),
  job   <- Status(job, NoJob)

(* The threads of the wrapper keep the contract Dispatch relies on: a job  *)
(* is accepted only by a ready runner of its batch, only the job accepted  *)
(* last ends, once, and nothing ends after a shutdown.                     *)
KeepsContract == Contract!Spec

(* The child died in the middle of its result, and the thread waits in     *)
(* result_queue.get for the rest: no deadline is enforced any more.        *)
Hung(r) == worker[r].at = "get" /\ pipe[r] = "partial" /\ proc[r] = "gone"

(* A job comes to an end, by its result, its death or its deadline, unless *)
(* its thread hangs as above.                                              *)
RunEnds ==
  [](Status(state, "gone") = "running"
       => <>(Status(state, "gone") # "running" \/ \E r \in Run : Hung(r)))

(* Once a shutdown was accepted the process ends, even if the handler's    *)
(* client hung up and whatever the job's thread and child are doing.       *)
ShutdownEnds == [](state = "shutting_down" => <>(main = "exited"))
=============================================================================
