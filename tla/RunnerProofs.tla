---------------------------- MODULE RunnerProofs ----------------------------
(***************************************************************************)
(* What is proved of RunnerServer, for any number of jobs accepted and of  *)
(* shutdown requests: its types, that work is watched and only that of the *)
(* last job, and that it keeps RunnerContract.                             *)
(***************************************************************************)
EXTENDS RunnerServer, TLAPS

LEMMA NextCases ==
  ASSUME Next
  PROVE  \/ MarkReady \/ Serve \/ CloseServer \/ BeginExit \/ Exit \/ Killed
         \/ IdleShutdown
         \/ \E j \in Job, b \in Batch : SubmitJob(j, b)
         \/ \E q \in Request :
              RequestShutdown(q) \/ StopForShutdown(q) \/ AnswerShutdown(q)
         \/ \E r \in Run :
              \/ StartChild(r) \/ StartFails(r) \/ RegisterChild(r) \/ Loop(r)
              \/ Get(r) \/ CheckAlive(r) \/ NoPayload(r) \/ StopInThread(r)
              \/ ClearChild(r) \/ Report(r) \/ AnswerRunJob(r) \/ Deadline(r)
              \/ ChildReturns(r) \/ ChildWrites(r) \/ ChildExits(r) \/ ChildDies(r)
  BY Zenon DEF Next, Main, Shutdown, Thread, Child

-----------------------------------------------------------------------------
(* Types *)

LEMMA RunBounds == \A r \in Run : r \in Nat /\ 1 <= r /\ r <= MaxRuns /\ r # NoRun
  BY RunnerAssumption DEF Run, NoRun

LEMMA NextRunIsARun ==
  ASSUME last \in 0..MaxRuns, last < MaxRuns
  PROVE  last + 1 \in Run /\ last + 1 \in 0..MaxRuns
  BY RunnerAssumption DEF Run

LEMMA TypeInit == Init => TypeOK
  BY RunnerAssumption
  DEF Init, TypeOK, State, Worker, NoWorker, Proc, Pipe, Handler, NoHandler

LEMMA TypeStep ==
  ASSUME TypeOK, [Next]_vars
  PROVE  TypeOK'
<1> USE DEF TypeOK, State
<1>1. CASE MarkReady \/ Serve \/ CloseServer \/ BeginExit
  BY <1>1 DEF MarkReady, Serve, CloseServer, BeginExit, SetState, runner, children
<1>2. CASE Exit \/ Killed
  BY <1>2 DEF Exit, Killed, Leave, runner, Worker, NoWorker, Proc, Pipe, Handler,
     NoHandler
<1>3. CASE IdleShutdown
  BY <1>3 DEF IdleShutdown, SetState, children
<1>4. ASSUME NEW j \in Job, NEW b \in Batch, SubmitJob(j, b)
      PROVE  TypeOK'
  BY <1>4, NextRunIsARun DEF SubmitJob, SetState, Worker, Outcome, Returned,
     children, serving
<1>5. ASSUME NEW q \in Request,
             RequestShutdown(q) \/ StopForShutdown(q) \/ AnswerShutdown(q)
      PROVE  TypeOK'
  BY <1>5 DEF RequestShutdown, StopForShutdown, AnswerShutdown, SetState, StopChild,
     Handler, Proc, runner, children, serving
<1>6. ASSUME NEW r \in Run,
             \/ StartChild(r) \/ StartFails(r) \/ RegisterChild(r) \/ Loop(r)
             \/ CheckAlive(r) \/ NoPayload(r) \/ StopInThread(r)
      PROVE  TypeOK'
  BY <1>6 DEF StartChild, StartFails, RegisterChild, Loop, CheckAlive, NoPayload,
     StopInThread, Goes, GoesWith, StopChild, Worker, Outcome, Returned, Proc,
     runner, children, serving
<1>7. ASSUME NEW r \in Run, Get(r) \/ ClearChild(r) \/ Report(r)
      PROVE  TypeOK'
  BY <1>7 DEF Get, ClearChild, Report, Ends, SetState, Goes, GoesWith, Worker,
     Outcome, Returned, Pipe, runner, children, serving
<1>8. ASSUME NEW r \in Run,
             \/ AnswerRunJob(r) \/ Deadline(r)
             \/ ChildReturns(r) \/ ChildWrites(r) \/ ChildExits(r) \/ ChildDies(r)
      PROVE  TypeOK'
  BY <1>8 DEF AnswerRunJob, Deadline, ChildReturns, ChildWrites, ChildExits,
     ChildDies, OnlyChild, Pipe, Proc, Returned, runner, children, serving
<1>9. CASE UNCHANGED vars
  BY <1>9 DEF vars, runner, children, serving
<1> QED BY <1>1, <1>2, <1>3, <1>4, <1>5, <1>6, <1>7, <1>8, <1>9, NextCases

(* Every reachable state is of the declared types: the points of the       *)
(* threads, the states of children and queues, and the bound on runs.      *)
THEOREM TypeCorrect == Spec => []TypeOK
  BY TypeInit, TypeStep, PTL DEF Spec

-----------------------------------------------------------------------------
(* The inductive invariant *)

Active(r) == worker[r].at \notin {"none", "done"}

(* A thread that has not ended serves the job accepted last, and until it  *)
(* reports the runner is running that job or shutting down.                *)
ActiveIsLast ==
  \A r \in Run :
    Active(r) => /\ r = last
                 /\ state \in {"running", "shutting_down"}
                 /\ state = "running" => worker[r].job = job

(* A complete result in the queue was put by a child that is done.         *)
FullQueueIsOfAnIdleChild == \A r \in Run : pipe[r] \in Returned => ~Computes(r)

(* Threads and queues of jobs not accepted yet are untouched.              *)
FutureRuns ==
  \A r \in Run : /\ r > last => worker[r].at = "none"
                 /\ worker[r].at \in {"none", "spawn"} => pipe[r] = "empty"

(* The main thread and the state.                                          *)
Booting ==
  /\ main = "load" => state = "starting" /\ batch = NoBatch /\ job = NoJob
  /\ main \in {"ready", "serve", "close", "join"} => state # "starting"

ThreadInv ==
  /\ TypeOK
  /\ ActiveIsLast
  /\ WorkIsWatched
  /\ FullQueueIsOfAnIdleChild
  /\ FutureRuns
  /\ Booting
  /\ TerminalShowsLastResult

LEMMA ThreadInit == Init => ThreadInv
  BY TypeInit DEF Init, ThreadInv, ActiveIsLast, Active, WorkIsWatched, Computes,
     FullQueueIsOfAnIdleChild, FutureRuns, Booting, TerminalShowsLastResult,
     NoWorker, Returned

LEMMA ThreadStep ==
  ASSUME ThreadInv, [Next]_vars
  PROVE  ThreadInv'
<1> USE DEF ThreadInv, ActiveIsLast, Active, WorkIsWatched, Computes,
        FullQueueIsOfAnIdleChild, FutureRuns, Booting, TerminalShowsLastResult
<1>t. TypeOK'
  BY TypeStep
<1>1. CASE MarkReady \/ Serve \/ CloseServer \/ BeginExit
  BY <1>1, <1>t DEF MarkReady, Serve, CloseServer, BeginExit, SetState, runner,
     children
<1>2. CASE Exit \/ Killed
  BY <1>2, <1>t DEF Exit, Killed, Leave, runner, NoWorker, Returned
<1>3. CASE IdleShutdown
  BY <1>3, <1>t DEF IdleShutdown, SetState, children, Up
<1>4. ASSUME NEW j \in Job, NEW b \in Batch, SubmitJob(j, b)
      PROVE  ThreadInv'
  BY <1>4, <1>t, RunBounds, NextRunIsARun DEF SubmitJob, SetState, Available,
     children, serving, TypeOK, Up
<1>5. ASSUME NEW q \in Request,
             RequestShutdown(q) \/ StopForShutdown(q) \/ AnswerShutdown(q)
      PROVE  ThreadInv'
  <2>1. CASE RequestShutdown(q)
    BY <1>t, <2>1 DEF RequestShutdown, SetState, children, serving, Up
  <2>2. CASE StopForShutdown(q)
    <3>1. \A x \in Run : Computes(x)' => Computes(x)
      BY <2>2 DEF StopForShutdown, StopChild, TypeOK
    <3> QED BY <1>t, <2>2, <3>1 DEF StopForShutdown, runner, serving
  <2>3. CASE AnswerShutdown(q)
    BY <1>t, <2>3 DEF AnswerShutdown, runner, children, serving
  <2> QED BY <1>5, <2>1, <2>2, <2>3
<1>6. ASSUME NEW r \in Run,
             \/ StartFails(r) \/ RegisterChild(r) \/ Loop(r) \/ Get(r)
             \/ CheckAlive(r) \/ NoPayload(r)
      PROVE  ThreadInv'
  <2>1. /\ UNCHANGED <<state, job, batch, result, last, main, proc, pipe>>
        /\ \A x \in Run \ {r} : worker'[x] = worker[x]
        /\ worker'[r].job = worker[r].job
        /\ Active(r) /\ worker[r].at # "report"
        /\ worker'[r].at \notin {"none", "spawn", "done"}
        /\ Computes(r) =>
             worker'[r].at \in {"register", "loop", "get", "alive", "over", "stop"}
    <3>1. CASE StartFails(r) \/ RegisterChild(r)
      BY <3>1 DEF StartFails, RegisterChild, Goes, GoesWith, TypeOK, Worker, runner,
         children, serving
    <3>2. CASE Loop(r)
      BY <3>2 DEF Loop, Goes, GoesWith, TypeOK, Worker, runner, children, serving
    <3>3. CASE Get(r)
      BY <3>3 DEF Get, Goes, GoesWith, TypeOK, Worker, runner, children, serving
    <3>4. CASE CheckAlive(r)
      BY <3>4 DEF CheckAlive, IsAlive, Goes, GoesWith, TypeOK, Worker, runner,
         children, serving
    <3>5. CASE NoPayload(r)
      BY <3>5 DEF NoPayload, IsAlive, Goes, GoesWith, TypeOK, Worker, runner,
         children, serving
    <3> QED BY <1>6, <3>1, <3>2, <3>3, <3>4, <3>5
  <2>2. ActiveIsLast' /\ TerminalShowsLastResult' /\ Booting'
    BY <2>1
  <2>3. WorkIsWatched' /\ FullQueueIsOfAnIdleChild'
    BY <2>1
  <2>4. FutureRuns'
    BY <2>1, RunBounds
  <2> QED BY <1>t, <2>2, <2>3, <2>4
<1>7. ASSUME NEW r \in Run, StartChild(r) \/ StopInThread(r)
      PROVE  ThreadInv'
  <2>1. /\ UNCHANGED <<state, job, batch, result, last, main, pipe>>
        /\ \A x \in Run \ {r} : worker'[x] = worker[x] /\ proc'[x] = proc[x]
        /\ worker'[r].job = worker[r].job
    BY <1>7 DEF StartChild, StopInThread, StopChild, Goes, TypeOK, Worker, runner,
       serving
  <2>2. \/ worker[r].at = "spawn" /\ worker'[r].at = "register"
        \/ worker[r].at = "stop" /\ worker'[r].at = "clear" /\ ~Computes(r)'
    BY <1>7 DEF StartChild, StopInThread, StopChild, IsAlive, Goes, TypeOK, Worker
  <2>3. ActiveIsLast' /\ TerminalShowsLastResult' /\ Booting'
    BY <2>1, <2>2
  <2>4. WorkIsWatched'
    BY <2>1, <2>2
  <2>5. FullQueueIsOfAnIdleChild'
    BY <2>1, <2>2 DEF Returned
  <2>6. FutureRuns'
    BY <2>1, <2>2, RunBounds
  <2> QED BY <1>t, <2>3, <2>4, <2>5, <2>6
<1>8. ASSUME NEW r \in Run, ClearChild(r)
      PROVE  ThreadInv'
  <2>1. /\ UNCHANGED <<state, job, batch, result, last, main, proc>>
        /\ \A x \in Run \ {r} : worker'[x] = worker[x] /\ pipe'[x] = pipe[x]
        /\ worker'[r].job = worker[r].job
        /\ worker[r].at = "clear" /\ worker'[r].at = "report" /\ pipe'[r] = "empty"
    BY <1>8 DEF ClearChild, Goes, TypeOK, Worker, runner, serving
  <2>2. ActiveIsLast' /\ TerminalShowsLastResult' /\ Booting'
    BY <2>1
  <2>3. WorkIsWatched' /\ FullQueueIsOfAnIdleChild'
    BY <2>1 DEF Returned
  <2>4. FutureRuns'
    BY <2>1, RunBounds
  <2> QED BY <1>t, <2>2, <2>3, <2>4
<1>9. ASSUME NEW r \in Run, Report(r)
      PROVE  ThreadInv'
  <2>1. /\ UNCHANGED <<batch, last, main, proc, pipe>>
        /\ \A x \in Run \ {r} : worker'[x] = worker[x]
        /\ worker[r].at = "report" /\ worker'[r].at = "done"
        /\ r = last
    BY <1>9 DEF Report, Ends, TypeOK, children, serving
  <2>2. \/ UNCHANGED <<state, result>>
        \/ state' \in {"finished", "failed"} /\ result' = last
    BY <1>9, <2>1 DEF Report, SetState
  <2>3. ActiveIsLast' /\ TerminalShowsLastResult' /\ Booting'
    BY <2>1, <2>2, RunBounds
  <2>4. WorkIsWatched' /\ FullQueueIsOfAnIdleChild'
    BY <2>1
  <2>5. FutureRuns'
    BY <2>1, RunBounds
  <2> QED BY <1>t, <2>3, <2>4, <2>5
<1>10. ASSUME NEW r \in Run,
              \/ AnswerRunJob(r) \/ Deadline(r)
              \/ ChildReturns(r) \/ ChildWrites(r) \/ ChildExits(r) \/ ChildDies(r)
       PROVE  ThreadInv'
  <2>1. UNCHANGED <<state, job, batch, result, last, main, worker>>
    BY <1>10 DEF AnswerRunJob, Deadline, ChildReturns, ChildWrites, ChildExits,
       ChildDies, OnlyChild, runner, serving
  <2>2. /\ \A x \in Run : Computes(x)' => Computes(x)
        /\ \A x \in Run : pipe'[x] = pipe[x] \/ Computes(x)
        /\ FullQueueIsOfAnIdleChild'
    BY <1>10 DEF AnswerRunJob, Deadline, ChildReturns, ChildWrites, ChildExits,
       ChildDies, OnlyChild, TypeOK, Returned, children
  <2>3. ActiveIsLast' /\ TerminalShowsLastResult' /\ Booting' /\ WorkIsWatched'
    BY <2>1, <2>2
  <2>4. FutureRuns'
    BY <2>1, <2>2
  <2> QED BY <1>t, <2>2, <2>3, <2>4
<1>11. CASE UNCHANGED vars
  BY <1>11, <1>t DEF vars, runner, children, serving
<1> QED
  BY <1>1, <1>2, <1>3, <1>4, <1>5, <1>6, <1>7, <1>8, <1>9, <1>10, <1>11, NextCases

LEMMA ThreadInvariant == Spec => []ThreadInv
  BY ThreadInit, ThreadStep, PTL DEF Spec

LEMMA LastJobOnly == ThreadInv => OnlyLastJobComputes
  BY DEF ThreadInv, OnlyLastJobComputes, WorkIsWatched, ActiveIsLast, Active

(* The job's code runs only for the job accepted last, and never while the *)
(* runner offers itself for another one (submit_job).                      *)
THEOREM OneJobAtATime == Spec => []OnlyLastJobComputes
  BY ThreadInvariant, LastJobOnly, PTL

(* A working child always has the thread that collects or stops it         *)
(* (_run_job_in_child_process).                                            *)
THEOREM WorkStaysWatched == Spec => []WorkIsWatched
<1>1. ThreadInv => WorkIsWatched
  BY DEF ThreadInv
<1> QED BY <1>1, ThreadInvariant, PTL

(* A terminal status shows the result of the job accepted last             *)
(* (_run_job_thread).                                                      *)
THEOREM StatusShowsLastResult == Spec => []TerminalShowsLastResult
<1>1. ThreadInv => TerminalShowsLastResult
  BY DEF ThreadInv
<1> QED BY <1>1, ThreadInvariant, PTL

-----------------------------------------------------------------------------
(* The contract *)

LEMMA ContractInit == Init => Contract!Init
  BY DEF Init, Contract!Init, Status

LEMMA ContractStep ==
  ASSUME ThreadInv, [Next]_vars
  PROVE  [Contract!Next]_(Contract!vars)
<1> USE DEF Status, Contract!vars
<1>1. CASE MarkReady
  <2>1. Contract!Boot
    BY <1>1 DEF MarkReady, SetState, Contract!Boot, ThreadInv, Booting
  <2> QED BY <2>1 DEF Contract!Next
<1>2. CASE Serve \/ CloseServer \/ BeginExit
  BY <1>2 DEF Serve, CloseServer, BeginExit, runner
<1>3. CASE Exit \/ Killed
  <2>1. Contract!Exit
    BY <1>3 DEF Exit, Killed, Leave, Contract!Exit, ThreadInv, TypeOK, State
  <2> QED BY <2>1 DEF Contract!Next
<1>4. ASSUME NEW j \in Job, NEW b \in Batch, SubmitJob(j, b)
      PROVE  Contract!Next
  <2>1. Contract!Accept(j, b)
    BY <1>4 DEF SubmitJob, SetState, Available, Up, serving, Contract!Accept,
       Contract!Ready
  <2> QED BY <2>1 DEF Contract!Next
<1>5. ASSUME IdleShutdown \/ \E q \in Request : RequestShutdown(q)
      PROVE  [Contract!Next]_(Contract!vars)
  <2>1. Contract!ShutDown \/ UNCHANGED Contract!vars
    BY <1>5 DEF RequestShutdown, IdleShutdown, SetState, Up, serving,
       Contract!ShutDown, ThreadInv, Booting, TypeOK, State
  <2> QED BY <2>1 DEF Contract!Next
<1>6. ASSUME NEW r \in Run, Report(r)
      PROVE  [Contract!Next]_(Contract!vars)
  <2>1. Contract!Finish \/ UNCHANGED Contract!vars
    BY <1>6 DEF Report, Ends, SetState, Up, serving, Contract!Finish, ThreadInv,
       ActiveIsLast, Active
  <2> QED BY <2>1 DEF Contract!Next
<1>7. ASSUME NEW r \in Run,
             \/ StartChild(r) \/ StartFails(r) \/ RegisterChild(r) \/ Loop(r)
             \/ Get(r) \/ CheckAlive(r) \/ NoPayload(r) \/ StopInThread(r)
             \/ ClearChild(r) \/ AnswerRunJob(r) \/ Deadline(r)
             \/ ChildReturns(r) \/ ChildWrites(r) \/ ChildExits(r) \/ ChildDies(r)
      PROVE  UNCHANGED Contract!vars
  BY <1>7 DEF StartChild, StartFails, RegisterChild, Loop, Get, CheckAlive,
     NoPayload, StopInThread, ClearChild, AnswerRunJob, Deadline, ChildReturns,
     ChildWrites, ChildExits, ChildDies, OnlyChild, runner, serving
<1>8. CASE UNCHANGED vars \/ \E q \in Request : StopForShutdown(q) \/ AnswerShutdown(q)
  BY <1>8 DEF vars, StopForShutdown, AnswerShutdown, runner, serving
<1> QED
  BY <1>1, <1>2, <1>3, <1>4, <1>5, <1>6, <1>7, <1>8, NextCases

(* The wrapper's threads and processes keep the contract Dispatch relies   *)
(* on, however many jobs and shutdown requests there are.                  *)
THEOREM ServerKeepsContract == Spec => KeepsContract
  BY ThreadInvariant, ContractInit, ContractStep, PTL
  DEF Spec, KeepsContract, Contract!Spec
=============================================================================
