-------------------------- MODULE DispatchExecution --------------------------
(***************************************************************************)
(* Proofs about what runs where: the runner is free whenever the loop of   *)
(* dispatch_batch reaches a job, and as long as no crash and no lost HTTP  *)
(* exchange happened a busy runner is the one of the current batch, or the *)
(* job it runs was cancelled.                                              *)
(***************************************************************************)
EXTENDS DispatchProofs

Busy(r) == runner[r].state = "running"

(* Everything the scheduler does not do.                                   *)
Outside == Operator \/ Runners \/ WindowCloses \/ WindowOpens \/ UNCHANGED vars

LEMMA OutsideKeepsSched ==
  ASSUME Outside
  PROVE  UNCHANGED <<pc, plan>>
BY DEF Outside, Operator, CancelSelect, CancelUpdate, Runners, RunnerBoots,
   RunnerFinishes, RunnerIdles, RunnerExits, RunnerRestarts, WindowCloses,
   WindowOpens, sched, vars

-----------------------------------------------------------------------------
(* Only an accepted job makes a runner busy. *)

LEMMA ShutdownTryStopsBusy ==
  ASSUME TypeOK, NEW r \in Runner, NEW stopped, ShutdownTry(r, stopped)
  PROVE  \A s \in Runner : Busy(s)' => Busy(s) /\ runner'[s] = runner[s]
BY DEF ShutdownTry, ShutDown, TypeOK, Busy, RunnerProcess

(* The steps, besides a submit, that change a runner.                      *)
LEMMA RunnerMoves ==
  ASSUME [Next]_vars, ~SubmitAccepted, ~SubmitFails
  PROVE  PollInterrupts \/ LeaveBatch \/ GetEndpoint \/ Runners \/ UNCHANGED runner
<1>1. CASE Claiming
  BY <1>1 DEF Claiming, SelectCandidates, FailOrphan, PassOver, ResolveTarget,
     ClaimBatch, ClaimNothing, NothingToClaim, ClaimFails, BeginDispatch
<1>2. CASE Starting
  BY <1>2 DEF Starting, GetEndpointFails, AnnounceEndpoint, RunnerReady,
     StartupFails, ChargeStartup, StartupCharged
<1>3. CASE Running
  BY <1>3 DEF Running, SkipJob, StopAtWindow, StartJob, FinishBatch, Recover,
     RecoverAborts, PollTerminal, PollFails, RecordTerminal, RecordFails,
     ChargeDispatch
<1>4. CASE Leaving
  BY <1>4 DEF Leaving, SelectReleased, ReleaseBatch, ReleaseFails,
     AbortDispatch
<1>5. CASE Crash \/ Restart \/ Operator \/ WindowCloses \/ WindowOpens
           \/ UNCHANGED vars
  BY <1>5 DEF Crash, Restart, Operator, CancelSelect, CancelUpdate,
     WindowCloses, WindowOpens, vars
<1> QED BY <1>1, <1>2, <1>3, <1>4, <1>5 DEF Next, Scheduler

LEMMA NewBusy ==
  ASSUME TypeOK, PlanInv, [Next]_vars, ~SubmitAccepted, ~SubmitFails
  PROVE  \A r \in Runner : Busy(r)' => Busy(r) /\ runner'[r] = runner[r]
<1>1. CASE PollInterrupts
  BY <1>1, ShutdownTryStopsBusy DEF PollInterrupts, PlanInv, PlanShape, InLoop
<1>2. CASE LeaveBatch
  BY <1>2, ShutdownTryStopsBusy DEF LeaveBatch, TypeOK, Plan, Busy
<1>3. CASE GetEndpoint
  BY <1>3 DEF GetEndpoint, NoProcess, TypeOK, Busy
<1>4. CASE Runners
  BY <1>4 DEF Runners, RunnerBoots, RunnerFinishes, RunnerIdles, RunnerExits, RunnerRestarts,
     NoProcess, ShutDown, Ready, TypeOK, RunnerProcess, Busy
<1>5. CASE UNCHANGED runner
  BY <1>5 DEF Busy
<1>6. PollInterrupts \/ LeaveBatch \/ GetEndpoint \/ Runners \/ UNCHANGED runner
  BY RunnerMoves
<1> QED BY <1>1, <1>2, <1>3, <1>4, <1>5, <1>6

-----------------------------------------------------------------------------
(* The runner is free in the loop.  Inductive once it also covers the      *)
(* point between a terminal status and its record.                         *)

FreeInLoop ==
  pc \in {"next", "recover", "submit", "record"} => runner[plan.at].state # "running"

(* The steps, besides a submit, that stay in the loop or come to it.       *)
LEMMA LoopMoves ==
  ASSUME [Next]_vars, ~SubmitAccepted, ~SubmitFails
  PROVE  \/ RunnerReady \/ Recover \/ PollTerminal \/ RecordTerminal
         \/ \E j \in Job : SkipJob(j) \/ StartJob(j)
         \/ Outside
         \/ pc' \notin {"next", "recover", "submit", "poll", "record"}
<1>1. CASE Claiming
  <2>1. ASSUME NEW j \in Job, FailOrphan(j) \/ PassOver(j) \/ ResolveTarget(j)
        PROVE  pc' \in {"candidate", "claim"}
    BY <2>1 DEF FailOrphan, PassOver, ResolveTarget
  <2> QED BY <1>1, <2>1 DEF Claiming, SelectCandidates, ClaimBatch, ClaimNothing,
     NothingToClaim, ClaimFails, BeginDispatch
<1>2. CASE Starting
  BY <1>2 DEF Starting, GetEndpoint, GetEndpointFails, AnnounceEndpoint,
     StartupFails, ChargeStartup, StartupCharged
<1>3. CASE Running
  BY <1>3 DEF Running, StopAtWindow, FinishBatch, RecoverAborts,
     PollInterrupts, PollFails, RecordFails, ChargeDispatch
<1>4. CASE Leaving
  BY <1>4 DEF Leaving, SelectReleased, ReleaseBatch, ReleaseFails,
     AbortDispatch, LeaveBatch
<1>5. CASE Crash \/ Restart
  BY <1>5 DEF Crash, Restart
<1> QED BY <1>1, <1>2, <1>3, <1>4, <1>5 DEF Next, Scheduler, Outside

LEMMA NextFree ==
  ASSUME CoreInv, FreeInLoop, [Next]_vars
  PROVE  FreeInLoop'
<1> USE DEF CoreInv, FreeInLoop
<1>1. CASE SubmitAccepted \/ SubmitFails
  BY <1>1 DEF SubmitAccepted, SubmitFails
<1>2. ASSUME ~SubmitAccepted, ~SubmitFails PROVE FreeInLoop'
  <2>1. \A r \in Runner : ~Busy(r) => ~Busy(r)'
    BY <1>2, NewBusy
  <2>2. CASE RunnerReady
    BY <2>2 DEF RunnerReady, Ready
  <2>3. CASE Recover \/ PollTerminal
    BY <2>3 DEF Recover, PollTerminal, Shows, PlanInv, Plan
  <2>4. CASE \/ \E j \in Job : SkipJob(j) \/ StartJob(j)
             \/ RecordTerminal
    BY <2>4 DEF SkipJob, StartJob, RecordTerminal, PlanInv, Plan
  <2>5. CASE UNCHANGED <<pc, plan>>
    BY <2>1, <2>5 DEF PlanInv, PlanShape, InLoop, Busy
  <2>6. CASE pc' \notin {"next", "recover", "submit", "record"}
    BY <2>6
  <2>7. \/ RunnerReady \/ Recover \/ PollTerminal \/ RecordTerminal
        \/ \E j \in Job : SkipJob(j) \/ StartJob(j)
        \/ UNCHANGED <<pc, plan>>
        \/ pc' \notin {"next", "recover", "submit", "record"}
    BY <1>2, LoopMoves, OutsideKeepsSched
  <2> QED BY <2>2, <2>3, <2>4, <2>5, <2>6, <2>7
<1> QED BY <1>1, <1>2

LEMMA FreeInvariant == Spec => []FreeInLoop
<1>1. Init => FreeInLoop
  BY DEF Init, FreeInLoop
<1> QED BY <1>1, NextFree, CoreInvariant, PTL DEF Spec

(* Nothing runs on the plan's runner when the loop reaches a job: the      *)
(* branches of _recover_terminal_if_available for a runner that is already *)
(* running, this job or another, are dead.                                 *)
THEOREM LoopFindsAFreeRunner == Spec => []RunnerIsFreeInLoop
<1>1. FreeInLoop => RunnerIsFreeInLoop
  BY DEF FreeInLoop, RunnerIsFreeInLoop
<1> QED BY <1>1, FreeInvariant, PTL

-----------------------------------------------------------------------------
(* Without crash and loss, a busy runner is led by the dispatch, or the    *)
(* job it runs is a stray: cancelled, and so never dispatched again.       *)

NoneLost == faults["crash"] = 0 /\ faults["loss"] = 0

Led(r) ==
  /\ r = plan.at
  /\ ~plan.stopped
  /\ pc \in {"poll", "dispatchfail", "select", "release", "exit"}
  /\ pc \in {"poll", "dispatchfail"} => runner[r].job = plan.cur
  /\ pc \in {"select", "release"} => plan.cur = NoJob

Stray(r) ==
  /\ runner[r].job \in Job \ Orphan
  /\ jobs[runner[r].job].status = "cancelled"
  /\ runner[r].job \notin Held

Watched == \A r \in Runner : Busy(r) => Led(r) \/ Stray(r)

Unique ==
  \A r, s \in Runner : Busy(r) /\ Busy(s) /\ runner[r].job = runner[s].job => r = s

StoppedShape ==
  plan.stopped => pc \in {"dispatchfail", "select", "release", "exit"}

LEMMA NextStopped ==
  ASSUME CoreInv, StoppedShape, [Next]_vars
  PROVE  StoppedShape'
<1> USE DEF CoreInv, StoppedShape, PlanInv, Plan
<1>1. CASE Claiming
  <2>1. CASE SelectCandidates \/ ClaimNothing \/ NothingToClaim \/ ClaimFails
    BY <2>1 DEF SelectCandidates, ClaimNothing, NothingToClaim, ClaimFails, NoPlan
  <2>2. CASE ClaimBatch
    BY <2>2 DEF ClaimBatch
  <2>3. ASSUME NEW j \in Job, ResolveTarget(j) PROVE StoppedShape'
    BY <2>3 DEF ResolveTarget
  <2> QED BY <1>1, <2>1, <2>2, <2>3 DEF Claiming, FailOrphan, PassOver, BeginDispatch
<1>2. CASE Starting
  BY <1>2 DEF Starting, GetEndpoint, GetEndpointFails, AnnounceEndpoint,
     RunnerReady, StartupFails, ChargeStartup, StartupCharged
<1>3. CASE Running
  BY <1>3 DEF Running, SkipJob, StopAtWindow, StartJob, FinishBatch, Recover,
     RecoverAborts, SubmitAccepted, SubmitFails, PollTerminal, PollInterrupts,
     PollFails, RecordTerminal, RecordFails, ChargeDispatch, LoopLeft
<1>4. CASE Leaving
  BY <1>4 DEF Leaving, SelectReleased, ReleaseBatch, ReleaseFails,
     AbortDispatch, LeaveBatch, LoopLeft, NoPlan
<1>5. CASE Crash \/ Restart
  BY <1>5 DEF Crash, Restart, NoPlan
<1>6. CASE Operator \/ Runners \/ WindowCloses \/ WindowOpens \/ UNCHANGED vars
  BY <1>6 DEF Operator, CancelSelect, CancelUpdate, Runners, RunnerBoots,
     RunnerFinishes, RunnerIdles, RunnerExits, RunnerRestarts, WindowCloses, WindowOpens,
     sched, vars
<1> QED BY <1>1, <1>2, <1>3, <1>4, <1>5, <1>6 DEF Next, Scheduler

(* A dispatch comes to hold only pending jobs.                             *)
LEMMA HeldGrows ==
  ASSUME CoreInv, [Next]_vars
  PROVE  Held' \subseteq Held \cup {j \in Job : Pending(j)}
<1> USE DEF CoreInv, PlanInv, Plan, Held
<1>1. CASE Claiming
  <2>1. CASE ClaimBatch
    <3>1. PICK S \in SUBSET Claimable :
            plan' = [plan EXCEPT !.cands = {}, !.source = NoBatch,
                                 !.active = FALSE, !.todo = S]
      BY <2>1 DEF ClaimBatch
    <3> QED BY <3>1 DEF Claimable
  <2>2. CASE SelectCandidates \/ ClaimNothing \/ NothingToClaim \/ ClaimFails
    BY <2>2 DEF SelectCandidates, ClaimNothing, NothingToClaim, ClaimFails, NoPlan
  <2>3. ASSUME NEW j \in Job, ResolveTarget(j) PROVE Held' \subseteq Held
    BY <2>3 DEF ResolveTarget
  <2> QED BY <1>1, <2>1, <2>2, <2>3 DEF Claiming, FailOrphan, PassOver, BeginDispatch
<1>2. CASE Starting
  BY <1>2 DEF Starting, GetEndpoint, GetEndpointFails, AnnounceEndpoint,
     RunnerReady, StartupFails, ChargeStartup, StartupCharged
<1>3. CASE Running
  <2>1. ASSUME NEW j \in Job, SkipJob(j) \/ StartJob(j)
        PROVE  Held' \subseteq Held
    BY <2>1 DEF SkipJob, StartJob
  <2>2. CASE Recover \/ PollTerminal \/ RecordTerminal \/ RecordFails
    BY <2>2 DEF Recover, PollTerminal, RecordTerminal, RecordFails
  <2>3. CASE \/ \E j \in Job : StopAtWindow(j)
             \/ RecoverAborts \/ PollInterrupts \/ ChargeDispatch
    BY <2>3 DEF StopAtWindow, RecoverAborts, PollInterrupts, ChargeDispatch, LoopLeft
  <2> QED BY <1>3, <2>1, <2>2, <2>3 DEF Running, FinishBatch, SubmitAccepted,
     SubmitFails, PollFails
<1>4. CASE Leaving
  <2>1. CASE AbortDispatch
    BY <2>1, LoopLeftType DEF AbortDispatch
  <2>2. CASE LeaveBatch
    BY <2>2 DEF LeaveBatch, NoPlan
  <2> QED BY <1>4, <2>1, <2>2 DEF Leaving, SelectReleased, ReleaseBatch,
     ReleaseFails
<1>5. CASE Crash \/ Restart
  BY <1>5 DEF Crash, Restart, NoPlan
<1>6. CASE Operator \/ Runners \/ WindowCloses \/ WindowOpens \/ UNCHANGED vars
  BY <1>6 DEF Operator, CancelSelect, CancelUpdate, Runners, RunnerBoots,
     RunnerFinishes, RunnerIdles, RunnerExits, RunnerRestarts, WindowCloses, WindowOpens,
     sched, vars
<1> QED BY <1>1, <1>2, <1>3, <1>4, <1>5, <1>6 DEF Next, Scheduler

(* A cancelled job with a runner stays cancelled.                          *)
LEMMA CancelledStays ==
  ASSUME CoreInv, [Next]_vars, NEW j \in Job \ Orphan, jobs[j].status = "cancelled"
  PROVE  jobs'[j].status = "cancelled"
<1>1. CASE RowsStay
  BY <1>1 DEF RowsStay
<1>2. CASE CancelUpdate
  BY <1>2 DEF CancelUpdate, Write, CancelledRow, CoreInv, TypeOK, JobRow
<1>3. CASE RowStep
  <2>1. CASE j \notin plan.released
    BY <1>3, <2>1, RowStepKeepsCancelled
  <2>2. ASSUME NEW i \in Held, NEW row, WriteJob(i, row)
        PROVE  jobs'[j] = jobs[j]
    BY <2>2 DEF WriteJob, Write, CoreInv, TypeOK
  <2>3. ReleasedRow(jobs[j]).status = "cancelled"
    BY DEF ReleasedRow, CoreInv, TypeOK, JobRow
  <2>4. j \notin Claimable
    BY DEF Claimable, Pending
  <2> QED BY <1>3, <2>1, <2>2, <2>3, <2>4 DEF RowStep, CoreInv, TypeOK
<1> QED BY <1>1, <1>2, <1>3, RowSteps

LEMMA StrayStays ==
  ASSUME CoreInv, [Next]_vars, NEW r \in Runner, Stray(r), runner'[r] = runner[r]
  PROVE  Stray(r)'
BY CancelledStays, HeldGrows DEF Stray, Pending

ExecInv == StoppedShape /\ FreeInLoop /\ (NoneLost => Watched /\ Unique)

(* The shutdown reaches the runner, or the runner cannot be busy.          *)
LEMMA ShutdownTryIdles ==
  ASSUME TypeOK, NEW r \in Runner, NEW stopped, ShutdownTry(r, stopped),
         faults'["loss"] = 0
  PROVE  ~Busy(r)'
BY DEF ShutdownTry, ShutDown, Unanswered, Fails, Reachable, TypeOK,
       RunnerProcess, RunnerState, Busy, Fault

LEMMA NoneLostStays ==
  ASSUME TypeOK, [Next]_vars, NoneLost'
  PROVE  NoneLost
BY FaultsStay DEF NoneLost, Fault

(* The scheduler leads the runner on, stops it, or leaves it to a stray.   *)
LEMMA LedStays ==
  ASSUME CoreInv, StoppedShape, [Next]_vars, NoneLost', ~SubmitAccepted,
         ~SubmitFails, NEW r \in Runner, Led(r), Busy(r), Busy(r)'
  PROVE  Led(r)' \/ Stray(r)'
<1> USE DEF CoreInv, PlanInv, Plan
<1>0. runner'[r] = runner[r]
  BY NewBusy
<1>1. CASE PollTerminal
  BY <1>1 DEF PollTerminal, Shows, Led, Busy
<1>2. CASE PollInterrupts
  BY <1>2, ShutdownTryIdles DEF PollInterrupts, Led, NoneLost
<1>3. CASE PollFails
  BY <1>0, <1>3 DEF PollFails, Led
<1>4. CASE ChargeDispatch
  <2>1. CASE jobs[plan.cur].status = "cancelled"
    <3>1. plan.cur \in Held /\ plan.cur \in Job \ Orphan
      BY <1>4, DispatchAssumption DEF ChargeDispatch, PlanShape, InLoop, Held, Own
    <3>2. Held' = {}
      BY <1>4, LoopLeftType DEF ChargeDispatch, Held
    <3>3. jobs'[plan.cur].status = "cancelled"
      BY <2>1, <3>1, CancelledStays
    <3>4. runner[r].job = plan.cur
      BY <1>4 DEF ChargeDispatch, Led
    <3> QED BY <1>0, <3>1, <3>2, <3>3, <3>4 DEF Stray
  <2>2. CASE jobs[plan.cur].status # "cancelled"
    <3>1. /\ pc' = "select" /\ plan'.cur = NoJob
          /\ plan'.stopped = FALSE /\ plan'.at = plan.at
      BY <1>4, <2>2, LoopLeftType DEF ChargeDispatch, LoopLeft, Led
    <3> QED BY <3>1 DEF Led
  <2> QED BY <2>1, <2>2
<1>5. CASE SelectReleased \/ ReleaseBatch
  BY <1>5 DEF SelectReleased, ReleaseBatch, Led
<1>6. CASE AbortDispatch
  <2>1. pc # "announce"
    BY DEF Led
  <2>2. pc' = "exit" /\ plan'.stopped = plan.stopped /\ plan'.at = plan.at
    BY <1>6, <2>1 DEF AbortDispatch, LoopLeft
  <2> QED BY <2>2 DEF Led
<1>7. CASE LeaveBatch
  <2>1. plan.at = r /\ ~plan.stopped /\ plan.at # NoRunner
    BY DispatchAssumption DEF Led
  <2> QED BY <1>7, <2>1, ShutdownTryIdles DEF LeaveBatch, NoneLost
<1>8. CASE Crash
  BY <1>8 DEF Crash, Fails, NoneLost, TypeOK, Fault
<1>9. CASE Operator \/ Runners \/ WindowCloses \/ WindowOpens \/ UNCHANGED vars
  <2>1. UNCHANGED <<pc, plan>>
    BY <1>9 DEF Operator, CancelSelect, CancelUpdate, Runners, RunnerBoots,
       RunnerFinishes, RunnerIdles, RunnerExits, RunnerRestarts, WindowCloses, WindowOpens,
       sched, vars
  <2> QED BY <1>0, <2>1 DEF Led
<1>10. ~Claiming /\ ~Starting /\ ~Restart /\ ~ReleaseFails
  BY DEF Led, ReleaseFails, Claiming, SelectCandidates, FailOrphan, PassOver, ResolveTarget,
     ClaimBatch, ClaimNothing, NothingToClaim, ClaimFails, BeginDispatch, Starting,
     GetEndpoint, GetEndpointFails, AnnounceEndpoint, RunnerReady,
     StartupFails, ChargeStartup, StartupCharged, Restart
<1>11. Running => PollTerminal \/ PollInterrupts \/ PollFails \/ ChargeDispatch
  BY DEF Led, Running, SkipJob, StopAtWindow, StartJob, FinishBatch, Recover,
     RecoverAborts, SubmitAccepted, SubmitFails, RecordTerminal, RecordFails
<1> QED BY <1>1, <1>2, <1>3, <1>4, <1>5, <1>6, <1>7, <1>8, <1>9, <1>10, <1>11
  DEF Next, Scheduler, Leaving

LEMMA NextExec ==
  ASSUME CoreInv, CoreInv', ExecInv, [Next]_vars
  PROVE  ExecInv'
<1>1. StoppedShape' /\ FreeInLoop'
  BY NextStopped, NextFree DEF ExecInv
<1>2. ASSUME NoneLost', ~SubmitAccepted, ~SubmitFails PROVE Watched' /\ Unique'
  <2>1. Watched /\ Unique
    BY <1>2, NoneLostStays DEF ExecInv, CoreInv
  <2>2. \A r \in Runner : Busy(r)' => Busy(r) /\ runner'[r] = runner[r]
    BY <1>2, NewBusy DEF CoreInv
  <2>3. Unique'
    BY <2>1, <2>2 DEF Unique
  <2>4. ASSUME NEW r \in Runner, Busy(r)' PROVE Led(r)' \/ Stray(r)'
    BY <1>2, <2>1, <2>2, <2>4, LedStays, StrayStays DEF Watched, ExecInv
  <2> QED BY <2>3, <2>4 DEF Watched
<1>3. ASSUME NoneLost', SubmitAccepted \/ SubmitFails PROVE Watched' /\ Unique'
  <2>1. Watched /\ Unique
    BY <1>3, NoneLostStays DEF ExecInv, CoreInv
  <2>2. /\ plan' = plan /\ plan.at \in Runner /\ pc = "submit"
        /\ plan.cur \in Job /\ plan.cur \in Held /\ ~plan.stopped
    BY <1>3, DispatchAssumption
    DEF SubmitAccepted, SubmitFails, CoreInv, PlanInv, PlanShape, InLoop, Held,
        ExecInv, StoppedShape, Plan
  <2>3. \A r \in Runner : Busy(r) => Stray(r)
    BY <2>1, <2>2 DEF Watched, Led
  <2>4. ~Fails("loss")
    BY <1>3 DEF Fails, NoneLost, CoreInv, TypeOK, Fault
  <2>5. CASE UNCHANGED runner
    <3>1. Unique'
      BY <2>1, <2>5 DEF Unique, Busy
    <3>2. Watched'
      BY <2>3, <2>5, StrayStays DEF Watched, Busy
    <3> QED BY <3>1, <3>2
  <2>6. CASE SubmitAccepted
    <3>1. /\ pc' = "poll"
          /\ runner'[plan.at].job = plan.cur
          /\ \A r \in Runner \ {plan.at} : runner'[r] = runner[r]
      BY <2>2, <2>6 DEF SubmitAccepted, Accepting, CoreInv, TypeOK
    <3>2. ASSUME NEW r \in Runner \ {plan.at}, Busy(r)'
          PROVE  Stray(r)' /\ Busy(r) /\ runner'[r].job # plan.cur
      BY <2>2, <2>3, <3>1, <3>2, StrayStays DEF Busy, Stray
    <3>3. Watched'
      <4> SUFFICES ASSUME NEW r \in Runner, Busy(r)' PROVE Led(r)' \/ Stray(r)'
        BY DEF Watched
      <4>1. CASE r = plan.at
        BY <2>2, <3>1, <4>1 DEF Led
      <4> QED BY <3>2, <4>1
    <3>4. Unique'
      BY <2>1, <3>1, <3>2 DEF Unique
    <3> QED BY <3>3, <3>4
  <2> QED BY <1>3, <2>4, <2>5, <2>6 DEF SubmitFails
<1> QED BY <1>1, <1>2, <1>3 DEF ExecInv

LEMMA ExecInvariant == Spec => []ExecInv
<1>1. Init => ExecInv
  BY DEF Init, ExecInv, StoppedShape, FreeInLoop, Watched, Unique, Busy, NoPlan,
     NoProcess
<1> QED BY <1>1, NextExec, CoreInvariant, PTL DEF Spec

(* Two runners never run the same job while no crash and no lost exchange  *)
(* keeps the orchestrator from stopping the first one.                     *)
THEOREM JobsRunOnce == Spec => []AtMostOneExecution
<1>1. ExecInv => AtMostOneExecution
  BY DEF ExecInv, NoneLost, Unique, AtMostOneExecution, Busy
<1> QED BY <1>1, ExecInvariant, PTL

-----------------------------------------------------------------------------
(* Between batches nothing runs, if there was no cancel either. *)

NoneCancelled ==
  faults["cancel"] = 0 => \A j \in Job : jobs[j].status # "cancelled"

LEMMA NextNoneCancelled ==
  ASSUME CoreInv, Open, NoneCancelled, [Next]_vars
  PROVE  NoneCancelled'
<1> SUFFICES ASSUME faults'["cancel"] = 0, NEW j \in Job
             PROVE  jobs'[j].status # "cancelled"
  BY DEF NoneCancelled
<1>1. faults["cancel"] = 0
  BY FaultsStay DEF CoreInv, Fault
<1>2. jobs[j].status # "cancelled" /\ cli = NoCli
  BY <1>1 DEF NoneCancelled, Open
<1>3. ~CancelUpdate
  BY <1>2 DEF CancelUpdate
<1> QED BY <1>2, <1>3, RowSteps, RowStepCancelsNothing DEF RowsStay

LEMMA NoneCancelledInvariant == Spec => []NoneCancelled
<1>1. Init => NoneCancelled
  BY DEF Init, NoneCancelled, NewRow
<1> QED BY <1>1, NextNoneCancelled, CoreInvariant, OpenInvariant, PTL DEF Spec

(* finally of dispatch_batch leaves no runner at work behind, unless a     *)
(* crash, a lost exchange or a cancel came in between.                     *)
THEOREM NoRunnerLeftAtWork == Spec => []NoOrphanExecution
<1>1. ExecInv /\ NoneCancelled => NoOrphanExecution
  <2> SUFFICES ASSUME ExecInv, NoneCancelled, BetweenBatches, NoneLost,
                      faults["cancel"] = 0, NEW r \in Runner, Busy(r)
               PROVE  FALSE
    BY DEF NoOrphanExecution, NoneLost, Busy
  <2>1. Stray(r)
    BY DEF ExecInv, Watched, Led, BetweenBatches
  <2> QED BY <2>1 DEF Stray, NoneCancelled
<1> QED BY <1>1, ExecInvariant, NoneCancelledInvariant, PTL

(* A failed start charges the jobs of a batch for a runner that runs one   *)
(* of them only after a crash or a lost exchange: without these, what      *)
(* docs/pipelines.md says of runner jobs holds.                            *)
THEOREM RunningJobsAreNotCharged ==
  Spec => [](NoneLost => RunningJobSurvivesRestart)
<1>1. ASSUME TypeOK, ExecInv PROVE NoneLost => RunningJobSurvivesRestart
  <2> SUFFICES ASSUME NoneLost, pc = "startfail", plan.at # NoRunner,
                      Busy(plan.at), runner[plan.at].job \in plan.todo
               PROVE  FALSE
    BY DEF RunningJobSurvivesRestart, Busy
  <2>1. ~Led(plan.at)
    BY DEF Led
  <2>2. plan.at \in Runner
    BY <1>1 DEF TypeOK, Plan
  <2> QED BY <1>1, <2>1, <2>2 DEF ExecInv, Watched, Stray, Held
<1> QED BY <1>1, CoreInvariant, ExecInvariant, PTL DEF CoreInv

-----------------------------------------------------------------------------
(* The result recorded is that of the current attempt.  What could break   *)
(* it is a runner that still shows the result of an earlier attempt and    *)
(* gets the batch of the job again.  With few faults a runner that has a   *)
(* job is attended by the dispatch of its batch, or that job is settled,   *)
(* or its batch is sealed: no pending job is in it, none gets into it.     *)

(* No fault so far that can keep a batch or a runner from its end.         *)
Quiet ==
  /\ faults["crash"] = 0 /\ faults["exit"] = 0
  /\ faults["loss"] = 0 /\ faults["error"] = 0

LEMMA QuietStays ==
  ASSUME TypeOK, [Next]_vars, Quiet'
  PROVE  /\ Quiet
         /\ ~Fails("crash") /\ ~Fails("exit") /\ ~Fails("loss") /\ ~Fails("error")
<1>1. Quiet
  BY FaultsStay DEF Quiet, Fault
<1>2. ASSUME NEW f \in {"crash", "exit", "loss", "error"}, Fails(f) PROVE FALSE
  BY <1>2 DEF Fails, Quiet, TypeOK, Fault
<1> QED BY <1>1, <1>2

LEMMA FewFaultsStay ==
  ASSUME TypeOK, [Next]_vars, FewFaults'
  PROVE  /\ FewFaults
         /\ ~Fails("crash")
         /\ Fails("error") => faults["loss"] = 0 /\ ~Quiet'
         /\ Fails("loss") => Quiet /\ faults'["loss"] = 1
         /\ faults["loss"] = 1 => faults'["loss"] = 1
<1> DEFINE kinds == {"crash", "exit", "loss", "error"}
<1>1. \A f \in kinds : /\ faults[f] \in Nat /\ faults'[f] \in Nat
                       /\ faults[f] <= faults'[f]
  <2>1. faults' \in [Fault -> Nat]
    <3>1. UNCHANGED faults \/ \E f \in Fault : Fails(f)
      BY FaultsMove
    <3> QED BY <3>1, FailsType DEF TypeOK
  <2> QED BY <2>1, FaultsGrow DEF TypeOK, Fault
<1>2. FewFaults
  BY <1>1 DEF FewFaults
<1>3. \A f \in kinds : Fails(f) => faults'[f] = faults[f] + 1
  BY DEF Fails, TypeOK, Fault
<1>4. Fails("error") => faults["loss"] = 0 /\ ~Quiet'
  BY <1>1, <1>3 DEF FewFaults, Quiet
<1>5. Fails("loss") => Quiet /\ faults'["loss"] = 1
  BY <1>1, <1>3 DEF FewFaults, Quiet
<1>6. ~Fails("crash")
  BY <1>1, <1>3 DEF FewFaults
<1>7. faults["loss"] = 1 => faults'["loss"] = 1
  BY <1>1 DEF FewFaults
<1> QED BY <1>2, <1>4, <1>5, <1>6, <1>7

LEMMA ResultRowBatches ==
  ASSUME NEW row \in JobRow, NEW b, NEW ok \in BOOLEAN
  PROVE  /\ TerminalRow(row, b, ok).batch \in {NoBatch, b}
         /\ DispatchFailureRow(row, b).batch \in {NoBatch, b}
BY DEF TerminalRow, DispatchFailureRow, RetriedRow, JobRow

(* What a step does to a row: a settled job stays settled, and a row only  *)
(* joins the batch of the plan.                                            *)
LEMMA RowMoves ==
  ASSUME CoreInv, [Next]_vars, NEW j \in Job
  PROVE  /\ ~Pending(j) => ~Pending(j)'
         /\ jobs'[j].batch \in {jobs[j].batch, NoBatch, plan.batch}
<1> USE DEF CoreInv, TypeOK
<1>1. CASE RowsStay
  BY <1>1 DEF RowsStay, Pending
<1>2. CASE CancelUpdate
  BY <1>2 DEF CancelUpdate, Write, CancelledRow, JobRow, Pending
<1>3. CASE RowStep
  <2>1. ASSUME NEW i \in Held, NEW row \in {TerminalRow(jobs[i], plan.batch, plan.ok),
                                            DispatchFailureRow(jobs[i], plan.batch)},
               WriteJob(i, row)
        PROVE  /\ ~Pending(j) => ~Pending(j)'
               /\ jobs'[j].batch \in {jobs[j].batch, NoBatch, plan.batch}
    <3>1. i \in Job /\ jobs[i] \in JobRow /\ plan.ok \in BOOLEAN
      BY DispatchAssumption DEF Held, Plan
    <3>2. row.batch \in {NoBatch, plan.batch}
      BY <2>1, <3>1, ResultRowBatches
    <3>3. jobs[i].status # "cancelled" => Pending(i)
      BY DEF Own, PlanOwnsItsJobs, Pending
    <3> QED BY <2>1, <3>1, <3>2, <3>3 DEF WriteJob, Write, Pending
  <2>2. /\ ~Pending(j) => MissingRow(jobs[j]).status # "pending"
        /\ MissingRow(jobs[j]).batch = jobs[j].batch
        /\ ClaimedRow(jobs[j], plan.batch).status = jobs[j].status
        /\ ClaimedRow(jobs[j], plan.batch).batch = plan.batch
        /\ ReleasedRow(jobs[j]).status = jobs[j].status
        /\ ReleasedRow(jobs[j]).batch = NoBatch
    BY DEF MissingRow, ClaimedRow, ReleasedRow, JobRow
  <2> QED BY <1>3, <2>1, <2>2 DEF RowStep, Pending
<1> QED BY <1>1, <1>2, <1>3, RowSteps

(* A step that gives the plan a batch resolves a candidate.                *)
LEMMA PlanMoves ==
  ASSUME CoreInv, [Next]_vars
  PROVE  /\ plan'.cands \subseteq plan.cands \cup {j \in Job : Pending(j)}
         /\ \/ plan'.batch \in {plan.batch, NoBatch}
            \/ Unreferenced(plan'.batch)
            \/ \E j \in plan.cands : plan'.batch = jobs[j].batch
<1> USE DEF CoreInv, PlanInv, Plan
<1>1. CASE Claiming
  <2>1. ASSUME NEW j \in Job, ResolveTarget(j)
        PROVE  /\ plan'.cands \subseteq plan.cands
               /\ Unreferenced(plan'.batch) \/ plan'.batch = jobs[j].batch
               /\ j \in plan.cands
    BY <2>1 DEF ResolveTarget
  <2>2. CASE SelectCandidates \/ ClaimNothing \/ NothingToClaim \/ ClaimFails
    BY <2>2 DEF SelectCandidates, ClaimNothing, NothingToClaim, ClaimFails,
       Candidates, NoPlan
  <2> QED BY <1>1, <2>1, <2>2 DEF Claiming, FailOrphan, PassOver, ClaimBatch,
     BeginDispatch
<1>2. CASE Starting
  BY <1>2 DEF Starting, GetEndpoint, GetEndpointFails, AnnounceEndpoint,
     RunnerReady, StartupFails, ChargeStartup, StartupCharged
<1>3. CASE Running
  BY <1>3 DEF Running, SkipJob, StopAtWindow, StartJob, FinishBatch, Recover,
     RecoverAborts, SubmitAccepted, SubmitFails, PollTerminal, PollInterrupts,
     PollFails, RecordTerminal, RecordFails, ChargeDispatch, LoopLeft
<1>4. CASE Leaving
  <2>1. CASE AbortDispatch
    BY <2>1 DEF AbortDispatch, LoopLeft
  <2>2. CASE LeaveBatch
    BY <2>2 DEF LeaveBatch, NoPlan
  <2> QED BY <1>4, <2>1, <2>2 DEF Leaving, SelectReleased, ReleaseBatch,
     ReleaseFails
<1>5. CASE Crash \/ Restart
  BY <1>5 DEF Crash, Restart, NoPlan
<1>6. CASE Outside
  BY <1>6, OutsideKeepsSched
<1> QED BY <1>1, <1>2, <1>3, <1>4, <1>5, <1>6 DEF Next, Scheduler, Outside

(* A runner has a job from the moment it accepts one until it is shut down *)
(* or dies, and shows it unchanged all that time.                          *)
Working(r) == runner[r].job # NoJob

WorkShape ==
  \A r \in Runner : Working(r) =>
    /\ runner[r].state \in {"running", "finished", "failed"}
    /\ runner[r].batch \in Batch

SameWork(r) ==
  /\ runner'[r].job = runner[r].job
  /\ runner'[r].batch = runner[r].batch
  /\ runner'[r].attempt = runner[r].attempt

LEMMA ShutdownTryEndsWork ==
  ASSUME TypeOK, NEW r \in Runner, NEW stopped, ShutdownTry(r, stopped)
  PROVE  /\ \A s \in Runner : Working(s)' => Working(s) /\ runner'[s] = runner[s]
         /\ Working(r)' => ~stopped
         /\ Working(r)' => Unanswered(r)
BY DEF ShutdownTry, ShutDown, TypeOK, Working, RunnerProcess

LEMMA NewWork ==
  ASSUME TypeOK, PlanInv, WorkShape, [Next]_vars, ~SubmitAccepted, ~SubmitFails,
         NEW r \in Runner, Working(r)'
  PROVE  /\ Working(r) /\ SameWork(r)
         /\ runner'[r].state \in {runner[r].state, "finished", "failed"}
<1>1. CASE PollInterrupts
  BY <1>1, ShutdownTryEndsWork
  DEF PollInterrupts, PlanInv, PlanShape, InLoop, SameWork
<1>2. CASE LeaveBatch
  BY <1>2, ShutdownTryEndsWork DEF LeaveBatch, TypeOK, Plan, Working, SameWork
<1>3. CASE GetEndpoint
  BY <1>3 DEF GetEndpoint, NoProcess, TypeOK, Working, SameWork
<1>4. CASE Runners
  BY <1>4 DEF Runners, RunnerBoots, RunnerFinishes, RunnerIdles, RunnerExits,
     RunnerRestarts, NoProcess, ShutDown, TypeOK, RunnerProcess, Working,
     WorkShape, SameWork
<1>5. CASE UNCHANGED runner
  BY <1>5 DEF Working, SameWork
<1>6. PollInterrupts \/ LeaveBatch \/ GetEndpoint \/ Runners \/ UNCHANGED runner
  BY RunnerMoves
<1> QED BY <1>1, <1>2, <1>3, <1>4, <1>5, <1>6

LEMMA NextWorkShape ==
  ASSUME TypeOK, PlanInv, WorkShape, [Next]_vars
  PROVE  WorkShape'
<1>1. CASE ~SubmitAccepted /\ ~SubmitFails
  BY <1>1, NewWork DEF WorkShape, SameWork
<1>2. CASE SubmitAccepted \/ SubmitFails
  <2>1. plan.batch \in Batch /\ plan.at \in Runner
    BY <1>2 DEF SubmitAccepted, SubmitFails, PlanInv, PlanShape, InLoop
  <2>2. UNCHANGED runner \/ runner' = Accepting(plan.at, plan.batch, plan.cur)
    BY <1>2 DEF SubmitAccepted, SubmitFails
  <2> QED BY <2>1, <2>2 DEF Accepting, WorkShape, Working, TypeOK
<1> QED BY <1>1, <1>2

(* No pending job of the batch of r, no candidate, no plan: nothing makes  *)
(* the orchestrator turn to r again.                                       *)
Sealed(r) ==
  /\ runner[r].batch # plan.batch
  /\ \A j \in Job : jobs[j].batch = runner[r].batch
                      => ~Pending(j) /\ j \notin plan.cands

(* The job r shows is dispatched no more.                                  *)
Settled(r) ==
  /\ runner[r].job \in Job
  /\ ~Pending(runner[r].job)
  /\ runner[r].job \notin Held

LEMMA SealedStays ==
  ASSUME CoreInv, [Next]_vars, NEW r \in Runner, Sealed(r), SameWork(r),
         runner[r].batch \in Batch
  PROVE  Sealed(r)'
<1>1. ASSUME NEW j \in Job, jobs'[j].batch = runner[r].batch
      PROVE  ~Pending(j)' /\ j \notin plan'.cands
  <2>1. jobs[j].batch = runner[r].batch
    BY <1>1, RowMoves, NoBatchIsNoBatch DEF Sealed
  <2>2. ~Pending(j) /\ j \notin plan.cands
    BY <2>1 DEF Sealed
  <2> QED BY <2>2, RowMoves, PlanMoves
<1>2. plan'.batch # runner[r].batch
  <2>1. ASSUME NEW j \in plan.cands PROVE jobs[j].batch # runner[r].batch
    BY <2>1 DEF Sealed, CoreInv, PlanInv, Plan
  <2>2. ~Unreferenced(runner[r].batch)
    BY DEF Unreferenced
  <2> QED BY <2>1, <2>2, PlanMoves, NoBatchIsNoBatch DEF Sealed
<1> QED BY <1>1, <1>2 DEF Sealed, SameWork

LEMMA SettledStays ==
  ASSUME CoreInv, [Next]_vars, NEW r \in Runner, Settled(r), SameWork(r)
  PROVE  Settled(r)'
BY RowMoves, HeldGrows DEF Settled, SameWork

(* While all is quiet the runner answers in the loop.                      *)
Steady ==
  Quiet =>
    /\ pc \in {"next", "recover", "submit", "record"} => Ready(plan.at)
    /\ pc = "poll" => runner[plan.at].state \in {"running", "finished", "failed"}

LEMMA NextSteady ==
  ASSUME CoreInv, Steady, [Next]_vars
  PROVE  Steady'
<1> USE DEF CoreInv, PlanInv, Plan
<1> SUFFICES ASSUME Quiet' PROVE Steady'
  BY DEF Steady
<1>1. Quiet /\ ~Fails("exit") /\ ~Fails("loss")
  BY QuietStays
<1>2. CASE SubmitAccepted \/ SubmitFails
  BY <1>2 DEF SubmitAccepted, SubmitFails, Accepting, Steady, TypeOK, PlanShape, InLoop
<1>3. ASSUME ~SubmitAccepted, ~SubmitFails PROVE Steady'
  <2>1. CASE RunnerReady
    BY <2>1 DEF RunnerReady, Steady, Ready
  <2>2. CASE Recover \/ PollTerminal \/ RecordTerminal
             \/ \E j \in Job : SkipJob(j) \/ StartJob(j)
    BY <1>1, <2>2 DEF Recover, PollTerminal, RecordTerminal, SkipJob, StartJob,
       Shows, Steady, Ready
  <2>3. CASE Outside
    <3>1. UNCHANGED <<pc, plan>>
      BY <2>3, OutsideKeepsSched
    <3>2. UNCHANGED runner \/ \E r \in Runner : RunnerBoots(r) \/ RunnerFinishes(r)
            \/ RunnerIdles(r) \/ RunnerExits(r) \/ RunnerRestarts(r)
      BY <2>3 DEF Outside, Operator, CancelSelect, CancelUpdate, Runners,
         WindowCloses, WindowOpens, vars
    <3>3. plan.at \in Runner \/ pc \notin {"next", "recover", "submit", "poll", "record"}
      BY DEF PlanShape, InLoop
    <3>4. ASSUME NEW r \in Runner, RunnerBoots(r) \/ RunnerFinishes(r)
                   \/ RunnerIdles(r) \/ RunnerExits(r) \/ RunnerRestarts(r)
          PROVE  Steady'
      <4>1. CASE r # plan.at
        BY <1>1, <3>1, <3>3, <3>4, <4>1 DEF RunnerBoots, RunnerFinishes,
           RunnerIdles, RunnerExits, RunnerRestarts, ShutDown, Steady, Ready, TypeOK
      <4>2. CASE r = plan.at /\ RunnerBoots(r)
        BY <1>1, <3>1, <4>2 DEF RunnerBoots, Steady, Ready
      <4>3. CASE r = plan.at /\ RunnerFinishes(r)
        <5>1. runner'[plan.at].state \in {"finished", "failed"}
          BY <4>3 DEF RunnerFinishes, TypeOK
        <5> QED BY <3>1, <5>1 DEF Steady, Ready
      <4>4. CASE r = plan.at /\ (RunnerExits(r) \/ RunnerRestarts(r))
        BY <1>1, <3>1, <4>4 DEF RunnerExits, RunnerRestarts, Steady, Ready
      <4>5. ~RunnerIdles(r)
        BY <1>1 DEF RunnerIdles
      <4> QED BY <3>4, <4>1, <4>2, <4>3, <4>4, <4>5
    <3> QED BY <1>1, <3>1, <3>2, <3>4 DEF Steady, Ready
  <2>4. CASE pc' \notin {"next", "recover", "submit", "poll", "record"}
    BY <2>4 DEF Steady
  <2> QED BY <1>3, <2>1, <2>2, <2>3, <2>4, LoopMoves
<1> QED BY <1>2, <1>3

(* While all is quiet every pending row of a batch is one the dispatch     *)
(* still has before it or is about to release.                             *)
Drained ==
  Quiet => \A j \in Job : Pending(j) /\ jobs[j].batch # NoBatch =>
             /\ jobs[j].batch = plan.batch
             /\ pc \in {"select", "release"} \/ j \in Held

Selected ==
  pc = "release" =>
    \A j \in Job : Pending(j) /\ jobs[j].batch = plan.batch => j \in plan.released

LEMMA ResultRowRetry ==
  ASSUME NEW row \in JobRow, NEW b, NEW ok \in BOOLEAN
  PROVE  /\ TerminalRow(row, b, ok).status = "pending"
              => TerminalRow(row, b, ok).batch = NoBatch
         /\ DispatchFailureRow(row, b).status = "pending"
              => DispatchFailureRow(row, b).batch = NoBatch
BY DEF TerminalRow, DispatchFailureRow, RetriedRow, JobRow

(* A row that is written leaves its batch or is settled.                   *)
LEMMA WrittenLeaves ==
  ASSUME CoreInv, NEW i \in Held,
         NEW row \in {TerminalRow(jobs[i], plan.batch, plan.ok),
                      DispatchFailureRow(jobs[i], plan.batch)},
         WriteJob(i, row)
  PROVE  /\ i \in Job
         /\ Pending(i)' => jobs'[i].batch = NoBatch
         /\ \A j \in Job \ {i} : jobs'[j] = jobs[j]
<1>1. i \in Job /\ jobs[i] \in JobRow /\ plan.ok \in BOOLEAN
  BY DispatchAssumption DEF CoreInv, TypeOK, Held, Plan
<1>2. row.status = "pending" => row.batch = NoBatch
  BY <1>1, ResultRowRetry
<1> QED BY <1>1, <1>2 DEF WriteJob, Write, Pending, CoreInv, TypeOK

(* Only a claim puts a pending row into a batch.                           *)
LEMMA PendingMoves ==
  ASSUME CoreInv, [Next]_vars, ~ClaimBatch, NEW j \in Job, Pending(j)',
         jobs'[j].batch # NoBatch
  PROVE  Pending(j) /\ jobs'[j].batch = jobs[j].batch
<1> USE DEF CoreInv, TypeOK
<1>1. Pending(j)
  BY RowMoves
<1>2. CASE RowsStay
  BY <1>1, <1>2 DEF RowsStay
<1>3. CASE CancelUpdate
  BY <1>1, <1>3 DEF CancelUpdate, Write, CancelledRow, JobRow
<1>4. CASE RowStep
  <2>1. MissingRow(jobs[j]).batch = jobs[j].batch /\ ReleasedRow(jobs[j]).batch = NoBatch
    BY DEF MissingRow, ReleasedRow, JobRow
  <2> QED BY <1>1, <1>4, <2>1, WrittenLeaves DEF RowStep
<1> QED BY <1>2, <1>3, <1>4, RowSteps

(* A dispatch keeps its jobs until it skips, writes or releases them.      *)
LEMMA HeldStays ==
  ASSUME CoreInv, Steady, Quiet', [Next]_vars, NEW j \in Held,
         Pending(j)', jobs'[j].batch # NoBatch, pc' \notin {"select", "release"}
  PROVE  j \in Held' \/ pc \in {"select", "release"}
<1> USE DEF CoreInv, PlanInv, Plan, Held
<1>0. j \in Job /\ Quiet /\ ~Fails("crash") /\ ~Fails("error") /\ ~Fails("loss")
  BY QuietStays, DispatchAssumption
<1>1. pc \notin {"down", "idle", "candidate", "claim", "exit"}
  BY DEF PlanShape, InLoop
<1>2. CASE Claiming
  BY <1>1, <1>2 DEF Claiming, SelectCandidates, FailOrphan, PassOver,
     ResolveTarget, ClaimBatch, ClaimNothing, NothingToClaim, ClaimFails, BeginDispatch
<1>3. CASE Starting
  <2>1. ASSUME NEW i \in Job, ChargeStartup(i) PROVE j \in Held'
    <3>1. i # j
      BY <1>0, <2>1, WrittenLeaves DEF ChargeStartup
    <3> QED BY <2>1, <3>1 DEF ChargeStartup
  <2> QED BY <1>0, <1>3, <2>1 DEF Starting, GetEndpoint, GetEndpointFails,
     AnnounceEndpoint, RunnerReady, StartupFails, StartupCharged
<1>4. CASE Running
  <2>1. ASSUME NEW i \in Job, SkipJob(i) \/ StartJob(i) PROVE j \in Held'
    <3>1. CASE SkipJob(i)
      <4>1. i # j
        BY <3>1 DEF SkipJob, Pending, db
      <4> QED BY <3>1, <4>1 DEF SkipJob
    <3>2. CASE StartJob(i)
      BY <3>2 DEF StartJob, PlanShape, InLoop
    <3> QED BY <2>1, <3>1, <3>2
  <2>2. CASE RecordTerminal
    <3>1. plan.cur \in Held /\ plan.cur # j
      BY <1>0, <2>2, DispatchAssumption, WrittenLeaves DEF RecordTerminal, PlanShape, InLoop
    <3> QED BY <2>2, <3>1 DEF RecordTerminal
  <2>3. ~FinishBatch /\ ~RecoverAborts
    <3>1. ~FinishBatch
      BY DEF FinishBatch, PlanShape, InLoop
    <3>2. pc = "recover" => ~Unanswered(plan.at)
      BY <1>0 DEF Steady, Unanswered, Ready, Reachable
    <3> QED BY <3>1, <3>2 DEF RecoverAborts
  <2> QED BY <1>0, <1>4, <2>1, <2>2, <2>3 DEF Running, StopAtWindow, Recover,
     SubmitAccepted, SubmitFails, PollTerminal, PollInterrupts, PollFails,
     RecordFails, ChargeDispatch
<1>5. CASE Leaving
  BY <1>0, <1>1, <1>5 DEF Leaving, SelectReleased, ReleaseBatch, ReleaseFails,
     AbortDispatch, LeaveBatch
<1>6. CASE Crash \/ Restart
  BY <1>0, <1>1, <1>6 DEF Crash, Restart
<1>7. CASE Outside
  BY <1>7, OutsideKeepsSched
<1> QED BY <1>2, <1>3, <1>4, <1>5, <1>6, <1>7 DEF Next, Scheduler, Outside

(* A dispatch stays with its batch, and with its runner once it has one.   *)
Dispatching == pc \notin {"down", "idle", "candidate", "claim", "exit"}

LEMMA BatchStays ==
  ASSUME CoreInv, [Next]_vars, ~Crash, Dispatching
  PROVE  plan'.batch = plan.batch /\ (plan'.at = plan.at \/ GetEndpoint)
<1> USE DEF CoreInv, PlanInv, Plan, Dispatching
<1>1. CASE Claiming
  BY <1>1 DEF Claiming, SelectCandidates, FailOrphan, PassOver, ResolveTarget,
     ClaimBatch, ClaimNothing, NothingToClaim, ClaimFails, BeginDispatch
<1>2. CASE Starting
  BY <1>2 DEF Starting, GetEndpoint, GetEndpointFails, AnnounceEndpoint,
     RunnerReady, StartupFails, ChargeStartup, StartupCharged
<1>3. CASE Running
  BY <1>3, LoopLeftType DEF Running, SkipJob, StopAtWindow, StartJob, FinishBatch,
     Recover, RecoverAborts, SubmitAccepted, SubmitFails, PollTerminal,
     PollInterrupts, PollFails, RecordTerminal, RecordFails, ChargeDispatch
<1>4. CASE Leaving
  BY <1>4, LoopLeftType DEF Leaving, SelectReleased, ReleaseBatch, ReleaseFails,
     AbortDispatch, LeaveBatch
<1>5. CASE Restart
  BY <1>5 DEF Restart
<1>6. CASE Outside
  BY <1>6, OutsideKeepsSched
<1> QED BY <1>1, <1>2, <1>3, <1>4, <1>5, <1>6 DEF Next, Scheduler, Outside

(* Where a step of a dispatch that leaves its batch goes.                  *)
LEMMA ReleaseMoves ==
  ASSUME [Next]_vars, pc \in {"select", "release"}, ~Fails("crash"), ~Fails("error")
  PROVE  \/ SelectReleased
         \/ ReleaseBatch
         \/ Outside /\ UNCHANGED <<pc, plan>>
<1>1. ~Claiming
  BY DEF Claiming, SelectCandidates, FailOrphan, PassOver, ResolveTarget,
     ClaimBatch, ClaimNothing, NothingToClaim, ClaimFails, BeginDispatch
<1>2. ~Starting
  BY DEF Starting, GetEndpoint, GetEndpointFails, AnnounceEndpoint,
     RunnerReady, StartupFails, ChargeStartup, StartupCharged
<1>3. ~Running
  BY DEF Running, SkipJob, StopAtWindow, StartJob, FinishBatch, Recover,
     RecoverAborts, SubmitAccepted, SubmitFails, PollTerminal, PollInterrupts,
     PollFails, RecordTerminal, RecordFails, ChargeDispatch
<1>4. ~ReleaseFails /\ ~AbortDispatch /\ ~LeaveBatch /\ ~Crash /\ ~Restart
  BY DEF ReleaseFails, AbortDispatch, LeaveBatch, Crash, Restart
<1> QED BY <1>1, <1>2, <1>3, <1>4, OutsideKeepsSched
  DEF Next, Scheduler, Leaving, Outside

LEMMA ReleaseComes ==
  ASSUME [Next]_vars, pc' = "release", ~SelectReleased
  PROVE  UNCHANGED <<pc, plan>>
<1>1. ~Claiming
  <2>1. ASSUME NEW j \in Job, FailOrphan(j) \/ PassOver(j) \/ ResolveTarget(j)
        PROVE  pc' \in {"candidate", "claim"}
    BY <2>1 DEF FailOrphan, PassOver, ResolveTarget
  <2> QED BY <2>1 DEF Claiming, SelectCandidates, ClaimBatch, ClaimNothing,
     NothingToClaim, ClaimFails, BeginDispatch
<1>2. ~Starting
  BY DEF Starting, GetEndpoint, GetEndpointFails, AnnounceEndpoint,
     RunnerReady, StartupFails, ChargeStartup, StartupCharged
<1>3. ~Running
  BY DEF Running, SkipJob, StopAtWindow, StartJob, FinishBatch, Recover,
     RecoverAborts, SubmitAccepted, SubmitFails, PollTerminal, PollInterrupts,
     PollFails, RecordTerminal, RecordFails, ChargeDispatch
<1>4. ~ReleaseBatch /\ ~ReleaseFails /\ ~AbortDispatch /\ ~LeaveBatch
      /\ ~Crash /\ ~Restart
  BY DEF ReleaseBatch, ReleaseFails, AbortDispatch, LeaveBatch, Crash, Restart
<1> QED BY <1>1, <1>2, <1>3, <1>4, OutsideKeepsSched
  DEF Next, Scheduler, Leaving, Outside

LEMMA NextSelected ==
  ASSUME CoreInv, Selected, [Next]_vars
  PROVE  Selected'
<1> USE DEF CoreInv, PlanInv, Plan
<1> SUFFICES ASSUME pc' = "release", NEW j \in Job, Pending(j)',
                    jobs'[j].batch = plan'.batch
             PROVE  j \in plan'.released
  BY DEF Selected
<1>1. CASE SelectReleased
  BY <1>1 DEF SelectReleased, db, Pending
<1>2. CASE ~SelectReleased
  <2>1. pc = "release" /\ UNCHANGED plan /\ ~ClaimBatch
    <3>1. pc = "release" /\ UNCHANGED <<pc, plan>>
      BY <1>2, ReleaseComes
    <3> QED BY <3>1 DEF ClaimBatch
  <2>2. plan.batch # NoBatch
    BY <2>1, NoBatchIsNoBatch DEF PlanShape
  <2>3. Pending(j) /\ jobs[j].batch = plan.batch
    BY <2>1, <2>2, PendingMoves
  <2> QED BY <2>1, <2>3 DEF Selected
<1> QED BY <1>1, <1>2

LEMMA NextDrained ==
  ASSUME CoreInv, CoreInv', Steady, Drained, Selected, [Next]_vars
  PROVE  Drained'
<1> USE DEF CoreInv, PlanInv, Plan
<1> SUFFICES ASSUME Quiet', NEW j \in Job, Pending(j)', jobs'[j].batch # NoBatch
             PROVE  /\ jobs'[j].batch = plan'.batch
                    /\ pc' \in {"select", "release"} \/ j \in Held'
  BY DEF Drained
<1>1. Quiet /\ ~Fails("crash") /\ ~Fails("error")
  BY QuietStays
<1>2. ~Dispatching => Held = {}
  BY DEF Dispatching, Held, PlanShape, InLoop
<1>3. CASE ClaimBatch
  <2>1. PICK S \in SUBSET Claimable :
          /\ jobs' = [i \in Job |-> IF i \in S THEN ClaimedRow(jobs[i], plan.batch)
                                               ELSE jobs[i]]
          /\ plan' = [plan EXCEPT !.cands = {}, !.source = NoBatch,
                                  !.active = FALSE, !.todo = S]
    BY <1>3 DEF ClaimBatch, Write
  <2>2. j \in S
    <3>1. ASSUME j \notin S PROVE FALSE
      <4>1. Pending(j) /\ jobs[j].batch # NoBatch
        BY <2>1, <3>1 DEF Pending
      <4> QED BY <1>1, <1>2, <1>3, <4>1 DEF Drained, ClaimBatch, Dispatching
    <3> QED BY <3>1
  <2>3. jobs'[j].batch = plan.batch
    BY <2>1, <2>2 DEF ClaimedRow, TypeOK, JobRow
  <2> QED BY <2>1, <2>2, <2>3 DEF Held
<1>4. CASE ~ClaimBatch
  <2>1. Pending(j) /\ jobs'[j].batch = jobs[j].batch
    BY <1>4, PendingMoves
  <2>2. /\ jobs[j].batch = plan.batch
        /\ pc \in {"select", "release"} \/ j \in Held
    BY <1>1, <2>1 DEF Drained
  <2>3. Dispatching /\ ~Crash
    BY <1>1, <1>2, <2>2 DEF Dispatching, Crash
  <2>4. jobs'[j].batch = plan'.batch
    BY <2>1, <2>2, <2>3, BatchStays
  <2>5. CASE pc \in {"select", "release"}
    <3>1. CASE ReleaseBatch
      <4>1. j \in plan.released
        BY <2>1, <2>2, <3>1 DEF ReleaseBatch, Selected
      <4>2. jobs'[j] = ReleasedRow(jobs[j])
        BY <3>1, <4>1 DEF ReleaseBatch, Write
      <4> QED BY <4>2 DEF ReleasedRow, TypeOK, JobRow
    <3> QED BY <1>1, <2>4, <2>5, <3>1, ReleaseMoves DEF SelectReleased
  <2>6. CASE pc \notin {"select", "release"}
    BY <2>1, <2>2, <2>4, <2>6, HeldStays
  <2> QED BY <2>5, <2>6
<1> QED BY <1>3, <1>4

(* The runner of the loop, when it has a job, belongs to the batch.        *)
Bound ==
  pc \in {"next", "recover", "submit", "poll", "record"} /\ Working(plan.at)
    => runner[plan.at].batch = plan.batch

LEMMA NextBound ==
  ASSUME CoreInv, WorkShape, Bound, [Next]_vars
  PROVE  Bound'
<1> USE DEF CoreInv, PlanInv, Plan
<1>1. CASE SubmitAccepted \/ SubmitFails
  BY <1>1 DEF SubmitAccepted, SubmitFails, Accepting, Bound, PlanShape, InLoop, TypeOK
<1>2. ASSUME ~SubmitAccepted, ~SubmitFails,
             pc' \in {"next", "recover", "submit", "poll", "record"},
             Working(plan.at)', plan'.at \in Runner, plan'.at = plan.at,
             plan'.batch = plan.batch
      PROVE  runner'[plan.at].batch = plan.batch
  <2>1. Working(plan.at) /\ SameWork(plan.at)
    BY <1>2, NewWork DEF Working
  <2>2. CASE RunnerReady
    <3>1. runner[plan.at].batch \in Batch
      BY <1>2, <2>1 DEF WorkShape
    <3> QED BY <2>1, <2>2, <3>1, NoBatchIsNoBatch DEF RunnerReady, SameWork
  <2>3. pc \in {"next", "recover", "submit", "poll", "record"} \/ RunnerReady
    BY <1>2, LoopMoves, OutsideKeepsSched
    DEF Recover, PollTerminal, RecordTerminal, SkipJob, StartJob
  <2> QED BY <2>1, <2>2, <2>3 DEF Bound, SameWork
<1>3. ASSUME ~SubmitAccepted, ~SubmitFails,
             pc' \in {"next", "recover", "submit", "poll", "record"}
      PROVE  plan'.at = plan.at /\ plan'.batch = plan.batch /\ plan.at \in Runner
  <2>1. pc \in {"startup", "next", "recover", "submit", "poll", "record"}
    BY <1>3, LoopMoves, OutsideKeepsSched
    DEF RunnerReady, Recover, PollTerminal, RecordTerminal, SkipJob, StartJob
  <2>2. ~Crash /\ ~GetEndpoint
    BY <1>3 DEF Crash, GetEndpoint
  <2> QED BY <2>1, <2>2, BatchStays DEF Dispatching, PlanShape, InLoop
<1> QED BY <1>1, <1>2, <1>3 DEF Bound

(* The dispatch of its batch sees to r: the loop goes on with other jobs,  *)
(* r runs the current job in its current attempt, or r will be shut down,  *)
(* unless its batch has no pending job any more.                           *)
BatchDone == \A j \in Job : Pending(j) => jobs[j].batch # plan.batch

Attended(r) ==
  /\ r = plan.at
  /\ runner[r].batch = plan.batch
  /\ pc \in {"next", "select", "release", "exit"} \cup InLoop
  /\ pc \in {"next", "recover", "submit"} => runner[r].job \notin Held
  /\ pc \in {"poll", "record"} => /\ runner[r].job = plan.cur
                                  /\ runner[r].attempt = jobs[plan.cur].attempt
  /\ pc = "dispatchfail" => /\ runner[r].job = plan.cur \/ faults["loss"] = 1
                            /\ ~plan.stopped
  /\ pc \in {"select", "release"} /\ (plan.stopped \/ plan.cur # NoJob)
       => faults["loss"] = 1
  /\ pc = "exit" /\ (Quiet \/ plan.stopped) => BatchDone

LEMMA BatchDoneStays ==
  ASSUME CoreInv, [Next]_vars, BatchDone, ~ClaimBatch, plan.batch \in Batch
  PROVE  \A j \in Job : Pending(j)' => jobs'[j].batch # plan.batch
BY PendingMoves, NoBatchIsNoBatch DEF BatchDone

LEMMA OutsideKeepsAttempts ==
  ASSUME TypeOK, Outside, NEW j \in Job
  PROVE  jobs'[j].attempt = jobs[j].attempt
<1>1. UNCHANGED jobs \/ CancelUpdate
  BY DEF Outside, Operator, CancelSelect, Runners, RunnerBoots, RunnerFinishes,
     RunnerIdles, RunnerExits, RunnerRestarts, WindowCloses, WindowOpens, db, vars
<1>2. CASE CancelUpdate
  BY <1>2 DEF CancelUpdate, Write, CancelledRow, TypeOK, JobRow
<1> QED BY <1>1, <1>2

(* Nothing the runner and the operator do changes that.                    *)
LEMMA AttendedOutside ==
  ASSUME CoreInv, [Next]_vars, FewFaults', Outside, NEW r \in Runner,
         Attended(r), SameWork(r)
  PROVE  Attended(r)'
<1> USE DEF CoreInv, PlanInv
<1>1. UNCHANGED <<pc, plan>>
  BY OutsideKeepsSched
<1>2. pc \in {"poll", "record"} => jobs'[plan.cur].attempt = jobs[plan.cur].attempt
  BY OutsideKeepsAttempts DEF PlanShape, InLoop
<1>3. pc = "exit" /\ BatchDone => BatchDone'
  BY <1>1, BatchDoneStays DEF BatchDone, ClaimBatch, PlanShape
<1>4. Quiet' => Quiet
  BY QuietStays
<1>5. faults["loss"] = 1 => faults'["loss"] = 1
  BY FewFaultsStay
<1> QED BY <1>1, <1>2, <1>3, <1>4, <1>5 DEF Attended, SameWork, Held

(* A working runner answers: an exchange with it fails only by a loss.     *)
LEMMA WorkingAnswers ==
  ASSUME TypeOK, WorkShape, NEW r \in Runner, Working(r)
  PROVE  Reachable(r) /\ (Unanswered(r) => Fails("loss"))
BY DEF WorkShape, Reachable, Unanswered

LEMMA AttendedRunning ==
  ASSUME CoreInv, CoreInv', StoppedShape, WorkShape, Drained, [Next]_vars, FewFaults',
         Running, ~SubmitAccepted, ~SubmitFails,
         NEW r \in Runner, Attended(r), SameWork(r), Working(r), Working(r)'
  PROVE  Attended(r)' \/ Settled(r)'
<1> USE DEF CoreInv, PlanInv, Plan
<1>0. /\ faults["loss"] = 1 => faults'["loss"] = 1
      /\ Fails("loss") => Quiet /\ faults'["loss"] = 1
      /\ Quiet' => Quiet
  BY FewFaultsStay, QuietStays
<1>1. ASSUME NEW j \in Job, SkipJob(j) \/ StartJob(j) PROVE Attended(r)'
  <2>1. Held' \subseteq Held /\ plan'.at = plan.at /\ plan'.batch = plan.batch
    BY <1>1 DEF SkipJob, StartJob, Held
  <2>2. pc' \in {"next", "recover"} /\ runner[r].job \notin Held
    BY <1>1 DEF SkipJob, StartJob, Attended
  <2> QED BY <2>1, <2>2 DEF Attended, SameWork, InLoop
<1>2. ASSUME NEW j \in Job, StopAtWindow(j) PROVE Attended(r)'
  <2>1. /\ pc' = "select" /\ plan'.at = plan.at /\ plan'.batch = plan.batch
        /\ plan'.cur = NoJob /\ plan'.stopped = FALSE
    BY <1>2, LoopLeftType DEF StopAtWindow, LoopLeft, StoppedShape
  <2> QED BY <2>1 DEF Attended, SameWork
<1>3. CASE FinishBatch
  <2>1. pc' = "exit" /\ plan' = plan /\ plan.stopped = FALSE /\ UNCHANGED jobs
    BY <1>3 DEF FinishBatch, StoppedShape, db
  <2>2. Held = {} /\ plan.batch # NoBatch
    BY <1>3, NoBatchIsNoBatch DEF FinishBatch, Held, PlanShape, InLoop
  <2>3. Quiet => BatchDone
    BY <1>3, <2>2 DEF Drained, FinishBatch, BatchDone
  <2>4. Quiet' => BatchDone'
    BY <1>0, <2>1, <2>3 DEF BatchDone, Pending
  <2> QED BY <2>1, <2>4 DEF Attended, SameWork
<1>4. CASE Recover
  <2>1. ~Shows(plan.at, plan.cur)
    BY <1>4, DispatchAssumption DEF Recover, Attended, Shows, Held, PlanShape, InLoop
  <2> QED BY <1>4, <2>1 DEF Recover, Attended, SameWork, Held, InLoop
<1>5. CASE RecoverAborts
  <2>1. /\ pc' = "exit" /\ plan'.at = plan.at /\ plan'.batch = plan.batch
        /\ plan'.stopped = FALSE
    BY <1>5, LoopLeftType DEF RecoverAborts, LoopLeft, StoppedShape
  <2>2. Fails("loss")
    BY <1>5, WorkingAnswers DEF RecoverAborts, Attended
  <2>3. ~Quiet'
    BY <1>0, <2>2 DEF Quiet
  <2> QED BY <2>1, <2>3 DEF Attended, SameWork
<1>6. CASE PollTerminal
  BY <1>6 DEF PollTerminal, Attended, SameWork, InLoop, db
<1>7. CASE PollInterrupts
  <2>1. PICK stopped \in BOOLEAN :
          /\ ShutdownTry(plan.at, stopped)
          /\ plan' = [plan EXCEPT !.todo = {}, !.stopped = stopped]
    BY <1>7 DEF PollInterrupts
  <2>2. Unanswered(r)
    BY <2>1, ShutdownTryEndsWork DEF Attended
  <2>3. faults'["loss"] = 1
    BY <1>0, <2>2, WorkingAnswers
  <2> QED BY <1>7, <2>1, <2>3 DEF PollInterrupts, Attended, SameWork
<1>8. CASE PollFails
  BY <1>8 DEF PollFails, Attended, SameWork, StoppedShape, InLoop
<1>9. CASE RecordTerminal
  <2>1. runner[r].job = plan.cur /\ plan.cur # NoJob /\ plan.cur \notin plan.todo
    BY <1>9, DispatchAssumption DEF RecordTerminal, Attended, PlanShape, InLoop
  <2>2. Held' = plan.todo
    BY <1>9 DEF RecordTerminal, Held
  <2> QED BY <1>9, <2>1, <2>2 DEF RecordTerminal, Attended, SameWork
<1>10. CASE RecordFails
  BY <1>10 DEF RecordFails, Attended, SameWork, StoppedShape, InLoop
<1>11. CASE ChargeDispatch
  <2>1. /\ plan'.at = plan.at /\ plan'.batch = plan.batch /\ plan'.cur = NoJob
        /\ Held' = {} /\ pc' = "select" /\ faults' = faults
    BY <1>11, LoopLeftType DEF ChargeDispatch, Held
  <2>2. CASE jobs[plan.cur].status = "cancelled" /\ runner[r].job = plan.cur
    <3>1. PICK j \in Job : j = plan.cur
      BY <1>11 DEF ChargeDispatch, PlanShape, InLoop
    <3>2. ~Pending(j)'
      BY <2>2, <3>1, RowMoves DEF Pending
    <3> QED BY <2>1, <2>2, <3>1, <3>2 DEF Settled, SameWork
  <2>3. CASE faults["loss"] = 1
    BY <2>1, <2>3 DEF Attended, SameWork
  <2>4. CASE jobs[plan.cur].status # "cancelled"
    <3>1. plan'.stopped = FALSE
      BY <1>11, <2>4 DEF ChargeDispatch, LoopLeft, Attended
    <3> QED BY <2>1, <3>1 DEF Attended, SameWork
  <2> QED BY <1>11, <2>2, <2>3, <2>4 DEF ChargeDispatch, Attended
<1> QED BY <1>1, <1>2, <1>3, <1>4, <1>5, <1>6, <1>7, <1>8, <1>9, <1>10, <1>11
  DEF Running

LEMMA AttendedLeaving ==
  ASSUME CoreInv, CoreInv', StoppedShape, WorkShape, Selected, [Next]_vars, FewFaults',
         Leaving, NEW r \in Runner, Attended(r), SameWork(r), Working(r), Working(r)'
  PROVE  Attended(r)' \/ Sealed(r)'
<1> USE DEF CoreInv, PlanInv, Plan
<1>0. /\ Fails("error") => faults["loss"] = 0 /\ ~Quiet'
      /\ Fails("loss") => Quiet
  BY FewFaultsStay
<1>1. CASE SelectReleased
  BY <1>1 DEF SelectReleased, Attended, SameWork
<1>2. CASE ReleaseBatch
  <2>1. ASSUME NEW j \in Job, Pending(j)' PROVE jobs'[j].batch # plan.batch
    <3>1. CASE j \in plan.released
      <4>1. jobs'[j].batch = NoBatch
        BY <1>2, <3>1 DEF ReleaseBatch, Write, ReleasedRow, TypeOK, JobRow
      <4> QED BY <1>2, <4>1, NoBatchIsNoBatch DEF ReleaseBatch, PlanShape
    <3>2. CASE j \notin plan.released
      BY <1>2, <2>1, <3>2 DEF ReleaseBatch, Write, Selected, Pending
    <3> QED BY <3>1, <3>2
  <2> QED BY <1>2, <2>1 DEF ReleaseBatch, Attended, SameWork, BatchDone
<1>3. CASE ReleaseFails
  BY <1>0, <1>3 DEF ReleaseFails, Attended
<1>4. CASE AbortDispatch
  <2>1. pc \notin {"announce", "startfail"} /\ Fails("error")
    BY <1>4 DEF AbortDispatch, Attended, InLoop
  <2>2. /\ pc' = "exit" /\ plan'.at = plan.at /\ plan'.batch = plan.batch
        /\ plan'.stopped = plan.stopped
    BY <1>4, <2>1, LoopLeftType DEF AbortDispatch, LoopLeft
  <2>3. ~plan.stopped /\ ~Quiet'
    BY <1>0, <1>4, <2>1 DEF AbortDispatch, Attended, StoppedShape
  <2> QED BY <2>2, <2>3 DEF Attended, SameWork
<1>5. CASE LeaveBatch
  <2>1. plan.at = r /\ plan.at # NoRunner /\ plan.batch \in Batch
    BY <1>5, DispatchAssumption DEF LeaveBatch, Attended, PlanShape
  <2>2. BatchDone
    <3>1. CASE plan.stopped
      BY <1>5, <3>1 DEF LeaveBatch, Attended
    <3>2. CASE ~plan.stopped
      <4>1. \E stopped \in BOOLEAN : ShutdownTry(r, stopped)
        BY <1>5, <2>1, <3>2 DEF LeaveBatch
      <4>2. Fails("loss")
        BY <4>1, ShutdownTryEndsWork, WorkingAnswers
      <4> QED BY <1>0, <1>5, <4>2 DEF LeaveBatch, Attended
    <3> QED BY <3>1, <3>2
  <2>3. plan'.batch = NoBatch /\ plan'.cands = {} /\ UNCHANGED jobs
    BY <1>5 DEF LeaveBatch, NoPlan, db
  <2>4. runner'[r].batch = plan.batch
    BY DEF Attended, SameWork
  <2> QED BY <2>1, <2>2, <2>3, <2>4, NoBatchIsNoBatch DEF Sealed, BatchDone, Pending
<1> QED BY <1>1, <1>2, <1>3, <1>4, <1>5 DEF Leaving

AttemptInv ==
  /\ StoppedShape /\ FreeInLoop /\ WorkShape
  /\ Steady /\ Drained /\ Selected /\ Bound
  /\ FewFaults =>
       \A r \in Runner : Working(r) => Sealed(r) \/ Settled(r) \/ Attended(r)
  /\ ResultIsOfThisAttempt

(* A dispatch does not submit to a runner whose result it may mistake.     *)
LEMMA NextSubmitted ==
  ASSUME CoreInv, CoreInv', AttemptInv, [Next]_vars, FewFaults',
         SubmitAccepted \/ SubmitFails, NEW r \in Runner, Working(r)'
  PROVE  Sealed(r)' \/ Settled(r)' \/ Attended(r)'
<1> USE DEF CoreInv, PlanInv, Plan
<1>1. /\ pc = "submit" /\ plan' = plan /\ UNCHANGED jobs
      /\ plan.at \in Runner /\ plan.batch \in Batch /\ plan.cur \in Job
      /\ plan.stopped = FALSE
  BY DEF SubmitAccepted, SubmitFails, PlanShape, InLoop, AttemptInv, StoppedShape, db
<1>2. FewFaults /\ (Fails("loss") => faults'["loss"] = 1)
  BY FewFaultsStay
<1>3. CASE SameWork(r) /\ Working(r) /\ (r = plan.at => pc' = "dispatchfail" /\ Fails("loss"))
  <2>1. Sealed(r) \/ Settled(r) \/ Attended(r)
    BY <1>2, <1>3 DEF AttemptInv
  <2>2. CASE Sealed(r)
    BY <1>3, <2>2, SealedStays DEF AttemptInv, WorkShape
  <2>3. CASE Settled(r)
    BY <1>3, <2>3, SettledStays
  <2>4. CASE Attended(r)
    BY <1>1, <1>2, <1>3, <2>4 DEF Attended, SameWork, InLoop
  <2> QED BY <2>1, <2>2, <2>3, <2>4
<1>4. CASE r # plan.at
  <2>1. runner'[r] = runner[r]
    BY <1>1, <1>4 DEF SubmitAccepted, SubmitFails, Accepting, TypeOK
  <2> QED BY <1>3, <1>4, <2>1 DEF SameWork, Working
<1>5. CASE r = plan.at /\ runner' = Accepting(plan.at, plan.batch, plan.cur)
  <2>1. /\ runner'[r].batch = plan.batch /\ runner'[r].job = plan.cur
        /\ runner'[r].attempt = jobs[plan.cur].attempt
    BY <1>1, <1>5 DEF Accepting, TypeOK
  <2>2. pc' \in {"poll", "dispatchfail"}
    BY DEF SubmitAccepted, SubmitFails
  <2> QED BY <1>1, <1>5, <2>1, <2>2 DEF Attended, InLoop
<1>6. CASE r = plan.at /\ UNCHANGED runner
  <2>1. Working(r) /\ SameWork(r)
    BY <1>6 DEF Working, SameWork
  <2>2. Accepts(plan.at, plan.batch)
    BY <1>1, <1>6, <2>1 DEF AttemptInv, WorkShape, FreeInLoop, Bound, Accepts, Ready
  <2>3. CASE SubmitFails
    <3>1. pc' = "dispatchfail" /\ Fails("loss")
      BY <2>2, <2>3 DEF SubmitFails
    <3> QED BY <1>3, <2>1, <3>1
  <2>4. CASE SubmitAccepted
    BY <1>5, <1>6, <2>4 DEF SubmitAccepted
  <2> QED BY <2>3, <2>4
<1> QED BY <1>4, <1>5, <1>6 DEF SubmitAccepted, SubmitFails

LEMMA NextAttempt ==
  ASSUME CoreInv, CoreInv', AttemptInv, [Next]_vars
  PROVE  AttemptInv'
<1> USE DEF CoreInv
<1>1. StoppedShape' /\ FreeInLoop' /\ WorkShape' /\ Steady' /\ Drained' /\ Selected' /\ Bound'
  BY NextStopped, NextFree, NextWorkShape, NextSteady, NextDrained, NextSelected,
     NextBound DEF AttemptInv
<1>2. ASSUME FewFaults', NEW r \in Runner, Working(r)'
      PROVE  Sealed(r)' \/ Settled(r)' \/ Attended(r)'
  <2>1. CASE SubmitAccepted \/ SubmitFails
    BY <1>2, <2>1, NextSubmitted
  <2>2. CASE ~SubmitAccepted /\ ~SubmitFails
    <3>1. Working(r) /\ SameWork(r) /\ FewFaults /\ ~Fails("crash")
      BY <1>2, <2>2, NewWork, FewFaultsStay DEF AttemptInv
    <3>2. CASE Sealed(r)
      BY <3>1, <3>2, SealedStays DEF AttemptInv, WorkShape
    <3>3. CASE Settled(r)
      BY <3>1, <3>3, SettledStays
    <3>4. CASE Attended(r)
      <4>1. CASE Running
        BY <1>2, <2>2, <3>1, <3>4, <4>1, AttendedRunning DEF AttemptInv
      <4>2. CASE Leaving
        BY <1>2, <3>1, <3>4, <4>2, AttendedLeaving DEF AttemptInv
      <4>3. CASE Outside
        BY <1>2, <3>1, <3>4, <4>3, AttendedOutside
      <4>4. ~Claiming /\ ~Starting /\ ~Crash /\ ~Restart
        BY <3>1, <3>4 DEF Attended, InLoop, Claiming, SelectCandidates, FailOrphan,
           PassOver, ResolveTarget, ClaimBatch, ClaimNothing, NothingToClaim,
           ClaimFails, BeginDispatch, Starting, GetEndpoint, GetEndpointFails,
           AnnounceEndpoint, RunnerReady, StartupFails, ChargeStartup,
           StartupCharged, Crash, Restart
      <4> QED BY <4>1, <4>2, <4>3, <4>4 DEF Next, Scheduler, Outside
    <3> QED BY <3>1, <3>2, <3>3, <3>4 DEF AttemptInv
  <2> QED BY <2>1, <2>2
<1>3. ASSUME pc' = "record", FewFaults' PROVE plan'.attempt = jobs'[plan'.cur].attempt
  <2> USE DEF PlanInv, Plan
  <2>1. FewFaults
    BY <1>3, FewFaultsStay
  <2>2. ~SubmitAccepted /\ ~SubmitFails
    BY <1>3 DEF SubmitAccepted, SubmitFails
  <2>3. CASE Recover \/ PollTerminal
    <3>1. /\ Shows(plan.at, plan.cur) /\ plan'.attempt = runner[plan.at].attempt
          /\ plan'.cur = plan.cur /\ UNCHANGED jobs
      BY <1>3, <2>3 DEF Recover, PollTerminal, db
    <3>2. /\ plan.at \in Runner /\ plan.cur \in Job /\ plan.cur \in Held
          /\ Working(plan.at)
      BY <2>3, <3>1, DispatchAssumption DEF Recover, PollTerminal, PlanShape, InLoop,
         Shows, Held, Working
    <3>3. runner[plan.at].batch = plan.batch
      BY <2>3, <3>2 DEF Recover, PollTerminal, AttemptInv, Bound
    <3>4. Attended(plan.at)
      BY <2>1, <3>1, <3>2, <3>3 DEF AttemptInv, Sealed, Settled, Shows
    <3> QED BY <2>3, <3>1, <3>2, <3>4 DEF Recover, PollTerminal, Attended, Shows
  <2>4. CASE Outside
    <3>1. UNCHANGED <<pc, plan>>
      BY <2>4, OutsideKeepsSched
    <3>2. PICK j \in Job : j = plan.cur
      BY <1>3, <3>1 DEF PlanShape, InLoop
    <3>3. jobs'[j].attempt = jobs[j].attempt
      BY <2>4, OutsideKeepsAttempts
    <3> QED BY <1>3, <2>1, <3>1, <3>2, <3>3 DEF AttemptInv, ResultIsOfThisAttempt
  <2> QED BY <1>3, <2>2, <2>3, <2>4, LoopMoves
    DEF RunnerReady, RecordTerminal, SkipJob, StartJob
<1> QED BY <1>1, <1>2, <1>3 DEF AttemptInv, ResultIsOfThisAttempt

LEMMA AttemptInvariant == Spec => []AttemptInv
<1>1. Init => AttemptInv
  BY DEF Init, AttemptInv, StoppedShape, FreeInLoop, WorkShape, Steady, Drained,
     Selected, Bound, ResultIsOfThisAttempt, Working, NoPlan, NoProcess, Pending, NewRow
<1> QED BY <1>1, NextAttempt, CoreInvariant, PTL DEF Spec

(* The result recorded for a job is that of its current attempt, whatever  *)
(* dead runners, failed transactions, cancels and closing windows there    *)
(* were, or one lost exchange (_recover_terminal_if_available and          *)
(* wait_for_terminal_state, which take a status by its job id alone).      *)
THEOREM ResultsAreCurrent == Spec => []ResultIsOfThisAttempt
BY AttemptInvariant, PTL DEF AttemptInv

-----------------------------------------------------------------------------
(* Each runner keeps RunnerContract, whichever step of the system moves it. *)

(* The other runners see nothing of a step that changes one.               *)
LEMMA OtherRunners ==
  ASSUME TypeOK, NEW r \in Runner, NEW q \in Runner, q # r, NEW p,
         runner' = [runner EXCEPT ![r] = p]
  PROVE  RunnerStep(q)
BY DEF RunnerStep, Contract!vars, TypeOK

(* A submit is accepted by a ready runner of the batch.                    *)
LEMMA AcceptStep ==
  ASSUME TypeOK, NEW r \in Runner, NEW b \in Batch, NEW j \in Job,
         Accepts(r, b), runner' = Accepting(r, b, j), NEW q \in Runner
  PROVE  RunnerStep(q)
<1>1. CASE q = r
  <2>1. runner'[r] = [state |-> "running", batch |-> b, job |-> j,
                      attempt |-> jobs[j].attempt]
    BY DEF Accepting, TypeOK
  <2>2. <<j, jobs[j].attempt>> \in Job \X (0..MaxAttempts)
    BY DEF TypeOK, JobRow
  <2>3. Contract(r)!Accept(<<j, jobs[j].attempt>>, b)
    BY <2>1 DEF Accepts, Ready, Contract!Accept, Contract!Ready
  <2>4. Contract(r)!Next
    BY <2>2, <2>3 DEF Contract!Next
  <2> QED BY <1>1, <2>4 DEF RunnerStep
<1>2. CASE q # r
  BY <1>2, OtherRunners DEF Accepting
<1> QED BY <1>1, <1>2

(* A shutdown, by request or by the watchdog.                              *)
LEMMA ShutDownStep ==
  ASSUME TypeOK, NEW r \in Runner, Reachable(r), runner' = ShutDown(r),
         NEW q \in Runner
  PROVE  RunnerStep(q)
<1>1. CASE q = r
  <2>1. runner'[r].state = "shutting_down" /\ runner'[r].job = NoJob
        /\ runner'[r].attempt = 0 /\ runner'[r].batch = runner[r].batch
    BY DEF ShutDown, TypeOK, RunnerProcess
  <2>2. Contract(r)!ShutDown
    BY <2>1 DEF Reachable, Contract!ShutDown
  <2> QED BY <1>1, <2>2 DEF RunnerStep, Contract!Next
<1>2. CASE q # r
  BY <1>2 DEF ShutDown, RunnerStep, Contract!vars, TypeOK
<1> QED BY <1>1, <1>2

LEMMA TryStep ==
  ASSUME TypeOK, NEW r \in Runner, NEW stopped, ShutdownTry(r, stopped),
         NEW q \in Runner
  PROVE  RunnerStep(q)
BY ShutDownStep DEF ShutdownTry, RunnerStep, Contract!vars

LEMMA StartStep ==
  ASSUME TypeOK, NEW r \in Runner, ~Alive(r),
         runner' = [runner EXCEPT ![r] = NoProcess("starting")],
         NEW q \in Runner
  PROVE  RunnerStep(q)
<1>1. CASE q = r
  <2>1. runner'[r] = NoProcess("starting")
    BY DEF TypeOK
  <2>2. (Contract(r)!Init)'
    BY <2>1 DEF Contract!Init, NoProcess
  <2> QED BY <1>1, <2>2 DEF RunnerStep, Replaced
<1>2. CASE q # r
  BY <1>2, OtherRunners
<1> QED BY <1>1, <1>2

LEMMA OwnStep ==
  ASSUME TypeOK, NEW r \in Runner, NEW q \in Runner,
         \/ RunnerBoots(r) \/ RunnerFinishes(r) \/ RunnerIdles(r)
         \/ RunnerExits(r) \/ RunnerRestarts(r)
  PROVE  RunnerStep(q)
<1>1. CASE RunnerBoots(r)
  <2>1. CASE q = r
    BY <1>1, <2>1 DEF RunnerBoots, RunnerStep, Contract!Next, Contract!Boot,
       TypeOK, RunnerProcess
  <2>2. CASE q # r
    BY <1>1, <2>2 DEF RunnerBoots, RunnerStep, Contract!vars, TypeOK
  <2> QED BY <2>1, <2>2
<1>2. CASE RunnerFinishes(r)
  <2>1. CASE q = r
    BY <1>2, <2>1 DEF RunnerFinishes, RunnerStep, Contract!Next,
       Contract!Finish, TypeOK, RunnerProcess
  <2>2. CASE q # r
    BY <1>2, <2>2 DEF RunnerFinishes, RunnerStep, Contract!vars, TypeOK
  <2> QED BY <2>1, <2>2
<1>3. CASE RunnerIdles(r)
  BY <1>3, ShutDownStep DEF RunnerIdles, Ready, Reachable
<1>4. CASE RunnerExits(r)
  <2>1. runner'[r] = NoProcess("gone")
    BY <1>4 DEF RunnerExits, TypeOK
  <2>2. Contract(r)!Exit
    BY <1>4, <2>1 DEF RunnerExits, Alive, NoProcess, Contract!Exit
  <2>3. CASE q = r
    BY <2>2, <2>3 DEF RunnerStep, Contract!Next
  <2>4. CASE q # r
    BY <1>4, <2>4, OtherRunners DEF RunnerExits
  <2> QED BY <2>3, <2>4
<1>5. CASE RunnerRestarts(r)
  BY <1>5, StartStep DEF RunnerRestarts, Alive
<1> QED BY <1>1, <1>2, <1>3, <1>4, <1>5

LEMMA NextRunnerStep ==
  ASSUME TypeOK, PlanInv, [Next]_vars, NEW q \in Runner
  PROVE  RunnerStep(q)
<1>1. CASE SubmitAccepted
  BY <1>1, AcceptStep DEF SubmitAccepted, PlanInv, PlanShape, InLoop
<1>2. CASE SubmitFails
  <2>1. plan.at \in Runner /\ plan.batch \in Batch /\ plan.cur \in Job
    BY <1>2 DEF SubmitFails, PlanInv, PlanShape, InLoop
  <2>2. CASE UNCHANGED runner
    BY <2>2 DEF RunnerStep, Contract!vars
  <2> QED BY <1>2, <2>1, <2>2, AcceptStep DEF SubmitFails
<1>3. CASE PollInterrupts
  BY <1>3, TryStep DEF PollInterrupts, PlanInv, PlanShape, InLoop
<1>4. CASE LeaveBatch
  <2>1. CASE plan.at = NoRunner \/ plan.stopped
    BY <1>4, <2>1 DEF LeaveBatch, RunnerStep, Contract!vars
  <2>2. CASE ~(plan.at = NoRunner \/ plan.stopped)
    BY <1>4, <2>2, TryStep DEF LeaveBatch, TypeOK, Plan
  <2> QED BY <2>1, <2>2
<1>5. CASE GetEndpoint
  <2>1. CASE UNCHANGED runner
    BY <2>1 DEF RunnerStep, Contract!vars
  <2> QED BY <1>5, <2>1, StartStep DEF GetEndpoint, FreeSlot
<1>6. CASE Runners
  BY <1>6, OwnStep DEF Runners
<1>7. CASE UNCHANGED runner
  BY <1>7 DEF RunnerStep, Contract!vars
<1> QED BY <1>1, <1>2, <1>3, <1>4, <1>5, <1>6, <1>7, RunnerMoves

(* Each runner, seen alone, takes only the steps of RunnerContract: what   *)
(* launcher, submit, shutdown, watchdog and death do to it.                *)
THEOREM RunnersAreAsContracted == Spec => RunnersKeepContract
<1>1. TypeOK /\ PlanInv /\ [Next]_vars => [\A r \in Runner : RunnerStep(r)]_vars
  BY NextRunnerStep
<1> QED BY <1>1, TypeAndPlan, PTL DEF Spec, RunnersKeepContract
=============================================================================
