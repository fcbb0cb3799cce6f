--------------------------- MODULE DispatchProofs ---------------------------
(***************************************************************************)
(* Proofs about Dispatch, for any jobs, batches, runners, faults and       *)
(* limits.                                                                 *)
(***************************************************************************)
EXTENDS Dispatch, TLAPS

-----------------------------------------------------------------------------
(* What the row operators return. *)

LEMMA RowTypes ==
  ASSUME NEW row \in JobRow, NEW b \in Batch \cup {NoBatch}
  PROVE  /\ ClaimedRow(row, b) \in JobRow
         /\ ReleasedRow(row) \in JobRow
         /\ CancelledRow(row) \in JobRow
         /\ MissingRow(row) \in JobRow
BY DEF JobRow, ClaimedRow, ReleasedRow, CancelledRow, MissingRow, Status, Code

LEMMA RetriedRowType ==
  ASSUME NEW row \in JobRow, HasBudget(row)
  PROVE  RetriedRow(row) \in JobRow
BY MaxAttemptsIsPositive DEF JobRow, RetriedRow, HasBudget, Status, Code

LEMMA ResultRowTypes ==
  ASSUME NEW row \in JobRow, NEW b \in Batch, NEW ok \in BOOLEAN
  PROVE  /\ TerminalRow(row, b, ok) \in JobRow
         /\ DispatchFailureRow(row, b) \in JobRow
<1>1. CASE HasBudget(row)
  BY <1>1, RetriedRowType DEF JobRow, TerminalRow, DispatchFailureRow, Status, Code
<1>2. CASE ~HasBudget(row)
  BY <1>2 DEF JobRow, TerminalRow, DispatchFailureRow, Status, Code
<1> QED BY <1>1, <1>2

-----------------------------------------------------------------------------
(* Where the thread is decides what its locals hold.                       *)

(* The points inside the body of the loop over plan.jobs.                  *)
InLoop == {"recover", "submit", "poll", "record", "dispatchfail"}

PlanShape ==
  /\ pc \in InLoop => plan.cur \in Job
  /\ pc \notin InLoop \cup {"select", "release"} => plan.cur = NoJob
  /\ pc \in {"select", "release"} /\ plan.cur # NoJob => plan.at \in Runner
  /\ pc \in {"down", "idle", "candidate", "claim", "select", "release", "exit"}
       => plan.todo = {}
  /\ plan.cur \notin plan.todo
  /\ pc # "release" => plan.released = {}
  /\ pc \notin {"down", "idle", "candidate"} => plan.batch \in Batch
  /\ pc = "claim" => plan.source \in {NoBatch, plan.batch}
  /\ pc \in {"announce", "startup", "next"} \cup InLoop => plan.at \in Runner

PlanInv == plan \in Plan /\ PlanShape

LEMMA ZeroAttempt == 0 \in 0..MaxAttempts
BY MaxAttemptsIsPositive

LEMMA NoPlanType == NoPlan \in Plan
BY ZeroAttempt DEF NoPlan, Plan

LEMMA LoopLeftType ==
  ASSUME plan \in Plan
  PROVE  /\ LoopLeft \in Plan
         /\ LoopLeft.todo = {} /\ LoopLeft.cur = NoJob
         /\ LoopLeft.released = plan.released
         /\ LoopLeft.batch = plan.batch /\ LoopLeft.at = plan.at
BY ZeroAttempt DEF LoopLeft, Plan

LEMMA ClaimingPlan ==
  ASSUME TypeOK, PlanInv, Claiming
  PROVE  PlanInv'
<1> USE DEF PlanInv, PlanShape, InLoop
<1>1. CASE SelectCandidates
  BY <1>1, ZeroAttempt, DispatchAssumption
  DEF SelectCandidates, NoPlan, Candidates, Plan
<1>2. ASSUME NEW j \in Job, FailOrphan(j) PROVE PlanInv'
  BY <1>2 DEF FailOrphan, Plan
<1>3. ASSUME NEW j \in Job, PassOver(j) PROVE PlanInv'
  BY <1>3 DEF PassOver, Plan
<1>4. ASSUME NEW j \in Job, ResolveTarget(j) PROVE PlanInv'
  <2>1. jobs[j].batch \in Batch \cup {NoBatch}
    BY DEF TypeOK, JobRow
  <2>2. ASSUME NEW b \in Batch, NEW r \in Runner \cup {NoRunner},
               jobs[j].batch \in {NoBatch, b}, pc' = "claim", pc = "candidate",
               plan' = [plan EXCEPT !.cands = @ \ {j}, !.source = jobs[j].batch,
                                    !.active = window, !.batch = b, !.at = r]
        PROVE  PlanInv'
    BY <2>1, <2>2 DEF TypeOK, Plan
  <2>3. jobs[j].batch # NoBatch => endpoint[jobs[j].batch] \in Runner \cup {NoRunner}
    BY <2>1 DEF TypeOK
  <2> QED BY <1>4, <2>1, <2>2, <2>3 DEF ResolveTarget
<1>5. CASE ClaimBatch
  <2>1. PICK S \in SUBSET Claimable :
          plan' = [plan EXCEPT !.cands = {}, !.source = NoBatch,
                               !.active = FALSE, !.todo = S]
    BY <1>5 DEF ClaimBatch
  <2>2. S \subseteq Job
    BY DEF Claimable
  <2> QED BY <1>5, <2>1, <2>2, DispatchAssumption DEF ClaimBatch, Plan
<1>6. CASE ClaimNothing
  BY <1>6, ZeroAttempt, DispatchAssumption DEF ClaimNothing, Plan, NoPlan
<1>7. CASE NothingToClaim
  BY <1>7, NoPlanType DEF NothingToClaim, NoPlan
<1>8. CASE BeginDispatch
  BY <1>8 DEF BeginDispatch, Plan, TypeOK
<1>9. CASE ClaimFails
  BY <1>9, NoPlanType DEF ClaimFails, NoPlan
<1> QED BY <1>1, <1>2, <1>3, <1>4, <1>5, <1>6, <1>7, <1>8, <1>9 DEF Claiming

LEMMA StartingPlan ==
  ASSUME TypeOK, PlanInv, Starting
  PROVE  PlanInv'
<1> USE DEF PlanInv, PlanShape, InLoop
<1>1. CASE GetEndpoint
  BY <1>1 DEF GetEndpoint, Plan
<1>2. CASE GetEndpointFails
  BY <1>2 DEF GetEndpointFails
<1>3. CASE AnnounceEndpoint
  BY <1>3 DEF AnnounceEndpoint
<1>4. CASE RunnerReady
  BY <1>4 DEF RunnerReady
<1>5. CASE StartupFails
  BY <1>5 DEF StartupFails
<1>6. ASSUME NEW j \in Job, ChargeStartup(j) PROVE PlanInv'
  BY <1>6 DEF ChargeStartup, Plan
<1>7. CASE StartupCharged
  BY <1>7 DEF StartupCharged
<1> QED BY <1>1, <1>2, <1>3, <1>4, <1>5, <1>6, <1>7 DEF Starting

LEMMA RunningPlan ==
  ASSUME TypeOK, PlanInv, Running
  PROVE  PlanInv'
<1> USE DEF PlanInv, PlanShape, InLoop
<1>1. ASSUME NEW j \in Job, SkipJob(j) PROVE PlanInv'
  BY <1>1 DEF SkipJob, Plan
<1>2. ASSUME NEW j \in Job, StopAtWindow(j) PROVE PlanInv'
  BY <1>2, LoopLeftType DEF StopAtWindow
<1>3. ASSUME NEW j \in Job, StartJob(j) PROVE PlanInv'
  BY <1>3 DEF StartJob, Plan
<1>4. CASE FinishBatch
  BY <1>4 DEF FinishBatch
<1>5. CASE Recover \/ PollTerminal
  <2>1. plan.at \in Runner /\ plan.cur \in Job
    BY <1>5 DEF Recover, PollTerminal
  <2>2. runner[plan.at].attempt \in 0..MaxAttempts
    BY <2>1 DEF TypeOK, RunnerProcess
  <2> QED BY <1>5, <2>1, <2>2 DEF Recover, PollTerminal, Plan
<1>6. CASE RecoverAborts
  BY <1>6, LoopLeftType DEF RecoverAborts
<1>7. CASE SubmitAccepted
  BY <1>7 DEF SubmitAccepted
<1>8. CASE SubmitFails
  BY <1>8 DEF SubmitFails
<1>9. CASE PollInterrupts
  <2>1. PICK stopped \in BOOLEAN :
          plan' = [plan EXCEPT !.todo = {}, !.stopped = stopped]
    BY <1>9 DEF PollInterrupts
  <2> QED BY <1>9, <2>1, DispatchAssumption DEF PollInterrupts, Plan
<1>10. CASE PollFails
  BY <1>10 DEF PollFails
<1>11. CASE RecordTerminal
  BY <1>11, ZeroAttempt, DispatchAssumption DEF RecordTerminal, Plan
<1>12. CASE RecordFails
  BY <1>12, ZeroAttempt DEF RecordFails, Plan
<1>13. CASE ChargeDispatch
  BY <1>13, LoopLeftType DEF ChargeDispatch, Plan
<1> QED
  BY <1>1, <1>2, <1>3, <1>4, <1>5, <1>6, <1>7, <1>8, <1>9, <1>10, <1>11, <1>12,
     <1>13 DEF Running

LEMMA LeavingPlan ==
  ASSUME TypeOK, PlanInv, Leaving
  PROVE  PlanInv'
<1> USE DEF PlanInv, PlanShape, InLoop
<1>1. CASE SelectReleased
  BY <1>1 DEF SelectReleased, Plan
<1>2. CASE ReleaseBatch
  BY <1>2, DispatchAssumption DEF ReleaseBatch, Plan
<1>3. CASE AbortDispatch
  BY <1>3, LoopLeftType DEF AbortDispatch, Plan
<1>4. CASE LeaveBatch
  BY <1>4, NoPlanType DEF LeaveBatch, NoPlan
<1>5. CASE ReleaseFails
  BY <1>5 DEF ReleaseFails, Plan
<1> QED BY <1>1, <1>2, <1>3, <1>4, <1>5 DEF Leaving

LEMMA NextPlan ==
  ASSUME TypeOK, PlanInv, [Next]_vars
  PROVE  PlanInv'
<1>1. CASE Scheduler
  BY <1>1, ClaimingPlan, StartingPlan, RunningPlan, LeavingPlan DEF Scheduler
<1>2. CASE Crash
  BY <1>2, NoPlanType DEF Crash, NoPlan, PlanInv, PlanShape, InLoop
<1>3. CASE Restart
  BY <1>3 DEF Restart, PlanInv, PlanShape, InLoop
<1>4. CASE Operator \/ Runners \/ WindowCloses \/ WindowOpens \/ UNCHANGED vars
  <2>1. UNCHANGED <<pc, plan>>
    BY <1>4 DEF Operator, CancelSelect, CancelUpdate, Runners, RunnerBoots,
       RunnerFinishes, RunnerIdles, RunnerExits, RunnerRestarts, WindowCloses, WindowOpens,
       vars, sched
  <2> QED BY <2>1 DEF PlanInv, PlanShape
<1> QED BY <1>1, <1>2, <1>3, <1>4 DEF Next

-----------------------------------------------------------------------------
(* Type correctness. *)

LEMMA FailsType ==
  ASSUME TypeOK, NEW f \in Fault, Fails(f)
  PROVE  faults' \in [Fault -> Nat]
BY DEF TypeOK, Fails

LEMMA FaultTypes ==
  ASSUME TypeOK
  PROVE  /\ Fails("crash") => faults' \in [Fault -> Nat]
         /\ Fails("exit") => faults' \in [Fault -> Nat]
         /\ Fails("loss") => faults' \in [Fault -> Nat]
         /\ Fails("error") => faults' \in [Fault -> Nat]
         /\ Fails("cancel") => faults' \in [Fault -> Nat]
         /\ Fails("close") => faults' \in [Fault -> Nat]
BY FailsType DEF Fault

LEMMA WriteType ==
  ASSUME NEW js \in [Job -> JobRow], NEW bs, Write(js, bs)
  PROVE  jobs' \in [Job -> JobRow] /\ open' \subseteq Batch
BY DEF Write, Refreshed

LEMMA WriteJobType ==
  ASSUME TypeOK, NEW j \in Job, NEW row \in JobRow, WriteJob(j, row)
  PROVE  jobs' \in [Job -> JobRow] /\ open' \subseteq Batch
BY WriteType DEF TypeOK, WriteJob

LEMMA ShutdownTryType ==
  ASSUME TypeOK, NEW r \in Runner, NEW stopped \in BOOLEAN,
         ShutdownTry(r, stopped)
  PROVE  /\ runner' \in [Runner -> RunnerProcess]
         /\ faults' \in [Fault -> Nat]
BY FaultTypes, ZeroAttempt
DEF ShutdownTry, ShutDown, Unanswered, TypeOK, RunnerProcess, RunnerState

LEMMA InitType == Init => TypeOK /\ PlanInv
<1> SUFFICES ASSUME Init PROVE TypeOK /\ PlanInv
  OBVIOUS
<1>1. NewRow \in JobRow
  BY MaxAttemptsIsPositive DEF NewRow, JobRow, Status, Code
<1>2. runner \in [Runner -> RunnerProcess]
  BY ZeroAttempt DEF Init, NoProcess, RunnerProcess, RunnerState
<1>3. TypeOK
  BY <1>1, <1>2, NoPlanType DEF Init, TypeOK, Point, NoCli, Cli
<1>4. PlanInv
  BY NoPlanType, DispatchAssumption DEF Init, PlanInv, PlanShape, NoPlan, InLoop
<1> QED BY <1>3, <1>4

LEMMA ClaimingType ==
  ASSUME TypeOK, PlanInv', Claiming
  PROVE  TypeOK'
<1> plan' \in Plan
  BY DEF PlanInv
<1>1. CASE SelectCandidates
  BY <1>1 DEF SelectCandidates, TypeOK, db, clock, Point
<1>2. ASSUME NEW j \in Job, FailOrphan(j) PROVE TypeOK'
  BY <1>2 DEF FailOrphan, TypeOK, MissingRow, JobRow, Status, Code, clock
<1>3. ASSUME NEW j \in Job, PassOver(j) PROVE TypeOK'
  BY <1>3 DEF PassOver, TypeOK, db, clock
<1>4. ASSUME NEW j \in Job, ResolveTarget(j) PROVE TypeOK'
  BY <1>4, FaultTypes DEF ResolveTarget, TypeOK, db, clock, Point
<1>5. CASE ClaimBatch
  <2>1. plan.batch \in Batch \cup {NoBatch} /\ plan.at \in Runner \cup {NoRunner}
    BY DEF TypeOK, Plan
  <2>2. PICK S \in SUBSET Claimable :
          Write([j \in Job |-> IF j \in S THEN ClaimedRow(jobs[j], plan.batch)
                                          ELSE jobs[j]], {plan.batch})
    BY <1>5 DEF ClaimBatch
  <2>3. jobs' \in [Job -> JobRow] /\ open' \subseteq Batch
    BY <2>1, <2>2, RowTypes DEF Write, Refreshed, TypeOK
  <2>4. endpoint' \in [Batch -> Runner \cup {NoRunner}]
    BY <1>5, <2>1 DEF ClaimBatch, TypeOK
  <2> QED BY <1>5, <2>3, <2>4 DEF ClaimBatch, TypeOK, clock, Point
<1>6. CASE ClaimNothing
  BY <1>6 DEF ClaimNothing, TypeOK, db, clock, Point
<1>7. CASE NothingToClaim \/ ClaimFails
  BY <1>7, FaultTypes DEF NothingToClaim, ClaimFails, TypeOK, db, clock, Point
<1>8. CASE BeginDispatch
  BY <1>8 DEF BeginDispatch, TypeOK, db, clock, Point
<1> QED BY <1>1, <1>2, <1>3, <1>4, <1>5, <1>6, <1>7, <1>8 DEF Claiming

LEMMA StartingType ==
  ASSUME TypeOK, PlanInv, PlanInv', Starting
  PROVE  TypeOK'
<1> plan' \in Plan
  BY DEF PlanInv
<1>1. CASE GetEndpoint
  <2>1. runner' \in [Runner -> RunnerProcess]
    BY <1>1, ZeroAttempt DEF GetEndpoint, TypeOK, NoProcess, RunnerProcess, RunnerState
  <2> QED BY <1>1, <2>1 DEF GetEndpoint, TypeOK, db, clock, Point
<1>2. CASE GetEndpointFails
  BY <1>2, FaultTypes DEF GetEndpointFails, TypeOK, db, clock, Point
<1>3. CASE AnnounceEndpoint
  <2>1. plan.at \in Runner
    BY <1>3 DEF AnnounceEndpoint, PlanInv, PlanShape
  <2>2. jobs' \in [Job -> JobRow] /\ open' \subseteq Batch
    BY <1>3, WriteType DEF AnnounceEndpoint, TypeOK
  <2> QED BY <1>3, <2>1, <2>2 DEF AnnounceEndpoint, TypeOK, clock, Point
<1>4. CASE RunnerReady
  BY <1>4 DEF RunnerReady, TypeOK, db, clock, Point
<1>5. CASE StartupFails
  BY <1>5 DEF StartupFails, TypeOK, db, clock, Point
<1>6. ASSUME NEW j \in Job, ChargeStartup(j) PROVE TypeOK'
  <2>1. plan.batch \in Batch
    BY <1>6 DEF ChargeStartup, PlanInv, PlanShape
  <2>2. jobs[j] \in JobRow
    BY DEF TypeOK
  <2>3. DispatchFailureRow(jobs[j], plan.batch) \in JobRow
    BY <2>1, <2>2, ResultRowTypes
  <2>4. jobs' \in [Job -> JobRow] /\ open' \subseteq Batch
    BY <1>6, <2>3, WriteJobType DEF ChargeStartup
  <2> QED BY <1>6, <2>4 DEF ChargeStartup, TypeOK, clock
<1>7. CASE StartupCharged
  BY <1>7 DEF StartupCharged, TypeOK, db, clock, Point
<1> QED BY <1>1, <1>2, <1>3, <1>4, <1>5, <1>6, <1>7 DEF Starting

LEMMA RunningType ==
  ASSUME TypeOK, PlanInv, PlanInv', Running
  PROVE  TypeOK'
<1> plan' \in Plan
  BY DEF PlanInv
<1>1. ASSUME NEW j \in Job, SkipJob(j) \/ StopAtWindow(j) \/ StartJob(j)
      PROVE  TypeOK'
  BY <1>1 DEF SkipJob, StopAtWindow, StartJob, TypeOK, db, clock, Point
<1>2. CASE FinishBatch \/ Recover \/ PollTerminal
  BY <1>2 DEF FinishBatch, Recover, PollTerminal, Answered, TypeOK, db, clock, Point
<1>3. CASE RecoverAborts \/ PollFails \/ RecordFails
  BY <1>3, FaultTypes
  DEF RecoverAborts, PollFails, RecordFails, Unanswered, TypeOK, db, clock, Point
<1>4. CASE SubmitAccepted \/ SubmitFails
  <2>1. plan.at \in Runner /\ plan.batch \in Batch /\ plan.cur \in Job
    BY <1>4 DEF SubmitAccepted, SubmitFails, PlanInv, PlanShape, InLoop
  <2>2. jobs[plan.cur].attempt \in 0..MaxAttempts
    BY <2>1 DEF TypeOK, JobRow
  <2>3. Accepting(plan.at, plan.batch, plan.cur) \in [Runner -> RunnerProcess]
    BY <2>1, <2>2 DEF Accepting, TypeOK, RunnerProcess, RunnerState
  <2>4. CASE SubmitAccepted
    BY <2>3, <2>4 DEF SubmitAccepted, TypeOK, db, clock, Point
  <2>5. CASE SubmitFails
    BY <2>3, <2>5, FaultTypes DEF SubmitFails, TypeOK, db, clock, Point
  <2> QED BY <1>4, <2>4, <2>5
<1>5. CASE PollInterrupts
  <2>1. plan.at \in Runner
    BY <1>5 DEF PollInterrupts, PlanInv, PlanShape, InLoop
  <2>2. runner' \in [Runner -> RunnerProcess] /\ faults' \in [Fault -> Nat]
    BY <1>5, <2>1, ShutdownTryType DEF PollInterrupts
  <2> QED BY <1>5, <2>2 DEF PollInterrupts, TypeOK, db, clock, Point
<1>6. CASE RecordTerminal \/ ChargeDispatch
  <2>1. plan.batch \in Batch /\ plan.cur \in Job /\ plan.ok \in BOOLEAN
    BY <1>6 DEF RecordTerminal, ChargeDispatch, PlanInv, PlanShape, InLoop, Plan
  <2>2. jobs[plan.cur] \in JobRow
    BY <2>1 DEF TypeOK
  <2>3. /\ TerminalRow(jobs[plan.cur], plan.batch, plan.ok) \in JobRow
        /\ DispatchFailureRow(jobs[plan.cur], plan.batch) \in JobRow
    BY <2>1, <2>2, ResultRowTypes
  <2>4. jobs' \in [Job -> JobRow] /\ open' \subseteq Batch
    BY <1>6, <2>1, <2>3, WriteJobType DEF RecordTerminal, ChargeDispatch
  <2> QED BY <1>6, <2>4 DEF RecordTerminal, ChargeDispatch, TypeOK, clock, Point
<1> QED BY <1>1, <1>2, <1>3, <1>4, <1>5, <1>6 DEF Running

LEMMA LeavingType ==
  ASSUME TypeOK, PlanInv, PlanInv', Leaving
  PROVE  TypeOK'
<1> plan' \in Plan
  BY DEF PlanInv
<1>1. CASE SelectReleased
  BY <1>1 DEF SelectReleased, TypeOK, db, clock, Point
<1>2. CASE ReleaseBatch
  <2>1. jobs' \in [Job -> JobRow] /\ open' \subseteq Batch
    BY <1>2, RowTypes DEF ReleaseBatch, Write, Refreshed, TypeOK
  <2> QED BY <1>2, <2>1 DEF ReleaseBatch, TypeOK, clock, Point
<1>3. CASE AbortDispatch \/ ReleaseFails
  BY <1>3, FaultTypes DEF AbortDispatch, ReleaseFails, TypeOK, db, clock, Point
<1>4. CASE LeaveBatch
  <2>1. runner' \in [Runner -> RunnerProcess] /\ faults' \in [Fault -> Nat]
    BY <1>4, ShutdownTryType DEF LeaveBatch, TypeOK, Plan
  <2> QED BY <1>4, <2>1 DEF LeaveBatch, TypeOK, db, clock, Point
<1> QED BY <1>1, <1>2, <1>3, <1>4 DEF Leaving

LEMMA EnvironmentType ==
  ASSUME TypeOK, Operator \/ Runners \/ WindowCloses \/ WindowOpens
  PROVE  TypeOK'
<1>1. CASE CancelSelect
  <2>1. cli' \in Cli
    BY <1>1 DEF CancelSelect, TypeOK, JobRow, Cli
  <2> QED BY <1>1, <2>1, FaultTypes DEF CancelSelect, TypeOK, db, clock, sched
<1>2. CASE CancelUpdate
  <2>1. jobs' \in [Job -> JobRow] /\ open' \subseteq Batch
    BY <1>2, RowTypes, NoBatchIsNoBatch DEF CancelUpdate, Write, Refreshed, TypeOK
  <2> QED BY <1>2, <2>1 DEF CancelUpdate, TypeOK, NoCli, Cli, clock, sched
<1>3. ASSUME NEW r \in Runner,
             RunnerBoots(r) \/ RunnerFinishes(r) \/ RunnerIdles(r)
             \/ RunnerExits(r) \/ RunnerRestarts(r)
      PROVE  TypeOK'
  <2>1. runner' \in [Runner -> RunnerProcess]
    BY <1>3, ZeroAttempt
    DEF RunnerBoots, RunnerFinishes, RunnerIdles, RunnerExits, RunnerRestarts, NoProcess,
        ShutDown, TypeOK, RunnerProcess, RunnerState
  <2> QED BY <1>3, <2>1, FaultTypes
    DEF RunnerBoots, RunnerFinishes, RunnerIdles, RunnerExits, RunnerRestarts, TypeOK, db,
        clock, sched
<1>4. CASE WindowCloses \/ WindowOpens
  BY <1>4, FaultTypes DEF WindowCloses, WindowOpens, TypeOK, db, sched
<1> QED BY <1>1, <1>2, <1>3, <1>4 DEF Operator, Runners

LEMMA NextType ==
  ASSUME TypeOK, PlanInv, [Next]_vars
  PROVE  TypeOK' /\ PlanInv'
<1>1. PlanInv'
  BY NextPlan
<1>2. CASE Scheduler
  BY <1>1, <1>2, ClaimingType, StartingType, RunningType, LeavingType DEF Scheduler
<1>3. CASE Crash
  BY <1>1, <1>3, FaultTypes DEF Crash, TypeOK, PlanInv, db, clock, Point
<1>4. CASE Restart
  BY <1>1, <1>4 DEF Restart, TypeOK, db, clock, Point
<1>5. CASE Operator \/ Runners \/ WindowCloses \/ WindowOpens
  BY <1>1, <1>5, EnvironmentType
<1>6. CASE UNCHANGED vars
  BY <1>1, <1>6 DEF vars, TypeOK
<1>7. TypeOK'
  BY <1>2, <1>3, <1>4, <1>5, <1>6 DEF Next
<1> QED BY <1>1, <1>7

LEMMA TypeAndPlan == Spec => [](TypeOK /\ PlanInv)
BY InitType, NextType, PTL DEF Spec

(* Every reachable state is of the declared types: in particular no retry  *)
(* of the two result writers passes MaxAttempts.                           *)
THEOREM TypeCorrect == Spec => []TypeOK
BY TypeAndPlan, PTL

-----------------------------------------------------------------------------
(* A dispatch owns its jobs.  PlanOwnsItsJobs is inductive once it covers  *)
(* the rows a release has selected, and says that no orphan gets into a    *)
(* batch: claims take pending rows without a batch or of the batch they    *)
(* extend, every other writer touches only jobs the dispatch holds, and a  *)
(* cancel leaves the batch of a row alone.                                 *)

Own ==
  /\ PlanOwnsItsJobs
  /\ Held \cap Orphan = {}
  /\ \A j \in plan.released :
       /\ jobs[j].status \in {"pending", "cancelled"}
       /\ jobs[j].batch = plan.batch
  /\ \A j \in Orphan : jobs[j].batch = NoBatch
  /\ \A j \in Job : Pending(j) => ~jobs[j].sample

(* The rows are as they were and the dispatch holds no more jobs.          *)
LEMMA OwnLess ==
  ASSUME Own, UNCHANGED jobs, Held' \subseteq Held,
         plan'.released \subseteq plan.released,
         plan'.batch = plan.batch \/ (Held' = {} /\ plan'.released = {})
  PROVE  Own'
BY DEF Own, PlanOwnsItsJobs, Pending

(* A result writer wrote a job that the dispatch then lets go.             *)
LEMMA OwnWrite ==
  ASSUME TypeOK, PlanInv, Own, NEW j \in Held, NEW row,
         WriteJob(j, row), plan.batch \in Batch,
         row.status = "pending" => ~row.sample,
         Held' \subseteq Held \ {j}, plan'.batch = plan.batch,
         plan'.released = {}
  PROVE  Own'
<1>1. CASE jobs[j].status = "cancelled"
  BY <1>1, OwnLess DEF WriteJob
<1>2. CASE jobs[j].status # "cancelled"
  <2>1. jobs' = [jobs EXCEPT ![j] = row]
    BY <1>2 DEF WriteJob, Write
  <2>2. j \notin Orphan
    BY DEF Own
  <2> QED BY <2>1, <2>2 DEF Own, PlanOwnsItsJobs, Pending, TypeOK
<1> QED BY <1>1, <1>2

LEMMA ResultRowSample ==
  ASSUME NEW row \in JobRow, NEW b, NEW ok \in BOOLEAN
  PROVE  /\ TerminalRow(row, b, ok).status = "pending"
              => ~TerminalRow(row, b, ok).sample
         /\ DispatchFailureRow(row, b).status = "pending"
              => ~DispatchFailureRow(row, b).sample
BY DEF TerminalRow, DispatchFailureRow, RetriedRow, JobRow

LEMMA ClaimingOwn ==
  ASSUME TypeOK, PlanInv, PlanInv', Own, Claiming
  PROVE  Own'
<1>1. CASE SelectCandidates
  BY <1>1, OwnLess DEF SelectCandidates, db, NoPlan, Held
<1>2. ASSUME NEW j \in Job, FailOrphan(j) PROVE Own'
  <2>1. jobs' = [jobs EXCEPT ![j] = MissingRow(jobs[j])] /\ j \in Orphan
    BY <1>2 DEF FailOrphan
  <2>2. /\ MissingRow(jobs[j]).batch = jobs[j].batch
        /\ MissingRow(jobs[j]).status = "failed"
    BY DEF MissingRow, TypeOK, JobRow
  <2>3. Held' = {} /\ plan'.released = {}
    BY <1>2 DEF FailOrphan, PlanInv, PlanShape, InLoop, Held
  <2> QED BY <2>1, <2>2, <2>3 DEF Own, PlanOwnsItsJobs, Pending, TypeOK
<1>3. ASSUME NEW j \in Job, PassOver(j) PROVE Own'
  BY <1>3, OwnLess DEF PassOver, db, Held, PlanInv, Plan
<1>4. ASSUME NEW j \in Job, ResolveTarget(j) PROVE Own'
  <2>1. Held' = {} /\ plan'.released = {}
    BY <1>4 DEF ResolveTarget, PlanInv, PlanShape, InLoop, Held
  <2> QED BY <1>4, <2>1, OwnLess DEF ResolveTarget, db
<1>5. CASE ClaimBatch
  <2>1. PICK S \in SUBSET Claimable :
          /\ Write([j \in Job |-> IF j \in S THEN ClaimedRow(jobs[j], plan.batch)
                                             ELSE jobs[j]], {plan.batch})
          /\ plan' = [plan EXCEPT !.cands = {}, !.source = NoBatch,
                                  !.active = FALSE, !.todo = S]
    BY <1>5 DEF ClaimBatch
  <2>2. /\ Held' = S
        /\ plan'.released = {}
        /\ plan'.batch = plan.batch
    BY <1>5, <2>1 DEF ClaimBatch, PlanInv, PlanShape, InLoop, Held, Plan
  <2>3. \A j \in Job : jobs'[j] = IF j \in S THEN ClaimedRow(jobs[j], plan.batch)
                                             ELSE jobs[j]
    BY <2>1 DEF Write
  <2>4. \A j \in S : j \in Job /\ j \notin Orphan /\ Pending(j)
    BY DEF Claimable
  <2>5. \A j \in S : /\ jobs'[j].status = jobs[j].status
                     /\ jobs'[j].batch = plan.batch
                     /\ jobs'[j].sample = jobs[j].sample
    BY <2>3, <2>4 DEF ClaimedRow, TypeOK, JobRow
  <2>6. Orphan \subseteq Job
    BY DispatchAssumption
  <2> QED BY <2>2, <2>3, <2>4, <2>5, <2>6 DEF Own, PlanOwnsItsJobs, Pending
<1>6. CASE ClaimNothing \/ NothingToClaim \/ ClaimFails
  BY <1>6, OwnLess DEF ClaimNothing, NothingToClaim, ClaimFails, db, NoPlan, Held
<1>7. CASE BeginDispatch
  BY <1>7, OwnLess DEF BeginDispatch, db, Held, PlanInv, Plan
<1> QED BY <1>1, <1>2, <1>3, <1>4, <1>5, <1>6, <1>7 DEF Claiming

LEMMA StartingOwn ==
  ASSUME TypeOK, PlanInv, PlanInv', Own, Starting
  PROVE  Own'
<1>1. CASE GetEndpoint
  BY <1>1, OwnLess DEF GetEndpoint, db, Held, PlanInv, Plan
<1>2. CASE GetEndpointFails \/ RunnerReady \/ StartupFails \/ StartupCharged
  BY <1>2, OwnLess
  DEF GetEndpointFails, RunnerReady, StartupFails, StartupCharged, db, Held
<1>3. CASE AnnounceEndpoint
  BY <1>3, OwnLess DEF AnnounceEndpoint, Write, Held
<1>4. ASSUME NEW j \in Job, ChargeStartup(j) PROVE Own'
  <2>1. plan.batch \in Batch /\ plan.cur = NoJob /\ plan.released = {}
    BY <1>4 DEF ChargeStartup, PlanInv, PlanShape, InLoop
  <2>2. j \in Held /\ Held' \subseteq Held \ {j}
    BY <1>4, <2>1, DispatchAssumption DEF ChargeStartup, Held, PlanInv, Plan
  <2>3. jobs[j] \in JobRow
    BY DEF TypeOK
  <2> QED BY <1>4, <2>1, <2>2, <2>3, OwnWrite, ResultRowSample
    DEF ChargeStartup, PlanInv, Plan
<1> QED BY <1>1, <1>2, <1>3, <1>4 DEF Starting

LEMMA RunningOwn ==
  ASSUME TypeOK, PlanInv, PlanInv', Own, Running
  PROVE  Own'
<1>1. ASSUME NEW j \in Job, SkipJob(j) \/ StartJob(j) PROVE Own'
  BY <1>1, OwnLess DEF SkipJob, StartJob, db, Held, PlanInv, Plan
<1>2. ASSUME NEW j \in Job, StopAtWindow(j) PROVE Own'
  BY <1>2, OwnLess, LoopLeftType DEF StopAtWindow, db, Held, PlanInv
<1>3. CASE FinishBatch \/ SubmitAccepted \/ SubmitFails \/ PollFails
  BY <1>3, OwnLess DEF FinishBatch, SubmitAccepted, SubmitFails, PollFails, db, Held
<1>4. CASE Recover \/ PollTerminal
  BY <1>4, OwnLess DEF Recover, PollTerminal, db, Held, PlanInv, Plan
<1>5. CASE RecoverAborts
  BY <1>5, OwnLess, LoopLeftType DEF RecoverAborts, db, Held, PlanInv
<1>6. CASE PollInterrupts
  <2>1. PICK stopped \in BOOLEAN :
          plan' = [plan EXCEPT !.todo = {}, !.stopped = stopped]
    BY <1>6 DEF PollInterrupts
  <2>2. /\ Held' \subseteq Held
        /\ plan'.released = plan.released
        /\ plan'.batch = plan.batch
    BY <2>1 DEF Held, PlanInv, Plan
  <2> QED BY <1>6, <2>2, OwnLess DEF PollInterrupts, db
<1>7. CASE RecordTerminal \/ ChargeDispatch
  <2>1. /\ plan.cur \in Job /\ plan.cur \in Held
        /\ plan.batch \in Batch /\ plan.released = {} /\ plan.ok \in BOOLEAN
    BY <1>7, DispatchAssumption
    DEF RecordTerminal, ChargeDispatch, PlanInv, PlanShape, InLoop, Held, Plan
  <2>2. /\ Held' \subseteq Held \ {plan.cur}
        /\ plan'.batch = plan.batch /\ plan'.released = {}
    BY <1>7, <2>1, LoopLeftType
    DEF RecordTerminal, ChargeDispatch, PlanInv, PlanShape, Held, Plan
  <2>3. jobs[plan.cur] \in JobRow
    BY <2>1 DEF TypeOK
  <2> QED BY <1>7, <2>1, <2>2, <2>3, OwnWrite, ResultRowSample
    DEF RecordTerminal, ChargeDispatch
<1>8. CASE RecordFails
  BY <1>8, OwnLess DEF RecordFails, db, Held, PlanInv, Plan
<1> QED BY <1>1, <1>2, <1>3, <1>4, <1>5, <1>6, <1>7, <1>8 DEF Running

LEMMA LeavingOwn ==
  ASSUME TypeOK, PlanInv, PlanInv', Own, Leaving
  PROVE  Own'
<1>1. CASE SelectReleased
  <2>1. /\ plan'.released = {j \in Job : Pending(j) /\ jobs[j].batch = plan.batch}
        /\ Held' = Held /\ plan'.batch = plan.batch /\ jobs' = jobs
    BY <1>1 DEF SelectReleased, PlanInv, Plan, Held, db
  <2> QED BY <2>1 DEF Own, PlanOwnsItsJobs, Pending
<1>2. CASE ReleaseBatch
  <2>1. Held' = {} /\ plan'.released = {}
    BY <1>2 DEF ReleaseBatch, PlanInv, PlanShape, InLoop, Held, Plan
  <2>2. \A j \in Job :
          /\ jobs'[j].status = jobs[j].status
          /\ jobs'[j].sample = jobs[j].sample
          /\ jobs'[j].batch = NoBatch \/ jobs'[j].batch = jobs[j].batch
    BY <1>2 DEF ReleaseBatch, Write, ReleasedRow, TypeOK, JobRow
  <2>3. Orphan \subseteq Job
    BY DispatchAssumption
  <2> QED BY <2>1, <2>2, <2>3 DEF Own, PlanOwnsItsJobs, Pending
<1>3. CASE AbortDispatch \/ ReleaseFails
  <2>1. Held' \subseteq Held /\ plan'.released \subseteq plan.released
        /\ plan'.batch = plan.batch
    BY <1>3, LoopLeftType DEF AbortDispatch, ReleaseFails, Held, PlanInv, Plan
  <2> QED BY <1>3, <2>1, OwnLess DEF AbortDispatch, ReleaseFails, db
<1>4. CASE LeaveBatch
  BY <1>4, OwnLess DEF LeaveBatch, db, NoPlan, Held
<1> QED BY <1>1, <1>2, <1>3, <1>4 DEF Leaving

LEMMA NextOwn ==
  ASSUME TypeOK, PlanInv, PlanInv', Own, [Next]_vars
  PROVE  Own'
<1>1. CASE Scheduler
  BY <1>1, ClaimingOwn, StartingOwn, RunningOwn, LeavingOwn DEF Scheduler
<1>2. CASE Crash
  BY <1>2, OwnLess DEF Crash, db, NoPlan, Held
<1>3. CASE CancelUpdate
  <2>1. Held' = Held /\ plan' = plan
    BY <1>3 DEF CancelUpdate, sched, Held
  <2>2. \A j \in Job :
          /\ jobs'[j].batch = jobs[j].batch
          /\ jobs'[j] = jobs[j] \/ jobs'[j].status = "cancelled"
    BY <1>3 DEF CancelUpdate, Write, CancelledRow, TypeOK, JobRow
  <2>3. Held \subseteq Job /\ plan.released \subseteq Job /\ Orphan \subseteq Job
    BY DispatchAssumption DEF Held, PlanInv, Plan
  <2> QED BY <2>1, <2>2, <2>3 DEF Own, PlanOwnsItsJobs, Pending
<1>4. CASE \/ Restart \/ CancelSelect \/ Runners
           \/ WindowCloses \/ WindowOpens \/ UNCHANGED vars
  <2>1. UNCHANGED <<jobs, plan>>
    BY <1>4 DEF Restart, CancelSelect, Runners, RunnerBoots, RunnerFinishes,
       RunnerIdles, RunnerExits, RunnerRestarts, WindowCloses, WindowOpens, vars, db, sched
  <2> QED BY <2>1, OwnLess DEF Held
<1> QED BY <1>1, <1>2, <1>3, <1>4 DEF Next, Operator

LEMMA InitOwn == Init => Own
BY DispatchAssumption
DEF Init, Own, PlanOwnsItsJobs, Held, NoPlan, NewRow, Pending

CoreInv == TypeOK /\ PlanInv /\ Own

LEMMA CoreInvariant == Spec => []CoreInv
<1>1. Init => CoreInv
  BY InitType, InitOwn DEF CoreInv
<1>2. CoreInv /\ [Next]_vars => CoreInv'
  BY NextType, NextOwn DEF CoreInv
<1> QED BY <1>1, <1>2, PTL DEF Spec

(* A dispatch owns its jobs: every job it still has before it is pending   *)
(* or cancelled, in its batch (claim_pending_batch, the result writers and *)
(* release_batch_pending_jobs against cancel_jobs).                        *)
THEOREM DispatchOwnsItsJobs == Spec => []PlanOwnsItsJobs
BY CoreInvariant, PTL DEF CoreInv, Own

-----------------------------------------------------------------------------
(* Batch rows.  A transaction refreshes the batches its rows are in, so a  *)
(* pending row's batch stays open.  The converse needs to know which       *)
(* batches lose their last pending row: the plan's own, as the dispatch    *)
(* owns its jobs, and those of a cancel.                                   *)

Open ==
  /\ PendingBatchIsOpen
  /\ OpenBatchIsPending
  /\ faults["cancel"] = 0 => cli = NoCli

(* A step counts at most one fault ...                                     *)
LEMMA FaultsMove ==
  ASSUME [Next]_vars
  PROVE  UNCHANGED faults \/ \E f \in Fault : Fails(f)
<1>1. ASSUME NEW r, NEW stopped, ShutdownTry(r, stopped)
      PROVE  Fails("loss") \/ faults' = faults
  BY <1>1 DEF ShutdownTry, Unanswered
<1>2. CASE Scheduler
  BY <1>1, <1>2
  DEF Scheduler, Claiming, Starting, Running, Leaving, Fault, SelectCandidates,
      FailOrphan, PassOver, ResolveTarget, ClaimBatch, ClaimNothing,
      NothingToClaim, ClaimFails, BeginDispatch, GetEndpoint, GetEndpointFails,
      AnnounceEndpoint, RunnerReady, StartupFails, ChargeStartup,
      StartupCharged, SkipJob, StopAtWindow, StartJob, FinishBatch, Recover,
      RecoverAborts, SubmitAccepted, SubmitFails, PollTerminal, PollInterrupts,
      PollFails, RecordTerminal, RecordFails, ChargeDispatch, SelectReleased,
      ReleaseBatch, ReleaseFails, AbortDispatch, LeaveBatch, Answered,
      Unanswered
<1>3. CASE Crash \/ Restart \/ Operator \/ WindowCloses \/ WindowOpens
  BY <1>3 DEF Crash, Restart, Operator, CancelSelect, CancelUpdate,
     WindowCloses, WindowOpens, Fault
<1>4. CASE Runners
  BY <1>4 DEF Runners, RunnerBoots, RunnerFinishes, RunnerIdles, RunnerExits,
     RunnerRestarts, Fault
<1>5. CASE UNCHANGED vars
  BY <1>5 DEF vars
<1> QED BY <1>2, <1>3, <1>4, <1>5 DEF Next

(* ... and a fault once counted stays counted.                             *)
LEMMA FaultsGrow ==
  ASSUME TypeOK, [Next]_vars, NEW f \in Fault
  PROVE  faults[f] <= faults'[f]
<1>1. ASSUME NEW g \in Fault, Fails(g) PROVE faults[f] <= faults'[f]
  BY <1>1 DEF Fails, TypeOK
<1> QED BY <1>1, FaultsMove DEF TypeOK

LEMMA FaultsStay ==
  ASSUME TypeOK, [Next]_vars, NEW f \in Fault, faults'[f] = 0
  PROVE  faults[f] = 0
BY FaultsGrow DEF TypeOK

(* A write refreshes every batch whose pending rows it changes.            *)
LEMMA OpenWrite ==
  ASSUME Open, TypeOK, NEW js, NEW bs, Write(js, bs),
         \A b \in Batch \ bs : HasPending(js, b) <=> HasPending(jobs, b),
         \A j \in Job : js[j].batch \in Batch \cup {NoBatch},
         faults'["cancel"] = 0 => faults["cancel"] = 0,
         faults'["cancel"] = 0 => cli' = NoCli
  PROVE  Open'
<1>1. PendingBatchIsOpen'
  <2> SUFFICES ASSUME NEW j \in Job, js[j].status = "pending",
                      js[j].batch # NoBatch
               PROVE  js[j].batch \in open'
    BY DEF PendingBatchIsOpen, Pending, Write
  <2> DEFINE b == js[j].batch
  <2>1. b \in Batch /\ HasPending(js, b)
    BY DEF HasPending
  <2>2. b \notin bs => b \in open
    BY <2>1 DEF HasPending, Open, PendingBatchIsOpen, Pending, TypeOK
  <2> QED BY <2>1, <2>2, NoBatchIsNoBatch DEF Write, Refreshed
<1>2. OpenBatchIsPending'
  BY DEF Open, OpenBatchIsPending, Write, Refreshed
<1> QED BY <1>1, <1>2 DEF Open

(* Nothing of the rows changes.                                            *)
LEMMA OpenSame ==
  ASSUME Open, UNCHANGED <<jobs, open>>,
         faults'["cancel"] = 0 => faults["cancel"] = 0,
         faults'["cancel"] = 0 => cli' = NoCli
  PROVE  Open'
BY DEF Open, PendingBatchIsOpen, OpenBatchIsPending, Pending, HasPending

(* Rows move only between no batch and the plan's.                         *)
LEMMA SamePending ==
  ASSUME NEW js,
         \A j \in Job : \/ js[j] = jobs[j]
                        \/ /\ jobs[j].batch \in {NoBatch, plan.batch}
                           /\ js[j].batch \in {NoBatch, plan.batch}
  PROVE  \A b \in Batch \ {plan.batch} : HasPending(js, b) <=> HasPending(jobs, b)
BY NoBatchIsNoBatch DEF HasPending

LEMMA ResultRowBatch ==
  ASSUME NEW row \in JobRow, NEW b \in Batch \cup {NoBatch}, NEW ok \in BOOLEAN
  PROVE  /\ TerminalRow(row, b, ok).batch \in {NoBatch, b}
         /\ DispatchFailureRow(row, b).batch \in {NoBatch, b}
BY DEF TerminalRow, DispatchFailureRow, RetriedRow, JobRow

LEMMA NextOpen ==
  ASSUME CoreInv, CoreInv', Open, [Next]_vars
  PROVE  Open'
<1> USE DEF CoreInv
<1>0. faults'["cancel"] = 0 => faults["cancel"] = 0
  BY FaultsStay DEF Fault
<1>1. ASSUME NEW j \in Held, NEW row, WriteJob(j, row), UNCHANGED cli,
             row.batch \in {NoBatch, plan.batch}, plan.batch \in Batch
      PROVE  Open'
  <2>1. CASE jobs[j].status = "cancelled"
    BY <1>0, <1>1, <2>1, OpenSame DEF WriteJob, Open
  <2>2. CASE jobs[j].status # "cancelled"
    <3> DEFINE js == [jobs EXCEPT ![j] = row]
    <3>1. Write(js, {plan.batch})
      BY <1>1, <2>2 DEF WriteJob
    <3>2. \A i \in Job : \/ js[i] = jobs[i]
                         \/ /\ jobs[i].batch \in {NoBatch, plan.batch}
                            /\ js[i].batch \in {NoBatch, plan.batch}
      BY <1>1 DEF Own, PlanOwnsItsJobs, TypeOK
    <3>3. \A i \in Job : js[i].batch \in Batch \cup {NoBatch}
      BY <1>1 DEF TypeOK, JobRow
    <3> HIDE DEF js
    <3> QED BY <1>0, <1>1, <3>1, <3>2, <3>3, OpenWrite, SamePending DEF Open
  <2> QED BY <2>1, <2>2
<1>2. ASSUME NEW j \in Job, ChargeStartup(j) PROVE Open'
  <2>1. j \in Held /\ plan.batch \in Batch /\ jobs[j] \in JobRow
    BY <1>2, DispatchAssumption
    DEF ChargeStartup, PlanInv, PlanShape, Held, Plan, TypeOK, InLoop
  <2> QED BY <1>1, <1>2, <2>1, ResultRowBatch DEF ChargeStartup
<1>3. CASE RecordTerminal \/ ChargeDispatch
  <2>1. /\ plan.cur \in Held /\ plan.batch \in Batch
        /\ jobs[plan.cur] \in JobRow /\ plan.ok \in BOOLEAN
    BY <1>3, DispatchAssumption
    DEF RecordTerminal, ChargeDispatch, PlanInv, PlanShape, InLoop, Held, Plan,
        TypeOK
  <2> QED BY <1>1, <1>3, <2>1, ResultRowBatch DEF RecordTerminal, ChargeDispatch
<1>4. ASSUME NEW j \in Job, FailOrphan(j) PROVE Open'
  <2>1. /\ jobs[j].batch = NoBatch
        /\ jobs'[j].batch = NoBatch
        /\ \A i \in Job \ {j} : jobs'[i] = jobs[i]
    BY <1>4 DEF FailOrphan, Own, TypeOK, MissingRow, JobRow
  <2>2. UNCHANGED <<open, cli>>
    BY <1>4 DEF FailOrphan
  <2> QED BY <1>0, <2>1, <2>2, NoBatchIsNoBatch
    DEF Open, PendingBatchIsOpen, OpenBatchIsPending, Pending, HasPending, TypeOK
<1>5. CASE ClaimBatch
  <2>1. PICK S \in SUBSET Claimable :
          Write([j \in Job |-> IF j \in S THEN ClaimedRow(jobs[j], plan.batch)
                                          ELSE jobs[j]], {plan.batch})
    BY <1>5 DEF ClaimBatch
  <2> DEFINE js == [j \in Job |-> IF j \in S THEN ClaimedRow(jobs[j], plan.batch)
                                             ELSE jobs[j]]
  <2>2. plan.batch \in Batch /\ plan.source \in {NoBatch, plan.batch}
    BY <1>5 DEF ClaimBatch, PlanInv, PlanShape
  <2>3. \A j \in Job : \/ js[j] = jobs[j]
                       \/ /\ jobs[j].batch \in {NoBatch, plan.batch}
                          /\ js[j].batch \in {NoBatch, plan.batch}
    BY <2>2 DEF Claimable, ClaimedRow, TypeOK, JobRow
  <2>4. \A j \in Job : js[j].batch \in Batch \cup {NoBatch}
    BY <2>2, <2>3 DEF TypeOK, JobRow
  <2>5. UNCHANGED cli
    BY <1>5 DEF ClaimBatch
  <2> HIDE DEF js
  <2> QED BY <1>0, <2>1, <2>3, <2>4, <2>5, OpenWrite, SamePending DEF Open, js
<1>6. CASE AnnounceEndpoint
  BY <1>0, <1>6, OpenWrite DEF AnnounceEndpoint, Open, TypeOK, JobRow
<1>7. CASE ReleaseBatch
  <2> DEFINE js == [j \in Job |-> IF j \in plan.released THEN ReleasedRow(jobs[j])
                                                        ELSE jobs[j]]
  <2>1. Write(js, {plan.batch}) /\ UNCHANGED cli
    BY <1>7 DEF ReleaseBatch
  <2>2. \A j \in Job : \/ js[j] = jobs[j]
                       \/ /\ jobs[j].batch \in {NoBatch, plan.batch}
                          /\ js[j].batch \in {NoBatch, plan.batch}
    BY DEF Own, ReleasedRow, TypeOK, JobRow
  <2>3. \A j \in Job : js[j].batch \in Batch \cup {NoBatch}
    BY DEF ReleasedRow, TypeOK, JobRow
  <2> HIDE DEF js
  <2> QED BY <1>0, <2>1, <2>2, <2>3, OpenWrite, SamePending DEF Open
<1>8. CASE CancelSelect
  <2>1. UNCHANGED <<jobs, open>>
    BY <1>8 DEF CancelSelect, db
  <2>2. faults'["cancel"] # 0
    BY <1>8 DEF CancelSelect, Fails, TypeOK, Fault
  <2> QED BY <2>1, <2>2, OpenSame
<1>9. CASE CancelUpdate
  <2> DEFINE js == [j \in Job |-> IF j \in cli.jobs THEN CancelledRow(jobs[j])
                                                    ELSE jobs[j]]
  <2>1. Write(js, cli.batches) /\ cli' = NoCli /\ cli # NoCli /\ UNCHANGED faults
    BY <1>9 DEF CancelUpdate
  <2>2. faults["cancel"] # 0
    BY <2>1 DEF Open
  <2>3. \A j \in Job : /\ js[j].batch = jobs[j].batch
                       /\ js[j].status = "pending" => jobs[j].status = "pending"
    BY DEF CancelledRow, TypeOK, JobRow
  <2>4. \A j \in Job : jobs[j].batch \in Batch \cup {NoBatch}
    BY DEF TypeOK, JobRow
  <2> HIDE DEF js
  <2> QED BY <2>1, <2>2, <2>3, <2>4, NoBatchIsNoBatch
    DEF Open, PendingBatchIsOpen, OpenBatchIsPending, Pending, Write, Refreshed,
        HasPending
<1>10. CASE UNCHANGED <<jobs, open, cli>>
  BY <1>0, <1>10, OpenSame DEF Open
<1>11. \/ \E j \in Job : ChargeStartup(j) \/ FailOrphan(j)
       \/ RecordTerminal \/ ChargeDispatch \/ ClaimBatch \/ AnnounceEndpoint
       \/ ReleaseBatch \/ CancelSelect \/ CancelUpdate
       \/ UNCHANGED <<jobs, open, cli>>
  <2>1. CASE Claiming
    BY <2>1 DEF Claiming, SelectCandidates, PassOver, ResolveTarget,
       ClaimNothing, NothingToClaim, ClaimFails, BeginDispatch, db
  <2>2. CASE Starting
    BY <2>2 DEF Starting, GetEndpoint, GetEndpointFails, RunnerReady,
       StartupFails, StartupCharged, db
  <2>3. CASE Running
    BY <2>3 DEF Running, SkipJob, StopAtWindow, StartJob, FinishBatch, Recover,
       RecoverAborts, SubmitAccepted, SubmitFails, PollTerminal, PollInterrupts,
       PollFails, RecordFails, db
  <2>4. CASE Leaving
    BY <2>4 DEF Leaving, SelectReleased, ReleaseFails, AbortDispatch,
       LeaveBatch, db
  <2>5. CASE Crash \/ Restart \/ Operator \/ WindowCloses \/ WindowOpens
    BY <2>5 DEF Crash, Restart, Operator, WindowCloses, WindowOpens, db
  <2>6. CASE Runners
    BY <2>6 DEF Runners, RunnerBoots, RunnerFinishes, RunnerIdles, RunnerExits,
       RunnerRestarts, db
  <2>7. CASE UNCHANGED vars
    BY <2>7 DEF vars
  <2> QED BY <2>1, <2>2, <2>3, <2>4, <2>5, <2>6, <2>7 DEF Next, Scheduler
<1> QED BY <1>2, <1>3, <1>4, <1>5, <1>6, <1>7, <1>8, <1>9, <1>10, <1>11

LEMMA OpenInvariant == Spec => []Open
<1>1. Init => Open
  BY DEF Init, Open, PendingBatchIsOpen, OpenBatchIsPending, NewRow
<1>2. CoreInv /\ CoreInv' /\ Open /\ [Next]_vars => Open'
  BY NextOpen
<1> QED BY <1>1, <1>2, CoreInvariant, PTL DEF Spec

(* The batch of a pending job is open, after any interleaving of claims,   *)
(* results, releases and cancels (refresh_batch_record).                   *)
THEOREM PendingBatchStaysOpen == Spec => []PendingBatchIsOpen
BY OpenInvariant, PTL DEF Open

(* As long as no cancel was asked for, a batch closes with its last        *)
(* pending job.                                                            *)
THEOREM NoStaleOpenBatch == Spec => []OpenBatchIsPending
BY OpenInvariant, PTL DEF Open

-----------------------------------------------------------------------------
(***************************************************************************)
(* Dispatch implements JobLifecycle, whatever the constants: every step of *)
(* it is a step of the life cycle or leaves status, attempt, output and    *)
(* the operator's request as they are.                                     *)
(***************************************************************************)
(* Steps that write rows of the jobs table. *)

RowsStay == UNCHANGED jobs

(* Every step that can change a row, and how it does.                      *)
RowStep ==
  \/ \E j \in Held : \E row \in {TerminalRow(jobs[j], plan.batch, plan.ok),
                                 DispatchFailureRow(jobs[j], plan.batch)} :
       WriteJob(j, row)
  \/ \E j \in Orphan : jobs' = [jobs EXCEPT ![j] = MissingRow(jobs[j])]
  \/ /\ ClaimBatch
     /\ \E S \in SUBSET Claimable :
          jobs' = [j \in Job |-> IF j \in S THEN ClaimedRow(jobs[j], plan.batch)
                                            ELSE jobs[j]]
  \/ jobs' = [j \in Job |-> IF j \in plan.released THEN ReleasedRow(jobs[j])
                                                   ELSE jobs[j]]

LEMMA RowSteps ==
  ASSUME CoreInv, [Next]_vars
  PROVE  \/ RowsStay /\ UNCHANGED cli
         \/ RowStep /\ UNCHANGED cli
         \/ RowsStay /\ CancelSelect
         \/ CancelUpdate
<1>1. CASE Claiming
  BY <1>1 DEF Claiming, SelectCandidates, FailOrphan, PassOver, ResolveTarget,
     ClaimBatch, ClaimNothing, NothingToClaim, ClaimFails, BeginDispatch, db, Write,
     RowsStay, RowStep
<1>2. CASE Starting
  <2>1. ASSUME NEW j \in Job, ChargeStartup(j) PROVE RowStep /\ UNCHANGED cli
    BY <2>1 DEF ChargeStartup, Held, RowStep
  <2> QED BY <1>2, <2>1 DEF Starting, GetEndpoint, GetEndpointFails, Write,
     AnnounceEndpoint, RunnerReady, StartupFails, StartupCharged, db, RowsStay
<1>3. CASE Running
  <2>1. ASSUME RecordTerminal \/ ChargeDispatch PROVE RowStep /\ UNCHANGED cli
    <3>1. plan.cur \in Held
      BY <2>1, DispatchAssumption
      DEF RecordTerminal, ChargeDispatch, CoreInv, PlanInv, PlanShape, InLoop, Held
    <3> QED BY <2>1, <3>1 DEF RecordTerminal, ChargeDispatch, RowStep
  <2> QED BY <1>3, <2>1 DEF Running, SkipJob, StopAtWindow, StartJob,
     FinishBatch, Recover, RecoverAborts, SubmitAccepted, SubmitFails,
     PollTerminal, PollInterrupts, PollFails, RecordFails, db, RowsStay
<1>4. CASE Leaving
  BY <1>4 DEF Leaving, SelectReleased, ReleaseBatch, ReleaseFails,
     AbortDispatch, LeaveBatch, db, Write, RowsStay, RowStep
<1>5. CASE Operator
  BY <1>5 DEF Operator, CancelSelect, db, RowsStay
<1>6. CASE Crash \/ Restart \/ WindowCloses \/ WindowOpens \/ UNCHANGED vars
  BY <1>6 DEF Crash, Restart, WindowCloses, WindowOpens, vars, db, RowsStay
<1>7. CASE Runners
  BY <1>7 DEF Runners, RunnerBoots, RunnerFinishes, RunnerIdles, RunnerExits,
     RunnerRestarts, db, RowsStay
<1> QED BY <1>1, <1>2, <1>3, <1>4, <1>5, <1>6, <1>7 DEF Next, Scheduler

-----------------------------------------------------------------------------
(* A cancelled row is final. *)

LEMMA RowStepKeepsCancelled ==
  ASSUME CoreInv, RowStep, NEW j \in Job \ Orphan,
         jobs[j].status = "cancelled", j \notin plan.released
  PROVE  jobs'[j] = jobs[j]
<1>1. ASSUME NEW i \in Held, NEW row, WriteJob(i, row) PROVE jobs'[j] = jobs[j]
  BY <1>1 DEF WriteJob, Write, CoreInv, TypeOK
<1>2. j \notin Claimable
  BY DEF Claimable, Pending
<1> QED BY <1>1, <1>2 DEF RowStep, CoreInv, TypeOK

(* The rows a cancel has read are not cancelled before it writes them.     *)
AskedOnce == \A j \in cli.jobs : jobs[j].status # "cancelled"

LEMMA RowStepCancelsNothing ==
  ASSUME CoreInv, RowStep, NEW j \in Job, jobs[j].status # "cancelled"
  PROVE  jobs'[j].status # "cancelled"
<1>1. ASSUME NEW i \in Held, NEW row, WriteJob(i, row), row.status # "cancelled"
      PROVE  jobs'[j].status # "cancelled"
  BY <1>1 DEF WriteJob, Write, CoreInv, TypeOK
<1>2. \A i \in Held : /\ i \in Job /\ jobs[i] \in JobRow
                      /\ plan.ok \in BOOLEAN
  BY DispatchAssumption DEF Held, CoreInv, TypeOK, Plan
<1>3. \A i \in Held :
        /\ TerminalRow(jobs[i], plan.batch, plan.ok).status # "cancelled"
        /\ DispatchFailureRow(jobs[i], plan.batch).status # "cancelled"
  BY <1>2 DEF TerminalRow, DispatchFailureRow, RetriedRow, JobRow
<1>4. /\ MissingRow(jobs[j]).status # "cancelled"
      /\ ClaimedRow(jobs[j], plan.batch).status # "cancelled"
      /\ ReleasedRow(jobs[j]).status # "cancelled"
  BY DEF MissingRow, ClaimedRow, ReleasedRow, CoreInv, TypeOK, JobRow
<1> QED BY <1>1, <1>3, <1>4 DEF RowStep, CoreInv, TypeOK

LEMMA NextAskedOnce ==
  ASSUME CoreInv, AskedOnce, [Next]_vars
  PROVE  AskedOnce'
<1>1. cli.jobs \subseteq Job
  BY DEF CoreInv, TypeOK, Cli
<1>2. CASE RowsStay /\ UNCHANGED cli
  BY <1>2 DEF RowsStay, AskedOnce
<1>3. CASE RowStep /\ UNCHANGED cli
  BY <1>1, <1>3, RowStepCancelsNothing DEF AskedOnce
<1>4. CASE RowsStay /\ CancelSelect
  BY <1>4 DEF CancelSelect, RowsStay, AskedOnce, Pending
<1>5. CASE CancelUpdate
  BY <1>5 DEF CancelUpdate, AskedOnce, NoCli
<1> QED BY <1>2, <1>3, <1>4, <1>5, RowSteps

LEMMA AskedOnceInvariant == Spec => []AskedOnce
<1>1. Init => AskedOnce
  BY DEF Init, AskedOnce, NoCli
<1> QED BY <1>1, NextAskedOnce, CoreInvariant, PTL DEF Spec

(* A cancelled row is never written again by a claim, a result, a failure, *)
(* a retry or another cancel; only a release that selected the row before  *)
(* the cancel may still write it (the early returns of the result writers, *)
(* the status filters of the claim and of cancel_jobs).                    *)
THEOREM CancelledRowsAreFinal == Spec => CancelledRowIsFinal
<1> DEFINE Kept == \A j \in Job \ Orphan :
             jobs[j].status = "cancelled" /\ j \notin plan.released
               => jobs'[j] = jobs[j]
<1>1. ASSUME CoreInv, AskedOnce, [Next]_vars PROVE Kept
  <2> SUFFICES ASSUME NEW j \in Job \ Orphan, jobs[j].status = "cancelled",
                      j \notin plan.released
               PROVE  jobs'[j] = jobs[j]
    OBVIOUS
  <2>1. CASE CancelUpdate
    BY <1>1, <2>1 DEF CancelUpdate, Write, AskedOnce
  <2> QED BY <1>1, <2>1, RowSteps, RowStepKeepsCancelled DEF RowsStay
<1>2. CoreInv /\ AskedOnce /\ [Next]_vars => [Kept]_vars
  BY <1>1
<1> QED BY <1>2, CoreInvariant, AskedOnceInvariant, PTL DEF Spec, CancelledRowIsFinal

(* The status of a row that is completed or failed changes only by a       *)
(* cancel that had read the row while it was pending.                      *)
SettledRowIsFinal ==
  [][\A j \in Job \ Orphan :
       jobs[j].status \in {"completed", "failed"} /\ j \notin cli.jobs
         => /\ jobs'[j].status = jobs[j].status
            /\ jobs'[j].sample = jobs[j].sample]_vars

(* No result, failure, retry, claim or release touches a settled row,      *)
(* although the UPDATEs of the writers select by job_id alone: what        *)
(* docs/cli.md promises of completed jobs fails in cancel_jobs only.       *)
THEOREM SettledRowsAreFinal == Spec => SettledRowIsFinal
<1> DEFINE Same(j) == /\ jobs'[j].status = jobs[j].status
                      /\ jobs'[j].sample = jobs[j].sample
           Kept == \A j \in Job \ Orphan :
             jobs[j].status \in {"completed", "failed"} /\ j \notin cli.jobs
               => Same(j)
<1>1. ASSUME CoreInv, [Next]_vars PROVE Kept
  <2> SUFFICES ASSUME NEW j \in Job \ Orphan,
                      jobs[j].status \in {"completed", "failed"},
                      j \notin cli.jobs
               PROVE  Same(j)
    OBVIOUS
  <2>1. CASE CancelUpdate
    BY <1>1, <2>1 DEF CancelUpdate, Write, CoreInv, TypeOK
  <2>2. CASE RowStep
    <3>1. j \notin Held /\ j \notin Claimable
      BY <1>1 DEF CoreInv, Own, PlanOwnsItsJobs, Claimable, Pending
    <3>2. ASSUME NEW i \in Held, NEW row, WriteJob(i, row) PROVE Same(j)
      BY <1>1, <3>1, <3>2 DEF WriteJob, Write, CoreInv, TypeOK
    <3>3. ReleasedRow(jobs[j]).status = jobs[j].status
          /\ ReleasedRow(jobs[j]).sample = jobs[j].sample
      BY <1>1 DEF ReleasedRow, CoreInv, TypeOK, JobRow
    <3> QED BY <1>1, <2>2, <3>1, <3>2, <3>3 DEF RowStep, CoreInv, TypeOK
  <2> QED BY <1>1, <2>1, <2>2, RowSteps DEF RowsStay
<1>2. CoreInv /\ [Next]_vars => [Kept]_vars
  BY <1>1
<1> QED BY <1>2, CoreInvariant, PTL DEF Spec, SettledRowIsFinal

-----------------------------------------------------------------------------
(* The refinement: one lemma per kind of step. *)

StatusOf == [j \in Job |-> jobs[j].status]
AttemptOf == [j \in Job |-> jobs[j].attempt]
OutputOf == {j \in Job : jobs[j].sample}

LEMMA RefineWrite ==
  ASSUME CoreInv, NEW j \in Held, UNCHANGED cli,
         NEW row \in {TerminalRow(jobs[j], plan.batch, plan.ok),
                      DispatchFailureRow(jobs[j], plan.batch)},
         WriteJob(j, row)
  PROVE  [Lifecycle!Next]_Lifecycle!lifecycleVars
<1>1. CASE jobs[j].status = "cancelled"
  BY <1>1 DEF WriteJob, Lifecycle!lifecycleVars
<1>2. CASE jobs[j].status # "cancelled"
  <2>1. /\ j \in Job \ Orphan
        /\ jobs[j].status = "pending" /\ ~jobs[j].sample
        /\ jobs[j] \in JobRow
        /\ plan.ok \in BOOLEAN
    BY <1>2, DispatchAssumption
    DEF CoreInv, Own, PlanOwnsItsJobs, Pending, TypeOK, Held, Plan
  <2>2. jobs' = [jobs EXCEPT ![j] = row]
    BY <1>2 DEF WriteJob, Write
  <2>3. /\ StatusOf' = [StatusOf EXCEPT ![j] = row.status]
        /\ AttemptOf' = [AttemptOf EXCEPT ![j] = row.attempt]
        /\ OutputOf' = IF row.sample THEN OutputOf \cup {j} ELSE OutputOf \ {j}
    BY <2>1, <2>2 DEF CoreInv, TypeOK, StatusOf, AttemptOf, OutputOf
  <2>4. j \notin OutputOf /\ StatusOf[j] = "pending" /\ AttemptOf[j] = jobs[j].attempt
    BY <2>1 DEF StatusOf, AttemptOf, OutputOf
  <2>5. \/ /\ row.status = "completed" /\ row.sample
           /\ row.attempt = jobs[j].attempt
        \/ /\ HasBudget(jobs[j])
           /\ row.status = "pending" /\ ~row.sample
           /\ row.attempt = jobs[j].attempt + 1
        \/ /\ ~HasBudget(jobs[j])
           /\ row.status = "failed" /\ ~row.sample
           /\ row.attempt = jobs[j].attempt
    <3>1. CASE HasBudget(jobs[j])
      <4>1. \/ row = RetriedRow(jobs[j])
            \/ plan.ok /\ row = TerminalRow(jobs[j], plan.batch, TRUE)
        BY <2>1, <3>1 DEF TerminalRow, DispatchFailureRow
      <4>2. /\ TerminalRow(jobs[j], plan.batch, TRUE).status = "completed"
            /\ TerminalRow(jobs[j], plan.batch, TRUE).sample
            /\ TerminalRow(jobs[j], plan.batch, TRUE).attempt = jobs[j].attempt
        BY <2>1 DEF TerminalRow, JobRow
      <4>3. /\ RetriedRow(jobs[j]).status = "pending"
            /\ RetriedRow(jobs[j]).sample = FALSE
            /\ RetriedRow(jobs[j]).attempt = jobs[j].attempt + 1
        BY DEF RetriedRow
      <4> QED BY <3>1, <4>1, <4>2, <4>3
    <3>2. CASE ~HasBudget(jobs[j])
      BY <2>1, <3>2 DEF TerminalRow, DispatchFailureRow, JobRow
    <3> QED BY <3>1, <3>2
  <2>6. CASE row.status = "completed" /\ row.sample /\ row.attempt = jobs[j].attempt
    <3>1. Lifecycle!Complete(j)
      BY <2>1, <2>3, <2>4, <2>6
      DEF Lifecycle!Complete, Lifecycle!Runs, StatusOf, AttemptOf, OutputOf
    <3> QED BY <2>1, <3>1 DEF Lifecycle!Next
  <2>7. CASE /\ HasBudget(jobs[j]) /\ row.status = "pending" /\ ~row.sample
             /\ row.attempt = jobs[j].attempt + 1
    <3>1. StatusOf' = StatusOf /\ OutputOf' = OutputOf
      BY <2>1, <2>3, <2>4, <2>7 DEF StatusOf, OutputOf
    <3>2. /\ jobs[j].attempt < MaxAttempts
          /\ AttemptOf' = [AttemptOf EXCEPT ![j] = AttemptOf[j] + 1]
      BY <2>3, <2>4, <2>7 DEF HasBudget
    <3>3. Lifecycle!Retry(j)
      BY <2>1, <2>4, <3>1, <3>2
      DEF Lifecycle!Retry, Lifecycle!Runs, StatusOf, AttemptOf, OutputOf
    <3> QED BY <2>1, <3>3 DEF Lifecycle!Next
  <2>8. CASE /\ ~HasBudget(jobs[j]) /\ row.status = "failed" /\ ~row.sample
             /\ row.attempt = jobs[j].attempt
    <3>1. jobs[j].attempt = MaxAttempts
      BY <2>1, <2>8, MaxAttemptsIsPositive DEF HasBudget, JobRow
    <3>2. Lifecycle!Fail(j)
      BY <2>1, <2>3, <2>4, <2>8, <3>1
      DEF Lifecycle!Fail, Lifecycle!Runs, StatusOf, AttemptOf, OutputOf
    <3> QED BY <2>1, <3>2 DEF Lifecycle!Next
  <2> QED BY <2>5, <2>6, <2>7, <2>8
<1> QED BY <1>1, <1>2

LEMMA RefineMissing ==
  ASSUME CoreInv, NEW j \in Orphan, UNCHANGED cli,
         jobs' = [jobs EXCEPT ![j] = MissingRow(jobs[j])]
  PROVE  Lifecycle!Next
<1>1. /\ j \in Job
      /\ MissingRow(jobs[j]).status = "failed"
      /\ MissingRow(jobs[j]).attempt = jobs[j].attempt
      /\ MissingRow(jobs[j]).sample = jobs[j].sample
  BY DispatchAssumption DEF MissingRow, CoreInv, TypeOK, JobRow
<1>2. /\ StatusOf' = [StatusOf EXCEPT ![j] = "failed"]
      /\ AttemptOf' = AttemptOf
      /\ OutputOf' = OutputOf
  BY <1>1 DEF CoreInv, TypeOK, StatusOf, AttemptOf, OutputOf
<1>3. Lifecycle!FailOrphan(j)
  BY <1>2 DEF Lifecycle!FailOrphan, StatusOf, AttemptOf, OutputOf
<1> QED BY <1>1, <1>3 DEF Lifecycle!Next

(* Claims and releases change no field the life cycle sees.                *)
LEMMA RefineMove ==
  ASSUME CoreInv, UNCHANGED cli,
         \/ \E S \in SUBSET Claimable :
              jobs' = [j \in Job |-> IF j \in S THEN ClaimedRow(jobs[j], plan.batch)
                                                ELSE jobs[j]]
         \/ jobs' = [j \in Job |-> IF j \in plan.released THEN ReleasedRow(jobs[j])
                                                          ELSE jobs[j]]
  PROVE  UNCHANGED Lifecycle!lifecycleVars
<1>0. \A j \in Job : jobs[j] \in JobRow
  BY DEF CoreInv, TypeOK
<1>1. \A j \in Job : /\ jobs'[j].status = jobs[j].status
                     /\ jobs'[j].attempt = jobs[j].attempt
                     /\ jobs'[j].sample = jobs[j].sample
  <2> TAKE j \in Job
  <2>1. jobs'[j] \in {jobs[j], ClaimedRow(jobs[j], plan.batch), ReleasedRow(jobs[j])}
    OBVIOUS
  <2> QED BY <1>0, <2>1 DEF ClaimedRow, ReleasedRow, JobRow
<1>2. StatusOf' = StatusOf /\ AttemptOf' = AttemptOf /\ OutputOf' = OutputOf
  BY <1>1 DEF StatusOf, AttemptOf, OutputOf
<1> QED BY <1>2 DEF Lifecycle!lifecycleVars, StatusOf, AttemptOf, OutputOf

LEMMA RefineCancelSelect ==
  ASSUME CoreInv, RowsStay, CancelSelect
  PROVE  Lifecycle!Next
<1>1. PICK S \in SUBSET {j \in Job : Pending(j)} : cli'.jobs = S
  BY DEF CancelSelect
<1>2. cli.jobs = {}
  BY DEF CancelSelect, NoCli
<1>3. Lifecycle!Ask(S)
  BY <1>1, <1>2 DEF Lifecycle!Ask, RowsStay, Pending
<1> QED BY <1>1, <1>3 DEF Lifecycle!Next

LEMMA RefineCancelUpdate ==
  ASSUME CoreInv, CancelUpdate
  PROVE  Lifecycle!Next
<1>1. /\ jobs' = [j \in Job |-> IF j \in cli.jobs THEN CancelledRow(jobs[j])
                                                  ELSE jobs[j]]
      /\ cli'.jobs = {}
  BY DEF CancelUpdate, Write, NoCli
<1>2. \A j \in Job : /\ CancelledRow(jobs[j]).status = "cancelled"
                     /\ CancelledRow(jobs[j]).attempt = jobs[j].attempt
                     /\ CancelledRow(jobs[j]).sample = jobs[j].sample
  BY DEF CancelledRow, CoreInv, TypeOK, JobRow
<1>3. /\ StatusOf' = [j \in Job |-> IF j \in cli.jobs THEN "cancelled" ELSE StatusOf[j]]
      /\ AttemptOf' = AttemptOf
      /\ OutputOf' = OutputOf
  BY <1>1, <1>2 DEF StatusOf, AttemptOf, OutputOf
<1>4. Lifecycle!Cancel
  BY <1>1, <1>3 DEF Lifecycle!Cancel, StatusOf, AttemptOf, OutputOf
<1> QED BY <1>4 DEF Lifecycle!Next

LEMMA RefineNext ==
  ASSUME CoreInv, [Next]_vars
  PROVE  [Lifecycle!Next]_Lifecycle!lifecycleVars
<1>1. CASE RowsStay /\ UNCHANGED cli
  BY <1>1 DEF RowsStay, Lifecycle!lifecycleVars
<1>2. CASE RowStep /\ UNCHANGED cli
  BY <1>2, RefineWrite, RefineMissing, RefineMove DEF RowStep
<1>3. CASE RowsStay /\ CancelSelect
  BY <1>3, RefineCancelSelect
<1>4. CASE CancelUpdate
  BY <1>4, RefineCancelUpdate
<1> QED BY <1>1, <1>2, <1>3, <1>4, RowSteps

LEMMA RefineInit == Init => Lifecycle!Init
BY DEF Init, Lifecycle!Init, NewRow, NoCli

(* Readers of the jobs table see the simple life cycle of JobLifecycle:    *)
(* each step of the scheduler, the runners, the operator and a crash is a  *)
(* step of it or invisible.                                                *)
THEOREM DispatchImplementsLifecycle == Spec => ImplementsLifecycle
<1>1. CoreInv /\ [Next]_vars => [Lifecycle!Next]_Lifecycle!lifecycleVars
  BY RefineNext
<1> QED BY <1>1, RefineInit, CoreInvariant, PTL
  DEF Spec, ImplementsLifecycle, Lifecycle!Spec

=============================================================================
