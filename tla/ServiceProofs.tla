--------------------------- MODULE ServiceProofs ---------------------------
(***************************************************************************)
(* The service's state, its launcher and its shutdown, for any number of   *)
(* commands, requests, containers, networks and faults.                    *)
(***************************************************************************)
EXTENDS Service, TLAPS

(***************************************************************************)
(* The scheduling windows: their evaluation agrees with the schedule they  *)
(* stand for, whatever the length of a day.                                *)
(***************************************************************************)
LEMMA ParseInDay ==
  ASSUME NEW v \in 0..DayLength
  PROVE  ParseHHMM(v) \in Minute
BY DayLengthAssumption DEF ParseHHMM, Minute

LEMMA DaysFollow ==
  ASSUME NEW d \in Day
  PROVE  /\ PreviousDay(d) \in Day /\ NextDay(d) \in Day
         /\ NextDay(PreviousDay(d)) = d
         /\ PreviousDay(NextDay(d)) = d
BY DEF Day, PreviousDay, NextDay

\* A window matches exactly at the moments of its schedule, over midnight and
\* over the end of the week too.
THEOREM MatchesSchedule ==
  ASSUME NEW w \in Window, NEW t \in Moment
  PROVE  WindowMatches(w, t) <=> t \in OpenMoments(w)
<1> DEFINE s == ParseHHMM(w.start)
           e == ParseHHMM(w.end)
           days == w.days
<1>1. s \in Minute /\ e \in Minute
  BY ParseInDay DEF Window
<1>2. t.day \in Day /\ t.minute \in Minute /\ t = [day |-> t.day, minute |-> t.minute]
  BY DEF Moment
<1>3. OpenMoments(w) = {After(d, Opening(w) + k) : d \in days, k \in 0..(OpenFor(w) - 1)}
  BY DEF OpenMoments
<1>4. \A d, n : After(d, n) = IF n < DayLength THEN [day |-> d, minute |-> n]
                              ELSE [day |-> NextDay(d), minute |-> n - DayLength]
  BY DEF After
<1>5. Opening(w) = (IF s = e THEN 0 ELSE s)
      /\ OpenFor(w) = (IF e - s <= 0 THEN e - s + DayLength ELSE e - s)
  BY DEF Opening, OpenFor
<1>6. DayLength \in Nat \ {0} /\ Minute = 0..(DayLength - 1)
  BY DayLengthAssumption DEF Minute
<1>7. WindowMatches(w, t) <=>
        \/ s = e /\ t.day \in days
        \/ s < e /\ t.day \in days /\ s <= t.minute /\ t.minute < e
        \/ e < s /\ s <= t.minute /\ t.day \in days
        \/ e < s /\ t.minute < e /\ PreviousDay(t.day) \in days
  BY <1>2, DaysFollow DEF WindowMatches
<1> HIDE DEF s, e, days
<1>8. ASSUME WindowMatches(w, t) PROVE t \in OpenMoments(w)
  <2>1. CASE t.day \in days /\ (s = e \/ (s < e /\ s <= t.minute /\ t.minute < e)
                                 \/ (e < s /\ s <= t.minute))
    <3> DEFINE k == t.minute - Opening(w)
    <3>1. k \in 0..(OpenFor(w) - 1) /\ Opening(w) + k = t.minute
      BY <2>1, <1>1, <1>2, <1>5, <1>6
    <3>2. After(t.day, Opening(w) + k) = t
      BY <3>1, <1>2, <1>4, <1>6
    <3> QED BY <2>1, <3>1, <3>2, <1>3
  <2>2. CASE e < s /\ t.minute < e /\ PreviousDay(t.day) \in days
    <3> DEFINE k == t.minute + DayLength - s
    <3>1. k \in 0..(OpenFor(w) - 1) /\ Opening(w) + k = t.minute + DayLength
          /\ ~(Opening(w) + k < DayLength) /\ Opening(w) + k - DayLength = t.minute
      BY <2>2, <1>1, <1>2, <1>5, <1>6
    <3>2. After(PreviousDay(t.day), Opening(w) + k)
            = [day |-> NextDay(PreviousDay(t.day)), minute |-> t.minute]
      BY <3>1, <2>2, <1>1, <1>2, <1>5, <1>6 DEF After
    <3>3. NextDay(PreviousDay(t.day)) = t.day
      BY <1>2, DaysFollow
    <3> QED BY <2>2, <3>1, <3>2, <3>3, <1>2, <1>3
  <2> QED BY <1>8, <1>7, <2>1, <2>2
<1>9. ASSUME t \in OpenMoments(w) PROVE WindowMatches(w, t)
  <2>1. PICK d \in days, k \in 0..(OpenFor(w) - 1) : t = After(d, Opening(w) + k)
    BY <1>9, <1>3
  <2>2. d \in Day
    BY DEF days, Window
  <2>3. OpenFor(w) \in 1..DayLength /\ Opening(w) \in Minute
    BY <1>1, <1>5, <1>6
  <2>4. CASE Opening(w) + k < DayLength
    <3>1. t.day = d /\ t.minute = Opening(w) + k
      BY <2>1, <2>4, <1>4
    <3> QED BY <3>1, <1>1, <1>5, <1>6, <1>7, <2>3, <2>4
  <2>5. CASE ~(Opening(w) + k < DayLength)
    <3>1. t.day = NextDay(d) /\ t.minute = Opening(w) + k - DayLength
      BY <2>1, <2>5, <2>3, <1>6 DEF After
    <3>2. PreviousDay(t.day) = d
      BY <3>1, <2>2, DaysFollow
    <3>3. e < s /\ t.minute < e
      BY <3>1, <1>1, <1>5, <1>6, <2>3, <2>5
    <3> QED BY <3>2, <3>3, <1>7
  <2> QED BY <2>4, <2>5
<1> QED BY <1>8, <1>9

LEMMA LenientHasPriority ==
  ASSUME NEW ws \in SUBSET Window, ws # {}
  PROVE  EffectiveEndPolicy(ws) = MostLenient({w.end_policy : w \in ws})
<1> DEFINE P == {w.end_policy : w \in ws}
<1>1. P \in SUBSET EndPolicy /\ P # {}
  BY DEF Window
<1>2. /\ Priority["end_now"] = 0 /\ Priority["finish_job"] = 1 /\ Priority["finish_batch"] = 2
  BY DEF Priority, EndPolicy
<1>3. \A p \in P : p = "end_now" \/ p = "finish_job" \/ p = "finish_batch"
  BY <1>1 DEF EndPolicy
<1>4. (\A w \in ws : Priority[w.end_policy] <= Priority[MostLenient(P)]) /\ MostLenient(P) \in P
  <2>1. \A w \in ws : w.end_policy \in P
    OBVIOUS
  <2> HIDE DEF P
  <2> QED BY <1>1, <1>2, <1>3, <2>1 DEF MostLenient
<1>5. \A p \in P : (\A w \in ws : Priority[w.end_policy] <= Priority[p]) => p = MostLenient(P)
  <2>1. \A p \in P : \E w \in ws : w.end_policy = p
    OBVIOUS
  <2> HIDE DEF P
  <2> QED BY <1>2, <1>3, <1>4, <2>1
<1>6. EffectiveEndPolicy(ws) \in P
      /\ \A w \in ws : Priority[w.end_policy] <= Priority[EffectiveEndPolicy(ws)]
  BY <1>4 DEF EffectiveEndPolicy
<1> QED BY <1>5, <1>6

\* The scheduler's windows follow their schedule at every moment: active exactly
\* when a window is open, under the most lenient policy of those that are.
THEOREM WindowsAgree == WindowsFollowSchedule
<1> SUFFICES ASSUME NEW ws \in Schedule, NEW t \in Moment
             PROVE  EvaluateWindowState(ws, t) = ScheduleState(ws, t)
  BY DEF WindowsFollowSchedule
<1>1. ws \in SUBSET Window
  BY ScheduleAssumption
<1>2. \A w \in ws : WindowMatches(w, t) <=> t \in OpenMoments(w)
  BY <1>1, MatchesSchedule
<1> DEFINE open == {w \in ws : t \in OpenMoments(w)}
<1>3. {w \in ws : WindowMatches(w, t)} = open
  BY <1>2
<1>4. open # {} => EffectiveEndPolicy(open) = MostLenient({w.end_policy : w \in open})
  <2>1. open \in SUBSET Window
    BY <1>1
  <2> HIDE DEF open
  <2> QED BY <2>1, LenientHasPriority
<1>5. EvaluateWindowState(ws, t)
        = [active |-> ws = {} \/ open # {},
           end_policy |-> IF open = {} THEN NoPolicy ELSE EffectiveEndPolicy(open)]
  BY <1>3 DEF EvaluateWindowState
<1>6. ScheduleState(ws, t)
        = [active |-> ws = {} \/ open # {},
           end_policy |-> IF open = {} THEN NoPolicy
                          ELSE MostLenient({w.end_policy : w \in open})]
  BY DEF ScheduleState
<1> HIDE DEF open
<1> QED BY <1>4, <1>5, <1>6

-----------------------------------------------------------------------------

(***************************************************************************)
(* The steps, one by one.                                                  *)
(***************************************************************************)
OrchestratorCatalog ==
  \/ \E k \in Kind : Begin(Orchestrator, k) /\ UNCHANGED <<disk, samples, scanned, cmd>>
  \/ ExecuteOf(Orchestrator)
  \/ Committed(Orchestrator) /\ UNCHANGED cmd
  \/ RolledBack(Orchestrator) /\ UNCHANGED cmd
  \/ Close(Orchestrator) /\ UNCHANGED <<disk, samples, scanned, cmd>>

CommandCatalog(c) ==
  \/ StartCommand(c) \/ BeginStep(c) \/ ExecuteOf(c) \/ ReadSamples(c)
  \/ CommitStep(c) \/ FailStep(c) \/ Refuse(c)

\* The transactions the service begins are among the program's.
LEMMA Kinds ==
  /\ Kind = {"ensure_schema", "sync", "add_jobs", "update_jobs", "cancel_jobs", "claim", "result",
             "failure", "add_run", "stop_run", "stage_job", "outputs_gone"}
  /\ \A l \in DOMAIN Work : Work[l] \subseteq Kind
<1>1. Kind = {"ensure_schema", "sync", "add_jobs", "update_jobs", "cancel_jobs", "claim", "result",
             "failure", "add_run", "stop_run", "stage_job", "outputs_gone"}
  BY DEF Kind, Program
<1>2. \A l \in DOMAIN Work : Work[l] \subseteq Kind
  BY <1>1 DEF Work
<1> QED BY <1>1, <1>2

\* What a step does to the database and to the commands.
LEMMA CatalogMoves ==
  ASSUME Next
  PROVE  \/ UNCHANGED catalogVars
         \/ EditDisk
         \/ OrchestratorCatalog
         \/ \E c \in Command : CommandCatalog(c)
<1>1. CASE SchedulerStep
  <2>1. CASE BeginWork
    <3>1. PICK k \in Work[loop] : Begin(Orchestrator, k)
      BY <2>1 DEF BeginWork
    <3>2. k \in Kind
      BY <2>1, Kinds DEF BeginWork, Transacting
    <3> QED BY <2>1, <3>1, <3>2 DEF BeginWork, OrchestratorCatalog
  <2>2. CASE WorkCommits
    BY <2>2 DEF WorkCommits, OrchestratorCatalog
  <2>3. CASE WorkFails
    BY <2>3 DEF WorkFails, OrchestratorCatalog
  <2>4. CASE Check \/ Load \/ StartOperation \/ EndCleanup \/ EndReconcile \/ NothingToClaim
             \/ Launch \/ Launched \/ EndBatch \/ Raise
    BY <2>4 DEF Check, Load, StartOperation, EndCleanup, EndReconcile, NothingToClaim, Launch,
                Launched, EndBatch, Raise
  <2> QED BY <1>1, <2>1, <2>2, <2>3, <2>4 DEF SchedulerStep
<1>2. CASE OrchestratorExecutes
  BY <1>2 DEF OrchestratorExecutes, OrchestratorCatalog
<1>3. CASE MainStep
  <2>1. CASE BeginBoot
    <3>1. PICK k \in {"ensure_schema", "sync"} : Begin(Orchestrator, k)
      BY <2>1 DEF BeginBoot
    <3> QED BY <2>1, <3>1, Kinds DEF BeginBoot, OrchestratorCatalog
  <2>2. CASE BootCommits \/ BootFails \/ Disconnect
    BY <2>2 DEF BootCommits, BootFails, Disconnect, OrchestratorCatalog
  <2>3. CASE Serve \/ EndProcess
    BY <2>3 DEF Serve, EndProcess
  <2> QED BY <1>3, <2>1, <2>2, <2>3 DEF MainStep
<1>4. CASE \E q \in Request : HandlerStep(q)
  BY <1>4 DEF HandlerStep, RequestShutdown, Answer
<1>5. CASE Others
  BY <1>5 DEF Others, CatalogNext, CommandStep, CommandCatalog, EditConfig
<1> QED BY <1>1, <1>2, <1>3, <1>4, <1>5 DEF Next

(***************************************************************************)
(* The service's own variables.                                            *)
(***************************************************************************)
\* Before the service serves there is neither a scheduler nor a request.
NothingBefore ==
  main \in {"schema", "sync", "ready", "failed"}
    => loop = "off" /\ \A q \in Request : request[q] = "new"

ServiceInv == ServiceType /\ NothingBefore /\ RunningWhileOperating /\ ShutdownIsKept

USE DEF Scheduling, At, Accepted

LEMMA ServiceInit == Init => ServiceInv
  BY ServiceAssumption, FaultAssumption
     DEF Init, ServiceInv, ServiceType, NothingBefore, RunningWhileOperating, ShutdownIsKept, LoopAt,
         Operating

\* Most steps leave the service's variables alone or spend a fault.
LEMMA ServiceUnchanged ==
  ASSUME ServiceInv, UNCHANGED serviceVars, Fault \/ UNCHANGED faults
  PROVE  ServiceInv'
  BY FaultAssumption
     DEF ServiceInv, ServiceType, NothingBefore, RunningWhileOperating, ShutdownIsKept, serviceVars,
         Fault

LEMMA FaultsOnly ==
  /\ \A p \in Process : RolledBack(p) => Fault \/ UNCHANGED faults
  /\ GetEndpoint \/ LaunchStep => Fault \/ UNCHANGED faults
<1>1. \A p \in Process : RolledBack(p) => Fault \/ UNCHANGED faults
  BY DEF RolledBack
<1>2. GetEndpoint \/ LaunchStep => Fault \/ UNCHANGED faults
  BY DEF GetEndpoint, LaunchStep, Validate, EnsureImage, DiscoverHostContext, Prepare, Create, Start,
         Connect, Delete
<1> QED BY <1>1, <1>2

LEMMA ServiceScheduler ==
  ASSUME ServiceInv, SchedulerStep
  PROVE  ServiceInv'
<1> USE DEF ServiceInv, ServiceType, NothingBefore, RunningWhileOperating, ShutdownIsKept, LoopAt,
            Operating
<1>1. CASE Check
  BY <1>1 DEF Check
<1>2. CASE Load
  BY <1>2 DEF Load, FinishOperation
<1>3. CASE StartOperation
  BY <1>3 DEF StartOperation
<1>4. CASE BeginWork
  BY <1>4, ServiceUnchanged DEF BeginWork
<1>5. CASE WorkCommits
  <2>1. /\ loop \in {"reconcile", "fail_run", "clean_run", "claim", "run", "charge"}
        /\ loop' \in {"reconcile", "clean_run", "launch", "run"}
    BY <1>5 DEF WorkCommits, Transacting, Work, AfterCommit
  <2> QED BY <1>5, <2>1 DEF WorkCommits, Transacting
<1>6. CASE WorkFails
  <2>1. /\ loop \in {"reconcile", "fail_run", "clean_run", "claim", "run", "charge"}
        /\ loop' \in {"fail_run", "raise", "charge"}
    BY <1>6 DEF WorkFails, Transacting, Work, AfterFailure
  <2>2. faults' \in 0..MaxFaults
    BY <1>6, FaultsOnly, ServiceAssumption, FaultAssumption DEF WorkFails, Fault
  <2> QED BY <1>6, <2>1, <2>2 DEF WorkFails, Transacting
<1>7. CASE EndCleanup \/ EndReconcile
  BY <1>7 DEF EndCleanup, EndReconcile
<1>8. CASE NothingToClaim
  BY <1>8 DEF NothingToClaim, FinishOperation
<1>9. CASE Launch
  BY <1>9, ServiceUnchanged, FaultsOnly DEF Launch
<1>10. CASE Launched
  BY <1>10 DEF Launched
<1>11. CASE EndBatch
  BY <1>11 DEF EndBatch, FinishOperation, DropLauncher
<1>12. CASE Raise
  BY <1>12 DEF Raise, FinishOperation, DropLauncher
<1> QED
  BY <1>1, <1>2, <1>3, <1>4, <1>5, <1>6, <1>7, <1>8, <1>9, <1>10, <1>11, <1>12 DEF SchedulerStep

LEMMA ServiceMain ==
  ASSUME ServiceInv, MainStep
  PROVE  ServiceInv'
<1> USE DEF ServiceInv, ServiceType, NothingBefore, RunningWhileOperating, ShutdownIsKept, LoopAt,
            Operating
<1>1. CASE BeginBoot \/ Disconnect
  BY <1>1, ServiceUnchanged DEF BeginBoot, Disconnect
<1>2. CASE BootCommits
  BY <1>2 DEF BootCommits, Booting
<1>3. CASE BootFails
  <2>1. faults' \in 0..MaxFaults
    BY <1>3, FaultsOnly, ServiceAssumption, FaultAssumption DEF BootFails, Fault
  <2>2. attempt' \in 1..MaxAttempts
    BY <1>3, ServiceAssumption DEF BootFails
  <2> QED BY <1>3, <2>1, <2>2 DEF BootFails, Booting
<1>4. CASE Serve
  BY <1>4, ServiceAssumption DEF Serve
<1>5. CASE EndProcess
  BY <1>5 DEF EndProcess
<1> QED BY <1>1, <1>2, <1>3, <1>4, <1>5 DEF MainStep

LEMMA ServiceOthers ==
  ASSUME ServiceInv, OrchestratorExecutes \/ (\E q \in Request : HandlerStep(q)) \/ Others
  PROVE  ServiceInv'
<1> USE DEF ServiceInv, ServiceType, NothingBefore, RunningWhileOperating, ShutdownIsKept, LoopAt,
            Operating
<1>1. CASE OrchestratorExecutes
  BY <1>1, ServiceUnchanged DEF OrchestratorExecutes, ExecuteOf
<1>2. CASE \E q \in Request : HandlerStep(q)
  <2>1. PICK q \in Request : HandlerStep(q)
    BY <1>2
  <2>2. CASE RequestShutdown(q)
    BY <2>2 DEF RequestShutdown
  <2>3. CASE Answer(q)
    BY <2>3 DEF Answer
  <2> QED BY <2>1, <2>2, <2>3 DEF HandlerStep
<1>3. CASE Others
  <2>1. CASE EditConfig
    BY <2>1, FaultAssumption DEF EditConfig, Fault
  <2>2. CASE \E c \in Container : RunnerExits(c) /\ UNCHANGED <<catalogVars, serviceVars>>
    BY <2>2, ServiceUnchanged DEF RunnerExits
  <2>3. CASE CatalogNext /\ UNCHANGED <<launcherVars, serviceVars>>
    <3>1. Fault \/ UNCHANGED faults
      BY <2>3, FaultsOnly, CatalogAssumption
         DEF CatalogNext, EditDisk, CommandStep, StartCommand, BeginStep, ExecuteOf, ReadSamples,
             CommitStep, FailStep, Refuse
    <3> QED BY <2>3, <3>1, ServiceUnchanged
  <2> QED BY <1>3, <2>1, <2>2, <2>3 DEF Others
<1> QED BY <1>1, <1>2, <1>3

LEMMA ServiceStep == ServiceInv /\ [Next]_vars => ServiceInv'
<1> SUFFICES ASSUME ServiceInv, [Next]_vars PROVE ServiceInv'
  OBVIOUS
<1>1. CASE UNCHANGED vars
  BY <1>1, ServiceUnchanged DEF vars
<1> QED
  BY <1>1, ServiceScheduler, ServiceMain, ServiceOthers DEF Next

(***************************************************************************)
(* The launcher: which container it holds at every place of start_runner.  *)
(***************************************************************************)
BoxKnown ==
  /\ launch.at \in {"off", "validate", "image", "inspect", "create", "failed"}
       => launch.box = NoContainer
  /\ launch.at \in {"start", "connect", "delete", "up"} => launch.box \in Container
  /\ launch.at \in {"connect", "up"} => engine[launch.box] # "created"
  /\ loop # "launch" => launch.at \in {"off", "up", "failed"}

LauncherInv == LauncherType /\ BoxKnown /\ NoForgottenContainer

LEMMA LauncherStart == Init => LauncherInv
  BY LauncherAssumption
     DEF Init, LauncherInit, LauncherInv, LauncherType, BoxKnown, NoForgottenContainer, NoLaunch,
         LaunchAt, NoContainer

LEMMA LauncherUnchanged ==
  ASSUME LauncherInv, UNCHANGED launcherVars, loop' = "launch" \/ launch.at \in {"off", "up", "failed"}
  PROVE  LauncherInv'
  BY DEF LauncherInv, LauncherType, BoxKnown, NoForgottenContainer, launcherVars

LEMMA LauncherMoves ==
  ASSUME LauncherInv, loop = "launch", loop' = loop, GetEndpoint \/ LaunchStep
  PROVE  LauncherInv'
<1> USE DEF LauncherInv, LauncherType, BoxKnown, NoForgottenContainer, LaunchAt
<1>1. CASE GetEndpoint
  BY <1>1 DEF GetEndpoint
<1>2. CASE Validate \/ EnsureImage \/ DiscoverHostContext
  BY <1>2 DEF Validate, EnsureImage, DiscoverHostContext, Prepare
<1>3. CASE Create
  <2>1. PICK c \in Container :
          \/ /\ engine' = [engine EXCEPT ![c] = "created"]
             /\ launch' = [launch EXCEPT !.at = "start", !.box = c]
             /\ UNCHANGED excused
          \/ /\ engine' = [engine EXCEPT ![c] = "created"]
             /\ launch' = [launch EXCEPT !.at = "failed"]
             /\ excused' = excused \cup {c}
          \/ launch' = [launch EXCEPT !.at = "failed"] /\ UNCHANGED <<engine, excused>>
    BY <1>3 DEF Create
  <2>2. launch.box = NoContainer /\ NoContainer \notin Container
    BY <1>3 DEF Create, NoContainer, Container
  <2> QED BY <1>3, <2>1, <2>2 DEF Create
<1>4. CASE Start
  <2>1. launch.box \in Container /\ UNCHANGED excused
    BY <1>4 DEF Start
  <2>2. CASE /\ engine' = [engine EXCEPT ![launch.box] = "up"]
             /\ launch' = [launch EXCEPT !.at = "connect", !.networks = 1]
    <3>1. 1 \in 0..Networks
      BY LauncherAssumption
    <3> QED BY <2>1, <2>2, <3>1
  <2>3. CASE /\ engine' \in {engine, [engine EXCEPT ![launch.box] = "up"]}
             /\ launch' = [launch EXCEPT !.at = "delete"]
    BY <2>1, <2>3
  <2> QED BY <1>4, <2>2, <2>3 DEF Start, OnError
<1>5. CASE Connect
  <2>1. launch.at = "connect" /\ launch.networks \in 0..Networks /\ UNCHANGED <<engine, excused>>
    BY <1>5 DEF Connect
  <2>2. \/ launch' = [launch EXCEPT !.at = "up"]
        \/ launch.networks < Networks /\ launch' = [launch EXCEPT !.networks = @ + 1]
        \/ launch' = [launch EXCEPT !.at = "delete"]
    BY <1>5 DEF Connect, OnError
  <2>3. launch.networks < Networks => launch.networks + 1 \in 0..Networks
    BY <2>1, LauncherAssumption
  <2> QED BY <2>1, <2>2, <2>3
<1>6. CASE Delete
  <2>1. launch.box \in Container /\ launch' = [launch EXCEPT !.at = "failed", !.box = NoContainer]
    BY <1>6 DEF Delete
  <2>2. \/ engine' = [engine EXCEPT ![launch.box] = "absent"] /\ UNCHANGED excused
        \/ excused' = excused \cup {launch.box} /\ UNCHANGED engine
    BY <1>6 DEF Delete
  <2> QED BY <2>1, <2>2
<1> QED BY <1>1, <1>2, <1>3, <1>4, <1>5, <1>6 DEF LaunchStep

\* The end of a batch drops a launcher that holds no created container.
LEMMA LauncherDropped ==
  ASSUME LauncherInv, loop # "launch", DropLauncher
  PROVE  LauncherInv'
  BY LauncherAssumption
     DEF LauncherInv, LauncherType, BoxKnown, NoForgottenContainer, DropLauncher, NoLaunch, LaunchAt,
         NoContainer, Container

LEMMA LauncherStep == ServiceInv /\ LauncherInv /\ [Next]_vars => LauncherInv'
<1> SUFFICES ASSUME ServiceInv, LauncherInv, [Next]_vars PROVE LauncherInv'
  OBVIOUS
<1> DEFINE Rests == loop # "launch" => launch.at \in {"off", "up", "failed"}
<1>0. Rests
  BY DEF LauncherInv, BoxKnown
<1> HIDE DEF Rests
<1>1. CASE SchedulerStep
  <2>1. CASE Check \/ Load \/ StartOperation \/ BeginWork \/ EndCleanup \/ EndReconcile \/ NothingToClaim
    BY <1>0, <2>1, LauncherUnchanged
       DEF Rests, Check, Load, StartOperation, BeginWork, EndCleanup, EndReconcile, NothingToClaim,
           Transacting, Work
  <2>2. CASE WorkCommits \/ WorkFails
    <3>1. loop # "launch"
      BY <2>2 DEF WorkCommits, WorkFails, Transacting, Work
    <3> QED BY <1>0, <2>2, <3>1, LauncherUnchanged DEF Rests, WorkCommits, WorkFails
  <2>3. CASE Launch
    BY <2>3, LauncherMoves DEF Launch, serviceVars
  <2>4. CASE Launched
    BY <2>4, LauncherUnchanged DEF Launched
  <2>5. CASE EndBatch \/ Raise
    BY <2>5, LauncherDropped DEF EndBatch, Raise
  <2> QED BY <1>1, <2>1, <2>2, <2>3, <2>4, <2>5 DEF SchedulerStep
<1>2. CASE OrchestratorExecutes \/ \E q \in Request : HandlerStep(q)
  BY <1>0, <1>2, LauncherUnchanged
     DEF Rests, OrchestratorExecutes, HandlerStep, RequestShutdown, Answer, serviceVars
<1>5. CASE MainStep
  <2>1. CASE Serve
    <3>1. loop # "launch"
      BY <2>1 DEF Serve, ServiceInv, NothingBefore
    <3> QED BY <1>0, <2>1, <3>1, LauncherUnchanged DEF Rests, Serve
  <2>2. CASE BeginBoot \/ BootCommits \/ BootFails \/ EndProcess \/ Disconnect
    BY <1>0, <2>2, LauncherUnchanged
       DEF Rests, BeginBoot, BootCommits, BootFails, EndProcess, Disconnect, serviceVars
  <2> QED BY <1>5, <2>1, <2>2 DEF MainStep
<1>3. CASE Others
  <2>1. CASE CatalogNext /\ UNCHANGED <<launcherVars, serviceVars>>
    BY <1>0, <2>1, LauncherUnchanged DEF Rests, serviceVars
  <2>2. CASE EditConfig
    BY <1>0, <2>2, LauncherUnchanged DEF Rests, EditConfig
  <2>3. CASE \E c \in Container : RunnerExits(c) /\ UNCHANGED <<catalogVars, serviceVars>>
    <3>1. PICK c \in Container : RunnerExits(c) /\ UNCHANGED loop
      BY <2>3 DEF serviceVars
    <3> QED
      BY <3>1 DEF RunnerExits, LauncherInv, LauncherType, BoxKnown, NoForgottenContainer
  <2> QED BY <1>3, <2>1, <2>2, <2>3 DEF Others
<1>4. CASE UNCHANGED vars
  BY <1>0, <1>4, LauncherUnchanged DEF Rests, vars, serviceVars
<1> QED BY <1>1, <1>2, <1>3, <1>4, <1>5 DEF Next

(***************************************************************************)
(* The theorems.                                                           *)
(***************************************************************************)
LEMMA ServiceInvariant == Spec => [](ServiceInv /\ LauncherInv)
<1>1. Init => ServiceInv /\ LauncherInv
  BY ServiceInit, LauncherStart
<1>2. ServiceInv /\ LauncherInv /\ [Next]_vars => (ServiceInv /\ LauncherInv)'
  BY ServiceStep, LauncherStep
<1> QED BY <1>1, <1>2, PTL DEF Spec

\* The state that /status shows is running exactly while the scheduler's thread is
\* in an operation, whichever way it leaves one (start_operation, finish_operation).
THEOREM StateFollowsScheduler == Spec => []RunningWhileOperating
<1>1. ServiceInv => RunningWhileOperating
  BY DEF ServiceInv
<1> QED BY <1>1, ServiceInvariant, PTL

\* A shutdown that was accepted while the configuration could be loaded stays
\* accepted and no operation is begun after it (request_shutdown, start_operation).
THEOREM ShutdownStays == Spec => []ShutdownIsKept
<1>1. ServiceInv => ShutdownIsKept
  BY DEF ServiceInv
<1> QED BY <1>1, ServiceInvariant, PTL

\* Whichever call of start_runner fails, a container that was created and not
\* started is deleted, or is one whose creation or deletion was not answered.
THEOREM ContainersAreNotForgotten == Spec => []NoForgottenContainer
<1>1. LauncherInv => NoForgottenContainer
  BY DEF LauncherInv
<1> QED BY <1>1, ServiceInvariant, PTL

\* The scheduler claims by the weekly schedule: evaluate_window_state agrees with it
\* over midnight, over the end of the week, and for several windows at a time.
THEOREM ClaimsKeepToWindows == Spec => []ClaimsFollowSchedule
<1>1. ClaimsFollowSchedule
  BY WindowsAgree DEF ClaimsFollowSchedule
<1> QED BY <1>1, PTL
=============================================================================
