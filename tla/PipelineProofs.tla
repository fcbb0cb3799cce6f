--------------------------- MODULE PipelineProofs ---------------------------
(***************************************************************************)
(* Pipelines keeps its types, runs one script at a time, starts no stage   *)
(* before its dependencies and implements PipelineRun, for every set of    *)
(* definitions and any number of lanes, samples and faults.  The argument  *)
(* is about the snapshot of a pass: what it shows as terminal is so still, *)
(* and a row it does not show is one of the stage at hand.                 *)
(***************************************************************************)
EXTENDS Pipelines, TLAPS

Resting == {"idle", "fetch", "dispatch", "clean", "down", "boot"}
Executing == {"start", "wait", "publish", "finish"}
Working == {"lane", "insert", "next", "tidy", "check", "mark"} \cup Executing

(* The locals of a pass.                                                   *)
PassOK ==
  /\ at \in Resting => pass = NoPass
  /\ at \in Working => L \in LanesOf(S)
  /\ at \in {"tidy", "check", "mark"} => ~pass.changed
  /\ at = "insert" => /\ DependenciesReady(pass.seen, S, L)
                      /\ ~Blocked(pass.seen, S, L)
                      /\ config.form[S] = "runner"
  /\ at \in Executing => config.form[S] = "script"
  /\ at = "mark" => AllFinished(pass.seen)

SeenLate(e) ==
  /\ rows[e] = "cancelled" /\ pass.seen[e] # "skipped"
  /\ pass.seen[e] = "completed" => e \in late

(* Rows are terminal for good, but for a job that is cancelled late.       *)
SeenStays ==
  \A e \in Exec : /\ pass.seen[e] \in Terminal => rows[e] = pass.seen[e] \/ SeenLate(e)
                  /\ pass.seen[e] # "absent" => rows[e] # "absent"

(* Only the stage at hand has rows the snapshot lacks, and the pass knows. *)
SeenIsWhole ==
  at \in Working =>
    \A e \in Exec : pass.seen[e] = "absent" /\ rows[e] # "absent" =>
      e[1] = S /\ (pass.changed \/ at \in Executing)

RowsInLanes == \A e \in Exec : rows[e] # "absent" => e[2] \in LanesOf(e[1])

(* What a cancel or a claim has read is a job, written already.            *)
Readers ==
  /\ \A e \in asked : ~IsScript(e) /\ rows[e] \notin {"absent", "skipped"}
  /\ \A e \in gone : ~IsScript(e) /\ rows[e] \in {"pending", "cancelled"} /\ e \notin late
  /\ \A e \in late : ~IsScript(e) /\ rows[e] = "cancelled"
  /\ gone # {} => at = "dispatch"

Boxes ==
  /\ at \notin {"wait", "publish"} => box = "none"
  /\ at \notin {"down", "boot"} => orphans = {}

IInv == TypeOK /\ PassOK /\ Readers /\ SeenStays /\ SeenIsWhole /\ RowsInLanes /\ Boxes

-----------------------------------------------------------------------------
(* Lemmas *)

(* What load_pipeline has checked of the run's definition.                 *)
LEMMA ConfigFacts ==
  ASSUME TypeOK
  PROVE  /\ config \in DefinitionType
         /\ config.lanes \in 1 .. MaxLanes
         /\ config.order \in Seq(Stage)
         /\ S \in Stage
         /\ L \in Lane
         /\ \A s \in Stage : 0 \in LanesOf(s) /\ LanesOf(s) \subseteq Lane
         /\ \A d \in config.needs[S] : d # S
<1>1. Valid(config)
  BY PipelineAssumption DEF TypeOK
<1>2. config \in DefinitionType /\ config.lanes \in 1 .. MaxLanes /\ config.order \in Seq(Stage)
  BY <1>1 DEF Valid, DefinitionType
<1>3. pass.stage \in 1 .. Len(config.order) /\ L \in Lane
  BY DEF TypeOK, L
<1>4. S \in Stage
  BY <1>2, <1>3 DEF S
<1>5. \A s \in Stage : 0 \in LanesOf(s) /\ LanesOf(s) \subseteq Lane
  BY <1>2, PipelineAssumption DEF LanesOf, Lane
<1>6. \A d \in config.needs[S] : d # S
  <2>1. {S} \in (SUBSET Stage) \ {{}}
    BY <1>4
  <2>2. \E s \in {S} : config.needs[s] \cap {S} = {}
    BY <1>1, <2>1 DEF Valid
  <2> QED BY <2>2
<1> QED
  BY <1>2, <1>3, <1>4, <1>5, <1>6

(* The rows a stage writes in its pass are rows of its lane.               *)
LEMMA RowFacts ==
  ASSUME TypeOK
  PROVE  /\ ScriptRow \in Exec /\ SkippedRow \in Exec
         /\ ScriptRow[1] = S /\ ScriptRow[2] = L
         /\ SkippedRow[1] = S /\ SkippedRow[2] = L
         /\ \A k \in Key : /\ <<S, L, k>> \in Exec
                           /\ <<S, L, k>>[1] = S
                           /\ <<S, L, k>>[2] = L
<1>1. S \in Stage /\ L \in Lane
  BY ConfigFacts
<1> QED
  BY <1>1 DEF ScriptRow, SkippedRow, Exec, RowKey

LEMMA NoPassType ==
  ASSUME TypeOK
  PROVE  /\ NoPass \in Pass
         /\ NoPass.stage \in 1 .. Len(config.order)
         /\ NoPass.lane \in Lane
<1>1. Valid(config) /\ config.order \in Seq(Stage) /\ 0 \in Lane
  BY PipelineAssumption, ConfigFacts DEF TypeOK, Lane
<1>2. PICK s \in Stage : TRUE
  BY PipelineAssumption
<1>3. \E i \in 1 .. Len(config.order) : config.order[i] = s
  BY <1>1 DEF Valid
<1>4. Len(config.order) \in Nat
  BY <1>1
<1>5. 1 \in 1 .. Len(config.order)
  BY <1>3, <1>4
<1>6. NoPass \in Pass
  BY DEF NoPass, Pass, NoRows, Status
<1> QED
  BY <1>1, <1>5, <1>6 DEF NoPass

(* Steps that leave the thread, the run and its definition alone.          *)
Beside ==
  \/ EndScript \/ ReadCandidates \/ CancelSelect \/ CancelUpdate
  \/ \E e \in Exec : EndJob(e) \/ FailOrphan(e) \/ EndOrphan(e)

LEMMA NextCases ==
  ASSUME Next
  PROVE  \/ Poll \/ FetchRows \/ NothingToDo \/ Skip \/ RefuseEmpty \/ ResolveSources
         \/ ClaimScript \/ RefuseAmbiguous \/ StartScript \/ ReadExit \/ Publish
         \/ FinishScript \/ NextStage \/ TidyLanes \/ CheckFinished \/ MarkRun
         \/ FailRun \/ CleanFailed \/ Raise \/ LoseScript \/ Abort \/ Crash \/ Restart
         \/ RemoveOrphans \/ EndDispatch \/ CancelRun \/ CleanCancelled
         \/ RemoveContainers \/ Sync \/ Beside
         \/ \E k \in Key : InsertJob(k)
  BY Zenon DEF Next, Reconcile, Materialize, Execute, Beside

LEMMA BesideStays ==
  ASSUME Beside
  PROVE  UNCHANGED <<at, pass, run, config, cli, faults, syncs>>
  BY DEF Beside, EndScript, ReadCandidates, CancelSelect, CancelUpdate, EndJob, FailOrphan,
     EndOrphan, Recon, Outside, bounds

-----------------------------------------------------------------------------
(* Types *)

PassType == /\ pass \in Pass
            /\ pass.stage \in 1 .. Len(config.order)
            /\ pass.lane \in Lane

(* The step to the next lane, or to the end of the stage.                  *)
LEMMA NextLaneType ==
  ASSUME TypeOK, NEW p \in Pass, p.stage = pass.stage, p.lane = pass.lane,
         NextLane(p), UNCHANGED config
  PROVE  /\ at' \in {"lane", "next"}
         /\ at' = "lane" => pass'.lane \in LanesOf(S)
         /\ at' = "next" => pass'.lane = pass.lane
         /\ pass'.stage = pass.stage
         /\ pass'.seen = p.seen
         /\ pass'.changed = p.changed
         /\ PassType'
<1>1. L \in Nat /\ LanesOf(S) \subseteq Lane /\ pass.lane \in Lane
      /\ pass.stage \in 1 .. Len(config.order)
  BY ConfigFacts, PipelineAssumption DEF TypeOK, Lane
<1>2. CASE L + 1 \in LanesOf(S)
  <2>1. at' = "lane" /\ pass' = [p EXCEPT !.lane = L + 1]
    BY <1>2 DEF NextLane
  <2> QED BY <1>1, <1>2, <2>1 DEF Pass, PassType
<1>3. CASE L + 1 \notin LanesOf(S)
  <2>1. at' = "next" /\ pass' = p
    BY <1>3 DEF NextLane
  <2> QED BY <1>1, <2>1 DEF PassType
<1> QED BY <1>2, <1>3

LEMMA EndPassType ==
  ASSUME TypeOK, NEW point, EndPass(point), UNCHANGED config
  PROVE  PassType'
  BY NoPassType DEF EndPass, PassType

LEMMA StopRunType ==
  ASSUME TypeOK, NEW status, StopRun(status)
  PROVE  rows' \in [Exec -> Status]
  BY DEF StopRun, TypeOK, Status, Active, Terminal

LEMMA ResyncedType ==
  ASSUME TypeOK
  PROVE  Resynced(rows) \in [Exec -> Status]
  BY DEF Resynced, TypeOK, Status, Active

LEMMA SyncedType ==
  ASSUME TypeOK
  PROVE  Synced \in [Exec -> Status]
  BY ResyncedType DEF Synced, TypeOK

LEMMA SkippedType ==
  ASSUME TypeOK, NEW r \in [Exec -> Status]
  PROVE  InsertSkipped(r) \in [Exec -> Status]
  BY DEF InsertSkipped, Status, Terminal

LEMMA FetchedType ==
  ASSUME TypeOK
  PROVE  /\ Fetched(pass) \in Pass
         /\ Fetched(pass).stage = pass.stage
         /\ Fetched(pass).lane = pass.lane
         /\ Fetched(pass).seen = rows
         /\ Fetched(pass).changed = pass.changed
         /\ KeptNone(rows) \subseteq Exec
<1>1. KeptNone(rows) \subseteq Exec
  BY DEF KeptNone, TypeOK
<1> QED
  BY <1>1 DEF Fetched, Pass, TypeOK

LEMMA KeptType ==
  ASSUME TypeOK, NEW R, NEW Q, NEW M
  PROVE  Kept(R, Q, M) \subseteq Exec
  BY DEF Kept, TypeOK

LEMMA TypeInit == Init => TypeOK
<1> SUFFICES ASSUME Init PROVE TypeOK
  OBVIOUS
<1>1. Valid(config)
  BY PipelineAssumption DEF Init
<1>2. PICK s \in Stage : \E i \in 1 .. Len(config.order) : config.order[i] = s
  BY <1>1, PipelineAssumption DEF Valid
<1>3. Len(config.order) \in Nat
  BY <1>1 DEF Valid, DefinitionType
<1>4. 1 \in 1 .. Len(config.order) /\ 0 \in Lane
  BY <1>2, <1>3, PipelineAssumption DEF Lane
<1>5. NoPass \in Pass
  BY DEF NoPass, Pass, NoRows, Status
<1> QED
  BY <1>4, <1>5, PipelineAssumption
  DEF Init, TypeOK, NoPass, NoRows, Status, Box

LEMMA TypeStep ==
  ASSUME TypeOK, [Next]_vars
  PROVE  TypeOK'
<1>c. /\ \A e \in Exec : rows[e] \in Status
      /\ pass \in Pass
  BY DEF TypeOK
<1> USE DEF containers
<1>1. CASE Poll \/ FetchRows
  BY <1>1, FetchedType DEF Poll, FetchRows, Outside, bounds, TypeOK
<1>2. CASE NothingToDo
  <2>1. PassType' /\ at' \in {"lane", "next"}
    BY <1>2, <1>c, NextLaneType DEF NothingToDo, Outside
  <2> QED BY <1>2, <2>1 DEF NothingToDo, Outside, bounds, TypeOK, PassType
<1>3. CASE Skip
  <2>1. [pass EXCEPT !.changed = TRUE] \in Pass
    BY <1>c DEF Pass
  <2>2. PassType' /\ at' \in {"lane", "next"}
    BY <1>3, <2>1, NextLaneType DEF Skip, Outside, Pass
  <2> QED BY <1>3, <2>2, SkippedType DEF Skip, Outside, bounds, TypeOK, PassType
<1>4. CASE ResolveSources
  <2> DEFINE new == {k \in Sources(pass, S, L) : <<S, L, k>> \notin Existing}
  <2>1. Synced \in [Exec -> Status] /\ InsertSkipped(Synced) \in [Exec -> Status]
    BY SyncedType, SkippedType DEF TypeOK
  <2>2. [pass EXCEPT !.changed = TRUE] \in Pass
    BY <1>c DEF Pass
  <2>3. Sources(pass, S, L) \subseteq Key
    BY ConfigFacts DEF Sources, Samples, DefinitionType
  <2>4. [pass EXCEPT !.todo = new] \in Pass
    BY <1>c, <2>3 DEF Pass
  <2>5. PassType' /\ at' \in {"lane", "next", "insert"} /\ rows' \in [Exec -> Status]
    <3>1. CASE at' = "insert" /\ pass' = [pass EXCEPT !.todo = new] /\ rows' = Synced
      BY <1>4, <2>1, <2>4, <3>1 DEF ResolveSources, Outside, Pass, TypeOK, PassType
    <3>2. CASE rows' = InsertSkipped(Synced) /\ NextLane([pass EXCEPT !.changed = TRUE])
      <4>1. PassType' /\ at' \in {"lane", "next"}
        BY <1>4, <3>2, <2>2, NextLaneType DEF ResolveSources, Outside, Pass
      <4> QED BY <3>2, <4>1, <2>1
    <3>3. CASE rows' = Synced /\ NextLane(pass)
      <4>1. PassType' /\ at' \in {"lane", "next"}
        BY <1>4, <3>3, <1>c, NextLaneType DEF ResolveSources, Outside
      <4> QED BY <3>3, <4>1, <2>1
    <3> QED BY <1>4, <3>1, <3>2, <3>3 DEF ResolveSources
  <2> QED BY <1>4, <2>5 DEF ResolveSources, Outside, bounds, TypeOK, PassType
<1>5. CASE ClaimScript
  <2>1. rows' \in [Exec -> Status]
    BY <1>5 DEF ClaimScript, TypeOK, Status, Active
  <2>2. PassType' /\ at' \in {"lane", "next", "start"}
    <3>1. CASE UNCHANGED pass /\ at' = "start"
      BY <1>5, <3>1 DEF ClaimScript, Outside, TypeOK, PassType
    <3>2. CASE NextLane(pass)
      BY <1>5, <3>2, <1>c, NextLaneType DEF ClaimScript, Outside
    <3> QED BY <1>5, <3>1, <3>2 DEF ClaimScript
  <2> QED BY <1>5, <2>1, <2>2 DEF ClaimScript, Outside, bounds, TypeOK, PassType
<1>6. CASE RefuseAmbiguous \/ Raise \/ RefuseEmpty
  BY <1>6, SyncedType DEF RefuseAmbiguous, Raise, RefuseEmpty, Outside, bounds, TypeOK
<1>7. CASE StartScript \/ ReadExit \/ LoseScript
  <2>1. ASSUME NEW left \in SUBSET {ScriptRow}, GiveUp(left), UNCHANGED config
        PROVE  PassType' /\ at' = "finish" /\ box' \in Box /\ strays' \subseteq Exec
    BY <2>1, <1>c, RowFacts DEF GiveUp, TypeOK, PassType, Pass, Box
  <2>2. CASE StartScript
    BY <1>c, <2>1, <2>2 DEF StartScript, Outside, bounds, TypeOK, PassType, Box
  <2>3. CASE ReadExit
    BY <1>c, <2>1, <2>3 DEF ReadExit, Outside, bounds, TypeOK, PassType, Pass, Box
  <2>4. CASE LoseScript
    <3>1. PassType' /\ at' = "finish" /\ box' \in Box /\ strays' \subseteq Exec
      BY <2>1, <2>4 DEF LoseScript, Own
    <3> QED BY <2>4, <3>1, PipelineAssumption DEF LoseScript, TypeOK, PassType
  <2> QED BY <1>7, <2>2, <2>3, <2>4
<1>8. CASE Publish
  <2>1. files' \subseteq Exec
    BY <1>8, RowFacts DEF Publish, TypeOK
  <2> QED BY <1>8, <2>1, <1>c DEF Publish, Outside, bounds, TypeOK, Pass, Box
<1>9. CASE FinishScript
  <2>1. [pass EXCEPT !.changed = TRUE, !.got = "none"] \in Pass
    BY <1>c DEF Pass
  <2>2. PassType' /\ at' \in {"lane", "next"}
    BY <1>9, <2>1, NextLaneType DEF FinishScript, Outside, Pass
  <2>3. rows' \in [Exec -> Status]
    BY <1>9 DEF FinishScript, TypeOK, Status, Terminal
  <2> QED BY <1>9, <2>2, <2>3 DEF FinishScript, Outside, bounds, TypeOK, PassType
<1>10. CASE NextStage
  <2> DEFINE p == IF pass.changed THEN Fetched(pass) ELSE pass
  <2>1. p \in Pass /\ p.stage = pass.stage /\ p.lane = pass.lane
    BY <1>c, FetchedType
  <2>2. 0 \in Lane /\ 0 \in Nat /\ pass.stage \in 1 .. Len(config.order)
        /\ Len(config.order) \in Nat
    BY PipelineAssumption, ConfigFacts DEF Lane, TypeOK
  <2>3. PassType' /\ at' \in {"lane", "tidy"}
    <3>1. \/ /\ at' = "lane" /\ pass.stage < Len(config.order)
             /\ pass' = [p EXCEPT !.stage = @ + 1, !.lane = 0, !.changed = FALSE]
          \/ at' = "tidy" /\ pass' = [p EXCEPT !.lane = 0, !.changed = FALSE]
      BY <1>10 DEF NextStage
    <3>2. UNCHANGED config
      BY <1>10 DEF NextStage, Outside
    <3> HIDE DEF p
    <3>4. pass.stage + 1 \in Nat /\ p.stage + 1 = pass.stage + 1
      BY <2>1, <2>2
    <3>5. pass' \in Pass /\ pass'.stage \in {pass.stage, pass.stage + 1} /\ pass'.lane = 0
          /\ (pass'.stage = pass.stage \/ pass.stage < Len(config.order))
      <4>1. CASE at' = "tidy"
        BY <3>1, <2>1, <2>2, <4>1 DEF Pass
      <4>2. CASE at' = "lane"
        BY <3>1, <3>4, <2>1, <2>2, <4>2 DEF Pass
      <4> QED BY <3>1, <4>1, <4>2
    <3>6. pass'.stage \in 1 .. Len(config.order)
      BY <3>5, <2>2
    <3> QED BY <3>1, <3>2, <3>5, <3>6, <2>2 DEF PassType, Lane
  <2>4. files' \subseteq Exec
    BY <1>10, FetchedType DEF NextStage, TypeOK
  <2> QED BY <1>10, <2>3, <2>4 DEF NextStage, Outside, bounds, TypeOK, PassType
<1>11. CASE TidyLanes \/ CleanFailed
  BY <1>11, KeptType DEF TidyLanes, CleanFailed, Outside, bounds, TypeOK
<1>12. CASE CheckFinished
  <2>1. PassType' /\ at' \in {"mark", "dispatch"}
    <3>1. CASE UNCHANGED pass /\ at' = "mark"
      BY <1>12, <3>1 DEF CheckFinished, Outside, TypeOK, PassType
    <3>2. CASE EndPass("dispatch")
      <4>1. PassType'
        BY <1>12, <3>2, EndPassType DEF CheckFinished, Outside
      <4> QED BY <3>2, <4>1 DEF EndPass
    <3> QED BY <1>12, <3>1, <3>2 DEF CheckFinished
  <2> QED BY <1>12, <2>1, KeptType DEF CheckFinished, Outside, bounds, TypeOK, PassType
<1>13. CASE MarkRun
  <2>1. PassType'
    BY <1>13, EndPassType DEF MarkRun, Outside
  <2> QED BY <1>13, <2>1 DEF MarkRun, EndPass, Outside, bounds, TypeOK, PassType
<1>14. CASE FailRun
  <2>1. PassType' /\ at' \in {"clean", "dispatch"}
    <3>1. PassType'
      BY <1>14, EndPassType DEF FailRun, Outside
    <3> QED BY <1>14, <3>1 DEF FailRun, EndPass
  <2>2. rows' \in [Exec -> Status] /\ run' \in {"pending", "completed", "failed", "cancelled"}
    BY <1>14, StopRunType DEF FailRun, StopRun, TypeOK
  <2> QED BY <1>14, <2>1, <2>2 DEF FailRun, Outside, bounds, TypeOK, PassType
<1>15. CASE Abort \/ Crash
  <2>1. PassType'
    BY <1>15, EndPassType DEF Abort, Crash
  <2>2. Own \subseteq Exec
    BY RowFacts DEF Own
  <2> QED BY <1>15, <2>1, <2>2, PipelineAssumption
      DEF Abort, Crash, EndPass, TypeOK, PassType, Box
<1>16. CASE Restart \/ RemoveOrphans \/ EndDispatch
  BY <1>16, ResyncedType DEF Restart, RemoveOrphans, RemoveLeft, EndDispatch, Outside,
     bounds, TypeOK
<1>17. CASE CancelRun
  BY <1>17, StopRunType DEF CancelRun, StopRun, Recon, bounds, TypeOK
<1>18. CASE CleanCancelled \/ RemoveContainers \/ Sync
  BY <1>18, ResyncedType, KeptType, PipelineAssumption
  DEF CleanCancelled, RemoveContainers, RemoveLeft, Sync, Recon, bounds, TypeOK, Box
<1>19. ASSUME NEW k \in Key, InsertJob(k) PROVE TypeOK'
  <2> DEFINE rest == [pass EXCEPT !.todo = @ \ {k},
                                  !.changed = @ \/ rows[<<S, L, k>>] = "absent"]
  <2>1. rest \in Pass /\ rest.stage = pass.stage /\ rest.lane = pass.lane
    BY <1>c DEF Pass
  <2>2. rows' \in [Exec -> Status]
    BY <1>19 DEF InsertJob, TypeOK, Status, Active
  <2>3. PassType' /\ at' \in {"lane", "next", "insert"}
    <3>1. CASE NextLane(rest)
      <4>1. UNCHANGED config
        BY <1>19 DEF InsertJob, Outside
      <4> HIDE DEF rest
      <4> QED BY <3>1, <2>1, <4>1, NextLaneType
    <3>2. CASE at' = "insert" /\ pass' = rest
      BY <1>19, <3>2, <2>1 DEF InsertJob, Outside, TypeOK, PassType
    <3> QED BY <1>19, <3>1, <3>2 DEF InsertJob
  <2> QED BY <1>19, <2>2, <2>3 DEF InsertJob, Outside, bounds, TypeOK, PassType
<1>20. CASE Beside
  <2>1. CASE EndScript \/ ReadCandidates \/ CancelSelect \/ CancelUpdate
    BY <2>1, <1>c, PipelineAssumption
    DEF EndScript, ReadCandidates, CancelSelect, CancelUpdate, Recon, Outside, bounds, TypeOK,
        Status, Terminal, Box
  <2>2. ASSUME NEW e \in Exec, EndJob(e) \/ FailOrphan(e) \/ EndOrphan(e) PROVE TypeOK'
    BY <2>2 DEF EndJob, FailOrphan, EndOrphan, Recon, Outside, bounds, TypeOK, Status,
       Terminal
  <2> QED BY <1>20, <2>1, <2>2 DEF Beside
<1>21. CASE UNCHANGED vars
  BY <1>21 DEF vars, TypeOK
<1> QED
  BY <1>1, <1>2, <1>3, <1>4, <1>5, <1>6, <1>7, <1>8, <1>9, <1>10, <1>11, <1>12, <1>13,
     <1>14, <1>15, <1>16, <1>17, <1>18, <1>19, <1>20, <1>21, NextCases

(* Every reachable state has the declared types: each row a status of its  *)
(* table, the place of a pass a stage and a lane of the definition.        *)
THEOREM TypeCorrect == Spec => []TypeOK
  BY TypeInit, TypeStep, PTL DEF Spec

-----------------------------------------------------------------------------
(* What a step does to a row and to the snapshot *)

Opens(e) == /\ rows[e] = "absent" /\ rows'[e] \in Active \cup {"skipped"}
            /\ at \in {"lane", "insert"} /\ e[1] = S /\ e[2] = L
            /\ run' = run

(* A cancel writes a job that has settled since it was read.               *)
Recalls(e) == /\ e \in asked /\ run' = run
              /\ rows[e] \in {"completed", "failed"} /\ rows'[e] = "cancelled"
              /\ rows[e] = "completed" => e \in late'

(* A claim fails a job that was cancelled since it was read.               *)
Orphans(e) == /\ e \in gone /\ at = "dispatch" /\ run' = run
              /\ rows[e] = "cancelled" /\ rows'[e] = "failed"

Moves(e) == \/ rows'[e] = rows[e]
            \/ Opens(e) \/ Recalls(e) \/ Orphans(e)
            \/ rows[e] \in Active /\ rows'[e] \in Active \cup {"completed", "failed", "cancelled"}

LEMMA ResyncedMoves ==
  ASSUME TypeOK, NEW e \in Exec
  PROVE  /\ Resynced(rows)[e] = rows[e] \/ (rows[e] \in Active /\ Resynced(rows)[e] \in Active)
         /\ Resynced(rows)[e] = "absent" <=> rows[e] = "absent"
  BY DEF Resynced, Active, TypeOK

LEMMA SyncedMoves ==
  ASSUME TypeOK, NEW e \in Exec
  PROVE  /\ Synced \in [Exec -> Status]
         /\ Synced[e] = rows[e] \/ (rows[e] \in Active /\ Synced[e] \in Active)
         /\ Synced[e] = "absent" <=> rows[e] = "absent"
  BY ResyncedMoves, SyncedType DEF Synced

LEMMA SkippedMoves ==
  ASSUME TypeOK, NEW r \in [Exec -> Status], NEW e \in Exec
  PROVE  \/ InsertSkipped(r)[e] = r[e]
         \/ e = SkippedRow /\ r[e] = "absent" /\ InsertSkipped(r)[e] = "skipped"
  BY DEF InsertSkipped

LEMMA StopMoves ==
  ASSUME TypeOK, NEW status, StopRun(status), NEW e \in Exec
  PROVE  rows'[e] = rows[e] \/ (rows[e] \in Active /\ rows'[e] = "cancelled")
  BY DEF StopRun, TypeOK

LEMMA RowStep ==
  ASSUME TypeOK, Readers, [Next]_vars, NEW e \in Exec
  PROVE  Moves(e)
<1> USE DEF Moves
<1>c. rows \in [Exec -> Status]
  BY DEF TypeOK
<1>1. CASE Skip
  <2>1. rows' = InsertSkipped(rows) /\ at = "lane" /\ run' = run
    BY <1>1 DEF Skip
  <2> QED BY <1>c, <2>1, SkippedMoves, RowFacts DEF Opens
<1>2. CASE ResolveSources \/ RefuseEmpty
  <2>1. /\ rows' = Synced \/ rows' = InsertSkipped(Synced)
        /\ at = "lane" /\ run' = run
    BY <1>2 DEF ResolveSources, RefuseEmpty, Runs
  <2>2. \/ InsertSkipped(Synced)[e] = Synced[e]
        \/ e = SkippedRow /\ Synced[e] = "absent" /\ InsertSkipped(Synced)[e] = "skipped"
    BY SyncedMoves, SkippedMoves
  <2> QED BY <2>1, <2>2, SyncedMoves, RowFacts DEF Opens
<1>3. CASE ClaimScript
  BY <1>3, <1>c, RowFacts DEF ClaimScript, Runs, Opens, Active
<1>4. ASSUME NEW k \in Key, InsertJob(k) PROVE Moves(e)
  BY <1>4, <1>c, RowFacts DEF InsertJob, Opens, Active
<1>5. CASE FinishScript
  BY <1>5, <1>c, RowFacts DEF FinishScript, Active
<1>6. CASE FailRun
  BY <1>6, StopMoves DEF FailRun
<1>7. CASE CancelRun
  BY <1>7, StopMoves DEF CancelRun
<1>8. CASE Restart \/ Sync
  BY <1>8, ResyncedMoves DEF Restart, Sync
<1>9. CASE Beside
  <2>1. ASSUME NEW f \in Exec, EndJob(f) PROVE Moves(e)
    BY <2>1, <1>c DEF EndJob, Active
  <2>2. ASSUME NEW f \in Exec, FailOrphan(f) PROVE Moves(e)
    BY <2>2, <1>c DEF FailOrphan, Active, Readers, Orphans
  <2>3. CASE CancelUpdate
    BY <2>3, <1>c DEF CancelUpdate, Readers, Recalls, Active, Status, Terminal
  <2>4. ASSUME EndScript \/ ReadCandidates \/ CancelSelect \/ \E f \in Exec : EndOrphan(f)
        PROVE  rows' = rows
    BY <2>4 DEF EndScript, ReadCandidates, CancelSelect, EndOrphan
  <2> QED BY <1>9, <2>1, <2>2, <2>3, <2>4 DEF Beside
<1>10. CASE Poll \/ FetchRows \/ NothingToDo \/ RefuseAmbiguous \/ StartScript \/ ReadExit
            \/ Publish \/ NextStage \/ TidyLanes \/ CheckFinished \/ MarkRun \/ LoseScript
  BY <1>10 DEF Poll, FetchRows, NothingToDo, RefuseAmbiguous, StartScript, ReadExit,
     Publish, NextStage, TidyLanes, CheckFinished, MarkRun, LoseScript
<1>11. CASE CleanFailed \/ Raise \/ Abort \/ Crash \/ RemoveOrphans \/ EndDispatch
            \/ CleanCancelled \/ RemoveContainers
  BY <1>11 DEF CleanFailed, Raise, Abort, Crash, RemoveOrphans, EndDispatch,
     CleanCancelled, RemoveContainers
<1>12. CASE UNCHANGED vars
  BY <1>12 DEF vars
<1> QED
  BY <1>1, <1>2, <1>3, <1>4, <1>5, <1>6, <1>7, <1>8, <1>9, <1>10, <1>11, <1>12, NextCases

LEMMA ConfigStays ==
  ASSUME [Next]_vars
  PROVE  UNCHANGED config
<1>1. CASE \/ Poll \/ FetchRows \/ NothingToDo \/ Skip \/ RefuseEmpty \/ ResolveSources \/ ClaimScript
           \/ RefuseAmbiguous \/ StartScript \/ ReadExit \/ Publish \/ FinishScript
           \/ \E k \in Key : InsertJob(k)
  BY <1>1 DEF Poll, FetchRows, NothingToDo, Skip, RefuseEmpty, ResolveSources, ClaimScript,
     RefuseAmbiguous, StartScript, ReadExit, Publish, FinishScript, InsertJob, Outside
<1>2. CASE NextStage \/ TidyLanes \/ CheckFinished \/ MarkRun \/ FailRun \/ CleanFailed
           \/ Raise \/ LoseScript \/ Abort \/ Crash \/ Restart \/ RemoveOrphans
           \/ EndDispatch
  BY <1>2 DEF NextStage, TidyLanes, CheckFinished, MarkRun, FailRun, CleanFailed, Raise,
     LoseScript, Abort, Crash, Restart, RemoveOrphans, EndDispatch, Outside
<1>3. CASE \/ CancelRun \/ CleanCancelled \/ RemoveContainers \/ Sync
           \/ Beside
  BY <1>3, BesideStays DEF CancelRun, CleanCancelled, RemoveContainers, Sync
<1>4. CASE UNCHANGED vars
  BY <1>4 DEF vars
<1> QED BY <1>1, <1>2, <1>3, <1>4, NextCases

(* Only a cancel turns a completed row into a cancelled one.               *)
LEMMA LateStep ==
  ASSUME TypeOK, Readers, [Next]_vars
  PROVE  late' = late \cup {e \in Exec : rows[e] = "completed" /\ rows'[e] = "cancelled"}
<1>c. rows \in [Exec -> Status] /\ asked \subseteq Exec
  BY DEF TypeOK
<1>1. CASE CancelUpdate
  BY <1>c, <1>1 DEF CancelUpdate
<1>2. CASE UNCHANGED late
  <2>1. ASSUME NEW e \in Exec, rows[e] = "completed", rows'[e] = "cancelled"
        PROVE  e \in late
    BY <1>2, <2>1, RowStep DEF Moves, Opens, Recalls, Orphans, Active
  <2> QED BY <1>2, <2>1
<1>3. CancelUpdate \/ UNCHANGED late
  <2>1. CASE \/ Poll \/ FetchRows \/ NothingToDo \/ Skip \/ RefuseEmpty \/ ResolveSources
             \/ ClaimScript \/ RefuseAmbiguous \/ StartScript \/ ReadExit \/ Publish
             \/ FinishScript \/ \E k \in Key : InsertJob(k)
    BY <2>1 DEF Poll, FetchRows, NothingToDo, Skip, RefuseEmpty, ResolveSources, ClaimScript,
       RefuseAmbiguous, StartScript, ReadExit, Publish, FinishScript, InsertJob, Outside
  <2>2. CASE \/ NextStage \/ TidyLanes \/ CheckFinished \/ MarkRun \/ FailRun \/ CleanFailed
             \/ Raise \/ LoseScript \/ Abort \/ Crash \/ Restart \/ RemoveOrphans
             \/ EndDispatch
    BY <2>2 DEF NextStage, TidyLanes, CheckFinished, MarkRun, FailRun, CleanFailed, Raise,
       LoseScript, Abort, Crash, Restart, RemoveOrphans, EndDispatch, Outside
  <2>3. CASE \/ CancelRun \/ CleanCancelled \/ RemoveContainers \/ Sync \/ EndScript
             \/ ReadCandidates \/ CancelSelect
             \/ \E e \in Exec : EndJob(e) \/ FailOrphan(e) \/ EndOrphan(e)
             \/ UNCHANGED vars
    BY <2>3 DEF CancelRun, CleanCancelled, RemoveContainers, Sync, EndScript, ReadCandidates,
       CancelSelect, EndJob, FailOrphan, EndOrphan, Outside, vars
  <2> QED BY <2>1, <2>2, <2>3, NextCases DEF Beside
<1> QED BY <1>1, <1>2, <1>3

(* What a cancel or a claim holds it has read as pending; a claim holds it *)
(* while batches are dispatched only.                                      *)
LEMMA ReadStep ==
  ASSUME Readers, [Next]_vars
  PROVE  /\ \/ asked' \subseteq asked
            \/ /\ UNCHANGED <<rows, gone, late>>
               /\ \A e \in asked' : ~IsScript(e) /\ rows[e] = "pending"
         /\ \/ gone' \subseteq gone
            \/ /\ UNCHANGED <<rows, late>>
               /\ \A e \in gone' : ~IsScript(e) /\ rows[e] = "pending"
         /\ gone' # {} => at = "dispatch" /\ at' = "dispatch"
<1>g. gone # {} => at = "dispatch"
  BY DEF Readers
<1> USE DEF containers, Outside, Recon
<1>1. CASE \/ Poll \/ FetchRows \/ NothingToDo \/ Skip \/ RefuseEmpty \/ ResolveSources
           \/ ClaimScript \/ RefuseAmbiguous \/ StartScript \/ ReadExit \/ Publish
           \/ FinishScript \/ \E k \in Key : InsertJob(k)
  BY <1>1, <1>g DEF Poll, FetchRows, NothingToDo, Skip, RefuseEmpty, ResolveSources,
     ClaimScript, RefuseAmbiguous, StartScript, ReadExit, Publish, FinishScript, InsertJob, Runs
<1>2. CASE \/ NextStage \/ TidyLanes \/ CheckFinished \/ MarkRun \/ FailRun \/ CleanFailed
           \/ Raise \/ LoseScript \/ Abort \/ Crash \/ Restart \/ RemoveOrphans
           \/ EndDispatch
  BY <1>2, <1>g DEF NextStage, TidyLanes, CheckFinished, MarkRun, FailRun, CleanFailed,
     Raise, LoseScript, Abort, Crash, Restart, RemoveOrphans, EndDispatch, InPass
<1>3. CASE \/ CancelRun \/ CleanCancelled \/ RemoveContainers \/ Sync \/ EndScript
           \/ CancelUpdate \/ \E e \in Exec : EndJob(e) \/ FailOrphan(e) \/ EndOrphan(e)
           \/ UNCHANGED vars
  BY <1>3, <1>g DEF CancelRun, CleanCancelled, RemoveContainers, Sync, EndScript,
     CancelUpdate, EndJob, FailOrphan, EndOrphan, vars
<1>4. CASE CancelSelect
  BY <1>4, <1>g DEF CancelSelect
<1>5. CASE ReadCandidates
  BY <1>5 DEF ReadCandidates
<1> QED BY <1>1, <1>2, <1>3, <1>4, <1>5, NextCases DEF Beside

(* A job that a claim holds is not dispatched.                             *)
LEMMA GoneStep ==
  ASSUME TypeOK, Readers, [Next]_vars, NEW e \in gone, e \in gone'
  PROVE  rows'[e] \in {rows[e], "cancelled"}
<1>c. rows \in [Exec -> Status] /\ e \in Exec /\ rows[e] \in {"pending", "cancelled"}
      /\ at = "dispatch" /\ ~IsScript(e)
  BY DEF TypeOK, Readers
<1>1. ~(\/ Poll \/ FetchRows \/ NothingToDo \/ Skip \/ RefuseEmpty \/ ResolveSources
        \/ ClaimScript \/ RefuseAmbiguous \/ StartScript \/ ReadExit \/ Publish
        \/ FinishScript \/ \E k \in Key : InsertJob(k))
  BY <1>c DEF Poll, FetchRows, NothingToDo, Skip, RefuseEmpty, ResolveSources, ClaimScript,
     RefuseAmbiguous, StartScript, ReadExit, Publish, FinishScript, InsertJob, Runs
<1>2. CASE \/ NextStage \/ TidyLanes \/ CheckFinished \/ MarkRun \/ FailRun \/ CleanFailed
           \/ Raise \/ LoseScript \/ Abort \/ Crash \/ Restart \/ RemoveOrphans
           \/ EndDispatch
  BY <1>2, <1>c DEF NextStage, TidyLanes, CheckFinished, MarkRun, FailRun, CleanFailed,
     Raise, LoseScript, Abort, Crash, Restart, RemoveOrphans, EndDispatch, InPass
<1>3. CASE CancelRun
  BY <1>3, <1>c, StopMoves DEF CancelRun
<1>4. CASE Sync
  BY <1>4, <1>c DEF Sync, Resynced
<1>5. CASE CleanCancelled \/ RemoveContainers \/ UNCHANGED vars
  BY <1>5 DEF CleanCancelled, RemoveContainers, vars
<1>6. CASE Beside
  <2>1. ASSUME NEW f \in Exec, EndJob(f) \/ FailOrphan(f) PROVE rows'[e] = rows[e]
    BY <2>1, <1>c DEF EndJob, FailOrphan
  <2>2. CASE CancelUpdate
    BY <2>2, <1>c DEF CancelUpdate
  <2>3. ASSUME EndScript \/ ReadCandidates \/ CancelSelect \/ \E f \in Exec : EndOrphan(f)
        PROVE  rows' = rows
    BY <2>3 DEF EndScript, ReadCandidates, CancelSelect, EndOrphan
  <2> QED BY <1>6, <2>1, <2>2, <2>3 DEF Beside
<1> QED BY <1>1, <1>2, <1>3, <1>4, <1>5, <1>6, NextCases

LEMMA ReadersStep ==
  ASSUME TypeOK, Readers, [Next]_vars
  PROVE  Readers'
<1>c. /\ UNCHANGED config /\ \A e : IsScript(e)' = IsScript(e)
      /\ asked \subseteq Exec /\ gone \subseteq Exec /\ late \subseteq Exec
  BY ConfigStays DEF IsScript, TypeOK
<1>t. asked' \subseteq Exec /\ gone' \subseteq Exec /\ late' \subseteq Exec
  BY TypeStep DEF TypeOK
<1>1. ASSUME NEW e \in Exec, rows[e] \notin {"absent", "skipped"}
      PROVE  rows'[e] \notin {"absent", "skipped"}
  BY <1>1, RowStep DEF Moves, Opens, Recalls, Orphans, Active
<1>2. ASSUME NEW e \in asked' PROVE ~IsScript(e) /\ rows'[e] \notin {"absent", "skipped"}
  BY <1>1, <1>2, <1>t, ReadStep DEF Readers
<1>3. ASSUME NEW e \in late' PROVE ~IsScript(e) /\ rows'[e] = "cancelled"
  <2>1. CASE e \in late
    <3>1. rows[e] = "cancelled" /\ e \notin gone
      BY <2>1 DEF Readers
    <3> QED BY <1>c, <2>1, <3>1, RowStep DEF Moves, Opens, Recalls, Orphans, Active, Readers
  <2>2. CASE e \notin late
    <3>1. e \in Exec /\ rows[e] = "completed" /\ rows'[e] = "cancelled"
      BY <1>3, <2>2, LateStep
    <3> QED BY <3>1, RowStep DEF Moves, Opens, Recalls, Orphans, Active, Readers
  <2> QED BY <2>1, <2>2
<1>4. ASSUME NEW e \in gone'
      PROVE  ~IsScript(e) /\ rows'[e] \in {"pending", "cancelled"} /\ e \notin late'
  <2>1. CASE e \in gone
    <3>1. rows[e] \in {"pending", "cancelled"} /\ e \notin late /\ ~IsScript(e)
      BY <2>1 DEF Readers
    <3> QED BY <1>4, <2>1, <3>1, GoneStep, LateStep
  <2>2. CASE e \notin gone
    <3>1. UNCHANGED <<rows, late>> /\ ~IsScript(e) /\ rows[e] = "pending"
      BY <1>4, <2>2, ReadStep
    <3> QED BY <3>1 DEF Readers
  <2> QED BY <2>1, <2>2
<1>5. gone' # {} => at' = "dispatch"
  BY ReadStep
<1> QED BY <1>c, <1>2, <1>3, <1>4, <1>5 DEF Readers

(* A pass goes on with its snapshot, takes a new one, or ends.             *)
LEMMA SeenStep ==
  ASSUME TypeOK, [Next]_vars
  PROVE  \/ pass'.seen = pass.seen
         \/ pass'.seen = NoRows
         \/ pass'.seen = rows /\ rows' = rows
<1>c. pass \in Pass
  BY DEF TypeOK
<1>1. CASE Poll \/ RefuseAmbiguous \/ Raise \/ TidyLanes \/ CleanFailed \/ Restart
           \/ RemoveOrphans \/ EndDispatch \/ RefuseEmpty
  BY <1>1 DEF Poll, RefuseAmbiguous, Raise, TidyLanes, CleanFailed, Restart,
     RemoveOrphans, EndDispatch, RefuseEmpty
<1>2. CASE \/ CancelRun \/ CleanCancelled \/ RemoveContainers \/ Sync
           \/ Beside
  BY <1>2, BesideStays DEF CancelRun, CleanCancelled, RemoveContainers, Sync, Recon
<1>3. CASE FetchRows
  BY <1>3, FetchedType DEF FetchRows
<1>4. CASE NextStage
  BY <1>4, <1>c, FetchedType DEF NextStage, Pass
<1>5. CASE StartScript \/ ReadExit \/ LoseScript \/ Publish
  BY <1>5, <1>c DEF StartScript, ReadExit, LoseScript, GiveUp, Publish, Pass
<1>6. CASE CheckFinished \/ MarkRun \/ FailRun \/ Abort \/ Crash
  BY <1>6 DEF CheckFinished, MarkRun, FailRun, Abort, Crash, EndPass, NoPass
<1>7. CASE NothingToDo \/ Skip \/ ResolveSources \/ ClaimScript \/ FinishScript
  BY <1>7, <1>c DEF NothingToDo, Skip, ResolveSources, ClaimScript, FinishScript, NextLane,
     Pass
<1>8. ASSUME NEW k \in Key, InsertJob(k) PROVE pass'.seen = pass.seen
  BY <1>8, <1>c DEF InsertJob, NextLane, Pass
<1>9. CASE UNCHANGED vars
  BY <1>9 DEF vars
<1> QED
  BY <1>1, <1>2, <1>3, <1>4, <1>5, <1>6, <1>7, <1>8, <1>9, NextCases

LEMMA SeenStaysStep ==
  ASSUME TypeOK, PassOK, Readers, SeenStays, [Next]_vars
  PROVE  SeenStays'
<1> SUFFICES ASSUME NEW e \in Exec
             PROVE  /\ pass'.seen[e] \in Terminal => rows'[e] = pass'.seen[e] \/ SeenLate(e)'
                    /\ pass'.seen[e] # "absent" => rows'[e] # "absent"
  BY DEF SeenStays
<1>1. Moves(e)
  BY RowStep
<1>2. CASE pass'.seen = pass.seen
  <2>1. e \in late => e \in late'
    BY LateStep
  <2>2. CASE Orphans(e)
    <3>1. pass.seen[e] = "absent"
      BY <2>2 DEF Orphans, PassOK, Resting, NoPass, NoRows
    <3> QED BY <1>2, <3>1 DEF Terminal
  <2>3. CASE rows'[e] = rows[e]
    BY <1>2, <2>1, <2>3 DEF SeenStays, SeenLate
  <2>4. CASE Opens(e) \/ Recalls(e)
             \/ (rows[e] \in Active /\ rows'[e] \in Active \cup {"completed", "failed", "cancelled"})
    BY <1>2, <2>4 DEF SeenStays, SeenLate, Opens, Recalls, Terminal, Active
  <2> QED BY <1>1, <2>2, <2>3, <2>4 DEF Moves
<1>3. CASE pass'.seen = NoRows
  BY <1>3 DEF NoRows, Terminal
<1>4. CASE pass'.seen = rows /\ rows' = rows
  BY <1>4
<1> QED BY <1>2, <1>3, <1>4, SeenStep

LEMMA RowsInLanesStep ==
  ASSUME TypeOK, PassOK, Readers, RowsInLanes, [Next]_vars
  PROVE  RowsInLanes'
<1>1. UNCHANGED config
  BY ConfigStays
<1> SUFFICES ASSUME NEW e \in Exec, rows'[e] # "absent" PROVE e[2] \in LanesOf(e[1])
  BY <1>1 DEF RowsInLanes, LanesOf
<1>2. Moves(e)
  BY RowStep
<1> QED
  BY <1>2 DEF Moves, Opens, Recalls, Orphans, RowsInLanes, PassOK, Working, Active

LEMMA PassStep ==
  ASSUME TypeOK, PassOK, [Next]_vars
  PROVE  PassOK'
<1>c. pass \in Pass /\ UNCHANGED config
  BY ConfigStays DEF TypeOK
<1>w. at \in Working => L \in LanesOf(S)
  BY DEF PassOK
<1> USE DEF Resting, Executing, Working
<1>1. CASE Poll
  BY <1>1 DEF Poll, PassOK
<1>2. CASE FetchRows
  <2>1. pass = NoPass /\ at' = "lane" /\ pass' = Fetched(pass)
    BY <1>2 DEF FetchRows, PassOK
  <2>2. S' \in Stage /\ L' = 0
    BY <1>c, <2>1, ConfigFacts, FetchedType DEF S, L, NoPass
  <2> QED BY <1>c, <2>1, <2>2, ConfigFacts DEF PassOK, LanesOf
<1>3. ASSUME NEW p \in Pass, p.stage = pass.stage, p.lane = pass.lane, NextLane(p),
             at \in Working
      PROVE  PassOK'
  <2>1. at' \in {"lane", "next"} /\ pass'.stage = pass.stage /\ pass'.lane \in LanesOf(S)
    BY <1>c, <1>w, <1>3, NextLaneType DEF L
  <2>2. S' = S /\ L' \in LanesOf(S)
    BY <1>c, <2>1 DEF S, L
  <2> QED BY <1>c, <2>1, <2>2 DEF PassOK, LanesOf
<1>4. CASE NothingToDo \/ Skip \/ FinishScript
  <2>1. \/ NextLane(pass) \/ NextLane([pass EXCEPT !.changed = TRUE])
        \/ NextLane([pass EXCEPT !.changed = TRUE, !.got = "none"])
    BY <1>4 DEF NothingToDo, Skip, FinishScript
  <2>2. at \in Working
    BY <1>4 DEF NothingToDo, Skip, FinishScript
  <2> QED BY <1>3, <1>c, <2>1, <2>2 DEF Pass
<1>5. CASE ResolveSources
  <2> DEFINE new == {k \in Sources(pass, S, L) : <<S, L, k>> \notin Existing}
  <2>1. CASE at' = "insert" /\ pass' = [pass EXCEPT !.todo = new]
    <3>1. S' = S /\ L' = L /\ pass'.seen = pass.seen
      BY <1>c, <2>1 DEF S, L, Pass
    <3> QED BY <1>5, <1>c, <1>w, <2>1, <3>1
        DEF ResolveSources, Runs, PassOK, DependenciesReady, Blocked, Finished, RowsOf,
        DependencyLanes, LanesOf
  <2>2. CASE NextLane(pass) \/ NextLane([pass EXCEPT !.changed = TRUE])
    BY <1>3, <1>5, <1>c, <2>2 DEF ResolveSources, Runs, Pass
  <2> QED BY <1>5, <2>1, <2>2 DEF ResolveSources
<1>6. ASSUME NEW k \in Key, InsertJob(k) PROVE PassOK'
  <2> DEFINE rest == [pass EXCEPT !.todo = @ \ {k},
                                  !.changed = @ \/ rows[<<S, L, k>>] = "absent"]
  <2>1. rest \in Pass /\ rest.stage = pass.stage /\ rest.lane = pass.lane
        /\ rest.seen = pass.seen
    BY <1>c DEF Pass
  <2>2. at = "insert" /\ (NextLane(rest) \/ (at' = "insert" /\ pass' = rest))
    BY <1>6 DEF InsertJob
  <2> HIDE DEF rest
  <2>3. CASE at' = "insert" /\ pass' = rest
    <3>1. S' = S /\ L' = L /\ pass'.seen = pass.seen
      BY <1>c, <2>1, <2>3 DEF S, L
    <3> QED BY <1>c, <1>w, <2>2, <2>3, <3>1
        DEF PassOK, DependenciesReady, Blocked, Finished, RowsOf, DependencyLanes, LanesOf
  <2> QED BY <1>3, <2>1, <2>2, <2>3
<1>7. CASE ClaimScript
  <2>1. CASE at' = "start" /\ UNCHANGED pass
    BY <1>c, <1>w, <1>7, <2>1 DEF ClaimScript, Runs, PassOK, S, L, LanesOf
  <2> QED BY <1>3, <1>7, <1>c, <2>1 DEF ClaimScript, Runs
<1>8. CASE StartScript \/ ReadExit \/ LoseScript \/ Publish
  <2>1. at \in Executing /\ at' \in Executing /\ S' = S /\ L' = L
    BY <1>8, <1>c DEF StartScript, ReadExit, LoseScript, GiveUp, Publish, S, L, Pass
  <2> QED BY <1>c, <1>w, <2>1 DEF PassOK, LanesOf
<1>9. CASE NextStage
  <2>1. /\ at' = "lane" \/ (at' = "tidy" /\ pass'.stage = pass.stage /\ ~pass'.changed)
        /\ pass'.lane = 0
    BY <1>9, <1>c, FetchedType DEF NextStage, Pass
  <2>2. TypeOK'
    BY TypeStep
  <2>3. S' \in Stage /\ L' = 0
    <3>1. config.order \in Seq(Stage) /\ pass'.stage \in 1 .. Len(config.order)
      BY <1>c, <2>2, ConfigFacts DEF TypeOK
    <3> QED BY <1>c, <2>1, <3>1 DEF S, L
  <2> QED BY <1>c, <2>1, <2>3, ConfigFacts DEF PassOK, LanesOf
<1>10. CASE TidyLanes
  BY <1>10, <1>c, <1>w DEF TidyLanes, PassOK, S, L, LanesOf
<1>11. CASE CheckFinished
  <2>1. CASE at' = "mark" /\ UNCHANGED pass /\ AllFinished(pass.seen)
    BY <1>11, <1>c, <1>w, <2>1
    DEF CheckFinished, PassOK, S, L, LanesOf, AllFinished, Finished, RowsOf
  <2>2. CASE EndPass("dispatch")
    BY <2>2 DEF EndPass, PassOK, NoPass
  <2> QED BY <1>11, <2>1, <2>2 DEF CheckFinished
<1>12. CASE MarkRun \/ FailRun \/ Abort \/ Crash
  BY <1>12 DEF MarkRun, FailRun, Abort, Crash, EndPass, PassOK, NoPass
<1>13. CASE RefuseAmbiguous \/ RefuseEmpty \/ Raise
  BY <1>13 DEF RefuseAmbiguous, RefuseEmpty, Raise, PassOK
<1>14. CASE CleanFailed \/ Restart \/ RemoveOrphans \/ EndDispatch
  BY <1>14 DEF CleanFailed, Restart, RemoveOrphans, EndDispatch, PassOK
<1>15. CASE UNCHANGED <<at, pass>>
  BY <1>15, <1>c DEF PassOK, S, L, LanesOf, DependenciesReady, Blocked, Finished, RowsOf,
     DependencyLanes, AllFinished
<1>16. CASE \/ CancelRun \/ CleanCancelled \/ RemoveContainers \/ Sync
            \/ Beside
            \/ UNCHANGED vars
  BY <1>16, <1>15, BesideStays
  DEF CancelRun, CleanCancelled, RemoveContainers, Sync, Recon, vars
<1> QED
  BY <1>1, <1>2, <1>4, <1>5, <1>6, <1>7, <1>8, <1>9, <1>10, <1>11, <1>12, <1>13, <1>14,
     <1>16, NextCases

(* The pass knows that rows its snapshot lacks were written: a stage that  *)
(* opened one is followed by a new snapshot.                               *)
LEMMA SeenIsWholeStep ==
  ASSUME TypeOK, PassOK, Readers, SeenIsWhole, [Next]_vars
  PROVE  SeenIsWhole'
<1>c. pass \in Pass /\ UNCHANGED config
  BY ConfigStays DEF TypeOK
<1> USE DEF Resting, Executing, Working
<1>1. SUFFICES ASSUME at' \in Working, NEW e \in Exec,
                      pass'.seen[e] = "absent", rows'[e] # "absent"
               PROVE  e[1] = S' /\ (pass'.changed \/ at' \in Executing)
  BY DEF SeenIsWhole
<1>2. Moves(e)
  BY RowStep
<1>3. CASE FetchRows
  BY <1>1, <1>3, FetchedType DEF FetchRows
<1>4. CASE NextStage
  <2>1. rows' = rows /\ at = "next"
    BY <1>4 DEF NextStage
  <2>2. CASE pass.changed
    BY <1>1, <1>4, <1>c, <2>1, <2>2, FetchedType DEF NextStage, Pass
  <2>3. CASE ~pass.changed
    <3>1. pass'.seen = pass.seen
      BY <1>4, <1>c, <2>3 DEF NextStage, Pass
    <3> QED BY <1>1, <2>1, <2>3, <3>1 DEF SeenIsWhole
  <2> QED BY <2>2, <2>3
<1>5. ASSUME at \in Working, pass'.stage = pass.stage, pass'.seen = pass.seen,
             pass.changed => pass'.changed,
             at \in Executing => pass'.changed \/ at' \in Executing,
             Opens(e) => pass'.changed \/ at' \in Executing
      PROVE  e[1] = S' /\ (pass'.changed \/ at' \in Executing)
  <2>1. S' = S
    BY <1>c, <1>5 DEF S
  <2>2. CASE rows[e] = "absent"
    BY <1>1, <1>2, <1>5, <2>1, <2>2 DEF Moves, Opens, Recalls, Orphans, Active
  <2>3. CASE rows[e] # "absent"
    BY <1>1, <1>5, <2>1, <2>3 DEF SeenIsWhole
  <2> QED BY <2>2, <2>3
<1>6. ASSUME NEW p \in Pass, p.stage = pass.stage, p.lane = pass.lane, p.seen = pass.seen,
             NextLane(p), at \in Working, pass.changed => p.changed,
             at \in Executing => p.changed, Opens(e) => p.changed
      PROVE  e[1] = S' /\ (pass'.changed \/ at' \in Executing)
  BY <1>5, <1>6, <1>c, NextLaneType
<1>7. CASE NothingToDo
  BY <1>6, <1>7, <1>c DEF NothingToDo, Opens, Active
<1>8. CASE Skip \/ FinishScript
  <2>1. \/ NextLane([pass EXCEPT !.changed = TRUE])
        \/ NextLane([pass EXCEPT !.changed = TRUE, !.got = "none"])
    BY <1>8 DEF Skip, FinishScript
  <2>2. at \in Working
    BY <1>8 DEF Skip, FinishScript
  <2> QED BY <1>6, <1>c, <2>1, <2>2 DEF Pass
<1>9. CASE ResolveSources
  <2> DEFINE new == {k \in Sources(pass, S, L) : <<S, L, k>> \notin Existing}
  <2>0. at = "lane"
    BY <1>9 DEF ResolveSources, Runs
  <2>1. CASE at' = "insert" /\ pass' = [pass EXCEPT !.todo = new] /\ rows' = Synced
    BY <1>5, <1>c, <2>0, <2>1, SyncedMoves DEF Opens, Pass, Active
  <2>2. CASE NextLane([pass EXCEPT !.changed = TRUE])
    BY <1>6, <1>c, <2>0, <2>2 DEF Pass
  <2>3. CASE NextLane(pass) /\ rows' = Synced
    BY <1>6, <1>c, <2>0, <2>3, SyncedMoves DEF Opens, Active
  <2> QED BY <1>9, <2>1, <2>2, <2>3 DEF ResolveSources
<1>10. ASSUME NEW k \in Key, InsertJob(k)
       PROVE  e[1] = S' /\ (pass'.changed \/ at' \in Executing)
  <2> DEFINE rest == [pass EXCEPT !.todo = @ \ {k},
                                  !.changed = @ \/ rows[<<S, L, k>>] = "absent"]
  <2>1. rest \in Pass /\ rest.stage = pass.stage /\ rest.lane = pass.lane
        /\ rest.seen = pass.seen
        /\ rest.changed = (pass.changed \/ rows[<<S, L, k>>] = "absent")
    BY <1>c DEF Pass
  <2>2. at = "insert" /\ (NextLane(rest) \/ (at' = "insert" /\ pass' = rest))
    BY <1>10 DEF InsertJob
  <2>3. Opens(e) => rest.changed
    BY <1>10, <2>1, RowFacts DEF InsertJob, Opens, Active, TypeOK
  <2> HIDE DEF rest
  <2> QED BY <1>5, <1>6, <2>1, <2>2, <2>3
<1>11. CASE ClaimScript
  <2>0. at = "lane"
    BY <1>11 DEF ClaimScript, Runs
  <2>1. CASE at' = "start" /\ UNCHANGED pass
    BY <1>5, <2>0, <2>1
  <2>2. CASE NextLane(pass) /\ UNCHANGED rows
    BY <1>6, <1>c, <2>0, <2>2 DEF Opens, Active
  <2> QED BY <1>11, <2>1, <2>2 DEF ClaimScript
<1>12. CASE StartScript \/ ReadExit \/ LoseScript \/ Publish
  <2>1. at \in Executing /\ at' \in Executing /\ pass'.stage = pass.stage
        /\ pass'.seen = pass.seen /\ pass'.changed = pass.changed
    BY <1>12, <1>c DEF StartScript, ReadExit, LoseScript, GiveUp, Publish, Pass
  <2> QED BY <1>5, <2>1
<1>13. CASE TidyLanes \/ CheckFinished
  BY <1>1, <1>5, <1>13 DEF TidyLanes, CheckFinished, EndPass, Opens
<1>14. CASE \/ Poll \/ MarkRun \/ FailRun \/ Abort \/ Crash \/ RefuseAmbiguous \/ Raise
            \/ CleanFailed \/ Restart \/ RemoveOrphans \/ EndDispatch \/ RefuseEmpty
  BY <1>1, <1>14 DEF Poll, MarkRun, FailRun, Abort, Crash, RefuseAmbiguous, Raise,
     CleanFailed, Restart, RemoveOrphans, EndDispatch, RefuseEmpty, EndPass
<1>15. ASSUME UNCHANGED <<at, pass>>, ~Opens(e)
       PROVE  e[1] = S' /\ (pass'.changed \/ at' \in Executing)
  BY <1>1, <1>5, <1>15
<1>16. CASE CancelRun
  BY <1>15, <1>16, StopMoves DEF CancelRun, Recon, Opens, Active
<1>17. CASE Sync
  BY <1>15, <1>17, ResyncedMoves DEF Sync, Recon, Opens, Active
<1>18. CASE CleanCancelled \/ RemoveContainers
  BY <1>15, <1>18 DEF CleanCancelled, RemoveContainers, Recon, Opens, Active
<1>18b. CASE Beside
  <2>1. UNCHANGED <<at, pass>>
    BY <1>18b, BesideStays
  <2>2. ~Opens(e)
    <3>1. CASE \E f \in Exec : EndJob(f) \/ FailOrphan(f)
      BY <3>1 DEF EndJob, FailOrphan, Opens, Active, TypeOK
    <3>2. CASE CancelUpdate
      BY <3>2 DEF CancelUpdate, Opens, Active
    <3>3. ASSUME EndScript \/ ReadCandidates \/ CancelSelect \/ \E f \in Exec : EndOrphan(f)
          PROVE  rows' = rows
      BY <3>3 DEF EndScript, ReadCandidates, CancelSelect, EndOrphan
    <3> QED BY <1>18b, <3>1, <3>2, <3>3 DEF Beside, Opens, Active
  <2> QED BY <1>15, <2>1, <2>2
<1>19. CASE UNCHANGED vars
  BY <1>15, <1>19 DEF vars, Opens, Active
<1> QED
  BY <1>3, <1>4, <1>7, <1>8, <1>9, <1>10, <1>11, <1>12, <1>13, <1>14, <1>16, <1>17, <1>18,
     <1>18b, <1>19, NextCases

(* A container is started when there is none, and is there until it is     *)
(* deleted, given up or left behind by a crash.                            *)
LEMMA BoxesStep ==
  ASSUME TypeOK, PassOK, Boxes, [Next]_vars
  PROVE  Boxes'
<1> USE DEF Boxes, containers
<1>1. CASE StartScript \/ ReadExit \/ LoseScript \/ Publish
  BY <1>1 DEF StartScript, ReadExit, LoseScript, GiveUp, Publish
<1>2. CASE RemoveOrphans \/ RemoveContainers
  BY <1>2 DEF RemoveOrphans, RemoveContainers, RemoveLeft, Recon
<1>3. CASE EndScript \/ \E e \in Exec : EndOrphan(e)
  BY <1>3 DEF EndScript, EndOrphan, Recon
<1>4. CASE Restart \/ Crash
  BY <1>4 DEF Restart, Crash, EndPass
<1>5. CASE \/ CancelRun \/ CleanCancelled \/ Sync \/ ReadCandidates \/ CancelSelect
           \/ CancelUpdate \/ \E e \in Exec : EndJob(e) \/ FailOrphan(e)
           \/ UNCHANGED vars
  BY <1>5 DEF CancelRun, CleanCancelled, Sync, ReadCandidates, CancelSelect, CancelUpdate,
     EndJob, FailOrphan, Recon, vars
<1>6. ASSUME at \notin {"wait", "publish", "down", "boot"},
             at' \notin {"wait", "publish", "down", "boot"},
             UNCHANGED <<box, orphans>>
      PROVE  Boxes'
  BY <1>6
<1>7. CASE NothingToDo \/ Skip \/ FinishScript
  BY <1>6, <1>7 DEF NothingToDo, Skip, FinishScript, NextLane
<1>8. CASE RefuseEmpty \/ ResolveSources \/ ClaimScript \/ \E k \in Key : InsertJob(k)
  BY <1>6, <1>8 DEF RefuseEmpty, ResolveSources, ClaimScript, Runs, InsertJob, NextLane
<1>9. CASE Poll \/ FetchRows \/ NextStage \/ TidyLanes \/ RefuseAmbiguous
  BY <1>6, <1>9 DEF Poll, FetchRows, NextStage, TidyLanes, RefuseAmbiguous
<1>10. CASE CheckFinished \/ MarkRun \/ FailRun \/ CleanFailed \/ EndDispatch \/ Raise
            \/ Abort
  BY <1>6, <1>10 DEF CheckFinished, MarkRun, FailRun, CleanFailed, EndDispatch, Raise,
     Abort, EndPass, InPass
<1> QED
  BY <1>1, <1>2, <1>3, <1>4, <1>5, <1>7, <1>8, <1>9, <1>10, NextCases DEF Beside

LEMMA InvInit == Init => IInv
<1> SUFFICES ASSUME Init PROVE IInv
  OBVIOUS
<1>1. TypeOK
  BY TypeInit
<1>2. PassOK /\ SeenStays /\ SeenIsWhole
  BY DEF Init, PassOK, SeenStays, SeenIsWhole, Working, Executing, NoPass, NoRows, Terminal
<1>3. RowsInLanes /\ Boxes /\ Readers
  BY DEF Init, RowsInLanes, Boxes, NoRows, Readers
<1> QED BY <1>1, <1>2, <1>3 DEF IInv

LEMMA InvStep == IInv /\ [Next]_vars => IInv'
  BY TypeStep, PassStep, ReadersStep, SeenStaysStep, SeenIsWholeStep, RowsInLanesStep, BoxesStep
  DEF IInv

LEMMA Invariant == Spec => []IInv
  BY InvInit, InvStep, PTL DEF Spec

-----------------------------------------------------------------------------
(* What follows *)

(* A script begins beside no container of its run but one that the engine  *)
(* has failed to remove: the one before it was deleted or given up, and    *)
(* those of an earlier service were asked to go before the first pass.     *)
THEOREM OneScript == Spec => []OneContainer
<1>1. IInv => OneContainer
  BY DEF IInv, Boxes, OneContainer
<1> QED BY <1>1, Invariant, PTL

(* Another stage's rows, finished in the snapshot, are what they were, or  *)
(* were cancelled late.                                                    *)
LEMMA FinishedStays ==
  ASSUME IInv, NEW d \in Stage, NEW lanes \in SUBSET Lane,
         at \in Working,
         d # S \/ (~pass.changed /\ at \notin Executing),
         Finished(pass.seen, d, lanes)
  PROVE  /\ Finished(rows, d, lanes)
         /\ RowsOf(rows, d, lanes) = RowsOf(pass.seen, d, lanes)
         /\ \A e \in RowsOf(rows, d, lanes) : rows[e] = pass.seen[e] \/ SeenLate(e)
<1>1. \A e \in {d} \X lanes \X RowKey : e \in Exec /\ e[1] = d
  BY DEF Exec
<1>2. \A e \in {d} \X lanes \X RowKey : rows[e] # "absent" <=> pass.seen[e] # "absent"
  BY <1>1 DEF IInv, SeenIsWhole, SeenStays
<1>3. RowsOf(rows, d, lanes) = RowsOf(pass.seen, d, lanes)
  BY <1>2 DEF RowsOf
<1>4. \A e \in RowsOf(pass.seen, d, lanes) :
        pass.seen[e] \in Terminal /\ (rows[e] = pass.seen[e] \/ SeenLate(e))
  BY <1>1 DEF Finished, RowsOf, IInv, SeenStays
<1> QED BY <1>3, <1>4 DEF Finished, SeenLate, Terminal

(* Only a script's claim and a job's insert begin, after the same check.   *)
LEMMA BeginStep ==
  ASSUME IInv, [Next]_vars, NEW e \in Exec, Begins(e)
  PROVE  /\ at \in {"lane", "insert"} /\ e[1] = S /\ e[2] = L
         /\ DependenciesReady(pass.seen, S, L)
         /\ ~Blocked(pass.seen, S, L)
<1>1. Opens(e)
  BY RowStep DEF IInv, Moves, Begins, Recalls, Orphans, Active
<1>2. CASE at = "insert"
  BY <1>1, <1>2 DEF Opens, IInv, PassOK
<1>3. CASE at = "lane"
  <2>1. CASE ClaimScript
    BY <1>1, <2>1 DEF Opens, ClaimScript, Runs
  <2>2. CASE Skip
    <3>1. rows'[e] \in {rows[e], "skipped"}
      BY <2>2, SkippedMoves DEF Skip, IInv, TypeOK
    <3> QED BY <3>1 DEF Begins, Active
  <2>3. CASE ResolveSources \/ RefuseEmpty
    <3>1. rows' = Synced \/ rows' = InsertSkipped(Synced)
      BY <2>3 DEF ResolveSources, RefuseEmpty
    <3>2. rows'[e] \in {Synced[e], "skipped"}
      BY <3>1, SyncedMoves, SkippedMoves DEF IInv
    <3> QED BY <3>2, SyncedMoves DEF Begins, Active, IInv
  <2>4. CASE Restart \/ Sync \/ CancelRun
    BY <2>4, ResyncedMoves, StopMoves DEF Restart, Sync, CancelRun, Begins, Active, IInv
  <2>5. CASE CancelUpdate \/ \E f \in Exec : EndJob(f) \/ FailOrphan(f)
    BY <2>5 DEF CancelUpdate, EndJob, FailOrphan, Begins, Active, IInv, TypeOK
  <2>6. CASE rows' = rows
    BY <2>6 DEF Begins, Active
  <2>7. \/ rows' = rows \/ ClaimScript \/ Skip \/ ResolveSources \/ RefuseEmpty
        \/ Restart \/ Sync \/ CancelRun
        \/ CancelUpdate \/ \E f \in Exec : EndJob(f) \/ FailOrphan(f)
    <3>1. CASE \/ Poll \/ FetchRows \/ NothingToDo \/ RefuseAmbiguous \/ StartScript
               \/ ReadExit \/ Publish \/ FinishScript \/ NextStage \/ TidyLanes
               \/ CheckFinished \/ MarkRun \/ FailRun \/ \E k \in Key : InsertJob(k)
      BY <1>3, <3>1 DEF Poll, FetchRows, NothingToDo, RefuseAmbiguous, StartScript,
         ReadExit, Publish, FinishScript, NextStage, TidyLanes, CheckFinished, MarkRun,
         FailRun, InsertJob
    <3>2. CASE \/ CleanFailed \/ Raise \/ LoseScript \/ Abort \/ Crash \/ RemoveOrphans
               \/ EndDispatch \/ CleanCancelled \/ RemoveContainers \/ EndScript
               \/ ReadCandidates \/ CancelSelect \/ \E f \in Exec : EndOrphan(f)
               \/ UNCHANGED vars
      BY <3>2 DEF CleanFailed, Raise, LoseScript, Abort, Crash, RemoveOrphans, EndDispatch,
         CleanCancelled, RemoveContainers, EndScript, ReadCandidates, CancelSelect,
         EndOrphan, vars
    <3> QED BY <3>1, <3>2, NextCases DEF Beside
  <2> QED BY <2>1, <2>2, <2>3, <2>4, <2>5, <2>6, <2>7
<1> QED BY <1>1, <1>2, <1>3 DEF Opens

(* Jobs and scripts begin after their dependencies: what a pass checked in *)
(* its snapshot is so in the tables when it writes, but for a job that was *)
(* cancelled after it had completed.                                       *)
THEOREM StartsInOrder == Spec => StartsAfterDependencies
<1>1. ASSUME IInv, [Next]_vars, NEW e \in Exec, Begins(e), NEW d \in config.needs[e[1]]
      PROVE  LET lanes == DependencyLanes(e[1], d, e[2]) IN
             /\ Finished(rows, d, lanes)
             /\ config.if[e[1]] = "success()" =>
                  \A f \in RowsOf(rows, d, lanes) : rows[f] = "completed" \/ f \in late
  <2>1. /\ at \in {"lane", "insert"} /\ e[1] = S /\ e[2] = L
        /\ DependenciesReady(pass.seen, S, L)
        /\ ~Blocked(pass.seen, S, L)
    BY <1>1, BeginStep
  <2> DEFINE lanes == DependencyLanes(e[1], d, e[2])
  <2>2. d \in Stage /\ d # S /\ L \in Lane /\ S \in Stage /\ 0 \in Lane
    BY <1>1, <2>1, ConfigFacts, PipelineAssumption DEF IInv, DefinitionType, Lane
  <2>3. lanes \in SUBSET Lane
    BY <2>1, <2>2 DEF DependencyLanes
  <2>4. Finished(pass.seen, d, lanes)
    BY <1>1, <2>1 DEF DependenciesReady
  <2>5. /\ Finished(rows, d, lanes)
        /\ RowsOf(rows, d, lanes) = RowsOf(pass.seen, d, lanes)
        /\ \A f \in RowsOf(rows, d, lanes) : rows[f] = pass.seen[f] \/ SeenLate(f)
    BY <1>1, <2>1, <2>2, <2>3, <2>4, FinishedStays DEF Working
  <2>6. config.if[S] = "success()" =>
          \A f \in RowsOf(pass.seen, d, lanes) : pass.seen[f] = "completed"
    BY <1>1, <2>1 DEF Blocked
  <2> HIDE DEF lanes
  <2>7. /\ Finished(rows, d, lanes)
        /\ config.if[e[1]] = "success()" =>
             \A f \in RowsOf(rows, d, lanes) : rows[f] = "completed" \/ f \in late
    BY <2>1, <2>5, <2>6 DEF SeenLate
  <2> QED BY <2>7 DEF lanes
<1>2. ASSUME IInv, [Next]_vars
      PROVE  [\A e \in Exec : Begins(e) =>
                \A d \in config.needs[e[1]] :
                  LET lanes == DependencyLanes(e[1], d, e[2]) IN
                  /\ Finished(rows, d, lanes)
                  /\ config.if[e[1]] = "success()" =>
                       \A f \in RowsOf(rows, d, lanes) : rows[f] = "completed" \/ f \in late]_vars
  BY <1>1, <1>2
<1> QED BY <1>2, Invariant, PTL DEF Spec, StartsAfterDependencies

(* What the snapshot says when the run is marked is so in the tables, but  *)
(* for jobs that were cancelled late.                                      *)
LEMMA MarkFacts ==
  ASSUME IInv, at = "mark"
  PROVE  /\ AllFinished(rows)
         /\ \A e \in Exec : /\ rows[e] = pass.seen[e] \/ (SeenLate(e) /\ pass.seen[e] # "absent")
                            /\ rows[e] \notin Active /\ pass.seen[e] \notin Active
<1>1. AllFinished(pass.seen) /\ ~pass.changed
  BY DEF IInv, PassOK
<1>2. \A s \in Stage : LanesOf(s) \subseteq Lane
  BY ConfigFacts DEF IInv
<1>3. ASSUME NEW s \in Stage, NEW l \in LanesOf(s)
      PROVE  Finished(rows, s, {l})
  <2>1. Finished(pass.seen, s, {l}) /\ {l} \in SUBSET Lane
    BY <1>1, <1>2, <1>3 DEF AllFinished
  <2> QED BY <1>1, <2>1, FinishedStays DEF Working, Executing
<1>4. ASSUME NEW e \in Exec
      PROVE  /\ rows[e] = pass.seen[e] \/ (SeenLate(e) /\ pass.seen[e] # "absent")
             /\ rows[e] \notin Active /\ pass.seen[e] \notin Active
  <2>1. CASE rows[e] = "absent"
    BY <2>1 DEF IInv, SeenStays, Active
  <2>2. CASE rows[e] # "absent"
    <3>1. e[1] \in Stage /\ e[2] \in LanesOf(e[1])
      BY <2>2 DEF IInv, RowsInLanes, Exec
    <3>2. pass.seen[e] # "absent"
      BY <1>1, <2>2 DEF IInv, SeenIsWhole, Working, Executing
    <3>3. e \in RowsOf(pass.seen, e[1], {e[2]})
      BY <3>2 DEF RowsOf, Exec
    <3>4. pass.seen[e] \in Terminal
      BY <1>1, <3>1, <3>3 DEF AllFinished, Finished
    <3> QED BY <3>2, <3>4 DEF IInv, SeenStays, SeenLate, Terminal, Active
  <2> QED BY <2>1, <2>2
<1> QED BY <1>3, <1>4 DEF AllFinished

LEMMA RunStep ==
  ASSUME [Next]_vars
  PROVE  \/ run' = run
         \/ run = "pending" /\ (StopRun("failed") \/ StopRun("cancelled"))
         \/ MarkRun
<1>1. CASE \/ Poll \/ FetchRows \/ NothingToDo \/ Skip \/ RefuseEmpty \/ ResolveSources \/ ClaimScript
           \/ RefuseAmbiguous \/ StartScript \/ ReadExit \/ Publish \/ FinishScript
           \/ \E k \in Key : InsertJob(k)
  BY <1>1 DEF Poll, FetchRows, NothingToDo, Skip, RefuseEmpty, ResolveSources, ClaimScript,
     RefuseAmbiguous, StartScript, ReadExit, Publish, FinishScript, InsertJob
<1>2. CASE NextStage \/ TidyLanes \/ CheckFinished \/ MarkRun \/ FailRun \/ CleanFailed
           \/ Raise \/ LoseScript \/ Abort \/ Crash \/ Restart \/ RemoveOrphans
           \/ EndDispatch
  BY <1>2 DEF NextStage, TidyLanes, CheckFinished, FailRun, CleanFailed, Raise,
     LoseScript, Abort, Crash, Restart, RemoveOrphans, EndDispatch
<1>3. CASE \/ CancelRun \/ CleanCancelled \/ RemoveContainers \/ Sync
           \/ Beside
  BY <1>3, BesideStays DEF CancelRun, CleanCancelled, RemoveContainers, Sync
<1>4. CASE UNCHANGED vars
  BY <1>4 DEF vars
<1> QED BY <1>1, <1>2, <1>3, <1>4, NextCases

(* The rows a cancel or a claim has read, as PipelineRun sees them.        *)
LEMMA PromiseReads ==
  ASSUME IInv, TypeOK', [Next]_vars
  PROVE  /\ OpenRows' \in [Exec -> Promise!Row]
         /\ (asked \cup gone)' \subseteq Exec
         /\ \A e \in (asked \cup gone)' \ (asked \cup gone) : OpenRows[e] = "open"
         /\ late' = late \cup {e \in Exec : OpenRows[e] = "completed" /\ OpenRows'[e] = "cancelled"}
<1>1. OpenRows' \in [Exec -> Promise!Row] /\ (asked \cup gone)' \subseteq Exec
  BY DEF TypeOK, OpenRows, Status, Active, Terminal, Promise!Row, Promise!Settled
<1>2. ASSUME NEW e \in (asked \cup gone)' \ (asked \cup gone)
      PROVE  OpenRows[e] = "open"
  <2>1. rows[e] = "pending" /\ e \in Exec
    BY <1>1, <1>2, ReadStep DEF IInv
  <2> QED BY <2>1 DEF OpenRows, Active
<1>3. \A e \in Exec : /\ (OpenRows[e] = "completed") <=> (rows[e] = "completed")
                      /\ (OpenRows'[e] = "cancelled") <=> (rows'[e] = "cancelled")
  BY DEF OpenRows, Active
<1>4. late' = late \cup {e \in Exec : OpenRows[e] = "completed" /\ OpenRows'[e] = "cancelled"}
  <2>1. late' = late \cup {e \in Exec : rows[e] = "completed" /\ rows'[e] = "cancelled"}
    BY LateStep DEF IInv
  <2>2. {e \in Exec : rows[e] = "completed" /\ rows'[e] = "cancelled"}
          = {e \in Exec : OpenRows[e] = "completed" /\ OpenRows'[e] = "cancelled"}
    <3>1. ASSUME NEW e \in Exec
          PROVE  (rows[e] = "completed" /\ rows'[e] = "cancelled") <=>
                     (OpenRows[e] = "completed" /\ OpenRows'[e] = "cancelled")
      BY <1>3
    <3> QED BY <3>1, Zenon
  <2> QED BY <2>1, <2>2
<1> QED BY <1>1, <1>2, <1>4

LEMMA PromiseStep ==
  ASSUME IInv, TypeOK', [Next]_vars
  PROVE  [Promise!Next]_(Promise!vars)
<1>1. ASSUME Promise!Write \/ Promise!Stop \/ Promise!End
      PROVE  Promise!Next
  BY <1>1, PromiseReads DEF Promise!Next
<1>2. CASE run' = run
  <2>1. ASSUME NEW e \in Exec
        PROVE  \/ OpenRows'[e] = OpenRows[e]
               \/ Promise!Opens(e) \/ Promise!Settles(e) \/ Promise!Overwrites(e)
    <3>1. Moves(e)
      BY RowStep DEF IInv
    <3> QED BY <3>1 DEF Moves, Opens, Recalls, Orphans, OpenRows, Active, Promise!Opens,
            Promise!Settles, Promise!Overwrites
  <2> QED BY <1>1, <1>2, <2>1 DEF Promise!Write
<1>3. CASE run = "pending" /\ (StopRun("failed") \/ StopRun("cancelled"))
  <2>1. \A e \in Exec : OpenRows'[e] = IF OpenRows[e] = "open" THEN "cancelled"
                                       ELSE OpenRows[e]
    BY <1>3 DEF StopRun, OpenRows, Active, IInv, TypeOK, Status, Terminal
  <2> QED BY <1>1, <1>3, <2>1 DEF StopRun, Promise!Stop
<1>4. CASE MarkRun
  <2>1. at = "mark" /\ UNCHANGED rows
    BY <1>4 DEF MarkRun
  <2>2. CASE run # "pending"
    BY <1>2, <1>4, <2>2 DEF MarkRun
  <2>3. CASE run = "pending"
    <3>1. \A e \in Exec : /\ OpenRows'[e] = OpenRows[e] /\ OpenRows[e] # "open"
                          /\ OpenRows[e] = rows[e]
                          /\ rows[e] = pass.seen[e] \/ (SeenLate(e) /\ pass.seen[e] # "absent")
                          /\ pass.seen[e] \in Status \ Active
      BY <2>1, MarkFacts DEF OpenRows, Active, IInv, TypeOK, Status, Terminal, Pass
    <3>2. CASE \E e \in Exec : pass.seen[e] \in {"failed", "cancelled"}
      <4>1. run' = "failed"
        BY <1>4, <2>3, <3>2 DEF MarkRun
      <4>2. PICK e \in Exec : pass.seen[e] \in {"failed", "cancelled"}
        BY <3>2
      <4>3. OpenRows[e] \in {"failed", "cancelled"}
        BY <3>1, <4>2 DEF SeenLate
      <4> QED BY <1>1, <2>3, <3>1, <4>1, <4>3 DEF Promise!End
    <3>3. CASE ~\E e \in Exec : pass.seen[e] \in {"failed", "cancelled"}
      <4>1. run' = "completed"
        BY <1>4, <2>3, <3>3 DEF MarkRun
      <4>2. ASSUME NEW e \in Exec
            PROVE  OpenRows[e] \in {"absent", "completed", "skipped"} \/ e \in late
        BY <3>1, <3>3 DEF SeenLate, Status, Active, Terminal
      <4> QED BY <1>1, <2>3, <3>1, <4>1, <4>2 DEF Promise!End
    <3> QED BY <3>2, <3>3
  <2> QED BY <2>2, <2>3
<1> QED BY <1>2, <1>3, <1>4, RunStep

(* The passes, errors, restarts and commands together keep the promise of  *)
(* the two tables.                                                         *)
THEOREM TablesKeepPromise == Spec => KeepsPromise
<1>1. Init => Promise!Init
  BY DEF Init, NoRows, OpenRows, Active, Promise!Init
<1>2. IInv /\ TypeOK' /\ [Next]_vars => [Promise!Next]_(Promise!vars)
  BY PromiseStep
<1> QED BY <1>1, <1>2, Invariant, TypeCorrect, PTL DEF Spec, KeepsPromise, Promise!Spec

-----------------------------------------------------------------------------
(* A completed run *)

KeepOnly == \A e \in files : Retention(e[1]) = "keep"

WellDone(e) == rows[e] \in {"absent", "completed", "skipped"} \/ e \in late

(* Nothing is left to run, and the thread does not look at the run again.  *)
Whole ==
  /\ at = "mark" => KeepOnly
  /\ run = "completed" => /\ at \in {"idle", "dispatch", "down", "boot"}
                          /\ AllFinished(rows)
                          /\ \A e \in Exec : WellDone(e)
                          /\ KeepOnly

LEMMA CleanedKeepsOnly ==
  ASSUME TypeOK, NEW e \in Kept(Transient, Stage, Lane)
  PROVE  e \in files /\ Retention(e[1]) = "keep"
<1>1. e \in files /\ e[1] \in Stage /\ e[2] \in Lane /\ Retention(e[1]) \notin Transient
  BY DEF Kept, TypeOK, Exec
<1>2. Retention(e[1]) \in {"keep", "pipeline", "matrix", "none"}
  BY <1>1, ConfigFacts DEF Retention, DefinitionType
<1> QED BY <1>1, <1>2 DEF Transient

(* What can happen to a run that has completed.                            *)
LEMMA CompletedStep ==
  ASSUME IInv, Whole, run = "completed", [Next]_vars
  PROVE  /\ run' = "completed"
         /\ \A e \in Exec : /\ rows'[e] = "absent" <=> rows[e] = "absent"
                            /\ rows[e] \in Terminal => rows'[e] \in Terminal
                            /\ rows'[e] \in {"absent", "completed", "skipped"} \/ e \in late'
         /\ at' \in {"idle", "dispatch", "down", "boot"}
         /\ files' \subseteq files
<1>1. ASSUME NEW e \in Exec
      PROVE  /\ rows'[e] = "absent" <=> rows[e] = "absent"
             /\ rows[e] \in Terminal => rows'[e] \in Terminal
             /\ rows'[e] \in {"absent", "completed", "skipped"} \/ e \in late'
  <2>1. /\ Moves(e) /\ WellDone(e) /\ at \notin {"lane", "insert"} /\ ~Orphans(e)
        /\ e \in late => e \in late' /\ rows[e] = "cancelled"
    BY RowStep, LateStep DEF IInv, Whole, WellDone, Orphans, Readers
  <2> QED BY <2>1 DEF WellDone, Moves, Opens, Recalls, Active, Terminal
<1>2. run' = "completed"
  BY RunStep DEF MarkRun
<1>3. CASE Poll \/ Restart \/ RemoveOrphans \/ EndDispatch \/ Crash
  BY <1>1, <1>2, <1>3 DEF Poll, Restart, RemoveOrphans, EndDispatch, Crash, EndPass, Whole
<1>4. CASE CancelRun \/ CleanCancelled \/ RemoveContainers \/ Sync \/ UNCHANGED vars
  BY <1>1, <1>2, <1>4 DEF CancelRun, CleanCancelled, RemoveContainers, Sync, Recon, Kept,
     Whole, vars
<1>5. CASE Beside
  <2>1. ~\E e \in Exec : EndJob(e)
    BY DEF EndJob, Whole, WellDone, Readers, IInv
  <2>2. files' = files
    BY <1>5, <2>1 DEF Beside, EndScript, ReadCandidates, CancelSelect, CancelUpdate,
       FailOrphan, EndOrphan
  <2> QED BY <1>1, <1>2, <1>5, <2>2, BesideStays DEF Whole
<1>6. ~(\/ FetchRows \/ NothingToDo \/ Skip \/ RefuseEmpty \/ ResolveSources \/ ClaimScript
        \/ RefuseAmbiguous \/ StartScript \/ ReadExit \/ LoseScript \/ Publish \/ FinishScript
        \/ \E k \in Key : InsertJob(k))
  BY DEF FetchRows, NothingToDo, Skip, RefuseEmpty, ResolveSources, ClaimScript,
     RefuseAmbiguous, StartScript, ReadExit, LoseScript, Publish, FinishScript, InsertJob,
     Runs, Whole
<1>7. ~(\/ NextStage \/ TidyLanes \/ CheckFinished \/ MarkRun \/ FailRun
        \/ CleanFailed \/ Raise \/ Abort)
  BY DEF NextStage, TidyLanes, CheckFinished, MarkRun, FailRun, CleanFailed, Raise, Abort,
     InPass, Whole
<1> QED BY <1>1, <1>2, <1>3, <1>4, <1>5, <1>6, <1>7, NextCases DEF Whole

LEMMA MarkStep ==
  ASSUME [Next]_vars, at' = "mark"
  PROVE  CheckFinished \/ (at = "mark" /\ files' \subseteq files)
<1>1. CASE \/ NothingToDo \/ Skip \/ ResolveSources \/ ClaimScript \/ FinishScript
           \/ \E k \in Key : InsertJob(k)
  BY <1>1 DEF NothingToDo, Skip, ResolveSources, ClaimScript, FinishScript, InsertJob,
     NextLane
<1>2. CASE \/ Poll \/ FetchRows \/ RefuseAmbiguous \/ StartScript \/ ReadExit \/ Publish
           \/ NextStage \/ TidyLanes \/ RefuseEmpty \/ LoseScript
  BY <1>2 DEF Poll, FetchRows, RefuseAmbiguous, StartScript, ReadExit, Publish, NextStage,
     TidyLanes, RefuseEmpty, LoseScript, GiveUp
<1>3. CASE \/ MarkRun \/ FailRun \/ CleanFailed \/ Raise \/ Abort \/ Crash \/ Restart
           \/ RemoveOrphans \/ EndDispatch
  BY <1>3 DEF MarkRun, FailRun, CleanFailed, Raise, Abort, Crash, Restart, RemoveOrphans,
     EndDispatch, EndPass
<1>4. CASE \/ CancelRun \/ CleanCancelled \/ RemoveContainers \/ Sync
           \/ Beside
           \/ UNCHANGED vars
  <2>1. CASE Beside
    <3>1. at = "mark"
      BY <2>1, BesideStays
    <3>2. files' = files
      BY <2>1, <3>1 DEF Beside, EndScript, ReadCandidates, CancelSelect, CancelUpdate,
         EndJob, FailOrphan, EndOrphan
    <3> QED BY <3>1, <3>2
  <2> QED BY <1>4, <2>1 DEF CancelRun, CleanCancelled, RemoveContainers, Sync, Recon, Kept, vars
<1> QED BY <1>1, <1>2, <1>3, <1>4, NextCases

LEMMA WholeStep ==
  ASSUME IInv, TypeOK', Whole, [Next]_vars
  PROVE  Whole'
<1>1. \A e \in Exec : Retention(e[1])' = Retention(e[1])
  BY ConfigStays DEF Retention
<1>2. AllFinished(rows)' <=> \A s \in Stage : \A l \in LanesOf(s) : Finished(rows', s, {l})
  BY ConfigStays DEF AllFinished, LanesOf, Finished, RowsOf
<1>3. ASSUME files' \subseteq files, KeepOnly PROVE KeepOnly'
  BY <1>1, <1>3 DEF KeepOnly, IInv, TypeOK
<1>4. CASE run = "completed"
  <2>1. AllFinished(rows)'
    <3>1. ASSUME NEW s \in Stage, NEW l \in LanesOf(s)
          PROVE  Finished(rows', s, {l})
      <4>1. Finished(rows, s, {l}) /\ {s} \X {l} \X RowKey \subseteq Exec
        BY <1>4, <3>1, ConfigFacts DEF Whole, AllFinished, IInv, Exec
      <4>2. \A e \in {s} \X {l} \X RowKey :
              /\ rows'[e] = "absent" <=> rows[e] = "absent"
              /\ rows[e] \in Terminal => rows'[e] \in Terminal
        BY <1>4, <4>1, CompletedStep
      <4>3. RowsOf(rows', s, {l}) = RowsOf(rows, s, {l})
        BY <4>2 DEF RowsOf
      <4> QED BY <4>1, <4>2, <4>3 DEF Finished, RowsOf
    <3> QED BY <1>2, <3>1
  <2>2. /\ run' = "completed" /\ \A e \in Exec : rows'[e] \in {"absent", "completed", "skipped"} \/ e \in late'
        /\ at' \in {"idle", "dispatch", "down", "boot"} /\ files' \subseteq files
    BY <1>4, CompletedStep
  <2>3. KeepOnly'
    BY <1>3, <1>4, <2>2 DEF Whole
  <2> QED BY <2>1, <2>2, <2>3 DEF Whole, WellDone
<1>5. CASE run # "completed" /\ run' = "completed"
  <2>1. /\ MarkRun /\ at = "mark" /\ at' = "dispatch"
        /\ run = "pending" /\ UNCHANGED <<rows, files>>
        /\ \A e \in Exec : pass.seen[e] \notin {"failed", "cancelled"}
    BY <1>5, RunStep DEF StopRun, MarkRun, EndPass
  <2>2. AllFinished(rows)
    BY <2>1, MarkFacts
  <2>3. \A e \in Exec : WellDone(e)'
    <3>1. ASSUME NEW e \in Exec
          PROVE  rows[e] \in {"absent", "completed", "skipped"} \/ e \in late
      BY <2>1, MarkFacts DEF IInv, TypeOK, Pass, Status, Active, Terminal, SeenLate
    <3> QED BY <2>1, <3>1, LateStep DEF WellDone, IInv
  <2> QED BY <1>2, <1>3, <2>1, <2>2, <2>3 DEF Whole, AllFinished
<1>6. CASE run' # "completed"
  <2>1. CASE at' # "mark"
    BY <1>6, <2>1 DEF Whole
  <2>2. CASE at' = "mark"
    <3>1. CASE at = "mark"
      <4>1. files' \subseteq files
        BY <2>2, <3>1, MarkStep DEF CheckFinished
      <4> QED BY <1>3, <1>6, <3>1, <4>1 DEF Whole
    <3>2. CASE at # "mark"
      <4>1. files' = Kept(Transient, Stage, Lane)
        BY <2>2, <3>2, MarkStep DEF CheckFinished, EndPass
      <4> QED BY <1>1, <1>6, <4>1, CleanedKeepsOnly DEF Whole, KeepOnly, IInv, TypeOK
    <3> QED BY <3>1, <3>2
  <2> QED BY <2>1, <2>2
<1> QED BY <1>4, <1>5, <1>6

LEMMA WholeInvariant == Spec => []Whole
<1>1. Init => Whole
  BY DEF Init, Whole
<1>2. IInv /\ TypeOK' /\ Whole /\ [Next]_vars => Whole'
  BY WholeStep
<1> QED BY <1>1, <1>2, Invariant, TypeCorrect, PTL DEF Spec

(* A completed run has done every stage in every lane and keeps only what  *)
(* its definition keeps; a row in it that is neither completed nor skipped *)
(* is of a job that was cancelled after it had completed.                  *)
THEOREM CompletedRunIsWhole == Spec => []CompletedIsWhole
<1>1. ASSUME TypeOK, Whole, run = "completed"
      PROVE  CompletedIsWhole
  <2>1. ASSUME NEW s \in Stage, NEW l \in LanesOf(s)
        PROVE  /\ RowsOf(rows, s, {l}) # {}
               /\ \A e \in RowsOf(rows, s, {l}) :
                    rows[e] \in {"completed", "skipped"} \/ e \in late
    <3>1. Finished(rows, s, {l}) /\ {l} \subseteq Lane
      BY <1>1, <2>1, ConfigFacts DEF Whole, AllFinished
    <3>2. \A e \in RowsOf(rows, s, {l}) : e \in Exec /\ rows[e] \in Terminal
      BY <3>1 DEF Finished, RowsOf, Exec
    <3> QED BY <1>1, <3>1, <3>2 DEF Finished, Whole, WellDone, Terminal
  <2> QED BY <1>1, <2>1 DEF Whole, KeepOnly, CompletedIsWhole
<1>2. TypeOK /\ Whole => CompletedIsWhole
  BY <1>1 DEF CompletedIsWhole
<1> QED BY <1>2, WholeInvariant, TypeCorrect, PTL

-----------------------------------------------------------------------------
(* A script is claimed once while there is no error, no crash and no       *)
(* command of a user that syncs the reference state: its row is pending    *)
(* only when one of them has reset it, and is running only while the pass  *)
(* executes it, or fails, or once the run has been stopped.                *)

Claimed ==
  faults = 0 /\ syncs = 0 =>
    \A e \in Exec : IsScript(e) =>
      /\ rows[e] # "pending"
      /\ rows[e] = "running" => \/ at \in Executing /\ e = ScriptRow
                                \/ at = "fail"
                                \/ at \in {"idle", "dispatch"} /\ run # "pending"

LEMMA BoundsStay ==
  ASSUME [Next]_vars
  PROVE  LoseScript \/ Abort \/ Crash \/ Sync \/ UNCHANGED <<faults, syncs>>
<1>1. CASE \/ Poll \/ FetchRows \/ NothingToDo \/ Skip \/ RefuseEmpty \/ ResolveSources \/ ClaimScript
           \/ RefuseAmbiguous \/ StartScript \/ ReadExit \/ Publish \/ FinishScript
           \/ \E k \in Key : InsertJob(k)
  BY <1>1 DEF Poll, FetchRows, NothingToDo, Skip, RefuseEmpty, ResolveSources, ClaimScript,
     RefuseAmbiguous, StartScript, ReadExit, Publish, FinishScript, InsertJob, Outside,
     bounds
<1>2. CASE NextStage \/ TidyLanes \/ CheckFinished \/ MarkRun \/ FailRun \/ CleanFailed
           \/ Raise \/ Restart \/ RemoveOrphans \/ EndDispatch
  BY <1>2 DEF NextStage, TidyLanes, CheckFinished, MarkRun, FailRun, CleanFailed, Raise,
     Restart, RemoveOrphans, EndDispatch, Outside, bounds
<1>3. CASE \/ CancelRun \/ CleanCancelled \/ RemoveContainers
           \/ Beside
  BY <1>3, BesideStays DEF CancelRun, CleanCancelled, RemoveContainers, bounds
<1>4. CASE UNCHANGED vars
  BY <1>4 DEF vars
<1> QED BY <1>1, <1>2, <1>3, <1>4, NextCases

LEMMA ClaimedStep ==
  ASSUME IInv, Claimed, [Next]_vars
  PROVE  Claimed'
<1> DEFINE Stopped == at \in {"idle", "dispatch"} /\ run # "pending"
<1> SUFFICES ASSUME faults' = 0, syncs' = 0, NEW e \in Exec, IsScript(e)
             PROVE  /\ rows'[e] # "pending"
                    /\ rows'[e] = "running" => \/ at' \in Executing /\ e = ScriptRow'
                                               \/ at' = "fail"
                                               \/ Stopped'
  BY ConfigStays DEF Claimed, IsScript
<1>c. /\ UNCHANGED config /\ pass \in Pass /\ rows \in [Exec -> Status]
      /\ faults \in Nat /\ syncs \in Nat
  BY ConfigStays, PipelineAssumption DEF IInv, TypeOK
<1>0. ~Abort /\ ~Crash /\ ~Sync /\ ~LoseScript
  BY <1>c DEF Abort, Crash, Sync, LoseScript
<1>1. faults = 0 /\ syncs = 0
  BY <1>0, BoundsStay
<1>2. /\ rows[e] # "pending"
      /\ rows[e] = "running" => \/ at \in Executing /\ e = ScriptRow
                                \/ at = "fail"
                                \/ Stopped
  BY <1>1 DEF Claimed
<1>3. Resynced(rows)[e] = rows[e] \/ rows[e] = "running"
  BY <1>c DEF Resynced
<1>4. CASE FailRun
  BY <1>2, <1>4, <1>c DEF FailRun, StopRun, EndPass, Active, Executing
<1>5. CASE CancelRun
  BY <1>2, <1>5, <1>c DEF CancelRun, StopRun, Active
<1>6. CASE Poll \/ EndDispatch \/ Raise \/ RefuseAmbiguous
  BY <1>2, <1>6 DEF Poll, EndDispatch, Raise, RefuseAmbiguous, Executing
<1>7. CASE FetchRows \/ NothingToDo \/ NextStage \/ TidyLanes \/ CheckFinished \/ MarkRun
           \/ CleanFailed \/ RemoveOrphans
  BY <1>2, <1>7 DEF FetchRows, NothingToDo, NextStage, TidyLanes, CheckFinished, MarkRun,
     CleanFailed, RemoveOrphans, Executing
<1>8. CASE Restart
  BY <1>2, <1>3, <1>8 DEF Restart, Executing
<1>9. CASE Skip
  BY <1>2, <1>9, <1>c, SkippedMoves DEF Skip, Executing, IInv
<1>10. CASE ResolveSources \/ RefuseEmpty
  <2>1. /\ at = "lane"
        /\ rows' = Synced \/ rows' = InsertSkipped(Synced)
    BY <1>10 DEF ResolveSources, RefuseEmpty, Runs
  <2>2. Synced \in [Exec -> Status] /\ Synced[e] = rows[e] /\ rows[e] # "running"
    BY <1>2, <1>3, <1>c, <2>1, SyncedType DEF IInv, Executing, Synced
  <2> QED BY <1>2, <2>1, <2>2, SkippedMoves DEF IInv
<1>11. CASE ClaimScript
  <2>1. at = "lane"
    BY <1>11 DEF ClaimScript, Runs
  <2>2. CASE /\ rows' = [rows EXCEPT ![ScriptRow] = "running"]
             /\ at' = "start" /\ UNCHANGED pass
    BY <1>2, <1>c, <2>1, <2>2 DEF Executing, ScriptRow, S, L
  <2>3. CASE UNCHANGED rows
    BY <1>2, <2>1, <2>3 DEF Executing
  <2> QED BY <1>11, <2>2, <2>3 DEF ClaimScript
<1>12. CASE StartScript \/ ReadExit \/ Publish
  <2>1. /\ at \in Executing /\ at' \in Executing /\ UNCHANGED rows
        /\ pass'.stage = pass.stage /\ pass'.lane = pass.lane
    BY <1>12, <1>c DEF StartScript, ReadExit, GiveUp, Publish, Pass, Executing
  <2> QED BY <1>2, <1>c, <2>1 DEF Executing, ScriptRow, S, L
<1>13. CASE FinishScript
  BY <1>2, <1>13, <1>c, RowFacts DEF FinishScript, Executing, IInv
<1>14. ASSUME NEW k \in Key, InsertJob(k)
       PROVE  rows'[e] = rows[e] /\ at = "insert"
  <2>1. at = "insert" /\ config.form[S] = "runner"
    BY <1>14 DEF InsertJob, IInv, PassOK
  <2>2. e # <<S, L, k>>
    BY <2>1 DEF IsScript
  <2> QED BY <1>14, <1>c, <2>1, <2>2 DEF InsertJob
<1>15. CASE CleanCancelled \/ RemoveContainers \/ UNCHANGED vars
  <2>1. rows'[e] = rows[e] /\ UNCHANGED <<at, pass, run>>
    BY <1>15 DEF CleanCancelled, RemoveContainers, Recon, vars
  <2> QED BY <1>2, <1>c, <2>1 DEF ScriptRow, S, L
<1>16. CASE Beside
  <2>1. rows'[e] = rows[e]
    BY <1>16, <1>c DEF Beside, EndScript, ReadCandidates, CancelSelect, CancelUpdate, EndJob,
       FailOrphan, EndOrphan, IInv, Readers
  <2> QED BY <1>2, <1>c, <1>16, <2>1, BesideStays DEF ScriptRow, S, L
<1> QED
  BY <1>0, <1>2, <1>4, <1>5, <1>6, <1>7, <1>8, <1>9, <1>10, <1>11, <1>12, <1>13, <1>14,
     <1>15, <1>16, NextCases DEF Executing

(* Only a claim makes a pending row running: a script's.                   *)
LEMMA RunningIsScript ==
  ASSUME IInv, [Next]_vars, NEW e \in Exec, rows[e] = "pending", rows'[e] = "running"
  PROVE  IsScript(e)
<1>c. rows \in [Exec -> Status]
  BY DEF IInv, TypeOK
<1>1. CASE ClaimScript
  <2>1. config.form[S] = "script" /\ e = ScriptRow
    BY <1>1, <1>c DEF ClaimScript, Runs
  <2> QED BY <2>1 DEF IsScript, ScriptRow
<1>2. CASE Skip
  BY <1>2, SkippedMoves DEF Skip, IInv, TypeOK
<1>3. CASE ResolveSources \/ RefuseEmpty
  <2>1. rows' = Synced \/ rows' = InsertSkipped(Synced)
    BY <1>3 DEF ResolveSources, RefuseEmpty
  <2>2. Synced \in [Exec -> Status] /\ Synced[e] = "pending"
    BY <1>c, SyncedType DEF Resynced, Synced, IInv
  <2> QED BY <2>1, <2>2, SkippedMoves DEF IInv
<1>4. CASE Restart \/ Sync
  BY <1>4, <1>c DEF Restart, Sync, Resynced
<1>5. CASE FailRun \/ CancelRun
  BY <1>5, StopMoves DEF FailRun, CancelRun, IInv
<1>6. CASE FinishScript \/ \E k \in Key : InsertJob(k)
  BY <1>6, <1>c DEF FinishScript, InsertJob
<1>7. CASE Beside
  BY <1>7, <1>c DEF Beside, EndScript, ReadCandidates, CancelSelect, CancelUpdate, EndJob,
     FailOrphan, EndOrphan
<1>8. CASE \/ Poll \/ FetchRows \/ NothingToDo \/ RefuseAmbiguous \/ StartScript \/ ReadExit
           \/ Publish \/ NextStage \/ TidyLanes \/ CheckFinished \/ MarkRun \/ CleanFailed
           \/ Raise \/ LoseScript \/ Abort \/ Crash \/ RemoveOrphans \/ EndDispatch
           \/ CleanCancelled \/ RemoveContainers \/ UNCHANGED vars
  BY <1>8 DEF Poll, FetchRows, NothingToDo, RefuseAmbiguous, StartScript, ReadExit, Publish,
     NextStage, TidyLanes, CheckFinished, MarkRun, CleanFailed, Raise, LoseScript,
     Abort, Crash, RemoveOrphans, EndDispatch, CleanCancelled, RemoveContainers, vars
<1> QED BY <1>1, <1>2, <1>3, <1>4, <1>5, <1>6, <1>7, <1>8, NextCases

(* "If it restarted while one was running, make that stage claimable       *)
(* again": without an error, a crash or a sync a script's stage is claimed *)
(* once, whatever is cancelled; the sync of a command is what breaks the   *)
(* comment.                                                                *)
THEOREM ScriptsAreClaimedOnce ==
  Spec => [][\A e \in Exec : rows[e] = "pending" /\ rows'[e] = "running"
                               => faults > 0 \/ syncs > 0]_vars
<1> DEFINE Once == \A e \in Exec : rows[e] = "pending" /\ rows'[e] = "running"
                                     => faults > 0 \/ syncs > 0
<1>1. Init => Claimed
  BY DEF Init, Claimed, NoRows
<1>2. IInv /\ Claimed /\ [Next]_vars => Claimed'
  BY ClaimedStep
<1>3. ASSUME IInv, Claimed, [Next]_vars PROVE Once
  <2> SUFFICES ASSUME NEW e \in Exec, rows[e] = "pending", rows'[e] = "running",
                      faults = 0, syncs = 0
               PROVE  FALSE
    BY <1>3, PipelineAssumption DEF IInv, TypeOK
  <2>1. ~IsScript(e)
    BY <1>3 DEF Claimed
  <2> QED BY <1>3, <2>1, RunningIsScript
<1>4. IInv /\ Claimed /\ [Next]_vars => [Once]_vars
  BY <1>3
<1> QED BY <1>1, <1>2, <1>4, Invariant, PTL DEF Spec

=============================================================================
