--------------------------- MODULE PipelineInputs ---------------------------
(***************************************************************************)
(* The inputs of the jobs of a run are kept until the jobs have settled,   *)
(* for every set of definitions.  A lane is tidied when the snapshot shows *)
(* all it has as settled, so the danger is a job that is added to such a   *)
(* lane later.  The argument is that a pass which has gone by a stage has  *)
(* left it nothing to add: all its jobs are there, a dependency failed, or *)
(* one is at work, which the tidying would see.                            *)
(***************************************************************************)
EXTENDS PipelineProofs

Building == {"lane", "insert", "next"} \cup Executing

(* A script's row is the only one of its stage in a lane.                  *)
OneRow == \A e \in Exec : rows[e] # "absent" /\ IsScript(e) => e[3] = Script

(* Outputs are cleaned behind a pass's back only when the run has ended.   *)
Ended == (at = "clean" => run # "pending") /\ (cli # "ready" => run # "pending")

(* While a pass goes on, rows of its snapshot are cancelled, or are those  *)
(* of the script it has just run.                                          *)
SeenFresh ==
  at \in Working =>
    \A e \in Exec : pass.seen[e] # "absent" =>
      \/ rows[e] = pass.seen[e]
      \/ rows[e] = "cancelled"
      \/ rows[e] \in Active /\ pass.seen[e] \in Active
      \/ IsScript(e) /\ e[1] = S /\ pass.changed

OutsKept == at \in Building /\ run = "pending" => pass.outs \subseteq files

(* The keys to insert are those of the sources that have no job yet.       *)
Sourced ==
  at = "insert" => /\ pass.todo \subseteq Sources(pass, S, L)
                   /\ \A k \in Sources(pass, S, L) :
                        k \in pass.todo \/ rows[<<S, L, k>>] # "absent"

Published ==
  at = "finish" /\ pass.got = "ok" /\ run = "pending" /\ config.retention[S] # "none" =>
    ScriptRow \in files

(* A stage that has begun in a lane has missed no end of a script.         *)
Began ==
  \A e \in Exec : rows[e] # "absent" /\ Narrow(e[1]) =>
    \A d \in config.needs[e[1]] :
      LET lanes == DependencyLanes(e[1], d, e[2]) IN
      /\ RowsOf(rows, d, lanes) # {}
      /\ config.form[d] = "script" => Finished(rows, d, lanes)

KeptScripts ==
  run = "pending" =>
    \A f \in Exec : IsScript(f) /\ rows[f] = "completed" /\ config.retention[f[1]] = "keep"
       => f \in files

(* What a success() stage waits for in a lane: a dependency that did not   *)
(* complete, nor has in the snapshot, one that is at work, or no more than *)
(* its own jobs.                                                           *)
Needed(s, l) == UNION {RowsOf(rows, d, DependencyLanes(s, d, l)) : d \in config.needs[s]}
Dead(s, l) ==
  \E f \in Needed(s, l) : rows[f] \in Terminal \ {"completed"} /\ pass.seen[f] # "completed"
Waiting(s, l) == \E f \in Needed(s, l) : ~IsScript(f) /\ rows[f] \in Active
Supplied(s, l) == \A k \in config.samples : rows[<<s, l, k>>] # "absent"

(* The careful stages that read what a script leaves for a while.          *)
ReadsScript(s) ==
  /\ config.form[s] = "runner" /\ config.input[s] # Dataset
  /\ config.form[config.input[s]] = "script"
  /\ config.if[s] = "success()" /\ Narrow(s)

Input(s, l, f) ==
  /\ f[1] = config.input[s]
  /\ f[2] \in DependencyLanes(s, config.input[s], l)
  /\ rows[f] = "completed"

(* The pass has had the turn of the stage in the lane.                     *)
PassedBy(s, l) ==
  \/ at \in {"tidy", "check", "mark"}
  \/ \E i \in 1 .. pass.stage - 1 : config.order[i] = s
  \/ s = S /\ (l < L \/ at = "next")

PassServes ==
  at \in Working /\ run = "pending" =>
    \A s \in Stage : ReadsScript(s) => \A l \in LanesOf(s) :
      PassedBy(s, l) /\ RowsOf(rows, s, {l}) # {} /\ (\E f \in Exec : Input(s, l, f))
        => Dead(s, l) \/ Waiting(s, l) \/ Supplied(s, l)

(* When the output is gone, so is every reason to read it.                 *)
Served ==
  run = "pending" =>
    \A s \in Stage : ReadsScript(s) => \A l \in LanesOf(s) : \A f \in Exec :
      Input(s, l, f) /\ f \notin files => Dead(s, l) \/ Supplied(s, l)

InputsInv ==
  /\ IInv /\ OneRow /\ Ended /\ SeenFresh /\ OutsKept /\ Sourced /\ Published
  /\ Began /\ KeptScripts /\ PassServes /\ Served /\ InputsAreKept

-----------------------------------------------------------------------------
(* What a step does *)

(* A run that has ended stays so.                                          *)
LEMMA PendingBefore ==
  ASSUME [Next]_vars, run' = "pending"
  PROVE  run = "pending" /\ ~StopRun("failed") /\ ~StopRun("cancelled")
  BY RunStep DEF MarkRun, StopRun

(* A row is opened when the snapshot shows the dependencies as settled.    *)
LEMMA OpensReady ==
  ASSUME IInv, [Next]_vars, NEW e \in Exec, Opens(e)
  PROVE  /\ DependenciesReady(pass.seen, S, L)
         /\ IsScript(e) => e = ScriptRow
<1>1. CASE Skip
  <2>1. rows'[e] = rows[e] \/ e = SkippedRow
    BY <1>1, SkippedMoves DEF Skip, IInv, TypeOK
  <2> QED BY <1>1, <2>1 DEF Skip, Opens, SkippedRow, IsScript, Active
<1>2. CASE ResolveSources
  <2>1. DependenciesReady(pass.seen, S, L) /\ config.form[S] = "runner"
    BY <1>2 DEF ResolveSources, Runs
  <2> QED BY <2>1 DEF Opens, IsScript
<1>3. CASE ClaimScript
  <2>1. rows'[e] = rows[e] \/ e = ScriptRow
    BY <1>3 DEF ClaimScript, IInv, TypeOK
  <2> QED BY <1>3, <2>1 DEF ClaimScript, Runs, Opens, Active
<1>4. CASE at = "insert"
  BY <1>4 DEF IInv, PassOK, Opens, IsScript
<1>5. CASE at = "lane" /\ ~Skip /\ ~ResolveSources /\ ~ClaimScript
  <2>1. rows'[e] # rows[e] /\ rows[e] = "absent"
    BY DEF Opens, Active
  <2>2. CASE \/ Poll \/ FetchRows \/ NothingToDo \/ RefuseAmbiguous \/ StartScript
             \/ ReadExit \/ Publish \/ FinishScript \/ NextStage \/ TidyLanes
             \/ CheckFinished \/ MarkRun \/ FailRun \/ CleanFailed
             \/ \E k \in Key : InsertJob(k)
    BY <1>5, <2>1, <2>2 DEF Poll, FetchRows, NothingToDo, RefuseAmbiguous, StartScript,
       ReadExit, Publish, FinishScript, NextStage, TidyLanes, CheckFinished, MarkRun,
       FailRun, CleanFailed, InsertJob
  <2>3. CASE \/ Raise \/ LoseScript \/ Abort \/ Crash \/ Restart \/ RemoveOrphans
             \/ EndDispatch \/ CleanCancelled \/ RemoveContainers \/ UNCHANGED vars
    BY <1>5, <2>1, <2>3 DEF Raise, LoseScript, Abort, Crash, Restart, RemoveOrphans,
       EndDispatch, CleanCancelled, RemoveContainers, vars
  <2>4. CASE CancelRun \/ Sync
    BY <2>1, <2>4, StopMoves, ResyncedMoves DEF CancelRun, Sync, Active, IInv, TypeOK
  <2>5. CASE RefuseEmpty
    BY <2>1, <2>5, SyncedMoves DEF RefuseEmpty, Opens, Active, IInv
  <2>6. CASE Beside
    BY <1>5, <2>1, <2>6 DEF Beside, EndScript, ReadCandidates, CancelSelect, CancelUpdate,
       EndJob, FailOrphan, EndOrphan, Opens, Active, IInv, TypeOK
  <2> QED BY <1>5, <2>2, <2>3, <2>4, <2>5, <2>6, NextCases
<1> QED BY <1>1, <1>2, <1>3, <1>4, <1>5 DEF Opens

(* Rows complete or fail at the end of a batch's job, or of the script; a  *)
(* claim fails the jobs of a runner that is gone.                          *)
LEMMA Settling ==
  ASSUME IInv, [Next]_vars, NEW e \in Exec, rows'[e] # rows[e],
         rows'[e] \in {"completed", "failed"}
  PROVE  \/ /\ FinishScript /\ e = ScriptRow /\ rows[e] = "running"
            /\ rows'[e] = "completed" => pass.got = "ok"
         \/ /\ EndJob(e) /\ rows[e] = "pending"
            /\ rows'[e] = "completed" => e \in files'
         \/ at = "dispatch" /\ rows'[e] = "failed"
<1>1. CASE FinishScript
  BY <1>1 DEF FinishScript, IInv, TypeOK
<1>2. ASSUME NEW f \in Exec, EndJob(f)
      PROVE  EndJob(e) /\ rows[e] = "pending" /\ (rows'[e] = "completed" => e \in files')
  BY <1>2 DEF EndJob, IInv, TypeOK
<1>3. CASE \/ Poll \/ FetchRows \/ NothingToDo \/ RefuseAmbiguous \/ StartScript
           \/ ReadExit \/ Publish \/ NextStage \/ TidyLanes \/ CheckFinished \/ MarkRun
           \/ CleanFailed \/ Raise \/ LoseScript \/ Abort \/ Crash \/ RemoveOrphans
           \/ EndDispatch \/ CleanCancelled \/ RemoveContainers \/ EndScript
           \/ ReadCandidates \/ CancelSelect \/ \E f \in Exec : EndOrphan(f)
           \/ UNCHANGED vars
  BY <1>3 DEF Poll, FetchRows, NothingToDo, RefuseAmbiguous, StartScript, ReadExit, Publish,
     NextStage, TidyLanes, CheckFinished, MarkRun, CleanFailed, Raise, LoseScript, Abort,
     Crash, RemoveOrphans, EndDispatch, CleanCancelled, RemoveContainers, EndScript,
     ReadCandidates, CancelSelect, EndOrphan, vars
<1>4. CASE FailRun \/ CancelRun
  BY <1>4, StopMoves DEF FailRun, CancelRun, IInv
<1>5. CASE Restart \/ Sync \/ CancelUpdate
  BY <1>5, ResyncedMoves DEF Restart, Sync, CancelUpdate, Active, IInv, TypeOK
<1>6. CASE Skip
  BY <1>6, SkippedMoves DEF Skip, IInv, TypeOK
<1>7. CASE ResolveSources \/ RefuseEmpty
  <2>1. rows' = Synced \/ rows' = InsertSkipped(Synced)
    BY <1>7 DEF ResolveSources, RefuseEmpty
  <2>2. rows'[e] \in {Synced[e], "skipped"}
    BY <2>1, SyncedMoves, SkippedMoves DEF IInv
  <2> QED BY <2>2, SyncedMoves DEF Active, IInv
<1>8. CASE ClaimScript \/ \E k \in Key : InsertJob(k)
  BY <1>8 DEF ClaimScript, InsertJob, IInv, TypeOK
<1>9. ASSUME NEW f \in Exec, FailOrphan(f)
      PROVE  at = "dispatch" /\ rows'[e] = "failed"
  BY <1>9 DEF FailOrphan, Readers, IInv, TypeOK
<1> QED BY <1>1, <1>2, <1>3, <1>4, <1>5, <1>6, <1>7, <1>8, <1>9, NextCases DEF Beside

(* The script that a step completes has left its output.                   *)
LEMMA CompletedKeeps ==
  ASSUME IInv, Published, [Next]_vars, run' = "pending",
         NEW e \in Exec, rows[e] # "completed", rows'[e] = "completed",
         config.retention[e[1]] # "none"
  PROVE  e \in files'
<1>1. CASE EndJob(e) /\ e \in files'
  BY <1>1
<1>2. CASE FinishScript /\ e = ScriptRow /\ pass.got = "ok"
  <2>1. at = "finish" /\ UNCHANGED files /\ run = "pending" /\ e[1] = S
    BY <1>2, PendingBefore, RowFacts DEF FinishScript, IInv
  <2> QED BY <1>2, <2>1 DEF Published
<1> QED BY <1>1, <1>2, Settling

LEMMA NextLaneKeeps ==
  ASSUME IInv, NEW p \in Pass, p.stage = pass.stage, p.lane = pass.lane, NextLane(p),
         UNCHANGED config
  PROVE  /\ pass'.stage = pass.stage /\ S' = S
         /\ pass'.seen = p.seen /\ pass'.outs = p.outs /\ pass'.changed = p.changed
         /\ \/ at' = "lane" /\ L' = L + 1 /\ L + 1 \in LanesOf(S)
            \/ at' = "next" /\ L' = L /\ L + 1 \notin LanesOf(S)
<1>1. pass' = [p EXCEPT !.lane = L + 1] \/ pass' = p
  BY DEF NextLane
<1>2. pass'.stage = pass.stage /\ pass'.seen = p.seen /\ pass'.outs = p.outs
      /\ pass'.changed = p.changed
  BY <1>1 DEF Pass
<1> QED BY <1>2 DEF NextLane, Pass, S, L

(* The pass goes on with what it has fetched, or fetches it.               *)
PassStays ==
  /\ at \in Working /\ (at' \in Building <=> at \in Building)
  /\ pass'.stage = pass.stage /\ S' = S
  /\ pass'.seen = pass.seen /\ pass'.outs = pass.outs
  /\ pass.changed => pass'.changed

LEMMA PassGoes ==
  ASSUME IInv, [Next]_vars, at' \in Working
  PROVE  FetchRows \/ NextStage \/ PassStays
<1>c. pass \in Pass /\ UNCHANGED config
  BY ConfigStays DEF IInv, TypeOK
<1> USE DEF Working, Executing, Building
<1>1. ASSUME NEW p \in Pass, p.stage = pass.stage, p.lane = pass.lane, NextLane(p),
             p.seen = pass.seen, p.outs = pass.outs, pass.changed => p.changed,
             at \in Building
      PROVE  PassStays
  BY <1>c, <1>1, NextLaneKeeps DEF PassStays
<1>2. CASE NothingToDo \/ Skip \/ FinishScript
  <2>1. \/ NextLane(pass) \/ NextLane([pass EXCEPT !.changed = TRUE])
        \/ NextLane([pass EXCEPT !.changed = TRUE, !.got = "none"])
    BY <1>2 DEF NothingToDo, Skip, FinishScript
  <2>2. at \in Building
    BY <1>2 DEF NothingToDo, Skip, FinishScript
  <2> QED BY <1>1, <1>c, <2>1, <2>2 DEF Pass
<1>3. CASE ResolveSources
  <2> DEFINE new == {k \in Sources(pass, S, L) : <<S, L, k>> \notin Existing}
  <2>0. at = "lane"
    BY <1>3 DEF ResolveSources, Runs
  <2>1. CASE at' = "insert" /\ pass' = [pass EXCEPT !.todo = new]
    BY <1>c, <2>0, <2>1 DEF PassStays, Pass, S
  <2>2. CASE NextLane(pass) \/ NextLane([pass EXCEPT !.changed = TRUE])
    BY <1>1, <1>c, <2>0, <2>2 DEF Pass
  <2> QED BY <1>3, <2>1, <2>2 DEF ResolveSources
<1>4. ASSUME NEW k \in Key, InsertJob(k) PROVE PassStays
  <2> DEFINE rest == [pass EXCEPT !.todo = @ \ {k},
                                  !.changed = @ \/ rows[<<S, L, k>>] = "absent"]
  <2>1. rest \in Pass /\ rest.stage = pass.stage /\ rest.lane = pass.lane
        /\ rest.seen = pass.seen /\ rest.outs = pass.outs
        /\ (pass.changed => rest.changed)
    BY <1>c DEF Pass
  <2>2. at = "insert" /\ (NextLane(rest) \/ (at' = "insert" /\ pass' = rest))
    BY <1>4 DEF InsertJob
  <2> HIDE DEF rest
  <2> QED BY <1>1, <1>c, <2>1, <2>2 DEF PassStays, S
<1>5. CASE ClaimScript
  BY <1>1, <1>5, <1>c DEF ClaimScript, Runs, PassStays, S
<1>6. CASE StartScript \/ ReadExit \/ LoseScript \/ Publish
  BY <1>6, <1>c DEF StartScript, ReadExit, LoseScript, GiveUp, Publish, PassStays, Pass, S
<1>7. CASE TidyLanes \/ CheckFinished
  BY <1>7, <1>c DEF TidyLanes, CheckFinished, EndPass, PassStays, S
<1>8. CASE \/ Poll \/ MarkRun \/ FailRun \/ Abort \/ Crash \/ RefuseAmbiguous \/ Raise
           \/ CleanFailed \/ Restart \/ RemoveOrphans \/ EndDispatch \/ RefuseEmpty
  BY <1>8 DEF Poll, MarkRun, FailRun, Abort, Crash, RefuseAmbiguous, Raise, CleanFailed,
     Restart, RemoveOrphans, EndDispatch, RefuseEmpty, EndPass
<1>9. CASE \/ CancelRun \/ CleanCancelled \/ RemoveContainers \/ Sync \/ Beside
           \/ UNCHANGED vars
  BY <1>9, <1>c, BesideStays DEF CancelRun, CleanCancelled, RemoveContainers, Sync, Recon,
     PassStays, S, vars
<1> QED BY <1>2, <1>3, <1>4, <1>5, <1>6, <1>7, <1>8, <1>9, NextCases

LEMMA FilesStep ==
  ASSUME [Next]_vars
  PROVE  \/ files \subseteq files'
         \/ (FetchRows \/ NextStage) /\ files' = KeptNone(rows)
         \/ TidyLanes \/ CheckFinished \/ CleanFailed \/ CleanCancelled
<1>1. CASE \/ Poll \/ NothingToDo \/ Skip \/ RefuseEmpty \/ ResolveSources \/ ClaimScript
           \/ RefuseAmbiguous \/ StartScript \/ ReadExit \/ Publish \/ FinishScript
           \/ \E k \in Key : InsertJob(k)
  BY <1>1 DEF Poll, NothingToDo, Skip, RefuseEmpty, ResolveSources, ClaimScript,
     RefuseAmbiguous, StartScript, ReadExit, Publish, FinishScript, InsertJob
<1>2. CASE \/ FetchRows \/ NextStage \/ MarkRun \/ FailRun \/ Raise \/ LoseScript
           \/ Abort \/ Crash \/ Restart \/ RemoveOrphans \/ EndDispatch
  BY <1>2 DEF FetchRows, NextStage, MarkRun, FailRun, Raise, LoseScript, Abort, Crash,
     Restart, RemoveOrphans, EndDispatch
<1>3. CASE \/ CancelRun \/ RemoveContainers \/ Sync \/ Beside \/ UNCHANGED vars
  BY <1>3 DEF CancelRun, RemoveContainers, Sync, Beside, EndScript, ReadCandidates,
     CancelSelect, CancelUpdate, EndJob, FailOrphan, EndOrphan, vars
<1> QED BY <1>1, <1>2, <1>3, NextCases

(* What is removed while the run lives is transient, and all that could    *)
(* read it has settled.                                                    *)
LEMMA RemovedLate ==
  ASSUME IInv, Ended, [Next]_vars, run' = "pending",
         NEW f \in files, f \notin files', config.retention[f[1]] # "none"
  PROVE  /\ config.retention[f[1]] # "keep"
         /\ at \in {"tidy", "check"} /\ UNCHANGED rows
         /\ \A s \in Stage : \A l \in LanesOf(s) :
              f[2] \in DependencyLanes(s, f[1], l) =>
                /\ Finished(rows, s, {l})
                /\ Narrow(s) => \A d \in config.needs[s] :
                                  Finished(rows, d, DependencyLanes(s, d, l))
<1>1. f[1] \in Stage /\ f[2] \in Lane /\ run = "pending"
  BY PendingBefore DEF IInv, TypeOK, Exec
<1>2. Retention(f[1]) # "none" /\ (config.retention[f[1]] = "keep" => Retention(f[1]) = "keep")
  BY DEF Retention
<1>3. f \in KeptNone(rows)
  BY <1>2 DEF KeptNone
<1>4. ~CleanFailed /\ ~CleanCancelled
  BY <1>1 DEF Ended, CleanFailed, CleanCancelled
<1>5. \/ TidyLanes /\ at = "tidy" /\ Retention(f[1]) = "matrix" /\ LaneFinished(pass.seen, f[2])
      \/ CheckFinished /\ at = "check" /\ Retention(f[1]) # "keep" /\ AllFinished(pass.seen)
  <2>1. TidyLanes \/ CheckFinished
    BY <1>3, <1>4, FilesStep
  <2>2. CASE TidyLanes
    BY <2>2 DEF TidyLanes, Kept
  <2>3. CASE CheckFinished
    BY <2>3 DEF CheckFinished, Kept, Transient
  <2> QED BY <2>1, <2>2, <2>3
<1>6. config.retention[f[1]] # "keep" /\ at \in {"tidy", "check"} /\ UNCHANGED rows
  BY <1>2, <1>5 DEF TidyLanes, CheckFinished
<1>7. ASSUME NEW s \in Stage, NEW lanes \in SUBSET Lane, Finished(pass.seen, s, lanes)
      PROVE  Finished(rows, s, lanes)
  BY <1>6, <1>7, FinishedStays DEF IInv, PassOK, Working, Executing
<1>8. ASSUME NEW s \in Stage, NEW l \in LanesOf(s), f[2] \in DependencyLanes(s, f[1], l)
      PROVE  /\ Finished(rows, s, {l})
             /\ Narrow(s) => \A d \in config.needs[s] :
                               Finished(rows, d, DependencyLanes(s, d, l))
  <2>1. /\ \A t \in Stage : 0 \in LanesOf(t) /\ LanesOf(t) \subseteq Lane
        /\ config.needs[s] \subseteq Stage
        /\ \A t \in Stage : config.scope[t] \in {"matrix", "pipeline"}
    BY ConfigFacts DEF IInv, DefinitionType
  <2>2. \A t \in Stage : config.scope[t] = "matrix" => LanesOf(t) = 0 .. config.lanes - 1
    BY DEF LanesOf
  <2>3. CASE AllFinished(pass.seen)
    <3>1. ASSUME NEW t \in Stage, NEW m \in LanesOf(t) PROVE Finished(rows, t, {m})
      BY <1>7, <2>1, <2>3, <3>1 DEF AllFinished
    <3> QED BY <2>1, <2>2, <3>1 DEF Narrow, DependencyLanes
  <2>4. CASE Retention(f[1]) = "matrix" /\ LaneFinished(pass.seen, f[2])
    <3>1. config.scope[f[1]] = "matrix"
      BY <1>1, <2>1, <2>4 DEF Retention
    <3>2. config.scope[s] = "matrix" => l = f[2]
      BY <1>8, <3>1 DEF DependencyLanes
    <3>3. config.scope[s] = "pipeline" => l = 0
      BY <1>8 DEF LanesOf
    <3>4. ASSUME NEW t \in Stage
          PROVE  Finished(rows, t, IF config.scope[t] = "matrix" THEN {f[2]} ELSE {0})
      BY <1>1, <1>7, <2>1, <2>4, <3>4 DEF LaneFinished
    <3> QED BY <2>1, <3>2, <3>3, <3>4 DEF Narrow, DependencyLanes
  <2> QED BY <1>5, <2>3, <2>4
<1> QED BY <1>6, <1>8

-----------------------------------------------------------------------------
(* The parts of the invariant, one by one *)

LEMMA OneRowStep ==
  ASSUME IInv, OneRow, [Next]_vars
  PROVE  OneRow'
<1> SUFFICES ASSUME NEW e \in Exec, rows'[e] # "absent", IsScript(e)
             PROVE  e[3] = Script
  BY ConfigStays DEF OneRow, IsScript
<1>1. CASE rows[e] # "absent"
  BY <1>1 DEF OneRow
<1>2. CASE Opens(e)
  BY <1>2, OpensReady DEF ScriptRow
<1> QED BY <1>1, <1>2, RowStep DEF IInv, Moves, Recalls, Orphans, Active

LEMMA EndedStep ==
  ASSUME IInv, Ended, [Next]_vars
  PROVE  Ended'
<1> SUFFICES ASSUME run' = "pending" PROVE at' # "clean" /\ cli' = "ready"
  BY DEF Ended
<1>1. run = "pending" /\ at # "clean" /\ cli = "ready"
      /\ ~StopRun("failed") /\ ~StopRun("cancelled")
  BY PendingBefore DEF Ended
<1>2. CASE \/ Poll \/ FetchRows \/ NothingToDo \/ Skip \/ RefuseEmpty \/ ResolveSources
           \/ ClaimScript \/ RefuseAmbiguous \/ StartScript \/ ReadExit \/ Publish
           \/ FinishScript \/ \E k \in Key : InsertJob(k)
  BY <1>1, <1>2 DEF Poll, FetchRows, NothingToDo, Skip, RefuseEmpty, ResolveSources,
     ClaimScript, RefuseAmbiguous, StartScript, ReadExit, GiveUp, Publish, FinishScript,
     InsertJob, NextLane, Outside
<1>3. CASE NextStage \/ TidyLanes \/ CheckFinished \/ MarkRun \/ FailRun \/ CleanFailed
           \/ Raise \/ LoseScript \/ Abort \/ Crash \/ Restart \/ RemoveOrphans
           \/ EndDispatch
  BY <1>1, <1>3 DEF NextStage, TidyLanes, CheckFinished, MarkRun, FailRun, CleanFailed,
     Raise, LoseScript, GiveUp, Abort, Crash, Restart, RemoveOrphans, EndDispatch, EndPass,
     Outside
<1>4. CASE \/ CancelRun \/ CleanCancelled \/ RemoveContainers \/ Sync \/ Beside
           \/ UNCHANGED vars
  BY <1>1, <1>4, BesideStays DEF CancelRun, CleanCancelled, RemoveContainers, Sync, Recon,
     vars
<1> QED BY <1>2, <1>3, <1>4, NextCases

LEMMA SeenFreshStep ==
  ASSUME IInv, SeenFresh, [Next]_vars
  PROVE  SeenFresh'
<1>c. pass \in Pass /\ UNCHANGED config
  BY ConfigStays DEF IInv, TypeOK
<1> SUFFICES ASSUME at' \in Working, NEW e \in Exec, pass'.seen[e] # "absent"
             PROVE  \/ rows'[e] = pass'.seen[e]
                    \/ rows'[e] = "cancelled"
                    \/ rows'[e] \in Active /\ pass'.seen[e] \in Active
                    \/ IsScript(e) /\ e[1] = S' /\ pass'.changed
  BY <1>c DEF SeenFresh, IsScript
<1>1. CASE FetchRows
  BY <1>1, FetchedType DEF FetchRows, IInv
<1>2. CASE NextStage
  <2>1. UNCHANGED rows /\ at \in Working
    BY <1>2 DEF NextStage, Working
  <2>2. CASE pass.changed
    <3>1. pass'.seen = rows
      BY <1>2, <2>2, FetchedType DEF NextStage, IInv, Pass
    <3> QED BY <2>1, <3>1
  <2>3. CASE ~pass.changed
    <3>1. pass'.seen = pass.seen
      BY <1>2, <1>c, <2>3 DEF NextStage, Pass
    <3> QED BY <2>1, <2>3, <3>1 DEF SeenFresh
  <2> QED BY <2>2, <2>3
<1>3. CASE PassStays
  <2>1. \/ rows[e] = pass.seen[e]
        \/ rows[e] = "cancelled"
        \/ rows[e] \in Active /\ pass.seen[e] \in Active
        \/ IsScript(e) /\ e[1] = S /\ pass.changed
    BY <1>3 DEF SeenFresh, PassStays
  <2>2. rows[e] # "absent"
    BY <1>3 DEF IInv, SeenStays, PassStays
  <2>3. CASE rows'[e] \in {"completed", "failed"} /\ rows'[e] # rows[e]
    <3>1. FinishScript /\ e = ScriptRow
      BY <1>3, <2>3, Settling DEF EndJob, PassStays, Working, Executing
    <3>2. at = "finish" /\ pass'.changed
      <4>1. [pass EXCEPT !.changed = TRUE, !.got = "none"] \in Pass
        BY <1>c DEF Pass
      <4> QED BY <3>1, <4>1, <1>c, NextLaneKeeps DEF FinishScript, Pass
    <3>3. IsScript(e) /\ e[1] = S
      BY <3>1, <3>2, RowFacts DEF IInv, PassOK, Executing, IsScript
    <3> QED BY <1>3, <3>2, <3>3 DEF PassStays
  <2>4. CASE rows'[e] = rows[e]
    BY <1>3, <2>1, <2>4 DEF PassStays
  <2>5. CASE rows[e] \in Active /\ rows'[e] \in Active \cup {"cancelled"}
    BY <1>3, <2>1, <2>5 DEF PassStays, Active
  <2>6. Moves(e)
    BY RowStep DEF IInv
  <2> QED BY <2>2, <2>3, <2>4, <2>5, <2>6 DEF Moves, Opens, Recalls, Orphans
<1> QED BY <1>1, <1>2, <1>3, PassGoes

LEMMA OutsKeptStep ==
  ASSUME IInv, Ended, OutsKept, [Next]_vars
  PROVE  OutsKept'
<1>c. pass \in Pass
  BY DEF IInv, TypeOK
<1> SUFFICES ASSUME at' \in Building, run' = "pending" PROVE pass'.outs \subseteq files'
  BY DEF OutsKept
<1>0. at' \in Working /\ at' \notin {"tidy", "check", "mark"} /\ run = "pending"
  BY PendingBefore DEF Building, Working, Executing
<1>1. CASE FetchRows
  BY <1>1 DEF FetchRows, Fetched
<1>2. CASE NextStage
  <2>1. CASE pass.changed
    <3>1. pass'.outs = KeptNone(rows)
      BY <1>2, <2>1, FetchedType DEF NextStage, Fetched, IInv, Pass
    <3> QED BY <1>2, <2>1, <3>1 DEF NextStage
  <2>2. CASE ~pass.changed
    <3>1. pass'.outs = pass.outs /\ UNCHANGED files /\ at = "next"
      BY <1>2, <1>c, <2>2 DEF NextStage, Pass
    <3> QED BY <1>0, <3>1 DEF OutsKept, Building
  <2> QED BY <2>1, <2>2
<1>3. CASE PassStays /\ ~FetchRows /\ ~NextStage
  <2>1. ~TidyLanes /\ ~CheckFinished /\ ~CleanFailed /\ ~CleanCancelled
    BY <1>0, <1>3 DEF TidyLanes, CheckFinished, EndPass, CleanFailed, CleanCancelled, Ended,
       Working, Executing
  <2>2. files \subseteq files'
    BY <1>3, <2>1, FilesStep
  <2> QED BY <1>0, <1>3, <2>2 DEF OutsKept, PassStays
<1> QED BY <1>0, <1>1, <1>2, <1>3, PassGoes

(* The sources in terms of what they are computed from.                    *)
LEMMA SourcesStay ==
  ASSUME UNCHANGED config, S' = S, L' = L, pass'.seen = pass.seen, pass'.outs = pass.outs
  PROVE  Sources(pass, S, L)' = Sources(pass, S, L)
<1>1. \A s, l : SourceRows(pass, s, l)' = SourceRows(pass, s, l)
  BY DEF SourceRows, RowsOf, DependencyLanes, IsScript
<1>2. \A e : Samples(e)' = Samples(e)
  BY DEF Samples, IsScript
<1> QED BY <1>1, <1>2 DEF Sources

LEMMA SourcedStep ==
  ASSUME IInv, Sourced, [Next]_vars
  PROVE  Sourced'
<1>c. pass \in Pass /\ UNCHANGED config
  BY ConfigStays DEF IInv, TypeOK
<1>m. ASSUME NEW e \in Exec, rows[e] # "absent" PROVE rows'[e] # "absent"
  BY <1>m, RowStep DEF IInv, Moves, Opens, Recalls, Orphans, Active
<1> SUFFICES ASSUME at' = "insert" PROVE Sourced'
  BY DEF Sourced
<1>1. CASE ResolveSources
  <2> DEFINE new == {k \in Sources(pass, S, L) : <<S, L, k>> \notin Existing}
  <2>1. pass' = [pass EXCEPT !.todo = new]
    BY <1>1 DEF ResolveSources, NextLane
  <2>2. S' = S /\ L' = L /\ pass'.seen = pass.seen /\ pass'.outs = pass.outs
        /\ pass'.todo = new
    BY <1>c, <2>1 DEF S, L, Pass
  <2>3. ASSUME NEW k \in Sources(pass, S, L), k \notin new
        PROVE  rows'[<<S, L, k>>] # "absent"
    <3>1. <<S, L, k>> \in Existing
      BY <2>3
    <3>2. <<S, L, k>> \in Exec /\ pass.seen[<<S, L, k>>] # "absent"
      BY <3>1, ConfigFacts DEF Existing, RowsOf, Exec, IInv
    <3> QED BY <1>m, <3>2 DEF IInv, SeenStays
  <2> QED BY <1>c, <2>2, <2>3, SourcesStay DEF Sourced
<1>2. ASSUME NEW k \in Key, InsertJob(k) PROVE Sourced'
  <2> DEFINE rest == [pass EXCEPT !.todo = @ \ {k},
                                  !.changed = @ \/ rows[<<S, L, k>>] = "absent"]
  <2>1. at = "insert" /\ pass' = rest
    BY <1>2 DEF InsertJob, NextLane
  <2>2. S' = S /\ L' = L /\ pass'.seen = pass.seen /\ pass'.outs = pass.outs
        /\ pass'.todo = pass.todo \ {k}
    BY <1>c, <2>1 DEF S, L, Pass
  <2>3. <<S, L, k>> \in Exec /\ rows'[<<S, L, k>>] # "absent"
    BY <1>2, RowFacts DEF InsertJob, IInv, TypeOK
  <2>4. Sources(pass, S, L) \subseteq Key
    BY ConfigFacts DEF Sources, Samples, DefinitionType, IInv
  <2>5. \A j \in Sources(pass, S, L) : <<S, L, j>> \in Exec
    BY <2>4, RowFacts DEF IInv
  <2> QED BY <1>c, <1>m, <2>1, <2>2, <2>3, <2>5, SourcesStay DEF Sourced
<1>3. CASE UNCHANGED <<at, pass>>
  <2>1. S' = S /\ L' = L
    BY <1>c, <1>3 DEF S, L
  <2>2. Sources(pass, S, L) \subseteq Key
    BY ConfigFacts DEF Sources, Samples, DefinitionType, IInv
  <2>3. \A j \in Sources(pass, S, L) : <<S, L, j>> \in Exec
    BY <2>2, RowFacts DEF IInv
  <2> QED BY <1>c, <1>m, <1>3, <2>1, <2>3, SourcesStay DEF Sourced
<1>4. CASE \/ CancelRun \/ CleanCancelled \/ RemoveContainers \/ Sync \/ Beside
           \/ UNCHANGED vars
  BY <1>3, <1>4, BesideStays DEF CancelRun, CleanCancelled, RemoveContainers, Sync, Recon,
     vars
<1>5. ~(\/ Poll \/ FetchRows \/ NothingToDo \/ Skip \/ RefuseEmpty \/ ClaimScript
        \/ RefuseAmbiguous \/ StartScript \/ ReadExit \/ Publish \/ FinishScript)
  BY DEF Poll, FetchRows, NothingToDo, Skip, RefuseEmpty, ClaimScript, RefuseAmbiguous,
     StartScript, ReadExit, GiveUp, Publish, FinishScript, NextLane
<1>6. ~(\/ NextStage \/ TidyLanes \/ CheckFinished \/ MarkRun \/ FailRun \/ CleanFailed
        \/ Raise \/ LoseScript \/ Abort \/ Crash \/ Restart \/ RemoveOrphans
        \/ EndDispatch)
  BY DEF NextStage, TidyLanes, CheckFinished, MarkRun, FailRun, CleanFailed, Raise,
     LoseScript, GiveUp, Abort, Crash, Restart, RemoveOrphans, EndDispatch, EndPass
<1> QED BY <1>1, <1>2, <1>4, <1>5, <1>6, NextCases

LEMMA PublishedStep ==
  ASSUME IInv, Ended, Published, [Next]_vars
  PROVE  Published'
<1>c. pass \in Pass /\ UNCHANGED config
  BY ConfigStays DEF IInv, TypeOK
<1> SUFFICES ASSUME at' = "finish", pass'.got = "ok", run' = "pending",
                    config.retention[S'] # "none"
             PROVE  ScriptRow' \in files'
  BY <1>c DEF Published
<1>0. run = "pending"
  BY PendingBefore
<1>1. CASE StartScript \/ ReadExit \/ LoseScript
  BY <1>1, <1>c DEF StartScript, ReadExit, LoseScript, GiveUp, Pass
<1>2. CASE Publish
  BY <1>2, <1>c DEF Publish, Pass, ScriptRow, S, L
<1>3. CASE UNCHANGED <<at, pass>> /\ files \subseteq files'
  BY <1>0, <1>c, <1>3 DEF Published, ScriptRow, S, L
<1>4. CASE \/ CancelRun \/ RemoveContainers \/ Sync \/ Beside \/ UNCHANGED vars
  <2>1. UNCHANGED <<at, pass>>
    BY <1>4, BesideStays DEF CancelRun, RemoveContainers, Sync, Recon, vars
  <2>2. files \subseteq files'
    BY <1>4 DEF CancelRun, RemoveContainers, Sync, Beside, EndScript, ReadCandidates,
       CancelSelect, CancelUpdate, EndJob, FailOrphan, EndOrphan, vars
  <2> QED BY <1>3, <2>1, <2>2
<1>5. ~CleanCancelled
  BY <1>0 DEF Ended, CleanCancelled
<1>6. ~(\/ Poll \/ FetchRows \/ NothingToDo \/ Skip \/ RefuseEmpty \/ ResolveSources
        \/ ClaimScript \/ RefuseAmbiguous \/ FinishScript \/ \E k \in Key : InsertJob(k))
  BY DEF Poll, FetchRows, NothingToDo, Skip, RefuseEmpty, ResolveSources, ClaimScript,
     RefuseAmbiguous, FinishScript, InsertJob, NextLane
<1>7. ~(\/ NextStage \/ TidyLanes \/ CheckFinished \/ MarkRun \/ FailRun \/ CleanFailed
        \/ Raise \/ Abort \/ Crash \/ Restart \/ RemoveOrphans \/ EndDispatch)
  BY DEF NextStage, TidyLanes, CheckFinished, MarkRun, FailRun, CleanFailed, Raise, Abort,
     Crash, Restart, RemoveOrphans, EndDispatch, EndPass
<1> QED BY <1>1, <1>2, <1>4, <1>5, <1>6, <1>7, NextCases

LEMMA KeptScriptsStep ==
  ASSUME IInv, Ended, Published, KeptScripts, [Next]_vars
  PROVE  KeptScripts'
<1> SUFFICES ASSUME run' = "pending", NEW f \in Exec, IsScript(f), rows'[f] = "completed",
                    config.retention[f[1]] = "keep"
             PROVE  f \in files'
  BY ConfigStays DEF KeptScripts, IsScript
<1>1. CASE rows[f] # "completed"
  BY <1>1, CompletedKeeps
<1>2. CASE rows[f] = "completed"
  <2>1. f \in files
    BY <1>2, PendingBefore DEF KeptScripts
  <2> QED BY <2>1, RemovedLate
<1> QED BY <1>1, <1>2

(* What is finished stays so while its stage opens no row.                 *)
LEMMA FinishedStep ==
  ASSUME IInv, [Next]_vars, NEW d \in Stage, NEW lanes \in SUBSET Lane,
         Finished(rows, d, lanes),
         \A e \in Exec : Opens(e) => e \notin {d} \X lanes \X RowKey
  PROVE  Finished(rows', d, lanes)
<1>1. ASSUME NEW e \in {d} \X lanes \X RowKey
      PROVE  /\ e \in Exec
             /\ \/ rows[e] \in Terminal /\ rows'[e] \in Terminal
                \/ rows[e] = "absent" /\ rows'[e] = "absent"
  <2>1. e \in Exec
    BY DEF Exec
  <2>2. rows[e] \in Terminal \/ rows[e] = "absent"
    BY DEF Finished, RowsOf
  <2> QED BY <2>1, <2>2, RowStep DEF IInv, Moves, Opens, Recalls, Orphans, Active, Terminal
<1>2. RowsOf(rows', d, lanes) = RowsOf(rows, d, lanes)
  BY <1>1 DEF RowsOf, Terminal
<1> QED BY <1>1, <1>2 DEF Finished, RowsOf

LEMMA BeganStep ==
  ASSUME IInv, OneRow, Began, [Next]_vars
  PROVE  Began'
<1>c. UNCHANGED config
  BY ConfigStays
<1>v. Valid(config) /\ config \in DefinitionType
  BY PipelineAssumption, ConfigFacts DEF IInv, TypeOK
<1> SUFFICES ASSUME NEW e \in Exec, rows'[e] # "absent", Narrow(e[1]), NEW d \in config.needs[e[1]]
             PROVE  LET lanes == DependencyLanes(e[1], d, e[2]) IN
                    /\ RowsOf(rows', d, lanes) # {}
                    /\ config.form[d] = "script" => Finished(rows', d, lanes)
  <2>1. /\ \A s : Narrow(s)' <=> Narrow(s)
        /\ \A s, t, l : DependencyLanes(s, t, l)' = DependencyLanes(s, t, l)
    BY <1>c DEF Narrow, DependencyLanes
  <2> QED BY <1>c, <2>1 DEF Began, Finished, RowsOf
<1> DEFINE lanes == DependencyLanes(e[1], d, e[2])
<1>1. e[1] \in Stage /\ e[2] \in Lane /\ d \in Stage /\ 0 \in Lane
  BY <1>v, PipelineAssumption DEF Exec, DefinitionType, Lane
<1>2. \E m \in Lane : lanes = {m}
  BY <1>1, <1>v DEF DependencyLanes, Narrow, DefinitionType
<1>3. RowsOf(rows, d, lanes) \subseteq RowsOf(rows', d, lanes)
  <2>1. ASSUME NEW f \in {d} \X lanes \X RowKey, rows[f] # "absent"
        PROVE  rows'[f] # "absent"
    <3>1. f \in Exec
      BY <1>1, <1>2 DEF Exec
    <3> QED BY <2>1, <3>1, RowStep DEF IInv, Moves, Opens, Recalls, Orphans, Active
  <2> QED BY <2>1 DEF RowsOf
<1>4. CASE rows[e] # "absent"
  <2>1. RowsOf(rows, d, lanes) # {} /\ (config.form[d] = "script" => Finished(rows, d, lanes))
    BY <1>4 DEF Began
  <2>2. ASSUME config.form[d] = "script", NEW f \in Exec, Opens(f)
        PROVE  f \notin {d} \X lanes \X RowKey
    <3> SUFFICES ASSUME f \in {d} \X lanes \X RowKey PROVE FALSE
      OBVIOUS
    <3>1. f = ScriptRow /\ f[3] = Script
      BY <2>2, OpensReady DEF IsScript, ScriptRow
    <3>2. PICK g \in RowsOf(rows, d, lanes) : TRUE
      BY <2>1
    <3>3. g \in Exec /\ rows[g] # "absent" /\ g[1] = d /\ g[2] \in lanes
      BY <1>1, <1>2, <3>2 DEF RowsOf, Exec
    <3>4. g[3] = Script
      BY <2>2, <3>3 DEF OneRow, IsScript
    <3>5. g = f
      BY <1>2, <3>1, <3>3, <3>4 DEF Exec
    <3> QED BY <2>2, <3>3, <3>5 DEF Opens
  <2>3. lanes \in SUBSET Lane
    BY <1>2
  <2>4. config.form[d] = "script" => Finished(rows', d, lanes)
    BY <1>1, <2>1, <2>2, <2>3, FinishedStep
  <2> QED BY <1>3, <2>1, <2>4
<1>5. CASE rows[e] = "absent"
  <2>1. Opens(e)
    BY <1>5, RowStep DEF IInv, Moves, Recalls, Orphans, Active
  <2>2. at \in Working /\ e[1] = S /\ e[2] = L /\ d # S
        /\ Finished(pass.seen, d, lanes)
    BY <2>1, OpensReady, ConfigFacts DEF Opens, Working, DependenciesReady, IInv
  <2>3. lanes \in SUBSET Lane
    BY <1>2
  <2>4. Finished(rows, d, lanes)
    BY <1>1, <2>2, <2>3, FinishedStays
  <2>5. \A f \in Exec : Opens(f) => f \notin {d} \X lanes \X RowKey
    BY <2>2 DEF Opens
  <2>6. Finished(rows', d, lanes)
    BY <1>1, <2>3, <2>4, <2>5, FinishedStep
  <2> QED BY <2>6 DEF Finished
<1> QED BY <1>4, <1>5

-----------------------------------------------------------------------------
(* What a stage still has to do in a lane *)

(* A stage that reads a script needs it, in lanes of the run.              *)
LEMMA ReaderFacts ==
  ASSUME IInv, NEW s \in Stage, NEW l \in LanesOf(s)
  PROVE  /\ l \in Lane /\ config.needs[s] \subseteq Stage /\ config.samples \subseteq Key
         /\ \A d \in Stage : DependencyLanes(s, d, l) \subseteq Lane
         /\ config.input[s] # Dataset =>
              /\ config.input[s] \in config.needs[s]
              /\ config.retention[config.input[s]] # "none"
<1>1. Valid(config) /\ config \in DefinitionType
  BY PipelineAssumption, ConfigFacts DEF IInv, TypeOK
<1>2. l \in Lane /\ 0 \in Lane
  BY ConfigFacts, PipelineAssumption DEF IInv, Lane
<1>3. config.input[s] # Dataset =>
        config.input[s] \in config.needs[s] /\ config.retention[config.input[s]] # "none"
  BY <1>1 DEF Valid
<1>4. config.needs[s] \subseteq Stage /\ config.samples \subseteq Key
  BY <1>1 DEF DefinitionType
<1> QED BY <1>2, <1>3, <1>4 DEF DependencyLanes

LEMMA NeededFacts ==
  ASSUME IInv, NEW s \in Stage, NEW l \in LanesOf(s), NEW f \in Needed(s, l)
  PROVE  f \in Exec /\ rows[f] # "absent" /\ f[1] \in config.needs[s]
         /\ f[2] \in DependencyLanes(s, f[1], l)
         /\ f \in RowsOf(rows, f[1], DependencyLanes(s, f[1], l))
<1>1. PICK d \in config.needs[s] : f \in RowsOf(rows, d, DependencyLanes(s, d, l))
  BY DEF Needed
<1>2. d \in Stage /\ DependencyLanes(s, d, l) \subseteq Lane
  BY ReaderFacts
<1>3. f \in {d} \X DependencyLanes(s, d, l) \X RowKey /\ rows[f] # "absent"
  BY <1>1 DEF RowsOf
<1>4. f \in Exec /\ f[1] = d /\ f[2] \in DependencyLanes(s, d, l)
  BY <1>2, <1>3 DEF Exec
<1> QED BY <1>1, <1>3, <1>4

(* What is needed grows.                                                   *)
LEMMA NeededGrows ==
  ASSUME IInv, [Next]_vars, NEW s \in Stage, NEW l \in LanesOf(s)
  PROVE  Needed(s, l) \subseteq Needed(s, l)'
<1>1. UNCHANGED config
  BY ConfigStays
<1>2. ASSUME NEW d \in config.needs[s]
      PROVE  RowsOf(rows, d, DependencyLanes(s, d, l))
               \subseteq RowsOf(rows', d, DependencyLanes(s, d, l))
  <2>1. ASSUME NEW f \in {d} \X DependencyLanes(s, d, l) \X RowKey, rows[f] # "absent"
        PROVE  rows'[f] # "absent"
    <3>1. f \in Exec
      BY ReaderFacts DEF Exec
    <3> QED BY <2>1, <3>1, RowStep DEF IInv, Moves, Opens, Recalls, Orphans, Active
  <2> QED BY <2>1 DEF RowsOf
<1>3. \A d : RowsOf(rows, d, DependencyLanes(s, d, l))' = RowsOf(rows', d, DependencyLanes(s, d, l))
  BY <1>1 DEF RowsOf, DependencyLanes
<1> QED BY <1>1, <1>2, <1>3 DEF Needed

LEMMA DeadStays ==
  ASSUME IInv, [Next]_vars, NEW s \in Stage, NEW l \in LanesOf(s), Dead(s, l)
  PROVE  Dead(s, l)'
<1>1. PICK f \in Needed(s, l) : rows[f] \in Terminal \ {"completed"} /\ pass.seen[f] # "completed"
  BY DEF Dead
<1>2. f \in Exec /\ f \in Needed(s, l)'
  BY NeededFacts, NeededGrows
<1>3. rows'[f] \in Terminal \ {"completed"}
  BY <1>1, <1>2, RowStep DEF IInv, Moves, Opens, Recalls, Orphans, Active, Terminal
<1>4. pass'.seen[f] # "completed"
  BY <1>1, <1>2, SeenStep DEF IInv, NoRows
<1> QED BY <1>2, <1>3, <1>4 DEF Dead

LEMMA SuppliedStays ==
  ASSUME IInv, [Next]_vars, NEW s \in Stage, NEW l \in LanesOf(s), Supplied(s, l)
  PROVE  Supplied(s, l)'
<1>1. ASSUME NEW k \in config.samples PROVE rows'[<<s, l, k>>] # "absent"
  <2>1. <<s, l, k>> \in Exec
    BY ReaderFacts DEF Exec, RowKey
  <2> QED BY <2>1, RowStep DEF IInv, Moves, Opens, Recalls, Orphans, Active, Supplied
<1> QED BY <1>1, ConfigStays DEF Supplied

(* A job does not complete while a pass goes on.                           *)
LEMMA WaitingStays ==
  ASSUME IInv, [Next]_vars, at \in Working, NEW s \in Stage, NEW l \in LanesOf(s),
         Waiting(s, l)
  PROVE  Waiting(s, l)' \/ Dead(s, l)'
<1>1. PICK f \in Needed(s, l) : ~IsScript(f) /\ rows[f] \in Active
  BY DEF Waiting
<1>2. f \in Exec /\ f \in Needed(s, l)' /\ (IsScript(f)' <=> IsScript(f))
  BY NeededFacts, NeededGrows, ConfigStays DEF IsScript
<1>3. rows'[f] # "completed"
  <2>1. ~EndJob(f)
    BY DEF EndJob, Working, Executing
  <2>2. ~(FinishScript /\ f = ScriptRow)
    BY <1>1, RowFacts DEF FinishScript, IInv, PassOK, Executing, IsScript
  <2> QED BY <1>1, <1>2, <2>1, <2>2, Settling DEF Active
<1>4. rows'[f] \in Active \cup {"failed", "cancelled"}
  BY <1>1, <1>2, <1>3, RowStep DEF IInv, Moves, Opens, Recalls, Orphans, Active
<1>5. pass'.seen[f] # "completed"
  <2>1. pass.seen[f] # "completed" /\ rows[f] # "completed"
    BY <1>1, <1>2 DEF IInv, SeenStays, SeenLate, Terminal, Active
  <2> QED BY <1>2, <2>1, SeenStep DEF IInv, NoRows
<1> QED BY <1>1, <1>2, <1>4, <1>5 DEF Waiting, Dead, Active, Terminal

-----------------------------------------------------------------------------
(* The turn of a stage in a lane *)

(* A ready stage finds the samples of a script that has completed.         *)
LEMMA ReadySources ==
  ASSUME IInv, at \in {"lane", "insert"}, ReadsScript(S), DependenciesReady(pass.seen, S, L),
         NEW f \in Exec, Input(S, L, f)
  PROVE  config.samples \subseteq Sources(pass, S, L)
<1> DEFINE d == config.input[S]
           lanes == DependencyLanes(S, d, L)
<1>1. S \in Stage /\ L \in LanesOf(S) /\ d \in Stage /\ d \in config.needs[S] /\ d # S
      /\ config.samples \subseteq Key
  BY ConfigFacts, ReaderFacts DEF IInv, PassOK, Working, ReadsScript
<1>2. f[1] = d /\ f[2] \in lanes /\ rows[f] = "completed" /\ IsScript(f)
  BY DEF Input, ReadsScript, IsScript
<1>3. pass.seen[f] # "absent"
  BY <1>1, <1>2 DEF IInv, SeenIsWhole, Working
<1>4. f \in RowsOf(pass.seen, d, lanes)
  BY <1>2, <1>3 DEF RowsOf, Exec
<1>5. pass.seen[f] = "completed"
  BY <1>1, <1>2, <1>4 DEF DependenciesReady, Finished, IInv, SeenStays, SeenLate
<1>6. f \in SourceRows(pass, S, L) /\ Samples(f) = config.samples
  BY <1>1, <1>2, <1>4, <1>5 DEF SourceRows, Samples
<1>7. d # Dataset
  BY DEF ReadsScript
<1> QED BY <1>6, <1>7 DEF Sources

(* A blocked stage has a dependency that will never complete.              *)
LEMMA BlockedDead ==
  ASSUME IInv, at \in {"lane", "insert"}, DependenciesReady(pass.seen, S, L),
         Blocked(pass.seen, S, L)
  PROVE  Dead(S, L)
<1>1. PICK d \in config.needs[S] : \E f \in RowsOf(pass.seen, d, DependencyLanes(S, d, L)) :
        pass.seen[f] # "completed"
  BY DEF Blocked
<1>2. PICK f \in RowsOf(pass.seen, d, DependencyLanes(S, d, L)) : pass.seen[f] # "completed"
  BY <1>1
<1>3. S \in Stage /\ L \in LanesOf(S) /\ d \in Stage
      /\ DependencyLanes(S, d, L) \subseteq Lane
  BY ConfigFacts, ReaderFacts DEF IInv, PassOK, Working
<1>4. pass.seen[f] \in Terminal /\ f \in Exec
  BY <1>2, <1>3 DEF DependenciesReady, Finished, RowsOf, Exec
<1>5. rows[f] \in Terminal \ {"completed"}
  BY <1>2, <1>4 DEF IInv, SeenStays, SeenLate, Terminal
<1>6. f \in Needed(S, L)
  BY <1>2, <1>4, <1>5 DEF Needed, RowsOf, Terminal
<1> QED BY <1>2, <1>4, <1>5, <1>6 DEF Dead

(* A stage that has begun and is not ready waits for jobs it has seen, or  *)
(* for ones that were cancelled since.                                     *)
LEMMA UnreadyWaits ==
  ASSUME IInv, SeenFresh, Began, at \in {"lane", "insert"}, Narrow(S),
         ~DependenciesReady(pass.seen, S, L), RowsOf(rows, S, {L}) # {}
  PROVE  Dead(S, L) \/ Waiting(S, L)
<1>1. PICK d \in config.needs[S] : ~Finished(pass.seen, d, DependencyLanes(S, d, L))
  BY DEF DependenciesReady
<1> DEFINE lanes == DependencyLanes(S, d, L)
<1>2. S \in Stage /\ L \in LanesOf(S) /\ L \in Lane /\ d \in Stage /\ d # S
      /\ lanes \subseteq Lane
  BY ConfigFacts, ReaderFacts DEF IInv, PassOK, Working
<1>3. PICK e \in RowsOf(rows, S, {L}) : TRUE
  OBVIOUS
<1>4. e \in Exec /\ rows[e] # "absent" /\ e[1] = S /\ e[2] = L
  BY <1>2, <1>3 DEF RowsOf, Exec
<1>5. /\ RowsOf(rows, d, lanes) # {}
      /\ config.form[d] = "script" => Finished(rows, d, lanes)
  BY <1>4 DEF Began
<1>6. ASSUME NEW f \in {d} \X lanes \X RowKey
      PROVE  f \in Exec /\ f[1] = d /\ (rows[f] = "absent" <=> pass.seen[f] = "absent")
  <2>1. f \in Exec /\ f[1] = d
    BY <1>2 DEF Exec
  <2> QED BY <1>2, <2>1 DEF IInv, SeenIsWhole, SeenStays, Working
<1>7. RowsOf(pass.seen, d, lanes) = RowsOf(rows, d, lanes)
  BY <1>6 DEF RowsOf
<1>8. PICK f \in RowsOf(rows, d, lanes) : pass.seen[f] \notin Terminal
  BY <1>1, <1>5, <1>7 DEF Finished
<1>9. f \in Exec /\ f[1] = d /\ pass.seen[f] # "absent" /\ f \in Needed(S, L)
  BY <1>6, <1>7, <1>8 DEF RowsOf, Needed
<1>10. pass.seen[f] \in Active
  BY <1>8, <1>9 DEF IInv, TypeOK, Pass, Status
<1>11. rows[f] \in Active \cup {"cancelled"}
  BY <1>2, <1>9, <1>10 DEF SeenFresh, Working
<1>12. config.form[d] = "script" => rows[f] \in Terminal
  BY <1>5, <1>8 DEF Finished
<1>13. pass.seen[f] # "completed"
  BY <1>8 DEF Terminal
<1> QED BY <1>9, <1>11, <1>12, <1>13 DEF Dead, Waiting, IsScript, Terminal, Active

(* The actions that end the turn of a stage of jobs in a lane.             *)
Turn ==
  \/ NothingToDo \/ Skip
  \/ at' # "insert" /\ (ResolveSources \/ \E k \in Key : InsertJob(k))

LEMMA TurnGoes ==
  ASSUME IInv, Turn, [Next]_vars
  PROVE  /\ at \in {"lane", "insert"} /\ S' = S /\ pass'.stage = pass.stage
         /\ \/ at' = "lane" /\ L' = L + 1
            \/ at' = "next" /\ L' = L /\ L + 1 \notin LanesOf(S)
<1>c. pass \in Pass /\ UNCHANGED config
  BY ConfigStays DEF IInv, TypeOK
<1>1. ASSUME NEW p \in Pass, p.stage = pass.stage, p.lane = pass.lane, NextLane(p)
      PROVE  /\ S' = S /\ pass'.stage = pass.stage
             /\ \/ at' = "lane" /\ L' = L + 1
                \/ at' = "next" /\ L' = L /\ L + 1 \notin LanesOf(S)
  BY <1>c, <1>1, NextLaneKeeps
<1>2. CASE NothingToDo \/ Skip
  <2>1. at = "lane" /\ (NextLane(pass) \/ NextLane([pass EXCEPT !.changed = TRUE]))
    BY <1>2 DEF NothingToDo, Skip
  <2> QED BY <1>1, <1>c, <2>1 DEF Pass
<1>3. CASE at' # "insert" /\ ResolveSources
  <2>1. at = "lane" /\ (NextLane(pass) \/ NextLane([pass EXCEPT !.changed = TRUE]))
    BY <1>3 DEF ResolveSources, Runs
  <2> QED BY <1>1, <1>c, <2>1 DEF Pass
<1>4. ASSUME at' # "insert", NEW k \in Key, InsertJob(k)
      PROVE  /\ at = "insert" /\ S' = S /\ pass'.stage = pass.stage
             /\ \/ at' = "lane" /\ L' = L + 1
                \/ at' = "next" /\ L' = L /\ L + 1 \notin LanesOf(S)
  <2> DEFINE rest == [pass EXCEPT !.todo = @ \ {k},
                                  !.changed = @ \/ rows[<<S, L, k>>] = "absent"]
  <2>1. rest \in Pass /\ rest.stage = pass.stage /\ rest.lane = pass.lane
    BY <1>c DEF Pass
  <2>2. at = "insert" /\ NextLane(rest)
    BY <1>4 DEF InsertJob
  <2> HIDE DEF rest
  <2> QED BY <1>1, <2>1, <2>2
<1> QED BY <1>2, <1>3, <1>4 DEF Turn

(* Nothing else brings a stage of jobs past its lane.                      *)
LEMMA TurnEnds ==
  ASSUME IInv, [Next]_vars, PassStays, at' \in Building, config.form[S] = "runner"
  PROVE  \/ Turn
         \/ L' = L /\ (at' = "next" => at = "next")
<1>c. pass \in Pass /\ UNCHANGED config
  BY ConfigStays DEF IInv, TypeOK
<1>1. at \in Building /\ at \notin Executing
  BY DEF PassStays, IInv, PassOK
<1>2. CASE NothingToDo \/ Skip \/ (at' # "insert" /\ (ResolveSources \/ \E k \in Key : InsertJob(k)))
  BY <1>2 DEF Turn
<1>3. CASE at' = "insert" /\ ResolveSources
  <2> DEFINE new == {k \in Sources(pass, S, L) : <<S, L, k>> \notin Existing}
  <2>1. pass' = [pass EXCEPT !.todo = new]
    BY <1>3 DEF ResolveSources, NextLane
  <2> QED BY <1>3, <1>c, <2>1 DEF Pass, L
<1>4. ASSUME at' = "insert", NEW k \in Key, InsertJob(k)
      PROVE  L' = L
  <2>1. pass' = [pass EXCEPT !.todo = @ \ {k},
                             !.changed = @ \/ rows[<<S, L, k>>] = "absent"]
    BY <1>4 DEF InsertJob, NextLane
  <2> QED BY <1>c, <2>1 DEF Pass, L
<1>5. CASE \/ CancelRun \/ CleanCancelled \/ RemoveContainers \/ Sync \/ Beside
           \/ UNCHANGED vars
  BY <1>5, BesideStays DEF CancelRun, CleanCancelled, RemoveContainers, Sync, Recon, L, vars
<1>6. ~(\/ ClaimScript \/ StartScript \/ ReadExit \/ LoseScript \/ Publish \/ FinishScript)
  BY <1>1 DEF ClaimScript, Runs, StartScript, ReadExit, LoseScript, Publish, FinishScript,
     Executing
<1>7. ~(\/ Poll \/ TidyLanes \/ CheckFinished \/ MarkRun \/ FailRun \/ CleanFailed
        \/ RefuseAmbiguous \/ RefuseEmpty \/ Raise \/ Abort \/ Crash \/ Restart
        \/ RemoveOrphans \/ EndDispatch)
  BY DEF Poll, TidyLanes, CheckFinished, MarkRun, FailRun, CleanFailed, RefuseAmbiguous,
     RefuseEmpty, Raise, Abort, Crash, Restart, RemoveOrphans, EndDispatch, EndPass,
     Building, Executing
<1>8. CASE FetchRows
  BY <1>1, <1>8 DEF FetchRows, Building, Executing
<1>9. ~NextStage
  <2> SUFFICES ASSUME NextStage PROVE FALSE
    OBVIOUS
  <2>1. at' = "lane" /\ pass.stage \in Nat
    BY DEF NextStage, Building, Executing, Pass, IInv, TypeOK
  <2>2. pass'.stage = pass.stage + 1
    BY <1>c, <2>1, FetchedType DEF NextStage, Pass, IInv
  <2> QED BY <2>1, <2>2 DEF PassStays
<1> QED BY <1>2, <1>3, <1>4, <1>5, <1>6, <1>7, <1>8, <1>9, NextCases

(* After its turn a stage has its jobs, or something to wait for.          *)
LEMMA TurnServes ==
  ASSUME IInv, SeenFresh, Sourced, Began, [Next]_vars, Turn, ReadsScript(S),
         NEW s \in Stage, NEW l \in LanesOf(s), s = S, l = L,
         RowsOf(rows', S, {L}) # {}, NEW f \in Exec, Input(S, L, f)
  PROVE  Dead(s, l)' \/ Waiting(s, l)' \/ Supplied(s, l)'
<1>1. at \in {"lane", "insert"} /\ at \in Working
  BY TurnGoes DEF Working
<1>2. Narrow(S) /\ config.form[S] = "runner"
  BY DEF ReadsScript
<1>d. Dead(S, L) \/ Waiting(S, L) \/ Supplied(S, L) =>
        Dead(s, l)' \/ Waiting(s, l)' \/ Supplied(s, l)'
  BY <1>1, DeadStays, WaitingStays, SuppliedStays
<1>3. CASE DependenciesReady(pass.seen, S, L) /\ Blocked(pass.seen, S, L)
  BY <1>1, <1>3, <1>d, BlockedDead
<1>4. CASE NothingToDo
  <2>1. RowsOf(rows, S, {L}) # {}
    BY <1>4 DEF NothingToDo
  <2>2. ~DependenciesReady(pass.seen, S, L) \/ Blocked(pass.seen, S, L)
    BY <1>2, <1>4 DEF NothingToDo
  <2> QED BY <1>1, <1>2, <1>3, <1>d, <2>1, <2>2, UnreadyWaits
<1>5. CASE ResolveSources /\ at' # "insert"
  <2>1. config.samples \subseteq Sources(pass, S, L)
    BY <1>1, <1>5, ReadySources, ReaderFacts DEF ResolveSources, Runs
  <2>2. {k \in Sources(pass, S, L) : <<S, L, k>> \notin Existing} = {}
    BY <1>5, <2>1 DEF ResolveSources
  <2>3. ASSUME NEW k \in config.samples PROVE rows[<<S, L, k>>] # "absent"
    <3>1. <<S, L, k>> \in Existing
      BY <2>1, <2>2
    <3>2. <<S, L, k>> \in Exec /\ pass.seen[<<S, L, k>>] # "absent"
      BY <3>1, ConfigFacts DEF Existing, RowsOf, Exec, IInv
    <3> QED BY <3>2 DEF IInv, SeenStays
  <2> QED BY <1>d, <2>3 DEF Supplied
<1>6. ASSUME NEW k \in Key, InsertJob(k), at' # "insert"
      PROVE  Supplied(s, l)'
  <2>1. at = "insert" /\ pass.todo \subseteq {k}
    BY <1>6 DEF InsertJob
  <2>2. config.samples \subseteq Sources(pass, S, L)
    BY <1>1, <2>1, ReadySources DEF IInv, PassOK
  <2>3. rows'[<<S, L, k>>] # "absent"
    BY <1>6, RowFacts DEF InsertJob, IInv, TypeOK
  <2>4. ASSUME NEW j \in config.samples PROVE rows'[<<S, L, j>>] # "absent"
    <3>1. j = k \/ rows[<<S, L, j>>] # "absent"
      BY <2>1, <2>2 DEF Sourced
    <3>2. <<S, L, j>> \in Exec
      BY ReaderFacts DEF Exec, RowKey
    <3> QED BY <2>3, <3>1, <3>2, RowStep DEF IInv, Moves, Opens, Recalls, Orphans, Active
  <2> QED BY <2>4, ConfigStays DEF Supplied
<1>7. CASE Skip
  BY <1>3, <1>7 DEF Skip
<1> QED BY <1>4, <1>5, <1>6, <1>7 DEF Turn

(* A stage comes once in the order.                                        *)
LEMMA NotPassedNow ==
  ASSUME IInv, at \in {"lane", "insert"}
  PROVE  ~PassedBy(S, L)
<1>1. Valid(config) /\ pass.stage \in 1 .. Len(config.order) /\ Len(config.order) \in Nat
      /\ L \in Nat
  BY PipelineAssumption, ConfigFacts DEF IInv, TypeOK, Lane, L
<1>2. \A i \in 1 .. pass.stage - 1 : config.order[i] # S
  BY <1>1 DEF Valid, S
<1> QED BY <1>1, <1>2 DEF PassedBy

LEMMA PassServesStep ==
  ASSUME IInv, IInv', SeenFresh, Sourced, Began, PassServes, [Next]_vars
  PROVE  PassServes'
<1>c. UNCHANGED config
  BY ConfigStays
<1>p. \A s, t, l : /\ ReadsScript(s)' <=> ReadsScript(s)
                   /\ LanesOf(s)' = LanesOf(s)
                   /\ RowsOf(rows, s, {l})' = RowsOf(rows', s, {l})
                   /\ DependencyLanes(s, t, l)' = DependencyLanes(s, t, l)
  BY <1>c DEF ReadsScript, Narrow, LanesOf, RowsOf, DependencyLanes
<1> SUFFICES ASSUME at' \in Working, run' = "pending", NEW s \in Stage, ReadsScript(s),
                    NEW l \in LanesOf(s), PassedBy(s, l)', RowsOf(rows', s, {l}) # {},
                    NEW f \in Exec, Input(s, l, f)'
             PROVE  Dead(s, l)' \/ Waiting(s, l)' \/ Supplied(s, l)'
  BY <1>c, <1>p DEF PassServes
<1>r. run = "pending"
  BY PendingBefore
<1>f. /\ l \in Lane /\ config.input[s] \in config.needs[s] /\ IsScript(f)
      /\ Narrow(s) /\ config.form[s] = "runner" /\ config.form[config.input[s]] = "script"
      /\ f[1] = config.input[s] /\ f[2] \in DependencyLanes(s, config.input[s], l)
      /\ rows'[f] = "completed" /\ f[1] \in Stage
      /\ DependencyLanes(s, config.input[s], l) \subseteq Lane
  BY <1>c, <1>p, ReaderFacts DEF Input, ReadsScript, IsScript
<1>i. ASSUME at \in Working, ~Input(s, l, f)
      PROVE  FinishScript /\ f = ScriptRow /\ rows[f] = "running"
  BY <1>i, <1>f, Settling DEF Input, EndJob
<1>1. CASE at \in Working /\ PassedBy(s, l)
  <2>1. RowsOf(rows, s, {l}) # {}
    <3>1. PICK e \in {s} \X {l} \X RowKey : rows'[e] # "absent"
      BY DEF RowsOf
    <3>2. e \in Exec /\ e[1] = s /\ e[2] = l
      BY <1>f, <3>1 DEF Exec
    <3>3. ~Opens(e)
      BY <1>1, <3>2, NotPassedNow DEF Opens
    <3>4. rows[e] # "absent"
      BY <3>1, <3>2, <3>3, RowStep DEF IInv, Moves, Recalls, Orphans, Active
    <3> QED BY <3>1, <3>4 DEF RowsOf
  <2>2. Input(s, l, f)
    <3> SUFFICES ASSUME ~Input(s, l, f) PROVE FALSE
      OBVIOUS
    <3>1. PICK e \in RowsOf(rows, s, {l}) : TRUE
      BY <2>1
    <3>2. e \in Exec /\ e[1] = s /\ e[2] = l /\ rows[e] # "absent"
      BY <1>f, <3>1 DEF RowsOf, Exec
    <3>3. Finished(rows, config.input[s], DependencyLanes(s, config.input[s], l))
      BY <1>f, <3>2 DEF Began
    <3>4. rows[f] = "running"
      BY <1>1, <1>i
    <3>5. f \in RowsOf(rows, config.input[s], DependencyLanes(s, config.input[s], l))
      BY <1>f, <3>4 DEF RowsOf, Exec
    <3> QED BY <3>3, <3>4, <3>5 DEF Finished, Terminal
  <2>3. Dead(s, l) \/ Waiting(s, l) \/ Supplied(s, l)
    BY <1>1, <1>r, <2>1, <2>2 DEF PassServes
  <2> QED BY <1>1, <2>3, DeadStays, WaitingStays, SuppliedStays
<1>2. ~FetchRows
  <2> SUFFICES ASSUME FetchRows PROVE FALSE
    OBVIOUS
  <2>1. at' = "lane" /\ pass'.stage = 1 /\ L' = 0 /\ pass'.lane = 0
    BY FetchedType DEF FetchRows, IInv, PassOK, Resting, NoPass, L
  <2>2. l \in Nat
    BY <1>f DEF Lane
  <2> QED BY <2>1, <2>2 DEF PassedBy
<1>3. ASSUME NextStage PROVE at \in Working /\ PassedBy(s, l)
  <2>1. at = "next" /\ pass \in Pass /\ pass.stage \in 1 .. Len(config.order)
        /\ Len(config.order) \in Nat /\ l \in Nat
    BY <1>3, <1>f, ConfigFacts DEF NextStage, IInv, TypeOK, Lane
  <2>2. CASE at' = "lane"
    <3>1. pass'.stage = pass.stage + 1 /\ L' = 0
      BY <1>3, <2>1, <2>2, FetchedType DEF NextStage, Pass, IInv, L
    <3>2. PICK i \in 1 .. pass'.stage - 1 : config.order[i] = s
      BY <1>c, <2>1, <2>2, <3>1 DEF PassedBy
    <3>3. i \in 1 .. pass.stage - 1 \/ i = pass.stage
      BY <2>1, <3>1, <3>2
    <3> QED BY <2>1, <3>2, <3>3 DEF PassedBy, S, Working
  <2>3. CASE at' = "tidy"
    <3>1. pass.stage = Len(config.order)
      BY <1>3, <2>1, <2>3 DEF NextStage
    <3>2. Valid(config)
      BY PipelineAssumption DEF IInv, TypeOK
    <3>3. PICK i \in 1 .. Len(config.order) : config.order[i] = s
      BY <3>2 DEF Valid
    <3>4. i \in 1 .. pass.stage - 1 \/ i = pass.stage
      BY <2>1, <3>1, <3>3
    <3> QED BY <2>1, <3>3, <3>4 DEF PassedBy, S, Working
  <2> QED BY <1>3, <2>2, <2>3 DEF NextStage
<1>4. CASE PassStays /\ ~PassedBy(s, l)
  <2>1. at \in Working /\ S' = S /\ pass'.stage = pass.stage
    BY <1>4 DEF PassStays
  <2>2. at' \in Building /\ at \in Building
    BY <1>4, <2>1 DEF PassStays, PassedBy, Working, Building
  <2>3. s = S /\ (l < L' \/ at' = "next") /\ ~(l < L \/ at = "next")
    BY <1>c, <1>4, <2>1, <2>2 DEF PassedBy, Building, Executing
  <2>4. Turn
    BY <1>4, <1>f, <2>2, <2>3, TurnEnds
  <2>5. L \in LanesOf(S) /\ L \in Nat /\ l \in Nat /\ config.lanes \in Nat
    BY <1>f, <2>1, ConfigFacts DEF IInv, PassOK, Lane
  <2>6. \/ at' = "lane" /\ L' = L + 1
        \/ at' = "next" /\ L' = L /\ L + 1 \notin LanesOf(S)
    BY <2>4, TurnGoes
  <2>7. l = L
    <3>1. CASE L' = L + 1 /\ at' = "lane"
      BY <2>3, <2>5, <3>1
    <3>2. CASE L + 1 \notin LanesOf(S)
      BY <2>3, <2>5, <3>2 DEF LanesOf
    <3> QED BY <2>6, <3>1, <3>2
  <2>8. at \in {"lane", "insert"}
    BY <2>4, TurnGoes
  <2>9. Input(S, L, f)
    BY <1>i, <2>1, <2>3, <2>7, <2>8 DEF FinishScript
  <2> QED BY <2>3, <2>4, <2>7, <2>9, TurnServes
<1> QED BY <1>1, <1>2, <1>3, <1>4, PassGoes DEF PassStays

LEMMA ServedStep ==
  ASSUME IInv, Ended, Published, PassServes, Served, [Next]_vars
  PROVE  Served'
<1>c. UNCHANGED config
  BY ConfigStays
<1>p. \A s, t, l : /\ ReadsScript(s)' <=> ReadsScript(s)
                   /\ LanesOf(s)' = LanesOf(s)
                   /\ DependencyLanes(s, t, l)' = DependencyLanes(s, t, l)
  BY <1>c DEF ReadsScript, Narrow, LanesOf, DependencyLanes
<1> SUFFICES ASSUME run' = "pending", NEW s \in Stage, ReadsScript(s), NEW l \in LanesOf(s),
                    NEW f \in Exec, Input(s, l, f)', f \notin files'
             PROVE  Dead(s, l)' \/ Supplied(s, l)'
  BY <1>c, <1>p DEF Served
<1>r. run = "pending"
  BY PendingBefore
<1>f. /\ f[1] = config.input[s] /\ f[2] \in DependencyLanes(s, f[1], l)
      /\ rows'[f] = "completed" /\ config.retention[f[1]] # "none"
      /\ f[1] \in config.needs[s] /\ Narrow(s)
  BY <1>c, <1>p, ReaderFacts DEF Input, ReadsScript
<1>1. Input(s, l, f)
  BY <1>f, CompletedKeeps DEF Input
<1>2. CASE f \notin files
  BY <1>r, <1>1, <1>2, DeadStays, SuppliedStays DEF Served
<1>3. CASE f \in files
  <2>1. /\ at \in {"tidy", "check"}
        /\ Finished(rows, s, {l})
        /\ \A d \in config.needs[s] : Finished(rows, d, DependencyLanes(s, d, l))
    BY <1>3, <1>f, RemovedLate
  <2>2. Dead(s, l) \/ Waiting(s, l) \/ Supplied(s, l)
    BY <1>r, <1>1, <2>1 DEF PassServes, PassedBy, Working, Finished
  <2>3. ~Waiting(s, l)
    <3> SUFFICES ASSUME NEW g \in Needed(s, l), rows[g] \in Active PROVE FALSE
      BY DEF Waiting
    <3>1. rows[g] \in Terminal
      BY <2>1, NeededFacts DEF Finished
    <3> QED BY <3>1 DEF Active, Terminal
  <2> QED BY <2>2, <2>3, DeadStays, SuppliedStays
<1> QED BY <1>2, <1>3

(* Jobs are added by a pass alone.                                         *)
LEMMA Inserted ==
  ASSUME IInv, [Next]_vars, NEW e \in Exec, ~IsScript(e),
         rows[e] # "pending", rows'[e] = "pending"
  PROVE  \E k \in Key : InsertJob(k) /\ e = <<S, L, k>> /\ rows[e] = "absent"
<1>1. ASSUME NEW k \in Key, InsertJob(k) PROVE e = <<S, L, k>> /\ rows[e] = "absent"
  BY <1>1 DEF InsertJob, IInv, TypeOK
<1>2. ~(\/ Poll \/ FetchRows \/ NothingToDo \/ RefuseAmbiguous \/ StartScript
        \/ ReadExit \/ Publish \/ NextStage \/ TidyLanes \/ CheckFinished \/ MarkRun
        \/ CleanFailed \/ Raise \/ LoseScript \/ Abort \/ Crash \/ RemoveOrphans
        \/ EndDispatch \/ CleanCancelled \/ RemoveContainers \/ EndScript
        \/ ReadCandidates \/ CancelSelect \/ \E f \in Exec : EndOrphan(f)
        \/ UNCHANGED vars)
  BY DEF Poll, FetchRows, NothingToDo, RefuseAmbiguous, StartScript, ReadExit, Publish,
     NextStage, TidyLanes, CheckFinished, MarkRun, CleanFailed, Raise, LoseScript, Abort,
     Crash, RemoveOrphans, EndDispatch, CleanCancelled, RemoveContainers, EndScript,
     ReadCandidates, CancelSelect, EndOrphan, vars
<1>3. ~(FailRun \/ CancelRun)
  BY StopMoves DEF FailRun, CancelRun, IInv
<1>4. Resynced(rows)[e] = rows[e]
  BY DEF Resynced, IInv, TypeOK
<1>5. ~(Restart \/ Sync)
  BY <1>4 DEF Restart, Sync
<1>6. ~(\/ Skip \/ ClaimScript \/ FinishScript \/ CancelUpdate
        \/ \E f \in Exec : EndJob(f) \/ FailOrphan(f))
  BY SkippedMoves DEF Skip, ClaimScript, FinishScript, CancelUpdate, EndJob, FailOrphan, IInv,
     TypeOK
<1>7. ~(ResolveSources \/ RefuseEmpty)
  <2> SUFFICES ASSUME ResolveSources \/ RefuseEmpty PROVE FALSE
    OBVIOUS
  <2>1. Synced[e] = rows[e]
    BY <1>4 DEF Synced
  <2>2. rows' = Synced \/ rows' = InsertSkipped(Synced)
    BY DEF ResolveSources, RefuseEmpty
  <2>3. rows'[e] \in {Synced[e], "skipped"}
    BY <2>2, SyncedMoves, SkippedMoves DEF IInv
  <2> QED BY <2>1, <2>3
<1> QED BY <1>1, <1>2, <1>3, <1>5, <1>6, <1>7, NextCases DEF Beside

(* The source of a job that is added has its output.                       *)
LEMMA InsertedHas ==
  ASSUME IInv, OutsKept, Sourced, KeptScripts, Served, run = "pending",
         NEW k \in Key, InsertJob(k), rows[<<S, L, k>>] = "absent",
         config.input[S] # Dataset, Careful(S)
  PROVE  \E f \in files : /\ f[1] = config.input[S]
                          /\ f[2] \in DependencyLanes(S, config.input[S], L)
                          /\ k \in Samples(f)
<1> DEFINE d == config.input[S]
           lanes == DependencyLanes(S, d, L)
<1>1. at = "insert" /\ k \in Sources(pass, S, L)
  BY DEF InsertJob, Sourced
<1>2. PICK f \in SourceRows(pass, S, L) : k \in Samples(f)
  BY <1>1 DEF Sources
<1>3. S \in Stage /\ L \in LanesOf(S) /\ d \in config.needs[S] /\ d \in Stage /\ d # S
      /\ lanes \subseteq Lane
      /\ config.form[S] = "runner"
      /\ DependenciesReady(pass.seen, S, L) /\ ~Blocked(pass.seen, S, L)
  BY <1>1, ConfigFacts, ReaderFacts DEF IInv, PassOK, Working
<1>4. f \in Exec /\ f[1] = d /\ f[2] \in lanes /\ pass.seen[f] = "completed"
      /\ (f \in pass.outs \/ IsScript(f))
  BY <1>2, <1>3 DEF SourceRows, RowsOf, Exec
<1>5. IsScript(f) => rows[f] = "completed"
  BY <1>4 DEF IInv, SeenStays, SeenLate, Readers, Terminal
<1>6. CASE f \in pass.outs
  BY <1>1, <1>2, <1>4, <1>6 DEF OutsKept, Building
<1>7. CASE IsScript(f) /\ config.retention[d] = "keep"
  BY <1>2, <1>4, <1>5, <1>7 DEF KeptScripts
<1>8. CASE IsScript(f) /\ config.if[S] = "success()" /\ Narrow(S)
  <2>1. ReadsScript(S) /\ Input(S, L, f)
    BY <1>3, <1>4, <1>5, <1>8 DEF ReadsScript, Input, IsScript
  <2>2. ~Supplied(S, L)
    BY <1>2, <1>8 DEF Supplied, Samples
  <2>3. ~Dead(S, L)
    <3> SUFFICES ASSUME NEW g \in Needed(S, L), pass.seen[g] # "completed"
                 PROVE  FALSE
      BY DEF Dead
    <3>1. g[1] \in config.needs[S] /\ g \in RowsOf(rows, g[1], DependencyLanes(S, g[1], L))
          /\ g[1] \in Stage /\ DependencyLanes(S, g[1], L) \subseteq Lane /\ g[1] # S
      BY <1>3, NeededFacts, ReaderFacts, ConfigFacts DEF IInv
    <3>2. Finished(pass.seen, g[1], DependencyLanes(S, g[1], L)) /\ at \in Working
      BY <1>1, <1>3, <3>1 DEF DependenciesReady, Working
    <3>3. g \in RowsOf(pass.seen, g[1], DependencyLanes(S, g[1], L))
      BY <3>1, <3>2, FinishedStays
    <3> QED BY <1>3, <1>8, <3>1, <3>3 DEF Blocked
  <2>4. f \in files
    BY <1>3, <1>4, <2>1, <2>2, <2>3 DEF Served
  <2> QED BY <1>2, <1>4, <2>4
<1> QED BY <1>4, <1>6, <1>7, <1>8 DEF Careful, IsScript

LEMMA InputsStep ==
  ASSUME IInv, Ended, OutsKept, Sourced, KeptScripts, Served, InputsAreKept, [Next]_vars
  PROVE  InputsAreKept'
<1>c. UNCHANGED config
  BY ConfigStays
<1>p. \A s, t, l, f : /\ Careful(s)' <=> Careful(s)
                      /\ DependencyLanes(s, t, l)' = DependencyLanes(s, t, l)
                      /\ Samples(f)' = Samples(f)
                      /\ IsScript(f)' <=> IsScript(f)
  BY <1>c DEF Careful, Narrow, DependencyLanes, Samples, IsScript
<1> SUFFICES ASSUME run' = "pending", NEW e \in Exec, rows'[e] = "pending", ~IsScript(e),
                    config.input[e[1]] # Dataset, Careful(e[1])
             PROVE  \E f \in files' :
                      /\ f[1] = config.input[e[1]]
                      /\ f[2] \in DependencyLanes(e[1], config.input[e[1]], e[2])
                      /\ e[3] \in Samples(f)
  BY <1>c, <1>p DEF InputsAreKept
<1>r. run = "pending"
  BY PendingBefore
<1>1. CASE rows[e] = "pending"
  <2>1. PICK f \in files : /\ f[1] = config.input[e[1]]
                           /\ f[2] \in DependencyLanes(e[1], config.input[e[1]], e[2])
                           /\ e[3] \in Samples(f)
    BY <1>r, <1>1 DEF InputsAreKept
  <2>2. e[1] \in Stage /\ e[2] \in LanesOf(e[1])
    BY <1>1 DEF IInv, RowsInLanes, Exec
  <2>3. config.retention[f[1]] # "none"
    BY <2>1, <2>2, ReaderFacts
  <2>4. ASSUME f \notin files' PROVE FALSE
    <3>1. Finished(rows, e[1], {e[2]})
      BY <2>1, <2>2, <2>3, <2>4, RemovedLate
    <3>2. e \in RowsOf(rows, e[1], {e[2]})
      BY <1>1 DEF RowsOf, Exec
    <3> QED BY <1>1, <3>1, <3>2 DEF Finished, Terminal
  <2> QED BY <2>1, <2>4
<1>2. CASE rows[e] # "pending"
  <2>1. PICK k \in Key : InsertJob(k) /\ e = <<S, L, k>> /\ rows[e] = "absent"
    BY <1>2, Inserted
  <2>2. UNCHANGED files
    BY <2>1 DEF InsertJob
  <2>3. e[1] = S /\ e[2] = L /\ e[3] = k
    BY <2>1
  <2> QED BY <1>r, <2>1, <2>2, <2>3, InsertedHas
<1> QED BY <1>1, <1>2

LEMMA InputsInit == Init => InputsInv
<1> SUFFICES ASSUME Init PROVE InputsInv
  OBVIOUS
<1>1. IInv
  BY InvInit
<1>2. OneRow /\ Ended /\ SeenFresh /\ OutsKept /\ Sourced /\ Published /\ Began /\ KeptScripts
      /\ PassServes /\ InputsAreKept
  BY DEF Init, OneRow, Ended, SeenFresh, OutsKept, Sourced, Published, Began, KeptScripts,
     PassServes, InputsAreKept, NoRows, Building, Working, Executing
<1>3. Served
  BY DEF Init, Served, Input, NoRows
<1> QED BY <1>1, <1>2, <1>3 DEF InputsInv

LEMMA InputsInvStep == InputsInv /\ [Next]_vars => InputsInv'
  BY InvStep, OneRowStep, EndedStep, SeenFreshStep, OutsKeptStep, SourcedStep, PublishedStep,
     BeganStep, KeptScriptsStep, PassServesStep, ServedStep, InputsStep
  DEF InputsInv

(* No cleanup of a pass takes what a job that has not settled reads,       *)
(* whatever the crashes, errors, cancelled jobs and commands among the     *)
(* inserts of a stage's jobs.                                              *)
THEOREM InputsKept == Spec => []InputsAreKept
<1>1. InputsInv => InputsAreKept
  BY DEF InputsInv
<1> QED BY <1>1, InputsInit, InputsInvStep, PTL DEF Spec
=============================================================================
