----------------------------- MODULE Pipelines ------------------------------
(***************************************************************************)
(* One pipeline run: reconcile_pipelines in the scheduler's thread, which  *)
(* materializes stages from a snapshot of the run's rows and executes      *)
(* scripts itself; the batches dispatched between two passes; and, in      *)
(* other processes, the commands of a user and a crash of the service.     *)
(* A transaction or a call of the container engine is one action.          *)
(***************************************************************************)
EXTENDS Naturals, Sequences, FiniteSets

CONSTANTS
  Stage,       \* stage ids
  Definition,  \* the pipeline definitions a run may have (load_pipeline)
  MaxLanes,    \* matrix lanes a run has at most
  Key,         \* external_keys of samples
  Script,      \* "__script__", the external_key of a script's row
  Empty,       \* "__empty__", the external_key of a skipped runner stage's
  MaxFaults,   \* bound: crashes, database errors, lost answers of the engine
  MaxSyncs,    \* bound: commands that sync the reference state
  MaxCancels   \* bound: jobs selected by `job cancel`

Lane == 0 .. MaxLanes - 1

(* lanes: how many the matrix has.  samples: what the dataset target       *)
(* matches.  form: a runner and its jobs, or an image and a script.        *)
(* input: the dataset, or the stage whose outputs are read.                *)
Dataset == "dataset"

DefinitionType ==
  [lanes     : 1 .. MaxLanes,
   samples   : SUBSET Key,
   order     : Seq(Stage),
   needs     : [Stage -> SUBSET Stage],
   scope     : [Stage -> {"matrix", "pipeline"}],
   form      : [Stage -> {"runner", "script"}],
   if        : [Stage -> {"success()", "always()"}],
   retention : [Stage -> {"keep", "pipeline", "matrix", "none"}],
   input     : [Stage -> Stage \cup {Dataset}]]

(* What load_pipeline checks.  Stages come in any order: JSONB sorts the    *)
(* keys of an object.                                                      *)
Valid(d) ==
  /\ d \in DefinitionType
  /\ \A s \in Stage : \E i \in 1 .. Len(d.order) : d.order[i] = s
  /\ \A i, k \in 1 .. Len(d.order) : d.order[i] = d.order[k] => i = k
  /\ \A T \in (SUBSET Stage) \ {{}} : \E s \in T : d.needs[s] \cap T = {}
  /\ \A s \in Stage : d.input[s] # Dataset =>
       d.input[s] \in d.needs[s] /\ d.retention[d.input[s]] # "none"

ASSUME PipelineAssumption ==
  /\ MaxLanes \in Nat \ {0}
  /\ Stage # {} /\ Dataset \notin Stage
  /\ Script \notin Key /\ Empty \notin Key /\ Script # Empty
  /\ \A d \in Definition : Valid(d)
  /\ MaxFaults \in Nat /\ MaxSyncs \in Nat /\ MaxCancels \in Nat

VARIABLES
  config,   \* pipeline_runs.config_json
  run,      \* pipeline_runs.status
  rows,     \* [Exec -> Status]: COALESCE(job.status, stage.status)
  files,    \* executions whose output is on disk and recorded
  box,      \* the container of the script the thread executes
  orphans,  \* scripts whose container a crashed service has left running
  strays,   \* those whose container runs on after the engine failed to remove it
  at,       \* where the scheduler's thread is
  pass,     \* its locals in a pass over the run
  cli,      \* the process of `pipeline cancel`
  asked,    \* pending jobs `job cancel` has selected
  gone,     \* pending jobs the claim of a batch has selected, of a missing runner
  late,     \* completed jobs that were cancelled all the same
  faults, syncs, cancels   \* what the bounds count

vars == <<config, run, rows, files, box, orphans, strays, at, pass, cli, asked, gone, late,
          faults, syncs, cancels>>
containers == <<box, orphans, strays>>
bounds == <<faults, syncs, cancels>>

-----------------------------------------------------------------------------
(* Types *)

RowKey == Key \cup {Script, Empty}
Exec == Stage \X Lane \X RowKey

Terminal == {"completed", "failed", "cancelled", "skipped"}
Active == {"pending", "running"}
Status == {"absent"} \cup Active \cup Terminal
Box == {"none", "running", "ok", "failed"}

NoRows == [e \in Exec |-> "absent"]

(* seen, outs: the rows fetched last.  todo: keys without their job yet.   *)
Pass == [stage : Nat, lane : Nat, seen : [Exec -> Status], outs : SUBSET Exec,
         changed : BOOLEAN, todo : SUBSET Key, got : {"none", "ok", "failed"}]

NoPass == [stage |-> 1, lane |-> 0, seen |-> NoRows, outs |-> {},
           changed |-> FALSE, todo |-> {}, got |-> "none"]

TypeOK ==
  /\ config \in Definition
  /\ run \in {"pending", "completed", "failed", "cancelled"}
  /\ rows \in [Exec -> Status]
  /\ files \subseteq Exec
  /\ box \in Box
  /\ orphans \subseteq Exec /\ strays \subseteq Exec
  /\ at \in {"idle", "fetch", "lane", "insert", "start", "wait", "publish", "finish",
             "next", "tidy", "check", "mark", "dispatch", "fail", "clean", "down",
             "boot"}
  /\ pass \in Pass
  /\ pass.stage \in 1 .. Len(config.order)
  /\ pass.lane \in Lane
  /\ cli \in {"ready", "clean", "remove", "done"}
  /\ asked \subseteq Exec /\ gone \subseteq Exec /\ late \subseteq Exec
  /\ faults \in 0 .. MaxFaults
  /\ syncs \in 0 .. MaxSyncs
  /\ cancels \in 0 .. MaxCancels

Init ==
  /\ config \in Definition
  /\ run = "pending"
  /\ rows = NoRows
  /\ files = {}
  /\ box = "none" /\ orphans = {} /\ strays = {}
  /\ at = "idle"
  /\ pass = NoPass
  /\ cli = "ready"
  /\ asked = {} /\ gone = {} /\ late = {}
  /\ faults = 0 /\ syncs = 0 /\ cancels = 0

-----------------------------------------------------------------------------
(* Reading the rows *)

IsScript(e) == config.form[e[1]] = "script"

(* _stage_execution_lanes                                                  *)
LanesOf(s) == IF config.scope[s] = "pipeline" THEN {0} ELSE 0 .. config.lanes - 1

(* _stage_rows                                                             *)
RowsOf(r, s, lanes) == {e \in {s} \X lanes \X RowKey : r[e] # "absent"}

(* _dependency_lane_index; None is every lane.                             *)
DependencyLanes(s, d, l) ==
  IF config.scope[d] = "pipeline" THEN {0}
  ELSE IF config.scope[s] = "matrix" THEN {l} ELSE Lane

(* _execution_finished                                                     *)
Finished(r, s, lanes) ==
  /\ RowsOf(r, s, lanes) # {}
  /\ \A e \in RowsOf(r, s, lanes) : r[e] \in Terminal

(* Mutant: a dependency that has not begun is no reason to wait.           *)
NotUnfinished(r, s, l) ==
  \A d \in config.needs[s] : \A e \in RowsOf(r, d, DependencyLanes(s, d, l)) :
    r[e] \in Terminal

(* _dependencies_ready                                                     *)
DependenciesReady(r, s, l) ==
  \A d \in config.needs[s] : Finished(r, d, DependencyLanes(s, d, l))

(* A "success()" stage whose dependencies did not all complete.            *)
Blocked(r, s, l) ==
  /\ config.if[s] = "success()"
  /\ \E d \in config.needs[s] : \E e \in RowsOf(r, d, DependencyLanes(s, d, l)) :
       r[e] # "completed"

(* _stage_output_sources: the completed rows that list output files; the   *)
(* cleanup of a script's directory leaves its row as it is.                *)
SourceRows(p, s, l) ==
  {e \in RowsOf(p.seen, config.input[s], DependencyLanes(s, config.input[s], l)) :
     p.seen[e] = "completed" /\ (e \in p.outs \/ IsScript(e))}

(* The samples a row has output for: its own, or those a script names.     *)
Samples(e) == Key \cap (IF IsScript(e) THEN config.samples ELSE {e[3]})

Sources(p, s, l) ==
  IF config.input[s] = Dataset THEN config.samples
  ELSE UNION {Samples(e) : e \in SourceRows(p, s, l)}

(* _matching_source raises when a sample comes from two rows.              *)
Ambiguous(p, s, l, k) ==
  /\ config.input[s] # Dataset
  /\ \E e, f \in SourceRows(p, s, l) : e # f /\ k \in Samples(e) \cap Samples(f)

-----------------------------------------------------------------------------
(* Writing them *)

(* SCHEMA_SQL of ensure_schema and sync_reference_state.                   *)
Resynced(r) ==
  [e \in Exec |-> IF IsScript(e) /\ r[e] = "running" THEN "pending" ELSE r[e]]

(* _stop_pipeline_run; the caller has checked that the run is pending.     *)
StopRun(status) ==
  /\ run' = status
  /\ rows' = [e \in Exec |-> IF rows[e] \in Active THEN "cancelled" ELSE rows[e]]

(* _effective_retention                                                    *)
Retention(s) ==
  IF config.retention[s] = "matrix" /\ config.scope[s] = "pipeline"
  THEN "pipeline" ELSE config.retention[s]

Transient == {"pipeline", "matrix", "none"}

(* cleanup_pipeline_outputs: of the retentions, stages and lanes given.    *)
Kept(retentions, stages, lanes) ==
  {e \in files : ~(/\ Retention(e[1]) \in retentions
                   /\ e[1] \in stages
                   /\ e[2] \in lanes)}

(* _cleanup_none_outputs, for the executions finished in r.                *)
KeptNone(r) ==
  {e \in files : ~(/\ Retention(e[1]) = "none"
                   /\ e[2] \in LanesOf(e[1])
                   /\ Finished(r, e[1], {e[2]}))}

(* Mutant: the lane's own stages are enough.                               *)
MatrixStagesFinished(r, l) ==
  \A s \in Stage : config.scope[s] = "matrix" => Finished(r, s, {l})

(* A lane is finished with the pipeline's stages only.                     *)
LaneFinished(r, l) ==
  \A s \in Stage : Finished(r, s, IF config.scope[s] = "matrix" THEN {l} ELSE {0})

-----------------------------------------------------------------------------
(* A pass of the scheduler's thread over the run *)

S == config.order[pass.stage]
L == pass.lane

ScriptRow == <<S, L, Script>>
SkippedRow == IF config.form[S] = "script" THEN ScriptRow ELSE <<S, L, Empty>>
Existing == RowsOf(pass.seen, S, {L})

Outside == UNCHANGED <<config, cli, asked, late, bounds>>

(* The lane is done; the next one, or what follows the stage's last.       *)
NextLane(p) ==
  IF L + 1 \in LanesOf(S)
  THEN at' = "lane" /\ pass' = [p EXCEPT !.lane = L + 1]
  ELSE at' = "next" /\ pass' = p

EndPass(point) == at' = point /\ pass' = NoPass

(* fetch_pipeline_runs lists the run; its status is not read again.        *)
Poll ==
  /\ at = "idle"
  /\ at' = IF run = "pending" THEN "fetch" ELSE "dispatch"
  /\ UNCHANGED <<run, rows, files, containers, gone, pass>>
  /\ Outside

(* fetch_pipeline_stage_executions with the cleanup that follows it.       *)
Fetched(p) == [p EXCEPT !.seen = rows, !.outs = KeptNone(rows)]

FetchRows ==
  /\ at = "fetch"
  /\ at' = "lane"
  /\ pass' = Fetched(pass)
  /\ files' = KeptNone(rows)
  /\ UNCHANGED <<run, rows, containers, gone>>
  /\ Outside

(* _materialize_*_stage returns False: not ready, or materialized before.  *)
NothingToDo ==
  /\ at = "lane"
  /\ \/ ~DependenciesReady(pass.seen, S, L)
     \/ /\ Existing # {}
        /\ \/ Blocked(pass.seen, S, L)
           \/ config.form[S] = "script" /\ \E e \in Existing : pass.seen[e] # "pending"
  /\ NextLane(pass)
  /\ UNCHANGED <<run, rows, files, containers, gone>>
  /\ Outside

(* Mutant: a stage that is skipped gets no row.                            *)
SkipSilently(r) == r

(* insert_pipeline_stage_execution with ON CONFLICT DO NOTHING.            *)
InsertSkipped(r) ==
  IF r[SkippedRow] = "absent" THEN [r EXCEPT ![SkippedRow] = "skipped"] ELSE r

Skip ==
  /\ at = "lane"
  /\ DependenciesReady(pass.seen, S, L)
  /\ Blocked(pass.seen, S, L)
  /\ Existing = {}
  /\ rows' = InsertSkipped(rows)
  /\ NextLane([pass EXCEPT !.changed = TRUE])
  /\ UNCHANGED <<run, files, containers, gone>>
  /\ Outside

Runs(form) ==
  /\ at = "lane"
  /\ config.form[S] = form
  /\ DependenciesReady(pass.seen, S, L)
  /\ ~Blocked(pass.seen, S, L)

(* sync_reference_state, when the stage has no row yet ...                  *)
Synced == IF Existing = {} THEN Resynced(rows) ELSE rows

(* ... and the sources: a dataset target must match some samples.          *)
Matched == config.input[S] = Dataset => config.samples # {}

RefuseEmpty ==
  /\ Runs("runner")
  /\ ~Matched
  /\ at' = "fail"
  /\ rows' = Synced
  /\ UNCHANGED <<run, files, containers, gone, pass>>
  /\ Outside

ResolveSources ==
  LET found == Sources(pass, S, L)
      new == {k \in found : <<S, L, k>> \notin Existing}
  IN
  /\ Runs("runner")
  /\ Matched
  /\ \/ /\ new # {}
        /\ at' = "insert"
        /\ pass' = [pass EXCEPT !.todo = new]
        /\ rows' = Synced
     \/ /\ found = {} /\ config.needs[S] # {} /\ Existing = {}
        /\ rows' = InsertSkipped(Synced)
        /\ NextLane([pass EXCEPT !.changed = TRUE])
     \/ /\ new = {}
        /\ ~(found = {} /\ config.needs[S] # {} /\ Existing = {})
        /\ rows' = Synced
        /\ NextLane(pass)
  /\ UNCHANGED <<run, files, containers, gone>>
  /\ Outside

(* insert_pipeline_stage_job: the row and its job.  The status of the run  *)
(* is not looked at.                                                       *)
InsertJob(k) ==
  LET e == <<S, L, k>>
      rest == [pass EXCEPT !.todo = @ \ {k},
                           !.changed = @ \/ rows[e] = "absent"]
  IN
  /\ at = "insert"
  /\ k \in pass.todo
  /\ ~Ambiguous(pass, S, L, k)
  /\ rows' = IF rows[e] = "absent" THEN [rows EXCEPT ![e] = "pending"] ELSE rows
  /\ IF rest.todo = {} THEN NextLane(rest) ELSE at' = "insert" /\ pass' = rest
  /\ UNCHANGED <<run, files, containers, gone>>
  /\ Outside

(* claim_pipeline_script_stage_execution; nor is it here.                  *)
ClaimScript ==
  /\ Runs("script")
  /\ \A e \in Existing : pass.seen[e] = "pending"
  /\ IF rows[ScriptRow] \in {"absent", "pending"}
     THEN /\ rows' = [rows EXCEPT ![ScriptRow] = "running"]
          /\ at' = "start"
          /\ UNCHANGED pass
     ELSE NextLane(pass) /\ UNCHANGED rows
  /\ UNCHANGED <<run, files, containers, gone>>
  /\ Outside

(* run_script_container gives up: the finally clause deletes the container *)
(* and goes on when the engine fails to, with the container left running.  *)
GiveUp(left) ==
  /\ at' = "finish"
  /\ pass' = [pass EXCEPT !.got = "failed"]
  /\ box' = "none"
  /\ strays' = strays \cup left

(* The container is created and started, or it is not.                     *)
StartScript ==
  /\ at = "start"
  /\ \/ at' = "wait" /\ box' = "running" /\ UNCHANGED <<pass, strays>>
     \/ GiveUp({})
  /\ UNCHANGED <<run, rows, files, orphans, gone>>
  /\ Outside

(* The log stream has ended and the exit code is read; of a container that *)
(* somebody else removed it cannot be.  One that has exited does nothing   *)
(* any more, deleted or not.                                               *)
ReadExit ==
  /\ at = "wait"
  /\ box # "running"
  /\ \/ /\ box = "ok"
        /\ at' = "publish"
        /\ pass' = [pass EXCEPT !.got = "ok"]
        /\ UNCHANGED <<box, strays>>
     \/ box # "ok" /\ GiveUp({})
  /\ UNCHANGED <<run, rows, files, orphans, gone>>
  /\ Outside

Own == IF box = "running" THEN {ScriptRow} ELSE {}

(* The engine works, but its answer is lost: of the start, or of the log   *)
(* stream or the inspection; the deletion may fail as well.                *)
LoseScript ==
  /\ faults < MaxFaults
  /\ faults' = faults + 1
  /\ \/ at = "start" /\ GiveUp({ScriptRow})
     \/ at = "wait" /\ \E left \in SUBSET Own : GiveUp(left)
  /\ UNCHANGED <<config, run, rows, files, orphans, cli, asked, gone, late, syncs, cancels>>

(* _publish_script_workspace, where an error while copying fails the       *)
(* script, and the finally clause.                                         *)
Publish ==
  /\ at = "publish"
  /\ at' = "finish"
  /\ \/ /\ files' = IF config.retention[S] = "none" THEN files
                    ELSE files \cup {ScriptRow}
        /\ UNCHANGED pass
     \/ /\ pass' = [pass EXCEPT !.got = "failed"]
        /\ UNCHANGED files
  /\ box' = "none"
  /\ UNCHANGED <<run, rows, orphans, strays, gone>>
  /\ Outside

(* Mutant: what the container returned becomes the status.                 *)
FinishRaw ==
  /\ at = "finish"
  /\ rows' = IF rows[ScriptRow] # "running" THEN rows
             ELSE [rows EXCEPT ![ScriptRow] = pass.got]
  /\ NextLane([pass EXCEPT !.changed = TRUE, !.got = "none"])
  /\ UNCHANGED <<run, files, containers, gone>>
  /\ Outside

(* Mutant: the result is written over whatever the row has become.         *)
FinishAnyway ==
  /\ at = "finish"
  /\ rows' = [rows EXCEPT ![ScriptRow] = IF pass.got = "ok" THEN "completed" ELSE "failed"]
  /\ NextLane([pass EXCEPT !.changed = TRUE, !.got = "none"])
  /\ UNCHANGED <<run, files, containers, gone>>
  /\ Outside

(* finish_pipeline_script_stage_execution: WHERE status = 'running'.       *)
FinishScript ==
  /\ at = "finish"
  /\ rows' = IF rows[ScriptRow] # "running" THEN rows
             ELSE [rows EXCEPT ![ScriptRow] =
                     IF pass.got = "ok" THEN "completed" ELSE "failed"]
  /\ NextLane([pass EXCEPT !.changed = TRUE, !.got = "none"])
  /\ UNCHANGED <<run, files, containers, gone>>
  /\ Outside

(* The stage is done: the rows are fetched again if it changed any.        *)
NextStage ==
  LET p == IF pass.changed THEN Fetched(pass) ELSE pass IN
  /\ at = "next"
  /\ files' = IF pass.changed THEN KeptNone(rows) ELSE files
  /\ IF pass.stage < Len(config.order)
     THEN /\ at' = "lane"
          /\ pass' = [p EXCEPT !.stage = @ + 1, !.lane = 0, !.changed = FALSE]
     ELSE at' = "tidy" /\ pass' = [p EXCEPT !.lane = 0, !.changed = FALSE]
  /\ UNCHANGED <<run, rows, containers, gone>>
  /\ Outside

(* _cleanup_finished_matrix_lanes                                          *)
TidyLanes ==
  /\ at = "tidy"
  /\ at' = "check"
  /\ files' = Kept({"matrix"}, Stage, {l \in 0 .. config.lanes - 1 : LaneFinished(pass.seen, l)})
  /\ UNCHANGED <<run, rows, containers, gone, pass>>
  /\ Outside

AllFinished(r) == \A s \in Stage : \A l \in LanesOf(s) : Finished(r, s, {l})

(* _finish_if_terminal up to its cleanup.                                  *)
CheckFinished ==
  /\ at = "check"
  /\ IF AllFinished(pass.seen)
     THEN /\ files' = Kept(Transient, Stage, Lane)
          /\ at' = "mark"
          /\ UNCHANGED pass
     ELSE EndPass("dispatch") /\ UNCHANGED files
  /\ UNCHANGED <<run, rows, containers, gone>>
  /\ Outside

(* Mutant: a cancelled execution is not counted as a failure.              *)
MarkFailedOnly ==
  /\ at = "mark"
  /\ run' = IF run # "pending" THEN run
            ELSE IF \E e \in Exec : pass.seen[e] = "failed"
            THEN "failed" ELSE "completed"
  /\ EndPass("dispatch")
  /\ UNCHANGED <<rows, files, containers, gone>>
  /\ Outside

(* mark_pipeline_run_terminal: WHERE status = 'pending'.                   *)
MarkRun ==
  /\ at = "mark"
  /\ run' = IF run # "pending" THEN run
            ELSE IF \E e \in Exec : pass.seen[e] \in {"failed", "cancelled"}
            THEN "failed" ELSE "completed"
  /\ EndPass("dispatch")
  /\ UNCHANGED <<rows, files, containers, gone>>
  /\ Outside

-----------------------------------------------------------------------------
(* Errors in a pass, and the service's crash *)

InPass == at \in {"fetch", "lane", "insert", "finish", "next", "tidy", "check", "mark"}

RefuseAmbiguous ==
  /\ at = "insert"
  /\ \E k \in pass.todo : Ambiguous(pass, S, L, k)
  /\ at' = "fail"
  /\ UNCHANGED <<run, rows, files, containers, gone, pass>>
  /\ Outside

(* A runner, a dataset or a file is gone.                                  *)
Raise ==
  /\ InPass
  /\ at' = "fail"
  /\ UNCHANGED <<run, rows, files, containers, gone, pass>>
  /\ Outside

(* fail_pipeline_run; a ValueError says that the run has ended meanwhile.  *)
FailRun ==
  /\ at = "fail"
  /\ IF run = "pending"
     THEN StopRun("failed") /\ EndPass("clean")
     ELSE EndPass("dispatch") /\ UNCHANGED <<run, rows>>
  /\ UNCHANGED <<files, containers, gone>>
  /\ Outside

CleanFailed ==
  /\ at = "clean"
  /\ at' = "dispatch"
  /\ files' = Kept(Transient, Stage, Lane)
  /\ UNCHANGED <<run, rows, containers, gone, pass>>
  /\ Outside

(* The database is out of reach, for fail_pipeline_run too, or the cleanup *)
(* after it fails: the pass ends in scheduler_loop, which starts over.     *)
Abort ==
  /\ InPass \/ at \in {"fail", "clean"}
  /\ faults < MaxFaults
  /\ faults' = faults + 1
  /\ EndPass("idle")
  /\ UNCHANGED <<config, run, rows, files, containers, cli, asked, gone, late, syncs, cancels>>

Crash ==
  /\ at # "down"
  /\ faults < MaxFaults
  /\ faults' = faults + 1
  /\ EndPass("down")
  /\ orphans' = orphans \cup Own
  /\ box' = "none"
  /\ gone' = {}
  /\ UNCHANGED <<config, run, rows, files, strays, cli, asked, late, syncs, cancels>>

(* run_service: ensure_schema and sync_reference_state ...                 *)
Restart ==
  /\ at = "down"
  /\ at' = "boot"
  /\ rows' = Resynced(rows)
  /\ UNCHANGED <<run, files, containers, gone, pass>>
  /\ Outside

(* Mutant: the scripts of the last run of the service are left alone.      *)
KeepOrphans ==
  /\ at = "boot"
  /\ at' = "idle"
  /\ UNCHANGED <<run, rows, files, containers, gone, pass>>
  /\ Outside

(* remove_script_containers goes on when the engine fails to delete a      *)
(* container, and its caller when it fails to list them.                   *)
RemoveLeft ==
  /\ orphans' = {}
  /\ strays' \in SUBSET (orphans \cup strays)

(* ... and remove_script_containers, before the scheduler's thread starts. *)
RemoveOrphans ==
  /\ at = "boot"
  /\ at' = "idle"
  /\ RemoveLeft
  /\ UNCHANGED <<run, rows, files, box, gone, pass>>
  /\ Outside

-----------------------------------------------------------------------------
(* Batches, containers, and other processes *)

Recon == UNCHANGED <<at, pass>>

(* A job of the run settles in a batch: the thread that reconciles is the  *)
(* one that dispatches, after a pass.                                      *)
EndJob(e) ==
  /\ at = "dispatch"
  /\ ~IsScript(e)
  /\ rows[e] = "pending"
  /\ \/ /\ rows' = [rows EXCEPT ![e] = "completed"]
        /\ files' = files \cup {e}
     \/ /\ rows' = [rows EXCEPT ![e] = "failed"]
        /\ UNCHANGED files
  /\ gone' = {}
  /\ Recon
  /\ UNCHANGED <<run, containers>>
  /\ Outside

(* claim_pending_batch reads its candidates, some of a runner that is not  *)
(* in the catalog any more ...                                             *)
ReadCandidates ==
  /\ at = "dispatch"
  /\ \E missing \in SUBSET Stage :
       gone' = {e \in Exec : ~IsScript(e) /\ rows[e] = "pending" /\ e[1] \in missing}
  /\ Recon
  /\ UNCHANGED <<run, rows, files, containers>>
  /\ Outside

(* ... and fails each of those, whatever it has become.                    *)
FailOrphan(e) ==
  /\ e \in gone
  /\ gone' = gone \ {e}
  /\ rows' = [rows EXCEPT ![e] = "failed"]
  /\ Recon
  /\ UNCHANGED <<run, files, containers>>
  /\ Outside

(* There may be nothing to dispatch, or a batch that leaves jobs pending.  *)
EndDispatch ==
  /\ at = "dispatch"
  /\ at' = "idle"
  /\ gone' = {}
  /\ UNCHANGED <<run, rows, files, containers, pass>>
  /\ Outside

(* The script ends, or its timer kills it.                                 *)
EndScript ==
  /\ box = "running"
  /\ box' \in {"ok", "failed"}
  /\ Recon
  /\ UNCHANGED <<run, rows, files, orphans, strays, gone>>
  /\ Outside

(* A script that nobody waits for may end too.                             *)
EndOrphan(e) ==
  /\ e \in orphans \cup strays
  /\ orphans' = orphans \ {e}
  /\ strays' = strays \ {e}
  /\ Recon
  /\ UNCHANGED <<run, rows, files, box, gone>>
  /\ Outside

(* `pipeline cancel`: the transaction ...                                  *)
CancelRun ==
  /\ cli = "ready"
  /\ run = "pending"
  /\ StopRun("cancelled")
  /\ cli' = "clean"
  /\ Recon
  /\ UNCHANGED <<config, files, containers, asked, gone, late, bounds>>

(* ... cleanup_pipeline_outputs ...                                        *)
CleanCancelled ==
  /\ cli = "clean"
  /\ cli' = "remove"
  /\ files' = Kept(Transient, Stage, Lane)
  /\ Recon
  /\ UNCHANGED <<config, run, rows, containers, asked, gone, late, bounds>>

(* ... and remove_script_containers of the run, which may fail as well.    *)
RemoveContainers ==
  /\ cli = "remove"
  /\ cli' = "done"
  /\ box' \in {box, "none"}
  /\ RemoveLeft
  /\ Recon
  /\ UNCHANGED <<config, run, rows, files, asked, gone, late, bounds>>

(* `job cancel`, cancel_jobs: the jobs that match are read ...              *)
CancelSelect ==
  /\ asked = {}
  /\ asked' \in (SUBSET {e \in Exec : ~IsScript(e) /\ rows[e] = "pending"}) \ {{}}
  /\ cancels' = cancels + Cardinality(asked')
  /\ cancels' \in 0 .. MaxCancels
  /\ Recon
  /\ UNCHANGED <<config, run, rows, files, containers, cli, gone, late, faults, syncs>>

(* ... and those that were pending written, whatever they have become: the *)
(* read locks nothing, and the UPDATE names their job_ids only.            *)
CancelUpdate ==
  /\ asked # {}
  /\ asked' = {}
  /\ rows' = [e \in Exec |-> IF e \in asked THEN "cancelled" ELSE rows[e]]
  /\ late' = late \cup {e \in asked : rows[e] = "completed"}
  /\ Recon
  /\ UNCHANGED <<config, run, files, containers, cli, gone, bounds>>

(* Any command that calls ensure_schema or sync_reference_state.           *)
Sync ==
  /\ syncs < MaxSyncs
  /\ syncs' = syncs + 1
  /\ rows' = Resynced(rows)
  /\ Recon
  /\ UNCHANGED <<config, run, files, containers, cli, asked, gone, late, faults, cancels>>

-----------------------------------------------------------------------------
Materialize ==
  \/ NothingToDo \/ Skip \/ RefuseEmpty \/ ResolveSources \/ ClaimScript
  \/ RefuseAmbiguous \/ \E k \in Key : InsertJob(k)

Execute == StartScript \/ ReadExit \/ Publish \/ FinishScript

Reconcile ==
  \/ Poll \/ FetchRows \/ Materialize \/ Execute \/ NextStage \/ TidyLanes
  \/ CheckFinished \/ MarkRun \/ FailRun \/ CleanFailed

Next ==
  \/ Reconcile \/ Raise \/ LoseScript \/ Abort \/ Crash \/ Restart \/ RemoveOrphans
  \/ ReadCandidates \/ EndDispatch \/ EndScript \/ CancelRun \/ CleanCancelled \/ RemoveContainers
  \/ CancelSelect \/ CancelUpdate \/ Sync
  \/ \E e \in Exec : EndJob(e) \/ FailOrphan(e) \/ EndOrphan(e)

Spec == Init /\ [][Next]_vars

(* The scheduler's thread goes on, jobs settle while batches are           *)
(* dispatched, a script ends by itself or by its timer, and a service that *)
(* crashed is started again.  No command has to be given or finished.      *)
FairSpec ==
  /\ Spec
  /\ WF_vars(Reconcile)
  /\ WF_vars(Restart) /\ WF_vars(RemoveOrphans)
  /\ WF_vars(EndDispatch)
  /\ SF_vars(\E e \in Exec : EndJob(e))
  /\ WF_vars(EndScript)

-----------------------------------------------------------------------------
(* Properties *)

(* A job or a script of a stage begins with this step.                     *)
Begins(e) == rows[e] = "absent" /\ rows'[e] \in Active

(* A stage begins when each dependency, in its own lane or for the whole   *)
(* pipeline, has rows that are all terminal, all of them completed unless  *)
(* it is an always() stage: also after a crash among the inserts of the    *)
(* dependency's jobs, and with the rows of an old snapshot.  A job that    *)
(* had completed and was cancelled by a late UPDATE counts as completed.   *)
(* That a lane may have no row yet is WaitsForAllLanes.                    *)
StartsAfterDependencies ==
  [][\A e \in Exec : Begins(e) =>
       \A d \in config.needs[e[1]] :
         LET lanes == DependencyLanes(e[1], d, e[2]) IN
         /\ Finished(rows, d, lanes)
         /\ config.if[e[1]] = "success()" =>
              \A f \in RowsOf(rows, d, lanes) : rows[f] = "completed" \/ f \in late]_vars

(* A completed run has done all its stages in all their lanes, and keeps   *)
(* no output but what its definition keeps: cancels, errors and crashes    *)
(* between the check, the cleanup and the write of the status included.    *)
(* Only a job whose cancel was under way before it completed may show as   *)
(* cancelled in it, and no other row may.                                  *)
CompletedIsWhole ==
  run = "completed" =>
    /\ \A s \in Stage : \A l \in LanesOf(s) :
         /\ RowsOf(rows, s, {l}) # {}
         /\ \A e \in RowsOf(rows, s, {l}) :
              rows[e] \in {"completed", "skipped"} \/ e \in late
    /\ \A e \in files : Retention(e[1]) = "keep"

(* One lane of every dependency counts for a lane of the stage.            *)
Narrow(s) ==
  config.scope[s] = "matrix" \/ \A d \in config.needs[s] : config.scope[d] = "pipeline"

(* Its input is of jobs, is kept, or is that of a script without which the *)
(* stage begins no job, and of whose end it misses nothing.                *)
Careful(s) ==
  \/ config.form[config.input[s]] = "runner"
  \/ config.retention[config.input[s]] = "keep"
  \/ config.if[s] = "success()" /\ Narrow(s)

(* No cleanup of a pass takes what a job that has not settled reads: its   *)
(* source row, when it completed, still has its output while the run lives. *)
(* What a script leaves for a while is not safe from an always() stage, or *)
(* one that waits for several lanes: the lane is tidied once all it has is *)
(* settled, and such a stage may begin more jobs in it, from the row alone. *)
InputsAreKept ==
  run = "pending" =>
    \A e \in Exec :
      LET s == e[1]
          d == config.input[s]
      IN rows[e] = "pending" /\ ~IsScript(e) /\ d # Dataset /\ Careful(s) =>
           \E f \in files : /\ f[1] = d
                            /\ f[2] \in DependencyLanes(s, d, e[2])
                            /\ e[3] \in Samples(f)

(* A script begins beside another container of its run only when that one  *)
(* has outlived an attempt to remove it: neither the thread's own nor one  *)
(* that a crash has left is ever forgotten.                                *)
OneContainer == at = "start" => box = "none" /\ orphans = {}

(* The rows as PipelineRun sees them.                                      *)
OpenRows == [e \in Exec |-> IF rows[e] \in Active THEN "open" ELSE rows[e]]

Promise == INSTANCE PipelineRun WITH row <- OpenRows, asked <- asked \cup gone

(* Every writer of the two tables keeps to PipelineRun: an ended run is    *)
(* never written again, and of the settled rows only those of a job that   *)
(* was read while it was pending, by a cancel or a claim still under way.  *)
KeepsPromise == Promise!Spec

(* What a pass leaves alone for ever: a script's row that an error left    *)
(* running, and one that was reset after it began, of whose dependencies   *)
(* a lane that was missing has failed or a job was cancelled late.         *)
Abandoned(e) ==
  /\ IsScript(e)
  /\ \/ rows[e] = "running" /\ at \in {"idle", "dispatch"}
     \/ rows[e] = "pending" /\ Blocked(rows, e[1], e[2])

(* A run ends, whatever its jobs and scripts return, unless the service    *)
(* abandons a script as above.                                             *)
RunEnds == <>(run # "pending" \/ \E e \in Exec : Abandoned(e))

(* "a pipeline-scoped stage depending on a matrix stage waits for all      *)
(* lanes" (docs/pipelines.md:39), here in a run nobody has stopped.        *)
WaitsForAllLanes ==
  [][\A e \in Exec : Begins(e) /\ run = "pending" =>
       \A d \in config.needs[e[1]] : \A l \in LanesOf(d) :
         config.scope[e[1]] = "pipeline" => Finished(rows, d, {l})]_vars

(* "Cancelling a pipeline cancels its unfinished jobs and active script    *)
(* container." (docs/pipelines.md:119): nothing of the run begins afterwards.  *)
CancelledBeginsNothing ==
  [][\A e \in Exec : Begins(e) => run # "cancelled"]_vars

(* "If it restarted while one was running, make that stage claimable       *)
(* again" (storage/db.py:254): without an error or a restart a script's stage  *)
(* is claimed once.                                                        *)
ClaimedOnce ==
  [][\A e \in Exec : rows[e] = "pending" /\ rows'[e] = "running" => faults > 0]_vars
=============================================================================
