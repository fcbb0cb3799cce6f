# A model of the DeployBench orchestrator

TLA+ modules for the orchestrator of SceneGenDeployBench: the service that
queues benchmark jobs in PostgreSQL, starts runner containers, sends them the
jobs over HTTP and records the results. The modules are checked with TLC on
small instances, and the main properties are proved with TLAPS for every value
of the constants.

Everything is translated from the Python source under `src/`; where a document
and the code disagree, the model follows the code and the disagreement is a
finding (below).

## The system

| Part | State | Operations | Talks to |
|---|---|---|---|
| Tables `jobs`, `batches`, `output_samples` (`storage/db.py`) | status, attempt, batch id, failure code of a job; endpoint and `closed_at` of a batch; one sample row per completed job | claim, record result, record dispatch failure, release, cancel, announce endpoint | every other part, one transaction at a time |
| Batch dispatch (`execution/dispatch.py`, `execution/runner_client.py`) | locals of one call: plan, endpoint, loop position, window tracking, "shutdown requested" | start the runner, loop over the jobs, poll, recover, leave | tables, one runner |
| Scheduler thread and service (`app/service.py`) | `idle / running / shutting_down`, current operation | reconcile pipelines, claim, dispatch; accept a shutdown | dispatch, pipelines, HTTP clients |
| Runner wrapper (`runner_wrapper/server.py`) | `starting / idle / running / finished / failed / shutting_down`, bound batch, current job, result, child process | `/run-job`, `/status`, `/shutdown`, idle watchdog | the orchestrator, one child process per job |
| Launchers (`runner_launchers/`) | none | a container per batch, or one configured endpoint | Docker Engine |
| Windows (`domain/scheduling.py`) | none: a function of the clock | may jobs start; what to do when the window closes | scheduler, dispatch |
| Pipelines (`execution/pipelines.py`, `storage/pipelines.py`, `execution/script_run.py`) | runs, stage executions, their jobs, script containers | materialise stages whose dependencies are met, retention, finish, cancel | tables, Docker Engine |
| Pipeline files (`domain/pipelines.py`) | none | load and validate a definition | command line, pipelines |
| Samples table (`storage/db.py`, `domain/datasets.py`) | one row per sample found on disk | `sync_reference_state`, at startup, in a pass and in most commands | the datasets directory, every process |
| Command line (`main.py`, `cli/`) | none | add, cancel, update, list; a few transactions each | tables, from a process of its own |

What is hard in it: the operator's commands write the same tables from another
process; a batch is dispatched over minutes with the database and the runner
read and written in separate steps; the orchestrator may die anywhere and
repairs nothing at startup; runners die, answer late or lose an answer; the
scheduling window closes in the middle of a batch; the statements of a
transaction lock whole tables in an order of their own and PostgreSQL ends
whoever closes a circle. `PROJECT.json` lists each of
these hazards at its line with the properties that watch it.

What makes each part correct:

* tables: a job is settled once, within its attempts; the record of a batch
  agrees with its jobs; a cancelled job stays cancelled;
* dispatch: it alone writes its jobs; the result it records is of the attempt
  it dispatched; no job runs twice at a time; no runner is left working; every
  job is settled in the end;
* runner wrapper: at most one child at a time, a result only of the job
  accepted last, a shutdown stops the child;
* service: one operation at a time, an accepted shutdown stays accepted, every
  error leads back to the next pass;
* launchers: no container is created and forgotten;
* samples table: it never goes back to an older state of the disk, and a command
  reads what its own sync has found;
* pipeline files: what is accepted has no cycle and reads only what is kept;
* pipelines: a stage starts only after its dependencies, once per lane; nothing
  of a cancelled pipeline is started; outputs are removed only when no later
  stage needs them;
* windows: the active window and its policy agree with the weekly schedule,
  over midnight too.

## The modules

| Module | What it is |
|---|---|
| `JobStore` | the rows of `jobs` and `batches` and what each transaction does to one, as operators |
| `JobLifecycle` | the abstract specification: what readers of the jobs table may rely on |
| `Dispatch` | the core: scheduler thread, tables, runners as the orchestrator sees them, operator, window, crashes |
| `MCDispatch` | constant values for TLC |
| `DispatchProofs` | type correctness, ownership of a plan's jobs, batch records; `Dispatch` implements `JobLifecycle`; cancelled and settled rows are final |
| `DispatchExecution` | what runs where: the runner is free in the loop, no job runs twice, a result is of the current attempt; each runner keeps `RunnerContract` |
| `RunnerContract` | the abstract specification of one runner: what `/status` shows and how it changes |
| `RunnerServer` | one runner inside: handlers, idle watchdog, a thread and a child process per job |
| `MCRunnerServer` | constant values for TLC |
| `RunnerProofs` | types, work is watched, one job at a time, `RunnerServer` implements `RunnerContract` |
| `PipelineRun` | the abstract specification: what the tables `pipeline_runs` and `pipeline_stage_executions` promise of one run |
| `Pipelines` | one pipeline run: the reconciling thread, its scripts and their containers, the commands of other processes, crashes |
| `MCPipelines` | pipeline definitions for TLC |
| `Definitions` | `load_pipeline`: which files are accepted and what becomes of them |
| `DefinitionProofs` | the search for cycles, needs, lanes: `load_pipeline` accepts exactly the valid files |
| `PipelineProofs` | types, order of the stages, one script at a time, completed runs, scripts are claimed once, `Pipelines` implements `PipelineRun` |
| `PipelineInputs` | the inputs of jobs are kept: what a cleanup removes nobody reads any more |
| `Faults` | the budget of what the environment does wrong, shared by the modules below |
| `Transactions` | every writing function as the locks its statements take, one after the other |
| `Catalog` | the datasets on disk, the samples table, and the commands with their transactions |
| `Launcher` | `start_runner` of the Docker launcher, call by call, and the engine's containers |
| `Windows` | when a window is open and which end policy holds, as computed and as scheduled |
| `Service` | the orchestrator's process: startup, scheduler's thread, shutdown; composes `Catalog`, `Launcher` and `Windows` |
| `MCService` | constant values for TLC |
| `ServiceProofs` | the evaluation of windows agrees with the weekly schedule; types and state of the service, shutdown, containers |
| `CatalogProofs` | syncs take turns, the samples table goes forward, commands read their own sync |

`Dispatch` and `RunnerServer` meet in `RunnerContract`, and both sides are checked
and proved. `RunnersKeepContract`: every step of `Dispatch` (`RunnerBoots`, `Accepting`,
`RunnerFinishes`, `ShutDown` by request or watchdog, `RunnerExits`) is for each of its
runners a step of the contract or nothing, or starts a new process where the old one
is over. `KeepsContract`: the wrapper's threads take no other steps. So what is shown
of `Dispatch` does not depend on the wrapper's threads.

### Dispatch and the code

`pc` is where the scheduler thread is between two calls that leave it; `plan`
holds its locals. Each action is one transaction, one HTTP exchange, or a
decision on values already read:

| Points of `pc` | Code |
|---|---|
| `idle`, `candidate`, `claim` | `claim_pending_batch`: candidates read, each resolved to a batch and perhaps an online runner, then the `FOR UPDATE` transaction |
| `begin` | `scheduler_loop` evaluates the window once more |
| `launch`, `announce`, `startup`, `startfail` | the first `try` of `dispatch_batch` and its `except` |
| `next`, `recover`, `submit`, `poll`, `record`, `dispatchfail` | the loop over `plan.jobs` |
| `select`, `release` | `release_batch_pending_jobs`: `SELECT` without lock, then `UPDATE` by `job_id` |
| `exit` | the `finally` clause |
| `down` | the process is dead |

`cancel_jobs` is two actions for the same reason as the release: its `SELECT`
takes no lock, so anything may happen before its `UPDATE`. The writers that
read `FOR UPDATE` are one action each. `cli.batches` keeps the batch ids the
cancel read, which is why a batch record can stay open after it.

A job keeps status, attempt, batch, failure code and whether its
`output_samples` row exists; request, metrics and artifacts follow the status.
A runner is what `/status` shows of it (state, bound batch, current job) and
the attempt in the request it runs. A batch id that nothing refers to stands for a
fresh uuid, and a container slot for a fresh container name, so both sets stay
finite. Jobs created by one command share `created_at`, so a claim may
take any of them first. All jobs have the same runner selector, except those
of `Orphan`, whose selector is not in the catalog.

`faults` counts what the environment did wrong, against the constants `Limit`
(per kind) and `MaxFaults` (in all): `crash` the orchestrator dies, `exit` a
runner dies, `loss` one HTTP exchange with a live runner fails (the request may
have been processed), `error` a transaction rolls back, `cancel` an operator's
command, `close` the window closes. Properties that hold only without some kind
of fault say so by the count, so the same run also covers the other faults.

Abstractions worth knowing:

* the `end_policy` is fixed in a behaviour, and `stop_policy`'s `break` after a
  terminal write is left out, as the poll that sets it never returns a result;
* a poll reads the status before it checks for cancel and window, so
  `PollInterrupts` may happen although the runner has finished by then;
* a completed job is taken to report output files;
* a commit whose acknowledgement is lost is not modelled (a transaction commits
  and returns, or rolls back);
* `Recover` has no branch for a runner that is already running: in the code
  there are two, and `RunnerIsFreeInLoop` shows them to be dead.

### RunnerServer and the code

| Variable | Code |
|---|---|
| `state`, `batch`, `job`, `result`, `child` | the fields of `Runner`; `result` is the run it belongs to |
| `worker[r]` | `_run_job_thread` of the r-th accepted job: its next step (`at`) and the result it holds (`got`) |
| `proc[r]`, `pipe[r]` | the child process and the result queue |
| `due` | runs whose `kill_after_seconds` are over |
| `unanswered` | `/run-job` handlers between `submit_job` and the answer |
| `request[q]` | `/shutdown` handlers and the child each read under the lock |
| `idler`, `main`, `awaited` | `idle_shutdown_loop`, the main thread, the children multiprocessing joins at exit |

A section under `runner.lock` is one action, and so is each call on the child or
the queue; anything may happen between two actions. `request_shutdown` stops the
child it read earlier, the thread looks at the state once per round, and the
child may return, linger after its result, or die at any point. A result larger
than the pipe is `partial` until the thread has read it. `_stop_child_process`
is taken to succeed: a process that survives `SIGKILL` for five seconds is not
modelled. The idle watchdog may find `last_status_at` too old at any time. A
refused `/run-job` changes nothing. Threads can always be started.

### Pipelines and the code

| Variable | Code |
|---|---|
| `config` | `pipeline_runs.config_json` and `lanes_json`: one of the definitions in the constant `Definition`, fixed in a behaviour |
| `run` | `pipeline_runs.status` |
| `rows` | the rows of `pipeline_stage_executions` by stage, lane and `external_key`, with the status `fetch_pipeline_stage_executions` gives: that of the job, or the row's own |
| `files` | executions whose outputs are on disk and recorded |
| `box`, `orphans`, `strays` | script containers: that of the script the thread executes; those a crash has left; those whose removal failed, by the `finally` clause, at startup or in a cancel |
| `at`, `pass` | where the scheduler's thread is in `reconcile_pipelines`, and its locals: stage, lane, the rows fetched last |
| `cli` | how far `cancel_pipeline` is |
| `asked` | the jobs `cancel_jobs` has read as pending and not yet written |
| `gone` | the candidates of a missing runner that `claim_pending_batch` has read and not yet failed |
| `late` | jobs that had completed when the `UPDATE` of `cancel_jobs` reached them (no variable of the code: history for the properties) |

| Points of `at` | Code |
|---|---|
| `idle`, `fetch` | `reconcile_pipelines`, the first fetch of `reconcile_pipeline_run` |
| `lane`, `insert` | `_materialize_runner_stage` and `_materialize_script_stage`, each job's insert a transaction of its own |
| `start`, `wait`, `publish`, `finish` | `run_script_container` and the write of its result |
| `next` | the fetch after a stage that changed something |
| `tidy`, `check`, `mark` | `_cleanup_finished_matrix_lanes`, `_finish_if_terminal`, `mark_pipeline_run_terminal` |
| `fail`, `clean` | `fail_pipeline_run` and the cleanup after it |
| `dispatch` | the rest of `scheduler_loop`: a batch is claimed and dispatched |
| `down`, `boot` | the process is dead; `run_service` before the scheduler's thread starts |

A transaction, a cleanup or a call of the container engine is one action; what
the thread decides between two of them is read from `pass.seen`, which may be old.
`Raise` is any exception of a pass that the code turns into a failed run,
`Abort` one that leaves `reconcile_pipelines` (the database is out of reach for
`fail_pipeline_run` too, or the cleanup fails).

Abstractions worth knowing:

* a job of the run settles in a batch (`EndJob`), completed with output or failed, after its
  retries. It does so only at `dispatch`, as the thread that reconciles is the one that
  dispatches. How it gets there is `Dispatch`; here only the two writers matter that
  `JobLifecycle` admits besides, as they name job ids read earlier without a lock:
  `cancel_jobs` (`CancelSelect`, then `CancelUpdate`, on whatever the job has become) and the claim
  that fails jobs of a missing runner (`ReadCandidates`, then `FailOrphan`);
* there is one `job cancel` under way at a time;
* a dataset target that matches no samples is a definition with `samples = {}`: the first
  runner stage that reads it fails the run (`RefuseEmpty`);
* one run is modelled; the thread reconciles several one after another, and they
  share no rows, files or containers;
* a definition is what `load_pipeline` accepts (`Valid`), with its stages in any
  order: `config_json` is JSONB, which sorts the keys of an object by length and
  then by name, so a stage may come before those it needs;
* a script's outputs name the samples of the run;
* the container engine may lose the answer of a start, of the log stream or of an
  inspection (`LoseScript`, counted by `MaxFaults`), and the deletion in the `finally` clause may then
  fail too; it may fail to delete, or to list, at startup and in a cancel at any time
  (`RemoveLeft`). A container whose removal failed runs on as a stray, until its script ends
  (`EndOrphan`); the next startup or cancel tries again. One that has exited is not followed any further;
* the timer's kill of a script is taken to work: if it fails the code waits for the script
  to end by itself;
* dataset downloader stages, one job whose sample has no name, are left out.

`Definitions` translates `load_pipeline` for files whose ids and references are well
formed. `Raw` is a set of files: the fields of each stage, absent or with a value
that may be wrong, and the lists of the matrix. `Along` is a loop over a list; `VisitStage` is
the body of `visit` with its two sets, and `Visit` the recursion, as a function of how deep it may
still go: as many visits below each other as there are stages. A stage reads one input; the timeout, `with`, `env` and the syntax of ids
and references are left out. `Valid`, which `Pipelines` assumes of every definition, is
what the result is compared with.

### Service, commands and the database

| Variable | Code |
|---|---|
| `main`, `attempt` | the main thread in `run_service`: schema, sync, their retries, `serve_forever` |
| `loop` | where `scheduler_loop` is: `check` (the state under the lock), `load` (the configuration), `start` (`start_operation`), `reconcile`, `fail_run`, `clean_run` (`reconcile_pipelines` and its except clause), `claim`, `launch`, `run`, `charge` (`dispatch_batch`: runner, results, failures), `raise` (the except clause of the loop) |
| `state` | `OrchestratorService.state` |
| `request[q]` | a `/shutdown` handler: decided under the lock, then answered, then the server is told to stop |
| `config` | whether the configuration file can be loaded, and ever could not |
| `txn[p]` | the transaction of a connection: the function it executes and the statements done |
| `disk`, `samples`, `scanned[p]` | versions of the datasets: on disk, in the table, read by the sync of p |
| `cmd[c]` | a command: its steps, what its sync found (`synced`), what its `SELECT` saw (`seen`) |
| `engine`, `launch`, `excused` | the engine's containers, `start_runner` with its `container_id`, containers whose creation or deletion was not answered |

`SCHEMA_SQL` is part of every `ensure_schema` and of every sync, at startup, in a pass
over pipelines and in most commands. Its `CREATE INDEX IF NOT EXISTS` shares a table
with other schemas and excludes its writers, whether or not the index exists, and all
locks last until the transaction ends. `Execute` takes a process one statement further
when no other holds a lock in conflict; `Deadlocked` is a shortest circle of waits, and
the database may roll back any of its members. A failed transaction goes where the code's
except clauses lead (`AfterFailure`); a command ends.

Abstractions worth knowing:

* locks are those of whole tables: writers do not exclude each other, so waits for
  rows and the deadlocks they make are not in the model;
* what the datasets contain is one number, which grows with every change of the disk,
  so that older and newer can be told apart;
* a dispatch is the launch and any number of results; its endpoint update, release and
  polls are in `Dispatch`, where rows matter and locks do not;
* a configuration can be loaded or not; what it says is constant;
* the launcher's containers have slots, and a slot stands for a fresh name;
* `faults` is one budget for failed transactions, unanswered calls of the engine, and a
  broken configuration.

## Properties

Of `Service`: `RunningWhileOperating`, `ShutdownIsKept`, `ClaimsFollowSchedule`, and
`SchedulerGoesOn` under `FairSpec`; of `Catalog` and `Transactions`: `SyncsDoNotDeadlock`,
`SamplesNeverGoBack`, `ReadsItsOwnSync`; of `Launcher`: `NoForgottenContainer`.
`ShutdownIsKept` holds as long as the configuration could always be loaded:
`finish_operation`, which the loop also calls when `load_runtime_config` fails, sets the service
idle whatever its state was. `SchedulerGoesOn` gives up when a shutdown was accepted, because
an answer that cannot be written leaves the server running without a scheduler.
`ClaimsFollowSchedule` compares `_window_matches` and the effective policy, at every moment of the
week, with the moments that each window's start, length and days span.

Of `Definitions`: `FetchedIsValid`. TLC evaluates its part about files once.

Of `Pipelines`: `StartsAfterDependencies`, `CompletedIsWhole`, `InputsAreKept`,
`OneContainer`, the refinement `KeepsPromise`, and `RunEnds` under `FairSpec`.
`RunEnds` names the two ways in which a script is `Abandoned`: the database failed
when its result was written, so that its row stays running until a command or a
restart resets it; or it was reset after it had begun, and of its dependencies a lane
it had begun without has failed since, or a completed job was cancelled late.

What `late_cancel` means for a pipeline is in the model and said by the properties. The
status of a stage row is that of its job, so a job that had completed when the `UPDATE` of
`cancel_jobs` reached it shows as cancelled: in a run that is completed already or is marked
from an older snapshot (`CompletedIsWhole`), and below a `success()` stage that begins with the snapshot that
showed it completed (`StartsAfterDependencies`). Both properties admit exactly these jobs
(`late`), and no other row that is not completed. In the same way a row that was cancelled may
still fail when the claim had read its job before. `PipelineRun` has one action for
both, `Overwrites`, and it needs that the row was read while it was open.

`OneContainer` says where the code keeps its containers apart and where it does not: a
script begins beside another one of its run only when that one has outlived an attempt to
remove it. Startup goes on after a failed removal (`service.py:326`), and so does
`run_script_container` (`script_run.py:525`). A container that nobody has tried to remove is never there.

`InputsAreKept` leaves out the stages that are not `Careful`: an `always()` stage, or
one that waits for several lanes, whose input is the output of a script that is removed
before the run ends. Let lane 0 of a matrix fail in its first stage `a`, so that the script
`b` after it is skipped there, while lane 1 is still at `a`. A pipeline-scoped
`always()` runner stage `c` that reads `b` then begins without lane 1 (this is the finding
`pipeline_lanes`), finds no source and gets its `__empty__` row. With the order `c, a, b`
of the stages lane 1's `b` completes later in the same pass; every stage of the lane
has terminal rows, so `_cleanup_finished_matrix_lanes` removes what `b` wrote. A third
lane that is still at work, or an error before the run is marked, keeps the run going,
and its next pass inserts a job of `c` that reads what is gone. TLC finds this when
`Careful` is dropped and `Definition` contains such a pipeline with three lanes, or
with two and a fault.

Of `RunnerServer`: `OnlyLastJobComputes`, `TerminalShowsLastResult`,
`WorkIsWatched`, the refinement `KeepsContract`, and under `FairSpec` `RunEnds` and
`ShutdownEnds`. `RunEnds` names the one state from which a job does not end
(`Hung`): the child was killed in the middle of writing a large result. The
server holds the write end of the pipe itself, so `result_queue.get` sees no end
of file, and its timeout covers only the first byte. `Dispatch` survives such a
runner: its own poll has a deadline.

Of `Dispatch`: invariants and action properties (each is commented there with
the code it is about): `TypeOK`, `PlanOwnsItsJobs`, `PendingBatchIsOpen`,
`OpenBatchIsPending`, `RunnerIsFreeInLoop`, `ResultIsOfThisAttempt`,
`AtMostOneExecution`, `NoOrphanExecution`, `CancelledRowIsFinal`,
`RunnersKeepContract`; the refinement `ImplementsLifecycle`; and `EveryJobSettles` under `Fairness`.

`ResultIsOfThisAttempt` holds with `FewFaults`: no crash, and either no lost exchange or
only one and nothing else. That is exact. A crash leaves a runner that may show the result of
an attempt that is over; so does a lost exchange when a second one, a failed
transaction or a dead runner keeps the batch alive although the runner was not shut
down. TLC finds a wrong result in each of these cases when `FewFaults` is weakened to
allow it.

`JobLifecycle` deliberately promises no more than the code keeps: its `Cancel`
hits every job that was pending when the operator asked, even one that settled
since, and its `FailOrphan` overwrites any status. These are the races of
`cancel_jobs` and of the `RUNNER_MISSING` update.

### Runs

| Run | Bounds | Shows |
|---|---|---|
| `docker` | 2 jobs, 4 batch ids, 2 containers, 2 attempts, batches of up to 2, any 2 faults but a closing window | all safety properties; a crash, or two faults, break `ResultIsOfThisAttempt` and `AtMostOneExecution` without their conditions, two containers the fewest for a double execution |
| `static` | 3 jobs (one without runner, one allowed outside the window), one static runner, one cancel and one closing, policies `finish_job` and `end_now` | `PlanOwnsItsJobs`, `RunnerIsFreeInLoop`, `ResultIsOfThisAttempt` and the refinement for a runner that outlives its batches, and the window policies |
| `live` | 2 jobs, 1 container, one fault of any kind, `end_now` | `EveryJobSettles` |
| `runner` | 2 accepted jobs out of 2 jobs and 2 batches, one shutdown request, any number of child deaths | all properties of `RunnerServer`; two jobs are what it takes to confuse one with the next, and a second shutdown request only repeats the first |
| `pipelines` | five definitions of three stages: two lanes, a script that reports on both and a runner after it at all events; a script before generator and evaluator in two lanes; a runner stage that reads both lanes; two samples and a runner that reads what a script leaves for its lane only; a dataset target without samples. One each of: crash, database error or lost answer of the engine; sync; job selected by `job cancel`. A cancel of the run, claims of missing runners and failed removals without bound; besides, twenty thousand files: every graph of three stages with up to two needs each, every choice of one stage's fields | all properties of `Pipelines` and `Definitions`; two lanes are the fewest that can be apart, and of three stages the middle one has both a dependency and a dependent |
| `pipeline_lanes`, `pipeline_cancel`, `pipeline_sync` | the report pipeline without faults, and one sync for the last | the findings |
| `late_cancel`, `restart` | 1 job, one fault of each kind at most | the findings |
| `service` | one command (`pipeline run` or `pipeline cancel`, the two with the most transactions), one change of the datasets, one fault, 2 attempts at startup, 2 networks, 2 containers, one shutdown request; every single window of a week with days of three minutes and pairs of some | all properties of `Service`, `Catalog`, `Launcher` and `Windows`; a deadlock needs two processes, and a shutdown that arrives twice repeats the first. The proofs cover any numbers, and all commands |
| `service_result` | one `job add`, no fault | the finding |

Four batch ids suffice for two jobs: at most one per row, one in `cli.batches`
or on a runner, and one to draw. With two jobs a batch has a job being run and
one that waits. `CHECK_DEADLOCK` is off, as a system whose jobs are all settled
has nothing to do.

### Fairness

The scheduler thread is a loop without unbounded waits, so it takes a step when
it can (`WF` of `Scheduler`); a service manager restarts a dead orchestrator; a
command that started ends; containers boot; the wrapper kills a job after
`timeout_seconds + 60`, so a running job ends; a process told to shut down
exits; a weekly window opens again; whoever runs a static runner restarts it.
No fault and no cancel is ever forced. The number of faults is
bounded; with a window that closes again and again under `end_now` a job longer than the
window never settles, which is what that policy means.

`FairSpec` of `RunnerServer`: every thread goes on (`queue.get` and the sleeps have
timeouts), deadlines pass, the main thread returns from `serve_forever` after
`server.shutdown`, the watchdog looks at the state every five seconds, and a child
that is past its work ends. A job may compute for ever, and nobody has to ask
for a shutdown.

`FairSpec` of `Pipelines`: the scheduler's thread goes on, a service that crashed is
started again and removes its orphans, a batch ends, a running script ends or is
killed by its timer, and a job that is offered to batches again and again
settles in one of them, which is `EveryJobSettles` of `Dispatch`. That is strong
fairness, because the thread leaves `dispatch` between two batches. No command has
to be given, and one that was given need not go on.

`FairSpec` of `Service`: the main thread, the scheduler's thread, a command that was started
and a statement that need not wait go on. A pass has finitely many runs and stages and
a batch finitely many jobs, so the thread does not stay for ever in a place where it
could leave it between two transactions: strong fairness of `EndCleanup`, `EndReconcile` and
`EndBatch`. Runners exit, told to or by their watchdogs. No command and no request has to come.

## Findings

* `late_cancel`: `cancel_jobs` (`db.py:1833`) cancels a job that completed
  after its `SELECT`, while `docs/cli.md:131` says it cancels pending jobs. The
  output sample stays listed.
* `restart`: `docs/pipelines.md:119` says that runner jobs survive restarts, but
  the startup wait of the next dispatch (`dispatch.py:237`) accepts no running
  runner: it charges an attempt and the job is shut down.
* `pipeline_lanes`: `docs/pipelines.md:39` says that a pipeline-scoped stage waits
  for all lanes of a matrix stage; `_dependencies_ready` (`execution/pipelines.py:395`)
  does not miss a lane that has no row yet.
* `pipeline_cancel`: after a cancel (`docs/pipelines.md:119`) the pass that is under
  way inserts jobs and starts scripts of the cancelled run
  (`storage/pipelines.py:395`).
* `pipeline_sync`: the reset that `db.py:252` describes as one after a restart is
  part of `SCHEMA_SQL`; commands such as `runner list` execute it while a script
  runs, its result is lost and it is executed again.
* `service_result`: `write_job_terminal_result` (`db.py:2357`) writes `job_metrics` before `jobs`;
  the schema that every sync executes locks them in the other order. When PostgreSQL
  ends the result's transaction, a finished job is charged a failure and runs again,
  against `docs/orchestration.md:71`.

## Proofs

Of `Dispatch`, for any jobs, batches, runners, limits and faults, from the assumptions
`MaxAttemptsIsPositive`, `NoBatchIsNoBatch`, `DispatchAssumption` and
`LimitAssumption`.

* `TypeOK` is inductive together with `PlanInv`: which locals are set at which
  point of `pc`.
* `PlanOwnsItsJobs` needs `Own`: it must also cover the rows a release has
  selected, say that orphans never get into a batch, and that a pending row has
  no output sample. Claims take pending rows that are free or of the batch they
  extend, and no other action changes a row's batch.
* `PendingBatchIsOpen` and `OpenBatchIsPending` follow from `Open`, with the fact
  that every transaction refreshes each batch whose pending rows it changes
  (`OpenWrite`), which rests on `Own`: a result is written with `plan.batch`.
* `DispatchImplementsLifecycle`: every step is a `RowStep` (one of the few
  things that happen to rows), and each of them maps to an action of
  `JobLifecycle` or a stutter. `AskedOnce` relates the asked jobs to the rows.
* `RunnerIsFreeInLoop` is inductive once it also covers `record`. `NewBusy` says
  that only an accepted submit makes a runner busy.
* `AtMostOneExecution` and `NoOrphanExecution` follow from `ExecInv`: with no
  crash and no lost exchange a busy runner is led by the dispatch (`Led`), or
  runs a cancelled job that no dispatch holds (`Stray`). The same invariant gives
  `RunningJobsAreNotCharged`: what the run `restart` refutes needs a crash or a lost
  exchange.
* `SettledRowsAreFinal`: a completed or failed row is out of reach of every writer
  (`Own`), except of a cancel that had read it earlier, which is `late_cancel`.
* `ResultIsOfThisAttempt` follows from `AttemptInv`. What could break it is a runner
  that still shows the result of an earlier attempt and is given the batch of the job again.
  So the invariant follows every runner that has a job, and its batch, with `FewFaults`: the
  dispatch of its batch goes on (`Attended`), or its job is dispatched no more (`Settled`),
  or its batch is dead (`Sealed`): no pending job is in it, no claim has chosen it and no
  plan is for it. A retried job leaves its batch, and a batch without pending jobs never
  gets one again, so what is sealed stays sealed. Without a lost exchange the `finally` clause
  shuts every living runner down. With one, and nothing else, all was quiet before
  (`Quiet`): every pending row of a batch is held by its dispatch or about to be released
  (`Drained`) and the runner answers (`Steady`), so the one batch that may keep its runner
  has no pending job left (`BatchDone`).
* `RunnersKeepContract` needs only `TypeOK` and `PlanInv` (the plan's runner, batch and job
  exist where they are used). Each action that moves a runner is a step of the contract
  for that runner (`AcceptStep`, `ShutDownStep`, `StartStep`, `OwnStep`), and nothing for
  the others.

Of `RunnerServer`, for any number of jobs and shutdown requests, from
`RunnerAssumption`: `ThreadInv` is inductive. Its core is `ActiveIsLast`: a thread
that has not ended serves the job accepted last, and the runner is running that
job or shutting down. With it `Report` can only end the current job, which gives
`TerminalShowsLastResult`, `OnlyLastJobComputes` and the step `Finish` of the
contract. `WorkIsWatched` needs to know that a full queue was filled by a child
that is done (`FullQueueIsOfAnIdleChild`) and that queues of jobs to come are empty
(`FutureRuns`).

Of `Pipelines`, for any set of definitions, lanes, samples and faults, from
`PipelineAssumption`: `IInv` is inductive. It is about the snapshot of a pass.
`SeenStays`: what it shows as terminal is terminal still, as no writer takes a terminal
row back (`RowStep`), and of the same status but for a job that was read while it was pending:
one that shows as completed, or as failed, may have been cancelled since (`SeenLate`). `SeenIsWhole`: a row it does not show is one of the stage at hand,
and the pass knows that it changed something. As no stage needs itself, its
dependencies are never the stage at hand, and what was ready in the snapshot is
ready in the tables (`FinishedStays`): that is `StartsAfterDependencies`. `Readers` says what the jobs in
`asked` and `gone` were and have become; only these can be overwritten, which is the action `Overwrites` of
`PipelineRun`. At the end of a pass nothing is missing from the
snapshot, so the run is marked by what the tables hold (`MarkFacts`), which gives the step
`End` of `PipelineRun` and, with `Whole`, `CompletedIsWhole`. `OneContainer` follows
from `Boxes`: only the script that is waited for has a container of the thread's own, and orphans exist
only between a crash and the end of the removal at startup, whatever that removal achieves.
`ScriptsAreClaimedOnce` needs `Claimed`: without fault and sync a script's row
is never pending, and running only while the pass executes it, fails, or once the run
has been stopped.

`InputsAreKept` follows from `InputsInv` in `PipelineInputs`. A cleanup removes the outputs
of a lane when every stage has rows there and all are terminal, so the danger is a job
that is added to such a lane later. `Ended` and `SeenFresh` say how far the snapshot of
the pass may lag behind when it tidies; `OutsKept` and `Sourced` that what a pass has found
as sources still has its output while the pass inserts; `Published` and `KeptScripts` that
a script which completed has written its output, and that what is to be kept is. The output of
a runner's job is listed while it exists, but a script is found by its row even after its
output is gone (`SourceRows`). So for a stage that reads a script `Served` says: when the
output is gone, the stage has all its jobs in the lane (`Supplied`) or a dependency did
not complete, in the tables nor in the snapshot (`Dead`), and nothing will be added. A dependency
that was cancelled late is no such reason while the pass still sees it completed. It rests on `PassServes`: a pass that has
gone by the stage leaves it supplied, dead, or waiting for a job the tidying would see; and
on `Began`: a stage that has begun in a lane has missed no end of a script. The last two
hold of a success() stage that waits for one lane of each dependency, hence `Careful`.

Of `Windows`, from `DayLengthAssumption` and `ScheduleAssumption`: a window matches exactly at
the moments it spans (`MatchesSchedule`, by the four ways in which a window may lie to
the day), hence `WindowsAgree` for sets of windows, and `ClaimsFollowSchedule`.

Of `Definitions`, for any number of stages, needs and lanes, from `RawAssumption` (the ids of a
file are distinct and those of `Stage`, `needs` and the matrix are lists, the lanes at most
`MaxLanes`): `LoadsTheValid`, and with `TypeOK` of `Pipelines` `FetchedIsValid`. The loops and the recursion
of the code are recursive functions of a natural number, so the proof is by induction over it.
The library's induction theorems take an operator, which the provers cannot instantiate;
`Induction` states it for sets instead and follows from `WFMin`, which takes none. That the recursive
functions exist is proved too (`StepsExist`, `VisitsExist`). The search: what it has visited has
no cycle and needs nothing else (`Sound`), to which a stage may be added all of whose needs
are visited (`VisitedNext`); every stage that is being visited needs another of them or the one
that is visited next (`OnTheWay`), so one that is met again closes a cycle (`MetAgain`). Each
visit leaves one stage less to enter, so the depth suffices (`VisitsWell`). Together:
`AcceptsAcyclic`. The lanes are counted by a bijection, one list after the other (`PickOneMore`).

Of `Service`, for any number of commands, requests, containers, networks and faults, from
`ServiceAssumption`, `CatalogAssumption`, `LauncherAssumption` and `FaultAssumption`: `ServiceInv` is
inductive; it needs `NothingBefore`, that there is neither thread nor request before the service
serves. `LauncherInv` adds `BoxKnown` to `NoForgottenContainer`: at each call after the creation the
launcher still has the container's id.

Of `Catalog`: `CommandInv` says that the transaction of a command is that of its step.
`SyncInv` is the argument for the advisory lock: at most one sync has executed its first
statement (`OneSync`), and one that has read the disk (its thirteenth of fourteen
statements) has read at least what the table shows, which only another sync could change.
`SamplesNeverGoBack` follows, and with it `ReadInv`: what a command's sync found stays
at most what the table shows until its `SELECT`. Two syncs that wait for each
other would both hold the lock, which is `SyncsDoNotDeadlock`.

Only model-checked: `EveryJobSettles`, `RunEnds` of the wrapper and of the pipelines, `ShutdownEnds` and `SchedulerGoesOn`, as liveness
under fairness is out of the prover's reach. Every other property of the passing runs is a
theorem.

## Not modelled, and why

* The `run` command, which executes a script outside any pipeline and keeps no
  state, and dataset downloader stages.
* Resolving targets and reading manifests: what a command selects is a version of the
  datasets. A target's LIKE patterns are not escaped (`db.py:701`), which concerns
  the characters of names.
* Time zones and the start policy of a window, of which there is one.
* `stop_runner`, which nobody calls, and what a container is created with.
* A commit whose acknowledgement is lost (`dispatch.py:498`), and two writers that refresh
  a batch from rows they have not seen of each other (`db.py:1072`).
* Metrics, artifacts, request payloads, rendering, logging, configuration
  parsing: no control depends on them.
* Docker's own behaviour (pulls, mounts, GPU options): pure I/O; a call succeeds,
  fails, or is not answered.
* The isolation level of PostgreSQL: a transaction is one step, split only where
  the code reads without a lock what it later writes. `CancelSelect` of `Dispatch` takes both
  `SELECT`s of `cancel_jobs` (`db.py:1811`, `1824`) together, and as every writer is one step,
  `SKIP LOCKED` of the claim (`db.py:2226`) never skips a row.
* In `Service` and `Transactions`, which are about the order of table locks: the writes of an endpoint
  update (`db.py:1214`) and a release, the write of `output_samples` after a dispatch failure
  (`db.py:2518`, `2576`), and the shorter path of a result that is retried (`db.py:2359`). No circle
  that a passing property is about goes through them.
* A runner left at work after a lost exchange and a cancel of the same job (`dispatch.py:506`), a second
  execution after a lost answer (`dispatch.py:497`), and a process that serves on without a scheduler
  after an answer to `/shutdown` that could not be written (`service.py:155`): the models have
  these behaviours, and the properties exclude them by name.
* Adapters: a job computes, then returns, dies or goes on for ever.

## Plan

In this order, the most important behaviour first:

1. `JobStore`, `JobLifecycle`, `Dispatch` with their runs and proofs: done.
2. `RunnerContract`, `RunnerServer` with its run and proofs: done.
3. `PipelineRun`, `Pipelines` with their runs and proofs: done.
4. `Faults`, `Transactions`, `Catalog`, `Launcher`, `Windows`, `Service` with their runs and proofs:
   done.
5. `Definitions`: done.
6. Dataset downloader stages in `Pipelines`, and several runs whose jobs compete for
   the batches of `Dispatch`.
7. Proofs of every safety property the passing runs check: done.
