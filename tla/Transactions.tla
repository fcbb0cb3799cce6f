---------------------------- MODULE Transactions ----------------------------
(***************************************************************************)
(* The transactions of the orchestrator and of its commands as the locks   *)
(* their statements take, one after the other (storage/db.py,              *)
(* storage/pipelines.py).  The locks of PostgreSQL are those of the whole  *)
(* table: CREATE INDEX, which SCHEMA_SQL executes on every call whether or *)
(* not the index exists, shares a table with its like and excludes every   *)
(* writer; writers do not exclude each other (their rows differ).  All     *)
(* locks are held until the transaction ends.                              *)
(***************************************************************************)
EXTENDS Integers, Sequences

CONSTANT Process        \* the connections: the orchestrator's and one per command

VARIABLE txn            \* process -> its transaction and the statements it has executed

Index(table) == [mode |-> "share", on |-> table]        \* CREATE INDEX IF NOT EXISTS
Write(table) == [mode |-> "write", on |-> table]        \* INSERT, UPDATE, DELETE
Advisory == [mode |-> "exclusive", on |-> "sync"]       \* pg_advisory_xact_lock
Scan == [mode |-> "read", on |-> "disk"]                \* discover_samples

\* SCHEMA_SQL creates what is missing and resets what a restart left running.
ReferenceTables == <<Index("samples"), Index("runners")>>
JobTables == <<Index("jobs"), Index("batches"), Index("job_metrics"), Index("output_samples")>>
PipelineTables == <<Index("pipeline_runs"), Write("pipeline_runs"), Index("stages"), Write("stages")>>
SchemaSQL == ReferenceTables \o JobTables \o PipelineTables

\* Mutants: without the advisory lock; with the disk read before it is held.
UnlockedSync == SchemaSQL \o <<Write("runners"), Scan, Write("samples")>>
EarlyScan == <<Scan, Advisory>> \o SchemaSQL \o <<Write("runners"), Write("samples")>>

\* sync_reference_state: the schema, _sync_runners, _sync_samples.
Sync == <<Advisory>> \o SchemaSQL \o <<Write("runners"), Scan, Write("samples")>>

\* What the other functions of the storage modules write, in their order.
InsertJobs == <<Write("jobs")>>
UpdateJobs == <<Write("jobs")>>
CancelJobs == <<Write("jobs"), Write("batches")>>
ClaimBatch == <<Write("jobs"), Write("batches")>>
TerminalResult == <<Write("job_metrics"), Write("jobs"), Write("output_samples"), Write("batches")>>
DispatchFailure == <<Write("job_metrics"), Write("jobs"), Write("batches")>>
CreateRun == <<Write("pipeline_runs")>>
StopRun == <<Write("jobs"), Write("stages"), Write("pipeline_runs"), Write("batches")>>
InsertStageJob == <<Write("stages"), Write("jobs"), Write("stages")>>
OutputsRemoved == <<Write("output_samples"), Write("jobs")>>

Program ==
  [ensure_schema |-> SchemaSQL,    sync |-> Sync,
   add_jobs |-> InsertJobs,        update_jobs |-> UpdateJobs,   cancel_jobs |-> CancelJobs,
   claim |-> ClaimBatch,           result |-> TerminalResult,    failure |-> DispatchFailure,
   add_run |-> CreateRun,          stop_run |-> StopRun,
   stage_job |-> InsertStageJob,   outputs_gone |-> OutputsRemoved]

Kind == DOMAIN Program
NoTxn == [kind |-> "none", done |-> 0]
Txn == {NoTxn} \cup [kind : Kind, done : Nat]

Active(p) == txn[p] # NoTxn
Executed(p) == {Program[txn[p].kind][i] : i \in 1..txn[p].done}
HasNext(p) == Active(p) /\ txn[p].done < Len(Program[txn[p].kind])
Statement(p) == Program[txn[p].kind][txn[p].done + 1]

Conflict(a, b) == a.on = b.on /\ (a.mode = "exclusive" \/ a.mode # b.mode)

\* p's next statement needs a lock that conflicts with one q holds.
Waits(p, q) == p # q /\ HasNext(p) /\ Active(q) /\ \E b \in Executed(q) : Conflict(Statement(p), b)

\* The shortest circles of processes that wait for each other.
Circle(S) == S # {} /\ \A p \in S : \E q \in S : Waits(p, q)
Deadlocked(p) == \E S \in SUBSET Process : /\ p \in S /\ Circle(S)
                                           /\ \A T \in SUBSET S : Circle(T) => T = S

Begin(p, k) == ~Active(p) /\ txn' = [txn EXCEPT ![p] = [kind |-> k, done |-> 0]]

Execute(p) == /\ HasNext(p) /\ \A q \in Process : ~Waits(p, q)
              /\ txn' = [txn EXCEPT ![p].done = @ + 1]

Complete(p) == Active(p) /\ txn[p].done = Len(Program[txn[p].kind])
Close(p) == txn' = [txn EXCEPT ![p] = NoTxn]

\* The advisory lock orders the syncs of all processes: two of them never stop
\* each other, although SCHEMA_SQL first shares the tables it then writes.
SyncsDoNotDeadlock ==
  \A p, q \in Process : txn[p].kind = "sync" /\ txn[q].kind = "sync" => ~(Waits(p, q) /\ Waits(q, p))
=============================================================================
