------------------------------ MODULE Catalog ------------------------------
(***************************************************************************)
(* The reference state and the commands that use it: each command is a     *)
(* process of its own (cli/commands.py) that runs a few transactions one   *)
(* after the other, most of them after a sync of the samples table with    *)
(* the datasets on disk (storage/db.py).                                   *)
(***************************************************************************)
EXTENDS Transactions, Faults

CONSTANTS Command,      \* processes of commands
          Todo,         \* what they may be asked to do
          MaxEdits      \* changes of the datasets on disk

VARIABLES disk,         \* which state of the datasets is on disk
          samples,      \* which one the samples table shows
          scanned,      \* process -> the one its sync has read
          cmd           \* command -> what it does, how far it is, what it has read

catalogVars == <<txn, disk, samples, scanned, cmd>>

Version == 0..MaxEdits

\* The steps of a command: transactions, and a SELECT of sample rows.
RefreshReferenceCache == <<"sync">>
AddJob == <<"sync", "read", "add_jobs">>
DownloadDataset == <<"sync", "add_jobs">>
UpdateJobsWindowFlag == <<"update_jobs">>
CancelJobsMatchingFilters == <<"cancel_jobs">>
AddPipeline == <<"ensure_schema", "sync", "read", "add_run">>
CancelPipeline == <<"stop_run", "outputs_gone">>

Steps ==
  [runner_list |-> RefreshReferenceCache,    job_add |-> AddJob,
   dataset_download |-> DownloadDataset,     job_update |-> UpdateJobsWindowFlag,
   job_cancel |-> CancelJobsMatchingFilters, pipeline_run |-> AddPipeline,
   pipeline_cancel |-> CancelPipeline]

ASSUME CatalogAssumption ==
  Command \subseteq Process /\ Todo \subseteq DOMAIN Steps /\ MaxEdits \in Nat

NoCommand == [does |-> "none", at |-> 1, synced |-> 0, seen |-> 0]
Ended == [NoCommand EXCEPT !.does = "ended"]
Cmd == {NoCommand, Ended} \cup [does : Todo, at : Nat, synced : Version, seen : Version]

CatalogType ==
  /\ txn \in [Process -> Txn]
  /\ disk \in Version /\ samples \in Version
  /\ scanned \in [Process -> Version]
  /\ cmd \in [Command -> Cmd]

CatalogInit ==
  /\ txn = [p \in Process |-> NoTxn]
  /\ disk = 0 /\ samples = 0
  /\ scanned = [p \in Process |-> 0]
  /\ cmd = [c \in Command |-> NoCommand]

\* Someone adds, changes or removes samples.
EditDisk == /\ disk < MaxEdits /\ disk' = disk + 1
            /\ UNCHANGED <<txn, samples, scanned, cmd, faults>>

(***************************************************************************)
(* One statement of a transaction; a sync reads the disk between them.     *)
(***************************************************************************)
ExecuteOf(p) ==
  /\ Execute(p)
  /\ scanned' = IF Statement(p) = Scan THEN [scanned EXCEPT ![p] = disk] ELSE scanned
  /\ UNCHANGED <<disk, samples, cmd, faults>>

\* Commit: the table shows what the sync has read.
Committed(p) ==
  /\ Complete(p)
  /\ Close(p)
  /\ samples' = IF txn[p].kind = "sync" THEN scanned[p] ELSE samples
  /\ scanned' = [scanned EXCEPT ![p] = 0]
  /\ UNCHANGED disk

\* Rollback: the database picks the process to end a circle of waits, or the
\* transaction fails by itself (a broken manifest, a lost connection).
RolledBack(p) ==
  /\ \/ Deadlocked(p) /\ UNCHANGED faults
     \/ Active(p) /\ Fault
  /\ Close(p)
  /\ scanned' = [scanned EXCEPT ![p] = 0]
  /\ UNCHANGED <<disk, samples>>

(***************************************************************************)
(* The commands.                                                           *)
(***************************************************************************)
StepOf(c) == Steps[cmd[c].does][cmd[c].at]
Running(c) == cmd[c] \notin {NoCommand, Ended}
GoOn(c, next) == IF next.at <= Len(Steps[next.does]) THEN [cmd EXCEPT ![c] = next]
                 ELSE [cmd EXCEPT ![c] = Ended]

StartCommand(c) ==
  /\ cmd[c] = NoCommand
  /\ \E t \in Todo : cmd' = [cmd EXCEPT ![c].does = t]
  /\ UNCHANGED <<txn, disk, samples, scanned, faults>>

BeginStep(c) ==
  /\ Running(c) /\ StepOf(c) # "read"
  /\ Begin(c, StepOf(c))
  /\ UNCHANGED <<disk, samples, scanned, cmd, faults>>

\* _target_sample_rows: the rows that are not missing, outside any transaction.
ReadSamples(c) ==
  /\ Running(c) /\ StepOf(c) = "read"
  /\ cmd' = GoOn(c, [cmd[c] EXCEPT !.at = @ + 1, !.seen = samples])
  /\ UNCHANGED <<txn, disk, samples, scanned, faults>>

\* No rows match, an unknown matrix key, a runner that lacks the inputs.
Refuse(c) ==
  /\ Running(c) /\ StepOf(c) = "read"
  /\ cmd' = [cmd EXCEPT ![c] = Ended]
  /\ UNCHANGED <<txn, disk, samples, scanned, faults>>

CommitStep(c) ==
  /\ Committed(c)
  /\ cmd' = GoOn(c, [cmd[c] EXCEPT !.at = @ + 1,
                                    !.synced = IF txn[c].kind = "sync" THEN scanned[c] ELSE @])
  /\ UNCHANGED faults

\* An exception ends the command: what it has committed stays.
FailStep(c) ==
  /\ RolledBack(c)
  /\ cmd' = [cmd EXCEPT ![c] = Ended]

CommandStep(c) ==
  \/ BeginStep(c) \/ ExecuteOf(c) \/ ReadSamples(c) \/ CommitStep(c)
  \/ FailStep(c) \/ Refuse(c)

CatalogNext == EditDisk \/ \E c \in Command : StartCommand(c) \/ CommandStep(c)

(***************************************************************************)
(* Properties.                                                             *)
(***************************************************************************)
\* The samples table never goes back to what the disk showed before: the disk
\* is read under the lock, so syncs commit in the order in which they read.
SamplesNeverGoBack == [][samples' >= samples]_samples

\* A command that creates jobs sees in the table what its own sync has found on
\* disk or something newer, whatever other commands and the service do between
\* its sync, its SELECT and its INSERT.
ReadsItsOwnSync ==
  \A c \in Command : Running(c) /\ StepOf(c) \in {"add_jobs", "add_run"}
                     /\ cmd[c].does \in {"job_add", "pipeline_run"} => cmd[c].seen >= cmd[c].synced
=============================================================================
