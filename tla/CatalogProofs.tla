--------------------------- MODULE CatalogProofs ---------------------------
(***************************************************************************)
(* The database: the syncs of any number of processes come one after the   *)
(* other, so the samples table never goes back and a command reads what    *)
(* its own sync has found.                                                 *)
(***************************************************************************)
EXTENDS ServiceProofs

(***************************************************************************)
(* The programs.                                                           *)
(***************************************************************************)
LEMMA Concatenation ==
  ASSUME NEW S, NEW s \in Seq(S), NEW t \in Seq(S)
  PROVE  s \o t \in Seq(S) /\ Len(s \o t) = Len(s) + Len(t)
  OBVIOUS

LEMMA Frame ==
  ASSUME NEW S, NEW a \in S, NEW s \in Seq(S), NEW b \in S, NEW c \in S, NEW d \in S
  PROVE  /\ Len(<<a>> \o s \o <<b, c, d>>) = Len(s) + 4
         /\ (<<a>> \o s \o <<b, c, d>>)[1] = a
         /\ (<<a>> \o s \o <<b, c, d>>)[Len(s) + 3] = c
<1>1. <<a>> \in Seq(S) /\ Len(<<a>>) = 1 /\ <<a>>[1] = a
  OBVIOUS
<1>2. <<b, c, d>> \in Seq(S) /\ Len(<<b, c, d>>) = 3 /\ <<b, c, d>>[2] = c
  OBVIOUS
<1> DEFINE head == <<a>>
           end == <<b, c, d>>
<1> HIDE DEF head, end
<1>3. head \o s \in Seq(S) /\ Len(head \o s) = Len(s) + 1 /\ (head \o s)[1] = a
  BY <1>1 DEF head
<1>4. /\ Len((head \o s) \o end) = Len(s) + 4
      /\ ((head \o s) \o end)[1] = a /\ ((head \o s) \o end)[Len(s) + 3] = c
  BY <1>2, <1>3 DEF end
<1> QED BY <1>4 DEF head, end

Locks ==
  {Index(t) : t \in {"samples", "runners", "jobs", "batches", "job_metrics", "output_samples",
                     "pipeline_runs", "stages"}}
  \cup {Write(t) : t \in {"pipeline_runs", "stages", "runners", "samples"}}
  \cup {Advisory, Scan}

LEMMA SchemaLength == SchemaSQL \in Seq(Locks) /\ Len(SchemaSQL) = 10
<1>1. ReferenceTables \in Seq(Locks) /\ Len(ReferenceTables) = 2
  BY DEF ReferenceTables, Locks
<1>2. JobTables \in Seq(Locks) /\ Len(JobTables) = 4
  BY DEF JobTables, Locks
<1>3. PipelineTables \in Seq(Locks) /\ Len(PipelineTables) = 4
  BY DEF PipelineTables, Locks
<1>4. ReferenceTables \o JobTables \in Seq(Locks) /\ Len(ReferenceTables \o JobTables) = 2 + 4
  BY <1>1, <1>2, Concatenation, Zenon
<1>5. /\ (ReferenceTables \o JobTables) \o PipelineTables \in Seq(Locks)
      /\ Len((ReferenceTables \o JobTables) \o PipelineTables) = (2 + 4) + 4
  BY <1>3, <1>4, Concatenation, Zenon
<1>6. (2 + 4) + 4 = 10
  OBVIOUS
<1> QED BY <1>5, <1>6, Zenon DEF SchemaSQL

\* A sync takes the advisory lock first and reads the disk before its last statement.
LEMMA SyncProgram ==
  /\ Program["sync"] = Sync
  /\ Len(Sync) = 14 /\ Sync[1] = Advisory /\ Sync[13] = Scan
<1>1. Program["sync"] = Sync
  BY DEF Program
<1>2. {Advisory, Scan, Write("runners"), Write("samples")} \subseteq Locks
  BY DEF Locks
<1>3. /\ Len(Sync) = Len(SchemaSQL) + 4
      /\ Sync[1] = Advisory /\ Sync[Len(SchemaSQL) + 3] = Scan
  <2>1. /\ Advisory \in Locks /\ Scan \in Locks
        /\ Write("runners") \in Locks /\ Write("samples") \in Locks
    BY <1>2
  <2>2. SchemaSQL \in Seq(Locks)
    BY SchemaLength
  <2> HIDE DEF Locks
  <2> DEFINE b == Write("runners")
             d == Write("samples")
  <2> HIDE DEF b, d
  <2>3. /\ Len(<<Advisory>> \o SchemaSQL \o <<b, Scan, d>>) = Len(SchemaSQL) + 4
        /\ (<<Advisory>> \o SchemaSQL \o <<b, Scan, d>>)[1] = Advisory
        /\ (<<Advisory>> \o SchemaSQL \o <<b, Scan, d>>)[Len(SchemaSQL) + 3] = Scan
    <3>1. b \in Locks /\ d \in Locks
      BY <2>1 DEF b, d
    <3> QED BY <2>1, <2>2, <3>1, Frame
  <2> QED BY <2>3 DEF Sync, b, d
<1>4. 10 + 4 = 14 /\ 10 + 3 = 13
  OBVIOUS
<1> QED BY <1>1, <1>3, <1>4, SchemaLength, Zenon

LEMMA CommandSteps ==
  \A t \in DOMAIN Steps :
    /\ Steps[t] \in Seq(Kind \cup {"read"}) /\ Len(Steps[t]) \in Nat \ {0}
    /\ t \in {"job_add", "pipeline_run"} =>
         /\ Steps[t][1] \notin {"add_jobs", "add_run"}
         /\ \A i \in 2..Len(Steps[t]) :
              Steps[t][i] \in {"add_jobs", "add_run"} => Steps[t][i - 1] = "read"
<1> DEFINE S == Kind \cup {"read"}
<1>0. {"ensure_schema", "sync", "add_jobs", "update_jobs", "cancel_jobs", "add_run", "stop_run",
       "outputs_gone", "read"} \subseteq S
  BY Kinds
<1> HIDE DEF S
<1>1. /\ RefreshReferenceCache \in Seq(S) /\ Len(RefreshReferenceCache) = 1
      /\ UpdateJobsWindowFlag \in Seq(S) /\ Len(UpdateJobsWindowFlag) = 1
      /\ CancelJobsMatchingFilters \in Seq(S) /\ Len(CancelJobsMatchingFilters) = 1
      /\ DownloadDataset \in Seq(S) /\ Len(DownloadDataset) = 2
      /\ CancelPipeline \in Seq(S) /\ Len(CancelPipeline) = 2
  BY <1>0 DEF RefreshReferenceCache, UpdateJobsWindowFlag, CancelJobsMatchingFilters, DownloadDataset,
              CancelPipeline
<1>2. /\ AddJob \in Seq(S) /\ Len(AddJob) = 3
      /\ AddJob[1] = "sync" /\ AddJob[2] = "read" /\ AddJob[3] = "add_jobs"
  BY <1>0 DEF AddJob
<1>3. /\ AddPipeline \in Seq(S) /\ Len(AddPipeline) = 4
      /\ AddPipeline[1] = "ensure_schema" /\ AddPipeline[2] = "sync"
      /\ AddPipeline[3] = "read" /\ AddPipeline[4] = "add_run"
  BY <1>0 DEF AddPipeline
<1>4. /\ DOMAIN Steps = {"runner_list", "job_add", "dataset_download", "job_update", "job_cancel",
                         "pipeline_run", "pipeline_cancel"}
      /\ Steps["runner_list"] = RefreshReferenceCache /\ Steps["job_add"] = AddJob
      /\ Steps["dataset_download"] = DownloadDataset /\ Steps["job_update"] = UpdateJobsWindowFlag
      /\ Steps["job_cancel"] = CancelJobsMatchingFilters /\ Steps["pipeline_run"] = AddPipeline
      /\ Steps["pipeline_cancel"] = CancelPipeline
  BY DEF Steps
<1>5. ASSUME NEW t \in DOMAIN Steps
      PROVE  Steps[t] \in Seq(S) /\ Len(Steps[t]) \in Nat \ {0}
  <2>1. \/ Steps[t] \in {RefreshReferenceCache, UpdateJobsWindowFlag, CancelJobsMatchingFilters,
                         DownloadDataset, CancelPipeline}
        \/ Steps[t] \in {AddJob, AddPipeline}
    BY <1>4
  <2>2. \A n \in {1, 2, 3, 4} : n \in Nat \ {0}
    OBVIOUS
  <2>3. Steps[t] \in Seq(S) /\ Len(Steps[t]) \in {1, 2, 3, 4}
    BY <1>1, <1>2, <1>3, <2>1, Zenon
  <2> QED BY <2>2, <2>3, Zenon
<1>6. \A t \in {"job_add", "pipeline_run"} :
         /\ Steps[t][1] \notin {"add_jobs", "add_run"}
         /\ \A i \in 2..Len(Steps[t]) :
              Steps[t][i] \in {"add_jobs", "add_run"} => Steps[t][i - 1] = "read"
  BY <1>2, <1>3, <1>4
<1> QED BY <1>5, <1>6 DEF S

(***************************************************************************)
(* Types, and the transactions of a command: those of its current step.    *)
(***************************************************************************)
CommandInv ==
  \A c \in Command :
    /\ Running(c) => /\ cmd[c].does \in Todo
                     /\ cmd[c].at \in 1..Len(Steps[cmd[c].does])
    /\ Active(c) => Running(c) /\ txn[c].kind = StepOf(c)

CatalogInv == CatalogType /\ CommandInv

LEMMA NoneIsNoKind == "none" \notin Kind /\ "read" \notin Kind /\ "sync" \in Kind
  BY Kinds

LEMMA TxnOf ==
  ASSUME txn \in [Process -> Txn], NEW p \in Process
  PROVE  /\ Active(p) => txn[p] \in [kind : Kind, done : Nat]
         /\ ~Active(p) => txn[p].kind = "none"
         /\ txn[p].kind \in Kind => Active(p)
  BY NoneIsNoKind DEF Active, Txn, NoTxn

LEMMA BeginEffect ==
  ASSUME txn \in [Process -> Txn], NEW p \in Process, NEW k \in Kind, Begin(p, k)
  PROVE  /\ txn' \in [Process -> Txn]
         /\ txn'[p].kind = k /\ txn'[p].done = 0
         /\ \A q \in Process : q # p => txn'[q] = txn[q]
  BY DEF Begin, Txn

LEMMA ExecuteEffect ==
  ASSUME txn \in [Process -> Txn], NEW p \in Process, Execute(p)
  PROVE  /\ txn' \in [Process -> Txn] /\ Active(p)
         /\ txn'[p] = [kind |-> txn[p].kind, done |-> txn[p].done + 1]
         /\ \A q \in Process : q # p => txn'[q] = txn[q]
<1>1. Active(p) /\ txn[p] \in [kind : Kind, done : Nat]
  BY TxnOf DEF Execute, HasNext
<1>2. txn' = [txn EXCEPT ![p].done = @ + 1]
  BY DEF Execute
<1>3. txn[p].done + 1 \in Nat
  BY <1>1
<1>4. /\ txn'[p] = [kind |-> txn[p].kind, done |-> txn[p].done + 1]
      /\ \A q \in Process : q # p => txn'[q] = txn[q]
  BY <1>1, <1>2
<1>5. txn'[p] \in Txn
  BY <1>1, <1>3, <1>4 DEF Txn
<1> QED BY <1>1, <1>2, <1>4, <1>5

LEMMA CloseEffect ==
  ASSUME txn \in [Process -> Txn], NEW p \in Process, Close(p)
  PROVE  /\ txn' \in [Process -> Txn]
         /\ txn'[p] = NoTxn
         /\ \A q \in Process : q # p => txn'[q] = txn[q]
  BY DEF Close, Txn

\* What the statements and ends of a transaction leave of the reference state.
LEMMA ReferenceType ==
  ASSUME CatalogType, NEW p \in Process, ExecuteOf(p) \/ Committed(p) \/ RolledBack(p)
  PROVE  /\ txn' \in [Process -> Txn] /\ disk' \in Version /\ samples' \in Version
         /\ scanned' \in [Process -> Version]
         /\ \A q \in Process : q # p => txn'[q] = txn[q]
<1> USE CatalogAssumption DEF CatalogType, Version
<1>1. CASE ExecuteOf(p)
  BY <1>1, ExecuteEffect DEF ExecuteOf
<1>2. CASE Committed(p)
  BY <1>2, CloseEffect DEF Committed
<1>3. CASE RolledBack(p)
  BY <1>3, CloseEffect DEF RolledBack
<1> QED BY <1>1, <1>2, <1>3

LEMMA CatalogStart == Init => CatalogInv
  BY CatalogAssumption, NoneIsNoKind
     DEF Init, CatalogInit, CatalogInv, CatalogType, CommandInv, Version, Txn, NoTxn, Cmd, Running, Active

\* A command that goes on to a step of its own or ends.
LEMMA GoOnEffect ==
  ASSUME cmd \in [Command -> Cmd], NEW c \in Command, Running(c),
         cmd[c].does \in Todo, cmd[c].at \in 1..Len(Steps[cmd[c].does]),
         NEW seen \in Version, NEW synced \in Version,
         LET next == [cmd[c] EXCEPT !.at = @ + 1, !.synced = synced, !.seen = seen]
         IN cmd' = GoOn(c, next)
  PROVE  /\ cmd' \in [Command -> Cmd]
         /\ \A d \in Command : d # c => cmd'[d] = cmd[d]
         /\ \/ cmd'[c] = Ended
            \/ /\ cmd'[c].at = cmd[c].at + 1 /\ cmd'[c].does = cmd[c].does
               /\ cmd'[c].synced = synced /\ cmd'[c].seen = seen
               /\ cmd'[c].at \in 1..Len(Steps[cmd'[c].does])
<1> DEFINE next == [cmd[c] EXCEPT !.at = @ + 1, !.synced = synced, !.seen = seen]
<1>1. cmd[c] \in [does : Todo, at : Nat, synced : Version, seen : Version]
  BY DEF Cmd, Running
<1>2. cmd[c].at + 1 \in Nat \ {0} /\ cmd[c].at \in Nat
  BY <1>1
<1>3. next.at = cmd[c].at + 1 /\ next.does = cmd[c].does /\ next.synced = synced /\ next.seen = seen
  BY <1>1
<1>4. next \in [does : Todo, at : Nat, synced : Version, seen : Version]
  BY <1>1, <1>2
<1> HIDE DEF next
<1>5. cmd' = IF next.at <= Len(Steps[next.does]) THEN [cmd EXCEPT ![c] = next]
             ELSE [cmd EXCEPT ![c] = Ended]
  BY DEF GoOn, next
<1>6. Len(Steps[next.does]) \in Nat
  BY <1>3, CommandSteps, CatalogAssumption
<1>7. CASE next.at <= Len(Steps[next.does])
  <2>1. next.at \in 1..Len(Steps[next.does])
    BY <1>2, <1>3, <1>6, <1>7
  <2> QED BY <1>4, <1>3, <1>5, <1>7, <2>1 DEF Cmd
<1>8. CASE ~(next.at <= Len(Steps[next.does]))
  BY <1>5, <1>8 DEF Cmd
<1> QED BY <1>7, <1>8

(***************************************************************************)
(* The syncs come one after the other.                                     *)
(***************************************************************************)
Holds(p) == txn[p].kind = "sync" /\ txn[p].done >= 1

SyncInv ==
  /\ samples <= disk
  /\ \A p \in Process : scanned[p] <= disk
  /\ \A p, q \in Process : Holds(p) /\ Holds(q) => p = q
  /\ \A p \in Process : txn[p].kind = "sync" /\ txn[p].done >= 13 => scanned[p] >= samples

LEMMA SyncStart == Init => SyncInv
  BY NoneIsNoKind DEF Init, CatalogInit, SyncInv, Holds, NoTxn

\* A sync that takes the advisory lock is the only one that holds it.
LEMMA OneSync ==
  ASSUME CatalogType, NEW p \in Process, Execute(p), txn[p].kind = "sync", txn[p].done = 0,
         NEW q \in Process, q # p
  PROVE  ~Holds(q)
<1> SUFFICES ASSUME Holds(q) PROVE FALSE
  OBVIOUS
<1>1. Active(q) /\ txn[q].done \in Nat /\ txn[q].kind = "sync" /\ txn[q].done >= 1
  BY TxnOf, NoneIsNoKind DEF Holds, CatalogType
<1>2. Statement(p) = Advisory
  BY SyncProgram DEF Statement
<1>3. Advisory \in Executed(q)
  <2>1. 1 \in 1..txn[q].done /\ Program[txn[q].kind][1] = Advisory
    BY <1>1, SyncProgram
  <2> QED BY <2>1 DEF Executed
<1>4. Conflict(Advisory, Advisory)
  BY DEF Conflict, Advisory
<1>5. Waits(p, q)
  BY <1>1, <1>2, <1>3, <1>4 DEF Waits, Execute
<1> QED BY <1>5 DEF Execute

LEMMA SyncExecute ==
  ASSUME CatalogType, SyncInv, NEW p \in Process, ExecuteOf(p)
  PROVE  SyncInv' /\ samples' = samples
<1>1. /\ txn'[p] = [kind |-> txn[p].kind, done |-> txn[p].done + 1]
      /\ \A q \in Process : q # p => txn'[q] = txn[q]
      /\ txn[p].done \in Nat /\ txn[p].kind \in Kind
  BY ExecuteEffect, TxnOf DEF CatalogType, ExecuteOf
<1>2. /\ disk' = disk /\ samples' = samples
      /\ scanned'[p] \in {scanned[p], disk}
      /\ Statement(p) = Scan => scanned'[p] = disk
      /\ \A q \in Process : q # p => scanned'[q] = scanned[q]
  BY DEF ExecuteOf, CatalogType
<1>3. disk \in Nat /\ samples \in Nat /\ \A q \in Process : scanned[q] \in Nat
  BY CatalogAssumption DEF CatalogType, Version
<1>4. (\A q \in Process : scanned[q] <= disk)'
  BY <1>2, <1>3 DEF SyncInv
<1>5. (\A q, r \in Process : Holds(q) /\ Holds(r) => q = r)'
  <2> SUFFICES ASSUME NEW q \in Process, NEW r \in Process, Holds(q)', Holds(r)', q # r
               PROVE  FALSE
    OBVIOUS
  <2>1. \A u \in Process : u # p => (Holds(u)' <=> Holds(u))
    BY <1>1 DEF Holds
  <2>2. ~(q # p /\ r # p)
    BY <2>1 DEF SyncInv
  <2>3. PICK u \in Process : u # p /\ Holds(u) /\ Holds(p)'
    BY <2>1, <2>2
  <2>4. txn[p].kind = "sync"
    BY <1>1, <2>3 DEF Holds
  <2>5. txn[p].done # 0
    BY <2>3, <2>4, OneSync DEF ExecuteOf
  <2>6. Holds(p)
    BY <1>1, <2>4, <2>5 DEF Holds
  <2> QED BY <2>3, <2>6 DEF SyncInv
<1>6. (\A q \in Process : txn[q].kind = "sync" /\ txn[q].done >= 13 => scanned[q] >= samples)'
  <2>1. ASSUME NEW q \in Process, q # p, txn'[q].kind = "sync", txn'[q].done >= 13
        PROVE  scanned'[q] >= samples'
    BY <1>1, <1>2, <2>1 DEF SyncInv
  <2>2. ASSUME txn'[p].kind = "sync", txn'[p].done >= 13
        PROVE  scanned'[p] >= samples'
    <3>1. txn[p].kind = "sync" /\ (txn[p].done = 12 \/ txn[p].done >= 13)
      BY <1>1, <2>2
    <3>2. CASE txn[p].done = 12
      <4>1. Statement(p) = Scan
        BY <3>1, <3>2, SyncProgram DEF Statement
      <4> QED BY <4>1, <1>2, <1>3 DEF SyncInv
    <3>3. CASE txn[p].done >= 13
      BY <3>1, <3>3, <1>2, <1>3 DEF SyncInv
    <3> QED BY <3>1, <3>2, <3>3
  <2> QED BY <2>1, <2>2
<1> QED BY <1>2, <1>4, <1>5, <1>6 DEF SyncInv

\* What a process does that does not move a sync on.
LEMMA SyncOther ==
  ASSUME CatalogType, SyncInv, NEW p \in Process,
         \A q \in Process : q # p => txn'[q] = txn[q] /\ scanned'[q] = scanned[q],
         txn'[p].kind = "sync" => txn'[p].done = 0, scanned'[p] \in {0, scanned[p]},
         UNCHANGED <<disk, samples>>
  PROVE  SyncInv'
<1>1. disk \in Nat /\ samples \in Nat /\ \A q \in Process : scanned[q] \in Nat
  BY CatalogAssumption DEF CatalogType, Version
<1>2. ~Holds(p)' /\ \A q \in Process : q # p => (Holds(q)' <=> Holds(q))
  BY DEF Holds
<1>3. ~(txn'[p].kind = "sync" /\ txn'[p].done >= 13)
  OBVIOUS
<1> QED BY <1>1, <1>2, <1>3 DEF SyncInv

LEMMA SyncBegin ==
  ASSUME CatalogType, SyncInv, NEW p \in Process, NEW k \in Kind, Begin(p, k),
         UNCHANGED <<disk, samples, scanned>>
  PROVE  SyncInv'
<1>1. /\ txn'[p].done = 0
      /\ \A q \in Process : q # p => txn'[q] = txn[q]
  BY BeginEffect DEF CatalogType
<1> QED BY <1>1, SyncOther

LEMMA SyncClose ==
  ASSUME CatalogType, SyncInv, NEW p \in Process, Close(p),
         scanned' \in {scanned, [scanned EXCEPT ![p] = 0]}, UNCHANGED <<disk, samples>>
  PROVE  SyncInv'
<1>1. /\ txn'[p].kind # "sync"
      /\ \A q \in Process : q # p => txn'[q] = txn[q]
  BY CloseEffect, NoneIsNoKind DEF CatalogType, NoTxn
<1>2. /\ \A q \in Process : q # p => scanned'[q] = scanned[q]
      /\ scanned'[p] \in {0, scanned[p]}
  BY DEF CatalogType
<1> QED BY <1>1, <1>2, SyncOther

LEMMA SyncCommit ==
  ASSUME CatalogType, SyncInv, NEW p \in Process, Committed(p)
  PROVE  SyncInv' /\ samples' >= samples
<1>0. disk \in Nat /\ samples \in Nat /\ \A q \in Process : scanned[q] \in Nat
  BY CatalogAssumption DEF CatalogType, Version
<1>1. CASE txn[p].kind # "sync"
  <2>1. /\ Close(p) /\ UNCHANGED <<disk, samples>>
        /\ scanned' \in {scanned, [scanned EXCEPT ![p] = 0]}
    BY <1>1 DEF Committed
  <2>2. SyncInv'
    BY <2>1, SyncClose
  <2> QED BY <1>0, <2>1, <2>2
<1>2. CASE txn[p].kind = "sync"
  <2>1. txn[p].done = 14
    BY <1>2, SyncProgram DEF Committed, Complete
  <2>2. Holds(p) /\ scanned[p] >= samples /\ samples' = scanned[p] /\ disk' = disk
    BY <1>2, <2>1 DEF Holds, SyncInv, Committed
  <2>3. /\ txn'[p] = NoTxn
        /\ \A q \in Process : q # p => txn'[q] = txn[q]
    BY CloseEffect DEF CatalogType, Committed
  <2>4. /\ scanned'[p] = 0
        /\ \A q \in Process : q # p => scanned'[q] = scanned[q]
    BY DEF CatalogType, Committed
  <2>5. \A q \in Process : ~Holds(q)'
    BY <2>2, <2>3, NoneIsNoKind DEF Holds, SyncInv, NoTxn
  <2>6. \A q \in Process : ~(txn'[q].kind = "sync" /\ txn'[q].done >= 13)
    <3>1. ASSUME NEW q \in Process, txn'[q].kind = "sync", txn'[q].done >= 13
          PROVE  FALSE
      <4>1. q # p
        BY <2>3, <3>1, NoneIsNoKind DEF NoTxn
      <4>2. txn[q].kind = "sync" /\ txn[q].done >= 13 /\ txn[q].done \in Nat
        BY <2>3, <3>1, <4>1, TxnOf, NoneIsNoKind DEF CatalogType
      <4>3. Holds(q)
        BY <4>2 DEF Holds
      <4> QED BY <2>2, <4>1, <4>3 DEF SyncInv
    <3> QED BY <3>1
  <2> QED BY <1>0, <2>2, <2>4, <2>5, <2>6 DEF SyncInv
<1> QED BY <1>1, <1>2

LEMMA SyncEdit ==
  ASSUME CatalogType, SyncInv, EditDisk
  PROVE  SyncInv'
<1>0. disk \in Nat /\ samples \in Nat /\ \A q \in Process : scanned[q] \in Nat
  BY CatalogAssumption DEF CatalogType, Version
<1> QED BY <1>0 DEF EditDisk, SyncInv, Holds

(***************************************************************************)
(* One step of the database and of the commands.                           *)
(***************************************************************************)
ReadInv ==
  \A c \in Command :
    Running(c) => /\ cmd[c].synced <= samples
                  /\ cmd[c].does \in {"job_add", "pipeline_run"} /\ StepOf(c) \in {"add_jobs", "add_run"}
                       => cmd[c].seen >= cmd[c].synced

IInv == CatalogInv /\ SyncInv /\ ReadInv

\* A command whose record and transaction are left alone.
LEMMA CommandKept ==
  ASSUME CatalogInv, ReadInv, samples \in Nat, samples' \in Nat, samples' >= samples,
         NEW c \in Command, cmd'[c] = cmd[c], txn'[c] = txn[c]
  PROVE  /\ Running(c)' => /\ cmd[c]'.does \in Todo
                           /\ cmd[c]'.at \in 1..Len(Steps[cmd[c]'.does])
         /\ Active(c)' => Running(c)' /\ txn[c]'.kind = StepOf(c)'
         /\ Running(c)' => /\ cmd[c]'.synced <= samples'
                           /\ cmd[c]'.does \in {"job_add", "pipeline_run"}
                              /\ StepOf(c)' \in {"add_jobs", "add_run"}
                                => cmd[c]'.seen >= cmd[c]'.synced
<1>1. Running(c)' <=> Running(c)
  BY DEF Running
<1>2. Active(c)' <=> Active(c)
  BY DEF Active
<1>3. StepOf(c)' = StepOf(c)
  BY DEF StepOf
<1>4. Running(c) => cmd[c].synced \in Nat
  BY CatalogAssumption DEF CatalogInv, CatalogType, Cmd, Running, Version
<1>5. Running(c) => cmd[c].synced <= samples'
  BY <1>4 DEF ReadInv
<1> QED BY <1>1, <1>2, <1>3, <1>5 DEF CatalogInv, CommandInv, ReadInv

\* Steps of a process that is no command's leave the commands alone.
LEMMA CommandsKept ==
  ASSUME CatalogInv, ReadInv, samples \in Nat, samples' \in Nat, samples' >= samples,
         UNCHANGED cmd, \A c \in Command : txn'[c] = txn[c]
  PROVE  CommandInv' /\ ReadInv'
<1>1. \A c \in Command : cmd'[c] = cmd[c]
  OBVIOUS
<1> QED BY <1>1, CommandKept DEF CommandInv, ReadInv

LEMMA OrchestratorStep ==
  ASSUME IInv, OrchestratorCatalog
  PROVE  IInv' /\ samples' >= samples
<1>1. /\ Orchestrator \in Process /\ Orchestrator \notin Command /\ Command \subseteq Process
      /\ CatalogType /\ SyncInv /\ CatalogInv /\ ReadInv
  BY ServiceAssumption, CatalogAssumption DEF IInv, CatalogInv
<1>2. samples \in Nat /\ \A v \in Version : v \in Nat
  BY <1>1, CatalogAssumption DEF CatalogType, Version
<1>3. /\ txn' \in [Process -> Txn] /\ disk' \in Version /\ samples' \in Version
      /\ scanned' \in [Process -> Version] /\ UNCHANGED cmd
      /\ \A q \in Process : q # Orchestrator => txn'[q] = txn[q]
      /\ SyncInv' /\ samples' >= samples
  <2>1. CASE \E k \in Kind : Begin(Orchestrator, k) /\ UNCHANGED <<disk, samples, scanned, cmd>>
    BY <1>1, <1>2, <2>1, BeginEffect, SyncBegin DEF CatalogType
  <2>2. CASE ExecuteOf(Orchestrator)
    <3>1. SyncInv' /\ samples' = samples
      BY <1>1, <2>2, SyncExecute
    <3>2. UNCHANGED cmd
      BY <2>2 DEF ExecuteOf
    <3> QED BY <1>1, <1>2, <2>2, <3>1, <3>2, ReferenceType
  <2>3. CASE Committed(Orchestrator) /\ UNCHANGED cmd
    BY <1>1, <1>2, <2>3, ReferenceType, SyncCommit
  <2>4. CASE RolledBack(Orchestrator) /\ UNCHANGED cmd
    <3>1. /\ Close(Orchestrator) /\ scanned' = [scanned EXCEPT ![Orchestrator] = 0]
          /\ UNCHANGED <<disk, samples>>
      BY <2>4 DEF RolledBack
    <3>2. SyncInv'
      BY <1>1, <3>1, SyncClose
    <3> QED BY <1>1, <1>2, <2>4, <3>1, <3>2, ReferenceType
  <2>5. CASE Close(Orchestrator) /\ UNCHANGED <<disk, samples, scanned, cmd>>
    BY <1>1, <1>2, <2>5, CloseEffect, SyncClose DEF CatalogType
  <2> QED BY <2>1, <2>2, <2>3, <2>4, <2>5 DEF OrchestratorCatalog
<1>4. \A c \in Command : txn'[c] = txn[c]
  BY <1>1, <1>3
<1>5. CatalogType'
  BY <1>1, <1>3 DEF CatalogType
<1>6. CommandInv' /\ ReadInv'
  BY <1>1, <1>2, <1>3, <1>4, CommandsKept
<1> QED BY <1>3, <1>5, <1>6 DEF IInv, CatalogInv

\* The transaction, the record and the tables after a step of command c; the step's
\* own effect on c is what the cases below look at.
LEMMA CommandEffect ==
  ASSUME IInv, NEW c \in Command,
         txn' \in [Process -> Txn], disk' \in Version, samples' \in Version,
         scanned' \in [Process -> Version], cmd' \in [Command -> Cmd],
         \A q \in Process : q # c => txn'[q] = txn[q],
         \A d \in Command : d # c => cmd'[d] = cmd[d],
         SyncInv', samples' >= samples,
         Running(c)' => /\ cmd'[c].does \in Todo
                        /\ cmd'[c].at \in 1..Len(Steps[cmd'[c].does])
                        /\ cmd'[c].synced <= samples'
                        /\ cmd'[c].does \in {"job_add", "pipeline_run"}
                           /\ StepOf(c)' \in {"add_jobs", "add_run"} => cmd'[c].seen >= cmd'[c].synced,
         Active(c)' => Running(c)' /\ txn'[c].kind = StepOf(c)'
  PROVE  IInv'
<1>1. samples \in Nat /\ samples' \in Nat /\ CatalogInv /\ ReadInv /\ Command \subseteq Process
  BY CatalogAssumption DEF IInv, CatalogInv, CatalogType, Version
<1>2. CatalogType'
  BY DEF CatalogType
<1>3. CommandInv'
  <2> SUFFICES ASSUME NEW d \in Command
               PROVE  /\ Running(d)' => /\ cmd[d]'.does \in Todo
                                        /\ cmd[d]'.at \in 1..Len(Steps[cmd[d]'.does])
                      /\ Active(d)' => Running(d)' /\ txn[d]'.kind = StepOf(d)'
    BY DEF CommandInv
  <2>1. CASE d = c
    BY <2>1
  <2>2. CASE d # c
    <3>1. cmd'[d] = cmd[d] /\ txn'[d] = txn[d]
      BY <1>1, <2>2
    <3> QED BY <1>1, <3>1, CommandKept
  <2> QED BY <2>1, <2>2
<1>4. ReadInv'
  <2> SUFFICES ASSUME NEW d \in Command
               PROVE  Running(d)' => /\ cmd[d]'.synced <= samples'
                                     /\ cmd[d]'.does \in {"job_add", "pipeline_run"}
                                        /\ StepOf(d)' \in {"add_jobs", "add_run"}
                                          => cmd[d]'.seen >= cmd[d]'.synced
    BY DEF ReadInv
  <2>1. CASE d = c
    BY <2>1
  <2>2. CASE d # c
    <3>1. cmd'[d] = cmd[d] /\ txn'[d] = txn[d]
      BY <1>1, <2>2
    <3> QED BY <1>1, <3>1, CommandKept
  <2> QED BY <2>1, <2>2
<1> QED BY <1>2, <1>3, <1>4 DEF IInv, CatalogInv

\* A step of a command that leaves its record alone.
LEMMA SameRecord ==
  ASSUME IInv, NEW c \in Command, UNCHANGED cmd, samples' = samples,
         txn' \in [Process -> Txn], disk' \in Version, scanned' \in [Process -> Version],
         \A q \in Process : q # c => txn'[q] = txn[q], SyncInv',
         Active(c)' => Running(c) /\ txn'[c].kind = StepOf(c)
  PROVE  IInv'
<1>1. (Running(c)' <=> Running(c)) /\ StepOf(c)' = StepOf(c) /\ cmd'[c] = cmd[c]
  BY DEF Running, StepOf
<1>2. samples' \in Version /\ cmd' \in [Command -> Cmd] /\ samples' >= samples
  BY CatalogAssumption DEF IInv, CatalogInv, CatalogType, Version
<1>3. Running(c) => /\ cmd[c].does \in Todo
                    /\ cmd[c].at \in 1..Len(Steps[cmd[c].does])
                    /\ cmd[c].synced <= samples
                    /\ cmd[c].does \in {"job_add", "pipeline_run"}
                       /\ StepOf(c) \in {"add_jobs", "add_run"} => cmd[c].seen >= cmd[c].synced
  BY DEF IInv, CatalogInv, CommandInv, ReadInv
<1>4. \A d \in Command : d # c => cmd'[d] = cmd[d]
  OBVIOUS
<1> QED BY <1>1, <1>2, <1>3, <1>4, CommandEffect

LEMMA CommandBegins ==
  ASSUME IInv, NEW c \in Command, BeginStep(c)
  PROVE  IInv'
<1>0. c \in Process /\ CatalogType /\ SyncInv
  BY CatalogAssumption DEF IInv, CatalogInv
<1>1. Running(c) /\ StepOf(c) # "read" /\ Begin(c, StepOf(c)) /\ UNCHANGED <<disk, samples, scanned, cmd>>
  BY DEF BeginStep
<1>2. StepOf(c) \in Kind
  <2>1. cmd[c].does \in DOMAIN Steps /\ cmd[c].at \in 1..Len(Steps[cmd[c].does])
    BY <1>1, CatalogAssumption DEF IInv, CatalogInv, CommandInv
  <2>2. Steps[cmd[c].does] \in Seq(Kind \cup {"read"})
    BY <2>1, CommandSteps
  <2>3. Steps[cmd[c].does][cmd[c].at] \in Kind \cup {"read"}
    BY <2>1, <2>2
  <2> QED BY <1>1, <2>3 DEF StepOf
<1>3. SyncInv'
  BY <1>0, <1>1, <1>2, SyncBegin
<1>4. /\ txn' \in [Process -> Txn] /\ txn'[c].kind = StepOf(c)
      /\ \A q \in Process : q # c => txn'[q] = txn[q]
  BY <1>0, <1>1, <1>2, BeginEffect DEF CatalogType
<1>5. disk' \in Version /\ scanned' \in [Process -> Version]
  BY <1>0, <1>1 DEF CatalogType
<1> QED BY <1>1, <1>3, <1>4, <1>5, SameRecord

LEMMA CommandExecutes ==
  ASSUME IInv, NEW c \in Command, ExecuteOf(c)
  PROVE  IInv'
<1>0. c \in Process /\ CatalogType /\ SyncInv
  BY CatalogAssumption DEF IInv, CatalogInv
<1>1. UNCHANGED cmd
  BY DEF ExecuteOf
<1>2. SyncInv' /\ samples' = samples
  BY <1>0, SyncExecute
<1>3. /\ txn' \in [Process -> Txn] /\ disk' \in Version /\ scanned' \in [Process -> Version]
      /\ \A q \in Process : q # c => txn'[q] = txn[q]
  BY <1>0, ReferenceType
<1>4. txn'[c].kind = txn[c].kind /\ Active(c)
  <2>1. Execute(c) /\ txn \in [Process -> Txn]
    BY <1>0 DEF CatalogType, ExecuteOf
  <2>2. /\ txn'[c] = [kind |-> txn[c].kind, done |-> txn[c].done + 1]
        /\ Active(c)
    BY <1>0, <2>1, ExecuteEffect
  <2> QED BY <2>2
<1>5. Running(c) /\ txn[c].kind = StepOf(c)
  BY <1>4 DEF IInv, CatalogInv, CommandInv
<1> QED BY <1>1, <1>2, <1>3, <1>4, <1>5, SameRecord

LEMMA CommandEnds ==
  ASSUME IInv, NEW c \in Command, FailStep(c) \/ Refuse(c)
  PROVE  IInv'
<1>0. c \in Process /\ CatalogType /\ SyncInv /\ samples \in Nat
  BY CatalogAssumption DEF IInv, CatalogInv, CatalogType, Version
<1>1. cmd' = [cmd EXCEPT ![c] = Ended]
  BY DEF FailStep, Refuse
<1>2. /\ cmd' \in [Command -> Cmd] /\ cmd'[c] = Ended /\ \A d \in Command : d # c => cmd'[d] = cmd[d]
  BY <1>0, <1>1 DEF CatalogType, Cmd
<1>3. ~Running(c)'
  BY <1>2 DEF Running
<1>4. /\ txn' \in [Process -> Txn] /\ disk' \in Version /\ samples' = samples
      /\ scanned' \in [Process -> Version] /\ SyncInv' /\ ~Active(c)'
      /\ \A q \in Process : q # c => txn'[q] = txn[q]
  <2>1. CASE FailStep(c)
    <3>1. /\ RolledBack(c) /\ Close(c) /\ scanned' = [scanned EXCEPT ![c] = 0]
          /\ UNCHANGED <<disk, samples>>
      BY <2>1 DEF FailStep, RolledBack
    <3>2. SyncInv'
      BY <1>0, <3>1, SyncClose
    <3>3. ~Active(c)'
      BY <1>0, <3>1, CloseEffect DEF CatalogType, Active
    <3> QED BY <1>0, <3>1, <3>2, <3>3, ReferenceType
  <2>2. CASE Refuse(c)
    <3>1. UNCHANGED <<txn, disk, samples, scanned>> /\ Running(c) /\ StepOf(c) = "read"
      BY <2>2 DEF Refuse
    <3>2. ~Active(c)
      BY <1>0, <3>1, TxnOf, NoneIsNoKind DEF CatalogType, IInv, CatalogInv, CommandInv
    <3>3. SyncInv' /\ ~Active(c)'
      BY <1>0, <3>1, <3>2 DEF SyncInv, Holds, Active
    <3> QED BY <1>0, <3>1, <3>3 DEF CatalogType
  <2> QED BY <2>1, <2>2
<1>5. samples' \in Version /\ samples' >= samples
  BY <1>0, <1>4 DEF CatalogType
<1> QED BY <1>2, <1>3, <1>4, <1>5, CommandEffect

LEMMA CommandStarts ==
  ASSUME IInv, NEW c \in Command, StartCommand(c)
  PROVE  IInv'
<1>0. c \in Process /\ CatalogType /\ SyncInv /\ samples \in Nat /\ 0 \in Version
  BY CatalogAssumption DEF IInv, CatalogInv, CatalogType, Version
<1>1. PICK t \in Todo : cmd' = [cmd EXCEPT ![c].does = t]
  BY DEF StartCommand
<1>2. cmd'[c] = [does |-> t, at |-> 1, synced |-> 0, seen |-> 0]
  BY <1>0, <1>1 DEF StartCommand, NoCommand, CatalogType
<1>3. cmd'[c] \in Cmd
  BY <1>0, <1>2 DEF Cmd
<1>4. cmd' \in [Command -> Cmd] /\ \A d \in Command : d # c => cmd'[d] = cmd[d]
  BY <1>0, <1>1, <1>3 DEF CatalogType
<1>5. UNCHANGED <<txn, disk, samples, scanned>>
  BY DEF StartCommand
<1>6. ~Active(c)'
  BY <1>5 DEF StartCommand, IInv, CatalogInv, CommandInv, Running, Active
<1>7. /\ txn' \in [Process -> Txn] /\ disk' \in Version /\ samples' \in Version
      /\ scanned' \in [Process -> Version] /\ samples' >= samples
      /\ \A q \in Process : q # c => txn'[q] = txn[q]
  BY <1>0, <1>5 DEF CatalogType
<1>8. SyncInv'
  BY <1>0, <1>5 DEF SyncInv, Holds
<1>9. /\ cmd'[c].does \in Todo /\ cmd'[c].at \in 1..Len(Steps[cmd'[c].does]) /\ cmd'[c].synced <= samples'
      /\ cmd'[c].seen >= cmd'[c].synced
  <2>1. Len(Steps[t]) \in Nat \ {0}
    BY CommandSteps, CatalogAssumption
  <2>2. 1 \in 1..Len(Steps[t]) /\ 0 >= 0
    BY <2>1
  <2> QED BY <1>0, <1>2, <1>5, <2>2
<1> QED BY <1>3, <1>4, <1>6, <1>7, <1>8, <1>9, CommandEffect

LEMMA CommandReads ==
  ASSUME IInv, NEW c \in Command, ReadSamples(c)
  PROVE  IInv'
<1>0. /\ c \in Process /\ CatalogType /\ SyncInv /\ samples \in Nat /\ samples \in Version
      /\ Running(c) /\ cmd[c].does \in Todo /\ cmd[c].at \in 1..Len(Steps[cmd[c].does])
      /\ cmd[c].synced <= samples
  BY CatalogAssumption DEF IInv, CatalogInv, CatalogType, CommandInv, ReadInv, Version, ReadSamples
<1>1. cmd[c].synced \in Version /\ cmd \in [Command -> Cmd]
  BY <1>0 DEF CatalogType, Cmd, Running
<1>2. cmd' = GoOn(c, [cmd[c] EXCEPT !.at = @ + 1, !.synced = cmd[c].synced, !.seen = samples])
  <2>1. [cmd[c] EXCEPT !.at = @ + 1, !.seen = samples]
          = [cmd[c] EXCEPT !.at = @ + 1, !.synced = cmd[c].synced, !.seen = samples]
    BY <1>0, <1>1 DEF Cmd, Running
  <2> QED BY <2>1 DEF ReadSamples
<1>3. /\ cmd' \in [Command -> Cmd]
      /\ \A d \in Command : d # c => cmd'[d] = cmd[d]
      /\ \/ cmd'[c] = Ended
         \/ /\ cmd'[c].at = cmd[c].at + 1 /\ cmd'[c].does = cmd[c].does
            /\ cmd'[c].synced = cmd[c].synced /\ cmd'[c].seen = samples
            /\ cmd'[c].at \in 1..Len(Steps[cmd'[c].does])
  <2> HIDE DEF GoOn
  <2> QED BY <1>0, <1>1, <1>2, GoOnEffect
<1>4. UNCHANGED <<txn, disk, samples, scanned>>
  BY DEF ReadSamples
<1>5. ~Active(c)'
  BY <1>0, <1>4, TxnOf, NoneIsNoKind
     DEF ReadSamples, IInv, CatalogInv, CatalogType, CommandInv, Active
<1>6. /\ txn' \in [Process -> Txn] /\ disk' \in Version /\ samples' \in Version
      /\ scanned' \in [Process -> Version] /\ samples' >= samples
      /\ \A q \in Process : q # c => txn'[q] = txn[q]
  BY <1>0, <1>4 DEF CatalogType
<1>7. SyncInv'
  BY <1>0, <1>4 DEF SyncInv, Holds
<1>8. Running(c)' => /\ cmd'[c].does \in Todo
                     /\ cmd'[c].at \in 1..Len(Steps[cmd'[c].does])
                     /\ cmd'[c].synced <= samples'
                     /\ cmd'[c].seen >= cmd'[c].synced
  BY <1>0, <1>1, <1>3, <1>4 DEF Running, Version
<1> QED BY <1>3, <1>5, <1>6, <1>7, <1>8, CommandEffect

LEMMA CommandCommits ==
  ASSUME IInv, NEW c \in Command, CommitStep(c)
  PROVE  IInv' /\ samples' >= samples
<1>0. /\ c \in Process /\ CatalogType /\ SyncInv /\ samples \in Nat /\ Active(c)
      /\ Committed(c) /\ Close(c) /\ scanned[c] \in Version
  BY CatalogAssumption
     DEF IInv, CatalogInv, CatalogType, Version, CommitStep, Committed, Complete
<1>1. /\ Running(c) /\ cmd[c].does \in Todo /\ cmd[c].at \in 1..Len(Steps[cmd[c].does])
      /\ cmd[c].synced <= samples /\ txn[c].kind = StepOf(c)
  BY <1>0 DEF IInv, CatalogInv, CommandInv, ReadInv
<1>2. /\ cmd[c].synced \in Version /\ cmd[c].seen \in Version /\ cmd \in [Command -> Cmd]
      /\ cmd[c] \in [does : Todo, at : Nat, synced : Version, seen : Version]
  BY <1>0, <1>1 DEF CatalogType, Cmd, Running
<1> DEFINE synced == IF txn[c].kind = "sync" THEN scanned[c] ELSE cmd[c].synced
<1>3. synced \in Version
  BY <1>0, <1>2
<1>4. cmd' = GoOn(c, [cmd[c] EXCEPT !.at = @ + 1, !.synced = synced, !.seen = cmd[c].seen])
  <2>1. [cmd[c] EXCEPT !.at = @ + 1, !.synced = IF txn[c].kind = "sync" THEN scanned[c] ELSE @]
          = [cmd[c] EXCEPT !.at = @ + 1, !.synced = synced, !.seen = cmd[c].seen]
    BY <1>2
  <2> QED BY <2>1 DEF CommitStep
<1>5. SyncInv' /\ samples' >= samples
  BY <1>0, SyncCommit
<1>6. synced <= samples'
  BY <1>0, <1>1, <1>2, <1>5 DEF Committed, Version, CatalogType
<1> HIDE DEF synced
<1>7. /\ cmd' \in [Command -> Cmd]
      /\ \A d \in Command : d # c => cmd'[d] = cmd[d]
      /\ \/ cmd'[c] = Ended
         \/ /\ cmd'[c].at = cmd[c].at + 1 /\ cmd'[c].does = cmd[c].does
            /\ cmd'[c].synced = synced /\ cmd'[c].seen = cmd[c].seen
            /\ cmd'[c].at \in 1..Len(Steps[cmd'[c].does])
  BY <1>1, <1>2, <1>3, <1>4, GoOnEffect
<1>8. /\ txn' \in [Process -> Txn] /\ disk' \in Version /\ samples' \in Version
      /\ scanned' \in [Process -> Version]
      /\ \A q \in Process : q # c => txn'[q] = txn[q]
  BY <1>0, ReferenceType
<1>9. ~Active(c)'
  BY <1>0, CloseEffect DEF CatalogType, Active
\* The step after a transaction reads: it is no step that adds.
<1>10. Running(c)' /\ cmd'[c].does \in {"job_add", "pipeline_run"}
         => StepOf(c)' \notin {"add_jobs", "add_run"}
  <2> SUFFICES ASSUME Running(c)', cmd'[c].does \in {"job_add", "pipeline_run"},
                      StepOf(c)' \in {"add_jobs", "add_run"}
               PROVE  FALSE
    OBVIOUS
  <2>1. /\ cmd'[c].at = cmd[c].at + 1 /\ cmd'[c].does = cmd[c].does
        /\ cmd'[c].at \in 1..Len(Steps[cmd[c].does])
    BY <1>7 DEF Running
  <2>2. cmd[c].does \in DOMAIN Steps /\ Len(Steps[cmd[c].does]) \in Nat /\ cmd[c].at \in Nat
    BY <1>1, <1>2, CommandSteps, CatalogAssumption
  <2>3. cmd'[c].at \in 2..Len(Steps[cmd[c].does]) /\ cmd'[c].at - 1 = cmd[c].at
    BY <1>1, <2>1, <2>2
  <2>4. Steps[cmd[c].does][cmd'[c].at] \in {"add_jobs", "add_run"}
    BY <2>1 DEF StepOf
  <2>5. Steps[cmd[c].does][cmd[c].at] = "read"
    BY <2>1, <2>2, <2>3, <2>4, CommandSteps
  <2>6. txn[c].kind \in Kind
    BY <1>0, TxnOf DEF CatalogType
  <2> QED BY <1>1, <2>5, <2>6, NoneIsNoKind DEF StepOf
<1>11. Running(c)' => /\ cmd'[c].does \in Todo
                      /\ cmd'[c].at \in 1..Len(Steps[cmd'[c].does])
                      /\ cmd'[c].synced <= samples'
  BY <1>1, <1>6, <1>7 DEF Running
<1> QED BY <1>5, <1>7, <1>8, <1>9, <1>10, <1>11, CommandEffect

LEMMA CatalogStep ==
  ASSUME IInv, [Next]_vars
  PROVE  IInv' /\ samples' >= samples
<1>0. samples \in Nat /\ CatalogType /\ SyncInv
  BY CatalogAssumption DEF IInv, CatalogInv, CatalogType, Version
<1>1. CASE UNCHANGED catalogVars
  <2>1. UNCHANGED <<txn, disk, samples, scanned, cmd>>
    BY <1>1 DEF catalogVars
  <2>2. \A c \in Command : (Running(c)' <=> Running(c)) /\ (Active(c)' <=> Active(c)) /\ StepOf(c)' = StepOf(c)
    BY <2>1 DEF Running, Active, StepOf
  <2>3. CatalogType' /\ CommandInv' /\ ReadInv'
    BY <2>1, <2>2 DEF IInv, CatalogInv, CatalogType, CommandInv, ReadInv
  <2>4. SyncInv'
    BY <1>0, <2>1 DEF SyncInv, Holds
  <2> QED BY <1>0, <2>1, <2>3, <2>4 DEF IInv, CatalogInv
<1>2. CASE EditDisk
  <2>1. UNCHANGED <<txn, samples, scanned, cmd>> /\ disk' = disk + 1 /\ disk < MaxEdits
    BY <1>2 DEF EditDisk
  <2>2. \A c \in Command : (Running(c)' <=> Running(c)) /\ (Active(c)' <=> Active(c)) /\ StepOf(c)' = StepOf(c)
    BY <2>1 DEF Running, Active, StepOf
  <2>3. disk' \in Version
    BY <1>0, <2>1, CatalogAssumption DEF CatalogType, Version
  <2>4. CatalogType' /\ CommandInv' /\ ReadInv'
    BY <2>1, <2>2, <2>3 DEF IInv, CatalogInv, CatalogType, CommandInv, ReadInv
  <2>5. SyncInv'
    BY <1>0, <1>2, SyncEdit
  <2> QED BY <1>0, <2>1, <2>4, <2>5 DEF IInv, CatalogInv
<1>3. CASE OrchestratorCatalog
  BY <1>3, OrchestratorStep
<1>4. ASSUME NEW c \in Command, CommandCatalog(c)
      PROVE  IInv' /\ samples' >= samples
  <2>1. CASE StartCommand(c)
    <3>1. IInv'
      BY <2>1, CommandStarts
    <3>2. samples' = samples
      BY <2>1 DEF StartCommand
    <3> QED BY <1>0, <3>1, <3>2
  <2>2. CASE BeginStep(c)
    BY <1>0, <2>2, CommandBegins DEF BeginStep
  <2>3. CASE ExecuteOf(c)
    BY <1>0, <2>3, CommandExecutes DEF ExecuteOf
  <2>4. CASE ReadSamples(c)
    <3>1. IInv'
      BY <2>4, CommandReads
    <3>2. samples' = samples
      BY <2>4 DEF ReadSamples
    <3> QED BY <1>0, <3>1, <3>2
  <2>5. CASE CommitStep(c)
    BY <2>5, CommandCommits
  <2>6. CASE FailStep(c) \/ Refuse(c)
    BY <1>0, <2>6, CommandEnds DEF FailStep, RolledBack, Refuse
  <2> QED BY <1>4, <2>1, <2>2, <2>3, <2>4, <2>5, <2>6 DEF CommandCatalog
<1> QED BY <1>1, <1>2, <1>3, <1>4, CatalogMoves DEF vars

(***************************************************************************)
(* The theorems.                                                           *)
(***************************************************************************)
LEMMA CatalogInvariant == Spec => []IInv
<1>1. Init => IInv
  <2> SUFFICES ASSUME Init PROVE ReadInv
    BY CatalogStart, SyncStart DEF IInv
  <2> QED BY DEF Init, CatalogInit, ReadInv, Running
<1>2. IInv /\ [Next]_vars => IInv'
  BY CatalogStep
<1> QED BY <1>1, <1>2, PTL DEF Spec

\* The variables of the service, its launcher, the database and the commands only
\* take the values the model gives them.
THEOREM ServiceTypes == Spec => []TypeOK
<1>1. IInv /\ ServiceInv /\ LauncherInv => TypeOK
  BY DEF IInv, CatalogInv, ServiceInv, LauncherInv, TypeOK
<1> QED BY <1>1, CatalogInvariant, ServiceInvariant, PTL

\* No two syncs of the reference state wait for each other: pg_advisory_xact_lock
\* admits one of them to the tables the schema locks one after the other.
THEOREM SyncsTakeTurns == Spec => []SyncsDoNotDeadlock
<1>1. IInv => SyncsDoNotDeadlock
  <2> SUFFICES ASSUME IInv, NEW p \in Process, NEW q \in Process,
                      txn[p].kind = "sync", txn[q].kind = "sync", Waits(p, q), Waits(q, p)
               PROVE  FALSE
    BY DEF SyncsDoNotDeadlock
  <2>1. CatalogType /\ SyncInv /\ p # q
    BY DEF IInv, CatalogInv, Waits
  <2>2. ASSUME NEW r \in Process, txn[r].kind = "sync", NEW b \in Executed(r)
        PROVE  Holds(r)
    <3>1. txn[r].done \in Nat
      BY <2>1, <2>2, TxnOf, NoneIsNoKind DEF CatalogType
    <3> QED BY <2>2, <3>1 DEF Executed, Holds
  <2>3. Holds(p) /\ Holds(q)
    BY <2>2 DEF Waits
  <2> QED BY <2>1, <2>3 DEF SyncInv
<1> QED BY <1>1, CatalogInvariant, PTL

\* The samples table never goes back to an older state of the datasets: each sync
\* reads the disk after the one before it has committed.
THEOREM SamplesFollowTheDisk == Spec => SamplesNeverGoBack
<1>1. IInv /\ [Next]_vars => [samples' >= samples]_samples
  BY CatalogStep
<1> QED BY <1>1, CatalogInvariant, PTL DEF Spec, SamplesNeverGoBack

\* What a command adds rests on rows at least as new as its own sync has found.
THEOREM CommandsReadTheirSync == Spec => []ReadsItsOwnSync
<1>1. IInv => ReadsItsOwnSync
  BY DEF IInv, ReadInv, ReadsItsOwnSync
<1> QED BY <1>1, CatalogInvariant, PTL

=============================================================================
