SPECIFICATION Spec
CONSTANTS
  Job = {j1, j2}
  Batch = {b1, b2, b3, b4}
  Runner = {r1, r2}
  NoBatch = NoBatch
  NoRunner = NoRunner
  NoJob = NoJob
  MaxAttempts = 2
  Static = FALSE
  MaxBatchSize = 2
  AllowOutside = {}
  Orphan = {}
  EndPolicies = {"finish_batch"}
  Limit <- MCDockerLimit
  MaxFaults = 2
SYMMETRY MCSymmetry
INVARIANTS
  TypeOK
  PlanOwnsItsJobs
  PendingBatchIsOpen
  OpenBatchIsPending
  RunnerIsFreeInLoop
  ResultIsOfThisAttempt
  AtMostOneExecution
  NoOrphanExecution
PROPERTIES
  ImplementsLifecycle
  CancelledRowIsFinal
  RunnersKeepContract
CHECK_DEADLOCK FALSE
