SPECIFICATION Spec
CONSTANTS
  Job = {j1, j2, j3}
  Batch = {b1, b2, b3, b4}
  Runner = {r1}
  NoBatch = NoBatch
  NoRunner = NoRunner
  NoJob = NoJob
  MaxAttempts = 2
  Static = TRUE
  MaxBatchSize = 2
  AllowOutside = {j2}
  Orphan = {j3}
  EndPolicies = {"finish_job", "end_now"}
  Limit <- MCStaticLimit
  MaxFaults = 2
SYMMETRY MCBatchSymmetry
INVARIANTS
  PlanOwnsItsJobs
  RunnerIsFreeInLoop
  ResultIsOfThisAttempt
PROPERTIES
  ImplementsLifecycle
CHECK_DEADLOCK FALSE
