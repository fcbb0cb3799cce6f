SPECIFICATION Spec
CONSTANTS
  Job = {j1}
  Batch = {b1, b2}
  Runner = {r1}
  NoBatch = NoBatch
  NoRunner = NoRunner
  NoJob = NoJob
  MaxAttempts = 2
  Static = FALSE
  MaxBatchSize = 1
  AllowOutside = {}
  Orphan = {}
  EndPolicies = {"end_now"}
  Limit <- MCLiveLimit
  MaxFaults = 1
INVARIANTS
  RunningJobSurvivesRestart
CHECK_DEADLOCK FALSE
