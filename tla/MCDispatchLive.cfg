SPECIFICATION FairSpec
CONSTANTS
  Job = {j1, j2}
  Batch = {b1, b2, b3}
  Runner = {r1}
  NoBatch = NoBatch
  NoRunner = NoRunner
  NoJob = NoJob
  MaxAttempts = 2
  Static = FALSE
  MaxBatchSize = 1
  AllowOutside = {}
  Orphan = {}
  EndPolicies = {"end_now"}
  Limit <- MCLiveLimit
  MaxFaults = 1
PROPERTIES
  EveryJobSettles
CHECK_DEADLOCK FALSE
