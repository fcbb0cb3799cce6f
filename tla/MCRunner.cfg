CONSTANTS
  j1 = j1
  j2 = j2
  b1 = b1
  b2 = b2
  NoJob = NoJob
  NoBatch = NoBatch
  Job <- Jobs
  Batch <- Batches
  MaxRuns = 2
  MaxShutdowns = 1
SPECIFICATION FairSpec
INVARIANTS
  TypeOK
  OnlyLastJobComputes
  TerminalShowsLastResult
  WorkIsWatched
PROPERTIES
  KeepsContract
  RunEnds
  ShutdownEnds
CHECK_DEADLOCK FALSE
