CONSTANTS
  a = a
  b = b
  c = c
  k1 = k1
  k2 = k2
  Stage <- Stages
  Definition <- Definitions
  MaxLanes = 2
  Key <- Keys
  Script = Script
  Empty = Empty
  Absent = Absent
  Unknown = Unknown
  Raw <- Files
  MaxFaults = 1
  MaxSyncs = 1
  MaxCancels = 1
SPECIFICATION FairSpec
INVARIANTS
  TypeOK
  CompletedIsWhole
  InputsAreKept
  OneContainer
  FetchedIsValid
PROPERTIES
  StartsAfterDependencies
  KeepsPromise
  RunEnds
