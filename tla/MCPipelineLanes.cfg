CONSTANTS
  a = a
  b = b
  c = c
  k1 = k1
  k2 = k2
  Stage <- Stages
  Definition <- Reports
  MaxLanes = 2
  Key <- Keys
  Script = Script
  Empty = Empty
  Absent = Absent
  Unknown = Unknown
  Raw <- Files
  MaxFaults = 0
  MaxSyncs = 0
  MaxCancels = 0
SPECIFICATION Spec
PROPERTIES
  WaitsForAllLanes
