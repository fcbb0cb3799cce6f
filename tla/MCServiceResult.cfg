CONSTANTS
  Orchestrator = orchestrator
  Process = {orchestrator, c1}
  Command = {c1}
  Todo = {"job_add"}
  MaxEdits = 0
  MaxFaults = 0
  Networks = 2
  MaxContainers = 2
  Request = {q1}
  MaxAttempts = 2
  DayLength = 3
  Schedule <- MCSchedule
SPECIFICATION Spec
PROPERTY ResultIsPersisted
CHECK_DEADLOCK FALSE
