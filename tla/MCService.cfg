CONSTANTS
  Orchestrator = orchestrator
  Process = {orchestrator, c1}
  Command = {c1}
  Todo = {"pipeline_run", "pipeline_cancel"}
  MaxEdits = 1
  MaxFaults = 1
  Networks = 2
  MaxContainers = 2
  Request = {q1}
  MaxAttempts = 2
  DayLength = 3
  Schedule <- MCSchedule
SPECIFICATION FairSpec
INVARIANTS
  TypeOK
  RunningWhileOperating
  ShutdownIsKept
  SyncsDoNotDeadlock
  ReadsItsOwnSync
  NoForgottenContainer
  ClaimsFollowSchedule
PROPERTIES
  SamplesNeverGoBack
  SchedulerGoesOn
CHECK_DEADLOCK FALSE
