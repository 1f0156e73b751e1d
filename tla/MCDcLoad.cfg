SPECIFICATION Spec
CONSTANTS
  NumDevices = 2
  Client = {3}
  Request <- AllRequests
  Reading <- MCReading
  PowerUp <- OnlyOff
  PerUnit = 10000
  QueueLength = 2
  StaleTicks = 0
  TimeoutTicks = 1
  BootTicks = 1
  MaxRequests = 2
  MaxFaults = 1
  MaxRestarts = 1
  MaxChanges = 1
INVARIANTS
  TypeOK
  CutoffBeforeReport
  ReadbackFollowsSet
  SetpointInModule
  AnsweredOnce
PROPERTIES
  OnOnlyByCommand
\* dc_load_controller_stop deletes the task: the system may stop for good.
CHECK_DEADLOCK FALSE
