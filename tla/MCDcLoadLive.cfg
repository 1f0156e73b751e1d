SPECIFICATION FairSpec
CONSTANTS
  NumDevices = 1
  Client = {3}
  Request <- LiveRequests
  Reading <- MCReading
  PowerUp <- MCPowerUp
  PerUnit = 10000
  QueueLength = 2
  StaleTicks = 2
  TimeoutTicks = 2
  BootTicks = 1
  MaxRequests = 2
  MaxFaults = 1
  MaxRestarts = 1
  MaxChanges = 2
INVARIANT
  FreshMeansRecent
PROPERTIES
  QueriesAnswered
  UndervoltageEndsOutput
\* dc_load_controller_stop deletes the task: the system may stop for good.
CHECK_DEADLOCK FALSE
