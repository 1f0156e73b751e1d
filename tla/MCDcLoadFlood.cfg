SPECIFICATION FloodSpec
CONSTANTS
  NumDevices = 1
  Client = {0}
  Request <- FloodRequests
  Reading <- MCReading
  PowerUp <- MCPowerUp
  PerUnit = 10000
  QueueLength = 2
  StaleTicks = 0
  TimeoutTicks = 1
  BootTicks = 1
  MaxRequests = 0
  MaxFaults = 0
  MaxRestarts = 0
  MaxChanges = 0
PROPERTIES
  UndervoltageEndsOutput
\* dc_load_controller_stop deletes the task: the system may stop for good.
CHECK_DEADLOCK FALSE
