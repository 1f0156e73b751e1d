SPECIFICATION Spec
CONSTANTS
  MaxSamples = 65535
  GraphSize = 3
  GraphSlot = 2
  Step = 2
  Capacity = 2
  LongStep = 4
  LongCapacity = 2
  Delay <- MCDelay
  Value <- MCValue
  MaxMeasurements = 4
INVARIANTS
  TypeOK
  ArchivesMatch
  ChartMatches
\* The measurements are bounded.
CHECK_DEADLOCK FALSE
