SPECIFICATION FairSpec
CONSTANTS
  s1 = s1
  s2 = s2
  Slot <- MCSlot
  Capacity = 2
  MinUptime = 1
  MaxFetches = 1
  MaxResets = 1
  MaxFaults = 1
INVARIANTS
  TypeOK
  FallbackKept
  FlagFollowsWifi
PROPERTIES
  ImplementsTwoSlots
  ConfirmedOnline
  UpdateEnds
