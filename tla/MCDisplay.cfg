SPECIFICATION FairSpec
CONSTANTS
  NumChannels = 1
  Mode = {0, 4}
  Typed <- MCTyped
  GuiCapacity = 1
  LoadCapacity = 2
  Inhibit = 1
  Wrap = 3
  MaxQuiet = 2
  MaxCommands = 2
INVARIANTS
  TypeOK
  CutoffAgrees
PROPERTY
  DisplayConverges
