SPECIFICATION FairSpec
CONSTANTS
  Topologies <- TopologiesWritten
  Copysets = 2
  MaxFaults = 2
INVARIANTS
  TypeOK
PROPERTIES
  FaithfulUntilMisplaced
  ZonedUntilMisplaced
  PlacementStable
  StoredOnlyStarted
  RepeatingSucceeds
