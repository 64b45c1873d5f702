SPECIFICATION Spec
CONSTANTS
  Service = {"m", "c1", "c2", "s"}
  Client = {"v", "w"}
  Mds = {"m"}
  Parent <- Parents
  Skippable = {"s"}
  MaxChanges = 2
INVARIANTS ShownTrue
CHECK_DEADLOCK FALSE
