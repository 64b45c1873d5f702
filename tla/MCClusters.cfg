SPECIFICATION Spec
CONSTANTS
  AutoUpgrade = TRUE
  Fault = {"database", "file", "kill"}
  MaxCommands = 3
  MaxVersion = 2
  MaxDay = 2
  MaxFaults = 1
  Name = {"a1", "a_"}
  Like <- Matches
  Service = {"s1", "s2"}
  HostsFile = {1, 2}
  ValidHosts = {1}
  MaxClusters = 3
INVARIANTS TypeOK AuditTruthful
PROPERTIES SuccessMeansDone RemovesOnlyInactive AskedOnceADay
CHECK_DEADLOCK FALSE
