SPECIFICATION Spec
CONSTANTS
  AutoUpgrade = TRUE
  Fault = {"database", "file", "kill"}
  MaxCommands = 3
  MaxVersion = 1
  MaxDay = 1
  MaxFaults = 1
  Name = {"a1", "a_"}
  Like <- Matches
  Service = {"s1", "s2"}
  HostsFile = {1, 2}
  ValidHosts = {1}
  MaxClusters = 3
PROPERTY SwitchedMeansCurrent
CHECK_DEADLOCK FALSE
