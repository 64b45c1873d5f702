SPECIFICATION Spec
CONSTANTS
  m = m
  c = c
  n = n
  Service <- MCServiceAll
  Role <- MCRoleAll
  Disk <- MCDisk
  ServiceMount <- MCDisk
  Command = {"deploy", "start", "stop", "restart", "reload", "clean", "cleanlog", "upgrade"}
  Fault <- AllFaults
  LostAt <- TaskStep
  MaxFaults = 1
INVARIANTS
  TypeOK
  StartsOnlyConfigured
  DeployOrder
  SuccessMeansAchieved
PROPERTIES
  ForgetOnlyRemoved
