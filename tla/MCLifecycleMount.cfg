SPECIFICATION Spec
CONSTANTS
  m = m
  c = c
  n = n
  Service <- MCService
  Role <- MCRole
  Disk <- MCDisk
  ServiceMount <- MCDisk
  Command = {"deploy", "start", "stop", "restart", "reload", "clean", "cleanlog", "upgrade"}
  Fault <- AllFaults
  LostAt <- TaskStep
  MaxFaults = 3
PROPERTIES
  MountedTwiceOnly
