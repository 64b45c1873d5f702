SPECIFICATION Spec
CONSTANTS
  m = m
  c = c
  n = n
  Service <- MCService
  Role <- MCRole
  Disk <- MCDisk
  ServiceMount <- MCDisk
  Command = {"deploy", "stop", "clean"}
  Fault = {"remote"}
  LostAt <- TaskStep
  MaxFaults = 1
INVARIANTS
  CleanedHasNoData
