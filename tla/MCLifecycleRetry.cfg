SPECIFICATION FairSpec
CONSTANTS
  m = m
  c = c
  n = n
  Service <- MCService
  Role <- MCRole
  Disk <- MCDisk
  ServiceMount <- MCDisk
  Command = {"deploy", "stop", "clean", "upgrade"}
  Fault <- AllFaults
  LostAt <- TaskStep
  MaxFaults = 2
INVARIANTS
  RecordFaithful
PROPERTIES
  OrphanOnlyWhileCreating
  RetryHeals
