SPECIFICATION Spec
CONSTANTS
  Volume = {"volume"}
  MountPoint = {"mount"}
  Target = {"vol_u_", "a-b_u_"}
  PlainName <- Names
  ClientConf <- Confs
  Fault = {"fails", "lost", "exit", "reboot"}
  MaxJobs = 4
  MaxFaults = 2
INVARIANTS TypeOK StartedIsRecorded AttachedIsConfigured EndedStaysEnded UnmapForgets
PROPERTY ComesBack
CHECK_DEADLOCK FALSE
