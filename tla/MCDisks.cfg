SPECIFICATION Spec
CONSTANTS
  Files <- DiskFiles
  FormatFile <- OneFormat
  Server <- TwoServers
  Uuid = {1, 2, 3, 4, 5}
  Fault = {"fails", "lost", "database", "crash", "exit", "reboot"}
  MaxJobs = 4
  MaxFaults = 1
INVARIANTS TypeOK OkMeansReady DoneMeansFilled
PROPERTIES  CommandEnds
CHECK_DEADLOCK FALSE
