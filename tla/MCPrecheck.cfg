SPECIFICATION Spec
CONSTANTS
  Runs <- AllRuns
  Environments <- AllEnvironments
  Slow <- Firsts
  Fault = {"fails", "kill"}
  MaxRuns = 2
  MaxFaults = 1
INVARIANTS TypeOK PassedMeansReady FailedMeansWrong
CHECK_DEADLOCK FALSE
