SPECIFICATION FairSpec
CONSTANTS
  Setups <- MCSetups
  Srcs <- MCSrcs
  Commands <- MCCommands
  WorkersMayFail = TRUE
  ForksMayFail = TRUE
  FAIL_RETRY_LIMIT = 3
  Cap = 1
  MaxNow = 4
CHECK_DEADLOCK FALSE
INVARIANTS RoutedOnce SyncFirst LimitHolds
PROPERTIES AllWritten ShutdownCompletes
