SPECIFICATION FairSpec
CONSTANTS
  m2 = m2
  m1 = m1
  Managers = {m1, m2}
  Fds = {4, 5, 6}
  NoFd = NoFd
  NoManager = NoManager
  Srcs <- MCSrcs
  Trace <- MCTrace
  num_clients = 2
  ClientIndex = {0, 1}
  trace_limit = 1
  SktCap = 2
  MaxFaults = 2
  MaxNow = 1
CHECK_DEADLOCK FALSE
INVARIANTS TypeOK MapsAgree IndexInRange SyncBeforeQueries ThrottleHolds
PROPERTIES ImplementsDispatch ReplayCompletes
