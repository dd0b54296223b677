SPECIFICATION Spec
CONSTANTS
  m2 = m2
  m1 = m1
  Managers = {m1, m2}
  Fds = {4, 5, 6}
  NoFd = NoFd
  NoManager = NoManager
  Srcs <- MCSrcs
  Trace <- MCShort
  num_clients = 2
  ClientIndex = {0, 1}
  trace_limit = 0
  SktCap = 2
  MaxNow = 0
  MaxFaults = 1
CHECK_DEADLOCK FALSE
INVARIANTS BevNotNull
