SPECIFICATION FairSpec
CONSTANTS
  Setups <- MCSetups
  Srcs <- MCSrcs
  Names <- MCNames
  NoSrc = "none"
  NoFd = NoFd
  NoName = "noname"
  Ids = {1, 2}
  Fds = {7, 8, 9}
  MaxTimeouts = 1
  MaxCopies = 2
  MaxConns = 3
CHECK_DEADLOCK FALSE
INVARIANTS SocketMaps OwnSocket LatencyOnce EachAnswerReported
PROPERTIES AllSent
