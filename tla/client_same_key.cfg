SPECIFICATION Spec
CONSTANTS
  Setups <- MCSameName
  Srcs <- MCSrcs
  Names <- MCNames
  NoSrc = "none"
  NoFd = NoFd
  NoName = "noname"
  Ids = {1, 2}
  Fds = {7, 8, 9}
  MaxTimeouts = 0
  MaxCopies = 1
  MaxConns = 0
CHECK_DEADLOCK FALSE
INVARIANTS NoOverwrite
