SPECIFICATION FairSpec
CONSTANTS
  Sizes <- MCSizes
  Readers <- MCReaders
CHECK_DEADLOCK FALSE
INVARIANTS Reassembled NothingLeftBehind
PROPERTIES AllParsed
