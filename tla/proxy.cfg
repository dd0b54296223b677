SPECIFICATION FairSpec
CONSTANTS
  Pushers = {reader}
  Poppers = {w1, w2}
  Items = {1, 2, 3, 4}
  NoItem = NoItem
  NoThread = NoThread
  m <- MinusOne
  UintMod = 3
  Inputs <- MCInputs
  rec_addr <- MCRec
  aut_addr <- MCAut
  MayFail = TRUE
CHECK_DEADLOCK FALSE
INVARIANTS ExactlyOnce BoundedReordering NoLostWakeup ChecksumValid HierarchyKept
PROPERTIES ImplementsFifo AllForwarded
