SPECIFICATION FilterSpec
CONSTANTS
  Inputs <- MCInputs
  NaN = NaN
  NoFile = NoFile
  num_clients = 3
  kFilterTotalWeight = 4
  UMod = 16
CHECK_DEADLOCK FALSE
INVARIANTS FillMatchesWeights ValidCovers
