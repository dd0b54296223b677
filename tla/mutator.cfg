SPECIFICATION FairSpec
CONSTANTS
  Jobs <- MCJobs
  Rolls <- Boundary
  MayKill = TRUE
  MaxRead = 7
INVARIANTS EncodingTransparent OptionsHonoured
PROPERTY ConversionCompletes
CHECK_DEADLOCK FALSE
