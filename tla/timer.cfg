SPECIFICATION FairSpec
CONSTANTS
  Streams <- MCStreams
  MaxNow = 3
CHECK_DEADLOCK FALSE
INVARIANTS Accounting EarlyOnlyByLag AbortsExactly
PROPERTIES AllIssued
