SPECIFICATION Spec
CONSTANTS
  Inputs <- MCInputs
  NameOrder <- MCNameOrder
  PartialLabels <- MCPartial
  Capitals <- MCCapitals
  Singletons = {"SOA", "CNAME", "DNAME", "NSEC", "NXT"}
  RootHint <- MCRootHint
  rec_addr = "ipRec"
CHECK_DEADLOCK FALSE
INVARIANTS TypeOK ServedUnlessShadowed AbortsExplained
PROPERTIES DelegationFixed
