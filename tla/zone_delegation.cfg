SPECIFICATION Spec
CONSTANTS
  Inputs <- CommentInputs
  NameOrder <- MCNameOrder
  PartialLabels <- MCPartial
  Capitals <- MCCapitals
  Singletons = {"SOA", "CNAME", "DNAME", "NSEC", "NXT"}
  RootHint <- MCRootHint
  rec_addr = "ipRec"
CHECK_DEADLOCK FALSE
INVARIANTS DelegationServed
