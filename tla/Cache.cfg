SPECIFICATION Spec
CONSTANTS
  CmpType = "bits"
  Addrs <- MCAddrs
  Starts <- MCStarts
  MaxOpts = 5
  CachePre = 2
  Ttl = 1
  OldFiles <- MCFiles
  MaxTime = 2
  MaxDumps = 1
INVARIANTS TypeOK Disjoint FilesFaithful GroupsAsAsked
PROPERTIES VerdictKept ArgsEnd
CHECK_DEADLOCK FALSE
