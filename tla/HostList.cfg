SPECIFICATION Spec
CONSTANTS
  CmpType = "host"
  Hosts <- MCHosts
  Invalid <- MCInvalid
INVARIANTS ListedFound
CHECK_DEADLOCK FALSE
