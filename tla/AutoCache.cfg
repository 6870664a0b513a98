SPECIFICATION Spec
CONSTANTS
  c1 = c1  c2 = c2  a1 = a1  a2 = a2
  NULL = NULL
  N = 3
  Detects <- OneType
  Levels <- PlainLevels
  Clients <- TwoClients
  Addrs <- TwoAddrs
  Bodies <- OneBody
  L34s <- NoL34
  L7s <- NoL7
  DelayConn = FALSE
  Ttl = TRUE
  Loaded = FALSE
  MaxPri = 2
SYMMETRY ClientSymmetry
INVARIANTS CacheUsable
PROPERTIES SavedGroupUsed
CHECK_DEADLOCK FALSE
