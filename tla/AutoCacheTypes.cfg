SPECIFICATION Spec
CONSTANTS
  c1 = c1  c2 = c2  a1 = a1  a2 = a2
  NULL = NULL
  N = 3
  Detects <- TwoTypes
  Levels <- PlainLevels
  Clients <- TwoClients
  Addrs <- OneAddr
  Bodies <- OneBody
  L34s <- NoL34
  L7s <- NoL7
  DelayConn = FALSE
  Ttl = FALSE
  Loaded = FALSE
  MaxPri = 2
INVARIANTS CacheUsable
CHECK_DEADLOCK FALSE
