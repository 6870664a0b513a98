SPECIFICATION Spec
CONSTANTS
  c1 = c1  c2 = c2  a1 = a1  a2 = a2
  NULL = NULL
  N = 3
  Detects <- OneType
  Levels <- AllLevels
  Clients <- OneClient
  Addrs <- OneAddr
  Bodies <- TwoBodies
  L34s <- SomeL34
  L7s <- SomeL7
  DelayConn = TRUE
  Ttl = TRUE
  Loaded = TRUE
  MaxPri = 2
INVARIANTS TypeOK GroupFits ListSpellsOrder
PROPERTIES NeverTwice ImplementsList
CHECK_DEADLOCK FALSE
