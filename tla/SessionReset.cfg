SPECIFICATION Spec
CONSTANTS
  NULL = NULL
  Modes <- OneMode
  AutoReconnect = TRUE
  DelayConn = FALSE
  BufSize = 3
  MaxUp = 3
  MaxDown = 3
  UdpRounds = {1, 2}
  FakeCount = 2
  MaxDgrams = 0
  MaxConns = 2
INVARIANTS SlotAlive
CHECK_DEADLOCK FALSE
