SPECIFICATION Spec
CONSTANTS
  NULL = NULL
  Modes <- AllModes
  AutoReconnect = TRUE
  DelayConn = TRUE
  BufSize = 3
  MaxUp = 4
  MaxDown = 4
  UdpRounds = {1, 2}
  FakeCount = 2
  MaxDgrams = 6
  MaxConns = 3
INVARIANTS TypeOK RequestWhole AnswerWhole RepliesFirst FakesLead
PROPERTIES Relayed
CHECK_DEADLOCK FALSE
