SPECIFICATION Spec
CONSTANTS
  Settings <- OneSetting
  Lengths = {3, 4}
  Hosts = {0, 1}
  Missing = {0}
  MaxBytes = 8
  SlowBytes = 6
  BufSize = 8
  Rounds = {1}
  WaitSends = {FALSE}
  SameRound = TRUE
  Slows = {FALSE}
  MaxBusy = 0
  MaxUrgent = 0
  MaxResets = 0
INVARIANTS StreamIntact
CHECK_DEADLOCK FALSE
