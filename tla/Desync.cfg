SPECIFICATION Spec
CONSTANTS
  Settings <- MCSettings
  Lengths = {3, 4}
  Hosts = {0, 1}
  Missing = {0, 2}
  MaxBytes = 10
  SlowBytes = 6
  BufSize = 6
  Rounds = {1, 2}
  WaitSends = {TRUE, FALSE}
  SameRound = FALSE
  Slows = {TRUE, FALSE}
  MaxBusy = 2
  MaxUrgent = 12
  MaxResets = 1
INVARIANTS TypeOK StreamIntact RecordsWhole OnlyPartsSpoilt UrgentOnce InOrder WaitEndsTimer
PROPERTIES Delivered
CHECK_DEADLOCK FALSE
