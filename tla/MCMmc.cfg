SPECIFICATION Spec
CONSTANTS
  Pll6 = 600
  Points = 8
  RetryGap = 2
  Window <- MCWindow
  OpCondPolls = 2
  BMax = 2
  WinTh = 3
  TuningAdd = 10
  SecureStart = 4
  ItemSize = 2
  MaxItem = 1
  Setups <- MCSetups
  Ranges <- MCRanges
  Values <- MCValues
INVARIANTS
  ClockWithinMode
  ModeAgrees
  InitRecovers
  DataExact
  SecureUntorn
CHECK_DEADLOCK FALSE
