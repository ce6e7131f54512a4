SPECIFICATION Spec
CONSTANTS
  Threads = {w1, w2}
  Second = 3
  Jitter = 1
  Margin = 2
  Grace = 2
  Duration = 2
  SetUps = {0, 2}
  BwRate = 3
  BufferLen = 2
INVARIANTS
  RateKept
  ShownOnce
  StatsPrinted
CHECK_DEADLOCK FALSE
