SPECIFICATION Spec
CONSTANTS
  TCPTests = {t1}
  UDPTests = {u1}
  Second = 2
  Late = 1
  Modes = {TRUE}
INVARIANTS
  TypeOK
  
  SumIsOfRows
  RunningTestIsShown
PROPERTIES
  TestComesToBeShown
CHECK_DEADLOCK FALSE
