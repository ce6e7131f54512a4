SPECIFICATION Spec
CONSTANTS
  Threads = {w1, w2, w3}
  Kinds = {"bandwidth", "latency", "cps", "ping", "udp", "traceroute", "mytraceroute"}
  Durations = {0, 5, 10, 30}
  Gap = 10
  Ops = {1, 10}
  SetUps = {0, 3, 7}
  StopCap = 2
  MaxRows = 5
INVARIANTS
  TypeOK
  ReasonHasCause
  RowsMatchDuration
  SummaryPrinted
PROPERTIES
  Ends
  LossEndsTest
CHECK_DEADLOCK FALSE
