SPECIFICATION Spec
CONSTANTS
  MaxHops = 3
  Dests = {1, 3}
  Paths = {1, 2}
  Times = {1, 2}
  SeqRange = 2
  MaxProbes = 2
  Protos = {"TCP", "ICMP"}
  Modes = {TRUE, FALSE}
INVARIANTS
  AnswersMatchProbes
  RouteIsRight
  ProbesAddUp
PROPERTIES
  TracingEnds
CHECK_DEADLOCK FALSE
