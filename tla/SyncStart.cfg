SPECIFICATION Spec
CONSTANTS
  Latencies = {1, 20}
  Deadline = 100
  Interval = 1000
  Lateness = {0, 30}
  Offsets = {0, 959}
  Modes = {TRUE, FALSE}
  Breaks = TRUE
INVARIANTS
  TypeOK
  RightClassification
  NoStrayMessage
  SkewBounded
  ClientStartsOnTick
PROPERTIES
  ClientGetsSomewhere
CHECK_DEADLOCK FALSE
