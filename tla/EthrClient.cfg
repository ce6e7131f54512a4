SPECIFICATION Spec
CONSTANTS
  Lengths = {0, 1000, 1001, 50001}
  Iterations = {0, 1, 2, 3, 101}
  Kilo64 = 1000
  Giga2 = 50000
  DefaultLength = 250
  Wrap = 100000
  Word = 100000
INVARIANTS
  TypeOK
  AcceptedTestsRun
  SamplesExcludeGap
  PercentilesNearRank
PROPERTIES
  RoundsComplete
CHECK_DEADLOCK FALSE
