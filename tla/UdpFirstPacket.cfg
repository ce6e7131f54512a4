SPECIFICATION Spec
CONSTANTS
  Nil = Nil
  TCPAll = TCPAll
  UDPAll = UDPAll
  TestIDs = {TCPAll, UDPAll}
  IPs = {ip1}
  SessionObjs = {s1, s2}
  TestObjs = {t1, t2, t3}
  Conns = {}
  Handlers = {h1}
INVARIANTS
  UnableMeansNoTest
CHECK_DEADLOCK FALSE
