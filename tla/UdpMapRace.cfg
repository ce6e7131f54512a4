SPECIFICATION Spec
CONSTANTS
  Nil = Nil
  TCPAll = TCPAll
  UDPAll = UDPAll
  TestIDs = {TCPAll, UDPAll}
  IPs = {ip1, ip2}
  SessionObjs = {s1, s2, s3}
  TestObjs = {t1, t2, t3}
  Conns = {}
  Handlers = {h1}
INVARIANTS
  MapIsLocal
CHECK_DEADLOCK FALSE
