SPECIFICATION Spec
CONSTANTS
  Nil = Nil
  TCPAll = TCPAll
  UDPAll = UDPAll
  TestIDs = {TCPAll, UDPAll}
  IPs = {ip1}
  SessionObjs = {s1, s2, s3}
  TestObjs = {t1, t2, t3}
  Conns = {}
  Handlers = {h1, h2}
INVARIANTS
  PacketsCountForTheirSender
  CollectorOwnsItsEntry
PROPERTIES
  TableEmpties
CHECK_DEADLOCK FALSE
