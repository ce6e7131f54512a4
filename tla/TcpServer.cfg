SPECIFICATION Spec
CONSTANTS
  Nil = Nil
  TCPAll = TCPAll
  UDPAll = UDPAll
  TestIDs = {TCPAll, UDPAll}
  IPs = {ip1, ip2}
  SessionObjs = {s1, s2}
  TestObjs = {t1, t2}
  Conns = {c1, c2}
  Handlers = {}
INVARIANTS
  ConnsUseTheirClientsTest
  KeysMatchSessions
  TestLivesWhileUsed
PROPERTIES
  TableEmpties
CHECK_DEADLOCK FALSE
