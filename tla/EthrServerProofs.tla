--------------------------- MODULE EthrServerProofs ---------------------------
(***************************************************************************)
(* The server keeps its session table consistent and implements the        *)
(* registry, for any number of clients, connections and packet handlers.   *)
(*                                                                         *)
(* The invariant IInv says, besides what is to be proved, which reference  *)
(* every goroutine holds at which place of its program.  Four actions      *)
(* change the table; for each of them a lemma tells what becomes of the    *)
(* users of the tests, from which both the invariant and the step of the   *)
(* registry follow.  All other actions leave users and table alone.        *)
(***************************************************************************)
EXTENDS EthrServer, SessionsProofs

\* The reference of a packet handler for a client is on the registered <<UDP, All>>
\* test of that client.
RefsAreOfTheirClients ==
  \A h \in Handlers, ip \in IPs :
    UdpRef(h, ip) # Nil => UdpRef(h, ip) = getTestInternal(ip, UDPAll)

IInv ==
  /\ TcpTypeOK
  /\ UdpTypeOK
  /\ TableInv(Users)
  /\ ConnsUseTheirClientsTest
  /\ RefsAreOfTheirClients
  /\ CollectorOwnsItsEntry

AllUsers == Conns \cup (Handlers \X IPs)

-----------------------------------------------------------------------------
(* The users of the tests.                                                  *)

LEMMA UsersType ==
  /\ Users \in [TestObjs -> SUBSET AllUsers]
  /\ \A t \in TestObjs : IsFiniteSet(Users[t])
<1>1. Users \in [TestObjs -> SUBSET AllUsers]
  BY DEF Users, TcpUsers, UdpUsers, AllUsers
<1>2. IsFiniteSet(AllUsers)
  BY FS_Product, FS_Union, TcpAssumption, UdpAssumption DEF AllUsers
<1> QED
  BY <1>1, <1>2, FS_Subset

\* TableInv(Users)' follows from the invariant of the next table for a value.
LEMMA TableInvNext ==
  ASSUME NEW V, V = Users', TableInv(V)'
  PROVE  TableInv(Users)'
BY DEF TableInv, RefCountsUsers, RegisteredIffUsed

\* A step that changes neither the table nor the references.
LEMMA NeutralStep ==
  ASSUME TableInv(Users), RefsAreOfTheirClients,
         UNCHANGED <<structVars, refCount, test>>, FieldsTypeOK',
         \A h \in Handlers, ip \in IPs : UdpRef(h, ip)' = UdpRef(h, ip)
  PROVE  /\ TableInv(Users)'
         /\ RefsAreOfTheirClients'
         /\ Users' = Users
         /\ \A ip \in IPs, id \in TestIDs :
              getTestInternal(ip, id)' = getTestInternal(ip, id)
<1>1. Users' = Users
  BY DEF Users, TcpUsers, UdpUsers
<1>2. /\ SessionsCountTheirTests'
      /\ TestsPointBack'
      /\ \A t \in TestObjs : Registered(t)' <=> Registered(t)
      /\ \A ip \in IPs, id \in TestIDs :
           getTestInternal(ip, id)' = getTestInternal(ip, id)
  BY SameStructureSameTable DEF TableInv
<1>3. RefCountsUsers(Users)' /\ RegisteredIffUsed(Users)'
  BY <1>1, <1>2 DEF TableInv, RefCountsUsers, RegisteredIffUsed
<1>4. RefsAreOfTheirClients'
  BY <1>2, UdpAssumption DEF RefsAreOfTheirClients
<1> QED
  BY <1>1, <1>2, <1>3, <1>4 DEF TableInv

\* The user u gets the test t, which is that of the client ip for id ...
Gains(u, t, ip, id) ==
  /\ u \notin Users[t]
  /\ Users' = [Users EXCEPT ![t] = @ \cup {u}]
  /\ getTestInternal(ip, id) = t \/ (getTestInternal(ip, id) = Nil /\ Users[t] = {})
  /\ getTestInternal(ip, id)' = t
  /\ \A ip2 \in IPs, id2 \in TestIDs :
       <<ip2, id2>> # <<ip, id>> =>
         getTestInternal(ip2, id2)' = getTestInternal(ip2, id2)

\* ... and the user u is done with the test t.
Loses(u, t) ==
  /\ u \in Users[t]
  /\ Users' = [Users EXCEPT ![t] = @ \ {u}]
  /\ \A ip \in IPs, id \in TestIDs :
       getTestInternal(ip, id)' = IF getTestInternal(ip, id) = t /\ Users[t] = {u} THEN Nil
                                  ELSE getTestInternal(ip, id)

LEMMA AcquireStep ==
  ASSUME IInv, NEW ip \in IPs, NEW id \in TestIDs, NEW t \in TestObjs, NEW u \in AllUsers,
         createOrGetTest(ip, id, t, Held),
         u \notin Users[t], Users' = [Users EXCEPT ![t] = @ \cup {u}]
  PROVE  TableInv(Users)' /\ Gains(u, t, ip, id)
<1>1. PICK U : U = Users
  OBVIOUS
<1>2. PICK held : held = Held
  OBVIOUS
<1>3. /\ U \in [TestObjs -> SUBSET AllUsers]
      /\ \A x \in TestObjs : IsFiniteSet(U[x])
      /\ TableInv(U) /\ u \notin U[t]
      /\ createOrGetTest(ip, id, t, held)
  BY <1>1, <1>2, UsersType DEF IInv
<1>4. /\ TableInv([U EXCEPT ![t] = @ \cup {u}])'
      /\ getTestInternal(ip, id) = t \/ (getTestInternal(ip, id) = Nil /\ U[t] = {})
      /\ getTestInternal(ip, id)' = t
      /\ \A ip2 \in IPs, id2 \in TestIDs :
           <<ip2, id2>> # <<ip, id>> =>
             getTestInternal(ip2, id2)' = getTestInternal(ip2, id2)
  BY <1>3, AcquireKeepsTable, ZenonT(90)
<1>5. TableInv(Users)'
  BY <1>1, <1>4, TableInvNext
<1> QED
  BY <1>1, <1>4, <1>5 DEF Gains

LEMMA ReleaseStep ==
  ASSUME IInv, NEW t \in TestObjs, NEW u \in Users[t], safeDeleteTest(t),
         Users' = [Users EXCEPT ![t] = @ \ {u}]
  PROVE  TableInv(Users)' /\ Loses(u, t)
<1>1. PICK U : U = Users
  OBVIOUS
<1>2. /\ U \in [TestObjs -> SUBSET AllUsers]
      /\ \A x \in TestObjs : IsFiniteSet(U[x])
      /\ TableInv(U) /\ u \in U[t]
  BY <1>1, UsersType DEF IInv
<1>3. /\ TableInv([U EXCEPT ![t] = @ \ {u}])'
      /\ \A ip \in IPs, id \in TestIDs :
           getTestInternal(ip, id)' = IF getTestInternal(ip, id) = t /\ U[t] = {u} THEN Nil
                                      ELSE getTestInternal(ip, id)
  BY <1>2, ReleaseKeepsTable
<1>4. TableInv(Users)'
  BY <1>1, <1>3, TableInvNext
<1> QED
  BY <1>1, <1>3, <1>4 DEF Loses

-----------------------------------------------------------------------------
(* Steps of the connection handlers.                                        *)

\* The steps that neither take nor drop a reference.
TcpNeutral(c) ==
  \/ \E ip \in IPs : Accept(c, ip)
  \/ PeerGone(c)
  \/ HandshakeFails(c) \/ HandshakeDone(c)
  \/ SyncGivesUp(c) \/ SyncStartArrives(c) \/ SyncGoArrives(c) \/ SyncFails(c)
  \/ RunEnds(c) \/ LingerEnds(c) \/ CloseConn(c)

LEMMA TcpNeutralStep ==
  ASSUME IInv, NEW c \in Conns, TcpNeutral(c), UNCHANGED udpVars
  PROVE  /\ IInv'
         /\ Users' = Users
         /\ \A ip \in IPs, id \in TestIDs :
              getTestInternal(ip, id)' = getTestInternal(ip, id)
<1>1. UNCHANGED <<test, tableVars>>
  BY DEF TcpNeutral, Accept, PeerGone, HandshakeFails, HandshakeDone, SyncGivesUp,
         SyncStartArrives, SyncGoArrives, SyncFails, RunEnds, LingerEnds, CloseConn
<1>2. \A h \in Handlers, ip \in IPs : UdpRef(h, ip)' = UdpRef(h, ip)
  BY DEF UdpRef, udpVars
<1>3. FieldsTypeOK'
  BY <1>1 DEF IInv, TableInv, FieldsTypeOK, tableVars, structVars
<1>4. UNCHANGED <<structVars, refCount, test>>
  BY <1>1 DEF tableVars
<1>5. /\ TableInv(Users)'
      /\ RefsAreOfTheirClients'
      /\ Users' = Users
      /\ \A ip \in IPs, id \in TestIDs :
           getTestInternal(ip, id)' = getTestInternal(ip, id)
  BY <1>2, <1>3, <1>4, NeutralStep DEF IInv
<1>6. UdpTypeOK' /\ CollectorOwnsItsEntry'
  BY DEF IInv, UdpTypeOK, CollectorOwnsItsEntry, udpVars
<1>7. TcpTypeOK' /\ ConnsUseTheirClientsTest'
  <2> USE <1>1, <1>5, TcpAssumption
          DEF IInv, TcpTypeOK, ConnsUseTheirClientsTest, At, Goto
  <2>1. ASSUME NEW ip \in IPs, Accept(c, ip)
        PROVE  TcpTypeOK' /\ ConnsUseTheirClientsTest'
    BY <2>1 DEF Accept
  <2>2. CASE PeerGone(c)
    BY <2>2 DEF PeerGone
  <2>3. CASE HandshakeFails(c)
    BY <2>3 DEF HandshakeFails
  <2>4. CASE HandshakeDone(c)
    BY <2>4 DEF HandshakeDone
  <2>5. CASE SyncGivesUp(c)
    BY <2>5 DEF SyncGivesUp
  <2>6. CASE SyncStartArrives(c)
    BY <2>6 DEF SyncStartArrives
  <2>7. CASE SyncGoArrives(c)
    BY <2>7 DEF SyncGoArrives
  <2>8. CASE SyncFails(c)
    BY <2>8 DEF SyncFails
  <2>9. CASE RunEnds(c)
    BY <2>9 DEF RunEnds
  <2>10. CASE LingerEnds(c)
    BY <2>10 DEF LingerEnds
  <2>11. CASE CloseConn(c)
    BY <2>11 DEF CloseConn
  <2> QED
    BY <2>1, <2>2, <2>3, <2>4, <2>5, <2>6, <2>7, <2>8, <2>9, <2>10, <2>11 DEF TcpNeutral
<1> QED
  BY <1>5, <1>6, <1>7 DEF IInv

\* GetTest makes the connection a user of the test of its client.
LEMMA GetTestStep ==
  ASSUME IInv, NEW c \in Conns, GetTest(c, Held), UNCHANGED udpVars
  PROVE  IInv' /\ \E t \in TestObjs : Gains(c, t, server[c], TCPAll)
<1>1. PICK t \in TestObjs :
         /\ createOrGetTest(server[c], TCPAll, t, Held)
         /\ test' = [test EXCEPT ![c] = t]
  BY DEF GetTest
<1>2. /\ pc[c] = "accepted" /\ pc' = [pc EXCEPT ![c] = "handshake"]
      /\ UNCHANGED <<server, lingers, peer>>
      /\ server[c] \in IPs /\ TCPAll \in TestIDs /\ t # Nil
      /\ test[c] = Nil
  BY TcpAssumption, PoolsAssumption
     DEF GetTest, At, Goto, IInv, TcpTypeOK, ConnsUseTheirClientsTest
<1>3. \A h \in Handlers, ip \in IPs : UdpRef(h, ip)' = UdpRef(h, ip)
  BY DEF UdpRef, udpVars
<1>4. /\ TcpUsers(t)' = TcpUsers(t) \cup {c}
      /\ \A x \in TestObjs : x # t => TcpUsers(x)' = TcpUsers(x)
      /\ \A x \in TestObjs : UdpUsers(x)' = UdpUsers(x)
  <2>1. \A d \in Conns : test'[d] = IF d = c THEN t ELSE test[d]
    BY <1>1 DEF IInv, TcpTypeOK
  <2>2. \A x \in TestObjs : x # Nil
    BY PoolsAssumption
  <2> QED
    BY <1>2, <1>3, <2>1, <2>2 DEF TcpUsers, UdpUsers
<1>5. Users' = [Users EXCEPT ![t] = @ \cup {c}]
  BY <1>4 DEF Users
<1>6. c \notin Users[t]
  BY <1>2, UsersAssumption DEF Users, TcpUsers, UdpUsers
<1>7. TableInv(Users)' /\ Gains(c, t, server[c], TCPAll)
  BY <1>1, <1>2, <1>5, <1>6, AcquireStep DEF AllUsers
<1>8. TcpTypeOK'
  BY <1>1, <1>2 DEF IInv, TcpTypeOK
<1>9. UdpTypeOK' /\ CollectorOwnsItsEntry'
  BY DEF IInv, UdpTypeOK, CollectorOwnsItsEntry, udpVars
<1>10. ConnsUseTheirClientsTest'
  <2> SUFFICES ASSUME NEW d \in Conns
               PROVE  IF pc'[d] \in {"none", "accepted", "close"}
                        THEN test'[d] = Nil
                        ELSE test'[d] # Nil /\ test'[d] = getTestInternal(server[d], TCPAll)'
    BY <1>2 DEF ConnsUseTheirClientsTest
  <2>1. CASE d = c
    BY <2>1, <1>1, <1>2, <1>7 DEF Gains, IInv, TcpTypeOK
  <2>2. CASE d # c
    BY <2>2, <1>1, <1>2, <1>7 DEF Gains, IInv, TcpTypeOK, ConnsUseTheirClientsTest
  <2> QED
    BY <2>1, <2>2
<1>11. RefsAreOfTheirClients'
  BY <1>2, <1>3, <1>7, UdpAssumption DEF Gains, IInv, RefsAreOfTheirClients
<1> QED
  BY <1>7, <1>8, <1>9, <1>10, <1>11 DEF IInv

\* DropTest ends the use.
LEMMA DropTestStep ==
  ASSUME IInv, NEW c \in Conns, DropTest(c), UNCHANGED udpVars
  PROVE  IInv' /\ Loses(c, test[c]) /\ test[c] \in TestObjs
<1> DEFINE t == test[c]
<1>1. /\ pc[c] = "release" /\ pc' = [pc EXCEPT ![c] = "close"]
      /\ UNCHANGED <<server, lingers, peer>>
      /\ test' = [test EXCEPT ![c] = Nil]
      /\ safeDeleteTest(t)
      /\ t \in TestObjs
  BY PoolsAssumption DEF DropTest, At, Goto, IInv, TcpTypeOK, ConnsUseTheirClientsTest
<1>2. \A h \in Handlers, ip \in IPs : UdpRef(h, ip)' = UdpRef(h, ip)
  BY DEF UdpRef, udpVars
<1>3. PICK x0 \in TestObjs : x0 = t
  BY <1>1
<1>4. /\ TcpUsers(x0)' = TcpUsers(x0) \ {c}
      /\ \A x \in TestObjs : x # x0 => TcpUsers(x)' = TcpUsers(x)
      /\ \A x \in TestObjs : UdpUsers(x)' = UdpUsers(x)
  <2>1. \A d \in Conns : test'[d] = IF d = c THEN Nil ELSE test[d]
    BY <1>1 DEF IInv, TcpTypeOK
  <2>2. \A x \in TestObjs : x # Nil
    BY PoolsAssumption
  <2> QED
    BY <1>2, <1>3, <2>1, <2>2 DEF TcpUsers, UdpUsers
<1>5. Users' = [Users EXCEPT ![x0] = @ \ {c}] /\ c \in Users[x0]
  <2>1. c \notin UdpUsers(x0)
    BY UsersAssumption DEF UdpUsers
  <2>2. c \in TcpUsers(x0)
    BY <1>3 DEF TcpUsers
  <2>3. \A x \in TestObjs : Users'[x] = IF x = x0 THEN Users[x0] \ {c} ELSE Users[x]
    BY <1>4, <2>1 DEF Users
  <2> QED
    BY <2>2, <2>3 DEF Users
<1>6. TableInv(Users)' /\ Loses(c, x0)
  BY <1>1, <1>3, <1>5, ReleaseStep
<1>7. TcpTypeOK'
  BY <1>1 DEF IInv, TcpTypeOK
<1>8. UdpTypeOK' /\ CollectorOwnsItsEntry'
  BY DEF IInv, UdpTypeOK, CollectorOwnsItsEntry, udpVars
<1>9. ConnsUseTheirClientsTest'
  <2> SUFFICES ASSUME NEW d \in Conns, d # c, pc[d] \notin {"none", "accepted", "close"}
               PROVE  test[d] = getTestInternal(server[d], TCPAll)'
    <3>1. /\ \A e \in Conns : e # c => pc'[e] = pc[e] /\ test'[e] = test[e]
          /\ pc'[c] = "close" /\ test'[c] = Nil
      BY <1>1 DEF IInv, TcpTypeOK
    <3>2. server' = server
      BY <1>1
    <3> QED
      BY <3>1, <3>2 DEF IInv, ConnsUseTheirClientsTest
  <2>1. test[d] # Nil /\ test[d] = getTestInternal(server[d], TCPAll)
        /\ server[d] \in IPs /\ TCPAll \in TestIDs
    BY TcpAssumption DEF IInv, TcpTypeOK, ConnsUseTheirClientsTest
  <2>2. test[d] = x0 => Users[x0] # {c}
    BY DEF Users, TcpUsers
  <2>3. server' = server
    BY <1>1
  <2> QED
    BY <1>6, <2>1, <2>2, <2>3 DEF Loses
<1>10. RefsAreOfTheirClients'
  <2> SUFFICES ASSUME NEW h \in Handlers, NEW ip \in IPs, UdpRef(h, ip) # Nil
               PROVE  UdpRef(h, ip) = getTestInternal(ip, UDPAll)'
    BY <1>2 DEF RefsAreOfTheirClients
  <2>1. UdpRef(h, ip) = getTestInternal(ip, UDPAll) /\ UDPAll \in TestIDs
    BY UdpAssumption DEF IInv, RefsAreOfTheirClients
  <2>2. UdpRef(h, ip) = x0 => <<h, ip>> \in Users[x0] /\ <<h, ip>> # c
    BY UsersAssumption DEF Users, UdpUsers
  <2> QED
    BY <1>6, <2>1, <2>2 DEF Loses
<1> QED
  BY <1>3, <1>6, <1>7, <1>8, <1>9, <1>10 DEF IInv

-----------------------------------------------------------------------------
(* Steps of the packet handlers and of their collectors.                    *)

\* The steps that neither take nor drop a reference.
UdpNeutral ==
  \/ \E ip \in IPs : StartSending(ip) \/ StopSending(ip)
  \/ \E t \in TestObjs : Ages(t)
  \/ \E h \in Handlers :
       \/ \E ip \in IPs : ReadPacket(h, ip) \/ FindIdle(h, ip)
       \/ ReadFails(h) \/ StoreTest(h) \/ CountPacket(h) \/ DropPacket(h)
       \/ MarkDormant(h) \/ ForgetTest(h)

LEMMA UdpNeutralStep ==
  ASSUME IInv, UdpNeutral, UNCHANGED tcpVars
  PROVE  /\ IInv'
         /\ Users' = Users
         /\ \A ip \in IPs, id \in TestIDs :
              getTestInternal(ip, id)' = getTestInternal(ip, id)
<1> DEFINE Kept == /\ UNCHANGED <<structVars, refCount>>
                   /\ UdpTypeOK'
                   /\ CollectorOwnsItsEntry'
                   /\ isDormant' \in [TestObjs -> BOOLEAN]
                   /\ idle' \in [TestObjs -> {Recent, Quiet, Expired}]
                   /\ \A h \in Handlers, ip \in IPs : UdpRef(h, ip)' = UdpRef(h, ip)
<1>1. Kept
  <2> USE PoolsAssumption DEF IInv, TableInv, FieldsTypeOK, UdpTypeOK,
          CollectorOwnsItsEntry, UdpRef, tableVars, structVars
  <2>1. ASSUME NEW ip \in IPs, StartSending(ip) \/ StopSending(ip)
        PROVE  Kept
    BY <2>1 DEF StartSending, StopSending
  <2>2. ASSUME NEW t \in TestObjs, Ages(t)
        PROVE  Kept
    <3>1. idle[t] + 1 \in {Recent, Quiet, Expired}
      <4>1. idle[t] \in {Recent, Quiet, Expired}
        OBVIOUS
      <4>2. idle[t] < Expired
        BY <2>2 DEF Ages
      <4> QED
        BY ONLY <4>1, <4>2 DEF Recent, Quiet, Expired
    <3>2. idle' = [idle EXCEPT ![t] = idle[t] + 1]
      BY <2>2 DEF Ages
    <3>3. idle' \in [TestObjs -> {Recent, Quiet, Expired}]
      BY <3>1, <3>2
    <3> QED
      BY <2>2, <3>3 DEF Ages, udpVars
  <2>3. ASSUME NEW h \in Handlers, NEW ip \in IPs, ReadPacket(h, ip)
        PROVE  Kept
    BY <2>3 DEF ReadPacket
  <2>4. ASSUME NEW h \in Handlers, NEW ip \in IPs, FindIdle(h, ip)
        PROVE  Kept
    BY <2>4 DEF FindIdle
  <2>5. ASSUME NEW h \in Handlers, ReadFails(h)
        PROVE  Kept
    BY <2>5 DEF ReadFails
  <2>6. ASSUME NEW h \in Handlers, StoreTest(h)
        PROVE  Kept
    BY <2>6 DEF StoreTest
  <2>7. ASSUME NEW h \in Handlers, CountPacket(h)
        PROVE  Kept
    BY <2>7 DEF CountPacket, Recent
  <2>8. ASSUME NEW h \in Handlers, DropPacket(h)
        PROVE  Kept
    BY <2>8 DEF DropPacket
  <2>9. ASSUME NEW h \in Handlers, MarkDormant(h)
        PROVE  Kept
    BY <2>9 DEF MarkDormant
  <2>10. ASSUME NEW h \in Handlers, ForgetTest(h)
         PROVE  Kept
    BY <2>10 DEF ForgetTest
  <2> QED
    BY <2>1, <2>2, <2>3, <2>4, <2>5, <2>6, <2>7, <2>8, <2>9, <2>10 DEF UdpNeutral
<1>2. FieldsTypeOK'
  BY <1>1 DEF IInv, TableInv, FieldsTypeOK, structVars
<1>3. UNCHANGED <<structVars, refCount, test>>
  BY <1>1 DEF tcpVars
<1>4. /\ TableInv(Users)'
      /\ RefsAreOfTheirClients'
      /\ Users' = Users
      /\ \A ip \in IPs, id \in TestIDs :
           getTestInternal(ip, id)' = getTestInternal(ip, id)
  BY <1>1, <1>2, <1>3, NeutralStep DEF IInv
<1>5. TcpTypeOK' /\ ConnsUseTheirClientsTest'
  BY <1>4, TcpAssumption DEF IInv, TcpTypeOK, ConnsUseTheirClientsTest, tcpVars
<1> QED
  BY <1>1, <1>4, <1>5 DEF IInv

\* CreateTest makes the handler, for the sender of its packet, a user of the
\* sender's test.
LEMMA CreateTestStep ==
  ASSUME IInv, NEW h \in Handlers, CreateTest(h, Held), UNCHANGED tcpVars
  PROVE  IInv' /\ \E t \in TestObjs : Gains(<<h, from[h]>>, t, from[h], UDPAll)
<1> DEFINE u == <<h, from[h]>>
<1>1. PICK t \in TestObjs :
         /\ createOrGetTest(from[h], UDPAll, t, Held)
         /\ inner' = [inner EXCEPT ![h] = t]
  BY DEF CreateTest
<1>2. /\ hpc[h] = "create" /\ hpc' = [hpc EXCEPT ![h] = "store"]
      /\ UNCHANGED <<senders, myTests, from, outer, gpc, entry>>
      /\ from[h] \in IPs /\ UDPAll \in TestIDs /\ t # Nil
      /\ u \in AllUsers
  BY UdpAssumption, PoolsAssumption DEF CreateTest, IInv, UdpTypeOK, AllUsers
<1>3. /\ myTests[h][from[h]] = Nil
      /\ ~(gpc[h] = "delete" /\ entry[h] = from[h])
      /\ UdpRef(h, from[h]) = Nil
  BY <1>2 DEF IInv, CollectorOwnsItsEntry, UdpRef
<1>4. \A g \in Handlers, ip \in IPs :
         UdpRef(g, ip)' = IF g = h /\ ip = from[h] THEN t ELSE UdpRef(g, ip)
  BY <1>1, <1>2, <1>3 DEF UdpRef, IInv, UdpTypeOK
<1>5. /\ UdpUsers(t)' = UdpUsers(t) \cup {u}
      /\ \A x \in TestObjs : x # t => UdpUsers(x)' = UdpUsers(x)
      /\ \A x \in TestObjs : TcpUsers(x)' = TcpUsers(x)
  <2>1. \A x \in TestObjs : x # Nil
    BY PoolsAssumption
  <2>2. \A v \in Handlers \X IPs :
          UdpRef(v[1], v[2])' = IF v = u THEN t ELSE UdpRef(v[1], v[2])
    <3> SUFFICES ASSUME NEW g \in Handlers, NEW ip \in IPs
                 PROVE  UdpRef(g, ip)' = IF <<g, ip>> = u THEN t ELSE UdpRef(g, ip)
      OBVIOUS
    <3> QED
      BY <1>4
  <2>3. UdpRef(u[1], u[2]) = Nil /\ u \in Handlers \X IPs
    BY <1>2, <1>3
  <2> QED
    BY <2>1, <2>2, <2>3 DEF TcpUsers, UdpUsers, tcpVars
<1>6. Users' = [Users EXCEPT ![t] = @ \cup {u}]
  BY <1>5 DEF Users
<1>7. u \notin Users[t]
  BY <1>2, <1>3, UsersAssumption DEF Users, TcpUsers, UdpUsers
<1>8. TableInv(Users)' /\ Gains(u, t, from[h], UDPAll)
  BY <1>1, <1>2, <1>6, <1>7, AcquireStep
<1>9. UdpTypeOK' /\ CollectorOwnsItsEntry'
  BY <1>1, <1>2 DEF IInv, UdpTypeOK, CollectorOwnsItsEntry
<1>10. TcpTypeOK'
  BY DEF IInv, TcpTypeOK, tcpVars
<1>11. ConnsUseTheirClientsTest'
  BY <1>2, <1>8, TcpAssumption
     DEF Gains, IInv, TcpTypeOK, ConnsUseTheirClientsTest, tcpVars
<1>12. RefsAreOfTheirClients'
  <2> SUFFICES ASSUME NEW g \in Handlers, NEW ip \in IPs, UdpRef(g, ip)' # Nil
               PROVE  UdpRef(g, ip)' = getTestInternal(ip, UDPAll)'
    BY DEF RefsAreOfTheirClients
  <2>1. CASE g = h /\ ip = from[h]
    BY <2>1, <1>2, <1>4, <1>8 DEF Gains
  <2>2. CASE ~(g = h /\ ip = from[h])
    BY <2>2, <1>2, <1>4, <1>8 DEF Gains, IInv, RefsAreOfTheirClients
  <2> QED
    BY <2>1, <2>2
<1> QED
  BY <1>8, <1>9, <1>10, <1>11, <1>12 DEF IInv

\* ReleaseTest ends the use.
LEMMA ReleaseTestStep ==
  ASSUME IInv, NEW h \in Handlers, ReleaseTest(h), UNCHANGED tcpVars
  PROVE  /\ IInv'
         /\ \E t \in TestObjs : Loses(<<h, entry[h]>>, t)
<1> DEFINE u == <<h, entry[h]>>
<1>1. /\ gpc[h] = "release" /\ gpc' = [gpc EXCEPT ![h] = "delete"]
      /\ UNCHANGED <<senders, myTests, hpc, from, outer, inner, entry>>
      /\ safeDeleteTest(myTests[h][entry[h]])
      /\ entry[h] \in IPs
      /\ u \in Handlers \X IPs
  BY DEF ReleaseTest, IInv, UdpTypeOK
<1>2. myTests[h][entry[h]] \in TestObjs /\ myTests[h][entry[h]] # Nil
  BY <1>1 DEF IInv, UdpTypeOK, CollectorOwnsItsEntry
<1>3. PICK t \in TestObjs : t = myTests[h][entry[h]]
  BY <1>2
<1>4. ~(hpc[h] = "store" /\ from[h] = entry[h]) /\ UdpRef(h, entry[h]) = t
  BY <1>1, <1>2, <1>3 DEF IInv, CollectorOwnsItsEntry, UdpRef
<1>5. \A g \in Handlers, ip \in IPs :
         UdpRef(g, ip)' = IF g = h /\ ip = entry[h] THEN Nil ELSE UdpRef(g, ip)
  BY <1>1, <1>4 DEF UdpRef, IInv, UdpTypeOK
<1>6. /\ UdpUsers(t)' = UdpUsers(t) \ {u}
      /\ \A x \in TestObjs : x # t => UdpUsers(x)' = UdpUsers(x)
      /\ \A x \in TestObjs : TcpUsers(x)' = TcpUsers(x)
  <2>1. \A x \in TestObjs : x # Nil
    BY PoolsAssumption
  <2>2. \A v \in Handlers \X IPs :
          UdpRef(v[1], v[2])' = IF v = u THEN Nil ELSE UdpRef(v[1], v[2])
    <3> SUFFICES ASSUME NEW g \in Handlers, NEW ip \in IPs
                 PROVE  UdpRef(g, ip)' = IF <<g, ip>> = u THEN Nil ELSE UdpRef(g, ip)
      OBVIOUS
    <3> QED
      BY <1>5
  <2>3. UdpRef(u[1], u[2]) = t
    BY <1>4
  <2> QED
    BY <1>1, <2>1, <2>2, <2>3 DEF TcpUsers, UdpUsers, tcpVars
<1>7. Users' = [Users EXCEPT ![t] = @ \ {u}] /\ u \in Users[t]
  <2>1. u \notin TcpUsers(t)
    BY <1>1, UsersAssumption DEF TcpUsers
  <2>2. u \in UdpUsers(t)
    BY <1>1, <1>4 DEF UdpUsers
  <2>3. \A x \in TestObjs : Users'[x] = IF x = t THEN Users[t] \ {u} ELSE Users[x]
    BY <1>6, <2>1 DEF Users
  <2> QED
    BY <2>2, <2>3 DEF Users
<1>8. TableInv(Users)' /\ Loses(u, t)
  BY <1>1, <1>3, <1>7, ReleaseStep
<1>9. UdpTypeOK' /\ CollectorOwnsItsEntry'
  BY <1>1, <1>2 DEF IInv, UdpTypeOK, CollectorOwnsItsEntry
<1>10. TcpTypeOK'
  BY DEF IInv, TcpTypeOK, tcpVars
<1>11. ConnsUseTheirClientsTest'
  <2> SUFFICES ASSUME NEW d \in Conns, pc[d] \notin {"none", "accepted", "close"}
               PROVE  test[d] = getTestInternal(server[d], TCPAll)'
    BY DEF IInv, ConnsUseTheirClientsTest, tcpVars
  <2>1. test[d] # Nil /\ test[d] = getTestInternal(server[d], TCPAll)
        /\ server[d] \in IPs /\ TCPAll \in TestIDs
    BY TcpAssumption DEF IInv, TcpTypeOK, ConnsUseTheirClientsTest
  <2>2. test[d] = t => Users[t] # {u}
    BY <1>1, UsersAssumption DEF Users, TcpUsers
  <2>3. server' = server
    BY DEF tcpVars
  <2> QED
    BY <1>8, <2>1, <2>2, <2>3 DEF Loses
<1>12. RefsAreOfTheirClients'
  <2> SUFFICES ASSUME NEW g \in Handlers, NEW ip \in IPs, UdpRef(g, ip)' # Nil
               PROVE  UdpRef(g, ip)' = getTestInternal(ip, UDPAll)'
    BY DEF RefsAreOfTheirClients
  <2>1. <<g, ip>> # u /\ UdpRef(g, ip)' = UdpRef(g, ip)
    <3>1. ~(g = h /\ ip = entry[h])
      BY <1>5
    <3> QED
      BY <3>1, <1>5
  <2>2. UdpRef(g, ip) = getTestInternal(ip, UDPAll) /\ UDPAll \in TestIDs
    BY <2>1, UdpAssumption DEF IInv, RefsAreOfTheirClients
  <2>3. UdpRef(g, ip) = t => Users[t] # {u}
    BY <2>1 DEF Users, UdpUsers
  <2> QED
    BY <1>8, <2>1, <2>2, <2>3 DEF Loses
<1> QED
  BY <1>8, <1>9, <1>10, <1>11, <1>12 DEF IInv

-----------------------------------------------------------------------------
(* The invariant.                                                           *)

\* Every step of Next is one of the steps above.
LEMMA NextCases ==
  ASSUME Next
  PROVE  \/ \E c \in Conns : /\ TcpNeutral(c) \/ GetTest(c, Held) \/ DropTest(c)
                             /\ UNCHANGED udpVars
         \/ /\ UdpNeutral \/ \E h \in Handlers : CreateTest(h, Held) \/ ReleaseTest(h)
            /\ UNCHANGED tcpVars
<1>1. CASE TcpNext(Held) /\ UNCHANGED udpVars
  BY <1>1 DEF TcpNext, Proceeds, Hears, TcpNeutral
<1>2. CASE UdpNext(Held) /\ UNCHANGED tcpVars
  BY <1>2 DEF UdpNext, HandlePacket, Collect, UdpNeutral
<1> QED
  BY <1>1, <1>2 DEF Next

LEMMA InitIInv ==
  ASSUME Init
  PROVE  IInv
<1> USE PoolsAssumption, TcpAssumption, UdpAssumption DEF Init, TableInit, TcpInit, UdpInit
<1>1. FieldsTypeOK
  BY DEF FieldsTypeOK, Recent
<1>2. TcpTypeOK /\ UdpTypeOK
  BY DEF TcpTypeOK, UdpTypeOK
<1>3. /\ SessionsCountTheirTests /\ TestsPointBack
      /\ ConnsUseTheirClientsTest /\ CollectorOwnsItsEntry
  BY DEF SessionsCountTheirTests, TestsPointBack, getTestInternal,
         ConnsUseTheirClientsTest, CollectorOwnsItsEntry
<1>4. \A h \in Handlers, ip \in IPs : UdpRef(h, ip) = Nil
  BY DEF UdpRef
<1>5. RefsAreOfTheirClients
  BY <1>4 DEF RefsAreOfTheirClients
<1>6. \A t \in TestObjs : Users[t] = {}
  <2>1. \A t \in TestObjs : TcpUsers(t) = {}
    BY DEF TcpUsers
  <2>2. \A t \in TestObjs : UdpUsers(t) = {}
    BY <1>4 DEF UdpUsers
  <2> QED
    BY <2>1, <2>2 DEF Users
<1>7. RefCountsUsers(Users)
  BY <1>6, FS_EmptySet DEF RefCountsUsers
<1>8. RegisteredIffUsed(Users)
  <2>1. ASSUME NEW t \in TestObjs
        PROVE  ~Registered(t)
    <3>1. remoteIP[session[t]] \in IPs /\ session[t] # Nil
      BY <1>1 DEF FieldsTypeOK
    <3> QED
      BY <3>1 DEF Registered
  <2> QED
    BY <1>6, <2>1 DEF RegisteredIffUsed
<1> QED
  BY <1>1, <1>2, <1>3, <1>5, <1>7, <1>8 DEF IInv, TableInv

LEMMA StutterIInv ==
  ASSUME IInv, UNCHANGED vars
  PROVE  IInv' /\ Users' = Users
<1> USE DEF vars, tableVars, tcpVars, udpVars
<1>1. \A h \in Handlers, ip \in IPs : UdpRef(h, ip)' = UdpRef(h, ip)
  BY DEF UdpRef
<1>2. FieldsTypeOK'
  BY DEF IInv, TableInv, FieldsTypeOK, structVars
<1>3. /\ TableInv(Users)'
      /\ RefsAreOfTheirClients'
      /\ Users' = Users
      /\ \A ip \in IPs, id \in TestIDs :
           getTestInternal(ip, id)' = getTestInternal(ip, id)
  BY <1>1, <1>2, NeutralStep DEF IInv
<1>4. TcpTypeOK' /\ ConnsUseTheirClientsTest'
  BY <1>3, TcpAssumption DEF IInv, TcpTypeOK, ConnsUseTheirClientsTest
<1>5. UdpTypeOK' /\ CollectorOwnsItsEntry'
  BY DEF IInv, UdpTypeOK, CollectorOwnsItsEntry
<1> QED
  BY <1>3, <1>4, <1>5 DEF IInv

LEMMA NextIInv ==
  ASSUME IInv, [Next]_vars
  PROVE  IInv'
<1>1. CASE Next
  BY <1>1, NextCases, TcpNeutralStep, GetTestStep, DropTestStep,
     UdpNeutralStep, CreateTestStep, ReleaseTestStep
<1>2. CASE UNCHANGED vars
  BY <1>2, StutterIInv
<1> QED
  BY <1>1, <1>2

\* IInv holds of every reachable state.
THEOREM Invariance == Spec => []IInv
<1>1. Init => IInv
  BY InitIInv
<1>2. IInv /\ [Next]_vars => IInv'
  BY NextIInv
<1> QED
  BY <1>1, <1>2, PTL DEF Spec

-----------------------------------------------------------------------------
(* The list of the sessions' addresses.  It follows the table; nothing in   *)
(* IInv depends on it.                                                      *)

LEMMA StructureKeepsKeys ==
  ASSUME KeysInv, UNCHANGED structVars
  PROVE  KeysInv'
BY DEF KeysInv, KeysMatchSessions, structVars

LEMMA KeysStep ==
  ASSUME IInv, KeysInv, [Next]_vars
  PROVE  KeysInv'
<1>1. ASSUME NEW c \in Conns, TcpNeutral(c)
      PROVE  KeysInv'
  <2>1. UNCHANGED structVars
    BY <1>1 DEF TcpNeutral, Accept, PeerGone, HandshakeFails, HandshakeDone, SyncGivesUp,
                SyncStartArrives, SyncGoArrives, SyncFails, RunEnds, LingerEnds, CloseConn,
                tableVars
  <2> QED
    BY <2>1, StructureKeepsKeys
<1>2. CASE UdpNeutral
  <2>1. UNCHANGED structVars
    BY <1>2 DEF UdpNeutral, StartSending, StopSending, Ages, ReadPacket, FindIdle, ReadFails,
                StoreTest, CountPacket, DropPacket, MarkDormant, ForgetTest, tableVars
  <2> QED
    BY <2>1, StructureKeepsKeys
<1>3. ASSUME NEW c \in Conns, GetTest(c, Held)
      PROVE  KeysInv'
  <2>1. PICK t \in TestObjs : createOrGetTest(server[c], TCPAll, t, Held)
    BY <1>3 DEF GetTest
  <2>2. server[c] \in IPs /\ TCPAll \in TestIDs /\ FieldsTypeOK
    BY TcpAssumption DEF IInv, TcpTypeOK, TableInv
  <2> QED
    BY <2>1, <2>2, AcquireKeepsKeys
<1>4. ASSUME NEW h \in Handlers, CreateTest(h, Held)
      PROVE  KeysInv'
  <2>1. PICK t \in TestObjs : createOrGetTest(from[h], UDPAll, t, Held)
    BY <1>4 DEF CreateTest
  <2>2. from[h] \in IPs /\ UDPAll \in TestIDs /\ FieldsTypeOK
    BY <1>4, UdpAssumption DEF IInv, UdpTypeOK, TableInv, CreateTest
  <2> QED
    BY <2>1, <2>2, AcquireKeepsKeys
<1>5. ASSUME NEW t \in TestObjs, NEW u \in Users[t], safeDeleteTest(t)
      PROVE  KeysInv'
  BY <1>5, ReleaseKeepsKeys DEF IInv, TableInv, RegisteredIffUsed
<1>6. ASSUME NEW c \in Conns, DropTest(c), UNCHANGED udpVars
      PROVE  KeysInv'
  <2>1. test[c] \in TestObjs /\ c \in Users[test[c]]
    BY <1>6, DropTestStep DEF Loses
  <2> QED
    BY <1>5, <1>6, <2>1 DEF DropTest
<1>7. ASSUME NEW h \in Handlers, ReleaseTest(h), UNCHANGED tcpVars
      PROVE  KeysInv'
  <2> DEFINE t == myTests[h][entry[h]]
  <2>1. t \in TestObjs /\ <<h, entry[h]>> \in Handlers \X IPs
    BY <1>7 DEF ReleaseTest, IInv, UdpTypeOK, CollectorOwnsItsEntry
  <2>2. UdpRef(h, entry[h]) = t
    BY <1>7 DEF ReleaseTest, IInv, CollectorOwnsItsEntry, UdpRef
  <2>3. <<h, entry[h]>> \in Users[t]
    BY <2>1, <2>2 DEF Users, UdpUsers
  <2> QED
    BY <1>5, <1>7, <2>1, <2>3 DEF ReleaseTest
<1>8. CASE UNCHANGED vars
  BY <1>8, StructureKeepsKeys DEF vars, tableVars
<1>9. CASE Next
  BY <1>9, NextCases, <1>1, <1>2, <1>3, <1>4, <1>6, <1>7
<1> QED
  BY <1>8, <1>9

LEMMA KeysInvariance == Spec => []KeysInv
<1>1. Init => KeysInv
  BY EmptySeq DEF Init, TableInit, KeysInv, KeysMatchSessions
<1>2. IInv /\ KeysInv /\ [Next]_vars => KeysInv'
  BY KeysStep
<1> QED
  BY <1>1, <1>2, Invariance, PTL DEF Spec

-----------------------------------------------------------------------------
(* Where packets are counted.                                               *)

\* The users of a test are holders of its key, and of no other.
LEMMA KeysOfTests ==
  ASSUME IInv, NEW ip \in IPs, NEW id \in TestIDs, getTestInternal(ip, id) # Nil
  PROVE  /\ getTestInternal(ip, id) \in TestObjs
         /\ Users[getTestInternal(ip, id)] # {}
         /\ \A ip2 \in IPs, id2 \in TestIDs :
              getTestInternal(ip2, id2) = getTestInternal(ip, id) => ip2 = ip /\ id2 = id
<1> USE DEF IInv, TableInv
<1>1. /\ getTestInternal(ip, id) \in TestObjs
      /\ Registered(getTestInternal(ip, id))
  BY FoundIsRegistered
<1>2. ASSUME NEW ip2 \in IPs, NEW id2 \in TestIDs,
             getTestInternal(ip2, id2) = getTestInternal(ip, id)
      PROVE  ip2 = ip /\ id2 = id
  BY <1>2, FoundIsRegistered
<1> QED
  BY <1>1, <1>2 DEF RegisteredIffUsed

\* The test t is that of the client ip, or one that nobody uses any more.
RightFor(t, ip) == getTestInternal(ip, UDPAll) = t \/ Users[t] = {}

Right == {p \in TestObjs \X IPs : RightFor(p[1], p[2])}

\* The test a packet loop has found is the one in its map, unless its collector has
\* removed that since, and it is right for the sender of the packet ...
CountsRight(h) ==
  outer[h] # Nil => /\ hpc[h] = "count"
                    /\ myTests[h][from[h]] \in {Nil, outer[h]}
                    /\ <<outer[h], from[h]>> \in Right

\* ... and so is the test of the entry whose reference the collector has given back.
ForgetsRight(h) ==
  gpc[h] = "delete" => <<myTests[h][entry[h]], entry[h]>> \in Right

CountInv == \A h \in Handlers : CountsRight(h) /\ ForgetsRight(h)

\* A test somebody has a pointer to stays right for its client: it is not handed
\* out as a new one.
LEMMA StaysRight ==
  ASSUME IInv, NEW t \in Held \cap TestObjs, NEW ip \in IPs, RightFor(t, ip),
         \/ /\ Users' = Users
            /\ \A ip2 \in IPs, id2 \in TestIDs :
                 getTestInternal(ip2, id2)' = getTestInternal(ip2, id2)
         \/ \E u \in AllUsers, x \in TestObjs, ip2 \in IPs, id2 \in TestIDs :
              /\ Gains(u, x, ip2, id2)
              /\ getTestInternal(ip2, id2) = x \/ x \notin Held
         \/ \E u \in AllUsers, x \in TestObjs : Loses(u, x)
  PROVE  RightFor(t, ip)'
<1> USE UdpAssumption
<1>0. Users \in [TestObjs -> SUBSET AllUsers] /\ t # Nil
  BY UsersType, PoolsAssumption
<1>1. CASE /\ Users' = Users
           /\ \A ip2 \in IPs, id2 \in TestIDs :
                getTestInternal(ip2, id2)' = getTestInternal(ip2, id2)
  BY <1>1 DEF RightFor
<1>2. ASSUME NEW u \in AllUsers, NEW x \in TestObjs, NEW ip2 \in IPs, NEW id2 \in TestIDs,
             Gains(u, x, ip2, id2), getTestInternal(ip2, id2) = x \/ x \notin Held
      PROVE  RightFor(t, ip)'
  <2>1. CASE getTestInternal(ip, UDPAll) = t
    BY <1>0, <1>2, <2>1 DEF Gains, RightFor
  <2>2. CASE Users[t] = {}
    <3>1. x # t
      BY <1>0, <1>2, <2>2, KeysOfTests
    <3>2. Users'[t] = {}
      BY <1>0, <1>2, <2>2, <3>1 DEF Gains
    <3> QED
      BY <3>2 DEF RightFor
  <2> QED
    BY <2>1, <2>2 DEF RightFor
<1>3. ASSUME NEW u \in AllUsers, NEW x \in TestObjs, Loses(u, x)
      PROVE  RightFor(t, ip)'
  <2>1. CASE Users[t] = {}
    BY <1>0, <1>3, <2>1 DEF Loses, RightFor
  <2>2. CASE getTestInternal(ip, UDPAll) = t /\ ~(x = t /\ Users[t] = {u})
    BY <1>3, <2>2 DEF Loses, RightFor
  <2>3. CASE x = t /\ Users[t] = {u}
    BY <1>0, <1>3, <2>3 DEF Loses, RightFor
  <2> QED
    BY <2>1, <2>2, <2>3 DEF RightFor
<1> QED
  BY <1>1, <1>2, <1>3

\* So the handlers that a step leaves alone keep their part of the invariant.
LEMMA StepKeepsRight ==
  ASSUME IInv, CountInv, [Next]_vars, NEW t \in Held \cap TestObjs, NEW ip \in IPs,
         RightFor(t, ip)
  PROVE  RightFor(t, ip)'
<1>1. ASSUME NEW x \in TestObjs, NEW ip2 \in IPs, NEW id2 \in TestIDs,
             createOrGetTest(ip2, id2, x, Held)
      PROVE  getTestInternal(ip2, id2) = x \/ x \notin Held
  BY <1>1, FreshIsUnused DEF createOrGetTest, ReachableTests
<1>2. ASSUME NEW c \in Conns, TcpNeutral(c), UNCHANGED udpVars
      PROVE  RightFor(t, ip)'
  BY <1>2, TcpNeutralStep, StaysRight
<1>3. ASSUME NEW c \in Conns, GetTest(c, Held), UNCHANGED udpVars
      PROVE  RightFor(t, ip)'
  <2>1. PICK x \in TestObjs : /\ createOrGetTest(server[c], TCPAll, x, Held)
                              /\ test' = [test EXCEPT ![c] = x]
    BY <1>3 DEF GetTest
  <2>2. PICK y \in TestObjs : Gains(c, y, server[c], TCPAll)
    BY <1>3, GetTestStep
  <2>3. server[c] \in IPs /\ TCPAll \in TestIDs /\ c \in AllUsers
    BY TcpAssumption DEF IInv, TcpTypeOK, AllUsers
  <2>4. y = x
    <3>1. test'[c] = x /\ pc'[c] = "handshake" /\ server' = server
      BY <1>3, <2>1 DEF GetTest, Goto, IInv, TcpTypeOK
    <3>2. test'[c] = getTestInternal(server[c], TCPAll)'
      BY <1>3, <3>1, GetTestStep DEF IInv, ConnsUseTheirClientsTest
    <3> QED
      BY <2>2, <3>1, <3>2 DEF Gains
  <2>5. getTestInternal(server[c], TCPAll) = x \/ x \notin Held
    BY <1>1, <2>1, <2>3
  <2> QED
    BY <2>2, <2>3, <2>4, <2>5, StaysRight
<1>4. ASSUME NEW c \in Conns, DropTest(c), UNCHANGED udpVars
      PROVE  RightFor(t, ip)'
  BY <1>4, DropTestStep, StaysRight DEF AllUsers
<1>5. ASSUME UdpNeutral, UNCHANGED tcpVars
      PROVE  RightFor(t, ip)'
  BY <1>5, UdpNeutralStep, StaysRight
<1>6. ASSUME NEW h \in Handlers, CreateTest(h, Held), UNCHANGED tcpVars
      PROVE  RightFor(t, ip)'
  <2>1. PICK x \in TestObjs : /\ createOrGetTest(from[h], UDPAll, x, Held)
                              /\ inner' = [inner EXCEPT ![h] = x]
    BY <1>6 DEF CreateTest
  <2>2. PICK y \in TestObjs : Gains(<<h, from[h]>>, y, from[h], UDPAll)
    BY <1>6, CreateTestStep
  <2>3. from[h] \in IPs /\ UDPAll \in TestIDs /\ <<h, from[h]>> \in AllUsers
    BY UdpAssumption DEF IInv, UdpTypeOK, AllUsers
  <2>4. y = x
    <3>1. hpc'[h] = "store" /\ from' = from /\ inner'[h] = x
          /\ gpc' = gpc /\ entry' = entry /\ x # Nil
      BY <1>6, <2>1, PoolsAssumption DEF CreateTest, IInv, UdpTypeOK
    <3>2. ~(gpc[h] = "delete" /\ entry[h] = from[h])
      BY <1>6 DEF CreateTest, IInv, CollectorOwnsItsEntry
    <3>3. UdpRef(h, from[h])' = x
      BY <3>1, <3>2 DEF UdpRef
    <3>4. UdpRef(h, from[h])' = getTestInternal(from[h], UDPAll)'
      <4>1. from'[h] = from[h]
        BY <3>1
      <4>2. RefsAreOfTheirClients'
        BY <1>6, CreateTestStep DEF IInv
      <4> QED
        BY <2>3, <3>1, <3>3, <4>1, <4>2 DEF RefsAreOfTheirClients
    <3> QED
      BY <2>2, <3>3, <3>4 DEF Gains
  <2>5. getTestInternal(from[h], UDPAll) = x \/ x \notin Held
    BY <1>1, <2>1, <2>3
  <2> QED
    BY <2>2, <2>3, <2>4, <2>5, StaysRight
<1>7. ASSUME NEW h \in Handlers, ReleaseTest(h), UNCHANGED tcpVars
      PROVE  RightFor(t, ip)'
  <2>1. <<h, entry[h]>> \in AllUsers
    BY DEF IInv, UdpTypeOK, AllUsers
  <2> QED
    BY <1>7, <2>1, ReleaseTestStep, StaysRight
<1>8. CASE UNCHANGED vars
  <2>1. /\ \A h \in Handlers, i \in IPs : UdpRef(h, i)' = UdpRef(h, i)
        /\ \A i \in IPs, id \in TestIDs : getTestInternal(i, id)' = getTestInternal(i, id)
    BY <1>8 DEF vars, udpVars, tableVars, structVars, UdpRef, getTestInternal
  <2>2. Users' = Users
    BY <1>8, <2>1 DEF vars, tcpVars, Users, TcpUsers, UdpUsers
  <2> QED
    BY <2>1, <2>2, StaysRight
<1>9. CASE Next
  BY <1>9, NextCases, <1>2, <1>3, <1>4, <1>5, <1>6, <1>7
<1> QED
  BY <1>8, <1>9

LEMMA CountStep ==
  ASSUME IInv, CountInv, [Next]_vars
  PROVE  CountInv'
<1> SUFFICES ASSUME NEW h \in Handlers
             PROVE  CountsRight(h)' /\ ForgetsRight(h)'
  BY DEF CountInv
<1>0. UdpTypeOK /\ UdpTypeOK'
  BY NextIInv, StutterIInv DEF IInv
<1>1. \A t \in TestObjs, ip \in IPs :
         (t = outer[h] \/ \E i \in IPs : t = myTests[h][i]) /\ <<t, ip>> \in Right
           => <<t, ip>> \in Right'
  <2> SUFFICES ASSUME NEW t \in TestObjs, NEW ip \in IPs,
                      t = outer[h] \/ \E i \in IPs : t = myTests[h][i],
                      <<t, ip>> \in Right
               PROVE  <<t, ip>> \in Right'
    OBVIOUS
  <2>1. t \in Held \cap TestObjs /\ RightFor(t, ip)
    BY PoolsAssumption DEF Held, UdpHeld, Right
  <2>2. RightFor(t, ip)'
    BY <2>1, StepKeepsRight
  <2> QED
    BY <2>2 DEF Right
<1>2. /\ CountsRight(h) /\ ForgetsRight(h)
      /\ outer[h] # Nil => outer[h] \in TestObjs /\ from[h] \in IPs
      /\ gpc[h] = "delete" => entry[h] \in IPs /\ myTests[h][entry[h]] \in TestObjs
  BY <1>0 DEF CountInv, UdpTypeOK, IInv, CollectorOwnsItsEntry
<1>3. ASSUME UNCHANGED <<outer, from, myTests>>, outer[h] # Nil => hpc'[h] = hpc[h]
      PROVE  CountsRight(h)'
  BY <1>1, <1>2, <1>3 DEF CountsRight
<1>4. ASSUME UNCHANGED <<gpc, entry, myTests>>
      PROVE  ForgetsRight(h)'
  BY <1>1, <1>2, <1>4 DEF ForgetsRight
<1>5. CASE UNCHANGED udpVars
  BY <1>3, <1>4, <1>5 DEF udpVars
<1>6. CASE \E ip \in IPs : StartSending(ip) \/ StopSending(ip)
  BY <1>3, <1>4, <1>6 DEF StartSending, StopSending
<1>7. CASE \E t \in TestObjs : Ages(t)
  BY <1>3, <1>4, <1>7 DEF Ages, udpVars
<1>8. ASSUME NEW g \in Handlers, NEW ip \in IPs, ReadPacket(g, ip)
      PROVE  CountsRight(h)' /\ ForgetsRight(h)'
  <2>1. ForgetsRight(h)'
    BY <1>4, <1>8 DEF ReadPacket
  <2>2. CASE g # h
    <3>1. outer'[h] = outer[h] /\ from'[h] = from[h] /\ hpc'[h] = hpc[h] /\ myTests' = myTests
      BY <1>0, <1>8, <2>2 DEF ReadPacket, UdpTypeOK
    <3> QED
      BY <1>0, <1>1, <1>2, <2>1, <3>1 DEF CountsRight, UdpTypeOK
  <2>3. CASE g = h
    <3> DEFINE t == myTests[h][ip]
    <3>1. /\ hpc[h] = "read" /\ outer'[h] = t /\ from'[h] = ip /\ myTests' = myTests
          /\ t # Nil => hpc'[h] = "count"
      BY <1>0, <1>8, <2>3 DEF ReadPacket, UdpTypeOK
    <3>2. ASSUME t # Nil
          PROVE  <<t, ip>> \in Right
      <4>1. CASE gpc[h] = "delete" /\ entry[h] = ip
        BY <1>2, <3>2, <4>1 DEF ForgetsRight
      <4>2. CASE ~(gpc[h] = "delete" /\ entry[h] = ip)
        <5>1. t \in TestObjs /\ UdpRef(h, ip) = t
          BY <1>0, <3>1, <3>2, <4>2 DEF UdpRef, UdpTypeOK
        <5>2. getTestInternal(ip, UDPAll) = t
          BY <3>2, <5>1 DEF IInv, RefsAreOfTheirClients
        <5> QED
          BY <5>1, <5>2 DEF Right, RightFor
      <4> QED
        BY <4>1, <4>2
    <3>3. ASSUME t # Nil
          PROVE  <<t, ip>> \in Right'
      <4>1. t \in TestObjs
        BY <1>0, <3>3 DEF UdpTypeOK
      <4> QED
        BY <1>1, <3>2, <3>3, <4>1
    <3> QED
      BY <2>1, <3>1, <3>3 DEF CountsRight
  <2> QED
    BY <2>2, <2>3
<1>9. CASE \E g \in Handlers : ReadFails(g)
  <2>1. UNCHANGED <<outer, from, myTests, gpc, entry>>
    BY <1>9 DEF ReadFails
  <2>2. outer[h] # Nil => hpc'[h] = hpc[h]
    BY <1>0, <1>2, <1>9 DEF ReadFails, CountsRight, UdpTypeOK
  <2> QED
    BY <1>3, <1>4, <2>1, <2>2
<1>10. CASE \E g \in Handlers : CreateTest(g, Held)
  <2>1. UNCHANGED <<outer, from, myTests, gpc, entry>>
    BY <1>10 DEF CreateTest
  <2>2. outer[h] # Nil => hpc'[h] = hpc[h]
    BY <1>0, <1>2, <1>10 DEF CreateTest, CountsRight, UdpTypeOK
  <2> QED
    BY <1>3, <1>4, <2>1, <2>2
<1>11. ASSUME NEW g \in Handlers, StoreTest(g)
       PROVE  CountsRight(h)' /\ ForgetsRight(h)'
  <2>1. /\ hpc[g] = "store" /\ UNCHANGED <<outer, from, gpc, entry>>
        /\ hpc' = [hpc EXCEPT ![g] = "count"]
        /\ myTests' = [myTests EXCEPT ![g][from[g]] = inner[g]]
        /\ myTests[g][from[g]] = Nil
    BY <1>11 DEF StoreTest, IInv, CollectorOwnsItsEntry
  <2>2. ForgetsRight(h)'
    <3>1. ASSUME gpc[h] = "delete"
          PROVE  /\ myTests'[h][entry[h]] = myTests[h][entry[h]]
                 /\ myTests[h][entry[h]] # Nil /\ entry[h] \in IPs
      BY <1>0, <2>1, <3>1 DEF IInv, CollectorOwnsItsEntry, UdpTypeOK
    <3> QED
      BY <1>1, <1>2, <2>1, <3>1 DEF ForgetsRight
  <2>3. CASE g # h
    <3>1. myTests'[h] = myTests[h] /\ hpc'[h] = hpc[h]
      BY <1>0, <2>1, <2>3 DEF UdpTypeOK
    <3> QED
      BY <1>0, <1>1, <1>2, <2>1, <2>2, <3>1 DEF CountsRight, UdpTypeOK
  <2>4. CASE g = h
    BY <1>2, <2>1, <2>2, <2>4 DEF CountsRight
  <2> QED
    BY <2>3, <2>4
<1>12. ASSUME NEW g \in Handlers, CountPacket(g) \/ DropPacket(g)
       PROVE  CountsRight(h)' /\ ForgetsRight(h)'
  <2>1. UNCHANGED <<from, myTests, gpc, entry>>
    BY <1>12 DEF CountPacket, DropPacket
  <2>2. outer'[h] # Nil => outer'[h] = outer[h] /\ hpc'[h] = hpc[h]
    BY <1>0, <1>12 DEF CountPacket, DropPacket, UdpTypeOK
  <2> QED
    BY <1>0, <1>1, <1>2, <1>4, <2>1, <2>2 DEF CountsRight, UdpTypeOK
<1>13. ASSUME NEW g \in Handlers, NEW ip \in IPs, FindIdle(g, ip)
       PROVE  CountsRight(h)' /\ ForgetsRight(h)'
  <2>1. UNCHANGED <<outer, from, myTests, hpc>>
    BY <1>13 DEF FindIdle
  <2>2. gpc'[h] = "delete" => gpc[h] = "delete" /\ entry'[h] = entry[h]
    BY <1>0, <1>13 DEF FindIdle, UdpTypeOK
  <2>3. gpc[h] = "delete" => myTests[h][entry[h]] # Nil /\ entry[h] \in IPs
    BY <1>0 DEF IInv, CollectorOwnsItsEntry, UdpTypeOK
  <2>4. gpc'[h] = "delete" => <<myTests[h][entry[h]], entry[h]>> \in Right'
    BY <1>1, <1>2, <2>2, <2>3 DEF ForgetsRight
  <2> QED
    BY <1>3, <2>1, <2>2, <2>4 DEF ForgetsRight
<1>14. ASSUME NEW g \in Handlers, MarkDormant(g)
       PROVE  CountsRight(h)' /\ ForgetsRight(h)'
  <2>1. UNCHANGED <<outer, from, myTests, hpc, entry>>
    BY <1>14 DEF MarkDormant
  <2>2. gpc'[h] = "delete" => gpc[h] = "delete"
    BY <1>0, <1>14 DEF MarkDormant, UdpTypeOK
  <2>3. gpc[h] = "delete" => myTests[h][entry[h]] # Nil /\ entry[h] \in IPs
    BY <1>0 DEF IInv, CollectorOwnsItsEntry, UdpTypeOK
  <2>4. gpc'[h] = "delete" => <<myTests[h][entry[h]], entry[h]>> \in Right'
    BY <1>1, <1>2, <2>2, <2>3 DEF ForgetsRight
  <2> QED
    BY <1>3, <2>1, <2>4 DEF ForgetsRight
<1>15. ASSUME NEW g \in Handlers, ReleaseTest(g), UNCHANGED tcpVars
       PROVE  CountsRight(h)' /\ ForgetsRight(h)'
  <2>1. UNCHANGED <<outer, from, myTests, hpc, entry>> /\ gpc[g] = "release"
    BY <1>15 DEF ReleaseTest
  <2>2. CASE g # h
    <3>1. gpc'[h] = gpc[h]
      BY <1>0, <1>15, <2>2 DEF ReleaseTest, UdpTypeOK
    <3>2. gpc[h] = "delete" => myTests[h][entry[h]] # Nil /\ entry[h] \in IPs
      BY <1>0 DEF IInv, CollectorOwnsItsEntry, UdpTypeOK
    <3>3. gpc[h] = "delete" => <<myTests[h][entry[h]], entry[h]>> \in Right'
      BY <1>1, <1>2, <3>2 DEF ForgetsRight
    <3> QED
      BY <1>3, <2>1, <3>1, <3>3 DEF ForgetsRight
  <2>3. CASE g = h
    <3> DEFINE t == myTests[h][entry[h]]
    <3>1. /\ t # Nil /\ t \in TestObjs /\ entry[h] \in IPs
          /\ ~(hpc[h] = "store" /\ from[h] = entry[h])
      BY <1>0, <2>1, <2>3 DEF IInv, CollectorOwnsItsEntry, UdpTypeOK
    <3>2. UdpRef(h, entry[h]) = t
      BY <2>1, <2>3, <3>1 DEF UdpRef
    <3>3. <<t, entry[h]>> \in Right
      <4>1. getTestInternal(entry[h], UDPAll) = t
        BY <3>1, <3>2 DEF IInv, RefsAreOfTheirClients
      <4> QED
        BY <3>1, <4>1 DEF Right, RightFor
    <3>4. <<t, entry[h]>> \in Right'
      BY <1>1, <3>1, <3>3
    <3> QED
      BY <1>3, <2>1, <3>4 DEF ForgetsRight
  <2> QED
    BY <2>2, <2>3
<1>16. ASSUME NEW g \in Handlers, ForgetTest(g)
       PROVE  CountsRight(h)' /\ ForgetsRight(h)'
  <2>1. /\ UNCHANGED <<outer, from, hpc, entry>>
        /\ gpc' = [gpc EXCEPT ![g] = "sleep"]
        /\ myTests' = [myTests EXCEPT ![g][entry[g]] = Nil]
    BY <1>16 DEF ForgetTest
  <2>2. CASE g # h
    <3>1. myTests'[h] = myTests[h] /\ gpc'[h] = gpc[h]
      BY <1>0, <2>1, <2>2 DEF UdpTypeOK
    <3>2. gpc[h] = "delete" => myTests[h][entry[h]] # Nil /\ entry[h] \in IPs
      BY <1>0 DEF IInv, CollectorOwnsItsEntry, UdpTypeOK
    <3>3. gpc[h] = "delete" => <<myTests[h][entry[h]], entry[h]>> \in Right'
      BY <1>1, <1>2, <3>2 DEF ForgetsRight
    <3> QED
      BY <1>0, <1>1, <1>2, <2>1, <3>1, <3>3 DEF CountsRight, ForgetsRight, UdpTypeOK
  <2>3. CASE g = h
    <3>1. gpc'[h] = "sleep"
      BY <1>0, <2>1, <2>3 DEF UdpTypeOK
    <3>2. myTests'[h][from[h]] \in {Nil, myTests[h][from[h]]}
      BY <1>0, <2>1, <2>3 DEF UdpTypeOK
    <3> QED
      BY <1>0, <1>1, <1>2, <2>1, <3>1, <3>2 DEF CountsRight, ForgetsRight, UdpTypeOK
  <2> QED
    BY <2>2, <2>3
<1>17. CountsRight(h)' /\ ForgetsRight(h)'
  <2>1. CASE UNCHANGED vars
    BY <1>5, <2>1 DEF vars
  <2>2. CASE TcpNext(Held) /\ UNCHANGED udpVars
    BY <1>5, <2>2
  <2>3. CASE UdpNext(Held) /\ UNCHANGED tcpVars
    BY <1>6, <1>7, <1>8, <1>9, <1>10, <1>11, <1>12, <1>13, <1>14, <1>15, <1>16, <2>3
       DEF UdpNext, HandlePacket, Collect
  <2> QED
    BY <2>1, <2>2, <2>3 DEF Next
<1> QED
  BY <1>17

LEMMA CountInvariance == Spec => []CountInv
<1>1. Init => CountInv
  BY DEF Init, UdpInit, CountInv, CountsRight, ForgetsRight
<1>2. IInv /\ CountInv /\ [Next]_vars => CountInv'
  BY CountStep
<1> QED
  BY <1>1, <1>2, Invariance, PTL DEF Spec

-----------------------------------------------------------------------------
(* The theorems.                                                            *)

\* Every variable has values of its type: no pointer that is followed is nil.
THEOREM TypeCorrect == Spec => []TypeOK
<1>1. IInv /\ KeysInv => TypeOK
  BY DEF IInv, TableInv, KeysInv, TypeOK, TableTypeOK
<1> QED
  BY <1>1, Invariance, KeysInvariance, PTL

\* gSessionKeys lists the address of every registered session, once, and no other
\* address: emitStats finds a session under each key it looks up.
THEOREM KeysCorrect == Spec => []KeysMatchSessions
<1>1. KeysInv => KeysMatchSessions
  BY DEF KeysInv
<1> QED
  BY <1>1, KeysInvariance, PTL

\* The reference count of a test is at all times the number of its users: no path
\* through the handlers takes a reference it does not give back, or gives one back
\* twice.
THEOREM RefCountCorrect == Spec => []RefCountIsUsers
<1>1. IInv => RefCountIsUsers
  BY DEF IInv, TableInv, RefCountIsUsers
<1> QED
  BY <1>1, Invariance, PTL

\* A test is in the table as long as, and only as long as, it is in use.
THEOREM LifetimeCorrect == Spec => []TestLivesWhileUsed
<1>1. IInv => TestLivesWhileUsed
  BY DEF IInv, TableInv, TestLivesWhileUsed
<1> QED
  BY <1>1, Invariance, PTL

\* A connection handler works on the registered test of its own client, from the
\* moment it has it to the moment it gives it back.
THEOREM NobodyUsesAnothersTest == Spec => []ConnsUseTheirClientsTest
<1>1. IInv => ConnsUseTheirClientsTest
  BY DEF IInv
<1> QED
  BY <1>1, Invariance, PTL

\* A packet is counted on the registered test of its sender, or, only when the
\* handler's collector has given that reference back since the packet was looked up,
\* on a test that is in no table; never on another client's.
THEOREM PacketsCountForTheirSenderAlways == Spec => []PacketsCountForTheirSender
<1>1. ASSUME IInv, CountInv, NEW h \in Handlers, outer[h] # Nil
      PROVE  \/ outer[h] = getTestInternal(from[h], UDPAll)
             \/ UdpRef(h, from[h]) = Nil /\ ~Registered(outer[h])
  <2> DEFINE t == outer[h]
  <2>1. /\ t \in TestObjs /\ from[h] \in IPs
        /\ hpc[h] = "count" /\ myTests[h][from[h]] \in {Nil, t} /\ RightFor(t, from[h])
    BY <1>1 DEF IInv, UdpTypeOK, CountInv, CountsRight, Right
  <2>2. CASE UdpRef(h, from[h]) # Nil
    <3>1. UdpRef(h, from[h]) = t
      BY <2>1, <2>2 DEF UdpRef
    <3>2. UdpRef(h, from[h]) = getTestInternal(from[h], UDPAll)
      BY <1>1, <2>1, <2>2 DEF IInv, RefsAreOfTheirClients
    <3> QED
      BY <3>1, <3>2
  <2>3. CASE UdpRef(h, from[h]) = Nil
    BY <2>1, <2>3, <1>1 DEF RightFor, IInv, TableInv, RegisteredIffUsed
  <2> QED
    BY <2>2, <2>3
<1>2. IInv /\ CountInv => PacketsCountForTheirSender
  BY <1>1 DEF PacketsCountForTheirSender
<1> QED
  BY <1>2, Invariance, CountInvariance, PTL

\* The collector finds its entry where it left it, and the packet loop adds no
\* second one, although nothing locks the map they share.
THEOREM MapSharingCorrect == Spec => []CollectorOwnsItsEntry
<1>1. IInv => CollectorOwnsItsEntry
  BY DEF IInv
<1> QED
  BY <1>1, Invariance, PTL

\* testCount is the number of tests of the session and is never zero in a
\* registered session, so that the unsigned decrement in deleteTestInternal never
\* wraps and the session goes with its last test.
THEOREM TestCountCorrect == Spec => [](SessionsCountTheirTests /\ TestsPointBack)
<1>1. IInv => SessionsCountTheirTests /\ TestsPointBack
  BY DEF IInv, TableInv
<1> QED
  BY <1>1, Invariance, PTL

-----------------------------------------------------------------------------
(* The refinement.                                                          *)

KeySet == IPs \X TestIDs
instBar == [k \in KeySet |-> getTestInternal(k[1], k[2])]
holdersBar == [k \in KeySet |-> IF getTestInternal(k[1], k[2]) = Nil THEN {}
                                ELSE Users[getTestInternal(k[1], k[2])]]

\* A gain is an Acquire of the registry ...
LEMMA GainIsAcquire ==
  ASSUME IInv, IInv', NEW u \in AllUsers, NEW t \in TestObjs, NEW ip \in IPs, NEW id \in TestIDs,
         Gains(u, t, ip, id)
  PROVE  Registry!Acquire(u, <<ip, id>>)
<1> DEFINE k == <<ip, id>>
<1>0. k \in KeySet /\ t # Nil /\ Users \in [TestObjs -> SUBSET AllUsers]
  BY PoolsAssumption, UsersType DEF KeySet
<1>1. u \notin holdersBar[k]
  BY <1>0 DEF holdersBar, Gains
<1>2. holdersBar[k] = Users[t]
  BY <1>0 DEF holdersBar, Gains
<1>3. /\ instBar' = [instBar EXCEPT ![k] = t]
      /\ holdersBar' = [holdersBar EXCEPT ![k] = @ \cup {u}]
  <2> SUFFICES ASSUME NEW l \in KeySet
               PROVE  /\ instBar'[l] = IF l = k THEN t ELSE instBar[l]
                      /\ holdersBar'[l] = IF l = k THEN holdersBar[k] \cup {u}
                                          ELSE holdersBar[l]
    BY <1>0 DEF instBar, holdersBar
  <2>1. PICK ip2 \in IPs, id2 \in TestIDs : l = <<ip2, id2>>
    BY DEF KeySet
  <2>2. CASE l = k
    <3>1. getTestInternal(ip2, id2)' = t /\ Users'[t] = Users[t] \cup {u}
      BY <2>1, <2>2, <1>0 DEF Gains
    <3> QED
      BY <2>1, <2>2, <3>1, <1>0, <1>2, SMTT(30) DEF instBar, holdersBar
  <2>3. CASE l # k
    <3>1. getTestInternal(ip2, id2)' = getTestInternal(ip2, id2)
      BY <2>1, <2>3 DEF Gains
    <3>2. getTestInternal(ip2, id2) # t
      <4>1. getTestInternal(ip, id) = t => getTestInternal(ip2, id2) # t
        BY <2>1, <2>3, <1>0, KeysOfTests
      <4>2. getTestInternal(ip, id) # t => Users[t] = {}
        BY DEF Gains
      <4>3. getTestInternal(ip2, id2) = t => Users[t] # {}
        BY <1>0, KeysOfTests
      <4> QED
        BY <4>1, <4>2, <4>3
    <3>3. \A x \in TestObjs : x # t => Users'[x] = Users[x]
      BY <1>0 DEF Gains
    <3>4. getTestInternal(ip2, id2) # Nil => getTestInternal(ip2, id2) \in TestObjs
      BY KeysOfTests
    <3> QED
      BY <2>1, <2>3, <3>1, <3>2, <3>3, <3>4 DEF instBar, holdersBar
  <2> QED
    BY <2>2, <2>3
<1>4. CASE getTestInternal(ip, id) = t
  <2>1. holdersBar[k] # {} /\ instBar[k] = t
    BY <1>0, <1>2, <1>4, KeysOfTests DEF instBar
  <2>2. instBar' = instBar
    BY <2>1, <1>3 DEF instBar
  <2> QED
    BY <1>1, <1>3, <2>1, <2>2 DEF Registry!Acquire, instBar, holdersBar, KeySet
<1>5. CASE getTestInternal(ip, id) # t
  <2>1. getTestInternal(ip, id) = Nil /\ holdersBar[k] = {} /\ Users[t] = {}
    BY <1>2, <1>5 DEF Gains
  <2>2. \A l \in KeySet : instBar[l] # t
    BY <2>1, <1>0, KeysOfTests DEF instBar, KeySet
  <2> QED
    BY <1>1, <1>3, <2>1, <2>2 DEF Registry!Acquire, instBar, holdersBar, KeySet
<1> QED
  BY <1>4, <1>5

\* ... a loss is a Release ...
LEMMA LossIsRelease ==
  ASSUME IInv, IInv', NEW u \in AllUsers, NEW t \in TestObjs, Loses(u, t)
  PROVE  \E k \in KeySet : Registry!Release(u, k)
<1>1. Registered(t) /\ t # Nil
  BY PoolsAssumption DEF Loses, IInv, TableInv, RegisteredIffUsed
<1>2. PICK ip \in IPs, id \in TestIDs : getTestInternal(ip, id) = t
  BY <1>1, RegisteredIsFound DEF IInv, TableInv
<1> DEFINE k == <<ip, id>>
<1>3. k \in KeySet /\ Users \in [TestObjs -> SUBSET AllUsers]
  BY UsersType DEF KeySet
<1>4. instBar[k] = t /\ holdersBar[k] = Users[t]
  BY <1>1, <1>2, <1>3 DEF instBar, holdersBar
<1>5. /\ instBar' = IF holdersBar[k] = {u} THEN [instBar EXCEPT ![k] = Nil] ELSE instBar
      /\ holdersBar' = [holdersBar EXCEPT ![k] = @ \ {u}]
  <2> SUFFICES ASSUME NEW l \in KeySet
               PROVE  /\ instBar'[l] = IF holdersBar[k] = {u} /\ l = k THEN Nil
                                       ELSE instBar[l]
                      /\ holdersBar'[l] = IF l = k THEN holdersBar[k] \ {u}
                                          ELSE holdersBar[l]
    BY <1>3 DEF instBar, holdersBar
  <2>1. PICK ip2 \in IPs, id2 \in TestIDs : l = <<ip2, id2>>
    BY DEF KeySet
  <2>2. CASE l = k
    <3>1. getTestInternal(ip2, id2)' = IF Users[t] = {u} THEN Nil ELSE t
      BY <2>1, <2>2, <1>2 DEF Loses
    <3>2. Users'[t] = Users[t] \ {u}
      BY <1>3 DEF Loses
    <3> QED
      <4>0. /\ instBar'[l] = getTestInternal(ip2, id2)'
            /\ holdersBar'[l] = IF getTestInternal(ip2, id2)' = Nil THEN {}
                                ELSE Users'[getTestInternal(ip2, id2)']
        BY <2>1 DEF instBar, holdersBar
      <4>1. CASE Users[t] = {u}
        BY <4>0, <4>1, <2>2, <3>1, <1>4
      <4>2. CASE Users[t] # {u}
        BY <4>0, <4>2, <2>2, <3>1, <3>2, <1>1, <1>4
      <4> QED
        BY <4>1, <4>2
  <2>3. CASE l # k
    <3>1. getTestInternal(ip2, id2) # t
      BY <2>1, <2>3, <1>1, <1>2, KeysOfTests
    <3>2. getTestInternal(ip2, id2)' = getTestInternal(ip2, id2)
      BY <3>1 DEF Loses
    <3>3. \A x \in TestObjs : x # t => Users'[x] = Users[x]
      BY <1>3 DEF Loses
    <3>4. getTestInternal(ip2, id2) # Nil => getTestInternal(ip2, id2) \in TestObjs
      BY KeysOfTests
    <3> QED
      BY <2>1, <2>3, <3>1, <3>2, <3>3, <3>4 DEF instBar, holdersBar
  <2> QED
    BY <2>2, <2>3
<1>6. u \in holdersBar[k]
  BY <1>4 DEF Loses
<1> QED
  BY <1>3, <1>5, <1>6 DEF Registry!Release, instBar, holdersBar, KeySet

\* ... and every other step leaves the registry alone.
LEMMA NeutralIsStutter ==
  ASSUME Users' = Users,
         \A ip \in IPs, id \in TestIDs :
           getTestInternal(ip, id)' = getTestInternal(ip, id)
  PROVE  UNCHANGED Registry!registryVars
BY DEF Registry!registryVars

LEMMA RegistryStep ==
  ASSUME IInv, [Next]_vars
  PROVE  [Registry!RegistryNext]_(Registry!registryVars)
<1>1. IInv'
  BY NextIInv
<1>2. ASSUME NEW c \in Conns, TcpNeutral(c), UNCHANGED udpVars
      PROVE  UNCHANGED Registry!registryVars
  BY <1>2, TcpNeutralStep, NeutralIsStutter
<1>3. ASSUME NEW c \in Conns, GetTest(c, Held), UNCHANGED udpVars
      PROVE  Registry!RegistryNext
  <2>1. PICK t \in TestObjs : Gains(c, t, server[c], TCPAll)
    BY <1>3, GetTestStep
  <2>2. server[c] \in IPs /\ TCPAll \in TestIDs /\ c \in AllUsers
    BY TcpAssumption DEF IInv, TcpTypeOK, AllUsers
  <2>3. Registry!Acquire(c, <<server[c], TCPAll>>)
    BY <1>1, <2>1, <2>2, GainIsAcquire
  <2> QED
    BY <2>2, <2>3 DEF Registry!RegistryNext, AllUsers
<1>4. ASSUME NEW c \in Conns, DropTest(c), UNCHANGED udpVars
      PROVE  Registry!RegistryNext
  <2>1. Loses(c, test[c]) /\ test[c] \in TestObjs /\ c \in AllUsers
    BY <1>4, DropTestStep DEF AllUsers
  <2>2. PICK k \in KeySet : Registry!Release(c, k)
    BY <1>1, <2>1, LossIsRelease
  <2> QED
    BY <2>1, <2>2 DEF Registry!RegistryNext, AllUsers, KeySet
<1>5. ASSUME UdpNeutral, UNCHANGED tcpVars
      PROVE  UNCHANGED Registry!registryVars
  BY <1>5, UdpNeutralStep, NeutralIsStutter
<1>6. ASSUME NEW h \in Handlers, CreateTest(h, Held), UNCHANGED tcpVars
      PROVE  Registry!RegistryNext
  <2>1. PICK t \in TestObjs : Gains(<<h, from[h]>>, t, from[h], UDPAll)
    BY <1>6, CreateTestStep
  <2>2. from[h] \in IPs /\ UDPAll \in TestIDs /\ <<h, from[h]>> \in AllUsers
    BY UdpAssumption DEF IInv, UdpTypeOK, AllUsers
  <2>3. Registry!Acquire(<<h, from[h]>>, <<from[h], UDPAll>>)
    BY <1>1, <2>1, <2>2, GainIsAcquire
  <2> QED
    BY <2>2, <2>3 DEF Registry!RegistryNext, AllUsers
<1>7. ASSUME NEW h \in Handlers, ReleaseTest(h), UNCHANGED tcpVars
      PROVE  Registry!RegistryNext
  <2>1. PICK t \in TestObjs : Loses(<<h, entry[h]>>, t)
    BY <1>7, ReleaseTestStep
  <2>2. <<h, entry[h]>> \in AllUsers
    BY DEF IInv, UdpTypeOK, AllUsers
  <2>3. PICK k \in KeySet : Registry!Release(<<h, entry[h]>>, k)
    BY <1>1, <2>1, <2>2, LossIsRelease
  <2> QED
    BY <2>2, <2>3 DEF Registry!RegistryNext, AllUsers, KeySet
<1>8. CASE UNCHANGED vars
  <2>1. \A ip \in IPs, id \in TestIDs :
          getTestInternal(ip, id)' = getTestInternal(ip, id)
    BY <1>8 DEF vars, tableVars, structVars, getTestInternal
  <2> QED
    BY <1>8, <2>1, StutterIInv, NeutralIsStutter
<1>9. CASE Next
  BY <1>2, <1>3, <1>4, <1>5, <1>6, <1>7, <1>9, NextCases
<1> QED
  BY <1>8, <1>9

LEMMA RegistryStart ==
  ASSUME Init
  PROVE  Registry!RegistryInit
BY DEF Registry!RegistryInit, Init, TableInit, getTestInternal

\* The server implements the registry: seen from its clients' keys, every step is
\* an acquisition, a release, or nothing.
THEOREM RegistryImplemented == Spec => ImplementsRegistry
<1>1. Init => Registry!RegistryInit
  BY RegistryStart
<1>2. IInv /\ [Next]_vars => [Registry!RegistryNext]_(Registry!registryVars)
  BY RegistryStep
<1> QED
  BY <1>1, <1>2, Invariance, PTL DEF Spec, ImplementsRegistry, Registry!RegistrySpec
=============================================================================
