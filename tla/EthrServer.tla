------------------------------ MODULE EthrServer ------------------------------
(***************************************************************************)
(* The ethr server: the TCP connection handlers and the UDP packet         *)
(* handlers with their collectors, at work on one session table.           *)
(***************************************************************************)
EXTENDS TcpServer, UdpServer

\* Connections and packet handlers have different names as users of tests.
ASSUME UsersAssumption == Conns \cap (Handlers \X IPs) = {}

vars == <<tableVars, tcpVars, udpVars>>

Held == TcpHeld \cup UdpHeld

TypeOK == TableTypeOK /\ TcpTypeOK /\ UdpTypeOK

Init == TableInit /\ TcpInit /\ UdpInit

Next ==
  \/ TcpNext(Held) /\ UNCHANGED udpVars
  \/ UdpNext(Held) /\ UNCHANGED tcpVars

\* Goroutines are scheduled, sleeps and read deadlines end, receives on dead
\* connections fail, a test without traffic grows old, and a walk of a collector
\* visits every entry of its map (the collector leaves the sleep again and again,
\* so it is strong fairness that a given entry needs).  Nothing makes a client go
\* away, say anything, or stop sending.
TcpStep(A) == A /\ UNCHANGED udpVars
UdpStep(A) == A /\ UNCHANGED tcpVars

Fairness ==
  /\ \A c \in Conns : WF_vars(TcpStep(Proceeds(c, Held)))
  /\ \A h \in Handlers :
       /\ WF_vars(UdpStep(HandlePacket(h, Held)))
       /\ WF_vars(UdpStep(MarkDormant(h) \/ ReleaseTest(h) \/ ForgetTest(h)))
       /\ \A ip \in IPs : SF_vars(UdpStep(FindIdle(h, ip)))
  /\ \A t \in TestObjs : WF_vars(UdpStep(Ages(t)))

Spec == Init /\ [][Next]_vars /\ Fairness

-----------------------------------------------------------------------------
(* Who uses which test.                                                     *)

\* The test the packet handler h has a reference on for the client ip: the one
\* in its map, unless the collector has given that reference back already, or
\* the one it is about to store there.
UdpRef(h, ip) ==
  IF gpc[h] = "delete" /\ entry[h] = ip THEN Nil
  ELSE IF hpc[h] = "store" /\ from[h] = ip THEN inner[h]
  ELSE myTests[h][ip]

UdpUsers(t) == {u \in Handlers \X IPs : UdpRef(u[1], u[2]) = t}

TcpUsers(t) == {c \in Conns : test[c] = t}

Users == [t \in TestObjs |-> TcpUsers(t) \cup UdpUsers(t)]

-----------------------------------------------------------------------------
(* Properties. *)

\* refCount of every test is the number of connection handlers and packet
\* handlers that use it (createOrGetTest and safeDeleteTest are balanced on every
\* path, session.go:266-290, server.go:239-260, server.go:435 and 452).
RefCountIsUsers == RefCountsUsers(Users)

\* A test is in the table exactly while somebody uses it: it is not deleted under
\* a user, by the last connection of another test of the client or by another
\* handler's collector, and it is not left behind by its last user.
TestLivesWhileUsed == RegisteredIffUsed(Users)

\* A connection handler works, from createOrGetTest to safeDeleteTest, on the
\* registered <<TCP, All>> test of its own client.
ConnsUseTheirClientsTest ==
  \A c \in Conns :
    IF pc[c] \in {"none", "accepted", "close"}
      THEN test[c] = Nil
      ELSE test[c] # Nil /\ test[c] = getTestInternal(server[c], TCPAll)

\* A packet counts for its sender: the test that the packet loop found in the map
\* is the registered <<UDP, All>> test of the packet's sender.  The one exception is
\* a packet that was looked up, or is being counted, while the handler's own
\* collector drops that entry (server.go:435-436 beside 450 and 461-465): it may be
\* counted on a test that is in no table any more, where the statistics miss it,
\* but never on a test of another client, or while the handler has its reference.
PacketsCountForTheirSender ==
  \A h \in Handlers : outer[h] # Nil =>
    \/ outer[h] = getTestInternal(from[h], UDPAll)
    \/ UdpRef(h, from[h]) = Nil /\ ~Registered(outer[h])

\* The collector and the packet loop share the map without a lock, yet the entry
\* the collector is at stays, and stays the same, until it removes it itself: the
\* packet loop adds entries only for clients it does not find, and never replaces
\* one.  Otherwise `delete(tests, k)` could drop a reference nobody gives back.
CollectorOwnsItsEntry ==
  \A h \in Handlers :
    /\ gpc[h] # "sleep" => myTests[h][entry[h]] # Nil
    /\ hpc[h] \in {"create", "store"} => myTests[h][from[h]] = Nil

\* What the comments of the packet loop say, and the code does not keep:
\* "Unable to create test" is printed when there is no test (server.go:466-467) ...
UnableMeansNoTest ==
  \A h \in Handlers :
    hpc[h] = "count" /\ outer[h] = Nil => myTests[h][from[h]] = Nil

\* ... and the map is local to the handler (server.go:410): the handler is never
\* about to write it while the collector goroutine is about to delete from it.
MapIsLocal ==
  \A h \in Handlers : ~(hpc[h] = "store" /\ gpc[h] = "delete")

\* When all connections are gone and nobody sends packets for good, the table is
\* emptied for good: no reference leaks, and no session stays behind.
NobodyThere == senders = {} /\ \A c \in Conns : peer[c] = "gone"
TableEmpty == gSessionKeys = <<>> /\ \A ip \in IPs : gSessions[ip] = Nil
TableEmpties == <>[]NobodyThere => <>[]TableEmpty

\* The server as an implementation of the registry.
Registry == INSTANCE TestRegistry WITH
  Keys <- IPs \X TestIDs,
  Users <- Conns \cup (Handlers \X IPs),
  Insts <- TestObjs,
  None <- Nil,
  inst <- [k \in IPs \X TestIDs |-> getTestInternal(k[1], k[2])],
  holders <- [k \in IPs \X TestIDs |->
                IF getTestInternal(k[1], k[2]) = Nil THEN {}
                ELSE Users[getTestInternal(k[1], k[2])]]

\* Every step of the server is a step of the registry or leaves it alone.
ImplementsRegistry == Registry!RegistrySpec
=============================================================================
