------------------------------ MODULE TcpServer ------------------------------
(***************************************************************************)
(* The TCP half of the ethr server: srvrRunTCPServer accepts connections   *)
(* and runs srvrHandleNewTcpConn on a goroutine for each.  A handler takes *)
(* a reference on the test <<TCP, All>> of its client, finds out from the  *)
(* first message what the connection is for, serves it until the peer goes *)
(* away, and gives the reference back; connections that never got through  *)
(* the handshake (connection-rate and ping tests) keep it for 2s more.     *)
(*                                                                         *)
(* What flows on a connection is abstracted to whether the peer is there:  *)
(* every receive or send of the handler has the outcomes "done" and        *)
(* "failed".  SyncStart models the messages of the bandwidth handshake.    *)
(***************************************************************************)
EXTENDS Sessions

CONSTANTS
  Conns,   \* connection slots: the bound on simultaneous connections
  TCPAll   \* EthrTestID{TCP, All}

ASSUME TcpAssumption ==
  /\ IsFiniteSet(Conns)
  /\ TCPAll \in TestIDs

VARIABLES
  pc,      \* pc[c]: where the handler of connection c is
  server,  \* server[c]: the address of the peer (srvrHandleNewTcpConn's name for it)
  test,    \* test[c]: the handler's test pointer, while it holds a reference
  lingers, \* lingers[c]: isCPSorPing
  peer     \* peer[c]: "open" while the client keeps the connection usable

tcpVars == <<pc, server, test, lingers, peer>>

TcpTypeOK ==
  /\ pc \in [Conns -> {"none", "accepted", "handshake", "sync", "syncgo",
                       "run", "linger", "release", "close"}]
  /\ server \in [Conns -> IPs]
  /\ test \in [Conns -> TestObjs \cup {Nil}]
  /\ lingers \in [Conns -> BOOLEAN]
  /\ peer \in [Conns -> {"open", "gone"}]

TcpInit ==
  /\ pc = [c \in Conns |-> "none"]
  /\ server = [c \in Conns |-> CHOOSE ip \in IPs : TRUE]
  /\ test = [c \in Conns |-> Nil]
  /\ lingers = [c \in Conns |-> FALSE]
  /\ peer = [c \in Conns |-> "gone"]

TcpHeld == {test[c] : c \in Conns} \ {Nil}

At(c, label) == pc[c] = label
Goto(c, label) == pc' = [pc EXCEPT ![c] = label]

-----------------------------------------------------------------------------
(* The environment: clients connect and go away.                            *)

\* l.Accept() returned a connection from ip; its handler is started.
Accept(c, ip) ==
  /\ At(c, "none")
  /\ Goto(c, "accepted")
  /\ server' = [server EXCEPT ![c] = ip]
  /\ lingers' = [lingers EXCEPT ![c] = TRUE]
  /\ peer' = [peer EXCEPT ![c] = "open"]
  /\ UNCHANGED <<test, tableVars>>

\* The client closes the connection, dies, or sends something that is not the
\* message expected: to the handler it is one and the same failed receive.
PeerGone(c) ==
  /\ peer[c] = "open"
  /\ peer' = [peer EXCEPT ![c] = "gone"]
  /\ UNCHANGED <<pc, server, test, lingers, tableVars>>

-----------------------------------------------------------------------------
(* The handler.  `held` is the set of tests the goroutines point to.        *)

GetTest(c, held) ==
  /\ At(c, "accepted")
  /\ \E t \in TestObjs :
       /\ createOrGetTest(server[c], TCPAll, t, held)
       /\ test' = [test EXCEPT ![c] = t]
  /\ Goto(c, "handshake")
  /\ UNCHANGED <<server, lingers, peer>>

\* Faulty variant: the early return does not give the reference back.
FailsWithoutRelease(c) ==
  /\ At(c, "handshake")
  /\ peer[c] = "gone"
  /\ Goto(c, "close")
  /\ test' = [test EXCEPT ![c] = Nil]
  /\ UNCHANGED <<server, lingers, peer, tableVars>>

\* No SYN came: the deferred function sleeps before it drops the reference.
HandshakeFails(c) ==
  /\ At(c, "handshake")
  /\ peer[c] = "gone"
  /\ Goto(c, "linger")
  /\ UNCHANGED <<server, test, lingers, peer, tableVars>>

\* The SYN came and the ACK was sent.  A bandwidth test goes on to synchronize,
\* a latency test runs, and a test of any other type is over.
HandshakeDone(c) ==
  /\ At(c, "handshake")
  /\ peer[c] = "open"
  /\ lingers' = [lingers EXCEPT ![c] = FALSE]
  /\ \E next \in {"sync", "run", "release"} : Goto(c, next)
  /\ UNCHANGED <<server, test, peer, tableVars>>

\* trySyncStartWithClient gave up on SyncStart, at its deadline or because the
\* receive failed: the connection counts as a data connection.
SyncGivesUp(c) ==
  /\ At(c, "sync")
  /\ Goto(c, "run")
  /\ UNCHANGED <<server, test, lingers, peer, tableVars>>

\* SyncStart came in time, SyncReady is sent; SyncGo is awaited without deadline.
SyncStartArrives(c) ==
  /\ At(c, "sync")
  /\ peer[c] = "open"
  /\ Goto(c, "syncgo")
  /\ UNCHANGED <<server, test, lingers, peer, tableVars>>

SyncGoArrives(c) ==
  /\ At(c, "syncgo")
  /\ peer[c] = "open"
  /\ Goto(c, "run")
  /\ UNCHANGED <<server, test, lingers, peer, tableVars>>

SyncFails(c) ==
  /\ At(c, "syncgo")
  /\ peer[c] = "gone"
  /\ Goto(c, "release")
  /\ UNCHANGED <<server, test, lingers, peer, tableVars>>

\* The transfer or echo loop ends at the first read or write that fails.
RunEnds(c) ==
  /\ At(c, "run")
  /\ peer[c] = "gone"
  /\ Goto(c, "release")
  /\ UNCHANGED <<server, test, lingers, peer, tableVars>>

\* The 2s sleep of the deferred function is over.
LingerEnds(c) ==
  /\ At(c, "linger")
  /\ Goto(c, "release")
  /\ UNCHANGED <<server, test, lingers, peer, tableVars>>

DropTest(c) ==
  /\ At(c, "release")
  /\ safeDeleteTest(test[c])
  /\ test' = [test EXCEPT ![c] = Nil]
  /\ Goto(c, "close")
  /\ UNCHANGED <<server, lingers, peer>>

\* conn.Close(), deferred first and so run last.
CloseConn(c) ==
  /\ At(c, "close")
  /\ Goto(c, "none")
  /\ peer' = [peer EXCEPT ![c] = "gone"]
  /\ UNCHANGED <<server, test, lingers, tableVars>>

-----------------------------------------------------------------------------

\* Steps the handler takes whatever a connected client does.
Proceeds(c, held) ==
  \/ GetTest(c, held)
  \/ HandshakeFails(c) \/ SyncGivesUp(c) \/ SyncFails(c)
  \/ RunEnds(c) \/ LingerEnds(c)
  \/ DropTest(c) \/ CloseConn(c)

\* Steps it takes when a message of the client has arrived.
Hears(c) == HandshakeDone(c) \/ SyncStartArrives(c) \/ SyncGoArrives(c)

TcpNext(held) ==
  \E c \in Conns :
    \/ \E ip \in IPs : Accept(c, ip)
    \/ PeerGone(c)
    \/ Proceeds(c, held)
    \/ Hears(c)
=============================================================================
