------------------------------ MODULE UdpServer ------------------------------
(***************************************************************************)
(* The UDP half of the ethr server: srvrRunUDPServer starts one packet     *)
(* handler per CPU on the shared socket.  Each handler keeps a map of its  *)
(* own from client addresses to tests, so that it takes gSessionLock only  *)
(* for the first packet of a client, and starts a goroutine that walks the *)
(* same map every 100ms, marks tests without traffic dormant after 200ms   *)
(* and drops them after 2s.  No lock protects the map.                     *)
(***************************************************************************)
EXTENDS Sessions

CONSTANTS
  Handlers,  \* the packet handlers, one per CPU
  UDPAll     \* EthrTestID{UDP, All}

ASSUME UdpAssumption ==
  /\ IsFiniteSet(Handlers)
  /\ IsFiniteSet(IPs)
  /\ UDPAll \in TestIDs

VARIABLES
  senders,  \* the clients that are sending packets
  myTests,  \* myTests[h][ip]: the local map `tests` of handler h
  hpc,      \* hpc[h]: where handler h is in its packet loop
  from,     \* from[h]: the sender of the packet in hand
  outer,    \* outer[h]: the variable `test` of the loop body
  inner,    \* inner[h]: the variable `test` that the if block declares anew
  gpc,      \* gpc[h]: where the collector goroutine of handler h is
  entry     \* entry[h]: the key the collector is at

udpVars == <<senders, myTests, hpc, from, outer, inner, gpc, entry>>

UdpTypeOK ==
  /\ senders \in SUBSET IPs
  /\ myTests \in [Handlers -> [IPs -> TestObjs \cup {Nil}]]
  /\ hpc \in [Handlers -> {"read", "create", "store", "count", "dead"}]
  /\ from \in [Handlers -> IPs]
  /\ outer \in [Handlers -> TestObjs \cup {Nil}]
  /\ inner \in [Handlers -> TestObjs \cup {Nil}]
  /\ gpc \in [Handlers -> {"sleep", "mark", "release", "delete"}]
  /\ entry \in [Handlers -> IPs]

UdpInit ==
  /\ senders = {}
  /\ myTests = [h \in Handlers |-> [ip \in IPs |-> Nil]]
  /\ hpc = [h \in Handlers |-> "read"]
  /\ from = [h \in Handlers |-> CHOOSE ip \in IPs : TRUE]
  /\ outer = [h \in Handlers |-> Nil]
  /\ inner = [h \in Handlers |-> Nil]
  /\ gpc = [h \in Handlers |-> "sleep"]
  /\ entry = [h \in Handlers |-> CHOOSE ip \in IPs : TRUE]

UdpHeld ==
  ({myTests[h][ip] : h \in Handlers, ip \in IPs}
     \cup {outer[h] : h \in Handlers} \cup {inner[h] : h \in Handlers}) \ {Nil}

-----------------------------------------------------------------------------
(* The environment: clients start and stop sending, and time passes.        *)

StartSending(ip) ==
  /\ ip \notin senders
  /\ senders' = senders \cup {ip}
  /\ UNCHANGED <<myTests, hpc, from, outer, inner, gpc, entry, tableVars>>

StopSending(ip) ==
  /\ ip \in senders
  /\ senders' = senders \ {ip}
  /\ UNCHANGED <<myTests, hpc, from, outer, inner, gpc, entry, tableVars>>

\* The last access of t becomes one class older.  Tests age one by one: they
\* were accessed at different times, so each crosses the thresholds on its own.
Ages(t) ==
  /\ idle[t] < Expired
  /\ t \in UdpHeld
  /\ idle' = [idle EXCEPT ![t] = @ + 1]
  /\ UNCHANGED <<structVars, refCount, isDormant, udpVars>>

-----------------------------------------------------------------------------
(* The packet loop.                                                         *)

\* Faulty variant: the local map is not searched.
ReadWithoutLookup(h, ip) ==
  /\ hpc[h] = "read"
  /\ ip \in senders
  /\ from' = [from EXCEPT ![h] = ip]
  /\ hpc' = [hpc EXCEPT ![h] = "create"]
  /\ UNCHANGED <<senders, myTests, outer, inner, gpc, entry, tableVars>>

\* ReadFromUDP returns a packet of ip, which is looked up in the local map.
ReadPacket(h, ip) ==
  /\ hpc[h] = "read"
  /\ ip \in senders
  /\ from' = [from EXCEPT ![h] = ip]
  /\ outer' = [outer EXCEPT ![h] = myTests[h][ip]]
  /\ hpc' = [hpc EXCEPT ![h] = IF myTests[h][ip] = Nil THEN "create" ELSE "count"]
  /\ UNCHANGED <<senders, myTests, inner, gpc, entry, tableVars>>

\* An error of ReadFromUDP ends the loop, and the handler with it; its
\* collector goes on.
ReadFails(h) ==
  /\ hpc[h] = "read"
  /\ hpc' = [hpc EXCEPT ![h] = "dead"]
  /\ UNCHANGED <<senders, myTests, from, outer, inner, gpc, entry, tableVars>>

\* Unknown sender: `test, isNew := createOrGetTest(...)` declares a second `test`.
CreateTest(h, held) ==
  /\ hpc[h] = "create"
  /\ \E t \in TestObjs :
       /\ createOrGetTest(from[h], UDPAll, t, held)
       /\ inner' = [inner EXCEPT ![h] = t]
  /\ hpc' = [hpc EXCEPT ![h] = "store"]
  /\ UNCHANGED <<senders, myTests, from, outer, gpc, entry>>

StoreTest(h) ==
  /\ hpc[h] = "store"
  /\ myTests' = [myTests EXCEPT ![h][from[h]] = inner[h]]
  /\ inner' = [inner EXCEPT ![h] = Nil]
  /\ hpc' = [hpc EXCEPT ![h] = "count"]
  /\ UNCHANGED <<senders, from, outer, gpc, entry, tableVars>>

\* The packet is counted on the outer test.
CountPacket(h) ==
  /\ hpc[h] = "count"
  /\ outer[h] # Nil
  /\ isDormant' = [isDormant EXCEPT ![outer[h]] = FALSE]
  /\ idle' = [idle EXCEPT ![outer[h]] = Recent]
  /\ outer' = [outer EXCEPT ![h] = Nil]
  /\ hpc' = [hpc EXCEPT ![h] = "read"]
  /\ UNCHANGED <<senders, myTests, from, inner, gpc, entry, structVars, refCount>>

\* There is no outer test: "Unable to create test for UDP traffic", not counted.
DropPacket(h) ==
  /\ hpc[h] = "count"
  /\ outer[h] = Nil
  /\ hpc' = [hpc EXCEPT ![h] = "read"]
  /\ UNCHANGED <<senders, myTests, from, outer, inner, gpc, entry, tableVars>>

-----------------------------------------------------------------------------
(* The collector of handler h.                                              *)

\* The walk is at ip, and its test has been without traffic for over 200ms.
FindIdle(h, ip) ==
  /\ gpc[h] = "sleep"
  /\ myTests[h][ip] # Nil
  /\ idle[myTests[h][ip]] > Recent
  /\ entry' = [entry EXCEPT ![h] = ip]
  /\ gpc' = [gpc EXCEPT ![h] = "mark"]
  /\ UNCHANGED <<senders, myTests, hpc, from, outer, inner, tableVars>>

\* Faulty variants: old entries are never released ...
MarkOnly(h) ==
  /\ gpc[h] = "mark"
  /\ isDormant' = [isDormant EXCEPT ![myTests[h][entry[h]]] = TRUE]
  /\ gpc' = [gpc EXCEPT ![h] = "sleep"]
  /\ UNCHANGED <<senders, myTests, hpc, from, outer, inner, entry,
                 structVars, refCount, idle>>

\* ... or they are removed from the map only.
MarkAndForget(h) ==
  /\ gpc[h] = "mark"
  /\ LET t == myTests[h][entry[h]]
     IN /\ isDormant' = [isDormant EXCEPT ![t] = TRUE]
        /\ gpc' = [gpc EXCEPT ![h] = IF idle[t] = Expired THEN "delete" ELSE "sleep"]
  /\ UNCHANGED <<senders, myTests, hpc, from, outer, inner, entry,
                 structVars, refCount, idle>>

\* Marks it dormant, and reads lastAccess a second time.
MarkDormant(h) ==
  /\ gpc[h] = "mark"
  /\ LET t == myTests[h][entry[h]]
     IN /\ isDormant' = [isDormant EXCEPT ![t] = TRUE]
        /\ gpc' = [gpc EXCEPT ![h] = IF idle[t] = Expired THEN "release" ELSE "sleep"]
  /\ UNCHANGED <<senders, myTests, hpc, from, outer, inner, entry,
                 structVars, refCount, idle>>

ReleaseTest(h) ==
  /\ gpc[h] = "release"
  /\ safeDeleteTest(myTests[h][entry[h]])
  /\ gpc' = [gpc EXCEPT ![h] = "delete"]
  /\ UNCHANGED <<senders, myTests, hpc, from, outer, inner, entry>>

ForgetTest(h) ==
  /\ gpc[h] = "delete"
  /\ myTests' = [myTests EXCEPT ![h][entry[h]] = Nil]
  /\ gpc' = [gpc EXCEPT ![h] = "sleep"]
  /\ UNCHANGED <<senders, hpc, from, outer, inner, entry, tableVars>>

-----------------------------------------------------------------------------

HandlePacket(h, held) ==
  \/ CreateTest(h, held) \/ StoreTest(h) \/ CountPacket(h) \/ DropPacket(h)

Collect(h) ==
  \/ \E ip \in IPs : FindIdle(h, ip)
  \/ MarkDormant(h) \/ ReleaseTest(h) \/ ForgetTest(h)

UdpNext(held) ==
  \/ \E ip \in IPs : StartSending(ip) \/ StopSending(ip)
  \/ \E t \in TestObjs : Ages(t)
  \/ \E h \in Handlers :
       \/ \E ip \in IPs : ReadPacket(h, ip)
       \/ ReadFails(h)
       \/ HandlePacket(h, held)
       \/ Collect(h)
=============================================================================
