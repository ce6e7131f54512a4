------------------------------- MODULE Sessions -------------------------------
(***************************************************************************)
(* The session table of the ethr server (session.go): gSessions maps the   *)
(* address of a client to its session, a session maps a test ID to a test, *)
(* and a test counts the goroutines that use it.  gSessionLock makes each  *)
(* of the operations below one step.  The module has no behaviour of its   *)
(* own: TcpServer and UdpServer extend it and call the operations.         *)
(*                                                                         *)
(* Sessions and tests are pointers in the source, so here they are objects *)
(* of two pools, and a field is a function from the objects to its value.  *)
(* An allocation takes an object nobody can reach any more, which is what  *)
(* the Go collector may reuse.                                             *)
(***************************************************************************)
EXTENDS Integers, Sequences, FiniteSets

CONSTANTS
  IPs,          \* addresses of clients (keys of gSessions)
  TestIDs,      \* EthrTestID values in use (keys of ethrSession.tests)
  SessionObjs,  \* pool of ethrSession objects
  TestObjs,     \* pool of ethrTest objects
  Nil           \* the nil pointer, and an absent map entry

ASSUME PoolsAssumption ==
  /\ Nil \notin SessionObjs
  /\ Nil \notin TestObjs
  /\ IsFiniteSet(TestIDs) /\ TestIDs # {}
  /\ IPs # {} /\ SessionObjs # {}

VARIABLES
  gSessions,    \* gSessions[ip]: the session registered for ip, or Nil
  gSessionKeys, \* the addresses in order of arrival, for display
  remoteIP,     \* remoteIP[s]: ethrSession.remoteIP
  testCount,    \* testCount[s]: ethrSession.testCount
  tests,        \* tests[s][id]: ethrSession.tests[id], or Nil
  session,      \* session[t]: ethrTest.session
  testID,       \* testID[t]: ethrTest.testID
  refCount,     \* refCount[t]: ethrTest.refCount
  isDormant,    \* isDormant[t]: ethrTest.isDormant
  idle          \* idle[t]: how long ago ethrTest.lastAccess is (a class)

structVars == <<gSessions, gSessionKeys, remoteIP, testCount, tests, session, testID>>
tableVars  == <<structVars, refCount, isDormant, idle>>

\* The ages of lastAccess the server tells apart: at most 200ms, at most 2s, more.
Recent  == 0
Quiet   == 1
Expired == 2

FieldsTypeOK ==
  /\ gSessions \in [IPs -> SessionObjs \cup {Nil}]
  /\ remoteIP \in [SessionObjs -> IPs]
  /\ testCount \in [SessionObjs -> Int]
  /\ tests \in [SessionObjs -> [TestIDs -> TestObjs \cup {Nil}]]
  /\ session \in [TestObjs -> SessionObjs]
  /\ testID \in [TestObjs -> TestIDs]
  /\ refCount \in [TestObjs -> Int]
  /\ isDormant \in [TestObjs -> BOOLEAN]
  /\ idle \in [TestObjs -> {Recent, Quiet, Expired}]

TableTypeOK == FieldsTypeOK /\ gSessionKeys \in Seq(IPs)

\* No session at start.  The fields of objects not allocated yet are arbitrary.
TableInit ==
  /\ gSessions = [ip \in IPs |-> Nil]
  /\ gSessionKeys = <<>>
  /\ remoteIP = [s \in SessionObjs |-> CHOOSE ip \in IPs : TRUE]
  /\ testCount = [s \in SessionObjs |-> 0]
  /\ tests = [s \in SessionObjs |-> [id \in TestIDs |-> Nil]]
  /\ session = [t \in TestObjs |-> CHOOSE s \in SessionObjs : TRUE]
  /\ testID = [t \in TestObjs |-> CHOOSE id \in TestIDs : TRUE]
  /\ refCount = [t \in TestObjs |-> 0]
  /\ isDormant = [t \in TestObjs |-> TRUE]
  /\ idle = [t \in TestObjs |-> Recent]

-----------------------------------------------------------------------------
(* Allocation. `held` is the set of tests that goroutines have pointers to. *)

\* The object an allocation from the pool returns, as a set (empty: pool used up).
Fresh(pool, used) ==
  IF pool \subseteq used THEN {} ELSE {CHOOSE x \in pool : x \notin used}

LiveSessions == {gSessions[ip] : ip \in IPs} \ {Nil}

ReachableTests(held) ==
  held \cup {tests[s][id] : s \in LiveSessions, id \in TestIDs}

ReachableSessions(held) ==
  LiveSessions \cup {session[t] : t \in held}

-----------------------------------------------------------------------------
(* The operations. *)

getTestInternal(ip, id) ==
  IF gSessions[ip] = Nil THEN Nil ELSE tests[gSessions[ip]][id]

\* Faulty variant: the key of a deleted session stays.
KeepKey(ip) == gSessionKeys

\* The positions of the keys that stay, and the place of each: the number of
\* keys that stay up to it, which is what the loop counts in `i`.
keptKeys(ip) == {j \in DOMAIN gSessionKeys : gSessionKeys[j] # ip}

newPlace(ip, j) == Cardinality({k \in keptKeys(ip) : k <= j})

deleteKey(ip) ==
  [i \in 1..Cardinality(keptKeys(ip)) |->
     gSessionKeys[CHOOSE j \in keptKeys(ip) : newPlace(ip, j) = i]]

\* Faulty variant: the new test is not told its session.
initWithoutSession(t, s, id) ==
  /\ session' = [session EXCEPT ![t] = Nil]
  /\ testID' = [testID EXCEPT ![t] = id]
  /\ isDormant' = [isDormant EXCEPT ![t] = TRUE]
  /\ idle' = [idle EXCEPT ![t] = Recent]

\* The fields of a new test of session s.
initTest(t, s, id) ==
  /\ session' = [session EXCEPT ![t] = s]
  /\ testID' = [testID EXCEPT ![t] = id]
  /\ isDormant' = [isDormant EXCEPT ![t] = TRUE]
  /\ idle' = [idle EXCEPT ![t] = Recent]

\* Registers the test t, in the session of ip or in a new one.  refCount, 0
\* here, gets its first reference from the only caller.
newTestInternal(ip, id, t, held) ==
  LET isNew == gSessions[ip] = Nil
  IN \E s \in IF isNew THEN Fresh(SessionObjs, ReachableSessions(held))
                       ELSE {gSessions[ip]} :
       /\ gSessions' = [gSessions EXCEPT ![ip] = s]
       /\ gSessionKeys' = IF isNew THEN Append(gSessionKeys, ip) ELSE gSessionKeys
       /\ remoteIP' = [remoteIP EXCEPT ![s] = ip]
       /\ testCount' = [testCount EXCEPT ![s] = IF isNew THEN 1 ELSE @ + 1]
       /\ tests' = [tests EXCEPT ![s] =
                      [i \in TestIDs |-> IF i = id THEN t
                                         ELSE IF isNew THEN Nil ELSE @[i]]]
       /\ initTest(t, s, id)

\* Faulty variants: no reference is taken on a test that is found ...
getWithoutRef(ip, id, t, held) ==
  \/ /\ t = getTestInternal(ip, id)
     /\ t # Nil
     /\ UNCHANGED tableVars
  \/ /\ getTestInternal(ip, id) = Nil
     /\ t \in Fresh(TestObjs, ReachableTests(held))
     /\ newTestInternal(ip, id, t, held)
     /\ refCount' = [refCount EXCEPT ![t] = 1]

\* ... or the table is not searched.
createAlways(ip, id, t, held) ==
  /\ t \in Fresh(TestObjs, ReachableTests(held))
  /\ newTestInternal(ip, id, t, held)
  /\ refCount' = [refCount EXCEPT ![t] = 1]

\* t is the test returned: the registered one, or a new one.
createOrGetTest(ip, id, t, held) ==
  \/ /\ t = getTestInternal(ip, id)
     /\ t # Nil
     /\ refCount' = [refCount EXCEPT ![t] = @ + 1]
     /\ UNCHANGED <<structVars, isDormant, idle>>
  \/ /\ getTestInternal(ip, id) = Nil
     /\ t \in Fresh(TestObjs, ReachableTests(held))
     /\ newTestInternal(ip, id, t, held)
     /\ refCount' = [refCount EXCEPT ![t] = 1]

\* Faulty variant: the session does not count the test out.
deleteWithoutCount(t) ==
  LET s == session[t]
      last == testCount[s] = 1
  IN /\ tests' = [tests EXCEPT ![s][testID[t]] = Nil]
     /\ gSessionKeys' = IF last THEN deleteKey(remoteIP[s]) ELSE gSessionKeys
     /\ gSessions' = IF last THEN [gSessions EXCEPT ![remoteIP[s]] = Nil] ELSE gSessions
     /\ UNCHANGED <<testCount, remoteIP, session, testID>>

\* Follows the pointers of the test, as the code does: it never looks the
\* session up again by address.
deleteTestInternal(t) ==
  LET s == session[t]
      last == testCount[s] = 1
  IN /\ tests' = [tests EXCEPT ![s][testID[t]] = Nil]
     /\ testCount' = [testCount EXCEPT ![s] = @ - 1]
     /\ gSessionKeys' = IF last THEN deleteKey(remoteIP[s]) ELSE gSessionKeys
     /\ gSessions' = IF last THEN [gSessions EXCEPT ![remoteIP[s]] = Nil] ELSE gSessions
     /\ UNCHANGED <<remoteIP, session, testID>>

\* Faulty variant: the test goes with any of its users.
deleteAtOnce(t) ==
  /\ refCount' = [refCount EXCEPT ![t] = @ - 1]
  /\ deleteTestInternal(t)
  /\ UNCHANGED <<isDormant, idle>>

safeDeleteTest(t) ==
  /\ refCount' = [refCount EXCEPT ![t] = @ - 1]
  /\ IF refCount[t] = 1 THEN deleteTestInternal(t) ELSE UNCHANGED structVars
  /\ UNCHANGED <<isDormant, idle>>

-----------------------------------------------------------------------------
(* Consistency of the table, for a given set Users of references: U[t] is   *)
(* the set of users that hold one on the test t.                            *)

Registered(t) ==
  /\ gSessions[remoteIP[session[t]]] = session[t]
  /\ tests[session[t]][testID[t]] = t

\* A registered session is filed under its own address, counts its tests, and
\* has at least one (session.go:195, 205, 243-246).
SessionsCountTheirTests ==
  \A ip \in IPs : gSessions[ip] # Nil =>
    LET s == gSessions[ip]
    IN /\ remoteIP[s] = ip
       /\ testCount[s] = Cardinality({id \in TestIDs : tests[s][id] # Nil})
       /\ testCount[s] > 0

\* A registered test points back to the session and the ID it is filed under,
\* so that deleteTestInternal removes the test it is given and no other one.
TestsPointBack ==
  \A ip \in IPs, id \in TestIDs :
    LET t == getTestInternal(ip, id)
    IN t # Nil => session[t] = gSessions[ip] /\ testID[t] = id

\* gSessionKeys lists each address that has a session once, and no other one:
\* the statistics loop dereferences gSessions[k] for each key k (stats.go:183-188).
KeysMatchSessions ==
  /\ \A i, j \in DOMAIN gSessionKeys : gSessionKeys[i] = gSessionKeys[j] => i = j
  /\ {gSessionKeys[i] : i \in DOMAIN gSessionKeys} = {ip \in IPs : gSessions[ip] # Nil}

\* The reference count of a test is the number of its users.
RefCountsUsers(U) ==
  \A t \in TestObjs : refCount[t] = Cardinality(U[t])

\* A test is registered as long as, and only as long as, somebody uses it.
RegisteredIffUsed(U) ==
  \A t \in TestObjs : Registered(t) <=> U[t] # {}
=============================================================================
