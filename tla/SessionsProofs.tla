---------------------------- MODULE SessionsProofs ----------------------------
(***************************************************************************)
(* What the two operations of the session table do, proved once for every  *)
(* caller: createOrGetTest adds one user to a test and safeDeleteTest      *)
(* removes one, and both keep the table consistent.                        *)
(***************************************************************************)
EXTENDS Sessions, FiniteSetTheorems, SequenceTheorems, TLAPS

\* The invariant of the table, for the users U of the tests.
TableInv(U) ==
  /\ FieldsTypeOK
  /\ SessionsCountTheirTests
  /\ TestsPointBack
  /\ RefCountsUsers(U)
  /\ RegisteredIffUsed(U)

-----------------------------------------------------------------------------
(* Facts about allocation and about a consistent table.                     *)

LEMMA FreshIsUnused ==
  ASSUME NEW pool, NEW used, NEW x \in Fresh(pool, used)
  PROVE  x \in pool /\ x \notin used
BY DEF Fresh

\* What the table returns for a key is a test object that is registered.
LEMMA FoundIsRegistered ==
  ASSUME FieldsTypeOK, SessionsCountTheirTests, TestsPointBack,
         NEW ip \in IPs, NEW id \in TestIDs, getTestInternal(ip, id) # Nil
  PROVE  /\ getTestInternal(ip, id) \in TestObjs
         /\ Registered(getTestInternal(ip, id))
         /\ remoteIP[session[getTestInternal(ip, id)]] = ip
         /\ testID[getTestInternal(ip, id)] = id
<1> DEFINE t == getTestInternal(ip, id)
           s == gSessions[ip]
<1>1. s # Nil /\ s \in SessionObjs /\ tests[s][id] = t
  BY DEF getTestInternal, FieldsTypeOK
<1>2. t \in TestObjs
  BY <1>1 DEF FieldsTypeOK
<1>3. session[t] = s /\ testID[t] = id
  BY DEF TestsPointBack
<1>4. remoteIP[s] = ip
  BY <1>1 DEF SessionsCountTheirTests
<1> QED
  BY <1>1, <1>2, <1>3, <1>4 DEF Registered

\* A registered test is what the table returns for its key.
LEMMA RegisteredIsFound ==
  ASSUME FieldsTypeOK, NEW t \in TestObjs, Registered(t)
  PROVE  /\ remoteIP[session[t]] \in IPs
         /\ testID[t] \in TestIDs
         /\ gSessions[remoteIP[session[t]]] = session[t]
         /\ getTestInternal(remoteIP[session[t]], testID[t]) = t
BY PoolsAssumption DEF FieldsTypeOK, getTestInternal, Registered

\* No session is filed under two addresses.
LEMMA OneAddressPerSession ==
  ASSUME SessionsCountTheirTests, NEW ip \in IPs, NEW ip2 \in IPs,
         gSessions[ip] # Nil, gSessions[ip] = gSessions[ip2]
  PROVE  ip = ip2
BY DEF SessionsCountTheirTests

\* Registering depends on the structure of the table alone.
LEMMA SameStructureSameTable ==
  ASSUME UNCHANGED structVars
  PROVE  /\ SessionsCountTheirTests => SessionsCountTheirTests'
         /\ TestsPointBack => TestsPointBack'
         /\ \A t \in TestObjs : Registered(t)' <=> Registered(t)
         /\ \A ip \in IPs, id \in TestIDs :
              getTestInternal(ip, id)' = getTestInternal(ip, id)
BY DEF structVars, SessionsCountTheirTests, TestsPointBack, Registered, getTestInternal

\* The count of users follows one user more, or one user less, on one test.
LEMMA CountOneMore ==
  ASSUME NEW S, NEW U \in [TestObjs -> SUBSET S], NEW t \in TestObjs, NEW u,
         \A x \in TestObjs : IsFiniteSet(U[x]), u \notin U[t],
         FieldsTypeOK, RefCountsUsers(U), refCount' = [refCount EXCEPT ![t] = @ + 1]
  PROVE  RefCountsUsers([U EXCEPT ![t] = @ \cup {u}])'
<1>1. Cardinality(U[t] \cup {u}) = Cardinality(U[t]) + 1
  BY FS_AddElement
<1>2. refCount \in [TestObjs -> Int]
  BY DEF FieldsTypeOK
<1> QED
  BY <1>1, <1>2 DEF RefCountsUsers

LEMMA CountOneLess ==
  ASSUME NEW S, NEW U \in [TestObjs -> SUBSET S], NEW t \in TestObjs, NEW u \in U[t],
         \A x \in TestObjs : IsFiniteSet(U[x]),
         FieldsTypeOK, RefCountsUsers(U), refCount' = [refCount EXCEPT ![t] = @ - 1]
  PROVE  RefCountsUsers([U EXCEPT ![t] = @ \ {u}])'
<1>1. Cardinality(U[t] \ {u}) = Cardinality(U[t]) - 1
  BY FS_RemoveElement
<1>2. refCount \in [TestObjs -> Int]
  BY DEF FieldsTypeOK
<1> QED
  BY <1>1, <1>2 DEF RefCountsUsers

-----------------------------------------------------------------------------
(* createOrGetTest.                                                         *)

\* The fields of the new objects have values of their types.
LEMMA NewTestTypes ==
  ASSUME NEW ip \in IPs, NEW id \in TestIDs, NEW t \in TestObjs, NEW held,
         FieldsTypeOK, newTestInternal(ip, id, t, held),
         refCount' = [refCount EXCEPT ![t] = 1]
  PROVE  FieldsTypeOK'
<1> DEFINE isNew == gSessions[ip] = Nil
<1>1. PICK s \in IF isNew THEN Fresh(SessionObjs, ReachableSessions(held))
                           ELSE {gSessions[ip]} :
         /\ gSessions' = [gSessions EXCEPT ![ip] = s]
         /\ remoteIP' = [remoteIP EXCEPT ![s] = ip]
         /\ testCount' = [testCount EXCEPT ![s] = IF isNew THEN 1 ELSE @ + 1]
         /\ tests' = [tests EXCEPT ![s] =
                        [i \in TestIDs |-> IF i = id THEN t
                                           ELSE IF isNew THEN Nil ELSE @[i]]]
         /\ session' = [session EXCEPT ![t] = s]
         /\ testID' = [testID EXCEPT ![t] = id]
         /\ isDormant' = [isDormant EXCEPT ![t] = TRUE]
         /\ idle' = [idle EXCEPT ![t] = Recent]
  BY DEF newTestInternal, initTest
<1>2. s \in SessionObjs
  BY FreshIsUnused DEF FieldsTypeOK
<1>3. [i \in TestIDs |-> IF i = id THEN t ELSE IF isNew THEN Nil ELSE tests[s][i]]
        \in [TestIDs -> TestObjs \cup {Nil}]
  BY <1>2 DEF FieldsTypeOK
<1>4. tests' \in [SessionObjs -> [TestIDs -> TestObjs \cup {Nil}]]
  BY <1>1, <1>2, <1>3 DEF FieldsTypeOK
<1>5. /\ gSessions' \in [IPs -> SessionObjs \cup {Nil}]
      /\ remoteIP' \in [SessionObjs -> IPs]
      /\ testCount' \in [SessionObjs -> Int]
  BY <1>1, <1>2 DEF FieldsTypeOK
<1>6. /\ session' \in [TestObjs -> SessionObjs]
      /\ testID' \in [TestObjs -> TestIDs]
      /\ refCount' \in [TestObjs -> Int]
      /\ isDormant' \in [TestObjs -> BOOLEAN]
      /\ idle' \in [TestObjs -> {Recent, Quiet, Expired}]
  BY <1>1, <1>2 DEF FieldsTypeOK
<1> QED
  BY <1>4, <1>5, <1>6 DEF FieldsTypeOK

\* A new test is filed under its key, and nothing else is.
LEMMA NewTestStructure ==
  ASSUME NEW ip \in IPs, NEW id \in TestIDs, NEW t \in TestObjs, NEW held,
         FieldsTypeOK, SessionsCountTheirTests, TestsPointBack,
         getTestInternal(ip, id) = Nil,
         t \notin ReachableTests(held),
         newTestInternal(ip, id, t, held)
  PROVE  /\ SessionsCountTheirTests'
         /\ TestsPointBack'
         /\ ~Registered(t)
         /\ \A x \in TestObjs : Registered(x)' <=> (x = t \/ Registered(x))
         /\ getTestInternal(ip, id)' = t
         /\ \A ip2 \in IPs, id2 \in TestIDs :
              <<ip2, id2>> # <<ip, id>> =>
                getTestInternal(ip2, id2)' = getTestInternal(ip2, id2)
<1> DEFINE isNew == gSessions[ip] = Nil
<1>1. PICK s \in IF isNew THEN Fresh(SessionObjs, ReachableSessions(held))
                           ELSE {gSessions[ip]} :
         /\ gSessions' = [gSessions EXCEPT ![ip] = s]
         /\ remoteIP' = [remoteIP EXCEPT ![s] = ip]
         /\ testCount' = [testCount EXCEPT ![s] = IF isNew THEN 1 ELSE @ + 1]
         /\ tests' = [tests EXCEPT ![s] =
                        [i \in TestIDs |-> IF i = id THEN t
                                           ELSE IF isNew THEN Nil ELSE @[i]]]
         /\ session' = [session EXCEPT ![t] = s]
         /\ testID' = [testID EXCEPT ![t] = id]
  BY DEF newTestInternal, initTest
<1>2. s \in SessionObjs /\ s # Nil
  BY FreshIsUnused, PoolsAssumption DEF FieldsTypeOK
<1>3. \A ip2 \in IPs : ip2 # ip => gSessions[ip2] # s /\ gSessions'[ip2] = gSessions[ip2]
  <2> SUFFICES ASSUME NEW ip2 \in IPs, ip2 # ip
               PROVE  gSessions[ip2] # s /\ gSessions'[ip2] = gSessions[ip2]
    OBVIOUS
  <2>1. gSessions'[ip2] = gSessions[ip2]
    BY <1>1 DEF FieldsTypeOK
  <2>2. CASE isNew
    <3>1. s \notin LiveSessions
      BY <2>2, <1>1, FreshIsUnused DEF ReachableSessions
    <3> QED
      BY <2>1, <3>1, <1>2 DEF LiveSessions
  <2>3. CASE ~isNew
    BY <2>1, <2>3, <1>1, <1>2, OneAddressPerSession
  <2> QED
    BY <2>2, <2>3
<1>4. gSessions'[ip] = s /\ remoteIP'[s] = ip /\ session'[t] = s /\ testID'[t] = id
  BY <1>1, <1>2 DEF FieldsTypeOK
<1>5. /\ \A x \in SessionObjs : x # s => tests'[x] = tests[x] /\ testCount'[x] = testCount[x]
                                          /\ remoteIP'[x] = remoteIP[x]
      /\ \A x \in TestObjs : x # t => session'[x] = session[x] /\ testID'[x] = testID[x]
  BY <1>1, <1>2 DEF FieldsTypeOK
<1>6. /\ tests'[s][id] = t
      /\ \A i \in TestIDs : i # id => tests'[s][i] = IF isNew THEN Nil ELSE tests[s][i]
  BY <1>1, <1>2 DEF FieldsTypeOK
<1>7. ~isNew => gSessions[ip] = s /\ tests[s][id] = Nil
  BY <1>1 DEF getTestInternal
<1>8. t # Nil
  BY PoolsAssumption
<1>9. \A ip2 \in IPs, id2 \in TestIDs : gSessions[ip2] # Nil => tests[gSessions[ip2]][id2] # t
  BY DEF ReachableTests, LiveSessions
<1>10. getTestInternal(ip, id)' = t
  BY <1>2, <1>4, <1>6 DEF getTestInternal
<1>11. \A ip2 \in IPs, id2 \in TestIDs :
         <<ip2, id2>> # <<ip, id>> => getTestInternal(ip2, id2)' = getTestInternal(ip2, id2)
  <2> SUFFICES ASSUME NEW ip2 \in IPs, NEW id2 \in TestIDs, <<ip2, id2>> # <<ip, id>>
               PROVE  getTestInternal(ip2, id2)' = getTestInternal(ip2, id2)
    OBVIOUS
  <2>1. CASE ip2 = ip
    BY <2>1, <1>2, <1>4, <1>6, <1>7 DEF getTestInternal
  <2>2. CASE ip2 # ip
    BY <2>2, <1>3, <1>5 DEF getTestInternal, FieldsTypeOK
  <2> QED
    BY <2>1, <2>2
<1>12. ~Registered(t)
  BY <1>9, RegisteredIsFound, <1>8 DEF getTestInternal
<1>13. SessionsCountTheirTests'
  <2> DEFINE ids(x) == {i \in TestIDs : tests[x][i] # Nil}
  <2>1. /\ testCount'[s] = Cardinality(ids(s)')
        /\ testCount'[s] > 0
    <3>1. CASE isNew
      <4>1. ids(s)' = {id}
        BY <3>1, <1>6, <1>8
      <4>2. testCount'[s] = 1
        BY <3>1, <1>1, <1>2 DEF FieldsTypeOK
      <4>3. Cardinality({id}) = 1
        BY FS_Singleton
      <4> QED
        BY <4>1, <4>2, <4>3
    <3>2. CASE ~isNew
      <4>1. ids(s)' = ids(s) \cup {id} /\ id \notin ids(s)
        BY <3>2, <1>6, <1>7, <1>8
      <4>2. IsFiniteSet(ids(s))
        BY FS_Subset, PoolsAssumption
      <4>3. testCount'[s] = testCount[s] + 1
        BY <3>2, <1>1, <1>2 DEF FieldsTypeOK
      <4>4. testCount[s] = Cardinality(ids(s)) /\ testCount[s] > 0
        BY <3>2, <1>7 DEF SessionsCountTheirTests
      <4>5. Cardinality(ids(s)') = Cardinality(ids(s)) + 1
        BY <4>1, <4>2, FS_AddElement
      <4>6. Cardinality(ids(s)) \in Nat
        BY <4>2, FS_CardinalityType
      <4> QED
        BY <4>3, <4>4, <4>5, <4>6
    <3> QED
      BY <3>1, <3>2
  <2>2. ASSUME NEW ip2 \in IPs, ip2 # ip, gSessions'[ip2] # Nil
        PROVE  LET x == gSessions'[ip2]
               IN /\ remoteIP'[x] = ip2
                  /\ testCount'[x] = Cardinality({i \in TestIDs : tests'[x][i] # Nil})
                  /\ testCount'[x] > 0
    <3> DEFINE x == gSessions[ip2]
    <3>1. x \in SessionObjs /\ x # s /\ gSessions'[ip2] = x /\ x # Nil
      BY <2>2, <1>3 DEF FieldsTypeOK
    <3>2. tests'[x] = tests[x] /\ testCount'[x] = testCount[x] /\ remoteIP'[x] = remoteIP[x]
      BY <3>1, <1>5
    <3>3. remoteIP[x] = ip2 /\ testCount[x] = Cardinality(ids(x)) /\ testCount[x] > 0
      BY <3>1 DEF SessionsCountTheirTests
    <3> QED
      BY <3>1, <3>2, <3>3
  <2> HIDE DEF ids
  <2>3. testCount'[s] = Cardinality({i \in TestIDs : tests'[s][i] # Nil})
    BY <2>1 DEF ids
  <2> QED
    BY <2>1, <2>2, <2>3, <1>4 DEF SessionsCountTheirTests
<1>14. TestsPointBack'
  <2> SUFFICES ASSUME NEW ip2 \in IPs, NEW id2 \in TestIDs, getTestInternal(ip2, id2)' # Nil
               PROVE  /\ session'[getTestInternal(ip2, id2)'] = gSessions'[ip2]
                      /\ testID'[getTestInternal(ip2, id2)'] = id2
    BY DEF TestsPointBack
  <2>1. CASE <<ip2, id2>> = <<ip, id>>
    BY <2>1, <1>4, <1>10
  <2>2. CASE <<ip2, id2>> # <<ip, id>>
    <3> DEFINE x == getTestInternal(ip2, id2)
    <3>1. getTestInternal(ip2, id2)' = x /\ x # Nil
      BY <2>2, <1>11
    <3>2. x \in TestObjs /\ session[x] = gSessions[ip2] /\ testID[x] = id2
      BY <3>1, FoundIsRegistered DEF TestsPointBack
    <3>3. x # t /\ gSessions[ip2] # Nil
      BY <3>1, <1>9 DEF getTestInternal
    <3>4. gSessions'[ip2] = gSessions[ip2]
      BY <3>3, <1>3, <1>4, <1>7
    <3> QED
      BY <3>1, <3>2, <3>3, <3>4, <1>5
  <2> QED
    BY <2>1, <2>2
<1>15. \A x \in TestObjs : Registered(x)' <=> (x = t \/ Registered(x))
  <2>1. Registered(t)'
    BY <1>4, <1>6 DEF Registered
  <2>2. ASSUME NEW x \in TestObjs, x # t
        PROVE  Registered(x)' <=> Registered(x)
    <3>1. session'[x] = session[x] /\ testID'[x] = testID[x]
      BY <2>2, <1>5
    <3>2. session[x] \in SessionObjs /\ testID[x] \in TestIDs /\ session[x] # Nil
      BY PoolsAssumption DEF FieldsTypeOK
    <3>3. CASE session[x] = s
      <4>1. Registered(x)' <=> tests'[s][testID[x]] = x
        BY <3>1, <3>3, <1>4 DEF Registered
      <4>2. CASE isNew
        <5>1. ~Registered(x)
          <6>1. s \notin LiveSessions
            BY <4>2, <1>1, FreshIsUnused DEF ReachableSessions
          <6> QED
            BY <6>1, <3>2, <3>3, RegisteredIsFound DEF LiveSessions
        <5>2. tests'[s][testID[x]] # x
          BY <2>2, <3>2, <4>2, <1>6, PoolsAssumption
        <5> QED
          BY <4>1, <5>1, <5>2
      <4>3. CASE ~isNew
        <5>1. Registered(x) <=> tests[s][testID[x]] = x
          BY <3>3, <4>3, <1>2, <1>7 DEF Registered, SessionsCountTheirTests
        <5>2. tests'[s][testID[x]] = x <=> tests[s][testID[x]] = x
          BY <2>2, <3>2, <4>3, <1>6, <1>7, PoolsAssumption
        <5> QED
          BY <4>1, <5>1, <5>2
      <4> QED
        BY <4>2, <4>3
    <3>4. CASE session[x] # s
      <4>1. remoteIP'[session[x]] = remoteIP[session[x]]
            /\ tests'[session[x]] = tests[session[x]]
        BY <3>2, <3>4, <1>5
      <4>2. gSessions'[remoteIP[session[x]]] = session[x]
              <=> gSessions[remoteIP[session[x]]] = session[x]
        <5>1. remoteIP[session[x]] \in IPs
          BY <3>2 DEF FieldsTypeOK
        <5>2. CASE remoteIP[session[x]] = ip
          BY <5>2, <3>2, <3>4, <1>4, <1>7
        <5>3. CASE remoteIP[session[x]] # ip
          BY <5>1, <5>3, <1>3
        <5> QED
          BY <5>2, <5>3
      <4> QED
        BY <3>1, <4>1, <4>2 DEF Registered
    <3> QED
      BY <3>3, <3>4
  <2> QED
    BY <2>1, <2>2
<1> QED
  BY <1>10, <1>11, <1>12, <1>13, <1>14, <1>15

\* createOrGetTest returns the test registered under the key, registering it
\* first if need be; it adds one user to it and changes no other entry.
LEMMA AcquireKeepsTable ==
  ASSUME NEW ip \in IPs, NEW id \in TestIDs, NEW t \in TestObjs, NEW held,
         NEW S, NEW U \in [TestObjs -> SUBSET S], NEW u \in S,
         \A x \in TestObjs : IsFiniteSet(U[x]),
         TableInv(U), u \notin U[t],
         createOrGetTest(ip, id, t, held)
  PROVE  /\ TableInv([U EXCEPT ![t] = @ \cup {u}])'
         /\ getTestInternal(ip, id) = t \/ (getTestInternal(ip, id) = Nil /\ U[t] = {})
         /\ getTestInternal(ip, id)' = t
         /\ \A ip2 \in IPs, id2 \in TestIDs :
              <<ip2, id2>> # <<ip, id>> =>
                getTestInternal(ip2, id2)' = getTestInternal(ip2, id2)
<1> DEFINE V == [U EXCEPT ![t] = @ \cup {u}]
<1> USE DEF TableInv
<1>1. V[t] = U[t] \cup {u} /\ \A x \in TestObjs : x # t => V[x] = U[x]
  OBVIOUS
<1>2. CASE getTestInternal(ip, id) # Nil
  <2>1. /\ t = getTestInternal(ip, id)
        /\ refCount' = [refCount EXCEPT ![t] = @ + 1]
        /\ UNCHANGED <<structVars, isDormant, idle>>
    BY <1>2 DEF createOrGetTest
  <2>2. FieldsTypeOK'
    BY <2>1 DEF FieldsTypeOK, structVars
  <2>3. Registered(t)
    BY <1>2, <2>1, FoundIsRegistered
  <2>4. RegisteredIffUsed(V)'
    BY <1>1, <2>1, <2>3, SameStructureSameTable DEF RegisteredIffUsed
  <2>5. RefCountsUsers(V)'
    BY <2>1, CountOneMore
  <2>6. SessionsCountTheirTests' /\ TestsPointBack'
    BY <2>1, SameStructureSameTable
  <2>7. \A ip2 \in IPs, id2 \in TestIDs :
          getTestInternal(ip2, id2)' = getTestInternal(ip2, id2)
    BY <2>1, SameStructureSameTable
  <2> QED
    BY <2>1, <2>2, <2>4, <2>5, <2>6, <2>7
<1>3. CASE getTestInternal(ip, id) = Nil
  <2>1. /\ t \in Fresh(TestObjs, ReachableTests(held))
        /\ newTestInternal(ip, id, t, held)
        /\ refCount' = [refCount EXCEPT ![t] = 1]
    BY <1>3 DEF createOrGetTest
  <2>2. t \notin ReachableTests(held)
    BY <2>1, FreshIsUnused
  <2>3. /\ SessionsCountTheirTests'
        /\ TestsPointBack'
        /\ ~Registered(t)
        /\ \A x \in TestObjs : Registered(x)' <=> (x = t \/ Registered(x))
        /\ getTestInternal(ip, id)' = t
        /\ \A ip2 \in IPs, id2 \in TestIDs :
             <<ip2, id2>> # <<ip, id>> =>
               getTestInternal(ip2, id2)' = getTestInternal(ip2, id2)
    BY <1>3, <2>1, <2>2, NewTestStructure
  <2>4. FieldsTypeOK'
    BY <2>1, NewTestTypes
  <2>5. U[t] = {}
    BY <2>3 DEF RegisteredIffUsed
  <2>6. RegisteredIffUsed(V)'
    BY <1>1, <2>3 DEF RegisteredIffUsed
  <2>7. RefCountsUsers(V)'
    <3>1. V[t] = {u}
      BY <1>1, <2>5
    <3>2. Cardinality({u}) = 1
      BY FS_Singleton
    <3> QED
      BY <1>1, <2>1, <3>1, <3>2 DEF RefCountsUsers, FieldsTypeOK
  <2> QED
    BY <1>3, <2>3, <2>4, <2>5, <2>6, <2>7
<1> QED
  BY <1>2, <1>3

-----------------------------------------------------------------------------
(* safeDeleteTest.                                                          *)

\* The last reference takes the test out of the table, and nothing else; the
\* session goes with its last test.
LEMMA DeleteTestStructure ==
  ASSUME NEW t \in TestObjs,
         FieldsTypeOK, SessionsCountTheirTests, TestsPointBack,
         Registered(t), deleteTestInternal(t)
  PROVE  /\ SessionsCountTheirTests'
         /\ TestsPointBack'
         /\ \A x \in TestObjs : Registered(x)' <=> (x # t /\ Registered(x))
         /\ \A ip \in IPs, id \in TestIDs :
              getTestInternal(ip, id)' = IF getTestInternal(ip, id) = t THEN Nil
                                         ELSE getTestInternal(ip, id)
<1> DEFINE s == session[t]
           i0 == testID[t]
           ip0 == remoteIP[s]
           ids(x) == {i \in TestIDs : tests[x][i] # Nil}
           last == testCount[s] = 1
<1>1. /\ s \in SessionObjs /\ i0 \in TestIDs /\ ip0 \in IPs
      /\ gSessions[ip0] = s /\ s # Nil /\ t # Nil /\ tests[s][i0] = t
  BY PoolsAssumption DEF FieldsTypeOK, Registered
<1>2. /\ tests' = [tests EXCEPT ![s][i0] = Nil]
      /\ testCount' = [testCount EXCEPT ![s] = @ - 1]
      /\ gSessions' = IF last THEN [gSessions EXCEPT ![ip0] = Nil] ELSE gSessions
      /\ UNCHANGED <<remoteIP, session, testID>>
  BY DEF deleteTestInternal
<1>3. /\ tests'[s][i0] = Nil
      /\ \A i \in TestIDs : i # i0 => tests'[s][i] = tests[s][i]
      /\ \A x \in SessionObjs : x # s => tests'[x] = tests[x] /\ testCount'[x] = testCount[x]
      /\ testCount'[s] = testCount[s] - 1
  BY <1>1, <1>2 DEF FieldsTypeOK
<1>4. /\ \A ip \in IPs : ip # ip0 => gSessions'[ip] = gSessions[ip]
      /\ gSessions'[ip0] = IF last THEN Nil ELSE s
  BY <1>1, <1>2 DEF FieldsTypeOK
<1>5. \A ip \in IPs : gSessions[ip] = s => ip = ip0
  BY <1>1, OneAddressPerSession
<1>6. /\ ids(s)' = ids(s) \ {i0} /\ i0 \in ids(s)
      /\ IsFiniteSet(ids(s))
      /\ Cardinality(ids(s)') = Cardinality(ids(s)) - 1
      /\ testCount[s] = Cardinality(ids(s)) /\ Cardinality(ids(s)) \in Nat
  <2>1. ids(s)' = ids(s) \ {i0} /\ i0 \in ids(s)
    BY <1>1, <1>2, <1>3
  <2>2. IsFiniteSet(ids(s))
    BY FS_Subset, PoolsAssumption
  <2>3. Cardinality(ids(s) \ {i0}) = Cardinality(ids(s)) - 1
    BY <2>1, <2>2, FS_RemoveElement
  <2>4. testCount[s] = Cardinality(ids(s))
    BY <1>1 DEF SessionsCountTheirTests
  <2> QED
    BY <2>1, <2>2, <2>3, <2>4, FS_CardinalityType
<1>7. last => \A i \in TestIDs : i # i0 => tests[s][i] = Nil
  <2> SUFFICES ASSUME last, NEW i \in TestIDs, i # i0, tests[s][i] # Nil
               PROVE  FALSE
    OBVIOUS
  <2>1. PICK j : ids(s) = {j}
    BY <1>6, FS_Singleton
  <2>2. i \in ids(s)
    OBVIOUS
  <2> QED
    BY <1>6, <2>1, <2>2
<1>8. SessionsCountTheirTests'
  <2> SUFFICES ASSUME NEW ip \in IPs, gSessions'[ip] # Nil
               PROVE  LET x == gSessions'[ip]
                      IN /\ remoteIP'[x] = ip
                         /\ testCount'[x] = Cardinality({i \in TestIDs : tests'[x][i] # Nil})
                         /\ testCount'[x] > 0
    BY DEF SessionsCountTheirTests
  <2>1. CASE ip = ip0
    <3>1. ~last /\ gSessions'[ip] = s
      BY <2>1, <1>4
    <3>2. testCount[s] > 0 /\ remoteIP'[s] = ip
      BY <2>1, <1>1, <1>2 DEF SessionsCountTheirTests
    <3>3. testCount'[s] = Cardinality({i \in TestIDs : tests'[s][i] # Nil})
      BY <1>3, <1>6
    <3> QED
      BY <3>1, <3>2, <3>3, <1>3, <1>6
  <2>2. CASE ip # ip0
    <3> DEFINE x == gSessions[ip]
    <3>1. x \in SessionObjs /\ x # s /\ gSessions'[ip] = x /\ x # Nil
      BY <2>2, <1>4, <1>5 DEF FieldsTypeOK
    <3>2. tests'[x] = tests[x] /\ testCount'[x] = testCount[x] /\ remoteIP'[x] = remoteIP[x]
      BY <3>1, <1>2, <1>3
    <3>3. remoteIP[x] = ip /\ testCount[x] = Cardinality(ids(x)) /\ testCount[x] > 0
      BY <3>1 DEF SessionsCountTheirTests
    <3> QED
      BY <3>1, <3>2, <3>3
  <2> QED
    BY <2>1, <2>2
<1>9. \A ip \in IPs, id \in TestIDs :
        getTestInternal(ip, id)' = IF getTestInternal(ip, id) = t THEN Nil
                                   ELSE getTestInternal(ip, id)
  <2> SUFFICES ASSUME NEW ip \in IPs, NEW id \in TestIDs
               PROVE  getTestInternal(ip, id)' = IF getTestInternal(ip, id) = t THEN Nil
                                                 ELSE getTestInternal(ip, id)
    OBVIOUS
  <2>1. CASE ip = ip0
    <3>1. getTestInternal(ip, id) = tests[s][id]
      BY <2>1, <1>1 DEF getTestInternal
    <3>2. tests[s][id] = t => id = i0
      BY <3>1, <1>1 DEF TestsPointBack
    <3>3. getTestInternal(ip, id)' = IF last THEN Nil ELSE tests'[s][id]
      BY <2>1, <1>1, <1>4 DEF getTestInternal
    <3>4. CASE id = i0
      BY <3>1, <3>3, <3>4, <1>1, <1>3
    <3>5. CASE id # i0
      BY <3>1, <3>2, <3>3, <3>5, <1>3, <1>7
    <3> QED
      BY <3>4, <3>5
  <2>2. CASE ip # ip0
    <3>1. gSessions'[ip] = gSessions[ip] /\ gSessions[ip] # s
      BY <2>2, <1>4, <1>5
    <3>2. getTestInternal(ip, id)' = getTestInternal(ip, id)
      BY <3>1, <1>3 DEF getTestInternal, FieldsTypeOK
    <3>3. getTestInternal(ip, id) # t
      BY <3>1, <1>1 DEF TestsPointBack
    <3> QED
      BY <3>2, <3>3
  <2> QED
    BY <2>1, <2>2
<1>10. TestsPointBack'
  <2> SUFFICES ASSUME NEW ip \in IPs, NEW id \in TestIDs, getTestInternal(ip, id)' # Nil
               PROVE  /\ session'[getTestInternal(ip, id)'] = gSessions'[ip]
                      /\ testID'[getTestInternal(ip, id)'] = id
    BY DEF TestsPointBack
  <2>1. getTestInternal(ip, id)' = getTestInternal(ip, id)
    BY <1>9
  <2>2. gSessions'[ip] = gSessions[ip]
    BY <1>1, <1>4 DEF getTestInternal
  <2> QED
    BY <2>1, <2>2, <1>2 DEF TestsPointBack
<1>11. \A x \in TestObjs : Registered(x)' <=> (x # t /\ Registered(x))
  <2> SUFFICES ASSUME NEW x \in TestObjs
               PROVE  Registered(x)' <=> (x # t /\ Registered(x))
    OBVIOUS
  <2>1. session[x] \in SessionObjs /\ testID[x] \in TestIDs /\ x # Nil /\ session[x] # Nil
    BY PoolsAssumption DEF FieldsTypeOK
  <2>2. Registered(x)' <=> /\ gSessions'[remoteIP[session[x]]] = session[x]
                           /\ tests'[session[x]][testID[x]] = x
    BY <1>2 DEF Registered
  <2>3. CASE x = t
    BY <2>1, <2>2, <2>3, <1>3
  <2>4. CASE x # t /\ session[x] = s
    <3>1. Registered(x) <=> tests[s][testID[x]] = x
      BY <2>4, <1>1 DEF Registered
    <3>2. CASE last
      BY <2>1, <2>2, <2>4, <3>1, <3>2, <1>1, <1>4, <1>7
    <3>3. CASE ~last
      <4>1. tests'[s][testID[x]] = x <=> tests[s][testID[x]] = x
        BY <2>1, <2>4, <1>1, <1>3
      <4> QED
        BY <4>1, <2>2, <2>4, <3>1, <3>3, <1>1, <1>4
    <3> QED
      BY <3>2, <3>3
  <2>5. CASE x # t /\ session[x] # s
    <3>1. tests'[session[x]] = tests[session[x]]
      BY <2>1, <2>5, <1>3
    <3>2. remoteIP[session[x]] \in IPs
      BY <2>1 DEF FieldsTypeOK
    <3>3. gSessions'[remoteIP[session[x]]] = session[x]
            <=> gSessions[remoteIP[session[x]]] = session[x]
      BY <2>1, <2>5, <3>2, <1>1, <1>4
    <3> QED
      BY <2>2, <2>5, <3>1, <3>3 DEF Registered
  <2> QED
    BY <2>3, <2>4, <2>5
<1> QED
  BY <1>8, <1>9, <1>10, <1>11

LEMMA DeleteTestTypes ==
  ASSUME NEW t \in TestObjs, FieldsTypeOK, safeDeleteTest(t)
  PROVE  FieldsTypeOK'
<1>1. CASE refCount[t] = 1
  <2>1. session[t] \in SessionObjs /\ testID[t] \in TestIDs
    BY DEF FieldsTypeOK
  <2>2. tests' = [tests EXCEPT ![session[t]][testID[t]] = Nil]
    BY <1>1 DEF safeDeleteTest, deleteTestInternal
  <2>3. tests' \in [SessionObjs -> [TestIDs -> TestObjs \cup {Nil}]]
    BY <2>1, <2>2 DEF FieldsTypeOK
  <2>4. testCount' \in [SessionObjs -> Int]
    BY <1>1, <2>1 DEF FieldsTypeOK, safeDeleteTest, deleteTestInternal
  <2>5. gSessions' \in [IPs -> SessionObjs \cup {Nil}]
    <3>1. \/ gSessions' = gSessions
          \/ gSessions' = [gSessions EXCEPT ![remoteIP[session[t]]] = Nil]
      BY <1>1 DEF safeDeleteTest, deleteTestInternal
    <3> QED
      BY <3>1 DEF FieldsTypeOK
  <2>6. /\ UNCHANGED <<remoteIP, session, testID, isDormant, idle>>
        /\ refCount' \in [TestObjs -> Int]
    BY <1>1 DEF FieldsTypeOK, safeDeleteTest, deleteTestInternal
  <2> QED
    BY <2>3, <2>4, <2>5, <2>6 DEF FieldsTypeOK
<1>2. CASE refCount[t] # 1
  BY <1>2 DEF FieldsTypeOK, safeDeleteTest, structVars
<1> QED
  BY <1>1, <1>2

\* safeDeleteTest takes one user off a test, and the last user takes the test off
\* the table; no other entry changes.
LEMMA ReleaseKeepsTable ==
  ASSUME NEW t \in TestObjs, NEW S, NEW U \in [TestObjs -> SUBSET S], NEW u \in U[t],
         \A x \in TestObjs : IsFiniteSet(U[x]),
         TableInv(U), safeDeleteTest(t)
  PROVE  /\ TableInv([U EXCEPT ![t] = @ \ {u}])'
         /\ \A ip \in IPs, id \in TestIDs :
              getTestInternal(ip, id)' =
                IF getTestInternal(ip, id) = t /\ U[t] = {u} THEN Nil
                ELSE getTestInternal(ip, id)
<1> DEFINE V == [U EXCEPT ![t] = @ \ {u}]
<1> USE DEF TableInv
<1>1. V[t] = U[t] \ {u} /\ \A x \in TestObjs : x # t => V[x] = U[x]
  OBVIOUS
<1>2. Registered(t)
  BY DEF RegisteredIffUsed
<1>3. refCount[t] = 1 <=> U[t] = {u}
  BY FS_Singleton DEF RefCountsUsers
<1>4. FieldsTypeOK'
  BY DeleteTestTypes
<1>5. RefCountsUsers(V)'
  BY CountOneLess DEF safeDeleteTest
<1>6. CASE refCount[t] = 1
  <2>1. deleteTestInternal(t)
    BY <1>6 DEF safeDeleteTest
  <2>2. /\ SessionsCountTheirTests'
        /\ TestsPointBack'
        /\ \A x \in TestObjs : Registered(x)' <=> (x # t /\ Registered(x))
        /\ \A ip \in IPs, id \in TestIDs :
             getTestInternal(ip, id)' = IF getTestInternal(ip, id) = t THEN Nil
                                        ELSE getTestInternal(ip, id)
    BY <1>2, <2>1, DeleteTestStructure
  <2>3. RegisteredIffUsed(V)'
    BY <1>1, <1>3, <1>6, <2>2 DEF RegisteredIffUsed
  <2> QED
    BY <1>3, <1>4, <1>5, <1>6, <2>2, <2>3
<1>7. CASE refCount[t] # 1
  <2>1. UNCHANGED structVars
    BY <1>7 DEF safeDeleteTest
  <2>2. V[t] # {}
    BY <1>1, <1>3, <1>7
  <2>3. RegisteredIffUsed(V)'
    BY <1>1, <1>2, <2>1, <2>2, SameStructureSameTable DEF RegisteredIffUsed
  <2> QED
    BY <1>3, <1>4, <1>5, <1>7, <2>1, <2>3, SameStructureSameTable
<1> QED
  BY <1>6, <1>7
-----------------------------------------------------------------------------
(* gSessionKeys, the addresses in order of arrival.                         *)

KeysInv == gSessionKeys \in Seq(IPs) /\ KeysMatchSessions

LEMMA KeysAreFinite ==
  ASSUME gSessionKeys \in Seq(IPs), NEW ip \in IPs
  PROVE  /\ Len(gSessionKeys) \in Nat
         /\ gSessionKeys \in [1..Len(gSessionKeys) -> IPs]
         /\ DOMAIN gSessionKeys = 1..Len(gSessionKeys)
         /\ keptKeys(ip) \subseteq 1..Len(gSessionKeys)
         /\ IsFiniteSet(keptKeys(ip))
         /\ Cardinality(keptKeys(ip)) \in Nat
<1>1. /\ Len(gSessionKeys) \in Nat
      /\ gSessionKeys \in [1..Len(gSessionKeys) -> IPs]
      /\ DOMAIN gSessionKeys = 1..Len(gSessionKeys)
  BY LenProperties
<1>2. keptKeys(ip) \subseteq 1..Len(gSessionKeys)
  BY <1>1 DEF keptKeys
<1>3. IsFiniteSet(1..Len(gSessionKeys))
  BY <1>1, FS_Interval
<1>4. IsFiniteSet(keptKeys(ip))
  BY <1>2, <1>3, FS_Subset
<1> QED
  BY <1>1, <1>2, <1>4, FS_CardinalityType

\* No two keys that stay get the same place ...
LEMMA PlacesDiffer ==
  ASSUME gSessionKeys \in Seq(IPs), NEW ip \in IPs,
         NEW j \in keptKeys(ip), NEW k \in keptKeys(ip), j # k
  PROVE  newPlace(ip, j) # newPlace(ip, k)
<1> DEFINE K == keptKeys(ip)
           upTo(n) == {m \in K : m <= n}
<1>1. K \subseteq Int /\ IsFiniteSet(K)
  BY KeysAreFinite
<1>2. ASSUME NEW a \in K, NEW b \in K, a < b
      PROVE  Cardinality(upTo(a)) # Cardinality(upTo(b))
  <2>1. upTo(a) \in SUBSET upTo(b) /\ b \in upTo(b) /\ b \notin upTo(a)
    BY <1>1, <1>2
  <2>2. upTo(b) \in SUBSET K
    OBVIOUS
  <2>3. IsFiniteSet(upTo(b))
    BY <1>1, <2>2, FS_Subset
  <2>4. upTo(a) # upTo(b)
    BY <2>1
  <2> HIDE DEF upTo
  <2> QED
    BY <2>1, <2>3, <2>4, FS_Subset
<1>3. j < k \/ k < j
  BY <1>1
<1> QED
  BY <1>2, <1>3 DEF newPlace

\* ... so that every place is taken.
LEMMA PlacesAreTaken ==
  ASSUME gSessionKeys \in Seq(IPs), NEW ip \in IPs
  PROVE  /\ \A j \in keptKeys(ip) : newPlace(ip, j) \in 1..Cardinality(keptKeys(ip))
         /\ \A i \in 1..Cardinality(keptKeys(ip)) :
              \E j \in keptKeys(ip) : newPlace(ip, j) = i
<1> DEFINE K == keptKeys(ip)
           n == Cardinality(K)
           f == [j \in K |-> newPlace(ip, j)]
<1>1. IsFiniteSet(K) /\ n \in Nat /\ K \subseteq Int
  BY KeysAreFinite
<1>2. ASSUME NEW j \in K
      PROVE  newPlace(ip, j) \in 1..n
  <2> DEFINE up == {m \in K : m <= j}
  <2>1. up \in SUBSET K /\ up # {}
    BY <1>1
  <2> HIDE DEF up
  <2>2. IsFiniteSet(up) /\ Cardinality(up) <= n
    BY <1>1, <2>1, FS_Subset
  <2>3. Cardinality(up) \in Nat /\ Cardinality(up) # 0
    BY <2>1, <2>2, FS_CardinalityType, FS_EmptySet
  <2>4. Cardinality(up) \in 1..n
    BY <1>1, <2>2, <2>3
  <2> QED
    BY <2>4 DEF newPlace, up
<1>3. ASSUME NEW i \in 1..n, \A j \in K : newPlace(ip, j) # i
      PROVE  FALSE
  <2> DEFINE T == (1..n) \ {i}
  <2>1. IsFiniteSet(T) /\ Cardinality(T) = n - 1
    <3>1. IsFiniteSet(1..n) /\ Cardinality(1..n) = n
      BY <1>1, FS_Interval
    <3> QED
      BY <3>1, FS_RemoveElement
  <2>2. f \in [K -> T]
    BY <1>2, <1>3
  <2>3. Cardinality(T) < Cardinality(K)
    BY <1>1, <2>1
  <2> HIDE DEF f, T
  <2>4. PICK x, y \in K : x # y /\ f[x] = f[y]
    BY <1>1, <2>1, <2>2, <2>3, FS_PigeonHole
  <2> QED
    BY <2>4, PlacesDiffer DEF f
<1> QED
  BY <1>2, <1>3

\* deleteKey leaves the other keys, and each of them once.
LEMMA DeleteKeyRemoves ==
  ASSUME gSessionKeys \in Seq(IPs), NEW ip \in IPs,
         \A i, j \in DOMAIN gSessionKeys : gSessionKeys[i] = gSessionKeys[j] => i = j
  PROVE  LET ks == deleteKey(ip)
         IN /\ ks \in Seq(IPs)
            /\ \A i, j \in DOMAIN ks : ks[i] = ks[j] => i = j
            /\ {ks[i] : i \in DOMAIN ks} =
                 {gSessionKeys[j] : j \in DOMAIN gSessionKeys} \ {ip}
<1> DEFINE K == keptKeys(ip)
           n == Cardinality(K)
           from(i) == CHOOSE j \in K : newPlace(ip, j) = i
           ks == deleteKey(ip)
<1>1. /\ n \in Nat
      /\ K \subseteq DOMAIN gSessionKeys
      /\ \A j \in DOMAIN gSessionKeys : gSessionKeys[j] \in IPs
  BY KeysAreFinite
<1>2. \A i \in 1..n : from(i) \in K /\ newPlace(ip, from(i)) = i
  BY PlacesAreTaken
<1>3. ks = [i \in 1..n |-> gSessionKeys[from(i)]]
  BY DEF deleteKey
<1> HIDE DEF from, ks, n
<1>4. DOMAIN ks = 1..n /\ \A i \in 1..n : ks[i] = gSessionKeys[from(i)]
  BY <1>3
<1>5. ks \in Seq(IPs)
  <2>1. ks \in [1..n -> IPs]
    BY <1>1, <1>2, <1>3
  <2> QED
    BY <1>1, <2>1, SeqDef
<1>6. ASSUME NEW i \in 1..n, NEW j \in 1..n, ks[i] = ks[j]
      PROVE  i = j
  <2>1. gSessionKeys[from(i)] = gSessionKeys[from(j)]
    BY <1>4, <1>6
  <2>2. from(i) = from(j)
    BY <1>1, <1>2, <2>1
  <2> QED
    BY <1>2, <2>2
<1>7. {ks[i] : i \in 1..n} = {gSessionKeys[j] : j \in DOMAIN gSessionKeys} \ {ip}
  <2>1. ASSUME NEW i \in 1..n
        PROVE  ks[i] \in {gSessionKeys[j] : j \in DOMAIN gSessionKeys} \ {ip}
    BY <1>1, <1>2, <1>4 DEF keptKeys
  <2>2. ASSUME NEW j \in DOMAIN gSessionKeys, gSessionKeys[j] # ip
        PROVE  \E i \in 1..n : ks[i] = gSessionKeys[j]
    <3>1. j \in K
      BY <2>2 DEF keptKeys
    <3>2. newPlace(ip, j) \in 1..n
      BY <3>1, PlacesAreTaken DEF n
    <3>3. from(newPlace(ip, j)) = j
      BY <1>2, <3>1, <3>2, PlacesDiffer
    <3> QED
      BY <1>4, <3>2, <3>3
  <2> QED
    BY <2>1, <2>2
<1> QED
  BY <1>4, <1>5, <1>6, <1>7 DEF ks

\* A session that is registered adds its address to the keys.
LEMMA AcquireKeepsKeys ==
  ASSUME NEW ip \in IPs, NEW id \in TestIDs, NEW t, NEW held,
         FieldsTypeOK, KeysInv, createOrGetTest(ip, id, t, held)
  PROVE  KeysInv'
<1>1. CASE UNCHANGED structVars
  BY <1>1 DEF KeysInv, KeysMatchSessions, structVars
<1>2. CASE newTestInternal(ip, id, t, held)
  <2>1. PICK s \in IF gSessions[ip] = Nil THEN Fresh(SessionObjs, ReachableSessions(held))
                                          ELSE {gSessions[ip]} :
           /\ gSessions' = [gSessions EXCEPT ![ip] = s]
           /\ gSessionKeys' = IF gSessions[ip] = Nil THEN Append(gSessionKeys, ip)
                              ELSE gSessionKeys
    BY <1>2 DEF newTestInternal
  <2>2. s # Nil
    BY <2>1, FreshIsUnused, PoolsAssumption
  <2>3. CASE gSessions[ip] # Nil
    <3>1. gSessions' = gSessions /\ gSessionKeys' = gSessionKeys
      BY <2>1, <2>3 DEF FieldsTypeOK
    <3> QED
      BY <3>1 DEF KeysInv, KeysMatchSessions
  <2>4. CASE gSessions[ip] = Nil
    <3> DEFINE ks == gSessionKeys
               n == Len(ks)
    <3>1. /\ n \in Nat /\ DOMAIN ks = 1..n /\ ks \in [1..n -> IPs]
      BY KeysAreFinite DEF KeysInv
    <3>2. /\ ks' = Append(ks, ip) /\ ks' \in Seq(IPs) /\ Len(ks') = n + 1
          /\ \A i \in 1..n : ks'[i] = ks[i]
          /\ ks'[n + 1] = ip
      BY <2>1, <2>4, AppendProperties DEF KeysInv
    <3>3. DOMAIN ks' = 1..(n + 1)
      BY <3>2, LenProperties
    <3>4. \A i \in 1..n : ks[i] # ip
      BY <2>4, <3>1 DEF KeysInv, KeysMatchSessions
    <3>5. \A i, j \in 1..n : ks[i] = ks[j] => i = j
      BY <3>1 DEF KeysInv, KeysMatchSessions
    <3>6. \A i, j \in 1..(n + 1) : ks'[i] = ks'[j] => i = j
      BY <3>1, <3>2, <3>4, <3>5
    <3>7. {ks'[i] : i \in 1..(n + 1)} = {ks[i] : i \in 1..n} \cup {ip}
      BY <3>1, <3>2
    <3>8. {ks[i] : i \in 1..n} = {x \in IPs : gSessions[x] # Nil}
      BY <3>1 DEF KeysInv, KeysMatchSessions
    <3>9. \A x \in IPs : gSessions'[x] = IF x = ip THEN s ELSE gSessions[x]
      BY <2>1 DEF FieldsTypeOK
    <3>10. {x \in IPs : gSessions'[x] # Nil} = {x \in IPs : gSessions[x] # Nil} \cup {ip}
      BY <2>2, <3>9
    <3> QED
      BY <3>2, <3>3, <3>6, <3>7, <3>8, <3>10 DEF KeysInv, KeysMatchSessions
  <2> QED
    BY <2>3, <2>4
<1> QED
  BY <1>1, <1>2 DEF createOrGetTest

\* A session that goes takes its address from the keys.
LEMMA ReleaseKeepsKeys ==
  ASSUME NEW t \in TestObjs, FieldsTypeOK, KeysInv, Registered(t), safeDeleteTest(t)
  PROVE  KeysInv'
<1> DEFINE s == session[t]
           ip == remoteIP[s]
<1>1. CASE UNCHANGED <<gSessions, gSessionKeys>>
  BY <1>1 DEF KeysInv, KeysMatchSessions
<1>2. CASE /\ gSessionKeys' = deleteKey(ip)
           /\ gSessions' = [gSessions EXCEPT ![ip] = Nil]
  <2>1. ip \in IPs
    BY DEF FieldsTypeOK
  <2>2. /\ gSessionKeys' \in Seq(IPs)
        /\ \A i, j \in DOMAIN gSessionKeys' : gSessionKeys'[i] = gSessionKeys'[j] => i = j
        /\ {gSessionKeys'[i] : i \in DOMAIN gSessionKeys'} =
             {gSessionKeys[j] : j \in DOMAIN gSessionKeys} \ {ip}
    <3>1. \A i, j \in DOMAIN gSessionKeys : gSessionKeys[i] = gSessionKeys[j] => i = j
      BY DEF KeysInv, KeysMatchSessions
    <3>2. gSessionKeys \in Seq(IPs)
      BY DEF KeysInv
    <3> HIDE DEF ip
    <3>3. LET ks == deleteKey(ip)
          IN /\ ks \in Seq(IPs)
             /\ \A i, j \in DOMAIN ks : ks[i] = ks[j] => i = j
             /\ {ks[i] : i \in DOMAIN ks} =
                  {gSessionKeys[j] : j \in DOMAIN gSessionKeys} \ {ip}
      BY <2>1, <3>1, <3>2, DeleteKeyRemoves
    <3> QED
      BY <1>2, <3>3
  <2>3. \A x \in IPs : gSessions'[x] = IF x = ip THEN Nil ELSE gSessions[x]
    BY <1>2 DEF FieldsTypeOK
  <2>4. {x \in IPs : gSessions'[x] # Nil} = {x \in IPs : gSessions[x] # Nil} \ {ip}
    BY <2>3
  <2> QED
    BY <2>2, <2>4 DEF KeysInv, KeysMatchSessions
<1> QED
  BY <1>1, <1>2 DEF safeDeleteTest, deleteTestInternal, structVars

=============================================================================
