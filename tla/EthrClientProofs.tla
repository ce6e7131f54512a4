--------------------------- MODULE EthrClientProofs ---------------------------
(***************************************************************************)
(* Proofs about EthrClient, for any lengths and numbers of iterations that *)
(* a uint32 holds (99 times over, as the percentiles are calculated in     *)
(* that width).                                                            *)
(***************************************************************************)
EXTENDS EthrClient, TLAPS

\* What the command line asks for is not truncated.
Fits ==
  /\ \A l \in Lengths : l < Wrap
  /\ \A i \in Iterations : i * 99 < Word

-----------------------------------------------------------------------------
(* From the command line to the runner.                                     *)

Checked   == {"resolve", "run", "running"}
Addressed == {"run", "running"}

StartupInv ==
  /\ StartupTypeOK
  /\ phase \in {"validate"} \cup Checked =>
       bufferSize > 0 /\ rttCount > 0 /\ rttCount * 99 < Word
  /\ phase \in Checked =>
       IF mode = "external" THEN ValidExternalTest ELSE ValidClientTest
  /\ phase \in {"version", "test", "params", "validate"} \cup Checked => mode # "server" \/ phase = "version"
  /\ phase \in {"test", "params", "validate", "resolve"} => gIPVersion = asked
  /\ phase \in Addressed => (asked = "v4" /\ byName => gIPVersion = "v4")
  /\ phase = "running" => runner = RunnerOf

LEMMA WidthIsUint32 == \A n \in Nat : Uint32(n) \in 0 .. Wrap - 1
BY StartupAssumption DEF Uint32

LEMMA FitsUint32 == \A n \in Nat : n < Wrap => Uint32(n) = n
BY StartupAssumption DEF Uint32

LEMMA StartupInvInit == StartupInit => StartupInv
<1> SUFFICES ASSUME StartupInit PROVE StartupInv
    OBVIOUS
<1>1. phase = "args" /\ 0 \in 0 .. Wrap - 1
      BY StartupAssumption DEF StartupInit
<1>2. StartupTypeOK
      BY <1>1 DEF StartupInit, StartupTypeOK, Families, Protocols, TestTypes
<1> QED  BY <1>1, <1>2 DEF StartupInv, Checked, Addressed

LEMMA ParseModeStep == ASSUME StartupInv, ParseMode PROVE StartupInv'
BY DEF ParseMode, Continue, address, test, StartupInv, StartupTypeOK, Checked, Addressed

LEMMA ParseVersionStep == ASSUME StartupInv, ParseVersion PROVE StartupInv'
BY DEF ParseVersion, Continue, test, StartupInv, StartupTypeOK, Checked, Addressed,
       Families

LEMMA ParseTestStep == ASSUME StartupInv, ParseTest PROVE StartupInv'
BY DEF ParseTest, address, StartupInv, StartupTypeOK, Checked, Addressed, TestTypes

LEMMA ParseParamsStep == ASSUME Fits, StartupInv, ParseParams PROVE StartupInv'
<1>1. PICK l \in Lengths \cup {DefaultBufferLen}, i \in Iterations, r \in BOOLEAN :
        /\ Continue(l # 0 /\ i > 0, "validate", "usage")
        /\ bufferSize' = IF testType = "Pps" THEN 1 ELSE Uint32(l)
        /\ rttCount' = Uint32(i)
        /\ reverse' = r
      BY DEF ParseParams
<1>2. l \in Nat /\ l < Wrap
      BY StartupAssumption DEF DefaultBufferLen, Fits
<1>3. i \in Int /\ i * 99 < Wrap
      BY StartupAssumption, SameWord DEF Fits
<1>4. bufferSize' \in 0 .. Wrap - 1 /\ (l # 0 => bufferSize' > 0)
      BY <1>1, <1>2, FitsUint32, StartupAssumption
<1>5. rttCount' \in 0 .. Wrap - 1
      BY <1>1, <1>3, StartupAssumption DEF Uint32
<1>6. i > 0 => rttCount' = i
  <2>1. i > 0 => i \in Nat /\ i < Wrap
        BY <1>3, StartupAssumption
  <2> QED  BY <1>1, <2>1, FitsUint32
<1>7. UNCHANGED <<mode, asked, gIPVersion, byName, protocol, testType, runner>>
      BY DEF ParseParams, address
<1>8. phase' = IF l # 0 /\ i > 0 THEN "validate" ELSE "usage"
      BY <1>1 DEF Continue
<1>9. phase = "params"
      BY DEF ParseParams
<1> QED
    BY <1>1, <1>3, <1>4, <1>5, <1>6, <1>7, <1>8, <1>9, SameWord
       DEF StartupInv, StartupTypeOK, Checked, Addressed

LEMMA ValidateStep == ASSUME StartupInv, Validate PROVE StartupInv'
<1>1. UNCHANGED <<mode, address, test, runner>> /\ phase = "validate"
      BY DEF Validate
<1>2. phase' = IF IF mode = "external" THEN ValidExternalTest ELSE ValidClientTest
               THEN "resolve" ELSE "usage"
      BY DEF Validate, Continue
<1>3. (ValidExternalTest <=> ValidExternalTest') /\ (ValidClientTest <=> ValidClientTest')
      BY <1>1 DEF ValidExternalTest, ValidClientTest, test
<1> HIDE DEF ValidExternalTest, ValidClientTest
<1> QED  BY <1>1, <1>2, <1>3
         DEF StartupInv, StartupTypeOK, Checked, Addressed, address, test

\* The answer taken is among those that may be.
LEMMA FirstIsTaken ==
  ASSUME NEW ks \in SUBSET (1 .. 2), ks # {}
  PROVE  First(ks) \in ks
<1>1. \E k \in ks : \A m \in ks : k <= m
  <2>1. CASE 1 \in ks
        BY <2>1
  <2>2. CASE 1 \notin ks
    <3>1. \A m \in ks : m = 2
          BY <2>2
    <3>2. 2 \in ks
          BY <3>1
    <3> QED  BY <3>1, <3>2
  <2> QED  BY <2>1, <2>2
<1> QED  BY <1>1 DEF First

LEMMA AnswersOfDestination ==
  ASSUME NEW d \in Destinations
  PROVE  /\ d.literal \in BOOLEAN
         /\ DOMAIN d.answers \subseteq 1 .. 2
         /\ \A k \in DOMAIN d.answers : d.answers[k] \in Families
<1>1. CASE d \in {[literal |-> TRUE, answers |-> <<f>>] : f \in Families}
  <2>1. PICK f \in Families : d = [literal |-> TRUE, answers |-> <<f>>]
        BY <1>1
  <2>2. d.literal = TRUE /\ d.answers = <<f>>
        BY <2>1
  <2>3. DOMAIN d.answers = 1 .. 1 /\ d.answers[1] \in Families
        BY <2>2
  <2>4. 1 .. 1 \subseteq 1 .. 2 /\ \A k \in 1 .. 1 : k = 1
        OBVIOUS
  <2> QED  BY <2>2, <2>3, <2>4
<1>2. CASE d \in {[literal |-> FALSE, answers |-> a] :
                    a \in {<<>>, <<"v4">>, <<"v6">>, <<"v4", "v6">>, <<"v6", "v4">>}}
  <2>1. PICK a \in {<<>>, <<"v4">>, <<"v6">>, <<"v4", "v6">>, <<"v6", "v4">>} :
          d = [literal |-> FALSE, answers |-> a]
        BY <1>2
  <2>2. DOMAIN a \subseteq 1 .. 2 /\ \A k \in DOMAIN a : a[k] \in Families
    <3>1. CASE a = <<>>
          BY <3>1
    <3>2. CASE a = <<"v4">>
          BY <3>2 DEF Families
    <3>3. CASE a = <<"v6">>
          BY <3>3 DEF Families
    <3>4. CASE a = <<"v4", "v6">>
          BY <3>4 DEF Families
    <3>5. CASE a = <<"v6", "v4">>
          BY <3>5 DEF Families
    <3> QED  BY <3>1, <3>2, <3>3, <3>4, <3>5
  <2> QED  BY <2>1, <2>2
<1> QED  BY <1>1, <1>2 DEF Destinations

LEMMA ResolveStep == ASSUME StartupInv, Resolve PROVE StartupInv'
<1>1. PICK d \in Destinations, port \in BOOLEAN :
        /\ byName' = ~d.literal
        /\ IF Taken(d) = {} THEN phase' = "failed" /\ UNCHANGED gIPVersion
           ELSE /\ gIPVersion' = d.answers[First(Taken(d))]
                /\ Continue(IF mode = "external" THEN protocol = "ICMP" \/ port ELSE ~port,
                            "run", "failed")
      BY DEF Resolve
<1>2. phase = "resolve" /\ UNCHANGED <<mode, asked, test, runner>>
      BY DEF Resolve
<1>3. Taken(d) # {} => First(Taken(d)) \in Taken(d)
  <2>1. Taken(d) \in SUBSET (1 .. 2)
        BY AnswersOfDestination DEF Taken
  <2> QED  BY <2>1, FirstIsTaken
<1>4. Taken(d) # {} => gIPVersion' \in Families
      BY <1>1, <1>3, AnswersOfDestination DEF Taken
<1>5. Taken(d) # {} /\ asked = "v4" /\ ~d.literal => gIPVersion' = "v4"
  <2>1. gIPVersion = asked
        BY <1>2 DEF StartupInv
  <2> QED  BY <1>1, <1>3, <2>1 DEF Taken, Takes, To4
<1>6. byName' \in BOOLEAN
      BY <1>1, AnswersOfDestination
<1>7. (ValidExternalTest <=> ValidExternalTest') /\ (ValidClientTest <=> ValidClientTest')
      BY <1>2 DEF ValidExternalTest, ValidClientTest, test
<1>8. phase' = "failed" \/ (Taken(d) # {} /\ phase' = "run")
      BY <1>1 DEF Continue
<1>9. gIPVersion' \in Families \cup {"any"}
      BY <1>1, <1>4 DEF StartupInv, StartupTypeOK
<1> HIDE DEF ValidExternalTest, ValidClientTest
<1>10. StartupTypeOK'
      BY <1>2, <1>6, <1>8, <1>9 DEF StartupInv, StartupTypeOK, test
<1> QED  BY <1>1, <1>2, <1>5, <1>7, <1>8, <1>10
         DEF StartupInv, Checked, Addressed, test

LEMMA RunTestStep == ASSUME StartupInv, RunTest PROVE StartupInv'
<1>1. /\ phase = "run" /\ phase' = "running" /\ runner' = RunnerOf
      /\ UNCHANGED <<mode, address, test>>
      BY DEF RunTest
<1>2. RunnerOf \in Runners \cup {NoRunner}
      BY DEF RunnerOf, Runners
<1>3. (ValidExternalTest <=> ValidExternalTest') /\ (ValidClientTest <=> ValidClientTest')
      BY <1>1 DEF ValidExternalTest, ValidClientTest, test
<1>4. RunnerOf' = RunnerOf
      BY <1>1 DEF RunnerOf, test
<1> HIDE DEF ValidExternalTest, ValidClientTest, RunnerOf
<1>5. StartupTypeOK'
      BY <1>1, <1>2 DEF StartupInv, StartupTypeOK, address, test
<1> QED  BY <1>1, <1>3, <1>4, <1>5 DEF StartupInv, Checked, Addressed, address, test

LEMMA StartupInvStep ==
  ASSUME Fits, StartupInv, StartupNext \/ UNCHANGED startupVars
  PROVE  StartupInv'
<1>1. CASE UNCHANGED startupVars
  <2>1. /\ ValidExternalTest <=> ValidExternalTest'
        /\ ValidClientTest <=> ValidClientTest'
        BY <1>1 DEF startupVars, test, ValidExternalTest, ValidClientTest
  <2>2. RunnerOf' = RunnerOf
        BY <1>1 DEF startupVars, test, RunnerOf
  <2> HIDE DEF ValidExternalTest, ValidClientTest, RunnerOf
  <2>3. StartupTypeOK'
        BY <1>1 DEF startupVars, address, test, StartupInv, StartupTypeOK
  <2> QED  BY <1>1, <2>1, <2>2, <2>3
           DEF startupVars, address, test, StartupInv, Checked, Addressed
<1> QED
    BY <1>1, ParseModeStep, ParseVersionStep, ParseTestStep, ParseParamsStep, ValidateStep,
       ResolveStep, RunTestStep DEF StartupNext

\* What the two validations let through is in the dispatch table of runTest.
LEMMA InvImpliesAccepted == StartupInv => AcceptedTestsRun
<1> SUFFICES ASSUME StartupInv, phase = "running" PROVE AcceptedTestsRun
    BY DEF AcceptedTestsRun
<1>1. /\ runner = RunnerOf /\ rttCount > 0 /\ bufferSize > 0
      /\ asked = "v4" /\ byName => gIPVersion = "v4"
      /\ mode \in {"client", "external"}
      /\ IF mode = "external" THEN ValidExternalTest ELSE ValidClientTest
      /\ protocol \in Protocols /\ testType \in TestTypes /\ bufferSize \in Int
      BY DEF StartupInv, StartupTypeOK, Checked, Addressed
<1>2. CASE mode = "external"
      BY <1>1, <1>2
         DEF AcceptedTestsRun, ValidExternalTest, RunnerOf, NoRunner, EthrOnly, Protocols, TestTypes
<1>3. CASE mode = "client"
  <2>1. runner # NoRunner
        BY <1>1, <1>3 DEF ValidClientTest, RunnerOf, NoRunner, Protocols, TestTypes
  <2>2. bufferSize \in 1 .. (IF protocol = "UDP" THEN Kilo64 ELSE Giga2)
    <3>1. ValidClientTest
          BY <1>1, <1>3
    <3>2. CASE protocol = "UDP"
          BY <1>1, <3>1, <3>2, StartupAssumption DEF ValidClientTest
    <3>3. CASE protocol = "TCP"
          BY <1>1, <3>1, <3>3, StartupAssumption DEF ValidClientTest
    <3>4. protocol # "ICMP"
          BY <3>1 DEF ValidClientTest
    <3> QED  BY <1>1, <3>2, <3>3, <3>4 DEF Protocols
  <2> QED  BY <1>1, <1>3, <2>1, <2>2 DEF AcceptedTestsRun
<1> QED  BY <1>1, <1>2, <1>3

-----------------------------------------------------------------------------
(* Percentiles.                                                             *)

\* No product wraps around.
LEMMA IndexIs ==
  ASSUME NEW n \in Nat, n > 0, n * 99 < Word
  PROVE  LET m == rttCountFixed(n)
         IN /\ m \in Nat /\ m >= 2 /\ (n = 1 => m = 2) /\ (n # 1 => m = n)
            /\ Index(n, 5000) = (m * 50) \div 100 - 1
            /\ Index(n, 9000) = (m * 90) \div 100 - 1
            /\ Index(n, 9500) = (m * 95) \div 100 - 1
            /\ Index(n, 9900) = (m * 99) \div 100 - 1
            /\ Index(n, 9990) = (m * 9990 - 10000) \div 10000
            /\ Index(n, 9999) = (m * 9999 - 10000) \div 10000
<1> DEFINE m == rttCountFixed(n)
<1>1. m \in Nat /\ m >= 2 /\ (n = 1 => m = 2) /\ (n # 1 => m = n)
      BY DEF rttCountFixed
<1>2. m * 99 < Word /\ Word \in Nat
      BY <1>1, WordAssumption
<1>3. \A x \in Nat : x < Word => x % Word = x
      BY <1>2
<1>4. \A p \in Percents :
        Index(n, p) = IF p \in Whole THEN ((m * (p \div 100)) % Word) \div 100 - 1
                      ELSE (m * p - 10000) \div 10000
      BY DEF Index
<1> HIDE DEF m
<1>5. Index(n, 5000) = (m * 50) \div 100 - 1
  <2>1. m * 50 \in Nat /\ m * 50 < Word /\ 5000 \div 100 = 50
        BY <1>1, <1>2
  <2> QED  BY <1>3, <1>4, <2>1 DEF Whole, Percents
<1>6. Index(n, 9000) = (m * 90) \div 100 - 1
  <2>1. m * 90 \in Nat /\ m * 90 < Word /\ 9000 \div 100 = 90
        BY <1>1, <1>2
  <2> QED  BY <1>3, <1>4, <2>1 DEF Whole, Percents
<1>7. Index(n, 9500) = (m * 95) \div 100 - 1
  <2>1. m * 95 \in Nat /\ m * 95 < Word /\ 9500 \div 100 = 95
        BY <1>1, <1>2
  <2> QED  BY <1>3, <1>4, <2>1 DEF Whole, Percents
<1>8. Index(n, 9900) = (m * 99) \div 100 - 1
  <2>1. m * 99 \in Nat /\ m * 99 < Word /\ 9900 \div 100 = 99
        BY <1>1, <1>2
  <2> QED  BY <1>3, <1>4, <2>1 DEF Whole, Percents
<1>9. /\ Index(n, 9990) = (m * 9990 - 10000) \div 10000
      /\ Index(n, 9999) = (m * 9999 - 10000) \div 10000
      BY <1>4 DEF Whole, Fractional, Percents
<1> QED  BY <1>1, <1>5, <1>6, <1>7, <1>8, <1>9 DEF m

\* For every number of round trips.
LEMMA PercentilesAreRight ==
  ASSUME NEW n \in Nat, n > 0, n * 99 < Word
  PROVE  PercentilesRight(Percentiles(n), n)
<1> DEFINE row == Percentiles(n)
<1> DEFINE m == rttCountFixed(n)
<1>0. \A p \in Percents : row[p] = Index(n, p)
      BY DEF Percentiles
<1> HIDE DEF row, m
<1>1. /\ m \in Nat /\ m >= 2 /\ (n = 1 => m = 2) /\ (n # 1 => m = n)
      /\ row[5000] = (m * 50) \div 100 - 1
      /\ row[9000] = (m * 90) \div 100 - 1
      /\ row[9500] = (m * 95) \div 100 - 1
      /\ row[9900] = (m * 99) \div 100 - 1
      /\ row[9990] = (m * 9990 - 10000) \div 10000
      /\ row[9999] = (m * 9999 - 10000) \div 10000
      BY <1>0, IndexIs DEF Percents, Whole, Fractional, m
<1>2. /\ 0 <= row[5000] /\ row[5000] <= row[9000] /\ row[9000] <= row[9500]
      /\ row[9500] <= row[9900] /\ row[9900] <= row[9990] /\ row[9990] <= row[9999]
      /\ row[9999] <= n - 1
      BY <1>1
<1>3. \A p \in {5000, 9000, 9500, 9900, 9990, 9999} : row[p] \in Int
      BY <1>1
<1>4. \A p \in {5000, 9000, 9500, 9900, 9990, 9999} : row[p] \in 0 .. n - 1
      BY <1>2, <1>3
<1>5. \A p, q \in {5000, 9000, 9500, 9900, 9990, 9999} : p <= q => row[p] <= row[q]
      BY <1>2, <1>3
<1>6. /\ row[5000] + 1 \in {(n * 5000 + 9999) \div 10000 - 1, (n * 5000 + 9999) \div 10000}
      /\ row[9000] + 1 \in {(n * 9000 + 9999) \div 10000 - 1, (n * 9000 + 9999) \div 10000}
      /\ row[9500] + 1 \in {(n * 9500 + 9999) \div 10000 - 1, (n * 9500 + 9999) \div 10000}
      BY <1>1
<1>7. /\ row[9900] + 1 \in {(n * 9900 + 9999) \div 10000 - 1, (n * 9900 + 9999) \div 10000}
      /\ row[9990] + 1 \in {(n * 9990 + 9999) \div 10000 - 1, (n * 9990 + 9999) \div 10000}
      /\ row[9999] + 1 \in {(n * 9999 + 9999) \div 10000 - 1, (n * 9999 + 9999) \div 10000}
      BY <1>1
<1>8. ASSUME NEW p \in Percents, NEW q \in Percents, p <= q
      PROVE  /\ row[p] \in 0 .. n - 1 /\ row[p] <= row[q]
             /\ row[p] + 1 \in {(n * p + 9999) \div 10000 - 1, (n * p + 9999) \div 10000}
  <2>1. /\ p \in {5000, 9000, 9500, 9900, 9990, 9999}
        /\ q \in {5000, 9000, 9500, 9900, 9990, 9999}
        BY DEF Percents, Whole, Fractional
  <2>2. row[p] <= row[q]
        BY <1>5, <1>8, <2>1
  <2>3. row[p] \in 0 .. n - 1
        BY <1>4, <2>1
  <2>4. row[p] + 1 \in {(n * p + 9999) \div 10000 - 1, (n * p + 9999) \div 10000}
        BY <1>6, <1>7, <2>1
  <2> QED  BY <2>2, <2>3, <2>4
<1>9. \A p \in Percents : p <= p
      BY DEF Percents, Whole, Fractional
<1>10. PercentilesRight(row, n)
      BY <1>8, <1>9 DEF PercentilesRight
<1> QED  BY <1>10 DEF row

-----------------------------------------------------------------------------
(* The latency test.  As long as the connection is up the two sides are in  *)
(* step: the server is at most the end of a round behind the client.        *)

\* The server has n samples, or will when it gets the buffer that is on its way.
Resting(n) ==
  \/ spc = "time" /\ samples = n - 1 /\ toServer = 1
  \/ spc \in {"calc", "first"} /\ toServer = 0

\* Both sides wait for the network.
Travelling(n) ==
  \/ rtts = 0 /\ toClient = 0 /\ spc = "time" /\ samples = n - 1 /\ toServer = 2
  \/ rtts = 0 /\ toClient = 0 /\ spc \in {"calc", "first"} /\ toServer = 1
  \/ rtts > 0 /\ toClient = 0 /\ spc = "time" /\ samples = rtts - 1 /\ toServer = 1
  \/ toClient = 0 /\ spc = "reply" /\ samples = rtts /\ toServer = 0
  \/ toClient = 1 /\ spc = "time" /\ samples = rtts /\ toServer = 0

InStep(n) ==
  \/ cpc = "write" /\ rtts = 0 /\ toClient = 0 /\ Resting(n)
  \/ cpc = "write" /\ rtts > 0 /\ toClient = 0 /\ spc = "time" /\ samples = rtts - 1 /\ toServer = 0
  \/ cpc = "read" /\ Travelling(n)
  \/ cpc = "extra" /\ toClient = 0 /\ spc = "time" /\ samples = n - 1 /\ toServer = 0
  \/ cpc \in {"calc", "gap", "ended"} /\ toClient = 0 /\ Resting(n)

Places(n) ==
  /\ cpc \in {"off", "write", "read", "extra", "calc", "gap", "lost", "ended"}
  /\ spc \in {"off", "first", "reply", "time", "calc", "gone"}
  /\ rtts \in 0 .. n /\ samples \in 0 .. n
  /\ toServer \in 0 .. 2 /\ toClient \in 0 .. 1
  /\ up \in BOOLEAN /\ isDone \in BOOLEAN
  /\ cpc \in {"write", "read"} => rtts < n
  /\ spc \in {"reply", "time"} => samples < n
  /\ cpc = "off" => toServer = 0 /\ toClient = 0 /\ rtts = 0 /\ samples = 0 /\ ~up
  /\ up => InStep(n)

Rows(n) ==
  clientRow \in {NoRow, Percentiles(n)} /\ serverRow \in {NoRow, Percentiles(n)}

LEMMA MeasureStep ==
  ASSUME NEW n \in Nat, n > 0, Places(n), Measure(n)
  PROVE  Places(n)'
<1> USE DEF Places, InStep
<1>1. CASE ClientStarts
  <2>1. /\ cpc = "off" /\ toServer = 0 /\ toClient = 0 /\ rtts = 0 /\ samples = 0 /\ ~up
        /\ UNCHANGED <<rtts, samples, toServer, toClient, isDone>>
        BY <1>1 DEF ClientStarts
  <2>2. CASE cpc' = "write" /\ spc' = "first" /\ up' = TRUE
        BY <2>1, <2>2 DEF Resting
  <2>3. CASE cpc' = "ended" /\ UNCHANGED <<spc, up>>
        BY <2>1, <2>3
  <2> QED  BY <1>1, <2>2, <2>3 DEF ClientStarts
<1>2. CASE ClientWrites
      BY <1>2 DEF ClientWrites, Sends, server, Resting, Travelling
<1>3. CASE ClientReads(n)
  <2>1. /\ cpc = "read" /\ toClient = 1 /\ toClient' = 0 /\ rtts' = rtts + 1 /\ rtts < n
        /\ cpc' = (IF rtts + 1 < n THEN "write" ELSE "extra")
        /\ UNCHANGED <<spc, samples, toServer, up, isDone>>
        BY <1>3 DEF ClientReads, Receives, server
  <2>2. up => spc = "time" /\ samples = rtts /\ toServer = 0
        BY <2>1 DEF Travelling
  <2>3. up' => InStep(n)'
        BY <2>1, <2>2
  <2> QED  BY <2>1, <2>3
<1>4. CASE ClientWritesExtra
      BY <1>4 DEF ClientWritesExtra, Sends, server, Resting
<1>5. CASE ClientCalculates(n)
      BY <1>5 DEF ClientCalculates, server, Resting
<1>6. CASE NextRound
      BY <1>6 DEF NextRound, server, Resting
<1>7. CASE ClientFails
      BY <1>7 DEF ClientFails, server
<1> QED  BY <1>1, <1>2, <1>3, <1>4, <1>5, <1>6, <1>7 DEF Measure

LEMMA EchoStep ==
  ASSUME NEW n \in Nat, n > 0, Places(n), Echo(n)
  PROVE  Places(n)'
<1> USE DEF Places, InStep, Resting, Travelling
<1>1. CASE ServerReceivesFirst
      BY <1>1 DEF ServerReceivesFirst, Receives, client
<1>2. CASE ServerReplies
      BY <1>2 DEF ServerReplies, Sends, client
<1>3. CASE ServerTimes(n)
      BY <1>3 DEF ServerTimes, Receives, client
<1>4. CASE ServerCalculates(n)
      BY <1>4 DEF ServerCalculates, client
<1>5. CASE ServerFails
      BY <1>5 DEF ServerFails, client
<1> QED  BY <1>1, <1>2, <1>3, <1>4, <1>5 DEF Echo

LEMMA PlacesStep ==
  ASSUME NEW n \in Nat, n > 0, Places(n), LatencyNext(n)
  PROVE  Places(n)'
<1>1. Measure(n) \/ Echo(n) => Places(n)'
      BY MeasureStep, EchoStep
<1>2. CASE Break
      BY <1>2 DEF Break, client, server, Places
<1>3. CASE Close
      BY <1>3 DEF Close, client, server, Places, InStep, Resting, Travelling
<1>4. CASE Exit
      BY <1>4 DEF Exit, server, Places
<1> QED  BY <1>1, <1>2, <1>3, <1>4 DEF LatencyNext

\* Only the two calculations print.
LEMMA RowsStep ==
  ASSUME NEW n \in Nat, Rows(n), LatencyNext(n)
  PROVE  Rows(n)'
<1> USE DEF Rows
<1>1. CASE ClientCalculates(n)
      BY <1>1 DEF ClientCalculates, server
<1>2. CASE ServerCalculates(n)
      BY <1>2 DEF ServerCalculates, client
<1>3. CASE UNCHANGED <<clientRow, serverRow>>
      BY <1>3
<1>4. Measure(n) => ClientCalculates(n) \/ UNCHANGED <<clientRow, serverRow>>
      BY DEF Measure, ClientStarts, ClientWrites, ClientReads, ClientWritesExtra, NextRound,
             ClientFails, server
<1>5. Echo(n) => ServerCalculates(n) \/ UNCHANGED <<clientRow, serverRow>>
      BY DEF Echo, ServerReceivesFirst, ServerReplies, ServerTimes, ServerFails, client
<1>6. Break \/ Close \/ Exit => UNCHANGED <<clientRow, serverRow>>
      BY DEF Break, Close, Exit, client, server
<1> QED  BY <1>1, <1>2, <1>3, <1>4, <1>5, <1>6 DEF LatencyNext

-----------------------------------------------------------------------------
(* The process.                                                             *)

\* Until a latency test runs, nothing of it has happened.
Idle ==
  /\ cpc = "off" /\ spc = "off" /\ rtts = 0 /\ samples = 0 /\ toServer = 0 /\ toClient = 0
  /\ up = FALSE /\ isDone = FALSE

Inv ==
  /\ StartupInv
  /\ IF Measuring THEN Places(rttCount) /\ Rows(rttCount)
     ELSE Idle /\ clientRow = NoRow /\ serverRow = NoRow

LEMMA InvInit == Init => Inv
<1> SUFFICES ASSUME Init PROVE Inv
    OBVIOUS
<1>1. StartupInv
      BY StartupInvInit DEF Init
<1>2. ~Measuring
      BY DEF Init, StartupInit, Measuring
<1>3. Idle /\ clientRow = NoRow /\ serverRow = NoRow
      BY DEF Init, LatencyInit, Idle
<1> QED  BY <1>1, <1>2, <1>3 DEF Inv

\* A step on the way to the runner: no latency test is running yet.
LEMMA StartupKeepsInv ==
  ASSUME Fits, Inv, StartupNext, UNCHANGED latencyVars
  PROVE  Inv'
<1>1. StartupInv'
      BY StartupInvStep DEF Inv
<1>2. phase # "running"
      BY DEF StartupNext, ParseMode, ParseVersion, ParseTest, ParseParams, Validate, Resolve, RunTest
<1>3. Idle /\ clientRow = NoRow /\ serverRow = NoRow
      BY <1>2 DEF Inv, Measuring
<1>4. Idle' /\ clientRow' = NoRow /\ serverRow' = NoRow
      BY <1>3 DEF latencyVars, Idle
<1>5. Places(rttCount)' /\ Rows(rttCount)'
  <2>1. rttCount' \in Nat
        BY <1>1, StartupAssumption DEF StartupInv, StartupTypeOK
  <2>2. Places(rttCount)'
    <3>1. /\ cpc' = "off" /\ spc' = "off" /\ rtts' = 0 /\ samples' = 0
          /\ toServer' = 0 /\ toClient' = 0 /\ up' = FALSE /\ isDone' = FALSE
          BY <1>4 DEF Idle
    <3>2. 0 \in 0 .. rttCount' /\ 0 \in 0 .. 2 /\ 0 \in 0 .. 1
          BY <2>1
    <3> QED  BY <3>1, <3>2 DEF Places
  <2>3. Rows(rttCount)'
        BY <1>4 DEF Rows
  <2> QED  BY <2>2, <2>3
<1> QED  BY <1>1, <1>4, <1>5 DEF Inv

LEMMA LatencyKeepsInv ==
  ASSUME Fits, Inv, Latency(LatencyNext(rttCount))
  PROVE  Inv'
<1>1. /\ Measuring /\ UNCHANGED startupVars /\ LatencyNext(rttCount)
      /\ Places(rttCount) /\ Rows(rttCount)
      BY DEF Latency, Inv
<1>2. StartupInv'
      BY <1>1, StartupInvStep DEF Inv
<1>3. rttCount' = rttCount /\ Measuring'
      BY <1>1 DEF startupVars, test, Measuring
<1>4. PICK n \in Nat : n = rttCount /\ n > 0
      BY <1>1, StartupAssumption DEF Inv, StartupInv, StartupTypeOK, Measuring, Checked
<1>5. LatencyNext(n) /\ Places(n) /\ Rows(n)
      BY <1>1, <1>4
<1>6. Places(n)' /\ Rows(n)'
      BY <1>4, <1>5, PlacesStep, RowsStep
<1>7. Places(rttCount)' /\ Rows(rttCount)'
      BY <1>3, <1>4, <1>6
<1> QED  BY <1>2, <1>3, <1>7 DEF Inv

LEMMA InvStep == ASSUME Fits PROVE Inv /\ [Next]_vars => Inv'
<1> SUFFICES ASSUME Inv, [Next]_vars PROVE Inv'
    OBVIOUS
<1>1. CASE UNCHANGED vars
  <2>1. StartupInv'
        BY <1>1, StartupInvStep DEF Inv, vars
  <2>2. UNCHANGED <<startupVars, latencyVars>>
        BY <1>1 DEF vars
  <2>3. Measuring' = Measuring
        BY <2>2 DEF startupVars, Measuring
  <2>4. (Places(rttCount) /\ Rows(rttCount) => (Places(rttCount) /\ Rows(rttCount))')
        BY <2>2 DEF startupVars, test, latencyVars, Places, Rows, InStep, Resting, Travelling
  <2>5. Idle /\ clientRow = NoRow /\ serverRow = NoRow =>
          (Idle /\ clientRow = NoRow /\ serverRow = NoRow)'
        BY <2>2 DEF latencyVars, Idle
  <2> QED  BY <2>1, <2>3, <2>4, <2>5 DEF Inv
<1> QED  BY <1>1, StartupKeepsInv, LatencyKeepsInv DEF Next

\* Theorem: types, with no more than two buffers under way to the server and one to the
\* client, and never more samples than round trips.
THEOREM TypeCorrect == ASSUME Fits PROVE Spec => []TypeOK
<1>1. \A n \in Nat : n > 0 => Percentiles(n) \in [Percents -> Int]
  <2> SUFFICES ASSUME NEW n \in Nat, n > 0, NEW p \in Percents PROVE Index(n, p) \in Int
      BY DEF Percentiles
  <2>1. rttCountFixed(n) \in Nat /\ p \in Nat
        BY DEF rttCountFixed, Percents, Whole, Fractional
  <2>2. \A x \in Nat : x % Word \in Nat
        BY WordAssumption
  <2>3. rttCountFixed(n) * (p \div 100) \in Nat /\ rttCountFixed(n) * p \in Nat
        BY <2>1
  <2> QED  BY <2>2, <2>3 DEF Index
<1>2. Inv => TypeOK
  <2> SUFFICES ASSUME Inv PROVE TypeOK
      OBVIOUS
  <2>1. StartupTypeOK /\ rttCount \in Nat
        BY StartupAssumption DEF Inv, StartupInv, StartupTypeOK
  <2>2. CASE Measuring
    <3>1. rttCount > 0
          BY <2>2 DEF Inv, StartupInv, Measuring, Checked
    <3>2. Percentiles(rttCount) \in [Percents -> Int]
          BY <1>1, <2>1, <3>1
    <3> QED  BY <2>1, <2>2, <3>2 DEF Inv, Places, Rows, TypeOK, LatencyTypeOK
  <2>3. CASE ~Measuring
    <3>1. /\ cpc = "off" /\ spc = "off" /\ rtts = 0 /\ samples = 0
          /\ toServer = 0 /\ toClient = 0 /\ up = FALSE /\ isDone = FALSE
          /\ clientRow = NoRow /\ serverRow = NoRow
          BY <2>3 DEF Inv, Idle
    <3>2. 0 \in 0 .. rttCount /\ 0 \in 0 .. 2 /\ 0 \in 0 .. 1
          BY <2>1
    <3> QED  BY <2>1, <3>1, <3>2 DEF TypeOK, LatencyTypeOK
  <2> QED  BY <2>2, <2>3
<1> QED  BY <1>2, InvInit, InvStep, PTL DEF Spec

\* Theorem: what the command line lets through is a test that runTest knows, has at least
\* one round trip, and a buffer within the limits of the code, which are wider than those
\* of the usage text (ethr.go:317-366, 526, client.go:224-274).
THEOREM DispatchComplete == ASSUME Fits PROVE Spec => []AcceptedTestsRun
<1>1. Inv => AcceptedTestsRun
      BY InvImpliesAccepted DEF Inv
<1> QED  BY <1>1, InvInit, InvStep, PTL DEF Spec

\* Theorem: the server never measures the client's gap, for any number of round trips
\* (client.go:545-553, server.go:331-342).
THEOREM ServerMeasuresNetwork == ASSUME Fits PROVE Spec => []SamplesExcludeGap
<1>1. Inv => SamplesExcludeGap
      BY DEF Inv, Idle, SamplesExcludeGap, Places, InStep, Resting
<1> QED  BY <1>1, InvInit, InvStep, PTL DEF Spec

\* Theorem: the percentiles are samples, in order, each at its nearest rank or one below,
\* for any number of round trips (client.go:571-583, server.go:359-372).
THEOREM PercentilesCorrect == ASSUME Fits PROVE Spec => []PercentilesNearRank
<1>1. Inv => PercentilesNearRank
  <2> SUFFICES ASSUME Inv, NEW row \in {clientRow, serverRow}, row # NoRow
               PROVE  PercentilesRight(row, rttCount)
      BY DEF PercentilesNearRank
  <2>1. Measuring
        BY DEF Inv
  <2>2. rttCount \in Nat /\ rttCount > 0 /\ rttCount * 99 < Word
        BY <2>1, StartupAssumption DEF Inv, StartupInv, StartupTypeOK, Measuring, Checked
  <2>3. row = Percentiles(rttCount)
        BY <2>1 DEF Inv, Rows
  <2> QED  BY <2>2, <2>3, PercentilesAreRight
<1> QED  BY <1>1, InvInit, InvStep, PTL DEF Spec
===============================================================================
