------------------------------- MODULE Startup -------------------------------
(***************************************************************************)
(* The start of an ethr process, from the command line to the goroutine    *)
(* that runs the test: main (ethr.go), runClient and the first half of     *)
(* runTest (client.go).  A flag is chosen when the code looks at it.       *)
(*                                                                         *)
(* Lengths are numbers between the limits of the source, all of them       *)
(* scaled down: only their order, 0 and the wrap-around at Word matter.    *)
(***************************************************************************)
EXTENDS Integers, Sequences, FiniteSets

CONSTANTS
  Lengths,     \* values of -l after unitToNumber (0: not a length)
  Iterations,  \* values of -i
  Kilo64,      \* 64KB
  Giga2,       \* 2GB
  DefaultLength,  \* 16KB
  Wrap         \* where a uint32 wraps around

ASSUME StartupAssumption ==
  /\ Lengths \subseteq Nat /\ Iterations \subseteq Int
  /\ {Kilo64, Giga2, DefaultLength, Wrap} \subseteq Nat
  /\ 1 < DefaultLength /\ DefaultLength < Kilo64 /\ Kilo64 < Giga2 /\ Giga2 < Wrap

Protocols == {"TCP", "UDP", "ICMP"}
TestTypes == {"Bandwidth", "Cps", "Pps", "Latency", "Ping", "TraceRoute", "MyTraceRoute"}
Families  == {"v4", "v6"}

VARIABLES
  phase,       \* where main is, or how it ended
  mode,        \* -s, -c or -x
  asked,       \* the IP version asked for with -4 or -6
  gIPVersion,  \* the IP version in use
  byName,      \* whether the destination is a name
  protocol, testType, bufferSize, reverse, rttCount,  \* the test
  runner       \* the goroutines that runTest started

address     == <<asked, gIPVersion, byName>>
test        == <<protocol, testType, bufferSize, reverse, rttCount>>
startupVars == <<phase, mode, address, test, runner>>

Runners ==
  {"tcpRunBandwidthTestSync", "runTCPLatencyTest", "tcpRunCpsTest", "clientRunPingTest",
   "tcpRunTraceRoute", "tcpRunMyTraceRoute", "runUDPBandwidthAndPpsTest",
   "icmpRunTraceRoute", "icmpRunMyTraceRoute"}
NoRunner == "none"

StartupTypeOK ==
  /\ phase \in {"args", "version", "test", "params", "validate", "resolve", "run",
                "serving", "running", "usage", "failed"}
  /\ mode \in {"server", "client", "external"}
  /\ asked \in Families \cup {"any"} /\ gIPVersion \in Families \cup {"any"}
  /\ byName \in BOOLEAN
  /\ protocol \in Protocols /\ testType \in TestTypes
  /\ bufferSize \in 0 .. Wrap - 1 /\ rttCount \in 0 .. Wrap - 1 /\ reverse \in BOOLEAN
  /\ runner \in Runners \cup {NoRunner}

StartupInit ==
  /\ phase = "args" /\ mode = "client" /\ asked = "any" /\ gIPVersion = "any"
  /\ byName = FALSE /\ protocol = "TCP" /\ testType = "Bandwidth" /\ bufferSize = 0 /\ rttCount = 0
  /\ reverse = FALSE /\ runner = NoRunner

Uint32(n) == n % Wrap

\* printUsageError ends the process; another error is printed and main returns.
Continue(ok, there, otherwise) == phase' = IF ok THEN there ELSE otherwise

-----------------------------------------------------------------------------
(* main.                                                                    *)

\* -s, or one of -c and -x, with the flags that go with it.
ParseMode ==
  /\ phase = "args"
  /\ \E s, c, x, clientOnly, ui, precisionOK \in BOOLEAN :
       /\ mode' = IF s THEN "server" ELSE IF x THEN "external" ELSE "client"
       /\ Continue(/\ precisionOK
                   /\ IF s THEN ~c /\ ~x /\ ~clientOnly ELSE c # x /\ ~ui,
                   "version", "usage")
  /\ UNCHANGED <<address, test, runner>>

\* To16 of an IPv4 address is an address, too: only To4 tells them apart.
To4(family)  == family = "v4"
To16(family) == family \in Families

\* -4 and -6, and whether the local address (-ip) fits.  A server is started now.
ParseVersion ==
  /\ phase = "version"
  /\ \E use4, use6 \in BOOLEAN :
       asked' = IF use4 /\ ~use6 THEN "v4" ELSE IF use6 /\ ~use4 THEN "v6" ELSE "any"
  /\ gIPVersion' = asked'
  /\ \E ip \in Families \cup {"none", "invalid"} :
       LET fits == /\ ip # "invalid"
                   /\ gIPVersion' = "v4" => To4(ip)
                   /\ gIPVersion' = "v6" => To16(ip)
       IN Continue(ip = "none" \/ fits, IF mode = "server" THEN "serving" ELSE "test", "usage")
  /\ UNCHANGED <<mode, byName, test, runner>>

\* -t and -p: getTestType and getProtocol.  "bad" is anything else.
ParseTest ==
  /\ phase = "test"
  /\ \E t \in TestTypes \cup {"none", "bad"}, p \in Protocols \cup {"bad"} :
       IF t = "bad" \/ p = "bad" THEN phase' = "usage" /\ UNCHANGED <<testType, protocol>>
       ELSE /\ phase' = "params" /\ protocol' = p
            /\ testType' = IF t # "none" THEN t
                           ELSE IF mode = "external" THEN "Ping" ELSE "Bandwidth"
  /\ UNCHANGED <<mode, address, bufferSize, reverse, rttCount, runner>>

\* getDefaultBufferLenStr
DefaultBufferLen == IF testType = "Latency" THEN 1 ELSE DefaultLength

\* -l, -i and -r.  A packets-per-second test has packets of one byte.
ParseParams ==
  /\ phase = "params"
  /\ \E l \in Lengths \cup {DefaultBufferLen}, i \in Iterations, r \in BOOLEAN :
       /\ Continue(l # 0 /\ i > 0, "validate", "usage")
       /\ bufferSize' = IF testType = "Pps" THEN 1 ELSE Uint32(l)
       /\ rttCount' = Uint32(i)
       /\ reverse' = r
  /\ UNCHANGED <<mode, address, protocol, testType, runner>>

\* Faulty variant: the table of external mode has the tests of client mode.
AsForClient ==
  CASE protocol = "TCP"  -> testType # "Pps"
    [] protocol = "UDP"  -> testType \in {"Bandwidth", "Pps"}
    [] protocol = "ICMP" -> testType \in {"Ping", "TraceRoute", "MyTraceRoute"}

\* validateClientTest
ValidClientTest ==
  CASE protocol = "TCP"  -> /\ testType # "Pps"
                            /\ reverse => testType = "Bandwidth"
                            /\ bufferSize <= Giga2
    [] protocol = "UDP"  -> /\ testType \in {"Bandwidth", "Pps"}
                            /\ ~reverse
                            /\ bufferSize <= Kilo64
    [] protocol = "ICMP" -> FALSE

\* validateExtModeClientTest
ValidExternalTest ==
  CASE protocol = "TCP"  -> testType \in {"Ping", "Cps", "TraceRoute", "MyTraceRoute"}
    [] protocol = "UDP"  -> FALSE
    [] protocol = "ICMP" -> testType \in {"Ping", "TraceRoute", "MyTraceRoute"}

Validate ==
  /\ phase = "validate"
  /\ Continue(IF mode = "external" THEN ValidExternalTest ELSE ValidClientTest,
              "resolve", "usage")
  /\ UNCHANGED <<mode, address, test, runner>>

-----------------------------------------------------------------------------
(* runClient.                                                               *)

\* What a destination may be: a literal address, or a name and the answers to it.
Destinations ==
  {[literal |-> TRUE, answers |-> <<f>>] : f \in Families} \cup
  {[literal |-> FALSE, answers |-> a] :
     a \in {<<>>, <<"v4">>, <<"v6">>, <<"v4", "v6">>, <<"v6", "v4">>}}

\* Whether ethrLookupIP takes an answer.
Takes(family) ==
  \/ gIPVersion = "any"
  \/ gIPVersion = "v4" /\ To4(family)
  \/ gIPVersion = "v6" /\ To16(family)

\* The indices of the answers that may be taken; the first one is.
Taken(d) == {k \in DOMAIN d.answers : d.literal \/ Takes(d.answers[k])}
First(ks) == CHOOSE k \in ks : \A m \in ks : k <= m

\* The address decides on the IP version.  A port must be given in external mode, for
\* TCP, and must not be given in client mode.
Resolve ==
  /\ phase = "resolve"
  /\ \E d \in Destinations, port \in BOOLEAN :
       /\ byName' = ~d.literal
       /\ IF Taken(d) = {} THEN phase' = "failed" /\ UNCHANGED gIPVersion
          ELSE /\ gIPVersion' = d.answers[First(Taken(d))]
               /\ Continue(IF mode = "external" THEN protocol = "ICMP" \/ port ELSE ~port,
                           "run", "failed")
  /\ UNCHANGED <<mode, asked, test, runner>>

\* The dispatch in runTest.
RunnerOf ==
  CASE protocol = "TCP" /\ testType = "Bandwidth"    -> "tcpRunBandwidthTestSync"
    [] protocol = "TCP" /\ testType = "Latency"      -> "runTCPLatencyTest"
    [] protocol = "TCP" /\ testType = "Cps"          -> "tcpRunCpsTest"
    [] protocol = "TCP" /\ testType = "TraceRoute"   -> "tcpRunTraceRoute"
    [] protocol = "TCP" /\ testType = "MyTraceRoute" -> "tcpRunMyTraceRoute"
    [] protocol = "UDP" /\ testType \in {"Bandwidth", "Pps"} -> "runUDPBandwidthAndPpsTest"
    [] protocol = "ICMP" /\ testType = "TraceRoute"   -> "icmpRunTraceRoute"
    [] protocol = "ICMP" /\ testType = "MyTraceRoute" -> "icmpRunMyTraceRoute"
    [] protocol \in {"TCP", "ICMP"} /\ testType = "Ping" -> "clientRunPingTest"
    [] OTHER -> NoRunner

\* Without the permission for raw sockets there is a warning, and the test runs.
RunTest ==
  /\ phase = "run"
  /\ phase' = "running" /\ runner' = RunnerOf
  /\ UNCHANGED <<mode, address, test>>

StartupNext ==
  ParseMode \/ ParseVersion \/ ParseTest \/ ParseParams \/ Validate \/ Resolve \/ RunTest

-----------------------------------------------------------------------------
(* Properties. *)

\* The runners that shake hands with an ethr server, or need one.
EthrOnly == {"tcpRunBandwidthTestSync", "runTCPLatencyTest", "runUDPBandwidthAndPpsTest"}

\* A test that got past the checks is one that runTest knows: otherwise main would wait
\* on toStop, with no duration timer, for a test that nobody runs.  What runs in external
\* mode needs no ethr at the other end, round trips are divided by their number, and -4
\* finds a name an IPv4 address (ethr.go:317-366, utils.go:436-443, client.go:224-274).
\* The limits of a buffer are those of the code, 2GB for every test over TCP; the usage
\* text speaks of 1GB, and of bandwidth tests only (ethr.go:526).
AcceptedTestsRun ==
  phase = "running" =>
    /\ runner # NoRunner
    /\ mode = "external" => runner \notin EthrOnly
    /\ rttCount > 0
    /\ mode = "client" => bufferSize \in 1 .. (IF protocol = "UDP" THEN Kilo64 ELSE Giga2)
    /\ asked = "v4" /\ byName => gIPVersion = "v4"
=============================================================================
