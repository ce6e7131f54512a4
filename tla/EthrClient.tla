------------------------------ MODULE EthrClient ------------------------------
(***************************************************************************)
(* An ethr process from its command line on, with the latency test, on     *)
(* both sides, as the one it goes on to run in detail.  The other tests    *)
(* are those of SyncStart, ClientTraffic, ClientRun and TraceRoute.        *)
(***************************************************************************)
EXTENDS Startup, LatencyTest

\* Both modules have the same 32 bits.
ASSUME SameWord == Wrap = Word

vars == <<startupVars, latencyVars>>

TypeOK == StartupTypeOK /\ LatencyTypeOK(rttCount)

Init == StartupInit /\ LatencyInit

\* The goroutine of a latency test has been started.
Measuring == phase = "running" /\ runner = "runTCPLatencyTest"

Latency(A) == Measuring /\ A /\ UNCHANGED startupVars

Next ==
  \/ StartupNext /\ UNCHANGED latencyVars
  \/ Latency(LatencyNext(rttCount))

\* Both sides run.  No connection needs to break, and nobody needs to stop the test.
Spec ==
  /\ Init /\ [][Next]_vars
  /\ WF_vars(Latency(Measure(rttCount))) /\ WF_vars(Latency(Echo(rttCount)))

-----------------------------------------------------------------------------
(* Properties. *)

\* What the server measures is the network and never the client's gap: while the client
\* waits for the next round the server waits for it too, without timing, or the buffer
\* that ends its last sample is on its way (client.go:545-553, server.go:331-342).
SamplesExcludeGap ==
  cpc = "gap" /\ spc = "time" /\ up => toServer > 0

\* The percentiles both sides print are samples, in order, and at their nearest rank or
\* one below, also for the smallest counts (client.go:571-583, server.go:359-372).
PercentilesNearRank ==
  \A row \in {clientRow, serverRow} : row # NoRow => PercentilesRight(row, rttCount)

\* The two sides never wait for each other: unless the connection breaks or the test
\* ends, each round ends on either side.
RoundsComplete ==
  /\ (cpc = "write") ~> (cpc \in {"gap", "ended"} \/ ~up)
  /\ (spc = "time") ~> (spc = "calc" \/ ~up)
=============================================================================
