----------------------------- MODULE LatencyTest -----------------------------
(***************************************************************************)
(* A TCP latency test: runTCPLatencyTest on the client, and                *)
(* srvrRunTCPLatencyTest on the server.  Both measure the same exchange.   *)
(* In a round the client sends a buffer and waits for it to come back, n   *)
(* times, then sends it once more, so that the server, which times its own *)
(* buffer from the reply to the next arrival, gets n samples as well.      *)
(* Then both calculate, and the client waits for the rest of the gap.      *)
(*                                                                         *)
(* A buffer is sent and received whole, so a connection is the number of   *)
(* buffers under way in each direction.  The samples are sorted before the *)
(* percentiles are taken, so a percentile is its index in sorted order.    *)
(* The number of round trips n (RttCount) and the parties' start come from *)
(* the module that uses this one.                                          *)
(***************************************************************************)
EXTENDS Integers

CONSTANT Word   \* 2^32: what a uint32 wraps around at

ASSUME WordAssumption == Word \in Nat /\ Word > 200

VARIABLES
  cpc,        \* where the client is
  rtts,       \* samples the client has in this round
  spc,        \* where the server is
  samples,    \* samples the server has in this round
  toServer, toClient,  \* buffers under way
  up,         \* whether the connection is
  isDone,     \* whether test.done is closed
  clientRow,  \* the percentiles the client has printed last
  serverRow   \* the percentiles the server has printed last

latencyVars == <<cpc, rtts, spc, samples, toServer, toClient, up, isDone, clientRow, serverRow>>

-----------------------------------------------------------------------------
(* Percentiles.                                                             *)

\* The percentiles are p50, p90, p95 and p99, in hundredths of a percent, which are
\* taken with 32-bit arithmetic, and p999 and p9999, which are taken with floats.
Whole      == {5000, 9000, 9500, 9900}
Fractional == {9990, 9999}
Percents   == Whole \cup Fractional

\* Faulty variant: a single round trip is no special case.
CountAsIs(n) == n

rttCountFixed(n) == IF n = 1 THEN 2 ELSE n

\* The index of a percentile in the sorted samples, from 0.
Index(n, p) ==
  IF p \in Whole THEN ((rttCountFixed(n) * (p \div 100)) % Word) \div 100 - 1
  ELSE (rttCountFixed(n) * p - 10000) \div 10000

\* calcAndPrintLatency, and the same statements on the server.
Percentiles(n) == [p \in Percents |-> Index(n, p)]

\* Nothing is printed yet.
NoRow == [p \in {} |-> 0]

-----------------------------------------------------------------------------

LatencyTypeOK(n) ==
  /\ cpc \in {"off", "write", "read", "extra", "calc", "gap", "lost", "ended"}
  /\ spc \in {"off", "first", "reply", "time", "calc", "gone"}
  /\ rtts \in 0 .. n /\ samples \in 0 .. n
  /\ toServer \in 0 .. 2 /\ toClient \in 0 .. 1
  /\ up \in BOOLEAN /\ isDone \in BOOLEAN
  /\ clientRow \in {NoRow} \cup [Percents -> Int]
  /\ serverRow \in {NoRow} \cup [Percents -> Int]

LatencyInit ==
  /\ cpc = "off" /\ spc = "off" /\ rtts = 0 /\ samples = 0
  /\ toServer = 0 /\ toClient = 0 /\ up = FALSE /\ isDone = FALSE
  /\ clientRow = NoRow /\ serverRow = NoRow

server == <<spc, samples, serverRow>>
client == <<cpc, rtts, clientRow>>

\* A write succeeds as long as the connection is up.
Sends(way, more) == up /\ way' = way + more

\* io.ReadFull returns a buffer; one that has arrived may be lost with the connection.
Receives(way) == way > 0 /\ way' = way - 1

-----------------------------------------------------------------------------
(* The client.                                                              *)

\* The dial and the handshake, which tells the server n; if they fail the goroutine
\* ends, and says so to nobody.
ClientStarts ==
  /\ cpc = "off"
  /\ \/ cpc' = "write" /\ spc' = "first" /\ up' = TRUE
     \/ cpc' = "ended" /\ UNCHANGED <<spc, up>>
  /\ UNCHANGED <<rtts, samples, toServer, toClient, isDone, clientRow, serverRow>>

ClientWrites ==
  /\ cpc = "write" /\ Sends(toServer, 1)
  /\ cpc' = "read"
  /\ UNCHANGED <<rtts, clientRow, server, toClient, up, isDone>>

\* Faulty variant: the server is left without its last sample.
ReadsAndStops(n) ==
  /\ cpc = "read" /\ Receives(toClient)
  /\ rtts' = rtts + 1
  /\ cpc' = IF rtts + 1 < n THEN "write" ELSE "calc"
  /\ UNCHANGED <<clientRow, server, toServer, up, isDone>>

ClientReads(n) ==
  /\ cpc = "read" /\ Receives(toClient)
  /\ rtts' = rtts + 1
  /\ cpc' = IF rtts + 1 < n THEN "write" ELSE "extra"
  /\ UNCHANGED <<clientRow, server, toServer, up, isDone>>

\* The extra write is for the server's sake, and its error is ignored.
ClientWritesExtra ==
  /\ cpc = "extra"
  /\ IF up THEN Sends(toServer, 1) ELSE UNCHANGED toServer
  /\ cpc' = "calc"
  /\ UNCHANGED <<rtts, clientRow, server, toClient, up, isDone>>

ClientCalculates(n) ==
  /\ cpc = "calc"
  /\ clientRow' = Percentiles(n)
  /\ cpc' = "gap"
  /\ UNCHANGED <<rtts, server, toServer, toClient, up, isDone>>

\* The gap is over, or the last attempt has failed: test.done is looked at, and the
\* next round begins.
NextRound ==
  /\ cpc \in {"gap", "lost"}
  /\ cpc' = IF isDone THEN "ended" ELSE "write"
  /\ rtts' = 0
  /\ UNCHANGED <<clientRow, server, toServer, toClient, up, isDone>>

\* A write or a read fails: disconnect is sent on toStop, the round is given up.
ClientFails ==
  /\ cpc \in {"write", "read"} /\ ~up
  /\ cpc' = "lost"
  /\ UNCHANGED <<rtts, clientRow, server, toServer, toClient, up, isDone>>

-----------------------------------------------------------------------------
(* The server.                                                              *)

\* Faulty variant: the loop reads before it writes.
ReceivesFirstTwice ==
  /\ spc = "first" /\ Receives(toServer)
  /\ spc' = "time" /\ samples' = 0
  /\ UNCHANGED <<serverRow, client, toClient, up, isDone>>

ServerReceivesFirst ==
  /\ spc = "first" /\ Receives(toServer)
  /\ spc' = "reply" /\ samples' = 0
  /\ UNCHANGED <<serverRow, client, toClient, up, isDone>>

ServerReplies ==
  /\ spc = "reply" /\ Sends(toClient, 1)
  /\ spc' = "time"
  /\ UNCHANGED <<samples, serverRow, client, toServer, up, isDone>>

\* Faulty variant: one sample too many.
TimesOneMore(n) ==
  /\ spc = "time" /\ Receives(toServer)
  /\ samples' = samples + 1
  /\ spc' = IF samples + 1 <= n THEN "reply" ELSE "calc"
  /\ UNCHANGED <<serverRow, client, toClient, up, isDone>>

\* A sample: from the reply to the arrival of the next buffer.
ServerTimes(n) ==
  /\ spc = "time" /\ Receives(toServer)
  /\ samples' = samples + 1
  /\ spc' = IF samples + 1 < n THEN "reply" ELSE "calc"
  /\ UNCHANGED <<serverRow, client, toClient, up, isDone>>

ServerCalculates(n) ==
  /\ spc = "calc"
  /\ serverRow' = Percentiles(n)
  /\ spc' = "first"
  /\ UNCHANGED <<samples, client, toServer, toClient, up, isDone>>

ServerFails ==
  /\ spc \in {"first", "reply", "time"} /\ ~up
  /\ spc' = "gone"
  /\ UNCHANGED <<samples, serverRow, client, toServer, toClient, up, isDone>>

-----------------------------------------------------------------------------

\* The connection breaks.
Break ==
  /\ up /\ up' = FALSE
  /\ UNCHANGED <<client, server, toServer, toClient, isDone>>

\* runTest has a reason to stop and closes test.done; then the process exits, and
\* the connection with it.
Close ==
  /\ cpc # "off" /\ ~isDone /\ isDone' = TRUE
  /\ UNCHANGED <<client, server, toServer, toClient, up>>

Exit ==
  /\ isDone /\ cpc # "ended"
  /\ cpc' = "ended" /\ up' = FALSE
  /\ UNCHANGED <<rtts, clientRow, server, toServer, toClient, isDone>>

Measure(n) ==
  \/ ClientStarts \/ ClientWrites \/ ClientReads(n) \/ ClientWritesExtra
  \/ ClientCalculates(n) \/ NextRound \/ ClientFails

Echo(n) ==
  \/ ServerReceivesFirst \/ ServerReplies \/ ServerTimes(n) \/ ServerCalculates(n)
  \/ ServerFails

LatencyNext(n) == Measure(n) \/ Echo(n) \/ Break \/ Close \/ Exit

-----------------------------------------------------------------------------
(* What is promised, for n round trips. *)

\* The percentiles of n samples are among them, in order, and each is the sample at
\* its nearest rank, ceil(n * p), or the one below.
PercentilesRight(row, n) ==
  /\ \A p \in Percents :
       /\ row[p] \in 0 .. n - 1
       /\ LET rank == (n * p + 9999) \div 10000
          IN row[p] + 1 \in {rank - 1, rank}
  /\ \A p, q \in Percents : p <= q => row[p] <= row[q]
=============================================================================
