------------------------------ MODULE SyncStart ------------------------------
(***************************************************************************)
(* How a TCP bandwidth test starts: the client opens a control connection, *)
(* agrees with the server on the moment the test starts, then opens the    *)
(* data connections (tcpRunBandwidthTestSync in client.go).  The server    *)
(* has one handler per connection and is not told which is the control     *)
(* one: it waits a short time for SyncStart (trySyncStartWithClient in     *)
(* server.go).  A server of a single client starts its statistics at the   *)
(* agreed moment; a server of many has a statistics timer running, and     *)
(* wants the client to start on its next tick, which it estimates from     *)
(* when the statistics ran last.                                           *)
(*                                                                         *)
(* Time is explicit and in milliseconds.  Messages take a time from        *)
(* Latencies and keep their order on a connection; what a process computes *)
(* takes none; Tick moves the clock to the next moment something is due.   *)
(* The client has two threads, hence one data connection.                  *)
(***************************************************************************)
EXTENDS Integers, Sequences, FiniteSetsExt

CONSTANTS
  Latencies,  \* the one-way times of messages
  Deadline,   \* how long the server waits for SyncStart
  Interval,   \* the period of the statistics timer
  Lateness,   \* how long after a tick the goroutine of the timer may get to run
  Offsets,    \* moments, after a tick of the server, at which a client comes
  Modes,      \* values of gOneClient to consider
  Breaks      \* whether connections may break

ASSUME SyncAssumption ==
  /\ Latencies \subseteq Nat /\ Latencies # {} /\ IsFiniteSet(Latencies)
  /\ Offsets \subseteq Nat /\ Offsets # {}
  /\ Deadline \in Nat /\ Interval \in Nat \ {0}
  /\ Lateness \subseteq 0 .. Interval - 1 /\ Lateness # {}
  /\ Modes \subseteq BOOLEAN /\ Breaks \in BOOLEAN

VARIABLES
  now,        \* the time; the ticker of the server fires at multiples of Interval
  gOneClient, \* single-client mode
  reverse,    \* ClientParam.Reverse: the server sends, the client receives
  toServer, toClient,  \* [conn]: messages under way, in order
  broken,     \* [conn]: whether the connection is lost
  cpc,        \* where the client is
  sendTime,   \* when the client sent SyncStart
  cStart,     \* the client's startTime, or NotYet
  spc,        \* [conn]: where the handler of the connection is
  readUntil,  \* [conn]: the read deadline of the handler
  lastStatsTime, \* when the statistics ran last, as the control handler has read it
  delayNs,    \* what the control handler put into SyncReady
  sStart      \* the server's startTime, or NotYet (in "sleep": when it will be)

params  == <<gOneClient, reverse>>
net     == <<toServer, toClient, broken>>
client  == <<cpc, sendTime, cStart>>
handler == <<spc, readUntil, lastStatsTime, delayNs, sStart>>
vars    == <<now, params, net, client, handler>>

NotYet == -1
Links == {"control", "data"}

Message == [type : {"Syn", "Ack", "SyncStart", "SyncReady", "SyncGo", "Payload"},
            val : Int, due : Nat]

TypeOK ==
  /\ now \in Nat /\ gOneClient \in BOOLEAN /\ reverse \in BOOLEAN
  /\ toServer \in [Links -> Seq(Message)] /\ toClient \in [Links -> Seq(Message)]
  /\ broken \in [Links -> BOOLEAN]
  /\ cpc \in {"dial", "ack", "ready", "wait", "dialData", "dataAck", "run", "failed"}
  /\ sendTime \in Nat /\ cStart \in Nat \cup {NotYet}
  /\ spc \in [Links -> {"syn", "probe", "go", "sleep", "run", "ended"}]
  /\ readUntil \in [Links -> Nat]
  /\ lastStatsTime \in Int /\ delayNs \in Int /\ sStart \in Nat \cup {NotYet}

Init ==
  /\ now \in Offsets
  /\ gOneClient \in Modes /\ reverse \in BOOLEAN
  /\ toServer = [k \in Links |-> <<>>] /\ toClient = [k \in Links |-> <<>>]
  /\ broken = [k \in Links |-> FALSE]
  /\ cpc = "dial" /\ sendTime = 0 /\ cStart = NotYet
  /\ spc = [k \in Links |-> "syn"] /\ readUntil = [k \in Links |-> 0]
  /\ lastStatsTime = 0 /\ delayNs = 0 /\ sStart = NotYet

-----------------------------------------------------------------------------
(* Messages. *)

\* The queue after a message is written: it arrives after those before it.
Sent(queue, type, val, latency) ==
  LET last == IF queue = <<>> THEN 0 ELSE queue[Len(queue)].due
  IN Append(queue, [type |-> type, val |-> val, due |-> Max({last, now + latency})])

ClientSends(k, type, val) ==
  IF broken[k] THEN UNCHANGED toServer
  ELSE \E l \in Latencies : toServer' = [toServer EXCEPT ![k] = Sent(@, type, val, l)]

ServerSends(k, type, val) ==
  IF broken[k] THEN UNCHANGED toClient
  ELSE \E l \in Latencies : toClient' = [toClient EXCEPT ![k] = Sent(@, type, val, l)]

Arrived(queue) == queue # <<>> /\ Head(queue).due <= now
Has(queue, type) == Arrived(queue) /\ Head(queue).type = type

\* recvSessionMsg gives up: the connection broke, or something else came.
Fails(k, queue, type) == broken[k] \/ (Arrived(queue) /\ Head(queue).type # type)

-----------------------------------------------------------------------------
(* The client: tcpRunBandwidthTestSync.                                     *)

\* Dials the control connection and sends SYN.
DialControl ==
  /\ cpc = "dial"
  /\ ClientSends("control", "Syn", 0)
  /\ cpc' = "ack"
  /\ UNCHANGED <<now, params, toClient, broken, sendTime, cStart, handler>>

\* ACK is there: SyncStart goes out.
SendSyncStart ==
  /\ cpc = "ack" /\ Has(toClient["control"], "Ack")
  /\ toClient' = [toClient EXCEPT !["control"] = Tail(@)]
  /\ ClientSends("control", "SyncStart", 0)
  /\ sendTime' = now
  /\ cpc' = "ready"
  /\ UNCHANGED <<now, params, broken, cStart, handler>>

\* Faulty variants: a start in the past is not moved to the present ...
GoBeforeNow ==
  /\ cpc = "ready" /\ Has(toClient["control"], "SyncReady")
  /\ toClient' = [toClient EXCEPT !["control"] = Tail(@)]
  /\ LET delay == Head(toClient["control"]).val
         rtt == now - sendTime
     IN /\ ClientSends("control", "SyncGo", rtt)
        /\ cStart' = now + (IF delay = 0 THEN 0 ELSE delay - (rtt \div 2))
        /\ cpc' = IF delay = 0 THEN "dialData" ELSE "wait"
  /\ UNCHANGED <<now, params, broken, sendTime, handler>>

\* ... or the way of SyncReady to the client is not taken off the delay.
GoWithoutAdjusting ==
  /\ cpc = "ready" /\ Has(toClient["control"], "SyncReady")
  /\ toClient' = [toClient EXCEPT !["control"] = Tail(@)]
  /\ ClientSends("control", "SyncGo", now - sendTime)
  /\ cStart' = now + Head(toClient["control"]).val
  /\ cpc' = IF Head(toClient["control"]).val = 0 THEN "dialData" ELSE "wait"
  /\ UNCHANGED <<now, params, broken, sendTime, handler>>

\* SyncReady is there: SyncGo goes out with the round-trip time.  A delay of 0
\* means single-client mode and "start now"; otherwise half a round trip is over.
SendSyncGo ==
  /\ cpc = "ready" /\ Has(toClient["control"], "SyncReady")
  /\ toClient' = [toClient EXCEPT !["control"] = Tail(@)]
  /\ LET delay == Head(toClient["control"]).val
         rtt == now - sendTime
     IN /\ ClientSends("control", "SyncGo", rtt)
        /\ cStart' = now + (IF delay = 0 THEN 0 ELSE Max({0, delay - (rtt \div 2)}))
        /\ cpc' = IF delay = 0 THEN "dialData" ELSE "wait"
  /\ UNCHANGED <<now, params, broken, sendTime, handler>>

\* waitUntilTime(startTime) is over.
WaitOver ==
  /\ cpc = "wait" /\ now >= cStart
  /\ cpc' = "dialData"
  /\ UNCHANGED <<now, params, net, sendTime, cStart, handler>>

DialData ==
  /\ cpc = "dialData"
  /\ ClientSends("data", "Syn", 0)
  /\ cpc' = "dataAck"
  /\ UNCHANGED <<now, params, toClient, broken, sendTime, cStart, handler>>

\* All connections are up, or left out because they failed: data flows on them.
StartTransfer ==
  /\ cpc = "dataAck"
  /\ Has(toClient["data"], "Ack") \/ Fails("data", toClient["data"], "Ack")
  /\ toClient' = [toClient EXCEPT !["data"] = IF Has(@, "Ack") THEN Tail(@) ELSE @]
  /\ broken' = [broken EXCEPT !["data"] = @ \/ ~Has(toClient["data"], "Ack")]
  /\ IF reverse
       THEN UNCHANGED toServer
       ELSE \E l, m \in Latencies :
              toServer' = [k \in Links |->
                IF broken'[k] THEN toServer[k]
                ELSE Sent(toServer[k], "Payload", 0, IF k = "control" THEN l ELSE m)]
  /\ cpc' = "run"
  /\ UNCHANGED <<now, params, sendTime, cStart, handler>>

\* Faulty variant: a missing SyncReady goes unnoticed.
GivesUpOnAckOnly ==
  /\ cpc = "ack" /\ Fails("control", toClient["control"], "Ack")
  /\ broken' = [broken EXCEPT !["control"] = TRUE]
  /\ cpc' = "failed"
  /\ UNCHANGED <<now, params, toServer, toClient, sendTime, cStart, handler>>

\* No ACK or no SyncReady, or SyncStart or SyncGo cannot be sent: the control
\* connection is closed, the test is over.
ClientGivesUp ==
  /\ \/ cpc = "ack" /\ Fails("control", toClient["control"], "Ack")
     \/ cpc = "ready" /\ Fails("control", toClient["control"], "SyncReady")
  /\ broken' = [broken EXCEPT !["control"] = TRUE]
  /\ cpc' = "failed"
  /\ UNCHANGED <<now, params, toServer, toClient, sendTime, cStart, handler>>

-----------------------------------------------------------------------------
(* The server: srvrHandleNewTcpConn on each connection.                     *)

\* Faulty variant: SyncStart is not waited for.
AnswerSynNoDeadline(k) ==
  /\ spc[k] = "syn" /\ Has(toServer[k], "Syn")
  /\ toServer' = [toServer EXCEPT ![k] = Tail(@)]
  /\ ServerSends(k, "Ack", 0)
  /\ readUntil' = [readUntil EXCEPT ![k] = now]
  /\ spc' = [spc EXCEPT ![k] = "probe"]
  /\ UNCHANGED <<now, params, broken, client, lastStatsTime, delayNs, sStart>>

\* handshakeWithClient, and the read deadline that trySyncStartWithClient sets.
AnswerSyn(k) ==
  /\ spc[k] = "syn" /\ Has(toServer[k], "Syn")
  /\ toServer' = [toServer EXCEPT ![k] = Tail(@)]
  /\ ServerSends(k, "Ack", 0)
  /\ readUntil' = [readUntil EXCEPT ![k] = now + Deadline]
  /\ spc' = [spc EXCEPT ![k] = "probe"]
  /\ UNCHANGED <<now, params, broken, client, lastStatsTime, delayNs, sStart>>

\* lastStatsTime, which emitStats sets when it runs and not to the tick it runs for:
\* the statistics have run for the last tick, or that run is still to come.
LastStatsTimes ==
  LET tick == now - (now % Interval)
  IN {tick + l : l \in {k \in Lateness : tick + k <= now}}
     \cup (IF \E l \in Lateness : now <= tick + l
             THEN {tick - Interval + l : l \in Lateness} ELSE {})

\* timeToNextTick: negative if the next tick is over and the statistics are late.
TimeToNextTick(last) == last + Interval - now

\* SyncStart in time: this is the control connection.
AnswerSyncStart(k) ==
  /\ spc[k] = "probe" /\ now <= readUntil[k] /\ Has(toServer[k], "SyncStart")
  /\ toServer' = [toServer EXCEPT ![k] = Tail(@)]
  /\ \E last \in IF gOneClient THEN {lastStatsTime} ELSE LastStatsTimes :
       LET delay == IF gOneClient THEN 0 ELSE TimeToNextTick(last)
       IN /\ lastStatsTime' = last /\ delayNs' = delay
          /\ ServerSends(k, "SyncReady", delay)
  /\ spc' = [spc EXCEPT ![k] = "go"]
  /\ UNCHANGED <<now, params, broken, client, readUntil, sStart>>

\* Payload came, or nothing in time, or the connection broke: a data connection.
\* In reverse mode the handler sends from now on.
TakeForData(k) ==
  /\ spc[k] = "probe"
  /\ now >= readUntil[k] \/ Fails(k, toServer[k], "SyncStart")
  /\ toServer' = [toServer EXCEPT ![k] = IF Arrived(@) /\ now < readUntil[k] THEN Tail(@) ELSE @]
  /\ IF reverse THEN ServerSends(k, "Payload", 0) ELSE UNCHANGED toClient
  /\ spc' = [spc EXCEPT ![k] = "run"]
  /\ UNCHANGED <<now, params, broken, client, readUntil, lastStatsTime, delayNs, sStart>>

\* Faulty variants: the whole round trip is slept, or SyncGo is not awaited.
SleepRoundTrip(k) ==
  /\ spc[k] = "go" /\ Has(toServer[k], "SyncGo")
  /\ toServer' = [toServer EXCEPT ![k] = Tail(@)]
  /\ sStart' = now + delayNs + Head(toServer[k]).val
  /\ spc' = [spc EXCEPT ![k] = "sleep"]
  /\ UNCHANGED <<now, params, toClient, broken, client, readUntil, lastStatsTime, delayNs>>

StartWithoutGo(k) ==
  /\ spc[k] = "go"
  /\ sStart' = now + delayNs
  /\ spc' = [spc EXCEPT ![k] = "sleep"]
  /\ UNCHANGED <<now, params, net, client, readUntil, lastStatsTime, delayNs>>

\* SyncGo came: half the round trip the client measured, or the delay announced
\* in SyncReady, is slept before the start; the sleep of a negative one is none.
AnswerSyncGo(k) ==
  /\ spc[k] = "go" /\ Has(toServer[k], "SyncGo")
  /\ toServer' = [toServer EXCEPT ![k] = Tail(@)]
  /\ sStart' = now + (IF gOneClient THEN Head(toServer[k]).val \div 2 ELSE Max({0, delayNs}))
  /\ spc' = [spc EXCEPT ![k] = "sleep"]
  /\ UNCHANGED <<now, params, toClient, broken, client, readUntil, lastStatsTime, delayNs>>

\* The start: test.startTime is set, the transfer begins.
ServerStarts(k) ==
  /\ spc[k] = "sleep" /\ now >= sStart
  /\ IF reverse THEN ServerSends(k, "Payload", 0) ELSE UNCHANGED toClient
  /\ spc' = [spc EXCEPT ![k] = "run"]
  /\ UNCHANGED <<now, params, toServer, broken, client, readUntil, lastStatsTime, delayNs, sStart>>

\* No SYN or no SyncGo.
HandlerGivesUp(k) ==
  /\ \/ spc[k] = "syn" /\ Fails(k, toServer[k], "Syn")
     \/ spc[k] = "go" /\ Fails(k, toServer[k], "SyncGo")
  /\ broken' = [broken EXCEPT ![k] = TRUE]
  /\ spc' = [spc EXCEPT ![k] = "ended"]
  /\ UNCHANGED <<now, params, toServer, toClient, client, readUntil, lastStatsTime, delayNs, sStart>>

\* The transfer loops read whatever arrives, and end with the connection.
ServerReads(k) ==
  /\ spc[k] = "run" /\ ~reverse /\ Arrived(toServer[k])
  /\ toServer' = [toServer EXCEPT ![k] = Tail(@)]
  /\ UNCHANGED <<now, params, toClient, broken, client, handler>>

ClientReads(k) ==
  /\ cpc = "run" /\ reverse /\ Arrived(toClient[k])
  /\ toClient' = [toClient EXCEPT ![k] = Tail(@)]
  /\ UNCHANGED <<now, params, toServer, broken, client, handler>>

RunEnds(k) ==
  /\ spc[k] = "run" /\ broken[k]
  /\ spc' = [spc EXCEPT ![k] = "ended"]
  /\ UNCHANGED <<now, params, net, client, readUntil, lastStatsTime, delayNs, sStart>>

-----------------------------------------------------------------------------
(* Time and failures.                                                       *)

ClientListens(k) ==
  \/ k = "control" /\ cpc \in {"ack", "ready"}
  \/ k = "data" /\ cpc = "dataAck"
  \/ cpc = "run" /\ reverse

ServerListens(k) == spc[k] \in {"syn", "probe", "go"} \/ (spc[k] = "run" /\ ~reverse)

\* The moments at which somebody has something to do.
Agenda ==
  {Head(toClient[k]).due : k \in {j \in Links : toClient[j] # <<>> /\ ClientListens(j)}}
  \cup {Head(toServer[k]).due : k \in {j \in Links : toServer[j] # <<>> /\ ServerListens(j)}}
  \cup {readUntil[k] : k \in {j \in Links : spc[j] = "probe"}}
  \cup (IF cpc = "wait" THEN {cStart} ELSE {})
  \cup (IF "sleep" \in {spc[k] : k \in Links} THEN {sStart} ELSE {})
  \cup (IF cpc \in {"dial", "dialData"} THEN {now} ELSE {})

Tick ==
  /\ Agenda # {} /\ \A t \in Agenda : t > now
  /\ now' = Min(Agenda)
  /\ UNCHANGED <<params, net, client, handler>>

Break(k) ==
  /\ Breaks /\ ~broken[k]
  /\ broken' = [broken EXCEPT ![k] = TRUE]
  /\ UNCHANGED <<now, params, toServer, toClient, client, handler>>

ClientNext ==
  \/ DialControl \/ SendSyncStart \/ SendSyncGo \/ WaitOver \/ DialData \/ StartTransfer
  \/ ClientGivesUp
  \/ \E k \in Links : ClientReads(k)

HandlerNext(k) ==
  \/ AnswerSyn(k) \/ AnswerSyncStart(k) \/ TakeForData(k) \/ AnswerSyncGo(k)
  \/ ServerStarts(k) \/ HandlerGivesUp(k) \/ ServerReads(k) \/ RunEnds(k)

Next ==
  \/ ClientNext
  \/ \E k \in Links : HandlerNext(k) \/ Break(k)
  \/ Tick

\* Time passes and goroutines run; nothing makes a connection break.
Spec == /\ Init /\ [][Next]_vars
        /\ WF_vars(ClientNext) /\ WF_vars(Tick)
        /\ \A k \in Links : WF_vars(HandlerNext(k))

-----------------------------------------------------------------------------
(* Properties. *)

RoundTrip == 2 * Max(Latencies)

ServerStarted == sStart # NotYet /\ now >= sStart
ClientStarted == cStart # NotYet /\ now >= cStart

\* The server takes no connection but the control one for it, and it takes the
\* control one for it unless it is lost: no handler is in the wrong half of the
\* protocol (server.go:131-143).
RightClassification ==
  /\ spc["data"] \in {"syn", "probe", "run", "ended"}
  /\ spc["control"] = "run" /\ ~broken["control"] => sStart # NotYet

\* No message of the protocol is left to be read as payload, and no payload is
\* waiting where a message of the protocol is expected.
NoStrayMessage ==
  \A k \in Links :
    /\ spc[k] \in {"sleep", "run"} /\ ~broken[k] =>
         \A i \in DOMAIN toServer[k] : toServer[k][i].type = "Payload"
    /\ cpc = "run" /\ ~broken[k] =>
         \A i \in DOMAIN toClient[k] : toClient[k][i].type = "Payload"

\* The server starts after the client, and by no more than a round trip.
SkewBounded ==
  ServerStarted /\ cStart # NotYet => sStart - cStart \in 0 .. RoundTrip

\* With a statistics timer running, the client starts on the tick the server had in
\* mind, up to half of what the latencies of the two ways can differ by, and up to the
\* lateness of the statistics, which moves the tick the server calculates; only if
\* SyncReady may take longer than that tick is away, or the tick is over and the
\* statistics are late, the client comes later, by less than a way (server.go:177-185,
\* client.go:354-362, stats.go:161-168).
ClientStartsOnTick ==
  ~gOneClient /\ sStart # NotYet =>
    LET meant == lastStatsTime + Interval
        tick == meant - (meant % Interval)
        jitter == (Max(Latencies) - Min(Latencies)) \div 2 + 1
    IN cStart - tick \in -jitter .. Max(Lateness) + (IF delayNs <= Max(Latencies)
                                                       THEN Max(Latencies) ELSE jitter)

\* The client gets to transfer data, or finds out that it cannot, as long as the server
\* runs: each break is noticed by the receive that it meets (client.go:319-374).
ClientGetsSomewhere == <>(cpc \in {"run", "failed"})
=============================================================================
