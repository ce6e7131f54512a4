------------------------------ MODULE TraceRoute ------------------------------
(***************************************************************************)
(* Trace route and MTR of the ethr client (client.go): the hops on the way *)
(* to the destination are discovered one after the other, and in MTR mode  *)
(* each hop that answered is then probed by a goroutine of its own.        *)
(*                                                                         *)
(* A probe is an ICMP echo or a TCP connection attempt with a limited TTL. *)
(* Routers answer "time exceeded", the destination answers the echo, or    *)
(* accepts the connection.  ICMP answers arrive on raw sockets: everybody  *)
(* who listens hears all of them, answers to probes of others and to       *)
(* earlier probes included, and has to pick out his own.                   *)
(***************************************************************************)
EXTENDS Integers, FiniteSets

CONSTANTS
  MaxHops,    \* gMaxHops
  Dests,      \* distances of the destination, in hops before it, to consider
  Paths,      \* routes may differ in the router at a hop: <<hop, path>>
  Times,      \* times a probe may take
  SeqRange,   \* a hop has this many sequence numbers for itself (1 << 8)
  MaxProbes,  \* bound on the probes of a hop
  Protos, Modes  \* values of the protocol and of mtrMode to consider

ASSUME TraceAssumption ==
  /\ MaxHops \in Nat \ {0} /\ Dests \subseteq Nat
  /\ Times \subseteq Nat \ {0} /\ Times # {}
  /\ SeqRange \in Nat /\ MaxProbes \in Nat
  /\ 1 < MaxProbes /\ MaxProbes <= SeqRange  \* so that hop<<8 | seq is a sum
  /\ Protos \subseteq {"TCP", "ICMP"} /\ Modes \subseteq BOOLEAN

VARIABLES
  proto, mtrMode, dest,  \* the test, and how far away the destination is
  phase,     \* "discover", "probing" or "ended"
  reason,    \* what was sent on toStop
  isDone,    \* whether test.done is closed
  hop,       \* the hop being discovered
  gCurHops,  \* the hops there are, once that is known
  gHop,      \* [hop]: address, name and counters
  pc,        \* [hop]: where the probe of the hop is
  seq,       \* [hop]: its sequence number
  ear,       \* [hop]: whether somebody listens for its answer
  answer,    \* [hop]: the answer that was taken
  net        \* the answers under way

config == <<proto, mtrMode, dest>>
trace  == <<phase, reason, hop, gCurHops>>
vars   == <<config, trace, isDone, gHop, pc, seq, ear, answer, net>>

Hops   == 0 .. MaxHops - 1
Dest   == <<MaxHops, 0>>  \* the destination
NoAddr == <<>>
Addrs  == (Hops \X Paths) \cup {Dest}

Answers == [kind : {"exceeded", "reply"}, hop : Hops, seq : 0 .. SeqRange, from : Addrs]
NoAnswer == [kind |-> "none"]

HopData == [addr : Addrs \cup {NoAddr}, name : Addrs \cup {NoAddr},
            sent : Nat, rcvd : Nat, lost : Nat, best : Nat, worst : Nat, total : Nat]

Idle == [addr |-> NoAddr, name |-> NoAddr, sent |-> 0, rcvd |-> 0, lost |-> 0,
         best |-> 0, worst |-> 0, total |-> 0]

TypeOK ==
  /\ proto \in Protos /\ mtrMode \in Modes /\ dest \in Dests
  /\ phase \in {"discover", "probing", "ended"}
  /\ reason \in {"none", "done", "interrupt"} /\ isDone \in BOOLEAN
  /\ hop \in Hops /\ gCurHops \in 0 .. MaxHops
  /\ gHop \in [Hops -> HopData]
  /\ pc \in [Hops -> {"off", "idle", "dial", "wait", "ended"}]
  /\ seq \in [Hops -> 0 .. SeqRange]
  /\ ear \in [Hops -> BOOLEAN]
  /\ answer \in [Hops -> Answers \cup {NoAnswer}]
  /\ net \subseteq Answers

\* Discovery begins with the first hop; its probes have the sequence number 1.
Init ==
  /\ proto \in Protos /\ mtrMode \in Modes /\ dest \in Dests
  /\ phase = "discover" /\ reason = "none" /\ isDone = FALSE
  /\ hop = 0 /\ gCurHops = 0
  /\ gHop = [h \in Hops |-> Idle]
  /\ pc = [h \in Hops |-> IF h = 0 THEN "idle" ELSE "off"]
  /\ seq = [h \in Hops |-> 1]
  /\ ear = [h \in Hops |-> FALSE] /\ answer = [h \in Hops |-> NoAnswer]
  /\ net = {}

-----------------------------------------------------------------------------
(* The result of a probe.                                                   *)

Counted(field, h) ==
  IF phase = "discover" THEN UNCHANGED gHop  \* a local ethrHopData
  ELSE gHop' = [gHop EXCEPT ![h][field] = @ + 1]

genHopData(data, from, elapsed) ==
  [data EXCEPT !.addr = from,
               !.best = IF @ > elapsed THEN elapsed ELSE @,
               !.worst = IF @ < elapsed THEN elapsed ELSE @,
               !.total = @ + elapsed,
               !.rcvd = @ + 1]

\* What discovery keeps of an answer: the first best time is the time it took.
copyInitialHopData(from, elapsed) ==
  [Idle EXCEPT !.addr = from, !.name = from, !.best = elapsed]

\* After the last hop the probers start, or the test is over.
LastHop(h) ==
  /\ gCurHops' = h + 1
  /\ phase' = IF mtrMode THEN "probing" ELSE "ended"
  /\ reason' = IF mtrMode THEN reason ELSE "done"
  /\ pc' = [k \in Hops |->
             IF mtrMode /\ k <= h /\ gHop'[k].addr # NoAddr THEN "idle" ELSE "off"]
  /\ seq' = [k \in Hops |-> 0]
  /\ UNCHANGED hop

NextHop(h) ==
  /\ h + 1 < MaxHops
  /\ hop' = h + 1
  /\ pc' = [pc EXCEPT ![h] = "off", ![h + 1] = "idle"]
  /\ UNCHANGED <<phase, reason, gCurHops, seq>>

\* No hop was the last one.
GiveUp(h) ==
  /\ h + 1 = MaxHops
  /\ phase' = "ended" /\ reason' = "interrupt"
  /\ pc' = [pc EXCEPT ![h] = "off"]
  /\ UNCHANGED <<hop, gCurHops, seq>>

\* A prober is done with a probe.
ProbeOver(h) ==
  /\ pc' = [pc EXCEPT ![h] = "idle"]
  /\ seq' = [seq EXCEPT ![h] = @ + 1]
  /\ UNCHANGED trace

\* The probe of hop h was answered by `from`; isLast: by the destination.
Success(h, from, isLast) ==
  /\ \E elapsed \in Times :
       gHop' = [gHop EXCEPT ![h] =
                  IF phase = "discover" THEN copyInitialHopData(from, elapsed)
                  ELSE genHopData(@, from, elapsed)]
  /\ IF phase # "discover" THEN ProbeOver(h)
     ELSE IF isLast THEN LastHop(h)
     ELSE NextHop(h) \/ GiveUp(h)

Failure(h) ==
  IF phase # "discover" THEN ProbeOver(h) ELSE NextHop(h) \/ GiveUp(h)
-----------------------------------------------------------------------------
(* A probe over ICMP.                                                       *)

\* What may come back of a probe of hop h: nothing, or one answer.  A router tells
\* by what it sends back which probe it was; the echo has the hop in its body.
MayAnswer(h) ==
  \/ UNCHANGED net
  \/ \E from \in IF h < dest THEN {h} \X Paths ELSE {Dest} :
       /\ from = Dest => proto = "ICMP"
       /\ net' = net \cup {[kind |-> IF from = Dest THEN "reply" ELSE "exceeded",
                            hop |-> h, seq |-> seq[h], from |-> from]}

Probing(h) ==
  /\ pc[h] = "idle" /\ seq[h] < MaxProbes
  /\ phase = "discover" \/ ~isDone

\* A socket cannot be opened, or not be written to: nothing is counted.
SendFails(h) ==
  /\ Probing(h)
  /\ Failure(h)
  /\ UNCHANGED <<config, isDone, gHop, ear, answer, net>>

SendEcho(h) ==
  /\ proto = "ICMP" /\ Probing(h)
  /\ Counted("sent", h)
  /\ MayAnswer(h)
  /\ pc' = [pc EXCEPT ![h] = "wait"]
  /\ ear' = [ear EXCEPT ![h] = TRUE] /\ answer' = [answer EXCEPT ![h] = NoAnswer]
  /\ UNCHANGED <<config, trace, isDone, seq>>

-----------------------------------------------------------------------------
(* A probe over TCP.                                                        *)

\* The receiver goroutine listens before the connection is dialled.
StartDial(h) ==
  /\ proto = "TCP" /\ Probing(h)
  /\ MayAnswer(h)
  /\ pc' = [pc EXCEPT ![h] = "dial"]
  /\ ear' = [ear EXCEPT ![h] = TRUE] /\ answer' = [answer EXCEPT ![h] = NoAnswer]
  /\ UNCHANGED <<config, trace, isDone, gHop, seq>>

\* The destination accepts.  The receiver is left alone, and its socket closed.
DialSucceeds(h) ==
  /\ pc[h] = "dial" /\ h >= dest
  /\ ear' = [ear EXCEPT ![h] = FALSE]
  /\ \E elapsed \in Times :
       gHop' = [gHop EXCEPT ![h] =
                  IF phase = "discover" THEN copyInitialHopData(Dest, elapsed)
                  ELSE genHopData([gHop[h] EXCEPT !.sent = @ + 1], Dest, elapsed)]
  /\ answer' = [answer EXCEPT ![h] = NoAnswer]
  /\ IF phase = "discover" THEN LastHop(h) ELSE ProbeOver(h)
  /\ UNCHANGED <<config, isDone, net>>

\* Otherwise the receiver is waited for.
DialFails(h) ==
  /\ pc[h] = "dial"
  /\ Counted("sent", h)
  /\ pc' = [pc EXCEPT ![h] = "wait"]
  /\ UNCHANGED <<config, trace, isDone, seq, ear, answer, net>>

-----------------------------------------------------------------------------
(* Answers: icmpRecvMsg.                                                    *)

\* Faulty variants: the number of the probe, or the sender, does not matter.
MatchesHop(h, m) ==
  /\ phase # "discover" => m.from = gHop[h].addr
  /\ m.hop = h

MatchesProbe(h, m) ==
  /\ m.hop = h
  /\ proto = "TCP" \/ m.kind = "reply" \/ m.seq = seq[h]

\* The sequence number on the wire.
Wire(h, s) == h * SeqRange + s

\* Whether prober h takes the answer m.  Once the hop has an address, it must come
\* from there.  Echo requests that expired in transit are recognised by their sequence
\* number, echo replies by their body, connection attempts by their local port.
Matches(h, m) ==
  /\ phase # "discover" => m.from = gHop[h].addr
  /\ IF proto = "TCP" \/ m.kind = "reply" THEN m.hop = h
     ELSE Wire(m.hop, m.seq) = Wire(h, seq[h])

\* An answer arrives, and everybody who listens hears it.
Arrive(m) ==
  /\ net' = net \ {m}
  /\ LET takers == {h \in Hops : ear[h] /\ Matches(h, m)}
     IN /\ ear' = [h \in Hops |-> ear[h] /\ h \notin takers]
        /\ answer' = [h \in Hops |-> IF h \in takers THEN m ELSE answer[h]]
  /\ UNCHANGED <<config, trace, isDone, gHop, pc, seq>>

\* Faulty variant: only echo requests have a deadline.
EchoTimesOut(h) ==
  /\ ear[h] /\ proto = "ICMP"
  /\ ear' = [ear EXCEPT ![h] = FALSE]
  /\ UNCHANGED <<config, trace, isDone, gHop, pc, seq, answer, net>>

\* The deadline of the socket passes.
TimesOut(h) ==
  /\ ear[h]
  /\ ear' = [ear EXCEPT ![h] = FALSE]
  /\ UNCHANGED <<config, trace, isDone, gHop, pc, seq, answer, net>>

Answered(h) ==
  /\ pc[h] = "wait" /\ ~ear[h] /\ answer[h] # NoAnswer
  /\ Success(h, answer[h].from, answer[h].kind = "reply")
  /\ answer' = [answer EXCEPT ![h] = NoAnswer]
  /\ UNCHANGED <<config, isDone, ear, net>>

\* Faulty variant: the probe is forgotten.
NotCounted(h) ==
  /\ pc[h] = "wait" /\ ~ear[h] /\ answer[h] = NoAnswer
  /\ Failure(h)
  /\ UNCHANGED <<config, isDone, gHop, ear, answer, net>>

NotAnswered(h) ==
  /\ pc[h] = "wait" /\ ~ear[h] /\ answer[h] = NoAnswer
  /\ Counted("lost", h)
  /\ Failure(h)
  /\ UNCHANGED <<config, isDone, ear, answer, net>>

-----------------------------------------------------------------------------

\* runTest closes test.done: on a reason to stop, the timer, or a signal.
Close ==
  /\ ~isDone
  /\ isDone' = TRUE
  /\ UNCHANGED <<config, trace, gHop, pc, seq, ear, answer, net>>

SeesDone(h) ==
  /\ pc[h] = "idle" /\ phase = "probing" /\ isDone
  /\ pc' = [pc EXCEPT ![h] = "ended"]
  /\ UNCHANGED <<config, trace, isDone, gHop, seq, ear, answer, net>>

Works(h) ==
  \/ SendEcho(h) \/ StartDial(h) \/ DialFails(h)
  \/ TimesOut(h) \/ Answered(h) \/ NotAnswered(h) \/ SeesDone(h)

Next ==
  \/ \E h \in Hops : Works(h) \/ SendFails(h) \/ DialSucceeds(h)
  \/ \E m \in net : Arrive(m)
  \/ Close

\* Dials and sockets have deadlines, and goroutines run; nobody has to answer.
Spec == Init /\ [][Next]_vars /\ \A h \in Hops : WF_vars(Works(h))

-----------------------------------------------------------------------------
(* Properties. *)

\* The answer a prober has taken is one to its own hop, although it hears those to all
\* other hops; and if it comes from a router and to an echo request, it is one to the
\* probe under way, and not to an earlier one given up (client.go:1108-1155).
AnswersMatchProbes ==
  \A h \in Hops :
    pc[h] \in {"dial", "wait"} /\ answer[h] # NoAnswer =>
      /\ answer[h].hop = h
      /\ proto = "ICMP" /\ answer[h].kind = "exceeded" => answer[h].seq = seq[h]

\* The address of a hop is one the packets with its TTL get to, and it is the one its
\* name was looked up for, however the route changes under the probers; the last hop,
\* and no other one, is the destination (client.go:749-773, 905-906, 937-965).
RouteIsRight ==
  /\ \A h \in Hops :
       gHop[h].addr # NoAddr =>
         /\ IF h < dest THEN gHop[h].addr \in {h} \X Paths ELSE gHop[h].addr = Dest
         /\ gHop[h].name = gHop[h].addr
  /\ phase = "probing" \/ reason = "done" =>
       \A h \in Hops : gHop[h].addr = Dest <=> h = gCurHops - 1

\* Every probe sent is received, lost, or under way, and the average time of those
\* received is between the best and the worst, although discovery has set the best time
\* and nothing else (client.go:751-753, 817-824, 898-916).
ProbesAddUp ==
  \A h \in Hops :
    LET data == gHop[h]
    IN /\ data.sent = data.rcvd + data.lost
                         + (IF phase = "probing" /\ pc[h] = "wait" THEN 1 ELSE 0)
       /\ data.rcvd * data.best <= data.total /\ data.total <= data.rcvd * data.worst

\* Discovery ends, with or without an answer, and when the test is over all probers end,
\* whoever they are waiting for.
TracingEnds ==
  /\ <>(phase = "probing" \/ reason # "none")
  /\ [](isDone /\ phase = "probing" => <>(\A h \in Hops : pc[h] \in {"off", "ended"}))
=============================================================================
