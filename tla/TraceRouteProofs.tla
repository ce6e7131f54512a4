--------------------------- MODULE TraceRouteProofs ---------------------------
(***************************************************************************)
(* Proofs about TraceRoute, for any number of hops and probes, any routes, *)
(* any distances of the destination and any times a probe may take.        *)
(***************************************************************************)
EXTENDS TraceRoute, TLAPS

\* The senders an answer to a probe of hop h may have.
Senders(h) == IF h < dest THEN {h} \X Paths ELSE {Dest}

\* Discovery is at one hop, and has found the destination at none; a prober has an
\* address to probe; and nobody probes when the test is over.
PhaseInv ==
  /\ phase = "discover" =>
       /\ reason = "none"
       /\ \A k \in Hops \ {hop} : pc[k] = "off"
       /\ \A k \in Hops : /\ gHop[k].addr # Dest
                          /\ k >= hop => gHop[k].addr = NoAddr
  /\ phase = "probing" => \A k \in Hops : pc[k] # "off" => gHop[k].addr # NoAddr
  /\ phase = "ended" => \A k \in Hops : pc[k] = "off"

\* Who listens, or has an answer, has a probe under way, whose sequence number is one of
\* the hop's.
ProbeInv ==
  \A h \in Hops :
    /\ ear[h] \/ answer[h] # NoAnswer => pc[h] \in {"dial", "wait"}
    /\ pc[h] \in {"dial", "wait"} => seq[h] < MaxProbes

\* Answers come from where the probe got to, and the echo only from the destination.
NetInv ==
  \A m \in net : /\ m.seq < SeqRange
                 /\ m.from \in Senders(m.hop)
                 /\ m.kind = "reply" <=> m.from = Dest

\* So do those that were taken, which are answers to the taker's probe, and those to a
\* prober come from the address it probes.
AnswerInv ==
  \A h \in Hops : answer[h] # NoAnswer =>
    /\ answer[h].hop = h
    /\ answer[h].from \in Senders(h)
    /\ answer[h].kind = "reply" <=> answer[h].from = Dest
    /\ proto = "ICMP" /\ answer[h].kind = "exceeded" => answer[h].seq = seq[h]
    /\ phase = "probing" => answer[h].from = gHop[h].addr

\* The counters of one hop, with so many of its probes under way.
AddsUp(data, underWay) ==
  /\ data.sent = data.rcvd + data.lost + underWay
  /\ data.rcvd * data.best <= data.total /\ data.total <= data.rcvd * data.worst

CountsNothing(data) == data.sent = 0 /\ data.rcvd = 0 /\ data.lost = 0 /\ data.total = 0

\* Discovery leaves all counters at zero.
CountInv ==
  \A h \in Hops :
    /\ AddsUp(gHop[h], IF phase = "probing" /\ pc[h] = "wait" THEN 1 ELSE 0)
    /\ phase # "probing" => CountsNothing(gHop[h])

\* The inductive invariant.
IInv == TypeOK /\ PhaseInv /\ ProbeInv /\ NetInv /\ AnswerInv /\ RouteIsRight /\ CountInv

-----------------------------------------------------------------------------
(* The operators of the model.                                              *)

\* The sequence numbers on the wire tell hops and probes apart: each hop has SeqRange of
\* its own, so that hop<<8 | seq is not that of another one (client.go:1062, 1117).
LEMMA WireIsInjective ==
  ASSUME NEW g \in Nat, NEW h \in Nat, NEW r \in 0 .. SeqRange - 1, NEW s \in 0 .. SeqRange - 1,
         Wire(g, r) = Wire(h, s)
  PROVE  g = h /\ r = s
<1>0. SeqRange \in Nat
      BY TraceAssumption
<1>1. ASSUME NEW a \in Nat, NEW b \in Nat, a < b
      PROVE  a * SeqRange + SeqRange <= b * SeqRange
  <2>1. (b - a) * SeqRange >= SeqRange
        BY <1>0, <1>1
  <2>2. (b - a) * SeqRange = b * SeqRange - a * SeqRange
        BY <1>0
  <2> QED  BY <1>0, <2>1, <2>2
<1>2. g * SeqRange + r = h * SeqRange + s
      BY DEF Wire
<1>3. g * SeqRange \in Int /\ h * SeqRange \in Int
      BY <1>0
<1>4. CASE g < h
      BY <1>0, <1>1, <1>2, <1>3, <1>4
<1>5. CASE h < g
      BY <1>0, <1>1, <1>2, <1>3, <1>5
<1> QED  BY <1>2, <1>3, <1>4, <1>5

\* The destination, a router and no address at all are three different things.
LEMMA AddressesDiffer ==
  ASSUME NEW h \in Hops
  PROVE  /\ Senders(h) \subseteq Addrs /\ Dest \in Addrs
         /\ NoAddr \notin Addrs
         /\ Dest \in Senders(h) => ~(h < dest)
<1>1. \A p \in Paths : <<h, p>> # Dest
      BY TraceAssumption DEF Hops, Dest
<1>2. \A a \in Addrs : a # NoAddr
  <2>1. \A k, p : <<k, p>> # <<>>
        OBVIOUS
  <2> QED  BY <2>1 DEF Addrs, NoAddr, Dest
<1> QED  BY <1>1, <1>2 DEF Senders, Addrs

\* A hop's record of answers: what one more answer does to it.
LEMMA AnswerCounted ==
  ASSUME NEW data \in HopData, NEW from \in Addrs, NEW elapsed \in Times
  PROVE  LET now == genHopData(data, from, elapsed)
         IN /\ now \in HopData
            /\ now.addr = from /\ now.name = data.name
            /\ AddsUp(data, 1) => AddsUp(now, 0)
<1> DEFINE now == genHopData(data, from, elapsed)
<1>1. elapsed \in Nat
      BY TraceAssumption
<1>2. /\ now.addr = from /\ now.name = data.name
      /\ now.sent = data.sent /\ now.lost = data.lost
      /\ now.rcvd = data.rcvd + 1 /\ now.total = data.total + elapsed
      /\ now.best = IF data.best > elapsed THEN elapsed ELSE data.best
      /\ now.worst = IF data.worst < elapsed THEN elapsed ELSE data.worst
      BY DEF genHopData, HopData
<1>3. /\ data.rcvd \in Nat /\ data.best \in Nat /\ data.worst \in Nat /\ data.total \in Nat
      /\ now.best \in Nat /\ now.worst \in Nat
      BY <1>1, <1>2 DEF HopData
<1>4. now \in HopData
  <2>1. ASSUME NEW b \in Nat, NEW w \in Nat, NEW t \in Nat, NEW r \in Nat
        PROVE  [data EXCEPT !.addr = from, !.best = b, !.worst = w, !.total = t, !.rcvd = r]
                 \in HopData
        BY DEF HopData
  <2>2. /\ (IF data.best > elapsed THEN elapsed ELSE data.best) \in Nat
        /\ (IF data.worst < elapsed THEN elapsed ELSE data.worst) \in Nat
        /\ data.total + elapsed \in Nat /\ data.rcvd + 1 \in Nat
        BY <1>1, <1>3
  <2> QED  BY <2>1, <2>2 DEF genHopData
<1>5. /\ now.best <= data.best /\ now.best <= elapsed
      /\ data.worst <= now.worst /\ elapsed <= now.worst
      BY <1>1, <1>2, <1>3
<1> HIDE DEF now
<1>6. ASSUME NEW n \in Nat, NEW a \in Nat, NEW b \in Nat, a <= b
      PROVE  n * a \in Nat /\ n * b \in Nat /\ n * a <= n * b /\ (n + 1) * a = n * a + a
      BY <1>6
<1>7. ASSUME data.rcvd * data.best <= data.total PROVE now.rcvd * now.best <= now.total
  <2>1. /\ data.rcvd * now.best <= data.rcvd * data.best
        /\ (data.rcvd + 1) * now.best = data.rcvd * now.best + now.best
        /\ data.rcvd * now.best \in Nat /\ data.rcvd * data.best \in Nat
        BY <1>3, <1>5, <1>6
  <2> QED  BY <1>1, <1>2, <1>3, <1>5, <1>7, <2>1
<1>8. ASSUME data.total <= data.rcvd * data.worst PROVE now.total <= now.rcvd * now.worst
  <2>1. /\ data.rcvd * data.worst <= data.rcvd * now.worst
        /\ (data.rcvd + 1) * now.worst = data.rcvd * now.worst + now.worst
        /\ data.rcvd * now.worst \in Nat /\ data.rcvd * data.worst \in Nat
    <3>1. data.rcvd * data.worst <= data.rcvd * now.worst
          BY <1>3, <1>5, <1>6
    <3>2. (data.rcvd + 1) * now.worst = data.rcvd * now.worst + now.worst
          BY <1>3, <1>6
    <3>3. data.rcvd * now.worst \in Nat /\ data.rcvd * data.worst \in Nat
          BY <1>3, <1>5, <1>6
    <3> QED  BY <3>1, <3>2, <3>3
  <2> QED  BY <1>1, <1>2, <1>3, <1>5, <1>8, <2>1
<1>9. ASSUME data.sent = data.rcvd + data.lost + 1 PROVE now.sent = now.rcvd + now.lost + 0
  <2>1. data.rcvd \in Nat /\ data.lost \in Nat
        BY DEF HopData
  <2> QED  BY <1>2, <1>9, <2>1
<1> QED  BY <1>2, <1>4, <1>7, <1>8, <1>9 DEF now, AddsUp

\* What discovery keeps of an answer counts nothing.
LEMMA AnswerKept ==
  ASSUME NEW from \in Addrs, NEW elapsed \in Times
  PROVE  LET data == copyInitialHopData(from, elapsed)
         IN /\ data \in HopData
            /\ data.addr = from /\ data.name = from
            /\ CountsNothing(data)
<1>1. elapsed \in Nat
      BY TraceAssumption
<1> QED  BY <1>1 DEF copyInitialHopData, Idle, HopData, CountsNothing

\* Nothing adds up, and a probe more that is sent is under way, and one that is lost no
\* more.
LEMMA ZeroAddsUp ==
  ASSUME NEW data \in HopData, CountsNothing(data)
  PROVE  AddsUp(data, 0)
<1>1. data.best \in Nat /\ data.worst \in Nat
      BY DEF HopData
<1>2. 0 * data.best = 0 /\ 0 * data.worst = 0
      BY <1>1
<1> QED  BY <1>2 DEF AddsUp, CountsNothing

LEMMA OneMoreOrLess ==
  ASSUME NEW data \in HopData
  PROVE  /\ AddsUp(data, 0) => AddsUp([data EXCEPT !.sent = @ + 1], 1)
         /\ AddsUp(data, 1) => AddsUp([data EXCEPT !.lost = @ + 1], 0)
<1>1. data.sent \in Nat /\ data.rcvd \in Nat /\ data.lost \in Nat
      BY DEF HopData
<1>2. ASSUME AddsUp(data, 0) PROVE AddsUp([data EXCEPT !.sent = @ + 1], 1)
  <2> DEFINE now == [data EXCEPT !.sent = @ + 1]
  <2>1. /\ now.sent = data.sent + 1 /\ now.lost = data.lost /\ now.rcvd = data.rcvd
        /\ now.best = data.best /\ now.worst = data.worst /\ now.total = data.total
        BY DEF HopData
  <2> HIDE DEF now
  <2>2. data.sent = data.rcvd + data.lost + 0
        BY <1>2 DEF AddsUp
  <2>3. now.sent = now.rcvd + now.lost + 1
        BY <1>1, <2>1, <2>2
  <2>4. AddsUp(now, 1)
        BY <1>2, <2>1, <2>3 DEF AddsUp
  <2> QED  BY <2>4 DEF now
<1>3. ASSUME AddsUp(data, 1) PROVE AddsUp([data EXCEPT !.lost = @ + 1], 0)
  <2> DEFINE now == [data EXCEPT !.lost = @ + 1]
  <2>1. /\ now.sent = data.sent /\ now.lost = data.lost + 1 /\ now.rcvd = data.rcvd
        /\ now.best = data.best /\ now.worst = data.worst /\ now.total = data.total
        BY DEF HopData
  <2> HIDE DEF now
  <2>2. data.sent = data.rcvd + data.lost + 1
        BY <1>3 DEF AddsUp
  <2>3. now.sent = now.rcvd + now.lost + 0
        BY <1>1, <2>1, <2>2
  <2>4. AddsUp(now, 0)
        BY <1>3, <2>1, <2>3 DEF AddsUp
  <2> QED  BY <2>4 DEF now
<1> QED  BY <1>2, <1>3

\* A probe is over: a prober is ready for the next one, and discovery goes on to the next
\* hop or gives up.
LEMMA AfterFailure ==
  ASSUME TypeOK, PhaseInv, NEW h \in Hops, pc[h] # "off", Failure(h)
  PROVE  \/ phase = "probing" /\ ProbeOver(h)
         \/ phase = "discover" /\ h = hop /\ (NextHop(h) \/ GiveUp(h))
BY DEF TypeOK, PhaseInv, Failure

\* A prober counts one probe more; discovery counts none.
LEMMA CountedOnce ==
  ASSUME TypeOK, NEW h \in Hops, NEW field \in {"sent", "lost"}, Counted(field, h)
  PROVE  /\ gHop' \in [Hops -> HopData]
         /\ phase = "discover" => gHop' = gHop
         /\ phase # "discover" => gHop' = [gHop EXCEPT ![h][field] = @ + 1]
         /\ \A k \in Hops : /\ gHop'[k].addr = gHop[k].addr /\ gHop'[k].name = gHop[k].name
                            /\ gHop'[k].rcvd = gHop[k].rcvd /\ gHop'[k].best = gHop[k].best
                            /\ gHop'[k].worst = gHop[k].worst /\ gHop'[k].total = gHop[k].total
<1>1. CASE phase = "discover"
      BY <1>1 DEF Counted, TypeOK
<1>2. CASE phase # "discover"
  <2>1. gHop' = [gHop EXCEPT ![h][field] = @ + 1]
        BY <1>2 DEF Counted
  <2>2. gHop[h] \in HopData
        BY DEF TypeOK
  <2>3. [gHop[h] EXCEPT ![field] = @ + 1] \in HopData
        BY <2>2 DEF HopData
  <2>4. gHop' = [gHop EXCEPT ![h] = [gHop[h] EXCEPT ![field] = @ + 1]]
        BY <2>1
  <2>5. gHop' \in [Hops -> HopData]
        BY <2>3, <2>4 DEF TypeOK
  <2>6. \A k \in Hops : gHop'[k] = IF k = h THEN [gHop[h] EXCEPT ![field] = @ + 1] ELSE gHop[k]
        BY <2>4 DEF TypeOK
  <2> QED  BY <1>2, <2>1, <2>2, <2>5, <2>6 DEF HopData
<1> QED  BY <1>1, <1>2

-----------------------------------------------------------------------------
(* The two ways to an answer.                                               *)

\* An answer that was taken: it is from the address a prober probes; it makes discovery
\* stop if it is from the destination, and go on if it is not.
LEMMA AfterAnswer ==
  ASSUME TypeOK, PhaseInv, AnswerInv, NEW h \in Hops, Answered(h)
  PROVE  /\ pc[h] = "wait" /\ answer[h].from \in Senders(h)
         /\ gHop' \in [Hops -> HopData]
         /\ \A k \in Hops \ {h} : gHop'[k] = gHop[k]
         /\ gHop'[h].addr = answer[h].from
         /\ phase = "discover" => gHop'[h].name = gHop'[h].addr
         /\ phase # "discover" => gHop'[h].name = gHop[h].name
         /\ phase = "discover" => CountsNothing(gHop'[h])
         /\ phase # "discover" => (AddsUp(gHop[h], 1) => AddsUp(gHop'[h], 0))
         /\ \/ phase = "probing" /\ ProbeOver(h) /\ gHop'[h].addr = gHop[h].addr
            \/ phase = "discover" /\ LastHop(h) /\ gHop'[h].addr = Dest
            \/ phase = "discover" /\ (NextHop(h) \/ GiveUp(h)) /\ gHop'[h].addr # Dest
<1> DEFINE from == answer[h].from
<1>1. /\ pc[h] = "wait" /\ answer[h] # NoAnswer
      /\ Success(h, from, answer[h].kind = "reply")
      BY DEF Answered
<1>2. /\ from \in Senders(h)
      /\ answer[h].kind = "reply" <=> from = Dest
      /\ phase = "probing" => from = gHop[h].addr
      BY <1>1 DEF AnswerInv
<1>3. phase \in {"discover", "probing"}
      BY <1>1 DEF TypeOK, PhaseInv
<1>4. PICK elapsed \in Times :
        gHop' = [gHop EXCEPT ![h] =
                   IF phase = "discover" THEN copyInitialHopData(from, elapsed)
                   ELSE genHopData(gHop[h], from, elapsed)]
      BY <1>1 DEF Success
<1>5. gHop[h] \in HopData /\ from \in Addrs
      BY <1>2, AddressesDiffer DEF TypeOK
<1> HIDE DEF from
<1>6. /\ copyInitialHopData(from, elapsed) \in HopData
      /\ copyInitialHopData(from, elapsed).addr = from
      /\ copyInitialHopData(from, elapsed).name = from
      /\ CountsNothing(copyInitialHopData(from, elapsed))
      BY <1>5, AnswerKept
<1>7. /\ genHopData(gHop[h], from, elapsed) \in HopData
      /\ genHopData(gHop[h], from, elapsed).addr = from
      /\ genHopData(gHop[h], from, elapsed).name = gHop[h].name
      /\ AddsUp(gHop[h], 1) => AddsUp(genHopData(gHop[h], from, elapsed), 0)
      BY <1>5, AnswerCounted
<1>8. gHop'[h] = IF phase = "discover" THEN copyInitialHopData(from, elapsed)
                 ELSE genHopData(gHop[h], from, elapsed)
      BY <1>4 DEF TypeOK
<1>9. gHop' \in [Hops -> HopData] /\ \A k \in Hops \ {h} : gHop'[k] = gHop[k]
      BY <1>4, <1>6, <1>7 DEF TypeOK
<1>10. \/ phase = "probing" /\ ProbeOver(h)
       \/ phase = "discover" /\ LastHop(h) /\ answer[h].kind = "reply"
       \/ phase = "discover" /\ (NextHop(h) \/ GiveUp(h)) /\ answer[h].kind # "reply"
      BY <1>1, <1>3 DEF Success
<1> QED  BY <1>1, <1>2, <1>6, <1>7, <1>8, <1>9, <1>10 DEF from

\* The destination accepts a connection: it is the address a prober probes, and makes
\* discovery stop.
LEMMA AfterDial ==
  ASSUME TypeOK, PhaseInv, RouteIsRight, NEW h \in Hops, DialSucceeds(h)
  PROVE  /\ pc[h] = "dial" /\ Dest \in Senders(h)
         /\ gHop' \in [Hops -> HopData]
         /\ \A k \in Hops \ {h} : gHop'[k] = gHop[k]
         /\ gHop'[h].addr = Dest
         /\ phase = "discover" => gHop'[h].name = gHop'[h].addr
         /\ phase # "discover" => gHop'[h].name = gHop[h].name
         /\ phase = "discover" => CountsNothing(gHop'[h])
         /\ phase # "discover" => (AddsUp(gHop[h], 0) => AddsUp(gHop'[h], 0))
         /\ \/ phase = "probing" /\ ProbeOver(h) /\ gHop'[h].addr = gHop[h].addr
            \/ phase = "discover" /\ LastHop(h)
<1> DEFINE data == [gHop[h] EXCEPT !.sent = @ + 1]
<1>1. pc[h] = "dial" /\ h >= dest /\ ~(h < dest)
  <2>1. pc[h] = "dial" /\ h >= dest /\ h \in Int /\ dest \in Int
        BY TraceAssumption DEF DialSucceeds, TypeOK, Hops
  <2> QED  BY <2>1
<1>2. phase \in {"discover", "probing"}
      BY <1>1 DEF TypeOK, PhaseInv
<1>3. PICK elapsed \in Times :
        gHop' = [gHop EXCEPT ![h] =
                   IF phase = "discover" THEN copyInitialHopData(Dest, elapsed)
                   ELSE genHopData([gHop[h] EXCEPT !.sent = @ + 1], Dest, elapsed)]
      BY DEF DialSucceeds
<1>4. /\ data \in HopData /\ data.name = gHop[h].name
      /\ AddsUp(gHop[h], 0) => AddsUp(data, 1)
  <2>1. gHop[h] \in HopData
        BY DEF TypeOK
  <2>2. data \in HopData /\ data.name = gHop[h].name
        BY <2>1 DEF HopData
  <2> QED  BY <2>1, <2>2, OneMoreOrLess
<1>5. gHop' = [gHop EXCEPT ![h] = IF phase = "discover" THEN copyInitialHopData(Dest, elapsed)
                                  ELSE genHopData(data, Dest, elapsed)]
      BY <1>3
<1> HIDE DEF data
<1>6. /\ copyInitialHopData(Dest, elapsed) \in HopData
      /\ copyInitialHopData(Dest, elapsed).addr = Dest
      /\ copyInitialHopData(Dest, elapsed).name = Dest
      /\ CountsNothing(copyInitialHopData(Dest, elapsed))
      BY AnswerKept DEF Addrs
<1>7. /\ genHopData(data, Dest, elapsed) \in HopData
      /\ genHopData(data, Dest, elapsed).addr = Dest
      /\ genHopData(data, Dest, elapsed).name = data.name
      /\ AddsUp(data, 1) => AddsUp(genHopData(data, Dest, elapsed), 0)
      BY <1>4, AnswerCounted DEF Addrs
<1>8. gHop'[h] = IF phase = "discover" THEN copyInitialHopData(Dest, elapsed)
                 ELSE genHopData(data, Dest, elapsed)
      BY <1>5 DEF TypeOK
<1>9. gHop' \in [Hops -> HopData] /\ \A k \in Hops \ {h} : gHop'[k] = gHop[k]
      BY <1>5, <1>6, <1>7 DEF TypeOK
<1>10. phase = "probing" => gHop[h].addr = Dest
      BY <1>1 DEF PhaseInv, RouteIsRight
<1>11. \/ phase = "probing" /\ ProbeOver(h)
       \/ phase = "discover" /\ LastHop(h)
      BY <1>2 DEF DialSucceeds
<1> QED  BY <1>1, <1>4, <1>6, <1>7, <1>8, <1>9, <1>10, <1>11 DEF Senders

-----------------------------------------------------------------------------
(* Types.                                                                   *)

LEMMA TypesInit == Init => TypeOK
<1> SUFFICES ASSUME Init PROVE TypeOK
    OBVIOUS
<1>1. 0 \in Hops /\ 1 \in 0 .. SeqRange /\ 0 \in 0 .. MaxHops
      BY TraceAssumption DEF Hops
<1>2. Idle \in HopData
      BY DEF Idle, HopData
<1>3. gHop \in [Hops -> HopData]
      BY <1>2 DEF Init
<1>4. pc \in [Hops -> {"off", "idle", "dial", "wait", "ended"}]
      BY DEF Init
<1>5. seq \in [Hops -> 0 .. SeqRange]
      BY <1>1 DEF Init
<1> QED  BY <1>1, <1>3, <1>4, <1>5 DEF Init, TypeOK

\* What is sent back of a probe under way.
LEMMA AnswersAreTyped ==
  ASSUME TypeOK, NEW h \in Hops, MayAnswer(h)
  PROVE  net' \subseteq Answers
<1>1. (IF h < dest THEN {h} \X Paths ELSE {Dest}) \subseteq Addrs
      BY DEF Addrs
<1>2. seq[h] \in 0 .. SeqRange
      BY DEF TypeOK
<1>3. ASSUME NEW from \in Addrs,
             net' = net \cup {[kind |-> IF from = Dest THEN "reply" ELSE "exceeded",
                               hop |-> h, seq |-> seq[h], from |-> from]}
      PROVE  net' \subseteq Answers
      BY <1>2, <1>3 DEF Answers, TypeOK
<1> QED  BY <1>1, <1>3 DEF MayAnswer, TypeOK

\* The parts of the state that the end of a probe changes.
LEMMA EndOfProbeIsTyped ==
  ASSUME TypeOK, ProbeInv, NEW h \in Hops, seq[h] < MaxProbes,
         ProbeOver(h) \/ LastHop(h) \/ NextHop(h) \/ GiveUp(h)
  PROVE  /\ phase' \in {"discover", "probing", "ended"}
         /\ reason' \in {"none", "done", "interrupt"}
         /\ hop' \in Hops /\ gCurHops' \in 0 .. MaxHops
         /\ pc' \in [Hops -> {"off", "idle", "dial", "wait", "ended"}]
         /\ seq' \in [Hops -> 0 .. SeqRange]
<1> USE TraceAssumption DEF TypeOK, Hops, trace
<1>1. CASE ProbeOver(h)
  <2>1. seq[h] + 1 \in 0 .. SeqRange
        OBVIOUS
  <2> QED  BY <1>1, <2>1 DEF ProbeOver
<1>2. CASE LastHop(h)
      BY <1>2 DEF LastHop
<1>3. CASE NextHop(h)
      BY <1>3 DEF NextHop
<1>4. CASE GiveUp(h)
      BY <1>4 DEF GiveUp
<1> QED  BY <1>1, <1>2, <1>3, <1>4

LEMMA TypesStep ==
  TypeOK /\ PhaseInv /\ ProbeInv /\ AnswerInv /\ RouteIsRight /\ [Next]_vars => TypeOK'
<1> SUFFICES ASSUME TypeOK, PhaseInv, ProbeInv, AnswerInv, RouteIsRight, [Next]_vars
             PROVE  TypeOK'
    OBVIOUS
<1>0. UNCHANGED config => proto' \in Protos /\ mtrMode' \in Modes /\ dest' \in Dests
      BY DEF config, TypeOK
<1>1. ASSUME NEW h \in Hops, SendFails(h) PROVE TypeOK'
  <2>1. pc[h] # "off" /\ seq[h] < MaxProbes
        BY <1>1 DEF SendFails, Probing
  <2> QED  BY <1>0, <1>1, <2>1, AfterFailure, EndOfProbeIsTyped DEF SendFails, TypeOK
<1>2. ASSUME NEW h \in Hops, SendEcho(h) PROVE TypeOK'
  <2>1. gHop' \in [Hops -> HopData] /\ net' \subseteq Answers
        BY <1>2, CountedOnce, AnswersAreTyped DEF SendEcho
  <2> QED  BY <1>0, <1>2, <2>1 DEF SendEcho, trace, TypeOK
<1>3. ASSUME NEW h \in Hops, StartDial(h) PROVE TypeOK'
  <2>1. net' \subseteq Answers
        BY <1>3, AnswersAreTyped DEF StartDial
  <2> QED  BY <1>0, <1>3, <2>1 DEF StartDial, trace, TypeOK
<1>4. ASSUME NEW h \in Hops, DialSucceeds(h) PROVE TypeOK'
  <2>1. seq[h] < MaxProbes
        BY <1>4 DEF DialSucceeds, ProbeInv
  <2>2. (ProbeOver(h) \/ LastHop(h)) /\ gHop' \in [Hops -> HopData]
        BY <1>4, AfterDial
  <2> QED  BY <1>0, <1>4, <2>1, <2>2, EndOfProbeIsTyped DEF DialSucceeds, TypeOK
<1>5. ASSUME NEW h \in Hops, DialFails(h) PROVE TypeOK'
  <2>1. gHop' \in [Hops -> HopData]
        BY <1>5, CountedOnce DEF DialFails
  <2> QED  BY <1>0, <1>5, <2>1 DEF DialFails, trace, TypeOK
<1>6. ASSUME NEW h \in Hops, TimesOut(h) PROVE TypeOK'
      BY <1>0, <1>6 DEF TimesOut, trace, TypeOK
<1>7. ASSUME NEW h \in Hops, Answered(h) PROVE TypeOK'
  <2>1. seq[h] < MaxProbes
        BY <1>7 DEF Answered, ProbeInv
  <2>2. /\ ProbeOver(h) \/ LastHop(h) \/ NextHop(h) \/ GiveUp(h)
        /\ gHop' \in [Hops -> HopData]
        BY <1>7, AfterAnswer
  <2> QED  BY <1>0, <1>7, <2>1, <2>2, EndOfProbeIsTyped DEF Answered, TypeOK
<1>8. ASSUME NEW h \in Hops, NotAnswered(h) PROVE TypeOK'
  <2>1. pc[h] # "off" /\ seq[h] < MaxProbes
        BY <1>8 DEF NotAnswered, ProbeInv
  <2>2. gHop' \in [Hops -> HopData]
        BY <1>8, CountedOnce DEF NotAnswered
  <2> QED  BY <1>0, <1>8, <2>1, <2>2, AfterFailure, EndOfProbeIsTyped DEF NotAnswered, TypeOK
<1>9. ASSUME NEW h \in Hops, SeesDone(h) PROVE TypeOK'
      BY <1>0, <1>9 DEF SeesDone, trace, TypeOK
<1>10. ASSUME NEW m \in net, Arrive(m) PROVE TypeOK'
      BY <1>0, <1>10 DEF Arrive, trace, TypeOK
<1>11. CASE Close
      BY <1>0, <1>11 DEF Close, trace, TypeOK
<1>12. CASE UNCHANGED vars
      BY <1>0, <1>12 DEF vars, trace, TypeOK
<1> QED  BY <1>1, <1>2, <1>3, <1>4, <1>5, <1>6, <1>7, <1>8, <1>9, <1>10, <1>11, <1>12
         DEF Next, Works

-----------------------------------------------------------------------------
(* Where a probe leads to.                                                  *)

LEMMA PhaseAfterProbe ==
  ASSUME TypeOK, PhaseInv, NEW h \in Hops, pc[h] # "off",
         \A k \in Hops \ {h} : gHop'[k] = gHop[k],
         \/ phase = "probing" /\ ProbeOver(h) /\ gHop'[h].addr # NoAddr
         \/ phase = "discover" /\ LastHop(h)
         \/ phase = "discover" /\ (NextHop(h) \/ GiveUp(h)) /\ gHop'[h].addr # Dest
  PROVE  PhaseInv'
<1>1. CASE phase = "probing" /\ ProbeOver(h) /\ gHop'[h].addr # NoAddr
  <2>1. phase' = "probing" /\ \A k \in Hops \ {h} : pc'[k] = pc[k]
        BY <1>1 DEF ProbeOver, trace, TypeOK
  <2> QED  BY <1>1, <2>1 DEF PhaseInv
<1>2. CASE phase = "discover" /\ LastHop(h)
  <2>1. \A k \in Hops : pc'[k] = IF mtrMode /\ k <= h /\ gHop'[k].addr # NoAddr
                                 THEN "idle" ELSE "off"
        BY <1>2 DEF LastHop
  <2>2. phase' = IF mtrMode THEN "probing" ELSE "ended"
        BY <1>2 DEF LastHop
  <2> QED  BY <2>1, <2>2 DEF PhaseInv
<1>3. ASSUME phase = "discover", NextHop(h), gHop'[h].addr # Dest PROVE PhaseInv'
  <2>1. hop = h
        BY <1>3 DEF PhaseInv, TypeOK
  <2>2. phase' = "discover" /\ reason' = reason /\ hop' = h + 1 /\ h \in Int
        BY <1>3 DEF NextHop, Hops
  <2>3. \A k \in Hops \ {h + 1} : pc'[k] = "off"
        BY <1>3, <2>1 DEF NextHop, PhaseInv, TypeOK
  <2>4. \A k \in Hops : gHop'[k].addr # Dest /\ (k >= h + 1 => gHop'[k].addr = NoAddr)
    <3>1. \A k \in Hops : k \in Int
          BY DEF Hops
    <3> QED  BY <1>3, <2>1, <2>2, <3>1 DEF PhaseInv
  <2> QED  BY <1>3, <2>2, <2>3, <2>4 DEF PhaseInv
<1>4. ASSUME phase = "discover", GiveUp(h) PROVE PhaseInv'
  <2>1. hop = h
        BY <1>4 DEF PhaseInv, TypeOK
  <2>2. phase' = "ended" /\ \A k \in Hops : pc'[k] = "off"
        BY <1>4, <2>1 DEF GiveUp, PhaseInv, TypeOK
  <2> QED  BY <2>2 DEF PhaseInv
<1> QED  BY <1>1, <1>2, <1>3, <1>4

\* A step that does not end a probe, and leaves the addresses alone.
LEMMA PhaseKept ==
  ASSUME PhaseInv, UNCHANGED trace,
         \A k \in Hops : gHop'[k].addr = gHop[k].addr /\ (pc'[k] = "off" <=> pc[k] = "off")
  PROVE  PhaseInv'
BY DEF PhaseInv, trace

LEMMA PhaseStep ==
  TypeOK /\ PhaseInv /\ AnswerInv /\ RouteIsRight /\ [Next]_vars => PhaseInv'
<1> SUFFICES ASSUME TypeOK, PhaseInv, AnswerInv, RouteIsRight, [Next]_vars PROVE PhaseInv'
    OBVIOUS
<1>0. Dest # NoAddr
      BY DEF Dest, NoAddr
<1>1. ASSUME NEW h \in Hops, SendFails(h) PROVE PhaseInv'
  <2>1. pc[h] # "off" /\ gHop' = gHop /\ Failure(h)
        BY <1>1 DEF SendFails, Probing
  <2>2. phase = "discover" => gHop[h].addr # Dest
        BY DEF PhaseInv
  <2>3. phase = "probing" => gHop[h].addr # NoAddr
        BY <2>1 DEF PhaseInv
  <2> QED  BY <2>1, <2>2, <2>3, AfterFailure, PhaseAfterProbe
<1>2. ASSUME NEW h \in Hops, SendEcho(h) \/ StartDial(h) \/ DialFails(h) PROVE PhaseInv'
  <2>1. \A k \in Hops : gHop'[k].addr = gHop[k].addr
        BY <1>2, CountedOnce DEF SendEcho, StartDial, DialFails
  <2>2. UNCHANGED trace /\ \A k \in Hops : pc'[k] = "off" <=> pc[k] = "off"
        BY <1>2 DEF SendEcho, StartDial, DialFails, Probing, TypeOK
  <2> QED  BY <2>1, <2>2, PhaseKept
<1>3. ASSUME NEW h \in Hops, DialSucceeds(h) PROVE PhaseInv'
      BY <1>0, <1>3, AfterDial, PhaseAfterProbe
<1>4. ASSUME NEW h \in Hops, Answered(h) PROVE PhaseInv'
  <2>1. gHop'[h].addr # NoAddr
        BY <1>4, AfterAnswer, AddressesDiffer
  <2>2. pc[h] # "off"
        BY <1>4 DEF Answered
  <2> QED  BY <1>4, <2>1, <2>2, AfterAnswer, PhaseAfterProbe
<1>5. ASSUME NEW h \in Hops, NotAnswered(h) PROVE PhaseInv'
  <2>1. pc[h] # "off" /\ Failure(h)
        BY <1>5 DEF NotAnswered
  <2>2. Counted("lost", h)
        BY <1>5 DEF NotAnswered
  <2>3. CASE phase = "discover"
    <3>1. gHop' = gHop /\ gHop[h].addr # Dest
          BY <2>2, <2>3, CountedOnce DEF PhaseInv
    <3> QED  BY <2>1, <2>3, <3>1, AfterFailure, PhaseAfterProbe
  <2>4. CASE phase # "discover"
    <3>1. phase = "probing" /\ ProbeOver(h)
          BY <2>1, <2>4, AfterFailure
    <3>2. \A k \in Hops : gHop'[k].addr = gHop[k].addr
          BY <2>2, CountedOnce
    <3>3. UNCHANGED trace /\ \A k \in Hops : pc'[k] = "off" <=> pc[k] = "off"
          BY <2>1, <3>1 DEF ProbeOver, TypeOK
    <3> QED  BY <3>2, <3>3, PhaseKept
  <2> QED  BY <2>3, <2>4
<1>6. ASSUME NEW h \in Hops, TimesOut(h) \/ SeesDone(h) PROVE PhaseInv'
  <2>1. UNCHANGED <<trace, gHop>> /\ \A k \in Hops : pc'[k] = "off" <=> pc[k] = "off"
        BY <1>6 DEF TimesOut, SeesDone, TypeOK
  <2> QED  BY <2>1, PhaseKept
<1>7. ASSUME NEW m \in net, Arrive(m) PROVE PhaseInv'
      BY <1>7, PhaseKept DEF Arrive
<1>8. CASE Close
      BY <1>8, PhaseKept DEF Close
<1>9. CASE UNCHANGED vars
      BY <1>9, PhaseKept DEF vars
<1> QED  BY <1>1, <1>2, <1>3, <1>4, <1>5, <1>6, <1>7, <1>8, <1>9 DEF Next, Works

-----------------------------------------------------------------------------
(* Probes and their answers.                                                *)

\* The end of the probe of hop h, whatever it leads to, with nobody left to listen for it.
ProbeEnds(h) ==
  /\ pc[h] # "off"
  /\ \A k \in Hops \ {h} : ear'[k] = ear[k] /\ answer'[k] = answer[k] /\ gHop'[k] = gHop[k]
  /\ ear'[h] = FALSE /\ answer'[h] = NoAnswer
  /\ \/ phase = "probing" /\ ProbeOver(h)
     \/ phase = "discover" /\ (LastHop(h) \/ NextHop(h) \/ GiveUp(h))

LEMMA EndsOfProbes ==
  ASSUME TypeOK, PhaseInv, ProbeInv, AnswerInv, RouteIsRight, NEW h \in Hops,
         SendFails(h) \/ DialSucceeds(h) \/ Answered(h) \/ NotAnswered(h)
  PROVE  ProbeEnds(h) /\ UNCHANGED <<config, net>>
<1> USE DEF ProbeEnds
<1>1. CASE SendFails(h)
  <2>1. pc[h] = "idle" /\ Failure(h) /\ UNCHANGED <<config, net, gHop, ear, answer>>
        BY <1>1 DEF SendFails, Probing
  <2>2. ear[h] = FALSE /\ answer[h] = NoAnswer
        BY <2>1 DEF ProbeInv, TypeOK
  <2> QED  BY <2>1, <2>2, AfterFailure
<1>2. CASE DialSucceeds(h)
  <2>1. /\ UNCHANGED <<config, net>> /\ pc[h] = "dial"
        /\ ear' = [ear EXCEPT ![h] = FALSE] /\ answer' = [answer EXCEPT ![h] = NoAnswer]
        BY <1>2 DEF DialSucceeds
  <2> QED  BY <1>2, <2>1, AfterDial DEF TypeOK
<1>3. CASE Answered(h)
  <2>1. /\ UNCHANGED <<config, net, ear>> /\ pc[h] = "wait" /\ ~ear[h]
        /\ answer' = [answer EXCEPT ![h] = NoAnswer]
        BY <1>3 DEF Answered
  <2> QED  BY <1>3, <2>1, AfterAnswer DEF TypeOK
<1>4. CASE NotAnswered(h)
  <2>1. /\ UNCHANGED <<config, net, ear, answer>> /\ pc[h] = "wait" /\ ~ear[h]
        /\ answer[h] = NoAnswer /\ Failure(h) /\ Counted("lost", h)
        BY <1>4 DEF NotAnswered
  <2>2. \A k \in Hops \ {h} : gHop'[k] = gHop[k]
        BY <2>1 DEF Counted, TypeOK
  <2>3. ear[h] = FALSE
        BY <2>1 DEF TypeOK
  <2> QED  BY <2>1, <2>2, <2>3, AfterFailure
<1> QED  BY <1>1, <1>2, <1>3, <1>4

\* During discovery nobody but the hop under discovery is at work after the probe either.
LEMMA OthersAreOff ==
  ASSUME TypeOK, PhaseInv, ProbeInv, NEW h \in Hops, ProbeEnds(h), phase = "discover"
  PROVE  /\ \A k \in Hops : ear'[k] = FALSE /\ answer'[k] = NoAnswer
         /\ \A k \in Hops : pc'[k] \in {"off", "idle"}
<1>1. h = hop /\ \A k \in Hops \ {h} : pc[k] = "off"
      BY DEF ProbeEnds, PhaseInv, TypeOK
<1>2. \A k \in Hops : ear'[k] = FALSE /\ answer'[k] = NoAnswer
      BY <1>1 DEF ProbeEnds, ProbeInv, TypeOK
<1>3. CASE LastHop(h)
      BY <1>2, <1>3 DEF LastHop
<1>4. CASE NextHop(h)
  <2>1. pc' = [pc EXCEPT ![h] = "off", ![h + 1] = "idle"]
        BY <1>4 DEF NextHop
  <2>2. \A k \in Hops : pc'[k] \in {"off", "idle"}
        BY <1>1, <2>1 DEF TypeOK
  <2> QED  BY <1>2, <2>2
<1>5. CASE GiveUp(h)
  <2>1. pc' = [pc EXCEPT ![h] = "off"]
        BY <1>5 DEF GiveUp
  <2>2. \A k \in Hops : pc'[k] \in {"off", "idle"}
        BY <1>1, <2>1 DEF TypeOK
  <2> QED  BY <1>2, <2>2
<1> QED  BY <1>3, <1>4, <1>5 DEF ProbeEnds

LEMMA ProbeStep ==
  TypeOK /\ PhaseInv /\ ProbeInv /\ AnswerInv /\ RouteIsRight /\ [Next]_vars => ProbeInv'
<1> SUFFICES ASSUME TypeOK, PhaseInv, ProbeInv, AnswerInv, RouteIsRight, [Next]_vars
             PROVE  ProbeInv'
    OBVIOUS
<1>1. ASSUME NEW h \in Hops,
             SendFails(h) \/ DialSucceeds(h) \/ Answered(h) \/ NotAnswered(h)
      PROVE  ProbeInv'
  <2>1. ProbeEnds(h)
        BY <1>1, EndsOfProbes
  <2>2. CASE phase = "discover"
        BY <2>1, <2>2, OthersAreOff DEF ProbeInv
  <2>3. CASE phase # "discover"
    <3>1. /\ pc'[h] = "idle" /\ \A k \in Hops \ {h} : pc'[k] = pc[k] /\ seq'[k] = seq[k]
          BY <2>1, <2>3 DEF ProbeEnds, ProbeOver, TypeOK
    <3> QED  BY <2>1, <3>1 DEF ProbeEnds, ProbeInv
  <2> QED  BY <2>2, <2>3
<1>2. ASSUME NEW h \in Hops, SendEcho(h) \/ StartDial(h) PROVE ProbeInv'
      BY <1>2 DEF SendEcho, StartDial, Probing, ProbeInv, TypeOK
<1>3. ASSUME NEW h \in Hops, DialFails(h) \/ TimesOut(h) \/ SeesDone(h) PROVE ProbeInv'
      BY <1>3 DEF DialFails, TimesOut, SeesDone, ProbeInv, TypeOK
<1>4. ASSUME NEW m \in net, Arrive(m) PROVE ProbeInv'
      BY <1>4 DEF Arrive, ProbeInv
<1>5. CASE Close \/ UNCHANGED vars
      BY <1>5 DEF Close, vars, ProbeInv
<1> QED  BY <1>1, <1>2, <1>3, <1>4, <1>5 DEF Next, Works

LEMMA NetStep ==
  TypeOK /\ PhaseInv /\ ProbeInv /\ NetInv /\ AnswerInv /\ RouteIsRight /\ [Next]_vars => NetInv'
<1> SUFFICES ASSUME TypeOK, PhaseInv, ProbeInv, NetInv, AnswerInv, RouteIsRight, [Next]_vars
             PROVE  NetInv'
    OBVIOUS
<1>1. ASSUME net' \subseteq net, UNCHANGED config PROVE NetInv'
      BY <1>1 DEF NetInv, Senders, config
<1>2. ASSUME NEW h \in Hops,
             SendFails(h) \/ DialSucceeds(h) \/ Answered(h) \/ NotAnswered(h)
      PROVE  NetInv'
      BY <1>1, <1>2, EndsOfProbes
<1>3. ASSUME NEW h \in Hops, SendEcho(h) \/ StartDial(h) PROVE NetInv'
  <2>1. UNCHANGED config /\ seq[h] < MaxProbes /\ MayAnswer(h)
        BY <1>3 DEF SendEcho, StartDial, Probing
  <2>2. seq[h] < SeqRange
        BY <2>1, TraceAssumption DEF TypeOK
  <2>3. ASSUME NEW from \in Senders(h),
               net' = net \cup {[kind |-> IF from = Dest THEN "reply" ELSE "exceeded",
                                 hop |-> h, seq |-> seq[h], from |-> from]}
        PROVE  NetInv'
    <3>1. Senders(h)' = Senders(h) /\ \A m \in net : Senders(m.hop)' = Senders(m.hop)
          BY <2>1 DEF Senders, config
    <3>2. ASSUME NEW m \in net'
          PROVE  m.seq < SeqRange /\ m.from \in Senders(m.hop)' /\ (m.kind = "reply" <=> m.from = Dest)
      <4>1. CASE m \in net
            BY <3>1, <4>1 DEF NetInv
      <4>2. CASE m \notin net
        <5>1. m = [kind |-> IF from = Dest THEN "reply" ELSE "exceeded",
                   hop |-> h, seq |-> seq[h], from |-> from]
              BY <2>3, <4>2
        <5> QED  BY <2>2, <3>1, <5>1
      <4> QED  BY <4>1, <4>2
    <3> QED  BY <3>2 DEF NetInv
  <2>4. \/ UNCHANGED net
        \/ \E from \in Senders(h) :
             net' = net \cup {[kind |-> IF from = Dest THEN "reply" ELSE "exceeded",
                               hop |-> h, seq |-> seq[h], from |-> from]}
        BY <2>1 DEF MayAnswer, Senders
  <2> QED  BY <1>1, <2>1, <2>3, <2>4
<1>4. ASSUME NEW h \in Hops, DialFails(h) \/ TimesOut(h) \/ SeesDone(h) PROVE NetInv'
      BY <1>1, <1>4 DEF DialFails, TimesOut, SeesDone
<1>5. ASSUME NEW m \in net, Arrive(m) PROVE NetInv'
      BY <1>1, <1>5 DEF Arrive
<1>6. CASE Close \/ UNCHANGED vars
      BY <1>1, <1>6 DEF Close, vars
<1> QED  BY <1>2, <1>3, <1>4, <1>5, <1>6 DEF Next, Works

\* Whoever takes an answer takes one to his own probe: a TCP attempt is recognised by its
\* port, an echo by its body, and an expired echo request by its number on the wire.
LEMMA TakersMatch ==
  ASSUME TypeOK, ProbeInv, NetInv, NEW m \in net, NEW h \in Hops, ear[h], Matches(h, m)
  PROVE  /\ m.hop = h /\ m.from \in Senders(h)
         /\ m.kind = "reply" <=> m.from = Dest
         /\ proto = "ICMP" /\ m.kind = "exceeded" => m.seq = seq[h]
         /\ phase = "probing" => m.from = gHop[h].addr
<1>1. m \in Answers /\ m.seq < SeqRange /\ m.from \in Senders(m.hop)
      BY DEF TypeOK, NetInv
<1>2. seq[h] \in 0 .. SeqRange - 1
  <2>1. seq[h] < MaxProbes /\ seq[h] \in 0 .. SeqRange
        BY DEF ProbeInv, TypeOK
  <2> QED  BY <2>1, TraceAssumption
<1>3. m.seq \in 0 .. SeqRange - 1
  <2>1. m.seq \in 0 .. SeqRange
        BY <1>1 DEF Answers
  <2> QED  BY <1>1, <2>1, TraceAssumption
<1>4. m.hop \in Nat /\ h \in Nat
      BY <1>1 DEF Answers, Hops
<1>5. Wire(m.hop, m.seq) = Wire(h, seq[h]) => m.hop = h /\ m.seq = seq[h]
      BY <1>2, <1>3, <1>4, WireIsInjective
<1>6. m.hop = h /\ (proto = "ICMP" /\ m.kind = "exceeded" => m.seq = seq[h])
      BY <1>5 DEF Matches
<1> QED  BY <1>1, <1>6 DEF NetInv, Matches

LEMMA AnswerStep ==
  TypeOK /\ PhaseInv /\ ProbeInv /\ NetInv /\ AnswerInv /\ RouteIsRight /\ [Next]_vars
    => AnswerInv'
<1> SUFFICES ASSUME TypeOK, PhaseInv, ProbeInv, NetInv, AnswerInv, RouteIsRight, [Next]_vars
             PROVE  AnswerInv'
    OBVIOUS
<1>1. ASSUME UNCHANGED <<config, phase, seq>>,
             \A k \in Hops : /\ answer'[k] \in {answer[k], NoAnswer}
                             /\ gHop'[k].addr = gHop[k].addr
      PROVE  AnswerInv'
      BY <1>1 DEF AnswerInv, Senders, config
<1>2. ASSUME NEW h \in Hops,
             SendFails(h) \/ DialSucceeds(h) \/ Answered(h) \/ NotAnswered(h)
      PROVE  AnswerInv'
  <2>1. ProbeEnds(h) /\ UNCHANGED config
        BY <1>2, EndsOfProbes
  <2>2. CASE phase = "discover"
        BY <2>1, <2>2, OthersAreOff DEF AnswerInv
  <2>3. CASE phase # "discover"
    <3>1. phase' = phase /\ \A k \in Hops \ {h} : seq'[k] = seq[k]
          BY <2>1, <2>3 DEF ProbeEnds, ProbeOver, trace, TypeOK
    <3> QED  BY <2>1, <3>1, SMTT(30) DEF ProbeEnds, AnswerInv, Senders, config
  <2> QED  BY <2>2, <2>3
<1>3. ASSUME NEW h \in Hops, SendEcho(h) \/ StartDial(h) \/ DialFails(h) PROVE AnswerInv'
  <2>1. \A k \in Hops : gHop'[k].addr = gHop[k].addr
        BY <1>3, CountedOnce DEF SendEcho, StartDial, DialFails
  <2>2. /\ UNCHANGED <<config, phase, seq>>
        /\ \A k \in Hops : answer'[k] \in {answer[k], NoAnswer}
        BY <1>3 DEF SendEcho, StartDial, DialFails, trace, TypeOK
  <2> QED  BY <1>1, <2>1, <2>2
<1>4. ASSUME NEW h \in Hops, TimesOut(h) \/ SeesDone(h) PROVE AnswerInv'
      BY <1>1, <1>4 DEF TimesOut, SeesDone, trace
<1>5. ASSUME NEW m \in net, Arrive(m) PROVE AnswerInv'
  <2>1. UNCHANGED <<config, phase, seq, gHop>>
        BY <1>5 DEF Arrive, trace
  <2>2. \A k \in Hops : answer'[k] = IF ear[k] /\ Matches(k, m) THEN m ELSE answer[k]
        BY <1>5 DEF Arrive
  <2>3. \A k \in Hops : Senders(k)' = Senders(k)
        BY <2>1 DEF Senders, config
  <2>4. ASSUME NEW k \in Hops, ear[k], Matches(k, m)
        PROVE  /\ m.hop = k /\ m.from \in Senders(k)
               /\ m.kind = "reply" <=> m.from = Dest
               /\ proto = "ICMP" /\ m.kind = "exceeded" => m.seq = seq[k]
               /\ phase = "probing" => m.from = gHop[k].addr
        BY <2>4, TakersMatch
  <2> QED  BY <2>1, <2>2, <2>3, <2>4 DEF AnswerInv, config
<1>6. CASE Close \/ UNCHANGED vars
      BY <1>1, <1>6 DEF Close, vars, trace
<1> QED  BY <1>2, <1>3, <1>4, <1>5, <1>6 DEF Next, Works

-----------------------------------------------------------------------------
(* The route.                                                               *)

\* A step that leaves what it says about the route alone.
LEMMA RouteKept ==
  ASSUME RouteIsRight, UNCHANGED <<config, trace>>,
         \A k \in Hops : gHop'[k].addr = gHop[k].addr /\ gHop'[k].name = gHop[k].name
  PROVE  RouteIsRight'
BY DEF RouteIsRight, config, trace

\* A probe was answered by the destination, or by a router on the way to it.
LEMMA RouteAfterAnswer ==
  ASSUME TypeOK, PhaseInv, RouteIsRight, NEW h \in Hops, pc[h] # "off", UNCHANGED config,
         gHop'[h].addr \in Senders(h),
         \A k \in Hops \ {h} : gHop'[k] = gHop[k],
         phase = "discover" => gHop'[h].name = gHop'[h].addr,
         phase # "discover" => gHop'[h].name = gHop[h].name,
         \/ phase = "probing" /\ ProbeOver(h) /\ gHop'[h].addr = gHop[h].addr
         \/ phase = "discover" /\ LastHop(h) /\ gHop'[h].addr = Dest
         \/ phase = "discover" /\ (NextHop(h) \/ GiveUp(h))
  PROVE  RouteIsRight'
<1>1. CASE phase = "probing" /\ ProbeOver(h) /\ gHop'[h].addr = gHop[h].addr
      BY <1>1, RouteKept DEF ProbeOver
<1>2. CASE phase = "discover"
  <2>1. \A k \in Hops :
          gHop'[k].addr # NoAddr =>
            /\ IF k < dest' THEN gHop'[k].addr \in {k} \X Paths ELSE gHop'[k].addr = Dest
            /\ gHop'[k].name = gHop'[k].addr
        BY <1>2 DEF RouteIsRight, Senders, config
  <2>2. CASE LastHop(h)
    <3>1. gHop'[h].addr = Dest /\ \A k \in Hops \ {h} : gHop'[k].addr # Dest
          BY <1>2, <2>2 DEF PhaseInv, LastHop, NextHop, GiveUp
    <3>2. gCurHops' - 1 = h
          BY <2>2 DEF LastHop, Hops
    <3> QED  BY <2>1, <3>1, <3>2 DEF RouteIsRight
  <2>3. CASE NextHop(h) \/ GiveUp(h)
    <3>1. phase' # "probing" /\ reason' # "done"
          BY <1>2, <2>3 DEF NextHop, GiveUp, PhaseInv
    <3> QED  BY <2>1, <3>1 DEF RouteIsRight
  <2> QED  BY <1>2, <2>2, <2>3
<1> QED  BY <1>1, <1>2

LEMMA RouteStep ==
  TypeOK /\ PhaseInv /\ AnswerInv /\ RouteIsRight /\ [Next]_vars => RouteIsRight'
<1> SUFFICES ASSUME TypeOK, PhaseInv, AnswerInv, RouteIsRight, [Next]_vars
             PROVE  RouteIsRight'
    OBVIOUS
\* A failure during discovery leaves all addresses, and names no last hop.
<1>1. ASSUME NEW h \in Hops, pc[h] # "off", UNCHANGED config, Failure(h),
             \A k \in Hops : gHop'[k].addr = gHop[k].addr /\ gHop'[k].name = gHop[k].name
      PROVE  RouteIsRight'
  <2>1. CASE phase = "probing" /\ ProbeOver(h)
        BY <1>1, <2>1, RouteKept DEF ProbeOver
  <2>2. CASE phase = "discover" /\ (NextHop(h) \/ GiveUp(h))
    <3>1. phase' # "probing" /\ reason' # "done"
          BY <2>2 DEF NextHop, GiveUp, PhaseInv
    <3> QED  BY <1>1, <3>1 DEF RouteIsRight, config
  <2> QED  BY <1>1, <2>1, <2>2, AfterFailure
<1>2. ASSUME NEW h \in Hops, SendFails(h) PROVE RouteIsRight'
      BY <1>1, <1>2 DEF SendFails, Probing
<1>3. ASSUME NEW h \in Hops, NotAnswered(h) PROVE RouteIsRight'
  <2>1. \A k \in Hops : gHop'[k].addr = gHop[k].addr /\ gHop'[k].name = gHop[k].name
        BY <1>3, CountedOnce DEF NotAnswered
  <2> QED  BY <1>1, <1>3, <2>1 DEF NotAnswered
<1>4. ASSUME NEW h \in Hops, SendEcho(h) \/ StartDial(h) \/ DialFails(h) PROVE RouteIsRight'
  <2>1. \A k \in Hops : gHop'[k].addr = gHop[k].addr /\ gHop'[k].name = gHop[k].name
        BY <1>4, CountedOnce DEF SendEcho, StartDial, DialFails
  <2> QED  BY <1>4, <2>1, RouteKept DEF SendEcho, StartDial, DialFails
<1>5. ASSUME NEW h \in Hops, DialSucceeds(h) PROVE RouteIsRight'
  <2>1. UNCHANGED config /\ pc[h] # "off"
        BY <1>5 DEF DialSucceeds
  <2> QED  BY <1>5, <2>1, AfterDial, RouteAfterAnswer
<1>6. ASSUME NEW h \in Hops, Answered(h) PROVE RouteIsRight'
  <2>1. UNCHANGED config /\ pc[h] # "off"
        BY <1>6 DEF Answered
  <2> QED  BY <1>6, <2>1, AfterAnswer, RouteAfterAnswer
<1>7. ASSUME NEW h \in Hops, TimesOut(h) \/ SeesDone(h) PROVE RouteIsRight'
      BY <1>7, RouteKept DEF TimesOut, SeesDone
<1>8. ASSUME NEW m \in net, Arrive(m) PROVE RouteIsRight'
      BY <1>8, RouteKept DEF Arrive
<1>9. CASE Close \/ UNCHANGED vars
      BY <1>9, RouteKept DEF Close, vars
<1> QED  BY <1>2, <1>3, <1>4, <1>5, <1>6, <1>7, <1>8, <1>9 DEF Next, Works

-----------------------------------------------------------------------------
(* The counters.                                                            *)

LEMMA CountStep ==
  TypeOK /\ PhaseInv /\ ProbeInv /\ AnswerInv /\ RouteIsRight /\ CountInv /\ [Next]_vars
    => CountInv'
<1> SUFFICES ASSUME TypeOK, PhaseInv, ProbeInv, AnswerInv, RouteIsRight, CountInv, [Next]_vars
             PROVE  CountInv'
    OBVIOUS
<1>0. gHop \in [Hops -> HopData]
      BY DEF TypeOK
\* Discovery ends, or goes on, and nothing was counted.
<1>1. ASSUME NEW h \in Hops, ProbeEnds(h), phase = "discover", gHop' \in [Hops -> HopData],
             CountsNothing(gHop'[h])
      PROVE  CountInv'
  <2>1. \A k \in Hops : CountsNothing(gHop'[k])
        BY <1>1 DEF CountInv, ProbeEnds
  <2>2. \A k \in Hops : AddsUp(gHop'[k], 0)
        BY <1>1, <2>1, ZeroAddsUp
  <2>3. \A k \in Hops : pc'[k] # "wait"
        BY <1>1, OthersAreOff
  <2> QED  BY <2>1, <2>2, <2>3 DEF CountInv
\* The probe of a prober is over, and what it was is counted.
<1>2. ASSUME NEW h \in Hops, ProbeEnds(h), phase # "discover", AddsUp(gHop'[h], 0)
      PROVE  CountInv'
  <2>1. /\ phase = "probing" /\ phase' = "probing"
        /\ pc'[h] = "idle" /\ \A k \in Hops \ {h} : pc'[k] = pc[k]
        BY <1>2 DEF ProbeEnds, ProbeOver, trace, TypeOK
  <2> QED  BY <1>2, <2>1 DEF ProbeEnds, CountInv
\* The step leaves the number of probes under way alone.
<1>3. ASSUME UNCHANGED <<phase, gHop>>, \A k \in Hops : pc'[k] = "wait" <=> pc[k] = "wait"
      PROVE  CountInv'
      BY <1>3 DEF CountInv
\* A prober's probe is under way now.
<1>4. ASSUME NEW h \in Hops, pc[h] \in {"idle", "dial"}, Counted("sent", h),
             pc' = [pc EXCEPT ![h] = "wait"], UNCHANGED phase
      PROVE  CountInv'
  <2>1. CASE phase # "probing"
    <3>1. gHop' = gHop
      <4>1. phase = "discover"
            BY <1>4, <2>1 DEF PhaseInv, TypeOK
      <4> QED  BY <1>4, <4>1 DEF Counted
    <3> QED  BY <1>4, <2>1, <3>1 DEF CountInv
  <2>2. CASE phase = "probing"
    <3>1. gHop' = [gHop EXCEPT ![h] = [gHop[h] EXCEPT !.sent = @ + 1]]
          BY <1>4, <2>2 DEF Counted
    <3>2. AddsUp(gHop[h], 0)
          BY <1>4, <2>2 DEF CountInv
    <3>3. AddsUp([gHop[h] EXCEPT !.sent = @ + 1], 1)
          BY <1>0, <3>2, OneMoreOrLess
    <3>4. gHop'[h] = [gHop[h] EXCEPT !.sent = @ + 1]
          BY <1>0, <3>1
    <3>5. \A k \in Hops \ {h} : gHop'[k] = gHop[k] /\ pc'[k] = pc[k]
          BY <1>0, <1>4, <3>1 DEF TypeOK
    <3>6. pc'[h] = "wait"
          BY <1>4 DEF TypeOK
    <3> QED  BY <1>4, <2>2, <3>3, <3>4, <3>5, <3>6 DEF CountInv
  <2> QED  BY <2>1, <2>2
<1>5. ASSUME NEW h \in Hops, SendFails(h) PROVE CountInv'
  <2>1. ProbeEnds(h) /\ gHop' = gHop /\ pc[h] = "idle"
        BY <1>5, EndsOfProbes DEF SendFails, Probing
  <2>2. AddsUp(gHop[h], 0) /\ (phase = "discover" => CountsNothing(gHop[h]))
        BY <2>1 DEF CountInv
  <2> QED  BY <1>0, <1>1, <1>2, <2>1, <2>2
<1>6. ASSUME NEW h \in Hops, SendEcho(h) PROVE CountInv'
      BY <1>4, <1>6 DEF SendEcho, Probing, trace
<1>7. ASSUME NEW h \in Hops, StartDial(h) PROVE CountInv'
      BY <1>3, <1>7 DEF StartDial, Probing, trace, TypeOK
<1>8. ASSUME NEW h \in Hops, DialSucceeds(h) PROVE CountInv'
  <2>1. ProbeEnds(h) /\ pc[h] = "dial"
        BY <1>8, EndsOfProbes DEF DialSucceeds
  <2>2. AddsUp(gHop[h], 0)
        BY <2>1 DEF CountInv
  <2>3. /\ gHop' \in [Hops -> HopData]
        /\ phase = "discover" => CountsNothing(gHop'[h])
        /\ phase # "discover" => AddsUp(gHop'[h], 0)
        BY <1>8, <2>2, AfterDial
  <2> QED  BY <1>1, <1>2, <2>1, <2>3
<1>9. ASSUME NEW h \in Hops, DialFails(h) PROVE CountInv'
      BY <1>4, <1>9 DEF DialFails, trace
<1>10. ASSUME NEW h \in Hops, Answered(h) PROVE CountInv'
  <2>1. ProbeEnds(h) /\ pc[h] = "wait"
        BY <1>10, EndsOfProbes DEF Answered
  <2>2. phase # "discover" => AddsUp(gHop[h], 1)
        BY <2>1 DEF CountInv, ProbeEnds
  <2>3. /\ gHop' \in [Hops -> HopData]
        /\ phase = "discover" => CountsNothing(gHop'[h])
        /\ phase # "discover" => AddsUp(gHop'[h], 0)
        BY <1>10, <2>2, AfterAnswer
  <2> QED  BY <1>1, <1>2, <2>1, <2>3
<1>11. ASSUME NEW h \in Hops, NotAnswered(h) PROVE CountInv'
  <2>1. ProbeEnds(h) /\ pc[h] = "wait" /\ Counted("lost", h)
        BY <1>11, EndsOfProbes DEF NotAnswered
  <2>2. CASE phase = "discover"
    <3>1. gHop' = gHop /\ CountsNothing(gHop[h])
          BY <2>1, <2>2 DEF Counted, CountInv
    <3> QED  BY <1>0, <1>1, <2>1, <2>2, <3>1
  <2>3. CASE phase # "discover"
    <3>1. AddsUp(gHop[h], 1)
          BY <2>1, <2>3 DEF CountInv, ProbeEnds
    <3>2. gHop' = [gHop EXCEPT ![h] = [gHop[h] EXCEPT !.lost = @ + 1]]
          BY <2>1, <2>3 DEF Counted
    <3>3. AddsUp([gHop[h] EXCEPT !.lost = @ + 1], 0)
          BY <1>0, <3>1, OneMoreOrLess
    <3>4. gHop'[h] = [gHop[h] EXCEPT !.lost = @ + 1]
          BY <1>0, <3>2
    <3>5. AddsUp(gHop'[h], 0)
          BY <3>3, <3>4
    <3> QED  BY <1>2, <2>1, <2>3, <3>5
  <2> QED  BY <2>2, <2>3
<1>12. ASSUME NEW h \in Hops, TimesOut(h) \/ SeesDone(h) PROVE CountInv'
      BY <1>3, <1>12 DEF TimesOut, SeesDone, trace, TypeOK
<1>13. ASSUME NEW m \in net, Arrive(m) PROVE CountInv'
      BY <1>3, <1>13 DEF Arrive, trace
<1>14. CASE Close \/ UNCHANGED vars
      BY <1>3, <1>14 DEF Close, vars, trace
<1> QED  BY <1>5, <1>6, <1>7, <1>8, <1>9, <1>10, <1>11, <1>12, <1>13, <1>14 DEF Next, Works

-----------------------------------------------------------------------------
(* The theorems.                                                            *)

LEMMA InvInit == Init => IInv
<1> SUFFICES ASSUME Init PROVE IInv
    OBVIOUS
<1>1. TypeOK
      BY TypesInit
<1>2. \A h \in Hops : gHop[h] = Idle /\ Idle.addr = NoAddr /\ CountsNothing(Idle)
      BY DEF Init, Idle, CountsNothing
<1>3. PhaseInv
  <2>1. \A h \in Hops \ {hop} : pc[h] = "off"
        BY DEF Init
  <2>2. NoAddr # Dest
        BY DEF NoAddr, Dest
  <2> QED  BY <1>2, <2>1, <2>2 DEF Init, PhaseInv
<1>4. ProbeInv
      BY DEF Init, ProbeInv
<1>5. NetInv /\ AnswerInv
      BY DEF Init, NetInv, AnswerInv
<1>6. RouteIsRight
      BY <1>2 DEF Init, RouteIsRight
<1>7. CountInv
  <2>1. \A h \in Hops : AddsUp(gHop[h], 0)
        BY <1>1, <1>2, ZeroAddsUp DEF TypeOK
  <2> QED  BY <1>2, <2>1 DEF Init, CountInv
<1> QED  BY <1>1, <1>3, <1>4, <1>5, <1>6, <1>7 DEF IInv

LEMMA InvStep == IInv /\ [Next]_vars => IInv'
BY TypesStep, PhaseStep, ProbeStep, NetStep, AnswerStep, RouteStep, CountStep DEF IInv

LEMMA InvAlways == Spec => []IInv
BY InvInit, InvStep, PTL DEF Spec

\* The trace keeps to its types: no hop beyond MaxHops is probed, and no sequence number
\* leaves the range of its hop.
THEOREM TypesAlways == Spec => []TypeOK
<1>1. IInv => TypeOK
      BY DEF IInv
<1> QED  BY <1>1, InvAlways, PTL

\* A prober takes only answers to its own hop and, of routers, only those to the probe
\* under way, although every socket hears all answers (client.go:1108-1155).
THEOREM AnswersMatchProbesAlways == Spec => []AnswersMatchProbes
<1>1. IInv => AnswersMatchProbes
      BY DEF IInv, AnswerInv, AnswersMatchProbes
<1> QED  BY <1>1, InvAlways, PTL

\* The addresses shown are on the way of the packets with their TTL, have the name that
\* was looked up for them, and the last one alone is the destination.
THEOREM RouteIsRightAlways == Spec => []RouteIsRight
<1>1. IInv => RouteIsRight
      BY DEF IInv
<1> QED  BY <1>1, InvAlways, PTL

\* Probes sent are received, lost or under way, and the average time lies between the best
\* and the worst, for any number of probes and any times they take.
THEOREM ProbesAddUpAlways == Spec => []ProbesAddUp
<1>1. IInv => ProbesAddUp
      BY DEF IInv, CountInv, AddsUp, ProbesAddUp
<1> QED  BY <1>1, InvAlways, PTL
===============================================================================
