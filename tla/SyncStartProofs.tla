---------------------------- MODULE SyncStartProofs ----------------------------
(***************************************************************************)
(* Proofs about SyncStart, for any latencies, deadline and period of the   *)
(* statistics timer, any moment at which the client comes, both modes of   *)
(* the server, and connections that may break.                             *)
(*                                                                         *)
(* The handshake on the control connection is strictly sequential: one     *)
(* message of it is under way at a time, and where the two processes are   *)
(* says which.  With that, what each message carries and when it is due    *)
(* follow the chain from SyncStart to the two starts.                      *)
(***************************************************************************)
EXTENDS SyncStart, FiniteSetTheorems, WellFoundedInduction, TLAPS

\* The server waits longer for SyncStart than a round trip takes.
DeadlineIsLong == \A l, m \in Latencies : l + m < Deadline

-----------------------------------------------------------------------------
(* The inductive invariants.                                                *)

Up   == toServer["control"]
Down == toClient["control"]

Started == {"wait", "dialData", "dataAck", "run"}

\* What is under way on the control connection.  Payload comes after the messages of
\* the protocol, and each of those has the two processes where it needs them.
UpMessage(m) ==
  \/ /\ m.type = "Syn" /\ Down = <<>>
     /\ cpc \in {"ack", "failed"} /\ spc["control"] \in {"syn", "ended"}
  \/ /\ m.type = "SyncStart" /\ (spc["control"] = "probe" => Down = <<>>)
     /\ cpc \in {"ready", "failed"} /\ spc["control"] \in {"probe", "run", "ended"}
  \/ /\ m.type = "SyncGo"
     /\ cpc \in Started /\ spc["control"] \in {"go", "ended"}
  \/ m.type = "Payload" /\ cpc = "run"

DownMessage(m) ==
  \/ /\ m.type = "Ack" /\ Up = <<>>
     /\ cpc \in {"ack", "failed"} /\ spc["control"] \in {"probe", "run", "ended"}
  \/ /\ m.type = "SyncReady" /\ Up = <<>>
     /\ cpc \in {"ready", "failed"} /\ spc["control"] \in {"go", "ended"}
  \/ m.type = "Payload" /\ spc["control"] \in {"run", "ended"}

ControlInv ==
  /\ \A i \in DOMAIN Up   : UpMessage(Up[i])     /\ (i > 1 => Up[i].type = "Payload")
  /\ \A i \in DOMAIN Down : DownMessage(Down[i]) /\ (i > 1 => Down[i].type = "Payload")
  /\ cpc = "dial" => Up = <<>> /\ Down = <<>> /\ spc["control"] \in {"syn", "ended"}

\* The same for the data connection.
UpData(m) ==
  \/ /\ m.type = "Syn" /\ toClient["data"] = <<>> /\ spc["data"] \in {"syn", "ended"}
     /\ cpc = "dataAck" \/ (cpc = "run" /\ broken["data"])
  \/ m.type = "Payload"

DownData(m) ==
  \/ /\ m.type = "Ack"
     /\ cpc = "dataAck" \/ (cpc = "run" /\ broken["data"])
  \/ m.type = "Payload"

DataInv ==
  /\ \A i \in DOMAIN toServer["data"] :
       UpData(toServer["data"][i]) /\ (i > 1 => toServer["data"][i].type = "Payload")
  /\ \A i \in DOMAIN toClient["data"] :
       DownData(toClient["data"][i]) /\ (i > 1 => toClient["data"][i].type = "Payload")
  /\ cpc \notin {"dataAck", "run"} =>
       /\ toServer["data"] = <<>> /\ toClient["data"] = <<>>
       /\ spc["data"] \in {"syn", "ended"}
  /\ spc["data"] \in {"syn", "probe", "run", "ended"}

\* At moment t, with the statistics last run at `last`, the delay d leads to when they
\* should run next; that is late by no more than they can be, and so is t.
Meant(t, d, last) ==
  /\ t + d = last + Interval
  /\ \E n \in Nat, l, m \in Lateness : t + d = n * Interval + l /\ t <= n * Interval + m

\* SyncStart was x under way, SyncReady y: the moment the client chose, and the tick
\* that the server had in mind.
Agreed(x, y) ==
  /\ cStart = sendTime + x + y
                + (IF delayNs = 0 THEN 0 ELSE Max({0, delayNs - ((x + y) \div 2)}))
  /\ ~gOneClient => Meant(sendTime + x, delayNs, lastStatsTime)

\* When the messages are due, and what they say.
UpTimes(m) ==
  /\ m.type = "SyncStart" /\ spc["control"] = "probe" =>
       m.due >= now /\ \E x \in Latencies : m.due = sendTime + x
  /\ m.type = "SyncGo" =>
       /\ spc["control"] = "go" => m.due >= now
       /\ \E x, y, z \in Latencies :
            m.due = sendTime + x + y + z /\ m.val = x + y /\ Agreed(x, y)

DownTimes(m) ==
  m.type = "SyncReady" =>
    /\ cpc = "ready" => m.due >= now
    /\ m.val = delayNs
    /\ \E x, y \in Latencies :
         m.due = sendTime + x + y /\ (~gOneClient => Meant(sendTime + x, delayNs, lastStatsTime))

TimesInv ==
  /\ gOneClient => delayNs = 0
  /\ \A i \in DOMAIN Up   : UpTimes(Up[i])
  /\ \A i \in DOMAIN Down : DownTimes(Down[i])
  /\ spc["control"] = "sleep" => sStart # NotYet
  /\ sStart # NotYet =>
       /\ cpc \in Started /\ spc["control"] \in {"sleep", "run", "ended"}
       /\ \E x, y, z \in Latencies :
            /\ sStart = sendTime + x + y + z
                          + (IF gOneClient THEN (x + y) \div 2 ELSE Max({0, delayNs}))
            /\ Agreed(x, y)

\* As long as the control connection is up, the handshake on it goes on: while the
\* server waits for SyncStart, that or the ACK before it is under way, in time.
ClassInv ==
  ~broken["control"] =>
    /\ cpc # "failed" /\ spc["control"] # "ended"
    /\ spc["control"] = "probe" =>
         \/ /\ Down # <<>> /\ Down[1].type = "Ack" /\ Down[1].due >= now
            /\ \E l \in Latencies : Down[1].due + Deadline = readUntil["control"] + l
         \/ /\ Up # <<>> /\ Up[1].type = "SyncStart"
            /\ \E l, m \in Latencies : Up[1].due + Deadline = readUntil["control"] + l + m
    /\ spc["control"] = "run" => sStart # NotYet

Inv == TypeOK /\ ControlInv /\ DataInv

-----------------------------------------------------------------------------
(* Latencies, and queues of messages.                                       *)

\* A set of natural numbers has a least element, which is its Min.
LEMMA MinOfNats ==
  ASSUME NEW S, S \subseteq Nat, S # {}
  PROVE  Min(S) \in S /\ \A y \in S : Min(S) <= y
<1> DEFINE less == OpToRel(<, Nat)
<1>1. IsWellFoundedOn(less, Nat)
      BY NatLessThanWellFounded
<1>2. \A x \in Nat, y \in Nat : <<y, x>> \in less <=> y < x
      BY DEF OpToRel
<1> HIDE DEF less
<1>3. PICK x \in S : \A y \in S : ~(<<y, x>> \in less)
      BY <1>1, WFMin
<1>4. ASSUME NEW y \in S PROVE x <= y
  <2>1. x \in Nat /\ y \in Nat /\ ~(<<y, x>> \in less)
        BY <1>3
  <2>2. ~(y < x)
        BY <1>2, <2>1
  <2> QED  BY <2>1, <2>2
<1> QED  BY <1>4 DEF Min

\* A finite set of them has a greatest one: were there a first k elements without a
\* bound, the least such k would have one.
LEMMA FiniteMax ==
  ASSUME NEW S, S \subseteq Nat, S # {}, IsFiniteSet(S)
  PROVE  Max(S) \in S /\ \A y \in S : Max(S) >= y
<1>0. PICK n \in Nat : ExistsSurjection(1 .. n, S)
      BY FS_NatSurjection
<1>1. PICK f \in [1 .. n -> S] : \A y \in S : \E i \in 1 .. n : f[i] = y
      BY <1>0 DEF Surjection, ExistsSurjection
<1>2. \A i \in 1 .. n : f[i] \in S /\ f[i] \in Nat
      BY <1>1
<1> DEFINE Bound(b, k) == \A i \in 1 .. k : f[i] <= b
           Unbounded == {k \in 0 .. n : \A b \in S : ~Bound(b, k)}
<1>3. ASSUME Unbounded # {} PROVE FALSE
  <2>1. PICK k \in Unbounded : \A j \in Unbounded : k <= j
    <3>1. Unbounded \subseteq Nat
          OBVIOUS
    <3> HIDE DEF Unbounded
    <3> QED  BY <1>3, <3>1, MinOfNats
  <2>2. k \in 0 .. n /\ \A b \in S : ~Bound(b, k)
        OBVIOUS
  <2>3. k # 0
    <3>1. \A b \in S : Bound(b, 0)
          OBVIOUS
    <3> QED  BY <2>2, <3>1
  <2>4. PICK b \in S : Bound(b, k - 1)
    <3>1. k - 1 \in 0 .. n /\ ~(k <= k - 1)
          BY <2>2, <2>3
    <3>2. k - 1 \notin Unbounded
          BY <2>1, <3>1
    <3> QED  BY <3>1, <3>2
  <2>5. k \in 1 .. n /\ f[k] \in S /\ f[k] \in Nat /\ b \in Nat
        BY <1>2, <2>2, <2>3
  <2>6. \A i \in 1 .. k : i \in 1 .. n /\ (i \in 1 .. k - 1 \/ i = k)
        BY <2>2
  <2>7. \A i \in 1 .. k : f[i] \in Nat /\ (f[i] <= b \/ i = k)
        BY <1>2, <2>4, <2>6
  <2>8. Bound(b, k) \/ Bound(f[k], k)
        BY <2>5, <2>7
  <2> QED  BY <2>2, <2>5, <2>8
<1>4. PICK b \in S : Bound(b, n)
  <2>1. n \in 0 .. n
        OBVIOUS
  <2>2. n \notin Unbounded
        BY <1>3
  <2> QED  BY <2>1, <2>2
<1>5. \A y \in S : b >= y
      BY <1>1, <1>2, <1>4
<1> QED  BY <1>5 DEF Max

\* The longest and the shortest way.
LEMMA LatencyBounds ==
  /\ Latencies \subseteq Nat
  /\ Max(Latencies) \in Nat /\ \A l \in Latencies : l <= Max(Latencies)
  /\ Min(Latencies) \in Nat /\ \A l \in Latencies : Min(Latencies) <= l
<1>1. Max(Latencies) \in Latencies /\ \A l \in Latencies : Max(Latencies) >= l
      BY SyncAssumption, FiniteMax
<1>2. Min(Latencies) \in Latencies /\ \A l \in Latencies : Min(Latencies) <= l
      BY SyncAssumption, MinOfNats
<1> QED  BY <1>1, <1>2, SyncAssumption

\* The longest time that the statistics can be late.
LEMMA LatenessBounds ==
  Max(Lateness) \in Nat /\ \A l \in Lateness : l <= Max(Lateness)
<1>1. Interval \in Nat /\ Lateness \subseteq 0 .. Interval - 1 /\ Lateness # {}
      BY SyncAssumption
<1>2. Lateness \subseteq Nat /\ IsFiniteSet(Lateness)
  <2>1. IsFiniteSet(0 .. Interval - 1)
        BY <1>1, FS_Interval
  <2>2. IsFiniteSet(Lateness)
        BY <1>1, <2>1, FS_Subset
  <2> QED  BY <1>1, <2>2
<1>3. Max(Lateness) \in Lateness /\ \A l \in Lateness : Max(Lateness) >= l
      BY <1>1, <1>2, FiniteMax
<1>4. Max(Lateness) \in Nat /\ \A l \in Lateness : l \in Nat
      BY <1>2, <1>3
<1> QED  BY <1>3, <1>4

LEMMA MaxOfTwo ==
  ASSUME NEW a \in Int, NEW b \in Int
  PROVE  Max({a, b}) = IF a >= b THEN a ELSE b
<1>1. \E x \in {a, b} : \A y \in {a, b} : x >= y
      OBVIOUS
<1>2. Max({a, b}) \in {a, b} /\ \A y \in {a, b} : Max({a, b}) >= y
      BY <1>1 DEF Max
<1> QED  BY <1>2

LEMMA AfterTail ==
  ASSUME NEW q \in Seq(Message), q # <<>>
  PROVE  /\ Tail(q) \in Seq(Message) /\ Head(q) = q[1] /\ q[1] \in Message
         /\ 1 \in DOMAIN q
         /\ \A i \in DOMAIN Tail(q) : /\ i + 1 \in DOMAIN q /\ i + 1 > 1 /\ i \in Nat
                                      /\ Tail(q)[i] = q[i + 1]
OBVIOUS

LEMMA AfterAppend ==
  ASSUME NEW q \in Seq(Message), NEW m \in Message
  PROVE  /\ Append(q, m) \in Seq(Message) /\ Append(q, m) # <<>>
         /\ \A i \in DOMAIN Append(q, m) :
              \/ i \in DOMAIN q /\ Append(q, m)[i] = q[i]
              \/ i = Len(q) + 1 /\ Append(q, m)[i] = m
         /\ q = <<>> => Append(q, m)[1] = m /\ DOMAIN Append(q, m) = {1}
         /\ q # <<>> => Append(q, m)[1] = q[1]
<1>1. Append(q, m) \in Seq(Message) /\ DOMAIN Append(q, m) = 1 .. Len(q) + 1
      OBVIOUS
<1>2. DOMAIN q = 1 .. Len(q) /\ Len(q) \in Nat /\ Append(q, m)[Len(q) + 1] = m
      OBVIOUS
<1>3. \A i \in 1 .. Len(q) : Append(q, m)[i] = q[i]
      OBVIOUS
<1>4. q = <<>> => Len(q) = 0
      OBVIOUS
<1>5. q # <<>> => 1 \in 1 .. Len(q)
      OBVIOUS
<1>6. Append(q, m) # <<>>
      BY <1>1, <1>2
<1>7. q = <<>> => Append(q, m)[1] = m /\ DOMAIN Append(q, m) = {1}
      BY <1>1, <1>2, <1>4
<1> QED  BY <1>1, <1>2, <1>3, <1>5, <1>6, <1>7

MessageTypes == {"Syn", "Ack", "SyncStart", "SyncReady", "SyncGo", "Payload"}

\* A message is written behind those under way; if there are none, it is due as late as
\* it takes.
LEMMA SentMessage ==
  ASSUME now \in Nat, NEW q \in Seq(Message), NEW v \in Int, NEW l \in Latencies,
         NEW t \in MessageTypes
  PROVE  \E m \in Message : /\ Sent(q, t, v, l) = Append(q, m)
                            /\ m.type = t /\ m.val = v
                            /\ q = <<>> => m.due = now + l
<1> DEFINE last == IF q = <<>> THEN 0 ELSE q[Len(q)].due
           m == [type |-> t, val |-> v, due |-> Max({last, now + l})]
<1>1. last \in Nat
  <2>1. q # <<>> => q[Len(q)] \in Message
        OBVIOUS
  <2> QED  BY <2>1 DEF Message
<1>2. now + l \in Nat
      BY SyncAssumption
<1>3. Max({last, now + l}) = IF last >= now + l THEN last ELSE now + l
      BY <1>1, <1>2, MaxOfTwo
<1>4. m \in Message
      BY <1>1, <1>2, <1>3 DEF Message, MessageTypes
<1>5. Sent(q, t, v, l) = Append(q, m)
      BY DEF Sent
<1>6. q = <<>> => m.due = now + l
      BY <1>2, <1>3
<1> QED  BY <1>4, <1>5, <1>6

LEMMA ClientSendsOn ==
  ASSUME TypeOK, NEW k \in Links, NEW v \in Int,
         NEW t \in MessageTypes, ClientSends(k, t, v)
  PROVE  /\ toServer' \in [Links -> Seq(Message)]
         /\ \A j \in Links \ {k} : toServer'[j] = toServer[j]
         /\ \/ broken[k] /\ toServer'[k] = toServer[k]
            \/ \E m \in Message, l \in Latencies :
                 /\ ~broken[k] /\ toServer'[k] = Append(toServer[k], m)
                 /\ m.type = t /\ m.val = v
                 /\ toServer[k] = <<>> => m.due = now + l
<1>1. CASE broken[k]
      BY <1>1 DEF ClientSends, TypeOK
<1>2. CASE ~broken[k]
  <2>1. PICK l \in Latencies : toServer' = [toServer EXCEPT ![k] = Sent(@, t, v, l)]
        BY <1>2 DEF ClientSends
  <2>2. PICK m \in Message : /\ Sent(toServer[k], t, v, l) = Append(toServer[k], m)
                             /\ m.type = t /\ m.val = v
                             /\ toServer[k] = <<>> => m.due = now + l
    <3>1. /\ now \in Nat /\ toServer[k] \in Seq(Message) /\ v \in Int /\ l \in Latencies
          BY DEF TypeOK
    <3> QED  BY <3>1, SentMessage
  <2>3. toServer' = [toServer EXCEPT ![k] = Append(toServer[k], m)]
        BY <2>1, <2>2
  <2>4. Append(toServer[k], m) \in Seq(Message)
        BY AfterAppend DEF TypeOK
  <2> QED  BY <1>2, <2>2, <2>3, <2>4 DEF TypeOK
<1> QED  BY <1>1, <1>2

LEMMA ServerSendsOn ==
  ASSUME TypeOK, NEW k \in Links, NEW v \in Int,
         NEW t \in MessageTypes, ServerSends(k, t, v)
  PROVE  /\ toClient' \in [Links -> Seq(Message)]
         /\ \A j \in Links \ {k} : toClient'[j] = toClient[j]
         /\ \/ broken[k] /\ toClient'[k] = toClient[k]
            \/ \E m \in Message, l \in Latencies :
                 /\ ~broken[k] /\ toClient'[k] = Append(toClient[k], m)
                 /\ m.type = t /\ m.val = v
                 /\ toClient[k] = <<>> => m.due = now + l
<1>1. CASE broken[k]
      BY <1>1 DEF ServerSends, TypeOK
<1>2. CASE ~broken[k]
  <2>1. PICK l \in Latencies : toClient' = [toClient EXCEPT ![k] = Sent(@, t, v, l)]
        BY <1>2 DEF ServerSends
  <2>2. PICK m \in Message : /\ Sent(toClient[k], t, v, l) = Append(toClient[k], m)
                             /\ m.type = t /\ m.val = v
                             /\ toClient[k] = <<>> => m.due = now + l
    <3>1. /\ now \in Nat /\ toClient[k] \in Seq(Message) /\ v \in Int /\ l \in Latencies
          BY DEF TypeOK
    <3> QED  BY <3>1, SentMessage
  <2>3. toClient' = [toClient EXCEPT ![k] = Append(toClient[k], m)]
        BY <2>1, <2>2
  <2>4. Append(toClient[k], m) \in Seq(Message)
        BY AfterAppend DEF TypeOK
  <2> QED  BY <1>2, <2>2, <2>3, <2>4 DEF TypeOK
<1> QED  BY <1>1, <1>2

-----------------------------------------------------------------------------
(* Types.                                                                   *)

LEMMA LinksAre == Links = {"control", "data"} /\ "control" # "data"
BY DEF Links

\* Reading a message leaves a queue.
LEMMA Dequeued ==
  ASSUME NEW Q \in [Links -> Seq(Message)], NEW k \in Links, Q[k] # <<>>
  PROVE  [Q EXCEPT ![k] = Tail(@)] \in [Links -> Seq(Message)]
BY AfterTail

\* Division with remainder.
LEMMA Division ==
  ASSUME NEW a \in Nat, NEW n \in Nat, n > 0
  PROVE  /\ a \div n \in Nat /\ a % n \in Nat /\ a % n < n
         /\ a = n * (a \div n) + (a % n)
<1>1. a % n \in Int /\ 0 <= a % n /\ a % n < n
      OBVIOUS
<1>2. a \div n \in Nat
      OBVIOUS
<1>3. a = n * (a \div n) + (a % n)
      OBVIOUS
<1> QED  BY <1>1, <1>2, <1>3

LEMMA Remainder ==
  ASSUME NEW q \in Nat, NEW r \in Nat, NEW n \in Nat, r < n
  PROVE  (q * n + r) % n = r
OBVIOUS

\* Late or not, the statistics run next for a tick that is not over for longer than they
\* can be late.
LEMMA TimeToNextTickIs ==
  ASSUME NEW last \in LastStatsTimes, now \in Nat
  PROVE  /\ last \in Int /\ TimeToNextTick(last) \in Int
         /\ Meant(now, TimeToNextTick(last), last)
<1> DEFINE q == now \div Interval
           r == now % Interval
<1>1. Interval \in Nat /\ Interval > 0 /\ Lateness \subseteq 0 .. Interval - 1
      BY SyncAssumption
<1>2. q \in Nat /\ r \in Nat /\ r < Interval /\ now = Interval * q + r
      BY <1>1, Division
<1>3. \/ \E l \in Lateness : last = now - r + l /\ now - r + l <= now
      \/ \E l, m \in Lateness : last = now - r - Interval + l /\ now <= now - r + m
      BY <1>1, <1>2 DEF LastStatsTimes
<1>4. q * Interval \in Nat /\ (q + 1) * Interval = q * Interval + Interval /\ q + 1 \in Nat
      BY <1>1, <1>2
<1>5. now - r = q * Interval
      BY <1>1, <1>2
<1> HIDE DEF q, r
<1>6. CASE \E l \in Lateness : last = now - r + l /\ now - r + l <= now
  <2>1. PICK l \in Lateness : last = q * Interval + l
        BY <1>5, <1>6
  <2>2. l \in Nat /\ now <= (q + 1) * Interval + l /\ last + Interval = (q + 1) * Interval + l
        BY <1>1, <1>2, <1>4, <1>5, <2>1
  <2>3. /\ last \in Int /\ TimeToNextTick(last) \in Int
        /\ now + TimeToNextTick(last) = last + Interval
        BY <1>1, <1>4, <2>1, <2>2 DEF TimeToNextTick
  <2> QED  BY <1>4, <2>1, <2>2, <2>3 DEF Meant
<1>7. CASE \E l, m \in Lateness : last = now - r - Interval + l /\ now <= now - r + m
  <2>1. PICK l \in Lateness, m \in Lateness :
          last = q * Interval - Interval + l /\ now <= q * Interval + m
        BY <1>5, <1>7
  <2>2. l \in Nat /\ last + Interval = q * Interval + l
        BY <1>1, <1>4, <2>1
  <2>3. /\ last \in Int /\ TimeToNextTick(last) \in Int
        /\ now + TimeToNextTick(last) = last + Interval
        BY <1>1, <1>4, <2>1, <2>2 DEF TimeToNextTick
  <2> QED  BY <1>2, <2>1, <2>2, <2>3 DEF Meant
<1> QED  BY <1>3, <1>6, <1>7

\* What the server puts into SyncReady, in either mode.
LEMMA SyncReadyIs ==
  ASSUME TypeOK, NEW k \in Links, AnswerSyncStart(k)
  PROVE  \E d \in Int :
           /\ delayNs' = d /\ ServerSends(k, "SyncReady", d) /\ lastStatsTime' \in Int
           /\ gOneClient => d = 0
           /\ ~gOneClient => Meant(now, d, lastStatsTime')
<1>1. PICK last \in IF gOneClient THEN {lastStatsTime} ELSE LastStatsTimes :
        /\ lastStatsTime' = last
        /\ delayNs' = IF gOneClient THEN 0 ELSE TimeToNextTick(last)
        /\ ServerSends(k, "SyncReady", IF gOneClient THEN 0 ELSE TimeToNextTick(last))
      BY DEF AnswerSyncStart
<1>2. CASE gOneClient
      BY <1>1, <1>2 DEF TypeOK
<1>3. CASE ~gOneClient
      BY <1>1, <1>3, TimeToNextTickIs DEF TypeOK
<1> QED  BY <1>2, <1>3

\* Time passes until the first moment at which somebody has something to do.
LEMMA TickStep ==
  ASSUME TypeOK, Tick
  PROVE  /\ now' \in Nat /\ now' > now
         /\ \A t \in Agenda : now' <= t
<1>1. Agenda \subseteq Int
  <2>1. \A k \in Links : toClient[k] # <<>> => Head(toClient[k]).due \in Nat
        BY AfterTail DEF TypeOK, Message
  <2>2. \A k \in Links : toServer[k] # <<>> => Head(toServer[k]).due \in Nat
        BY AfterTail DEF TypeOK, Message
  <2> QED  BY <2>1, <2>2 DEF Agenda, TypeOK, NotYet
<1>2. Agenda # {} /\ (\A t \in Agenda : t > now) /\ now' = Min(Agenda) /\ now \in Nat
      BY DEF Tick, TypeOK
<1> HIDE DEF Agenda
<1>3. Agenda \subseteq Nat
  <2>1. ASSUME NEW t \in Agenda PROVE t \in Nat
    <3>1. t \in Int /\ t > now
          BY <1>1, <1>2
    <3> QED  BY <1>2, <3>1
  <2> QED  BY <2>1
<1>4. Min(Agenda) \in Agenda /\ \A t \in Agenda : Min(Agenda) <= t
      BY <1>2, <1>3, MinOfNats
<1> QED  BY <1>2, <1>3, <1>4

\* What the types need: the numbers in the messages to the server are no negative ones,
\* since a round trip does not end before it begins.
NumbersInv ==
  /\ sendTime <= now
  /\ \A k \in Links : \A i \in DOMAIN toServer[k] : toServer[k][i].val \in Nat

LEMMA TypesInit == Init => TypeOK /\ NumbersInv
BY SyncAssumption DEF Init, TypeOK, NumbersInv, NotYet

LEMMA TypesStep == TypeOK /\ NumbersInv /\ [Next]_vars => TypeOK'
<1> SUFFICES ASSUME TypeOK, NumbersInv, [Next]_vars PROVE TypeOK'
    OBVIOUS
<1> USE DEF params, net, client, handler
<1>0. {"Syn", "Ack", "SyncStart", "SyncReady", "SyncGo", "Payload"} = MessageTypes
      BY DEF MessageTypes
<1>1. CASE DialControl
  <2>1. toServer' \in [Links -> Seq(Message)]
        BY <1>0, <1>1, LinksAre, ClientSendsOn DEF DialControl
  <2> QED  BY <1>1, <2>1 DEF DialControl, TypeOK
<1>2. CASE SendSyncStart
  <2>1. toServer' \in [Links -> Seq(Message)]
        BY <1>0, <1>2, LinksAre, ClientSendsOn DEF SendSyncStart
  <2>2. toClient' \in [Links -> Seq(Message)]
        BY <1>2, LinksAre, Dequeued DEF SendSyncStart, Has, Arrived, TypeOK
  <2> QED  BY <1>2, <2>1, <2>2 DEF SendSyncStart, TypeOK
<1>3. CASE SendSyncGo
  <2>1. now - sendTime \in Int
        BY DEF TypeOK
  <2>2. toServer' \in [Links -> Seq(Message)]
        BY <1>0, <1>3, <2>1, LinksAre, ClientSendsOn DEF SendSyncGo
  <2>3. toClient' \in [Links -> Seq(Message)]
        BY <1>3, LinksAre, Dequeued DEF SendSyncGo, Has, Arrived, TypeOK
  <2>4. Head(toClient["control"]).val \in Int
        BY <1>3, LinksAre, AfterTail DEF SendSyncGo, Has, Arrived, TypeOK, Message
  <2>5. cStart' \in Nat
    <3> DEFINE delay == Head(toClient["control"]).val
               rest == delay - ((now - sendTime) \div 2)
    <3>1. rest \in Int /\ now \in Nat
          BY <2>1, <2>4 DEF TypeOK
    <3>2. Max({0, rest}) \in Nat
          BY <3>1, MaxOfTwo
    <3>3. cStart' = now + (IF delay = 0 THEN 0 ELSE Max({0, rest}))
          BY <1>3 DEF SendSyncGo
    <3> QED  BY <3>1, <3>2, <3>3
  <2> QED  BY <1>3, <2>2, <2>3, <2>5 DEF SendSyncGo, TypeOK
<1>4. CASE WaitOver
      BY <1>4 DEF WaitOver, TypeOK
<1>5. CASE DialData
  <2>1. toServer' \in [Links -> Seq(Message)]
        BY <1>0, <1>5, LinksAre, ClientSendsOn DEF DialData
  <2> QED  BY <1>5, <2>1 DEF DialData, TypeOK
<1>6. CASE StartTransfer
  <2>1. toClient' \in [Links -> Seq(Message)]
    <3>1. Has(toClient["data"], "Ack") => Tail(toClient["data"]) \in Seq(Message)
          BY LinksAre, AfterTail DEF Has, Arrived, TypeOK
    <3> QED  BY <1>6, <3>1 DEF StartTransfer, TypeOK
  <2>2. toServer' \in [Links -> Seq(Message)]
    <3>1. CASE reverse
          BY <1>6, <3>1 DEF StartTransfer, TypeOK
    <3>2. CASE ~reverse
      <4>1. PICK l \in Latencies, m \in Latencies :
              toServer' = [k \in Links |->
                IF broken'[k] THEN toServer[k]
                ELSE Sent(toServer[k], "Payload", 0, IF k = "control" THEN l ELSE m)]
            BY <1>6, <3>2 DEF StartTransfer
      <4>2. ASSUME NEW k \in Links, NEW n \in Latencies
            PROVE  Sent(toServer[k], "Payload", 0, n) \in Seq(Message)
        <5>1. now \in Nat /\ toServer[k] \in Seq(Message) /\ "Payload" \in MessageTypes
              BY DEF TypeOK, MessageTypes
        <5>2. PICK x \in Message : Sent(toServer[k], "Payload", 0, n) = Append(toServer[k], x)
              BY <5>1, SentMessage
        <5> QED  BY <5>1, <5>2, AfterAppend, SMTT(30)
      <4>3. ASSUME NEW k \in Links
            PROVE  (IF broken'[k] THEN toServer[k]
                    ELSE Sent(toServer[k], "Payload", 0, IF k = "control" THEN l ELSE m))
                      \in Seq(Message)
            BY <4>2 DEF TypeOK
      <4> QED  BY <4>1, <4>3
    <3> QED  BY <3>1, <3>2
  <2> QED  BY <1>6, <2>1, <2>2 DEF StartTransfer, TypeOK
<1>7. CASE ClientGivesUp
      BY <1>7 DEF ClientGivesUp, TypeOK
<1>8. ASSUME NEW k \in Links, ClientReads(k) PROVE TypeOK'
  <2>1. toClient' \in [Links -> Seq(Message)]
        BY <1>8, Dequeued DEF ClientReads, Arrived, TypeOK
  <2> QED  BY <1>8, <2>1 DEF ClientReads, TypeOK
<1>9. ASSUME NEW k \in Links, AnswerSyn(k) PROVE TypeOK'
  <2>1. toClient' \in [Links -> Seq(Message)]
        BY <1>0, <1>9, ServerSendsOn DEF AnswerSyn
  <2>2. toServer' \in [Links -> Seq(Message)]
        BY <1>9, Dequeued DEF AnswerSyn, Has, Arrived, TypeOK
  <2>3. now + Deadline \in Nat
        BY SyncAssumption DEF TypeOK
  <2> QED  BY <1>9, <2>1, <2>2, <2>3 DEF AnswerSyn, TypeOK
<1>10. ASSUME NEW k \in Links, AnswerSyncStart(k) PROVE TypeOK'
  <2>1. PICK d \in Int :
          delayNs' = d /\ ServerSends(k, "SyncReady", d) /\ lastStatsTime' \in Int
        BY <1>10, SyncReadyIs
  <2>3. toClient' \in [Links -> Seq(Message)]
        BY <1>0, <2>1, ServerSendsOn
  <2>4. toServer' \in [Links -> Seq(Message)]
        BY <1>10, Dequeued DEF AnswerSyncStart, Has, Arrived, TypeOK
  <2> QED  BY <1>10, <2>1, <2>3, <2>4 DEF AnswerSyncStart, TypeOK
<1>11. ASSUME NEW k \in Links, TakeForData(k) PROVE TypeOK'
  <2>1. toClient' \in [Links -> Seq(Message)]
        BY <1>0, <1>11, ServerSendsOn DEF TakeForData, TypeOK
  <2>2. toServer' \in [Links -> Seq(Message)]
    <3>1. Arrived(toServer[k]) => Tail(toServer[k]) \in Seq(Message)
          BY AfterTail DEF Arrived, TypeOK
    <3> QED  BY <1>11, <3>1 DEF TakeForData, TypeOK
  <2> QED  BY <1>11, <2>1, <2>2 DEF TakeForData, TypeOK
<1>12. ASSUME NEW k \in Links, AnswerSyncGo(k) PROVE TypeOK'
  <2>1. toServer' \in [Links -> Seq(Message)]
        BY <1>12, Dequeued DEF AnswerSyncGo, Has, Arrived, TypeOK
  <2>2. Head(toServer[k]).val \in Nat
        BY <1>12, AfterTail DEF AnswerSyncGo, Has, Arrived, TypeOK, NumbersInv
  <2>3. Head(toServer[k]).val \div 2 \in Nat
        BY <2>2
  <2>4. Max({0, delayNs}) \in Nat
    <3>1. delayNs \in Int
          BY DEF TypeOK
    <3>2. Max({0, delayNs}) = IF 0 >= delayNs THEN 0 ELSE delayNs
          BY <3>1, MaxOfTwo
    <3> QED  BY <3>1, <3>2
  <2>5. sStart' \in Nat
        BY <1>12, <2>3, <2>4 DEF AnswerSyncGo, TypeOK
  <2> QED  BY <1>12, <2>1, <2>5 DEF AnswerSyncGo, TypeOK
<1>13. ASSUME NEW k \in Links, ServerStarts(k) PROVE TypeOK'
  <2>1. toClient' \in [Links -> Seq(Message)]
        BY <1>0, <1>13, ServerSendsOn DEF ServerStarts, TypeOK
  <2> QED  BY <1>13, <2>1 DEF ServerStarts, TypeOK
<1>14. ASSUME NEW k \in Links, HandlerGivesUp(k) PROVE TypeOK'
      BY <1>14 DEF HandlerGivesUp, TypeOK
<1>15. ASSUME NEW k \in Links, ServerReads(k) PROVE TypeOK'
  <2>1. toServer' \in [Links -> Seq(Message)]
        BY <1>15, Dequeued DEF ServerReads, Arrived, TypeOK
  <2> QED  BY <1>15, <2>1 DEF ServerReads, TypeOK
<1>16. ASSUME NEW k \in Links, RunEnds(k) \/ Break(k) PROVE TypeOK'
      BY <1>16 DEF RunEnds, Break, TypeOK
<1>17. CASE Tick
      BY <1>17, TickStep DEF Tick, TypeOK
<1>18. CASE UNCHANGED vars
      BY <1>18 DEF vars, TypeOK
<1> QED  BY <1>1, <1>2, <1>3, <1>4, <1>5, <1>6, <1>7, <1>8, <1>9, <1>10, <1>11, <1>12, <1>13,
            <1>14, <1>15, <1>16, <1>17, <1>18 DEF Next, ClientNext, HandlerNext

LEMMA NumbersStep == TypeOK /\ NumbersInv /\ [Next]_vars => NumbersInv'
<1> SUFFICES ASSUME TypeOK, NumbersInv, [Next]_vars PROVE NumbersInv'
    OBVIOUS
<1> USE DEF NumbersInv, params, net, client, handler
<1>0. /\ "Syn" \in MessageTypes /\ "SyncStart" \in MessageTypes /\ "SyncGo" \in MessageTypes
      /\ "Payload" \in MessageTypes
      BY DEF MessageTypes
<1>00. /\ now \in Nat /\ sendTime \in Nat
       /\ \A k \in Links : toServer[k] \in Seq(Message)
       BY DEF TypeOK
\* Sending a message with a number that is not negative.
<1>01. ASSUME NEW k \in Links, NEW t \in MessageTypes, NEW v \in Nat, ClientSends(k, t, v)
       PROVE  \A j \in Links : \A i \in DOMAIN toServer'[j] : toServer'[j][i].val \in Nat
  <2>1. /\ \A j \in Links \ {k} : toServer'[j] = toServer[j]
        /\ \/ toServer'[k] = toServer[k]
           \/ \E m \in Message : toServer'[k] = Append(toServer[k], m) /\ m.val = v
    <3>1. v \in Int
          OBVIOUS
    <3> QED  BY <1>01, <3>1, ClientSendsOn
  <2>2. \A i \in DOMAIN toServer'[k] : toServer'[k][i].val \in Nat
    <3>1. ASSUME NEW m \in Message, toServer'[k] = Append(toServer[k], m), m.val = v,
                 NEW i \in DOMAIN toServer'[k]
          PROVE  toServer'[k][i].val \in Nat
          BY <1>00, <3>1, AfterAppend
    <3> QED  BY <2>1, <3>1
  <2> QED  BY <2>1, <2>2
\* Reading one.
<1>02. ASSUME NEW k \in Links, toServer[k] # <<>>,
              toServer' = [toServer EXCEPT ![k] = Tail(@)]
       PROVE  \A j \in Links : \A i \in DOMAIN toServer'[j] : toServer'[j][i].val \in Nat
  <2>1. \A j \in Links : toServer'[j] = IF j = k THEN Tail(toServer[k]) ELSE toServer[j]
        BY <1>02 DEF TypeOK
  <2> QED  BY <1>00, <1>02, <2>1, AfterTail
<1>1. CASE DialControl \/ DialData
      BY <1>0, <1>01, <1>1, LinksAre DEF DialControl, DialData
<1>2. CASE SendSyncStart
      BY <1>0, <1>00, <1>01, <1>2, LinksAre DEF SendSyncStart
<1>3. CASE SendSyncGo
  <2>1. now - sendTime \in Nat
        BY <1>00
  <2> QED  BY <1>0, <1>01, <1>3, <2>1, LinksAre DEF SendSyncGo
<1>4. CASE WaitOver \/ ClientGivesUp \/ (\E k \in Links : ClientReads(k)) \/ UNCHANGED vars
      BY <1>4 DEF WaitOver, ClientGivesUp, ClientReads, vars
<1>5. CASE StartTransfer
  <2>1. CASE reverse
        BY <1>5, <2>1 DEF StartTransfer
  <2>2. CASE ~reverse
    <3>1. PICK l \in Latencies, m \in Latencies :
            toServer' = [k \in Links |->
              IF broken'[k] THEN toServer[k]
              ELSE Sent(toServer[k], "Payload", 0, IF k = "control" THEN l ELSE m)]
          BY <1>5, <2>2 DEF StartTransfer
    <3>2. ASSUME NEW k \in Links, NEW n \in Latencies,
                 NEW i \in DOMAIN Sent(toServer[k], "Payload", 0, n)
          PROVE  Sent(toServer[k], "Payload", 0, n)[i].val \in Nat
      <4>1. PICK x \in Message :
              Sent(toServer[k], "Payload", 0, n) = Append(toServer[k], x) /\ x.val = 0
        <5>1. now \in Nat /\ toServer[k] \in Seq(Message) /\ "Payload" \in MessageTypes /\ 0 \in Int
              BY <1>0, <1>00
        <5> QED  BY <5>1, SentMessage, SMTT(30)
      <4> QED  BY <1>00, <3>2, <4>1, AfterAppend
    <3>3. ASSUME NEW k \in Links, NEW i \in DOMAIN toServer'[k] PROVE toServer'[k][i].val \in Nat
      <4>1. PICK n \in Latencies : toServer'[k] = IF broken'[k] THEN toServer[k]
                                                  ELSE Sent(toServer[k], "Payload", 0, n)
            BY <3>1
      <4> QED  BY <3>2, <3>3, <4>1
    <3> QED  BY <1>5, <3>3 DEF StartTransfer
  <2> QED  BY <2>1, <2>2
<1>6. ASSUME NEW k \in Links, AnswerSyn(k) \/ AnswerSyncGo(k) \/ ServerReads(k)
      PROVE  NumbersInv'
      BY <1>02, <1>6 DEF AnswerSyn, AnswerSyncGo, ServerReads, Has, Arrived
<1>7. ASSUME NEW k \in Links, AnswerSyncStart(k) PROVE NumbersInv'
      BY <1>02, <1>7 DEF AnswerSyncStart, Has, Arrived
<1>8. ASSUME NEW k \in Links, TakeForData(k) PROVE NumbersInv'
  <2>1. CASE Arrived(toServer[k]) /\ now < readUntil[k]
    <3>1. toServer' = [toServer EXCEPT ![k] = Tail(@)] /\ toServer[k] # <<>>
          BY <1>8, <2>1 DEF TakeForData, Arrived
    <3> QED  BY <1>02, <1>8, <3>1 DEF TakeForData
  <2>2. CASE ~(Arrived(toServer[k]) /\ now < readUntil[k])
    <3>1. toServer' = toServer
          BY <1>8, <2>2 DEF TakeForData, TypeOK
    <3> QED  BY <1>8, <3>1 DEF TakeForData
  <2> QED  BY <2>1, <2>2
<1>9. ASSUME NEW k \in Links, ServerStarts(k) \/ HandlerGivesUp(k) \/ RunEnds(k) \/ Break(k)
      PROVE  NumbersInv'
      BY <1>9 DEF ServerStarts, HandlerGivesUp, RunEnds, Break
<1>10. CASE Tick
  <2>1. sendTime <= now'
        BY <1>00, <1>10, TickStep
  <2> QED  BY <1>10, <2>1 DEF Tick
<1> QED  BY <1>1, <1>2, <1>3, <1>4, <1>5, <1>6, <1>7, <1>8, <1>9, <1>10
         DEF Next, ClientNext, HandlerNext

LEMMA TypesInv == Spec => [](TypeOK /\ NumbersInv)
BY TypesInit, TypesStep, NumbersStep, PTL DEF Spec

-----------------------------------------------------------------------------
(* The control connection.                                                  *)

\* A handler leaves the client, the other connection and its handler alone.
LEMMA HandlerFrame ==
  ASSUME TypeOK, NEW k \in Links, HandlerNext(k)
  PROVE  /\ UNCHANGED <<now, gOneClient, reverse, cpc, sendTime, cStart>>
         /\ \A j \in Links \ {k} :
              /\ toServer'[j] = toServer[j] /\ toClient'[j] = toClient[j]
              /\ broken'[j] = broken[j] /\ spc'[j] = spc[j] /\ readUntil'[j] = readUntil[j]
         /\ \A j \in Links : broken[j] => broken'[j]
<1> USE DEF params, client, handler, TypeOK
<1>0. {"Ack", "SyncReady", "Payload"} \subseteq MessageTypes
      BY DEF MessageTypes
<1>1. CASE AnswerSyn(k)
      BY <1>0, <1>1, ServerSendsOn DEF AnswerSyn
<1>2. CASE AnswerSyncStart(k)
  <2>1. PICK d \in Int : ServerSends(k, "SyncReady", d)
        BY <1>2, SyncReadyIs
  <2>3. \A j \in Links \ {k} : toClient'[j] = toClient[j]
        BY <1>0, <2>1, ServerSendsOn
  <2> QED  BY <1>2, <2>3 DEF AnswerSyncStart
<1>3. CASE TakeForData(k)
      BY <1>0, <1>3, ServerSendsOn DEF TakeForData
<1>4. CASE AnswerSyncGo(k)
      BY <1>4 DEF AnswerSyncGo
<1>5. CASE ServerStarts(k)
      BY <1>0, <1>5, ServerSendsOn DEF ServerStarts
<1>6. CASE HandlerGivesUp(k)
      BY <1>6 DEF HandlerGivesUp
<1>7. CASE ServerReads(k)
      BY <1>7 DEF ServerReads
<1>8. CASE RunEnds(k)
      BY <1>8 DEF RunEnds, net
<1> QED  BY <1>1, <1>2, <1>3, <1>4, <1>5, <1>6, <1>7, <1>8 DEF HandlerNext

\* What a process reads from a queue, and what is left: the first message, and payload.
LEMMA ControlReads ==
  ASSUME TypeOK, ControlInv
  PROVE  /\ Up \in Seq(Message) /\ Down \in Seq(Message)
         /\ Up # <<>> => /\ Head(Up) = Up[1] /\ UpMessage(Up[1])
                         /\ \A i \in DOMAIN Tail(Up) : Tail(Up)[i].type = "Payload" /\ cpc = "run"
         /\ Down # <<>> => /\ Head(Down) = Down[1] /\ DownMessage(Down[1])
                           /\ \A i \in DOMAIN Tail(Down) :
                                /\ Tail(Down)[i].type = "Payload"
                                /\ spc["control"] \in {"run", "ended"}
<1>1. Up \in Seq(Message) /\ Down \in Seq(Message)
      BY LinksAre DEF TypeOK, Up, Down
<1>2. ASSUME Up # <<>>
      PROVE  /\ Head(Up) = Up[1] /\ UpMessage(Up[1])
             /\ \A i \in DOMAIN Tail(Up) : Tail(Up)[i].type = "Payload" /\ cpc = "run"
  <2>1. /\ Head(Up) = Up[1] /\ 1 \in DOMAIN Up
        /\ \A i \in DOMAIN Tail(Up) : i + 1 \in DOMAIN Up /\ i + 1 > 1 /\ Tail(Up)[i] = Up[i + 1]
        BY <1>1, <1>2, AfterTail
  <2>2. \A i \in DOMAIN Tail(Up) : UpMessage(Up[i + 1]) /\ Up[i + 1].type = "Payload"
        BY <2>1 DEF ControlInv
  <2> QED  BY <2>1, <2>2 DEF ControlInv, UpMessage
<1>3. ASSUME Down # <<>>
      PROVE  /\ Head(Down) = Down[1] /\ DownMessage(Down[1])
             /\ \A i \in DOMAIN Tail(Down) :
                  Tail(Down)[i].type = "Payload" /\ spc["control"] \in {"run", "ended"}
  <2>1. /\ Head(Down) = Down[1] /\ 1 \in DOMAIN Down
        /\ \A i \in DOMAIN Tail(Down) :
             i + 1 \in DOMAIN Down /\ i + 1 > 1 /\ Tail(Down)[i] = Down[i + 1]
        BY <1>1, <1>3, AfterTail
  <2>2. \A i \in DOMAIN Tail(Down) : DownMessage(Down[i + 1]) /\ Down[i + 1].type = "Payload"
        BY <2>1 DEF ControlInv
  <2> QED  BY <2>1, <2>2 DEF ControlInv, DownMessage
<1> QED  BY <1>1, <1>2, <1>3

\* Where the two are says that there is nothing under way in the one direction or other.
LEMMA ControlEmpty ==
  ASSUME TypeOK, ControlInv
  PROVE  /\ cpc # "run" /\ Up # <<>> => Tail(Up) = <<>>
         /\ spc["control"] \notin {"run", "ended"} /\ Down # <<>> => Tail(Down) = <<>>
<1>1. ASSUME NEW q \in Seq(Message), \A i \in DOMAIN q : FALSE PROVE q = <<>>
  <2>1. q # <<>> => 1 \in DOMAIN q
        OBVIOUS
  <2> QED  BY <1>1, <2>1
<1>2. Up # <<>> => Tail(Up) \in Seq(Message)
      BY ControlReads, AfterTail
<1>3. Down # <<>> => Tail(Down) \in Seq(Message)
      BY ControlReads, AfterTail
<1> QED  BY <1>1, <1>2, <1>3, ControlReads

\* A message of the protocol is put on an empty queue, or dropped.
LEMMA ClientWrites ==
  ASSUME TypeOK, NEW t \in MessageTypes, NEW v \in Int, ClientSends("control", t, v), Up = <<>>
  PROVE  \/ broken["control"] /\ Up' = <<>>
         \/ /\ DOMAIN Up' = {1} /\ Up' # <<>> /\ Up'[1].type = t /\ Up'[1].val = v
            /\ \E l \in Latencies : Up'[1].due = now + l
<1>1. Up \in Seq(Message) /\ "control" \in Links
      BY LinksAre DEF TypeOK, Up
<1>2. \/ broken["control"] /\ Up' = Up
      \/ \E m \in Message, l \in Latencies :
           /\ ~broken["control"] /\ Up' = Append(Up, m)
           /\ m.type = t /\ m.val = v
           /\ Up = <<>> => m.due = now + l
  <2>1. ClientSends("control", t, v) /\ v \in Int /\ t \in MessageTypes
        OBVIOUS
  <2> QED  BY <1>1, <2>1, ClientSendsOn DEF Up
<1>3. ASSUME NEW m \in Message, Up' = Append(Up, m)
      PROVE  DOMAIN Up' = {1} /\ Up' # <<>> /\ Up'[1] = m
      BY <1>1, <1>3, AfterAppend
<1> QED  BY <1>2, <1>3

LEMMA ServerWrites ==
  ASSUME TypeOK, NEW t \in MessageTypes, NEW v \in Int, ServerSends("control", t, v), Down = <<>>
  PROVE  \/ broken["control"] /\ Down' = <<>>
         \/ /\ DOMAIN Down' = {1} /\ Down' # <<>> /\ Down'[1].type = t /\ Down'[1].val = v
            /\ \E l \in Latencies : Down'[1].due = now + l
<1>1. Down \in Seq(Message) /\ "control" \in Links
      BY LinksAre DEF TypeOK, Down
<1>2. \/ broken["control"] /\ Down' = Down
      \/ \E m \in Message, l \in Latencies :
           /\ ~broken["control"] /\ Down' = Append(Down, m)
           /\ m.type = t /\ m.val = v
           /\ Down = <<>> => m.due = now + l
      BY <1>1, ServerSendsOn DEF Down
<1>3. ASSUME NEW m \in Message, Down' = Append(Down, m)
      PROVE  DOMAIN Down' = {1} /\ Down' # <<>> /\ Down'[1] = m
      BY <1>1, <1>3, AfterAppend
<1> QED  BY <1>2, <1>3

\* Payload is put behind what is under way.
LEMMA ServerWritesPayload ==
  ASSUME TypeOK, NEW k \in Links, ServerSends(k, "Payload", 0)
  PROVE  \A i \in DOMAIN toClient'[k] :
           \/ i \in DOMAIN toClient[k] /\ toClient'[k][i] = toClient[k][i]
           \/ toClient'[k][i].type = "Payload"
<1>1. toClient[k] \in Seq(Message) /\ "Payload" \in MessageTypes /\ 0 \in Int
      BY DEF TypeOK, MessageTypes
<1>2. \/ toClient'[k] = toClient[k]
      \/ \E m \in Message : toClient'[k] = Append(toClient[k], m) /\ m.type = "Payload"
      BY <1>1, ServerSendsOn
<1>3. ASSUME NEW m \in Message, toClient'[k] = Append(toClient[k], m), m.type = "Payload",
             NEW i \in DOMAIN toClient'[k]
      PROVE  \/ i \in DOMAIN toClient[k] /\ toClient'[k][i] = toClient[k][i]
             \/ toClient'[k][i].type = "Payload"
      BY <1>1, <1>3, AfterAppend
<1> QED  BY <1>2, <1>3

\* When the transfer starts, a payload is put on each connection that is up, unless the
\* server sends.
LEMMA TransferWrites ==
  ASSUME TypeOK, StartTransfer, NEW k \in Links
  PROVE  \/ toServer'[k] = toServer[k]
         \/ \E m \in Message :
              /\ ~broken'[k] /\ m.type = "Payload" /\ toServer'[k] # <<>>
              /\ \A i \in DOMAIN toServer'[k] :
                   \/ i \in DOMAIN toServer[k] /\ toServer'[k][i] = toServer[k][i]
                   \/ i = Len(toServer[k]) + 1 /\ toServer'[k][i] = m
              /\ toServer[k] # <<>> => toServer'[k][1] = toServer[k][1]
<1>0. now \in Nat /\ toServer[k] \in Seq(Message) /\ "Payload" \in MessageTypes /\ 0 \in Int
      BY DEF TypeOK, MessageTypes
<1>1. CASE reverse
      BY <1>1 DEF StartTransfer
<1>2. CASE ~reverse
  <2>1. PICK l \in Latencies, n \in Latencies :
          toServer' = [j \in Links |->
            IF broken'[j] THEN toServer[j]
            ELSE Sent(toServer[j], "Payload", 0, IF j = "control" THEN l ELSE n)]
        BY <1>2 DEF StartTransfer
  <2>2. PICK x \in Latencies :
          toServer'[k] = IF broken'[k] THEN toServer[k] ELSE Sent(toServer[k], "Payload", 0, x)
        BY <2>1
  <2>3. PICK m \in Message :
          Sent(toServer[k], "Payload", 0, x) = Append(toServer[k], m) /\ m.type = "Payload"
        BY <1>0, SentMessage
  <2>4. CASE ~broken'[k]
    <3>1. toServer'[k] = Append(toServer[k], m)
          BY <2>2, <2>3, <2>4
    <3> QED  BY <1>0, <2>3, <2>4, <3>1, AfterAppend
  <2> QED  BY <2>2, <2>4
<1> QED  BY <1>1, <1>2

\* Who does nothing on the control connection changes nothing of this.
LEMMA ControlKept ==
  ASSUME ControlInv, UNCHANGED <<Up, Down>>, spc'["control"] = spc["control"],
         \/ cpc' = cpc
         \/ cpc \in {"wait", "dialData"} /\ cpc' \in Started
         \/ cpc \in {"ack", "ready"} /\ cpc' = "failed"
  PROVE  ControlInv'
BY DEF ControlInv, UpMessage, DownMessage, Started

LEMMA ControlStep == TypeOK /\ ControlInv /\ DataInv /\ [Next]_vars => ControlInv'
<1> SUFFICES ASSUME TypeOK, ControlInv, DataInv, [Next]_vars PROVE ControlInv'
    OBVIOUS
<1>0. /\ "Syn" \in MessageTypes /\ "SyncStart" \in MessageTypes /\ "SyncGo" \in MessageTypes
      /\ "Ack" \in MessageTypes /\ "SyncReady" \in MessageTypes /\ 0 \in Int
      /\ spc \in [Links -> {"syn", "probe", "go", "sleep", "run", "ended"}]
      /\ "control" \in Links /\ "data" \in Links
      /\ toServer \in [Links -> Seq(Message)] /\ toClient \in [Links -> Seq(Message)]
      BY LinksAre DEF TypeOK, MessageTypes
<1>1. CASE DialControl
  <2>1. /\ Up = <<>> /\ Down = <<>> /\ spc["control"] \in {"syn", "ended"}
        /\ cpc' = "ack" /\ Down' = Down /\ spc' = spc /\ ClientSends("control", "Syn", 0)
        BY <1>1 DEF DialControl, ControlInv, Down, handler
  <2>2. Up' = <<>> \/ (DOMAIN Up' = {1} /\ Up'[1].type = "Syn")
        BY <1>0, <2>1, ClientWrites
  <2> QED  BY <2>1, <2>2 DEF ControlInv, UpMessage
<1>2. CASE SendSyncStart
  <2>1. /\ Down # <<>> /\ Head(Down).type = "Ack" /\ cpc' = "ready" /\ spc' = spc
        /\ ClientSends("control", "SyncStart", 0) /\ cpc = "ack" /\ Down' = Tail(Down)
        BY <1>0, <1>2 DEF SendSyncStart, Down, handler, Has, Arrived
  <2>2. Up = <<>> /\ spc["control"] \in {"probe", "run", "ended"}
        BY <2>1, ControlReads DEF DownMessage
  <2>3. Up' = <<>> \/ (DOMAIN Up' = {1} /\ Up'[1].type = "SyncStart")
        BY <1>0, <2>1, <2>2, ClientWrites
  <2>4. /\ \A i \in DOMAIN Down' : Down'[i].type = "Payload" /\ spc["control"] \in {"run", "ended"}
        /\ spc["control"] = "probe" => Down' = <<>>
        BY <2>1, <2>2, ControlReads, ControlEmpty
  <2> QED  BY <2>1, <2>2, <2>3, <2>4 DEF ControlInv, UpMessage, DownMessage
<1>3. CASE SendSyncGo
  <2>1. /\ Down # <<>> /\ Head(Down).type = "SyncReady" /\ cpc' \in {"dialData", "wait"}
        /\ ClientSends("control", "SyncGo", now - sendTime) /\ Down' = Tail(Down)
        /\ spc' = spc /\ now - sendTime \in Int /\ cpc = "ready"
        BY <1>0, <1>3 DEF SendSyncGo, Down, handler, Has, Arrived, TypeOK
  <2>2. Up = <<>> /\ spc["control"] \in {"go", "ended"}
        BY <2>1, ControlReads DEF DownMessage
  <2>3. Up' = <<>> \/ (DOMAIN Up' = {1} /\ Up'[1].type = "SyncGo")
        BY <1>0, <2>1, <2>2, ClientWrites
  <2>4. \A i \in DOMAIN Down' : Down'[i].type = "Payload" /\ spc["control"] \in {"run", "ended"}
        BY <2>1, <2>2, ControlReads
  <2> QED  BY <2>1, <2>2, <2>3, <2>4 DEF ControlInv, UpMessage, DownMessage, Started
<1>4. CASE WaitOver \/ ClientGivesUp
  <2>1. /\ UNCHANGED <<Up, Down>> /\ spc' = spc
        /\ \/ cpc = "wait" /\ cpc' = "dialData"
           \/ cpc \in {"ack", "ready"} /\ cpc' = "failed"
        BY <1>4 DEF WaitOver, ClientGivesUp, Up, Down, net, handler
  <2> QED  BY <2>1, ControlKept DEF Started
<1>5. CASE DialData
  <2>1. ClientSends("data", "Syn", 0) /\ "control" \in Links \ {"data"}
        BY <1>0, <1>5, LinksAre DEF DialData
  <2>2. Up' = Up
        BY <1>0, <2>1, ClientSendsOn DEF Up
  <2>3. Down' = Down /\ spc' = spc /\ cpc = "dialData" /\ cpc' = "dataAck"
        BY <1>5 DEF DialData, Down, handler
  <2> QED  BY <2>2, <2>3, ControlKept DEF Started
<1>6. CASE StartTransfer
  <2>1. Down' = Down /\ spc' = spc /\ cpc = "dataAck" /\ cpc' = "run"
        BY <1>0, <1>6, LinksAre DEF StartTransfer, Down, handler
  <2>2. ASSUME NEW i \in DOMAIN Up' PROVE UpMessage(Up[i])' /\ (i > 1 => Up'[i].type = "Payload")
    <3>1. (i \in DOMAIN Up /\ Up'[i] = Up[i]) \/ Up'[i].type = "Payload"
          BY <1>0, <1>6, <2>2, TransferWrites DEF Up
    <3> QED  BY <2>1, <3>1 DEF ControlInv, UpMessage, Started
  <2>3. ASSUME NEW i \in DOMAIN Down' PROVE DownMessage(Down[i])' /\ (i > 1 => Down'[i].type = "Payload")
        BY <2>1 DEF ControlInv, DownMessage
  <2> QED  BY <2>1, <2>2, <2>3 DEF ControlInv
<1>7. ASSUME NEW k \in Links, ClientReads(k) PROVE ControlInv'
  <2>1. Up' = Up /\ cpc' = cpc /\ spc' = spc /\ cpc = "run"
        BY <1>7 DEF ClientReads, Up, client, handler
  <2>2. Down' = Down \/ (Down # <<>> /\ Down' = Tail(Down))
        BY <1>0, <1>7 DEF ClientReads, Arrived, Down
  <2>3. CASE Down' = Down
        BY <2>1, <2>3, ControlKept
  <2>4. CASE Down # <<>> /\ Down' = Tail(Down)
        BY <2>1, <2>4, ControlReads DEF ControlInv, UpMessage, DownMessage, Started
  <2> QED  BY <2>2, <2>3, <2>4
<1>8. CASE HandlerNext("data")
  <2>1. UNCHANGED <<Up, Down, cpc>> /\ spc'["control"] = spc["control"]
        BY <1>0, <1>8, LinksAre, HandlerFrame DEF Up, Down
  <2> QED  BY <2>1, ControlKept
<1>9. CASE AnswerSyn("control")
  <2>1. /\ Up # <<>> /\ Head(Up).type = "Syn" /\ Up' = Tail(Up) /\ cpc' = cpc
        /\ spc'["control"] = "probe" /\ ServerSends("control", "Ack", 0)
        BY <1>0, <1>9 DEF AnswerSyn, Up, client, Has, Arrived
  <2>2. Down = <<>> /\ cpc \in {"ack", "failed"} /\ Up' = <<>>
        BY <2>1, ControlReads, ControlEmpty DEF UpMessage
  <2>3. Down' = <<>> \/ (DOMAIN Down' = {1} /\ Down'[1].type = "Ack")
        BY <1>0, <2>1, <2>2, ServerWrites, SMTT(30)
  <2> QED  BY <2>1, <2>2, <2>3 DEF ControlInv, DownMessage
<1>10. CASE AnswerSyncStart("control")
  <2>1. PICK d \in Int : ServerSends("control", "SyncReady", d)
        BY <1>0, <1>10, SyncReadyIs
  <2>2. /\ Up # <<>> /\ Head(Up).type = "SyncStart" /\ Up' = Tail(Up) /\ cpc' = cpc
        /\ spc'["control"] = "go" /\ spc["control"] = "probe"
        BY <1>0, <1>10 DEF AnswerSyncStart, Up, client, Has, Arrived
  <2>3. Down = <<>> /\ cpc \in {"ready", "failed"} /\ Up' = <<>>
        BY <2>2, ControlReads, ControlEmpty DEF UpMessage
  <2>5. Down' = <<>> \/ (DOMAIN Down' = {1} /\ Down'[1].type = "SyncReady")
        BY <1>0, <2>1, <2>3, ServerWrites, SMTT(30)
  <2> QED  BY <2>2, <2>3, <2>5 DEF ControlInv, DownMessage
<1>11. CASE TakeForData("control")
  <2>1. /\ cpc' = cpc /\ spc["control"] = "probe" /\ spc'["control"] = "run"
        /\ Up' = Up \/ (Up # <<>> /\ Up' = Tail(Up))
        /\ Down' = Down \/ ServerSends("control", "Payload", 0)
        BY <1>0, <1>11 DEF TakeForData, Up, Down, client, Arrived
  <2>2. ASSUME NEW i \in DOMAIN Up'
        PROVE  UpMessage(Up[i])' /\ (i > 1 => Up'[i].type = "Payload")
        BY <2>1, <2>2, ControlReads DEF ControlInv, UpMessage, Started
  <2>3. ASSUME NEW i \in DOMAIN Down'
        PROVE  DownMessage(Down[i])' /\ (i > 1 => Down'[i].type = "Payload")
    <3>1. (i \in DOMAIN Down /\ Down'[i] = Down[i]) \/ Down'[i].type = "Payload"
          BY <1>0, <2>1, <2>3, ServerWritesPayload DEF Down
    <3>2. Up = <<>> => Up' = <<>>
          BY <2>1
    <3> QED  BY <2>1, <3>1, <3>2 DEF ControlInv, DownMessage
  <2> QED  BY <2>1, <2>2, <2>3 DEF ControlInv
<1>12. CASE AnswerSyncGo("control")
  <2>1. /\ Up # <<>> /\ Head(Up).type = "SyncGo" /\ Up' = Tail(Up) /\ cpc' = cpc
        /\ spc["control"] = "go" /\ spc'["control"] = "sleep" /\ Down' = Down
        BY <1>0, <1>12 DEF AnswerSyncGo, Up, Down, client, Has, Arrived
  <2>2. cpc \in Started
        BY <2>1, ControlReads DEF UpMessage
  <2>3. \A i \in DOMAIN Down' : FALSE
        BY <2>1 DEF ControlInv, DownMessage
  <2>4. \A i \in DOMAIN Up' : Up'[i].type = "Payload" /\ cpc = "run"
        BY <2>1, ControlReads
  <2> QED  BY <2>1, <2>2, <2>3, <2>4 DEF ControlInv, UpMessage, Started
<1>13. CASE ServerStarts("control")
  <2>1. /\ UNCHANGED <<Up, cpc>> /\ spc["control"] = "sleep" /\ spc'["control"] = "run"
        /\ Down' = Down \/ ServerSends("control", "Payload", 0)
        BY <1>0, <1>13 DEF ServerStarts, Up, Down, client
  <2>2. ASSUME NEW i \in DOMAIN Down'
        PROVE  DownMessage(Down[i])' /\ (i > 1 => Down'[i].type = "Payload")
    <3>1. (i \in DOMAIN Down /\ Down'[i] = Down[i]) \/ Down'[i].type = "Payload"
          BY <1>0, <2>1, <2>2, ServerWritesPayload DEF Down
    <3> QED  BY <2>1, <3>1 DEF ControlInv, DownMessage
  <2> QED  BY <2>1, <2>2 DEF ControlInv, UpMessage
<1>14. CASE HandlerGivesUp("control") \/ RunEnds("control")
  <2>1. /\ UNCHANGED <<Up, Down, cpc>> /\ spc["control"] \in {"syn", "go", "run"}
        /\ spc'["control"] = "ended"
        BY <1>0, <1>14 DEF HandlerGivesUp, RunEnds, Up, Down, client, net
  <2> QED  BY <2>1 DEF ControlInv, UpMessage, DownMessage
<1>15. CASE ServerReads("control")
  <2>1. /\ Up # <<>> /\ Up' = Tail(Up) /\ UNCHANGED <<Down, cpc, spc>> /\ spc["control"] = "run"
        BY <1>0, <1>15 DEF ServerReads, Up, Down, client, handler, Arrived
  <2> QED  BY <2>1, ControlReads DEF ControlInv, UpMessage, DownMessage
<1>16. CASE Tick \/ (\E k \in Links : Break(k)) \/ UNCHANGED vars
  <2>1. UNCHANGED <<Up, Down, cpc, spc>>
        BY <1>16 DEF Tick, Break, vars, net, client, handler, Up, Down
  <2> QED  BY <2>1, ControlKept
<1> QED  BY <1>1, <1>2, <1>3, <1>4, <1>5, <1>6, <1>7, <1>8, <1>9, <1>10, <1>11, <1>12, <1>13,
            <1>14, <1>15, <1>16, LinksAre DEF Next, ClientNext, HandlerNext

-----------------------------------------------------------------------------
(* The data connection.                                                     *)

LEMMA DataReads ==
  ASSUME TypeOK, DataInv
  PROVE  /\ toServer["data"] # <<>> =>
              /\ Head(toServer["data"]) = toServer["data"][1] /\ UpData(toServer["data"][1])
              /\ \A i \in DOMAIN Tail(toServer["data"]) :
                   Tail(toServer["data"])[i].type = "Payload"
         /\ toClient["data"] # <<>> =>
              /\ Head(toClient["data"]) = toClient["data"][1] /\ DownData(toClient["data"][1])
              /\ \A i \in DOMAIN Tail(toClient["data"]) :
                   Tail(toClient["data"])[i].type = "Payload"
<1>1. toServer["data"] \in Seq(Message) /\ toClient["data"] \in Seq(Message)
      BY LinksAre DEF TypeOK
<1>2. ASSUME NEW q \in Seq(Message), q # <<>>,
             \A i \in DOMAIN q : i > 1 => q[i].type = "Payload"
      PROVE  /\ Head(q) = q[1] /\ 1 \in DOMAIN q
             /\ \A i \in DOMAIN Tail(q) : Tail(q)[i].type = "Payload"
      BY <1>2, AfterTail
<1> QED  BY <1>1, <1>2 DEF DataInv

\* Who does nothing on the data connection changes nothing of this.
LEMMA DataKept ==
  ASSUME DataInv, toServer'["data"] = toServer["data"], toClient'["data"] = toClient["data"],
         spc'["data"] = spc["data"], broken["data"] => broken'["data"],
         cpc' = cpc \/ {cpc, cpc'} \cap {"dataAck", "run"} = {}
  PROVE  DataInv'
BY DEF DataInv, UpData, DownData

LEMMA DataStep == TypeOK /\ ControlInv /\ DataInv /\ [Next]_vars => DataInv'
<1> SUFFICES ASSUME TypeOK, ControlInv, DataInv, [Next]_vars PROVE DataInv'
    OBVIOUS
<1>0. /\ "Syn" \in MessageTypes /\ "SyncStart" \in MessageTypes /\ "SyncGo" \in MessageTypes
      /\ "Ack" \in MessageTypes /\ "SyncReady" \in MessageTypes /\ 0 \in Int
      /\ spc \in [Links -> {"syn", "probe", "go", "sleep", "run", "ended"}]
      /\ broken \in [Links -> BOOLEAN]
      /\ "control" \in Links /\ "data" \in Links /\ "data" \in Links \ {"control"}
      /\ toServer \in [Links -> Seq(Message)] /\ toClient \in [Links -> Seq(Message)]
      BY LinksAre DEF TypeOK, MessageTypes
<1>1. CASE DialControl \/ SendSyncStart \/ SendSyncGo
  <2>1. toClient'["data"] = toClient["data"] /\ spc' = spc /\ broken' = broken
        BY <1>0, <1>1, LinksAre DEF DialControl, SendSyncStart, SendSyncGo, handler
  <2>2. {cpc, cpc'} \cap {"dataAck", "run"} = {}
        BY <1>1 DEF DialControl, SendSyncStart, SendSyncGo
  <2>3. PICK t \in MessageTypes, v \in Int : ClientSends("control", t, v)
    <3>1. now - sendTime \in Int
          BY DEF TypeOK
    <3> QED  BY <1>0, <1>1, <3>1 DEF DialControl, SendSyncStart, SendSyncGo
  <2>4. toServer'["data"] = toServer["data"]
        BY <1>0, <2>3, ClientSendsOn
  <2> QED  BY <2>1, <2>2, <2>4, DataKept
<1>2. CASE WaitOver \/ ClientGivesUp
  <2>1. UNCHANGED <<toServer, toClient, spc>> /\ broken'["data"] = broken["data"]
        BY <1>0, <1>2, LinksAre DEF WaitOver, ClientGivesUp, net, handler
  <2>2. {cpc, cpc'} \cap {"dataAck", "run"} = {}
        BY <1>2 DEF WaitOver, ClientGivesUp
  <2> QED  BY <2>1, <2>2, DataKept
<1>3. CASE DialData
  <2>1. /\ toServer["data"] = <<>> /\ toClient["data"] = <<>> /\ spc["data"] \in {"syn", "ended"}
        /\ UNCHANGED <<toClient, spc, broken>> /\ cpc' = "dataAck"
        /\ ClientSends("data", "Syn", 0)
        BY <1>3 DEF DialData, DataInv, handler
  <2>2. \/ toServer'["data"] = <<>>
        \/ \E m \in Message : toServer'["data"] = Append(<<>>, m) /\ m.type = "Syn"
        BY <1>0, <2>1, ClientSendsOn
  <2>3. \A i \in DOMAIN toServer'["data"] : i = 1 /\ toServer'["data"][i].type = "Syn"
    <3>1. ASSUME NEW m \in Message, toServer'["data"] = Append(<<>>, m), m.type = "Syn"
          PROVE  DOMAIN toServer'["data"] = {1} /\ toServer'["data"][1].type = "Syn"
          BY <3>1
    <3> QED  BY <2>2, <3>1
  <2> QED  BY <2>1, <2>3 DEF DataInv, UpData, DownData
<1>4. CASE StartTransfer
  <2>1. cpc = "dataAck" /\ cpc' = "run" /\ spc' = spc
        BY <1>4 DEF StartTransfer, handler
  <2>2. CASE Has(toClient["data"], "Ack")
    <3>1. /\ toClient["data"] # <<>> /\ Head(toClient["data"]).type = "Ack"
          /\ toClient'["data"] = Tail(toClient["data"])
          BY <1>0, <1>4, <2>2 DEF StartTransfer, Has, Arrived
    <3>2. \A i \in DOMAIN toClient'["data"] : toClient'["data"][i].type = "Payload"
          BY <3>1, DataReads
    <3>3. ASSUME NEW i \in DOMAIN toServer'["data"] PROVE toServer'["data"][i].type = "Payload"
      <4>1. \A j \in DOMAIN toServer["data"] : toServer["data"][j].type = "Payload"
            BY <3>1 DEF DataInv, UpData
      <4>2. \/ toServer'["data"] = toServer["data"]
            \/ \E m : /\ m.type = "Payload"
                     /\ \A j \in DOMAIN toServer'["data"] :
                          \/ j \in DOMAIN toServer["data"] /\ toServer'["data"][j] = toServer["data"][j]
                          \/ j = Len(toServer["data"]) + 1 /\ toServer'["data"][j] = m
            BY <1>0, <1>4, TransferWrites
      <4> QED  BY <3>3, <4>1, <4>2
    <3> QED  BY <2>1, <3>2, <3>3 DEF DataInv, UpData, DownData
  <2>3. CASE ~Has(toClient["data"], "Ack")
    <3>1. /\ toClient'["data"] = toClient["data"] /\ broken'["data"]
          BY <1>0, <1>4, <2>3 DEF StartTransfer
    <3>2. toServer'["data"] = toServer["data"]
          BY <1>0, <1>4, <3>1, TransferWrites
    <3> QED  BY <2>1, <3>1, <3>2 DEF DataInv, UpData, DownData
  <2> QED  BY <2>2, <2>3
<1>5. ASSUME NEW k \in Links, ClientReads(k) PROVE DataInv'
  <2>1. UNCHANGED <<toServer, broken, cpc, spc>> /\ cpc = "run"
        BY <1>5 DEF ClientReads, client, handler
  <2>2. \/ toClient'["data"] = toClient["data"]
        \/ toClient["data"] # <<>> /\ toClient'["data"] = Tail(toClient["data"])
        BY <1>0, <1>5 DEF ClientReads, Arrived
  <2>3. CASE toClient'["data"] = toClient["data"]
        BY <2>1, <2>3, DataKept
  <2>4. CASE toClient["data"] # <<>> /\ toClient'["data"] = Tail(toClient["data"])
        BY <2>1, <2>4, DataReads DEF DataInv, UpData, DownData
  <2> QED  BY <2>2, <2>3, <2>4
<1>6. CASE HandlerNext("control")
  <2>1. /\ toServer'["data"] = toServer["data"] /\ toClient'["data"] = toClient["data"]
        /\ spc'["data"] = spc["data"] /\ broken'["data"] = broken["data"] /\ cpc' = cpc
        BY <1>0, <1>6, HandlerFrame
  <2> QED  BY <2>1, DataKept
<1>7. CASE AnswerSyn("data")
  <2>1. /\ toServer["data"] # <<>> /\ Head(toServer["data"]).type = "Syn"
        /\ toServer'["data"] = Tail(toServer["data"]) /\ cpc' = cpc /\ broken' = broken
        /\ spc'["data"] = "probe" /\ ServerSends("data", "Ack", 0)
        BY <1>0, <1>7 DEF AnswerSyn, client, Has, Arrived
  <2>2. /\ toClient["data"] = <<>>
        /\ cpc = "dataAck" \/ (cpc = "run" /\ broken["data"])
        /\ \A i \in DOMAIN toServer'["data"] : toServer'["data"][i].type = "Payload"
        BY <2>1, DataReads DEF UpData
  <2>3. \/ toClient'["data"] = toClient["data"]
        \/ \E m \in Message : /\ ~broken["data"] /\ toClient'["data"] = Append(toClient["data"], m)
                              /\ m.type = "Ack"
        BY <1>0, <2>1, ServerSendsOn
  <2>4. \A i \in DOMAIN toClient'["data"] :
          i = 1 /\ toClient'["data"][i].type = "Ack" /\ ~broken["data"]
    <3>1. ASSUME NEW m \in Message, toClient'["data"] = Append(toClient["data"], m), m.type = "Ack"
          PROVE  DOMAIN toClient'["data"] = {1} /\ toClient'["data"][1].type = "Ack"
          BY <1>0, <2>2, <3>1, AfterAppend
    <3> QED  BY <2>2, <2>3, <3>1
  <2> QED  BY <2>1, <2>2, <2>4 DEF DataInv, UpData, DownData
<1>8. CASE AnswerSyncStart("data")
  <2>1. toServer["data"] # <<>> /\ Head(toServer["data"]).type = "SyncStart"
        BY <1>8 DEF AnswerSyncStart, Has, Arrived
  <2> QED  BY <2>1, DataReads DEF UpData
<1>9. CASE TakeForData("data")
  <2>1. /\ cpc' = cpc /\ broken' = broken /\ spc["data"] = "probe" /\ spc'["data"] = "run"
        /\ \/ toServer'["data"] = toServer["data"]
           \/ toServer["data"] # <<>> /\ toServer'["data"] = Tail(toServer["data"])
        /\ toClient'["data"] = toClient["data"] \/ ServerSends("data", "Payload", 0)
        BY <1>0, <1>9 DEF TakeForData, client, Arrived
  <2>2. cpc \in {"dataAck", "run"}
        BY <2>1 DEF DataInv
  <2>3. \A i \in DOMAIN toServer'["data"] : toServer'["data"][i].type = "Payload"
        BY <2>1, DataReads DEF DataInv, UpData
  <2>4. ASSUME NEW i \in DOMAIN toClient'["data"]
        PROVE  \/ i \in DOMAIN toClient["data"] /\ toClient'["data"][i] = toClient["data"][i]
               \/ toClient'["data"][i].type = "Payload"
        BY <1>0, <2>1, <2>4, ServerWritesPayload
  <2> QED  BY <2>1, <2>2, <2>3, <2>4 DEF DataInv, UpData, DownData
<1>10. CASE AnswerSyncGo("data") \/ ServerStarts("data")
      BY <1>10 DEF AnswerSyncGo, ServerStarts, DataInv
<1>11. CASE HandlerGivesUp("data") \/ RunEnds("data")
  <2>1. /\ UNCHANGED <<toServer, toClient, cpc>> /\ spc["data"] \in {"syn", "go", "run"}
        /\ spc'["data"] = "ended"
        /\ broken["data"] => broken'["data"]
        BY <1>0, <1>11 DEF HandlerGivesUp, RunEnds, client, net
  <2> QED  BY <2>1 DEF DataInv, UpData, DownData
<1>12. CASE ServerReads("data")
  <2>1. /\ toServer["data"] # <<>> /\ toServer'["data"] = Tail(toServer["data"])
        /\ UNCHANGED <<toClient, broken, cpc, spc>> /\ spc["data"] = "run"
        BY <1>0, <1>12 DEF ServerReads, client, handler, Arrived
  <2> QED  BY <2>1, DataReads DEF DataInv, UpData, DownData
<1>13. CASE Tick \/ (\E k \in Links : Break(k)) \/ UNCHANGED vars
  <2>1. /\ UNCHANGED <<toServer, toClient, cpc, spc>>
        /\ broken["data"] => broken'["data"]
        BY <1>0, <1>13 DEF Tick, Break, vars, net, client, handler
  <2> QED  BY <2>1, DataKept
<1> QED  BY <1>1, <1>2, <1>3, <1>4, <1>5, <1>6, <1>7, <1>8, <1>9, <1>10, <1>11, <1>12, <1>13,
            LinksAre DEF Next, ClientNext, HandlerNext

LEMMA InvInit == Init => Inv /\ NumbersInv
<1>1. Init => ControlInv
      BY DEF Init, ControlInv, Up, Down, Links
<1>2. Init => DataInv
      BY DEF Init, DataInv, Links
<1> QED  BY <1>1, <1>2, TypesInit DEF Inv

LEMMA InvStep == Inv /\ NumbersInv /\ [Next]_vars => Inv' /\ NumbersInv'
BY TypesStep, NumbersStep, ControlStep, DataStep DEF Inv

LEMMA InvAlways == Spec => [](Inv /\ NumbersInv)
BY InvInit, InvStep, PTL DEF Spec

-----------------------------------------------------------------------------
(* The times.                                                               *)

\* Nothing that is not of the three messages has a time to keep.
LEMMA OtherTimes ==
  /\ \A i \in DOMAIN Up : Up[i].type \in {"Syn", "Payload"} => UpTimes(Up[i])
  /\ \A i \in DOMAIN Down : Down[i].type \in {"Ack", "Payload"} => DownTimes(Down[i])
BY DEF UpTimes, DownTimes

\* What the two agreed on stays, and so does what the messages say about it; those that
\* nobody waits for have no time to keep.
LEMMA AgreedKept ==
  ASSUME UNCHANGED <<gOneClient, cStart, sendTime, lastStatsTime, delayNs>>
  PROVE  /\ \A x, y : Agreed(x, y) => Agreed(x, y)'
         /\ \A x : Meant(sendTime + x, delayNs, lastStatsTime) => Meant(sendTime + x, delayNs, lastStatsTime)'
BY DEF Agreed, Meant

LEMMA UpTimesKept ==
  ASSUME UNCHANGED <<gOneClient, cStart, sendTime, lastStatsTime, delayNs>>, NEW i, UpTimes(Up[i]), Up'[i] = Up[i],
         now' = now \/ (spc["control"] \in {"probe", "go"} /\ Up[i].type # "Payload" => Up[i].due >= now'),
         spc'["control"] \in {"probe", "go"} => spc'["control"] = spc["control"]
  PROVE  UpTimes(Up[i])'
<1>1. \A x, y : Agreed(x, y) => Agreed(x, y)'
      BY AgreedKept
<1>2. CASE Up[i].type = "SyncStart"
      BY <1>2 DEF UpTimes
<1>3. CASE Up[i].type = "SyncGo"
  <2>1. PICK x \in Latencies, y \in Latencies, z \in Latencies :
          Up[i].due = sendTime + x + y + z /\ Up[i].val = x + y /\ Agreed(x, y)
        BY <1>3 DEF UpTimes
  <2>2. spc'["control"] = "go" => Up'[i].due >= now'
        BY <1>3 DEF UpTimes
  <2> QED  BY <1>1, <1>3, <2>1, <2>2 DEF UpTimes
<1>4. CASE Up[i].type \notin {"SyncStart", "SyncGo"}
      BY <1>4 DEF UpTimes
<1> QED  BY <1>2, <1>3, <1>4

LEMMA DownTimesKept ==
  ASSUME UNCHANGED <<gOneClient, cStart, sendTime, lastStatsTime, delayNs>>, NEW i, DownTimes(Down[i]),
         Down'[i] = Down[i],
         now' = now \/ (cpc = "ready" /\ Down[i].type # "Payload" => Down[i].due >= now'),
         cpc' = "ready" => cpc = "ready"
  PROVE  DownTimes(Down[i])'
<1>1. \A x : Meant(sendTime + x, delayNs, lastStatsTime) => Meant(sendTime + x, delayNs, lastStatsTime)'
      BY AgreedKept
<1>2. CASE Down[i].type = "SyncReady"
  <2>1. PICK x \in Latencies, y \in Latencies :
          Down[i].due = sendTime + x + y /\ (~gOneClient => Meant(sendTime + x, delayNs, lastStatsTime))
        BY <1>2 DEF DownTimes
  <2>2. Down'[i].val = delayNs' /\ (cpc' = "ready" => Down'[i].due >= now')
        BY <1>2 DEF DownTimes
  <2> QED  BY <1>1, <1>2, <2>1, <2>2 DEF DownTimes
<1>3. CASE Down[i].type # "SyncReady"
      BY <1>3 DEF DownTimes
<1> QED  BY <1>2, <1>3

\* The start that is set stays what was agreed on.
LEMMA StartKept ==
  ASSUME TimesInv, UNCHANGED <<gOneClient, cStart, sendTime, lastStatsTime, delayNs, sStart>>, sStart # NotYet
  PROVE  \E x, y, z \in Latencies :
           /\ sStart' = sendTime' + x + y + z
                          + (IF gOneClient' THEN (x + y) \div 2 ELSE Max({0, delayNs'}))
           /\ Agreed(x, y)'
<1>1. PICK x \in Latencies, y \in Latencies, z \in Latencies :
        /\ sStart = sendTime + x + y + z + (IF gOneClient THEN (x + y) \div 2 ELSE Max({0, delayNs}))
        /\ Agreed(x, y)
      BY DEF TimesInv
<1> QED  BY <1>1, AgreedKept

LEMMA TimesKept ==
  ASSUME TimesInv,
         UNCHANGED <<Up, Down, now, gOneClient, cStart, sendTime, lastStatsTime, delayNs, sStart>>,
         spc'["control"] = spc["control"],
         cpc' = "ready" => cpc = "ready",
         sStart # NotYet /\ cpc \in Started => cpc' \in Started
  PROVE  TimesInv'
<1>1. \A i \in DOMAIN Up' : UpTimes(Up[i])'
      BY UpTimesKept DEF TimesInv
<1>2. \A i \in DOMAIN Down' : DownTimes(Down[i])'
      BY DownTimesKept DEF TimesInv
<1> QED  BY <1>1, <1>2, StartKept DEF TimesInv

\* What a process waits for is on the agenda, and time does not pass it.
LEMMA WaitedFor ==
  ASSUME TypeOK, Tick
  PROVE  /\ spc["control"] \in {"syn", "probe", "go"} /\ Up # <<>> => now' <= Up[1].due
         /\ cpc \in {"ack", "ready"} /\ Down # <<>> => now' <= Down[1].due
<1>1. ASSUME spc["control"] \in {"syn", "probe", "go"}, Up # <<>> PROVE now' <= Up[1].due
  <2>1. Head(Up).due \in Agenda
        BY <1>1, LinksAre DEF Agenda, ServerListens, Up
  <2>2. Head(Up) = Up[1]
        BY <1>1, LinksAre, AfterTail DEF TypeOK, Up
  <2> QED  BY <2>1, <2>2, TickStep
<1>2. ASSUME cpc \in {"ack", "ready"}, Down # <<>> PROVE now' <= Down[1].due
  <2>1. Head(Down).due \in Agenda
        BY <1>2, LinksAre DEF Agenda, ClientListens, Down
  <2>2. Head(Down) = Down[1]
        BY <1>2, LinksAre, AfterTail DEF TypeOK, Down
  <2> QED  BY <2>1, <2>2, TickStep
<1> QED  BY <1>1, <1>2

\* SyncStart, SyncReady and SyncGo are taken when they are due.
LEMMA TakenWhenDue ==
  ASSUME TypeOK, ControlInv, TimesInv
  PROVE  /\ spc["control"] = "probe" /\ Has(Up, "SyncStart") =>
              \E x \in Latencies : now = sendTime + x
         /\ cpc = "ready" /\ Has(Down, "SyncReady") =>
              /\ Head(Down).val = delayNs
              /\ \E x, y \in Latencies :
                   now = sendTime + x + y /\ (~gOneClient => Meant(sendTime + x, delayNs, lastStatsTime))
         /\ spc["control"] = "go" /\ Has(Up, "SyncGo") =>
              \E x, y, z \in Latencies :
                now = sendTime + x + y + z /\ Head(Up).val = x + y /\ Agreed(x, y)
<1>0. /\ now \in Nat /\ Latencies \subseteq Nat
      /\ Up # <<>> => Head(Up) = Up[1] /\ 1 \in DOMAIN Up /\ Up[1].due \in Nat
      /\ Down # <<>> => Head(Down) = Down[1] /\ 1 \in DOMAIN Down /\ Down[1].due \in Nat
      BY LinksAre, SyncAssumption, ControlReads, AfterTail DEF TypeOK, Message
<1>1. ASSUME spc["control"] = "probe", Has(Up, "SyncStart")
      PROVE  \E x \in Latencies : now = sendTime + x
  <2>1. UpTimes(Up[1]) /\ Up[1].type = "SyncStart" /\ Up[1].due <= now /\ Up # <<>>
        BY <1>0, <1>1 DEF TimesInv, Has, Arrived
  <2>2. Up[1].due >= now /\ \E x \in Latencies : Up[1].due = sendTime + x
        BY <1>1, <2>1 DEF UpTimes
  <2> QED  BY <1>0, <2>1, <2>2
<1>2. ASSUME cpc = "ready", Has(Down, "SyncReady")
      PROVE  /\ Head(Down).val = delayNs
             /\ \E x, y \in Latencies :
                  now = sendTime + x + y /\ (~gOneClient => Meant(sendTime + x, delayNs, lastStatsTime))
  <2>1. DownTimes(Down[1]) /\ Down[1].type = "SyncReady" /\ Down[1].due <= now /\ Down # <<>>
        BY <1>0, <1>2 DEF TimesInv, Has, Arrived
  <2>2. Down[1].due >= now
        BY <1>2, <2>1 DEF DownTimes
  <2>3. Down[1].due = now
        BY <1>0, <2>1, <2>2
  <2> QED  BY <1>0, <2>1, <2>3 DEF DownTimes
<1>3. ASSUME spc["control"] = "go", Has(Up, "SyncGo")
      PROVE  \E x, y, z \in Latencies :
               now = sendTime + x + y + z /\ Head(Up).val = x + y /\ Agreed(x, y)
  <2>1. UpTimes(Up[1]) /\ Up[1].type = "SyncGo" /\ Up[1].due <= now /\ Up # <<>>
        BY <1>0, <1>3 DEF TimesInv, Has, Arrived
  <2>2. Up[1].due >= now
        BY <1>3, <2>1 DEF UpTimes
  <2>3. Up[1].due = now
        BY <1>0, <2>1, <2>2
  <2> QED  BY <1>0, <2>1, <2>3 DEF UpTimes
<1> QED  BY <1>1, <1>2, <1>3

LEMMA TimesStep == Inv /\ NumbersInv /\ TimesInv /\ [Next]_vars => TimesInv'
<1> SUFFICES ASSUME TypeOK, ControlInv, DataInv, NumbersInv, TimesInv, [Next]_vars
             PROVE  TimesInv'
    BY DEF Inv
<1> USE DEF TimesInv
<1>0. /\ "Syn" \in MessageTypes /\ "SyncStart" \in MessageTypes /\ "SyncGo" \in MessageTypes
      /\ "Ack" \in MessageTypes /\ "SyncReady" \in MessageTypes /\ 0 \in Int
      /\ spc \in [Links -> {"syn", "probe", "go", "sleep", "run", "ended"}]
      /\ "control" \in Links /\ "data" \in Links
      /\ toServer \in [Links -> Seq(Message)] /\ toClient \in [Links -> Seq(Message)]
      /\ now \in Nat /\ sendTime \in Nat /\ Latencies \subseteq Nat
      BY LinksAre, SyncAssumption DEF TypeOK, MessageTypes
<1>1. CASE DialControl
  <2>1. /\ Up = <<>> /\ Down = <<>> /\ Down' = Down /\ spc' = spc /\ sStart = NotYet
        /\ spc["control"] \in {"syn", "ended"}
        /\ ClientSends("control", "Syn", 0) /\ UNCHANGED <<sStart, lastStatsTime, delayNs, gOneClient>>
        BY <1>1 DEF DialControl, ControlInv, Down, handler, params, Started
  <2>2. Up' = <<>> \/ (DOMAIN Up' = {1} /\ Up'[1].type = "Syn")
        BY <1>0, <2>1, ClientWrites
  <2> QED  BY <2>1, <2>2 DEF UpTimes
<1>2. CASE SendSyncStart
  <2>1. /\ Down # <<>> /\ Head(Down).type = "Ack" /\ cpc = "ack" /\ Down' = Tail(Down)
        /\ ClientSends("control", "SyncStart", 0) /\ UNCHANGED <<spc, sStart, lastStatsTime, delayNs, gOneClient, now>>
        /\ sendTime' = now
        BY <1>0, <1>2 DEF SendSyncStart, Down, handler, params, Has, Arrived
  <2>2. Up = <<>> /\ spc["control"] \in {"probe", "run", "ended"} /\ sStart = NotYet
        BY <2>1, ControlReads DEF DownMessage, Started
  <2>3. ASSUME NEW i \in DOMAIN Up' PROVE UpTimes(Up[i])'
    <3>0. \/ Up' = <<>>
          \/ /\ DOMAIN Up' = {1} /\ Up'[1].type = "SyncStart"
             /\ \E l \in Latencies : Up'[1].due = now + l
          BY <1>0, <2>1, <2>2, ClientWrites
    <3>1. Up'[i].type = "SyncStart" /\ \E l \in Latencies : Up'[i].due = now + l
          BY <2>3, <3>0
    <3>2. Up'[i].due >= now'
          BY <1>0, <2>1, <3>1
    <3> QED  BY <2>1, <3>1, <3>2 DEF UpTimes
  <2>4. \A i \in DOMAIN Down' : Down'[i].type = "Payload"
        BY <2>1, ControlReads
  <2> QED  BY <2>1, <2>2, <2>3, <2>4 DEF DownTimes
<1>3. CASE SendSyncGo
  <2>1. /\ Down # <<>> /\ Has(Down, "SyncReady") /\ cpc = "ready" /\ Down' = Tail(Down)
        /\ ClientSends("control", "SyncGo", now - sendTime)
        /\ UNCHANGED <<spc, sStart, lastStatsTime, delayNs, gOneClient, now, sendTime>>
        /\ cStart' = now + (IF Head(Down).val = 0 THEN 0
                            ELSE Max({0, Head(Down).val - ((now - sendTime) \div 2)}))
        /\ now - sendTime \in Int
        BY <1>0, <1>3 DEF SendSyncGo, Down, handler, params, Has, Arrived
  <2>2. Up = <<>> /\ spc["control"] \in {"go", "ended"} /\ sStart = NotYet
        BY <2>1, ControlReads DEF DownMessage, Started, Has
  <2>3. PICK x \in Latencies, y \in Latencies :
          now = sendTime + x + y /\ (~gOneClient => Meant(sendTime + x, delayNs, lastStatsTime))
        BY <2>1, TakenWhenDue
  <2>4. Head(Down).val = delayNs /\ now - sendTime = x + y
    <3>1. Head(Down).val = delayNs
          BY <2>1, TakenWhenDue
    <3>2. x \in Nat /\ y \in Nat /\ now = sendTime + x + y
          BY <1>0, <2>3
    <3> QED  BY <1>0, <3>1, <3>2
  <2>5. Agreed(x, y)'
        BY <2>1, <2>3, <2>4 DEF Agreed, Meant
  <2>6. ASSUME NEW i \in DOMAIN Up' PROVE UpTimes(Up[i])'
    <3>0. \/ Up' = <<>>
          \/ /\ DOMAIN Up' = {1} /\ Up'[1].type = "SyncGo" /\ Up'[1].val = now - sendTime
             /\ \E z \in Latencies : Up'[1].due = now + z
          BY <1>0, <2>1, <2>2, ClientWrites
    <3>1. PICK z \in Latencies : /\ Up'[i].type = "SyncGo" /\ Up'[i].due = now + z
                                 /\ Up'[i].val = x + y
          BY <2>4, <2>6, <3>0
    <3>2. Up'[i].due >= now' /\ Up'[i].due = sendTime' + x + y + z
          BY <1>0, <2>1, <2>3, <3>1
    <3> QED  BY <2>5, <3>1, <3>2 DEF UpTimes
  <2>7. \A i \in DOMAIN Down' : Down'[i].type = "Payload"
        BY <2>1, ControlReads
  <2> QED  BY <2>1, <2>2, <2>6, <2>7 DEF DownTimes
<1>4. CASE WaitOver \/ ClientGivesUp
  <2>1. UNCHANGED <<Up, Down, now, gOneClient, cStart, sendTime, lastStatsTime, delayNs, sStart, spc>>
        BY <1>4 DEF WaitOver, ClientGivesUp, Up, Down, net, handler, params
  <2>2. \/ cpc = "wait" /\ cpc' = "dialData"
        \/ cpc \in {"ack", "ready"} /\ cpc' = "failed"
        BY <1>4 DEF WaitOver, ClientGivesUp
  <2> QED  BY <2>1, <2>2, TimesKept DEF Started
<1>5. CASE DialData
  <2>1. ClientSends("data", "Syn", 0) /\ "control" \in Links \ {"data"}
        BY <1>0, <1>5, LinksAre DEF DialData
  <2>2. Up' = Up
        BY <1>0, <2>1, ClientSendsOn DEF Up
  <2>3. /\ UNCHANGED <<Down, now, gOneClient, cStart, sendTime, lastStatsTime, delayNs, sStart, spc>>
        /\ cpc' = "dataAck"
        BY <1>5 DEF DialData, Down, handler, params
  <2> QED  BY <2>2, <2>3, TimesKept DEF Started
<1>6. CASE StartTransfer
  <2>1. /\ UNCHANGED <<now, gOneClient, cStart, sendTime, lastStatsTime, delayNs, sStart, spc>>
        /\ cpc' = "run" /\ cpc = "dataAck" /\ Down' = Down
        BY <1>0, <1>6, LinksAre DEF StartTransfer, Down, handler, params
  <2>2. ASSUME NEW i \in DOMAIN Up' PROVE UpTimes(Up[i])'
    <3>1. (i \in DOMAIN Up /\ Up'[i] = Up[i]) \/ Up'[i].type = "Payload"
          BY <1>0, <1>6, <2>2, TransferWrites DEF Up
    <3>2. CASE Up'[i].type = "Payload"
          BY <3>2 DEF UpTimes
    <3>3. CASE i \in DOMAIN Up /\ Up'[i] = Up[i]
          BY <2>1, <3>3, UpTimesKept
    <3> QED  BY <3>1, <3>2, <3>3
  <2>3. ASSUME NEW i \in DOMAIN Down' PROVE DownTimes(Down[i])'
        BY <2>1, DownTimesKept
  <2> QED  BY <2>1, <2>2, <2>3, StartKept DEF Started
<1>7. ASSUME NEW k \in Links, ClientReads(k) PROVE TimesInv'
  <2>1. UNCHANGED <<Up, now, gOneClient, cStart, sendTime, lastStatsTime, delayNs, sStart, spc, cpc>>
        BY <1>7 DEF ClientReads, Up, client, handler, params
  <2>2. Down' = Down \/ (Down # <<>> /\ Down' = Tail(Down))
        BY <1>0, <1>7 DEF ClientReads, Arrived, Down
  <2>3. CASE Down' = Down
        BY <2>1, <2>3, TimesKept
  <2>4. CASE Down # <<>> /\ Down' = Tail(Down)
    <3>1. \A i \in DOMAIN Down' : Down'[i].type = "Payload"
          BY <2>4, ControlReads
    <3>2. \A i \in DOMAIN Up' : UpTimes(Up[i])'
          BY <2>1, UpTimesKept
    <3> QED  BY <2>1, <3>1, <3>2, StartKept DEF DownTimes
  <2> QED  BY <2>2, <2>3, <2>4
<1>8. CASE HandlerNext("data")
  <2>1. /\ UNCHANGED <<Up, Down, cpc, now, gOneClient, cStart, sendTime>>
        /\ spc'["control"] = spc["control"]
        BY <1>0, <1>8, LinksAre, HandlerFrame DEF Up, Down
  <2>2. ~AnswerSyncStart("data") /\ ~AnswerSyncGo("data")
        BY DataReads DEF AnswerSyncStart, AnswerSyncGo, Has, Arrived, UpData
  <2>3. UNCHANGED <<lastStatsTime, delayNs, sStart>>
        BY <1>8, <2>2 DEF HandlerNext, AnswerSyn, TakeForData, ServerStarts, HandlerGivesUp,
                          ServerReads, RunEnds, handler
  <2> QED  BY <2>1, <2>3, TimesKept
<1>9. CASE AnswerSyn("control")
  <2>1. /\ Up # <<>> /\ Head(Up).type = "Syn" /\ Up' = Tail(Up) /\ sStart = NotYet
        /\ ServerSends("control", "Ack", 0) /\ spc'["control"] = "probe"
        /\ UNCHANGED <<lastStatsTime, delayNs, sStart, gOneClient>>
        BY <1>0, <1>9 DEF AnswerSyn, Up, params, Has, Arrived
  <2>2. Down = <<>> /\ cpc \in {"ack", "failed"} /\ Up' = <<>>
        BY <2>1, ControlReads, ControlEmpty DEF UpMessage
  <2>3. Down' = <<>> \/ (DOMAIN Down' = {1} /\ Down'[1].type = "Ack")
        BY <1>0, <2>1, <2>2, ServerWrites, SMTT(30)
  <2>4. \A i \in DOMAIN Down' : Down'[i].type = "Ack"
        BY <2>3
  <2> QED  BY <2>1, <2>2, <2>4 DEF DownTimes
<1>10. CASE AnswerSyncStart("control")
  <2>1. PICK d \in Int :
          /\ delayNs' = d /\ ServerSends("control", "SyncReady", d)
          /\ gOneClient => d = 0
          /\ ~gOneClient => Meant(now, d, lastStatsTime')
        BY <1>0, <1>10, SyncReadyIs
  <2>2. /\ Up # <<>> /\ Has(Up, "SyncStart") /\ Up' = Tail(Up) /\ sStart = NotYet
        /\ spc["control"] = "probe" /\ spc'["control"] = "go"
        /\ UNCHANGED <<sStart, gOneClient, now, sendTime, cpc, cStart>>
        BY <1>0, <1>10 DEF AnswerSyncStart, Up, client, params, Has, Arrived
  <2>3. Down = <<>> /\ cpc \in {"ready", "failed"} /\ Up' = <<>>
        BY <2>2, ControlReads, ControlEmpty DEF UpMessage, Has
  <2>5. PICK x \in Latencies : now = sendTime + x
        BY <2>2, TakenWhenDue
  <2>6. ASSUME NEW i \in DOMAIN Down' PROVE DownTimes(Down[i])'
    <3>0. \/ Down' = <<>>
          \/ /\ DOMAIN Down' = {1} /\ Down'[1].val = d
             /\ \E y \in Latencies : Down'[1].due = now + y
          BY <1>0, <2>1, <2>3, ServerWrites, SMTT(30)
    <3>1. PICK y \in Latencies : Down'[i].val = d /\ Down'[i].due = now + y
          BY <2>6, <3>0
    <3>2. Down'[i].due >= now' /\ Down'[i].due = sendTime' + x + y
          BY <1>0, <2>2, <2>5, <3>1
    <3>3. ~gOneClient' => Meant(sendTime + x, delayNs, lastStatsTime)'
          BY <2>1, <2>2, <2>5 DEF Meant
    <3> QED  BY <2>1, <3>1, <3>2, <3>3 DEF DownTimes
  <2> QED  BY <2>1, <2>2, <2>3, <2>6
<1>11. CASE TakeForData("control")
  <2>1. /\ UNCHANGED <<now, gOneClient, cStart, sendTime, lastStatsTime, delayNs, sStart, cpc>>
        /\ spc["control"] = "probe" /\ spc'["control"] = "run"
        /\ Up' = Up \/ (Up # <<>> /\ Up' = Tail(Up))
        /\ Down' = Down \/ ServerSends("control", "Payload", 0)
        BY <1>0, <1>11 DEF TakeForData, Up, Down, client, params, Arrived
  <2>2. ASSUME NEW i \in DOMAIN Up' PROVE UpTimes(Up[i])'
    <3>1. CASE Up' = Up
          BY <2>1, <2>2, <3>1, UpTimesKept
    <3>2. CASE Up # <<>> /\ Up' = Tail(Up)
          BY <2>2, <3>2, ControlReads DEF UpTimes
    <3> QED  BY <2>1, <3>1, <3>2
  <2>3. ASSUME NEW i \in DOMAIN Down' PROVE DownTimes(Down[i])'
    <3>1. (i \in DOMAIN Down /\ Down'[i] = Down[i]) \/ Down'[i].type = "Payload"
          BY <1>0, <2>1, <2>3, ServerWritesPayload DEF Down
    <3>2. CASE Down'[i].type = "Payload"
          BY <3>2 DEF DownTimes
    <3>3. CASE i \in DOMAIN Down /\ Down'[i] = Down[i]
          BY <2>1, <3>3, DownTimesKept
    <3> QED  BY <3>1, <3>2, <3>3
  <2> QED  BY <2>1, <2>2, <2>3
<1>12. CASE AnswerSyncGo("control")
  <2>1. /\ Up # <<>> /\ Has(Up, "SyncGo") /\ Up' = Tail(Up) /\ Down' = Down
        /\ spc["control"] = "go" /\ spc'["control"] = "sleep"
        /\ UNCHANGED <<now, gOneClient, cStart, sendTime, lastStatsTime, delayNs, cpc>>
        /\ sStart' = now + (IF gOneClient THEN Head(Up).val \div 2 ELSE Max({0, delayNs}))
        BY <1>0, <1>12 DEF AnswerSyncGo, Up, Down, client, params, Has, Arrived
  <2>2. PICK x \in Latencies, y \in Latencies, z \in Latencies :
          now = sendTime + x + y + z /\ Head(Up).val = x + y /\ Agreed(x, y)
        BY <2>1, TakenWhenDue
  <2>3. cpc \in Started
        BY <2>1, ControlReads DEF UpMessage, Has
  <2>4. \A i \in DOMAIN Up' : Up'[i].type = "Payload"
        BY <2>1, ControlReads
  <2>5. \A i \in DOMAIN Down' : DownTimes(Down[i])'
        BY <2>1, DownTimesKept
  <2>6. sStart' = sendTime' + x + y + z + (IF gOneClient' THEN (x + y) \div 2 ELSE Max({0, delayNs'}))
        BY <2>1, <2>2
  <2>7. Agreed(x, y)'
        BY <2>1, <2>2 DEF Agreed, Meant
  <2>8. sStart' # NotYet
    <3>1. (x + y) \div 2 \in Nat /\ Max({0, delayNs}) \in Nat
      <4>1. delayNs \in Int
            BY DEF TypeOK
      <4>2. Max({0, delayNs}) = IF 0 >= delayNs THEN 0 ELSE delayNs
            BY <4>1, MaxOfTwo
      <4>3. Max({0, delayNs}) \in Nat
            BY <4>1, <4>2
      <4>4. (x + y) \div 2 \in Nat
            BY <1>0
      <4> QED  BY <4>3, <4>4
    <3> QED  BY <1>0, <2>1, <2>2, <3>1 DEF NotYet
  <2> QED  BY <2>1, <2>3, <2>4, <2>5, <2>6, <2>7, <2>8 DEF UpTimes
<1>13. CASE ServerStarts("control")
  <2>1. /\ UNCHANGED <<Up, now, gOneClient, cStart, sendTime, lastStatsTime, delayNs, sStart, cpc>>
        /\ spc["control"] = "sleep" /\ spc'["control"] = "run"
        /\ Down' = Down \/ ServerSends("control", "Payload", 0)
        BY <1>0, <1>13 DEF ServerStarts, Up, Down, client, params
  <2>2. ASSUME NEW i \in DOMAIN Down' PROVE DownTimes(Down[i])'
    <3>1. (i \in DOMAIN Down /\ Down'[i] = Down[i]) \/ Down'[i].type = "Payload"
          BY <1>0, <2>1, <2>2, ServerWritesPayload DEF Down
    <3>2. CASE Down'[i].type = "Payload"
          BY <3>2 DEF DownTimes
    <3>3. CASE i \in DOMAIN Down /\ Down'[i] = Down[i]
          BY <2>1, <3>3, DownTimesKept
    <3> QED  BY <3>1, <3>2, <3>3
  <2>3. \A i \in DOMAIN Up' : UpTimes(Up[i])'
        BY <2>1, UpTimesKept
  <2> QED  BY <2>1, <2>2, <2>3, StartKept
<1>14. CASE HandlerGivesUp("control") \/ RunEnds("control")
  <2>1. /\ UNCHANGED <<Up, Down, now, gOneClient, cStart, sendTime, lastStatsTime, delayNs, sStart, cpc>>
        /\ spc'["control"] = "ended"
        BY <1>0, <1>14 DEF HandlerGivesUp, RunEnds, Up, Down, client, params, net
  <2>2. /\ \A i \in DOMAIN Up' : UpTimes(Up[i])'
        /\ \A i \in DOMAIN Down' : DownTimes(Down[i])'
        BY <2>1, UpTimesKept, DownTimesKept
  <2> QED  BY <2>1, <2>2, StartKept
<1>15. CASE ServerReads("control")
  <2>1. /\ Up # <<>> /\ Up' = Tail(Up)
        /\ UNCHANGED <<Down, now, gOneClient, cStart, sendTime, lastStatsTime, delayNs, sStart, cpc, spc>>
        BY <1>0, <1>15 DEF ServerReads, Up, Down, client, handler, params, Arrived
  <2>2. \A i \in DOMAIN Up' : Up'[i].type = "Payload"
        BY <2>1, ControlReads
  <2>3. \A i \in DOMAIN Down' : DownTimes(Down[i])'
        BY <2>1, DownTimesKept
  <2> QED  BY <2>1, <2>2, <2>3, StartKept DEF UpTimes
<1>16. CASE Tick
  <2>1. UNCHANGED <<Up, Down, gOneClient, cStart, sendTime, lastStatsTime, delayNs, sStart, cpc, spc>>
        BY <1>16 DEF Tick, net, client, handler, params, Up, Down
  <2>2. ASSUME NEW i \in DOMAIN Up' PROVE UpTimes(Up[i])'
    <3>1. UpTimes(Up[i]) /\ Up'[i] = Up[i]
          BY <2>1, <2>2
    <3>2. Up[i].type # "Payload" => i = 1 /\ Up # <<>>
          BY <2>1, <2>2, ControlReads DEF ControlInv
    <3>3. Up[i].type # "Payload" /\ spc["control"] \in {"probe", "go"} => Up[i].due >= now'
      <4>1. i = 1 /\ Up # <<>> /\ spc["control"] \in {"probe", "go"} => now' <= Up[1].due
            BY <1>16, WaitedFor
      <4>2. i = 1 /\ Up # <<>> => Up[1].due \in Nat
            BY <2>1, <2>2, ControlReads, AfterTail DEF Message
      <4> QED  BY <1>16, <3>2, <4>1, <4>2, TickStep
    <3> QED  BY <2>1, <3>1, <3>3, UpTimesKept
  <2>3. ASSUME NEW i \in DOMAIN Down' PROVE DownTimes(Down[i])'
    <3>1. DownTimes(Down[i]) /\ Down'[i] = Down[i]
          BY <2>1, <2>3
    <3>2. Down[i].type # "Payload" => i = 1 /\ Down # <<>>
          BY <2>1, <2>3, ControlReads DEF ControlInv
    <3>3. Down[i].type # "Payload" /\ cpc = "ready" => Down[i].due >= now'
      <4>1. i = 1 /\ Down # <<>> /\ cpc = "ready" => now' <= Down[1].due
            BY <1>16, WaitedFor
      <4>2. i = 1 /\ Down # <<>> => Down[1].due \in Nat
            BY <2>1, <2>3, ControlReads, AfterTail DEF Message
      <4> QED  BY <1>16, <3>2, <4>1, <4>2, TickStep
    <3> QED  BY <2>1, <3>1, <3>3, DownTimesKept
  <2> QED  BY <2>1, <2>2, <2>3, StartKept
<1>17. CASE (\E k \in Links : Break(k)) \/ UNCHANGED vars
  <2>1. UNCHANGED <<Up, Down, now, gOneClient, cStart, sendTime, lastStatsTime, delayNs, sStart, cpc, spc>>
        BY <1>17 DEF Break, vars, net, client, handler, params, Up, Down
  <2> QED  BY <2>1, TimesKept
<1> QED  BY <1>1, <1>2, <1>3, <1>4, <1>5, <1>6, <1>7, <1>8, <1>9, <1>10, <1>11, <1>12, <1>13,
            <1>14, <1>15, <1>16, <1>17, LinksAre DEF Next, ClientNext, HandlerNext

LEMMA TimesAlways == Spec => []TimesInv
<1>1. Init => TimesInv
      BY DEF Init, TimesInv, Up, Down, Links, NotYet
<1> QED  BY <1>1, TimesStep, InvAlways, PTL DEF Spec

-----------------------------------------------------------------------------
(* Which connection is the control connection.                              *)

\* While the server waits for SyncStart on a connection that is up, it has time left.
LEMMA TimeIsLeft ==
  ASSUME DeadlineIsLong, TypeOK, ControlInv, TimesInv, ClassInv,
         ~broken["control"], spc["control"] = "probe"
  PROVE  /\ now < readUntil["control"] /\ ~Fails("control", Up, "SyncStart")
         /\ cpc \in {"ack", "ready"}
<1>0. /\ now \in Nat /\ Latencies \subseteq Nat /\ Deadline \in Nat
      /\ readUntil["control"] \in Nat /\ Up \in Seq(Message) /\ Down \in Seq(Message)
      BY LinksAre, SyncAssumption, ControlReads DEF TypeOK
<1>1. CASE /\ Down # <<>> /\ Down[1].type = "Ack" /\ Down[1].due >= now
           /\ \E l \in Latencies : Down[1].due + Deadline = readUntil["control"] + l
  <2>1. PICK l \in Latencies : Down[1].due + Deadline = readUntil["control"] + l
        BY <1>1
  <2>2. l + l < Deadline /\ Down[1].due \in Nat
        BY <1>0, <1>1, AfterTail DEF DeadlineIsLong, Message
  <2>3. now < readUntil["control"]
        BY <1>0, <1>1, <2>1, <2>2, SMTT(30)
  <2>4. Up = <<>> /\ cpc \in {"ack", "failed"}
        BY <1>1, ControlReads DEF DownMessage
  <2> QED  BY <2>3, <2>4 DEF Fails, Arrived, ClassInv
<1>2. CASE /\ Up # <<>> /\ Up[1].type = "SyncStart"
           /\ \E l, m \in Latencies : Up[1].due + Deadline = readUntil["control"] + l + m
  <2>1. PICK l \in Latencies, m \in Latencies : Up[1].due + Deadline = readUntil["control"] + l + m
        BY <1>2
  <2>2. l + m < Deadline /\ Up[1].due \in Nat /\ Head(Up) = Up[1] /\ 1 \in DOMAIN Up
        BY <1>0, <1>2, AfterTail DEF DeadlineIsLong, Message
  <2>3. Up[1].due >= now
        BY <1>2, <2>2 DEF TimesInv, UpTimes
  <2>4. now < readUntil["control"]
        BY <1>0, <2>1, <2>2, <2>3
  <2>5. cpc \in {"ready", "failed"}
        BY <1>2, ControlReads DEF UpMessage
  <2> QED  BY <1>2, <2>2, <2>4, <2>5 DEF Fails, ClassInv
<1> QED  BY <1>1, <1>2 DEF ClassInv

LEMMA ClassKept ==
  ASSUME ClassInv, UNCHANGED <<Up, Down, now>>, broken["control"] => broken'["control"],
         spc'["control"] = spc["control"], readUntil'["control"] = readUntil["control"],
         cpc' # "failed" \/ cpc' = cpc, sStart # NotYet => sStart' # NotYet
  PROVE  ClassInv'
BY DEF ClassInv

LEMMA ClassStep ==
  ASSUME DeadlineIsLong, Inv, NumbersInv, TimesInv, ClassInv, [Next]_vars
  PROVE  ClassInv'
<1> USE DEF ClassInv
<1>0. /\ "SyncStart" \in MessageTypes /\ "Ack" \in MessageTypes /\ 0 \in Int
      /\ spc \in [Links -> {"syn", "probe", "go", "sleep", "run", "ended"}]
      /\ readUntil \in [Links -> Nat] /\ broken \in [Links -> BOOLEAN]
      /\ "control" \in Links /\ "data" \in Links
      /\ toServer \in [Links -> Seq(Message)] /\ toClient \in [Links -> Seq(Message)]
      /\ now \in Nat /\ Latencies \subseteq Nat /\ Deadline \in Nat
      /\ TypeOK /\ ControlInv /\ DataInv
      BY LinksAre, SyncAssumption DEF TypeOK, MessageTypes, Inv
<1>1. CASE DialControl \/ SendSyncGo \/ StartTransfer \/ \E k \in Links : ClientReads(k)
  <2>1. /\ UNCHANGED <<spc, sStart>> /\ cpc \in {"dial", "ready", "dataAck", "run"}
        /\ cpc' # "failed" /\ broken'["control"] = broken["control"]
        /\ cpc = "ready" => Has(Down, "SyncReady")
        BY <1>0, <1>1, LinksAre DEF DialControl, SendSyncGo, StartTransfer, ClientReads, client,
                                    handler, Down
  <2>2. cpc = "ready" => spc["control"] \in {"go", "ended"}
        BY <1>0, <2>1, ControlReads DEF Has, Arrived, DownMessage
  <2>3. ~broken["control"] => spc["control"] # "probe"
        BY <1>0, <2>1, <2>2, TimeIsLeft
  <2> QED  BY <2>1, <2>3
<1>2. CASE SendSyncStart
  <2>1. /\ Has(Down, "Ack") /\ cpc = "ack" /\ UNCHANGED <<spc, sStart, readUntil, now, broken>>
        /\ ClientSends("control", "SyncStart", 0) /\ cpc' = "ready"
        BY <1>0, <1>2 DEF SendSyncStart, Down, handler
  <2>2. /\ Down # <<>> /\ Head(Down) = Down[1] /\ Up = <<>> /\ Down[1].due <= now
        /\ Down[1].due \in Nat
        BY <1>0, <2>1, ControlReads, AfterTail DEF Has, Arrived, DownMessage, Message
  <2>3. ASSUME ~broken["control"], spc["control"] = "probe"
        PROVE  /\ Up' # <<>> /\ Up'[1].type = "SyncStart"
               /\ \E l, m \in Latencies : Up'[1].due + Deadline = readUntil'["control"] + l + m
    <3>1. Down[1].due = now
          BY <1>0, <2>2, <2>3, SMTT(30)
    <3>2. PICK l \in Latencies : now + Deadline = readUntil["control"] + l
          BY <2>2, <2>3, <3>1
    <3>3. /\ Up' # <<>> /\ Up'[1].type = "SyncStart"
          /\ \E m \in Latencies : Up'[1].due = now + m
          BY <1>0, <2>1, <2>2, <2>3, ClientWrites
    <3>4. PICK m \in Latencies : Up'[1].due = now + m
          BY <3>3
    <3>5. Up'[1].due + Deadline = readUntil'["control"] + l + m
          BY <1>0, <2>1, <3>2, <3>4
    <3> QED  BY <3>3, <3>5
  <2> QED  BY <2>1, <2>3
<1>3. CASE WaitOver
  <2>1. UNCHANGED <<Up, Down, now, broken, spc, readUntil, sStart>> /\ cpc' = "dialData"
        BY <1>3 DEF WaitOver, net, handler, Up, Down
  <2> QED  BY <2>1, ClassKept
<1>4. CASE DialData
  <2>1. ClientSends("data", "Syn", 0) /\ "control" \in Links \ {"data"} /\ "Syn" \in MessageTypes
        BY <1>0, <1>4, LinksAre DEF DialData, MessageTypes
  <2>2. Up' = Up
        BY <1>0, <2>1, ClientSendsOn DEF Up
  <2>3. UNCHANGED <<Down, now, broken, spc, readUntil, sStart>> /\ cpc' = "dataAck"
        BY <1>4 DEF DialData, handler, Down
  <2> QED  BY <2>2, <2>3, ClassKept
<1>5. CASE ClientGivesUp \/ HandlerGivesUp("control") \/ RunEnds("control")
      BY <1>0, <1>5 DEF ClientGivesUp, HandlerGivesUp, RunEnds, net
<1>6. CASE HandlerNext("data")
  <2>1. /\ UNCHANGED <<Up, Down, now, cpc>> /\ broken'["control"] = broken["control"]
        /\ spc'["control"] = spc["control"] /\ readUntil'["control"] = readUntil["control"]
        BY <1>0, <1>6, LinksAre, HandlerFrame DEF Up, Down
  <2>2. ~AnswerSyncGo("data")
        BY <1>0, DataReads DEF AnswerSyncGo, Has, Arrived, UpData
  <2>3. sStart' = sStart
        BY <1>6, <2>2 DEF HandlerNext, AnswerSyn, AnswerSyncStart, TakeForData, ServerStarts,
                          HandlerGivesUp, ServerReads, RunEnds, handler
  <2> QED  BY <2>1, <2>3, ClassKept
<1>7. CASE AnswerSyn("control")
  <2>1. /\ Up # <<>> /\ Head(Up).type = "Syn" /\ UNCHANGED <<broken, cpc, now>>
        /\ ServerSends("control", "Ack", 0) /\ spc'["control"] = "probe"
        /\ readUntil'["control"] = now + Deadline
        BY <1>0, <1>7 DEF AnswerSyn, Up, client, Has, Arrived
  <2>2. Down = <<>>
        BY <1>0, <2>1, ControlReads DEF UpMessage
  <2>3. ASSUME ~broken["control"]
        PROVE  /\ Down' # <<>> /\ Down'[1].type = "Ack" /\ Down'[1].due >= now'
               /\ \E l \in Latencies : Down'[1].due + Deadline = readUntil'["control"] + l
    <3>1. /\ Down' # <<>> /\ Down'[1].type = "Ack"
          /\ \E l \in Latencies : Down'[1].due = now + l
          BY <1>0, <2>1, <2>2, <2>3, ServerWrites
    <3>2. PICK l \in Latencies : Down'[1].due = now + l
          BY <3>1
    <3>3. Down'[1].due >= now' /\ Down'[1].due + Deadline = readUntil'["control"] + l
          BY <1>0, <2>1, <3>2
    <3> QED  BY <3>1, <3>3
  <2> QED  BY <2>1, <2>3
<1>8. CASE AnswerSyncStart("control") \/ AnswerSyncGo("control")
      BY <1>0, <1>8 DEF AnswerSyncStart, AnswerSyncGo, client
<1>9. CASE TakeForData("control")
  <2>1. /\ spc["control"] = "probe" /\ broken' = broken
        /\ now >= readUntil["control"] \/ Fails("control", Up, "SyncStart")
        BY <1>9 DEF TakeForData, Up
  <2>2. ~broken["control"] => FALSE
        BY <1>0, <2>1, TimeIsLeft
  <2> QED  BY <2>1, <2>2
<1>10. CASE ServerStarts("control")
  <2>1. /\ spc["control"] = "sleep" /\ spc'["control"] = "run" /\ UNCHANGED <<broken, cpc, sStart>>
        BY <1>0, <1>10 DEF ServerStarts, client
  <2> QED  BY <2>1 DEF TimesInv
<1>11. CASE ServerReads("control")
      BY <1>0, <1>11 DEF ServerReads, client, handler
<1>12. CASE Tick
  <2>1. UNCHANGED <<Up, Down, broken, cpc, spc, readUntil, sStart>>
        BY <1>12 DEF Tick, net, client, handler, Up, Down
  <2>2. ASSUME ~broken["control"], Down # <<>>, Down[1].type = "Ack" PROVE Down[1].due >= now'
    <3>1. cpc = "ack"
          BY <1>0, <2>2, ControlReads DEF DownMessage
    <3>2. now' <= Down[1].due /\ now' \in Nat /\ Down[1].due \in Nat
          BY <1>0, <1>12, <2>2, <3>1, WaitedFor, TickStep, ControlReads, AfterTail DEF Message
    <3> QED  BY <3>2
  <2> QED  BY <2>1, <2>2
<1>13. CASE (\E k \in Links : Break(k)) \/ UNCHANGED vars
  <2>1. /\ UNCHANGED <<Up, Down, now, cpc, spc, readUntil, sStart>>
        /\ broken["control"] => broken'["control"]
        BY <1>0, <1>13 DEF Break, vars, net, client, handler, Up, Down
  <2> QED  BY <2>1, ClassKept
<1> QED  BY <1>1, <1>2, <1>3, <1>4, <1>5, <1>6, <1>7, <1>8, <1>9, <1>10, <1>11, <1>12, <1>13,
            LinksAre DEF Next, ClientNext, HandlerNext

LEMMA ClassAlways == ASSUME DeadlineIsLong PROVE Spec => []ClassInv
<1>1. Init => ClassInv
      BY LinksAre DEF Init, ClassInv
<1>2. Inv /\ NumbersInv /\ TimesInv /\ ClassInv /\ [Next]_vars => ClassInv'
      BY ClassStep
<1> QED  BY <1>1, <1>2, InvAlways, TimesAlways, PTL DEF Spec

-----------------------------------------------------------------------------
(* The theorems.                                                            *)

\* Every variable keeps its type.  A delay may be negative, when the statistics are late;
\* the two starts are moments of the run all the same (client.go:354-362, server.go:191-199).
THEOREM TypesAlways == Spec => []TypeOK
BY TypesInv, PTL

\* The server tells the control connection from the data connections, whatever the
\* latencies are and whatever breaks, if SyncStart is awaited for longer than a round
\* trip takes (server.go:131-143).
THEOREM RightClassificationAlways ==
  ASSUME DeadlineIsLong PROVE Spec => []RightClassification
<1>1. Inv /\ ClassInv => RightClassification
      BY DEF Inv, DataInv, ClassInv, RightClassification
<1> QED  BY <1>1, InvAlways, ClassAlways, PTL

\* With that, no message of the handshake is read as payload by either end
\* (server.go:143-156, client.go:330-345).
THEOREM NoStrayMessageAlways ==
  ASSUME DeadlineIsLong PROVE Spec => []NoStrayMessage
<1>1. Inv /\ TimesInv /\ ClassInv => NoStrayMessage
  <2> SUFFICES ASSUME Inv, TimesInv, ClassInv, NEW k \in Links, ~broken[k]
               PROVE  /\ spc[k] \in {"sleep", "run"} =>
                           \A i \in DOMAIN toServer[k] : toServer[k][i].type = "Payload"
                      /\ cpc = "run" =>
                           \A i \in DOMAIN toClient[k] : toClient[k][i].type = "Payload"
      BY DEF NoStrayMessage
  <2>1. CASE k = "control"
    <3>1. spc["control"] = "run" => cpc \in Started
          BY <2>1 DEF ClassInv, TimesInv
    <3> QED  BY <2>1, <3>1 DEF Inv, ControlInv, UpMessage, DownMessage, Up, Down, Started
  <2>2. CASE k = "data"
        BY <2>2 DEF Inv, DataInv, UpData, DownData
  <2> QED  BY <2>1, <2>2, LinksAre
<1> QED  BY <1>1, InvAlways, TimesAlways, ClassAlways, PTL

\* The server starts after the client, and by no more than a round trip, in both modes
\* and whatever the latencies, the deadline and the period are (server.go:157-185,
\* client.go:347-362).
THEOREM SkewBoundedAlways == Spec => []SkewBounded
<1>1. Inv /\ NumbersInv /\ TimesInv => SkewBounded
  <2> SUFFICES ASSUME Inv, NumbersInv, TimesInv, sStart # NotYet
               PROVE  sStart - cStart \in 0 .. RoundTrip
      BY DEF SkewBounded, ServerStarted
  <2>1. PICK x \in Latencies, y \in Latencies, z \in Latencies :
          /\ sStart = sendTime + x + y + z + (IF gOneClient THEN (x + y) \div 2 ELSE Max({0, delayNs}))
          /\ Agreed(x, y)
        BY DEF TimesInv
  <2> DEFINE M == Max(Latencies)
             r == (x + y) \div 2
  <2>2. M \in Nat /\ x \in 0 .. M /\ y \in 0 .. M /\ z \in 0 .. M
        BY LatencyBounds
  <2>3. r \in Nat /\ r <= M
        BY <2>2
  <2>4. sendTime \in Nat /\ delayNs \in Int /\ (gOneClient => delayNs = 0)
        BY DEF Inv, TypeOK, TimesInv
  <2>5. /\ Max({0, delayNs - r}) = IF 0 >= delayNs - r THEN 0 ELSE delayNs - r
        /\ Max({0, delayNs}) = IF 0 >= delayNs THEN 0 ELSE delayNs
        BY <2>3, <2>4, MaxOfTwo
  <2> DEFINE rest == IF delayNs = 0 THEN 0 ELSE Max({0, delayNs - r})
  <2>6. rest = (IF delayNs <= r THEN 0 ELSE delayNs - r)
        BY <2>3, <2>4, <2>5
  <2>7. cStart = sendTime + x + y + rest
        BY <2>1 DEF Agreed
  <2> HIDE DEF rest
  <2>8. sStart = sendTime + x + y + z + (IF gOneClient THEN r
                                         ELSE IF 0 >= delayNs THEN 0 ELSE delayNs)
        BY <2>1, <2>5
  <2> HIDE DEF r, M
  <2>9. sStart - cStart \in 0 .. 2 * M
        BY <2>2, <2>3, <2>4, <2>6, <2>7, <2>8
  <2> QED  BY <2>9 DEF RoundTrip, M
<1> QED  BY <1>1, InvAlways, TimesAlways, PTL

\* With a statistics timer running, the client starts on the tick the server had in
\* mind, as far as the two ways of the handshake take the same time and the goroutine of
\* the timer is not late (server.go:177-185, client.go:354-362, stats.go:161-168).
THEOREM ClientStartsOnTickAlways == Spec => []ClientStartsOnTick
<1>1. Inv /\ TimesInv => ClientStartsOnTick
  <2> DEFINE meant == lastStatsTime + Interval
             tick == meant - (meant % Interval)
             M == Max(Latencies)
             least == Min(Latencies)
             L == Max(Lateness)
             jitter == (M - least) \div 2 + 1
  <2> SUFFICES ASSUME Inv, TimesInv, ~gOneClient, sStart # NotYet
               PROVE  cStart - tick \in -jitter .. L + (IF delayNs <= M THEN M ELSE jitter)
      BY DEF ClientStartsOnTick
  <2>1. PICK x \in Latencies, y \in Latencies : Agreed(x, y)
        BY DEF TimesInv
  <2> DEFINE r == (x + y) \div 2
             asked == sendTime + x
  <2>2. /\ M \in Nat /\ least \in Nat /\ x \in Nat /\ y \in Nat
        /\ least <= x /\ x <= M /\ least <= y /\ y <= M
        BY LatencyBounds
  <2>3. /\ sendTime \in Nat /\ delayNs \in Int /\ Interval \in Nat /\ lastStatsTime \in Int
        /\ Lateness \subseteq 0 .. Interval - 1
        BY SyncAssumption DEF Inv, TypeOK
  <2>4. L \in Nat /\ \A l \in Lateness : l <= L
        BY LatenessBounds
  <2>5. PICK n \in Nat, l \in Lateness, m \in Lateness :
          /\ asked + delayNs = meant
          /\ asked + delayNs = n * Interval + l /\ asked <= n * Interval + m
        BY <2>1 DEF Agreed, Meant
  <2>6. l \in Nat /\ l < Interval /\ l <= L /\ m \in Nat /\ m <= L
        BY <2>3, <2>4
  <2>7. /\ tick = n * Interval /\ n * Interval \in Nat
        /\ asked + delayNs = tick + l /\ asked <= tick + m
    <3>1. (n * Interval + l) % Interval = l
          BY <2>3, <2>6, Remainder
    <3>2. n * Interval \in Nat
          BY <2>3
    <3>3. meant % Interval = l /\ meant = n * Interval + l
          BY <2>5, <3>1
    <3>4. tick = n * Interval
      <4> DEFINE p == n * Interval
      <4>1. p \in Nat /\ meant = p + l /\ tick = meant - l
            BY <3>2, <3>3
      <4> HIDE DEF p, meant
      <4>2. tick = p
            BY <2>6, <4>1
      <4> QED  BY <4>2 DEF p
    <3> QED  BY <2>5, <3>2, <3>4
  <2>8. r \in Nat /\ 2 * r <= x + y /\ x + y <= 2 * r + 1
        BY <2>2
  <2>9. jitter \in Nat /\ 2 * jitter >= M - least + 1
        BY <2>2
  <2>10. Max({0, delayNs - r}) = IF 0 >= delayNs - r THEN 0 ELSE delayNs - r
        BY <2>3, <2>8, MaxOfTwo
  <2>11. cStart = asked + y + (IF delayNs <= r THEN 0 ELSE delayNs - r)
        BY <2>1, <2>3, <2>8, <2>10 DEF Agreed
  <2>12. asked \in Nat
        BY <2>2, <2>3
  <2> HIDE DEF tick, meant, M, least, L, jitter, r, asked
  <2>13. y - r >= -jitter /\ y - r <= jitter /\ y - r <= M /\ r <= M
        BY <2>2, <2>8, <2>9
  <2>14. tick \in Nat
        BY <2>7
  <2>15. CASE delayNs <= r
    <3>1. cStart - tick = y + (asked - tick)
          BY <2>2, <2>11, <2>12, <2>14, <2>15
    <3>2. asked - tick <= L /\ asked - tick >= -r
          BY <2>3, <2>4, <2>6, <2>7, <2>8, <2>12, <2>14, <2>15
    <3>3. delayNs <= M
          BY <2>2, <2>3, <2>8, <2>13, <2>15
    <3> QED  BY <2>2, <2>4, <2>8, <2>9, <2>12, <2>13, <2>14, <3>1, <3>2, <3>3
  <2>16. CASE delayNs > r
    <3>1. cStart - tick = y - r + l
          BY <2>2, <2>3, <2>6, <2>7, <2>8, <2>11, <2>12, <2>14, <2>16
    <3> QED  BY <2>2, <2>4, <2>6, <2>8, <2>9, <2>13, <3>1
  <2> QED  BY <2>3, <2>8, <2>15, <2>16
<1> QED  BY <1>1, InvAlways, TimesAlways, PTL
=============================================================================
