--------------------------- MODULE ServerStatsProofs ---------------------------
(***************************************************************************)
(* Proofs about ServerStats, for any tests, any length of the interval and *)
(* any lateness of the timer that is less than an interval.                *)
(***************************************************************************)
EXTENDS ServerStats, FiniteSetTheorems, TLAPS

\* The timer ends an interval at most Late units after it is due, and no time passes
\* for the walk, which holds the lock of the table.
ClockInv ==
  /\ since <= due + Late
  /\ walking => since = 0

\* Outside of a walk there is nothing of a walk; in a walk a test has been shown, or
\* is in a sum, only if the walk has been at it.
WalkInv ==
  /\ ~walking => /\ todo = {} /\ inHand = {} /\ shown = {}
                 /\ aggregate["TCP"] = {} /\ aggregate["UDP"] = {}
                 /\ \A t \in Tests : rowBw[t] = Nothing /\ rowOps[t] = Nothing
  /\ todo \cap inHand = {}
  /\ (todo \cup inHand) \cap (shown \cup aggregate["TCP"] \cup aggregate["UDP"]) = {}

\* A counter holds nothing from before the interval, and nothing from before the walk
\* once the walk has taken it.
CountersInv ==
  \A t \in Tests :
    /\ bw[t] >= IF t \in todo THEN -length ELSE 0
    /\ ops[t] >= IF t \in todo \cup inHand THEN -length ELSE 0
    /\ rowBw[t] >= -length /\ rowOps[t] >= -length

\* A start that a row has not used up is the one agreed upon last.
StartsInv == \A t \in Tests : startTime[t] \in {agreed[t], Zero}

\* The sum is that of the rows, at every moment of a walk.
SumInv ==
  /\ \A t \in aggregate["TCP"] \cup aggregate["UDP"] :
       t \in shown \/ (rowBw[t] = Nothing /\ rowOps[t] = Nothing)
  /\ \A t \in shown : t \in aggregate[proto(t)]

\* Of the tests the walk has been at, those that counted and started in time are shown.
ShownInv ==
  walking =>
    \A t \in registered \ (todo \cup inHand) :
      (rowBw[t] # Nothing \/ rowOps[t] # Nothing) /\ agreed[t] <= -seconds => t \in shown

\* The inductive invariant.
IInv == TypeOK /\ ClockInv /\ WalkInv /\ CountersInv /\ StartsInv /\ SumInv /\ ShownInv

-----------------------------------------------------------------------------
(* The operators on moments.                                                *)

\* The lesser and the greater of two numbers.
LEMMA MinOfTwo ==
  ASSUME NEW a \in Int, NEW b \in Int
  PROVE  Min({a, b}) = IF a <= b THEN a ELSE b
<1> DEFINE least == IF a <= b THEN a ELSE b
<1>1. least \in {a, b} /\ \A y \in {a, b} : least <= y
      OBVIOUS
<1>2. \A x \in {a, b} : (\A y \in {a, b} : x <= y) => x = least
      OBVIOUS
<1> HIDE DEF least
<1>3. Min({a, b}) \in {a, b} /\ \A y \in {a, b} : Min({a, b}) <= y
      BY <1>1 DEF Min
<1>4. Min({a, b}) = least
      BY <1>2, <1>3
<1> QED  BY <1>4 DEF least

LEMMA MaxOfTwo ==
  ASSUME NEW a \in Int, NEW b \in Int
  PROVE  Max({a, b}) = IF a >= b THEN a ELSE b
<1> DEFINE most == IF a >= b THEN a ELSE b
<1>1. most \in {a, b} /\ \A y \in {a, b} : most >= y
      OBVIOUS
<1>2. \A x \in {a, b} : (\A y \in {a, b} : x >= y) => x = most
      OBVIOUS
<1> HIDE DEF most
<1>3. Max({a, b}) \in {a, b} /\ \A y \in {a, b} : Max({a, b}) >= y
      BY <1>1 DEF Max
<1>4. Max({a, b}) = most
      BY <1>2, <1>3
<1> QED  BY <1>4 DEF most

\* A finite set of at most one element that has one has no other.
LEMMA AtMostOne ==
  ASSUME NEW S, IsFiniteSet(S), Cardinality(S) <= 1, NEW t \in S
  PROVE  S = {t}
<1>1. ASSUME NEW u \in S, u # t PROVE FALSE
  <2>1. {t, u} \subseteq S /\ Cardinality({t, u}) = 2
    <3>1. IsFiniteSet({t}) /\ Cardinality({t}) = 1 /\ u \notin {t}
          BY <1>1, FS_Singleton
    <3>2. Cardinality({t} \cup {u}) = Cardinality({t}) + 1
          BY <3>1, FS_AddElement
    <3>3. {t} \cup {u} = {t, u}
          OBVIOUS
    <3> QED  BY <1>1, <3>1, <3>2, <3>3
  <2>2. Cardinality({t, u}) <= Cardinality(S) /\ Cardinality(S) \in Nat
        BY <2>1, FS_Subset, FS_CardinalityType
  <2> QED  BY <2>1, <2>2
<1> QED  BY <1>1

\* The constants are whole numbers, in this order.
LEMMA Constants ==
  /\ Second \in Int /\ Late \in Int /\ 0 < Second /\ 0 <= Late /\ Late < Second
  /\ Floor \in Int /\ Nothing \in Int /\ Zero \in Int
  /\ Floor = -(Second + Late) - 1 /\ Nothing = Second + Late + 1 /\ Zero = Floor - 1
BY StatsAssumption DEF Floor, Nothing, Zero

\* What emitStats divides by is at least a second, and less than what a zero start
\* lies back.
LEMMA SecondsBound ==
  ASSUME TypeOK
  PROVE  seconds \in Int /\ 0 < seconds /\ length <= seconds /\ Zero < -seconds
<1>1. length \in Int /\ 0 <= length /\ length <= Second + Late
      BY Constants DEF TypeOK
<1>2. seconds = IF length >= Second THEN length ELSE Second
      BY <1>1, Constants, MaxOfTwo DEF seconds
<1> QED  BY <1>1, <1>2, Constants

\* A handler that counts now sets the counter to no moment but the present one.
LEMMA CountNow ==
  ASSUME TypeOK, NEW c \in [Tests -> Moments \cup {Nothing}], NEW t \in Tests
  PROVE  /\ Count(c, t) \in [Tests -> Moments \cup {Nothing}]
         /\ Count(c, t)[t] \in {c[t], since}
         /\ \A u \in Tests \ {t} : Count(c, t)[u] = c[u]
<1>1. since \in Moments /\ since \in Int
      BY Constants DEF TypeOK, Moments
<1>2. c[t] \in Int
      BY Constants DEF Moments
<1>3. Min({c[t], since}) \in {c[t], since}
      BY <1>1, <1>2, MinOfTwo
<1> QED  BY <1>1, <1>3 DEF Count

\* Looking at a moment from the end of the interval moves it back by its length, and
\* leaves what is no moment alone.
LEMMA ShiftMoment ==
  ASSUME TypeOK, ClockInv, NEW m \in Moments
  PROVE  /\ Shift(m) \in Moments
         /\ m >= 0 => Shift(m) >= -since
<1>1. since \in Int /\ 0 <= since /\ since <= Second + Late
      BY Constants DEF TypeOK
<1>2. m \in Int /\ Floor <= m /\ m <= Second + Late /\ m \notin {Nothing, Zero}
      BY Constants DEF Moments
<1>3. Shift(m) = IF m - since >= Floor THEN m - since ELSE Floor
      BY <1>1, <1>2, Constants, MaxOfTwo DEF Shift
<1> QED  BY <1>1, <1>2, <1>3, Constants DEF Moments

LEMMA ShiftCounters ==
  ASSUME TypeOK, ClockInv, NEW c \in [Tests -> Moments \cup {Nothing}],
         \A t \in Tests : c[t] >= 0
  PROVE  /\ ShiftAll(c) \in [Tests -> Moments \cup {Nothing}]
         /\ \A t \in registered : ShiftAll(c)[t] >= -since
         /\ \A t \in Tests \ registered : ShiftAll(c)[t] = c[t]
<1>1. ASSUME NEW t \in Tests
      PROVE  Shift(c[t]) \in Moments \cup {Nothing} /\ Shift(c[t]) >= -since
  <2>1. CASE c[t] = Nothing
        BY <2>1, Constants DEF Shift, TypeOK
  <2>2. CASE c[t] \in Moments
        BY <2>2, ShiftMoment
  <2> QED  BY <2>1, <2>2
<1>2. registered \subseteq Tests
      BY DEF TypeOK
<1> QED  BY <1>1, <1>2 DEF ShiftAll

\* A row shows a count, with the moment of its oldest unit, or 0.
LEMMA RateOrNothing ==
  ASSUME NEW count, NEW rate \in Rates(count)
  PROVE  rate \in {count, Nothing}
BY DEF Rates

-----------------------------------------------------------------------------
(* Types.                                                                   *)

LEMMA TypesInit == Init => TypeOK
<1> SUFFICES ASSUME Init PROVE TypeOK
    OBVIOUS
<1>1. 0 \in Moments /\ Second \in 0 .. Second + Late /\ Second \in 0 .. Second
      BY Constants DEF Moments
<1>2. Cardinality(inHand) <= 1
  <2>1. Cardinality({}) = 0
        BY FS_EmptySet
  <2> QED  BY <2>1 DEF Init
<1>3. gOneClient \in Modes /\ statsEnabled \in BOOLEAN
      BY StatsAssumption DEF Init
<1>4. since \in 0 .. Second + Late /\ due \in 0 .. Second /\ length \in 0 .. Second + Late
      BY <1>1, Constants DEF Init
<1>5. aggregate \in [Protocols -> SUBSET Tests]
      BY DEF Init
<1>6. startTime \in [Tests -> Moments \cup {Zero}] /\ agreed \in [Tests -> Moments]
      BY <1>1 DEF Init
<1>7. {bw, ops, rowBw, rowOps} \subseteq [Tests -> Moments \cup {Nothing}]
      BY DEF Init
<1> QED  BY <1>2, <1>3, <1>4, <1>5, <1>6, <1>7 DEF Init, TypeOK

\* The next interval ends at the next multiple of a second.
LEMMA DueInRange ==
  ASSUME TypeOK, ClockInv, BeginWalk
  PROVE  due' \in 0 .. Second /\ since - due \in 0 .. Late
<1>1. since \in Int /\ due \in Int /\ due <= since /\ since <= due + Late
      BY Constants DEF TypeOK, ClockInv, BeginWalk
<1>2. due' = Second - (since - due)
      BY DEF BeginWalk
<1> QED  BY <1>1, <1>2, Constants

LEMMA TypesStep == TypeOK /\ ClockInv /\ WalkInv /\ [Next]_vars => TypeOK'
<1> SUFFICES ASSUME TypeOK, ClockInv, WalkInv, [Next]_vars PROVE TypeOK'
    OBVIOUS
<1> USE DEF TypeOK, clock, testVars, walk
<1>0. since \in Moments /\ 0 \in Moments
      BY Constants DEF Moments
<1>1. ASSUME NEW t \in Tests, NewTest(t) PROVE TypeOK'
      BY <1>0, <1>1 DEF NewTest
<1>2. ASSUME NEW t \in Tests, DeleteTest(t) PROVE TypeOK'
  <2>1. todo = {} /\ inHand = {}
        BY <1>2 DEF DeleteTest, WalkInv
  <2> QED  BY <1>0, <1>2, <2>1 DEF DeleteTest
<1>3. ASSUME NEW t \in Tests, AgreeOnStart(t) PROVE TypeOK'
      BY <1>0, <1>3 DEF AgreeOnStart
<1>4. ASSUME NEW t \in Tests, MarkDormant(t) PROVE TypeOK'
      BY <1>4 DEF MarkDormant
<1>5. ASSUME NEW t \in Tests, CountConnection(t) PROVE TypeOK'
      BY <1>5, CountNow, SMTT(30) DEF CountConnection
<1>6. ASSUME NEW t \in Tests, CountBytes(t) PROVE TypeOK'
      BY <1>6, CountNow DEF CountBytes
<1>7. ASSUME NEW t \in Tests, CountPacket(t) PROVE TypeOK'
      BY <1>7, CountNow DEF CountPacket
<1>8. CASE Tick
  <2>1. since' \in 0 .. Second + Late
        BY <1>8, Constants DEF Tick
  <2> QED  BY <1>8, <2>1 DEF Tick
<1>9. CASE BeginWalk
  <2>1. due' \in 0 .. Second /\ since' \in 0 .. Second + Late
        BY <1>9, DueInRange, Constants DEF BeginWalk
  <2>2. agreed' \in [Tests -> Moments]
        BY <1>9, ShiftMoment DEF BeginWalk, ShiftAll
  <2>3. startTime' \in [Tests -> Moments \cup {Zero}]
    <3>1. ASSUME NEW t \in Tests PROVE Shift(startTime[t]) \in Moments \cup {Zero}
      <4>1. CASE startTime[t] = Zero
            BY <4>1 DEF Shift
      <4> QED  BY <4>1, ShiftMoment
    <3> QED  BY <1>9, <3>1 DEF BeginWalk, ShiftAll
  <2>4. ASSUME NEW c \in [Tests -> Moments \cup {Nothing}]
        PROVE  ShiftAll(c) \in [Tests -> Moments \cup {Nothing}]
    <3>1. ASSUME NEW t \in Tests PROVE Shift(c[t]) \in Moments \cup {Nothing}
      <4>1. CASE c[t] = Nothing
            BY <4>1 DEF Shift
      <4> QED  BY <4>1, ShiftMoment
    <3> QED  BY <3>1 DEF ShiftAll
  <2>5. {bw', ops'} \subseteq [Tests -> Moments \cup {Nothing}]
        BY <1>9, <2>4 DEF BeginWalk
  <2> QED  BY <1>9, <2>1, <2>2, <2>3, <2>5 DEF BeginWalk
<1>10. ASSUME NEW t \in Tests, TakeBytes(t) PROVE TypeOK'
  <2>1. Cardinality({t}) <= 1
    <3>1. Cardinality({t}) = 1
          BY FS_Singleton
    <3> QED  BY <3>1
  <2>2. rowBw' \in [Tests -> Moments \cup {Nothing}]
    <3>1. PICK rate \in Rates(bw[t]) : rowBw' = [rowBw EXCEPT ![t] = rate]
          BY <1>10 DEF TakeBytes
    <3>2. rate \in Moments \cup {Nothing}
          BY RateOrNothing
    <3> QED  BY <3>1, <3>2
  <2> QED  BY <1>10, <2>1, <2>2 DEF TakeBytes
<1>11. ASSUME NEW t \in Tests, Skip(t) \/ Show(t) PROVE TypeOK'
  <2>1. inHand' = {} /\ Cardinality({}) <= 1
    <3>1. Cardinality({}) = 0
          BY FS_EmptySet
    <3> QED  BY <1>11, <3>1 DEF Skip, Show
  <2>2. proto(t) \in Protocols
        BY DEF proto, Protocols
  <2>3. CASE Skip(t)
        BY <2>1, <2>3 DEF Skip
  <2>4. CASE Show(t)
    <3>1. aggregate' \in [Protocols -> SUBSET Tests]
          BY <2>2, <2>4 DEF Show
    <3>2. shown' \subseteq Tests
          BY <2>4 DEF Show
    <3>3. rowOps' \in [Tests -> Moments \cup {Nothing}]
      <4>1. PICK rate \in Rates(ops[t]) : rowOps' = [rowOps EXCEPT ![t] = rate]
            BY <2>4 DEF Show
      <4>2. rate \in Moments \cup {Nothing}
            BY RateOrNothing
      <4> QED  BY <4>1, <4>2
    <3> QED  BY <2>1, <2>4, <3>1, <3>2, <3>3 DEF Show
  <2> QED  BY <1>11, <2>3, <2>4
<1>12. CASE EndWalk
  <2>1. length' = Second /\ UNCHANGED <<gOneClient, statsEnabled, since, due, testVars, bw, ops, todo, inHand>>
        BY <1>12 DEF EndWalk
  <2>2. length' \in 0 .. Second + Late
        BY <2>1, Constants
  <2>3. rowBw' \in [Tests -> {Nothing}] /\ rowOps' \in [Tests -> {Nothing}]
        BY <1>12 DEF EndWalk
  <2>4. walking' = FALSE /\ shown' = {} /\ aggregate' \in [Protocols -> SUBSET Tests]
        BY <1>12 DEF EndWalk
  <2> QED  BY <2>1, <2>2, <2>3, <2>4
<1>13. CASE UNCHANGED vars
      BY <1>13 DEF vars
<1> QED  BY <1>1, <1>2, <1>3, <1>4, <1>5, <1>6, <1>7, <1>8, <1>9, <1>10, <1>11, <1>12,
            <1>13 DEF Next, Walks

-----------------------------------------------------------------------------
(* The parts of the inductive invariant.                                    *)

LEMMA InvInit == Init => IInv
<1> SUFFICES ASSUME Init PROVE IInv
    OBVIOUS
<1>1. TypeOK
      BY TypesInit
<1>2. ClockInv
      BY Constants DEF Init, ClockInv
<1>3. WalkInv
      BY DEF Init, WalkInv, Protocols
<1>4. CountersInv
      BY Constants DEF Init, CountersInv
<1>5. StartsInv
      BY DEF Init, StartsInv
<1>6. SumInv
      BY DEF Init, SumInv, Protocols
<1>7. ShownInv
      BY DEF Init, ShownInv
<1> QED  BY <1>1, <1>2, <1>3, <1>4, <1>5, <1>6, <1>7 DEF IInv

LEMMA ClockStep == TypeOK /\ ClockInv /\ [Next]_vars => ClockInv'
<1> SUFFICES ASSUME TypeOK, ClockInv, [Next]_vars PROVE ClockInv'
    OBVIOUS
<1> USE Constants DEF TypeOK, ClockInv, clock, walk
<1>1. CASE Tick
      BY <1>1 DEF Tick
<1>2. CASE BeginWalk
      BY <1>2, DueInRange DEF BeginWalk
<1>3. CASE UNCHANGED <<since, due>> /\ (walking' => walking)
      BY <1>3
<1>4. ASSUME NEW t \in Tests, \/ NewTest(t) \/ DeleteTest(t) \/ AgreeOnStart(t)
                              \/ MarkDormant(t)
      PROVE  UNCHANGED <<since, due, walking>>
      BY <1>4 DEF NewTest, DeleteTest, AgreeOnStart, MarkDormant
<1>5. ASSUME NEW t \in Tests, CountConnection(t) \/ CountBytes(t) \/ CountPacket(t)
      PROVE  UNCHANGED <<since, due, walking>>
      BY <1>5 DEF CountConnection, CountBytes, CountPacket
<1>6. ASSUME NEW t \in Tests, TakeBytes(t) \/ Skip(t) \/ Show(t)
      PROVE  UNCHANGED <<since, due, walking>>
      BY <1>6 DEF TakeBytes, Skip, Show
<1>7. CASE EndWalk
      BY <1>7 DEF EndWalk
<1>8. CASE UNCHANGED vars
      BY <1>8 DEF vars
<1> QED  BY <1>1, <1>2, <1>3, <1>4, <1>5, <1>6, <1>7, <1>8 DEF Next, Walks

\* Nothing but the walk touches what the walk has found.
LEMMA OthersLeaveTheWalk ==
  ASSUME NEW t \in Tests,
         \/ NewTest(t) \/ DeleteTest(t) \/ AgreeOnStart(t) \/ MarkDormant(t)
         \/ CountConnection(t) \/ CountBytes(t) \/ CountPacket(t)
  PROVE  UNCHANGED <<walk, since, length>>
<1>1. CASE NewTest(t) \/ DeleteTest(t) \/ AgreeOnStart(t) \/ MarkDormant(t)
      BY <1>1 DEF NewTest, DeleteTest, AgreeOnStart, MarkDormant, clock
<1>2. CASE CountConnection(t) \/ CountBytes(t) \/ CountPacket(t)
      BY <1>2 DEF CountConnection, CountBytes, CountPacket, clock
<1> QED  BY <1>1, <1>2

\* The walk is at one test at a time.
LEMMA OneInHand ==
  ASSUME TypeOK, NEW t \in inHand
  PROVE  inHand = {t}
<1>1. inHand \subseteq Tests /\ Cardinality(inHand) <= 1
      BY DEF TypeOK
<1>2. IsFiniteSet(inHand)
      BY <1>1, StatsAssumption, FS_Subset
<1> QED  BY <1>1, <1>2, AtMostOne

LEMMA WalkStep == TypeOK /\ WalkInv /\ [Next]_vars => WalkInv'
<1> SUFFICES ASSUME TypeOK, WalkInv, [Next]_vars PROVE WalkInv'
    OBVIOUS
<1> USE DEF WalkInv
<1>1. ASSUME UNCHANGED walk PROVE WalkInv'
      BY <1>1 DEF walk
<1>2. ASSUME NEW t \in Tests,
             \/ NewTest(t) \/ DeleteTest(t) \/ AgreeOnStart(t) \/ MarkDormant(t)
             \/ CountConnection(t) \/ CountBytes(t) \/ CountPacket(t)
      PROVE  WalkInv'
      BY <1>1, <1>2, OthersLeaveTheWalk
<1>3. CASE Tick
      BY <1>1, <1>3 DEF Tick
<1>4. CASE BeginWalk
      BY <1>4 DEF BeginWalk
<1>5. ASSUME NEW t \in Tests, TakeBytes(t) PROVE WalkInv'
      BY <1>5 DEF TakeBytes
<1>6. ASSUME NEW t \in Tests, Skip(t) PROVE WalkInv'
      BY <1>6 DEF Skip
<1>7. ASSUME NEW t \in Tests, Show(t) PROVE WalkInv'
  <2>1. inHand = {t} /\ inHand' = {}
        BY <1>7, OneInHand DEF Show
  <2>2. \A p \in Protocols : aggregate'[p] \subseteq aggregate[p] \cup {t}
        BY <1>7 DEF Show, TypeOK
  <2>3. shown' \subseteq shown \cup {t} /\ todo' = todo
        BY <1>7 DEF Show
  <2>4. walking'
        BY <1>7 DEF Show
  <2> QED  BY <2>1, <2>2, <2>3, <2>4 DEF Protocols
<1>8. CASE EndWalk
      BY <1>8 DEF EndWalk, Walked, Protocols
<1>9. CASE UNCHANGED vars
      BY <1>1, <1>9 DEF vars
<1> QED  BY <1>2, <1>3, <1>4, <1>5, <1>6, <1>7, <1>8, <1>9 DEF Next, Walks

LEMMA CountersStep ==
  TypeOK /\ ClockInv /\ WalkInv /\ CountersInv /\ [Next]_vars => CountersInv'
<1> SUFFICES ASSUME TypeOK, ClockInv, WalkInv, CountersInv, [Next]_vars PROVE CountersInv'
    OBVIOUS
<1>0. length \in Int /\ 0 <= length /\ since \in Int /\ 0 <= since /\ Nothing \in Int /\ Nothing > 0
      BY Constants DEF TypeOK
<1>00. {bw, ops, rowBw, rowOps} \subseteq [Tests -> Int]
      BY Constants DEF TypeOK, Moments
<1> USE <1>0, <1>00 DEF CountersInv
<1>1. ASSUME NEW t \in Tests, NewTest(t) \/ AgreeOnStart(t) \/ MarkDormant(t)
      PROVE  CountersInv'
  <2>1. UNCHANGED <<walk, length, bw, ops>>
        BY <1>1, OthersLeaveTheWalk DEF NewTest, AgreeOnStart, MarkDormant
  <2> QED  BY <2>1 DEF walk
<1>2. ASSUME NEW t \in Tests, DeleteTest(t) PROVE CountersInv'
  <2>1. UNCHANGED <<walk, length>>
        BY <1>2, OthersLeaveTheWalk
  <2> QED  BY <1>2, <2>1 DEF DeleteTest, walk
<1>3. ASSUME NEW t \in Tests, CountConnection(t) \/ CountBytes(t) \/ CountPacket(t)
      PROVE  CountersInv'
  <2>1. UNCHANGED <<walk, length>>
        BY <1>3, OthersLeaveTheWalk
  <2>2. bw' \in {bw, Count(bw, t)} /\ ops' \in {ops, Count(ops, t)}
        BY <1>3 DEF CountConnection, CountBytes, CountPacket
  <2>3. \A c \in {bw, ops} : /\ Count(c, t)[t] \in {c[t], since}
                             /\ \A u \in Tests \ {t} : Count(c, t)[u] = c[u]
        BY CountNow DEF TypeOK
  <2>4. \A u \in Tests : bw'[u] \in {bw[u], since} /\ ops'[u] \in {ops[u], since}
        BY <2>2, <2>3
  <2> QED  BY <2>1, <2>4 DEF walk
<1>4. CASE Tick
      BY <1>4 DEF Tick, walk
<1>5. CASE BeginWalk
  <2>1. todo = {} /\ inHand = {} /\ todo' = registered /\ length' = since
        BY <1>5 DEF BeginWalk, WalkInv
  <2>2. \A t \in Tests : bw[t] >= 0 /\ ops[t] >= 0
        BY <2>1
  <2>3. ASSUME NEW c \in {bw, ops}
        PROVE  /\ \A t \in registered : ShiftAll(c)[t] >= -since
               /\ \A t \in Tests \ registered : ShiftAll(c)[t] = c[t]
    <3>1. c \in [Tests -> Moments \cup {Nothing}] /\ \A t \in Tests : c[t] >= 0
          BY <2>2 DEF TypeOK
    <3> QED  BY <3>1, ShiftCounters
  <2>4. \A t \in Tests : rowBw[t] = Nothing /\ rowOps[t] = Nothing
        BY <1>5 DEF BeginWalk, WalkInv
  <2> QED  BY <1>5, <2>1, <2>2, <2>3, <2>4 DEF BeginWalk
<1>6. ASSUME NEW t \in Tests, TakeBytes(t) PROVE CountersInv'
  <2>1. UNCHANGED <<length, ops, rowOps>>
        BY <1>6 DEF TakeBytes, clock
  <2>2. PICK rate \in Rates(bw[t]) : rowBw' = [rowBw EXCEPT ![t] = rate]
        BY <1>6 DEF TakeBytes
  <2>3. rate \in {bw[t], Nothing}
        BY RateOrNothing
  <2>4. /\ bw' = [bw EXCEPT ![t] = Nothing]
        /\ todo' = todo \ {t} /\ inHand' = {t} /\ t \in todo /\ inHand = {}
        BY <1>6 DEF TakeBytes
  <2> QED  BY <2>1, <2>2, <2>3, <2>4
<1>7. ASSUME NEW t \in Tests, Skip(t) PROVE CountersInv'
  <2>1. inHand = {t}
        BY <1>7, OneInHand DEF Skip
  <2> QED  BY <1>7, <2>1 DEF Skip, clock
<1>8. ASSUME NEW t \in Tests, Show(t) PROVE CountersInv'
  <2>1. inHand = {t}
        BY <1>8, OneInHand DEF Show
  <2>2. PICK rate \in Rates(ops[t]) : rowOps' = [rowOps EXCEPT ![t] = rate]
        BY <1>8 DEF Show
  <2>3. rate \in {ops[t], Nothing}
        BY RateOrNothing
  <2>4. ops' = [ops EXCEPT ![t] = Nothing] /\ UNCHANGED <<length, bw, rowBw, todo>> /\ inHand' = {}
        BY <1>8 DEF Show, clock
  <2> QED  BY <2>1, <2>2, <2>3, <2>4
<1>9. CASE EndWalk
      BY <1>9, Constants DEF EndWalk, Walked
<1>10. CASE UNCHANGED vars
      BY <1>10 DEF vars, clock, walk
<1> QED  BY <1>1, <1>2, <1>3, <1>4, <1>5, <1>6, <1>7, <1>8, <1>9, <1>10 DEF Next, Walks

LEMMA StartsStep == TypeOK /\ StartsInv /\ [Next]_vars => StartsInv'
<1> SUFFICES ASSUME TypeOK, StartsInv, [Next]_vars PROVE StartsInv'
    OBVIOUS
<1> USE DEF StartsInv, TypeOK
<1>1. ASSUME NEW t \in Tests,
             NewTest(t) \/ DeleteTest(t) \/ AgreeOnStart(t) \/ MarkDormant(t)
      PROVE  StartsInv'
      BY <1>1 DEF NewTest, DeleteTest, AgreeOnStart, MarkDormant, testVars
<1>2. ASSUME NEW t \in Tests, CountConnection(t) \/ CountBytes(t) \/ CountPacket(t)
      PROVE  StartsInv'
      BY <1>2 DEF CountConnection, CountBytes, CountPacket, testVars
<1>3. CASE Tick \/ EndWalk \/ UNCHANGED vars
      BY <1>3 DEF Tick, EndWalk, vars, testVars
<1>4. CASE BeginWalk
      BY <1>4 DEF BeginWalk, ShiftAll, Shift
<1>5. ASSUME NEW t \in Tests, TakeBytes(t) \/ Skip(t) PROVE StartsInv'
      BY <1>5 DEF TakeBytes, Skip, testVars
<1>6. ASSUME NEW t \in Tests, Show(t) PROVE StartsInv'
      BY <1>6 DEF Show
<1> QED  BY <1>1, <1>2, <1>3, <1>4, <1>5, <1>6 DEF Next, Walks

LEMMA SumStep == TypeOK /\ WalkInv /\ SumInv /\ [Next]_vars => SumInv'
<1> SUFFICES ASSUME TypeOK, WalkInv, SumInv, [Next]_vars PROVE SumInv'
    OBVIOUS
<1> USE DEF SumInv
<1>1. ASSUME UNCHANGED <<rowBw, rowOps, shown, aggregate>> PROVE SumInv'
      BY <1>1
<1>2. ASSUME NEW t \in Tests,
             \/ NewTest(t) \/ DeleteTest(t) \/ AgreeOnStart(t) \/ MarkDormant(t)
             \/ CountConnection(t) \/ CountBytes(t) \/ CountPacket(t)
      PROVE  SumInv'
      BY <1>1, <1>2, OthersLeaveTheWalk DEF walk
<1>3. CASE Tick \/ BeginWalk \/ UNCHANGED vars
      BY <1>1, <1>3 DEF Tick, BeginWalk, vars, walk
<1>4. ASSUME NEW t \in Tests, TakeBytes(t) PROVE SumInv'
  <2>1. t \notin shown \cup aggregate["TCP"] \cup aggregate["UDP"]
        BY <1>4 DEF TakeBytes, WalkInv
  <2>2. UNCHANGED <<shown, aggregate, rowOps>>
        BY <1>4 DEF TakeBytes
  <2>3. shown \subseteq Tests /\ aggregate["TCP"] \subseteq Tests /\ aggregate["UDP"] \subseteq Tests
        BY DEF TypeOK, Protocols
  <2>4. \A u \in Tests \ {t} : rowBw'[u] = rowBw[u]
        BY <1>4 DEF TakeBytes, TypeOK
  <2> QED  BY <2>1, <2>2, <2>3, <2>4
<1>5. ASSUME NEW t \in Tests, Skip(t) PROVE SumInv'
      BY <1>1, <1>5 DEF Skip
<1>6. ASSUME NEW t \in Tests, Show(t) PROVE SumInv'
  <2>1. proto(t) \in {"TCP", "UDP"}
        BY DEF proto
  <2>2. /\ aggregate'[proto(t)] = aggregate[proto(t)] \cup {t}
        /\ \A p \in {"TCP", "UDP"} \ {proto(t)} : aggregate'[p] = aggregate[p]
        BY <1>6, <2>1 DEF Show, TypeOK, Protocols
  <2>3. t \in shown' \/ (rowBw'[t] = Nothing /\ rowOps'[t] = Nothing)
        BY <1>6 DEF Show, TypeOK
  <2>4. shown' \in {shown, shown \cup {t}}
        BY <1>6 DEF Show
  <2>5. rowBw' = rowBw /\ \A u \in Tests \ {t} : rowOps'[u] = rowOps[u]
        BY <1>6 DEF Show, TypeOK
  <2>6. aggregate["TCP"] \subseteq Tests /\ aggregate["UDP"] \subseteq Tests
        BY DEF TypeOK, Protocols
  <2>7. ASSUME NEW u \in aggregate'["TCP"] \cup aggregate'["UDP"]
        PROVE  u \in shown' \/ (rowBw'[u] = Nothing /\ rowOps'[u] = Nothing)
        BY <2>1, <2>2, <2>3, <2>4, <2>5, <2>6
  <2>8. ASSUME NEW u \in shown' PROVE u \in aggregate'[proto(u)]
    <3>1. proto(u) \in {"TCP", "UDP"}
          BY DEF proto
    <3> QED  BY <2>1, <2>2, <2>4, <3>1
  <2> QED  BY <2>7, <2>8
<1>7. CASE EndWalk
      BY <1>7 DEF EndWalk, Protocols
<1> QED  BY <1>2, <1>3, <1>4, <1>5, <1>6, <1>7 DEF Next, Walks

LEMMA ShownStep ==
  TypeOK /\ ClockInv /\ WalkInv /\ StartsInv /\ ShownInv /\ [Next]_vars => ShownInv'
<1> SUFFICES ASSUME TypeOK, ClockInv, WalkInv, StartsInv, ShownInv, [Next]_vars
             PROVE  ShownInv'
    OBVIOUS
<1>0. seconds \in Int /\ 0 < seconds /\ Zero < -seconds
      BY SecondsBound
<1> USE DEF ShownInv
<1>1. ASSUME UNCHANGED <<walk, length, registered, agreed>> PROVE ShownInv'
      BY <1>1 DEF walk, seconds
<1>2. ASSUME NEW t \in Tests, NewTest(t) \/ DeleteTest(t) PROVE ShownInv'
      BY <1>2 DEF NewTest, DeleteTest, walk
<1>3. ASSUME NEW t \in Tests, AgreeOnStart(t) PROVE ShownInv'
  <2>1. UNCHANGED <<walk, length, since, registered>>
        BY <1>3, OthersLeaveTheWalk DEF AgreeOnStart
  <2>2. \A u \in Tests : agreed'[u] = IF u = t THEN since ELSE agreed[u]
        BY <1>3 DEF AgreeOnStart, TypeOK
  <2>3. seconds' = seconds
        BY <2>1 DEF seconds
  <2>4. walking => since = 0
        BY DEF ClockInv
  <2> QED  BY <1>0, <2>1, <2>2, <2>3, <2>4 DEF walk, TypeOK
<1>4. ASSUME NEW t \in Tests,
             MarkDormant(t) \/ CountConnection(t) \/ CountBytes(t) \/ CountPacket(t)
      PROVE  ShownInv'
  <2>1. UNCHANGED <<walk, length>>
        BY <1>4, OthersLeaveTheWalk
  <2>2. UNCHANGED <<registered, agreed>>
        BY <1>4 DEF MarkDormant, CountConnection, CountBytes, CountPacket, testVars
  <2> QED  BY <1>1, <2>1, <2>2
<1>5. CASE Tick \/ UNCHANGED vars
      BY <1>1, <1>5 DEF Tick, vars, clock, testVars
<1>6. CASE BeginWalk
      BY <1>6 DEF BeginWalk
<1>7. ASSUME NEW t \in Tests, TakeBytes(t) PROVE ShownInv'
  <2>1. UNCHANGED <<length, registered, agreed, shown, rowOps>> /\ walking
        BY <1>7 DEF TakeBytes, clock, testVars, WalkInv
  <2>2. \A u \in Tests \ {t} : rowBw'[u] = rowBw[u]
        BY <1>7 DEF TakeBytes, TypeOK
  <2>3. seconds' = seconds
        BY <2>1 DEF seconds
  <2>4. registered \subseteq Tests
        BY DEF TypeOK
  <2> QED  BY <1>7, <2>1, <2>2, <2>3, <2>4 DEF TakeBytes
<1>8. ASSUME NEW t \in Tests, Skip(t) PROVE ShownInv'
  <2>1. UNCHANGED <<length, registered, agreed, shown, rowBw, rowOps, todo>> /\ walking /\ inHand = {t}
        BY <1>8, OneInHand DEF Skip, clock, testVars, WalkInv
  <2>2. seconds' = seconds
        BY <2>1 DEF seconds
  <2>3. startTime[t] = agreed[t] /\ ~(agreed[t] <= -seconds)
    <3>1. startTime[t] > -seconds /\ startTime[t] \in {agreed[t], Zero}
          BY <1>8 DEF Skip, StartsLater, StartsInv
    <3>2. agreed[t] \in Int
          BY Constants DEF TypeOK, Moments
    <3> QED  BY <1>0, <3>1, <3>2, Constants
  <2> QED  BY <1>8, <2>1, <2>2, <2>3 DEF Skip
<1>9. ASSUME NEW t \in Tests, Show(t) PROVE ShownInv'
  <2>1. UNCHANGED <<length, registered, agreed, rowBw, todo>> /\ walking /\ inHand = {t}
        BY <1>9, OneInHand DEF Show, clock, WalkInv
  <2>2. seconds' = seconds
        BY <2>1 DEF seconds
  <2>3. shown \subseteq shown' /\ (rowBw[t] # Nothing \/ rowOps'[t] # Nothing => t \in shown')
        BY <1>9 DEF Show, TypeOK
  <2>4. \A u \in Tests \ {t} : rowOps'[u] = rowOps[u]
        BY <1>9 DEF Show, TypeOK
  <2>5. registered \subseteq Tests /\ inHand' = {}
        BY <1>9 DEF Show, TypeOK
  <2> QED  BY <2>1, <2>2, <2>3, <2>4, <2>5
<1>10. CASE EndWalk
      BY <1>10 DEF EndWalk
<1> QED  BY <1>2, <1>3, <1>4, <1>5, <1>6, <1>7, <1>8, <1>9, <1>10 DEF Next, Walks

LEMMA InvStep == IInv /\ [Next]_vars => IInv'
BY TypesStep, ClockStep, WalkStep, CountersStep, StartsStep, SumStep, ShownStep DEF IInv

LEMMA InvAlways == Spec => []IInv
BY InvInit, InvStep, PTL DEF Spec

-----------------------------------------------------------------------------
(* The theorems.                                                            *)

\* The statistics never leave their types: an interval is at most Late units too long,
\* the next one ends within a second, and the walk is at one test of the table at a time.
THEOREM TypesAlways == Spec => []TypeOK
<1>1. IInv => TypeOK
      BY DEF IInv
<1> QED  BY <1>1, InvAlways, PTL

\* A row shows nothing that was counted before its interval began: the walk takes every
\* counter of every test, of the skipped ones and of the ones not shown too
\* (serverui.go:411, 428-430).
THEOREM RowsAreOfTheIntervalAlways == Spec => []RowsAreOfTheInterval
<1>1. IInv => RowsAreOfTheInterval
      BY DEF IInv, TypeOK, CountersInv, RowsAreOfTheInterval
<1> QED  BY <1>1, InvAlways, PTL

\* The sum of a protocol is the sum of its rows: a skipped test is in neither, and of the
\* tests not shown only those are in the sum that have zeros to add.
THEOREM SumIsOfRowsAlways == Spec => []SumIsOfRows
<1>1. IInv => SumIsOfRows
      BY DEF IInv, SumInv, SumIsOfRows
<1> QED  BY <1>1, InvAlways, PTL

\* What a test has counted in an interval it was running in, and makes a rate other than
\* 0, is in a row when the walk is over, also if clients agree on new starts and count on
\* during the walk.
THEOREM RunningTestIsShownAlways == Spec => []RunningTestIsShown
<1>1. IInv => RunningTestIsShown
      BY DEF IInv, ShownInv, RunningTestIsShown, Walked
<1> QED  BY <1>1, InvAlways, PTL
=============================================================================
