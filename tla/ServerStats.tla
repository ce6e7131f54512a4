----------------------------- MODULE ServerStats -----------------------------
(***************************************************************************)
(* The statistics of the ethr server: once a second emitStats (stats.go)   *)
(* takes what each test has counted, prints a row for the test, and a sum  *)
(* of the rows of a protocol (serverui.go).  The handlers count meanwhile, *)
(* with atomic additions; the lock of the session table, held for reading, *)
(* keeps tests from being created or deleted during a walk.                *)
(*                                                                         *)
(* Every time is relative to lastStatsTime, in fractions of a second.  A   *)
(* counter is abstracted to the moment its oldest unit was counted at: it  *)
(* is what tells whether a row shows what belongs into it.  The tolerance  *)
(* for late starts, 50ms, is less than a unit of time here.                *)
(***************************************************************************)
EXTENDS Integers, FiniteSetsExt

CONSTANTS
  TCPTests, UDPTests,  \* slots for the <<TCP, All>> and <<UDP, All>> tests of clients
  Second,              \* units of time in a second
  Late,                \* how many units late an interval may end
  Modes                \* values of gOneClient to consider

Tests == TCPTests \cup UDPTests

ASSUME StatsAssumption ==
  /\ IsFiniteSet(Tests) /\ TCPTests \cap UDPTests = {}
  /\ Second \in Nat \ {0} /\ Late \in Nat /\ Late < Second
  /\ Modes \subseteq BOOLEAN

VARIABLES
  gOneClient,    \* single-client mode
  statsEnabled,  \* whether the timer runs
  since,         \* the time since lastStatsTime
  due,           \* when the interval is to end
  length,        \* how long the interval was that the walk is about
  registered,    \* the tests in the session table
  startTime,     \* [test]: ethrTest.startTime, or Zero
  agreed,        \* [test]: when startTime was set last (never reset)
  isDormant,     \* [test]: ethrTest.isDormant
  bw, ops,       \* [test]: its counter of bytes; of connections (TCP) or packets (UDP)
  walking,       \* whether a walk is under way
  todo, inHand,  \* the tests it has not been at; the one it is at
  rowBw, rowOps, \* [test]: what it took, as rates per second
  shown,         \* the tests that got a row
  aggregate      \* [protocol]: the tests that are in the sum

clock    == <<gOneClient, statsEnabled, since, due, length>>
testVars == <<registered, startTime, agreed, isDormant>>
walk     == <<walking, todo, inHand, rowBw, rowOps, shown, aggregate>>
vars     == <<clock, testVars, bw, ops, walk>>

Floor   == -(Second + Late) - 1  \* moments longer ago are not told apart
Nothing == Second + Late + 1     \* a counter at 0: later than any moment
Zero    == Floor - 1             \* the zero time.Time: before any moment

Protocols == {"TCP", "UDP"}
proto(t) == IF t \in TCPTests THEN "TCP" ELSE "UDP"

Moments == Floor .. (Second + Late)

TypeOK ==
  /\ gOneClient \in Modes /\ statsEnabled \in BOOLEAN
  /\ since \in 0 .. (Second + Late) /\ due \in 0 .. Second /\ length \in 0 .. (Second + Late)
  /\ registered \subseteq Tests
  /\ startTime \in [Tests -> Moments \cup {Zero}] /\ agreed \in [Tests -> Moments]
  /\ isDormant \in [Tests -> BOOLEAN]
  /\ {bw, ops, rowBw, rowOps} \subseteq [Tests -> Moments \cup {Nothing}]
  /\ walking \in BOOLEAN /\ todo \subseteq registered /\ inHand \subseteq registered /\ Cardinality(inHand) <= 1
  /\ shown \subseteq Tests /\ aggregate \in [Protocols -> SUBSET Tests]

Init ==
  /\ gOneClient \in Modes
  /\ statsEnabled = ~gOneClient  \* runServer starts the timer in multi-client mode
  /\ since = 0 /\ due = Second /\ length = Second
  /\ registered = {}
  /\ startTime = [t \in Tests |-> Zero] /\ agreed = [t \in Tests |-> 0]
  /\ isDormant = [t \in Tests |-> TRUE]
  /\ bw = [t \in Tests |-> Nothing] /\ ops = [t \in Tests |-> Nothing]
  /\ walking = FALSE /\ todo = {} /\ inHand = {}
  /\ rowBw = [t \in Tests |-> Nothing] /\ rowOps = [t \in Tests |-> Nothing]
  /\ shown = {} /\ aggregate = [p \in Protocols |-> {}]

\* The end of the walk: nothing is left but the sums.
Walked == walking /\ todo = {} /\ inHand = {}

-----------------------------------------------------------------------------
(* The handlers.                                                            *)

\* createOrGetTest of a new test; it waits for a walk to end.
NewTest(t) ==
  /\ ~walking /\ t \notin registered
  /\ registered' = registered \cup {t}
  /\ startTime' = [startTime EXCEPT ![t] = since]
  /\ agreed' = [agreed EXCEPT ![t] = since]
  /\ isDormant' = [isDormant EXCEPT ![t] = TRUE]
  /\ UNCHANGED <<clock, bw, ops, walk>>

\* Faulty variant: the table is not locked.
DeleteUnlocked(t) ==
  /\ t \in registered
  /\ registered' = registered \ {t}
  /\ startTime' = [startTime EXCEPT ![t] = Zero] /\ agreed' = [agreed EXCEPT ![t] = 0]
  /\ isDormant' = [isDormant EXCEPT ![t] = TRUE]
  /\ bw' = [bw EXCEPT ![t] = Nothing] /\ ops' = [ops EXCEPT ![t] = Nothing]
  /\ UNCHANGED <<clock, walk>>

\* safeDeleteTest by the last user; what the test has counted is gone with it.
DeleteTest(t) ==
  /\ ~walking /\ t \in registered
  /\ registered' = registered \ {t}
  /\ startTime' = [startTime EXCEPT ![t] = Zero] /\ agreed' = [agreed EXCEPT ![t] = 0]
  /\ isDormant' = [isDormant EXCEPT ![t] = TRUE]
  /\ bw' = [bw EXCEPT ![t] = Nothing] /\ ops' = [ops EXCEPT ![t] = Nothing]
  /\ UNCHANGED <<clock, walk>>

\* trySyncStartWithClient sets the start of the test, and in single-client mode
\* starts the timer, if it does not run (startStatsTimerAt).
AgreeOnStart(t) ==
  /\ t \in registered \cap TCPTests
  /\ startTime' = [startTime EXCEPT ![t] = since]
  /\ agreed' = [agreed EXCEPT ![t] = since]
  /\ statsEnabled' = TRUE
  /\ UNCHANGED <<gOneClient, since, due, length, registered, isDormant, bw, ops, walk>>

Count(counter, t) == [counter EXCEPT ![t] = Min({@, since})]

\* A TCP handler counts a connection, or bytes it has moved.
CountConnection(t) ==
  /\ t \in registered \cap TCPTests
  /\ ops' = Count(ops, t)
  /\ UNCHANGED <<clock, testVars, bw, walk>>

CountBytes(t) ==
  /\ t \in registered \cap TCPTests
  /\ bw' = Count(bw, t)
  /\ UNCHANGED <<clock, testVars, ops, walk>>

\* A UDP handler counts a packet; its collector finds the test without traffic.
CountPacket(t) ==
  /\ t \in registered \cap UDPTests
  /\ bw' = Count(bw, t) /\ ops' = Count(ops, t)
  /\ isDormant' = [isDormant EXCEPT ![t] = FALSE]
  /\ UNCHANGED <<clock, registered, startTime, agreed, walk>>

MarkDormant(t) ==
  /\ t \in registered \cap UDPTests
  /\ isDormant' = [isDormant EXCEPT ![t] = TRUE]
  /\ UNCHANGED <<clock, registered, startTime, agreed, bw, ops, walk>>

-----------------------------------------------------------------------------
(* The timer and the walk.                                                  *)

\* Time passes, also past the end of the interval, for the timer may be late.
Tick ==
  /\ statsEnabled /\ ~walking /\ since < due + Late
  /\ since' = since + 1
  /\ UNCHANGED <<gOneClient, statsEnabled, due, length, testVars, bw, ops, walk>>

\* A moment, seen from the new lastStatsTime.
Shift(m) == IF m \in {Nothing, Zero} THEN m ELSE Max({m - since, Floor})
ShiftAll(f) == [t \in Tests |-> IF t \in registered THEN Shift(f[t]) ELSE f[t]]

\* The interval is over.  The end of the next one does not depend on when this one
\* was noticed: the ends are absolute times.
BeginWalk ==
  /\ statsEnabled /\ ~walking /\ since >= due
  /\ since' = 0 /\ length' = since
  /\ due' = Second - (since - due)
  /\ startTime' = ShiftAll(startTime) /\ agreed' = ShiftAll(agreed)
  /\ bw' = ShiftAll(bw) /\ ops' = ShiftAll(ops)
  /\ walking' = TRUE /\ todo' = registered
  /\ UNCHANGED <<gOneClient, statsEnabled, registered, isDormant,
                 inHand, rowBw, rowOps, shown, aggregate>>

\* A count is shown as a whole number per second, which is 0 for a count of less than
\* the seconds it is divided by: for a single unit, if the interval was over a second,
\* be it by a nanosecond (serverui.go:414, 441, 449).  Any count may be a single unit.
Rates(count) == IF length >= Second THEN {count, Nothing} ELSE {count}

\* The bytes are taken first, whatever becomes of them.
TakeBytes(t) ==
  /\ t \in todo /\ inHand = {}
  /\ todo' = todo \ {t} /\ inHand' = {t}
  /\ \E rate \in Rates(bw[t]) : rowBw' = [rowBw EXCEPT ![t] = rate]
  /\ bw' = [bw EXCEPT ![t] = Nothing]
  /\ UNCHANGED <<clock, testVars, ops, walking, rowOps, shown, aggregate>>

\* emitStats calculates with no less than a second.
seconds == Max({length, Second})

\* Faulty variants: a start on the boundary is late, and any start is.
StartsNotBefore(t) == startTime[t] >= -seconds
HasStart(t) == startTime[t] # Zero

StartsLater(t) == startTime[t] > -seconds

\* Faulty variants: the other counter is left alone; the bytes are in the sum.
SkipBytesOnly(t) ==
  /\ t \in inHand /\ StartsLater(t)
  /\ inHand' = {}
  /\ UNCHANGED <<clock, testVars, bw, ops, walking, todo, rowBw, rowOps, shown, aggregate>>

SkipRowOnly(t) ==
  /\ t \in inHand /\ StartsLater(t)
  /\ ops' = [ops EXCEPT ![t] = Nothing]
  /\ aggregate' = [aggregate EXCEPT ![proto(t)] = @ \cup {t}]
  /\ inHand' = {}
  /\ UNCHANGED <<clock, testVars, bw, walking, todo, rowBw, rowOps, shown>>

\* The test has started after the interval began: what it counted is dropped.
Skip(t) ==
  /\ t \in inHand /\ StartsLater(t)
  /\ ops' = [ops EXCEPT ![t] = Nothing]
  /\ inHand' = {}
  /\ UNCHANGED <<clock, testVars, bw, walking, todo, rowBw, rowOps, shown, aggregate>>

\* A row, unless the test is dormant and all rates of the row are 0.
Show(t) ==
  /\ t \in inHand /\ ~StartsLater(t)
  /\ startTime' = [startTime EXCEPT ![t] = Zero]
  /\ \E rate \in Rates(ops[t]) :
       /\ rowOps' = [rowOps EXCEPT ![t] = rate]
       /\ shown' = IF isDormant[t] /\ rowBw[t] = Nothing /\ rate = Nothing
                     THEN shown ELSE shown \cup {t}
  /\ ops' = [ops EXCEPT ![t] = Nothing]
  /\ aggregate' = [aggregate EXCEPT ![proto(t)] = @ \cup {t}]
  /\ inHand' = {}
  /\ UNCHANGED <<clock, registered, agreed, isDormant, bw, walking, todo, rowBw>>

\* The walk is over: it prints the sums, of two tests or more, and starts new ones.
EndWalk ==
  /\ Walked
  /\ walking' = FALSE /\ length' = Second
  /\ rowBw' = [t \in Tests |-> Nothing] /\ rowOps' = [t \in Tests |-> Nothing]
  /\ shown' = {} /\ aggregate' = [p \in Protocols |-> {}]
  /\ UNCHANGED <<gOneClient, statsEnabled, since, due, testVars, bw, ops, todo, inHand>>

Walks == BeginWalk \/ EndWalk \/ \E t \in Tests : TakeBytes(t) \/ Skip(t) \/ Show(t)

Next ==
  \/ Tick \/ Walks
  \/ \E t \in Tests :
       \/ NewTest(t) \/ DeleteTest(t) \/ AgreeOnStart(t) \/ MarkDormant(t)
       \/ CountConnection(t) \/ CountBytes(t) \/ CountPacket(t)

\* Time passes, and the timer goroutine runs.
Spec == Init /\ [][Next]_vars /\ WF_vars(Tick) /\ WF_vars(Walks)

-----------------------------------------------------------------------------
(* Properties. *)

\* Nothing is shown in a row that was counted before the interval of the row began:
\* what a row does not show is not left for the next one (serverui.go:411, 428-430).
RowsAreOfTheInterval ==
  \A t \in shown : rowBw[t] >= -length /\ rowOps[t] >= -length

\* The sum of a protocol is the sum of the rows above it: a test that is in the sum has
\* a row, or only zeros to add, and a test with a row is in the sum.
SumIsOfRows ==
  Walked =>
    /\ \A t \in aggregate["TCP"] \cup aggregate["UDP"] :
         t \in shown \/ (rowBw[t] = Nothing /\ rowOps[t] = Nothing)
    /\ \A t \in shown : t \in aggregate[proto(t)]

\* What a test counts in an interval it has run through is not dropped, if it makes a
\* rate other than 0 (serverui.go:411-462): it is in a row when the walk is over.  An interval
\* that is short because the one before was late counts as a second here: a test that
\* started with it is left out.
RunningTestIsShown ==
  Walked =>
    \A t \in registered :
      (rowBw[t] # Nothing \/ rowOps[t] # Nothing) /\ agreed[t] <= -seconds => t \in shown

\* A test that is not started anew gets to be shown: the start of its first interval
\* does not hide all others.
TestComesToBeShown ==
  \A t \in Tests :
    <>[][~AgreeOnStart(t)]_vars =>
      (t \in registered /\ statsEnabled ~> t \notin registered \/ startTime[t] = Zero)
=============================================================================
