-------------------------- MODULE ClientTrafficProofs --------------------------
(***************************************************************************)
(* Proofs about ClientTraffic, for any number of threads, any rate, buffer *)
(* and duration, and any lengths of time that are ordered as assumed.      *)
(*                                                                         *)
(* That every byte is shown once holds whenever the connections are ready; *)
(* that threads keep their rate, and that all rows are printed, needs that *)
(* they are ready within the first interval.                               *)
(***************************************************************************)
EXTENDS ClientTraffic, TLAPS

\* The connections are ready before the first row is due.
PromptSetUp == \A s \in SetUps : s < Second

-----------------------------------------------------------------------------
(* Types.                                                                   *)

\* What a worker may send fits into its budget.
LEMMA WriteFits ==
  ASSUME TypeOK, NEW w \in Threads
  PROVE  bytesToSend(w) \in Nat /\ sentBytes[w] + bytesToSend(w) \in 0 .. BwRate
<1>1. BwRate \in Nat /\ BufferLen \in Nat /\ sentBytes[w] \in 0 .. BwRate
      BY TrafficAssumption DEF TypeOK
<1>2. CASE BwRate - sentBytes[w] < BufferLen
      BY <1>1, <1>2 DEF bytesToSend
<1>3. CASE ~(BwRate - sentBytes[w] < BufferLen)
      BY <1>1, <1>3 DEF bytesToSend
<1> QED  BY <1>2, <1>3

LEMMA TypesInit == Init => TypeOK
<1> SUFFICES ASSUME Init PROVE TypeOK
    OBVIOUS
<1>1. sentBytes \in [Threads -> 0 .. BwRate]
      BY TrafficAssumption DEF Init
<1>2. bw \in [Threads -> Nat] /\ until \in [Threads -> Nat]
      BY DEF Init
<1>3. total \in [Threads -> Nat] /\ shown \in [Threads -> Nat]
      BY DEF Init
<1>4. worker \in [Threads -> {"starting", "asking", "sending", "waiting", "ended"}]
      BY DEF Init
<1>5. connList \in Seq(Threads) /\ next \in 1 .. Len(connList) + 1
      BY DEF Init
<1>6. setUp \in SetUps /\ now \in Nat
  <2>1. setUp \in SetUps /\ now = setUp
        BY DEF Init
  <2> QED  BY <2>1, TrafficAssumption
<1>7. stopped \in BOOLEAN /\ stats \in {"sleep", "emit", "locked", "rows"}
      BY DEF Init
<1>8. interval \in Nat \ {0} /\ lastStats \in Nat /\ readers \in Nat
  <2>1. interval = 1 /\ lastStats = 0 /\ readers = 0
        BY DEF Init
  <2> QED  BY <2>1
<1>9. writer \in Threads \cup {NoWriter}
      BY DEF Init
<1> QED  BY <1>1, <1>2, <1>3, <1>4, <1>5, <1>6, <1>7, <1>8, <1>9 DEF TypeOK

\* The row under way is that of one of the threads.
LEMMA RowIsOfThread ==
  ASSUME TypeOK, Row
  PROVE  \E w \in Threads : /\ bw' = [bw EXCEPT ![w] = 0]
                            /\ shown' = [shown EXCEPT ![w] = @ + bw[w]]
<1>1. connList[next] \in Threads
      BY DEF Row, TypeOK
<1> QED  BY <1>1 DEF Row, SwapCounter

LEMMA TypesStep == TypeOK /\ [Next]_vars => TypeOK'
<1> SUFFICES ASSUME TypeOK, [Next]_vars PROVE TypeOK'
    OBVIOUS
<1> USE TrafficAssumption DEF TypeOK
<1>1. ASSUME NEW w \in Threads, AskLock(w) PROVE TypeOK'
      BY <1>1 DEF AskLock, Lock, printer
<1>2. ASSUME NEW w \in Threads, Register(w) PROVE TypeOK'
  <2>1. connList' \in Seq(Threads) /\ Len(connList') = Len(connList) + 1
        BY <1>2 DEF Register
  <2>2. until' \in [Threads -> Nat]
        BY <1>2 DEF Register, beginThrottle
  <2>3. next' \in 1 .. Len(connList') + 1
        BY <1>2, <2>1 DEF Register, printer
  <2> QED  BY <1>2, <2>1, <2>2, <2>3 DEF Register, Unlock, printer
<1>3. ASSUME NEW w \in Threads, Send(w) PROVE TypeOK'
  <2>1. bytesToSend(w) \in Nat /\ sentBytes[w] + bytesToSend(w) \in 0 .. BwRate
        BY WriteFits
  <2>2. bw' \in [Threads -> Nat]
        BY <1>3, <2>1, SMTT(30) DEF Send
  <2>3. total' \in [Threads -> Nat]
        BY <1>3, <2>1, SMTT(30) DEF Send
  <2>4. sentBytes' \in [Threads -> 0 .. BwRate]
        BY <1>3, <2>1 DEF Send
  <2> QED  BY <1>3, <2>2, <2>3, <2>4 DEF Send, printer, lock
<1>4. ASSUME NEW w \in Threads, NextBudget(w) PROVE TypeOK'
  <2>1. until' \in [Threads -> Nat]
        BY <1>4 DEF NextBudget, beginThrottle
  <2>2. sentBytes' \in [Threads -> 0 .. BwRate]
        BY <1>4 DEF NextBudget
  <2> QED  BY <1>4, <2>1, <2>2 DEF NextBudget, printer, lock
<1>5. ASSUME NEW w \in Threads, Fail(w) PROVE TypeOK'
      BY <1>5 DEF Fail, printer, lock
<1>6. CASE Wake
      BY <1>6 DEF Wake, Unmoved, sender, lock
<1>7. CASE LockSessions
      BY <1>7 DEF LockSessions, RLock, Unmoved, sender
<1>8. CASE LockConnections
      BY <1>8 DEF LockConnections, RLock, Unmoved, sender
<1>9. CASE Row
  <2>1. bw' \in [Threads -> Nat] /\ shown' \in [Threads -> Nat]
    <3>1. PICK w \in Threads : /\ bw' = [bw EXCEPT ![w] = 0]
                               /\ shown' = [shown EXCEPT ![w] = @ + bw[w]]
          BY <1>9, RowIsOfThread
    <3>2. bw' \in [Threads -> Nat]
          BY <3>1
    <3>3. shown' \in [Threads -> Nat]
          BY <3>1, SMTT(30)
    <3> QED  BY <3>2, <3>3
  <2>2. next' \in 1 .. Len(connList) + 1
        BY <1>9 DEF Row
  <2> QED  BY <1>9, <2>1, <2>2 DEF Row, Unmoved, sender, lock
<1>10. CASE RowsDone
      BY <1>10 DEF RowsDone, Unmoved, sender
<1>11. CASE Tick
      BY <1>11 DEF Tick, lock, printer, sender
<1>12. CASE Stop
      BY <1>12 DEF Stop, lock, printer, sender
<1>13. CASE UNCHANGED vars
      BY <1>13 DEF vars, lock, printer, sender
<1> QED
    BY <1>1, <1>2, <1>3, <1>4, <1>5, <1>6, <1>7, <1>8, <1>9, <1>10, <1>11, <1>12, <1>13
       DEF Next, PrintRows

\* Theorem: all variables keep their types; in particular no budget is overdrawn, which
\* the unsigned subtraction of enforceThrottle relies on (utils.go:467).
THEOREM TypeCorrect == Spec => []TypeOK
BY TypesInit, TypesStep, PTL DEF Spec

-----------------------------------------------------------------------------
(* Every byte is shown once.                                                *)

LEMMA ShownInit == Init => ShownOnce
<1> SUFFICES ASSUME Init, NEW w \in Threads PROVE total[w] = shown[w] + bw[w]
    BY DEF ShownOnce
<1>1. total[w] = 0 /\ shown[w] = 0 /\ bw[w] = 0
      BY DEF Init
<1> QED  BY <1>1

\* Only Send counts, in both places, and Row only moves what was counted.
LEMMA ShownStep == TypeOK /\ ShownOnce /\ [Next]_vars => ShownOnce'
<1> SUFFICES ASSUME TypeOK, ShownOnce, [Next]_vars PROVE ShownOnce'
    OBVIOUS
<1>1. ASSUME NEW w \in Threads, Send(w) PROVE ShownOnce'
  <2>1. bytesToSend(w) \in Nat
        BY WriteFits
  <2> QED  BY <1>1, <2>1 DEF Send, ShownOnce, TypeOK
<1>2. CASE Row
  <2>1. PICK w \in Threads : /\ bw' = [bw EXCEPT ![w] = 0]
                             /\ shown' = [shown EXCEPT ![w] = @ + bw[w]]
        BY <1>2, RowIsOfThread
  <2>2. UNCHANGED total
        BY <1>2 DEF Row, Unmoved, sender
  <2> QED  BY <2>1, <2>2 DEF ShownOnce, TypeOK
<1>3. CASE UNCHANGED <<total, shown, bw>>
      BY <1>3 DEF ShownOnce
<1>4. ASSUME NEW w \in Threads, AskLock(w) \/ Register(w) \/ NextBudget(w) \/ Fail(w)
      PROVE  UNCHANGED <<total, shown, bw>>
      BY <1>4 DEF AskLock, Register, NextBudget, Fail
<1>5. Wake \/ LockSessions \/ LockConnections \/ RowsDone => UNCHANGED <<total, shown, bw>>
      BY DEF Wake, LockSessions, LockConnections, RowsDone, Unmoved, sender
<1>6. Tick \/ Stop \/ UNCHANGED vars => UNCHANGED <<total, shown, bw>>
      BY DEF Tick, Stop, vars, sender
<1> QED
    BY <1>1, <1>2, <1>3, <1>4, <1>5, <1>6 DEF Next, PrintRows

\* Theorem: no byte is left out of the rows and none is shown twice, whatever the
\* workers do between the swaps of the counters (clientui.go:128-142).
THEOREM EveryByteShownOnce == Spec => []ShownOnce
<1>1. Init => TypeOK /\ ShownOnce
      BY TypesInit, ShownInit
<1>2. TypeOK /\ ShownOnce /\ [Next]_vars => (TypeOK /\ ShownOnce)'
      BY TypesStep, ShownStep
<1> QED  BY <1>1, <1>2, PTL DEF Spec

-----------------------------------------------------------------------------
(* Arithmetic.                                                              *)

LEMMA TimesMonotone ==
  ASSUME NEW a \in Nat, NEW b \in Nat, NEW c \in Nat, a <= b
  PROVE  a * c <= b * c
<1>1. (b - a) * c >= 0
      OBVIOUS
<1> QED  BY <1>1

LEMMA OneMoreTimes ==
  ASSUME NEW a \in Nat, NEW c \in Nat
  PROVE  (a + 1) * c = a * c + c
OBVIOUS

-----------------------------------------------------------------------------
(* The clock.  While a connection is being registered no time passes, so the *)
(* statistics find no writer: they are never blocked, and never late.        *)

\* The row that is due or printed is not more than Jitter late.
ClockOK ==
  /\ setUp <= now /\ now <= Target + Jitter
  /\ stats # "sleep" => Second <= now

LocksOK ==
  /\ stats = "sleep" => readers = 0
  /\ writer # NoWriter => worker[writer] = "asking"
  /\ \A w \in Threads : worker[w] = "asking" => writer = w
  /\ \A w \in Threads : worker[w] \in {"starting", "asking"} => now = setUp

\* Time only passes when all connections are registered and no row is due.
LEMMA TickFromSleep ==
  ASSUME PromptSetUp, TypeOK, ClockOK, LocksOK, Tick
  PROVE  /\ stats = "sleep" /\ now < Target + Jitter
         /\ \A w \in Threads : worker[w] \notin {"starting", "asking"}
<1>1. ~Busy
      BY DEF Tick
<1>2. now = setUp => stats = "sleep" /\ readers = 0
      BY TrafficAssumption DEF PromptSetUp, TypeOK, ClockOK, LocksOK
<1>3. \A w \in Threads : worker[w] # "asking"
      BY <1>1, <1>2 DEF Busy, LocksOK
<1>4. writer = NoWriter
      BY <1>3 DEF LocksOK, TypeOK
<1>5. \A w \in Threads : worker[w] # "starting"
      BY <1>1, <1>4 DEF Busy
<1>6. stats = "sleep"
      BY <1>1, <1>4 DEF Busy
<1>7. Target \in Nat
      BY TrafficAssumption DEF Target, TypeOK
<1>8. now < Target + Jitter
      BY <1>1, <1>6, <1>7, TrafficAssumption DEF Busy, TypeOK
<1> QED  BY <1>3, <1>5, <1>6, <1>8

LEMMA ClockStep ==
  ASSUME PromptSetUp, TypeOK, ClockOK, LocksOK, [Next]_vars
  PROVE  ClockOK'
<1> USE DEF ClockOK
<1>1. Target \in Nat /\ Second <= Target
  <2>1. 1 * Second <= interval * Second
        BY TimesMonotone, TrafficAssumption DEF TypeOK
  <2> QED  BY <2>1, TrafficAssumption DEF TypeOK, Target
<1>2. CASE UNCHANGED <<now, setUp, stats, interval>>
      BY <1>2 DEF Target
<1>3. CASE Wake
  <2>1. now >= Target /\ UNCHANGED <<now, setUp, interval>>
        BY <1>3 DEF Wake, Unmoved
  <2>2. Second <= now
        BY <1>1, <2>1, TrafficAssumption DEF TypeOK
  <2>3. Target' = Target
        BY <2>1 DEF Target
  <2> QED  BY <2>1, <2>2, <2>3
<1>4. CASE LockSessions \/ LockConnections
      BY <1>4 DEF LockSessions, LockConnections, Unmoved, Target
<1>5. CASE RowsDone
  <2>1. (interval + 1) * Second = Target + Second
    <3>1. interval \in Nat /\ Second \in Nat
          BY TrafficAssumption DEF TypeOK
    <3> QED  BY <3>1, OneMoreTimes DEF Target
  <2>2. /\ now' = now /\ setUp' = setUp /\ interval' = interval + 1 /\ stats' = "sleep"
        BY <1>5 DEF RowsDone, Unmoved
  <2>3. now <= Target + Second + Jitter
    <3>1. now \in Nat /\ Second \in Nat /\ Jitter \in Nat
          BY TrafficAssumption DEF TypeOK
    <3> QED  BY <1>1, <3>1
  <2>4. Target' = Target + Second
        BY <2>1, <2>2 DEF Target
  <2> QED  BY <2>2, <2>3, <2>4
<1>6. CASE Tick
  <2>1. stats = "sleep" /\ now < Target + Jitter
        BY <1>6, TickFromSleep
  <2>2. /\ now' = now + 1 /\ setUp' = setUp /\ interval' = interval /\ stats' = stats
        BY <1>6 DEF Tick, printer
  <2>3. setUp \in Nat /\ now \in Nat /\ Jitter \in Nat
        BY TrafficAssumption DEF TypeOK
  <2>4. Target' = Target
        BY <2>2 DEF Target
  <2> QED  BY <1>1, <2>1, <2>2, <2>3, <2>4
<1>7. Row \/ Stop \/ UNCHANGED vars => UNCHANGED <<now, setUp, stats, interval>>
      BY DEF Row, Stop, Unmoved, printer, vars
<1>8. ASSUME NEW w \in Threads,
             AskLock(w) \/ Register(w) \/ Send(w) \/ NextBudget(w) \/ Fail(w)
      PROVE  UNCHANGED <<now, setUp, stats, interval>>
      BY <1>8 DEF AskLock, Register, Send, NextBudget, Fail, printer
<1> QED  BY <1>2, <1>3, <1>4, <1>5, <1>6, <1>7, <1>8 DEF Next, PrintRows

LEMMA LocksStep ==
  ASSUME PromptSetUp, TypeOK, ClockOK, LocksOK, [Next]_vars
  PROVE  LocksOK'
<1> USE DEF LocksOK
<1>1. ASSUME NEW w \in Threads, AskLock(w) PROVE LocksOK'
  <2>1. /\ worker[w] = "starting" /\ worker' = [worker EXCEPT ![w] = "asking"]
        /\ writer = NoWriter /\ writer' = w /\ UNCHANGED <<now, setUp, stats, readers>>
        BY <1>1 DEF AskLock, Lock, printer
  <2>2. worker'[w] = "asking" /\ \A v \in Threads : v # w => worker'[v] = worker[v]
        BY <2>1 DEF TypeOK
  <2>3. \A v \in Threads : worker[v] # "asking"
        BY <2>1, TrafficAssumption
  <2> QED  BY <2>1, <2>2, <2>3
<1>2. ASSUME NEW w \in Threads, Register(w) PROVE LocksOK'
      BY <1>2, TrafficAssumption DEF Register, Unlock, printer, TypeOK
<1>3. ASSUME NEW w \in Threads, Send(w) PROVE LocksOK'
  <2>1. worker' = [worker EXCEPT ![w] = "sending"] \/ worker' = [worker EXCEPT ![w] = "waiting"]
        BY <1>3 DEF Send
  <2>2. worker[w] = "sending" /\ UNCHANGED <<now, setUp, stats, readers, writer>>
        BY <1>3 DEF Send, printer, lock
  <2> QED  BY <2>1, <2>2 DEF TypeOK
<1>4. ASSUME NEW w \in Threads, NextBudget(w) \/ Fail(w) PROVE LocksOK'
      BY <1>4 DEF NextBudget, Fail, printer, lock, TypeOK
<1>5. CASE Wake
      BY <1>5 DEF Wake, Unmoved, sender, lock
<1>6. CASE LockSessions \/ LockConnections
      BY <1>6 DEF LockSessions, LockConnections, RLock, Unmoved, sender
<1>7. CASE RowsDone
      BY <1>7 DEF RowsDone, Unmoved, sender
<1>8. CASE Tick
  <2>1. \A w \in Threads : worker[w] \notin {"starting", "asking"}
        BY <1>8, TickFromSleep
  <2>2. UNCHANGED <<stats, readers, writer, worker>>
        BY <1>8 DEF Tick, printer, lock, sender
  <2> QED  BY <2>1, <2>2
<1>9. Row \/ Stop \/ UNCHANGED vars => UNCHANGED <<now, setUp, stats, readers, writer, worker>>
      BY DEF Row, Stop, Unmoved, printer, lock, sender, vars
<1>10. CASE UNCHANGED <<now, setUp, stats, readers, writer, worker>>
      BY <1>10
<1> QED
    BY <1>1, <1>2, <1>3, <1>4, <1>5, <1>6, <1>7, <1>8, <1>9, <1>10 DEF Next, PrintRows

-----------------------------------------------------------------------------
(* Budgets.                                                                 *)

\* Intervals that are over and known to be: the last one ended at lastStatsTime.
Ended == IF stats = "sleep" THEN interval - 1 ELSE interval

LastStatsOK == Ended * Second <= lastStats

\* Thread w uses its budget of interval j, or an earlier one, which may be followed
\* when j is over and a margin has passed.
Uses(w, j) ==
  /\ j * Second + Margin <= until[w]
  /\ total[w] <= (j - 1) * BwRate + sentBytes[w]

BudgetOK(w) ==
  IF worker[w] \in {"starting", "asking"} THEN total[w] = 0 /\ sentBytes[w] = 0
  ELSE \E j \in 1 .. interval : Uses(w, j)

LEMMA LastStatsStep ==
  ASSUME TypeOK, LastStatsOK, [Next]_vars
  PROVE  LastStatsOK'
<1> USE DEF LastStatsOK
<1>1. CASE UNCHANGED <<stats, interval, lastStats>>
      BY <1>1 DEF Ended
<1>2. CASE Wake
  <2>1. Ended' = interval /\ lastStats' = now /\ interval * Second <= now
        BY <1>2 DEF Wake, Ended, Target, TypeOK
  <2> QED  BY <2>1
<1>3. CASE LockSessions \/ LockConnections
  <2>1. Ended' = Ended /\ lastStats' = lastStats
        BY <1>3 DEF LockSessions, LockConnections, Ended
  <2> QED  BY <2>1
<1>4. CASE RowsDone
  <2>1. interval' = interval + 1 /\ stats' = "sleep" /\ stats = "rows" /\ lastStats' = lastStats
        BY <1>4 DEF RowsDone
  <2>2. Ended' = Ended
    <3>1. interval \in Nat
          BY DEF TypeOK
    <3> QED  BY <2>1, <3>1 DEF Ended
  <2> QED  BY <2>1, <2>2
<1>5. Row \/ Tick \/ Stop \/ UNCHANGED vars => UNCHANGED <<stats, interval, lastStats>>
      BY DEF Row, Tick, Stop, printer, vars
<1>6. ASSUME NEW w \in Threads,
             AskLock(w) \/ Register(w) \/ Send(w) \/ NextBudget(w) \/ Fail(w)
      PROVE  UNCHANGED <<stats, interval, lastStats>>
      BY <1>6 DEF AskLock, Register, Send, NextBudget, Fail, printer
<1> QED  BY <1>1, <1>2, <1>3, <1>4, <1>5, <1>6 DEF Next, PrintRows

\* A budget that begins now is that of the interval waited for.
LEMMA BudgetBegins ==
  ASSUME TypeOK, LastStatsOK
  PROVE  interval * Second + Margin <= lastStats + Second + Margin
<1>1. Second \in Nat /\ Margin \in Nat /\ lastStats \in Nat /\ interval \in Nat \ {0}
      BY TrafficAssumption DEF TypeOK
<1>2. PICK k \in Nat : interval = k + 1
  <2>1. interval - 1 \in Nat /\ interval = (interval - 1) + 1
        BY <1>1
  <2> QED  BY <2>1
<1>3. interval * Second = k * Second + Second
      BY <1>1, <1>2, OneMoreTimes
<1>4. k * Second <= lastStats
  <2>1. CASE stats = "sleep"
    <3>1. Ended = k
          BY <1>2, <2>1 DEF Ended
    <3> QED  BY <3>1 DEF LastStatsOK
  <2>2. CASE stats # "sleep"
    <3>1. k * Second + Second <= lastStats
          BY <1>3, <2>2 DEF Ended, LastStatsOK
    <3>2. k * Second \in Nat
          BY <1>1
    <3> QED  BY <1>1, <3>1, <3>2
  <2> QED  BY <2>1, <2>2
<1>5. k * Second \in Nat
      BY <1>1
<1> QED  BY <1>1, <1>3, <1>4, <1>5

\* A step that neither registers v, nor sends for it, nor begins a budget of it.
LEMMA BudgetKept ==
  ASSUME TypeOK, NEW v \in Threads, BudgetOK(v),
         until'[v] = until[v], total'[v] = total[v], sentBytes'[v] = sentBytes[v],
         worker'[v] \in {"starting", "asking"} <=> worker[v] \in {"starting", "asking"},
         interval' = interval \/ interval' = interval + 1
  PROVE  BudgetOK(v)'
<1>1. CASE worker[v] \in {"starting", "asking"}
      BY <1>1 DEF BudgetOK
<1>2. CASE worker[v] \notin {"starting", "asking"}
  <2>1. PICK j \in 1 .. interval : Uses(v, j)
        BY <1>2 DEF BudgetOK
  <2>2. j \in 1 .. interval'
        BY DEF TypeOK
  <2>3. Uses(v, j)'
        BY <2>1 DEF Uses
  <2> QED  BY <1>2, <2>2, <2>3 DEF BudgetOK
<1> QED  BY <1>1, <1>2

LEMMA SendKeepsBudget ==
  ASSUME TypeOK, NEW v \in Threads, BudgetOK(v), Send(v)
  PROVE  BudgetOK(v)'
<1> DEFINE n == bytesToSend(v)
<1>1. n \in Nat
      BY WriteFits
<1>2. /\ total'[v] = total[v] + n /\ sentBytes'[v] = sentBytes[v] + n
      /\ until' = until /\ interval' = interval
      BY DEF Send, printer, TypeOK
<1>3. worker[v] \notin {"starting", "asking"} /\ worker'[v] \notin {"starting", "asking"}
      BY DEF Send, TypeOK
<1> HIDE DEF n
<1>4. PICK j \in 1 .. interval : Uses(v, j)
      BY <1>3 DEF BudgetOK
<1>5. (j - 1) * BwRate \in Nat
  <2>1. j - 1 \in Nat /\ BwRate \in Nat
        BY TrafficAssumption DEF TypeOK
  <2> QED  BY <2>1
<1>6. total[v] \in Nat /\ sentBytes[v] \in Nat
      BY TrafficAssumption DEF TypeOK
<1>7. total'[v] <= (j - 1) * BwRate + sentBytes'[v]
      BY <1>1, <1>2, <1>4, <1>5, <1>6 DEF Uses
<1>8. Uses(v, j)'
      BY <1>2, <1>4, <1>7 DEF Uses
<1> QED  BY <1>2, <1>3, <1>8 DEF BudgetOK

\* The first budget.
LEMMA RegisterBeginsBudget ==
  ASSUME TypeOK, LastStatsOK, NEW v \in Threads, BudgetOK(v), Register(v)
  PROVE  BudgetOK(v)'
<1>1. /\ until'[v] = lastStats + Second + Margin
      /\ UNCHANGED <<interval, total, sentBytes>>
      /\ worker[v] = "asking" /\ worker'[v] = "sending"
      BY DEF Register, beginThrottle, printer, TypeOK
<1>2. total[v] = 0 /\ sentBytes[v] = 0
      BY <1>1 DEF BudgetOK
<1>3. interval * Second + Margin <= until'[v]
      BY <1>1, BudgetBegins
<1>4. interval \in 1 .. interval' /\ (interval - 1) * BwRate \in Nat
  <2>1. interval - 1 \in Nat /\ BwRate \in Nat /\ interval \in 1 .. interval
        BY TrafficAssumption DEF TypeOK
  <2> QED  BY <1>1, <2>1
<1>5. total'[v] = 0 /\ sentBytes'[v] = 0 /\ interval' = interval
      BY <1>1, <1>2
<1>6. total'[v] <= (interval' - 1) * BwRate + sentBytes'[v]
      BY <1>4, <1>5
<1>7. interval' * Second + Margin <= until'[v]
      BY <1>3, <1>5
<1> QED  BY <1>1, <1>4, <1>5, <1>6, <1>7 DEF BudgetOK, Uses

\* The next budget: its predecessor belongs to an interval that is over.
LEMMA NextBudgetIsDue ==
  ASSUME TypeOK, ClockOK, LastStatsOK, NEW v \in Threads, BudgetOK(v), NextBudget(v)
  PROVE  BudgetOK(v)'
<1>1. /\ worker[v] = "waiting" /\ worker'[v] = "sending"
      /\ until[v] <= now /\ until'[v] = lastStats + Second + Margin
      /\ sentBytes'[v] = 0 /\ total'[v] = total[v] /\ interval' = interval
      BY DEF NextBudget, beginThrottle, printer, TypeOK
<1>2. PICK j \in 1 .. interval : Uses(v, j)
      BY <1>1 DEF BudgetOK
<1>3. /\ j \in Nat /\ j - 1 \in Nat /\ interval \in Nat /\ interval - 1 \in Nat
      /\ Second \in Nat /\ BwRate \in Nat
      /\ Jitter \in Nat /\ Margin \in Nat /\ Jitter < Margin
      BY TrafficAssumption DEF TypeOK
<1>4. now \in Nat /\ until[v] \in Nat /\ total[v] \in Nat /\ sentBytes[v] \in 0 .. BwRate
      BY DEF TypeOK
<1>5. j < interval
  <2>1. j * Second + Margin <= interval * Second + Jitter
    <3>1. j * Second + Margin <= until[v] /\ now <= interval * Second + Jitter
          BY <1>2 DEF Uses, ClockOK, Target
    <3>2. j * Second \in Nat /\ interval * Second \in Nat
          BY <1>3
    <3> QED  BY <1>1, <1>3, <1>4, <3>1, <3>2
  <2>2. ASSUME interval <= j PROVE FALSE
    <3>1. interval * Second <= j * Second
          BY <1>3, <2>2, TimesMonotone
    <3>2. j * Second \in Nat /\ interval * Second \in Nat
          BY <1>3
    <3> QED  BY <1>3, <2>1, <3>1, <3>2
  <2> QED  BY <1>3, <2>2
<1>6. total[v] <= (interval - 1) * BwRate
  <2>1. total[v] <= (j - 1) * BwRate + sentBytes[v]
        BY <1>2 DEF Uses
  <2>2. ((j - 1) + 1) * BwRate = (j - 1) * BwRate + BwRate
        BY <1>3, OneMoreTimes
  <2>3. (j - 1) + 1 = j /\ j <= interval - 1
        BY <1>3, <1>5
  <2>4. j * BwRate <= (interval - 1) * BwRate
        BY <1>3, <2>3, TimesMonotone
  <2>5. (j - 1) * BwRate \in Nat /\ j * BwRate \in Nat /\ (interval - 1) * BwRate \in Nat
        BY <1>3
  <2>6. total[v] <= j * BwRate
        BY <1>3, <1>4, <2>1, <2>2, <2>3, <2>5
  <2> QED  BY <1>4, <2>4, <2>5, <2>6
<1>7. total'[v] <= (interval' - 1) * BwRate + sentBytes'[v]
  <2>1. (interval - 1) * BwRate \in Nat
        BY <1>3
  <2> QED  BY <1>1, <1>6, <2>1
<1>8. interval' * Second + Margin <= until'[v]
      BY <1>1, BudgetBegins
<1>9. interval' \in 1 .. interval'
      BY <1>1 DEF TypeOK
<1> QED  BY <1>1, <1>7, <1>8, <1>9 DEF BudgetOK, Uses

LEMMA BudgetStep ==
  ASSUME TypeOK, ClockOK, LastStatsOK, NEW v \in Threads, BudgetOK(v), [Next]_vars
  PROVE  BudgetOK(v)'
<1> DEFINE Same == /\ until'[v] = until[v] /\ total'[v] = total[v]
                   /\ sentBytes'[v] = sentBytes[v]
                   /\ (worker'[v] \in {"starting", "asking"} <=>
                         worker[v] \in {"starting", "asking"})
                   /\ (interval' = interval \/ interval' = interval + 1)
<1>1. Same => BudgetOK(v)'
      BY BudgetKept
<1>2. ASSUME NEW w \in Threads, w # v,
             AskLock(w) \/ Register(w) \/ Send(w) \/ NextBudget(w) \/ Fail(w)
      PROVE  Same
  <2>1. /\ worker'[v] = worker[v] /\ interval' = interval
        BY <1>2 DEF AskLock, Register, Send, NextBudget, Fail, printer, TypeOK
  <2>2. until'[v] = until[v]
        BY <1>2 DEF AskLock, Register, Send, NextBudget, Fail, beginThrottle, TypeOK
  <2>3. total'[v] = total[v]
        BY <1>2 DEF AskLock, Register, Send, NextBudget, Fail, TypeOK
  <2>4. sentBytes'[v] = sentBytes[v]
        BY <1>2 DEF AskLock, Register, Send, NextBudget, Fail, TypeOK
  <2> QED  BY <2>1, <2>2, <2>3, <2>4
<1>3. AskLock(v) => Same
      BY DEF AskLock, printer, TypeOK
<1>4. Fail(v) => Same
      BY DEF Fail, printer, TypeOK
<1>5. Register(v) \/ Send(v) \/ NextBudget(v) => BudgetOK(v)'
      BY RegisterBeginsBudget, SendKeepsBudget, NextBudgetIsDue
<1>6. PrintRows => Same
      BY DEF PrintRows, Wake, LockSessions, LockConnections, Row, RowsDone, Unmoved, sender
<1>7. Tick \/ Stop \/ UNCHANGED vars => Same
      BY DEF Tick, Stop, sender, printer, vars
<1> HIDE DEF Same
<1> QED  BY <1>1, <1>2, <1>3, <1>4, <1>5, <1>6, <1>7 DEF Next

-----------------------------------------------------------------------------

Inv ==
  /\ TypeOK /\ ClockOK /\ LocksOK /\ LastStatsOK
  /\ \A w \in Threads : BudgetOK(w)

LEMMA InvInit == ASSUME PromptSetUp PROVE Init => Inv
<1> SUFFICES ASSUME Init PROVE Inv
    OBVIOUS
<1>1. TypeOK
      BY TypesInit
<1>2. /\ setUp \in SetUps /\ now = setUp /\ interval = 1 /\ lastStats = 0
      /\ stats = "sleep" /\ readers = 0 /\ writer = NoWriter
      BY DEF Init
<1>3. \A w \in Threads : worker[w] = "starting" /\ total[w] = 0 /\ sentBytes[w] = 0
      BY DEF Init
<1>4. setUp \in Nat /\ setUp < Second /\ Second \in Nat /\ Jitter \in Nat
      BY <1>2, TrafficAssumption DEF PromptSetUp
<1>5. ClockOK
      BY <1>2, <1>4 DEF ClockOK, Target
<1>6. LocksOK
      BY <1>2, <1>3 DEF LocksOK
<1>7. LastStatsOK
      BY <1>2, <1>4 DEF LastStatsOK, Ended
<1>8. \A w \in Threads : BudgetOK(w)
      BY <1>3 DEF BudgetOK
<1> QED  BY <1>1, <1>5, <1>6, <1>7, <1>8 DEF Inv

LEMMA InvStep == ASSUME PromptSetUp PROVE Inv /\ [Next]_vars => Inv'
<1> SUFFICES ASSUME Inv, [Next]_vars PROVE Inv'
    OBVIOUS
<1>1. TypeOK'
      BY TypesStep DEF Inv
<1>2. ClockOK' /\ LocksOK' /\ LastStatsOK'
      BY ClockStep, LocksStep, LastStatsStep DEF Inv
<1>3. \A w \in Threads : BudgetOK(w)'
      BY BudgetStep DEF Inv
<1> QED  BY <1>1, <1>2, <1>3 DEF Inv

\* Who has sent all of this interval's budget is at its rate and not above it.
LEMMA InvImpliesRate == Inv => RateKept
<1> SUFFICES ASSUME Inv, NEW w \in Threads PROVE total[w] <= BwRate * interval
    BY DEF RateKept
<1>1. /\ interval \in Nat \ {0} /\ BwRate \in Nat
      /\ total[w] \in Nat /\ sentBytes[w] \in 0 .. BwRate
      BY TrafficAssumption DEF Inv, TypeOK
<1>2. CASE worker[w] \in {"starting", "asking"}
      BY <1>1, <1>2 DEF Inv, BudgetOK
<1>3. CASE worker[w] \notin {"starting", "asking"}
  <2>1. PICK j \in 1 .. interval : Uses(w, j)
        BY <1>3 DEF Inv, BudgetOK
  <2>2. j \in Nat /\ j - 1 \in Nat /\ j <= interval /\ (j - 1) + 1 = j
        BY <1>1
  <2>3. total[w] <= (j - 1) * BwRate + sentBytes[w]
        BY <2>1 DEF Uses
  <2>4. j * BwRate = (j - 1) * BwRate + BwRate
    <3>1. ((j - 1) + 1) * BwRate = (j - 1) * BwRate + BwRate
          BY <1>1, <2>2, OneMoreTimes
    <3> QED  BY <2>2, <3>1
  <2>5. j * BwRate <= interval * BwRate
        BY <1>1, <2>2, TimesMonotone
  <2>6. (j - 1) * BwRate \in Nat /\ j * BwRate \in Nat /\ interval * BwRate \in Nat
        BY <1>1, <2>2
  <2>7. total[w] <= interval * BwRate
        BY <1>1, <2>3, <2>4, <2>5, <2>6
  <2>8. interval * BwRate = BwRate * interval
        BY <1>1
  <2> QED  BY <2>7, <2>8
<1> QED  BY <1>2, <1>3

\* Theorem: no thread is ahead of its rate, if the connections are ready within the
\* first interval (utils.go:448-486).
THEOREM ThrottleCorrect == ASSUME PromptSetUp PROVE Spec => []RateKept
<1>1. Init => Inv
      BY InvInit
<1>2. Inv /\ [Next]_vars => Inv'
      BY InvStep
<1>3. Inv => RateKept
      BY InvImpliesRate
<1> QED  BY <1>1, <1>2, <1>3, PTL DEF Spec

-----------------------------------------------------------------------------
(* All rows are printed.                                                    *)

\* When the duration timer fires, the last row is not more than Jitter late, and the
\* timer has waited for Grace.
LEMMA StopAfterLastRow ==
  ASSUME Inv, Stop
  PROVE  interval > Duration
<1>1. /\ setUp \in Nat /\ now \in Nat /\ interval \in Nat /\ Second \in Nat /\ Duration \in Nat
      /\ Jitter \in Nat /\ Grace \in Nat /\ Jitter < Grace
      BY TrafficAssumption DEF Inv, TypeOK
<1>2. now = setUp + Duration * Second + Grace /\ now <= interval * Second + Jitter
      BY DEF Stop, StopTime, Inv, ClockOK, Target
<1>3. interval * Second \in Nat /\ Duration * Second \in Nat
      BY <1>1
<1>4. Duration * Second < interval * Second
      BY <1>1, <1>2, <1>3
<1>5. ASSUME interval <= Duration PROVE FALSE
  <2>1. interval * Second <= Duration * Second
        BY <1>1, <1>5, TimesMonotone
  <2> QED  BY <1>3, <1>4, <2>1
<1> QED  BY <1>1, <1>5

LEMMA StatsPrintedStep ==
  ASSUME Inv, StatsPrinted, [Next]_vars
  PROVE  StatsPrinted'
<1> USE DEF StatsPrinted
<1>1. CASE Stop
      BY <1>1, StopAfterLastRow DEF Stop, printer
<1>2. CASE UNCHANGED vars
      BY <1>2 DEF vars, printer
<1>3. CASE PrintRows \/ Tick
      BY <1>3 DEF PrintRows, Wake, LockSessions, LockConnections, Row, RowsDone, Unmoved, Tick
<1>4. ASSUME NEW w \in Threads,
             AskLock(w) \/ Register(w) \/ Send(w) \/ NextBudget(w) \/ Fail(w)
      PROVE  StatsPrinted'
      BY <1>4 DEF AskLock, Register, Send, NextBudget, Fail
<1> QED  BY <1>1, <1>2, <1>3, <1>4 DEF Next

\* Theorem: a test that ends by its duration has printed all its rows, if the connections
\* are ready within the first interval; RecursiveLock.cfg shows why that is needed
\* (client.go:61-69, stats.go:181-188, session.go:299-323).
THEOREM AllRowsPrinted == ASSUME PromptSetUp PROVE Spec => []StatsPrinted
<1>1. Init => Inv /\ StatsPrinted
      BY InvInit DEF Init, StatsPrinted
<1>2. Inv /\ StatsPrinted /\ [Next]_vars => (Inv /\ StatsPrinted)'
      BY InvStep, StatsPrintedStep
<1> QED  BY <1>1, <1>2, PTL DEF Spec
=============================================================================
