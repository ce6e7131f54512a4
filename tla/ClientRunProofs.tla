---------------------------- MODULE ClientRunProofs ----------------------------
(***************************************************************************)
(* Proofs about ClientRun, for any number of threads, any durations, gaps  *)
(* and times that operations take, and any capacity of toStop.             *)
(*                                                                         *)
(* That a reason has its cause holds without any condition.  The summary   *)
(* and the rows depend on times: the conditions are stated where they are  *)
(* used.                                                                   *)
(***************************************************************************)
EXTENDS ClientRun, FiniteSetTheorems, WellFoundedInduction, TLAPS

\* No round trip of a ping test, and no gap between two, takes the time the test is
\* given to print its statistics.
PromptPings == Gap < Drain /\ \A d \in Ops : d < Drain

\* The threads are connected before the first row is almost due: what is left of the
\* first second is more than the grace of the duration timer.
PromptSetUp == \A s \in SetUps : s + Grace < Second

\* No duration has more rows than are counted.
RowsAreCounted == \A d \in Durations : d <= Second * MaxRows

-----------------------------------------------------------------------------
(* The inductive invariants.                                                *)

\* What was put on the channel, taken or not.
Told == {toStop[i] : i \in DOMAIN toStop} \cup {reason}

MainInv ==
  /\ main \in {"setup", "hung"} =>
       /\ toStop = <<>> /\ armed = {} /\ rows = 0
       /\ signal = "default" /\ watcher = "off" /\ \A w \in Threads : worker[w] = "none"
  /\ main \in {"setup", "hung", "wait"} => reason = "none" /\ ~isDone
  /\ main = "drain" => kind = "ping" /\ isDone
  /\ signal = "default" => main \in {"setup", "hung", "exited"}

\* A reason is put on the channel only by those who have it.
ReasonsInv ==
  /\ watcher = "on" => kind = "bandwidth"
  /\ kind = "bandwidth" => \A w \in Threads : worker[w] \in {"none", "working", "stuck", "ended"}
  /\ "interrupt" \in Told => signal = "ignored" \/ GaveUp
  /\ "done" \in Told => kind = "traceroute"
  /\ "disconnect" \in Told =>
       IF kind = "bandwidth" THEN \A w \in Threads : worker[w] \in {"none", "ended"}
       ELSE kind = "latency" /\ \E w \in Threads : worker[w] \in {"lost", "ended"}

\* While a ping test drains, its thread has printed the summary, or is to look at
\* test.done before the time is up.
DrainInv ==
  kind = "ping" =>
    /\ main = "wait" =>
         \/ worker[Control] = "working"
         \/ worker[Control] = "busy" /\ Control \in armed /\ left[Control] \in 0 .. Drain - 1
    /\ main = "drain" => /\ "drain" \in armed
                         /\ \/ summary
                            \/ worker[Control] = "working" /\ left["drain"] > 0
                            \/ /\ worker[Control] = "busy" /\ Control \in armed
                               /\ left[Control] >= 0 /\ left[Control] < left["drain"]
    /\ main = "exited" /\ reason # "killed" => summary

\* What the row to come and the end of the duration are apart does not change: the rows
\* come at the seconds from startTime, and the end after them by more than nothing, and
\* by less than a second and the grace.
RowsInv ==
  /\ kind \notin WithRows => rows = 0
  /\ main = "wait" /\ "duration" \in armed =>
       /\ "stats" \in armed
       /\ left["duration"] >= 0 /\ left["stats"] \in 0 .. Second
       /\ kind \in WithRows =>
            duration + left["stats"] - left["duration"] - Second * rows \in 1 .. Second - Grace
  /\ main = "wait" /\ "timeout" \in Told /\ duration % Second = 0 /\ kind \in WithRows =>
       rows = duration \div Second /\ ("stats" \in armed => left["stats"] > 0)
  /\ reason = "timeout" =>
       /\ duration % Second = 0 /\ kind \in WithRows => rows = duration \div Second
       /\ "stats" \notin armed

Inv == TypeOK /\ MainInv /\ ReasonsInv

-----------------------------------------------------------------------------
(* The least of some numbers.                                               *)

\* A set of natural numbers has a least element, which is its Min.
LEMMA MinOfNats ==
  ASSUME NEW S, S \subseteq Nat, S # {}
  PROVE  Min(S) \in S /\ \A y \in S : Min(S) <= y
<1> DEFINE less == OpToRel(<, Nat)
<1>1. IsWellFoundedOn(less, Nat)
      BY NatLessThanWellFounded
<1>2. \A x \in Nat, y \in Nat : <<y, x>> \in less <=> y < x
      BY DEF OpToRel
<1> HIDE DEF less
<1>3. PICK x \in S : \A y \in S : ~(<<y, x>> \in less)
      BY <1>1, WFMin
<1>4. ASSUME NEW y \in S PROVE x <= y
  <2>1. x \in Nat /\ y \in Nat /\ ~(<<y, x>> \in less)
        BY <1>3
  <2>2. ~(y < x)
        BY <1>2, <2>1
  <2> QED  BY <2>1, <2>2
<1> QED  BY <1>4 DEF Min

LEMMA MinOfTwo ==
  ASSUME NEW a \in Nat, NEW b \in Nat
  PROVE  Min({a, b}) = IF a <= b THEN a ELSE b
<1>1. Min({a, b}) \in {a, b} /\ \A y \in {a, b} : Min({a, b}) <= y
      BY MinOfNats
<1>2. Min({a, b}) <= a /\ Min({a, b}) <= b
      BY <1>1
<1> QED  BY <1>1, <1>2

LEMMA MaxOfTwo ==
  ASSUME NEW a \in Nat, NEW b \in Nat
  PROVE  Max({a, b}) \in {a, b} /\ Max({a, b}) >= a /\ Max({a, b}) >= b
<1>1. \E x \in {a, b} : \A y \in {a, b} : x >= y
      OBVIOUS
<1> QED  BY <1>1 DEF Max

-----------------------------------------------------------------------------
(* Timers.                                                                  *)

\* The threads have timers of their own, and Control is one of them.
LEMMA TimersDiffer ==
  /\ Control \in Threads
  /\ {"stats", "duration", "drain"} \subseteq Timers /\ Threads \subseteq Timers
  /\ \A w \in Threads : w \notin {"stats", "duration", "drain"}
BY ClientAssumption DEF Control, Timers

\* Arming one timer.
LEMMA TimingOne ==
  ASSUME NEW x \in Timers, NEW t \in Int, NEW off, TypeOK, Timing([k \in {x} |-> t], off)
  PROVE  /\ armed' = (armed \ off) \cup {x}
         /\ left' = [k \in Timers |-> IF k = x THEN t ELSE IF k \in off THEN 0 ELSE left[k]]
         /\ armed' \subseteq Timers /\ left' \in [Timers -> Int]
<1>1. /\ armed' = (armed \ off) \cup {x}
      /\ left' = [k \in Timers |-> IF k = x THEN t ELSE IF k \in off THEN 0 ELSE left[k]]
      BY DEF Timing
<1> QED  BY <1>1 DEF TypeOK

\* Disarming some.
LEMMA TimingNone ==
  ASSUME NEW off, TypeOK, Timing(<<>>, off)
  PROVE  /\ armed' = armed \ off
         /\ left' = [k \in Timers |-> IF k \in off THEN 0 ELSE left[k]]
         /\ armed' \subseteq Timers /\ left' \in [Timers -> Int]
<1>1. DOMAIN <<>> = {}
      OBVIOUS
<1>2. /\ armed' = armed \ off
      /\ left' = [k \in Timers |-> IF k \in off THEN 0 ELSE left[k]]
      BY <1>1 DEF Timing
<1> QED  BY <1>2 DEF TypeOK

\* The timers a test starts with: one for the rows, and one for the duration, if it is a
\* second or more.
LEMMA TimingStart ==
  ASSUME NEW elapsed \in Int, TypeOK, Timing(Both(statsTimer(elapsed), durationTimer), {})
  PROVE  /\ armed' = armed \cup {"stats"} \cup (IF duration < Second THEN {} ELSE {"duration"})
         /\ left' \in [Timers -> Int] /\ armed' \subseteq Timers
         /\ left'["stats"] = Second - elapsed
         /\ duration >= Second => left'["duration"] = duration + Grace
         /\ \A k \in Timers \ {"stats", "duration"} : left'[k] = left[k]
<1> DEFINE new == Both(statsTimer(elapsed), durationTimer)
<1>0. duration \in Int
      BY ClientAssumption DEF TypeOK
<1>1. DOMAIN <<>> = {}
      OBVIOUS
<1>2. CASE duration < Second
  <2>1. durationTimer = <<>>
        BY <1>2 DEF durationTimer
  <2>2. DOMAIN new = {"stats"} /\ new["stats"] = Second - elapsed
        BY <1>1, <2>1 DEF Both, statsTimer
  <2> HIDE DEF new
  <2>3. armed' = armed \cup {"stats"}
        BY <2>2 DEF Timing, new
  <2>4. left' = [k \in Timers |-> IF k = "stats" THEN Second - elapsed ELSE left[k]]
        BY <2>2 DEF Timing, new
  <2> QED  BY <1>0, <1>2, <2>3, <2>4 DEF TypeOK, Timers, Second
<1>3. CASE ~(duration < Second)
  <2>1. durationTimer = [x \in {"duration"} |-> duration + Grace]
        BY <1>3 DEF durationTimer
  <2>2. DOMAIN new = {"stats", "duration"}
        BY <2>1 DEF Both, statsTimer
  <2>3. new["stats"] = Second - elapsed /\ new["duration"] = duration + Grace
        BY <2>1 DEF Both, statsTimer
  <2> HIDE DEF new
  <2>4. armed' = armed \cup {"stats", "duration"}
        BY <2>2 DEF Timing, new
  <2>5. left' = [k \in Timers |-> IF k = "stats" THEN Second - elapsed
                                  ELSE IF k = "duration" THEN duration + Grace ELSE left[k]]
        BY <2>2, <2>3 DEF Timing, new
  <2> QED  BY <1>0, <1>3, <2>4, <2>5 DEF TypeOK, Timers, Second, Grace
<1> QED  BY <1>2, <1>3

\* Time passes until the first timer is over, and no further.
LEMMA TickStep ==
  ASSUME TypeOK, Tick
  PROVE  \E d \in Nat : /\ left' = [x \in Timers |-> IF x \in armed THEN left[x] - d ELSE 0]
                        /\ \A x \in armed : left[x] > 0 /\ d <= left[x]
<1> DEFINE S == {left[x] : x \in armed}
<1>1. S \subseteq Nat /\ S # {}
      BY DEF TypeOK, Tick
<1>2. Min(S) \in S /\ \A y \in S : Min(S) <= y
      BY <1>1, MinOfNats
<1>3. Min(S) \in Nat /\ \A x \in armed : left[x] > 0 /\ Min(S) <= left[x]
      BY <1>1, <1>2 DEF Tick
<1>4. left' = [x \in Timers |-> IF x \in armed THEN left[x] - Min(S) ELSE 0]
      BY DEF Tick
<1> QED  BY <1>3, <1>4

-----------------------------------------------------------------------------
(* Types.                                                                   *)

\* A reason put on the channel, and one taken from it.
LEMMA ToldBySend ==
  ASSUME TypeOK, NEW r \in {"timeout", "interrupt", "disconnect", "done"}, Send(r)
  PROVE  /\ toStop' \in Seq({"timeout", "interrupt", "disconnect", "done"}) /\ Len(toStop') <= StopCap
         /\ toStop' # <<>>
         /\ reason' = reason => Told' = Told \cup {r}
<1>1. /\ toStop' = Append(toStop, r) /\ toStop \in Seq({"timeout", "interrupt", "disconnect", "done"})
      /\ Len(toStop) < StopCap
      BY DEF Send, TypeOK
<1>2. /\ Len(toStop') = Len(toStop) + 1 /\ toStop'[Len(toStop) + 1] = r
      /\ \A i \in DOMAIN toStop : toStop'[i] = toStop[i]
      /\ DOMAIN toStop = 1 .. Len(toStop) /\ DOMAIN toStop' = 1 .. Len(toStop) + 1
      BY <1>1
<1>3. {toStop'[i] : i \in DOMAIN toStop'} = {toStop[i] : i \in DOMAIN toStop} \cup {r}
  <2>1. ASSUME NEW i \in DOMAIN toStop'
        PROVE  toStop'[i] \in {toStop[j] : j \in DOMAIN toStop} \cup {r}
        BY <1>2, <2>1
  <2>2. ASSUME NEW i \in DOMAIN toStop PROVE \E j \in DOMAIN toStop' : toStop'[j] = toStop[i]
        BY <1>2, <2>2
  <2>3. \E j \in DOMAIN toStop' : toStop'[j] = r
        BY <1>1, <1>2
  <2> QED  BY <2>1, <2>2, <2>3
<1> QED  BY <1>1, <1>2, <1>3, ClientAssumption DEF Told

LEMMA ToldByStop ==
  ASSUME TypeOK, Stop
  PROVE  /\ toStop' \in Seq({"timeout", "interrupt", "disconnect", "done"}) /\ Len(toStop') <= StopCap
         /\ reason' \in {"timeout", "interrupt", "disconnect", "done"}
         /\ Told' \subseteq Told /\ reason' \in Told
<1>1. /\ reason' = Head(toStop) /\ toStop' = Tail(toStop) /\ toStop # <<>>
      /\ toStop \in Seq({"timeout", "interrupt", "disconnect", "done"}) /\ Len(toStop) <= StopCap
      BY DEF Stop, TypeOK
<1>2. /\ reason' = toStop[1] /\ 1 \in DOMAIN toStop /\ Len(toStop') = Len(toStop) - 1
      /\ toStop' \in Seq({"timeout", "interrupt", "disconnect", "done"})
      BY <1>1
<1>3. \A i \in DOMAIN toStop' : i + 1 \in DOMAIN toStop /\ toStop'[i] = toStop[i + 1]
      BY <1>1
<1>4. reason' \in Told /\ \A i \in DOMAIN toStop' : toStop'[i] \in Told
      BY <1>2, <1>3 DEF Told
<1>5. reason' \in {"timeout", "interrupt", "disconnect", "done"}
      BY <1>1, <1>2
<1>6. Len(toStop') <= StopCap
      BY <1>1, <1>2, ClientAssumption
<1> QED  BY <1>2, <1>4, <1>5, <1>6 DEF Told

LEMMA TypesInit == Init => TypeOK
<1> SUFFICES ASSUME Init PROVE TypeOK
    OBVIOUS
<1>1. toStop \in Seq({"timeout", "interrupt", "disconnect", "done"}) /\ Len(toStop) <= StopCap
  <2>1. toStop = <<>>
        BY DEF Init
  <2>2. Len(toStop) = 0 /\ toStop \in Seq({"timeout", "interrupt", "disconnect", "done"})
        BY <2>1
  <2> QED  BY <2>2, ClientAssumption
<1>2. left \in [Timers -> Int] /\ rows \in 0 .. MaxRows
      BY ClientAssumption DEF Init
<1>3. worker \in [Threads -> {"none", "dialing", "working", "busy", "stuck", "lost", "ended"}]
      BY DEF Init
<1> QED  BY <1>1, <1>2, <1>3 DEF Init, TypeOK

\* A worker that goes on disturbs no type, if the channel and the timers keep theirs.
LEMMA TypesOfGoes ==
  ASSUME TypeOK, NEW w \in Threads,
         NEW place \in {"none", "dialing", "working", "busy", "stuck", "lost", "failed", "ended"},
         Goes(w, place),
         toStop' \in Seq({"timeout", "interrupt", "disconnect", "done"}), Len(toStop') <= StopCap,
         armed' \subseteq Timers, left' \in [Timers -> Int], summary' \in BOOLEAN
  PROVE  TypeOK'
<1>1. worker' \in [Threads -> {"none", "dialing", "working", "busy", "stuck",
                                "lost", "failed", "ended"}]
      BY DEF Goes, TypeOK
<1>2. UNCHANGED <<kind, duration, main, reason, signal, watcher, isDone, rows>>
      BY DEF Goes, config
<1> QED  BY <1>1, <1>2 DEF TypeOK

LEMMA TypesStep == TypeOK /\ [Next]_vars => TypeOK'
<1> SUFFICES ASSUME TypeOK, [Next]_vars PROVE TypeOK'
    OBVIOUS
<1> USE TimersDiffer
<1>0. UNCHANGED config => kind' \in Kinds /\ duration' \in Durations
      BY DEF config, TypeOK
<1>00. UNCHANGED timers => armed' \subseteq Timers /\ left' \in [Timers -> Int]
      BY DEF timers, TypeOK
<1>000. Second \in Int /\ Grace \in Int /\ Drain \in Int
      BY DEF Second, Grace, Drain
<1>1. CASE StartTest
  <2>1. armed' \subseteq Timers /\ left' \in [Timers -> Int]
        BY <1>1, TimingStart DEF StartTest
  <2> QED  BY <1>0, <1>1, <2>1 DEF StartTest, TypeOK
<1>2. CASE ControlFails
      BY <1>0, <1>00, <1>2, ToldBySend DEF ControlFails, TypeOK
<1>3. CASE ConnectThreads
  <2>1. PICK s \in SetUps : Timing(Both(statsTimer(s), durationTimer), {})
        BY <1>3 DEF ConnectThreads
  <2>2. armed' \subseteq Timers /\ left' \in [Timers -> Int]
        BY <2>1, TimingStart, ClientAssumption
  <2> QED  BY <1>0, <1>3, <2>2 DEF ConnectThreads, TypeOK
<1>4. CASE Stop
  <2>1. armed' \subseteq Timers /\ left' \in [Timers -> Int]
    <3>1. CASE kind = "ping"
          BY <1>000, <1>4, <3>1, TimingOne DEF Stop
    <3>2. CASE kind # "ping"
          BY <1>4, <3>2, TimingNone DEF Stop
    <3> QED  BY <3>1, <3>2
  <2> QED  BY <1>0, <1>4, <2>1, ToldByStop DEF Stop, TypeOK
<1>5. CASE DrainOver
      BY <1>0, <1>5, TimingNone DEF DrainOver, TypeOK
<1>6. CASE TimerFires
      BY <1>0, <1>6, TimingNone, ToldBySend DEF TimerFires, TypeOK
<1>7. CASE Interrupt
      BY <1>0, <1>00, <1>7, ToldBySend DEF Interrupt, TypeOK
<1>8. CASE ConnectionsOver
      BY <1>0, <1>00, <1>8, ToldBySend DEF ConnectionsOver, TypeOK
<1>9. CASE EmitRow
  <2>1. Timing([x \in {"stats"} |-> left["stats"] + Second], {}) /\ left["stats"] + Second \in Int
        BY <1>000, <1>9 DEF EmitRow, TypeOK
  <2>2. armed' \subseteq Timers /\ left' \in [Timers -> Int]
        BY <2>1, TimingOne
  <2>3. rows' \in 0 .. MaxRows
    <3>1. rows \in Nat /\ rows + 1 \in Nat /\ MaxRows \in Nat /\ rows <= MaxRows
          BY ClientAssumption DEF TypeOK
    <3>2. rows' \in {IF rows + 1 <= MaxRows THEN rows + 1 ELSE MaxRows, rows}
          BY <1>9, <3>1, MinOfTwo DEF EmitRow
    <3> QED  BY <3>1, <3>2
  <2> QED  BY <1>0, <1>9, <2>2, <2>3 DEF EmitRow, TypeOK
<1>10. CASE Tick
  <2>1. PICK d \in Nat : left' = [x \in Timers |-> IF x \in armed THEN left[x] - d ELSE 0]
        BY <1>10, TickStep
  <2>2. left' \in [Timers -> Int]
        BY <2>1 DEF TypeOK
  <2> QED  BY <1>0, <1>10, <2>2 DEF Tick, TypeOK
<1>11. ASSUME NEW w \in Threads, Dials(w) PROVE TypeOK'
      BY <1>0, <1>00, <1>11, ZenonT(60) DEF Dials, Goes, TypeOK
<1>12. ASSUME NEW w \in Threads, SeesDone(w) PROVE TypeOK'
      BY <1>0, <1>00, <1>12 DEF SeesDone, Goes, TypeOK
<1>13. ASSUME NEW w \in Threads, Measures(w) PROVE TypeOK'
  <2>1. PICK d \in Ops : Timing([x \in {w} |-> Max({d, Gap})], {})
        BY <1>13 DEF Measures
  <2>2. Max({d, Gap}) \in Int
        BY MaxOfTwo, ClientAssumption
  <2>3. armed' \subseteq Timers /\ left' \in [Timers -> Int]
        BY <2>1, <2>2, TimingOne
  <2> QED  BY <1>0, <1>13, <2>3 DEF Measures, Goes, TypeOK
<1>14. ASSUME NEW w \in Threads, MeasureOver(w) PROVE TypeOK'
  <2>1. armed' \subseteq Timers /\ left' \in [Timers -> Int]
        BY <1>14, TimingNone DEF MeasureOver
  <2>2. Goes(w, "working") /\ UNCHANGED <<toStop, summary>>
        BY <1>14 DEF MeasureOver
  <2>3. toStop' \in Seq({"timeout", "interrupt", "disconnect", "done"}) /\ Len(toStop') <= StopCap
        BY <2>2 DEF TypeOK
  <2>4. summary' \in BOOLEAN
        BY <2>2 DEF TypeOK
  <2> QED  BY <2>1, <2>2, <2>3, <2>4, TypesOfGoes
<1>15. ASSUME NEW w \in Threads, LosesConnection(w) PROVE TypeOK'
  <2>1. /\ Goes(w, "ended") \/ Goes(w, "lost")
        /\ UNCHANGED toStop \/ Send("disconnect")
        /\ UNCHANGED <<summary, timers>>
        BY <1>15 DEF LosesConnection
  <2>2. toStop' \in Seq({"timeout", "interrupt", "disconnect", "done"}) /\ Len(toStop') <= StopCap
    <3>1. CASE UNCHANGED toStop
          BY <3>1 DEF TypeOK
    <3>2. CASE Send("disconnect")
          BY <3>2, ToldBySend
    <3> QED  BY <2>1, <3>1, <3>2
  <2>3. armed' \subseteq Timers /\ left' \in [Timers -> Int] /\ summary' \in BOOLEAN
        BY <1>00, <2>1 DEF TypeOK
  <2> QED  BY <2>1, <2>2, <2>3, TypesOfGoes
<1>16. ASSUME NEW w \in Threads, Blocks(w) PROVE TypeOK'
      BY <1>0, <1>00, <1>16 DEF Blocks, Goes, TypeOK
<1>17. CASE UNCHANGED vars
      BY <1>0, <1>00, <1>17 DEF vars, TypeOK
<1>18. CASE SetUpHangs
      BY <1>0, <1>00, <1>18 DEF SetUpHangs, TypeOK
<1>19. ASSUME NEW w \in Threads, TraceOver(w) PROVE TypeOK'
  <2>1. /\ Goes(w, "failed") \/ Goes(w, "ended") \/ Goes(w, "busy")
        /\ Send("interrupt") \/ Send("done") \/ UNCHANGED toStop
        /\ UNCHANGED <<summary, timers>>
        BY <1>19 DEF TraceOver
  <2>2. toStop' \in Seq({"timeout", "interrupt", "disconnect", "done"}) /\ Len(toStop') <= StopCap
    <3>1. CASE UNCHANGED toStop
          BY <3>1 DEF TypeOK
    <3>2. CASE Send("interrupt") \/ Send("done")
          BY <3>2, ToldBySend
    <3> QED  BY <2>1, <3>1, <3>2
  <2>3. armed' \subseteq Timers /\ left' \in [Timers -> Int] /\ summary' \in BOOLEAN
        BY <1>00, <2>1 DEF TypeOK
  <2> QED  BY <2>1, <2>2, <2>3, TypesOfGoes
<1> QED  BY <1>1, <1>2, <1>3, <1>4, <1>5, <1>6, <1>7, <1>8, <1>9, <1>10, <1>11, <1>12, <1>13,
            <1>14, <1>15, <1>16, <1>17, <1>18, <1>19 DEF Next, Main, Works

-----------------------------------------------------------------------------
(* The reasons.                                                             *)

\* The steps of the threads leave the main goroutine, its signal handler, the watcher and
\* the rows alone, and change but one thread.
LEMMA ThreadSteps ==
  ASSUME TypeOK, NEW w \in Threads, Works(w) \/ LosesConnection(w) \/ Blocks(w)
  PROVE  /\ UNCHANGED <<config, main, reason, signal, watcher, isDone, rows>>
         /\ main # "exited"
         /\ worker[w] \in {"dialing", "working", "busy", "lost"}
         /\ \A k \in Threads \ {w} : worker'[k] = worker[k]
         /\ worker'[w] \in {"working", "busy", "stuck", "lost", "failed", "ended"}
<1> USE DEF TypeOK, Goes
<1>1. CASE Dials(w)
      BY <1>1 DEF Dials
<1>2. CASE SeesDone(w)
      BY <1>2 DEF SeesDone
<1>3. CASE Measures(w)
      BY <1>3 DEF Measures
<1>4. CASE MeasureOver(w)
      BY <1>4 DEF MeasureOver
<1>5. CASE LosesConnection(w)
      BY <1>5 DEF LosesConnection
<1>6. CASE Blocks(w)
      BY <1>6 DEF Blocks
<1>7. CASE TraceOver(w)
      BY <1>7 DEF TraceOver
<1> QED  BY <1>1, <1>2, <1>3, <1>4, <1>5, <1>6, <1>7 DEF Works

\* Only a latency test and a trace route put something on the channel in such a step.
LEMMA ThreadTells ==
  ASSUME TypeOK, NEW w \in Threads, Works(w) \/ LosesConnection(w) \/ Blocks(w)
  PROVE  \/ Told' = Told
         \/ /\ kind = "latency" /\ worker'[w] = "lost"
            /\ Told' = Told \cup {"disconnect"}
         \/ /\ kind \in Traces /\ worker'[w] = "failed"
            /\ Told' = Told \cup {"interrupt"}
         \/ kind = "traceroute" /\ Told' = Told \cup {"done"}
<1>1. CASE LosesConnection(w) /\ kind = "latency"
  <2>1. Send("disconnect") /\ worker' = [worker EXCEPT ![w] = "lost"] /\ reason' = reason
        BY <1>1 DEF LosesConnection, Goes
  <2> QED  BY <1>1, <2>1, ToldBySend DEF TypeOK
<1>2. CASE LosesConnection(w) /\ kind # "latency"
      BY <1>2 DEF LosesConnection, Goes, Told
<1>3. CASE Dials(w) \/ SeesDone(w) \/ Measures(w) \/ MeasureOver(w) \/ Blocks(w)
      BY <1>3 DEF Dials, SeesDone, Measures, MeasureOver, Blocks, Goes, Told
<1>4. CASE TraceOver(w)
  <2>0. reason' = reason /\ worker \in [Threads -> {"none", "dialing", "working", "busy", "stuck",
                                                    "lost", "failed", "ended"}]
        BY <1>4 DEF TraceOver, Goes, TypeOK
  <2>1. CASE Goes(w, "failed") /\ Send("interrupt")
        BY <1>4, <2>0, <2>1, ToldBySend DEF TraceOver, Goes
  <2>2. CASE kind = "traceroute" /\ Send("done")
        BY <2>0, <2>2, ToldBySend
  <2>3. CASE UNCHANGED toStop
        BY <2>0, <2>3 DEF Told
  <2> QED  BY <1>4, <2>1, <2>2, <2>3 DEF TraceOver
<1> QED  BY <1>1, <1>2, <1>3, <1>4 DEF Works

\* The test and its duration stay what they are.
LEMMA ConfigKept ==
  ASSUME TypeOK, [Next]_vars
  PROVE  UNCHANGED config
<1>1. CASE Main
      BY <1>1 DEF Main, StartTest, ControlFails, ConnectThreads, Stop, DrainOver
<1>2. CASE \/ SetUpHangs \/ TimerFires \/ Interrupt \/ ConnectionsOver
           \/ EmitRow \/ Tick \/ UNCHANGED vars
      BY <1>2 DEF SetUpHangs, TimerFires, Interrupt, ConnectionsOver, EmitRow, Tick, vars
<1>3. ASSUME NEW w \in Threads, Works(w) \/ LosesConnection(w) \/ Blocks(w)
      PROVE  UNCHANGED config
      BY <1>3, ThreadSteps
<1> QED  BY <1>1, <1>2, <1>3 DEF Next

LEMMA MainStep == TypeOK /\ MainInv /\ [Next]_vars => MainInv'
<1> SUFFICES ASSUME TypeOK, MainInv, [Next]_vars PROVE MainInv'
    OBVIOUS
<1> USE DEF MainInv, config
<1>1. CASE StartTest \/ ConnectThreads
      BY <1>1 DEF StartTest, ConnectThreads
<1>2. CASE ControlFails
      BY <1>2 DEF ControlFails
<1>3. CASE Stop
      BY <1>3 DEF Stop, TypeOK
<1>4. CASE DrainOver
      BY <1>4 DEF DrainOver
<1>5. CASE TimerFires
      BY <1>5 DEF TimerFires, Over
<1>6. CASE Interrupt
      BY <1>6 DEF Interrupt, timers
<1>7. CASE ConnectionsOver
      BY <1>7 DEF ConnectionsOver, timers
<1>8. CASE EmitRow
      BY <1>8 DEF EmitRow, Over
<1>9. CASE Tick
      BY <1>9 DEF Tick
<1>10. ASSUME NEW w \in Threads, Works(w) \/ LosesConnection(w) \/ Blocks(w) PROVE MainInv'
  <2>1. main \notin {"setup", "hung"}
        BY <1>10, ThreadSteps
  <2> QED  BY <1>10, <2>1, ThreadSteps
<1>11. CASE UNCHANGED vars
      BY <1>11 DEF vars, timers
<1>12. CASE SetUpHangs
      BY <1>12 DEF SetUpHangs, timers
<1> QED  BY <1>1, <1>2, <1>3, <1>4, <1>5, <1>6, <1>7, <1>8, <1>9, <1>10, <1>11, <1>12
         DEF Next, Main

LEMMA ReasonsStep == TypeOK /\ MainInv /\ ReasonsInv /\ [Next]_vars => ReasonsInv'
<1> SUFFICES ASSUME TypeOK, MainInv, ReasonsInv, [Next]_vars PROVE ReasonsInv'
    OBVIOUS
<1> USE DEF ReasonsInv, GaveUp, config
<1>1. CASE StartTest
  <2>1. toStop = <<>> /\ reason = "none" /\ Told' = Told /\ watcher' = "off"
        BY <1>1 DEF StartTest, MainInv, Told
  <2>2. Told = {"none"}
        BY <2>1 DEF Told
  <2> QED  BY <1>1, <2>1, <2>2 DEF StartTest
<1>2. CASE ControlFails
  <2>1. toStop = <<>> /\ reason = "none" /\ \A w \in Threads : worker[w] = "none"
        BY <1>2 DEF ControlFails, MainInv
  <2>2. Told = {"none"}
        BY <2>1 DEF Told
  <2>3. Told' = {"none", "disconnect"}
        BY <1>2, <2>2, ToldBySend DEF ControlFails
  <2> QED  BY <1>2, <2>1, <2>3 DEF ControlFails
<1>3. CASE ConnectThreads
  <2>1. toStop = <<>> /\ reason = "none" /\ Told' = Told /\ kind = "bandwidth"
        BY <1>3 DEF ConnectThreads, MainInv, Told
  <2>2. Told = {"none"}
        BY <2>1 DEF Told
  <2> QED  BY <1>3, <2>1, <2>2 DEF ConnectThreads
<1>4. CASE Stop
  <2>1. Told' \subseteq Told /\ UNCHANGED <<kind, signal, watcher, worker>>
        BY <1>4, ToldByStop DEF Stop
  <2> QED  BY <2>1
<1>5. CASE SetUpHangs \/ DrainOver \/ EmitRow \/ Tick \/ UNCHANGED vars
  <2>1. Told' = Told /\ UNCHANGED <<kind, signal, watcher, worker>>
        BY <1>5 DEF SetUpHangs, DrainOver, EmitRow, Tick, vars, Told
  <2> QED  BY <2>1
<1>6. CASE TimerFires
  <2>1. Told' = Told \cup {"timeout"} /\ UNCHANGED <<kind, signal, watcher, worker>>
        BY <1>6, ToldBySend DEF TimerFires
  <2> QED  BY <2>1
<1>7. CASE Interrupt
  <2>1. UNCHANGED <<kind, watcher, worker>>
        BY <1>7 DEF Interrupt
  <2>2. CASE signal = "default" /\ main' = "exited" /\ reason' = "killed" /\ UNCHANGED <<toStop, signal>>
    <3>1. Told' \subseteq Told \cup {"killed"}
          BY <2>2 DEF Told
    <3> QED  BY <2>1, <2>2, <3>1
  <2>3. CASE Send("interrupt") /\ signal' = "ignored" /\ UNCHANGED <<main, reason>>
    <3>1. Told' = Told \cup {"interrupt"}
          BY <2>3, ToldBySend
    <3> QED  BY <2>1, <2>3, <3>1
  <2> QED  BY <1>7, <2>2, <2>3 DEF Interrupt
<1>8. CASE ConnectionsOver
  <2>1. Told' = Told \cup {"disconnect"} /\ UNCHANGED <<kind, signal, worker>>
        BY <1>8, ToldBySend DEF ConnectionsOver
  <2>2. watcher = "on" /\ watcher' = "ended" /\ \A w \in Threads : worker[w] \in {"none", "ended"}
        BY <1>8 DEF ConnectionsOver
  <2> QED  BY <2>1, <2>2
<1>9. ASSUME NEW w \in Threads, Works(w) \/ LosesConnection(w) \/ Blocks(w) PROVE ReasonsInv'
  <2>1. /\ UNCHANGED <<kind, watcher, signal>>
        /\ worker[w] \in {"dialing", "working", "busy", "lost"}
        /\ \A k \in Threads \ {w} : worker'[k] = worker[k]
        BY <1>9, ThreadSteps
  <2>2. kind = "bandwidth" => worker'[w] \in {"none", "working", "stuck", "ended"}
    <3>1. SUFFICES ASSUME kind = "bandwidth"
                   PROVE  worker'[w] \in {"none", "working", "stuck", "ended"}
          OBVIOUS
    <3>2. worker[w] = "working"
          BY <2>1, <3>1
    <3> QED  BY <1>9, <3>1, <3>2 DEF Works, Dials, SeesDone, Measures, MeasureOver,
                                     TraceOver, Traces, LosesConnection, Blocks, Goes, TypeOK
  <2>3. worker[w] = "lost" => worker'[w] \in {"lost", "ended"}
    <3>1. SUFFICES ASSUME worker[w] = "lost" PROVE worker'[w] \in {"lost", "ended"}
          OBVIOUS
    <3> QED  BY <1>9, <3>1 DEF Works, Dials, SeesDone, Measures, MeasureOver, TraceOver,
                               LosesConnection, Blocks, Goes, TypeOK
  <2>4. \/ Told' = Told
        \/ kind = "latency" /\ worker'[w] = "lost" /\ Told' = Told \cup {"disconnect"}
        \/ kind \in Traces /\ worker'[w] = "failed" /\ Told' = Told \cup {"interrupt"}
        \/ kind = "traceroute" /\ Told' = Told \cup {"done"}
        BY <1>9, ThreadTells
  <2>5. kind = "bandwidth" /\ "disconnect" \in Told' => FALSE
        BY <2>1, <2>4 DEF Traces
  <2>6. kind # "bandwidth" /\ "disconnect" \in Told' =>
          kind = "latency" /\ \E k \in Threads : worker'[k] \in {"lost", "ended"}
    <3>1. CASE "disconnect" \in Told
          BY <2>1, <2>3, <3>1
    <3>2. CASE kind = "latency" /\ worker'[w] = "lost"
          BY <3>2
    <3> QED  BY <2>4, <3>1, <3>2
  <2>7. "interrupt" \in Told' => signal' = "ignored" \/ GaveUp'
    <3>1. CASE "interrupt" \in Told
          BY <2>1, <3>1
    <3>2. CASE kind \in Traces /\ worker'[w] = "failed"
          BY <2>1, <3>2
    <3> QED  BY <2>4, <3>1, <3>2
  <2>8. "done" \in Told' => kind' = "traceroute"
        BY <2>1, <2>4
  <2> QED  BY <2>1, <2>2, <2>5, <2>6, <2>7, <2>8
<1> QED  BY <1>1, <1>2, <1>3, <1>4, <1>5, <1>6, <1>7, <1>8, <1>9 DEF Next, Main

LEMMA InvInit == Init => Inv
<1> SUFFICES ASSUME Init PROVE Inv
    OBVIOUS
<1>1. TypeOK
      BY TypesInit
<1>2. MainInv
      BY DEF Init, MainInv
<1>3. Told = {"none"}
      BY DEF Init, Told
<1>4. ReasonsInv
      BY <1>3 DEF Init, ReasonsInv
<1> QED  BY <1>1, <1>2, <1>4 DEF Inv

LEMMA InvStep == Inv /\ [Next]_vars => Inv'
BY TypesStep, MainStep, ReasonsStep DEF Inv

LEMMA InvAlways == Spec => []Inv
BY InvInit, InvStep, PTL DEF Spec

-----------------------------------------------------------------------------
(* The summary of a ping test.                                              *)

\* A step of a thread of a ping test before it ends.
LEMMA PingSteps ==
  ASSUME PromptPings, TypeOK, kind = "ping", NEW w \in Threads,
         Works(w) \/ LosesConnection(w) \/ Blocks(w)
  PROVE  /\ \A x \in Timers \ {w} : left'[x] = left[x] /\ (x \in armed => x \in armed')
         /\ (summary => summary')
         /\ \/ worker[w] = "dialing"
            \/ /\ worker[w] = "working" /\ ~isDone
               /\ worker'[w] = "busy" /\ w \in armed' /\ left'[w] \in 0 .. Drain - 1
            \/ worker[w] = "busy" /\ worker'[w] = "working" /\ left[w] <= 0
            \/ worker[w] \in {"working", "lost"} /\ isDone /\ summary'
<1> USE DEF Goes, TypeOK
<1>0. w \in Timers
      BY TimersDiffer
<1>1. CASE Dials(w)
      BY <1>1 DEF Dials, timers
<1>2. CASE SeesDone(w)
      BY <1>2 DEF SeesDone, timers
<1>3. CASE Measures(w)
  <2>1. PICK d \in Ops : Timing([x \in {w} |-> Max({d, Gap})], {})
        BY <1>3 DEF Measures
  <2>2. Max({d, Gap}) \in 0 .. Drain - 1
    <3>1. d \in Nat /\ Gap \in Nat /\ d < Drain /\ Gap < Drain
          BY ClientAssumption DEF PromptPings
    <3>2. Max({d, Gap}) \in {d, Gap}
          BY <3>1, MaxOfTwo
    <3>3. d \in 0 .. Drain - 1 /\ Gap \in 0 .. Drain - 1
          BY <3>1 DEF Drain
    <3> QED  BY <3>2, <3>3
  <2>3. /\ armed' = armed \cup {w}
        /\ left' = [k \in Timers |-> IF k = w THEN Max({d, Gap}) ELSE left[k]]
        BY <1>0, <2>1, <2>2 DEF Timing
  <2> QED  BY <1>0, <1>3, <2>2, <2>3 DEF Measures
<1>4. CASE MeasureOver(w)
  <2>1. /\ armed' = armed \ {w}
        /\ left' = [k \in Timers |-> IF k \in {w} THEN 0 ELSE left[k]]
        BY <1>4, TimingNone DEF MeasureOver
  <2> QED  BY <1>0, <1>4, <2>1 DEF MeasureOver, Over
<1>5. CASE LosesConnection(w) \/ Blocks(w) \/ TraceOver(w)
      BY <1>5 DEF LosesConnection, Blocks, TraceOver, Traces
<1> QED  BY <1>1, <1>2, <1>3, <1>4, <1>5 DEF Works

LEMMA DrainStep ==
  ASSUME PromptPings, TypeOK, MainInv, DrainInv, [Next]_vars
  PROVE  DrainInv'
<1> SUFFICES ASSUME kind = "ping" PROVE DrainInv'
  <2>1. UNCHANGED config
        BY ConfigKept
  <2> QED  BY <2>1 DEF DrainInv, config
<1> USE TimersDiffer DEF DrainInv
<1>0. left \in [Timers -> Int] /\ Drain = 20
      BY DEF TypeOK, Drain
<1>1. CASE StartTest
  <2>1. worker'[Control] = "working" /\ main' = "wait"
        BY <1>1 DEF StartTest, Used, Control
  <2> QED  BY <2>1
<1>2. CASE ControlFails \/ ConnectThreads \/ SetUpHangs
      BY <1>2 DEF ControlFails, ConnectThreads, SetUpHangs
<1>3. CASE Stop
  <2>1. Timing([x \in {"drain"} |-> Drain], {"stats"}) /\ main' = "drain" /\ worker' = worker
        BY <1>3 DEF Stop
  <2>2. /\ armed' = (armed \ {"stats"}) \cup {"drain"}
        /\ left' = [k \in Timers |-> IF k = "drain" THEN Drain
                                     ELSE IF k \in {"stats"} THEN 0 ELSE left[k]]
        BY <2>1 DEF Timing
  <2>3. left'["drain"] = 20 /\ left'[Control] = left[Control] /\ "drain" \in armed'
        BY <1>0, <2>2
  <2>4. \/ worker[Control] = "working"
        \/ worker[Control] = "busy" /\ Control \in armed' /\ left[Control] \in 0 .. 19
        BY <1>0, <1>3, <2>2 DEF Stop
  <2> QED  BY <2>1, <2>3, <2>4
<1>4. CASE DrainOver
  <2>1. main = "drain" /\ left["drain"] <= 0 /\ left["drain"] \in Int /\ left[Control] \in Int
        BY <1>0, <1>4 DEF DrainOver, Over
  <2>2. summary
        BY <2>1
  <2> QED  BY <1>4, <2>2 DEF DrainOver
<1>5. CASE TimerFires
  <2>1. /\ armed' = armed \ {"duration"}
        /\ left' = [k \in Timers |-> IF k \in {"duration"} THEN 0 ELSE left[k]]
        BY <1>5, TimingNone DEF TimerFires
  <2>2. \A k \in {"drain", Control} : left'[k] = left[k] /\ (k \in armed => k \in armed')
        BY <2>1
  <2> QED  BY <1>5, <2>2 DEF TimerFires
<1>6. CASE Interrupt
      BY <1>6 DEF Interrupt, timers
<1>7. CASE ConnectionsOver
      BY <1>7 DEF ConnectionsOver, timers
<1>8. CASE EmitRow
  <2>1. Timing([x \in {"stats"} |-> left["stats"] + Second], {}) /\ left["stats"] + Second \in Int
        BY <1>0, <1>8 DEF EmitRow, Second
  <2>2. /\ armed' = (armed \ {}) \cup {"stats"}
        /\ left' = [k \in Timers |-> IF k = "stats" THEN left["stats"] + Second
                                     ELSE IF k \in {} THEN 0 ELSE left[k]]
        BY <2>1 DEF Timing
  <2>3. \A k \in {"drain", Control} : left'[k] = left[k] /\ (k \in armed => k \in armed')
        BY <2>2
  <2> QED  BY <1>8, <2>3 DEF EmitRow
<1>9. CASE Tick
  <2>1. PICK d \in Nat : /\ left' = [x \in Timers |-> IF x \in armed THEN left[x] - d ELSE 0]
                         /\ \A x \in armed : left[x] > 0 /\ d <= left[x]
        BY <1>9, TickStep
  <2>2. worker[Control] # "working" /\ UNCHANGED <<kind, main, reason, worker, summary, armed>>
        BY <1>9 DEF Tick, config
  <2>3. \A x \in armed : left'[x] = left[x] - d
        BY <2>1 DEF TypeOK
  <2>4. left[Control] \in Int /\ left["drain"] \in Int
        BY <1>0
  <2> QED  BY <1>0, <2>1, <2>2, <2>3, <2>4
<1>10. ASSUME NEW w \in Threads, Works(w) \/ LosesConnection(w) \/ Blocks(w) PROVE DrainInv'
  <2>1. /\ UNCHANGED <<kind, main, reason, isDone>>
        /\ main # "exited"
        /\ \A k \in Threads \ {w} : worker'[k] = worker[k]
        BY <1>10, ThreadSteps DEF config
  <2>2. main \notin {"setup", "hung"}
        BY <1>10, ThreadSteps DEF MainInv
  <2>3. /\ \A x \in Timers \ {w} : left'[x] = left[x] /\ (x \in armed => x \in armed')
        /\ (summary => summary')
        /\ \/ worker[w] = "dialing"
           \/ /\ worker[w] = "working" /\ ~isDone
              /\ worker'[w] = "busy" /\ w \in armed' /\ left'[w] \in 0 .. Drain - 1
           \/ worker[w] = "busy" /\ worker'[w] = "working" /\ left[w] <= 0
           \/ worker[w] \in {"working", "lost"} /\ isDone /\ summary'
        BY <1>10, PingSteps
  <2>4. CASE w # Control
        BY <2>1, <2>3, <2>4
  <2>5. CASE w = Control
    <3>1. CASE main = "wait"
      <4>1. ~isDone /\ worker[w] \in {"working", "busy"}
            BY <2>5, <3>1 DEF MainInv
      <4> QED  BY <2>1, <2>3, <2>5, <3>1, <4>1
    <3>2. CASE main = "drain"
      <4>1. isDone /\ "drain" \in armed' /\ left'["drain"] = left["drain"]
            BY <2>3, <3>2 DEF MainInv
      <4>2. CASE summary'
            BY <2>1, <3>2, <4>1, <4>2
      <4>3. CASE ~summary'
        <5>1. worker[w] = "busy" /\ worker'[w] = "working" /\ left[w] <= 0
              BY <2>3, <2>5, <3>2, <4>1, <4>3
        <5>2. left["drain"] > 0
          <6>1. left[Control] < left["drain"] /\ left[Control] >= 0
                BY <2>3, <2>5, <3>2, <4>3, <5>1
          <6>2. left[Control] \in Int /\ left["drain"] \in Int
                BY <1>0
          <6> QED  BY <6>1, <6>2
        <5> QED  BY <2>1, <2>5, <3>2, <4>1, <5>1, <5>2
      <4> QED  BY <4>2, <4>3
    <3> QED  BY <2>1, <2>2, <3>1, <3>2 DEF TypeOK
  <2> QED  BY <2>4, <2>5
<1>11. CASE UNCHANGED vars
      BY <1>11 DEF vars, config, timers
<1> QED  BY <1>1, <1>2, <1>3, <1>4, <1>5, <1>6, <1>7, <1>8, <1>9, <1>10, <1>11 DEF Next, Main

LEMMA DrainInit == Init => DrainInv
BY DEF Init, DrainInv

LEMMA DrainAlways == ASSUME PromptPings PROVE Spec => []DrainInv
<1>1. TypeOK /\ MainInv /\ DrainInv /\ [Next]_vars => DrainInv'
      BY DrainStep
<1> QED  BY <1>1, DrainInit, InvAlways, PTL DEF Spec, Inv

-----------------------------------------------------------------------------
(* The rows of a test.                                                      *)

\* The steps of a thread leave the timers of the others alone.
LEMMA ThreadTimers ==
  ASSUME TypeOK, NEW w \in Threads, Works(w) \/ LosesConnection(w) \/ Blocks(w)
  PROVE  \A x \in Timers \ {w} : left'[x] = left[x] /\ (x \in armed <=> x \in armed')
<1> USE DEF TypeOK
<1>0. w \in Timers
      BY TimersDiffer
<1>1. CASE Measures(w)
  <2>1. PICK d \in Ops : Timing([x \in {w} |-> Max({d, Gap})], {})
        BY <1>1 DEF Measures
  <2>2. /\ armed' = armed \cup {w}
        /\ left' = [k \in Timers |-> IF k = w THEN Max({d, Gap}) ELSE left[k]]
        BY <1>0, <2>1 DEF Timing
  <2> QED  BY <2>2
<1>2. CASE MeasureOver(w)
  <2>1. /\ armed' = armed \ {w}
        /\ left' = [k \in Timers |-> IF k \in {w} THEN 0 ELSE left[k]]
        BY <1>2, TimingNone DEF MeasureOver
  <2> QED  BY <2>1
<1>3. CASE Dials(w) \/ SeesDone(w) \/ TraceOver(w) \/ LosesConnection(w) \/ Blocks(w)
      BY <1>3 DEF Dials, SeesDone, TraceOver, LosesConnection, Blocks, timers
<1> QED  BY <1>1, <1>2, <1>3 DEF Works

\* When the duration is over, the last row is printed, and the next is not due.
LEMMA RowsAtTheEnd ==
  ASSUME NEW d \in Int, NEW s \in 0 .. Second, NEW r \in Int,
         d + s - 0 - Second * r \in 1 .. Second - Grace, d % Second = 0
  PROVE  r = d \div Second /\ s > 0
BY DEF Second, Grace

LEMMA RowsStep ==
  ASSUME PromptSetUp, RowsAreCounted, TypeOK, MainInv, RowsInv, [Next]_vars
  PROVE  RowsInv'
<1> USE DEF RowsInv
<1>0. /\ left \in [Timers -> Int] /\ rows \in Nat /\ duration \in Nat
      /\ {"stats", "duration", "drain"} \subseteq Timers /\ duration' = duration /\ kind' = kind
      BY TimersDiffer, ClientAssumption, ConfigKept DEF TypeOK, config
<1>1. CASE StartTest \/ ConnectThreads
  <2>1. PICK s \in Nat : /\ s + Grace < Second
                         /\ Timing(Both(statsTimer(s), durationTimer), {})
    <3>1. CASE StartTest
          BY <3>1 DEF StartTest, Second, Grace
    <3>2. CASE ConnectThreads
          BY <3>2, ClientAssumption DEF ConnectThreads, PromptSetUp
    <3> QED  BY <1>1, <3>1, <3>2
  <2>2. Told' = {"none"} /\ reason' = "none" /\ rows' = 0 /\ armed = {}
        BY <1>1 DEF StartTest, ConnectThreads, MainInv, Told
  <2>3. /\ armed' = armed \cup {"stats"} \cup (IF duration < Second THEN {} ELSE {"duration"})
        /\ left'["stats"] = Second - s
        /\ duration >= Second => left'["duration"] = duration + Grace
        BY <2>1, TimingStart
  <2>4. "duration" \in armed' =>
          /\ "stats" \in armed' /\ left'["duration"] >= 0 /\ left'["stats"] \in 0 .. Second
          /\ duration + left'["stats"] - left'["duration"] - Second * rows'
               \in 1 .. Second - Grace
        BY <1>0, <2>1, <2>2, <2>3 DEF Second, Grace
  <2> QED  BY <1>0, <2>2, <2>4
<1>2. CASE ControlFails
  <2>1. armed' = {} /\ reason' = "none" /\ Told = {"none"} /\ rows' = rows
        BY <1>2 DEF ControlFails, MainInv, timers, Told
  <2>2. Told' = {"none", "disconnect"}
        BY <1>2, <2>1, ToldBySend DEF ControlFails
  <2> QED  BY <1>0, <2>1, <2>2
<1>3. CASE Stop
  <2>1. main = "wait" /\ main' # "wait" /\ rows' = rows
        BY <1>3 DEF Stop
  <2>2. "stats" \notin armed'
    <3>1. CASE kind = "ping"
      <4>1. Timing([x \in {"drain"} |-> Drain], {"stats"})
            BY <1>3, <3>1 DEF Stop
      <4> QED  BY <4>1 DEF Timing
    <3>2. CASE kind # "ping"
          BY <1>3, <3>2, TimingNone DEF Stop
    <3> QED  BY <3>1, <3>2
  <2>3. reason' \in Told
        BY <1>3, ToldByStop
  <2> QED  BY <1>0, <2>1, <2>2, <2>3
<1>4. CASE DrainOver
  <2>1. main' = "exited" /\ reason' = reason /\ rows' = rows /\ armed' \subseteq armed
        BY <1>4, TimingNone DEF DrainOver
  <2> QED  BY <1>0, <2>1
<1>5. CASE TimerFires
  <2>1. /\ armed' = armed \ {"duration"}
        /\ left' = [k \in Timers |-> IF k \in {"duration"} THEN 0 ELSE left[k]]
        /\ main' = main /\ reason' = reason /\ rows' = rows
        /\ "duration" \in armed /\ left["duration"] <= 0
        BY <1>5, TimingNone DEF TimerFires, Over
  <2>2. left'["stats"] = left["stats"]
        BY <1>0, <2>1
  <2>3. main = "wait" /\ duration % Second = 0 /\ kind \in WithRows =>
          rows = duration \div Second /\ left["stats"] > 0
    <3>1. SUFFICES ASSUME main = "wait", duration % Second = 0, kind \in WithRows
                   PROVE  rows = duration \div Second /\ left["stats"] > 0
          OBVIOUS
    <3>2. /\ left["duration"] = 0 /\ left["stats"] \in 0 .. Second
          /\ duration + left["stats"] - 0 - Second * rows \in 1 .. Second - Grace
          BY <1>0, <2>1, <3>1
    <3> QED  BY <1>0, <3>1, <3>2, RowsAtTheEnd
  <2> QED  BY <1>0, <2>1, <2>2, <2>3
<1>6. CASE Interrupt
  <2>1. rows' = rows /\ armed' = armed /\ left' = left
        BY <1>6 DEF Interrupt, timers
  <2>2. CASE main' = "exited" /\ reason' = "killed"
        BY <1>0, <2>1, <2>2
  <2>3. CASE Send("interrupt") /\ UNCHANGED <<main, reason>>
    <3>1. Told' = Told \cup {"interrupt"}
          BY <2>3, ToldBySend
    <3> QED  BY <1>0, <2>1, <2>3, <3>1
  <2> QED  BY <1>6, <2>2, <2>3 DEF Interrupt
<1>7. CASE ConnectionsOver
  <2>1. Told' = Told \cup {"disconnect"} /\ UNCHANGED <<main, reason, rows, armed, left>>
        BY <1>7, ToldBySend DEF ConnectionsOver, timers
  <2> QED  BY <1>0, <2>1
<1>8. CASE EmitRow
  <2>1. /\ Told' = Told /\ main' = main /\ reason' = reason /\ main # "exited"
        /\ "stats" \in armed /\ left["stats"] <= 0
        /\ rows' = IF kind \in WithRows THEN Min({rows + 1, MaxRows}) ELSE rows
        /\ Timing([x \in {"stats"} |-> left["stats"] + Second], {})
        BY <1>8 DEF EmitRow, Told, Over
  <2>2. /\ armed' = armed \cup {"stats"}
        /\ left' = [k \in Timers |-> IF k = "stats" THEN left["stats"] + Second ELSE left[k]]
        BY <2>1 DEF Timing
  <2>3. left'["stats"] = left["stats"] + Second /\ left'["duration"] = left["duration"]
        BY <1>0, <2>2
  <2>4. CASE main = "wait" /\ "duration" \in armed
    <3>0. /\ left["stats"] = 0 /\ left["duration"] \in Int /\ left["duration"] >= 0
          /\ left'["stats"] = Second /\ left'["stats"] \in 0 .. Second
          /\ kind \in WithRows =>
               duration - left["duration"] - Second * rows \in 1 .. Second - Grace
          BY <1>0, <2>1, <2>3, <2>4 DEF Second, Grace
    <3>1. ASSUME kind \in WithRows
          PROVE  /\ duration + left'["stats"] - left'["duration"] - Second * rows'
                      \in 1 .. Second - Grace
                 /\ ~("timeout" \in Told /\ duration % Second = 0)
      <4>1. duration <= Second * MaxRows /\ MaxRows \in Nat
            BY ClientAssumption DEF RowsAreCounted, TypeOK
      <4>2. rows + 1 <= MaxRows
            BY <1>0, <3>0, <3>1, <4>1 DEF Second, Grace
      <4>3. rows' = rows + 1
            BY <1>0, <2>1, <3>1, <4>1, <4>2, MinOfTwo
      <4>4. ~("timeout" \in Told /\ duration % Second = 0)
            BY <2>1, <2>4, <3>0, <3>1
      <4> QED  BY <1>0, <2>3, <3>0, <3>1, <4>3, <4>4 DEF Second, Grace
    <3>2. reason # "timeout"
          BY <2>1
    <3>3. kind \notin WithRows => rows' = 0
          BY <2>1
    <3> QED  BY <1>0, <2>1, <2>2, <2>3, <3>0, <3>1, <3>2, <3>3
  <2>5. CASE main = "wait" /\ "duration" \notin armed
    <3>1. /\ ~("timeout" \in Told /\ duration % Second = 0 /\ kind \in WithRows)
          /\ reason # "timeout"
          BY <1>0, <2>1, <2>5
    <3>2. kind \notin WithRows => rows' = 0
          BY <2>1
    <3> QED  BY <1>0, <2>1, <2>2, <2>5, <3>1, <3>2
  <2>6. CASE main # "wait"
        BY <1>0, <2>1, <2>6
  <2> QED  BY <2>4, <2>5, <2>6
<1>9. CASE Tick
  <2>1. PICK d \in Nat : /\ left' = [x \in Timers |-> IF x \in armed THEN left[x] - d ELSE 0]
                         /\ \A x \in armed : left[x] > 0 /\ d <= left[x]
        BY <1>9, TickStep
  <2>2. Told' = Told /\ UNCHANGED <<main, reason, rows, armed>> /\ (main = "wait" => toStop = <<>>)
        BY <1>9 DEF Tick, Told
  <2>3. main = "wait" => "timeout" \notin Told
        BY <2>2 DEF Told, MainInv
  <2>4. "duration" \in armed => left'["duration"] = left["duration"] - d
        BY <1>0, <2>1
  <2>5. "stats" \in armed => left'["stats"] = left["stats"] - d
        BY <1>0, <2>1
  <2>6. ASSUME main = "wait", "duration" \in armed
        PROVE  /\ left'["duration"] >= 0 /\ left'["stats"] \in 0 .. Second
               /\ kind \in WithRows =>
                    duration + left'["stats"] - left'["duration"] - Second * rows
                      \in 1 .. Second - Grace
    <3>1. /\ left["duration"] \in Int /\ left["stats"] \in 0 .. Second
          /\ left["duration"] >= d /\ left["stats"] >= d
          /\ left'["duration"] = left["duration"] - d /\ left'["stats"] = left["stats"] - d
          /\ kind \in WithRows =>
               duration + left["stats"] - left["duration"] - Second * rows \in 1 .. Second - Grace
          BY <1>0, <2>1, <2>4, <2>5, <2>6
    <3> QED  BY <1>0, <3>1 DEF Second, Grace
  <2> QED  BY <1>0, <2>2, <2>3, <2>6
<1>10. ASSUME NEW w \in Threads, Works(w) \/ LosesConnection(w) \/ Blocks(w) PROVE RowsInv'
  <2>1. UNCHANGED <<main, reason, rows>>
        BY <1>10, ThreadSteps
  <2>2. Told' \subseteq Told \cup {"disconnect", "interrupt", "done"}
        BY <1>10, ThreadTells
  <2>3. \A x \in {"stats", "duration"} : left'[x] = left[x] /\ (x \in armed <=> x \in armed')
        BY <1>0, <1>10, ThreadTimers, TimersDiffer
  <2> QED  BY <1>0, <2>1, <2>2, <2>3
<1>11. CASE UNCHANGED vars
      BY <1>11 DEF vars, config, timers, Told
<1>12. CASE SetUpHangs
  <2>1. Told' = Told /\ UNCHANGED <<reason, rows, armed, left>> /\ main' = "hung"
        BY <1>12 DEF SetUpHangs, timers, Told
  <2> QED  BY <1>0, <2>1
<1> QED  BY <1>1, <1>2, <1>3, <1>4, <1>5, <1>6, <1>7, <1>8, <1>9, <1>10, <1>11, <1>12
         DEF Next, Main

LEMMA RowsInit == Init => RowsInv
BY DEF Init, RowsInv, Told

LEMMA RowsAlways == ASSUME PromptSetUp, RowsAreCounted PROVE Spec => []RowsInv
<1>1. TypeOK /\ MainInv /\ RowsInv /\ [Next]_vars => RowsInv'
      BY RowsStep
<1> QED  BY <1>1, RowsInit, InvAlways, PTL DEF Spec, Inv

-----------------------------------------------------------------------------
(* The theorems.                                                            *)

\* Every variable keeps its type: the channel toStop never holds more than it can
\* (client.go:66), and the goroutines are where runTest can have put them.
THEOREM TypesAlways == Spec => []TypeOK
BY InvAlways, PTL DEF Inv

\* What a client reports as its reason to stop has happened, whatever order the signal,
\* the timer and the loss of connections come in, however long operations take and
\* however many reasons wait in the channel (client.go:281-291); for "received interrupt
\* signal" that is a signal, or a trace route that gave up.
THEOREM ReasonHasCauseAlways == Spec => []ReasonHasCause
<1>1. Inv => ReasonHasCause
      BY DEF Inv, ReasonsInv, Told, ReasonHasCause
<1> QED  BY <1>1, InvAlways, PTL

\* A ping test prints its final statistics before the process exits, if none of its
\* round trips or gaps takes the two seconds it is given (client.go:276-278).
THEOREM SummaryPrintedAlways == ASSUME PromptPings PROVE Spec => []SummaryPrinted
<1>1. DrainInv => SummaryPrinted
      BY DEF DrainInv, SummaryPrinted
<1> QED  BY <1>1, DrainAlways, PTL

\* A test that runs for its duration, of whole seconds, reports once for each of them,
\* if its threads are connected before the first report is due (client.go:66-67), and a
\* latency or ping test never does (clientui.go:196-205).
THEOREM RowsMatchDurationAlways ==
  ASSUME PromptSetUp, RowsAreCounted PROVE Spec => []RowsMatchDuration
<1>1. RowsInv => RowsMatchDuration
      BY DEF RowsInv, RowsMatchDuration
<1> QED  BY <1>1, RowsAlways, PTL
=============================================================================
