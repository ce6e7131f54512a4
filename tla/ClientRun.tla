------------------------------ MODULE ClientRun ------------------------------
(***************************************************************************)
(* A run of the ethr client, from the start of the test to the exit of the *)
(* process (runTest in client.go).  The main goroutine starts the test and *)
(* waits for a reason to stop on the channel toStop; the duration timer,   *)
(* the signal handler, the watcher of the data connections and the test    *)
(* itself put reasons there; then it closes test.done, which the workers   *)
(* look at between two operations.  The statistics timer reports each      *)
(* second until then, for the kinds of tests that have such a report.      *)
(*                                                                         *)
(* Time is in units of 100ms and relative: left[x] is the time until the   *)
(* timer or sleep x is over.  What is computed takes no time; operations   *)
(* on the network take some of Ops, or fail, or never return.  How the     *)
(* control connection of a bandwidth test is set up is left to SyncStart.  *)
(***************************************************************************)
EXTENDS Integers, Sequences, FiniteSetsExt

CONSTANTS
  Threads,    \* the threads of the test
  Kinds,      \* kinds of tests to consider
  Durations,  \* values of -d (0: forever)
  Gap,        \* value of -g
  Ops,        \* how long a dial or a round trip may take
  SetUps,     \* how long it may take to connect all threads
  StopCap,    \* capacity of toStop
  MaxRows     \* rows are counted no further

Traces   == {"traceroute", "mytraceroute"}
AllKinds == {"bandwidth", "latency", "cps", "ping", "udp"} \cup Traces

\* The kinds emitTestResult reports on every second; latency and ping tests print
\* their own statistics.
WithRows == {"bandwidth", "cps", "udp"} \cup Traces

ASSUME ClientAssumption ==
  /\ IsFiniteSet(Threads) /\ Threads # {}
  /\ Threads \cap {"stats", "duration", "drain"} = {}  \* the other timers
  /\ Kinds \subseteq AllKinds
  /\ Durations \subseteq Nat /\ SetUps \subseteq Nat
  /\ Gap \in Nat
  /\ IsFiniteSet(Ops) /\ Ops \subseteq Nat \ {0}
  /\ StopCap \in Nat \ {0} /\ MaxRows \in Nat

VARIABLES
  kind, duration,  \* the test and its -d
  main,       \* where the main goroutine is
  reason,     \* what it took from toStop
  toStop,     \* the channel
  signal,     \* "ready" while the goroutine that waits for a signal waits
  watcher,    \* "on" while the goroutine that waits for all connections waits
  isDone,     \* whether test.done is closed
  worker,     \* [thread]: where its goroutine is
  summary,    \* the final statistics of a ping test are printed
  armed,      \* the timers and sleeps under way
  left,       \* the time left for each of them
  rows        \* intervals reported (gInterval)

config == <<kind, duration>>
timers == <<armed, left>>
vars   == <<config, main, reason, toStop, signal, watcher, isDone, worker, summary,
            timers, rows>>

Second  == 10
Grace   == 2     \* the extra 200ms of the duration timer
Drain   == 20    \* the 2s a ping test gets to print its statistics

\* The threads a test uses: one for a latency or a ping test, or a trace route.
Used == IF kind \in {"latency", "ping"} \cup Traces THEN {CHOOSE w \in Threads : TRUE} ELSE Threads

\* The first connection of a bandwidth test, on which the start was agreed.
Control == CHOOSE w \in Threads : TRUE

Timers == {"stats", "duration", "drain"} \cup Threads

TypeOK ==
  /\ kind \in Kinds /\ duration \in Durations
  /\ main \in {"setup", "hung", "wait", "drain", "exited"}
  /\ reason \in {"none", "timeout", "interrupt", "disconnect", "done", "killed"}
  /\ toStop \in Seq({"timeout", "interrupt", "disconnect", "done"})
  /\ Len(toStop) <= StopCap
  /\ signal \in {"default", "ready", "ignored"} /\ watcher \in {"off", "on", "ended"}
  /\ isDone \in BOOLEAN /\ summary \in BOOLEAN
  /\ worker \in [Threads -> {"none", "dialing", "working", "busy", "stuck",
                             "lost", "failed", "ended"}]
  /\ armed \subseteq Timers /\ left \in [Timers -> Int]
  /\ rows \in 0 .. MaxRows

Init ==
  /\ kind \in Kinds /\ duration \in Durations
  /\ main = "setup" /\ reason = "none" /\ toStop = <<>>
  /\ signal = "default" /\ watcher = "off"
  /\ isDone = FALSE /\ summary = FALSE
  /\ worker = [w \in Threads |-> "none"]
  /\ armed = {} /\ left = [x \in Timers |-> 0]
  /\ rows = 0

-----------------------------------------------------------------------------
(* Timers and the channel.                                                  *)

\* Arms the timers in the domain of `new` and disarms those in `off`.
Timing(new, off) ==
  /\ armed' = (armed \ off) \cup DOMAIN new
  /\ left' = [x \in Timers |-> IF x \in DOMAIN new THEN new[x]
                               ELSE IF x \in off THEN 0 ELSE left[x]]

Over(x) == x \in armed /\ left[x] <= 0

\* Faulty variants: the duration timer has no extra time, or does not run for 1s.
TimerWithoutGrace == IF duration < Second THEN <<>> ELSE [x \in {"duration"} |-> duration]
TimerAboveSecond ==
  IF duration <= Second THEN <<>> ELSE [x \in {"duration"} |-> duration + Grace]

\* runDurationTimer: the whole seconds decide whether there is a timer at all.
durationTimer ==
  IF duration < Second THEN <<>> ELSE [x \in {"duration"} |-> duration + Grace]

statsTimer(elapsed) == [x \in {"stats"} |-> Second - elapsed]

Both(f, g) == [x \in DOMAIN f \cup DOMAIN g |-> IF x \in DOMAIN f THEN f[x] ELSE g[x]]

\* Faulty variant: the channel has no bound.
SendUnbounded(r) == toStop' = Append(toStop, r)

\* A send on toStop, which blocks while the channel is full.
Send(r) == Len(toStop) < StopCap /\ toStop' = Append(toStop, r)

-----------------------------------------------------------------------------
(* The main goroutine.                                                      *)

\* Any test but a bandwidth test: the timers start on a whole second, and the
\* goroutines of the test with them.
StartTest ==
  /\ main = "setup" /\ kind # "bandwidth"
  /\ Timing(Both(statsTimer(0), durationTimer), {})
  /\ worker' = [w \in Threads |->
                  IF w \notin Used THEN "none"
                  ELSE IF kind \in {"latency", "udp"} THEN "dialing" ELSE "working"]
  /\ main' = "wait" /\ signal' = "ready"
  /\ UNCHANGED <<config, reason, toStop, watcher, isDone, summary, rows>>

\* The control connection of a bandwidth test failed: the reason to stop is there
\* before anybody waits for it.
ControlFails ==
  /\ main = "setup" /\ kind = "bandwidth"
  /\ Send("disconnect")
  /\ main' = "wait" /\ signal' = "ready"
  /\ UNCHANGED <<config, reason, watcher, isDone, worker, summary, timers, rows>>

\* The start is agreed on (startTime), and the other threads are connected, which
\* takes a while; those that fail are left out.  The statistics count from startTime.
ConnectThreads ==
  /\ main = "setup" /\ kind = "bandwidth"
  /\ \E s \in SetUps : Timing(Both(statsTimer(s), durationTimer), {})
  /\ \E up \in SUBSET Threads :
       /\ Control \in up
       /\ worker' = [w \in Threads |-> IF w \in up THEN "working" ELSE "none"]
  /\ watcher' = "on"
  /\ main' = "wait" /\ signal' = "ready"
  /\ UNCHANGED <<config, reason, toStop, isDone, summary, rows>>

\* The server falls silent while a bandwidth test is set up: ACK and SyncReady are
\* received without a deadline (client.go:83, 330), and the duration timer is not
\* running yet.
SetUpHangs ==
  /\ main = "setup" /\ kind = "bandwidth"
  /\ main' = "hung"
  /\ UNCHANGED <<config, reason, toStop, signal, watcher, isDone, worker, summary,
                 timers, rows>>

\* Faulty variant: a ping test gets no time to print its statistics.
StopAtOnce ==
  /\ main = "wait" /\ toStop # <<>>
  /\ reason' = Head(toStop) /\ toStop' = Tail(toStop)
  /\ Timing(<<>>, {"stats"})
  /\ isDone' = TRUE
  /\ main' = "exited"
  /\ UNCHANGED <<config, signal, watcher, worker, summary, rows>>

\* The first reason to stop ends the test: the statistics timer is stopped and
\* test.done is closed; a ping test gets some time to print its statistics.
Stop ==
  /\ main = "wait" /\ toStop # <<>>
  /\ reason' = Head(toStop) /\ toStop' = Tail(toStop)
  /\ Timing(IF kind = "ping" THEN [x \in {"drain"} |-> Drain] ELSE <<>>, {"stats"})
  /\ isDone' = TRUE
  /\ main' = IF kind = "ping" THEN "drain" ELSE "exited"
  /\ UNCHANGED <<config, signal, watcher, worker, summary, rows>>

DrainOver ==
  /\ main = "drain" /\ Over("drain")
  /\ Timing(<<>>, {"drain"})
  /\ main' = "exited"
  /\ UNCHANGED <<config, reason, toStop, signal, watcher, isDone, worker, summary, rows>>

-----------------------------------------------------------------------------
(* Those who give reasons to stop.                                          *)

TimerFires ==
  /\ main # "exited" /\ Over("duration")
  /\ Send("timeout")
  /\ Timing(<<>>, {"duration"})
  /\ UNCHANGED <<config, main, reason, signal, watcher, isDone, worker, summary, rows>>

\* SIGINT or SIGTERM.  Before handleInterrupt it kills the process; after the first
\* one nobody listens.
Interrupt ==
  /\ main # "exited"
  /\ \/ /\ signal = "default"
        /\ main' = "exited" /\ reason' = "killed"
        /\ UNCHANGED <<toStop, signal>>
     \/ /\ signal = "ready"
        /\ Send("interrupt") /\ signal' = "ignored"
        /\ UNCHANGED <<main, reason>>
  /\ UNCHANGED <<config, watcher, isDone, worker, summary, timers, rows>>

\* Faulty variants: the watcher waits for one thread, or for those not connected too.
OneConnectionOver ==
  /\ main # "exited" /\ watcher = "on"
  /\ \E w \in Threads : worker[w] = "ended"
  /\ Send("disconnect") /\ watcher' = "ended"
  /\ UNCHANGED <<config, main, reason, signal, isDone, worker, summary, timers, rows>>

AllThreadsOver ==
  /\ main # "exited" /\ watcher = "on"
  /\ \A w \in Threads : worker[w] = "ended"
  /\ Send("disconnect") /\ watcher' = "ended"
  /\ UNCHANGED <<config, main, reason, signal, isDone, worker, summary, timers, rows>>

\* wg.Wait() is over: every connected thread of a bandwidth test has ended.
ConnectionsOver ==
  /\ main # "exited" /\ watcher = "on"
  /\ \A w \in Threads : worker[w] \in {"none", "ended"}
  /\ Send("disconnect") /\ watcher' = "ended"
  /\ UNCHANGED <<config, main, reason, signal, isDone, worker, summary, timers, rows>>

-----------------------------------------------------------------------------
(* The statistics timer, and the workers.                                   *)

\* The statistics of a second, on which most kinds of tests report.  The targets are
\* startTime + 1s, + 2s ...: late ones are made up for.
EmitRow ==
  /\ main # "exited" /\ Over("stats")
  /\ rows' = IF kind \in WithRows THEN Min({rows + 1, MaxRows}) ELSE rows
  /\ Timing([x \in {"stats"} |-> left["stats"] + Second], {})
  /\ UNCHANGED <<config, main, reason, toStop, signal, watcher, isDone, worker, summary>>

Goes(w, place) ==
  /\ worker' = [worker EXCEPT ![w] = place]
  /\ UNCHANGED <<config, main, reason, signal, watcher, isDone, rows>>

\* A latency or UDP test dials first.  If that fails the goroutine ends, silently.
Dials(w) ==
  /\ main # "exited" /\ worker[w] = "dialing"
  /\ \/ Goes(w, "working")
     \/ Goes(w, "ended")
  /\ UNCHANGED <<toStop, summary, timers>>

\* Between two operations the worker sees that test.done is closed.
SeesDone(w) ==
  /\ main # "exited" /\ worker[w] \in {"working", "lost"} /\ isDone
  /\ Goes(w, "ended")
  /\ summary' = (summary \/ kind = "ping")
  /\ UNCHANGED <<toStop, timers>>

\* A measurement of a latency or ping test, and the rest of the gap.  A failed ping
\* is counted as lost, and is no reason to stop.
Measures(w) ==
  /\ main # "exited" /\ worker[w] = "working" /\ ~isDone
  /\ kind \in {"latency", "ping"}
  /\ \E d \in Ops : Timing([x \in {w} |-> Max({d, Gap})], {})
  /\ Goes(w, "busy")
  /\ UNCHANGED <<toStop, summary>>

MeasureOver(w) ==
  /\ main # "exited" /\ worker[w] = "busy" /\ Over(w)
  /\ Timing(<<>>, {w})
  /\ Goes(w, "working")
  /\ UNCHANGED <<toStop, summary>>

\* The hops of a trace route are discovered, on which a MyTraceRoute probes them for
\* ever; or there is no answer, and it gives up with the reason of a signal.
TraceOver(w) ==
  /\ main # "exited" /\ worker[w] = "working" /\ kind \in Traces
  /\ \/ Goes(w, "failed") /\ Send("interrupt")
     \/ kind = "traceroute" /\ Goes(w, "ended") /\ Send("done")
     \/ kind = "mytraceroute" /\ Goes(w, "busy") /\ UNCHANGED toStop
  /\ UNCHANGED <<summary, timers>>

\* The connection breaks.  A bandwidth thread ends, for the watcher to notice; a
\* latency test says so itself, and tries again - and says so again - until it
\* sees that test.done is closed.
LosesConnection(w) ==
  /\ main # "exited" /\ ~isDone
  /\ \/ /\ kind = "bandwidth" /\ worker[w] = "working"
        /\ Goes(w, "ended")
        /\ UNCHANGED toStop
     \/ /\ kind = "latency" /\ worker[w] \in {"working", "lost"}
        /\ Goes(w, "lost")
        /\ Send("disconnect")
  /\ UNCHANGED <<summary, timers>>

\* A read or a write never returns, because the peer is silent.
Blocks(w) ==
  /\ main # "exited" /\ worker[w] = "working"
  /\ kind \in {"bandwidth", "latency"}
  /\ Goes(w, "stuck")
  /\ UNCHANGED <<toStop, summary, timers>>

-----------------------------------------------------------------------------

\* Time passes while nobody has anything to compute.
Tick ==
  /\ main # "exited" /\ armed # {} /\ \A x \in armed : left[x] > 0
  /\ main = "wait" => toStop = <<>>
  /\ \A w \in Threads : worker[w] = "working" =>
       ~isDone /\ kind \notin {"latency", "ping"}
  /\ LET d == Min({left[x] : x \in armed})
     IN left' = [x \in Timers |-> IF x \in armed THEN left[x] - d ELSE 0]
  /\ UNCHANGED <<config, main, reason, toStop, signal, watcher, isDone, worker, summary,
                 armed, rows>>

Main == StartTest \/ ControlFails \/ ConnectThreads \/ Stop \/ DrainOver

Works(w) == Dials(w) \/ SeesDone(w) \/ Measures(w) \/ MeasureOver(w) \/ TraceOver(w)

Next ==
  \/ Main \/ SetUpHangs \/ TimerFires \/ Interrupt \/ ConnectionsOver \/ EmitRow \/ Tick
  \/ \E w \in Threads : Works(w) \/ LosesConnection(w) \/ Blocks(w)

\* The goroutines run and time passes; no signal needs to come, no connection to
\* break, and nobody needs to answer.
Spec ==
  /\ Init /\ [][Next]_vars
  /\ WF_vars(Main) /\ WF_vars(TimerFires) /\ WF_vars(ConnectionsOver)
  /\ WF_vars(EmitRow) /\ WF_vars(Tick)
  /\ \A w \in Threads : WF_vars(Works(w))

-----------------------------------------------------------------------------
(* Properties. *)

\* A trace route whose destination does not respond.
GaveUp == kind \in Traces /\ \E w \in Threads : worker[w] = "failed"

\* The reason to stop that the client reports (client.go:281-291) has happened:
\* "connection terminated" only when the test could not start or has lost all its
\* connections, "measurement complete" only at the end of a trace route, "received
\* interrupt signal" only after a signal - or when a trace route gives up, which sends
\* the same reason without any signal (client.go:714, 877, 884).
ReasonHasCause ==
  /\ reason = "interrupt" => signal = "ignored" \/ GaveUp
  /\ reason = "done" => kind = "traceroute"
  /\ reason = "disconnect" =>
       IF kind = "bandwidth" THEN \A w \in Threads : worker[w] \in {"none", "ended"}
       ELSE kind = "latency" /\ \E w \in Threads : worker[w] \in {"lost", "ended"}

\* A test that runs for its duration, of whole seconds, reports once for each of them:
\* the extra 200ms are enough for the last report and not enough for one more
\* (client.go:66-67).  Latency and ping tests have no such reports
\* (clientui.go:196-205).
RowsMatchDuration ==
  reason = "timeout" /\ duration % Second = 0 =>
    rows = IF kind \in WithRows THEN duration \div Second ELSE 0

\* A ping test does not end without its final statistics (client.go:276-278).
SummaryPrinted ==
  kind = "ping" /\ main = "exited" /\ reason # "killed" => summary

\* Once it is under way, a test with a duration of a second or more ends, even if the
\* server falls silent, and so does a test that got a signal.  Before that, while a
\* bandwidth test is set up, a silent server holds the client for ever (SetUpHangs).
Ends ==
  (main = "wait" /\ (duration >= Second \/ signal = "ignored")) ~> (main = "exited")

\* A bandwidth or latency test that has lost its connections ends, whatever its
\* duration is.
AllLost ==
  \/ kind = "bandwidth" /\ \A w \in Threads : worker[w] \in {"none", "ended"}
  \/ kind = "latency" /\ \E w \in Threads : worker[w] = "lost"
LossEndsTest == (main = "wait" /\ AllLost) ~> (main = "exited")
=============================================================================
