---------------------------- MODULE ClientTraffic ----------------------------
(***************************************************************************)
(* The goroutines of a bandwidth test on the client, from the moment all   *)
(* connections are there: the workers register their connection, send and  *)
(* throttle themselves (-b), and the statistics goroutine prints a row per *)
(* connection each second.  They meet at gSessionLock, a read-write lock   *)
(* that lets no new reader in while a writer waits, and at lastStatsTime,  *)
(* from which the workers tell when their next budget begins.              *)
(*                                                                         *)
(* Time counts from test.startTime, in units of which only the order       *)
(* matters: Jitter < Margin < Grace < Second.  The connections were ready  *)
(* at setUp; what is computed takes no time, and the network takes as much *)
(* or as little as it likes of what the workers may send.                  *)
(***************************************************************************)
EXTENDS Integers, Sequences

CONSTANTS
  Threads,    \* the connections that could be set up
  Second,     \* the interval of the statistics
  Jitter,     \* how late the statistics goroutine may wake up
  Margin,     \* the 50ms a worker waits after an interval is over
  Grace,      \* the 200ms the duration timer waits after the last interval
  Duration,   \* -d, in seconds
  SetUps,     \* how long after startTime the connections may be ready
  BwRate,     \* -b, in bytes a second and thread
  BufferLen   \* -l

NoWriter == "none"

ASSUME TrafficAssumption ==
  /\ NoWriter \notin Threads
  /\ Second \in Nat \ {0} /\ Duration \in Nat \ {0}
  /\ Jitter \in Nat /\ Margin \in Nat /\ Grace \in Nat
  /\ Jitter < Margin /\ Jitter < Grace /\ Margin < Second /\ Grace < Second
  /\ SetUps \subseteq Nat
  /\ BwRate \in Nat \ {0} /\ BufferLen \in Nat \ {0}

VARIABLES
  now,        \* the clock
  setUp,      \* when the connections were ready
  stopped,    \* the duration timer has fired, and the process exits
  worker,     \* [thread]: where its goroutine is
  connList,   \* the registered connections (ethrTest.connList)
  bw,         \* [thread]: bytes not yet shown (ethrConn.bw)
  sentBytes,  \* [thread]: sent of the current budget
  until,      \* [thread]: when its current budget may be followed by the next
  stats,      \* where the statistics goroutine is
  interval,   \* the interval it waits for or prints
  lastStats,  \* lastStatsTime
  next,       \* the connection in connList to print next
  readers,    \* read locks held on gSessionLock
  writer,     \* the worker that has called Lock and announced itself to readers
  total,      \* [thread]: bytes sent since the start
  shown       \* [thread]: bytes shown in rows

lock    == <<readers, writer>>
printer == <<stats, interval, lastStats, next>>
sender  == <<worker, sentBytes, until, total>>
vars    == <<now, setUp, stopped, connList, bw, lock, printer, sender, shown>>

\* The duration timer is started once the connections are ready.
StopTime == setUp + Duration * Second + Grace

TypeOK ==
  /\ setUp \in SetUps /\ now \in Nat /\ stopped \in BOOLEAN
  /\ worker \in [Threads -> {"starting", "asking", "sending", "waiting", "ended"}]
  /\ connList \in Seq(Threads)
  /\ bw \in [Threads -> Nat]
  /\ sentBytes \in [Threads -> 0 .. BwRate]
  /\ until \in [Threads -> Nat]
  /\ stats \in {"sleep", "emit", "locked", "rows"}
  /\ interval \in Nat \ {0} /\ lastStats \in Nat
  /\ next \in 1 .. Len(connList) + 1
  /\ readers \in Nat /\ writer \in Threads \cup {NoWriter}
  /\ total \in [Threads -> Nat] /\ shown \in [Threads -> Nat]

Init ==
  /\ setUp \in SetUps /\ now = setUp /\ stopped = FALSE
  /\ worker = [w \in Threads |-> "starting"]
  /\ connList = <<>> /\ bw = [w \in Threads |-> 0]
  /\ sentBytes = [w \in Threads |-> 0] /\ until = [w \in Threads |-> 0]
  /\ stats = "sleep" /\ interval = 1 /\ lastStats = 0 /\ next = 1
  /\ readers = 0 /\ writer = NoWriter
  /\ total = [w \in Threads |-> 0] /\ shown = [w \in Threads |-> 0]

-----------------------------------------------------------------------------
(* gSessionLock, a sync.RWMutex.                                            *)

RLock     == writer = NoWriter /\ readers' = readers + 1 /\ UNCHANGED writer
Lock(w)   == writer = NoWriter /\ writer' = w /\ UNCHANGED readers
Unlock(w) == writer = w /\ readers = 0 /\ writer' = NoWriter /\ UNCHANGED readers

-----------------------------------------------------------------------------
(* The workers: runTCPBandwidthTestHandler and runUDPBandwidthAndPpsTest.   *)

\* test.newConn asks for the lock ...
AskLock(w) ==
  /\ ~stopped /\ worker[w] = "starting"
  /\ Lock(w)
  /\ worker' = [worker EXCEPT ![w] = "asking"]
  /\ UNCHANGED <<now, setUp, stopped, connList, bw, printer, sentBytes, until, total, shown>>

\* Faulty variant: a budget ends with the interval.
NoMargin(w) == until' = [until EXCEPT ![w] = lastStats + Second]

\* When the budget that begins now may be followed by the next: a margin after the
\* end of the interval, as far as it can be told from lastStatsTime.
beginThrottle(w) == until' = [until EXCEPT ![w] = lastStats + Second + Margin]

\* ... and adds the connection when no reader is left; then the first budget begins.
Register(w) ==
  /\ ~stopped /\ worker[w] = "asking"
  /\ Unlock(w)
  /\ connList' = Append(connList, w)
  /\ beginThrottle(w)
  /\ worker' = [worker EXCEPT ![w] = "sending"]
  /\ UNCHANGED <<now, setUp, stopped, bw, printer, sentBytes, total, shown>>

\* bytesToSend: no more than what is left of the budget.
bytesToSend(w) ==
  IF BwRate - sentBytes[w] < BufferLen THEN BwRate - sentBytes[w] ELSE BufferLen

\* A write, counted for the rows and the budget.  A worker that has used its budget
\* up waits, unless the time is over already.
Send(w) ==
  /\ ~stopped /\ worker[w] = "sending"
  /\ LET n == bytesToSend(w)
     IN /\ bw' = [bw EXCEPT ![w] = @ + n]
        /\ total' = [total EXCEPT ![w] = @ + n]
        /\ sentBytes' = [sentBytes EXCEPT ![w] = @ + n]
  /\ worker' = [worker EXCEPT ![w] = IF sentBytes'[w] < BwRate THEN "sending" ELSE "waiting"]
  /\ UNCHANGED <<now, setUp, stopped, connList, until, printer, lock, shown>>

\* enforceThrottle, when the budget is used up: the next one begins.
NextBudget(w) ==
  /\ ~stopped /\ worker[w] = "waiting" /\ now >= until[w]
  /\ beginThrottle(w)
  /\ sentBytes' = [sentBytes EXCEPT ![w] = 0]
  /\ worker' = [worker EXCEPT ![w] = "sending"]
  /\ UNCHANGED <<now, setUp, stopped, connList, bw, printer, lock, total, shown>>

\* A failed write ends the worker of a TCP connection, which stays in the list.
Fail(w) ==
  /\ ~stopped /\ worker[w] = "sending"
  /\ worker' = [worker EXCEPT ![w] = "ended"]
  /\ UNCHANGED <<now, setUp, stopped, connList, bw, printer, lock, sentBytes, until,
                 total, shown>>

-----------------------------------------------------------------------------
(* The statistics goroutine.                                                *)

Target == interval * Second

Unmoved == UNCHANGED <<now, setUp, stopped, connList, sender>>

\* emitStats: the interval is over.  A target already past is emitted at once.
Wake ==
  /\ ~stopped /\ stats = "sleep" /\ now >= Target
  /\ lastStats' = now
  /\ stats' = "emit"
  /\ Unmoved /\ UNCHANGED <<interval, next, bw, lock, shown>>

\* emitTestResults takes the lock for the walk over the sessions ...
LockSessions ==
  /\ ~stopped /\ stats = "emit"
  /\ RLock
  /\ stats' = "locked"
  /\ Unmoved /\ UNCHANGED <<interval, lastStats, next, bw, shown>>

\* ... and connListDo takes it once more for the walk over the connections.
LockConnections ==
  /\ ~stopped /\ stats = "locked"
  /\ RLock
  /\ stats' = "rows" /\ next' = 1
  /\ Unmoved /\ UNCHANGED <<interval, lastStats, bw, shown>>

\* Faulty variant: the counter is read and not reset.
LoadOnly(w) == bw' = bw

\* The counter of a connection is read and reset in one step.
SwapCounter(w) == bw' = [bw EXCEPT ![w] = 0]

Row ==
  /\ ~stopped /\ stats = "rows" /\ next <= Len(connList)
  /\ LET w == connList[next]
     IN SwapCounter(w) /\ shown' = [shown EXCEPT ![w] = @ + bw[w]]
  /\ next' = next + 1
  /\ Unmoved /\ UNCHANGED <<stats, interval, lastStats, lock>>

\* Both locks are released, and the goroutine sleeps until the next target.
RowsDone ==
  /\ ~stopped /\ stats = "rows" /\ next > Len(connList)
  /\ readers' = 0
  /\ stats' = "sleep" /\ interval' = interval + 1 /\ next' = 1
  /\ Unmoved /\ UNCHANGED <<lastStats, bw, writer, shown>>

-----------------------------------------------------------------------------
(* Time.                                                                    *)

\* Whoever can go on does, before time passes; the statistics goroutine wakes up at
\* most Jitter late.
Busy ==
  \/ stats # "sleep" /\ (stats = "rows" \/ writer = NoWriter)
  \/ stats = "sleep" /\ now >= Target + Jitter
  \/ \E w \in Threads :
       \/ worker[w] = "starting" /\ writer = NoWriter
       \/ worker[w] = "asking" /\ readers = 0
       \/ worker[w] = "waiting" /\ now >= until[w]

Tick ==
  /\ ~stopped /\ now < StopTime /\ ~Busy
  /\ now' = now + 1
  /\ UNCHANGED <<setUp, stopped, connList, bw, lock, printer, sender, shown>>

\* Faulty variant: the timer has no extra time.
StopEarly ==
  /\ ~stopped /\ now >= StopTime - Grace
  /\ stopped' = TRUE
  /\ UNCHANGED <<now, setUp, connList, bw, lock, printer, sender, shown>>

\* The duration timer: the statistics are disabled, test.done is closed and the
\* process exits.
Stop ==
  /\ ~stopped /\ now = StopTime
  /\ stopped' = TRUE
  /\ UNCHANGED <<now, setUp, connList, bw, lock, printer, sender, shown>>

PrintRows == Wake \/ LockSessions \/ LockConnections \/ Row \/ RowsDone

Next ==
  \/ PrintRows \/ Tick \/ Stop
  \/ \E w \in Threads : AskLock(w) \/ Register(w) \/ Send(w) \/ NextBudget(w) \/ Fail(w)

Spec == Init /\ [][Next]_vars

-----------------------------------------------------------------------------
(* Properties. *)

\* No thread is ahead of its rate: when the row of an interval is due, it has sent no
\* more than the budgets of the intervals up to then, however much it had to catch up
\* (utils.go:448-486).
RateKept == \A w \in Threads : total[w] <= BwRate * interval

\* No byte is left out of the rows and none is shown twice, although the counters are
\* read while the workers add to them (clientui.go:128-142).
ShownOnce == \A w \in Threads : total[w] = shown[w] + bw[w]

\* A test that runs for its duration has printed its rows: the extra time is for that
\* (client.go:66-67).
StatsPrinted == stopped => interval > Duration
=============================================================================
