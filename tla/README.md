# A formal model of ethr

TLA+ models of ethr, the network performance measurement tool: what its server and
its client do when connections, packets, timers and signals come in every order.
The models are checked with TLC on small instances, and every safety property that is
checked is also proved with TLAPS, for every number of clients, connections, threads,
tests, hops and probes, and for all times: section 5. Where a property needs a condition
on times, the theorem states it, and is the precise form of what the source takes for
granted. Liveness is checked by TLC only.

Paths below are those of the repository (`server.go` is `src/server.go`).

## 1. The system

ethr is one Go program that runs as a server or as a client. There are no tests in
the repository; the comments and the usage texts are the only statements of intent.

| Component | State | Operations | Modelled in |
|---|---|---|---|
| Session table (`session.go`) | `gSessions`, `gSessionKeys`, sessions with `testCount` and `tests`, tests with `refCount`, `session`, `testID`; one lock | `createOrGetTest`, `safeDeleteTest` | `Sessions`, promise: `TestRegistry` |
| TCP server (`server.go`) | one goroutine per connection, its test pointer, `isCPSorPing` | accept, handshake, sync, transfer or echo, deferred release | `TcpServer` |
| UDP server (`server.go`) | one packet handler per CPU with a private map, one collector goroutine per handler | read, look up, create, count; mark dormant, release, forget | `UdpServer` |
| Server as a whole | both halves on one table | | `EthrServer` |
| Synchronized start (`client.go`, `server.go`) | messages under way, `startTime` on both sides, `delayNs`, a read deadline | SYN/ACK, SyncStart/SyncReady/SyncGo, waiting, connecting the other threads | `SyncStart` |
| Command line (`ethr.go`, `runClient`) | mode, IP version, the test and its parameters | parse, validate, resolve, dispatch | `Startup` |
| Client run (`client.go`) | the channel `toStop`, `test.done`, timers, worker goroutines | `runTest` and what it starts, up to the exit | `ClientRun` |
| Bandwidth traffic (`client.go`, `utils.go`, `clientui.go`) | a connection list and its counters, one budget per thread, `gSessionLock`, `lastStatsTime` | register, send, throttle; walk, swap, print | `ClientTraffic` |
| Latency test (`client.go`, `server.go`) | samples on both sides, buffers under way | write, read, time, the extra write, percentiles | `LatencyTest` |
| Client process | command line and latency test | | `EthrClient` |
| Statistics (`stats.go`, `serverui.go`) | `lastStatsTime`, `statsEnabled`, counters of tests, `startTime`, sums per protocol | the timer, `emitStats`, `getTestResults`, `emitAggregate` | `ServerStats`; the client's rows in `ClientRun` |
| Trace route and MTR (`client.go`) | `gHop`, `gCurHops`, one goroutine per hop with its sequence number, raw sockets | discovery, probes over TCP and ICMP, `icmpRecvMsg` | `TraceRoute` |
| Logger, units, text UI, dialling, platform code, packaging | | | not modelled, see section 8 |

How they interact:

- A TCP handler takes a reference on the test `<<TCP, All>>` of its client's address as
  soon as the connection is accepted, and gives it back in a deferred function. Several
  connections, and several runs, of one address share the test. Connections that never
  sent a SYN (connection-rate and ping tests) keep the reference for 2s more.
- A UDP packet handler looks tests up in a map of its own and asks the session table
  only for senders it does not know. Its collector walks the same map, without a lock,
  and is the only one to give the references back.
- The statistics timer walks the session table with the lock held for reading, takes the
  counters that handlers add to, and prints. In single-client mode the first bandwidth
  test starts the timer; otherwise `runServer` does, and clients are asked to start on
  its next tick.
- A client agrees on the start on a control connection, then opens data connections; the
  server finds out which is which by waiting 100ms for SyncStart.
- Trace route discovers the hops one by one; MTR then starts a prober for each hop that
  answered. They all listen on raw sockets and hear each other's answers.
- The threads of a bandwidth test meet the statistics goroutine of the client at the
  session lock, at the counter of their connection, and at `lastStatsTime`, from which
  they tell when their next budget begins.
- In a latency test client and server time the same exchange, each from its own write to
  its next read.
- On the client everything that can end a test sends a reason on `toStop`; `runTest`
  takes the first one, closes `test.done` and returns.

What is hard: references given back on many paths and after a sleep; two goroutines on
one map; pointers followed after the table has changed; a protocol that is recognised by
a timeout; clocks that are compared across two machines; counters taken one by one while
they grow; timers that race with the end of the test. `PROJECT.json` lists these hazards
one by one, with their lines and the properties aimed at them.

What makes each component correct:

- table: references are users, a test exists while it is used, keys match sessions, and
  nothing leaks;
- handlers: each works on the registered test of its own client;
- start: no message is taken for another, and the two starts differ by a bounded time;
- client: it ends, for the reason it says, with the rows it should print;
- command line: what is accepted is run, with parameters in range;
- traffic: nobody is ahead of its rate, no byte is lost between rows, all rows are printed;
- latency test: both sides stay in step, time the network only, and print percentiles
  that are samples at their rank;
- statistics: a row is of its interval, sums are of the rows, running tests are shown;
- trace route: a prober takes answers to its own probes only, addresses are those of the
  route, what is sent is received or lost, and everybody ends.

## 2. Modules

`Sessions` has the variables of the table and its operations as action operators.
Session and test objects are pointers in the source, so they come from two pools
(`SessionObjs`, `TestObjs`) and a field is a function from objects to values. An
allocation takes some object that no goroutine and no table entry reaches, which is all
the Go collector guarantees; so a stale pointer to a reused object would show. The lock
makes each operation one step. `deleteTestInternal` follows `test.session`, as the code
does. `deleteKey` compacts `gSessionKeys` in place; the model gives each key that
stays the place that the loop has counted up to (`newPlace`). Ages of `lastAccess` are
three classes, cut at the thresholds 200ms and 2s.

`TcpServer` has one program counter per connection: `accepted` (before
`createOrGetTest`), `handshake` (waiting for SYN), `sync` (waiting for SyncStart, with a
deadline), `syncgo` (waiting for SyncGo, without), `run`, `linger` (the 2s sleep),
`release`, `close`. What a client sends is abstracted to whether the peer is there: a
receive that fails, for whatever reason, is one outcome.

`UdpServer` follows the packet loop and the collector statement by statement where they
can interleave: the lookup, the creation, the store into the map and the count are four
steps; so are finding an idle entry, marking it dormant and reading `lastAccess` again,
releasing the test and deleting the entry. `outer` and `inner` are the two variables the
source calls `test`. The walk may visit the entries in any order.

`EthrServer` composes the two halves (each leaves the variables of the other alone),
defines who uses which test (`Users`), states the properties, and instantiates
`TestRegistry`, the abstract specification: the first user of a key brings an instance
that is not in use, later ones share it, the last one takes it away.

`SyncStart` has explicit time in milliseconds. Messages carry the moment they arrive and
keep their order on a connection; `Tick` moves the clock to the next entry of the
agenda, so no deadline is passed over. Both connections may break at any moment. The two
halves of `trySyncStartWithClient` and all phases of `tcpRunBandwidthTestSync` are
actions. The goroutine of the statistics may run `Lateness` after its tick and sets
`lastStatsTime` to that moment, so the tick that `timeToNextTick` estimates is late by as
much, and the delay it returns is negative if the tick is over and the statistics have not
run (`LastStatsTimes`): every such value is taken.

`ClientRun` has relative time in units of 100ms. The main goroutine, the duration timer,
the signal goroutine, the watcher of the connections, the statistics timer and the workers
are separate; operations on the network take a time, fail or block forever. `SetUpHangs`
is a server that falls silent while a bandwidth test is set up. A trace route is one
worker that ends with `done`, gives up with `interrupt`, or, as MTR, goes on; its probes
are in `TraceRoute`. The statistics timer runs for every kind, but only the kinds in
`WithRows` report on it (`clientui.go:196-205`).

`Startup` has one action per stage of `main` and `runClient`; a flag is chosen when the code
looks at it. Lengths are numbers between the scaled limits of the source, so that only
their order, 0 and the wrap-around matter. What a name resolves to is a sequence of
addresses, of which only the family is kept.

`LatencyTest` has both loops of a latency test. A buffer is written and read whole, so a
connection is the number of buffers under way in each direction. Samples are sorted
before percentiles are taken, so a percentile is an index: it is calculated with the
arithmetic of the source (32 bits for p50 to p99, fractions for p999 and p9999). `EthrClient`
composes it with `Startup`: the round trips are those of the accepted command line.

`ClientTraffic` begins when the connections of a bandwidth test are there, `setUp`
units after the agreed start. `readers` and `writer` are the lock: a writer that has announced
itself (`AskLock`) lets no reader in and waits for those inside (`Register`). Time passes
only when nobody can go on (`Busy`), except that the network takes as much or as
little as it likes, and that the statistics goroutine may wake up `Jitter` late.

`ServerStats` has time relative to `lastStatsTime`, in units of half a second. A counter is
abstracted to the moment at which its oldest unit was counted, which is what tells
whether a row shows what belongs to it. The walk takes each test in two steps (bytes,
then the rest), so that handlers count between them. Rates are whole numbers: `Rates` may
make 0 of any count, if the interval was not shorter than a second, since a single unit is
cut to 0 as soon as the interval is over a second by a nanosecond.

`TraceRoute` has one prober per hop. `net` is the set of answers under way; a message that
arrives is heard by every prober that has an open socket (`ear`), and `Matches` is what
`icmpRecvMsg` looks at: the address once it is known, and the sequence number (wire
form `hop<<8 | seq`), the body of an echo, or the local port. An answer that does not arrive stays in
`net` and may come later, which covers loss, delay and reordering. The router at a
hop may be another one for each probe (`Paths`). In discovery the counters are those of a
local variable of which only address, name and first time are kept.

The theorems of a component are in a module of their own: `EthrServerProofs` (which uses
the lemmas about the table in `SessionsProofs`), `SyncStartProofs`, `ClientRunProofs`,
`ClientTrafficProofs`, `EthrClientProofs`, `ServerStatsProofs` and `TraceRouteProofs`.

Definitions marked *Faulty variant* are not part of any model. Each is one plausible bug
in the definition next to it, and the list of mutants in `PROJECT.json` says which
property notices it.

## 3. Runs

| Run | Instance | Shows |
|---|---|---|
| `tcp_server` | 2 clients, 2 connections | the tests the handlers use, keys, lifetimes, and that the table empties |
| `udp_server` | 1 client, 2 packet handlers, 3 objects of each kind | what packets count on, map sharing, references of two collectors on one test, and that the table empties |
| `ethr_server` | 1 client, 2 connections, 1 packet handler | types, reference counts, test counts, and the refinement of `TestRegistry` |
| `sync_start` | latencies {1, 20}ms, statistics on time or 30ms late, arrival 0 and 959ms after a tick, both modes, both directions, breaks | classification, stray messages, the distance of the two starts, and that the client gets somewhere |
| `client_run` | 3 threads, 7 kinds, durations 0, 0.5, 1 and 3s | reason, rows, final statistics, end |
| `client_traffic` | 2 threads, 2 intervals, connected at the start or 2/3 into the first interval, a budget of one buffer and a half | rates, bytes in rows, all rows printed |
| `ethr_client` | every flag, lengths and counts at their limits, 1, 2, 3 and 101 round trips | types, dispatch, samples, percentiles, and that rounds end |
| `server_stats` | 1 TCP and 1 UDP test, single-client mode, ticks on time or half a second late | rows, sums, running tests |
| `trace_route` | 3 hops, destination after 1 or out of reach, 2 routers per hop, 2 probes per hop | answers, addresses, counters and times, and that tracing ends |
| `udp_first_packet`, `udp_map_race`, `recursive_lock` | | disagreements, section 6 |

Bounds, and why they are enough:

- Objects. An allocation takes an unreachable object, so reuse happens as soon as
  possible, which is the case that hurts. The pools are large enough that no allocation is ever blocked: a TCP
  handler reaches at most one test, a packet handler reaches the test in its map and those
  in `outer` and `inner`.
- Clients, connections and handlers. Two are what a race needs; theorems cover all other
  numbers. A connection slot is reused, so the number of connections over time is not
  bounded.
- `SyncStart`. 1 and 20ms make both the symmetric and the most asymmetric round trip, and
  959ms puts the tick nearer than the way of SyncReady (41ms for up to 60ms of handshake).
  A round trip of 40ms is below the deadline of 100ms and below the tolerance of
  50ms (`serverui.go:423`), so that the server does not take the first interval for one the
  test was not there for; beyond these `RightClassification` does not hold, and the first interval is
  not shown. The source relies on that without saying so; `RightClassificationAlways` shows
  that the first condition is all that `RightClassification` needs. Statistics that are 30ms
  late are later than the way of SyncReady, so that delays below zero and a tick that is over
  both happen. Two threads, since all data connections are
  treated alike and one after the other.
- `ClientRun`. `StopCap` is 2 where the source has 16, so that the channel does get full.
  `SetUps` stays below 800ms: connecting threads for longer makes a bandwidth test
  print one row more than it has seconds. `Gap` is 1s, the default; with a gap of 2s or more
  a ping test may exit without its statistics. `MaxRows` is above the
  longest duration. `Ops` are a quick answer and the dial timeout of 1s.
- `ClientTraffic`. `Jitter < Margin < Grace < Second` is the order of wake-up delays, 50ms, 200ms
  and 1s. Two threads are what it takes for one to be in the list and the other to wait
  for the lock. A budget that is no multiple of the buffer has a cut last write. `SetUps` lies below
  a second in `client_traffic` and above in `recursive_lock`, which is the only difference.
- `EthrClient`. 1, 2 and 3 are the special case, its neighbour, and an odd number; 101 is
  the first count above 100, where the percentiles differ. `Wrap` and `Word` are above all products:
  the wrap-around itself is excluded (section 6). `Lengths` has 0, both limits and one above each.
- `ServerStats`. Two units in a second are the fewest that have a moment inside an interval; the tolerance
  of 50ms is less than a unit. Moments longer ago than an interval are not told apart
  (`Floor`). With `Late` = 1 an interval may be half a second too long and the next one too
  short, which the code takes for a second; `RunningTestIsShown` counts it so, too. With
  intervals of less than two seconds it is a single unit that the cut to whole rates may
  lose, which `RunningTestIsShown` exempts.
- `TraceRoute`. Two probers are what it takes to mistake one's answer for the other's, and
  two probes of a hop to mistake an old answer for a new one. `MaxProbes` must not exceed
  `SeqRange` (256 in the source): later numbers of one hop run into those of the next, and after
  65536 no answer of a router matches any more.

Deadlock is not checked where the system may stop: every client may stay
silent, a client process ends, and a server without clients has nothing to do.

## 4. Fairness

- `EthrServer`: goroutines run (weak fairness of the steps that need no message);
  a receive on a dead connection fails; `lastAccess` grows older. A walk of the collector
  visits every entry of the map, but the collector goes round its loop meanwhile, so
  finding a given entry gets strong fairness. There is none for clients: they may stay
  connected, silent or sending forever. Hence `TableEmpties` is about executions in which
  everybody has gone for good.
- `SyncStart`: time passes and goroutines run; no connection needs to break. An
  unbroken connection delivers, since messages have a due time.
- `ClientRun`: main, timers, watcher, statistics and workers run, time passes; no signal,
  no failure and no answer of the server is assumed. `SetUpHangs` is never forced and never
  excluded, so `Ends` and `LossEndsTest` speak of a test that is under way (`main` at `wait`).
- `EthrClient`: both goroutines of a latency test run, since buffers on a connection that
  is up arrive; it need not break, the test need not be stopped.
- `ClientTraffic` has safety properties only.
- `ServerStats`: time passes and the timer goroutine runs; handlers need not do anything.
- `TraceRoute`: goroutines run, and dials and sockets reach their deadlines. No answer
  arrives by fairness, and `Close` need not happen.

## 5. Proofs

`EthrServerProofs` proves, for all finite sets of connections, packet handlers,
client addresses and test IDs and for pools of any size:

| Theorem | States |
|---|---|
| `Invariance` | `Spec => []IInv` |
| `TypeCorrect` | `TypeOK` |
| `KeysCorrect` | `KeysMatchSessions` |
| `RefCountCorrect` | `RefCountIsUsers` |
| `LifetimeCorrect` | `TestLivesWhileUsed` |
| `NobodyUsesAnothersTest` | `ConnsUseTheirClientsTest` |
| `PacketsCountForTheirSenderAlways` | `PacketsCountForTheirSender` |
| `MapSharingCorrect` | `CollectorOwnsItsEntry` |
| `TestCountCorrect` | `SessionsCountTheirTests`, `TestsPointBack` |
| `RegistryImplemented` | the server implements `TestRegistry` |

Assumptions: `PoolsAssumption`, `TcpAssumption`, `UdpAssumption`, `UsersAssumption` (nil
is no object, the sets are finite, the two test IDs exist, and the names of
users are different). TLC evaluates them in every run of the server.

The argument. None of the properties is inductive alone. That the last release may delete
the test needs the reference count to be the number of users; that the count stays
the number of users needs two users never to be on a deleted test whose object is
allocated again; and that needs tests to be registered while they are used. The
invariant `IInv` therefore puts together

- the types of all fields and handlers,
- `SessionsCountTheirTests` and `TestsPointBack`: deleting by pointer hits the right
  entry, and a session goes with its last test and not before,
- `RefCountsUsers(Users)` and `RegisteredIffUsed(Users)`,
- `ConnsUseTheirClientsTest` and `RefsAreOfTheirClients`: the test a handler has a
  reference on is the one registered for its client,
- `CollectorOwnsItsEntry`: while the collector is between two statements its entry stays.

The steps of the server fall into three classes. *Neutral* steps leave the table and the
users alone (`NeutralStep`). `GetTest` and `CreateTest` add one user to one test
(`AcquireStep`, from `AcquireKeepsTable`), `DropTest` and `ReleaseTest` remove one
(`ReleaseStep`, from `ReleaseKeepsTable`). `SessionsProofs` proves the two table lemmas for
an arbitrary function from tests to sets of users, so they do not depend on who the users
are. `RegistryImplemented` reuses the classes: neutral steps are stutters of the registry,
the others are its two actions.

`PacketsCountForTheirSender` is about a pointer that outlives its reference: the packet
loop has looked a test up, its collector gives the reference back, and the object could
be handed out again, to another client. `CountInv` is proved on top of `IInv`: the test in
the packet loop's hands, and the one whose entry the collector is about to delete, is that
of the sender or is used by nobody (`RightFor`), and it stays so (`StaysRight`), because an
object that somebody has a pointer to is not allocated anew (`FreshIsUnused`).

`gSessionKeys` is proved on top of `IInv`, too (`KeysInv`), since nothing in `IInv` depends on it.
That `deleteKey` leaves the other keys, each of them once, is a counting argument: two keys
that stay get different places (`PlacesDiffer`), there are as many places as keys, so every
place is taken (`PlacesAreTaken`, by the pigeonhole theorem).

`ClientTrafficProofs`, for every set of threads and all times and sizes allowed by
`TrafficAssumption`:

| Theorem | States | Needs |
|---|---|---|
| `TypeCorrect` | `TypeOK` | |
| `EveryByteShownOnce` | `ShownOnce` | |
| `ThrottleCorrect` | `RateKept` | `PromptSetUp` |
| `AllRowsPrinted` | `StatsPrinted` | `PromptSetUp` |

`PromptSetUp` says that the connections are ready before the first row is due;
`recursive_lock` shows what happens otherwise. The argument: types and `ShownOnce` are
inductive. For the others `Inv` adds where the clock can be (`ClockOK`: at most `Jitter`
past the next target), that threads are at the lock only while the clock stands at `setUp`
(`LocksOK`; with `PromptSetUp` no row is due then, which excludes the deadlock), that
`lastStatsTime` is no earlier than the last target (`LastStatsOK`), and how many budgets a thread can have begun (`BudgetOK`: a
budget may be followed by the next only `Margin` after its interval, when the row of that
interval has been taken because `Jitter < Margin`).

`EthrClientProofs`, under `Fits` (the lengths and the counts times 99 fit in 32 bits):

| Theorem | States |
|---|---|
| `TypeCorrect` | `TypeOK` |
| `DispatchComplete` | `AcceptedTestsRun` |
| `ServerMeasuresNetwork` | `SamplesExcludeGap` |
| `PercentilesCorrect` | `PercentilesNearRank` |

The lemma `PercentilesAreRight` is arithmetic, for every count. The invariant of the exchange
(`Places`, `InStep`) lists where the two sides can be at once: there is at most one buffer
on the way, except for the extra one, and the server has as many samples as the client, or
one less. The invariant of the command line says what each stage has established.

`SyncStartProofs`, for every finite set of latencies, every deadline and period, every
moment the client may come at, both modes, and connections that may break:

| Theorem | States | Needs |
|---|---|---|
| `TypesAlways` | `TypeOK` | |
| `RightClassificationAlways` | `RightClassification` | `DeadlineIsLong` |
| `NoStrayMessageAlways` | `NoStrayMessage` | `DeadlineIsLong` |
| `SkewBoundedAlways` | `SkewBounded` | |
| `ClientStartsOnTickAlways` | `ClientStartsOnTick` | |

`DeadlineIsLong` says that a round trip takes less than the 100ms the server waits for
SyncStart (`server.go:131-134`), which is what the source relies on. The argument: `ControlInv` and
`DataInv` list what can be under way on a connection and where both processes then are (one
message of the protocol at a time, payload after it). `TimesInv` follows the times through
the handshake: a SyncReady is due `x + y` after `sendTime`, a SyncGo another `z` later,
and what they carry is the delay and `x + y`, from which both starts are calculated.
Neither start is bounded by the other without the latencies of the messages before it,
which no variable keeps; hence the existential quantifiers. `ClassInv` adds that an
unbroken control connection has the ACK or SyncStart under way, in time, while the server
waits. `NumbersInv`, needed for the types, says that no round trip is negative; delays may
be. `ClientStartsOnTick` is about the tick the server means, the one after `lastStatsTime`:
the client starts on it up to half the asymmetry of the two ways plus the lateness of the
statistics, or, if the delay is less than a way (below zero included), up to a way later.

`ClientRunProofs`, for every set of threads, all durations, set-up times, gaps and operation
times, and every capacity of `toStop`:

| Theorem | States | Needs |
|---|---|---|
| `TypesAlways` | `TypeOK` | |
| `ReasonHasCauseAlways` | `ReasonHasCause` | |
| `SummaryPrintedAlways` | `SummaryPrinted` | `PromptPings` |
| `RowsMatchDurationAlways` | `RowsMatchDuration` | `PromptSetUp`, `RowsAreCounted` |

`PromptPings` says that no gap and no operation of a ping test takes the 2s `runTest`
waits for the summary (`client.go:278`); the dial has a timeout of 1s, and the default gap
is 1s. `PromptSetUp` says that the threads are connected 200ms before the first row is due;
after that a bandwidth test has a row too many (`client.go:66-67`, section 3).
`RowsAreCounted` puts `MaxRows`, the bound of the model, above all durations.
The argument: a reason in the channel keeps its cause because the states of workers it speaks
of are final (`ReasonsInv`, over all that was ever told). The drain is safe because the thread
of a ping test is always due before the drain is over (`DrainInv`). The rows match
because `duration + left["stats"] - left["duration"] - Second * rows` does not change
while both timers run: each report sets the one back by a second and counts one more
(`RowsInv`); for latency and ping tests nothing is counted.

`ServerStatsProofs`, for every finite set of tests, every length of the interval and every
delay of the timer below it:

| Theorem | States |
|---|---|
| `TypesAlways` | `TypeOK` |
| `RowsAreOfTheIntervalAlways` | `RowsAreOfTheInterval` |
| `SumIsOfRowsAlways` | `SumIsOfRows` |
| `RunningTestIsShownAlways` | `RunningTestIsShown` |

Two of the properties speak of a walk that is over. The invariant follows the walk: which
counters still hold something of the last interval (`CountersInv`: those of the tests in
`todo`, and the second one of the test in hand), what sums and rows have so far (`SumInv`,
`WalkInv`; a rate that was cut to zero adds nothing to either), that a start that is not used up is the one agreed upon last (`StartsInv`), and
that those tests the walk has been at are shown if they have to be (`ShownInv`). `ClockInv`
bounds how late an interval may end.

`TraceRouteProofs`, for every number of hops and probes, all routes and distances, and all
times a probe may take:

| Theorem | States |
|---|---|
| `TypesAlways` | `TypeOK` |
| `AnswersMatchProbesAlways` | `AnswersMatchProbes` |
| `RouteIsRightAlways` | `RouteIsRight` |
| `ProbesAddUpAlways` | `ProbesAddUp` |

That the answer taken is to one's own probe needs the wire form of the sequence number to be
one-to-one: `hop * SeqRange + seq` with `seq < SeqRange` (`ProbeInv`, `NetInv`;
`TraceAssumption` has `MaxProbes <= SeqRange`, and section 3 says what happens beyond). That the
addresses are right needs to know from where an answer can come (`NetInv`,
`AnswerInv`), and that discovery has found the destination at no earlier hop
(`PhaseInv`). The counters add up because discovery leaves them at zero (`CountInv`).

What these modules assume of their constants (`SyncAssumption`, `ClientAssumption`,
`StatsAssumption`, `TraceAssumption`) is that sets are finite or not empty, that times are
natural numbers, that names are different, and the bounds named above; TLC evaluates all of it.

Only checked by TLC: every liveness property (`TableEmpties`, `ClientGetsSomewhere`, `Ends`,
`LossEndsTest`, `RoundsComplete`, `TestComesToBeShown`, `TracingEnds`), since liveness under
fairness is out of reach of this prover.

## 6. Where the source and its words disagree

Three runs expect a violation; `PROJECT.json` quotes the lines.

- `udp_first_packet`: a variable declared anew in an `if` block makes the first packet of
  each client uncounted, and reported as one whose test could not be created.
- `udp_map_race`: the map of a packet handler that the comment calls local is shared with
  the collector, without a lock.
- `recursive_lock`: the statistics goroutine takes the session lock for reading twice, and
  blocks for good, with all threads that still have to register, if one of them asks for the lock
  in between. That takes threads that start when a row is due: connecting that lasted as
  long as the first interval.

Others were met on the way and have no run:

- A single-client server starts a round trip after its client, where `server.go:167-169`
  says at the same moment: SyncGo takes half of it and the server sleeps the other half
  after that. What does hold is `SkewBounded`.
- "Ethr done, received interrupt signal." is printed for a trace route that gives up, without
  any signal (`client.go:288`): it sends the same reason (`client.go:714`, `877`, `884`).
  `ReasonHasCause` has this as a cause of its own (`GaveUp`).
- `-d` does not bound a bandwidth test whose server falls silent during the handshake: ACK and
  SyncReady are received without a deadline (`client.go:83`, `330`), and the duration timer
  starts later. The usage text (`ethr.go:509-511`) knows of no such case. `client_run` has it
  (`SetUpHangs`), and `Ends` is about tests that are under way.
- The usage text has `-l` as "Only valid for Bandwidth tests. Max 1GB." (`ethr.go:526`); the
  code takes up to 2GB (`ethr.go:328-330`), and uses the length in latency tests as
  well. `AcceptedTestsRun` has the limits of the code.
- `utils.go:448-450` says that an interval lasts 100ms after the statistics; the margin is 50ms
  (`utils.go:478`), which is what `RateKept` is checked with.
- A packet that is looked up, or counted, while its collector is between releasing the test and
  deleting the entry is counted on a test that is in no table any more, and in no statistics
  (`server.go:435-436` beside `450` and `461-465`). `PacketsCountForTheirSender` allows this
  and no more.
- `serverui.go:414`, `441` and `449` cut rates to whole numbers before `461` asks whether a dormant
  test has counted anything. Intervals are a second and a bit, so a single byte, connection or
  packet of an interval is shown as 0, and a TCP test, which is always dormant, has no row for it.
- A duration of less than a second means forever (`client.go:61-64`); the usage text
  (`ethr.go:509-511`) says so of 0 only. `client_run` has such a duration.
- `stats.go:169` promises rates from the time elapsed, but it is raised to a second, so
  that rates after a late tick are too low.
- `-6` takes an IPv4 address for a name, and for the local address: `To16` of one is not nil
  (`utils.go:437`, `ethr.go:165`).
- `-l` and `-i` are checked before they are cut to 32 bits (`ethr.go:241-242`); a multiple of 2^32
  arrives as 0. With `-i` of 43383509 or more the index of p99 wraps around
  (`client.go:581`).
- `-b` with `-r` has no effect: the server throttles by `test.clientParam`, which nobody sets
  there (`server.go:298`).
- `logLatency` takes the maximum last (`log.go:132`), its callers pass it third
  (`clientui.go:64`, `serverui.go:211`, `serverui.go:365`): the log has p50 to p9999 and the
  maximum under each other's names.

## 7. Known abstractions

- Payload is not modelled; transfer and echo loops are there until they fail. A stray
  payload in the handshake counts as a failed receive, as in the source.
- A failed `Accept`, a failed listen and an address that cannot be split have no effect on
  the modelled state and are left out.
- `emitTestHdr` and all other output is left out, except rows and sums.
- `startStatsTimerAt` tests and sets `statsEnabled` in one step in `ServerStats`; two runs
  that start at once on a single-client server could start two timers.
- `getTestResults` reads and resets `startTime` in one step; the source does so without a
  lock against the handlers, which is a data race on a three-word value.
- Handlers read `lastStatsTime` without a lock while the goroutine of the statistics writes it
  (`stats.go:162`, `168`). `SyncStart` takes the old or the new value; a torn one, which the code
  does not determine, is left out, and so is a goroutine that is late by a whole interval
  or more.
- `SetUpHangs` stands for any receive of the set-up that never returns. The same silence in a
  data connection's handshake (`client.go:392`) is part of it.
- A send of SyncStart or SyncGo on a broken connection may fail, or be lost unnoticed. In
  `SyncStart` the first is `ClientGivesUp`, which is enabled as soon as the control connection
  is broken, the second is `ClientSends`.
- The latency of a TCP test, which stays in the row forever once it is measured, is left out of
  `ServerStats`.
- `TraceRoute` has the probes of one ethr process. The ICMP identifier and the local ports
  are fixed, so a second process on the machine would be mistaken for the first. The
  destination stays at its distance, and `toStop` has room (it has 16 places and gets at
  most one reason from a trace route). Statistics read the counters of a hop without a
  lock; that is left out. So are the failing lookup of the destination's address, which ends
  the test at once, and `icmpRunPing`, whose one probe `ClientRun` has as a measurement.
- In `ClientRun` dialling a bandwidth test's threads is one step, with a duration.
- `ClientTraffic` has a rate and sends. Without `-b` there is no budget; with `-r` bytes are
  counted where they are received. UDP threads are the same, except that a failed or partial
  write is not counted and does not end them, and that their statistics come from a ticker.
  The SUM row and the numbers printed are left out.
- `Startup` has no permission for raw sockets (the test runs after a warning), no
  log file, and no listening socket of the server.
- `LatencyTest` leaves out the average, which divides by the same count, and the times
  themselves.
- The two halves of the server are checked with at most two actors of each kind; one run
  with both at full size is beyond TLC, and is what the theorems are for.

## 8. Not modelled, and the plan

Not modelled because there is nothing to check in a model: drawing (`ui.go`, the text UI of
`serverui.go`), socket options and dialling (`utils.go`), conversions to text (`utils.go`),
platform code (`plt_*.go`), packaging. The logger (`log.go`) only slows its callers down.

Planned, in this order:

1. The start of the statistics timer in two steps (`stats.go:123-129`), and network
   counters with their wrap-around.
2. Abstract specifications of the synchronized start (two parties agree on a
   moment) and of a client run (a test ends once, for one reason), with their refinement
   proved from the invariants that are there.
