# A verification project for the data-center cooling monitor

The program is a Go server (`src/backend`, `src/cmd/web`) that polls simulated
Modbus devices, computes PUE, suggests cooling allocations, raises alarms and
pushes everything to dashboards over WebSockets. This directory holds TLA+
modules that model its concurrent core, the TLC configurations that check them
on small instances, and proofs that hold for every instance.

Contents: [system](#1-the-system), [modules](#2-modules-and-how-they-correspond-to-the-code),
[runs](#3-runs), [fairness](#4-fairness), [proofs](#5-proofs),
[findings](#6-where-the-code-and-its-documentation-disagree),
[not modelled](#7-what-is-not-modelled), [plan](#8-plan).

## 1. The system

One process, wired in `cmd/web/main.go`. Data flows along channels; the arrows
marked `?` are sends with a `default` (the item is dropped when the channel is
full), `!` is a send that waits.

```
 ModbusGateway --?--> outCh(8)  \                      /--!--> hub.broadcast(256) --> WebSocketHub --?--> client.Send(256)
 PUECalculator --?--> outCh(8)   \                    /---?--> AlarmNotifier.telemetryIn(16), pueIn(16)
 CoolingOptimizer-?-> outCh(8)    >--> eventRouter --<
 AlarmNotifier --?--> outCh(16)  /                    \---?--> CoolingOptimizer.triggerCh(8)
```

| Component | State | Operations | Hard parts | What makes it correct |
|---|---|---|---|---|
| AlarmNotifier (`alarm_notifier.go`) | table `alarms`, `newAlarms`, `pendingDingTalk` (under `mu`), `retryCounts` | `checkAlarms`, `sendDingTalk`, `retryLoop`, `AcknowledgeAlarm` | two goroutines and HTTP handlers on one table; posts with timeouts; retries; early error returns; restart | one open alarm per key; bounded posts; no alarm in two hands or dropped by mistake; every alarm settled |
| WebSocketHub (`main.go:22-106`) | `clients`, three channels, per client `Send` and two goroutines | register, unregister, broadcast with eviction, reader, writer | two paths close one channel; slow and vanishing peers | no panic, no gaps, no leak, no stall |
| eventRouter (`main.go:108-160`) and the channels | four out channels, three input channels, metrics, table `telemetry` | take, store, send, forward, trigger | a blocking send inside a cycle of components; drops | lossy only at the door, ordered, exactly once; stored before shown |
| ModbusGateway (`modbus_gateway.go`) | one TCP connection under `mu`, `lastUsed` | `collect`, `getConnection`, `readRegister`, `cleanupLoop`, `InsertTelemetry` | short reads, late answers, connection reuse, close while in use | a reading is attributed to the device that made it |
| PUECalculator (`pue_calculator.go`) | table `pue_records` | `calculate` every interval | a window of samples beside the collection interval, zero divisors, statements that fail | cooling power is what the plant draws; PUE >= 1; parts add up |
| CoolingOptimizer (`cooling_optimizer.go`) | tables of demand and suggestions | ticker, trigger, `optimize` | inserts that partly fail; redistribution | shares add up; the tables agree; messages are whole and none is lost in silence |
| HTTP API (`api.go`) | - | read-only queries, except the acknowledgement | errors after a part of the work | a status for every outcome |
| Middleware (`gzip.go`, `metrics.go`) | pool of gzip writers, counters | wrap every handler | pooled writers, wrapped `ResponseWriter` | a response comes from its own request and is counted as sent; `/ws` is upgraded |
| Database (`database.go`, `db/init.sql`) | pool of 25, schema | - | foreign keys, defaults | - |
| Dashboard (`frontend/static/js/app.js`) | lists and charts | fetch, WebSocket messages, reconnect | fetched lists against pushed messages, requests that overtake each other, reconnection | what comes after the last fetch and connection is neither missing nor double |
| Simulator (`simulator/modbus_simulator.py`) | device state, anomaly flags | thread of ticks, `inject_anomaly` | unlocked flags | an injected anomaly lasts its time |

Facts about the process that every model uses:

- `main` ends in `log.Fatal` (`main.go:227-228`) and `docker-compose.yml`
  restarts the container (`restart: unless-stopped`). The root context is never
  cancelled before the process dies, so the `ctx.Done()` branches are dead and a
  stop is a crash: only the database survives.
- `cooling_optimizer.go:5` imports `database/sql` without using it, so the
  package does not compile as it stands. The models describe the program without
  that line.
- As wired in `main.go:217`, `/ws` runs behind the gzip and metrics wrappers,
  which hide `http.Hijacker`, so `Upgrade` fails for every client (run
  `http_upgrade`). WebSocketHub and Dashboard model what follows a successful
  upgrade, which is what the code intends.

`PROJECT.json` lists the hazards of this code line by line, with the properties
that cover each one or the reason none does yet.

## 2. Modules and how they correspond to the code

| Module | Role |
|---|---|
| `AlarmNotifier` | the notifier, the table, the webhook, acknowledgement, crash and restart; refines `AlarmDelivery` |
| `AlarmDelivery` | abstract specification: the life of an alarm from its row to its fate |
| `AlarmNotifierProofs` | all its safety properties and the refinement, proved |
| `WebSocketHub` | the hub goroutine and the handler, reader and writer of each connection; refines `AtomicBroadcast` |
| `AtomicBroadcast` | abstract specification: publication to all listening clients at once |
| `WebSocketHubProofs` | its safety properties and the refinement, proved |
| `EventFeed` | abstract specification: a lossy, ordered, exactly-once feed per source |
| `EventRouter` | the channels and the router; refines `EventFeed` |
| `MCEventRouter` | how many items each source makes, for TLC |
| `EventRouterProofs` | its safety properties and the refinement, proved |
| `ModbusGateway` | the collector, its connection, `cleanupLoop`, the device server |
| `ModbusGatewayProofs` | its safety properties, proved |
| `CoolingOptimizer` | a round of `optimize`: redistribution, inserts, failures, the offer |
| `MCCoolingOptimizer` | three kinds of readings, for TLC |
| `CoolingOptimizerProofs` | its safety properties, and the arithmetic of a PUE record, proved |
| `PUERecord` | the arithmetic of a PUE record |
| `PUECalculator` | `calculate` beside the gateway that stores telemetry |
| `MCPUECalculator` | the plant, for TLC |
| `HTTPServer` | both middlewares, the writer pool, the status codes of the handlers |
| `MCHTTPServer` | symmetry, for TLC |
| `HTTPServerProofs` | its properties, proved |
| `Dashboard` | the lists of the page, fetched and pushed |
| `MCDashboard` | sizes of the tables, for TLC |
| `DashboardProofs` | its safety properties, proved |
| `CommonLemmas` | queues, induction over sets, sums, for the proofs |

`EventRouter` is where the components meet. What it leaves open of each (whether
a check raises alarms, whether a round has suggestions, when the hub takes a
message) the module of that component fills in; each of those has in turn a step
`RouterTakes`, `RouterReceives` or `HubTakes` for its neighbour, which obliges it
to nothing unless the fairness section says so.

### AlarmNotifier

Goroutine `checker` is `Run` with `checkAlarms`; goroutine `retry` is
`retryLoop`. Each database statement, each critical section of `n.mu`, the
arrival of a post at the webhook and the return of `client.Post` are steps of
their own, so acknowledgements, the other goroutine and crashes come between any
two of them.

- `cpc` is the program counter of `checkAlarms`: `idle` (in the `select`),
  `scan` (the rows of the level-1 query), `insert` (between EXISTS and INSERT),
  `l2count`, `l2exists`, `notify` (the loop over `newAlarms` and the send on
  `outCh`).
- `rows`, `checks` are the part of the result set not yet visited. Which metrics
  are over their threshold is an arbitrary set (`CheckTick(S)`), which stands
  for the SQL aggregation and the order of the `if` statements over one row.
- `fresh` is `newAlarms` from the next one to post; `announce` says it was not
  empty.
- `sending[p]` is the `sendDingTalk` call of a goroutine: `post` (under way),
  `arrived` (the webhook has it, the answer is under way), `mark` (answered below
  300, UPDATE next). `PostFails` is possible from `post` and from `arrived`: a
  time-out after delivery is the case that makes duplicates.
- `pending` is `n.pendingDingTalk`, `batch` what the retry loop has still to
  visit of the slice it swapped out, `retryCounts` its map.
- `DBFaults` lets each statement fail (`CheckAborts`, `InsertFails`, an EXISTS
  that errors, an UPDATE that errors), and lets an INSERT commit whose answer is
  lost (`InsertAnswerLost`).
- The id of an alarm is its position in the table. Gaps in the SERIAL sequence
  after failed inserts are not represented; nothing depends on consecutive ids.
- `Crash` empties everything but the table. An INSERT of the dead process that
  commits after the restarted one has run its EXISTS is not represented: the
  first check starts one `CheckInterval` (60 s) after the start.
- `posts`, `arrived`, `ok`, `lost` are history.

`AlarmDelivery` has none of the goroutines, lists and counts. An alarm is raised when
its key has none open; it is owed until the webhook accepts it, its posts are used
up or it is forgotten; it is posted only while it is owed, and marked only when it
was accepted. The refinement maps the fate of an alarm (`Fate`) to `ok`, to being
in memory (`Held`), to `lost`. An alarm that is none of these must have been posted
`1 + MaxRetries` times or never been handed over, so an alarm dropped on the way
is a step the promise does not have.

### WebSocketHub

The hub goroutine is `Selecting` or visits the clients in `todo` for the message
`seen`; a Go map is visited in any order. `register` and `unregister` are
unbuffered, so send and receive are one step. `closes[c]` counts `close(Send)`;
a second close, or a delivery to a closed channel, would be the panic. A
connection object is used once. `WriteMessage` may succeed on a connection that
is gone, since the kernel buffers it.

`AtomicBroadcast` has no loop and no channels: a message is published to everyone who
listens in one step, each client gets what it is owed in order and at its own pace,
never owed more than `Room`, and only one that has left may lose some, the latest
ones. The refinement maps what a client is owed to what its writer holds, what waits
in `Send`, and the message whose visit is still to come; that one belongs to it from
the moment the hub takes the message, so the visits are invisible and registrations
and departures, which must wait for the loop to end, fall between publications.
`Room` is `SendCap + 2`: one in hand, a full channel, one to come. A client listens
while it is in the map and its writer runs. An eviction is a departure that loses the
last message, an unregistration one that loses none, a failed write one that loses
all it was owed.

### EventRouter

`at`, `src`, `item` say where the router is and with what. `TrySend` is the
`select` with a `default`. `high` is the set of PUE records over
`PUETriggerThreshold`, compared by the router (`ForwardPUE`) and by the
optimizer (`OptimizerTriggered`). The three gauges of `SetPUEMetrics` are one value and
the alarms of a batch are counted in one step, since no other goroutine sets them. The notifier drains its two inputs and does
nothing with them (`alarm_notifier.go:69-71`). `HubTakes` is the step of
`WebSocketHub` that `HubNeverStalls` shows to come.

`sent` and `shown` are history: what the router gave to `broadcast` and what the
hub took from it, per source. `Taken(s)` adds the item in the router's hand
before it is sent, `Accepted(s)` what waits in the out channel. The refinement
maps the queue of `EventFeed` to `Accepted(s)` without its first
`Len(shown[s])` items.

### ModbusGateway

`phase` is where the goroutine of `Run` is: `idle` (in its `select`), `connect`
(`getConnection` next), `write`, `header`, `data` (the three calls on the
connection for one unit), `backoff` (asleep), `returned` (a batch in hand),
`panicked`.

- `conn` is `g.conn`, `held` the local `conn` of `collect`: `cleanupLoop` may close
  and forget the first while the second is in use. `open` is the set of sockets
  the process has not closed. `getConnection`, `invalidateConnection` and a round
  of `cleanupLoop` hold `g.mu` for all they do, so each is one step.
- `idle` is `time.Since(g.lastUsed)` and `left` the time to the deadline of the
  connection, in clock steps; `-1` (never reached) would be no deadline, which is
  what line 196 sets and line 198 must replace.
- The device ranges of `collect` cover 1 to 120 without a gap, hence `1..Units`.
- Bytes are known by the request they answer and their place (`Piece`), with
  lengths scaled down: a header whose last byte is the length, and the registers.
  `conn.Read` takes what has arrived, up to the size of its buffer (`Took`), and a
  short read leaves zeroes. Where a header is read off its place its last byte is
  arbitrary (`ByteCounts`).
- The server answers in order, late or never; it may know only a prefix of the
  units (`--chillers` and its like) and answers the others with an exception of
  nine bytes; it may close or die, which may drop what has arrived.
- `whole` says that answers arrive in one piece. The simulator sends each by one
  `sendall` of 29 bytes, so this is how it behaves, but TCP does not promise it.
  Without it the code reads pieces of answers as headers, and TLC reaches `Panic`;
  `RightReadings` and `NoPanic` are claimed for `whole` only, the other
  properties for both.
- `epoch` and `genuine` are history. Transaction ids start again in every attempt,
  so they could not tell a late answer from a fresh one even if they were read.

The ticker fires at any time while `idle`, and a backoff ends at any time: how
long they are matters to no property.

### CoolingOptimizer

`optimize` is cut at its INSERTs: `loop` (a demand row next, or the end),
`suggest` (the row of the zone passed the threshold). The rows of its query are
read before any of them, so a round starts with a reading for each zone that has
devices and samples. Rows of both tables carry the round instead of the time.

- Heat loads are in units of `1/HeatLoadDivisor` and an optimal cooling is a
  fraction, so nothing is rounded: the floating-point error of the code is not
  represented, and `CoolingIsMoved` speaks of the exact shares.
- `Forget` is every return. A statement may fail with or without its row stored
  (`DemandFails`, `SuggestionFails`).
- `out`, `announced` and `lost` say what became of a round: its message waits, was
  taken by the router, or its suggestions are stored and nobody is told.
- Ids, powers and expected savings are left out. (The saving is the absolute
  change, so a zone that is told to use more is credited too,
  `cooling_optimizer.go:144-145`.)

### PUECalculator

Time is counted in collection intervals. Between any two statements of
`calculate` a batch may be stored, or an interval pass without one. The plant is
steady, so that what it draws is not in question. The arithmetic of a record is a
module without state, `PUERecord`, so that it can be proved about. Powers in a
record are in hundredths, which makes the loss ratio exact.

### HTTPServer

`at` is how far a request has come: `handler`, `count` (`MetricsMiddleware` after
its handler), `close` (`Flush` and `Close`), `put` (the deferred `Put`). A
handler is the set of status codes it may answer with; those of `/metrics`, pprof
and the file server are libraries, known by their documented answers. The file
server has the catch-all route (`main.go:215`), so that an unknown path or a wrong
method ends there too. `Methods(r)` is what the
two wrappers leave of the writer's methods. An error status goes past the gzip
writer (`WriteHeader`), the implicit 200 goes through it, since it is the first
write of the gzip writer that makes it; hence `Handle` sets `status` by two ways,
and a writer that were not reset would answer somebody else's request. A
`sync.Pool` may give a new writer although it holds idle ones. The file server writes
its 200 explicitly (`Implicit`). A 301 has no body, so that `Close` sends an empty
gzip stream; a 304 may have none, so that `Flush` and `Close` fail and their errors
are not looked at.

A failed upgrade answers 500, which gorilla/websocket sends by `WriteHeader`. With
the net/http writer the same handler answers 101.

### Dashboard

A row is its place in its table; `said[f]` is how far the messages have come.
`Push` broadcasts the rows of one message, `Drop` those of a message that found a
full channel, or of a check that failed. A request is answered when the server
runs its query and applied when its promise is resolved, and both may happen
long after it was sent and in any order; `switchTab` sends another for the trend.
`Connect` is the registration at the hub, from which on the hub sends everything
in order (`WebSocketHub!NoGaps`); `Close` loses what is under way.

`Extended` is what the three `case`s do to a list: `concat` for records, one
element in front for the other two (the server sends an array, which `unshift`
takes as one element), and a list that is `null` stays so because the method call
throws. `since` is the last row that a fetch or a reconnection may have hidden.

## 3. Runs

| Run | Question | Bounds |
|---|---|---|
| `alarm_safety` | can duplicates, lost custody, extra posts, leaks or reposts occur? | 1 device, 2 metrics, 2 alarms, 2 retries, 1 crash, faults |
| `alarm_liveness` | is every alarm settled, does every check end? | same, no crash |
| `alarm_unposted` | is every inserted alarm posted? (violated) | same, no crash |
| `alarm_level2` | is the level-2 alarm raised? (violated, without any fault) | same, no faults, no crash |
| `hub` | panic, gaps, leaks? does the hub refine `AtomicBroadcast`? does it stall, are connections reaped? | 2 clients, 3 messages, buffers of 1 |
| `router` | does the router refine the feed; order of store, metrics, trigger; is every accepted item shown? | capacities 1; 2 records, 1 batch, 1 suggestion, 1 alarm |
| `gateway` | socket leaks, misattributed readings, panics, mixed batches, a connection closed under a round? does every round end? | 3 units, 3 attempts, headers of 2 bytes, registers of 3, deadline 2, idle limit 3, backlog 2 |
| `optimizer` | do the tables agree, are messages whole, is a loss accounted for, do the shares of a round add up? | 3 zones, 3 kinds of readings, 2 rounds, `outCh` of 1, faults, crash |
| `pue_total` | is the cooling power of a record what the plant draws? (violated: three batches, three times the power) | 2 devices, 6 intervals, a window of 3 |
| `http_responses` | does a response hold its own bytes, all of them, and is it counted as sent? | 3 requests, 3 writers, 7 kinds of routes |
| `http_upgrade` | is `/ws` upgraded? (violated) | 2 requests, 2 writers |
| `dashboard` | is a row lost, doubled or shown out of order after the last fetch and connection? | alarms and trend, 2 rows each, 2 requests for the trend, `LIMIT` of 1 |

Why the bounds are enough for the interesting cases:

- Two alarms let one wait in `pending` while another is in a call of either
  goroutine, and let a key be raised again after an acknowledgement. Two retries
  separate "first", "last allowed" and "one too many". An `outCh` of one fills
  up. The proofs remove these bounds altogether.
- A client is evicted when its `Send` is full and its writer holds one message,
  so `SendCap + 2` messages are needed: three with buffers of one. Two clients let
  one be evicted while another goes on. The proofs cover every size.
- With capacities of one, every channel of the router fills up, so each `default`
  branch and the waiting send are taken. Two records suffice to trigger the
  optimizer while it works; the other sources need one item each to be reordered
  against each other, and order within a source is seen on the records. The
  refinement is proved for every size.
- Three units and three attempts let an attempt fail before, between and after
  good readings, and a failed attempt be followed by one that fails and one that
  succeeds. `IdleLimit` is one over `ReadTimeout`; the assumption allows them to
  be equal, and the proofs cover that. `MaxBacklog` bounds what
  split answers leave unread when the next request is written; with whole answers
  nothing is ever left (proved), so it cuts only the behaviours of the other kind.
- Three zones are the least in which a round fails between two that differ, and
  the readings are the three the arithmetic tells apart: a warm zone, one under
  its setpoint, and a warm one without cooling. Two rounds with an `outCh` of one
  let one be announced, one be dropped, and one fail after the other.
- Six intervals are two ticks, so that a window is seen full and with lost
  batches; the code has ten intervals to a window.
- Three requests let two share a writer one after the other while the third holds
  another; any of them may be for any of the routes, of which the file server's has
  the most outcomes. The mutant of `OwnResponse`, a writer that is not reset, needs two.
- Two rows and two requests per list let an older answer come after a newer one
  and after a message. With `LIMIT` 1 the alarm list loses rows that a fetch cuts
  off. Each feed was also checked alone with four rows.

`alarm_liveness` leaves out crashes: a bounded number of them only adds
restarts of the same behaviour, from a state the safety run has covered.
`CHECK_DEADLOCK FALSE` stands in the configurations of the hub, the router, the
optimizer, the HTTP server and the dashboard, where the number of messages,
rounds, requests or rows is bounded, so these models really come to rest, and in
that of the gateway, where a panic ends the process. The notifier is checked for
deadlock.

Each property of a passing run has a mutant: a plausible bug in one definition,
written next to it in the module, under which TLC finds the property violated
(`PROJECT.json`, `mutants`).

## 4. Fairness

- Notifier: weak fairness of each goroutine. `http.Client` has a timeout of ten
  seconds, statements return or fail, both tickers keep firing. Nothing makes a
  post succeed, an operator acknowledge or the router read `outCh`.
- Hub: Go's `select` chooses uniformly among ready cases, so a case that is ready
  again and again is taken: strong fairness of `TakeMessage` and of
  register/unregister. The visit of a client, and the goroutines of a connection,
  have weak fairness, except `WriteMessage`, which has no deadline
  (`main.go:100`): it is only obliged to return once the connection is gone.
  Hence `GoneIsReaped` starts from a connection that is gone.
- Router: weak fairness of its own steps and of the hub, strong fairness of each
  case of its `select`. No producer is obliged to produce. The optimizer's
  statements return, and its `select` is fair to the trigger.
- Gateway: weak fairness of the collector (the ticker fires, sleeps end, a dial
  answers or fails within `dialTimeout`, a call on the connection returns when it
  can) and of the clock. Server and network owe nothing.
- Optimizer, calculator, HTTP server and dashboard have no liveness properties:
  each may fail at every statement or request and then has nothing to reach.

## 5. Proofs

Checked by TLAPS for every value of the constants, under the assumptions named
in the modules (device ids are positive, capacities are positive, bounds are
naturals, sets of requests and zones are finite).

`AlarmNotifierProofs` proves `Spec => []P` for every safety property of the
notifier, and that it implements `AlarmDelivery`. The invariant is built in layers. Each is inductive given the earlier
ones:

1. `TypeOK`: types, and every id in memory is a row.
2. `SingleCustody`: the five places that hold alarms are disjoint and without
   repetition. It is what makes the layers above possible: a step that moves an
   alarm says nothing about the others otherwise.
3. `CountsAreLive`: no count without an alarm in retry. It gives a first count
   of zero when the checker posts.
4. `Tallied` and `PostBound`: an alarm in retry has been posted once plus its
   count, and its count is within the limit. `PostBound` alone is not inductive:
   it does not say that the count and the posts go together.
5. `Marks` and `SentMeansArrived`: an accepted alarm is held only by the call
   about to mark it. It also yields the action property `NoRepostAfterOk`.
6. `GivesUpOnlyAfterMax`: from 4 (a count at the limit means all posts are used)
   and 5 (an alarm that leaves after the UPDATE was accepted).
7. `AtMostOneOpen` with `InsertIsFirst` (no row of the key is open while the
   checker is about to insert it), independent of 2-6.

The proofs do not look at the actions more than once: `StepCases` sorts every
step into nine kinds, and one lemma per kind (`InsertionMoves`,
`ForgettingMoves`, `CheckerPostMoves`, ...) says what it moves between the
places. The layers use only these. `CommonLemmas` has the facts about sequences.

8. `DeliveryStep`: every step is a step of `AlarmDelivery` or leaves the table, the
   posts and the fates alone. It needs all of the above and `HeldNotLost`: what
   the process forgot it does not hold, so that an alarm given up is not counted
   as forgotten. `DeliveryRefined` follows.

`Tallied`, `Marks`, `InsertIsFirst` and `HeldNotLost` were checked with TLC on the
instance of `alarm_safety` before they were proved, as was the refinement, which
the run still checks.

`WebSocketHubProofs` does the same for the hub, for any number of connections:

1. `TypeOK`.
2. `Lifecycle`: `closes[c]` is 1 exactly when `c` was registered and has left the
   map, and the hub only visits clients of the map. `NoPanic` and `LeftIsClosed`
   follow; neither is inductive, as the first says nothing of clients outside the
   map and the second nothing of those inside.
3. `Streams`: the messages in `broadcast` are numbered on from `seen`; what a
   writer has written, what it holds and what waits in `Send` are three sequences
   each of which counts up from where the one before it ends; a client of the map
   lags by the message the hub still owes it. `NoGaps` and `NothingMissed` follow
   by joining the sequences (`StreamShape`).
4. `BroadcastStep`: every step is a step of `AtomicBroadcast` or invisible to it, with
   one lemma for each kind (`TakePublishes`, `RegisterJoins`, `WriteReceives`,
   `EvictLeaves`, ...). It needs 2 (a visit is only to come for a client of the map, so
   a writer that ends was owed nothing) and 3 (the hand is empty when the writer takes
   the next message, and `seen` goes up by one). `BroadcastRefined` follows.

`Lifecycle` and `Streams` were checked with TLC on the instance of `hub` first, and the
refinement is a property of that run.

`ModbusGatewayProofs` proves every safety property of the gateway, for any number
of units and attempts, any lengths of header and registers and any pair of
timeouts with `ReadTimeout <= IdleLimit`:

1. `TypeInv`: types, and a backoff is entered only when an attempt is left.
2. `SocketInv`: `OneSocket`; the attempt holds `g.conn` or a closed socket; the
   deadline and `lastUsed` move together (`TimersAgree`). The last is what makes
   `CleanupHarmless` true: an idle time over the limit leaves no time to read.
3. `Ordered`: an attempt has the readings of the units before the current one.
   `WholeBatch` follows.
4. `Framed`, when answers arrive whole: nothing is under way outside an attempt
   and before a request; after a request it is unanswered, answered or lost; after
   a header its registers are next, or nothing is. `RightReadings` and `NoPanic`
   follow. Neither is inductive: both need that a connection which is kept has
   nothing unread, which invalidating it after every failure provides.

The lemmas on bytes (`PieceType`, `Frames`, `ReadFirst`) say what an answer is
and that a read of the length of its first part takes exactly that part.

`EventRouterProofs` proves every safety property of the router and that it
implements `EventFeed`, for any capacities and numbers of items:

1. `TypeOK`.
2. `StoredInv`: what the hub was given has been through the database, and so has
   the batch the router is about to send. `StoredBeforeShown` alone does not say
   the latter. `TriggerInv` is its counterpart for the trigger.
3. `MetricsMatchFeed`, from `TakenStep`: the way of an item through the router
   changes nothing of what was taken; only taking one does.
4. `ItemsInv`: what was accepted of a source are items it made, with rising
   numbers. This is what "exactly once and in order" rests on.
5. `ChannelInv`: the hub has shown the beginning of what it was sent; its channel
   holds the rest (`Carried`, `Carries`), in turn for each source (`InTurn`), and
   nothing else (`Counted`). Together they say which item the hub takes next
   (`TakesNext`) and that a source has no more than `BroadcastCap` items there.
6. `FeedStep`: an offer that finds room is `Feed!Accept`, a step of the hub is
   `Feed!Show`, every other step leaves the feed alone. `FeedRefined` follows.

`ItemsInv` and `ChannelInv` were checked with TLC first, with a hub channel of two.

`CoolingOptimizerProofs` proves every safety property of the optimizer, for any
zones, readings, thresholds and failures:

1. `Typed`: `TypeOK`, and the zones to visit and found are of the round.
2. `Stored`: a suggestion has its demand row (`SuggestionHasDemand`).
3. `Rounds` and `Whole`: what the loop has found is what it has stored in its
   round, a round that is over gains no rows, and messages are of rounds that are
   over. `MessagesAreWhole` and `NoSilentLoss` follow.
4. `Shared`: the demand rows of the round under way are those of the zones visited,
   each with the share of its zone. With it `CoolingIsMoved` is inductive: when
   the last zone has been visited, the rows of the round add up to the shares of all
   zones. That these are the whole (`SharesAddUp`, `RoundMoves`) is where sums come
   in: a common factor can be taken out of a sum, and what the zones are
   allocated adds up to what they would have in the optimum. Rows of earlier rounds
   are left alone, which is `Whole` again.

`Typed` and `Shared` were checked with TLC on the instance of `optimizer` first.

`PUEAtLeastOne`, in the same module: for every reading and ratio a PUE record has a
positive IT power, a PUE of at least one and parts that add up, provided
`ITDefaultPower` is above zero. With a default of 0 and no readings the division
is 0/0, and nothing in `config.go` excludes it.

`HTTPServerProofs`: `Custody` says that a writer in a request's hands is in nobody
else's and not in the pool, and writes to that request's response; the pool may
hold writers that still point at an old one. `Response` follows a response from
step to step, and `OwnResponse` is its last. The counters are sums over requests, so
`CountedAsSent` is proved through the cardinality of the set that a step enlarges
by one.

`DashboardProofs` proves both safety properties of the page, for any number of
rows, requests, reconnections and any `LIMIT`, under `DashboardAssumption` (these
bounds are naturals):

1. `Typed`: `TypeOK`, and a list is made of places of its own feed.
2. Flattening: `FlattenSeq` of a list with one element more, in front or behind, and
   of two lists joined (`FlatAppend`, `FlatConcat`, `FlatSingles`). A list is flattened
   to compare it with the table, because an array pushed is one element of it.
3. Order: `Shows(s, n, T)` says that of the numbers over `n` the sequence has
   exactly those of `T`, rising. `Lists` is the same of all of it. `ListsConcat`
   joins two, `ListsSplit` takes them apart where the first one ends.
4. `ListOrder` and `WireOrder` meet at `got`, the last row the page has received:
   the list shows what was said up to there, the messages under way list what
   was said after. `LaterRowsShown` is the two joined (`ShowsConcat`). It is not
   inductive: it tells neither where the list ends and the messages begin, which
   an answer that replaces the list needs, nor anything of a closed connection,
   whose list the next one goes on from.

The invariants 1 and 4 were checked with TLC on the instance of `dashboard` first.

`CommonLemmas` holds what more than one of these proofs needs: append and tail of
queues, sums over finite sets, and induction over numbers, sequences and finite
subsets. The induction is stated for a set (a set of naturals that has 0 and the
successor of each member is `Nat`) instead of a predicate, so that the provers can
instantiate it.

Only model-checked: the liveness properties, since fairness and `ENABLED` are out of
the prover's reach. Every invariant and action property that a passing run
checks is proved.

## 6. Where the code and its documentation disagree

- `alarm_unposted` / `EveryAlarmPosted`: `checkAlarms` returns `(nil, err)` when
  `rows.Err`, `rows.Scan` or the level-2 count fails after some INSERTs. The rows
  stay open, nobody is told, and the EXISTS query keeps silent about that key
  until somebody acknowledges an alarm they never saw. `src/README.md:44` promises
  broadcast and DingTalk for every alarm.
- `alarm_level2` / `L2AlarmRaised`: the level-2 alarm inserts `DeviceID` 0 into a
  column that references `devices(id)` (`db/init.sql:70`), so the INSERT always
  fails and is only logged. `src/README.md:94` documents the level-2 duration.

- `pue_total` / `CoolingIsTotalPower`: `calculate` sums the power of every sample
  of the last five minutes (`pue_calculator.go:58`), about ten samples of each
  device, while the IT power is an average. In the run, three batches of a plant that
  draws 3 make a record of 9; where one of them was lost, of 6. The record, and with it the gauge that
  `src/README.md:190` calls the total cooling power, is about ten times too high
  and depends on how many batches were stored; the PUE with it, which is what
  triggers the optimizer and the level-2 alarm. `GetCoolingTotalPower`
  (`pue_calculator.go:146`) takes the newest sample of each device.
- `http_upgrade` / `UpgradeSucceeds`: the wrappers of `main.go:217` embed
  `http.ResponseWriter` and so lack `Hijack` (`gzip.go:16`, `metrics.go:119`).
  Every request for `/ws`, which `src/README.md:176` documents, is answered 500,
  with and without gzip.

Read off the code while modelling, without a run of their own:

- The alarm and optimization messages carry an array (`main.go:149,156`), which
  `app.js:104,110` puts into the list as one element: a card without text until
  the list is fetched again, which it never is.
- A nil slice is encoded as `null`, so a page opened before the first alarm throws
  on every pushed one. `LaterRowsShown` leaves such lists out.
- `/metrics` is compressed by promhttp and again by the middleware.
- `metrics.go:102-108` labels every request `_unknown_`, since the middleware is
  outside the router; `src/README.md:184` promises the path.
- `wsConnections` and `dbQueryDuration` (`src/README.md:193-194`) are never set.
- The configuration is read once at start; `src/README.md:83` says it can be
  changed at run time.

## 7. What is not modelled

- SQL aggregation and alarm thresholds: which metric is over its threshold is a
  free choice in `AlarmNotifier`, which covers every outcome of the queries, right
  or wrong.
- What the read-only handlers select, beyond the lists of the dashboard, HEAD requests,
  and the rarer answers of the file server (403, 412, 416), which are made as its 404
  and its 301 are.
- Two hazards that the models contain and no property faults, because no document
  promises otherwise: alarms forgotten in a restart (`AlarmDelivery` has the step), and an
  alarm acknowledged while it is in retry, which is still posted. A third, a short
  read that ends in a panic, is reached by `ModbusGateway` with answers in pieces.
- Of the dashboard: device states and the current PUE, where whatever came last
  is shown; the alarm counts, where a late answer may overwrite a newer one until
  the next alarm; rendering.
- The simulator beyond its connection handler: its thermal model is the
  environment, and `inject_anomaly` races only with its own thread.
- Configuration, data models, drawing code, schema beyond `alarms`, Docker beyond
  the restart: values, declarations and presentation without behaviour of their
  own.
- The connection pool: only the row loop of `checkAlarms` holds one connection
  while it asks for a second, and it is one goroutine against a pool of 25.
- Shutdown: `ctx` is never cancelled.

## 8. Plan

1. Done: `AlarmNotifier`, `WebSocketHub`, `ModbusGateway`, `EventRouter` as a
   refinement of `EventFeed`, with the proofs of their safety properties and of
   the refinement.
2. Done: `CoolingOptimizer`, `PUECalculator`, `HTTPServer` and `Dashboard`, with the
   proofs of their safety properties.
3. Done: `AlarmDelivery` and `AtomicBroadcast`, the promises of the notifier and of the
   hub, and the proofs that they are kept.
4. Next, proofs: that the `wire` of `Dashboard` is what `AtomicBroadcast` leaves between
   the hub and one page.
5. Next, model: the simulator's anomaly flags beside its connection handler.
