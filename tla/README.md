# Verification of gopayground

gopayground is a payment pipeline in Go: producers send payment events to a
Kafka topic, a group of consumer processes records each event in Redis and
DynamoDB (or in a dead letter queue), and a web UI shows them as they arrive.
This directory holds TLA+ models of its logic, the TLC configurations that
check them on small instances, and TLAPS proofs of what holds for every
instance. Paths below are relative to `src/`.

## 1. The system

### Components

| Component | Source | State it keeps | Operations |
|---|---|---|---|
| Consumer loop | `cmd/consumer/main.go` 137-211 | `consumeCtx`, the Sarama session | start, `Consume` (join), SIGTERM, end of session, exit |
| Message handler | `internal/consumer/handler.go` | the semaphore; per message the attempt number | `ConsumeClaim`, `processMessage` |
| Validator | `internal/validator` | none | `Validate` |
| Idempotency checker | `internal/idempotency` | `idempotency:<payment>` keys in Redis, with expiry | `IsProcessed` (EXISTS), `MarkProcessed` (SET NX) |
| Status updater | `internal/status` | `payment:<id>` hashes in Redis, with expiry | `UpdateStatus` |
| History recorder | `internal/history/dynamodb.go` | table of (payment, timestamp) rows | `RecordHistory` (conditional put) |
| Retry handler | `internal/retry` | the attempt | `Do` |
| DLQ producer | `internal/dlq` | a goroutine per send | `Publish` |
| Event publisher | `internal/events` | none (Redis channel `payment:events`) | `Publish` |
| Kafka provider | `internal/kafka` | none | group settings, `NewSyncProducerWithRetry` |
| Table bootstrap | `internal/history/dynamodb_init.go` | the DynamoDB table's existence | `EnsureTable` |
| Event bus | `internal/ui/events.go` | subscribers and their buffered channels | `Subscribe`, unsubscribe, `listenRedis`, `Publish`, `Close` |
| SSE handler | `internal/ui/handlers.go` 26-140 | semaphore of 100, connection counters | `HandleSSE` |
| UI server | `internal/ui/server.go`, `cmd/ui/main.go` | HTTP server, shutdown goroutine | `Start`, `Shutdown`, `main` |
| UI queries | `internal/ui/handlers.go` 142-322 | none | list, history, metrics, health |
| UI publish | `internal/ui/handlers.go` 324-544 | none | forward to the producer, then publish to the bus |
| Producer service | `internal/producer` | a ticker | `Publish`, event generators |
| Producer CLI and server | `cmd/producer/main.go` | HTTP server, background start-up publish | `publish`, `serve` |
| Dashboard client | `internal/ui/static` | payments shown, the EventSource | initial load, stream, history |
| Health server | `cmd/consumer/main.go` 213-258 | none | two probes |
| Models, configuration, telemetry, client factories | `internal/models`, `internal/config`, `pkg/telemetry`, `internal/provider` | none of their own | - |

### Interactions

Producers write to the topic with the payment id as the key, so that the events
of a payment are in one partition. The group assigns every partition to one
consumer process, which runs one `ConsumeClaim` goroutine per partition. The
goroutines of a process share the semaphore and every process shares Redis,
DynamoDB and Kafka. All calls made for a message use the session's context: a
rebalance, an expulsion or a SIGTERM cancels whatever is in progress.
`session.MarkMessage` sets the offset that autocommit will commit. After a
success the handler publishes to the Redis channel to which the event bus of
every UI process subscribes, and the bus copies the event to the buffered
channel of each SSE connection.

A publish request from the browser goes to the UI, from there over HTTP to the
producer server, and from there to the topic; after an answer 200 the UI itself
publishes the event, with a timestamp of its own, to the same Redis channel
(`internal/ui/handlers.go` 434-447): a payment that was published from the browser
is announced by the UI, and again by the consumer if that gets to it. List and metrics are computed from a SCAN of the
status keys that consumers write. Consumer and UI ensure the table when they
start; the container runtime starts again what exits.

### What is hard

Faults between the steps of `processMessage` (there are seven calls to three
services), the cancellation of a message in progress, redelivery after a crash,
a process that has been expelled from the group without knowing, the shared
semaphore, DLQ sends whose outcome nobody waited for; in the UI, a `Close` that
races subscriptions, slow readers, a main that returns before the shutdown
it started, and queries over keys that change under them; in the producer, a
batch that is cancelled between a check and a send, sends whose failure is
ambiguous, callers that give up on an answer, and a producer closed while others
still use it; at start-up, processes that race for the same table and services
that come and go. `PROJECT.json` lists these under `hazards`, each with its line and
the properties that cover it.

### What makes it correct

* offsets: commits never pass an unhandled message, never go back, and stop
  just after a success (`NoSkip`, `OffsetMonotone`, `FrontierSucceeded`);
* stores: success, the feed and the status are backed by the history, the DLQ,
  the topic or an idempotency key, and one event of a payment is applied at most
  (`SuccessBacked`, `FeedBacked`, `DivergenceVisible`, `CommittedIsAccounted`,
  `OneEventApplied`, `CountTracksDLQ`);
* resources: semaphore tokens of the consumer belong to messages in progress (`SlotsHeld`);
* progress: messages settle and cancelled sessions end (`MessageSettles`,
  `CancelledSessionEnds`);
* the feed: channels are closed once and never written to afterwards, slots
  belong to requests, events arrive in order and without gaps that nothing
  explains, slow clients hold up neither the others nor the shutdown, and a signal
  ends the process
  (`NoPanic`, `SlotsMatchRequests`, `FeedInOrder`, `FeedGapless`, `RefinesFeed`,
  `FeedDrains`, `GoneReleases`, `SignalStops`);
* publishing: results stay with their events, reports and exit status are true,
  cancellation stops sends, a signal ends the program (`ResultsAligned`,
  `RefinesContract`, `ExitCodeTrue`, `FeedMeansPublished`, `CancelStopsSends`,
  `SignalEnds`);
* start-up: connecting is bounded, a table exists once it has been ensured, and
  everybody becomes ready (`ConnectBounded`, `PassedMeansTable`, `TableReturns`,
  `AllReady`);
* queries: rows are true, lists miss nothing, metrics are off by a known amount,
  requests end (`RowsTrue`, `ListComplete`, `MetricsBounds`, `RequestEnds`).

## 2. The modules

| Module | Contents |
|---|---|
| `PaymentConsumer` | the consumer processes, their group, and every component the handler calls |
| `OffsetContract` | what the group promises of a partition: at-least-once handling, offsets that only move forward |
| `MCPaymentConsumer` | event sets and key assignments for TLC |
| `PaymentConsumerProofs` | type correctness and the safety invariants, for all instances |
| `PaymentConsumerAccounting` | where every message is, and what `dlq:count` shows, for all instances with the faults each theorem names |
| `PaymentConsumerRefinement` | monotone offsets, and that `PaymentConsumer` implements `OffsetContract` |
| `EventBus` | the UI process: the bus, its listener, the SSE requests and the shutdown |
| `FeedContract` | what the live feed promises each client: a bounded queue, filled in order |
| `MCEventBus` | clients and their symmetry for TLC |
| `EventBusProofs` | type correctness, channels, slots, and the order and gaps of the feed, for all instances |
| `EventBusRefinement` | that `EventBus` implements `FeedContract`, for all instances |
| `Publisher` | `service.Publish`: batches, cancellation, results, the shared Sarama producer |
| `PublishFlow` | extends `Publisher` by the program `cmd/producer` and the UI's publish handlers |
| `PublishContract` | what a publisher of batches promises to those who asked for them |
| `MCPublishFlow` | the batches of the instance for TLC |
| `PublishFlowProofs` | safety of `PublishFlow`, and that it implements `PublishContract`, for all instances |
| `Bootstrap` | the start of the processes: `EnsureTable`, the connection to Kafka, restarts |
| `MCBootstrap` | the three processes for TLC |
| `BootstrapProofs` | types, the bounded connection loop and the table, for all instances |
| `UIQueries` | list and metrics over a SCAN |
| `MCUIQueries` | two payments for TLC |
| `UIQueriesProofs` | types, true rows, complete lists and the bounds of the metrics, for all instances |

### PaymentConsumer

A worker `<<c, p>>` is the `ConsumeClaim` goroutine of process `c` for partition
`p`. Its label `pc` says which call is next:

| `pc` | Next step of the code | Actions |
|---|---|---|
| `off` | no claim on the partition | `Join` |
| `idle` | `range claim.Messages()` | `Receive`, `FinishClaim` |
| `acquire` | the `select` on the semaphore | `AcquireSlot` (and validation), `AcquireCancelled` |
| `check` | `IsProcessed` | `SkipProcessed`, `Proceed` |
| `mark` | `MarkProcessed` | `MarkProcessed` |
| `status`, `history` | the two writes of an attempt | `UpdateStatus`, `RecordHistory` |
| `backoff` | the `select` between delay and cancellation in `retry.Do` | `Backoff` |
| `dlq`, `incr` | `dlq.Publish`, then `INCR dlq:count` and the error return | `PublishDLQ`, `IncrDLQCount` |
| `publish` | `eventPublisher.Publish` and the nil return | `PublishEvent` |
| `done` | `ConsumeClaim` has returned | `EndSession` |

The other actions are the environment and the process: `Arrive` (producers),
`Announce` (the UI publishes an event of its own to the feed after the producer's
answer 200; `FromUI` says which events came that way),
`Start`, `CancelSession`, `Sigterm`, `Evict`, `Crash`, `CommitOffset`
(autocommit), `EndSession`, `LateSend` (the abandoned goroutine of a DLQ send),
`Expire` (time to live in Redis). `phase` places a process in its loop: `down`,
`between` two `Consume` calls, `live`, or with a cancelled session that will
rejoin (`ending`) or exit (`stopping`).

`tried`, `succ`, `skipped` and `attempted` are history variables: no action reads
them. `feed` is what has been published to the channel `payment:events`, each entry
with its writer, the consumer or the UI.

How calls fail. A constant `Faults` names the services that may fail and the
events that may happen in an instance. A call to a failing service can fail
before or after its effect, as a lost reply looks to the caller. Every call
made under a cancelled context fails without an effect, except that a DLQ send,
which runs in a goroutine of its own, may still go through later. A call that
succeeds is one step, taken before the cancellation if there is one.

Abstractions:

* Payloads are records of payment, status and timestamp, or `Malformed`. An
  event in `Early` is dated ahead of the consumer's clock: the validator may
  refuse it now and accept it when it is delivered again.
* A member may join the free partitions while another still holds others. The
  eager rebalance of Sarama stops everybody first, so that its runs are among
  the modelled ones.
* A crash frees the partitions at once; `Evict` covers the session timeout of
  a process that lives on.
* DLQ sends in flight are a set: two abandoned sends of one message by one
  process count as one.
* A read of the idempotency key that fails is one of the outcomes of `Proceed`.

### OffsetContract

State: the log, the messages handled, those handled with success, and the
committed offsets. `Commit` may move any number of offsets, each forward, past
handled messages only, to the one after a success. `PaymentConsumer` maps to it
by its variables of the same names.

### EventBus

Events are numbered in the order of their publication to the Redis channel. The
listener goroutine is `lpc` with the `event` it distributes and the subscribers
`todo` it has not offered it to; it holds the read lock of the bus while `lpc` is
"send". `subs` is the map of subscribers; `chan[k]` and `buf[k]` are the state and
the contents of the channel of client `k`'s request.

| State | Next step of the code | Actions |
|---|---|---|
| `lpc = "wait"` | the `select` of `listenRedis` | `Take`, `StopListener` |
| `lpc = "send"` | a `select` with `default` per subscriber, then `RUnlock` | `Offer`, `Unlock` |
| `pc[k]` in `off`, `refused` | `HandleSSE` takes a slot of the semaphore or answers 503 | `Request` |
| `slot` | `Subscribe` | `Subscribe` |
| `stream` | the `select` of `HandleSSE` | `Send`, `Leave` |
| `leaving`, `unsubscribed` | the deferred `cancel`, then the deferred release of the slot | `Unsubscribe`, `ReturnSlot` |
| `spc` | signal, `EventBus.Close` in two steps, `http.Server.Shutdown` | `Signal`, `CancelBus`, `CloseAll`, `StopAccepting`, `FinishShutdown`, `ShutdownTimeout` |
| `main` | `Start` returns, as the socket was closed or with an error, and the process ends | `MainExit`, `ServeFails` |

`Publish` is any process that publishes to the channel, `Link` and `Unlink` are the
subscription at Redis, and `GoAway` is a browser that closes its connection. `lost`
and `dropped` are history variables.

Abstractions:

* Only well-formed events are published. What is published while the link is
  down is lost, and so is what exceeds the 100 messages go-redis queues, which
  is beyond the bound on events.
* `BufSize` is at least 1, as configured by default: with 0 an event would be
  handed to a handler that waits for it and dropped otherwise.
* Heartbeats, the logging and the connection counters are left out.
* A slot that Subscribe has not yet turned into a subscription can only wait for
  the lock: the test for `http.Flusher` always succeeds behind the middleware.

### FeedContract

State: the events published and lost, and per client a phase, the queue of what it
will be given, what it has been given since it came, and what found its queue full.
`NextFor(k, n)` says when `n` may be offered to `k`: it is newer than all `k` has,
and whatever lies between was lost or missed. `Enqueue` needs room, `Miss` a full
queue. `CutOff` stops everybody's offers but not what is queued.

| Contract | Event bus |
|---|---|
| `Emit` | `Publish`, with the link up or down |
| `Come`, `Go` | `Subscribe`, `Unsubscribe` |
| `Enqueue`, `Miss` | the two branches of `Offer` |
| `Give` | `Send` |
| `CutOff` | `CloseAll` |

`phase` is "off" outside `stream` and `leaving`, else "open" while the channel is in the map
of subscribers and "closing" afterwards; `queue` is `buf`, `given` is `got` and
`missed` is `dropped`. All other steps leave these unchanged.

### Publisher and PublishFlow

A batch is one call of `service.Publish`. `ppc[b]` is its goroutine, `next[b]` the
event it is at and `results[b]` the slice it builds:

| `ppc[b]` | Next step of the code | Actions |
|---|---|---|
| `idle` | the call | `Connect` (start-up batch, command), `Accept` (request) |
| `check` | `ctx.Done` at the top of the loop, then marshalling and validation | `Check` (with `Prepare`) |
| `tick` | the `select` between the ticker and `ctx.Done` | `Tick` (with `Prepare`) |
| `send` | `SendMessage` hands the message to Sarama | `BeginSend`, `Panic`, `Abort` |
| `sending` | `SendMessage` returns | `EndSend` |

`Deliver` is the broker. Only the leader acknowledges and the producer is not
idempotent, so that a send that is reported as failed may have reached the topic,
or do so later. `client` is the `SyncProducer` all goroutines share: after `Close`
has begun (`draining`) Sarama refuses messages, and once it is `closed` a send
panics: in the start-up goroutine that ends the process (`Panic`), in the handler of
a request `net/http` recovers it and closes the connection (`Abort`).

`PublishFlow` adds `main`, the main goroutine of the command (`reading` its events,
`connecting`, `publishing`) or of the server (`connecting`, `serving`, then the
deferred calls `closing` and `flushing`), and per HTTP
request the handler of the server (`hpc`, `answer`) and that of the UI (`upc`,
`reply`):

| Part of the code | Actions |
|---|---|
| `run`, `runPublish` | `ReadEvents`, `Connect`, `GiveUp`, `DryRun`, `Finish` |
| `runServe`: signal, shutdown goroutine, `ListenAndServe`, deferred calls | `Signal`, `StopServing`, `ListenFails`, `Closed`, `Exit` |
| `handlePublish`, `handlePublishBulk` | `Accept`, `Answer`, `Abort` |
| `HandlePublish`, `HandlePublishBulk` of the UI | `UIRefuse`, `UIGiveUp`, `UIReceive`, `UIFeed` |
| deadlines and clients that leave | `Expire` |

A connection that was accepted before a signal may bring its request while `main`
is already in its deferred calls, as nobody waits for `Shutdown`: `Accept` is
possible as long as `Reading` says so.

Abstractions:

* Contents of events are left out: an event of a caller may be valid or not, one
  that is generated is valid.
* Deadlines are steps that may happen at any time of a call. That covers the ten
  seconds of the UI's HTTP client, shorter than the thirty the server gives a
  bulk request, and its write timeout of ten seconds.
* The copies that Sarama's own retries leave in the topic are not counted: the
  topic is a set.
* `late` is a history variable. So is `told` in the contract, defined from what the
  caller got: the UI's reply, the printed results, or the log of the start-up
  batch.

### PublishContract

State: the events in the topic and what each caller has been told of each event.
An event reported as published is in the topic at that moment; one reported as
absent is not, and never will be; of an unknown one nothing is promised.

### Bootstrap

`pc[p]` goes through `describe`, `create`, `wait` (`EnsureTable`), `group` (the
consumer group, created without a retry) and `dial`, `sleep`
(`NewSyncProducerWithRetry`) to `ready`, or to `exited` from where the container
runtime starts it again. Time is counted in the half seconds of the connection
loop only: `elapsed[p]` adds delays and attempts. The environment activates a
created table, makes Kafka and DynamoDB available and unavailable, and, as the
emulator of the compose file keeps its tables in memory, may lose the table.
A signal cancels the connection loop only in `serve` and `publish`; the consumer
passes `context.Background()` and no process handles signals before that, so it
simply dies.

### UIQueries

One handler, one request after the other. `page` holds the keys of a SCAN page
still to be read, `last` whether the cursor came back 0, and `reads[p]` what the
HGETALL or HGET of each return of `p` gave. Redis promises only that a key that
exists throughout a full iteration is returned: `ScanReply` says just that, so
pages may be empty, repeat keys or hold keys that have just come. Meanwhile the
consumer sets statuses and keys expire (`Set`), and the five seconds of the
request may be over (`Deadline`), from when on every call to Redis fails.
`owed`, `returned` and `values` are history variables. The list's response is the
function `Rows` of `reads`, the metrics are `Total` and `ByStatus`, numbers of pairs of
a key and the index of a read (a sum over the keys); `success_rate`
is computed from these and `dlq_count` is one further read.

## 3. The runs

| Run | Instance | Question |
|---|---|---|
| `consumer_faults` | 1 process, 1 partition, 2 messages on one row, one of them sent from the UI, 2 sessions, all faults but expulsion and expiry | types, offsets, what success and feed stand for |
| `consumer_workers` | 2 partitions, 1 slot, 1 session, cancellation, DynamoDB failing, `FairSpec` | the semaphore, `dlq:count` against the DLQ, messages settle, cancelled sessions end |
| `consumer_expelled` | 2 processes, 1 partition, messages among updates of one payment and one of another, expulsion, DynamoDB failing | fenced commits, the contract, nothing unaccounted for, one event applied per payment |
| `consumer_divergence` | 3 messages of 2 payments, Redis and DynamoDB failing, expiry | a status is always backed |
| `bus_safety` | 3 clients, 2 slots, 3 events, buffers of 1, a failing link | channels, slots, order and gaps of the feed |
| `bus_liveness` | 2 clients, 1 slot, 3 events, buffers of 1, `FairSpec` | the feed drains, slots return, a signal ends the process, and the contract |
| `publish_flow` | a single and a bulk request (2 events) of which one reaches the server, a start-up batch of 2, a command with 3 events at a rate | results, exit status, answers and the feed are true; cancellation and the signal work |
| `bootstrap` | consumer, UI, producer; the code's 8 and 30 seconds in half seconds, attempts of 2 seconds; one outage, one loss of the table | connecting is bounded, a table is there, all become ready |
| `queries` | 2 payments, 2 statuses, each key returned up to twice, up to 2 new values during a request | what lists and metrics miss, repeat or invent |

Bounds. `MaxLog` is the number of messages per partition and `MaxSessions` that
of sessions over a run. The hazards of the handler concern one message and its
redelivery, or a message and the one after it in the same partition (skipping,
marking, sharing a key or a row), so that two messages suffice; three are used
where a second payment is needed as a contrast. Two sessions are a session and
the one that follows a crash, cancellation or expulsion. `MaxAttempts = 2` has
a first, a retried and a last attempt; the findings use the configured 3.
Deadlock is not checked because the system rests when every message is handled
and the bound on arrivals is reached.

For the bus, three clients over two slots have a refused request and two
subscribers of one distribution, one of them possibly unsubscribed or closed. Three
events fill a buffer of one, drop the next and show a gap between two that
arrive. The contract is checked where the clients follow one another, as its mapping
is costly to evaluate; the proof covers any number at once. The clients are symmetric and, in the run without liveness, declared so. A client may come back, so that each slot and channel is reused.

For `PublishFlow`, a batch of three events has a first, which is sent without a
tick, one in between and a last; two suffice where only the first and another
matter. One accepted request meets the start-up batch, the signal and the closing
of the producer; that the proofs cover any number makes the bound a convenience.
For `Bootstrap`, one outage after another has been seen to start everything is
enough to fail any single step; delays double up to the maximum and hit the
deadline within it. For `UIQueries`, a second return of a key is a repeat like any
further one, and two new values let one payment change twice or two once.

Deadlock is not checked in `publish_flow` and `bootstrap`: a process that has exited
or is ready rests.

Which combinations are checked. `CommittedIsAccounted` holds with expulsions and
store failures, and fails as soon as a process may crash or be told to stop:
that is what two of the findings below show. `DivergenceVisible` needs Kafka and
the process to survive, since the DLQ is what makes a divergence visible.
`CountTracksDLQ` needs Redis and Kafka to answer, and is exact only until a
session is cancelled. `OneEventApplied` needs Redis to answer and keep its keys, and
events that are not refused for their date: see what was seen without a run. That `SlotsHeld` holds over several sessions is what
`SlotsCorrect` proves.

Fairness (`FairSpec`). Weak fairness of the steps of each worker: goroutines
are scheduled and every call has a deadline (5 or 10 seconds in `handler.go`,
the Kafka client's own timeouts for a DLQ send). Strong fairness of
`AcquireSlot`: Go serves the goroutines blocked on a channel in order, so that
a worker is not passed over for ever while the slot is taken and given back.
Weak fairness of `EndSession`: Sarama ends a session whose claims have returned.
Nothing is assumed of arrivals, commits, joins, cancellations or faults.

For the bus: weak fairness of the listener, of the shutdown goroutine and of the
return of a handler. Strong fairness of the steps that need the write lock
(`Subscribe`, `Unsubscribe`, `CloseAll`): `sync.RWMutex` does not let new readers
overtake a waiting writer. A handler whose client is still connected may be
stuck in a write for ever, as `WriteTimeout` is 0: nothing is assumed of `Send`,
and of `Leave` only when the client has gone. Weak fairness of `MainExit`:
`ListenAndServe` returns once its socket is closed, and the deferred calls of `main`
have deadlines. So `SignalStops` says that the process ends, and not only that it
stops accepting. Nothing makes the server fail (`ServeFails`).

For `PublishFlow`: weak fairness of the main goroutine and of each batch. Goroutines
are scheduled, and `SendMessage` returns after a bounded number of retries with a
timeout each. Nothing is assumed of deliveries, deadlines, requests or signals, nor
of `ReadEvents`: standard input ends when its writer closes it, and until then a
signal does nothing (below), so that `SignalEnds` begins when the events have been read.
For `Bootstrap`: processes run and are started again (`restart: unless-stopped` in
`docker-compose.yml`), a table in creation becomes active, and Kafka and DynamoDB
come back; without the latter nobody would ever be ready. For `UIQueries`: the
handler runs and its timer fires.

### Where documents and code disagree

Each of these runs checks one property that a document or test states and finds
it violated by what the code does.

| Run | The document says | The code does |
|---|---|---|
| `finding_shutdown` | SIGTERM lets messages in progress finish (payment-consumer.md) | it cancels the context of their calls; the key is set, so that the next process skips and commits the message |
| `finding_updates` | every event is registered (ADR-003) | the key is per payment, later events are skipped for 24 hours |
| `finding_close` | the start-up batch uses the main context to avoid a race with `syncProducer.Close` (comment in `cmd/producer/main.go`) | the context is looked at before a send, not during it, and nobody waits for the goroutine |

Seen while modelling, without a run of their own:

* Consumer. A crash between the idempotency key and the writes loses the message
  as a SIGTERM does (`internal/consumer/handler.go` 267; ADR-001 speaks of no loss).
  The next success of a partition commits the offsets of failed messages before
  it (192; ADR-004 and `handler_test.go` 257 say they are not committed), and
  `FrontierSucceeded` is what holds. Two processes may get past the idempotency check with the
  same payment, because a SET NX that comes second is only logged (267;
  payment-consumer.md 117). They then write the same event, the first of the payment
  (`OneEventApplied`), unless Redis fails or the first event was refused for a date
  ahead of the consumer's clock: then its update may be written in its place, or
  both, by two processes that are past the check at once. Once the last attempt has failed nothing processes
  the message again, so that a status without a history row stays, although
  ADR-008 speaks of a resolution within 30 seconds.
* Shutdown of the UI. `main` returns when the socket is closed, with `Shutdown` and
  requests in progress (`cmd/ui/main.go` 112; ui.md gives them 15 seconds), and the
  producer server does the same. A request that subscribes between
  `EventBus.Close` and the closing of the socket keeps an open channel (ADR-012).
* Start-up. A process that finds the table while another creates it goes on
  before it is ACTIVE (`internal/history/dynamodb_init.go` 34, against its comment
  at 22): `PassedMeansTable` is what holds.
* Queries. A SCAN that fails in the list is status 500, although
  `specs/0002-payment-ui/06-risks-tradeoffs.md` speaks of partial results; for
  metrics it is status 200 with partial counts, although `docs/ui.md` has a line
  that says 500 and one that agrees. A deadline in the last page of a list
  leaves rows out without a sign in the answer. `total_processed` is not the number
  of keys, as `05-validation-checklist.md` has it, when SCAN repeats them:
  `MetricsBounds` says how far off it may be.
* Publishing. The command takes over SIGINT and SIGTERM (`cmd/producer/main.go`
  362-368) before it reads standard input with `io.ReadAll` (99, 370), and cancelling
  its context does not interrupt that: with a pipe that stays open a signal is
  swallowed and the program goes on waiting. The feed shows a payment that was
  published from the browser as the UI announces it, with the UI's own timestamp,
  before or after the consumer's entry and also when the consumer never records it
  (`internal/ui/handlers.go` 434-447): `FeedBacked` promises a row for the consumer's
  entries and a message in the topic for the UI's. The log of a bulk request counts failed events as published
  (`cmd/producer/main.go` 719). A rate above 10^9 makes the ticker panic
  (`internal/producer/producer.go` 51).

## 4. The proofs

The theorems hold for any sets of processes, partitions (finite) and events and
any bounds and faults that satisfy `EventsAssumption` and `BoundsAssumption`; the
four of `PaymentConsumerAccounting` for the faults they name.

* `TypeCorrect`, `SlotsCorrect`: the inductive invariant is
  `IInv == TypeOK /\ SlotsHeld /\ WorkersOK`. `SlotsHeld` alone is not
  inductive: that `AcquireSlot` and `Leave` change the number of workers in
  `processMessage` by one needs the types and, for a crash or an end of
  session, that a process outside a session has no workers (`WorkersOK`). The
  counting lemmas `HolderEnters`, `HolderLeaves` and `SameHolders` rest on the
  library's facts about cardinality.
* `NoSkipCorrect`, `FrontierCorrect`: `OffsetInv` adds that everything below
  what a worker has handled is in `tried` and that a marked offset is just
  above a success. It is relative to `IInv`.
* `SuccessBackedCorrect`, `FeedBackedCorrect`: `BackingInv` adds that each key
  has an attempt behind it and that a worker about to publish has its row. Rows and
  messages of the topic stay, so that what backs an entry of either writer does.
* `OffsetMonotoneCorrect`: `FenceInv` says that the owner of a partition is in
  a session and has marked no less than what is committed; only owners commit.
* `ContractImplemented`: every step of `PaymentConsumer` is a step of
  `OffsetContract` or leaves its variables unchanged, by `OffsetInv` and
  `FenceInv`.
* `DivergenceVisibleCorrect`, for `Faults \subseteq {"redis", "dynamo", "evict", "expire"}`:
  once a worker is past the mark of its message (`PastMark`), the message ends in
  the history or in the DLQ. `SavedKept` and `NextSaved` show that no step loses a
  message that is saved: no process is down while a send to the DLQ that it has
  abandoned is on its way (`StaysUp`), and a worker at `incr` has its message there
  (`Sent`). `StatusInv` then names, for each status, the message it comes from.
* `CommittedIsAccountedCorrect`, for `Faults \subseteq {"dynamo", "evict", "expire"}`:
  `AccountInv` carries "saved or shadowed" from what a worker has passed to its
  mark, and from the mark to the offset. A worker whose session is cancelled passes
  a message it never processed (`AcquireCancelled`), so this holds of the workers
  that may still return nil only (`Careful`); and of each key in Redis, that
  everything up to the message that set it is accounted for, which is what a worker
  that skips a message relies on.

  Both sets are as large as they can be: with any other fault TLC finds a
  counterexample. For `CommittedIsAccounted`, `redis` does it together with `evict`:
  a cancelled worker drops one message of a payment and sets the key by the next
  one, with a call that failed but took effect; the dropped message is delivered
  again and skipped.

* `OneEventAppliedCorrect`, for `Faults \subseteq {"dynamo", "kafka", "crash", "cancel",
  "evict"}` and `Early = {}`: `AppliedInv` says that the payments of all messages below
  the committed offset, below what a worker has marked and, if no call of the worker
  can have been cut short by a cancellation (`Sure`), below the message in its hands
  have their keys. So a sure worker that finds no key holds the first message of its
  payment (`First`), and so does any other that holds the same payment with it; a
  worker that is not sure fails at its next write. Keys only grow (`Firm`), as
  nothing expires.
* `CountTracksDLQCorrect`, for `Faults \subseteq {"dynamo", "crash", "cancel", "evict",
  "expire"}`: `CountInv` says that the counter is at most the number of copies in the
  DLQ, and, in a first session, short of it by exactly the workers in
  `Sending`, which have sent their message and not yet counted it. `Copies` is a
  set of pairs, one for each copy of each offset, so that the library's facts about
  cardinality apply where a sum over a function would need induction. With `redis`
  an increment may be lost, and with `kafka` a send that is reported as failed may
  have arrived: either breaks the equality.

For `EventBus`, with any clients (finite), events, buffer and semaphore sizes:

* `TypeCorrect`, `NoPanicCorrect`, `SlotsCorrect`: the inductive invariant
  `BusInv` adds `MapOK` to the three. The map holds exactly the open channels,
  and each open channel belongs to a request that has not unsubscribed; the
  listener's `todo` is part of the map, which no writer changes while it is
  locked. That is why an `Offer` never meets a closed channel.
* `FeedInOrderCorrect`: `OrderInv`, relative to `BusInv`, says that events wait
  in order and are newer than the one being distributed, and that a subscriber
  in `todo` has only seen older ones.
* `FeedGaplessCorrect`: `GapInv`, relative to both. Every published event has been
  distributed, waits, or is lost with the link; and a subscriber that has seen an
  event has seen every later one that was offered to it, or it is in `dropped`.

* `FeedImplemented`: every step is a step of `FeedContract` or changes nothing it
  speaks of. Only `Offer` needs more than the mapping: with `FeedInv` (the three
  invariants above and `LostApart`, that what Redis delivered is not lost) the event
  is newer than the last its subscriber has (`LastSeen`, `NextEvent`), and what lies
  between was lost or dropped.

For `PublishFlow`, with any batches, sizes, requests and rates:

* `TypeCorrect`, `ResultsAlignedCorrect`, `CancelStopsSendsCorrect`,
  `ExitCodeCorrect`, `FeedMeansPublishedCorrect`: the inductive invariants relate
  the length of `results` to `next`, the results to the topic, `late` to the label
  (at most the message that was already past its check), and an answer 200 to
  the result of its request.
* `ContractImplemented`: every step tells nothing new, delivers a message, or tells
  of one whole batch at once what its results justify. The invariant it needs
  is that nothing is told before the batch has returned and that what was told
  follows from the results from then on. The steps that deliver late are allowed
  by `ResultsAligned`.

For `Bootstrap`, with any processes and any delays and deadlines: `TypeCorrect`;
`ConnectBoundedCorrect`, by the strengthening that a process that is about to sleep
is within its deadline, and one about to dial within one delay of it;
`PassedMeansTableCorrect`, as only a loss takes a table away.

For `UIQueries`, with any payments, statuses and bounds: `TypeCorrect`;
`RowsTrueCorrect`, as `values` only grows and holds the present value;
`ListCompleteCorrect`, by the invariant that a key that existed throughout is owed,
in the page, or already read; `MetricsBoundsCorrect`, for a finite set of payments, by
`MetricsInv`: a key is read at most once for each time SCAN returned it, and it has
existed if it was returned. The reads are then covered by the first reads, one for
each key that existed (or had the status), and the pairs of a key and a repeat
(`Covered`, `StatusBound`); conversely each key that was there throughout has a
first read.

Only model-checked: the liveness properties (`MessageSettles`,
`CancelledSessionEnds`, `FeedDrains`, `GoneReleases`, `SignalStops`, `SignalEnds`,
`AllReady`, `TableReturns`, `RequestEnds`), which are out of reach of the prover's
backends. Every invariant and every other action property of the runs, and each of the
three refinements, is proved.

## 5. Not modelled, and the plan

Left to do: the table of `Bootstrap` as the one `PaymentConsumer` writes to.

Left out:

* the validator's rules for single fields, the contents of generated events, flag
  parsing, the contents of event files and printed output: data and formatting;
* the lengths of the delays in `retry.Do` and of the ticker in `Publish`: nothing a
  property says depends on them;
* the payment history query (one DynamoDB query, one answer) and the health
  probes, which keep no state;
* the HTTP middleware, the connection counters, configuration, telemetry and the
  construction of clients: no state that the properties depend on;
* the dashboard's JavaScript, HTML and CSS: neither a test nor a document says
  what its list promises when the initial load and the stream overlap.
