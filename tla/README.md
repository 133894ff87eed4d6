# Verification of the shiro control plane

TLA+ models of the control plane in `src/` (Go), the TLC configurations that
check them on small instances, and TLAPS proofs of their safety for instances of
every size.

## 1. The system

| Part | Source | State | Operations |
|---|---|---|---|
| Store | `internal/modules/cassstore` | Cassandra tables: events, idempotency keys, outbox, retry state, dead letters, inbox | append, mark published, list pending, claim a lease, record a failure, replay, clean up, claim a message |
| Publish request | `handlePublishEvent` | locals of the request | append, publish with retries, mark or record the failure, answer |
| Outbox relay | `runOutboxRelay`, one per node | page and batch being worked off | on every tick of a leader that is not paused: list, claim, publish, mark or record |
| Dead letters | `handleReplayDeadLetter`, `runCleanupLoop` | rows read and not yet written | replay, delete aged rows |
| Idempotency | `AppendEventExactlyOnce`, `CleanupExpired` | two key tables | bind, look up, index, store, forget |
| Circuit breakers | `core/app.go` | state and two counters behind a mutex | `Allow`, `Success`, `Failure` |
| Leader election | `internal/modules/etcdcoord` | `isLeader`, `leaderID`, a session and a candidate key in etcd | campaign, observe, stop |
| Event bus | `internal/modules/natsbus` | a JetStream stream, subscriptions | publish, subscribe |
| Event stream | `handleStream`, `ClaimInboxMessage` | a channel of 128 messages per client, the inbox table | receive, claim, write |
| Request path | middleware, limiters and guards of `core/app.go` | three semaphore channels, the per-IP table, the authorisation failures | admit, refuse, time out, give back |
| Lifecycle | `main`, `App.Run`, `startModuleWithRetry`, `Start` and `Stop` of the modules | modules that are up, their connections, the server | configure, start with retries, serve, shut down, stop in reverse order |
| TLS, telemetry, read-only queries | `internal/security`, `internal/telemetry`, `core/app.go` | none shared | - |

Nothing but single Cassandra statements is atomic. Requests, the relays of all
nodes, replays and cleanups read and write the same rows in several statements
each; any of these can fail before or after it took effect; any process can die
in between; and leases, backoffs, timeouts and sessions run out under whoever
relies on them.

## 2. Modules

| Module | Models | Proofs |
|---|---|---|
| `EventDelivery` | what publishing an event promises, without tables, relays or retries | `OutboxRefinement` |
| `InboxDelivery` | what the inbox promises of a message and a consumer, without streams or channels | `EventStreamProofs` |
| `OutboxTables` | the outbox and dead-letter tables; one operator per statement or logged batch | |
| `Outbox` | the processes that work on them: requests, relays, replays, cleanups, and the broker | `OutboxProofs` |
| `Idempotency` | binding and forgetting idempotency keys | `IdempotencyProofs` |
| `EventStream` | the stream handler, its subscription and the inbox | `EventStreamProofs` |
| `RequestPath` | what a request passes before and after its handler | `RequestPathProofs` |
| `CircuitBreaker` | one breaker and its concurrent callers | `CircuitBreakerProofs` |
| `LeaderElection` | what `IsLeader()` answers on each node, over an external etcd | `LeaderElectionProofs` |
| `AppLifecycle` | one process from `main` to its exit | `AppLifecycleProofs` |
| `MC*` | instances for TLC | |

The modules meet where one part is another's input. `Outbox` takes leadership as
a free input, which covers every answer `LeaderElection` can give, and a crash of
any process at any statement, which covers what `AppLifecycle` does to the relay
and cleanup goroutines when modules are stopped under them. `EventStream` takes
messages that are sent again, which is what retries and relays of `Outbox` cause.
`RequestPath` lets a handler return at any time or panic; what it does meanwhile
is in `Outbox`, `EventStream` and `CircuitBreaker`.

**Outbox.** `pc[p]` is the statement process `p` runs next and `job[p]` the
local variables of its call: the event, the attempt of `publishWithRetry`, the
count `RecordOutboxFailure` computed, the `quarantined_at` it chose or a replay
read. An action is one statement of the code with everything up to the next one.
A write has two Boolean outcomes (`Outcome`): applied, and error; both may hold
at once. The calls of a relay tick share one context of 20 seconds, those of a
request the context of the request, and both record a failed publish under the
context they published with. `DeadlinePasses` ends such a context at any statement
(`expired`): from then on `Publish` sends nothing, reads fail, and a write fails,
although it may have been under way and have taken effect; none of this counts as a
fault. A tick that ran out of time goes through the rest of its batch like that and
the next tick starts afresh. Four attempts that each wait five seconds for JetStream
exceed the 20 seconds, so this is no rare case. Times that the code only compares
with "now" (`next_attempt_at`, `lease_until`) are kept as the result of the
comparison; `quarantined_at` is a key of a table and is kept as a number. `rows` is the page the relay read and
`batch` the rows it kept, so the retry state a relay saw may be stale when it
claims. Leadership and the pause flag are inputs that change at any time.

`excused` is a history variable: the events whose dead letter was not written,
because its statement, or the answer of the statement before it, failed or was cut
off, or was deleted by the cleanup, until a dead letter is written, a replay requeues
the event or a mark ends it. The cleanup deletes by event id, so the letter it deletes
may be newer than the row it read.

**EventDelivery.** An event is accepted once, waits for a relay, is delivered, and
stops waiting only when it is delivered; a client is told once, and the truth.
The mapping reads `accepted` from `outbox_events`, `waiting` from
`outbox_by_state`, `delivered` from the broker and the answers from the requests'
program counters. Leases, retries, quarantine and dead letters are invisible to it.

**Idempotency.** The three writes of an append are three steps. Every node runs a
cleanup loop; `contested` is a history variable of the keys that a loop deleted by a
row another loop had deleted before, when the key was bound again. Events are named
by the request that created them, because each attempt makes a fresh id. `Outbox`
takes an append as one step: what lies between the key and the batch touches no
table of the outbox, and the failures in between are its failed appends.

**EventStream.** A stream is one request; a client that reconnects is another one,
perhaps with the same consumer name. `wire` is what NATS has sent to a
subscription, `ch` the channel that the callback fills and drops from when full.
The claim and the write are two steps. `Instrumented` says which response writer
the handler has: the one `Run` gives it, or one that can flush. The properties of
the stream are checked for the second, so that the handler is examined as written
(the first never gets past its first test, see `stream_supported`).

**InboxDelivery.** Of every message with an id a consumer has one chance: open,
granted to a stream, delivered there, or lost to a fault. The mapping computes the
chance from the inbox row, from the handlers that hold the message between claim and
write, and from what the clients of the consumer got. That some other stream of the
consumer may have the message on its wire, and how often, is invisible to it.

**RequestPath.** One step per middleware that keeps state, in the order of `Run`:
global guard, limiter, `IsBlocked`, verdict on the token, lane, handler, and the
deferred releases. `Timeout` answers the client and leaves the goroutine with its
slots; it also replaces an answer that is still in the buffer of `TimeoutHandler`.
Under `DISABLE_API_TOKEN_AUTH` (`DisableAuth`) requests go from the limiter to lane
and handler. Token buckets, the age of table entries and the verdict on a token are free
choices; `data`, `failures` and `blocked` are the maps of the code.

**CircuitBreaker.** `Call` is an admitted call; its result is reported in a later
step, when the breaker may have moved on. `cooled` is the comparison of `openedAt`
with `openDuration`. The wrappers report every error as a failure, also that of a
caller whose context is done, so `healthy` means that calls succeed: the dependency
answers, and in time. It is the premise of `Recovers`.

**LeaderElection.** etcd keeps the candidate keys in order of creation. A key
bears only the node's name, so the key of a dead process (`own = FALSE`) looks
like the key of its successor; each is lost on its own. `SessionLost`,
`OrphanExpires` and `CampaignWon` are etcd's part. A waiting campaign does not notice
that its key is gone: it goes on ("astray") and later ends with an error or succeeds,
so that the node takes itself for the leader (`AstrayReturns`); when, is left open.

**AppLifecycle.** A `Start` is one step with one outcome per return statement: what
it opened, what it closed again, and whether it returned nil. The configuration
keeps the numbers of the retry (unset and junk fall back, as `intOr` does), the
smallest of the numbers `Validate` wants positive, and whether the fields it
compares with each other agree. Waits are in milliseconds.

Definitions whose comment begins with "Mutant" are deliberate errors, and `Next`
uses none of them. `PROJECT.json` names for each the definition it stands in for and
the property that then fails: the properties depend on what the code does.

## 3. What is checked

Runs that pass (each also checks the `TypeOK` of its module, `outbox_live` for
`Outbox`):

| Run | Instance | Shows |
|---|---|---|
| `outbox_dead_letters` | one event, a request, a relay, a replay, a cleanup, one fault and any deadlines, quarantine after 1 | `ReplayableIsListed`: what can be replayed is found. `HiddenIsExcused`: a quarantined event has a dead letter, or will have, unless its statement failed or the cleanup deleted it. `DeliverySpec`: every step is a step of `EventDelivery`, so no replay or cleanup loses the event |
| `outbox_live` | one event, two requests with one key, a relay with leadership and pause, any deadlines, quarantine after 2 | `NoEventLost`: a stored event is indexed or in the broker; `IndexedIsClaimable`: the conditional lease can apply; `AnswersAreTrue`; `QuarantineIsEarned`: no lost update or replay quarantines early; `RelaySettles`: published or quarantined in the end |
| `idempotency` | three requests, two keys, two cleanup loops, two faults | `OncePerKey`: one event per key and TTL, unless both loops deleted the key by one row; `RepliesAreStored`; `StuckKeysNeedFaults`: a key is bound to an event nobody stores, or out of the cleanup's reach, only by a fault, one key per fault |
| `event_stream` | two streams of one consumer or two, a named and an unnamed message, two sends, one-place channels, one fault | `AtMostOncePerConsumer` over reconnects and nodes; `ClaimedReachesConsumer`: no claim is wasted without a fault; `ReceivedInOrder`; `OneChanceEach`: every step is a step of `InboxDelivery`; `BufferedIsReceived`; `StreamsLetGo` |
| `request_path` | three requests of two addresses, two slots, lanes of one, a table of one, blocked after two failures | `RunningBounded`: slots bound the goroutines, timed-out ones included; `BusyIsTrue`: no slot leaks; `TableBounded`; `TriesAreBounded` |
| `circuit_breaker` | three callers, threshold 3, two successes | `CountersMatchState`; `MovesAreEarned`: it closes, and opens, only on an unbroken run of results, late ones included; `Recovers` |
| `leader_election` | two nodes, two lost sessions or observations, two crashes or stops | `LeaderIsElected`, `ElectedNodeLeads` |
| `lifecycle` | two requests in flight; retries unset, none and five; first waits negative, 3 s and 20 s; valid and invalid configurations | `ServedByWholeSystem`: requests see all modules; `ConnectionsAreOwned`: failed starts leak nothing; `StartIsBounded`; `ClientsAreWaitedFor`; `EveryStepAdvances`: each step of main uses up one of a number nothing replenishes; `SignalEnds`; `LeaderServesOrYields` |

Runs that end in a violation show where the code and its documentation disagree:

| Run | Claim | What happens |
|---|---|---|
| `outbox_lease` | leasing prevents duplicate relay processing | a request that failed to publish clears the lease of the relay that is publishing |
| `outbox_starvation` | eventual publish | a quarantined row fills the page the relay reads |
| `leader_returns` | the relay works again after failures | nobody campaigns a second time |
| `stream_supported` | a live event stream | `instrument` hides `http.Flusher`, so every stream request is answered 500 |

The models have further such behaviours, which are not kept as runs of their own:

- The write of the dead letter fails after the quarantine, or the cleanup deletes the
  dead letter: the event stays pending, no relay takes it and nobody can replay it
  (`HiddenQuarantines` in `Outbox`).
- The key is bound and the event was never written, so retries get an error until the
  TTL has passed; or the key has no creation record and is kept for ever (`StuckKeys`
  in `Idempotency`). Each such key has cost a fault.
- Two cleanup loops read the same expired row. The first deletes the key, a request
  binds it again and stores its event, and the second loop deletes the key once more,
  because the deletion has no condition on the row that was read: a retry within the
  TTL then stores a second event. `OncePerKey` exempts these keys (`contested`);
  without the exemption `MCIdempotency.cfg` has a counterexample of 15 states. The
  deployment in `deploy/k8s/20-deployment.yaml` runs two replicas, so two loops.
- A publish whose attempts take longer than the 20 seconds of a tick fails without
  being recorded: the count stays, no backoff is set, and the next tick tries again. As
  long as every tick goes like this an event is neither published nor quarantined.
  What can end it is the bus breaker, not part of `Outbox`: while it is open, attempts
  fail at once and the failure is recorded in time.
- A failure recorded late dead-letters an event that was published meanwhile; a
  replay deletes the list row it read while a newer quarantine has added another;
  a leader whose session ended, or whose observation channel was closed, goes
  on answering that it leads beside the next one, and a campaign that lost its key
  makes a node say so without any key.
- A success of one request clears the failures and the block of its address while
  others are still being counted.
- A failed start and a listen error end the process without `Stop`, so the leader
  key lingers until its TTL has passed; a node may be elected before its store is up.

### Bounds

One event is enough for the safety of the outbox, because no statement touches
two events' rows except the two page reads; `outbox_starvation` has two events and
a page of one row, and no longer fails with a page of two. The passing runs have one
relay; two relays over one event are in `outbox_lease`, and the proofs are for any
number. `Switched` limits which nodes change leadership and pause: for safety a node
that does not lead is a node that is not scheduled. `MaxFaults` counts failed store
calls and crashes (in `EventStream` failed claims, broken connections and crashes);
broker failures and calls whose context is done are not counted and not bounded.
`outbox_live` has no other faults (`MaxFaults = 0`), with a million states as it is;
crashes and failed calls in good time are in `outbox_dead_letters`, which has half
as many. Two cleanup loops and three requests are what a contested key takes.
`FetchLimit` is a page of five
batches, at least 100 rows, in the code; what matters is whether it holds all
pending rows. `MaxClock` gives a dead letter or a key time to age. `MaxPublishes`
of two allows a copy of a message, a full channel with a drop, and two messages to
keep in order. Two slots for three requests make the guard refuse, lanes of one make
both lanes refuse, and a table of one makes every second address evict. Two
candidates are enough for two writers of one flag and a rival. Symmetry is used only
where all properties are safety properties.

### Fairness

`Outbox`: a request that has started to publish goes on, relay loops go on, leases
and backoffs end. Nothing is assumed of the broker, which may refuse every
publish, nor of clients, operators or leadership. `RelaySettles` has the premise
that some node is eventually leader, not paused for good, and finishes its ticks within
their contexts: a tick that does not leaves no trace (section 3). The broker may
refuse every publish of such a tick, and the contexts of all others may end at any
time. `EventStream`: handler,
callback and unsubscribing goroutine run; nothing is assumed of clients and
publishers. `CircuitBreaker`: callers go on calling, calls return, time passes.
`LeaderElection`: goroutines run, etcd answers, the TTL of a dead process passes.
`AppLifecycle`: main and the listener run, the shutdown deadline and the lease of a
dead process pass; handlers need not end and a signal need not come. All are weak
fairness conditions on goroutines that are not blocked by one another and on time.

## 4. What is proved

All theorems are for every value of the constants, under the assumptions named in
the component modules (`...Assumption`: sets are finite where they are counted,
limits are natural numbers). None of the properties is inductive, since goroutines
act on what they read earlier; each proof module defines an invariant that adds what
the local variables guarantee.

| Module | Theorems | The invariant adds |
|---|---|---|
| `OutboxProofs` | `TypeOK`, `NoEventLost`, `IndexedIsClaimable`, `AnswersAreTrue`, `QuarantineIsEarned`, `ReplayableIsListed`, `HiddenIsExcused` | `JobOK`, `BatchOK`, `RowsOK`: who publishes works on a stored event; who marks has seen the broker store it; who writes a count has one no greater than the failures reported; who writes a dead letter has one that reached the limit; a replay holds an earned count. For `HiddenIsExcused`: each statement either leaves an event that was not hidden so, because the process between its quarantine and its dead letter is still there, or excuses the event it hides |
| `OutboxRefinement` | `OutboxImplementsDelivery`: `Spec => DeliverySpec` | nothing further: each statement is an abstract step in states that satisfy the invariant of `OutboxProofs`, and each step of a request is an answer or silence |
| `IdempotencyProofs` | `TypeOK`, `RepliesAreStored`, `OncePerKey`, `StuckKeysNeedFaults`; `OneLoopContestsNothing`: with one cleanup loop no key is contested, so `OncePerKey` has no exception | a key row names a request that asked with the key; a key that is not contested has one creation record, of the request it is bound to; what a cleanup is about to delete has expired; a live event whose key row is gone is older than the TTL. For the stuck keys: a request that found its key taken has bound none, the creation record is written before the event, and each step strands no further key or is a fault and strands one |
| `EventStreamProofs` | `TypeOK`, `AtMostOncePerConsumer`, `ClaimedReachesConsumer`, `ReceivedInOrder`; `StreamImplementsInbox`: `Spec => OneChanceEach` | what a client got is in the inbox; the handler that writes a claimed message is the only one of its consumer that does, and nobody got the message before. For the order: what the client got, the message in hand, the channel and the wire, read as one sequence, sit at increasing places of what was sent (`Tracked`) |
| `RequestPathProofs` | `TypeOK`, `RunningBounded`, `BusyIsTrue`, `TableBounded`, `TriesAreBounded` | the tokens in a channel are the goroutines inside, counted; an address at its limit is blocked, and its failures plus its requests between check and verdict are bounded |
| `CircuitBreakerProofs` | `TypeOK`, `CountersMatchState`, `MovesAreEarned` | the successes counted while probing are part of the unbroken run of reported successes, and the failures counted while closed of the unbroken run of failures |
| `LeaderElectionProofs` | `TypeOK`, `LeaderIsElected`; `OneSteadyLeader`: no two running nodes whose sessions held both say they lead | a node with steady sessions that is about to say it leads, because it won or received its own name, is named by the first key; a campaign without a key belongs to a node whose session was lost |
| `AppLifecycleProofs` | `TypeOK`, `ServedByWholeSystem`, `ConnectionsAreOwned`, `StartIsBounded`, `ClientsAreWaitedFor`, `EveryStepAdvances` | where the loops are, and that a module's attempts begin at one; the wait is at most the longest, and the time waited at most that times the attempts; once modules are stopped no client waits or the deadline is over |

The proofs have one step per action. `OutboxProofs` has in addition a lemma per
statement on the tables and a lemma that a step of one process leaves the facts
about the others alone, because `broker`, the stored events and `failures` only grow.

The order proof does not use induction over sequences. `Track` exhibits the places
as rising functions, one each for client, channel and wire, with every place of one
before those of the next; a step appends a place, takes the first, or leaves them
while more is sent, and these cases are lemmas on such functions (`PlacesAppend`,
`PlacesTail`, `PlacesGrow`). Places and not messages are compared, because a message
may be sent twice and a full channel drops one of the copies.

`StreamImplementsInbox` maps one step at a time: a claim that applies grants, a write
delivers, a failed claim or a broken connection fails, all else stutters. The step
that needs the invariant is the write: the chance is still granted because no other
handler of the consumer holds the message.

`MainEnds` is the safety half of termination: a variant that is a natural number, never
grows, and shrinks with every step of main. That main does take its steps is fairness
and stays with TLC (`SignalEnds`).

`StuckKeysAreFaults` bounds a set by the number of faults so far. It says more than
that the set is empty without faults: one fault cannot strand two keys, whatever others
do afterwards.

Only model-checked: liveness (`RelaySettles`, `Recovers`, `ElectedNodeLeads`,
`BufferedIsReceived`, `StreamsLetGo`, `SignalEnds`, `LeaderServesOrYields`), which the
proof system does not reach. Every invariant and action property of the passing runs is
stated by a theorem.

## 5. Assumptions about what lies outside `src/`

- A logged batch is atomic, and statements take effect in the order of the model's
  steps. A write whose answer was lost took effect at once or never; Cassandra may
  also apply it later, and orders writes by client clocks.
- A conditional statement answers as the code expects. `AppendEventExactlyOnce` and
  `ClaimInboxMessage` read a refused `IF NOT EXISTS` into one variable, although the
  refused row may have more columns; if the driver reports this as an error, a
  duplicate is answered with a store error and a copy is skipped, which the models
  include as failed appends and failed claims.
- JetStream stores an event once per message id; the set `broker` does not count
  copies. A core subscription, which `Subscribe` uses, gets every copy, in order.
- etcd's `Campaign` watches the keys before its own and not its own key or session.
- `http.TimeoutHandler` answers 503 and lets its goroutine run; `Server.Shutdown`
  does not wait for such goroutines. `Drain` closes its connection later.
- etcd revokes a lease no earlier than its TTL after the last renewal, orders keys
  by creation, and deletes each key on its own.

## 6. Not modelled

- Read-only queries (`RecentEvents`, `ListDeadLetters` and their handlers): one read
  each, no state changes. The lane around them is in `RequestPath`.
- Validation of a publish before the append, and the per-subject limiter: they refuse
  a request before anything is stored. The map of that limiter only grows.
- Token buckets, jitter and backoff lengths: library or clock arithmetic, free choices
  in the models (`BackoffElapses`).
- Parsers of lists and maps in the configuration, TLS and telemetry set-up, CORS,
  security headers, request ids, metrics: they build values and keep no state that
  a property is about.
- The answers of the health endpoints. `/startupz` answers "starting" only before the
  server listens, so nobody sees it.
- One model of all parts together: the interfaces are free inputs of the component
  models, which allow more than the neighbours do, so safety carries over; the state
  space of a composition is out of reach of TLC.
