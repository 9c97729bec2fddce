# node-cqrs: a verification development

TLA+ models of node-cqrs, a CQRS and event-sourcing framework for Node.js, the
TLC configurations that check them on small instances, and TLAPS proofs of the
most important properties for every instance. Paths such as
`AggregateCommandHandler.ts:247` are relative to `src/src/` of the repository.

Contents: 1 the system, 2 the plan, 3 the modules and the code, 4 the runs,
5 fairness, 6 the proofs, 7 what is not modelled.

## 1. The system

A command goes `CommandBus -> AggregateCommandHandler -> aggregate`. The events
the aggregate emits go `EventStore -> EventDispatcher -> EventDispatchPipeline`
(event storage, then snapshot storage) `-> event bus`, where projections update
views, and sagas send new commands. Everything runs on the event loop of a
Node.js process: a piece of code runs uninterrupted up to its next `await`, and
what is hard lies between two awaits, between processes that share a database or
a broker, and in the failures of both.

| component | state | operations | works with |
| --- | --- | --- | --- |
| `AggregateCommandHandler`, `AbstractAggregate` | cache of restored aggregates, execution lock; version and changes of an aggregate | `execute`, restore, handle, emit, retry, force-dispatch | lock, cache, event store |
| `utils/MapAssertable` | entries (value or factory), usage counters | `assert`, `setLazy`, `get`, `release` | command handler, saga handler |
| `utils/Lock`, `utils/Deferred` | named locks, global lock, global request under way | `acquire`, `release`, `runExclusively` | command and saga handlers, RabbitMQ gateway |
| `EventDispatchPipeline`, `EventDispatcher` | input buffer, stages, publishes under way | `push`, process, revert, publish, settle | storages, event bus |
| `InMemoryEventStorage`, `SqliteEventStorage`, `MongoEventStorage` | events by aggregate and version | `commitEvents`, reads by aggregate, saga, type | pipeline, restore of aggregates, sagas and projections |
| `InMemorySnapshotStorage` | a snapshot per aggregate | `process`, `revert` | pipeline, restore |
| `AbstractProjection`, event and view lockers | view; per event: projecting or projected; checkpoint; view lock and its expiry | `project`, `restore`, `tryMarkAsProjecting`, `markAsProjected`, `markAsLastEvent`, `lock`, `unlock` | event storage, event bus, a shared database |
| `SagaEventHandler`, `AbstractSaga` | cache of sagas, lock | `handle`, restore, send commands | event storage, command bus |
| `RabbitMqGateway` and its buses | connection, channels, subscriptions, consumers, reconnect timer; deliveries that are not answered | `connect`, `disconnect`, `subscribe`, `unsubscribe`, `publish`, consume, acknowledge, reject | lock, the broker |
| object storages and views (in memory, SQLite, MongoDB, Redis) | versioned records | `create`, `update`, `updateEnforcingNew`, `delete` | projections, a shared database |
| worker projections | a worker thread, calls posted to it, a view in the worker | `project`, `restore`, `dispose` | projection in the worker, event store |

What is hard, and what makes each component correct:

- *Command handling.* Optimistic concurrency over a cache shared by queued
  commands, retries, a mode that stores without the version check, processes that
  share a storage and may stop between any two steps. Correct: a command takes
  effect at most once, as a whole, decided on the whole history before it;
  the caller's answer agrees with the storage; nothing leaks, every call settles.
- *Lock.* A waiter runs some time after the release that wakes it. Correct:
  exclusion, no starvation, a global request is not overtaken.
- *Pipeline.* Batches are processed several at a time, fail anywhere, and are
  published without waiting. Correct: stored before published, order of dispatch
  and of commit, a resolved dispatch is stored and published, a failing batch
  disturbs no other, every dispatch settles.
- *MongoDB storage.* No transaction around a batch. Correct: a committed batch is
  never touched, a conflict leaves nothing, a decision is made on events that stay.
- *Projections.* Restore against live events, several processes on one view,
  expiring locks, crashes between the update and the checkpoint. Correct: no event
  is lost behind the checkpoint, none is projected by two at a time, a view becomes
  ready, an expired lock is not mistaken for one's own.
- *Sagas.* Restore by origin, a cache shared by calls, commands sent one by one,
  repeated delivery. Correct: a saga has handled the events of its origin before the
  current one and not the current one; an acknowledged event has all its commands on
  the bus; no entry of the cache outlives its calls; every event settles.
- *RabbitMQ gateway.* Connect, disconnect, loss of the connection and subscription
  changes interleave. Correct: when connected and idle, every recorded subscription
  has a consumer and no queue another; no subscription is lost; each is served again.
- *RabbitMQ messages.* Confirmations, timeouts, errors and lost connections race.
  Correct: what was confirmed is handled or rejected, acknowledged only if handled,
  and answered once.
- *Object storages.* Compare-and-set with retries. Correct: no update is lost, an
  operation does what it reports, an update gives up only for others' changes.
- *Worker projections.* Restore and live events go to the worker over one port.
  Correct: no event falls between them, none is handled before the restored ones.

`PROJECT.json` lists the hazards, each with its line and the properties that
cover it, or a note that says why none does.

## 2. The plan

In order of importance. All but 12 are written.

1. `AggregateStore` (abstract) and `AggregateCommandHandler` (implements it).
2. `AtomicLock` (abstract) and `Lock` (implements it): the assumption that the
   handlers make of their execution lock.
3. `EventDispatchPipeline`: the assumption that they make of `dispatch()`.
4. `MongoEventStorage`: the storage whose commit is not one step.
5. Proofs about 1 to 4.
6. `ViewLocker`: the lock of a view in SQLite, MongoDB and Redis.
7. `Projection`, with the event locks and the checkpoint in a shared database, live
   events, restores, crashes, the expiry of locks; and proofs about 6 and 7.
8. `RabbitMqGateway`: the connection and its subscriptions, under `Lock`'s global
   lock; and `RabbitMqDelivery`: messages over the connections that it makes.
9. `SagaEventHandler`, with the cache and the lock of 1 and 2.
10. `ObjectStorage`: compare-and-set with retries, and records deleted and created.
11. `WorkerProjection`: a projection behind a port. Proofs about 9 and 10.
12. Extensions of 1: commands that create an aggregate, restoring from a snapshot
    of module 3, retry resolvers given as functions.
13. Proofs about what is left: the cache accounting of 1, `AllOrNothing` and the
    refinement of `AggregateStore`; the order of publication in 3; `RabbitMqDelivery`;
    11; and `RabbitMqGateway`.

How they compose: the handlers' lock is a variable that is taken and freed at
once, in any order of its waiters, which is what `AtomicLock` says and `Lock`
implements (`ImplementsAtomicLock`, `EveryRequestServed`), and no more (not first
come, first served). The pipeline assumes of its callers that two batches of an aggregate are
not in it together, which is `SerialHandling` of the handlers (within a process:
the pipeline is one process's). The handlers' atomic `Commit` is the transaction of
`SqliteEventStorage` and the synchronous code of `InMemoryEventStorage`;
`MongoEventStorage` shows what becomes of it without a transaction. `Projection` uses
of `ViewLocker` that one process restores at a time (`OneRestoreAtATime`), except
with SQLite, whose lock does not guarantee it. `RabbitMqGateway` and
`SagaEventHandler` take their lock as the handlers do, in any order of its waiters.
`RabbitMqDelivery` uses of `RabbitMqGateway` that each new connection has its
consumer (`ConsumesWhatIsSubscribed`, `EventuallyServed`), and `SagaEventHandler` uses
of `RabbitMqDelivery` that an event is acknowledged when its handler returned, and
queued again when its process stops before that.

## 3. The modules and the code

**`AggregateStore`** is abstract: a stream per aggregate, and for each command
how it ended and what its caller was given. `Commit` appends a whole batch decided
on the whole stream, once.

**`AggregateCommandHandler`** models `AggregateCommandHandler.ts`, `MapAssertable`
and `AbstractAggregate` in several processes. `pc[c]` is the `await` that the
execution `c` is suspended at:

| `pc` | the code |
| --- | --- |
| `queued`, `locked` | `execute()` awaits the lock (:215), has it (:218) |
| `loading` | awaits the cache entry (:225-227) |
| `handling` | awaits `aggregate.handle` (:229-236); `Emit` may happen between its awaits |
| `dispatching` | awaits `dispatch` (:242), not committed yet |
| `committed`, `conflicted`, `failed` | the storage has answered, `execute()` not yet resumed |
| `forcing`, `forceFailed` | the forced dispatch (:253-258) |
| `done`, `exhausted`, `rejected`, `lost` | the events, a ConcurrencyError, another error, a crash |

A cache entry is absent, a factory (`lazy`), the promise of a running or rejected
restore, or an aggregate: the history its `mutate()` was given, uncommitted events
included. The data of an event is reduced to its version and `seen`: the commands
whose effect its handler had observed, which stands for anything the business
logic could derive from the state. A crash empties a process; a write already sent
may still land (`Land`).

**`AtomicLock`** is abstract: each request is somewhere, and is granted the lock in one
step when no owner excludes it; a global request that waits inside closes the door to
those who are not.

**`Lock`** models `Lock.ts` to the level of promises: `waiters` are continuations
suspended on a `Deferred`, `jobs` is the queue of those resumed, and one action runs
`acquire()` up to its next await. `Call` may come between any two jobs, since other
code runs there. `starting` is the first loop of `acquire()` (:61), `blocked` the
second (:71); `StateOf` says what its callers see: the first is outside the door of
`AtomicLock`, the second inside.

**`EventDispatchPipeline`** follows a batch through the default processors.
`at[b]` counts the processors that have taken it; `Turn` is the loop of
`#ensureProcessingStarted`, which settles batches in the order pushed. Batches in
one stage finish in any order and leave it in order, as `parallelPipe` does
(external, modelled from its use).

**`MongoEventStorage`** models `commitEvents()` insertion by insertion, on one
aggregate (the unique index separates the others). A commit is one attempt of a
command handler: `Restore`, then `Insert` until `Resolve`, or `InsertConflicts` or
`InsertFails`, then `Undo` or `UndoFails`. `InsertFails` includes the lost
acknowledgement: the event is in the collection and its id is not in `insertedIds`,
so that `Undo` leaves it. The collection is external, its operations atomic.

**`ViewLocker`** models the three view lockers in one module: `row` is the record or
key in the database, `timer` the timer of `prolongLock()` or the request it has sent,
and `Claimable`, `Release` and `Matches` hold what tells the backends apart. `lock()` is
`Lock` and `Claim` (a turn of its loop that gets nothing changes nothing), `unlock()` is
`Unlock`, up to its first await, and `Release`. Time is not counted. A lock may expire
whenever no timer or request is going to prolong it, which assumes that the timers
of a running process are not late by half a time to live. A rejection that nobody
awaits (`prolongLock`, `unlock`) stops the process, the default of Node.js. That an
undefined value reaches MongoDB as null is the default of its driver.

**`Projection`** follows each call of `_project()`, a *task*, of a restore or of a
published event: `waiting` for the view, `handling`, `marking` (`markAsProjected`),
`recording` (`markAsLastEvent`), and `phase[p]`, where `restore()` is. The statements of
the event lockers are atomic: `TryMark`, `Mark`, `Record`. The view is reduced to how
often each event has taken effect on it (`applied`). Events may be delivered to any
process that is subscribed, in any order, or never. A lock may expire at any time;
whether a view lock outlives an event lock depends on the configuration.

**`RabbitMqGateway`** models one process. `work` is what the holder of
`#stateChangeLock` does, by the request to the broker it awaits; `waiting` are the calls
that want the lock. `connect`, `disconnect` and `subscribe` are `CallConnect` and so on
(what runs before the lock), `TakeLock`, and one action per answer: `Dialed`,
`ChannelOpened`, `QueueAsserted`, `Consuming`, `Cancelled`, `Closed`, or a failure
(`DialFails`, `Refused`, `RequestFails`, `DisconnectFails`, all ending in `Raise`).
`unsubscribe()` is one step, up to its first await and without the lock. `Lose` is the
event "close" of the connection: it runs `#cleanup` at once, whatever the holder
awaits. The reply to that request fails, or is *late*: it had arrived with the close,
and the code after the await puts a channel or a consumer of the dead connection into
the maps. The data of a subscription is its queue. Queues and bindings themselves
are kept by the broker and not tracked, except that an exclusive queue goes with
its connection (`Lost`).

**`RabbitMqDelivery`** takes over from there: connections are numbered, each has the
consumer. `pub[m]` is the await that `publish()` of a message is at, `wire` what the
broker has not read yet; `phase[d]` is where the callback for a delivery is. An answer
goes through the channel of its delivery and reaches the broker only on the same
connection (`Answer`). A handler completes, throws, or never returns; the timeout
(`TimesOut`) may fire at any time while it runs. `Lose` requeues what is unanswered and
rejects publishes under way.

**`SagaEventHandler`** follows `handle()` for each event of one saga in one process:
`restoring` (the cache entry), `waiting` (the lock), `handling`, `sending` (command
number `step`), `handled` or `failed` (what the transport is told), `acked` or `rejected`.
`applied` is the state of the shared saga: the events that mutated it. `Store` lets an
aggregate answer a command with the next event as soon as the bus has the command, so
that events arrive while earlier ones are still handled. `Crash` empties the process
and queues again what was not settled.

**`ObjectStorage`** models one record in the four storages: `backend` is chosen in `Init`,
and guards on it hold what tells them apart (SQLite reports a conflict, MongoDB and
Redis try again, in memory an update is one step). Data is the set of operations
whose effect it has. `WriteFails` is a failed request that may have been executed.
`life`, `kept`, `effects`, `writes`, `since` are history.

**`WorkerProjection`** models the proxy in the main thread and the projection in the
worker: `restore` and `project[e]` are the awaits of the two methods of the proxy, `port`
the calls posted, `queue` and `handling` what the worker is at. Handlers of live events
interleave; a batch is handled in order. A worker that exits answers nothing, and
`dispose()` makes the calls after it throw. The view in the worker is the in-memory
one, so that a restore starts from the first event.

A definition named in a comment as a mutant changes one definition the way a
plausible bug would; each property of a passing run is violated by one of them.

## 4. The runs

| run | what it asks | bounds |
| --- | --- | --- |
| `retry` | do the handlers keep optimistic concurrency, and implement `AggregateStore`? | three commands on one aggregate, two of them in one process; one retry, one crash, two events per command |
| `force` | is a batch still stored as a whole with `ignoreAfterMaxRetries`? | the same |
| `lock` | does the lock implement `AtomicLock`? precedence of global requests, no starvation | two requests for a name, one for another, two global |
| `pipeline` | order, durability, settling | three batches (two of one aggregate, of two events and one, with snapshots), concurrency two |
| `mongo` | committed batches and conflicts | three commits, of one, two and two events; two failures |
| `viewLock` | one restore at a time, and waiters served, with Redis | three processes, two starts each |
| `projection` | effects accounted for, nothing marked without effect, restores complete | two processes, two events, a crash, an error; symmetry of processes |
| `rabbit` | subscriptions retained, consumed, and served again | three subscriptions, two on a durable queue and one on the exclusive one; one failure of any kind; one call of the application waits at a time |
| `delivery` | messages settle, acknowledged only if handled, answered once | two messages, of a type with two handlers and one with one; two connections |
| `saga` | previous state seen, commands accounted for, cache released, events settle | four events, answered with two, one, no and one commands; a failure, a restart |
| `storage` | no update lost, outcomes true, retries used up by others only | a creation, a deletion, an update and two creating updates; four backends, one retry, one failed request; symmetry of the creating updates |
| `worker` | no event missed or too early, all projected | four events, batches of two, one handler that throws, an exit, a `dispose()` |

Why the bounds are enough to be of interest. *Handlers:* two commands of a process
share the cache entry and queue on the lock, the third conflicts with either from
another process; one retry makes both a retry that succeeds and one that is
exhausted possible, against two different competitors; two events tell a batch
from an event; one crash can hit either process at any step, with a write on its
way. *Lock:* the interesting case needs a holder, a waiter and a newcomer, with two
global requests one of which waits in each loop. *Pipeline:* a batch that fails
between two that do not, and two of an aggregate one after the other; concurrency
two lets processors finish out of order. *Mongo:* a conflict at the second of
two events needs a rival that was inserted in between, and the dirty read a third.
*View lock:* a holder, its successor and a waiter, each of which may be a process that
stopped and started again. *Projection:* two processes dispute each event, live and
by a restore, and two events give the checkpoint an order; the crash or the error
leaves a lock behind at any step. *RabbitMQ:* two subscriptions that share a consumer
and one whose queue has no fixed name are the three cases the code distinguishes;
one failure hits each request, and is followed by as many attempts as it takes.
*Messages:* a message delivered before and after the loss has two callbacks with equal
tags, and the second message answers between them. *Saga:* an event that is handled
while two wait, and a fourth that finds the cache dropped; two commands to tell
"some" from "all". *Storage:* a creation, a deletion and creating updates make all
outcomes of each write possible, and with one retry an update meets two rivals.
*Worker:* four events make two batches, or one and a rest, with some left to the bus.

### What the code does not do

Properties that a document, a comment or plain expectation suggests and that the code
does not have. Each is a definition of its module; where a configuration is named, it
reproduces the counterexample (`tlc -config <cfg> <module>`; TLC stops with an error).
They are not among the runs, which all pass.

- `AggregateCommandHandler_staleCache.cfg`, `StartsAfterPredecessors`: in `ignore` mode a
  queued command can start from an aggregate restored before its predecessor's forced
  batch was stored. The cache entry is reset before the forced dispatch
  (`AggregateCommandHandler.ts:247`), though the comment at :184-186 says that queued
  commands start from the state after the reset.
- `MongoEventStorage_dirtyRead.cfg`, `DecidedOnStored`: a command may be decided, and
  committed, on an event that is rolled back (`mongodb/MongoEventStorage.ts:134`). The
  atomic commit of the other storages excludes it (`DecidedOnHistory`).
- `ViewLocker_sqlite.cfg`, `OneRestoreAtATime`: SQLite's view lock keeps nobody out. Its
  upsert compares the time the lock is held till with the time requested, not with the
  present (`sqlite/SqliteViewLocker.ts:72`).
- `ViewLocker_mongo.cfg`, `WaitersServed`: MongoDB's view lock can be prolonged for ever
  after it was released, when a request to prolong it overtakes `unlock()`
  (`mongodb/MongoViewLocker.ts:176`); processes that start later wait for ever. With
  Redis the same race makes `prolongLock()` throw in a process that has finished.
- `Projection_restart.cfg`, `ReadyMeansRestored`: a restart soon after a crash skips the
  event that was being projected, whose lock has not expired, and records the
  checkpoint after it (`AbstractProjection.ts:245`).
- `RabbitMqGateway_unsubscribe.cfg`, `RestoredOnConnect`: an `unsubscribe()` during a
  restore shortens the list that the loop counts through, so that the loop may end
  before all are subscribed again (`rabbitmq/RabbitMqGateway.ts:550`, :292).
- `SagaEventHandler_inMemory.cfg`, `SeesPreviousState`: the in-memory storage finds the
  events of a saga by the origin they carry, and the event that started the saga
  carries none (`in-memory/InMemoryEventStorage.ts:104-110`): a saga that is restored
  has not handled its first event. With SQLite and MongoDB it has.
- `ObjectStorage_recreated.cfg`, `OfThisLife`: versions start from 1 again when a record is
  deleted and created, so that an update of the old one may replace the new one.
- `RabbitMqDelivery`, `RejectedHasFailed`: messages that wait in a durable queue are
  delivered as soon as the first type is subscribed, and rejected if theirs is not yet
  (`RabbitMqGateway.ts:701`). `ConcurrencyLimited`: a handler that timed out goes on, and
  is not counted (`RabbitMqGateway.ts:424`).
- `WorkerProjection`, `ProjectedOnce`: an event stored before the query of `restore()` and
  published after the subscription is projected twice. `GetSuspended`: the lock of a
  worker's view is never taken, so that its `get()` does not wait for the restore, as
  `in-memory/InMemoryView.ts:18` promises of the view.

Met while modelling, and small enough to be read off the code:

- `Lock` is not first come, first served (a request made between a release and the job
  that resumes the waiter gets ahead of it, `utils/Lock.ts:71`), though free of
  starvation among finitely many (`EveryRequestServed`).
- A batch rejected by the event storage deletes the snapshot of an earlier one
  (`in-memory/InMemorySnapshotStorage.ts:83`), which costs a longer restore and no data
  (`SnapshotsOfStored` is about snapshots that are there).
- With no `eventPublishErrorHandler`, a subscriber's error is an unhandled rejection
  (`EventDispatchPipeline.ts:95`).
- A saga whose restore failed stays in the cache, with the calls that met it counted
  for good: it is not restored again as long as the process lives
  (`SagaEventHandler.ts:125`; `CacheAccounting` excepts it).
- When one subscription is refused during a restore, the gateway stays connected with
  the rest of them unserved until the connection is lost again: the reconnect timer
  finds a connection (`RabbitMqGateway.ts:246`, :285; `EventuallyServed` excepts it).
- The channel for publishing may be kept though it was closed meanwhile (:808), and
  then every `publish()` fails until the next loss; and `publish()` is rejected for a
  full buffer though the message was written (:855), so that a caller who repeats it
  publishes twice.
- A worker that exits leaves the calls it has unanswered for ever
  (`workers/WorkerProxyProjection.ts:137`); one that is starting is not terminated by
  `dispose()` (:170).

Some results are worth reading with their limits. `AllOrNothing` lets a *rejected*
command be in the stream: an error after the commit (`Commit` to `failed`) is
reported to the caller though the events are stored. It is a run's property with
`ignoreAfterMaxRetries` only; without, it follows from `ImplementsAggregateStore`.
`DecidedOnHistory` and `ContiguousVersions` are stated of the mode without it: a forced
batch is stored with versions that exist already, which is the purpose of that mode.
`SeesPreviousState` excuses an earlier event that waits (the lock does not keep the
order), that failed, or that was settled out of turn before a restart.
`CommandsAccounted` allows a command to be sent once more for each restart: delivery is
at least once. `NoLostUpdate` excepts a record replaced by data of an earlier life.
`CaughtUp` is about the events after the checkpoint that a restore has read, and says
nothing of one that was lost behind it. `OneRestoreAtATime` and `WaitersServed` are
checked with Redis; the theorem `OneRestore` adds MongoDB, and the two configurations
above show what fails with SQLite and MongoDB. `EventuallyServed` excepts a subscription
that was refused, and `EveryEventProjected` a worker that exited. `EveryMessageSettles`
is about messages that were confirmed, and one exchange, which exists: of several first
publishes, one may use a channel whose exchange is not asserted yet (:808), and what
becomes of its message is not modelled.

## 5. Fairness

Safety is checked without it. For liveness:

- `AggregateCommandHandler`: weak fairness of each command's continuation and of
  each restore. Settled promises are resumed, the storage answers, handlers return;
  no fairness of new calls, of crashes, nor of one outcome over another (a commit
  may always fail, and then the command settles as rejected).
- `Lock`: queued jobs run, and a holder releases: the callers in this repository
  release in a `finally` block.
- `EventDispatchPipeline`: processors settle, and the stages and the loop run.
- `ViewLocker`: `lock()` polls, a restore that does not fail ends, requests are
  answered, timers fire and locks that nothing prolongs expire; processes need not
  start, and may stop.
- `RabbitMqGateway`: the requests of the holder are answered, the reconnect timer
  fires, and every call that waits gets the lock (strong fairness of `TakeLock`, which
  is `EveryRequestServed` of `Lock`); failures are bounded and not assumed to occur.
- `RabbitMqDelivery`: types are subscribed, the broker reads and delivers, a lost
  connection is made again, and timeouts fire. No handler is assumed to return: the
  timeout does without it, an hour by default (`RabbitMqGateway.ts:143`), unless it is
  configured as 0.
- `SagaEventHandler`: weak fairness of each call, and strong fairness of its taking the
  lock; no fairness of failures, restarts or new events.
- `WorkerProjection`: both threads run and handlers return or throw; no fairness of
  exits or of `dispose()`, after which nothing is promised.

## 6. The proofs

Checked by TLAPS, for every value of the constants that satisfies the module's
`ConstantsAssumption` (any number of processes, commands, aggregates, events,
retries, crashes, requests, names, batches, commits).

- `AggregateCommandHandlerProofs`. `TypeCorrect`; `MutualExclusion` from `LockInv`
  (whoever is between acquire and release is the owner recorded for its lock).
  `OptimisticConcurrency` and `VersionsAreContiguous`, for
  `IgnoreAfterMaxRetries = FALSE`, from the inductive invariant `HistoryInv`: every
  stream is well-formed (each event decided on what precedes it, versions
  contiguous); every object in a cache is a prefix of the stream, followed by events
  of the lock holder alone while it is at work; a batch under way continues such
  a prefix, of the length of its first version. The version check then says that
  this prefix is the whole stream, hence that the batch was decided on all of it.
  It needs `SerialHandling`: only one command changes the object of a cache at a time.
  `EntriesCounted`, in both modes: the usage counter of a cache entry is the number of
  executions between `assert` and `release`, all finitely many, and the entry is there
  exactly as long (`CountInv`). `StoredAsAWhole`, in both modes, from `WrittenInv`: a command
  has no event in the storage before its commit, and one contiguous batch of its own
  from then on; that an aggregate at work ends in events of its command alone is what
  makes a forced batch whole too. The next three are of the mode without it.
  `RetriesAreFresher`, from `AttemptInv`: the history of every failed attempt was a
  proper part of the stream, so that what is restored next is longer.
  `PredecessorsAreKnown`, from `KnownInv`: the object in a cache has what every
  command of its process that ended has stored. `Refinement`: the detailed specification
  implements `AggregateStore`. Its initial states are initial there; a commit, in time
  or after a crash, is `Commit`, for which `HistoryInv` says that the batch was decided
  on the whole stream and `WrittenInv` that the command is not in it; what `execute()`
  returns or throws and a crash are the outcomes; each other step stutters.
- `LockProofs`. `Exclusion` from `LockInv`: the owner of a lock is recorded in
  `namedLocks` or `globalLock`. `GlobalFirst`: a step property, from the invariant that
  a global request in the second loop is the one in `#globalLockAcquiringLock`
  (`AnnouncedInv`). `Refinement`: `Lock` implements `AtomicLock`. The end of the loops is
  `Take`: by `LockInv`, who finds no blocking lock is excluded by no owner, and by
  `AnnouncedInv` who leaves the first loop finds the door open. It is what the modules
  that take a lock in one step assume.
  The module instantiates `ViewLocker` as `View`: `ViewTypeCorrect`, and `OneRestore`, for
  MongoDB and Redis, from `LockedInv`: a process that restores has the row, with its
  token, and a timer or a request that keeps it, so that the lock can neither expire
  nor be removed by another's late `unlock()`.
- `EventDispatchPipelineProofs`. `StoredFirst`, `SnapshotsCommitted` and
  `ResolvedIsFinal` from `CommittedInv`: a batch past the event storage without an
  error is stored, whatever the concurrency. `PublishedInOrder` from `QueueInv`: the loop
  settles batches in the order pushed, and a batch is published by the step that
  settles it. `PublishedInCommitOrder` then needs only that those of an aggregate are
  committed in the order pushed (`CommitOrder`), since one leaves before the next enters.
- `MongoEventStorageProofs`. `CommittedForGood` and `NothingLeft` from `StorageInv`:
  versions are unique in the collection, the acknowledged part of each batch under
  way is in it, with its versions, and nothing beyond that unless an insertion
  failed without an answer.

- `ProjectionProofs`, for all three backends. `Deduplication` from `AccountInv`: the
  effects of an event and the tasks in its handler together are at most the number
  of times its lock was taken. `MarkedHaveEffect` and `RestoredWhenReady` from
  `ProjectedInv`: a task past the handler has had its effect, and one that is done left
  its event applied, locked, or with a lock that expired.
  The module instantiates `WorkerProjection` as `Worker`: `NoGap` (`NothingMissed`) and
  `RestoredBeforeHandled` (`RestoredFirst`), for any number of events and any size of
  the batches, from four invariants: `restore()` has one call in the worker at a time
  (`CallInv`); what it has read is in the view, collected or in that call (`ReadInv`); the
  lock is held from the registration until it is done, and no event of the bus is
  past it before (`LockedInv`); the events that were published before the registration
  are among those that the query finds (`SubscribedInv`).
- `RabbitMqDeliveryProofs`. `OneAnswer` from `AnswerInv`: a delivery is answered in the step
  that takes it out of `handling`, whichever of the handlers, their errors and the timeout
  is first, and the next delivery of the message has a tag of its own.
  `HandledBeforeAcked`: with that, `AckedWasHandled` is inductive, over any number of
  connections lost.
  The module instantiates `RabbitMqGateway` as `Gateway`: `SubscribedAreConsumed`
  (`ConsumesWhatIsSubscribed`) and `NoneIsLost` (`SubscriptionsRetained`), for any
  subscriptions, queues, calls and failures. The list holds no two alike, its oldest entry
  is put back at its end in the step that takes it (`Rotated`), and `unsubscribe()` takes
  out one (`Removed`): hence `NoneIsLost`. For the other, `LoopInv` says of a restore under
  way that the subscription in progress is the last of the list and that those
  before it, as many as the loop has made turns, are consumed, so that all are when
  the loop has made as many turns as the list is long. It needs `FreshInv` (on a
  connection on which nothing was refused, nothing closed is kept, and a connection
  starts with nothing) and `HolderInv` (what the holder of the lock awaits, and what
  can become of it). Of a list that `unsubscribe()` shortens during the restore it does not
  hold, which is the exception that `intact` makes.
- `ObjectStorageProofs`, for all four backends, any operations and retries.
  `UpdatesKept` from the invariant that the record, when it is of this life, has what
  `kept` says, and that what an operation has read of this life is an earlier
  version of the record, the same if the versions agree: the comparison of versions
  is what makes an update see everything it replaces. `ReportsAreTrue` from the number
  of effects in each state of an operation. `RetriesUsedUp` from the invariant that an
  operation in its n-th retry was preceded by n changes since its call, and by one
  more if what it read no longer matches.
- `SagaEventHandlerProofs`. `EntriesCounted`: the usage counter is the number of calls
  between the two ends of `handle()`, and the saga is there exactly as long. `HandlersSeeState`,
  where the storage restores the starter: events reach the saga in the order stored,
  and what is restored or applied, together with the excused, covers all before the
  one handled; this needs that events get ahead of earlier ones only by being settled.
  `CommandsSent`: how often a command was sent is bounded by what its call has done
  since the last restart.

A theorem about a module that is instantiated has that module's assumptions on its
constants as its hypothesis, and is listed without a property.

Model-checked only: the liveness properties, which the prover does not support.

## 7. What is not modelled

- Of command handling: commands without an aggregate id (a new aggregate per
  attempt, without lock and cache), retry resolvers given as a function, restoring
  from a snapshot, `restoresFrom`, an execution lock supplied by the application.
- Of the pipeline: several pipelines chosen by `meta.origin`, processors supplied by
  the application, `drain()`, the ids assigned by `EventIdAugmentor`.
- Of MongoDB: the refusal of `ignoreConcurrencyError`, and cursors that read while
  others write (a read is one step).
- Of projections: views without an event locker, whose restore and live events are
  not told apart; a `shouldRecordLastEvent` of a subclass; cursors that return events
  stored after the query. A process paused for longer than a lock lives may find
  its view lock taken: the timing assumption of `ViewLocker` excludes it.
- Of sagas: several processes on the named queue of a saga, whose caches know nothing
  of each other; an event that is delivered again, after a lost connection, while its
  first call still runs. Both can make a saga handle an event twice.
- Of RabbitMQ: `ignoreOwn`, the exclusive queue of an event bus (its messages go with
  the process), message expiry, the dead-letter queue beyond a message's getting there.
- Of object storages and views: `updateAll` and `deleteAll` (a loop over the others), the
  id and type checks, the serialization of records.
- Of SQLite, MongoDB and Redis: the accessors' lazy connection. `assertConnection()` runs
  its initialization under a lock of its own, once, and again after an error.
- Of worker projections: a persistent view in the worker (a restore then starts from
  its last event, as in `Projection`), and what comlink transfers.
- Not planned: telemetry, the container and its wiring, validation of arguments,
  serialization, which keep no state of their own or carry no control.
