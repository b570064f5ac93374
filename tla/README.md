# Specification of the sensor management system

TLA+ models of this repository's server, controller, sensor, proxy and database
pipeline, the TLC runs that check them on small instances, and TLAPS proofs of
the properties that matter most. Paths below are relative to the root of the
repository.

## The system

| Component | Code | State it keeps | Operations | Talks to |
|---|---|---|---|---|
| Dispatcher | `server/src/dispatcher` | map id → waiting call, mutex, a context per call | `wait_for_response`, `dispatch` | sessions and the listener thread of the server |
| HTTP sessions | `server/src/http` | one coroutine per TLS connection | login, `config_ip`, connection details, static files | dispatcher, DatabaseManager, JWT |
| Command line sessions | `server/src/cli` | one coroutine per TLS connection | `CONFIG_IP`, `REBOOT`, `quit` | dispatcher, DatabaseManager |
| TLS engine | `server/src/net` | acceptor, I/O threads, last connection details | accept, handshake, run the session handler | OCSP cache, session handlers |
| OCSP cache | `server/src/oscp` | responses with a validity limit | look up, fetch, store | handshakes, the responder of the CA |
| DatabaseManager | `libs/db` | a query and a listening connection, callbacks, a thread | insert, upsert, draw ids, LISTEN | PostgreSQL |
| Database | `database/sql/db.sql` | `sensor_config`, `sensor_config_pending`, `sensor_state`, `request_id_seq` | triggers that NOTIFY on every change | server and controller |
| Controller | `controller/src` | MQTT session, consumer queue | forward requests, write confirmed configurations and telemetry | database, broker |
| Sensor | `sensor/src` | MQTT session | confirm requests, produce telemetry | broker |
| Proxy | `proxy/src` | one TLS connection, a coroutine per client | forward a request, return the response | HTTP clients, server |
| JWT manager | `libs/jwt` | keys | generate, verify | HTTP sessions |

A configuration request travels in a circle. A session of the server draws an
id from the sequence, inserts a row into `sensor_config_pending` and blocks in
the dispatcher. The trigger of the table notifies the controller, which
publishes the request to the sensor over MQTT. The sensor sends it back as an
event; the controller writes it to `sensor_config`, whose trigger notifies the
server; its listener thread calls `dispatch` with the id and SUCCESS, and the
session replies. If that takes more than the time-out the session replies 503.

What is hard about it, by component, with the properties that make it correct:

* **Dispatcher**: contexts on the stacks of other threads, a flag and a
  condition variable, a time-out that races with the answer, a map with a limit.
  No pointer may outlive its context, no wake-up may be lost, every call returns.
* **Pipeline**: four processes, two kinds of messages that are lost with their
  receiver (NOTIFY) or delivered twice (QoS 1), errors that are swallowed on the
  way. SUCCESS must be true, configurations must be traceable, requests for one
  sensor must not overtake each other, sessions must end.
* **Request ids**: a shared counter that every server sets when it starts. Ids
  of requests under way must be distinct and not used before.
* **Proxy**: many clients on one stream with nothing that tells whose turn it
  is. A client must get the answer to its own request, and the stream must be
  in step for the next one.
* **TLS engine and its sessions**: a fixed number of threads that carry the
  acceptor, handshakes and sessions as coroutines, and two calls inside them that
  block: `wait_for_response` and the fetch of an OCSP response. With as many of
  those as threads nothing else runs. Whoever connects must be accepted at last,
  an order needs a good token, and what a session is shown must not be stale.
* **OCSP cache**: no lock between look-up and store, a period guessed when the
  response arrives; the validity of what is served.
* **DatabaseManager and the programs around it**: an order of calls (connect,
  register, run, disconnect) that the header describes and the code does not
  enforce, errors that some methods throw, some swallow and some do not see, and a
  thread that must end before the globals it uses, on every way out of `main`.

`PROJECT.json` lists every hazard at its line, with the properties that cover it
or the reason why none does.

## Modules

| Module | What it models |
|---|---|
| `RequestResponse` | the promise of the dispatcher: a call is refused, or opened and closed with the last answer to its id, or with TIMEOUT |
| `Dispatcher` | `wait_for_response` and `dispatch`, a step for everything a thread does between two points where another can intervene |
| `MCDispatcher` | ids for the runs of `Dispatcher` |
| `Dispatcher_proofs` | theorems about `Dispatcher` |
| `ConfigPipeline` | the whole circle, with the dispatcher as an instance of `RequestResponse` |
| `MCConfigPipeline` | targets of the requests for the runs of `ConfigPipeline` |
| `ConfigPipeline_proofs` | theorems about `ConfigPipeline`: types, `SUCCESS`, traces |
| `ConfigPromise` | the promise of the pipeline: requests are written in the order of their table and answered by one outcome, SUCCESS only after the write |
| `ConfigPromise_proofs` | the order of the requests, and that `ConfigPipeline` implements `ConfigPromise` |
| `RequestIdSequence` | `init_request_id_sequence`, `generate_request_id` and the insertion of the id, for several servers |
| `MCRequestIdSequence` | servers and sessions for its runs |
| `RequestIdSequence_proofs` | theorems about `RequestIdSequence` |
| `ProxyStream` | the proxy, from its options to the end of its loop: sessions on a shared stream |
| `ProxyStream_proofs` | theorems about `ProxyStream` |
| `OcspCache` | `getOCSPResponse` for concurrent handshakes, with the period of what is kept |
| `OcspCache_proofs` | theorems about `OcspCache` |
| `HttpApi` | a request and whether there is a key, to a status and an effect |
| `CommandLine` | what one read of a command line session is taken for |
| `ServerSessions` | acceptor, threads, handshakes and sessions; with `OcspCache`, `RequestResponse`, `HttpApi` and `CommandLine` |
| `ServerSessions_proofs` | theorems about `ServerSessions` |
| `ProcessLifecycle` | `main` of the server and the controller around their `DatabaseManager` and its thread |
| `ProcessLifecycle_proofs` | theorems about `ProcessLifecycle` |

`ServerSessions` and `ConfigPipeline` use the dispatcher through its abstract
specification `RequestResponse`, which `Dispatcher` is proved to implement;
`ConfigPipeline` is proved to implement `ConfigPromise`, and `ServerSessions` to
implement `OcspCache`.

### How they correspond to the code

**Dispatcher.** `pc[w]` says where a call of `wait_for_response` stands: at the
lock (`entry`), holding it before the capacity test (`check`), blocked in
`cv.wait_for` (`blocked`), moved out of the wait but without the mutex (`woken`),
with the mutex again (`resumed`), returning (`leaving`). `status` and `ready` are
the fields of the context; `it[d]` is the pointer that a `dispatch` call has
found. `Store` and `Notify` are separate steps, so that the deadline may pass
between them. `Register` overwrites an entry with the same id and `Finish`
erases by id, as the map does. `WakeSpurious` is what a condition variable may
always do. `IdOf` may map two calls to one id; where uniqueness is needed it is
an explicit hypothesis, `IdsDistinct`, which `RequestIdSequence` examines.

**ConfigPipeline.** `stage[r]` follows the session through `config_ip` (or its
twin in the command line handler): `drawn` after `generate_request_id`,
`stored` after `add_pending_config`, `unsaved` after an `add_pending_config`
that swallowed a broken connection, `waiting` in the dispatcher. The insertion
and the registration are separate steps, as in the code: the answer may come
first. `requested` and `events` are the notifications queued for the connections
that listen; a notification for nobody is gone. `toSensor`, `toCtl`, `unacked`
and `inbox` are the way through the broker: queued for the sensor, queued for
the persistent session of the controller, delivered but not acknowledged, and
in the consumer queue of the client. `ctl` is `zombie` when the consume loop has
ended and `main` waits in `join`, with the listener thread still forwarding.
The listener and the query connection of a process are one variable
(`serverLink`, `ctlLink`): what breaks them is the restart of the database, and
no code opens them again. `config[s]` keeps the `request_id` of the row; the
address and the host name travel with the id and are not modelled.

**ConfigPromise** keeps the two tables, the requests written so far and what the
clients were told: the four variables of `ConfigPipeline` with these names, so the
refinement mapping is the identity and everything else of the pipeline is hidden.
`InTurn` is the guard of a first write; a write that is repeated (QoS 1) has none,
which is what the code allows.

**RequestIdSequence.** Starting a server is connect, `CREATE SEQUENCE`, reading
the maximum, `setval`: the last two belong to one statement, but the subqueries
see the snapshot at its start while `setval` takes effect at once. `creator` is
the server whose `CREATE` is not committed. `rows` holds the ids of both tables
(every id in `sensor_config` was in `sensor_config_pending` first).
`QuietSpec` restricts `Spec` to the deployments in which a server reads the
maximum only when everybody with an id has its row, and nobody draws one until
`setval` is done.

**ProxyStream.** `stage[c]` follows `do_session` from one `co_await` to the next.
`toServer` and `toProxy` are what is on the stream. A reader takes one or more
messages into its own buffer, the last perhaps in part, and drops what its parser
does not use (`Take(c, k, cut)`), as the `flat_buffer` of a session does; a
response whose beginning was dropped is on the stream with `whole` false. The read
completes (`ReadResponse`), needs more (`ReadHeaders`) or fails: because the stream
is broken (`StreamFails`), or on a stream that is alive (`ReadFails`), when the
response announces more than the 8 MiB that a parser of responses accepts unless
told otherwise (`Large`), or is none. What begins in the middle of a file may be
taken for anything: a response, the headers of one, or neither. `failed` is a
session ended by its `catch` in that way. `SerialSpec` restricts
`Spec` to clients that come one after the other, as in the Robot tests. `main`
is in five actions: the options and files are read (`Start` or `StartFails`), the
connection to the server is made once (`Connect`), and one exception of the
coroutine that connects and listens, or a signal, ends the loop (`ListenerFails`,
`Stop`), with the sessions in whatever place they are.

With one client after the other the stream stays in step unless a GET asks for a
file above the limit: `OwnUntilTooLong` and `NothingLeftOver` make that exception
(`TooLong`), because the code does. `OwnResponse` alone does not hold of
`SerialSpec` then: the session that asked ends with an error, the next client may
be given the body it left, and the client after that the answer to this one.

**OcspCache.** A call of `getOCSPResponse` is `fetching` between the look-up under
the shared lock and the answer of the responder, and `storing` between that and
the unique lock. `Period` is the loop of `intoCache` as it is written, with the
status it tests. Time is counted in minutes, the unit of `m_cache_duration`. The
map is keyed by certificate and the server has one, so it is one entry. A
response has the two ends of its validity and may be revoked; a response without
`nextUpdate` is one that expires late. The clock is read once in `Fetch` for the
two readings at `ocsp_cache.cpp:90` and `:188`, which nothing but the handling of
one response separates.

**HttpApi** and **CommandLine** are functions. A request is its method, the kind
of its target, whether its token verifies, and the kind of its body; the answer is
the status and what was done for it. A read of the command line is a sequence of
words of the kinds the parser tells apart; an address where a number is wanted
becomes a number and a rest, as stream extraction does. `HttpEffects` and
`CliEffects` are the sets of effects a session can come to have: what
`ServerSessions` needs to know about the contents.

**ServerSessions.** `stage[c]` follows a connection from the accept queue of the
kernel (`backlog`) through handshake, status request (`ocsp`), session loop
(`reading`, `waiting`, `writing`) and shutdown. `Busy` are the sessions inside one
of the blocking calls; every other step is what a coroutine does between two
`co_await`s, which needs a free thread but is over at once (`Resume`). Calls to
the database are treated that way too: they block, but not for longer than the
database takes. `published` and `latest` are the connection details, `exp` is the
expiry of the token issued last: as `verify` looks only at signature and expiry,
a session can present any token issued, and the last expires last. A session
may wait again and again, so `Write` gives it a new wait.

**ProcessLifecycle.** `at` is where `main` stands, one step for each call that
touches the manager, in the three programs that have one: the server in its two
modes and the controller. A connection is `lost` when the database has gone
away and nobody has used it since, `closed` afterwards: that is what
`is_open()` can tell. `owners` counts the shared pointers to the manager; the
handler of the HTTP mode refers to the engine that owns it, so its share is
never given back. `statics` are the globals that are destroyed before the
manager, among them what the handlers of notifications use: `late` records that
one ran afterwards. The messages of the controller are kinds; a reading, a
configuration and a bad message differ in what a lost connection does to them,
because `upsert_sensor_state` checks the connection and `upsert_sensor_config`
does not. `refused` are the channels whose LISTEN failed over a connection that
stayed open: no exception leaves `register_listen_async`, so `main` starts the
listener without them, and `MissesOnlyRefused` says that no channel is missing from
an open listener for another reason. The controller whose loop has ended waits in
`join` for a thread that ends with its connection only (`Idle`).

`ListenerRaces` is the close of the connection under the thread that waits on it,
without a lock: undefined behaviour, of which the model takes the crash to be an
outcome. `DatabaseManager.hpp:28-33` promises a safe and orderly end. The code does
not keep that promise, and `ShutdownNeverHangs` does not say that it does: the
destructor comes to its end or the process crashes, but nobody waits for ever. No
run presents the crash as found, since it would only find what the model assumes.

## Runs

| Run | Specification | Instance | Shows |
|---|---|---|---|
| `dispatcher` | `FairSpec` | 3 waits, 2 notices, 2 places in the map, distinct ids | types, `NoDanglingContext`, `CapacityRespected`, `WaiterReachable`, `NoLostWakeup`, `EveryCallReturns`, and `KeepsPromise`: it implements `RequestResponse`, liveness included |
| `pipeline` | `FairSpec` | 2 requests for one sensor, any 2 faults, 1 place in the dispatcher | `SuccessMeansApplied`, `Audited`, `FirstWriteInOrder`, `EverySessionEnds`, `AppliedUnlessFault`, and `KeepsPromise`: it implements `ConfigPromise` |
| `orders_survive` | `FairSpec` | 1 request, 1 fault, 1 place in the dispatcher | violated: a request persisted while the controller is away is never applied |
| `request_ids` | `FairQuietSpec` | 2 servers, 3 sessions, 1 crash, with and without a seeded row | `UniqueInFlight`, `DrawnIsFree`, `DrawsGrow`, `EveryServerServes` |
| `parallel_start` | `Spec` | the same | violated: a second server sets the sequence back and an id is drawn twice |
| `empty_tables` | `QuietSpec` | the same | violated: without rows no server starts |
| `proxy_serial` | `FairSerialSpec` | 4 clients: a HEAD and a GET for a file within the limit, a HEAD and a GET for one above | `OwnUntilTooLong`, `NothingLeftOver`, `EveryGetEnds` |
| `proxy_concurrent` | `Spec` | 2 clients | violated: a client gets the answer to another |
| `proxy_head` | `FairSerialSpec` | 2 clients | violated: the session of a HEAD never ends |
| `ocsp_expired` | `Spec` | 2 handshakes, a caching time of 3, responses good until 1 or 4 | violated: a response is served after it has expired |
| `server_sessions` | `FairSpec` | 2 clients, 1 or 2 threads, 1 place in the dispatcher, both modes, with and without a key | `NeverFull`, `OrdersAuthorised`, `DetailsNotOlder`, `CachedWasGood`, `EveryConnectionServed` |
| `process_lifecycle` | `FairSpec` | the three programs, the database stops up to twice, 3 messages | `SafeRelease`, `RegisteredBeforeRunning`, `MissesOnlyRefused`, `TornDownQuietly`, `SwallowedOnce`, `ShutdownNeverHangs`, `ReadingsStored` |

A run that is expected to be violated checks one statement of the repository's
documentation; `PROJECT.json` quotes it under `findings`.

**Bounds.** Every bound is a constant of its configuration. Three waiting calls
against a map of two are enough for the limit, a time-out and an answer to meet; two
`dispatch` calls for an answer that is overwritten or comes too late. In the pipeline
two requests for one sensor are the least that can overtake each other, two faults the
least for a restart that is followed by another loss; the same properties were also
checked with three requests. Two servers are the least that can disturb each other,
and three sessions give one server two. Two connections against one thread is a full
pool, against two threads and one place in the dispatcher a full dispatcher: the
second is the case `NeverFull` excludes by its premise, and its theorem covers every
other pair. A clock of three instants, a token good for one step and a caching time of
one let both run out during a session. Four clients of the proxy are one for each pair
of a method and a length, so that the small GET comes before, between and after the
others. Two stops of the database are one before and one after any step of `main`;
three messages are one of each kind that matters, or three readings across a stop.
Faults and crashes are counted because an unbounded number of them makes every
liveness property empty.

No run of `Dispatcher` has ids that collide: the theorem `ContextSafety` covers
them, for any ids.

**Deadlock** is checked for `Dispatcher`, `ServerSessions` and `ProcessLifecycle`,
which name the states in which they have ended or wait for what may never come
(`Terminated`, `Idle`). The pipeline, the sequence and the proxy may really stop
in many places when no client comes any more, and `OcspCache` stops with its
clock; their configurations say so.

**Fairness.** Threads and coroutines that can run do run: each has weak fairness
on its own steps, and each guard stays true until the step is taken. The deadline
of a wait passes. Messages that can be delivered are. A process that is down is
started again, which is the operator's part. Nothing is assumed about clients
(requests need not come), about acknowledgements reaching the broker, or about
faults. A client of the proxy that was accepted sends its request or goes away.

In `ServerSessions` a wait ends at its time-out and a fetch when the responder
answers or hangs up: `expires_after` does not apply to the synchronous calls the
code makes, so that without that assumption a silent responder holds a thread for
ever. `Accept` has strong fairness, because `io_context` takes its handlers from
a queue: the acceptor's comes to its turn although sessions take the threads again
and again in between. Clients need neither send nor leave. In `ProcessLifecycle`
the consume loop, the end of `main` and the listener thread run when they can;
nothing makes the server stop serving, the database come back or messages arrive.

## Proofs

All theorems hold for every value of the constants.

* `Dispatcher_proofs`. The inductive invariant says who holds the mutex at which
  `pc`, that every entry of the map points to a call between registering and
  finishing, and that a pointer found by `dispatch` is still registered. The last
  is the argument of the comment at `Dispatcher.cpp:31-35`: the mutex is held from
  the look-up to the notification, and the entry is erased under the same mutex,
  so the context cannot go while it is written. From it follow `TypeOK`,
  `NoDanglingContext`, `CapacityRespected` and `NoLostWakeup`, and, when ids are
  distinct, `WaiterReachable` and the refinement of `RequestResponse`.
* `ConfigPipeline_proofs`. Everything in a queue behind the insertion has a row in
  `sensor_config_pending` whose sensor exists (`Stored`); every event follows the
  write that it reports (`Reported`). Neither `SuccessMeansApplied` nor `Audited`
  is inductive without them: a queue could hold a request nobody wrote.
* `ConfigPromise_proofs`. `FirstWriteInOrder` is about two requests that travel
  through `requested`, `toSensor`, `toCtl`, `inbox` and `unacked` at once. The
  invariant says that each of these queues is in the order of `pending`, repetitions
  allowed, and that what stands further along is nowhere behind what stands further
  back (`InOrder`). It needs four facts more: a request is inserted once, so the
  order of `pending` is an order (`Once`); a controller that starts has an empty
  client, so that what the broker sends again is not put behind something newer
  (`Fresh`); what a running controller has not acknowledged is in its inbox or was
  written (`Caught`); and nothing on its way to a first write was overtaken by a
  write (`Overtaken`), which is what the property says of the next step. The lemmas
  about ordered sequences (`OrderedTail`, `OrderedAppend`, `OrderedConcat`,
  `PrecedesAppend`) carry the queues from step to step. `ImplementsPromise` maps every
  step to one of `ConfigPromise` or to a stutter, with `Untold` for the outcome that a
  client is told once.
* `RequestIdSequence_proofs`. Once a server is ready the sequence has passed every
  id in a row or under way, and what a server is about to set it to has as well
  (`Passed`). `SingleServer` shows that one server alone keeps ids unique without
  the assumption of `QuietSpec`, and free and growing, because its sessions die with
  it: `Spec` then implies `QuietSpec`. The hazard is the second instance, not the
  restart.
* `OcspCache_proofs`. `PeriodNeverShortened` is the finding of `ocsp_expired` for
  every response and caching time: a response that is good is never "not yet
  valid" later, so the loop leaves the period as it is. The invariant is that an
  entry that is kept, or held by a call about to store it, was good at a time `ref`
  not after now and is kept until exactly `ref + m_cache_duration` (`Timed`); the
  order of the stores plays no part, hence `CachedWasGood`.
* `ProxyStream_proofs`. Types for any clients; for serial ones, that only one
  session is active (`Alone`) and that, until a response was too long, the stream
  holds at most one message, of the session that waits (`InStep`). `InStep` is needed
  because the reader takes what there is, whoever it is for. `TooLongStays` makes the
  exception usable: a step that ends without it began without it. `OwnUntilTooLong`
  and `NothingLeftOver` follow, and `SmallFilesServed` says the same without the
  exception when no GET asks for more than the limit.
* `ProcessLifecycle_proofs`. Four parts for the safety properties: up to the start of
  the thread `main` has no thread and, once connected, a connection (`StartingUp`); as
  long as the listening connection is open, the channels registered or refused are
  those tried (`Hearing`); a lost reading leaves the query connection closed for good
  (`Losing`); and a thread that is left once `main` has returned means an error or the
  HTTP mode (`TearingDown`). Types need a fifth, the account of the readings
  (`Accounted`): stored, swallowed and waiting ones together are those received, less
  the one that the exception that ends the loop takes along. The readings of the inbox
  are counted as the cardinality of a set of positions, which taking the head shifts
  by one (`WaitingTail`). `NoReadingVanishes` is what the account says of the loop
  while it runs.
* `ServerSessions_proofs`. A wait that is open in the dispatcher is a session that
  holds a thread (`HoldsThread`), so a free thread means that fewer than `threads`
  waits are open; who is being served is among the `Published`, whose last is
  `latest`. `OrderNeedsToken` goes through every request of `HttpApi`, and
  `EffectsNeedKey` says what can be had without a token. `ReadsAreFew` shows that the
  reads of at most five words, which TLC enumerates for `CliEffects`, stand for reads
  of any length. Every step
  is a step of `OcspCache` or leaves it alone, and `StatusWasGood` and the types
  of the clock are taken from `OcspCache_proofs` through that refinement.

The only assumptions are the named ones of the modules (`DispatcherAssumption`,
`PipelineAssumption`, `SequenceAssumption`, `ProxyAssumption`, and `BoundsAssumption`
of `ProcessLifecycle`), which TLC evaluates in the runs, and the hypotheses in the
statements of the theorems (`IdsDistinct`, `TimesAreNumbers`, `SizesAreNumbers`: ids
differ, times and sizes are numbers, connections are finitely many).

Every safety property that a passing run checks is proved. Only model-checked is
liveness (`EveryCallReturns`, `EverySessionEnds`, `AppliedUnlessFault`,
`EveryServerServes`, `EveryGetEnds`, `EveryConnectionServed`, `ShutdownNeverHangs`,
`ReadingsStored`, and the liveness part of `KeepsPromise` of `Dispatcher`): fairness
and `ENABLED` are out of the prover's reach.

## What is not modelled

* An older configuration can come back when QoS 1 delivers a request twice: the
  upsert has no guard on `request_id`. `FirstWriteInOrder` is therefore about the
  first write of each request only.
* In `ConfigPipeline` the database restarts in one step; in `ProcessLifecycle` it
  is down for a time. The logged values a sequence may skip after a crash of
  PostgreSQL are left out; skipping keeps ids unique.
* Payloads, host names, addresses, logging, JSON. `status` and `completed_at` of
  `sensor_config_pending` are written by nobody.
* The contents of files and MIME types, the headers of HTTP messages; the
  signature, header and encoding of a token.
* `hardware_concurrency` may return 0 by its definition; the pool would then have
  no thread and `join` would return at once. `PoolSizes` does not contain 0.
* The branch of `on_db_error_event` that raises an alarm tests a field "type" that
  no trigger writes; the server only logs error and state events, so nothing
  follows from them.
* The producer of the sensor sleeps for 100000 s between two readings and ignores
  its stop token meanwhile; nothing on that scale is modelled, only that readings
  arrive in order.
* `sensor_certs`, users and errors have tables and triggers but no writer in the
  code; the frontend shows sample data and calls nothing.
* The vendored MQTT client, Botan, Boost and libpqxx: only what the code relies on.

## Plan

What is left: that the session of `ConfigPipeline` and the one of `ServerSessions` use
the dispatcher alike, by an abstract session that both implement.
