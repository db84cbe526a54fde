# Latiq: a TLA+ verification of the pond server

Latiq gives agents *ponds*: DuckLake workspaces, each placed on one *pond node*
by a *control plane* that keeps the registry. Agents, programs and operators
reach a pond through MCP, gRPC or the CLI; whichever node they greet forwards
the call to the pond's owner. This directory models the parts of that system in
which several actors share state, checks them with TLC and proves what matters
most with TLAPS. Paths below are relative to the repository (`src/`).

## Inventory

| Component | State | Operations | Interacts with |
|---|---|---|---|
| Registry (`latiq-control-plane/src/registry.rs`) | node rows with state and heartbeat, pond rows, datasets, catalogs, policy, one mutex | register, heartbeat, reap, create, pond_info, set tier, forget, drop, dataset and catalog CRUD | called by the control service, the admin service and, embedded, by the node itself |
| Control service (`control_service.rs`, `node_client.rs`) | none of its own; one task per call | create_pond_assignment: place, materialise on the owner, compensate | registry; MaterializePond on the owning node, with a timeout |
| AgentOps (`latiq-agent-core/src/ops.rs`) | in-flight registry, tombstones, lineage writers | query, streamed read, explain, drop, materialise, pull | control plane, engine, storage, forwarder |
| In-flight registry (`inflight.rs`) | map of operations, set of tombstones, two mutexes | register, complete, cancel, begin_drop, end_drop | every query and drop of the node |
| Deadline (`deadline.rs`) | one watcher task, a flag, a token | arm, expire, classify, drop | the caller's cancel, the engine's abort |
| DuckEngine (`latiq-engine-duckdb/src`) | cached instance per pond; writer mutex; read pool with a condvar; watcher thread per call | read, write, read_arrow, pull, forget | DuckDB and DuckLake (external) |
| Streams (`ops.rs`, `latiq-pond-node/src/stream_service.rs`, `forward_client.rs`) | bounded channels, oneshots for schema and meta | produce, encode, decode, collect | engine, both nodes of a forwarded read, the client |
| Storage (`latiq-storage`) | a directory per pond | ensure, drop, location | the node's file system |
| Lineage (`latiq-lineage`) | per-pond writer, rotated files, bounded sink queue | emit, flush, drain, read | every query of an opted-in pond |
| Authentication (`latiq-auth`) | key cache and refresh state per issuer | verify, key_for, refresh | the identity provider |
| Forwarder (`latiq-pond-node/src/forward_client.rs`) | map of channels to peers under one lock | one call per operation | the owner's Data and Stream services |
| Errors (`latiq-common/src/error.rs`) | none | envelope, status, back again | every surface and every hop |
| Processes (`latiq/src/lib.rs`, `latiq-pond-node/src/lib.rs`, `latiq-sdk/src/lib.rs`) | registry file, extension cache, ports | start, register, heartbeat, reap, stop, embed | control plane, node, the host of an embedded cluster |
| MCP, CLI, SDKs | none | check arguments, translate calls | AgentOps |

What is hard in it:

* concurrency: handlers are tasks whose awaits interleave, engine calls are
  threads, an abort is a third thread that interrupts whatever statement happens
  to run, and every mutex is taken and released separately;
* failure: nodes crash and come back, heartbeats are late, an owner answers after
  the control plane gave up, a client disconnects and its handler simply stops
  existing, a statement, a COMMIT or a ROLLBACK is refused or interrupted, a
  conversion panics;
* ordering: tombstone, registry row, cached instance and files go in a fixed
  order; flag before token; verdict before the connection's reuse;
* bounds: the read pool and every channel are bounded, and somebody waits at
  each bound.

What makes each component correct is stated with its runs below. The hazards are
listed in `PROJECT.json`, each at the line where it bites.

## Modules

| Module | Models |
|---|---|
| `PondLifecycle` | create, query, drop, forget, heartbeat, reap, crash, restart across the control plane and the nodes |
| `PondPromise` | what the control plane promises about one pond; `PondLifecycle` implements it (`KeepsPromise`) |
| `PondWriter` | instance cache, writer mutex, attribution bracket, abort watcher, recovery, catalog pull |
| `ArrowStream` | one streamed read from its transaction to its consumer over 1 to 4 channels |
| `ReadPool` | the read connections of one pond |
| `PondRegistry` | the registry as a store: migrations, nodes, ponds, datasets, catalogs, policy, the Admin and Control handlers over them |
| `Lineage` | a pond's events from the query to the files, the reader and the HTTP backend, and the node's shutdown |
| `Errors` | kinds, envelopes and statuses, as constant operators; `QueryPath` extends it |
| `QueryPath` | one request of any kind but drop_pond and materialize_pond, which `PondLifecycle` has, on any surface, from its caller over greeter and owner to the engine and back |
| `Auth` | verification of tokens against cached, rotating keys |
| `Cluster` | start, registration, heartbeat, reaping and stop of control plane and node, as processes and embedded |
| `MC*` | the modules as TLC runs them; the values are in the `.cfg` files |
| `EngineReadProofs` | the theorems about `ArrowStream` and `ReadPool` |
| the other `*Proofs` | the theorems about the module of that name |

An action is named for the function, or the part of one between two suspension
points, that it stands for; `map` in `PROJECT.json` gives the lines. Operators
that begin with a "Mutant" comment are broken variants of the action they
precede. They are used by no specification: each shows that some property does
notice the bug.

### PondLifecycle

Registry calls are atomic, because the registry holds one mutex over each. A
handler is a program counter (`cpc` the control plane's create, `mpc` the owner's
materialise, `qpc` a query, `dpc` a drop), and moves at each await and each lock.
`register` is two actions and `begin_drop` is two, as the code takes two locks in
each. A crash empties what lives in the process (`open`, `dropping`, `inflight`,
the handlers) and keeps `disk`. A late heartbeat (`"stale"`) and a crashed node
look the same to the reaper. A client that hangs up drops its handler where it
awaits: the engine call that was spawned runs on detached, and the handler's
remaining lines never run.

`raced` is a history variable: the queries that were between the two locks of
`register` when a drop marked their pond.

### PondWriter

DuckDB's interrupt stops the statement that is running and is forgotten between
statements, so every statement has a start and an end and the watcher's shot
lands on one or is lost (`InterruptLost`). A statement that ends, fails by itself
or is interrupted leads where `in_write_txn` sends it. The two snapshot reads
swallow their error, whatever it is: a request whose second read failed is in
`blind`. The caller's SQL may hold BEGIN, COMMIT and ROLLBACK of its own, which the
engine runs as they stand (`Driving`, `DriveTransaction`); what such a COMMIT
publishes carries no attribution. A pull's teardown is best effort: when its DETACH
or DROP SECRET is refused the error is dropped and the attachment is `stuck`. An
instance is named by the request that opened it. The
lineage extraction before the bracket and the annotation after it are statements
whose errors are swallowed and that touch neither the transaction nor the
snapshots; they are left out.

### ArrowStream

A batch is a token and a channel a sequence of them: what is asked is how many
arrive and what ends the stream. `hops` is the length of the chain: 1 and 3 end in
the collector of the owner and of a greeter, 2 and 4 in a client. The collector's
cap on rows is counted in batches. `cause` is a history variable: who pulled the
trigger first.

### ReadPool

Idle connections are interchangeable, so they are counted. What the code does
under the pool's mutex is one action; the notification comes after the mutex is
released and is another.

### PondRegistry

What a registry method does under the mutex is one action, and a handler that calls
two methods is two. `db` is what the connection sees, `disk` what the database file
holds without its log: a CHECKPOINT copies the one to the other, a crash keeps the
log or loses it. Migrations are run statement by statement, so a crash or a refused
statement can fall between one and its version row, and a version that cannot be read
counts as 0, as `unwrap_or(0)` has it. A refused statement becomes what the method
makes of it: "internal", or a "not found", or a default; a listing of ponds goes on
without the pond whose lookup was refused (`missed`). A dataset's tables and tags are abstracted to the
version of the dataset that wrote them: an answer is whole when they agree.

### Lineage

The writer's mutex is held for one action; a flush drains under it, then writes,
syncs and renames without it, and puts the batch back when a step fails. Three
actors flush: a due batch on the blocking pool, a reader, the shutdown. The sink's
poster has the two halves of its wait as separate steps, with the permits of both
`Notify`; it ends with the process, and the backlog with it. A client pages backwards with the code's cursor. `recorded` and `lost` are
histories. Times are milliseconds and may coincide.

### QueryPath and Errors

`frames[r]` is the stack of handler futures of a request, greeter below owner; the
engine call is beside it, since it is spawned and outlives a dropped handler. The
lookup of the pond is awaited and answers with a copy of the row, on which the handler
acts later: meanwhile the row may go or its owner register at another address. Each
operation goes through the refusals of its surface (MCP tool, gRPC service, SDK or
CLI in front of them), placement, possibly one forward with the loop guard, the
local half, the access record and the way back, where each hop turns an envelope
into a status and the status into an envelope. A refusal at a door has no envelope (the
MCP 401 is bodiless, the gRPC status has no details); the node that forwarded into one
makes the envelope. `Errors` has the tables of kinds and
the conversions; its `ASSUME` is the code's own `debug_assert` on opaque kinds over
every constructor, evaluated by TLC. A statement is abstracted to its shape. `cause`
and `ran` are histories: where the failure arose, and where statements ran as whom.

### Auth

A caller is one `verify`; its awaits are those of `key_for`. An issuer publishes a
set of keys, may rotate it once and may be down. A token is a record of what the
checks tell apart. `vouched` and `taken` are histories: every key an issuer ever
published and every document that was fetched.

### Cluster

A tick is ten seconds, the period of heartbeat and reaper; `due` makes each loop
wake once in a tick. An incarnation of the node is a number and so is its address.
Extensions are installed one at a time, any of them may fail, and what is installed
stays in a cache on disk; loading one may need another (iceberg needs avro). In mode "binary" control plane and node are processes, in mode "local" tasks of the
SDK's host, over a registry file and an extension cache that outlive both.

## Runs

Passing runs. Bounds are chosen so that every action of the module fires and every
interleaving a property is about is possible.

| Run | Instance | Shows |
|---|---|---|
| `Lifecycle` | 1 pond, 2 nodes, 1 query, 1 drop, 1 crash, every client may hang up | a created pond has its storage (`EagerAllocation`); files go only after the row (`DeletesOnlyUnregistered`); the tombstone reaches every statement but the ones in the register window (`OnlyRegisterWindowEscapes`); no node touches a pond placed elsewhere (`NoStrayPond`); refinement of `PondPromise` (`KeepsPromise`) |
| `LifecycleLive` | 1 pond, 1 node, 2 drops, 1 crash, the clients of the create and of one drop may hang up | creates are answered (`CreateSettles`); tombstones are cleared, but for the mark of a drop whose own handler was dropped (`TombstoneCleared`) |
| `Writer` | a write that may drive the transaction itself and a catalog pull, either of which may or may not publish, any statement refused or interrupted, 2 tiers | the kept connection is clean (`WriterClean`); a refused request published nothing but what its SQL committed by itself (`ErrorMeansUnpublished`); the snapshot it is told is its own, as far as the swallowed reads allow (`ReportsItsSnapshot`); nothing stays attached unless the teardown was refused (`NothingAttached`); a cancelled write ends even behind a pull that never does (`CancelledEnds`) |
| `Stream` | chains of 1, 2 and 3 channels of 2, up to 7 batches, cap 5 | `PooledIsClean`; `UncutIsWhole` over an encoding, a wire that may break and a decoding; a reader that reads on is answered (`Answered`); the deadline frees the connection of one that stopped (`Released`) |
| `Pool` | 6 readers, 4 places, 1 of the clones may fail | `PlacesAccounted`, `OnlyFailedClonesLoseWakeups`, `ServedUnlessClonesFail` |
| `Registry` | 2 handlers, 4 calls out of 36, 2 ids of which one is also a legal name, 1 dataset, 1 catalog, 1 node, 1 mishap (a crash or a refused statement), or one of each while it is opened | a registry that is served has the whole schema (`ServesWholeSchema`), what was acknowledged survives the loss of the log (`AcknowledgedSurvives`), a dataset answered is one that somebody registered (`AnswersAreWhole`), listings raced by removals are complete but for a refused lookup (`ListingIsComplete`) |
| `Lineage` | 2 queries of 2 events, a buffer of 3 flushed at 2, a queue of 2, pages of 3, 3 times, 1 mishap, with and without a backend | no event is lost or doubled by a failed write (`Conserved`), the sink's counters add up (`SinkAccounts`), its poster never sleeps on a queue while the node lives (`QueueMoves`), a caller sees its own query (`SeesOwnQuery`), paging is exact while times follow the files (`OrderedWalkIsExact`) |
| `QueryPath` | 2 nodes, every operation but drop_pond and materialize_pond, on every surface that has it, every state of the row, verifiers on none, one or both nodes, 2 faults; and two writes that share a map of channels | one access record per answer (`OneRecordPerAnswer`), the failure the caller hears is the one that happened (`CauseSurvives`), a statement runs once and on the owner (`OnceAndByTheOwner`), a cut is named for who cut it (`CutIsNamed`), entries and gauge are given back (`BalancedUnlessFaulty`), every call that is not held up by the control plane or the read pool ends, and so does the statement of a caller that left (`EveryCallSettles`) |
| `Auth` | 2 callers, 13 tokens, 2 issuers that share a key id, 7 configurations, 2 rotations or outages, 4 ticks | "unknown key" is said only by someone who knows (`UnknownIsBacked`), an accepted token was signed by its own issuer (`AcceptedIsVouched`) |
| `Cluster` | 4 incarnations of the node, 4 faults (a failed install, a refused beat, a crash, a taken port), 5 extensions of which 3 are standard and one needs another, 3 faulty settings, both modes | a cluster handed out by the SDK serves (`ReadyMeansServing`), the row tells whether the node is there (`RowTellsTheTruth`), a node that joined opens its ponds offline, and what a finished warm does not name loads (`OfflineReady`) |

Why these are enough: one pond, because ponds share nothing but nodes and the
registry's rows are independent; two nodes, because a request only ever concerns
the pond's owner and one other; one request of each kind that shares the state
under test, since the proofs cover any number; more batches than the channels hold
together (the code's capacity is 4; a chain of four repeats the steps of a chain of
two); a pool of the code's minimum of 4 with two readers that must wait; pages of 3, so that a
page cut where the time changes still holds an event. `Int`
snapshot ids and batch counts are bounded by the number of requests and by
`MaxBatches`.

State constraints of the MC modules, each of which leaves out combinations and no
action: one mishap in a behaviour of `Registry` and `Lineage`, in `Registry` a refusal
and a crash both as long as no call was made; in `Registry` a
behaviour with nodes leaves the datasets alone, which share no table with them, and
calls that only read come last; in `Lineage` a behaviour with a backend has no
reader, no crash and one time; in `QueryPath` the second request exists only where
two writes contend for the map of channels, and a node on its own is the owner; in `Auth` the faulty tokens come early
and are one caller's. Constraints cut faults and calls, which carry no fairness, so
the liveness checks of `Lineage` and `QueryPath` are not affected by them.

`CHECK_DEADLOCK FALSE` stands where the system may stop: each request runs once and
then rests. `Cluster` has a clock and never stops, so deadlock is checked there.

Runs that TLC refutes. Each states a sentence of the repository that the code does
not keep; `findings` in `PROJECT.json` quotes it, and also two comments that the
passing run `Stream` shows to be out of date (`Released`).

| Run | Property | What happens |
|---|---|---|
| `StreamTruncated` | `CleanEndIsWhole` | a cancel that finds the channel full ends the stream without an error |
| `QueryPathHangup` | `RecordOutlivesCaller` | a gRPC caller that disconnects takes the audit of its read with it |

Seen while modelling, and described by the models without a run of their own. Life
of a pond:

* a query between the two locks of `register` when a drop marks its pond keeps a
  live token while its files are deleted, although inflight.rs:33-35 says the
  tombstone closes that window (`RegisterInsert`, `raced`);
* a dropping client that disconnects leaves the tombstone behind, and every later
  query on the pond is cancelled at birth (`DropHangup`);
* a second drop that fails at the registry clears the tombstone of a first one
  that is still deleting (`DropAbort`; `SoleDrop` excludes it from
  `OnlyRegisterWindowEscapes`);
* a node whose heartbeats are late is marked down and its pond may be forgotten
  while it serves (`ReapStaleNodes`, `ForgetPond`);
* compensation that fails because a drop removed the row reports an orphan that
  does not resolve (`Compensate`), with a kind that is never to be retried and a
  suggestion to retry.

Engine and streams:

* an `after` that is interrupted or fails reads None, and a published write is answered
  as one that changed nothing; a `before` that does reads None, and a request that
  published nothing is answered with an earlier snapshot (`StatementFails`, `blind`;
  `ReportsItsSnapshot` names both);
* SQL with a COMMIT of its own publishes and the write then errors, since the bracket's COMMIT
  finds no transaction; that error is the bracket's (`EngineError::Engine`) and reads as
  "internal", without the warning error.rs:381-392 of the agent core demands for such
  SQL (`DriveTransaction`, `ErrorMeansUnpublished`);
* the teardown of a pull drops its own error, and a refused DETACH leaves the catalog on
  the shared writer (`Teardown`, `stuck`);
* a re-tier while a write runs opens a second instance, and both have transactions
  open on the catalog (`Pond`);
* a failed clone gives its place up without a notification, so a waiter may sleep
  although the pool is empty (`CloneFails`);
* the error of a cut local read is dropped when the channel is full, and the
  collector answers with rows and a default meta (`Deliver`, `MetaArrives`);
* a drop's cancel does not stop the deadline's timer, which may expire before the
  error is classified and name it a timeout (`RegistryCancels`, `Classify`);
* two comments are older than the deadline: ops.rs:2198-2203 says that "nothing imposes
  an *absolute* deadline on a slow-but-live consumer" and arrow.rs:29-32 that one that
  stops reading keeps transaction and connection held. ops.rs:1303 arms a deadline that
  moves into the producer and covers the stream (its comment above says so), and
  `send_batch` waits for its token: `Released` holds because of it.

Requests:

* a query whose client hung up, or whose engine call panicked, is never completed in
  the in-flight registry, and the gauge goes on counting it; an unknown pond is
  counted by the gauge before it is refused;
* a forwarded call whose owner cannot be reached is on no node's trail; a forwarded
  write that loses its answer is told `PondUnavailable`, never to be retried, though
  it may have committed; a rejected token is on the trail of Data and Stream and not
  of MCP;
* an MCP cancel stays on the node it reached, and does not reach the writes inside
  `load_dataset`; describe, explain and pull have neither deadline nor in-flight
  entry; the lock on the map of channels is held across a dial;
* two waits have no limit: a read waiting for a pooled connection does not look at its
  token (duck_engine.rs:271-302), and neither does a call of the control plane, which is
  made before the deadline is armed and has no timeout (`Held`);
* a statement may start after its pond's row is gone, since nothing is checked between
  the lookup and the start (`RowGoes`; `OnceAndByTheOwner` allows this and no more).

Registry, lineage, keys, processes:

* `remove_dataset` and `remove_catalog` are statements without a transaction, and a
  listing fails on an entry removed between its search and its lookup; a crash in the
  middle of a migration makes every later open fail; `policy_set` and `heartbeat` do
  not checkpoint; a pond named like another's id makes drop and set-tier touch two
  rows; `pond_list` is recorded as ok before its lookups;
* `pond_info` answers every error with PondNotFound (registry.rs:399), and a listing
  skips a pond that is not found, so one whose lookup fails is missing from a listing
  that says ok, although registry_control.rs:128 has "Other errors still propagate"
  (`missed`); a schema version that cannot be read counts as 0, and the first migration
  is run again on a store that has it;
* an exit past the shutdown's budget loses the sink's backlog (`phase` in `QueueMoves`);
* a backdated START can be older than events of an earlier file, and paging backwards
  then skips it, although reader.rs:139-149 calls the walk exact (`walk.orderly`
  excludes it from `OrderedWalkIsExact`); `get_lineage` does not wait for a batch that
  another flush holds;
* a refresh that completes between a caller's second look at the keys and its look at
  how the last refresh went makes an outage read as an unknown key (`passed` in
  `UnknownIsBacked`); a revoked key is served until the next miss;
* a node whose Data port is taken stays active in the cluster; a heartbeat of a node
  the registry does not know registers nothing; the embedded cluster's wait for an
  active node is satisfied by the row of an earlier host, and only the wait for the
  data port behind it makes `ReadyMeansServing` true; a failed extension check is
  remembered for the life of the process; a node's exit waits for a warm that is still
  installing, whatever its shutdown budget; a control plane that finds its port taken has
  spawned its reaper before it bound.

## Fairness

* `PondLifecycle`: every handler that has not been dropped is a task the runtime
  polls. A crashed node need not come back; heartbeats and clients owe nothing.
* `PondWriter`: a request's thread runs and the watcher's tick comes every 10 ms.
  The caller's SQL need not end, so no fairness is given to the end of the body,
  and nobody need cancel.
* `ArrowStream`: the producer's thread runs except inside the query, the timer and
  the watcher tick. Nothing is asked of the consumer; `Answered` has the fairness of
  the relays, which are tasks, and of a consumer that reads on as its hypothesis.
* `ReadPool`: every reader's thread runs, and every read ends (its deadline sees
  to that). No fairness on spurious wakeups.
* `Lineage`: the poster, the flushes and the timers run. Queries, readers, the signal
  and failures owe nothing.
* `QueryPath`: handlers are polled, timers fire, a reset arrives, a dial ends (with the
  operating system's timeout, since the forwarder sets none), and a statement that has
  its connection and was cut, or has nobody to send to, ends; one that was not need not.
  Nothing is assumed of the control plane's answers or of the read pool: a request that
  waits for either for ever is `Held`, and `EveryCallSettles` has that as its condition.
* `PondRegistry`, `Auth` and `Cluster` are checked for safety only.

## Proofs

Each theorem holds for every value of the constants, under the named `ASSUME` of
the module. The assumptions are that placeholder values such as `None` are none of
the values they stand in for, that bounds are naturals (positive where the code
requires it), that the readers of the pool are finite, that what a constant lists is
of the kind it lists (calls of the service, issuers with keys, extensions that can
be warmed), in `PondRegistry` that datasets and catalogs are different entries and the
seed row is not the clash row, and in `QueryPath` that no engine returns
`EngineError::Timeout`, a variant nothing constructs. Nothing is assumed of schedules, faults or
crashes but what the actions say.

No property is inductive as it stands: it speaks of the moment when a request is
answered or a resource given back, and says nothing of the handlers on their way
there. The invariants below are what has to be added.

* `PondLifecycleProofs`: `TypeCorrect`. `EagerAllocationHolds` and `NoStrayPondHolds` from `PlacementInv`
  (what a handler's position says about row and owner) and `StorageInv`;
  `DeletesOnlyUnregisteredHolds`, an action property, from the last conjunct of
  `PlacementInv`; `OnlyRegisterWindowEscapesHolds` from `WindowInv`, which adds that
  the sole drop's tombstone is up and that a query at its insert was caught or
  carries a cancelled token. `KeepsPromiseHolds` is the refinement of `PondPromise`:
  each action moves at most one pond, in one of the ways `PondMoves` lists, and
  `OnePondMoves` turns such a step into one of `PondPromise`.

* `PondWriterProofs`: `WriterTypeCorrect` and `WriterCleanHolds` from `WriterInv` (an open transaction's
  owner holds that instance's writer and is between its BEGIN and its last ROLLBACK,
  or panicked): only because the failing first ROLLBACK of a write always leads to
  `recover`, and no pull can be interrupted, is the writer clean when it is given
  back. `ErrorMeansUnpublishedHolds` from `PublishedInv` (who published is past its
  COMMIT and unrefused, or drove the transaction itself and the snapshot has no
  attribution; who has yet to commit has no answer). `NothingAttachedHolds`
  from `AttachedInv` (an instance with a catalog attached is held by a pull or stuck,
  and a pull leaves only through its teardown). `ReportsItsSnapshotHolds` from
  `SnapshotInv` (what a request knows between its two readings: a first reading that
  did not fail is no older than what was there then, and with one instance the only
  snapshots that can be newer are its own); mutual exclusion on the
  writer comes from `WriterInv`.

* `EngineReadProofs`, of `ArrowStream`: `StreamTypeCorrect`; `PooledIsCleanHolds` from `CleanInv` (the verdict "ok" implies
  a closed transaction). `UncutIsWholeHolds`, for a path of any length, is a count:
  `CountInv` says that there is a number of batches that have passed each channel,
  the differences being what lies in the channels. It needs no induction over the
  path, since a step changes the count at one channel. `PathInv` says when nothing
  can have been thrown away: senders and receivers close in order along the path
  (`ReceiverInv`, `ClosedInv`), nothing follows an error (`LastInv`), and nobody
  cancels without a cause (`TokenInv`, `LeftInv`).

* `EngineReadProofs`, of `ReadPool`: `PoolTypeCorrect`, `PlacesAccountedHolds` and `NoWakeupLost`, inductive together:
  the counter is the cardinality of the holders, and a step moves one or two readers
  between the sets the bound counts.

* `PondRegistryProofs`: `StoreInv` describes the connection's store and the file's alike (`StoreOK`: how far
  the migrations are and which rows that allows), says that the file is fresh or has
  the whole schema (`SchemaInv`) and that it holds what the connection sees unless a
  checkpoint was refused (`FlushedInv`). From it `ServesWholeSchemaHolds` and
  `AcknowledgedSurvivesHolds`: a crash that loses the log falls back to the file, and
  all that is known of the store is known of the file. `QuietInv` and `ListedInv` tie
  a listing that is half done to the rows it has yet to read, for
  `AnswersAreWholeHolds` and the action property `ListingIsCompleteHolds`; a pond whose
  lookup was refused is out of both and in `missed`. `HandleDoes` sums up
  what any handler does to the stores, so that the induction has one case for all of
  them.

* `LineageProofs`: `SinkAccountsHolds` from `SinkInv` (the poster holds an event exactly while it
  posts). `ConservedHolds` from `TrailInv`: every part of the trail is free of
  repetitions and apart from every other (`ApartInv`), what it holds comes from queries
  that are done, so that the next one's events are new (`DoneInv`), and what was
  recorded is held or lost (`KeptInv`). `SeesOwnQueryHolds`, an action property, from
  `AskedInv`.

* `AuthProofs`: `AcceptedIsVouchedHolds` from `SoundInv`, which follows a key from its publication
  over the fetched document and the cache to the signature it checks.
  `UnknownIsBackedHolds` from `FreshInv`, which follows the age of the keys: a fetch
  is no longer than the client's timeout and begins after the last completion; after
  `refresh_once` there is a completed refresh no older than the interval.

* `ClusterProofs`: `OfflineReadyHolds` from `BootInv` (a stage of the start implies the checks before
  it) and `CacheInv` (what the check of this or an earlier start, the installs done so
  far and the verification say about the cache on disk), `ReadyMeansServingHolds` with `HostInv` (what the waits of the embedded cluster
  have seen) and `RowTellsTheTruthHolds` with `LoopInv` (of two beats beside the
  control plane the first arrives or makes the loop dial anew for the second).

* `QueryPathProofs`: what a caller is told depends on all its handlers carried on the
  way, so `ReqInv` describes a request under way, one part per concern. `StackInv`: all
  handlers but the working one wait, each for an operation the request can have sent,
  and what a handler knows at each of its places. `LookupInv`: the copy of
  the row a handler holds names the owner, unless the row is gone since. `CallInv` and `JoinInv`: the engine
  call, its token, its timer, and the handler that waits for it. `RanInv`: the
  statements started, which at a `load_dataset` are counted against the writes still to
  come; from it `OwnerRunsOnce`. `CauseInv`: a failure under way, once stamped, equals
  its cause stamped where it arose; from it `CauseReachesCaller`, since the stamp of a
  later hop changes nothing. `CutInv`: a failure that names a cut is true of a call that
  is closed, and a closed call does not change while a failure is on its way; from it
  `CutNamed`. `TrailInv`: the records there are at each place of the working handler;
  from it `RecordedOnce`. The parts lean on each other and are inductive together. A
  step of one request leaves the others as they were (`Same`), so it is judged by its
  own request (`Kept`); the depth of the stack never enters, as a step pushes, pops or
  changes one handler, and a crash cuts the stack at one place. `BooksInv` (the in-flight
  registry of a node holds the requests with a statement open there, the gauge is its
  cardinality, somebody waits for every statement) gives `BooksBalance`, as long as
  nothing has failed.

What the proofs found out about the models:

* `ListingIsComplete` was false beyond the bounds of its run. After a removal that
  stopped half way, an add of the same entry whose checkpoint is refused, and a crash
  that loses the log, the entry is half removed again. `AddDataset` and `AddCatalog`
  therefore take an entry out of the history `torn` only when it is in the file whole.
* `AnswersAreWhole` spoke of the rows of whatever was answered last; it now names the
  operations that answer with entries.
* `UncutIsWhole` does not depend on the length of the path, as the bounds of its run
  assume.
* `OneRecordPerAnswer` was false of the model beyond the bounds of its run. An owner that
  registers anew at the address of the greeter can have a query sent back to the node it
  came from. The model decided by the node's name whether a collected read was this
  handler's own, and recorded it twice; it is now decided, as in the code, by whether
  the handler forwarded.
* `CutIsNamed` needs that no engine returns `EngineError::Timeout` by itself. None does,
  and `PathAssumption` says so.

The type invariants of these modules are conjuncts of the proved invariants and for
that reason in no run. Only model-checked are:

* the liveness properties, `CreateSettles`, `TombstoneCleared`, `CancelledEnds`,
  `Answered`, `Released`, `ServedUnlessClonesFail`, `QueueMoves` and
  `EveryCallSettles`: fairness and ENABLED are beyond the prover;
* `OrderedWalkIsExact`, which is about what sorting the files and folding over them
  computes: that takes induction over data.

## Not modelled

DuckDB, DuckLake, tokio, tonic, the HTTP clients, signatures and the file system are
external and modelled by what the code relies on. Left out as text that no property
tells apart: SQL and its tokenizer, explain plans, the wording of errors and resource
pages, JSON schemas, the encoding of rows, argument parsing and printing. Left out as
observation: counters, histograms, log lines. Left out of `Lineage`: the map of
writers with its eviction around a drop, and the byte limit of a page. The Python
binding wraps the Rust client and adds no state. In `PondLifecycle` a pond reference is
an id; how names resolve is in `PondRegistry`. A pond that is dropped and created again
under its name is another pond with another id, and no request is followed across the
two. In `QueryPath` a node does not crash in the middle of a chain of forwards, which
only an owner that registers twice can build: the handlers of a request are one stack,
and the crash would leave two. The length of a timeout is left out, since a timer may
fire at any time. In `Auth` the discovery address is always https (the code keeps the
issuer's scheme), `nbf` and the leeway of 30 seconds are left out, and the stamp of a
refresh and the count of completed ones, which the code writes one after the other while
no other refresh can run, are one step. In `Lineage` a query's events reach sink and buffer in one
step, where the code offers each to the sink before it takes the buffer's lock.

## Plan

Done: all modules of the table, and theorems for every safety property of every
module but `OrderedWalkIsExact`. Next, in this order:

1. The map of lineage writers and its eviction around a drop.
2. `ReadPool` composed with the deadline, for the untimed wait.
3. A crash in the middle of a chain of forwards.
