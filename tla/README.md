# svcmetrics in TLA+

Specifications, model-checking configurations and machine-checked proofs for
`svcmetrics`: an agent that polls a host for metrics and reports them over HTTP,
and a server that stores them in memory, in a snapshot file or in PostgreSQL and
audits what it stored.  Every definition is translated from the Go source; the
`map` of `PROJECT.json` names the lines behind each of them.

## 1. Inventory

| Component | State | Operations | Talks to |
|---|---|---|---|
| Agent pipeline, `internal/agent` | gauges, `counters[PollCount]`, `lastSentCounters`, `cpuCount` under one mutex; an unbuffered channel of batches; the context | two collectors on a ticker; `report`/`enqueue` cuts the state into batches and offers them; `work`/`sendWithRetry` sends, repeats, hands back | server over HTTP; `retry`; the signal context of `cmd/agent` |
| Retry helper, `internal/retry` | attempt number, pause | `Do`, `DoValue`, `wait` | agent, both storages |
| Memory storage, `internal/repository/memory.go` | gauges, counters under an RW mutex; the snapshot file and its temporaries | updates, lookups, `Save`, `Load` | handlers, `syncStorage`, `main`, file system |
| PostgreSQL storage, `internal/repository/postgres.go` | rows; transactions with row locks | upserts, batch transaction, lookups | handlers, database |
| Batch aggregation, `internal/repository/batch.go` | none | validates and folds a batch, sorts it | both storages |
| Audit publisher, `internal/audit` | list of workers with a bounded queue each, `closed`, a wait group, `done` | `Register`, `Publish`, `Close`, `deliver` | handlers, observers |
| Audit observers | the open file; an HTTP client | `Update`, `Close` | publisher |
| Handlers, `internal/handler` | none of their own | refuse, decode, ask the storage, audit, answer: three updates, two lookups, the page of all metrics, the ping | storage, publisher |
| Middleware and pools | how far each request is in the chain; pooled gzip readers, gzip writers and response buffers, each with its position in a pool or its holder, and what it points at; the response being written | log, verify, decompress, compress, sign, recover; `Get`, `Put`, `Reset` | handlers, connection |
| Server command, `cmd/server` | the settings; how far `main` has come | startup with restore, `syncStorage`, the saver goroutine, the shutdown sequence | everything above |
| `cmd/reset`, `cmd/staticlint`, migrations, mocks | - | build-time tools, generated code | - |

What is hard about it:

* **Concurrency.** The reporter and the workers change `lastSentCounters` in any
  order.  Requests publish while `Close` closes the queues.  Saves of concurrent
  requests, of the ticker and of `main` rename over the same path.
  A request uses a gzip reader or a buffer while another one takes it from the pool; a
  page is read under two locks while batches are stored.
* **Failure.** An answer is lost after the server stored the batch; a database
  commits and the answer of the commit is lost; a receiver of audit events hangs;
  the process is killed, or the power fails, at any step of a save.  A handler panics
  inside three middlewares that hold pooled objects.
* **Ordering.** Shutdown is a sequence - requests, audit, final save - whose steps
  are bounded in time and may be overtaken by what they no longer wait for.  So is a
  response: the trailer of the compressor, the digest of the body, the headers and the
  status line have to come in this order.
* **Time-outs and retries.** Each retry repeats something that may already have
  happened; a cancellation may race with every step.

What makes the parts correct:

* Agent: no increment of `PollCount` is lost or duplicated inside the agent; an
  increment counted twice is one whose fate the agent could not know; `Run` returns;
  whatever came back is reported again.
* Audit: no send on a closed queue; order per observer; every event delivered or
  dropped exactly once per observer; a slow observer costs nobody else anything; a
  drained `Close` has delivered everything.
* Storage in a file: a reader of the file always finds a whole snapshot; batches
  are atomic; what was saved stays saved; shutdown loses neither events nor metrics.
* PostgreSQL: batches are atomic, do not deadlock, and are applied at most once by
  the storage.
* Memory: updates take effect one after another; what a call returns was true while it
  was under way; the page shows a batch by half in one direction only.
* Middleware: a pooled object has one user and comes back clean, once, whatever way a
  request takes; a handler reads the body of its own request; an answer arrives whole,
  signed over the bytes that are sent; a rejected request leaves no trace; a status is true.

`PROJECT.json` lists the hazards behind these, each at its line.

## 2. Modules

| Module | Models | Checked by |
|---|---|---|
| `ReportLedger` | abstract: what the agent promises about each single poll | refined by `Agent` |
| `Agent` | `internal/agent` with `retry`, and the server as far as the agent can tell | `agent_pool`, `agent_liveness`, `commit_replayed` |
| `AgentProofs` | theorems about `Agent` for every value of its constants | TLAPS |
| `AuditPublisher` | `internal/audit`, and `closeAudit` of `cmd/server` | `audit_fan_out` |
| `AuditPublisherProofs` | theorems about `AuditPublisher` for every value of its constants | TLAPS |
| `Pool` | abstract: what `internal/pool` promises about its objects | refined three times by `Middleware` |
| `RequestIds` | the names of the requests, shared by the two parts of `Service` | with them |
| `Middleware` | the chain of `newRouter`: logging, signatures, decompression, compression, recovery, and their pools | `service` |
| `MiddlewareProofs` | theorems about `Middleware` by itself, for every value of its constants | TLAPS |
| `MemStorage` | updates, lookups and pages of `MemStorage` under its lock | `service` |
| `MemStorageProofs` | theorems about `MemStorage` by itself, for every value of its constants | TLAPS |
| `Service` | the handlers: `Middleware` and `MemStorage` composed | `service` |
| `ServiceProofs` | that the composition is one of both parts, and what only the two together show | TLAPS |
| `FileServer` | `MemStorage` with its snapshot file, `syncStorage`, the saver goroutine, startup and shutdown of `cmd/server` | `file_server`, `file_server_liveness`, and three disagreements |
| `FileServerProofs` | theorems about `FileServer` for every value of its constants | TLAPS |
| `MetricStore` | abstract: what a storage promises about updates | refined by `PgStorage` and by `MemStorage` |
| `BatchAggregation` | `aggregateBatch`, and what storing a metric makes of the rows | through `PgStorage` and `MemStorage` |
| `BatchProofs` | theorems about `aggregateBatch` for batches of any length | TLAPS |
| `PgStorage` | the updates of `PgStorage` with their retries, and the sessions of the database | `pg_storage`, `counter_upsert_repeated` |
| `PgStorageProofs` | theorems about `PgStorage` for every value of its constants | TLAPS |

`MC*.tla` instantiate them for TLC.  Operators introduced by a comment that says
*Variant* are not part of any specification: each is what a plausible bug would make
of the definition that follows it, and `PROJECT.json` names the property that
notices.

### Agent

| Code | Model |
|---|---|
| `counters[PollCount]`, `lastSentCounters[PollCount]` | `counter`, `lastSent` |
| names of the gauges held; `CPUutilization<n>`; `cpuCount` | `gauges`, `cpuGauges`, `cpuCount` |
| the two `poll` goroutines | `collectors`, `CollectRuntimeMetrics`, `CollectSystemMetrics`, `CollectorStops` |
| `collectBatch` | `CollectBatch`: counts the metrics, marks the counter as sent |
| the loop of `enqueue`, the unbuffered channel | `Offer`: a chunk passes when a worker is idle; the counter is in the last chunk |
| `ctx.Done()` in `report` and in `enqueue`, `close(batches)` | `ReporterStops` |
| `sendBatch` | `Send` or `NotSent`, then `Accepted`, `Refused`, `CommitAnswerLost` or `NoAnswer` |
| `sendWithRetry` with `retry.Do` | `AttemptFails`, `PauseOver`, `PauseCancelled` |
| `returnCounters` | `ReturnCounters` |
| handler and storage | `ServerStores`, and `ServedLate` for a request nobody waits for any more |

The deltas are integers, computed as in the code.  Beside them travel *history*
sets that say which polls a delta stands for; they let a property tell a lost
increment from a sum that happens to be right.  Gauge values are left out: the code
promises no order between batches.  `abandoned` and `stored` count up to two, which
is as much as any property tells apart; `ServedLate` therefore may leave a count of
two unchanged.

### AuditPublisher

`Publish` is split at every send, so several requests may be inside it; `Register`
and the first half of `Close` hold the write lock and are single steps guarded by
`Unread`.  `UpdateReturns` stands for an `Update` that delivered or failed: neither
is repeated.  `Stuck` observers are those whose `Update` may never return (the file,
which ignores its context); the HTTP receiver is bounded by the delivery timeout.
`owed`, `earlier`, `attempted` and `lost` are history.

### FileServer

| Code | Model |
|---|---|
| `gauges` and `counters` of `MemStorage`, `mu` | `memory`; `Writing`, the handler that is "storing"; `Reading`, the saves that are "copying" |
| `MemStorage.UpdateBatch` under `Lock`, metric by metric | `StoreCounter`, `StoreGauge` |
| `syncStorage.UpdateBatch`, the event and the answer of the handler | `StoreGauge` begins the save in the sync mode, `Answer` waits for it |
| `snapshot` under `RLock`, type by type; `json.MarshalIndent`, `CreateTemp` | `CopyGauges`, `CopyCounters` |
| `writeAndClose`; `Rename` | `WriteAndClose`; `Rename` |
| a failing attempt, the pause after it, its end by the context | `AttemptFails`, `PauseOver`, `PauseCancelled` |
| the saver goroutine | `Tick` |
| `Shutdown`: no request is left; its context is over | `Drained`; `GraceOver` |
| `closeAudit`, the final `Save`, the return of `main` | `AuditClosed`, `Exit` |
| `Load`, or no restore | `Start` |

A request is a batch of one gauge and one counter, and the memory and every snapshot
are the sets of requests whose gauge and counter they hold, so that half a batch and
a missing update are both visible.  Both the update and the copy take two steps, and
only the lock keeps them apart.  `main` goes through `serving`, `draining` (Shutdown),
`auditing` (closeAudit), `saving` (final save) and `exited`; a process that has ended may
be started again, with or without a restore and in either mode.  A loss of power puts back
the last file that reached the disk; contents that were not flushed before the rename would
be torn.

`stale` records that the last rename took an update out of the file: the snapshot of that
save lacked what another save had put there by its rename in the meantime (`Overtakes`).  Two
saves that overlap and are renamed in the order of their snapshots do not set it.  `late` holds
the handlers that were still at work when `shutdownGrace` was over, and it stays empty when
`Shutdown` returns because there are none.

### PgStorage, BatchAggregation and MetricStore

| Code | Model |
|---|---|
| `models.Metrics`, what a client can send | `IsBatch` |
| `aggregateBatch` | `Valid`, `Merge` with `Merged`, `Sorted` by `Before`, `AggregateBatch` |
| the upserts, and what `MemStorage.UpdateBatch` does to its maps | `Upsert` |
| `UpdateBatch` up to the first attempt; the checks of the handlers for one metric | `Call` |
| `BeginTx`, the statements; a single upsert that is sent | `Begin` |
| `ExecContext`, once the row is free | `ExecContext` |
| `tx.Commit`; the server carries it out | `Commit`; `CommitLands` |
| every way an attempt fails, the deferred `Rollback` | `AttemptFails` |
| `isRetriablePgError` and the length of the schedule | `IsRetriable` |
| the server ends a session | `SessionEnds` |

Every attempt has a session of its own, since a connection that breaks leaves one behind:
an open transaction keeps its rows locked until the server notices, and a commit that was
sent may still be carried out.  A row that is locked does not change, so `session.done`,
the number of upserts made, stands for what a transaction wrote.  Names are numbers, which
is all that the order of the rows needs.

### Middleware, Pool, MemStorage and Service

| Code | Model |
|---|---|
| the order of `Use` and of the routes in `newRouter` | `at`, the stage of each request |
| `HashMiddleware` up to the handler | `Receive`, `Verify` with `Verdict` |
| `GzipRequestMiddleware`, `gzipRequestBody.Close` | `Inflate` with `GetGzipReader`, `CloseBody` |
| a handler decodes its body; `WriteHeader` and `Write` of `gzipResponseWriter` | `Decode`, `Respond`, `Write` |
| `gzipResponseWriter.Close` | `CloseWriter`, `PutWriter` |
| what `HashMiddleware` does after the handler; its deferred `Put` | `Sign`, `Send`, `PutBuffer` |
| `loggingMiddleware`; `Recoverer` and `Timeout` of the router library | `Log`; `Recover` |
| `Get` and `Put` of `internal/pool` with the generated `Reset` | `Available`, `Taken`, `Pooled` and the contents set by the action that puts |
| `UpdateGauge`, `UpdateCounter`, `UpdateBatch` of `MemStorage` | `Begin`, `Lock`, `StoreNext` (metric by metric), `Unlock` |
| `GetGauge`, `GetCounter` | `Get` |
| `GetAllGauges` and `GetAllCounters` as `ListHandler` calls them | `GetAllGauges`, `GetAllCounters` |
| the handlers of `update.go`, `value.go` and `ping.go` | one operator each: the status it refuses with, and what it answers a success with; `Answer` |
| a handler calls the storage and waits for it | `AskStorage`, `StorageWorks`, `HandlerReplies`, `HandlerPanics` |

A response is written to a *sink*, which is the buffer of `HashMiddleware` or, without a
key, the connection.  A body is a sequence of pieces that carry the name of the request they
belong to: a plain text, or the header and the trailer of a compressor.  That is enough
to see a body cut off, mixed with another or signed before it was complete.  `idle` counts
how often an object is in its pool, so that one put back twice is seen at once; what a
reader, a compressor or a buffer still points at or holds is `source`, `target`, `pending`
and `out`.  `input`, `outcome` and `digest` are history.  The actions on the way out are the
deferred calls of the code, and a panic takes the same way through them.

`Pool` has users and dirty objects only.  `Middleware` implements it three times, once for
each pool; the mapping says who holds an object and when it is not in its initial state.

In `MemStorage` a read is one step that finds no writer, and a writer stores one metric
after another, so that a lookup without the lock would see a batch by half.  `versions`
lists the rows after each update and `since` the version a call began with; both are
history.  The rows between `Lock` and `Unlock` are hidden from the refinement of
`MetricStore`, which sees the last version.

`Service` conjoins the actions of its two parts: a step of the middleware leaves the storage
alone and the other way round, and `HandlerReplies` is where they meet.

`MetricStore` applies each batch metric by metric as the client sent it and knows neither
aggregation nor sessions nor locks.  That `PgStorage` and `MemStorage` refine it therefore
says that aggregation changes nothing but the order, that batches are atomic, and that they
are applied once.

## 3. Runs

| Run | Bounds | Shows |
|---|---|---|
| `agent_pool` | 2 workers (symmetric), 2 polls, 1 repetition, chunks of 1, both unknown outcomes | conservation, stranding, confirmation, double counts, refinement of `ReportLedger` |
| `agent_liveness` | 2 workers, 1 poll, 0 or 2 CPUs, every failure with an answer | `RunReturns`, `EveryPollReported`, `CpuGaugesCurrent` |
| `commit_replayed` | 1 worker, 1 poll | **violated**: the agent replays a commit the storage refuses to replay |
| `audit_fan_out` | 2 observers, the file stuck for ever if it likes, 3 events, 1 closer, queues of 2 | panic-freedom, order, accounting, drain, progress of everybody else |
| `service` | 2 requests, 2 objects in each pool; 58 pairs of ways through the middleware, with and without a key, 72 pairs of things to ask; panics before and after the storage is asked | pools, bodies and answers, reads, status, refinement of `Pool` (three times) and `MetricStore`, every request answered |
| `file_server` | 2 requests, both modes, 1 repetition, file errors, 1 crash or power loss, handlers that outlive `shutdownGrace` | atomicity under the lock, durability, audit and final snapshot on the way out |
| `file_server_liveness` | the same without crashes, and `Shutdown` never gives up | requests and shutdown end |
| `sync_save_overtaken` | 2 requests, nothing fails | **violated**: an answered update is missing from the file |
| `final_save_overtaken` | 1 request, periodic mode, nothing fails | **violated**: the final save is overwritten |
| `pg_storage` | 2 batches, 1 single upsert, 1 repetition, four choices of metrics | refinement of `MetricStore`, no circle of locks, safe replay, termination |
| `counter_upsert_repeated` | 1 single upsert | **violated**: a repeated upsert of a counter adds twice |
| `save_unencodable` | 2 requests, one NaN | **violated**: the next write does not carry the state either |

Why the bounds are enough to be interesting: two workers are what it takes for a
batch to come back while another one is cut or sent; two polls for a delta that mixes
an old and a new increment; one repetition for a request that was stored before it is
repeated.  Three events meet a stuck receiver as one in its hands and two that fill its queue;
one is dropped when all three come before the first is taken, and two stand in a queue of a
healthy receiver while the third is delivered.  Two requests and two objects in each
pool are enough for a request to get an object another one has just put back, or, with a
bug, one it still uses; more objects would only stand unused.  The requests of `service`
are asked of every kind the middleware tells apart (signature, size, encoding, whether the client takes
gzip), with a batch of three metrics of both types against the page of all metrics, and of every
kind of call the handlers tell apart against each call that may succeed.  Two requests, the
ticker and the final save are four savers, and two of them are enough for a rename to
be overtaken.  Without a limit to its waiting, `Shutdown` makes the end of the process depend
on the end of every handler, which is the harder question for `file_server_liveness`; what a
handler misses that is left behind is a question for `file_server`.  Every bound is a constant (`MaxPolls`, `MaxCrashes`, the sizes of the
sets); nothing else is cut off.
`CHECK_DEADLOCK FALSE` stands where a system comes to its end: a publisher that is closed,
requests that are answered, calls that have returned.

The five violations are listed under `findings` with the line they contradict:

* `commit_replayed`: the storage marks a failed commit as never to be repeated, the
  handler turns it into a 500, and the agent repeats every 500.
* `sync_save_overtaken`: the sync mode persists "after every write", but the renames of
  two requests may land in the wrong order; the older snapshot stays until the next write.
* `final_save_overtaken`: `main` does not wait for the saver goroutine, whose rename may
  land after the final one.
* `counter_upsert_repeated`: "repeating one cannot apply a metric twice" holds for batches,
  whose commit is never repeated, and not for `UpdateCounter`, whose upsert commits by itself.
* `save_unencodable`: NaN and infinities are accepted in the path of an update and cannot
  be encoded in a snapshot.

The agent's own accounting, the publisher, the file format, the transactions, the middleware
with its pools and the reads in memory came out as intended.  What `ReadsAreCurrent` says of
the page is weaker than of a lookup because the code is: a batch stored between its two
locks appears with its counters and without its gauges, and never the other way round.

## 4. Fairness

* `Agent!Fairness`: weak fairness for each goroutine that can go on, nothing for the
  server, the cancellation or the ticks of the collectors.  A select whose context stays
  cancelled takes that case sooner or later because every other case of it (a tick, a
  free worker) is enabled only now and then; `WF(CollectorStops)` and
  `WF(ReporterStops)` say so.  An attempt ends because the client has a timeout.
* `ServerRecovers`, the premise of `EveryPollReported`, is strong fairness for sending,
  storing and accepting a batch that holds polls: a worker that offers it again and
  again is not turned away for ever.  It is an assumption about the server, not about
  the code, and it is stated in the property.
* `AuditPublisher`: the deliverers, the waiter and a `Publish` under way go on; an
  `Update` returns unless its observer is in `Stuck`.
* `FileServer!FairSpec`: the goroutines of a process go on while it lives, and an
  attempt of a file operation ends, well or badly: a file system that hangs is outside of
  `EveryRequestEnds` and `ShutdownEnds`.  `StoreCounter`, which takes the write lock, is
  strongly fair: readers come again and again, but `sync.RWMutex` lets none in before a writer
  that waits.
* `PgStorage!FairSpec`: a call goes on as long as it can and ends when its session has been
  ended; the server carries out a commit it has received and ends a transaction whose client
  is gone.  It is not assumed to break up deadlocks, so `EveryCallReturns` rests on the order
  of the rows.
* `ServiceSpec`: weak fairness for each request that has come (`GoesOn`), which is the
  goroutine that serves it.  Nothing says that a request comes, or that a handler panics.
  Weak fairness is enough because a request waits for others only at the lock of the storage, and the
  requests of a run are too few to keep it busy for ever; `sync.RWMutex` lets a writer that
  waits go before readers that come later, and no fairness of readers is assumed.

## 5. Proofs

`AgentProofs` proves for any pool, any batch size, any schedule, any set of CPU counts,
and any number of polls:

| Theorem | Statement |
|---|---|
| `AgentTyped` | `Spec => []TypeOK` |
| `CpuGaugesStayCurrent` | `Spec => []CpuGaugesCurrent` |
| `PollsAreConserved` | `Spec => []PollsConserved` |
| `ConfirmedPollsAreCounted` | `Spec => []ConfirmedIsCounted` |
| `DoubleCountsAreInDoubt` | `Spec => []DoubleCountNeedsDoubt` |
| `NothingIsStranded` | `Spec => []NothingStranded` |
| `AgentImplementsLedger` | `Spec => LedgerImplemented` |

They rest on the assumption `AgentAssumption` of the constants and on the inductive
invariant `IInv == Typed /\ Conserved /\ Counted /\ AbandonedWereMade`:

* `Typed` is `TypeOK` with `CpuGaugesCurrent` and what a worker's record says in each
  phase: who is idle or stopped holds nothing, and only a waiting worker has a stored
  batch.  Without it a stopped worker could still hold a batch, and `NothingStranded`
  would not follow.
* `Conserved` is `PollsConserved`, and a reporter that is not offering holds no polls.
  The integer arithmetic of `returnCounters` and `snapshotBatch` agrees with the history
  because the polls that change place are disjoint from those already there
  (`InOnePlace`), so that cardinalities add up.
* `Counted` lists the only places of a poll that is in the server's total: confirmed, in
  doubt, or in a batch whose request was stored and is still waited for.  A poll that
  `ServerStores` adds is in none of them unless it is in doubt, which is why a second
  count needs doubt; `DoubleCountNeedsDoubt` is not inductive without it.
* `AbandonedWereMade` says that a request on its way carries polls that were made; the
  refinement needs it for `ServedLate`.

The refinement maps the accumulator to `unsent`, what goroutines hold to `Carried`, and
the total to the polls stored at least once; each step of the agent is a step of the
ledger or leaves it alone.

`FileServerProofs` proves for any set of requests and any set of those that cannot be
encoded, both modes, any schedule, any choice of faults and any number of crashes, from
`ServerAssumption`:

| Theorem | Statement |
|---|---|
| `FileServerTyped` | `Spec => []TypeOK` |
| `FileServerNeverTorn` | `Spec => []FileNeverTorn` |
| `FileServerWholeBatches` | `Spec => []BatchesWhole` |
| `FileServerShutdown` | `Spec => []ShutdownMissesNothing` |
| `FileServerSavesSurvive` | `Spec => []CompletedSavesSurvive` |

* `Typed` adds to `TypeOK` that a pausing save has a repetition left.  `SaveStepKinds` says
  once what a step of `Save` other than the rename can do; the other proofs use that
  lemma instead of the six actions.
* `FilesSynced`: what the path names, now and after a power loss, was flushed before it
  was renamed.  Only with it does `Flush` leave a whole file behind.
* `LockHeld` is what makes `BatchesWhole` inductive: a writer is alone; while it is at work
  the memory lacks exactly the gauge of its batch, and no snapshot is being copied; and the
  gauges a copy has read are still those of the memory.  The invariant fails if either side
  takes the lock too weakly, and the mutants `CopyGaugesUnlocked` and `StoreCounterShared`
  show both.
* `InMemory`: the memory holds what requests stored or are storing, and all that any snapshot
  holds.
* `Handlers`: what was stored is on its way to the audit, is audited, or belongs to a late
  request; after `Shutdown` whoever still works is late.  `FinalSnapshot` adds that the save of
  `main` holds what all the others stored, from its copy on.
* `Saves` has three parts.  A save under way that no rename has overtaken holds all that
  completed saves hold; a request's own snapshot holds its update; and the file holds all that
  completed saves hold unless the last rename was overtaken.  The first part is what makes the
  third inductive, and with `InMemory` it is where the argument needs that each attempt takes
  a snapshot of its own and that the memory only grows.

`AuditPublisherProofs` proves for any finite sets of observers and events, any closers, any
size of the queues and any choice of stuck observers, from `AuditAssumption`:

| Theorem | Statement |
|---|---|
| `PublisherTyped` | `Spec => []TypeOK` |
| `NeverSendsAfterClose` | `Spec => []NoSendAfterClose` |
| `OrderIsKept` | `Spec => []InPublishedOrder` |
| `EveryEventAccountedFor` | `Spec => []AccountedFor` |
| `DrainedHasDelivered` | `Spec => []DrainedMeansDelivered` |

* `Typed` gives the queues and the histories the types of sequences and sets.
* `Closing`: a closed publisher has nobody inside `Publish`, an ended deliverer has an empty
  queue and empty hands, and whoever was told that `Close` drained the queues saw `done`.
* `Accounts`: for each observer the events that arrived (delivered, in hand or queued, in this
  order) are distinct, were not published before one that precedes them, and are, with those that
  were dropped, exactly the events offered to it; for each event the observers still to be
  offered it are distinct and among those that were registered.  `AccountedFor` and
  `InPublishedOrder` follow at once; neither is inductive without the other half, the
  observers that a `Publish` under way has still to come to.

`MiddlewareProofs` proves for any requests, any calls and outcomes, any pools, with and
without a key, from `ChainAssumption` and `NoneAssumption`:

| Theorem | Statement |
|---|---|
| `ChainTyped` | `ChainSpec => []ChainTypeOK` |
| `ReadsItsOwnBody` | `ChainSpec => []OwnInput` |
| `GivesEverythingBack` | `ChainSpec => []NothingKept` |
| `AnswersArrive` | `ChainSpec => []AnswersIntact` |
| `PoolsKeepTheirPromise` | `ChainSpec => PoolsKept` |

* The invariant has one part for each pool (`ReadersKept`, `WritersKept`, `BuffersKept`: nothing
  is pooled twice, held twice, or pooled and held; what nobody holds is clean; what a request
  holds points at that request) and two for each request: `Holding`, what it holds at each
  stage, and `Written`, what has been written for it.
* `Local(r)` says that a step of `r` changes what belongs to `r` only, and `Together` that a
  local step has to be looked at for one request.  That each step *is* local is the heart of
  the matter: what a request writes to is nobody else's because of the parts about the pools.
* For the refinement each step is a `Get`, a `Use` or a `Put` of one object of a pool, or
  leaves the pool alone (`ReaderSteps`, `WriterSteps`, `BufferSteps`).

`MemStorageProofs` proves `WhatIsReadIsCurrent`, `MemSpec => []ReadsAreCurrent`, for any calls
by any requests.  Its invariant says that the rows are the last version whenever nobody holds
the lock (`Settled`), that only its holder stores (`Locking`), and what a call has come to
(`Course`, `HalfRead`, `Current`); versions are only ever added, so what a call has found
stays true of the versions since it began.  The lemmas for the refinement of `MetricStore` are
there too (`Updating`, below).

`ServiceProofs` puts the two together, from `ServiceAssumption` and `OutcomesAssumption` as well:

| Theorem | Statement |
|---|---|
| `ServiceImplementsChain` | `ServiceSpec => ChainSpec` |
| `ServiceImplementsMem` | `ServiceSpec => MemSpec` |
| `PartsHold` | the invariants of both parts and `PoolsKept` hold of `ServiceSpec` |
| `NoTrace` | `ServiceSpec => []RejectedLeavesNoTrace` |
| `StatusTells` | `ServiceSpec => []StatusIsTrue` |
| `ServiceImplementsStore` | `ServiceSpec => MemImplementsStore` |
| `ServiceTyped` | `ServiceSpec => []ServiceTypeOK` |

Each step is a step of one part and leaves the other alone, or answers with one of the
`Outcomes`.  `NoTrace` needs that the stages after a rejection are never left towards the
handler (`Turned`).  `StatusTells` needs that the storage is asked only if the handler has not
refused (`Consulted`) and that what was decided agrees with what the storage did (`Told`);
that the status on the wire is the one decided is `AnswersArrive`.

For `ServiceImplementsStore` the invariant `Updating` says what a writer is about to show:
storing what it has left makes of the rows, half changed as they are, what the metrics of
its request make of the last version one after another.  `StoreNext` keeps this because a
list can be stored head first (`FoldedHead`), `Lock` establishes it because of
`AggregationKeepsEffect`, and at `Unlock` nothing is left.  It is a theorem about the service and not about
the storage by itself: `UpdateGauge` and `UpdateCounter` store what they are given, and only
the handlers refuse a malformed metric before (`AskedIsChecked`).

`PgStorageProofs` proves for any set of calls, any workload, any number of repetitions
and any choice of faults, from `StorageAssumption`:

| Theorem | Statement |
|---|---|
| `PgReplaySafe` | `Spec => []ReplayFindsNothing` |
| `PgAnswersTrue` | `Spec => []AnswersAreTrue` |
| `PgBatchesOnce` | `Spec => []` (no batch is applied more than once) |
| `PgOncePerAttempt` | `Spec => []` (no call is applied more often than it has begun attempts) |
| `PgNoLockCycle` | `Spec => []NoLockCycle` |
| `PgImplementsStore` | `Spec => StoreImplemented` |
| `PgTypeOK` | `Spec => []TypeOK` |

* `OnceFor(r)` says how a call stands: the only session of a batch that may commit, or has
  committed, is that of its current attempt, and none may while the call can still go on
  to another attempt.  `ReplayFindsNothing` alone is not inductive: a commit that lands
  late raises `applied`, and only the absence of a second session that commits keeps it
  from doing so twice.
* `Careful` lists what no step of a call does (commit, leave a commit for another attempt,
  succeed without one); `MovedKeeps` shows that whatever is careful keeps the invariant,
  and each action is shown to be careful.
* For `PgNoLockCycle`: the rows of a call are in strictly ascending order (`AggregatedInOrder`),
  and no session has done more upserts than its call has rows (`Steady`).  A session that
  waits for a row held by another one that waits itself is therefore waiting for an earlier row
  (`WaitsUpwards`); in a finite set of waiting sessions the one with the fewest rows above its
  own waits for none of them.
* For `PgImplementsStore`: whatever of a call is under way has the rows that `aggregateBatch`
  makes of a valid batch (`Ready`), and the table is `Rowed`, its counters integers.  So
  `CommitLands` changes the table as the batch would metric by metric
  (`AggregationKeepsEffect`), and, by `OnceFor`, once; no other step touches it.
* `PgOncePerAttempt` counts: `applied` is the number of attempts whose session has committed
  (`Counted`), and no session is there before its attempt begins (`Fresh`).  `PgTypeOK` has its bound
  `MaxRetries + 1` from there.  A single upsert may reach it; that batches do not is `PgBatchesOnce`.

`BatchProofs` is what the last two modules have in common, for every batch `aggregateBatch` may be
called with, of any length:

| Theorem | Statement |
|---|---|
| `AggregatedInOrder` | the rows of a valid batch come out in strictly ascending order of type and name |
| `AggregationKeepsEffect` | storing them one after another makes the same of any rows as storing the batch so |

* `FoldLeft` is defined by a function on the sets of places of a list.  `FoldingExists` shows
  that there is such a function, which no definition by `CHOOSE` does by itself, and
  `Folded`, the fold of one list, gets the two equations one wants
  (`FoldedEmpty`, `FoldedAppend`); `FoldedHead` is the one from the other end.
* Each induction over a list is stated of the *set* of lengths for which the claim holds; that
  such a set is all of `Nat` if it holds 0 and every successor (`AllNaturals`) follows from the
  well-foundedness of the naturals.
* `HasEffect(rows, M, new)` describes what a set of metrics with distinct names makes of
  the rows, in whatever order it is stored.  `MergeKeepsEffect`: after each metric of the batch
  the merged list has distinct names and, as a set, the effect of the metrics so far; with
  a gauge the old value does not matter, with a counter the sums agree.
* `RanksExist` and `SortExists`: a list of distinct metrics can be sorted, by counting for each
  the metrics up to it; so `Sorted` finds a list, has the same elements
  (`SortedProperties`), and hence the same effect.

The sums are sums of integers.  Those of the code are modulo 2^64, in `aggregateBatch` and in
memory alike, and the same argument holds of them, as it uses only that addition
is associative and commutative; PostgreSQL refuses a sum that leaves the range.

Left to TLC are the liveness properties (`RunReturns`, `EveryPollReported`, `PublishReturns`,
`HealthyObserversServed`, `CloseDrains`, `EveryRequestAnswered`, `EveryRequestEnds`, `ShutdownEnds`,
`EveryCallReturns`): the prover handles neither `ENABLED` nor fairness.  Every
invariant, action property and refinement that a run finds to hold is a theorem.

## 6. What is not modelled

* Gauge values in the agent, the random value, timing and jitter, logging, HTTP details, JSON
  and HTML layout, flags and environment: no property is about them.
* `SendMetrics` of the agent, one attempt to send everything: `cmd/agent` does not call it.
* The encoder pool of `sendBatch`.  The encoder goes back when the call returns, and the
  transport may still be writing the body of a request the server answered before it had
  read all of it.  What is overwritten then is a body whose fate is decided, and what the
  transport does with it is outside the repository.
* Opening the database, `Ping`, the lookups of `PgStorage` (single statements without locks)
  and the migrations: they change no metrics.
* `Flush`, `Hijack` and `Push` of the wrapped writers, which no handler of the server calls; a
  handler that writes in several pieces, which none does.  A write to a broken connection
  changes a line of the log and is not told apart.  The keyed digest is a library call; a
  signature is good or bad, and a digest is the bytes it is of.
* `cmd/reset`: a sequential generator over the syntax trees of Go, covered by its golden
  tests.  What it generates for `hashResponseWriter` is part of `Middleware`.
  `cmd/staticlint` is a list of analyzers; mocks are generated.

Hazards without a property, beside those `PROJECT.json` lists with the reason:

* Wrap-around of 64-bit counters: the difference of two wrapping counters in `collectBatch`
  (`agent.go:412`) is right modulo 2^64, and a counter of polls does not get there; sums of a
  batch wrap in memory and in `aggregateBatch` (`batch.go:61`), where the database would refuse
  them, and nothing says what should happen.
* Order of gauges (`agent.go:185`): with several workers, or a request served late, an older
  value may be stored after a newer one.  The code promises no order between batches.
* A failed restore (`main.go:295`): the server starts empty after a line in the log, and the next
  save replaces the file it could not read.  This is what the code says it does.

## 7. Plan

1. `FileServer` with the rows and the lookups of `MemStorage` in place of its sets of requests.
2. `SendMetrics` as a further action of `Agent`, and the lookups of `PgStorage`.
3. The reset generator: the nesting of resets it emits against the initial state of a type.
4. An abstract store of files that `FileServer` implements, in place of `CompletedSavesSurvive`.
