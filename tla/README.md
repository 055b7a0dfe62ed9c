# Cellora in TLA+

A formal model of [Cellora](../src), an indexer and query API for the CKB
chain: TLA+ modules translated from the Rust source, TLC runs over small
instances, and theorems checked by TLAPS for every value of the constants.

## The system and its parts

```
 CKB node --RPC--> indexer --SQL--> Postgres <--SQL-- API --HTTP/WS--> clients
     |                |                                ^ |
     |                +---events--> Redis ---events----+ +--limits, logs--> Redis
     +----------------tip, proofs, readiness-----------+
```

| part | source | model |
|---|---|---|
| poll loop, reorgs, startup and shutdown of the indexer | `indexer/src/{poller,reorg,main,app,shutdown}.rs` | `Indexer` |
| block parser | `indexer/src/parser.rs` | `CkbChain`, `Indexer` (which cells a block creates and spends) |
| write-side SQL, keys, cascades | `db/src/{blocks,transactions,cells,checkpoint,reorg_log}.rs`, `migrations/` | `Tables` |
| CKB node and its client | external; `common/src/ckb/client.rs` | `CkbChain` and the modules that call it |
| what readers may rely on | (abstract) | `ChainLedger` |
| events and metrics of the indexer | `indexer/src/{events,metrics,reorg}.rs` | `IndexerEvents` |
| event listener, subscriptions, webhooks | `api/src/{events,graphql,webhooks}.rs`, `routes/webhooks.rs` | `EventFanout` |
| tip cache, tip headers, stats | `api/src/{tip,lib}.rs`, `routes/stats.rs` | `TipTracker` |
| API keys, authentication cache | `api/src/{auth,keys,admin}.rs`, `routes/admin.rs`, `db/src/api_keys.rs` | `ApiKeys`, `AuthCache` |
| rate limiter | `api/src/{ratelimit,lib}.rs`, `common/src/config.rs` | `RateLimiter` |
| request log and dashboards | `api/src/{lib,metrics_worker}.rs`, `routes/admin_metrics.rs` | `RequestLog` |
| dashboard sign-in and sessions | `api/src/session.rs`, `routes/admin.rs`, `db/src/{users,sessions}.rs` | `Sessions` |
| cell and block queries, pagination | `api/src/routes/{cells,blocks}.rs`, `pagination.rs`, `graphql.rs`, `db/src/cells.rs` | `CellPages` |
| routers, layers, errors, request metrics | `api/src/{lib,error,metrics}.rs` | `Gateway` |
| startup and shutdown of the API | `api/src/main.rs` | `ApiProcess` |
| readiness probe | `api/src/routes/health.rs` | `Readiness` |
| proof endpoint | `api/src/routes/proofs.rs` | `NodeProofs` |
| script registry, logging, OpenAPI, configuration loading | `scripts/`, `logging.rs`, ... | not modelled (see the end) |

Paths in this table are relative to `src/crates/`, except `migrations/`.
`PROJECT.json` has the full list, the source lines of each definition, and the
hazards (what is hard to test here, and which property covers it).

How the modules fit together:

- `IndexerEvents` EXTENDS `Indexer`: every step of the loop is taken whole and
  joined with what it publishes and counts.
- `ChainLedger` is the contract between writer and readers. `Indexer`
  implements it (`ImplementsLedger`); the tables that `CellPages` reads are
  written with the same statements (`Tables`).
- `AuthCache` EXTENDS `ApiKeys`, the table and everyone who writes it.
- `ApiProcess` EXTENDS `Gateway`: what main found at startup decides whether
  the layers meter and log, and requests are in flight while it stops. Its
  background tasks are abstract: the cancellation finds them waiting in their
  `select!`, away in an await that does not look at the token, or dead of a
  panic. `TipTracker`, `RequestLog` and `EventFanout` have them in detail.
- `Reads` puts `TipTracker`, `Readiness` and `NodeProofs` beside one another for
  one run. They share no state, so a behaviour is one of one of them with the
  others at rest.
- `Null` declares the one value that stands for an absent one, for modules that
  are extended together.
- A module `...Proofs` EXTENDS what it proves about; `NodeProofs` is not one of
  them but the model of the proof endpoint.

## Modules

### The indexer

**CkbChain** is the world outside: a tree of blocks (a block *is* its hash),
with number, parent and transactions that create and spend cells, and the set
`Chains` of branches a node can serve. Its assumptions say what consensus
guarantees for a linked piece of a branch: transactions and cells occur once,
a cell is spent at most once and not before its creation.

**Tables** has one operator per SQL statement, from a table's contents to its
contents after the statement. A table is a function from primary keys to rows.
`Conflicts` is the keys and the UNIQUE constraint that make an insert fail.

**Indexer** is the process. Its variables are the node's branch, the five
tables, the program counter `pc`, `next_block`, the locals of a step, and the
cancellation token. One poll step is split wherever the code awaits something
another party can change or that can fail:

| `pc` | code | actions |
|---|---|---|
| `boot` | `checkpoint::read` in `run` | `Boot`, `BootFails` |
| `loop` | top of the `while`; `get_block_by_number` | `Stop`, `WaitForTip`, `FetchBlock` |
| `check` | parent comparison, `parse_block` | `DetectReorg`, `ParseBlock`, `ParseFails` |
| `insert` | the block's transaction | `IndexBlock`, `InsertConflict`, `IndexBlockUnacknowledged` |
| `announce` | after the commit, until `Indexed` is handled | `AnnounceBlock` |
| `walk` | an iteration of `find_common_ancestor`, depth-0 guard | `WalkDown`, `WalkFails`, `FindAncestor` |
| `rollback` | `rollback_to`'s transaction | `Rollback`, `RollbackUnacknowledged` |
| `announce_reorg` | after the rollback, until `ReorgHandled` is handled | `AnnounceReorg` |
| `down` | the process has exited | `Restart` |

A transaction is one action, since nobody sees it before it commits. The walk's
two reads (node, then table) are one action: only this process writes the
table. `StepFails` is any RPC or SQL error, `Crash` strikes anywhere, `Cancel`
is the signal handler, `NodeMove` lets the node grow, shrink or switch branch
between any two actions. The `...Unacknowledged` actions are a COMMIT that took
effect but whose reply was lost with the connection, which the code sees as an
error.

**IndexerEvents** adds the events on Redis and the Prometheus registry. The
reader of the events is a replica that stores block events and drops what a
reorg event takes back; a publish may fail (`missed`), a crash may fall between
commit and publish, a new process has a new registry.

**ChainLedger** is the abstract specification: one contiguous chain that grows
by a child or loses blocks from its top, with its live cells. `Indexer`
implements it with `chain <- blocks` and `live <-` the rows that are not
consumed.

### The API

**EventFanout**: the listener (connect, two SUBSCRIBEs, doubling backoff,
forward), the tokio broadcast channel as a history `sent` of which the ring
keeps the last `Capacity`, GraphQL subscriptions that end when they lag, and
the webhook dispatcher (load hooks, spawn deliveries, skip on lag, drain with a
timeout). Every API process posts its own copy of an event; one is modelled.

**TipTracker**: two sources that move, the refresh task's two reads, and the
snapshot every response is stamped from. A read takes time (`QueryTime`,
`RpcTimeout`) and answers with any value its source had meanwhile. `dbSeen` and
`nodeSeen` remember when a source last really had a value.

**ApiKeys / AuthCache**: issue, rotate, revoke and list from dashboard and CLI;
`resolve` split at its awaits (cache, row, Argon2, insert), the cache's TTL and
evictions, the spawned `last_used_at` write, requests dropped by the timeout.
The n-th credential is the number n; Argon2 verifies only the secret it hashed.

**RateLimiter**: the Lua script in exact arithmetic on `unit`s of a token, with
a clock per node, a delay between stamp and script, key expiry, errors before
and after the script ran, nodes that have no limiter, and buckets whose refill
rate is zero (the script's own branches). A stamp older than
the stored one moves `last` backwards, with one clock too, because the order of
scripts is not that of the stamps.

**RequestLog**: a spawned task per request pushes and trims, the worker of every
process pops batches and inserts rows, dashboards count rows. Processes are
cancelled, crash and restart. The code says that capping bounds worst-case
memory; the exact bound is the cap plus the pushes not yet trimmed
(`ListBounded`).

**Sessions**: OAuth state in Redis and cookie, the callback await by await,
users and sessions rows, the middleware with its spawned `last_seen_at` write,
sign-out. GitHub logins can be renamed and taken over by another account.

**CellPages**: parameter parsing, keyset query, cursor encoding and page
building of REST and of GraphQL, and the two block endpoints, over tables that
change between two pages. A page is one SELECT and sees one state; `InOrder` is
its ORDER BY, said by counting: the i-th row has i - 1 rows ahead of it.

**Gateway / ApiProcess**: a request descends the layers of `build_app` one await
at a time (panic catcher, request id, timeout, metrics, tip headers, then auth
and limit, or session, then the handler); its answer passes back in one step.
The timeout, a panic or the client's departure can strike at any depth, an
answer waits for its client to take it, and the log's entry is pushed by a
detached task that may lose it. Of an answer the model keeps the status: 200
stands for every success and 400 for every rejection of the framework's
extractors, which no property tells apart. Around it main connects, spawns,
serves, drains, cancels and joins.

**Readiness**: the three probes of `tokio::join!` with their own deadlines.
**NodeProofs**: `get_transaction_proof`, then `get_header`, with branch switches
in between.

Definitions marked as a mutant, or named with a suffix (`Layers_LimitFirst`),
are not part of the model: each is a plausible bug, kept to show that a property
notices it.

## What TLC checks

`tlc -config <run>.cfg <module>` repeats a run; each takes a few minutes at most
on four cores.

| run | module | properties | distinct states |
|---|---|---|---|
| `Indexer` | `MCIndexer` | `NoGaps`, `CellsReplay`, `InsertNeverConflicts`, `RollbackDepthExact`, `RollbackIsExact`, `ImplementsLedger`, `CatchesUp`, `ShutdownCompletes` | 103 thousand |
| `IndexerLostAck` | `MCIndexer` | `CheckpointMatches`, `NoPartialBlock`, `StoredChainLinked` | 46 thousand |
| `IndexerEvents` | `MCIndexerEvents` | `ReplicaIsExact`, `MetricsAgree` | 266 thousand |
| `EventFanout` | `MCEventFanout` | `StreamIsFaithful`, `EventAccounted`, `HookContract`, `TasksStop` | 527 thousand |
| `AuthCache` | `AuthCache` | `GrantIsTheIssuedKey`, `StaleGrantBounded`, `UsedMeansPresented` | 1.9 million |
| `RateLimiter` | `MCRateLimiter` | `RequestsMetered`, `RetryAfterSuffices` | 939 thousand |
| `RequestLog` | `MCRequestLog` | `ListBounded`, `LogIsFaithful`, `DashboardAccounts`, `LogDrains` | 154 thousand |
| `Sessions` | `MCSessions` | `SignInIsRight`, `StateConsumedOnce`, `SignOutHolds` | 561 thousand |
| `CellPages` | `MCCellPages` | `PagesExact`, `SurfacesAgree` | 8.5 thousand |
| `ApiProcess` | `ApiProcess` | `AnswersAreEarned`, `CountersAgree`, `StopIsOrderly`, `NothingHangs` | 365 thousand |
| `Reads` | `MCReads` | `FreshMeansRecent`, `ProbeIsRight`, `ProofIsRight`, `ReadsEnd` | 809 thousand |
| `FindLostRollbackAck` | `MCIndexer` | `NoGaps`, refuted (see Findings) | |

What they say:

- **Indexer.** `CheckpointMatches` and `NoPartialBlock` are the atomicity of the
  two transactions as readers see it, lost replies included. `StoredChainLinked`
  and `NoGaps` say that the stored blocks are one branch without a hole, although
  the node may change its branch between any two calls of a step. `CellsReplay`
  compares every cell's `consumed_*` columns with a replay of the stored chain.
  `RollbackIsExact`: a rollback keeps all the blocks the node still has, unless
  the node moved meanwhile. `CatchesUp` is conditional on the node having the
  next block, because an orphaned tip at the node's own height is noticed only
  when the node grows.
- **Events.** `ReplicaIsExact`: a reader of the events that missed none holds
  exactly the blocks table. `MetricsAgree`: gauge, counters and depth histogram
  agree with the tables and `reorg_log` unless a commit was taken for a failure.
  `StreamIsFaithful`: a subscriber sees the published order without a hole, and
  lagging ends the stream. `EventAccounted`: what becomes of an event at the
  dispatcher is dispatched, or lost for a reason the code names. `HookContract`:
  no event is posted twice, and a deleted hook falls silent.
- **Keys.** `StaleGrantBounded`: a retired token is let through for at most the
  TTL plus one request timeout. `GrantIsTheIssuedKey` and `UsedMeansPresented`:
  a request runs as the key its token was issued for, and only a credential that
  was presented is marked used, through rotations of the same key id.
- **Limits.** `RequestsMetered`: the requests let through on a bucket are at most
  its burst plus its rate over the stamps it saw, counting every backward stamp
  again; a bucket that does not refill gives a burst per life of its key.
  `RetryAfterSuffices`: who waits it out, and the clocks' skew on top, finds a
  token whichever node takes the retry, unless another took it. Without the skew
  TLC refutes it: the retry may reach a node whose clock is behind. A bucket that
  does not refill is left out, as its header's one second promises nothing.
- **Log.** `LogIsFaithful`: with lost answers, crashes and several workers, an
  entry is in one place, and older entries drain first. `DashboardAccounts`: the
  dashboards' queries agree with one another (no path has more requests than its
  surface) and show a user's own rows.
  `LogDrains`: every push is eventually a row or counted as lost.
- **Sessions.** `SignInIsRight`: a session leads to the one row of the account
  that signed in, though logins change hands. `StateConsumedOnce`: a callback
  that arrives after its state was consumed is refused; two that both read it
  before either deletes it both pass, and only GitHub's single-use code stops the
  second. `SignOutHolds`: touches
  in flight do not bring a session back.
- **Pages.** `PagesExact`: a walk returns no row twice, misses no row that
  matched all the time, and names the right block. A cell whose transaction moves
  to another height in a reorg is another row. `SurfacesAgree`: REST and GraphQL
  accept and return the same for every parameter.
- **Process.** `AnswersAreEarned`: data only behind a key, 500 only after a
  failure. `CountersAgree`: three layers' counters, when timeouts and panics skip
  some of them and the log's entries may be lost. `StopIsOrderly`: requests end
  before tasks, tasks before the report of a clean stop. `NothingHangs`: a signal
  leads to the stop unless a task stays for ever in an await that has no timeout
  or a client never takes its answer; the code bounds neither.
- **Reads.** `FreshMeansRecent`: an answer not marked stale shows a node tip the
  node had within the threshold plus its answer time, and an indexer tip the
  database had within that plus the query's: the stamp is taken after both
  answers. `ProbeIsRight`: within one timeout, about what was
  there. `ProofIsRight`: header, block and proof fit together and belong to the
  request.

Each module also has a type invariant. The inductive invariants of the proofs
contain it or what they need of it, and `TypeOK` of `Indexer` and of `RequestLog`
are theorems of their own. `INVARIANT TypeOK` (or `LimiterTypeOK`,
`SessionsTypeOK`) added to a `.cfg` checks it.

**Bounds.** Every bound is a CONSTANT named in its module.

- *Indexer*: height 3 with branches that part at heights 1 and 2 gives reorgs of
  depth 1 and 2, walks that end at genesis and above it, and a node that drops
  back during a walk. The branches share transactions at different heights,
  spend one cell in two branches, and create and spend a cell in one block: the
  cases in which keys, cascades and `restore_consumed_above` matter. Three node
  moves let the node leave a branch, return and leave again; two faults (three
  with lost replies) let a second one hit the recovery from the first. The runs
  with lost replies start at block 1 and have a block that does not parse.
- *EventFanout*: four events over a ring of two, so receivers lag; two faults.
- *AuthCache*: two credentials, TTL 2, timeout 1, time 4: a lookup can straddle a
  revocation and the entry outlive it.
- *RateLimiter*: clocks that differ by one, a delay of one, bursts of one, a
  bucket that refills and one that does not, two interchangeable requests in
  flight, four checks and enough time for expiry and refill.
- *RequestLog*: two processes, a cap of one below a batch of two, so that pushes
  overlap trims and pops. The endpoints' `LIMIT 10` is not reached.
- *Sessions*: two accounts, browsers, callbacks, states and tokens, two renames.
  The constraint `RequestsAlone` explores dashboard requests (two at once) for the
  sign-ins of one account in one browser, and everything else without them: the
  two halves meet only through the sessions table.
- *CellPages*: two branches of height 2, pages of one and two cells, enough moves
  for a rollback and a regrowth between any two pages.
- *ApiProcess*: two requests at once over every route, each failing anywhere.
- *Reads*: a probe timeout of two ticks, dependencies that change twice, two node
  moves, three proof requests, a clock up to 4 with a staleness bound, a query
  and an RPC of 1 each: a value can outlive all three.

The theorems need none of these bounds.

**Fairness.**

- `Indexer`: `WF(Poll)`, since the process is a tokio task that is polled again
  whenever its sleep or I/O completes. An RPC ends (15 s timeout,
  `common/src/ckb/client.rs:54`) and so does taking a connection from the pool
  (5 s, `db/src/pool.rs`); that a statement sent to Postgres ends is assumed.
  `WF(Restart)`: an exited process is started again, an assumption on the
  environment (`docs/architecture-overview.md:327` names Kubernetes,
  `docs/architecture.md:105` relies on restarts).
- `EventFanout`: `WF` of the listener and of the dispatcher, which are tasks. Redis
  refuses only boundedly often (`MaxFaults`). Nothing is assumed of deliveries:
  the drain's timeout ends them.
- `RequestLog`: `WF` of the task of a request and of each step of the worker; `SF`
  of the two branches of its `select!`, which is fair to branches that are ready
  again and again; exited processes are restarted.
- `TipTracker`: `WF` of the task, `SF` of the cancelled branch of its `select!`.
- `Readiness`: time passes and `timeout` fires; nothing of the dependencies.
- `ApiProcess`: `WF` of main and of a request's timer; `SF` of the cancelled branch
  of a task's `select!`, which picks among ready branches at random. Nothing is
  assumed of what a task awaits elsewhere, nor of clients: a silent Postgres or
  Redis can hold `refresh_once` (`tip.rs:152`), the metrics worker
  (`metrics_worker.rs:64`) or the connecting listener (`events.rs:24`), and main
  with it.
- Deadlock is checked except in `Sessions`, `CellPages`, `ApiProcess` and `Reads`,
  which stop at their bounds or at the end of the process.

Nothing is assumed of faults except that a run has finitely many, and nothing of
the node.

## What is proved

For every value of the constants (TLAPS; SMT and Zenon, LS4 for the temporal
steps), every property of the table above except the six liveness ones:

| module | theorem | statement |
|---|---|---|
| `IndexerProofs` | `TypeCorrect` | `Spec => []TypeOK` |
| | `DatabaseDurable`, `CheckpointFollows`, `BlocksAreWhole` | `CheckpointMatches`, `NoPartialBlock`, `StoredChainLinked`, lost replies included |
| | `IndexExact`, `StoredWithoutGaps`, `InsertsAreFresh` | without lost replies, `NoGaps`, `CellsReplay`, `InsertNeverConflicts` |
| | `IndexerImplementsLedger`, `RollbacksAreExact` | without lost replies, `ImplementsLedger`, `RollbackIsExact` |
| `IndexerEventsProofs` | `RollbackDepthIsExact` | without lost replies, `RollbackDepthExact` |
| | `ReplicaFollows`, `MetricsFollow` | `ReplicaIsExact`, `MetricsAgree`, lost replies included |
| `EventFanoutProofs` | `StreamsAreFaithful`, `EventsAreAccounted`, `HooksGetTheirDue` | `StreamIsFaithful`, `EventAccounted`, `HookContract` |
| `CredentialProofs` | `StaleGrants`, `GrantsMatch`, `UsedIsHonest` | `StaleGrantBounded`, `GrantIsTheIssuedKey`, `UsedMeansPresented` |
| | `SessionsAreTheSigners`, `RowsAreUnique`, `SignInRight` | `SessionIsTheSigners`, `OneRowPerAccount` and both |
| | `StatesAreSpent` | `StateConsumedOnce` |
| | `SignOutExact`, `SignedOutRefused`, `SignOutFinal` | `SignOutIsExact`, `SignedOutStaysOut` and both |
| `RequestPathProofs` | `LimitHolds`, `ClosedMeansMetered`, `RequestsAreMetered` | `AdmissionBound`, `FailClosed` and both |
| | `RetrySucceeds` | `RetryAfterSuffices` |
| | `AnswersEarned`, `CountersFit`, `StopsInOrder` | `AnswersAreEarned`, `CountersAgree`, `StopIsOrderly` |
| `RequestLogProofs` | `LogTypeCorrect`, `LogBounded` | `TypeOK`, `ListBounded` |
| | `LogFaithful`, `DashboardIsRight` | `LogIsFaithful`, `DashboardAccounts` |
| `CellPagesProofs` | `PagesAreExact` | with a positive default page size, `PagesExact` |
| | `SurfacesAlwaysAgree` | `SurfacesAgree` |
| `ReadsProofs` | `FreshAnswers` | `FreshMeansRecent` |
| | `ProbesAreRight`, `ProofsAreRight` | `ProbeIsRight`, `ProofIsRight` |

**Assumptions** are the named ASSUMEs of the modules, which TLC evaluates on
every instance. Most say that constants are numbers. Those with content:

- `CkbChain`: the node serves linked branches from genesis, and the consensus
  rules;
- `"ack" \notin FaultKinds` where "without lost replies" is said; it cannot be
  dropped, `FindLostRollbackAck` is the counterexample;
- `DefaultPageSize > 0` in `PagesAreExact`: the configuration does not check it,
  and with 0 a request without a limit gets an empty page that looks like the
  last one. A block has finitely many outputs, and out points are ordered
  (`PageConstants`);
- `RateLimiter`: clocks at most `Skew` ahead, and
  `SlackWithinFill`, a script runs within the time its bucket takes to fill.
  `DefaultsFillSlowly` shows that the shipped limits satisfy it with
  synchronised clocks.

**Arguments.** None of the invariants is inductive as it stands.

*Indexer.* They hold because of what the running step has checked. `StepInv`
records it: the block to insert was compared with the block stored below it,
the ancestor is stored with the hash the node gave, and the loop never polls
below the checkpoint. Only this process writes the tables, so what a step has
read stays true until its transaction. `DurableInv` adds it to the type
invariant and the three durable properties; only the two commits touch the
tables, and `CommitBlockEffect` and `RollbackEffect` say what they do.
Exactness (`ExactInv`) needs more: `next_block` has to be the block a restart
would resume at (`ResumeInv`), which is just what a lost reply breaks. Then the
stored chain with the fetched block on top is a linked interval, the consensus
rules apply to it, and so the inserts meet no row of their own (`NoConflict`),
a commit spends each cell once (`CommitBlockExact`), and restoring the cells
consumed above the ancestor leaves the replay of what is kept
(`RollbackExact`). The refinement follows: `LiveRowsAreLive` maps the rows to
the ledger's live cells, `LedgerStep` each commit to `Extend` or `Truncate`.
`RollbackIsExact` needs the walk's history (`WalkInv`): while the node keeps its
branch, the walk has passed no height at which node and table agree.

*IndexerEvents* (`EventsInv`). What is about to be announced is what the
checkpoint names (`AnnouncedInv`), so a replica that missed nothing is the table
once it is (`ReplicaInv`). For the metrics, the blocks counted since the process
began balance the growth of the table and the depths in `reorg_log`
(`MetricsInv`).

*EventFanout* (`FanoutInv`). Events are ordered from the broadcast history through
the connection to what is yet to be published (`OrderInv`), so forwarding appends
in order and a subscription, which reads positions of the history, has no gap.
What the dispatcher holds or has dispatched it took from the channel
(`AccountInv`), so an event is in one place; deliveries are of dispatched events,
and a deleted hook is silent from a position the dispatcher had passed (`HookInv`).

*Reads*. For the tip cache (`TipInv`), the history agrees with the sources (`SeenInv`); between
its two reads the task holds a checkpoint that was there within a query's time of
the second await's beginning (`TaskInv`); a stamped snapshot is as old as its
stamp and the answers before it (`SnapshotInv`).
A probe's result is about a moment of the probe (`ProbeInv`). A proof request
holds a block with its transaction, from a branch served since it began
(`EnvelopeInv`).

*AuthCache* (`AuthInv`). A row carries one credential whole (`RowsInv`); a request
that has verified a token started before that token was retired and is younger
than the timeout (`RequestInv`); hence a cache entry expires within TTL plus
timeout of the retirement (`CacheInv`), and so does every grant (`GrantInv`).
A `last_used_at` write in flight is for a secret that was presented (`UsedInv`).

*RateLimiter* (`LimitInv`). For each bucket, tokens handed out plus tokens held
stay within burst plus rate times the path of its stamps; an expired bucket
would have been full, which is what its TTL is for; one that does not refill
hands out a burst per life (`BucketInv`). A refused bucket has, after
Retry-After, a token by the clock of its own stamp, which is at most the skew
ahead of the moment of the refusal (`WaitInv`).

*Gateway, ApiProcess* (`ProcessInv`). Where a request is in the layers decides
whether it has a key (`PathInv`), and every step of it goes on, ends outside the
metrics layer or ends inside it (`StepShape`), which decides what is counted.
Requests are in flight only while main serves, the token is cancelled only afterwards, and main still
has to join whatever runs (`StopInv`).

*RequestLog*. The list exceeds the cap by at most the number of tasks that have
pushed and not trimmed (`ListInv`). List, table, the workers' hands and the lost
entries share nothing and have all that was pushed (`Places`), and the list is
newest first, all of it pushed after what was popped (`OrderInv`). The queries of
the dashboard count rows; rows of one user and their requests correspond one to
one, so the counts are those of sets of requests.

*CellPages* (`PagesInv`). The tables replay a linked chain (`TablesInv`): a row for
each output, joined to the block that creates it and marked with the block that
spends it. The agreement of the block endpoints follows from that. For a walk, the cursor is the key of the last row it got, and without a
cursor an unfinished walk has got nothing (`CursorInv`). A page lies strictly
below the cursor, so appending it keeps the order; and of the rows that match and
are below the cursor it holds all that are not below its own last row
(`PageFacts`). That the sort lists every row once is a counting argument
(`InOrderFacts`): two rows have different numbers of rows ahead of them, and as
many rows as numbers leave no number out. Rows that come and go between pages do
not matter, since a cursor is a key and not an offset.

*Sessions* (`SignInInv`). What a callback carries from await to await belongs to
the account that authorised it; a consumed state never comes back; a request
under way was not sent after its sign-out.

**Only model-checked**: the liveness properties `CatchesUp`, `ShutdownCompletes`,
`LogDrains`, `TasksStop`, `NothingHangs` and `ReadsEnd`, which rest on fairness,
and so on ENABLED, out of this prover's reach. The induction theorems of the
library are out of its reach as well; where a proof needs induction (a walk down
the chain, rows in a list) it is by a least counterexample or by counting. No
definition is recursive.

## Findings

`FindLostRollbackAck`: if the reply to the rollback's COMMIT is lost, the loop
keeps its old height; no parent is stored below it any more, so nothing is
compared and the block is stored above a hole that is never filled. Reading the
checkpoint again after an error would repair it. `PROJECT.json` has the comment
it contradicts.

### Divergences without a run

Places where the code and a comment or document say different things, met while
translating. The models follow the code.

- If the reply to a *block's* COMMIT is lost, the process retries a block it has
  stored and the primary key rejects it until a restart (`poller.rs:118`).
- With a start block above genesis, a reorg of that block gives
  `NoCommonAncestor` for ever, though neither data nor node is at fault.
- A parse error is documented as fatal; the loop retries it.
- A `reorg_log` row pairs the divergence height with the ancestor's hash.
- `indexer_latest_block` is 0 after a restart until the next block
  (`metrics.rs:49` says highest committed).
- `refresh_once` publishes a new node tip beside an old indexer tip when only the
  checkpoint read fails (`tip.rs:147` says the previous snapshot stays).
- A revoked key may work for the TTL plus a request timeout (`admin.rs:327` calls
  the TTL the worst case).
- Skew is credited at every alternation between nodes (`ratelimit.rs:248` speaks
  of a bounded error on the next request).
- A bucket with a refill rate of zero answers Retry-After 1, although it gets a
  token only when its key expires, a minute after its last use
  (`ratelimit.rs:64`).
- `X-RateLimit-Reset` is the time to one token, 0 when allowed (`ratelimit.rs:13`
  says until full).
- With `FAIL_OPEN=false` a process that booted without Redis still lets every
  request through, for the rest of its life (`docs/api.md:59`, `main.rs:84`), and
  its readiness reports Redis as skipped (`docs/api.md:116`).
- While Redis refuses SUBSCRIBE, the listener never looks at the cancellation, and
  main waits for it (`events.rs:40`).
- The API does not subscribe to the reorg channel, although the architecture
  overview has subscriptions and webhooks react to reorgs.
- The `cells` subscription compares a lock hash with the bare hex the indexer
  publishes, so one in `0x` notation matches nothing (`graphql.rs:504`).
- `delete_expired` of sessions has no caller (`sessions.rs:100` says run
  periodically); a second sign-out gets 401 (called idempotent).
- A cell whose transaction moves to a lower height between two pages is returned
  again.
- The default page size is neither checked to be positive nor capped by the
  maximum.
- The 500 of a panic and the 408 of the timeout are in no request counter, a
  panic's answer has no `x-request-id`, and several error answers lack the
  documented envelope.
- `/metrics` and `/v1/stats` are public, beside the three paths `docs/api.md`
  lists.

## Not modelled

- *Script registry* (`scripts/`): a static table used in rendering, no state.
- *Logging, OpenAPI, the indexer's metrics server, configuration loading, pool
  and migrations, CORS, tracing*: pure I/O or generated. The defaults other
  modules depend on are modelled.
- *Encodings*: the parser's scripts and headers, JSON of the RPC client and of
  answers, cookies. A hash's notation is kept where code compares it (cursors,
  lock hashes).
- *Webhooks*: vetting of the URL, body and signature, the list endpoint.
- *Dashboards*: latency percentiles and series; entries have no latency.
- *Sessions*: the operator's lookup of a user by login.
- *Indexer*: the lengths of delays (any delay), `reorg_log`'s `in_progress` state
  (never visible outside its transaction), `mark_failed` (no caller), two
  indexers on one database (the code has no provision for them), block numbers
  near the 64-bit limits, where the code saturates.
