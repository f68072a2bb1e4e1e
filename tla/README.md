# Verification of alchemiq

alchemiq is an asyncio data layer on top of SQLAlchemy: models, repositories,
a unit of work, a read-through cache, a transactional outbox with a relay, and
a ClickHouse side with buffered inserts and its own migrations. This directory
holds TLA+ models of the parts whose correctness depends on the order of events
(several tasks, several processes, failures between two awaits) or on how calls
compose (querysets, predicates, class statements), the TLC configurations that
check them, and proofs about all of them.

Paths below are relative to `src/alchemiq/` of the repository.

## Inventory

| Part | State | Operations | What makes it correct |
|---|---|---|---|
| Outbox table (`outbox/models.py`, `store.py`, `capture.py`) | rows with status and attempts | `publish`, the capture handlers, inside a transaction of the application | an event exists exactly if its transaction committed |
| Relay (`outbox/relay.py` and the publishers) | one transaction with row locks per cycle, `_stopping` | claim, publish, record, commit, wait, stop | every event is published or dead in the end; no double delivery without a failure; attempts are charged for refusals only |
| Unit of work (`runtime/unit_of_work.py`, `session.py`, `post_commit.py`) | two context variables per task, one session, the post-commit region | enter, exit, commit, rollback, savepoint, `session_scope`, drain | atomic blocks; context restored on every way out; callbacks exactly after the commit that needs them |
| Signals (`signals/registry.py`) | handler lists | connect, disconnect, dispatch | handlers are part of the triggering transaction |
| Read cache (`cache/`) | version counter per table, entries by version, entries by primary key | `read_list`, `read_count`, `read_exists`, `read_obj`, `bump_version`, `invalidate_row`, `invalidate_model` | a reader is never served something older than a completed invalidation |
| Repository (`repository/base.py`) | none of its own | single-row writes with signals, bulk writes, `get_or_create`, optimistic locking, soft delete | no lost update under `expected_version`; tombstones stay hidden |
| Query layer (`query/`) | immutable query sets | compile, filter, paginate by offset or cursor | pages partition the result; Q trees mean what they say with NULLs |
| Buffered inserter (`clickhouse/repository.py`) | buffer, lock, timer task, stop event | `add`, `flush`, tick, `close` | no row lost, none inserted twice, none left behind |
| ClickHouse repository (same file) | none of its own | insert, tombstone, restore, cleanup | the newest marker of a key decides |
| ClickHouse connection (`clickhouse/connection.py`) | `_config`, `_client`, `_lock` | configure, get, dispose | the client in use belongs to the configuration in force; none leaks |
| ClickHouse migrations (`migrations/clickhouse/`) | history table, files | migrate, rollback, makemigrations | each revision runs once, in order |
| Model classes (`model/`) | the shared `MetaData`, a relationship registry per class | class statements, late registration of native relationships | the registries that queries use agree with the mappers |
| Everything else | | field types, FastAPI and FastStream glue, health checks, scaffolding, Alembic wrapper | stateless or run once at start-up |

Interactions: a repository write opens or joins a session (`session_scope`),
dispatches handlers around its flush (one of them writes the outbox row),
and queues a cache callback in the post-commit region; the scope that owns the
session commits and then drains the region. The relay reads the outbox table in
its own transactions, in any number of processes. Cached reads talk to the
cache backend before and after they use the session of the task. Querysets
resolve names through the registries that class statements have filled.
ClickHouse repositories, the event publisher, health checks and the command
line share one client per process.

What is hard to test here: interleavings at every `await`; transactions that
end in the middle (exception, cancellation, lost answer, process death); state
read before an await and used after it; retries of work that was already done.
`PROJECT.json` lists the hazards at their lines with the properties that cover
them. Where the code itself does what the hazard says, the property names the case
as an exception, and the note of the hazard says so: such a property shows that
nothing else goes wrong, and that the case is needed.

## Modules

| Module | What it is |
|---|---|
| `EventDelivery` | abstract: what the outbox promises, without workers, locks or retries |
| `Relay` | outbox table, producers, relay workers, broker; refines `EventDelivery` |
| `UnitOfWork` | tasks nesting blocks, savepoints, repository writes and signal handlers; the post-commit region |
| `ReadCache` | reads, fills, writes and invalidations of one cached model, await by await |
| `Repository` | concurrent units of work on one table: locking, soft delete, identity map, every kind of write |
| `Ordering` | ORDER BY with a primary key as tie breaker, reversal, NULLs; used by the next two |
| `QuerySets` | Q trees, builders, SQL's three truth values, every terminal, cache keys, predicates as data |
| `CursorWalk` | `cursor_paginate` forwards and backwards while the table changes |
| `ModelClasses` | class statements, accepted and refused, and the relationship registries |
| `BufferedInserter` | the buffer, its timer task and `close()` |
| `ChConnection` | the process-wide ClickHouse client, and the command line's use of it |
| `ChMigrations` | migrate, rollback and makemigrations, statement by statement, by several processes |
| `ChTable` | a ClickHouse table under inserts, tombstones, merges, cleanup and querysets |
| `RelayProofs`, `UnitOfWorkProofs`, `ReadCacheProofs`, `RepositoryProofs`, `BufferedInserterProofs`, `ModelClassesProofs` | theorems about the modules of these names |
| `QueryProofs` | theorems about `QuerySets` and `CursorWalk` |
| `ClickHouseProofs` | theorems about `ChConnection`, `ChTable` and `ChMigrations` |
| `MC...` | instances for TLC |

Definitions named `...Late`, `...Forgotten` and the like, introduced by
"Variant", are plausible mistakes in the definition that follows them. No
specification uses them; they show that each property can fail.

### Relay

`rows[e]` is the committed row; a worker's transaction is `claim` (its locks),
`todo` (rows not yet handed over) and `draft` (the rows as it has updated
them). `ClaimRows`, `PublishMessage` or `PublishBatch`, and `CommitCycle` are
the awaits of `_drain_once`; `CheckStop` and `Wake` are the loop of `run()`.
A publisher call has four outcomes (`Reply`): taken, refused, unreachable, and
taken with the acknowledgement lost. `MappingWorkers` are those whose publisher
turns connection errors into `TransientPublishError`, as `TaskIQPublisher` and
`FastStreamPublisher` do and `ClickHousePublisher` does not. `Die` is process
death, cancellation or a database error in mid cycle: each rolls the
transaction back.

Assumptions: the claim is one atomic step (PostgreSQL re-evaluates the WHERE
clause on a row it locks, so a row published meanwhile is not returned); one
database with row locks, so SQLite, which the guide limits to one worker, is
not modelled; `max_attempts` is at least 1 (the code does not validate it, and
with 0 or less it behaves as with 1). Payloads, topics and the formats of the
brokers are left out. Nobody promises order between events, so nothing is
checked about it.

### UnitOfWork

A task is inside a stack of frames. A frame that has a session of its own
(`own`) commits it when it ends; any other joined. `token` says that the frame
opened the post-commit region, hence drains or discards it. The end of an
owning scope is three steps, as in `__aexit__` and `session_scope`: commit,
close (which resets the context variables), and one callback at a time.
A write is `BeginWrite` (pre handlers run), `Flush`, and `Complete` (post
handlers returned, the callback is queued); handlers may enter blocks and write
in turn. Exceptions may start in application code or a handler (`Raise`), in a
flush or in a commit, and propagate frame by frame; a savepoint is where they
may be caught.

`Usage` names what the library permits but its own guarantees do not survive:

* `midCommit`: `uow.commit()` in the middle of a block. If the block then
  fails, `discard_region` drops the callbacks of writes that are committed.
* `swallow`: an exception of a handler is caught inside the block that owns the
  transaction, without a savepoint. The write is flushed already and will be
  committed, though its callback was never queued.
* `handlerWrites`: a handler of a write outside any block uses a repository.
  `session_scope` does not make its session ambient, so that call commits by
  itself, before the write it belongs to.

`uow_scopes` lets programs take all three and checks that whoever takes none
keeps every guarantee, and that the context is restored whatever is done. The
one exception is a cancellation that arrives while `__aexit__` closes the
session (`CloseCancelled`): neither context variable is reset afterwards.

### ReadCache

One model (table), its version counter, the query entries by version and the
object entries by primary key. A read is `StartRead`, `GetVersion`, `Hit` or
`Miss`, `Fetch`, `Fill`: one step per await of `read_list` and `read_obj`. A
write is `Write`, `Commit` and a callback of `Bump` followed by one `Purge` per
object key. Every backend call may fail, and does what `ops.py` makes of it.
Inside a block the session's identity map matters: `loaded[c]` is what the
session of `c` holds, and `Sees(c)` is what its SELECT returns.

Query keys and object keys do not interact, so a behaviour follows one kind of
read, chosen in `Init`. A query's result is the whole table: filters only
narrow what it can differ in. Values are the number of the write that made
them, and whether the row exists.

What the code guarantees is weaker than one might hope, and the properties say
exactly how weak. A cached query result under the current version differs from
the database only while an invalidation is due or was lost, or when it was
stored from inside a block. A cached object may also stay stale after a
completed invalidation, when a slow reader stores what it fetched before the
write (`raced`); with `ttl=0` it stays for good. A read whose version `get`
fails is taken to be at version 0 (`blind`) and may hit an old entry there,
though the module docstring says that the operation then proceeds without
cache.

### Repository

A unit of work is a task with at most one session. `draft[u]` is what its open
transaction has written, which no other unit can write before it ends;
`held[u]` is the identity map, `dirty[u]` what has been assigned and not
flushed, and `known[u]` the objects the application kept from earlier reads,
whose versions it may pass as `expected_version`. `op[u]` is the call between
two of its awaits: a single-row call is `Load` and a flush (`FlushUpdate`,
`FlushRemove`, or `Conflict` where SQLAlchemy counts no row); `get_or_create`
and `update_or_create` are a lookup (`LookupMisses`, `LookupFinds`) and a
flush; set-based writes are one statement. `Forget` is the garbage collector:
the identity map is weak, so the next read of a dropped object goes to the
database.

The database is PostgreSQL at READ COMMITTED, with row locks: a statement sees
what is committed when it starts and waits for rows that another transaction
has written. `bulk_update` is modelled for unversioned models only, since the
SQLAlchemy statement it uses counts versions on its own terms.

`bulk_upsert` (`Upsert`) sends every own column that an instance has a value for
(`repository/upsert.py:18-20`, `50-52`, `71-82`). Of a new instance, or with
`update_fields`, these are columns of the user's, and the row keeps its version
and its tombstone (`Bulk`). An instance that was read has them all, `_version`
and `deleted_at` included, since the pipeline makes those ordinary fields
(`model/pipeline.py:60-80`, `184-222`), and the statement writes them back
(`Whole`, of the `Instances` that the unit has): an older instance sets the
version back, and brings a row back that was deleted since, also beside another that
`get_or_create` has made meanwhile. The conflict target is the primary key; an
upsert by another unique column is left out. All rows carry one natural key, the one that `get_or_create` looks up; `unique` says
whether the table enforces it.

What is promised ends where the properties say: versions start at 1 again after
a physical delete, and the upsert of an instance that was read may set them back,
after which a version repeats and `expected_version` no longer tells (`restarted`);
set-based writes do not count them; that upsert is the one write besides `restore`
that revives a tombstone (`OnlyRestoreRevives`), and with it scopes that do not
overlap end with two live rows (`DuplicatesNeedOverlap`); a block that catches a
rejected update and goes on commits what had been assigned; two scopes that
overlap can both miss a row and both create it. The last holds inside a
`UnitOfWork` too, although the docstring of `get_or_create` recommends one "for
atomicity": at READ COMMITTED only a unique constraint helps.

### Ordering, QuerySets

A Q is a tree (`Node`), a queryset a record of what its builders have set. A
behaviour composes one predicate and one queryset call by call. `Truth` gives a
predicate its value in {true, false, unknown} on a row and on the rows joined to
it, as the compiled SQL has it; `All`, `Count`, `Exists`, `FirstOf`, `LastOf`,
`GetOf` and `PageOf` are the terminals, each with what it changes in the
queryset before it compiles it. `ToData` and `FromData` are the round trip of a
predicate through data: `Decoded` is the tree, `Permitted` the allow-list, and
`Undecodable` the value codec, as far as it fails. `ListKey` and `ScalarKey` are
what the fingerprint of a cached result is made of.

Trees are defined by their levels (`Trees`), and what is computed over them is a
recursive function on all of them (`LET truth[t \in Predicate]`), so that it can
be reasoned about. The constants are assumed to be what they stand for: tables
of finitely many rows, related to finitely many, primary keys and values that are
numbers or NULL, lookups with a path and an operator of the list, and of every
model the columns that are dates, times, UUIDs, decimals, bytes or enums (`Typed`).
One assumption is a restriction: a lookup crosses one relationship at most (`OneRelationship`),
or is refused, because a row here knows what it is related to and not what that
is related to.

The properties name where terminals part company, all of it found by TLC:

* `first()`, `last()`, `get()`, `exists()` and `paginate()` replace the limit
  and offset of a slice; two slices in a row do not compose, and `[5:3]` makes a
  negative LIMIT;
* a filter over a to-many relationship repeats rows, and LIMIT counts the
  copies that `unique()` drops afterwards: pages come out short, `get()` may
  miss a second row, `has_next` may be false too early;
* `count()` loses the deleted mode of `with_deleted()`; `aggregate()` ignores
  `distinct()`; `exclude()` without arguments excludes every row;
* three pairs of querysets share a key although their answers may differ:
  `exists()` with an offset and without, the count of a distinct projection and
  that of the distinct rows, and `exists()` of a distinct projection with an offset
  (`cache/keys.py:53`). The third came out when the proof of `KeysTellApart` did
  not go through; the rows it takes (two that differ in nothing but the key) were
  not in the instance then and are now.

A value is assumed to be of its column's Python type, or NULL; then encoding and
decoding give it back, except NULL in a column that is `Typed`. `decode_scalar`
(`_internal/wire.py:32-48`) has no case for None there, and what it raises is a
`TypeError` or `ValueError`, although `from_data` documents only errors of the
library. `DecodedAlike` states this, and that a predicate decoded under an
allow-list may still be refused when it is compiled: for a comparison with NULL,
for relationships in a row, and for two relationships to the same table
(`query/compiler.py:37-44`).

Text and JSON lookups, and `gte`, `lte`, `nin` and `range`, differ from the
others in the comparison only and are left out. The guide lists lookups `eq` and `not_in`; in the code they are
`exact` and `nin`.

### CursorWalk

`page` is what the client has; `NextPage` and `PrevPage` follow its cursors;
`InsertRow`, `UpdateRow` and `RemoveRow` are other transactions between the
pages. The cursors of a page are made of what its statement has read
(`MakePage`): every page is fetched in a session of its own, as it is by separate
requests. In one block that fetches several pages, the identity map may answer
with older columns than the statement sorted by, and a cursor would be made of
those; this is left out. `Seek` is the predicate that `cursor.py` builds, NULLs included: a
comparison with NULL is unknown, so the walk does not find rows with NULL in an
ordering column, and a cursor whose value is NULL (or a bool, or missing) is
refused (`RefusedPage`). `mark[r]` says whether the row was returned in the
present direction, or is due because it lay ahead when the walk turned and has
not been changed since.

### ModelClasses

A class is the number of its statement, because a refused statement has made a
class object all the same. `Prepared` goes through the annotations as
`prepare_fields` does, and each builder changes the registries at once: the
entry of the reverse accessor is in the target's registry, and the join table in
the `MetaData`, before the rest of the statement is looked at. What SQLAlchemy
does of it (tables, mappers, backrefs, `configure_mappers`) is external and
modelled as far as names and targets go. `RegistryTruthful` compares registries
and mappers, and replays the accepted statements in every order in which they
can be imported.

Its exceptions are what the code leaves behind or never does: entries that name
a refused class; native backrefs that came about after a class registered its
relationships (once, `pipeline.py:266`); a self-reference under the name of its
own reverse. Met on the way: a foreign key to a model whose primary key is a
native column always raises (`_target_pk` asks a native field for its column
type), though docs/guide/native-columns.md:43-45 says that such a key is
recognised; foreign keys name the target's table without `Meta.schema`, so
models with a schema cannot be referred to; a reverse accessor with the name of
a column of the target is accepted and breaks `configure_mappers()` later; a
second `Password` is refused when its table name is already taken; a
self-referential `OneToOne` lacks `remote_side`.

### BufferedInserter

The buffer is a set of numbered rows, and a batch is what a task took out of it
under the lock. `InsertOk`, `InsertFails` and `CancelInsert` are the three ways
an insert ends; the last two may have stored the rows all the same. `Add`,
`Flush`, `Tick` and `Close` do what happens up to the next await. The order of
rows in the buffer is left out: it matters for nothing that is promised, and
two failing batches do come back in another order.

### ChConnection

`Get` is the check before the lock, `Enter` the acquisition and the second
check, `Connect` and `ConnectFails` the answer of `get_async_client`, `GiveUp`
the cancellation of a task that waits or connects, as the timeout of a health
probe does. `Configure` and `Dispose` come at any await. `CliBegin` and `CliEnd`
are the wrapper of the command line, which owns the client only if the
application had configured none. `crossed` names what `OneClient` cannot
survive: `configure` with a client there (it is forgotten, never closed), and
`configure` or `dispose` while a task connects (its answer is stored over the
new state). If `dispose` clears the configuration before a task that waits for
the lock gets it, that task raises a `TypeError` instead of the error for a
missing configuration.

### ChMigrations

A command of a process reads the history (`ReadHistory`), executes one statement
at a time (`Statement`), and records or forgets the revision (`Settle`);
`makemigrations` reads tables and columns one await after the other
(`LiveTables`, `LiveColumns`) and writes a file. `Fails` is a statement that
the server rejects or whose answer is lost, after which the command ends and
everything before it stays. A table is the set of its columns. `RawSQL` is
represented by a column rename. `showsql` and `history` only read.

`SchemaFollowsHistory` says when the schema is what the recorded migrations
make; its exceptions are described at the property. In words: a rollback that
failed half way is still recorded, so it has to be repeated before anything
else: a later `migrate` of further revisions finds its tables gone, and
`makemigrations`, which sees nothing pending, generates them a second time (the
property had missed the latter until its proof failed there; `outside` now
excludes those tables); of two processes that migrate at once, the slower may add
a column again that a hand-written migration has dropped or renamed; a
`rollback` or `makemigrations` next to another command can break the order of
the history; after `create_all` the CREATE of a migration does nothing, and its
rollback drops the application's table.

### ChTable

`stored` are the physical rows; `Merge` lets the server collapse any of them at
any time, `Cleanup` is OPTIMIZE ... FINAL CLEANUP. A write is sent (`Insert`,
`Delete`, `Restore`) and arrives later (`Arrive`), or fails (`Fail`) and may be
stored all the same. Its version is the clock's, but for an instance that a query
made (`Read`) and that is inserted again (`Again`): `_col_value` gives a default
only to what is None (`clickhouse/repository.py:41-50`), so that one keeps its
`_version`, `is_deleted` and `deleted_at`. Time is in milliseconds of one
clock, ties go to the later arrival; skew between hosts is left out, and would
break the promise in the way of `contested`. Four things to know that the
property states as exceptions: an instance that was read and is inserted again, with
other values, changes nothing that a query finds, and raises nothing, when a newer
row or a tombstone of its key is stored (`Overtaken`); `restore()` inserts the key alone, so the other
columns come back as zeros; a row that `BufferedInserter` retries has a fresh
version and brings a row back that was deleted meanwhile; and with a version
column of the user's own, `delete()` sets only `_version`, so its tombstone
loses against the row, which docs/guide/clickhouse.md:163 calls hidden.

## Runs

| Run | Instance | Shows |
|---|---|---|
| `relay_safety` | 2 producers, a per-message worker that maps connection errors, a batch worker that does not, 2 events, batches of 2, 2 attempts, 2 faults | bookkeeping invariants; refinement of `EventDelivery` |
| `relay_live` | the same with one producer, no faults, both workers mapping | every event settled, `stop()` ends the worker, outages kill nothing |
| `relay_outage` | two ClickHouse workers | violation: an outage makes dead letters |
| `uow_scopes` | 2 tasks, 2 rows, up to 4 scopes, 3 deep, one fault, every liberty | callbacks follow commits, context restored, failed scopes leave nothing |
| `uow_handlers` | the same without faults, handlers that write | violation: a rolled back scope leaves a committed write |
| `cache_coherence` | 2 clients (one uses blocks), 1 row, 2 writes or evictions, one fault | staleness only for the named reasons |
| `cache_blocks` | the same without faults | violation: a block poisons the entry of the current version |
| `buffered_flow` | 2 tasks and the timer, 4 rows, batches of 2, cap of 3, 2 faults | no row lost or doubled, rows do not stay behind, `close()` returns and drains |
| `buffered_cap` | one task and the timer, cap of 2 | violation: the buffer exceeds `max_buffered` |
| `repo_writes` | 2 units; 3 calls on one row of a versioned model, 2 on one row of a versioned soft model and on two rows of an unversioned soft one | no lost update, versions name contents, no revival but by `restore` and the upsert of an older instance, no duplicate without overlap or such a revival, rejected updates stay out |
| `query_results` | predicates and querysets of 3 calls with 2 different lookups on 3 tables; walks over 3 rows, 2 values, NULL, 3 orders, pages of 1 and 2, 2 changes | filters split, terminals agree, keys tell apart; pages repeat and lose nothing |
| `clickhouse_ops` | 2 processes, 5 commands, 2 edits, 2 failures; 3 tasks, 4 clients, 5 changes; 2 writers, 2 keys, 3 writes, 2 ticks; 13 class statements, 4 executed | schema follows history; one client; a view is the last write; registries agree with mappers |

`query_results` and `clickhouse_ops` hold several machines that share no state; a
behaviour starts one of them and leaves the others at rest, so the run is the
sum of theirs and not the product.

Why the bounds suffice. Two workers are enough for any conflict over a lock,
two events for a batch that fails after its first message and for a batch that
is full, two attempts to have both a failed and a dead row; the proofs lift
the bounds. Four scopes on two tasks contain a block with a nested
block, a write and a handler's write, next to a competing transaction. Two
writes are needed for a counter that moves between the steps of a read and for
a second write that overtakes the callback of the first; two rows were explored
once without faults and blocks and added nothing, because no step relates two
rows except a bulk purge. Four rows with batches of two give two full batches
in flight while the timer holds a third. An update is lost to a row that was
deleted and inserted again after three calls of two units, which is why the
versioned model has three; no other anomaly of `Repository` takes more than two.
Three calls derive every pair of querysets that differ in two builders; a wrong
page takes a page, a change and a turn, and ties, so three rows and two values.
Five commands are two migrations, a rollback, and a repetition next to one
that overlaps. A client left over takes one task that connects, one that waits
and one that comes later. Four class statements are two that refer to one
another, one refused in between and one that collides.

Bounds that are constants of the specifications: `MaxId`, `MaxFaults`,
`MaxScopes`, `MaxDepth`, `MaxWrites`, `MaxRow`, `MaxOps`, `Keys`, `MaxCalls`,
`MaxLookups`, `MaxChanges`, `MaxCommands`, `MaxEdits`, `MaxFailures`,
`MaxClients`, `MaxTime`, `MaxStatements`. Faults are counted so that a behaviour
cannot consist of faults only. Symmetry is used for identities that run the
same program (tasks, units, processes) and in runs without liveness only.

Deadlock checking is off in all runs: a deployment whose workers are stopped,
a program that has used its scopes, an idle cache and a closed buffer may stand
still.

### Fairness

`Relay`: the event loop runs every ready worker and a supervisor restarts one
that ended (weak fairness of `Cycle \/ Restart`; the restart is the
deployment's duty, since `run()` itself ends with the first database error); an
event that is offered again and again, by whichever worker, is one day taken or
refused (strong fairness of `Definite`): without it an outage that never ends
would be a counterexample. Producers, `stop()` and faults are not forced. In
addition `EventuallySettled` asks that some worker is, from some point on, not
told to stop. `relay_live` has no faults: what a fault leaves behind after the
restart, rows back as they were and perhaps spoiled, a transient error or a
stopped worker leaves as well, so faults would add no state to be live in.

`BufferedInserter`: the event loop runs the timer and the tasks whose insert
has ended, and every insert ends (the client has a timeout). Nobody is
forced to add, to flush or to close.

## Proofs

`RelayProofs` proves, for every set of producers and workers, every batch size
and number of attempts and all bounds, from `RelayAssumption` alone:

* `AttemptsCorrect`, `NoSpuriousRedelivery`, `DeliveriesAccountedFor`: the
  invariants of `relay_safety`; `TypeCorrect`: the types, which no run repeats;
* `OutboxDelivers`: `Relay` implements `EventDelivery`;
* `OutagesKillNothing`: dead events were refused, if `MappingWorkers = Workers`.

The argument is one inductive invariant, `IInv`. The properties alone are not
inductive: that an event is not delivered twice depends on no two workers
holding it (`LockInv`), on the draft of a worker being the committed row until
the worker records an outcome (`DraftInv`), on ids of open transactions being
invisible and fresh (`WriteInv`), and on published rows, committed or drafted,
having been taken (`PublishedWasTaken`). `RedeliveryHasACause` and
`TakenIsAccountedFor` need each other: an event that is about to be taken again
is either spoiled, or it was not taken before. TLC checked `IInv` on the
instance of `relay_safety` before it was proved. The refinement follows from `IInv`
action by action: commits of producers are `Record`, publisher calls are
`Accept`, commits of a cycle are `Settle`, and everything else stutters.

`BufferedInserterProofs` proves, for every number of tasks, rows and faults and
every batch size, from `BufferedAssumption` alone:

* `TypeCorrect`, `NothingLost`, `NothingHeldTwice`, `CloseLeavesNothing`: the
  safety invariants of `buffered_flow`.

Its inductive invariant adds what those leave out: only a task that awaits an
insert holds a batch (`BatchIdle`), so taking the buffer overwrites nothing; a
row not yet added is nowhere (`Fresh`), so adding it doubles nothing; and
`close()` has set `_stopping` before its last flush (`Closing`), so a row added
after that flush counts as late. Steps that only move rows share one lemma
(`TakeKeeps`), and so do steps that settle an insert (`SettledRows`,
`SettledPhases`).

`ClickHouseProofs` proves `OneClient` (`OneClientAlways`) for any number of
tasks and configurations. It is inductive once one adds, for behaviours that are
not crossed, that a task which connects does so with the present configuration
and no client is there (`Connecting`), and that what `dispose` waits to see
closed is the client (`ClosingIsClient`). That only the holder of the lock
connects is part of the types (`ConnectionTypes`).

It proves `ViewIsLastWrite` (`ViewsShowTheLastWrite`) for any number
of writers and keys, from `TableAssumption`. `LastLeads` says that the last
write of a key not contested is a stored row that replaces every other one of
the key, or a tombstone that was cleaned up with all it replaced. It takes
`Ahead`: while a new row is on its way alone, nothing stored of its key has a
later version; `WritesAlone`: no other write has those keys; and `Kept`: an
instance that was read has the columns of a row that was stored. Such an
instance counts as the last write only if nothing newer is stored when it arrives
(`Overtaken`). That the server has
a newest row to keep is a lemma (`NewestExists`), because two rows of a key never
arrive with one insert (`Placed`). `TableTypes` adds the types, which
`clickhouse_ops` checks as a part of its `TypeOK`.

And it proves what `SchemaFollowsHistory` says, for any number of processes,
tables, columns and migrations, however many commands fail:

* `GeneratedAlways`: of the tables that only generated migrations touch
  (`Clean`), whatever else is written by hand, one command after the other or
  several that migrate at once;
* `GeneratedOnly`: of all tables, hence `SchemaFollowsHistory` itself, when nothing
  is written by hand (`ByHand = {}`). With migrations by hand the property depends
  on their `down` undoing their `up` in a serial run, which no assumption on the
  constants says; for those it is checked by `clickhouse_ops` only;
* `MigrationTypes`: the types.

The invariant (`MigrationInvariant`) has to relate three things that are not
equal while commands are under way: the files, the history and the live tables.
Files are well formed (`WellFormed`: a generated migration creates or adds each
thing once, and its `down` undoes its `up`), one revision creates a table before
any other touches it, and one brings a column (`Distinct`, `CreatedFirst`).
That `makemigrations` keeps this is the heart of the matter: it compares models
with live tables, so it takes that what is live was brought by a recorded
revision and the reverse (`Live`), apart from revisions at work or left
unfinished, and that what it read first is still so when it reads on
(`Reading`). What is done of a revision shows in the tables (`Effect`): only
commands `migrate` run beside a `migrate` (`Alone`), and their generated
statements take nothing away. A slow process may go through
revisions that others have recorded meanwhile, and adds columns to tables that
must still be there (`Standing`). The history has no gaps (`InOrder`, `Plans`).
`Made`, which folds statements over an empty database, is then compared with
`Live` table by table: the fold of n revisions has a table exactly if one of
them creates it, and the columns that they bring (`MadeBrought`). Folds are
reasoned about by their least counterexample (`Iterated`, `AfterAllIs`,
`MadeIs`). TLC checked the invariant on the instance of
`clickhouse_ops`.

`QueryProofs` proves, for predicates of any depth, tables of any size and any
number of calls, from `QuerySetAssumption` and `OneRelationship`:

* `QueryTypes`: the types of `QuerySets`;
* `DecodedAlways`, `ExcludeAlways`, `TerminalsAlways`: the invariants
  `DecodedAlike`, `ExcludeComplements` and `TerminalsAgree`;
* `KeysAlways`: the action property `KeysTellApart`.

The types are inductive: a call adds one level to a tree, so a tree has no more
levels than there were calls. The rest is about the trees. A recursive function
on them satisfies its equation because a node depends on nodes of a lower level
only (`Recursion`, `LayeredInduction`), and what holds of all trees is an
induction over levels: data can be decoded to the tree that it encodes (`SentIs`),
and the truth of a node depends on nothing but the columns its leaves name
(`TruthDependsOnColumns`). For `ExcludeComplements` the question is in which
combinations of joined rows a predicate is looked at: another filter adds joins,
and with them combinations, and an old predicate has in each of them the value
that it had before (`Narrowed`, `JoinedName`, `SameColumn`). That a lookup not
unknown anywhere leaves the whole tree true or false is `TruthSays`. For
`KeysTellApart` the number of tuples is that of the matches, whatever the order
and the projection (`ListedIs`), so that `exists()` and `count()` do not depend on
what their keys leave out, but for the cases named (`ExistsIs`, `CountIs`).

`TerminalsAgree` needs to know which sequence a statement returns. `Ranked` lists
the elements of a finite total order, each once and none too early (`RankedIs`);
the rows and their repetitions are such an order, because the effective order
ends with the primary key (`Precedence`, `EntriesOrderly`), so a statement returns
what matches, in order (`ListedInOrder`), and so does `unique()`, which keeps the
first of each (`UniqueKeeps`, `UniqueInOrder`). The terminals of one queryset then
are compared as sequences of the same rows: they are equally long in any order
(`SameLength`: `count()` drops the order), their ends change places when the order
is reversed (`ReverseIs`, `LastOfReversed`), a window repeats nothing that the whole does
not (`WindowKeepsDifferent`), and adjacent windows of two put together
are the whole (`PagesConcatenate`). Without repetition the pages fit together even
if the caller's order is partial, since the model breaks ties the same way
in every statement; a database need not, so the invariant asks for a total order.

It proves of `CursorWalk` `NoRowTwice`, `NoRowLost` and `FlagsHonest`
(`NeverTwice`, `NeverLost`, `FlagsTellTheTruth`), for every table, order, page size and number of changes. The
inductive invariant says where marks can be, given the cursor of the page: rows
seen lie behind it (`SeenBehind`), rows due lie ahead of it or are hidden by
NULLs (`DueAhead`), and a marked row is in the table as it was
(`MarkedThere`). Lemmas about `Ordering` carry the rest: the order is total
because the primary key ends it, the seek predicate is that order
(`SeekTransitive`, `BeforeIsBehind`, `AheadIsPast`), and a page cut off at its
limit leaves out only rows beyond its last (`CutOff`). `FlagsHonest`
(`FlagsTellTheTruth`) takes one fact more: as long as nothing changes, cursors
are rows of the table (`TokensPresent`), so the cursor itself lies behind the
page it led to (`BehindIsCursor`), and an extra row lies beyond it exactly if
any does (`ExtraMeansMore`).

`UnitOfWorkProofs` proves, for any number of tasks and rows, any depth of nested
scopes and any number of faults, from `UnitOfWorkAssumption` alone:

* `TypeCorrect`, `ScopesRestoreTheContext`, `CommitsAreInvalidated`,
  `FailedScopesStayOut`: the invariants of `uow_scopes` (`TypeOK`,
  `ContextRestored`, `InvalidationFollowsCommit`, `FailedScopesLeaveNothing`).

None of the four is inductive. `SInv` says what the stacks of scopes look like
(`Shape`): the scopes that own sessions are the outermost ones, just the first
if no handler wrote outside a block; the context variables are set exactly while
a block, or any scope, is open; post-commit callbacks run on top of the stack;
and a task that kept the session of a cancelled block joins it for good
(`Kept`). Writes are numbered, and `Separate` says where those of a scope that
may still fail can be: not in the database, and not in a savepoint or session
of another task; nor are writes that were undone in a session, unless an
exception is under way in it. `Queues` and `Owes` say that every write of an open session
has queued its invalidation or waits for the handlers that do, and that what
was committed and is not yet invalidated is owed by the task that commits or
drains. Two lemmas carry most of the work: a step moves writes of its own task
only (`Sole`), and what it adds to a set of writes comes from a named place
(`Provenance`). TLC checked the invariant on the instance of `uow_scopes`.

`RepositoryProofs` proves, for any number of units of work, values and calls,
from the assumptions of the module:

* `TypeCorrect`, `NoUpdateIsLost`, `VersionsNameContents`,
  `OnlyRestoreBringsBack`, `NoSerialDuplicates`, `RejectedValuesStayOut`: every
  property of `repo_writes`, one of them an action property.

That no update is lost needs versions to be ordered, row by row, as long as a
row is not physically deleted or its version set back by an upsert
(`VersionsOrdered`): a draft is ahead of the
table, strictly unless set-based statements wrote the row; what a unit holds or
knows is not; and where the versions are equal so are the contents. A value
that was rejected is in no row, draft or pending flush (`RejectedNowhere`).
While one scope follows another, no unit sees two live rows and what a lookup
found is still true when the call acts on it (`OneLiveRow`), so no duplicate
comes of it. That only `restore` revives, and the upsert of an instance that was
read while its row was live (`SentBack`), is read off the actions, from the
types alone.

`ReadCacheProofs` proves, for any number of clients, rows and backend failures,
from the assumptions of the module:

* `TypeCorrect`, `QueriesSeeInvalidatedWrites`, `CurrentListIsCoherent`,
  `CachedObjectsAreCoherent`: the invariants of `cache_coherence`.

A write is `settled` once its bump was made. The argument follows what a result
holds: fetched or cached under the current version, every write that is
settled; under any version, what was settled when a query using that version
began (`ListsSettled`). It takes that nothing lies under a version yet to come
(`NoneAhead`), that a write under way is newer than what is committed
(`Versions`), and that a result is as coherent when it is fetched as it must be
when it is cached (`FetchedListCoherent`, `FetchedObjectCoherent`). That the
counter stays within its type is a count of the bumps still to come
(`CounterBehindClock`). TLC checked the invariant before it was proved.

`ModelClassesProofs` proves, for any set of class statements and any number of
them, from `ModelClassesAssumption` alone (a class body has annotations by name,
each once):

* `RegistryAlways`: `RegistryTruthful`, which `clickhouse_ops` checks;
* `ClassesAlways`: the inductive invariant it follows from (`ClassesSound`);
* `ClassTypes`: the types, a part of the `TypeOK` of that run.

A class statement goes through its annotations one by one, and stops where it
raises with what it entered so far left behind. The proof follows it: what one
annotation does to the two registries (`BuildIs`), what all up to the J-th have
done (`Shape`, `PreparedReached`), what the statement does as a whole
(`Outcome`, `ExecutedIs`). `RegistryTruthful` is not inductive, because it does
not say which names and tables are taken. `Sound` says it: every mapped class is
`Whole` (all it declares is registered at both ends, its tables are made), any
two are `Apart` (neither wants a name or a table of the other's), and every
entry of a registry comes from a relationship that some statement declared
(`Raw`). `Whole` and `Apart` speak of statements and not of their order, so the
accepted ones are accepted in another order too (`NextMaps`, `AgainNext`,
`ReplayAgain`), and the same relationships come of it (`RelatedIs`,
`RelatedAgain`). The recursive functions `Prepared` and `Replay` are reasoned
about by induction over sets of numbers (`Induct`, `Iterated`).

Out of the prover's reach and checked by TLC only: `EventuallySettled`,
`StopEnds`, `EventuallyStored` and `CloseReturns` (liveness under fairness). Only
model-checked as well: `SchemaFollowsHistory` where migrations are written by
hand, as said above. The `TypeOK` of `clickhouse_ops` and of `query_results`, instances
that hold several machines, is the conjunction of the types of the modules in them,
each of which is proved.

## Where the code and its documentation disagree

1. `ClickHousePublisher` does not map connection errors, so an outage kills
   events (`relay_outage`; `clickhouse/publisher.py:58` against
   `docs/guide/outbox-and-relay.md:3-6`).
2. Handlers of writes outside a block do not write in the triggering
   transaction (`uow_handlers`; `runtime/session.py:32` against
   `docs/guide/signals.md:4-6`).
3. Cached queries inside blocks store rows older than completed invalidations
   (`cache_blocks`; `query/queryset.py:239` against
   `docs/guide/caching.md:111-112`).
4. `max_buffered` is no hard cap (`buffered_cap`; `clickhouse/repository.py:503`
   against the docstring at lines 249-250).

Other disagreements met while modelling have no run of their own; they are
described in the sections above on `Repository`, `QuerySets`, `ModelClasses` and
`ChTable`.

## Not modelled, and the plan

The components that depend on order or composition are modelled. What is left
of them, by choice:

* `Signals`: the registry itself (connect, disconnect, order of handlers);
* querysets: joins made by `select_related`, aggregates other than counts, text
  and JSON lookups; ordering across a relationship;
* the Alembic half of the command line, which only calls Alembic;
* order between outbox events, about which nothing is promised: a failed row is
  sent again after newer ones;
* starvation by a full batch that always fails: it takes a broker that refuses
  some events for ever, which `EventuallySettled` excludes;
* a handler that waits for a lock its own task holds: `UnitOfWork` has the step
  (`LockedByOther`), and no document says what should happen.

Left out for good: field types and value validation, serialization of
instances, DDL and migration text, configuration of the engine, scaffolding,
FastAPI and FastStream glue and health checks. They keep no state across calls,
or run once at start-up, and a unit test reaches all they do.
