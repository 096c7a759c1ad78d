# Verification of azure-functions-langgraph

TLA+ models of the parts of `azure-functions-langgraph` that keep state and are
called concurrently, TLC configurations that check them on small instances, and
TLAPS proofs about the run lock, the app around it, the Blob checkpointer, the history,
the streams and the Cosmos helper. Paths are
relative to the repository; the package is `src/azure_functions_langgraph/`.
`PROJECT.json` maps every definition to its source lines, every property to a faulty
variant of the code that breaks it, and lists the hazards and the findings.

    tlc -workers 2 -config LockSafety.cfg MCTableRunLock     # a run
    tlapm TableRunLock_proofs.tla                            # the proofs

## 1. The system

A LangGraph graph is registered with `LangGraphApp`, which exposes it as Azure
Functions: *native* routes (`graphs/{name}/invoke`, `/stream`, `/state`) and
*platform* routes (`threads`, `threads/{id}/runs/wait`, `/runs/stream`, `/state`,
`/history`, `runs/*`). A Functions host runs many handlers at a time, there may be
many hosts, and a host kills a handler after `functionTimeout` or dies.

| Component | State | Operations | Hard behaviours |
| --- | --- | --- | --- |
| `ThreadStore` protocol (`platform/stores.py`) | per thread: status, binding, metadata, values | create, get, update, delete, `try_acquire_run_lock`, `release_run_lock`, search, count | the contract every backend has to keep under concurrency |
| `AzureTableThreadStore` (`stores/azure_table.py`) | one table entity per thread, with an ETag | the same, and `reset_stale_locks` | compare-and-swap, blind merges, lost answers, deletes between two calls, clocks |
| `InMemoryThreadStore` (`platform/stores.py`) | a dict under an `RLock` | the same | handlers interleave between methods; a restart loses everything |
| run handlers (`platform/_runs.py`) | locals between store calls | wait, stream, and both without a thread | a death or an error between acquire and release |
| thread handlers (`platform/_threads.py`) | locals | create, get, PATCH, delete, search, count, state, history | read-modify-write of metadata; state updates without a lock; pages over a list that shifts |
| native handlers (`_handlers.py`), frames (`platform/_sse.py`) | the buffer of one response | invoke, stream, state | truncation, errors in the middle of a stream |
| `LangGraphApp` (`app.py`) | registrations, a thread store, a cached `FunctionApp` | register, set the store, build, serve | what is cached or captured is stale after a later call |
| `_validation.py` | none | depth and node count of an input, names, sizes | the boundary, met anywhere in a nested value |
| `AzureBlobCheckpointSaver` (`checkpointers/azure_blob.py`) | value, metadata, commit and write blobs, `latest.json` | `put`, `put_writes`, `get_tuple`, `list`, retention, `collect_orphaned_values`, `delete_thread` | multi-blob commits, pruning, garbage collection and deletion beside readers and writers, crashes |
| Cosmos helper (`checkpointers/cosmos.py`) | two environment variables, tracked savers | create, close | threads that swap process-wide variables; a close that fails, is repeated or overlaps |
| stale-lock timer (`examples/maintenance_timer`) | none | calls `reset_stale_locks` every five minutes | resets rows it read some time ago; may die half-way |
| Postgres, SQLite helpers, contracts, routes, OpenAPI | none | one library call; data classes, wiring, documents | sequential or pure |

The handlers call the store and the graph; the graph calls the checkpointer. A
thread's run lock in the store is what keeps two platform runs from writing the same
thread's checkpoints. Native requests and state updates write checkpoints without it.

What makes each of them correct:

* thread stores: runs of one thread never overlap; a run in progress owns its
  thread; a thread keeps its assistant; a lock nobody owns comes back in the end;
* app: whoever builds it gets all that was registered; a handler acquires and
  releases in one store; a platform run loses no checkpoint to another run, and one
  graph writes a thread;
* streams: a client can tell a cut stream from a whole one, and the thread's
  status says the same as the stream;
* checkpointer: what has its commit marker is complete, whatever is pruned,
  collected and deleted meanwhile; the newest checkpoint is never taken; readers are
  given whole checkpoints; the first result of a task stays; garbage is collected in
  the end;
* history: a client that pages sees every retained checkpoint once, in order;
* Cosmos helper: a saver is connected to the account its caller named, the
  environment is put back, every saver that is handed out can be closed.

## 2. Modules

| Module | Models | Steps |
| --- | --- | --- |
| `RunLock` | what the `ThreadStore` protocol promises of the run lock: phase, lock, binding, owners of every thread | one action per promise; the abstract specification of the two stores |
| `TableRunLock` | the table store, driven by run and PATCH handlers, create, delete and sweepers, the callers of `reset_stale_locks` | one step per call of the table service; everything a handler remembers between two calls (ETag, binding read, attempt, time of its last call) is in `req` |
| `MemoryThreadStore` | the in-memory store and its handlers in one process | one step per store method, which holds the `RLock` |
| `LangGraphApp` | extends `MemoryThreadStore`: the app around the store, what the host imported, and requests that take no run lock | one step per call of the app; a step of a handler is one of the store, or one in which its graph reads or puts a checkpoint |
| `CheckpointHistory` | what the saver promises of the checkpoints of a thread, to who reads them | `Save`, `Drop`; the abstract specification of `BlobCheckpointer` |
| `BlobCheckpointer` | writers, readers, retention and collector on one thread and namespace | one step per blob written, read, deleted or listed |
| `ThreadBlobs` | extends `BlobCheckpointer`: `put_writes`, the write blobs in retention, and `delete_thread` | the same; the upload of a write is a step of its own, after the look |
| `HistoryWalk` | a client that pages through `POST threads/{id}/history` beside a writer and retention | one step per checkpoint `list()` yields |
| `InputValidation` | the walk of `_validation.py` over a nested value, and a reference definition of its depth and size | pure operators |
| `SseStream` | one request to a stream route and its buffered response | one step accepts or refuses the input, then one step per frame |
| `CosmosHelper` | threads in create and close of one process | one step per statement that reads or writes shared state |
| `*_proofs` | the theorems about each of these, but for `InputValidation` | |
| `MC*` | symmetry sets, and constants a cfg cannot write | |

How the state corresponds to the code.

*Table store.* `rows`/`table` are the entities (`etag` counts the writes of a row,
`updated` is `updated_at`), `pc` is the next call of a handler and `sweep` what a
sweeper is at: its cutoff, the rows the query has not yielded yet, and the stale
ones with the ETag they were read with. The timer function is one sweeper;
`reset_stale_locks` is a public method, and a second caller is what its ETag is there
for: the row it fetched may have been freed by another sweeper and locked again by a
run. `Begin` is a handler's `get()` (a request that is refused before it changes
nothing and is not a step), `AcquireRead`/`AcquireWrite`/`AcquireModified`/
`AcquireMissing`/`AcquireRefused` one attempt of `try_acquire_run_lock`,
`RunRaises` an error between the acquire and the try block, `GraphEnds` the
graph, `Release*` the release: its merge and the read after it. The release
after a buffer overflow stands inside the `try` block of the stream, so an error
of it is followed by another release (`Raised`, step "again").

*In-memory store and app.* `threads`/`table` are `_threads`, `known` the ids given
out (never twice: they are UUIDs). `cached` is `_function_app` and `host` the
`FunctionApp` that the host imported, each with what its closures captured: native
routes are the registered graphs of the time it was built, the platform routes share
`_registrations` and hold the store of that time. `sees` is the `thread_id` in the
config of a run's graph, whatever the `configurable` of the request names. A graph with
a checkpointer loads the newest checkpoint of that thread and puts one after every step
(`GraphReads`, `GraphPuts`, external); the history variable `base` says whether somebody
else has put a newer one since, and who. A request that takes no lock (native, without a
thread, state update) is a `call`, and puts checkpoints beside the runs (`CallPuts`).

*Checkpointer.* A channel version is named by the checkpoint that introduced it.
`put` uploads values, metadata, commit marker, then reads and writes `latest.json`;
retention deletes the marker before the metadata and the writes, as the listing
orders them by name; the collector lists, reads every survivor, lists the values, and
re-reads all survivors before each delete. In `ThreadBlobs`, `delete_thread` walks the
listing in the order of the names (`Rank`), and a blob that is gone by then ends it
with an error. For `CheckpointHistory`, a checkpoint is there as long as `get_tuple`
would answer with it (`Answered`), with the values that it would find (`Found`): it
appears with the commit marker and goes with it. `hit` marks graphs that ran beside a deletion and what they commit.

*History.* `HistoryWalk` has its own writer and retention, without the blobs of a
checkpoint: a reader of one finds it or not, and `BlobCheckpointer` shows that it
is whole if it does.

*Cosmos.* A saver is named by the call that made it, and so is the account that the
call was given. The library's class supports weak references or not (`weakrefs`), and
new attributes or not (`attrs`), which decides how a saver is tracked, in one step each:
the read of `_USE_MARKER_FALLBACK`, the `WeakSet`, the flag, and the marker, whose
assignment may raise with the flag already set. `raised` is where create ends with an
error, with or without a saver made.

*Streams.* The size of the metadata frame is counted before it is compared, that of a data
frame is compared before it is counted.

Left out: wording, formatting and logging; refusals, which happen before any state
changes (only the walk over the input is modelled); channel contents; search, count
and `state`, which only read.

## 3. Runs

| Run | Instance | Shows |
| --- | --- | --- |
| `lock_safety` | 1 thread, 2 handlers, 2 sweepers, 2 assistants, 3 attempts, 3 requests | `MutualExclusion`, `HolderOwnsThread`, `BindingIsForever`; the inductive invariant `LockInv`; `LockIsKept`: the table store implements `RunLock` |
| `lock_liveness` | 2 threads, 1 handler, 1 sweeper | `BusyEnds`: a stranded lock is reclaimed |
| `app` | 1 thread, 2 handlers, 1 caller, 2 assistants (1 with a checkpointer), 2 metadata keys | the store: `RunOwnsThread`, `LockIsKept`, `OnlyOverlapsLoseKeys`; the app: `AppIsCurrent`, `HandlersKeepTheirStore`, `NoRunPassesARun`, `OneGraphPerThread` |
| `blob_safety` | 3 checkpoints, 1 channel, 1 writer, 1 reader | `CommittedIsComplete`, `LatestIsNotAhead`, `ReaderSeesWhole`; `HistoryIsKept`: the saver implements `CheckpointHistory` |
| `thread_blobs` | 2 checkpoints, 2 attempts at a task, 1 deletion | `RestIsComplete`, `DeletedIsGone`, `OnlyOverlapsReplace`, `WritesStay` |
| `blob_liveness` | 2 checkpoints, 1 channel | `OrphansEnd` |
| `history_walk` | 5 checkpoints, pages of 2, retention to 2 | `ShownInOrder`, `WalkIsComplete` |
| `stream_frames` | inputs up to height 3 with up to 2 items a level; up to 4 events of 4 sizes, 3 buffer limits | `LimitsDecide`, `CutIsTold`, `StatusMatchesStream`, `PlatformFrames`, `NativeFrames` |
| `cosmos` | 2 calls of create, 2 closers, 2 calls of close each | `OwnAccount`, `EnvIsRestored`, `OpenIsManaged`, `LaterCloseIsNoOp`, `CreateEnds` |
| `lock_release` | one run | *violated*: a run that ends on a living host leaves its thread busy |
| `lock_reread` | as `lock_safety`, 1 sweeper, `RereadSpec` | *violated*: two runs of a thread overlap |
| `blob_forks` | as `blob_safety` without the reader, `Forks` | *violated*: a committed checkpoint lacks a value |

Each run but `history_walk`, `lock_liveness`, `blob_liveness` and the three that end in
a violation also checks its module's type invariant.

The bounds, and why they are enough:

* Locks of different threads share nothing but a sweeper's batch, so one thread
  is enough for safety (the proofs cover any number), two for liveness. Two
  sweepers let one free a lock whose row the other still wants to reset. Two
  handlers give every race of two runs, of a run and a PATCH, and of a live run
  and one whose host died; three requests (`MaxRequests`) let a third run start
  where two have left something behind. `Horizon` is the last time a request
  comes: 3 is one more than `StaleAfter`, so a lock stranded at 0 is reclaimed and
  taken again while requests still come. Time stops at `LastTick`, when every lock
  has become stale. `RunTimeout = 1`, `StaleAfter = 2` is the tightest instance of
  the assumption `StaleAfter >= 2 * RunTimeout`.
* The app has one thread (an id is used once; a second one shares nothing with it)
  and two assistants, so that a thread may be bound to one while a request names
  the other; one of them has a checkpointer, which is what a run without a thread
  distinguishes. A `configurable` may name the thread, none, or an id no store has
  given out (`Elsewhere`). Registration, setter, build and import interleave freely. The
  proofs cover any number of each.
* Three checkpoints let retention delete two, one whose value a survivor uses and
  one whose value nobody does, while a third is put and a reader is in the middle of
  one. `PutTime < Grace` are 1 and 2, the tightest values. In `blob_safety` the clock
  stops at 3 (`LastTick`), when values uploaded at 0 and at 1 can be orphans: puts begin
  until 1 and are in flight until 2, so that the collector meets all of them. Where
  everything must be collected (`blob_liveness`), it goes on until the last upload is
  out of its grace period. `ThreadBlobs` needs two:
  one that is pruned or deleted and one that is put; a batch has a regular index and one
  below 0, so that an attempt may die between them, and the collector is at rest, so
  time is.
* Five checkpoints and pages of two make three pages, with room for puts
  and deletes between them. The walk ends, so deadlock is not checked.
* Inputs up to height 3 with two items a level lie below, at and beyond `MaxDepth` 2
  and `MaxNodes` 3. Buffer limits 1, 6 and 7 refuse the metadata frame, are filled to
  the last byte, and are missed by one. One response is over when it is answered, so
  deadlock is not checked.
* Two calls of create give every race for the lock, with a constructor that succeeds
  or fails, and for the flag, with a class that supports weak references, new attributes,
  both or neither; two closers with two calls each let two closes of one saver overlap, follow
  each other and follow a failure. All calls end, so deadlock is not checked.

Fairness. *Locks* (`FairSpec`): a handler that started goes on or is killed
(`functionTimeout`), the clock runs, the timer fires on its schedule. A timer run
may be killed at any point, hence strong fairness per row: it is not for
ever killed just before the same row. *Blobs* (`FairSpec`): the same for writer, clock
and a collector that runs on a schedule. *Cosmos* (`CosmosFairSpec`): a thread in
create goes on, and gets the lock when it stays free: every call holds it once, and
leaves it because its holder goes on too. Nothing is assumed of clients, retention, PATCHes, deletes or graphs.

## 4. Findings

Three runs in which TLC finds a state or a step that contradicts a documented statement:

* `lock_release` — an error between acquire and `try` (`_runs.py:126-132`: a
  `configurable` that is no mapping) or any error but `KeyError` from the release
  (`_runs.py:41`) leaves the thread busy on a host that lives; README: "On
  completion — success or failure — the lock is released".
* `lock_reread` — after an overflow, a release whose merge was applied and whose
  re-read fails is repeated without an ETag, and may free the lock of the
  next run.
* `blob_forks` — a state update that goes on from an older checkpoint may commit a
  reference to a value between the collector's re-scan and its delete.

Where a run passes, a document may still say something else than the code. Two such
statements are findings on the property that says what the code does, one is outside the
models:

* `lock_safety`, `BindingIsForever` — `docs/architecture.md:317-321` and
  `docs/production-guide.md:233-238` call the binding of a thread a TOCTOU race in which
  the last writer wins with `AzureTableThreadStore`. The code binds in the write that
  takes the lock, conditional on the ETag of the row it read (`azure_table.py:472-478`):
  the documents are older than the compare-and-set they ask for.
* `stream_frames`, `NativeFrames` — `docs/architecture.md:90` always appends the end frame
  of a native stream; a full buffer replaces it by an error (`_handlers.py:179-192`).
* `COMPATIBILITY.md:49` says that `threads.delete` "also clears persisted state when a
  checkpointer is wired". The handler calls `thread_store.delete` and nothing else
  (`_threads.py:128-142`): all checkpoints stay. No module has both the store and the
  blobs, so no run shows it.

Other behaviours of the passing runs that are worth knowing:

* Table store: three writes by PATCHes make an acquire give up and answer "busy"
  although no run has the lock; a thread deleted between merge and re-read turns a
  PATCH into an error (`PatchConfirm`); a PATCH moves `updated_at` of a busy thread,
  hence the factor two in `StaleAssumption`.
* Both stores: two PATCHes that overlap may lose a metadata key. That nothing else does
  (`OnlyOverlapsLoseKeys`) is checked and proved for the in-memory store; `TableRunLock`
  has no metadata. In memory, a release that raises leaves the thread busy
  until the process restarts (`ReleaseRaises`): there is no sweeper.
* App: native requests and state updates take no run lock, and a native request may
  name any thread. What they put while a run executes is passed over by the run, which
  goes on from its own checkpoint ("passed by a call"); `NoRunPassesARun` is about two
  runs. The routes a
  host imported keep their store when another one is set later.
* Checkpointer: `latest.json` may name a pruned checkpoint but is never ahead
  (`LatestIsNotAhead`). Two overlapping attempts of a task may replace each other's
  writes; a special write (index below 0) may always be replaced, also between the
  reads of its payload and its properties (`azure_blob.py:872-884`). A batch of
  `put_writes` that died may be completed by another attempt with results of its own.
  `delete_thread` raises half-way when retention deletes one of its blobs first, and
  what it leaves is whole; a graph that runs meanwhile may leave checkpoints without
  their values. Retention that dies leaves metadata and writes that have no marker, and
  only `delete_thread` removes them.
* Streams: a platform stream that overflows and whose release fails says "error, end"
  twice (`PlatformFrames`).
* Cosmos: code that does not take `_env_lock` sees the swapped variables. A saver whose
  class supports neither weak references nor new attributes is lost: create raises
  `AttributeError` with the client open (`cosmos.py:175`, `177`;
  `tests/test_checkpointers_cosmos_helper.py:408-439` has such a class). One that is
  tracked but takes no new attribute is closed, and close raises all the same
  (`cosmos.py:219`), every time. Two
  overlapping closes of one saver may both close its client, or one of them raises
  `TypeError` for a saver that was managed; without weak references, close raises
  `TypeError` from `_managed_savers.discard` (`cosmos.py:222`) after all is done.

## 5. Proofs

### The run lock and the app

`TableRunLock_proofs` proves for every number of threads, handlers, sweepers and assistants
and all values of the other constants that satisfy the assumptions:

| Theorem | Statement |
| --- | --- |
| `LockInvHolds` | `Spec => []LockInv` |
| `TypeCorrect`, `RunsExclude`, `RunsOwnTheirThread` | `Spec => []TypeOK`, `[]MutualExclusion`, `[]HolderOwnsThread` |
| `TableKeepsTheLock` | `Spec => LockIsKept`, that is `Lock!Spec`: the refinement |
| `BindingsLast` | `Spec => BindingIsForever` |

Assumptions: the named `ASSUME`s of `TableRunLock`. `StaleAssumption` is the one that
matters: `older_than_seconds` is at least twice `functionTimeout`. Once would do
if only acquires set `updated_at`, but a PATCH that took its timestamp before the
acquire may land after it and set it back by up to one timeout.

`MutualExclusion` is not inductive: a handler about to write its lock excludes others
only through its ETag, a sweeper leaves a live lock alone only through its
age, and a blind release is harmless only while its lock has not been reclaimed.
`LockInv` adds just that:

* `ClockInv` — a handler runs at most `RunTimeout`, and its clock readings are ordered;
* `CasInv` — an ETag that still matches vouches for what was read with it: the row
  is not busy and has the binding that was read;
* `HolderInv` — the thread of a run is busy, its own, and not older than
  `RunTimeout` before the run began;
* `SweepInv` — an unmodified row in a sweeper's batch was stale when it was read,
  and by `ClockInv` and `HolderInv` nobody runs on a stale row (`StaleIsOrphan`);
* `AgainInv` — a release that is repeated is of a deleted thread.

Preservation has one lemma per action, and the refinement one more per action
over `LockInv` and `FreshInv` (ids not given out are unbound).

`MemoryThreadStore_proofs` proves the same of the in-memory store: `StoreInvHolds`,
`StoreTypeCorrect`, `RunsOwnTheirThreadInMemory` (`[]RunOwnsThread`), the refinement
`MemoryKeepsTheLock`, and `KeysAreLostByOverlapsOnly`. `RunOwnsThread` alone is not
inductive: a deleted thread that came back would be idle while its run goes on.
`StoreInv` adds that an id is new until it is given out and no handler knows it before,
and that a run keeps its thread bound, and keeps it alone, also when it was deleted.

`LangGraphApp_proofs` shows that the app adds steps around the store and none inside
(`AppRunsTheStore`: `AppSpec => Spec`), so that the three results about the store hold
behind it (`RunsOwnTheirThreadBehindTheApp`, `AppKeepsTheLock`,
`AppLosesKeysByOverlapsOnly`). `AppInv` is inductive relative to `StoreInv`; it adds
that a graph sees the thread of its request and goes on from a checkpoint only while it
runs, and that a state update names a thread that was given out and is bound to its graph.
A graph that puts a checkpoint then does so in the thread whose lock its run has, which
by `StoreInv` no other run has: that no run passes another one (`RunsPassNoRun`). Bindings last (`BindingsStay`), and that
is why what the update read without a lock stays true. From it follow `AppTypeCorrect`,
`CachedAppIsCurrent`, `HandlersUseOneStore`, `RunsPassNoRun` and
`ThreadsHaveOneGraph`. Assumed: `NoneAssumption` and `AppAssumption`, that is, that the
values which stand for nothing are no thread and no assistant.

### The Cosmos helper

`CosmosHelper_proofs` proves `CosmosInvHolds` and from it `SaversOwnTheirAccount`,
`EnvironmentIsRestored`, `OpenSaversAreManaged` and `LaterClosesAreNoOps`, for any
number of threads, under `NamesAssumption`. `EnvInv` says who holds the lock, what it
saved, and how far the variables differ from that at each statement: without it,
nothing is known of the environment a constructor reads. `SaverInv` relates the closed
mark to the tracking of a saver, and the fallback flag to the class: only savers of a
class that the `WeakSet` refuses are ever marked.

### The checkpointer

`BlobCheckpointer_proofs`, for any number of channels, writers and readers, any ids and
times, and any `KeepLast >= 1`:

| Theorem | Statement | Writers |
| --- | --- | --- |
| `TypeCorrect`, `LatestNeverAhead` | `Spec => []TypeOK`, `[]LatestIsNotAhead` | any |
| `NewestNeverPruned` | `Spec => NewestSurvives` | any |
| `BlobInvariant` | `SingleWriter` assumed, `Spec => []BlobInv` | one |
| `CommittedStaysComplete`, `ReadersSeeWhole` | `SingleWriter` assumed, `Spec => []CommittedIsComplete`, `ReaderSeesWhole` | one |
| `SaverKeepsHistory` | `SingleWriter` assumed, `Spec => HistoryIsKept`, that is `History!Spec`: the refinement | one |

`SingleWriter` says that there is at most one writer and that it goes on from the newest
checkpoint. It is the hypothesis of `docs/architecture.md:298-300`, and `blob_forks` is
what happens without its second half; TLC finds the same for two writers that both start
from the newest checkpoint, one of which is overtaken by the other and by retention. The other assumption that matters is
`GraceAssumption`: a put takes less time than the grace period.

`AnyWritersInv` is inductive for any writers. `IdInv`: nothing but its own put knows the
id in flight, so what the collector has listed, the reader reads or retention deletes does
not change under it. `RetentionInv`: what is still to be pruned is older than a
checkpoint that stays, and so is what `latest.json`, or a put that is about to write it,
names.

`CommittedIsComplete` needs three arguments on top of that (`BlobInv`):

* `WriterInv` — the versions a put commits are its own id or those of the newest
  checkpoint, which is never pruned: what the new checkpoint refers to, it has
  uploaded, or a committed one refers to as well;
* `CutoffInv`, `OrphanInv` — a value of a put in flight is too young to be an orphan:
  the cutoff is at most `now - Grace`, which is before `now - PutTime`, which is not
  after the time at which the put began, which is not after its uploads;
* `RecheckInv` — while an orphan is re-checked, a survivor that refers to it was
  read, or another one that does is still to be read, or one still to be read is gone
  and the pass is given up. A put that commits during the re-check breaks nothing: what it
  refers to is its own or is referred to by the newest checkpoint.

`ReaderInv` (what a reader lacks of a retained checkpoint is still on its list) then
gives `ReaderSeesWhole`.

The refinement maps what `get_tuple` would answer with to the abstract history. By
`CommittedIsComplete`, before a step and after it, that is the committed checkpoints with
all they refer to (`FoundIsRefs`), so a step that touches no commit marker changes
nothing, whatever it uploads or deletes (`HistoryStutters`). `PutMark` is `Save`: by
`WriterInv` the id is newer than all and the versions are those of the newest checkpoint
but for the channels that changed (`PutContent`). `PruneMark` is `Drop`: by
`RetentionInv` a newer checkpoint stays. `NewestNeverPruned`, which the refinement
contains for one writer, is proved for any and is in no run.

`ThreadBlobs_proofs`, for any number of writers that may start from any checkpoint, any
attempts, batches and deletions, under `BatchesAssumption` (a batch is not empty) and
`AttemptsAssumption`: `ThreadInvariant` (`ThreadSpec => []ThreadInv`), and from it
`ThreadTypeCorrect`, `DeletionLeavesWhole` (`[]RestIsComplete`), `DeletionIsWhole`
(`DeletedIsGone`), `FirstResultStays` (`OnlyOverlapsReplace`) and `PendingWritesStay`
(`WritesStay`). `SingleWriter` is not needed: with the collector at rest, only a deletion
takes values away. `ThreadInv` consists of

* `ThreadIdInv` — `IdInv`, and the same for what retention has listed or is sweeping;
* `GraphInv` — a graph that met no deletion has all it refers to in the store, but for
  what its put still uploads, and no deletion is under way;
* `DeletionInv` — a deletion has still to come to the marker of every checkpoint it may
  leave. As a marker's name sorts before the rest of its checkpoint and before all values
  (`MarkerFirst`, from `Rank`), what is deleted first is never what such a checkpoint
  needs. As long as nothing was uploaded, all there is is still on its list;
* `AttemptInv` — attempts under way know of each other, and what an attempt is about
  to replace was stored after it looked, hence by one that it overlaps.

### History

`HistoryWalk_proofs`, for any number of checkpoints, any page size and `KeepLast`, and
any filter: `WalkInvariant` (`Spec => []WalkInv`), `ShownNewestFirst`
(`[]ShownInOrder`) and `NothingOwedIsMissed` (`[]WalkIsComplete`). `Parted` says that
`before` parts what was shown from what the page may take, and the page what it took
from what it has not come to: that gives the order. For completeness, what a walk owes
(`Owed`) can only shrink, because a put gets an id above `newest` and every deletion
raises the bound; `StillOwed` says that what is owed was shown, is in the page, or is
still listed behind a `before` that the walk has found or will find.

### Streams

`SseStream_proofs`, for any number of events, any frame sizes and any limit:
`StreamInvariant` (`Spec => []StreamInv`), `TypeCorrect`, `CutsAreTold`
(`[]CutIsTold`), `StatusIsTold` (`[]StatusMatchesStream`), `PlatformStreams`
(`[]PlatformFrames`) and `NativeStreams` (`[]NativeFrames`). `TypeOK` bounds the bytes
counted by the limit, but for a metadata frame that alone is too large (`Refused`): it is
counted and ends the response. `Shape` gives the buffer
wherever the handler is: an opening frame on the platform routes, as many data frames as
events were yielded or one less, and a tail that says how it went. The rest is counting
in sequences of that form.

### What is only model-checked

Liveness (`BusyEnds`, `OrphansEnd`, `CreateEnds`): fairness and `ENABLED` are beyond the
prover. What the recursive functions of `InputValidation` compute, and with it
`LimitsDecide`: induction over data is beyond it too. Every other invariant and action
property of a run that passes is a theorem.

## 6. Assumptions of the models

* Hosts have one clock; a call in flight dies with its host.
* UUIDs and channel versions are never used twice.
* A merge without an ETag is applied once: the SDK may send it again after a server
  error (`README.md` calls the release best-effort), and the model does not. The
  acquire, which has an ETag, is resent (`AcquireResent`). A read after an applied
  release does not fail in `Spec`; `RereadSpec` adds that fault.
* A thread has one writer that goes on from the newest checkpoint, as
  `docs/architecture.md` says ("single-writer"); `Forks` drops the second half. A put
  reaches its commit marker within the grace period, `keep_last` is at least 1, and
  `delete_checkpoints_before` is given the id of an existing checkpoint, as the
  documentation describes its use.
* `BlobCheckpointer` has one namespace; namespaces share no blobs.
* In `ThreadBlobs` the attempts at a task are based on one checkpoint, and the
  collector of channel values is at rest: it deletes values only, whose interplay with
  puts and retention `BlobCheckpointer` has.
* `LangGraphApp` runs in one process with the in-memory store. With another store
  the app does the same; that store's handlers are `TableRunLock`'s. The graphs of an app
  share one checkpointer, and a graph puts checkpoints only while its handler runs it: after
  an overflow the handler releases the lock before it drops the generator of the stream,
  and the library is taken to put nothing more.
* Python runs a statement of `cosmos.py` that reads or writes one shared variable
  atomically.

## 7. Not modelled, and what is left

Not modelled, for lack of state or concurrency of their own: the Postgres and SQLite
helpers (one call of a library each); contracts, routes and OpenAPI (data classes,
wiring, generated documents); the native `state` route, search and count of both stores
and `threads/{id}/state` (they only read); names, thread ids and body sizes (one
comparison each); conversions between the protocol's and LangGraph's data.

Left for later:

* More than one namespace in `delete_thread` and in the collector's list of threads.
