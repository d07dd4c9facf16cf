# Verification of snapshotter-core-edge

TLA+ models of the Powerloom snapshotter core (`src/snapshotter/`), checked with
TLC on small instances and proved, where it matters most, with TLAPS for every
value of the constants.

## The system

A node is a set of processes that share one Redis and talk through Dramatiq
queues (also in Redis). Each of the long-running ones has an asyncio loop; the
Dramatiq threads hand messages to the loop (`handle_event` → `process_event`),
which turns most of them into tasks.

```
 anchor chain ──poll──> event detector ──queue──> processor distributor
                             │ position              │        │       ^
                             v                       │jobs    │snapshot events
                           Redis <── cacher <────────┼────────┘       │
                             ^        (queue)        v                │
                             │                    workers ──(queue)───┘
        API, CID cacher, unpinning worker            └──> IPFS, collector
```

| component | state | operations | what is hard | what makes it correct |
|---|---|---|---|---|
| event detector (`system_event_detector.py`) | position in memory and in Redis, simulation gate, shutdown flag | start, poll, fetch logs, broadcast, save, exit, restart | RPC failures, nodes that lag, crash between broadcast and save, signals inside guarded calls | no block below the stored position is lost; repeats and skips only for a reason |
| processor distributor (`processor_distributor.py`) | `_preload_completion_conditions`, task set, PRELOAD status per epoch | release an epoch, run preloaders, wait, send jobs, fan out aggregations, forward snapshot events, clean old status | tasks of two releases of an epoch sharing a dictionary, cancellation, failure between status and job | a job is sent iff its preloaders succeeded, once per release; status true; nothing leaks |
| cacher (`cacher.py`) | per project: entries of epochs, last finalized and submitted epoch, expiry index; aggregate views | submitted, finalized, batch events; hourly cleanup; task timeouts | concurrent read-modify-writes, out-of-order events, partial failures, cleanup against renewal | pointers name stored entries; entries and index agree; a batch is atomic; newest epoch wins |
| snapshot resolver (`process_snapshot_cid` in `utils/data_utils.py`) | processing flag, blank-epoch bitmap, entries | recursive resolution of previous snapshots | test-then-set flag, failure of an inner level, order of flag removal and write | history has no hole that is taken for done |
| workers (`utils/generic_worker.py`, `snapshot_worker.py`, `aggregation_worker.py`) | tasks, last submitted raw data, build and submit status | compute, commit (previous snapshots, IPFS, event, collector), report | event sent before the submission that may fail; overlapping epochs of a project; acknowledged before done | names resolve; lists have no repeats; verdicts and aggregates are earned |
| data access (`utils/data_utils.py`) | caches of finalized CIDs, first epochs, chain constants | cached reads with chain fallback, closest-epoch searches, tail epochs | stale negative answers, boundaries of searches | a cached answer was once true |
| Redis bitmap (`utils/redis/redis_bitmap.py`) | bits of blank epochs | set, get, clear, count, ranges | offset arithmetic, range read-modify-write | the set of positions |
| CID cacher, unpinning worker | set of CIDs, unpinning index | pop and cache; unpin what is due | popped before fetched; index read by rank | no CID is lost, nothing is unpinned early |
| core API (`core_api.py`) | none of its own | reads, chain lookups | reads between two writes | — |
| auth service (`auth/`) | users, key sets, call counters | create, add and revoke keys, count, reset | reset against concurrent counts | a call is counted |
| health (`health_ping.py`) | timestamps per host | report, check | reporter outliving or missing what it reports | a live worker is reported |

`PROJECT.json` lists every component with its status, and under `hazards` the
places in the code where things are hard to test.

## Modules

| module | what it is |
|---|---|
| `EventFeed` | abstract: what the detector promises (a checkpoint never covers a block that was not settled) |
| `EventDetector` | the detector; implements `EventFeed` (`ImplementsFeed`) |
| `EventDetectorProofs` | its theorems |
| `Distributor`, `MCDistributor` | epoch releases in the distributor, and their instances |
| `DistributorProofs` | its theorems |
| `Cacher`, `MCCacher` | the cacher's events, tasks, pointers and expiry, and their instances |
| `CacherProofs` | its theorems |
| `Worker`, `MCWorker` | jobs of the snapshot and aggregation workers, and the events they send through the distributor, and their instance |
| `WorkerProofs` | its theorems |
| `Bitmap` | the Redis bitmap: a set of epochs whose ranges are read and written back |
| `BitmapProofs` | lemmas on the bitmap, for its users |
| `History`, `MCHistory` | how the finalized history of a project gets into Redis; EXTENDS `Bitmap`, whose steps are steps of its calls |
| `HistoryProofs` | the theorems of the history and of its bitmap |
| `Lookup`, `MCLookup` | what readers get: CIDs, snapshots, latest, time series, blocks by time |
| `LookupProofs` | its theorems |
| `SlidingWindow`, `MCWindow` | the aggregate views of the cacher over a window of epochs |
| `WindowProofs` | its theorems |

### EventDetector

`pc` is where the process is; each step is the code between two awaits.
`BroadcastSimulation` and `SimulationOver` are `init()`. `Poll(c)` is one
iteration of `_detect_events` up to the fetch, for an answer `c` of the RPC
node: reading the position from Redis if there is none in memory (`Resumed`),
sleeping when nothing is new, jumping ahead when it is `CatchUp` (10) blocks
behind (`ScanAfter`). `FetchEvents` and `FetchFails` are `get_events` and its
handler, both with the epoch marker it writes in Redis (`NoteEpoch`).
`Broadcast` enqueues the events of one block if the gate is open,
`BroadcastDone` and `Save` store the position in memory and in Redis. The exits
are `Crash` (kill, or an exception nothing catches), `SignalExit` (the position
is stored by `redis_cleanup`) and `SignalSwallowed` (the exception of the
signal is caught by the handler of a guarded call).

The events of a block travel together, and a failed poll is a stuttering step.
`copies`, `skipped`, `restarts` and `rewinds` are history variables, and
`EpochBlocks` are the blocks that release an epoch. `MarkerIsCurrent` is about
the marker of the newest epoch, which Redis announces to others: it is written
before the range it comes from is broadcast. A signal
that interrupts the guarded part is modelled at the places where the handler
catches it; what the cleanup's own `run_until_complete` may still execute of a
pending coroutine is not modelled. Logs are taken to be complete for a head the
node reports, and the chain does not reorganise: the code has no way to see
either.

### Distributor

One index `n` stands for one `EpochReleased` message and the tasks it creates.
`HandleRelease` is `process_event` with `_epoch_release_processor`: it only
creates tasks. `Distribute` is the task of a project without preloaders,
`ExecPreloaders` replaces the coroutines of the epoch in
`_preload_completion_conditions` (`conds`), and the waiter goes through
`WaiterStart` (which reads them, and creates an empty entry if they are gone),
`ResultsIn` (the gather), `Serve` or `Refuse` per project, and `WaiterEnds`.
`WaiterFails` is an exception or the cancellation by `_cleanup_tasks`, at the
gather or at the write of a status, which may or may not have been applied: the
job of a project is enqueued only after its status. `decided` is a history
variable, the projects each waiter has itself served or refused; by the counts
of an epoch alone, one release could hide that another hangs.
`Forget` deletes the status of epoch `e - Keep`.

The outcome of the preloaders of a release is one set, chosen when the gather
returns. Coroutines held by two waiters are awaited twice, and may raise in
either, so the outcome is arbitrary there too. The fan-out of aggregations and
the forwarding of snapshot events are in `Worker`.

### Cacher

A task is a slot `t` with its message `job[t]` and a place `step[t]`; the reads
(`ReadSubmitted`, `ReadFinalized`, `ReadBatch`, one per project of the loop)
are separated from the write of the pipeline (`WriteSubmitted`,
`WriteFinalized`, `WriteBatch`), because the loop runs other tasks in between.
A pipeline is a `MULTI`/`EXEC` transaction, so one step. `TaskFails` is any
exception or a timeout. `LookupStart`, `LookupAnswer`, `LookupWrite` are
`get_project_last_finalized_epoch`, run by the workers and the API against the
same key. `ResolveWrite` is what `process_snapshot_cid` writes into the same
entries, and `CidStart`, `CidEnds`, `CidWrite` and `CidCutShort` are
`w3_get_and_cache_finalized_cid`, of the entries in `fetching`: it answers with
its own entry and those its snapshot lists, which may be any of the project
(`Siblings`), and when reading the list or setting bits fails, its handler
executes what the pipeline holds by then, the HSETs without their ZADD. The
entries have the status "answer" or "half" accordingly. `ListExpired`, `DeleteExpired`, `CleanupFails` are one round of
`_cleanup_expired_project_data`. Time is the passage of an entry from "fresh"
to "due".

`best`, `raced`, `absent`, `sent` and `published` are history
variables: `raced` holds the projects for which two read-modify-writes of the
last finalized epoch overlapped, `absent` the entries that were cleaned up or
are known from the chain alone.

Not modelled here: the aggregate views that a submitted event may start (they
are `SlidingWindow`), the unpinning index, the per-epoch state updates of the
same pipelines.

### Worker

A job is a project type and an epoch; `stage[j]` is where its task is, between
two awaits that matter. `Take` is `handle_event`, which creates the task and
returns, so that the message is gone from the queue when the task begins;
`Skip`, `ComputeNothing` and `Compute` are the ways `compute` may end. For each
project `_process` calls `_commit_payload`: `Build`, `ReadRaw` / `ReadNoted` /
`ReadFinal` (the branches of `_get_last_snapshot`), `Upload` with the
announcement to the distributor or `UploadFails`, `Send` or `SignFails`, and
`Record`, the pipeline with the verdict. `Dies` is the end of a task for any
other reason. `Forward`, `FanOut` and `HandlingFails` are the distributor's side
of the two events. A snapshot stands for its CID and holds its list of
predecessors, which `Chained` makes from the one of the last snapshot.

The job of an aggregator names the base type it comes from, so the queue is a
set: two base types give two jobs, as in the code. What a snapshot says beyond
its predecessors, the attempts of an upload, and the proto of the collector
stream are left out.

### Bitmap and History

`Bitmap` has the string as the set of its positions. `SetBits` is one pipeline
of SETBITs; `SetBitsInRange` reads the bytes of its range, and `WriteBack`
writes them, which may undo what others did in between; `Scattered` is the test
for falling back to single bits. `GetRange` and `GetBitsInRange` do the readers'
arithmetic on bytes that may be fewer than were asked for.

`History` is one project. Each caller has one call in hand, at a step between
two awaits. `Ask`, `Own`, `OwnBack`, `Store` are
`w3_get_and_cache_finalized_cid`; `Exists`, `SetFlag`, `Mark`, `Back`,
`Descend`, `Unwind`, `ClearFlag`, `Last` are `process_snapshot_cid`, whose
recursion is the stack `path`; `Walk`, `Refresh` and `Bulk`, `BulkBack`,
`BulkStore` are the two bulk forms. The chain moves on by itself (`Release`,
`Conclude`). A call may raise at any Redis operation (`OwnFails`,
`ProcessFails`), its process may stop (`Crash`), an entry may be cleaned up
(`Expire`) and the flag may expire. `judged` and `forgotten` are history
variables that say which epochs the code gave up or lost.

What a snapshot of an epoch lists (`ListsOf`) may be any sequence of epochs, in
any order, earlier or later, its own among them, and different from node to
node; of a snapshot that is read, only that it lists what was released by then
(`Fetched`). What a list leaves out between its first epoch and its snapshot
(`LeftOut`) gets bits. `NoHoles` says that this is enough: whoever is done with a
list leaves no epoch in that range of which Redis knows nothing. The bound on
the recursion, which a list of one's own epoch runs into, is in `TypeOK`.

### Lookup

A request is one step, and so is everything between requests: it is the order of
finalizations, late events, submissions, cleanups, cached answers and requests
that varies. `request` and `answer` hold the last request, so that properties
relate an answer to the state it was given in. What is computed is taken apart
into the operators the code has as functions (`Collected`, `Valid`,
`AskedBatch`, `FetchedOf`, `Steps`, `FetchRange`). The lists of a bulk read are
the sequences that put a set of pairs in the order of its epochs (`InOrder`):
the code sorts once and filters what it has sorted.

Of an epoch Redis says nothing of (`Unknown`: no entry and no blank bit) a bulk
read finds something out by its walk: `Walks` are the ways it may go, and give
each such epoch one of the `Findings`. It was asked of the chain, with a snapshot
that could be read or could not ("asked", "broken"); or lists that were read
before its turn name it ("named"), leave it out ("left"), or one does and
another does not ("both"): then it has an entry and a bit, and the walk answers
it twice, a null and a CID (`Twice`). A single read of an epoch, a series or the
latest snapshot has the same outcomes of its own lookup (`FinalizedCid`,
`Asking`). `LeaveOut` is a list read by somebody else.

The CIDs are then cut to the interval by their number (`Valid`), so that each
double answer pushes one out at the end. `BulkIsAligned` says that this is all
that can be missing: what a bulk read answers is in the order of the epochs,
within the interval and, if it must be, complete, and every epoch with an entry
or a finalized snapshot up to as many epochs before the end as were answered
twice is there, but for those that are blank without an entry, that a list
leaves out or whose snapshot could not be read.

### SlidingWindow

One view of one project, computed by tasks that run concurrently under the
processing flag: `CheckFlag` and `SetFlag` are two steps, as in the code, then
`ReadLatest`, `ReadCached`, `Fetch` and `Write`. The three handlers differ in
two ways, which `kind` tells apart: volumes are computed in full when there is
nothing to start from and have their predecessor deleted; frequencies are only
updated, expire, and leave the flag behind when there is nothing to update.
`disturbed` is a history variable: the cases in which a view may be wrong, each
of them written where it happens. `Counted` is what a late snapshot disturbs:
the epochs up to the latest index, up to a view that is stored, up to a view
some task has read and will start from, or up to one it is about to write.

## Runs

| run | question | instance | result |
|---|---|---|---|
| `event_detector` | are events lost, repeated or skipped for no reason; does the detector implement the feed; does every block settle | 4 blocks of which 3 release an epoch, jump at 2, nodes 1 behind, 2 exits, 1 rewind | holds |
| `event_detector_signal` | does a signal end the process | same | violated: finding |
| `distributor` | are jobs earned, the status true, the conditions of epochs kept apart | 3 projects (0, 1 and 2 preloaders), 2 epochs, 2 releases | holds |
| `distributor_repeats` | do three releases of one epoch get along; does each of their waiters decide all its projects | 1 project, 1 epoch, 3 releases | holds |
| `cacher` | do concurrent events, lookups and cleanup keep entries, index and pointers consistent | 2 projects, 2 epochs, 2 tasks, 4 messages of which 2 are sent | holds |
| `cacher_expiry` | are index and entries consistent with CID lookups that may fail half way; do expired entries go | 1 project, 2 messages of the same entry, which is also looked up | holds |
| `cacher_last` | may the last finalized epoch go back | 1 project | violated: finding |
| `cacher_cleanup` | does the cleanup remove only what expired | 1 project | violated: finding |
| `worker` | do names resolve, lists stay free of repeats and within their bound, verdicts and aggregates follow from work done; does every job end | 1 base type, 1 aggregator, 2 projects, epochs 0 and 1, 2 tasks at a time, lists of 2, 2 lost jobs, 2 foreign snapshots | holds |
| `history` | does the bitmap keep what is set, do its readers agree, is an epoch with data only hidden for a reason, do lists leave holes, does every call end | 3 epochs, one snapshot listing its own, 2 calls at a time, bytes of 2 bits, 1 fault | holds |
| `lookup` | do bulk answers have what they should whatever their walk meets, is a series spaced, is a block on its side of the time | 3 epochs, 4 blocks, 2 requests, 1 bit between them | holds |
| `window` | is a view the sum over its window | 5 epochs, window of 4, 2 tasks, 3 messages (frequencies: 2) | holds |

Bounds. In the detector, 4 blocks with a jump distance of 2 let the jump, the
exact distance and the ordinary range occur, before and after each of two
exits; a second exit is what meets a position stored by the first.

In the distributor two releases are enough for every overlap of two waiters, of
the same or of different epochs; the run with three has the case where a third
release meets what two others left, of one project with one preloader. `Keep`
is 1 so that the cleanup of an epoch meets its waiter, which the code's 30 only
makes rarer.

In the cacher the overlaps are between two tasks, a lookup, a resolver and the
cleanup; two epochs are enough for an order to be wrong, and two projects for a
batch to be half applied. The tasks are interchangeable (`TaskSymmetry`, safety
run only), and the entries of the first project, which is there only for the
batch, never come due (`MCStay`): those of the second meet the cleanup. The CID lookups are in `cacher_expiry`,
where events, resolvers, lookups and the cleanup meet on one entry
(`MCSameTraffic`, `MCFetched`); the other runs leave them out (`Fetched = {}`),
since they touch no pointer.

In the worker, the job of epoch 0 is the simulation, which an aggregator skips,
and the snapshots of other nodes fill the lists, so that with two entries (the
code has 200) a list is cut; two running tasks are all that can overlap for two
epochs of one base type and one aggregator, which waits for the base type and
skips the simulation.

In the history, two calls meet in one byte of the bitmap (epochs 2 and 3 share
a byte, 1 is in the one before; of the two fallbacks to single bits only that
of the readers occurs here, that of the writers needs a longer range and is
covered by the proofs), the third epoch lists the first and leaves the second
out, the status of the first comes after the epoch is late, and a recursion of
depth one reaches it. The snapshot of the second was made too late to be
finalized and lists its own epoch, so that the recursion meets it again until its
bound. `Reads` and `Intervals` are what the calls ask for: alone the epoch
without a finalized snapshot, and intervals of two and three epochs, of which
fewer are missing once entries or bits tell of the others.

In the lookups a batch of two makes three CIDs too many, the two requests are
one that leaves something behind and one that meets it; blocks 1 and 2 have the
same time, there is a pause on either side of them, and a block time that is
not whole seconds is truncated. `MCApart` explores blocks and epochs apart,
which share no variable: no request reads both. It also has requests begin with
at most one bit and one cached snapshot, and the second one with at most two
epochs that have data; what a request leaves is checked without these bounds, and
three epochs are enough for one of them to be answered twice, one to be pushed
out and one to be read. `MCView` leaves request and
answer, which no step reads, out of what tells two states apart: the properties
are of steps, and every step is checked.

In the window the values are powers of two, so that no two sums are equal, the
fifth epoch is the first to push one out, and two epochs in the middle of the
window may be missing: one that is late for the view a task holds and one that
comes after it. Frequencies have a view to start from with no message at all,
and views and indexes that expire (`MCMessages` leaves them two messages). Once
a view is disturbed `ViewsAreExact` says nothing any more, and nothing undoes
that: what comes after is only explored for volumes, whose type says more.

The proofs have none of these bounds.

Fairness. The detector's loop never stops by itself, so its own steps are
weakly fair; polls and fetches may fail for ever in a row, so progress needs
strong fairness: a node that is asked again and again answers with the true
head, and with its logs, again and again. `SignalEndsProcess` is violated under
this same specification, so the counterexample is not a process that merely
idles. The distributor's ready tasks are run by the loop, and a gather returns
or is cancelled by the timeout. The cacher's cleanup loop runs for ever and
swallows errors; not every one of its attempts fails. A worker's loop runs each
of its tasks that can go on, and its attempts are bounded, so starting and
advancing a job are weakly fair, job by job; its queue and the distributor's
are consumed. Losing a job (`Dies`) is not fair, and for `JobsEnd` a lost job
has ended, because nothing takes it up again. In the history every call of
Redis, IPFS and the chain returns or raises (all have timeouts), so the next
step of a call is weakly fair; faults are not. Nothing else is assumed.

`CHECK_DEADLOCK FALSE` is set where the system may really come to rest: in the
cacher, the window and the lookups when the bound on messages or requests is
reached and nothing is under way; in the worker when every job is over and every
event handled; in the history when every call has returned and the chain is at
its last epoch.

## Findings

- A termination signal that arrives while a guarded call runs is caught by its
  `except Exception` and treated as a failure of the call; a second signal is
  ignored (`event_detector_signal`).
- "use max of current and new" is a read and a later write: overlapping
  finalizations move the last finalized epoch back (`cacher_last`). What does
  hold, `LastFinalizedTracksMax`, needs that no two of them overlap.
- The cleanup deletes what it listed before an await, though it was renewed in
  between (`cacher_cleanup`).

## Observations

Behaviours the models have because the code has them, which no document
contradicts; they explain the conditions in the properties.

- Workers: the message of a job is acknowledged when its task is created, so a
  worker that stops forgets the jobs it had begun. A failed upload leaves no
  status behind, and a collector stream that ends counts as success. A node that
  is late may list its own epoch as a predecessor, finalized from another
  node's snapshot, and later ones; if such a snapshot is resolved before its
  entry is stored, the recursion begins with a snapshot of that same epoch, down to
  `MAX_RECURSION_DEPTH`.
- Cacher: a CID lookup that fails between its HSET and its ZADD
  (`data_utils.py:437-441`) leaves an entry without an expiry, which the cleanup
  never finds; it stays until somebody writes it again. `EntryHasExpiry` says that
  nothing else does.
- History: an epoch with a finalized snapshot can read as blank for good: its
  own bit is set before its entry is stored, and the entry may expire or its
  writer may stop; the chain's status may come later than the ten epochs the
  code waits; the lists of others leave it out. This is what `NothingIsHidden`
  enumerates. The processing flag does not exclude: it is tested and set in two
  calls, it goes before the last pipeline runs, and early returns leave it for
  its 600 seconds.
- Bitmap: bits set by another client between GETRANGE and SETRANGE are lost;
  `BitsStay` says these are the only ones.
- Lookups: an epoch that gets a bit and an entry while a bulk read walks is
  answered twice (`data_utils.py:575-591`), and as many epochs are lost at the end
  of the interval, since the CIDs are cut by their number. With `ensure_complete`, more missing CIDs than a batch holds raise a
  KeyError, since the list of missing ones is overwritten after the first batch;
  a cached `{}` counts as complete ever after. The latest snapshot is that of
  the epoch submitted last, and none if that epoch is not finalized. The block
  time of the chain is truncated to whole seconds. Block 0 passes for none.
- Views: a task that finds a later epoch indexed copies the later view to its
  own epoch and moves the index back; one that has read a view misses a snapshot
  that comes before it writes, though the view has expired since; a repeat of the last epoch deletes the view
  it has just written; the flag of a frequency view stays for its 600 seconds
  when there is nothing to start from.

## Proofs

The constants are arbitrary within the named assumptions (`DetectorAssumption`,
`DistributorAssumption`, `CacherAssumption`, `WorkerAssumption`,
`SnapshotAssumption`, `BitmapAssumption`, `ClosedIsNoRange`, `NumbersAreValid`, `HistoryAssumption`,
`LookupAssumption`, `WindowAssumption`).

The library's induction theorems take a predicate as a parameter, which the
provers here cannot instantiate. Where data needs an induction (sums, sorted
lists, the recursion of a series, ends of sets of numbers) it is done by way of a
minimal counterexample: the cases that fail are a set, and `WFMin` gives a
minimal one of it in a well-founded order.

`EventDetectorProofs`. `AtLeastOnce` is not inductive: what is stored on a
signal is the position in memory, so that must be covered as well, and it is
only covered by what the iteration has broadcast so far. The inductive
invariant `PositionInv` is the conjunction of `TypeOK`, `AtLeastOnce` and

- `OnChain`: positions and ranges lie on the chain;
- `CursorSettled`, `FloorSettled`, `CastSettled`: every block below the
  position in memory, below the start of the range, and of the part of the
  range broadcast so far, is settled;
- `GateOpen`: the simulation is over whenever a range is broadcast;
- `SavedBehind`, `AtHome`: how the stored position relates to the one in
  memory, and what is reset at an exit.

`TypeCorrect` and `CheckpointCoversSettled` follow. `MarkerComesFirst` is a
matter of order, not of what is settled: its invariant `MarkerInv` adds
`HeadAlone` to `MarkerIsCurrent` (without a position only the head is scanned,
and what is below is given up), and `NoteAnnounces` shows that the fetch, which
makes a range one to be broadcast, leaves no newer epoch in it.
`RepeatsAreBounded` adds `RepeatInv`, which says how many copies a block that
was not yet reached can have; `DetectorImplementsFeed` shows that each action
is a step of `EventFeed` or a stutter under the refinement mapping.

`DistributorProofs`. `TypeOK` needs `Handled`: a release that has a place was
handled and has an epoch, so the conditions are only read at an epoch.
`ConditionsOfOneEpoch` needs `StartsLate`: while a waiter has not read its
conditions, they are gone only if another waiter of the epoch is (the lemmas
`PlacesKept` and `AnotherStaysGone`: such an end stays in sight).
`NoEntryLeftBehind` is inductive, because only `WaiterEnds` brings a release to
its end and it drops the entry of its epoch (`OverDrops`). `JobsAreEarned`
counts releases whose preloaders succeeded, which says nothing of whether they
were already served: the inductive `SentOnce` counts those that have also spent
their job (`Used`), a set that only grows (`UsedGrows`) and that the sender of
a job joins (`SenderSpends`).

`CacherProofs`. `EntryHasExpiry` is inductive with `TypeOK`: each action has
one of five effects on the entries, and the lemma `EntryEffects` says which.
A half-written answer is the only one without an expiry: the lookup that fails
half way is an effect of its own. The pointers need `PointerInv`: a task carries the epoch it has read to its
write, so that must name a stored entry too (`FinalizedPointerSound`,
`SubmittedPointerSound`). `LastFinalizedIsNewest` needs `ShapeInv` (what the
place of a task says of what it has still to read) and `TrackInv` (without
contention at most one task has read the last finalized epoch of a project and
not written it, and what it has read is still what is stored).

`BatchesAreAtomic` is about what Redis holds: `BatchInv` says of each entry that
has the status of a batch that some published batch is `Applied`, in all of its
projects. Only the pipeline of a batch writes such an entry (`SequencedBy`), it
applies the batch (`WriteBatchApplies`), and what was applied stays so but for
the cleanup (`AppliedForEver`); that the last finalized epochs are as far comes
from `LastFinalizedTracksMax`.

`VerdictsTrue` of `DistributorProofs` says of the only release of an epoch what
it has sent so far by the place of its waiter (`Decides`): before the waiter has
its results nothing, and at its end the status and the job of every project go
together. A waiter that fails may leave a status without a job, never a job
without its status. `Unreleased` (an epoch without a release has neither) and `Begun` are
what the steps of other releases leave alone.

`WorkerProofs`. `Base` is `TypeOK` with `Located` (what a job holds, by its
stage) and `Names`: everything announced, sent, recorded or listed is stored;
that gives `NamesResolve`. `Flow` adds that a completion is announced once and
that no job of an aggregator exists while its base is pending
(`AggregatesAreEarned`). `Verdict` says of each status, payload and outcome what
was stored or sent for it (`VerdictsAreEarned`). `Chains` has the reason why
lists have no repeats although several jobs of a project overlap: a job stores
the snapshot of a project once (`StoredOnce`, `Settled`), so what it read before
cannot hold it, and `ChainedProper` shows that extending such a list and cutting
it keeps it proper (`ChainsHaveNoRepeats`).

`BitmapProofs` has the lemmas on the bitmap that hold for whoever uses it. The
invariant `BitmapInv` is type correctness, `NothingInvented` (a bit was set by
someone), `BitsStay` (it stays unless a writer had its byte read at the time) and
`ReadsHold`: what a caller has read of its bytes is what is in them, but for bits
that are raced. `ReadersAlwaysAgree` and `RangeHolds` are about the arithmetic of
the readers, with the least and greatest position of a set taken from
well-founded induction (`LeastOfNaturals`). `StepForClaims` carries a claim about
every bit from the steps of the bitmap to those of its user.

`HistoryProofs`. `Base` is `TypeOK` with every call `Proper`: typed, at a place
its list agrees with (`Placed`, `Listed`), with the frames of its recursion
(`Framed`) and no deeper than its bound (`Shallow`). Each
step of a call is a `Turn`: it keeps the call proper, and what the call has still
to store stays pending, is stored, or is entered as forgotten. `SetsExcused` says
that each bit a step sets belongs to an epoch without data or with one of the
excuses, and `Accounted` that this is so of all bits there are; with `BitmapInv`
that gives `NothingIsHidden`. `ListsLeaveNoHoles` needs `Marked`: every frame that
has a list has asked for the bits its list leaves out, or has them in the range it
is about to write back (`MarkMarks`, `FramesStay`); what was asked for is set or
raced (`BitsStay`), and the list itself is stored in the step that leaves it. It
assumes nothing of the lists.

`SkipsAreOld` is an action property: it needs only `TypeOK` and that `GivenUp` is
bounded by the jump (`GivenUpAreOld`).

`WindowProofs`. That a fold over a set of epochs is a sum takes two of those
inductions: an additive function on the sets of epochs exists
(`AdditiveExists`, by the number of epochs), and it is what the fold computes,
whatever element it picks first (`FoldsAgree`, by the set). What tasks use of it
is `WindowMoves`: the sum over the window of a later epoch is that of an earlier
one, plus what came in, minus what fell out, if the two overlap. `TypeOK` needs
`WindowInv`: a task is `Sound`, it starts from a view its window overlaps
(`Founded`) and has a total at the write. `ViewsAreExact` needs `ExactInv`: as
long as nothing disturbed the views, each task is `Precise`, what it has read is
the sum of the epoch it has read, and what it will write is that of its own,
though the flag lets two of them overlap. An earlier `Counted`, without the views
that tasks have read, was not inductive: with a window of four a task could read
a view, the view and its index expire, a snapshot within it come late, and the
task store a sum without it, undisturbed. TLC finds that since the window is that
large.

`LookupProofs`. `TypeOK` is inductive. `WhoAnswers` reduces each action property
to the one action that serves its kind of request. `BulkIsAligned`: what can be
sorted has a sorted list (`SortExists`, by the set of pairs), which is what
`InOrder` finds by counting what is before a pair (`InOrderSorts`), and it holds
each pair once (`Enumerated`). So `CollectedAre`: the list of CIDs is the pairs of
the walk in order, and `Places`: a pair stands at most as many places behind that
of its epoch as epochs were answered twice, since what is before it are pairs of
earlier epochs, one each but for those. The cut by number then keeps each CID that
is that far from the end (`ValidShape`). That a complete answer has every epoch is
counting: as many increasing numbers as an interval has are that interval
(`Consecutive`). `SeriesIsSpaced`: the
recursion that goes back in steps has one solution, a descent that ends at the
first epoch (`DescentIsUnique`); those taken are its first ones (`TakenAre`), one
step of whole epochs apart (`Spaced`). `BlockIsClosest`: a closest block
exists if any block is on that side (`ClosestExists`), and who has it among the
blocks known finds one of its time (`ClosestSame`).

What the liveness properties rest on is proved without their fairness, as
ranks that fall:

- `ReleasesGetOn`: a release passes a project or goes to its next place
  (`Follows`), never back; `EndsDecided`: at its end each project has a job or a
  refusal of the waiter itself, which passes no project undecided
  (`PassedAreDecided`).
- `JobsGetOn`: a job takes up another of its projects, of which none is added,
  or gets on with the one it has (`Height`).
- `CallsGetDone`: a call has fewer epochs missing, or fewer steps left for the
  epoch in hand. `Rank` counts them: the snapshot processed on the way to an
  epoch before its own, and in each of them what the recursion may still descend
  to (`StepsLeft`). It needs `OnEpoch` (the epoch in hand is a missing one, so
  that its answer makes them fewer) and `AtEnd` (the outermost call clears the
  flag). `RangesHeld`: a call that is to write a range back has one open.

So every invariant and every action property of the passing runs is a theorem,
and the refinement of the feed as well. Model-checked only is liveness itself
(`EveryBlockSettles`, `EveryReleaseIsDecided`, `ExpiredEntriesGo`, `JobsEnd`,
`CallsEnd`): its fairness is stated with `ENABLED`, which the prover cannot
reason about.

## Not modelled

- IPFS unpinning worker: its pass reads the index by rank and unpins what it
  read; nothing else writes what it decides on, so a model would restate two
  calls. (Its docstring speaks of scores up to now; ranks select all.)
- Auth service and rate limiter: users and counters behind one HTTP process,
  each handler one or two Redis commands on its own keys.
- Health reporting: a timestamp written by one process and read by another.
- Core API: its handlers are the lookups of `Lookup` and `History` with checks
  of their parameters; the endpoints that only return configuration, the state
  of an epoch or cached lists of tasks keep no state. `/time_series` reads a
  pool of the application state that is never set, so the calculation behind it
  is modelled as the function it is.
- Data access: what only formats (metadata of pairs, tokens and prices), the
  state-update keys of the reports, and IPFS and RPC clients themselves, which
  appear as outcomes.
- Configuration, models, Redis pool and keys, logging, slot check, generated
  code, deployment files and scripts: no protocol state.

## Plan

Left, in this order:

1. `Node`: one composition of detector, distributor, worker and cacher through
   their queues, with bounds small enough for TLC; today each model has the
   others' messages as inputs.
2. Interleaving of `Lookup` requests with each other; today it is in `History`
   for the finalized CIDs only.
3. Proofs of what the two would add: the invariants of the parts carry over
   where their inputs are those the others produce.
