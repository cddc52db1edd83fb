# A verification of distributed-software-architecture

The repository collects small systems, one per architecture. Some are a list in
memory behind a handful of synchronous handlers; others have the behaviour that
makes distributed software hard: an offline-first mobile feed, an order saga
across services, two ingestion pipelines, a PWA with its service worker. This
development models them all but for what has no state worth a state machine,
checks the models with TLC and proves their central invariants with TLAPS.

Paths below are relative to the repository's root; `offline-cache` stands for
`mobile-architecture/offline-cache/src`.

1. [Inventory](#inventory)
2. [Offline feed](#the-offline-feed), [image cache](#the-image-cache)
3. [Order saga](#the-order-saga)
4. [Ingestion](#the-ingestion-pipelines)
5. [Servers of one process](#servers-of-one-process): library, accounts, tasks
6. [Browser demos](#browser-demos): notes, service worker, movie search
7. [All runs](#all-runs), [all theorems](#all-theorems)
8. [Divergences](#what-the-code-says-and-does-not-do), [not modelled](#not-modelled)

## Inventory

| System | State | Operations | What is hard | Status |
|---|---|---|---|---|
| Offline feed (`offline-cache`) | tables posts, outbox, sync_state; image files; the lock and flags in memory; the server's posts | tap, sync (push, pull), expiry at launch, clear, triggers; the screen's query and downloads; server: feed, like, delete, publish | taps and triggers during a sync, kills between statements, lost answers, retries with backoff, a delta protocol with a cursor, expiry | modelled, the screens without their rendering |
| Image cache (`offline-cache/data/images`) | files, manifest, items, downloads in flight | ensure, drop, clear, evict, reconcile | manifest behind the files after a kill, eviction under a budget, parallel downloads | modelled |
| Order saga (`backend-architecture/microservices`) | orders; stock and its read model; the event stream with a consumer group; the view a gateway is merging | place an order: reserve, authorise, compensate, confirm, publish; consume; the full view | timeouts after the fact, failing compensations, at-least-once events, restarts, a view read at two moments | modelled, without the queries of the read model |
| Batch ETL (`data-architecture/data-ingestion/batch-etl-rabbitmq`) | queue, buffer, flushes under way, totals | publish, consume, flush, load, acknowledge, shut down | a worker that ends between load and acknowledgement; flushes that overlap | modelled |
| Streaming ELT (`.../streaming-elt-kafka`, `.../sql`) | topic, offsets, raw table, rollup | produce, insert, commit, transform | redelivery, transforms that overlap | modelled |
| Library (`backend-architecture/3-tier-architecture`) | books, members, loans | create, change, delete, borrow, return | sequences of legal calls across three tables, updates refused half way | modelled |
| Accounts (`backend-architecture/DDD`, `clean-architecture`) | accounts | open, deposit, withdraw, transfer; credit, debit, limit | a transfer that fails half way | modelled |
| Task servers (`backend-architecture/APIs-strategies`, `MVC`, `MVVM`) | tasks, the next id; for WebSocket what each client has seen; for gRPC the calls under way | create, change, delete, list | absent and null fields, ids used again, snapshots against broadcasts, what the wire keeps of a message | modelled |
| Offline notes (`frontend-architecture/pwa-offline-demo`) | notes in IndexedDB and in the page; the worker's registration and caches | open, edit, synchronise; deploy, install, activate, fetch | calls that overlap at every await, two workers at once, stale caches | modelled |
| Movie search hooks (`frontend-architecture`: clean, modular, feature-sliced) | query, debounce, requests, list | type, submit, answer, fail | answers out of order | modelled; the pages around the search are not |
| Everything else | - | - | single-step handlers, rendering, configuration, scripts | [not modelled](#not-modelled) |

What makes each of them correct is stated in its section under *Properties*. The
systems interact within a row of the table only: the feed calls the image cache,
the gateway and the orders service call the catalog, the pipelines share a
database but no table, the notes page fetches through the service worker. The
models are composed accordingly: `Gateway` runs on top of `OrderSaga`; the
feed knows of the cache which posts have a thumbnail; and `Notes` takes for what the worker
may answer whatever is or was deployed.

`PROJECT.json` lists every component with its sources, and every hazard of the
code at the line where it bites, with the properties that would notice it. One
hazard has none: a restart of the catalog reseeds its stock under confirmed
orders (`catalog-service/app/main.py:52`). The demo keeps everything in memory
on purpose, and what is claimed of its stock is claimed up to the first restart.

### How the modules are written

A module's variables are the program's state; an action is a handler, or the part of
one between two points where the code gives way. Variables under *history* are read by
no guard; they remember what a property needs.

An operator introduced by a comment `Slip:` is a mistake somebody could make in
the definition that follows it. No specification uses one; each shows that a
property notices the mistake when it takes that definition's place.

Systems that share nothing are explored in one run, each by itself: a variable
(`system`, `pipeline`, `app`) of `MCServices`, `MCIngestion` and `MCFrontend` says
which of them moves, and the others stay at their start.

## The offline feed

A client keeps the newest posts of a server and the likes its user makes while
offline. A tap writes a row to the **outbox** and never waits. **Sync** first
pushes the rows that may be sent, one request each, then pulls what changed
since a **cursor** and merges it into the posts. Four triggers start a sync:
the app opens, returns to the foreground, gets its connection back, or a
periodic task fires; so does every tap. The promise of the sync that is under
way is the lock: further calls are dropped.

### Modules

| Module | Stands for |
|---|---|
| `Outbox` | `domain/outbox.ts`: readiness and backoff, refusals, compaction, orphans |
| `Post` | `domain/post.ts`: the like state shown, the delta merge, expiry |
| `OfflineFeed` | `sync/syncEngine.ts`, `sync/triggers.ts`, `sync/connectivity.ts`, `data/repository/feedRepository.ts` and `useFeedView.ts`, `data/local/*`, `data/remote/*`, what the screens set off, which files the image cache holds |
| `OfflineFeedProperties` | what the feed promises |
| `MCOfflineFeed` | instances for TLC |
| `OfflineFeedProofs` | proofs: types, the lock, the order and the upkeep of images, what pending rows make of a post |
| `OfflineWriteProofs` | proofs: no write lost, attempts spent by refusals only, likes counted once, what was asked is shown and reaches the server, nothing behind the cursor, the newest posts after a sync |

### State

The tables are sets of rows. `posts` holds `LocalPost` rows (schema.ts), with
`cachedAt` as an age; `outbox` holds `OutboxEntry` rows, whose id stands for
`createdAt` too, and whose `lastAttemptAt` is an age as well; `cursor` is the
one row of `sync_state`. `thumbs` is the set of posts with an image file, and
`warming` those whose image the screen has being fetched. Images are alike, so the
budget is a number of them (`ImageBudget`), and which are the least recently used is
left open: `EnforceBudget` gives every choice (`ImageCache` models the order).
`running` is `SyncEngine.running`, `run[r]` where each execution of `run` is and
the local variables it holds there; `app` says whether the process lives;
`server` and `now` are the server's posts and the clock both sides read.
Ages are capped where no rule can tell them apart any more, which keeps time
from making the state space infinite; the clock stops at `MaxNow`, and what
happens then happens in one millisecond.

`intent`, `fate`, `requested`, `arrived`, `refusals`, `voided`, `forgotten` and `strays`
are history. They say what the user last asked, what became
of each row, and name the exceptions of the properties. A post is `voided` when
one of its writes was refused for good, orphaned, cleared, cancelled after its
request had left, sent after it was taken back or overtaken by a later row. A
post is `forgotten` when the client let it go without a tombstone (trimmed,
expired, cleared) and has not received it again. A post is a `stray` when it was dropped
while the screen had its image fetched: the download may bring the file back.

### Steps

A step is what runs between two points where the code gives way: a request to
the server or an image download, or a statement after which the process may be
killed before the next. The SQLite driver answers synchronously, so store calls
with nothing between them are one step: the reads and the writes of
`toggleLike`, of `clearAll` and of the pruning at launch. Where a kill may fall
and matters the statements are apart: the answer to a like, the update of the
post and the deletion of its row; the merge, the images, the orphans, the
downloads and the cursor. Taps and triggers may fall there too, which is more
than the event loop allows; whatever holds then holds of the code.

| `run[r].pc` | The run is at | Step |
|---|---|---|
| `push` | the start of `push` | `PlanPush`: read, delete orphans, choose the rows, send the first |
| `wait` | `await sendLike` | `AcceptLike`, `RefuseLike`, `LikeUnreachable` |
| `acked` | the acknowledgement in hand | `ApplyServerLike` |
| `applied` | the post updated | `DeleteSent`, and the next request leaves |
| `refused` | the error in hand | `RecordRefusal`, and the next request leaves |
| `fetch` | `await fetchDelta` | `AnswerDelta`, `FetchFails` |
| `merge` | the delta in hand | `Merge`; or `FetchFails` when the answer is lost |
| `drop`, `orphans` | after a merge that dropped posts | `DropImages`, `DropOrphans` |
| `ensure` | `await images.ensure` | `EnsureImages` |
| `commit` | before `setSyncState` | `SaveCursor`, and the run ends |

A call that ends in `void this.sync(...)` makes that call as part of its own
step: `Launch` (after `PruneExpired`), `ToggleLike`, `GoOnline`. `Sync` is the repository's method
around `EngineSync`, the engine's, which takes the lock. `TriggerSync` stands for the return to
the foreground, the periodic task, pull-to-refresh and the first observation of
the feed. A sync that finds the lock taken is dropped, but its outcome reads
`ok: true`, so `hasSyncedOnce` is set; the model keeps that.

What the user sees is composed twice. `FeedView` is what the hook of the screen, `useFeedView`,
returns: `ComposeFeed` over the live query `FeedQuery`, with the status `ResolveStatus`. `Snapshot` is
what the repository's `getSnapshot` gives its observers: `ComposeFeed` over the whole table, with
the status `StatusFor`. The two statuses differ while a sync is dropped. `WarmImages` are the downloads
the screen starts for what it shows and awaits nowhere, `ThumbArrives` their end. After a batch of
downloads `ensure` enforces its budget, in a run and for the screen alike, so `EnsureImages` and
`ThumbArrives` also take images of posts that are held; the batches of one run are one step. `ClearImages`
is the debug screen's button.

`Next` groups the steps by where they come from: `FeedScreen` and `DebugScreen` hold what a touch of
each screen sets off, `ServerControls` the debug screen's switches of the network and the server
(which also stand for the real network and for other users), `ScreenStep` the downloads a screen starts
on its own. The debug screen's buttons for a sync and for the images are `TriggerSync` and `WarmImages`.

What the environment may do is chosen per instance with `Faults`: `crash` (the
process is killed at any step; tables and files stay, a request in flight is
forgotten), `outage`, `error` (an error answer for no reason of the request),
`lostReply` (the server acts, the answer is lost: the case the server's
idempotence is written for, `mockServer.ts:124-127`), `download` (an image fails),
`delete` (the server deletes a post), `clear` (the debug screen's resets), and
`screen` (no fault: a screen is open that starts downloads of its own). Posts
are published in the order of their numbers.

### Properties

Writes. `OneRun`: the lock is one. `NoWriteLost`: a row leaves the outbox only
because it was carried out, taken back, orphaned or cleared, rows are unique.
`OnlyRefusalsSpendAttempts`: outages and kills never bring a row nearer to
being given up. `ShownIsAsked`: both views show the user's last wish at every
moment of a sync, also between acknowledgement, update and deletion.
`AskedReachesServer`: with nothing pending the server agrees with the user.

Reads. `CursorCoversChanges`: everything older than the cursor is in the local
rows. `SyncedUnlessForgotten`: a sync ends with the newest
posts. `HeldImagesGoForRoom`: an image is deleted after its post, or for room: a step that
takes one of a post still held leaves the budget used up. It is the order of merge and `drop` in a pull
(`syncEngine.ts:173-178`) and of rows and images in a pruning, over kills and evictions.
`NoOrphanThumbs`: and are not left behind, without kills.

Liveness. `RunsEnd`, `WritesSettle`, `FeedConverges`; the last includes that the
loading screen goes away.

### Runs

| Run | Instance | Shows |
|---|---|---|
| `offline_likes` | one post, two rows, two runs; crash, outage, error, lost reply, clear | the properties of writes |
| `offline_pull` | three posts, a feed of two, three instants, room for one image; crash, outage, delete, clear | the cursor, what a sync ends with, the order of images and posts |
| `offline_upkeep` | two posts, a feed of one, one row, three instants; outage, error, lost reply, delete, download, screen | no image is left without its post, but for strays |
| `offline_settles` | two posts, a feed of one, one row, two instants; crash, outage, lost reply, delete; with fairness | runs end, writes settle, the feed converges |

Bounds. Two rows on one post are enough for every order of a write and its
opposite, compaction, overtaking and a retry; `MaxAttempts = 2` tells a row
refused once from a dead one; a backoff of one tick tells a row that must wait
from one that may go. Three posts with a feed of two give a trim, a deletion that
makes room, and a publication. The instants 0, 1 and 2 give changes before, in and
after the cursor's millisecond. Room for one image, in all four, makes every batch push another
image out. Two runs are needed only for `OneRun`, which is
proved for any number, so the other runs have one. The symmetry of
`offline_likes` is over runs, which nothing orders, and it checks no liveness.

Fairness. Three assumptions: a run that can take a step takes one (the event
loop resumes continuations and every request settles), time passes, and the
periodic task (`config.ts`, BACKGROUND_SYNC_MINUTES; `triggers.ts:44-46`) keeps
asking for a sync. All weak: each of these actions, once enabled, stays enabled
until it, or another step of the same run, is taken, or the process is killed or
the network lost, after which nothing is owed. `WritesSettle` and
`FeedConverges` are conditional on the client staying open and online from some
moment on; `offline_settles` has no error answers, since a server
that fails every fetch keeps the feed from ever converging.

### Proofs

For all posts, bounds, retry policies and sets of faults that satisfy the named
assumptions (of the posts, only those the server starts with need be finitely many):

- `TypeCorrect`: `Spec => []TypeOK`. By induction; one lemma per group of actions
  (`PushTypeOK`, `PullTypeOK`, `UserTypeOK`, `EnvironmentTypeOK`), which rest on
  lemmas about the rules (`MergeDeltaType`, `RecordFailureType`, ...).
- `OneRunAtATime`: `Spec => []OneRun`. The invariant is inductive together with the
  types: a run's own steps keep the lock, ending lets it go, a sync takes it only
  when it is free. The other invariants rest on it: two runs with copies of one table
  could each act on what the other has changed.
- `NothingIsLost`: `Spec => []NoWriteLost`. `WriteInv` adds that ids are fresh, that a row
  is in the table exactly while its fate is `queued`, and that a run which is about to
  delete a row has it of a write the server has carried out (`CopyArrived`).
- `RefusalsSpend`: `Spec => []OnlyRefusalsSpendAttempts`. Not inductive as it stands:
  the push writes rows from copies it read earlier, so `AttemptsInv` says the same of
  the copies in `run[r].todo`, and that a run which holds a refusal in hand has one
  more refusal on record than attempts on its row (`CopySpent`).
- `CountedOnce`: the server's count follows its like state. Only `SetLike` moves them,
  and it moves both or neither.
- `NothingBehindCursor`: `Spec => []CursorCoversChanges`. A run carries the argument through
  four statements: the cursor it sent is covered by the rows, the delta in hand mirrors the server
  up to its instant or the server has changed since (`DeltaHolds`), and after the merge the
  rows cover the instant about to be stored. `CursorInv` says so for each `pc` (`RunCovered`), and
  that rows are never newer than the server's posts (`Held`); the proof has one lemma for what the
  server does meanwhile, one for each step of the pull, and one for taps and the push,
  whose updates of likes are covered by the same predicate.
- `ImagesGoForRoom`: `Spec => HeldImagesGoForRoom`. `PullInv`: what a run is about to drop
  has no row, and rows are one per post; `EvictionLeaves`: what an eviction leaves is the budget or more,
  or nothing was taken.
- `NoneLeftBehind`: `Spec => []NoOrphanThumbs` for every set of faults without `crash` and
  `clear`, the two after which images do stay, until an eviction takes them. `OrphanInv`: an
  image, or one on its way, belongs to a row, a stray, or a post that the run under way is
  about to drop.

- `ShownAsAsked`: `Spec => []ShownIsAsked`, and `AskedReaches`: `Spec => []AskedReachesServer`.
  What a screen shows is the recursion of `DeriveLikeState` over the pending rows of a post, and
  `LastRowShows` proves that it comes to what the last row asks for, whatever the others do.
  `WantedInv` speaks of every post that is not `voided` (`Wanted`): its pending rows alternate
  and all but the last have been refused before (`Alternate`), which is why taking back one row takes
  back one wish; the last asks for what the user wants (`EndsIn`); and until the first has been
  asked for, the server and the local row have the opposite of it, or what the user wants when
  nothing is pending (`StartsFrom`). `RunWanted` carries it through a push: the copies are the same
  writes as the rows, the one under way is the first of its post, and once it is acknowledged the
  server, then the local row, have what it asks for. `FirstTaken`, `LastTakenBack` and `LastAdded`
  are the three things that happen to the rows; the proof has one lemma for each step of a push
  and one for each outcome of a tap.
- `SyncedIsNewest`: `Spec => []SyncedUnlessForgotten`. From `CursorInv` the rows cover all that
  the server has; from `FeedInv` they are finitely many, of posts the server has, and trimmed.
  A row older than the newest `MaxPosts` would leave room for a newer post that is not held:
  the newest such post has fewer than `MaxPosts` above it, so it must be held after all.

All the invariants of the runs are proved; liveness is model-checked only.

### Not modelled in the feed

Other users' likes (the count of a post is what this client made of it, from
zero); ties in `createdAt`; a clock that goes backwards; the failure of a local
statement; authors, captions and URLs; the keys under which the screen memoizes its
downloads. `deletePost` overwrites the post's
`at`, since the code never reads `updatedAt` of a deleted post.

## The image cache

`OfflineFeed` knows which posts have a thumbnail. `ImageCache` looks inside
`data/images/fileSystemImageCache.ts`: files on disk, an index of them in memory, and
calls of `ensure` that overlap, since the sync (`syncEngine.ts:186`) and the screen
(`useFeedView.ts:71`) each make their own. A call fixes what is missing when it starts, then
downloads it batch by batch; after each batch the least recently used images go until
the rest fits the budget.

### Modules

| Module | Stands for |
|---|---|
| `ImageCache` | `data/images/fileSystemImageCache.ts`, `domain/eviction.ts` |
| `ImageCacheProperties` | what the cache promises |
| `MCImageCache` | instances for TLC |
| `ImageCacheProofs` | proofs: types; index, disk and downloads |

### State and steps

`items` is the index (key to size and last access), `files` the directory, `inFlight` the
keys being fetched. `call[c]` is one execution of `ensure`: the keys of later batches
(`rest`), those of the batch (`batch`), those whose download is still awaited (`left`), and
those of them the platform has already written (`arrived`). A step is what runs between
two awaits.

| Step | Code |
|---|---|
| `Ensure` | the filter of what is missing, and the downloads of the first batch up to their await |
| `FileArrives` | the platform has written the file, the continuation has not run |
| `Downloaded`, `DownloadFails` | the continuation: index and flag, or the flag alone |
| `EnforceBudget` | `planEviction` and the removals, at the end of a batch |
| `NextBatch` | the downloads of the next batch up to their await |
| `Touch`, `Drop`, `Clear` | the methods of these names; none of them waits |
| `Start` | `init`: the manifest, reconciled with the directory |
| `Crash` | the process dies: index, flags and calls go, files stay |

The manifest contributes nothing but dates once it has been reconciled with the disk, and
it may be behind, damaged or gone. `Start` therefore gives each file any date up to now.
`PlanEviction` states the loop as a set: an item goes when those before it in the order of
last access have not made enough room.

History: `torn` are the keys whose file was deleted for a second download, or removed when
it had arrived and had yet to be indexed, and not written since; `gone` those dropped while nobody
fetched them, and not begun since; `overdue` holds from a kill during a call to the next
eviction, since nothing evicts at the start.

### Properties and runs

`image_cache`: two calls that overlap in one of three images, of which two fit, with
touches, drops, clearing, failing downloads and kills.

- `BudgetKept`: the budget is exceeded by the batches under way at most. The exception
  `overdue` is the code's: a kill between a download and its eviction leaves the cache
  above the budget until the next `ensure` that finds something missing.
- `IndexedIsOnDisk`: what the index has is on disk, or torn. (The other way round is
  `DiskIsIndexed`, proved.)
- `DroppedStaysGone`: a removed image does not come back with a restart.
- `EvictsOldestFirst`: an eviction takes the oldest, spares the batch, and stops in time.
- `EnsuresEnd`: liveness.

`image_gone`: `data/images/imageCache.ts:29` says that a key has a URI, or `null` when it is
not on disk. `UriIsOnDisk` fails: a later batch of one call deletes the file another
call has fetched since the first one looked (`fileSystemImageCache.ts:149`), the download
fails, and the index keeps the key. No later `ensure` fetches it, because the index has it;
only a restart repairs it. A drop between the arrival of a file and its continuation
has the same effect.

Bounds. Three images give an eviction a choice of two besides the batch; two calls that share an
image give the second download; one download at a time (`MaxParallel = 1`) makes the
calls consist of two batches. Two dates order the accesses and leave ties, which the
key breaks. One image is twice as large as the others, so that one eviction may have to
take one or two. `CacheAssumption` asks that a batch of images fits the budget, as four
thumbnails fit 200 MB.

Fairness. Weak for each call: a download ends, well or not, and the event loop resumes what
awaited it.

### Proofs

`TypeCorrect`, `IndexIsOnDisk`, `NoFileEscapes` (every file is indexed or about to be),
`FlagsAreLetGo` (no key is skipped for ever because of a flag) and `DroppedIsGone`, for any
keys, sizes, budget and number of calls. The last four follow from `CacheInv`, which is
inductive where they are not: what is on disk is indexed or has *arrived* (awaited is too weak, since
a failing download stops awaiting), what is indexed or has arrived is on disk or torn, and what
is gone is neither on disk nor awaited.

`OldestGoFirst`: `Spec => EvictsOldestFirst`. No invariant is needed: `PlanEviction` is compared with
the property for any index, by a lemma for each of the three claims. The sums of sizes are
compared as sums over subsets of the index (`SizeOfPart`, `SumOfPart`).

`BudgetIsKept`: `Spec => []BudgetKept`. The budget bounds the index, not the disk, and it does so only after
an eviction. `BudgetInv` therefore says that the index holds the budget and, at most, what has come down in the batches
under way (`Settled`); that the index says of an image no more than its size, and just its size of
a file nobody is fetching again (`SizesInv`); that a batch is no larger than `MaxParallel`; and what a
process leaves when it is killed (`DownInv`). It assumes finitely many keys and calls (`CacheAssumption`).

Liveness (`EnsuresEnd`) stays model-checked.

### Not modelled in the image cache

Files left half written by a failing or killed download, deletions that fail
(`removeFile` ignores them), listeners, and the numbers of `usage`.

## The order saga

`POST /orders` runs a saga of two steps: it asks the catalog over HTTP to reserve
the stock and authorises the payment in process. When the payment fails the
reservation is released; when both succeed the order is confirmed and its event
added to a Redis stream, from which the catalog counts the units sold. Orders,
stock and counts live in the memory of their process. Calls to the catalog time
out after two seconds, and a breaker and a limiter may refuse them before they
leave.

### Modules

| Module | Stands for |
|---|---|
| `OrderSaga` | `orders-service/Saga.cs`, `Domain.cs`, the publisher and the pipeline of `Program.cs`; `catalog-service/app/commands.py`, `events.py`, the routes and the start of `main.py` |
| `Gateway` | `api-gateway/src/server.ts`: `GET /orders/:id/full` |
| `OrderSagaProperties` | what placing an order promises across the services |
| `MCOrderSaga` | instances for TLC |
| `OrderSagaProofs` | proofs: types, the agreement of the services, one event per order |

### State and steps

`order` is the store of the orders service, and `saga[o]` names what the
execution of `Run` for `o` does next, or the call it awaits. A call is a member of
`requests` until its server has carried it out or it is lost; `reply[o]` is the
answer that has reached the saga. Server and saga are thus independent: a saga
that has stopped waiting leaves its request on the way, and the catalog carries
it out later (`DecrementStock`, `ReleaseStock`), as Redis does with an event
(`AddEvent`). Each change of an order's status is a step, since a query may come
between.

| `saga[o]` | `Run` is at | Steps |
|---|---|---|
| `idle` | not placed | `PlaceOrder` |
| `reserve` | the call of step 1 | `Reserved`, `ReserveRefused` (409, 404), `ReserveFails` |
| `authorize` | step 2 | `Authorize`, `Decline` |
| `release` | the compensation of step 1 | `Released`, `ReleaseFails` (logged, cancelled all the same) |
| `confirm` | after the loop | `Confirm` |
| `publish` | the call of `StreamAddAsync` | `Published`, `PublishFails` (the exception leaves `Run`) |
| `over` | returned, thrown, or gone with the process | - |

A call fails in two ways. `NeverLeft`: the breaker is open, the limiter is full, the
peer is down. `NoAnswer`: two seconds have passed, whatever became of the
request, or the peer restarted with it. Polly is a library: when it refuses is left open, so
every refusal it could make is among the behaviours.

The stream keeps every event; `delivered` is how far the consumer group was given it,
`batch` what the consumer holds. `ReadEvents`, `ConfirmSale` and `Ack` are the
loop. The list of pending events in Redis is left out, because
nothing ever reads it: the loop asks for `>` only, and a restarted consumer has a
new name. So an acknowledgement that fails changes nothing anyone sees, and a
read whose answer is lost (`ReadFails`) loses its events.

`Faults` chooses what may go wrong: `timeout`, `refused`, `payment`, `lostRead`,
`ordersRestart` (orders and sagas gone, their calls go on) and `catalogRestart`
(stock from the seed, counts from zero, its calls lost). `held`, `stranded` and
`lapsed` are history: the orders whose units the catalog has taken and not been given back;
those whose reservation got no answer or whose release failed; and whether the
catalog has restarted or a read was lost.

The gateway's merged view is `view`: `ReadOrder` asks for the order, `ReadProduct` then for its
product, `Respond` ends the request, and the saga goes on in between. Other routes pass a
request on, and are a step of the service it reaches.

### Properties and run

`order_saga`: two orders of one or two units compete for the two units of one
product, with every fault.

- `StockCoversOrders`: whatever sagas overlap, stock and the units of the orders that
  go through fit into the seed.
- `StockFollowsOrders`: an order that goes through holds its stock; a cancelled one
  holds none and will not come to, unless it is `stranded`.
- `SoldIsWhatWasHandled`: the units counted are those of the part of the stream the consumer has been through, whatever
  its batches and whichever acknowledgements fail, until the answer of a read is lost or the catalogue
  restarts (`lapsed`). It says nothing of redelivery, which does not happen: `XREADGROUP` with `>`
  never reads what is pending, and the handler would count an event twice.
- `OneEventPerOrder`: and there is one of an order, after its confirmation.
- `FullViewAgrees`: an order that the merged view shows as paid or confirmed is out of the stock
  it shows.
- `SagasEnd`, `EventsAreHandled`: liveness.

Bounds. Two orders are enough for a race for the last units, a refusal, and an order
of two events in one batch or in two; with quantities one and two a refusal depends on which
came first. Two products would be two independent copies of the stock.
The catalog restarts once at most (the guard `~lapsed`): what is claimed of it is claimed up to
that moment, and a second restart starts from the same seed. Deadlock is not
checked because a system whose orders are over does stop.

Fairness. Weak for each order's saga and each order's calls, since threads
run, calls end within their timeout and services handle what reaches them; and for
the consumer's loop. Nobody is obliged to place an order, and no fault is obliged
to happen, but `timeout` lets a saga go on whatever the servers do.

### Proofs

For all orders, products, quantities, seeds, batch sizes and faults that satisfy
`SagaAssumption`:

- `TypeCorrect`: `Spec => []TypeOK`, in which stock is a natural number.
- `ServicesAgree`: `Spec => []StockFollowsOrders`, and `PublishedOnce`:
  `Spec => []OneEventPerOrder`. Neither is inductive. `SagaInv` ties, for each
  stage of a saga, the status of its order, which of its calls may still be on the
  way, whether the catalog holds its units, and whether it has an event. It says, for
  instance, that a request on its way has no answer yet, and that a saga that got its
  answer has no request left. The proof has one case per action for
  the order that moves (`OwnStep`), one lemma for the others (`Untouched`), and one for
  servers, consumer and restarts each.

- `StockIsEnough`: `Spec => []StockCoversOrders`. The catalog knows what it has taken, not
  for whom it still counts: `StockInv` says that stock and the units of `held` are the seed,
  `FlightInv` that a reservation on its way is for an order without stock, a release for one that has
  it, and that both are never on their way together. That orders which go through are among `held` is
  `ServicesAgree`.
- `CountsEachSale`: `Spec => []SoldIsWhatWasHandled`. `ConsumerInv`: what the consumer has in hand are the
  events just before the group's position.
- `MergedViewAgrees`: `Spec => []FullViewAgrees`. `ViewInv`: an order that was read as paid or
  confirmed keeps its stock for the rest of the request (`Kept`), though the orders service may forget it.

Liveness (`SagasEnd`, `EventsAreHandled`) stays model-checked.

## The ingestion pipelines

Two ways of loading orders into Postgres. In the batch pipeline a worker takes
messages off a RabbitMQ queue, buffers the valid ones and adds each flush to
daily totals in one statement; it acknowledges after the load, so a worker that
ends in between makes its successor add the same orders again. In the streaming
pipeline a consumer inserts each message of a Kafka topic as it is, by a key that
makes repetition harmless, and a transform rebuilds a rollup from the raw rows.

### Modules

| Module | Stands for |
|---|---|
| `Ledger` | what loading promises: the abstract specification of both |
| `BatchEtl` | `batch-etl-rabbitmq/publisher.ts`, `worker.ts`; RabbitMQ and the totals |
| `StreamElt` | `streaming-elt-kafka/producer.ts`, `consumer.ts`, `sql/elt_transform.sql`; the topic and the tables |
| `MCIngestion` | instance for TLC |
| `IngestionProofs` | proofs: no message forgotten, totals and rollup, both implement the ledger |
| `SumTheorems` | proofs: what a sum over a finite set is, and its least and largest numbers; used here, for the feed, the saga, the accounts and the image cache |

### State and steps

`Ledger`: `Offer` hands orders over, `Post` posts some that were, `Interrupt` admits
that the pipeline was cut short. An order is posted at most once more than there
were interruptions.

`BatchEtl`. A message is `ready`, or `unacked` and then in `buffer` or in one of the
flushes that overlap: `loading` while the statement is under way, `loaded` when it
is committed and the answer is on its way.

| Step | Code |
|---|---|
| `Publish` | the publisher's loop |
| `Consume` | the consume callback: `DropRecord` for what is not valid, `BufferRecord` else, with the flush of a full buffer and the timer |
| `IdleTimeout` | the timer's flush |
| `Commit`, `Ack` | `loadAggregates`, and what follows its `await` |
| `Shutdown`, `Close` | the signal handler up to its `await`, and after it |
| `Crash` | the process dies, or a refused statement ends it as an unhandled rejection; what is unacknowledged is `ready` again, and statements under way may still commit |
| `Start` | `npm run rmq:worker` |

History: `posted` counts how often an order was added, `cut` the workers that ended with
a flush under way, by a crash or by a signal (`shutdown` awaits the flush it
starts itself and no other), `ends` all of them.

`StreamElt`. `log` is the topic's one partition, `position` how far `eachMessage` is,
`inserted` whether the row of the next message is in already, `committed` what the group has
committed. `SendAgain` is the repeated send of a client library that had no answer. A
transform reads in `Compute` and writes in `Write`, so that others come between.

### Properties and run

`ingestion`, either pipeline: four orders of different size, one of them spoilt, a prefetch
of three, flushes of two, two ends of a worker; a topic of four messages over two
orders, two transforms at a time, two ends of the consumer.

- `OrdersAccounted`: a message that was delivered is in the buffer or in one flush (none is
  forgotten until the worker ends, none counted by two flushes); a message leaves the queue for
  good only when its order is in the totals; and the totals are the orders' units, each as often
  as it was posted.
- `StreamAccounted`: an offset is committed only after its rows are in; the rollup never shows
  more than the raw rows hold.
- `PostsAsLedger`, `LoadsAsLedger`: the refinements. The batch side maps `interruptions` to
  `cut`, the streaming side to 0: it is idempotent, whatever Kafka delivers twice.
- `QueueDrains`, `RollupCatchesUp`: liveness.

Bounds. Three messages and flushes of two give a full flush, one by the timer, and two under
way at once; two ends are needed for an order that is posted a third time, since each end may
repeat it once. `MaxLog = 4` holds both orders twice. All orders of the stream fall into one minute
of the rollup, so that its row is the one transforms compete for.

Fairness. Weak: the broker delivers, the timer fires, the database answers, and somebody
starts a worker or a consumer that has ended, and runs the transform again (both are
commands run by hand; without them nothing is promised). Publishing, crashing and
committing offsets are never owed. `QueueDrains` ends with workers that no longer end, since
`MaxEnds` bounds them. Deadlock is not checked: a drained queue is the end.

### Proofs

All in `IngestionProofs`, for any orders, prefetch, flush size, transforms, messages and ends:

- Batch: `TypeCorrect`, `EveryMessageHeldOnce`, `AcknowledgedIsPosted` and
  `ImplementsLedger` from one invariant. `OnePlace` says that buffer and flushes are disjoint and
  together are what is unacknowledged; `PostedEnough` that what has left the queue, or is in a
  committed flush, is posted; `PostedAtMost` that an order is posted at most `cut` times, and once more
  if it is gone from the queue or in a committed flush.
- `TotalsAccountForOrders`: `OrdersAccounted` entire, with the totals of each row (`TotalsAreOrders`). The sum over
  a flush is that of its orders, each once, since flushes are disjoint.
- Stream: `StreamTypeCorrect`, `CommittedRowsAreIn` and `StreamImplementsLedger`. `RowsFollow`:
  everything before `position` has its one row, and so has the next message while `inserted`.
- `RollupWithinRows`: `StreamAccounted` entire. What a transform computed and has yet to write is
  no more than the rows hold either (`RollupInv`), because rows are only ever added.

`StreamAssumption`, in `MCIngestion`: the orders are finitely many, each is placed in a minute and costs
no less than nothing. Their number may be any. Liveness stays model-checked.

### Not modelled in the pipelines

What makes a record invalid (`Bad` says which are), several partitions or
consumers of one group, creating the topic, logs.

## Servers of one process

Node handles one request after another, and no handler here awaits anything but
the request. An action is a whole request; one that is refused before it changes anything
is left out.

| Module | Stands for |
|---|---|
| `Library` | `3-tier-architecture/src`: services, repositories, entities |
| `Bank` | `DDD/src`: the account, the transfer service, the use cases |
| `Conta` | `clean-architecture/src`: the account with a limit, its money, the use cases |
| `TaskStore` | what every task server promises: the abstract specification |
| `TaskServers` | `APIs-strategies/rest`, `rpc`, `graphql`; `MVC`, `MVVM` |
| `TaskBoard` | `APIs-strategies/websocket` |
| `GrpcWire` | how the code that ts-proto generates puts a message on the wire |
| `GrpcJson` | the conversions to and from JSON and partial objects that it generates as well |
| `GrpcServer`, `GrpcClient` | `APIs-strategies/grpc/server`, `client`: each with its own copy of the generated messages, the handlers, the script |
| `GrpcTasks` | calls under way between them |
| `MCServices` | instances for TLC |
| `ServicesProofs` | proofs about each of them |

### State and steps

`Library`. The three maps. Stored objects are changed in place: `UpdateBook` and `UpdateMember`
assign field after field, and one that is refused half way leaves what it
had assigned. `DeleteBook` does not look at copies lent out, and a return may come after it.

`Bank`. `Transfer` withdraws and then deposits; when the deposit throws, on an account of
another currency, the withdrawal stands. `OpenAccount` replaces an account that has the id. History:
`deposited` and `lost`, by currency.

`Conta`. `Creditar`, `Debitar`, `DefinirLimiteCredito`, with the answer of the last request.

`TaskServers`. `style` says which server it is. They differ in what they make of
absent fields, nulls and blank titles: an absent `done` is false for REST's `PUT` and refused
by GraphQL's schema; a null title is the text "null" for REST's `PATCH` and a
refusal for the others.

`TaskBoard`. `inbox[u]` is what is on its way to a user, in order; `view[u]` what the user sees, the
snapshot with the changes applied one by one. `Throw` is a message that the listener cannot handle, null or a
title that is no string: the exception is caught by nobody, the process ends with all connections, and
nothing starts it again.

`GrpcTasks`. Each client runs the script, and waits for each answer; guests call
what they like. A call carries bytes, which `GrpcWire` encodes field by field and tag by tag, from the
sender's copy of the messages, and decodes with the receiver's. `Unavailable` ends a script on the
way there or back. `GrpcJson` has the conversions that were generated for the same messages and that neither
side calls: `Number`, `String` and `Boolean` of a value of another kind, null for an absent field, messages in
messages and lists. JavaScript values carry their kind, and the tables of the messages name
the kind of each field. Strings that spell numbers and lists in the place of other values are left out.

### Properties and runs

`services`, each system by itself:

- `CopiesAddUp`: the copies of a book are those available and those on active loans, and its
  status follows, through totals that change, updates refused half way, books and members
  deleted with copies out, and returns that come after.
- `MoneyAddsUp`: what was deposited in a currency is in its accounts, but for the two ways in which
  the code loses money, which the state names in `lost`.
- `BoardsAgree`: whoever is connected sees the server's list once the messages on their way have come.
- `ConversionsKeepMessages`: what is decoded is what was encoded, both ways, also for defaults and absent
  fields, which are not on the wire (`SameAfterTheWire`). The message also lasts through JSON and through a
  partial object, written by the sender's copy and read by the receiver's, with null for what is left
  out too, and what is read from a value of another kind (`SomeValues`) is kept from then on (`SameAfterJson`): a
  test of truth in the place of `isSet` would lose the `done: false` of a patch.
- `RejectedForDeleted`: a script, which works on tasks 1 and 2 whoever created them, is rejected only when one of
  them was deleted.
- `EveryServerIsAStore`: REST, JSON-RPC, GraphQL, MVC, MVVM, WebSocket and gRPC implement `TaskStore`: an
  id is never used again, also after the last task was deleted, and no change leaves a title
  blank.

`conta_limit`: `Conta.ts:18` knows one reason to refuse a debit, balance plus limit exceeded, and
`clean-architecture/README.md:101` has the debit enforce the limit. `RefusedIsOverLimit` fails: the
subtraction makes a `Money` of what is left, which cannot be below zero, so the limit is never usable.

Bounds (`Services.cfg`). Two books, members, loans, ISBNs and addresses give every clash of names and a loan
that outlives its book; copies from 0 to 2. Two accounts and two currencies; amounts from −1 to 2. Three
tasks, enough to delete the last and create another. Two users of the board with two cards and two
messages on the way. Two scripts that run at once and a guest with one call of a list of edge cases. No
liveness is claimed: requests come or do not. Deadlock is not checked, since ids, calls and
deposits run out.

### Proofs

All in `ServicesProofs`, each system by itself:

- Library: `LibraryTypeCorrect`, `CopiesAlwaysAddUp` and `NamesStayUnique` from one invariant, with the
  finiteness of the loans, on which cardinalities depend. Lemmas relate the
  active loans of a book to its copies (`LentIsActive`) and say which requests leave both alone
  (`ActiveUnchanged`, `BooksUntouched`); each request has a lemma of its own.
- `NoMoneyMadeOrLost`: `MoneyAddsUp`, for any amounts that are integers (`MoneyAssumption`). The sum over the accounts
  of a currency is taken over all accounts, with zero for the others (`SumOfCurrency`), so that a
  request changes one summand (`SumOfChange`) or adds one.
- `ViewsAgree`: `BoardsAgree`. `BoardInv` says it of the messages on their way: applied in order to what a client
  sees they give the server's list (`Fold`; that a fold over a sequence takes a message at either end is
  proved as for sums). A change and the message that
  announces it do the same to a list (`MessagesRepeatChanges`).
- `WireKeepsMessages`: `SameAfterTheWire`, the wire's part of `ConversionsKeepMessages`, and
  `OnlyDeletedReject`: `RejectedForDeleted`. `CallInv` says that a call
  on its way is a message of its method and the bytes are its encoding; that decoding gives it back is
  proved for the client's and the server's copy of the generated code, message type by message type.
  `ScriptInv` says what a script has made sure of so far. `UndefinedAssumption` keeps `undefined` apart from
  strings, booleans and objects, `CallersAssumption` the guests apart from the scripts.
- `AllServeAStore`: `EveryServerIsAStore`, three refinements of `TaskStore`. The invariants say
  that ids are distinct and below the next one, and that stored titles are texts; there is one lemma per
  kind of change, shared by the servers.

`SameAfterJson` is model-checked only.

## Browser demos

| Module | Stands for |
|---|---|
| `Notes` | `pwa-offline-demo/src/hooks/useNotes.ts`, `src/services/indexeddb.ts`, `src/pages/Notes.tsx` with its editor and cards |
| `ServiceWorker` | `public/sw.js`, `src/sw-registration.ts`, `src/hooks/useServiceWorker.ts`; the browser's registration |
| `MovieSearch` | `react-clean-architecture`: `use-search-movies.ts` (`debounced`); the modular and feature-sliced demos: `useMovies` (`submitted`) |
| `MCFrontend` | instances for TLC |
| `FrontendProofs` | proofs about each of them |

### State and steps

`Notes`. `store` is the object store, `queue` the calls that wait for it (IndexedDB serves requests in the
order they were made), `call[c]` a function of the hook between two awaits, with the page instance
whose state it sets and the ids it closed over. Opening the page again leaves the calls of the old
instance running; their `setState` does nothing. `editor` is what the editor is open for. It is drawn over
the page and closes when what was submitted is done, but `Cancelar` closes it at once while the submit goes on, and it
disables no button of the page: `SyncWithApi`, `RemoveNote` and `OpenEditor` do not ask for it to be closed. `stale`
is history: the updates whose note was deleted between their look-up and their save.

`ServiceWorker`. A build is a page and the script whose name holds its hash; workers go by the
`CACHE_VERSION` they were built with. `caches` is the cache storage, `worker` the registration
(`installing`, `waiting`, `active`, and whether activation is over), `late` the puts and fetches that nobody
awaits, `visit` the page that is open, the worker that controls it and what its hook shows. `Install`,
`Precached`, `PrecacheFails`, `Activate` and `Cleanup` are the worker's life; `StaleWhileRevalidate`, `CacheFirst` and
`NetworkFirst` its strategies; `Finish` what follows an answer, which may come after another worker took over.

`MovieSearch`. Requests are numbered and answered in any order. `Type` starts the debounce again, `Search` is
its end, `Submit` the form. A list is named by the query it answers.

### Properties and runs

`frontend`, each by itself:

- `ShownIsStored`: once nothing is under way the list is what is stored, unless the page was left with a call under
  way or IndexedDB refused a request.
- `OwnNotesKept`: a note of the user changes only by a call on it, and one that was deleted comes back only with
  an update that had found it before the deletion and saves it after (`useNotes.ts:134-146`, which the model
  does reach).
- `CachesAreCurrent`: an activated worker has the shell, and no cache of an older one is left, though
  the older one's last puts may still be finishing.
- `ShownAnswersQuery`: once every search has ended, the list is that of the query, unless an earlier request
  ended last or a failure went unreported: the two exceptions are the hooks' own, which
  neither cancel nor compare.

`app_offline`: `sw.js:25` calls the precache the minimum to render without internet, and `InstallPrompt.tsx:61`
promises "mesmo offline". `VisitsRender` fails: the first visit fetches its script before the worker controls the
page, and the precache lists no script.

Bounds (`Frontend.cfg`). One note of the API and one of the user with two texts, two calls at a time, two openings
of the page, one refused request: every pair of calls overlaps. Three builds give an update over
an update; one thing finishing late is enough to outlive its worker. Two queries and three requests make an
answer that is overtaken and one that is not. No liveness is claimed, and deadlock is not
checked, since builds, openings and requests run out.

### Proofs

All in `FrontendProofs`, for any queries, builds, notes, calls and numbers of openings:

- `ListAnswersQuery`: `ShownAnswersQuery`. Not inductive: while the latest request is under way nothing is said of the
  list. `Asked` splits the cases: nothing asked yet, the timer runs, the latest request is under way and
  is the only one of its number, or it has been answered.
- `OldCachesGone`: `CachesAreCurrent`. `SwInv`: versions are handed out in order, so a worker is newer
  than whatever it replaces (`Versions`); whoever installed still has its shell unless its caches were taken away
  (`HasShells`); nothing late puts a page into a cache of a version that never was (`LatePages`).
- `ListIsStored`: `ShownIsStored`. `PadInv` says of every call under way what it still owes the list
  (`ListComes`), and which calls belong to the page that is open (`PadRuns`).
- `NotesAreKept`: `OwnNotesKept`, an action property, from `Gone`: a note the page or its editor knows is stored or
  was deleted, one that an update is about to save is stored or its update is `stale`, and the id of a note that is
  being added is nobody else's.

`NotesAssumption`: the API publishes no note under an id of the user's, no note is called None, the page is
opened at least once, and the mark
of a free slot is no call. `BuildsAssumption`: there is a build. `QueriesAssumption`: null is no query.

## All runs

| Run | Module | Expected | Properties |
|---|---|---|---|
| `offline_likes` | `MCOfflineFeed` | pass | `OneRun`, `NoWriteLost`, `OnlyRefusalsSpendAttempts`, `ShownIsAsked`, `AskedReachesServer` |
| `offline_pull` | `MCOfflineFeed` | pass | `CursorCoversChanges`, `SyncedUnlessForgotten`, `HeldImagesGoForRoom` |
| `offline_upkeep` | `MCOfflineFeed` | pass | `NoOrphanThumbs` |
| `offline_settles` | `MCOfflineFeed` | pass | `RunsEnd`, `WritesSettle`, `FeedConverges` |
| `image_cache` | `MCImageCache` | pass | `BudgetKept`, `IndexedIsOnDisk`, `DroppedStaysGone`, `EvictsOldestFirst`, `EnsuresEnd` |
| `order_saga` | `MCOrderSaga` | pass | `StockCoversOrders`, `StockFollowsOrders`, `SoldIsWhatWasHandled`, `OneEventPerOrder`, `FullViewAgrees`, `SagasEnd`, `EventsAreHandled` |
| `ingestion` | `MCIngestion` | pass | `OrdersAccounted`, `StreamAccounted`, `PostsAsLedger`, `LoadsAsLedger`, `QueueDrains`, `RollupCatchesUp` |
| `services` | `MCServices` | pass | `CopiesAddUp`, `MoneyAddsUp`, `BoardsAgree`, `ConversionsKeepMessages`, `RejectedForDeleted`, `EveryServerIsAStore` |
| `frontend` | `MCFrontend` | pass | `ShownIsStored`, `OwnNotesKept`, `CachesAreCurrent`, `ShownAnswersQuery` |
| `image_gone` | `MCImageCache` | violation | `UriIsOnDisk` |
| `conta_limit` | `Conta` | violation | `RefusedIsOverLimit` |
| `app_offline` | `ServiceWorker` | violation | `VisitsRender` |

Run one with `tlc -config <cfg> <module>`, and check the proofs of a module with `tlapm <module>.tla`. Every
property of a passing run has a mutant in `PROJECT.json`: the change of one definition under which
TLC finds it violated.

## All theorems

| Module | Theorems | Inductive invariant |
|---|---|---|
| `OfflineFeedProofs` | `TypeCorrect`, `OneRunAtATime`, `ImagesGoForRoom`, `NoneLeftBehind`; `LastRowShows` | `TypeOK`, `OneRun`, `PullInv`, `OrphanInv` |
| `OfflineWriteProofs` | `NothingIsLost`, `RefusalsSpend`, `CountedOnce`, `ShownAsAsked`, `AskedReaches`, `NothingBehindCursor`, `SyncedIsNewest` | `WriteInv`, `AttemptsInv`, `LikeCountedOnce`, `WantedInv`, `CursorInv`, `FeedInv` |
| `ImageCacheProofs` | `TypeCorrect`, `IndexIsOnDisk`, `NoFileEscapes`, `FlagsAreLetGo`, `DroppedIsGone`, `OldestGoFirst`, `BudgetIsKept` | `CacheInv`, `BudgetInv` |
| `OrderSagaProofs` | `TypeCorrect`, `ServicesAgree`, `PublishedOnce`, `StockIsEnough`, `CountsEachSale`, `MergedViewAgrees` | `SagaInv`, `StockInv`, `ConsumerInv`, `ViewInv` |
| `IngestionProofs` | `TypeCorrect`, `EveryMessageHeldOnce`, `AcknowledgedIsPosted`, `TotalsAccountForOrders`, `ImplementsLedger`; `StreamTypeCorrect`, `CommittedRowsAreIn`, `RollupWithinRows`, `StreamImplementsLedger` | `Inv`, `TotalsInv`; `StreamInv`, `RollupInv` |
| `ServicesProofs` | `LibraryTypeCorrect`, `CopiesAlwaysAddUp`, `NamesStayUnique`; `NoMoneyMadeOrLost`; `ViewsAgree`; `WireKeepsMessages`, `OnlyDeletedReject`; `AllServeAStore` | `LibraryInv`; `MoneyInv`; `BoardInv`; `GrpcInv`; `StylesInv` |
| `FrontendProofs` | `ListAnswersQuery`; `OldCachesGone`; `ListIsStored`, `NotesAreKept` | `FilmsInv`; `SwInv`; `PadInv` |
| `SumTheorems` | lemmas only | - |

Each holds for every value of the constants that satisfies the assumption named in its module. Out
of the proof system's reach, and left to TLC: liveness and `ENABLED`. Sums over finite sets are within it: the
library's induction cannot be used, but `SumTheorems` shows that the recursive function behind
`SumFunctionOnSet` exists, and what it does when one element is added, by taking a smallest set for which
it would not (`SmallestSubset`); the overlay of pending likes is treated the same way.

## What the code says and does not do

Three disagreements have a run of their own, `image_gone`, `conta_limit` and `app_offline` above. Others
came up while the models were written; the models follow the code, and where a property has an
exception, this is what it excepts.

| Place | Says | Does |
|---|---|---|
| `domain/outbox.ts:100` (offline-cache) | after the request has left, the compensation must go | a row in flight has `attempts === 0`, and a tap cancels it; the server keeps the like (`voided`) |
| `domain/outbox.ts:62-63` | like and unlike of one post arrive in sequence | a like in its backoff is overtaken by the unlike (`voided`) |
| `docs/adr.md:8` | the last 20 posts | posts that expired, or were trimmed and become the newest again, are behind the cursor and not fetched (`forgotten`) |
| `feedRepository.ts:34,36` | loading only on the first sync, empty only offline | a sync that was dropped counts as a success, and the screen says empty for a while |
| `useFeedView.ts:71` | - | a download of the screen may outlive its post (`strays`); nothing looks for images without a post - a start indexes whatever file it finds (`fileSystemImageCache.ts:220-224`) - so it stays until an eviction takes it or the user clears the images |
| `orders-service/README.md:56`, `Saga.cs:4-5` | a failed reservation has nothing to compensate; what committed is undone | a reservation that times out and is carried out later keeps its stock (`stranded`) |
| `api-gateway/src/server.ts:9` | order and product are read in parallel | one after the other, which is what `FullViewAgrees` rests on |
| `useNotes.ts:134-146` (PWA) | - | a note that is deleted between the two is written back by the edit that had found it (`stale`) |
| `worker.ts:131` (batch ETL) | - | a signal awaits its own flush only; one already under way is delivered again (`cut`) |
| `pwa-offline-demo`, `useNotes.ts` | notes of the API are marked as synchronised | opened from the store they are shown as local, and an edit of one is overwritten by the next synchronisation |
| `APIs-strategies/graphql`, `patchTask` | `done: Boolean!` in every task | a null is stored, and no query can return the task |

## Not modelled

| Part | Why |
|---|---|
| Flux, Next.js, microfrontend, monorepo and WASM demos (`frontend-architecture`) | reducers of a single step, component trees, rendering modes, build set-up and numeric kernels: nothing a state machine says better than the code |
| Data mesh (`data-architecture`) | one-shot scripts, contracts and SQL run by hand |
| API gateway configuration (Kong) | declarative routes in front of two stateless handlers |
| Rendering, labels, the figures of the debug screen, the cache viewer, the install prompt, the pages of the movie demos without a search | no state that outlives a render, or none that others share |
| Queries of the catalog's read model | availability is a function of the stock |
| Integer widths on the wire (gRPC) | ids are counted from 1 and never come near 2^31 |

## What is left

- An abstract like register that `OfflineFeed` implements where no write is voided.
- The image cache composed into `OfflineFeed`, in place of its set of thumbnails.
