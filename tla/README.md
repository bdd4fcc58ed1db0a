# A TLA+ model of cogfluence

The repository bundles several servers and libraries: Influent (analysis of
accounts and the links between them), the Aperture framework (image capture,
content store, icons, layout), aperture-tiles (a map-tile server), a vendored
GraphRAG and a number of numeric libraries. This directory models the parts
that keep state and do something difficult with it: the permits to Influent's
cluster contexts, the hierarchies those contexts hold, the client's view of them
and the queue of its requests, the cache of the tile server, its annotation
service and the pool of capture processes. Each is a TLA+ module, checked by
TLC on small instances; eight modules of proofs establish the central safety
properties of all seven for any number of threads, contexts, accounts, tiles, renderers,
requests and acts of a user.

Paths below are relative to `src/`; `influent` is short for
`influent-server/src/main/java/influent/server`.

    cd tla
    tlc -workers 2 -config ContextCache_shared.cfg MCContextCache.tla
    tlapm ContextCache_proofs.tla        # and the other *_proofs, FlowView_patience

| Module | What it is |
|---|---|
| `ContextCache` | permits to cluster contexts (`ClusterContextCache.java`) |
| `ContextCache_proofs` | type correctness, balance of holds and permits, exclusion of writers, no edit is lost |
| `ContextTree` | what a request does to the clusters of a context it may write to |
| `ContextTree_proofs` | clusters are trees, so are the copies being simplified; clusters are bounded and filled; accounts are in one cluster; views are simple; removals report what they change |
| `FlowView` | the client's columns, files and cards, and the requests that keep the server's contexts in step |
| `FlowView_proofs` | empty ends of the row, one card an account, what is hidden is awaited |
| `FlowView_patience` | for a patient user no callback throws, and view and server agree |
| `RequestQueue` | the client's queue of requests (`infRest.js`) |
| `SerialRequests` | what that queue promises the views, abstractly; `RequestQueue` refines it |
| `RequestQueue_proofs` | its locks and order, and that it refines `SerialRequests` in safety |
| `TileCaching` | the cache of tiles of one layer |
| `TileCaching_proofs` | every entry gets its tile or its request failed, an image is drawn with its tile, a promised tile stays, types and the order of access |
| `AnnotationService` | annotations of one layer, kept in tiles and in data files |
| `AnnotationStore` | what that service promises, abstractly; `AnnotationService` refines it |
| `AnnotationService_proofs` | tiles and data agree, and the refinement |
| `PhantomPool` | the pool of PhantomJS capture processes |
| `CaptureService` | what that pool promises, abstractly; `PhantomPool` refines it |
| `PhantomPool_proofs` | a renderer is in one place, idle in the pool; a client gets its own image; the pool serves as `CaptureService` in safety |
| `MC*` | instances of these for TLC, with one `.cfg` per run |

`PROJECT.json` holds the list of components, the runs, the map from every
definition to the lines it translates, a mutant of the code for every property
checked (`Mutant:` in the modules), the hazards and the findings.

## 1. Inventory

### 1.1 Modelled

**Cluster context cache** (`influent/clustering/utils/ClusterContextCache.java`).
State: an Ehcache of `ColumnContext`s by context id (with overflow to disk); a
map from id to `LockableContext`, which holds a `ReentrantReadWriteLock` and the
`writableContext` while somebody edits it; in each request a `PermitSet`.
Operations: `getReadOnly`, `getReadWrite`, `revoke`, `remove`, edits through a
write permit. Every REST resource of Influent goes through it. Hard: the map
of locks is read and written outside the locks it holds; a request that has
read permits and asks for a write permit gives the read locks up first and has
to take them back if it fails; one lock wait is untimed; the context is in two
places at once during hand-over; a context may be deleted while it is used.
Correct if: writers exclude others, no edit is lost, no lock is leaked, every
request ends.

**Cluster hierarchies** (`influent/rest/ModifyContextResource.java`,
`influent/dataaccess/DynamicClustering.java`, `influent/clustering/*.java`,
`influent/clustering/utils/{EntityClusterFactory,ContextCollapser,ColumnContext}.java`).
State: per context the accounts (`FL_Entity`), the clusters by id, the map of
roots, and a simplified copy for the client. Operations: insert accounts, or the
accounts below a cluster of some context; remove accounts or clusters; simplify.
A request runs under a write permit of the cache above. Hard: clusters refer to
each other by id in both directions and to their root; the same account objects are
in several contexts; the hierarchy is rebuilt by stages, each splitting what the
former left too large; the simplification changes links while it walks a
hash map. Correct if: the clusters stay a forest that contains each account once,
none is empty or too large, the simplified copy shows each account once.

**Tile cache** (`tile-service/.../tile/caching/*.java`,
`binning-utilities/.../util/LRUCache.java`). State: per layer an LRU map of
`TileCacheEntry`, its policy of what may go, a set and a map kept beside it for that
policy; per entry its tile, flags and callbacks. Operations: request a set of
tiles (create what is missing, read it from the base pyramid, provide it to
entries and listeners), read one tile (as image under the monitor, as JSON
stream without it), wait at most a second for it. Hard: two monitors and entries
that have none; entries evicted between request and read; a read of the base
pyramid that fails after the entries were made; exceptions out of callbacks.
Correct if: each entry gets its tile unless the read failed; an image is drawn
with its tile; a tile somebody was promised stays; every request ends.

**Image capture pool** (`aperture-capture-phantom/.../*.java`, `rasterize.js`,
`requestTask.html`). State: a queue of free renderers and a registry; per
renderer a synchronous queue to its process and one back, the task in progress,
the size of the response so far; per process the loaded page, its timers and
its standard output. Operations: make the pool, take a renderer, offer a task,
take the result, put the renderer back; ask for tasks (long poll); load, render,
report; lose the connection; exit. Hard: five concurrent actors per capture (the
request, the server thread of the poll, the process, its page, the reader of its
output) that communicate by queues, streams and files. Correct if: a result goes
to the request it was made for; a free renderer has nothing left of its last
task; requests end.

**Annotation service** (`annotation-service/.../rest/AnnotationServiceImpl.java`,
`.../index/*.java`, `.../io/*.java`, `.../data/*.java`, with the file system stores).
State: per layer a file of data for each annotation, named by its uuid, and for each tile a
file of certificates (uuid and time stamp) by bin and group; one read/write lock.
Operations: write, modify, remove, read the annotations of a tile. Hard: two stores
written one after the other without a transaction; a change has to find the tiles of
the annotation as it is, not as the client says; certificates decide whether a change
comes too late; files whose deletion fails without an exception. Correct if: tiles
and data agree; a change is accepted exactly when its certificate is that of the
annotation; a tile shows the annotations that lie in it.

**Client request queue** (`influent-client/influent-clientjs/src/scripts/modules/infRest.js`,
`infWorkspace.js`). State: the queue, one lock per context, overlay timers, the listener that
tells a capture process that the page is ready. Operations: make a request, the pump every
100 ms, answers, timers. Hard: answers come in any order; callbacks make
requests, or throw, and then nothing after them is done. Correct if: requests of
one context are served one at a time and in order; a covered column is uncovered;
the capture process hears of the page.

**Flow view and workspace** (`.../scripts/views/infFlowView.js`,
`.../scripts/lib/models/{xfWorkspace,xfColumn,xfFile,xfImmutableCluster}.js`). State: the row of columns, the
files and cards in them, which of them are hidden until their removal is answered; the
server's contexts that mirror columns and files. Operations: branch, remove, clean a
column, make a file, move a card to a file, remove a file, add files; the callback of
each request. Hard: the view is changed partly when the user acts and partly when the
answer comes, and between the two other answers may have disposed cards, clusters, files
and columns the callback works on. Correct if: no callback works on what was disposed;
view and server agree when all is answered; a move loses no account; there is always
an empty column to branch into.

### 1.2 Not modelled (yet)

| Component | State, operations, what is hard | Decision |
|---|---|---|
| Influent client apart from the flow view and the queue | search forms, details, charts, transaction tables, toolbars | display of what the server answers |
| Content service (`aperture-cms`) | documents with revisions; check of the revision and put are not atomic | planned, small |
| State persistence (`CachedPersistenceAccess`, ...) | one value per session, last writer wins | planned, small |
| Read-only REST resources | read a context under a permit; aggregate links | covered by `ContextCache` as an operation; results are arithmetic |
| Numeric, label, geographic and topic clusterers | k-means and distances | floating point; `ContextTree` has the bucketing stages |
| Search, patterns, SQL; authentication; service interfaces | text of queries, configuration, generated records | no state of their own |
| Clustering job, import wizard | batch jobs | one pass over a database |
| Aperture server, icons, parchment, geo, layout, graph, client | wiring, images, numeric layout, drawing | no control worth a model |
| Tile service apart from its cache, pyramids, tile client, tile generation | configurations, index arithmetic, Spark jobs | the way through the cache is in `TileCaching`; the rest is data-parallel or arithmetic |
| Ensemble clustering, utility libraries | numeric | floating point |
| GraphRAG | vendored Python; a rate limiter, workflows | after the product's own parts |
| Applications, examples, tests | configuration | nothing to model |

### 1.3 How the parts interact

    user --> FlowView --requests--> RequestQueue --modifycontext, relatedlinks-->
                     <--callbacks--              <--answers--
       ModifyContextResource --permits--> ContextCache
                 |                              |
                 +--edits a ColumnContext--> ContextTree
    browser --tile/image--> TileServiceImpl --> TileCaching --> base pyramid
    browser --annotations--> AnnotationService --> tile files, data files
    browser --capture--> PhantomCaptureResource --> PhantomPool --> phantomjs --> page
                                   +--store--> content service

`ContextTree` relies on what `ContextCache` establishes: that one request edits
a context at a time, on the latest version of it. It takes this as its granularity
(one request runs from beginning to end before the next one begins) rather than
composing the two state machines; `WriterExclusion` and `NoLostEdit` are what
justifies it. The case where it is not justified is a finding (`create_race`, below).

`FlowView` relies in the same way on what `RequestQueue` is shown to implement, `SerialRequests`:
each context's requests are served and answered one by one, in the order they were made,
unless a callback of that context throws. Requests of two contexts overlap freely. The server in
`FlowView` is the set of accounts of each context; how `ContextTree` clusters them makes no
difference to it.

## 2. The modules and the code

### ContextCache

A request thread is a value of `Threads`; `pc` says where it is inside the
cache, `call` is the constructor or `remove` in progress, `permits` its permits. The
code is cut into steps where threads meet: at each lock operation and at each access
to the map of `LockableContext`s, to `writableContext` or to the Ehcache.

| Code | Steps |
|---|---|
| `getReadOnly`, `ReadPermit` | `GetReadOnly`, `ReadLocked` or `ReadTimedOut`, `ReadFetched` |
| `getReadWrite`, `WritePermit` | `GetReadWrite`, `WriteLocked` or `WriteTimedOut` (then `Relocked`) for a known id; `LockableCreated`, `NewLocked` for a new one; then `WriteFetched`, `ContextTaken` or `ContextCreated` |
| edits of a `ColumnContext` | `Edit` |
| `revoke` | `RevokeRead`, `RevokeWrite` (with `Refreshed`: the thread's other permits) |
| `remove` | `Remove`, `Removed` or `RemoveTimedOut`, `LockableDropped` |
| disk overflow of Ehcache | `Overflow`: the next look-up gives a copy |

The lock itself is external: reentrant, with a queue in which readers stand behind a
waiting writer, timed waits that may fail only when somebody contends
(`ReadContended`), no upgrade from read to write. Objects are named
`<<context, generation>>`; a name is reused when nothing refers to it any more, so a
small `MaxGen` loses no behaviour (an instance with too small a `MaxGen` would stop
requests, which `RequestEnds` would show). `edited` and `stale` are history: which
contexts were edited and which `ColumnContext`s lack an edit.

### ContextTree

One request at a time (`pc`, `target`) on one context, its inner loops taken one step at
a time because they go through hash maps whose order is arbitrary: `Split`, `FillFirst`,
`FillNew`, `FillOverflow`, `NextStage` are `GeneralEntityClusterer.clusterEntities` with
the `MaxSizeEntityClusterer`; `RemoveAccount`, `RemoveCluster`, `PruneEmpty`,
`PruneEnds` are `removeMembers` and `removeFromAncestor`; `Visit` and the actions `Drop...`
and `Keep` are `ContextCollapser.collapse`. `cluster[k]` is the map of clusters, `view[k]` the
simplified copy. An account is an object: `object[k][e]` is the one that context k has,
and `home[e][o]` the cluster it names, because `getImmutableChildren` passes the objects
of one context on to another. Stages that bucket by a key are `Key`; the last stage
splits by `MaxSize`.

### TileCaching

A request (`Requests`) makes its set of tiles and then reads one. `owner` is the monitor of
the `TileCache`. `lru`, `current` are the LRU map, `haveData` and `oldestKey` the set and
map beside it. `RequestTiles`, `PutOk`, `PutFails` (with the removal policy: `Search`,
`Visited`, `OldestRemoved`, ...), `EntriesMade`, `BaseRead` or `BaseFailed`, `Provide`,
`SetTile`, `Listen`, `Notify`, `Provided` are `requestTiles` down to the callbacks;
`GetEntry`, `CheckReceived`, `CheckMissing`, `AddCallback`, `WaitForTile`, `StopWaiting`,
`Answer` are `readTiles`/`getTileData`. An exception of the code ends its request at a
place of its own: `policy` (the policy looks up a tile that has left), `monitor`
(`notify` without owning it), `evicted` (the entry is gone), `modified` (a list changed under
iteration).

### FlowView

The workspace is a row of `columns`; a card (`shown`) has a home, which is a column or a file,
and an account; `place[f]` is the column of file f and `cluster[f]` which cluster object it holds.
Columns and files are also the server's contexts: `server[c]` are the accounts of context c. A
handler of the user's is one action (`Branch`, `RemoveCard`, `CleanColumn`, `CreateFile`,
`CreateEmpty`, `AddToFile`, `RemoveFile`, `AddFile`), and so is each callback (`BranchDone`,
`RemoveDone`, `InsertDone`, ...), since JavaScript runs a handler to its end. Between them are
`Serve`, which does the first request of a context at the server, and `Answer`, which runs its callback.
What the closures of a request remember is in the request: its card, the move it is part of, the cluster
it expands. `Pruned` is `_pruneColumns`, `LinksAsked` is `_updateLinks`.

Only requests to `/modifycontext` and `/relatedlinks` wait in `queue[c]`. The two to `/entities`, of an expansion
(`Expanding`, `infFlowView.js` 2805) and of a removal whose answer names accounts the file did not show
(`Detailing`, 1632), are immediate (`infRest.js` 203-215): they are in the set `immediate`, wait for nothing, hold up
nothing, and `AnswerNow` answers any of them at any time. They read entities and change nothing at the server,
so they have no step there. A callback that works on something disposed throws (`Throws`). Of a queued request the
lock then stays, and its context serves no more (`stuck`); an immediate one holds no lock, so only its own
continuation is lost.

`patient` chooses, once, between any user and one who acts on a column, or branches or moves a card
into it, only while no request works on it, on its neighbours or on their files (`Free`). A request works
on its context, on where its card is and on the file the card moves to (`Busy`). `Restored` is the
workspace each of the two starts with. `EndsEmpty`, `OneCard` and
`HiddenPending` are about both, also after callbacks have thrown; the others about the patient one, because for the other
they are false (section 5).

### RequestQueue and SerialRequests

Requests are numbered as they are made; the array of the code is the set `requestQueue` of numbers, because
`push` and `splice` keep their order. `Pump` is a whole tick (`_processRestRequests`), `Respond` a whole
answer: callback, removal from the queue, release of the lock, the listener
(`_handleRestResponse`); `RespondThrowing` stops after the callback. `FadeIn`, `FadeOut` are the timers of
the overlay, `Load` is the load event in a capture process (`infWorkspace.js`). `SerialRequests` is
what the views rely on: each context serves its waiting requests one at a time, the earliest first, and
every one unless a callback broke the context.

### AnnotationService and AnnotationStore

A request thread is a value of `Clients`; `pc` is its place in `write`, `modify`, `remove` or
`readData`: `wait` for the lock, `check` the certificate, `strip` (write the tiles that keep
entries), `drop` (delete those left empty), `add` (write the tiles of the new place), `put` or
`erase` the data; a read does `look` (the tile) and `fetch` (the data). A place stands for
coordinates and levels; `Cover` is what the indexer makes of it, pairs of a tile and a bin. A tile file
is its entries, `Saved` what survives its JSON: an object keyed by uuid, so that of two stamps of one
uuid in one bin the one put last stays. `Fails` is an exception of the storage: any subset of
the step's files has been written. `NotDropped`, `NotErased` are `File.delete()` returning false,
which nobody looks at. `broken` is history: the uuids whose change a failure interrupted.

`AnnotationStore` has no tiles: a request takes effect at once between being made and being answered. The
refinement maps `store` to `data` and `unsure` to `broken`; a change takes effect at `Put`
or `Erase`, a refusal at `Check`, a read at `Fetch`. That a read is exact although it looks at the tiles
first, and that a refusal is right although tiles are changed first, is what the lock is for.

### PhantomPool and CaptureService

Per renderer four actors: the server thread of its long poll (`Poll`), the process and its
page (`Work`), the reader of its output (`Gobble`), and what may go wrong (`Fault`). A
capture request is a `Client`. A hand-over through a `SynchronousQueue` is one step of
both sides; sockets (`stream`) and standard output (`out`) are sequences. The content
store is an external step: the image is put or the request ends. `CaptureService`
is the promise: a request waits, is served by one of `PoolSize` renderers, is answered with
an image of its source or none, and leaves. `ImplementsService` is the refinement.

## 3. Runs

| Run | Instance | States | Shows |
|---|---|---|---|
| `ContextCache_shared` | 2 threads, context a created by t1, b there, 2 permits and 2 calls each | 127 k | `WriterExclusion`, `NoLostEdit`, `TakenWhileWritten`, `HoldsBalance`, `RequestEnds` |
| `ContextCache_delete` | 2 threads, one context, created and deleted by t1 | 178 k | `RequestEnds` |
| `ContextCache_create_race` | 2 threads that may both be first | | `WriterExclusion` violated |
| `ContextTree_one` | 1 file, 7 accounts, 2 bucketing stages and the size stage, limit 2, 3 requests | 653 k | `Forest`, `NoEmptyCluster`, `LeavesBounded`, `LinksResolve`, `Simplified`, `AncestorsFound` |
| `ContextTree_two` | 2 files that take accounts from each other, 4 accounts, 4 requests | 128 k | `AccountsPlaced`, `RequestEnds` |
| `FlowView_all` | 2 accounts that pay each other, in two restored columns for the patient user and one for any other, 2 files, one of them restored or not, any 3 acts | 454 k | `EndsEmpty`, `OneCard`, `HiddenPending`, `NoneStuck`, `Agree`, `FilesAgree`, `Settles` |
| `RequestQueue_all` | 4 requests of 2 contexts, one of them without a column to cover; callbacks that make requests or throw; with and without a capture process | 63 k | `LockHeld`, `InTurn`, `ImplementsSerial`, `OverlayLifts`, `Announced` |
| `TileCaching_fills` | 3 requests (JSON, image, set), 3 tiles, one empty, map of size 1, age limit 1, clock to 2, reads may fail | 534 k | `FilledOrFailed`, `ImageHasTile`, `KeptWhilePromised` |
| `TileCaching_ends` | 3 requests, 2 tiles, age limit 0 | 225 k | `RequestEnds` |
| `AnnotationService_all` | 2 clients, 2 annotations, 2 places, 3 tiles of which one is in both, clock 0..1, one failure | 4.4 M | `Coherent`, `ImplementsStore` |
| `PhantomPool_ends` | 3 clients, 1 renderer, failing loads, reused and fresh pages | 195 k | `IdleInPool`, `AnswerAwaited`, `OwnImage`, `ImplementsService` |
| `PhantomPool_faults` | 2 clients make 2 pools at once; a connection is lost, a process exits, pages call back | 545 k | `OnePlace` |

`TypeOK` is checked for `TileCaching`, `ContextTree` and `FlowView`, and proved as well; for
`ContextCache` and `RequestQueue` it is only proved, and for `AnnotationService` and `PhantomPool` the types are a conjunct of the
invariant of their proofs.

### Why the bounds are enough

*ContextCache.* Two permits per request are the number at which a request can hold two
contexts crosswise with another, hold a read permit while it asks for the write permit
(upgrade), or hold the same permit twice (reentrance); two contexts and two threads are the
smallest deadlock. What depends on the number of threads - exclusion and balance - is
proved for all.
*ContextTree.* Seven accounts with limit 2 are the least that produce a cluster of clusters
that is itself too large, so that the last stage is repeated; `Key` sets one account apart at
each stage, so chains and singletons occur at every level. Three requests allow an
insertion into what was split and a removal of what that left. `Ids` is a bound on clusters in
use: a step that needs more is not taken (`CanMake`). In these instances every step finds
enough, since without the guard the runs reach the same states.
*TileCaching.* A map of size 1 with three requests makes every request evict; age limit and
clock let entries be too young, old enough, and exactly at the limit.
*FlowView.* The patient user starts with two columns that hold something, so that it can act in two places; the
other, whose acts interleave with everything, with one. Three acts are the number at which an answer can dispose what another request of the same
context works on while a third has been made from what it left; two accounts that pay
each other make a branch to either side find the card it started from, and links both ways. They also
suffice for an expansion or details that come before, between and after the answers of their file's other requests, and
when the cluster or the file is gone. The second
file makes a move between files. Rows
of more than `MaxColumns` columns are out of bounds (the guard of `Pruned`'s callers); three acts
cannot make that many.
*RequestQueue.* Four requests: two that wait in one context behind a third, while another context or an
immediate request goes its way. The order and the locks are proved for any number.
*AnnotationService.* Two places share a tile in different bins, so that taking one annotation out of
it leaves the other; two clients are the least that can collide. The clock's two values make
certificates current or out of date. One failure may happen at any file of any step, and everything
may be done after it. The two properties are proved for all instances.
*PhantomPool.* Three clients that share one renderer make a client wait for a renderer that another has
just returned and a third wants too. `MaxSize` 1 makes every second task exceed the limit of the response, so that
a reconnect goes before the next one; in the run with faults it is 0, and every task does.

### Fairness and stopping

*ContextCache.* Weak fairness of each thread's next step, edits excepted: a request does not
edit for ever but may otherwise do what it likes. Strong fairness of the two untimed waits:
`ReentrantReadWriteLock` queues its waiters, so a lock that keeps becoming free is had in
the end. The timed waits need only weak fairness.
*ContextTree.* A request that has begun runs on (`WF(Work)`). None is needed for requests.
*TileCaching.* Weak fairness of each request; a wait's time limit of a second is part of it.
The clock is not fair: nothing relies on entries growing old.
*PhantomPool.* Weak fairness of each thread and process, and of the end of a load and of the
page's current timer apart from the process's polling, which must not starve them. Faults are not fair.
*FlowView.* Every request in front of a context that is not stuck is served and then answered: what
`SerialRequests` promises. Immediate requests are sent at the next tick and answered too. The user need do nothing.
*RequestQueue.* Weak fairness of the pump, of the timers, and of the answer to each request that was sent: the
browser calls back with an answer, an error or its own time limit. Callbacks may throw whenever they like.
*AnnotationService.* None; both properties are about safety.

`CHECK_DEADLOCK FALSE` is said where a behaviour may stop: when all requests are served
(`TileCaching`), when `MaxRequests` or `MaxActs` are spent (`ContextTree`, `FlowView`), when processes have
died (`PhantomPool_faults`). Elsewhere something can always go on (the processes poll, the pump
ticks, requests begin again), so deadlock is checked.

## 4. Proofs

All in TLAPS, for every value of the constants that meets the `ASSUME`s of its module.

**`HoldsAlwaysBalance`, `TypeCorrect`** (`ContextCache_proofs`). `HoldsBalance` counts:
the holds a thread has on a lock are its permits on it plus a constructor about
to return one, except that a thread in an upgrade has given its read locks up and
remembers how many. It is not inductive alone: a step needs to know that an empty slot
is `NoPermit` and that a call in progress has a `LockableContext` (`Shape`), that a
lock without a writer has no write holds (`LockOK`), and the types. `BalanceInv` is
the four together. The lemmas go in this order: what the three lock operations do to the
holds (`SetReadsHolds`, `WithWriteLockHolds`, `WriteUnlockedHolds`); what granting or
dropping a permit does to the counts (`Granted`, `PermitDropped`, from
`FiniteSetTheorems`); one lemma per action (`...Balance`), the actions that touch no hold
together in `QuietBalance`; that a fresh `LockableContext` has a free lock, because
whatever holds a lock refers to it (`UnusedLockFree`); then `StepBalance`.
It assumes nothing about who creates and who deletes.

**`WritersExclude`** (`ContextCache_proofs`). That holds balance does not exclude
writers unless permits to one context are on one lock and the lock does its part. The
invariant adds `ReadersOut` (while a lock has a writer, nobody else has a read hold: what
`CanRead` and `CanWrite` preserve) and `Stable` (the `LockableContext` of a context is the
one every permit and call has). `Stable` is false in general - that is the finding - and
holds under `NoRace`: nobody deletes, and at most one thread may be the first to name a given
context. From the two and the counts, `StableExclusion` follows without induction: a
write permit is a write hold, so its lock's writer; a permit of another thread on
that lock is then no write permit, and its read hold is given up.

**`EditsAreKept`, `TakenForWriting`** (`ContextCache_proofs`), under `NoRace` too. Where is the latest copy of a context?
In `writableContext` while a thread has a write permit (`WriteCopies`, `Written`), in the cache otherwise, and
somewhere once it was edited (`AllKept`). A thread between the look-up in the cache and the removal from it relies on what it
saw (`AllTaking`); a creator that comes late to its own new lock must not find a copy there
(`AllCreating`). Read permits may be behind only while the context is written (`ReadCopies`), which
`revoke` ends by refreshing them. `NoLostEdit` follows with `WriterExclusion`: the writer is then the thread itself, or the
thread is in an upgrade and has given its locks up. `Tagged` keeps contexts apart: locks and copies of one
are never another's.

**`LocksHeld`, `InOrder`, `ServesSerially`** (`RequestQueue_proofs`). `LockHeld` says that the lock of a context
and its request in flight are the same thing, `InTurn` that a request is sent after all earlier ones of its context
returned. The invariant adds that the numbers made are an interval (`Counted`), which makes the next
number new, and that a request is in the queue unless it was answered and did not throw (`InQueue`), which
makes the first of those waiting the earliest of those unanswered. `ServesSerially`: the initial states and every
step are those of `SerialRequests`; its fairness is TLC's.

**`EntriesFilled`** (`TileCaching_proofs`). An entry without its tile has a request that will still fill
it, was abandoned, or belongs to a request that failed. With the shape of the variables it is inductive; the
work is in the removal policy, where an entry leaves the map at any of several places.

**`ImagesHaveTiles`** (`TileCaching_proofs`). Nothing in an entry is locked, so why does the reader of an
image find its tile? Because it owns the monitor from its look-up to its answer (`OwnerInside`), and so
do those who fill entries: between them every received entry has its tile (`ReceivedIsData`, `AtEntry`).
The callbacks a reader leaves behind are then only with abandoned entries (`Callers`), so no
late notification reaches it. `Readers` puts together what the reader knows at each of its places.

**`PromisesKept`** (`TileCaching_proofs`): an entry leaves the map only when its tile has been handed out or it is too
old, an action property. The eldest entry and the first one requested are looked at before they go; the one `_haveData` points
at is not. That it is a retrieved one rests on the walk through `_haveData` meeting the entries in the set's
order, so on every time in it being one of the clock's (`TimesInv`): the walk's end then has the latest time
(`LatestOf`), and a retrieved entry may go. `ImageInv` says which entries are in the map while it is walked.

**`CacheTypes`** (`TileCaching_proofs`). The part of `TypeOK` with a reason is that `lru` lists every tile of the map
once (`Lists`): a use puts a key last (`TouchedLists`), and the walk through `_haveData` (`Visited`, a recursive
function; `VisitedLists`) uses keys of the map only. The pairs of `_haveData` outlive the entries they are of, but
the walk ends at the first that has left the map; that it visits no other one of the same time before rests on the
times in the set being different (`KeysInv`, `SearchInMap`). The other types (`TypeInv`) need that a reader about
to look at an entry holds one.

**`RendererInOnePlace`** (`PhantomPool_proofs`). A renderer is held by one client at most (`OneHolder`), is
once in one queue at most (`OneSpot`), and not both (`NotBoth`); one not started yet is nowhere (`Fresh`).
That two pools may be made at once needs a bound on them: a client makes one at most
(`PoolsCounted`). It holds with all faults.

**`PoolIsIdle`, `TaskIsAwaited`, `ImageIsOwn`** (`PhantomPool_proofs`). The three follow from one invariant, `FlowInv`:
while a client waits at a renderer its task is in exactly one of eight places there (`Served`: taken by the poll, being
written, on the stream, on the page, said on the output, heard by its reader, being answered, or lost
with the connection), and while nobody waits there all of them are empty (`Resting`). That one
client at most waits there is `PlaceInv`. One lemma per action says from which place to which it moves the task;
`FlowKept` covers the other renderers. Lost connections and exits are allowed: what the
task then was is `Lost`, the client waits for ever, and nobody gets a wrong image. What they need is
`Calling = {}`: a page that calls `callPhantom` late renders twice, and then all three are false (section 5).

**`PoolServes`** (`PhantomPool_proofs`): the safety half of `ImplementsService`, step by step. Its hypotheses are those
under which the code keeps the promise: the pool is made on startup (`Started # {}`), no connection is lost
(`Lossy = {}`) and no page calls late. Without the first a request may make a second pool of other renderers; a lost connection
may shut a process down that is then put back without being replaced. `StartInv` says
the pool stays what it was made; `FlowInv` that the image handed out is that of the client's source.
The run checks the same with fairness.

**`FlowTypes`, `EndsStayEmpty`, `AccountShownOnce`, `HiddenAwaited`** (`FlowView_proofs`), for a user of any patience,
any number of acts and any order of the answers, those of immediate requests included, whichever callbacks throw. The invariant `FlowInv` says of the view that its columns are
distinct and at least three, those at the ends empty, every card and file in a column of the row, one card
an account (`View`); of the requests what their callbacks rely on: a removal is of a card of that context, a
filling is of a file, a move names a file (`QueueOK`), the immediate ones are of a file (`NowOK`); of an answer that it has a request and that a
removed account is not in it (`ReplyOK`), without which the callback that shows the answer would
show a card twice; and `HiddenPending` itself. Pruning is where the ends are decided. `_pruneColumns` walks
the row (`Restricted`, a recursive function); that it keeps the order, the first and the last column and no column
twice is proved by the least number for which it would fail (`LeastOf`, from the well-foundedness of
`<`), since the induction theorems of the library cannot be used; the same gives that a longest
row has a newest column (`GreatestOf`, `NewestOf`). Each act and each callback is then shown to be a
change of cards and files followed by pruning (`...Fits`, `Continued`, `Acted`), and to leave
for what it hides a request that removes it. An immediate answer is one of these changes at whatever moment it comes:
one that throws changes nothing in the view. `HiddenPending` says that the request is there, not that it is
answered: behind a callback that threw it is not, and what it was to remove stays hidden. For the patient user
that is excluded (`NoneStuck`, `Settles`).

**`PatientNeverStuck`, `ViewAgrees`, `FilesSettle`** (`FlowView_patience`), for the patient user, any restored
workspace, any number of acts and any order of the answers. Why does no callback find that what it works on is gone? The
invariant `Calm` takes the immediate requests of a context and its queue as one `line`, which it may because an immediate
request of this user is alone in its file (the proof shows it), and lists what a line can hold (`Shapes`): a branch; the removals of a column being cleaned and
then its clearing; a single removal, an insertion, a filling, a deletion, an expansion or the making of a file; the links
of one column; each with what its callback needs to find. `Apart` says of two contexts whose requests still matter that
the columns they work on are neither equal nor neighbours, or that both only wait for links of one column.
An act keeps it because it is made only where nothing is busy near. An answer may move a request's work to
another context of its own columns, and prunes the row, so that columns come closer: two that were apart become
neighbours only if the column between them was empty. `Tight` excludes that: an inner column is
empty only in a row of at most four columns of which one holds anything. How pruning acts on the order of the row
(`RestrictedOrder`, `OrderKept`, `EndsKept`) is proved without induction, from the least number that fails.
Each act and each callback is then shown to change the lines of a few contexts and the view in a few columns
near which no other request works (`Change`), which keeps `Shapes` and `Apart` (`ShapesStep`). What differs
between view and server is accounted for by an answer on its way (`ColumnsAgree`, `Settled`), and at rest
nothing differs. The proof showed what patience has to mean: with a user who looks only at the contexts near
that have requests, `NoneStuck` is false (section 5).

**`TilesCohere`, `ImplementsTheStore`** (`AnnotationService_proofs`). `StoreInv` has the types; what a
thread has in hand at each place; one writer or readers; that a check once passed stays true until
the change takes effect; for each annotation no failure has touched, how its entries stand to its
data by how far its change has come (`Tidy`: both the same, only in tiles about to be deleted, none, those
of the new data); and that a reader has found what lies in the tile. `Tidy` also gives that the null
bin of `NoBin` never happens to such an annotation. Other annotations of the same tile are
untouched because entries of two uuids are never the same key.

**`TypesKept`, `ContextsAreForests`, `CopiesAreLinked`, `ClustersBounded`, `AccountsInOneCluster`, `ViewsAreSimple`,
`RemovalsReported`, `ClustersHaveAccounts`** (`ContextTree_proofs`), for any contexts,
accounts, buckets, any limit from two and any order in which the code's hash maps give their elements.
`Below` and `Above` are computed by walking as many steps as there are ids; that this is the least set closed under
the links (`ReachedIs`) takes a set that grows at every step (`LeastOf` again). "Every cluster is below a
root" is then proved equal to "the parents go round in no circle" (`Grounded`), which is what a step
can be shown to preserve: a new cluster has no child, an adopted one gets a parent above it, a removed
one takes all below it along. The invariant `TreeInv` states the trees at every step of a request:
the subclusters `MaxSizeEntityClusterer` is filling have no parent yet (`FillOK`), the cluster that lost a
child is in the map (`RemoveOK`), and the copies the collapser visits are trees of their own, of which those
still to be visited are among them (`CopyOK`); replacing a chain by its only child and dropping a singleton
keep them so in whatever order they come. `BoundOK` says that a cluster too large, or with members
beside subclusters, is always one still to be split, being split, or just made; when nothing is, there is none.
The proof showed that two guards of a `CASE` in `Joined` overlapped, which TLC resolves by taking the first.

`PlacedInv` adds the accounts: each is in the members of one cluster, where a cluster that
`MaxSizeEntityClusterer` is splitting counts with what is left of it (`Held`). It cannot rest on the cluster that an
account names, since contexts share account objects: a removal may look in a cluster of another context and leave
the account behind. What holds is that `updateClusterProperties`, which the request calls
next, takes away from every cluster whatever is no longer in the context (`Updated`). `ShownInv` follows the copies as the
collapser visits them (`ViewOK`, `CollapseOK`): one that was visited stays as it should be while its parent is visited, because a
visit changes the copy, its parent and its children, and the members of two copies never meet; what is still to be visited
is all that can be a chain or a singleton.

The last two theorems have hypotheses on the constants. `Separate` says that a context inserts clusters of no
other: then accounts name the cluster they are in (`HomeOK`), the parents that `findAncestorIds` climbs are those
of the context (`WithinOK`, `Apart`), and climbing from a cluster finds exactly the clusters it is below (`AboveIsBelow`). Where accounts are shared
this is not so (section 5). `ClustersHaveAccounts` takes from the same that a removal finds the
account and prunes upwards what it emptied (`FullOK`), and needs `Nonempty`, that no request inserts nothing: such a
request for an empty file shows its root, without an account. Both hold in the run `ContextTree_one`, which
checks the two properties.

Every invariant and every action property that a passing run checks is stated by one of these theorems. What the
prover cannot do stays with TLC: liveness under fairness (every `RequestEnds`, `Settles`,
`OverlayLifts`, `Announced`, the fairness half of `ImplementsService` and `ImplementsSerial`), anything with
`ENABLED`.

## 5. What was found

One run shows a disagreement between the code and what it says of itself:

* `ContextCache_create_race`: `new WritePermit` for an unknown id makes a `LockableContext`
  and puts it in the map without looking again (`ClusterContextCache.java` 272, 303-306).
  Two requests that are both first have two locks and both a write permit; the edits of
  the one that revokes first are lost.

The models also contain, as behaviour of the code that the properties are worded around:

* `TileCache` keeps `_haveData` in falling order of time although its comment says the
  reverse, so the newest retrieved tile goes first (`TileCache.java` 220-225), and two tiles of the
  same millisecond count as one.
* The removal policy of the tile cache looks up tiles that have left the map (end `policy`);
  abandoning an entry calls `notify` without its monitor (end `monitor`).
* A column deleted under its own write permit is put back in the cache, unreachable, when
  the permit is revoked (`infFlowView.js` 1373-1379 sends such requests).
* Inserting a cluster of one file into another passes the account objects on (`DynamicClustering.java`
  512), and clustering overwrites the cluster they name (`EntityClusterFactory.java` 602-605). A later
  removal from the source finds no ancestors: nothing is reported as changed and emptied clusters stay. So
  `AncestorsFound` is checked with one file, and proved for files that do not insert clusters of each other.
* A capture process that ends by itself is not replaced, and the request whose task it has waits for ever
  on an untimed `take`; so `ImplementsService` is checked without `Mortal` processes.
* In the capture pool: a connection lost while a task is written leaves the client waiting; a page
  that calls back after its time limit makes a second success, so that the next request gets a
  blank image; a process that asks before it is registered is told to shut down.
* In the flow view, for a user who does not wait: cleaning or branching a column disposes cards whose
  removal is still to be answered, and the callback throws (`infFlowView.js` 842-877, 1461-1518); an act
  on a neighbouring column may prune one that links are being drawn to; a file removed while a card is
  being added to it ends the continuation (2016). After each the context serves no more requests, and what they
  were to remove stays hidden. An expansion may be answered after its cluster is gone (2829), and the details of
  a removal after its file is (1638): these callbacks throw as well and their links, or the rest of
  the move, are then missing, but the file goes on serving (`infRest.js` 83-98). A branch whose source was made anew meanwhile is
  ignored, while the server keeps its results (2593); one whose column was pruned fills another
  column than the context it was asked for (2557-2576, 2642). Accounts held by a file get no card but stay
  in the server's context of the column (2684).
* For a user of the flow view who waits for the requests of a column, its neighbours and their files it is not
  enough: while a card moves to a file far away, its insertion is a request of that file, and cleaning the
  card's own column, or removing the file it is in, disposes it before the removal that follows
  (1993-2016). So the patient user also waits for what requests of other contexts work on here (`Busy`).
* In the request queue: `_onRestRequest` (`infRest.js` 179-190) would queue a request twice, and a synchronous
  request would call back before it is bound; nobody does either. The page's listener
  is not removed, so `callPhantom` may be called again.
* In the annotation service: two modifications that read the same clock value have the same certificate, and
  the second overwrites the first unseen (the check of `AnnotationServiceImpl.java` 190 passes). After a change
  that failed between tiles and data, a tile that other annotations keep may lack the bin, and
  `AnnotationTile.java` 116-126 throws: the annotation is not shown there and can no longer be changed or
  removed. A file that cannot be
  deleted is not noticed (`FileSystemPyramidSource.java` 147, `FileSystemAnnotationSource.java` 111).
  `NMostRecentByGroupFilter.java` 73 relies on certificates in order of time; from JSON they come in the
  order of a hash map.
* With a cluster limit of 1 the size stage never ends (`MaxSizeEntityClusterer.java`
  119-121); `ContextTreeAssumption` requires 2.

## 6. What the models leave out

* *ContextCache*: eviction of contexts by Ehcache after twelve hours idle; callers that do not check
  for the null context of a timed-out call (the request fails, holding what it holds until
  its `finally`).
* *ContextTree*: versions and properties of clusters, account owners and cluster summaries
  (immutable clusters), columns, the numeric, label, geographic and topic stages; lists of
  members are sets; what becomes of object identity when a context is written to disk and
  read again; two requests on two contexts that share an account at the same time.
* *TileCaching*: two JSON readers adding to one `ArrayList` at the same instant; reads of
  `_waiting` that are never seen to change; coarser tiles; that `requestTiles` and
  `readTiles` name the pyramid by different properties (assumed to agree); registration of layers.
* *PhantomPool*: the shutdown of the whole server; more than one call of `callPhantom` by a
  page; the size of messages other than as a count of tasks. `IdleInPool`, `AnswerAwaited` and
  `OwnImage` are checked without lost connections, exits and late calls, under which they
  do not hold (above); `OnePlace` is checked with them.
* *AnnotationService*: files written in part (a write that fails leaves the old or the new
  file); the HBase stores; configuration of layers and filters, which choose among
  the certificates of a tile; the bins of the answer; `_initializedLayersById`.
* *RequestQueue*: what the workspace keeps of sessions.
* *FlowView*: clusters of the server (every card is an account), match cards and searches, charts and
  the details pane, expansion and collapse by hand, clean workspace, import and restoring in steps,
  the child contexts of a column, answers that are errors (an insertion that failed still removes the card,
  1993-2102; a null answer makes the callback throw), duplicate counts.
* The components of 1.2. Most of the repository's JavaScript by lines is vendored (`r.js`, jQuery, Raphael,
  Bootstrap) or display code, which has no control worth a model; the state machines of this code
  are in the files of 1.1, most of them Java.

## 7. What could be added

1. *More of the system.* The content service's revisions (`EhCacheCmsService.java` 123: checked and put without
   a lock), the persistence of workspaces; server errors and clusters in `FlowView`; a store of contexts
   with readers and writers as an abstract specification, which `ContextCache` should implement under `NoRace`; a
   tile service that answers with the tile or fails, for `TileCaching`.
2. *More proofs.* They would come with new properties and with the abstract specifications of 1.
