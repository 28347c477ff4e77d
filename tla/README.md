# A TLA+ model of the S3 gateway

The repository is a port of the Ceph RADOS gateway to a POSIX file system: a
FastCGI daemon that speaks S3, stores every bucket as a directory and every
object as a file below `buckets_root`, and keeps the figures of a bucket in the
text file `<bucket>/.bucket/stat`. This directory holds TLA+ specifications of
the parts of the daemon that run concurrently or fail halfway, the TLC
configurations that check them on small instances, and proofs checked by TLAPS.
Paths below are relative to `src/src/`.

## 1. Inventory

| Part | Source | State | Operations | Where |
|---|---|---|---|---|
| Thread pool | `common/WorkQueue.{h,cc}` | `_threads`, `_old_threads`, `_num_threads`, `processing`, `_pause`, `_draining`, `_stop`, the request queue | worker loop, start, stop, pause, pause_new, unpause, drain, resize, queue | `ThreadPool` |
| Slot ring | `common/QueueRing.h` | buckets, two ticket counters | enqueue, dequeue | `QueueRing` |
| FastCGI front end | `rgw/rgw_main.cc` | the slots on the stack of `run()`, their connections | accept loop, `handle_request`, shutdown | `FrontEnd`, `Connections` |
| Object operations | `rgw/porting_op.cc`, `porting_tools.cc`, `porting_common.cc`, `librados/RadosClient.cc` | object files, stat files, identity of each thread | PUT (also of a part), DELETE, COPY | `ObjectOps` |
| Reads | `porting_op.cc`, `porting_rest_s3.cc`, `common/buffer.cc` | the file, open descriptors | GET with ranges | `ObjectReads` |
| Bucket operations | `porting_op.cc`, `porting_rados.cc`, `porting_tools.cc`, `librados/RadosClient.cc` | directories and their owners | create, delete | `BucketOps` |
| Listings | `porting_op.cc`, `porting_rados.cc`, `cls_rgw_client.cc`, `cls_user_client.cc`, `common/shell.cc` | none of their own | objects of a bucket, buckets of a user | `Listing` |
| System object cache | `rgw_cache.{h,cc}`, `porting_rados.h` | cache map, LRU list, generations, chained caches | get, put, remove, chain, invalidate, enable | `ObjectCache` |
| Quota | `porting_quota.cc` | modified buckets, two threads | data_modified, sync, stop | `UserStatsSync` |
| Command server | `cgw/cgw.cc` | array of pending messages | listen, handle, post | `CmdServer`, `CommandService` |
| Logging | `log/` | new and recent entries, two mutexes | submit, flush, dump_recent, start, stop | `Log` |
| Throttles | `common/Throttle.{h,cc}` | count, maximum, waiters; operations in flight | get, take, put, reset_max; start_op, finish_op, wait_for_ret | `Throttle`, `OrderedThrottle` |
| Timer | `common/Timer.cc` | schedule, events | add, cancel, cancel_all, shutdown | `SafeTimer` |
| Lock-order checker | `common/lockdep.cc`, `Mutex.{h,cc}` | ids, order, held locks | register, unregister, lock, trylock, unlock | `Lockdep` |
| Counted objects | `common/RefCountedObj.h` | two counters | get, put, put_wait | `RefCountedWait` |
| Data changes log | `rgw_bucket.cc` (upstream), `common/lru_map.h` | map of statuses, changes of the cycle, renewal thread | add_entry, renew_entries, destructor | `DataChangesLog` |
| Garbage collector | `rgw_gc.cc` (upstream) | the index of chains, its lock | send_chain, defer_chain, process, stop | `GarbageCollector` |
| Multipart uploads | `porting_op.cc`, `rgw_multi.cc` | the object's file | parts (PUTs that append) | in `ObjectOps` |
| Request processing, authentication, ACLs, users, metadata | `rgw_main.cc` 533-652, `porting_rest*.cc`, ... | private to a request | | not modelled |
| Start-up, configuration, encoding, the other upstream `rgw_*.cc` | | | | not modelled |

How the parts interact: `RGWFCGXProcess::run()` on a control thread takes a slot
from the ring, accepts a connection on it and queues the request to the pool. A
worker dequeues it, runs `process_request`, which ends in the `execute()` of one
operation, finishes the connection and puts the slot back into the ring.
Operations run concurrently on the workers and share the file system and nothing
else; the identity used for file accesses belongs to the thread.

What is hard to get right here: condition variables waited for with and without
time-out; counters raised in one critical section and lowered in another; tickets
drawn outside the lock they lead to; slots on the stack of a function that must
not return too early; read-modify-write of a text file without a lock; error
paths that leave through a common label; figures that pass through `atoi()`; a
daemon that may die between two file accesses. `PROJECT.json` lists these at
their lines as hazards with the properties that would catch them.

## 2. How the project is organised

Each component has a module of its own, and three of them (the front end, the object
operations, the command server) have runs of their own. The smaller ones are put side by
side in six modules that say, in one place and under names that do not clash, what they
promise together:

| Module | Instantiates | Promises |
|---|---|---|
| `Requests` | `BucketOps`, `ObjectReads` | `CreatedIsOwned`, `OwnerIsKept`, `ReadIsExact` |
| `Upkeep` | `DataChangesLog`, `GarbageCollector` | `ChangeIsKept`, `NothingIsLost` |
| `Locking` | `Lockdep`, `Throttle` | `LocksInOrder`, `FrontIsWoken` |
| `Counting` | `OrderedThrottle`, `RefCountedWait` | `CallbacksInOrder`, `NotUsedAfterFree` |
| `Listings` | `Listing` | `PageExact` |
| `Services` | `SafeTimer`, `UserStatsSync`, `Log` | `EventsRunOnce`, `NotBeforeItsTime`, `EntriesInOrder` |

TLC checks them in two bundles: `MCStore` (requests, the object cache, upkeep and locking) and
`MCProgress` (services, counting, listings and the loops that must end). In a bundle the variable
`part` picks, in the initial state, the component that takes steps, and the others stay as they
begin. A bundle is therefore the disjoint union of the components' state spaces, not their
product. The proofs are about the same definitions: the theorem for `ReadIsExact`, say, is about
`Requests!ReadIsExact`, which the run `store` checks.

## 3. Modules

**`ThreadPool`** has one action per critical section of `ThreadPool::_lock`. The
sleepers on `_cond` are the workers in state `wait`, which may leave at any time
because the code waits with a time-out; the sleepers on `_wait_cond` are the
callers in `pausing` and `draining`, which leave only when signalled. A worker
that finishes an item keeps the lock while it goes through the loop again, so
`WorkerFinish` contains the next turn. `Caller` states the contract under which
the gateway uses the pool: everything after `start()`, `stop()` alone and with an
empty queue, no request queued twice. `Resize` is `handle_conf_change()`, which nothing in
this port calls yet: the observer is not registered, and the line that reads the option is
commented out, so that the new size is whatever memory holds and any size in the model.

**`QueueRing`** splits each operation where the code does: the ticket is drawn
from an atomic counter, then the bucket is locked. A reader that was woken does
not test again (`if`, not `while`). It may also wake up without a signal
(`DequeueStray`), and when the bucket is then still empty the assertion ends the
process (`AllocAborts` in `FrontEnd`). `CounterMod` stands for 2^64, so the wrap of
the counters can be reached.

**`FrontEnd`** instantiates both and adds `run()` and `handle_request()`; each of
its actions is a step of one of these joined to the step of the pool or the ring
that it calls. **`Connections`** is the promise: slots, each with or without a
client, and a shutdown that answers everybody first, or an abort before it has begun.

**`ObjectOps`** has one action per access to the file system. A file is its size
in blocks; a stat file is its owner and its two figures. `Events` selects what may
go wrong or be requested, so that one module serves the runs that show a property
and the runs that show which event breaks an exact count. A request without credentials
acts as root (`porting_rest_s3.cc:74-78`, the default `auid` 0), and is part of the event
`others`. `calm` is a history variable that no action tests: it says of a worker in an upload
that its own `open()` and `write()` succeeded and that no other request for its object has
overlapped it.

**`CmdServer`** has the two threads of the command server and its clients. The
test for a full array, `accept()`, `read()` and the critical section of
`listen_loop` are actions of their own, and `main_loop` holds the mutex from
`TryLock` to `Unlock` while it handles one message per step. A message is
identified with its client; what the handlers behind `cgw_api_t` answer is not in
the repository, only that each of them ends with the connection closed.
**`CommandService`** is the promise: a bounded queue.

**`ObjectReads`** is `RGWGetObj`: the size taken first, then `open()`, then chunk after
chunk while uploads truncate, extend and replace the file and deletes unlink it. A
range is its two numbers as `parse_range()` leaves them. Descriptors are counted,
because none is closed. For `bytes=n-` with `n` above 0 the length that `execute()` computes
is negative, and it is passed on as an unsigned size to the read for the digest; what follows
is not defined, and in the model the request goes on to an empty body or is lost with the
process.

**`BucketOps`** follows `RGWCreateBucket` and `RGWDeleteBucket` down to `mkdir`, `chown` and `rm`,
one action per access to the directory, with restarts of the daemon between them. The users
include one that is not known and the anonymous one, whose creation of an existing bucket is not
stopped by the test for its owner. **`Listing`** has `list_objects()`, chunk by chunk, and
`RGWListBuckets`; names are numbers in the order of `ls`, and `Fit` is how many of them the 512
bytes of `shell_execute()` hold. A chunk is the set of the first names of the directory; `Rank` is
the place of a name in such a set and `InOrder` the sequence that is sent.

**`ObjectCache`** has the cache under its lock, split where the lock is released (the
promotion in `get()`, the fetch and the insertion of a reader, the write and the
invalidation of an updater), and one cache chained to it. Its calls are those without an
`RGWObjVersionTracker`: `CACHE_FLAG_OBJV` and the cached version are left out.

**`UserStatsSync`** has `data_modified()` in its two critical sections, the two threads and
`stop()`. It ends with the call of `sync_bucket()`: an error of it is logged and the bucket
dropped (`porting_quota.cc:411-414`), the work behind it is commented out
(`porting_bucket.cc:102-110`), and `rgw_main.cc:708-709` makes the store without quota threads.
**`Log`**, **`Throttle`**, **`OrderedThrottle`**, **`SafeTimer`** have one action per critical
section of their mutex; waits on a condition variable end only with a signal unless the code gives
a time-out. In `SafeTimer` the deadline of a sleep is fixed when the sleep begins. **`Lockdep`**
is the checker with the mutexes that it watches; `assert(0)` is the state `aborted`. `Lock(true)`,
which skips the checker (`Mutex.cc:90`), and the return of `Cond::Wait()`, which takes the mutex
back without it, are left out. The throttle never has the maximum 0, which would switch it off.
**`RefCountedWait`** has the two counted objects behind `put_wait()`, with a ghost that records a
use after `delete`.

**`DataChangesLog`** and **`GarbageCollector`** follow two upstream sources that the port does
not compile yet. In the first a call of `add_entry()` is a record with its place, its
clock and the call on whose `RefCountedCond` it waits; a `ChangeStatus` lives while the
map or a call holds it, so that after an eviction two statuses of one bucket shard exist.
The clock is read in the same step as the critical section before it. In the second a
step is one operation on the storage, `NoOne` holds the lock when it is free, and all
gateways and the storage have one clock; what the object classes do with a call is taken
from how `rgw_gc.cc` uses them (`PROJECT.json` marks the lock as external). A processor
may fail at every operation and die at every step, and the asynchronous operation of
`send_chain()`, which has no callback, may fail (`SendFails`): that chain is never listed.

Definitions with a name such as `MayDequeue_Paused` are variants with a plausible
bug: the property that is meant to exclude the bug fails when the variant is used
instead of the definition.

## 4. Runs

| Run | Instance | Shows |
|---|---|---|
| `pool` | 3 threads, 2 callers, 2 items, sizes 1-2, fair | the pool is consistent, pause is quiet, items are handed out once, `pause()` returns, a lowered thread count is reached |
| `frontend` | 2 workers, 2 slots, counters wrap at 5, fair | each slot in exactly one place and finished before it is used again; a signalled `dequeue()` finds an entry, so that its assertion fails after a wake-up without a signal only; `_clear()` finds nothing; nothing left after `run()`; the accept loop does not starve, shutdown ends; refinement of `Connections`, whose fairness says that accepted connections are answered |
| `objects` | 2 workers, 1 bucket, 2 keys, all failures, crash | the thread is root again on every path and has the request's identity at every write and removal; an upload whose object nobody else touches has its blocks where they belong and is stored when answered |
| `objects_serial` | 2 workers, 2 buckets | figures cover the files when requests to a bucket do not overlap |
| `cmd` | 3 clients, array of 2, fair | the array is not overrun, a connection is in one place, refinement of `CommandService`; a stored message is handled, and a written one as long as `listen_loop` gets the mutex again and again |
| `store` | see `MCStore` | buckets do not change hands, but for what an anonymous creation leaves to root, and belong to those who created them; an undisturbed GET is exact and no GET exceeds its length; the LRU list is the cache, the cache is coherent when nothing races, chained entries are registered; no wake-up of the throttle is lost; locks are taken in an order without cycles; a data change that was answered without an entry is not forgotten; the collector removes a tag only after its objects, and works under its lock |
| `progress` | see `MCProgress`, fair | log entries are written in order and all of them before `stop()` returns; ordered callbacks; timer events run once, on time and not after `shutdown()`; no use after free and `put_wait()` returns; `sync_bucket()` is called for modified buckets, and `stop()` returns or stays in the one deadlock it has; data changes get their entry and `add_entry()` returns; listings are exact and end |
| `frontend_busy` | 2 workers | violates the comment on `max_connections` |
| `ring_assert` | 2 workers | violates the assertion in `QueueBucket::dequeue()` |
| `stat_race` | 2 workers, 2 keys | violates the meaning of `num_entries` |
| `create_race` | 2 requests, 2 users | violates the comment on racing creations |
| `listing_marker` | 3 names | violates the comment on `marker` |

**Bounds.** Three threads let one retire, one work and one sleep; two callers let
one pause while another drains or resizes. Two slots and counters modulo 5 make
tickets of readers and writers fall out of step at the wrap. Two blocks, two keys and two
buckets suffice for a partial upload and for a copy between buckets. In `objects`, where two
requests overlap in every way, there are one block, one bucket with two keys, and no parts,
and the figures are all 0 (`IntMod` 1): its properties do not read them. `MaxStat`
and `MaxFile` keep the figures and appended files finite; `IntMod` stands for the
range of `int` and is small only where its overflow is the subject or the figures do not
matter. The command
server has an array of two instead of ten, and more clients than that, so that it is
found full. A cache of one entry, and of none, evicts at every second call; two
versions of an object tell a stale entry from a current one; generations are cut off at
two or three, enough for an entry to be removed and inserted again. Three waiters and
requests of one or two units make the throttle hand its wake-up on. Three mutexes with
two or three names make orders of length three and ids that are used again. Three names
against a buffer of two, and pages of none, one or two, make listings that take several
chunks. A status map of one place for two bucket shards evicts; three ticks let a window of
one end while an entry is being sent. In the collector three ticks let a chain expire, be
deferred, and the lock of a slow or dead processor run out; a chain of two objects can be
half released. `CHECK_DEADLOCK FALSE` is given for the front end, which ends when `run()` has
returned, and for the bundles, whose components end: requests are answered, the timer,
the log and the synchronisation are stopped, the checker aborts the program.

**Fairness.** Weak fairness of each thread: a thread that can run runs, mutexes are handed on,
`WaitInterval` expires, and `process_request` ends. `FCGX_Accept_r` is not assumed to return, and
a condition variable is not assumed to wake anybody up without a signal. In the pool alone a
caller that has paused is assumed to resume; nothing is assumed about calls of `pause()`,
`drain()` or `stop()` being made. In the command server `main_loop` frees the mutex again and
again but never for long, and `accept()` may fail for ever; POSIX promises `listen_loop` nothing
there. It has weak fairness only, and the half of `EveryMessageHandled` that needs more says so in
its premise, `ListenerServed`. A client that has connected writes or dies. In the bundles: the
threads of the log, the timer and the synchronisation run when they can, time passes, an operation
that was started finishes, a call that can return does. In `OrderedThrottle` a thread competes for
a mutex that others take again and again, and is strongly fair: it gets the mutex some time, which
holds on the platforms the code runs on though POSIX does not promise it.

## 5. Proofs

Eight modules hold the proofs. The constants are arbitrary within the named assumptions
of the components (finite sets where something is counted, numbers where something is
ordered); TLC evaluates these assumptions in the runs. In each case a lemma before the
theorem says that the inductive invariant is kept by every action, one step per action. A
leaf that names two back ends (`SMT, Z3`) allows a second attempt where the first may run
out of time.

| Module | Theorem | Property |
|---|---|---|
| `FrontEnd_proofs` | `SlotsAlwaysAccounted`, `AssertionsAlwaysHold` | `SlotsAccounted`, `AssertionsHold` |
| | `ConnectionsImplemented` | the safety of `Connections` |
| `ObjectOps_proofs` | `IdentityRestored`, `UploadsUndisturbed`, `AnsweredAreStored` | `PrivsRestored`, `UploadUndisturbed`, `AnsweredIsStored` |
| | `FiguresAlwaysCover` | `FiguresCoverFiles` |
| `Requests_proofs` | `CreatorOwns`, `OwnersStay`, `ReadsAreExact` | `CreatedIsOwned`, `OwnerIsKept`, `ReadIsExact` |
| | `ChangesAreKept`, `TagsOutliveReferences` | `ChangeIsKept`, `NothingIsLost` |
| `ObjectCache_proofs` | `LruStaysExact`, `CacheStaysCoherent` | `LruExact`, `CacheCoherent` |
| `Listings_proofs` | `PagesAreExact` | `PageExact` |
| `Locking_proofs` | `LocksStayInOrder`, `NoLostWakeUp` | `LocksInOrder`, `FrontIsWoken` |
| `Counting_proofs` | `CallbacksKeepTheirOrder`, `NoUseAfterFree` | `CallbacksInOrder`, `NotUsedAfterFree` |
| | `PoolSafe` and its parts, `ItemsHandedOutOnce` | `PoolInv`, `ItemsOnce` |
| `Services_proofs` | `NeverOverrun`, `OnePlace`, `QueueImplemented` | `StoreInBounds`, `ConnectionInOnePlace`, `ImplementsService` |
| | `RunOnceOrCancelled`, `NeverEarly`, `EntriesKeepTheirOrder` | `EventsRunOnce`, `NotBeforeItsTime`, `EntriesInOrder` |
| | `NothingForgotten` | `UserStatsSync!ModifiedIsKept` |

**The front end**, for any finite set of workers and any wrap of the tickets beyond the
number of slots. That a slot is in one place is not inductive: a worker that stops
in the middle of a request, or a `run()` that returns while one is queued, would lose it.
`IInv` therefore says at each place of `run()` what the pool and the ring are doing
(`PoolPhase`, `RingPhase`, `HeldPhase`), that `processing` counts the busy workers, and that
after `drain()` nothing is queued and nobody is busy (`PoolQuiet`). `WokenFindsEntry` says
how far the `if` in `QueueBucket::dequeue()` carries: there is one reader, so that a signal always
finds it an entry, and the assertion fails after a wake-up without a signal and in no other way.
`ConnectionsImplemented` is the refinement without its fairness, step by step from the same
invariant.

**The thread pool**, for all finite sets of workers and callers. `PoolInv` is the
conjunction of the types, `ThreadsAccounted`, `StopExclusive`, `CountersExact` and
`PausedIsQuiet`. None is inductive alone: that a paused pool stays quiet needs `pause` to
count the pausers; that the counters survive a worker that stops needs to know where the
threads are; and that needs `stop()` to be alone.

**Object operations.** `PrivInv` (the types and `PrivsRestored`) holds for any workers, users,
buckets and events: after every path of PUT, DELETE and COPY the thread is root again, and in
between it has the identity of the request wherever it writes or removes a file.
`UploadUndisturbed` and `AnsweredIsStored` hold for any events too: the premise is the history of
the one upload (`calm`), not a discipline of all requests. `UploadInv` says that a calm upload
is alone on its object, so that no other descriptor refers to its file, and that the file has
the blocks received; a step of another worker either leaves the file alone (`CalmStays`) or
begins a request for the object, and then the upload is not calm any more.

**The figures of the buckets**, for any finite sets of buckets and keys, under `FiguresKept`
(requests take turns, accesses succeed, the figures stay within the range of `atoi()`). `Apart`
makes the workers touch different buckets, and `FdOwn` and `InFull` follow the file of an upload.
Between two requests the figures cover the files; in the middle of a request they do not, for the
file changes before the stat file. `FiguresInv` looks ahead: `DueEntries` and `DueSize` are
what the stat file of a bucket will say once the update of the request there is through, read
off the place of its worker, and these figures cover the files at every moment
(`DueCovers`). It also follows who runs the accesses and owns the stat files, because a stat
file that belongs to root stays unwritten (`WhoOf`, `OwnerOf`), and the range of what was parsed
(`RangeOf`). A step touches one bucket and at most one file, so it is enough to know what a sum
does when one term changes: `SumOneChanged` and `SumZero`, proved from the definition of the
fold by an induction over the subsets of a finite set that is stated with a set of subsets in
place of a predicate (`SubsetInduction`).

**Buckets**, with restarts: the types with `CreatedIsOwned`, and for `OwnerIsKept` that a creation
for a user with a name does not get past its test for a bucket that exists. **Reads**, for any
sizes, chunks and ranges and any number of uploads and deletes in between: the body sent so far is
the run of bytes from the place asked for (`BodyIsRun`), what is sent and what is left make up the
length (`Remaining`), and the size taken at the start is that of the file until somebody changes
it (`SizeIsFresh`).

**Listings**, for any names, kinds, page sizes, chunks and buffers. The lemmas on `First` and
`InOrder` say how many names a prefix of a directory has (`FirstSize`), what the prefix of a
prefix is (`FirstOfFirst`), and that `InOrder` is the increasing sequence of a set
(`InOrderIs`). The loop of `list_objects()` reads the same chunk again whatever it has taken,
so the argument is about the first chunk (`OnePage` in `ListInv`): after it the page is exact,
or all names of a chunk fall under one common prefix, and then the loop goes on for ever
without answering (`Stuck`). Two lemmas compute the first chunk, with names that keep an entry
each (`FirstChunkApart`) and with names that share one (`FirstChunkGrouped`).

**The object cache**, for any names, clients and setups. `ListInv`: the LRU list has every
cached name once and its iterators point to the right place, so that cutting the list removes
the right entries from the map, whatever order `touch_lru()` and `remove_lru()` leave. For
coherence `CacheInv` adds that what a call is about to put fits the object (`InfoRight`), and
that a writer is alone on its object where no race was recorded (`NoConflict`); an entry
fits its object but for the part that a write in progress is about to bring (`Right`).

**The data changes log.** A change that was answered without an entry is in the current cycle
or in the batch that the thread has taken, and then the entry under way is not older
than the change (`OwedInBatch`); the windows are renewed only after the entries are written
(`WrittenFirst`). A pending status has a caller that is sending for it (`PendingHasSender`),
hence nobody waits for a call that has gone. **The garbage collector**: `ChainProgress` and
`RemovableDropped` follow the objects of a tag through `process()`, failures included;
`LockOutlasts` relates a processor's own deadline to that of the lock.

**Lock order.** The references of an id are the mutexes that bear its name (`RefsExact`), so an
id is freed only with its last mutex; what a thread holds it owns (`HeldIsOwned`); and a thread
that waits has recorded that its mutex comes after all that it holds (`WaitIsRecorded`). A
circle of waiting threads would then be a cycle in the recorded order, which has none. **The
throttle**: `cond` lists the waiters and the front one is woken whenever it could go on, for any
amounts and maxima above 0; the second needs the first, for the wake-up is handed to the head of the
list. `count` is the number of units held, as the cardinality of the set of these units.

**The ordered throttle.** The operations that left the map are the first ones, in order
(`CallLine`), and at most one thread is between a callback and the increment of
`m_complete_tid` (`OneCaller`); so the next callback is the next operation, although the lock
is released while a callback runs. **Counted objects**: the counters are exact, which makes
the last `put()` the last.

**The command server**, for any clients and any size of the array: types, bounds and places
together. That a new message differs from those pending needs the places, and that the
pending ones are slots of the array needs the bounds. Three lemmas say what a step does to
the sequence of pending messages (keep, append, take the head); the refinement follows from
them. **The timer**: `TimerInv` adds what the thread knows at each place, which callback it runs,
that a stopped timer is empty, that `now` is not ahead of the clock. **The log**: `LogOrder`
places every entry: the written ones, then those being flushed, then the new ones, each
an unbroken run of numbers; only the holder of `m_flush_mutex` is between the swap and the
write (`FlushPhase`), so that no flush overtakes another.

Left to TLC:

* all liveness properties and the fairness of the refinements, which need `ENABLED`;
* `TypesOK` of the bundles. The types that the proofs need are conjuncts of the inductive
  invariants above.

## 6. What the findings say

* `QueueRing.h:37`: `assert(!entries.empty())` follows a wait that is not in a loop. The process
  ends when `pthread_cond_wait()` returns without a signal, as POSIX lets it.
* `rgw_main.cc:381`: the comment promises more connections than threads; below eight
  threads (the shipped configuration has one) there are none.
* `porting_op.cc:1562`: the stat file, which `librados/RadosClient.cc:107-109` reports as
  the size and the number of files of the bucket, loses an update when two uploads
  overlap. `EntriesExact` also fails, without concurrency, when a key is overwritten
  (event `overwrite`), after a crash between the file and its figures (`crash`), and
  when a total passes the range of `int` (`IntMod`).
* `porting_tools.cc:162`: two creations of one bucket that overlap both succeed.
* `porting_rados.cc:588`: the marker of a listing has no effect.

Observations on single components, where a statement in the source is stronger than what
the code does, and which the modules let one reproduce:

* `Log.SubmitCaughtUp`: a thread that waits in `submit_entry()` ("wait for flush to catch
  up", `Log.cc:160`) is not woken when `dump_recent()` empties `m_new`, only by the next
  `flush()`.
* `RefCountedWait.ReturnsAfterDestruction`: `put_wait()` can return before the destructor
  has run ("will return only when the object is destroyed", `RefCountedObj.h:99`).
* `ObjectCache.ChainedIsCurrent`: the test of `chain_cache_entry()` ("first verify that
  all entries are still valid", `rgw_cache.cc:80`) compares generations, which start again
  when an entry is removed and inserted.
* `ObjectReads.SuffixServed`: a suffix range is not served from the end of the file
  ("RFC2616 suffix-byte-range-spec", `porting_op.cc:97`).
* `UserStatsSync`: `stop()` takes `rwlock` and joins the thread; when the thread is just
  before `swap_modified_buckets()` neither goes on. `StopOutcome` names this end beside the other.
* `DataChangesLog`: when `time_log_add()` fails in `renew_entries()` the batch is forgotten
  ("this is just an optimization", `rgw_bucket.cc:1199`), although `add_entry()` has
  answered 0 for changes that have no other entry; and a send that failed opens a window
  as one that succeeded does. `ChangeIsKept` and `ChangeIsLogged` leave the forgotten batch
  out.
* `GarbageCollector`: when a pool cannot be opened, `process()` goes on with the next object and
  still removes the tag, so that the object is never collected (`skipped` in `NothingIsLost`). A
  chain whose send fails is not sent again. A `defer_chain()` that comes after the listing does
  not keep the chain.
* `OrderedThrottle` with two threads that call `start_op()`: both can wait for a callback
  that only the other would run. The module has one starter.
* `BucketOps`: a creation by an anonymous client of a bucket that exists passes the test for the
  owner, fails at the `chown`, and may leave the bucket to root (`CreatingUnnamed` in
  `OwnerIsKept`).
* `ObjectOps`: `open()` and `write()` of an upload fail without setting `ret`, so that the client is
  told of success; the same when another request has replaced or removed the file. The premise
  of `AnsweredIsStored` leaves these cases out.
* `BucketOps`: a creation that dies between `mkdir` and `chown` leaves a bucket of root, and
  every retry is refused, although `porting_op.cc:1163` means to "recover from a partial
  create by retrying it".
* `Listing`: with hidden names or a delimiter and a page smaller than the directory,
  `list_objects()` reads the same chunk again and again; a user with as many buckets as a
  chunk gets the chunk repeated; names beyond 512 bytes of output are cut off. The
  properties state the cases in which the loops have to end.

## 7. Not modelled

* Apart from the data changes log and the garbage collector, the files `rgw/rgw_*.cc` that
  `src/src/rgw/Makefile` does not name are copies of the upstream gateway, of which the
  `porting_*` files are the version that is compiled; two thirds of the repository's lines are
  such copies, headers of types and encoders. The models follow the compiled files, so the share
  of all lines that they stand for stays small (about four per cent).
* The server side of the object classes does not exist in the repository.
* Start-up, configuration, encoding, formatting, hashing and XML: conversions without
  state that several steps could break.
* `process_request` beyond its place in the front end: a fixed sequence of calls on state
  private to the request. The permission tests of the operations return true in this port.
* A thread count of zero: `global/global.cc:75` reads it with `atoi()` and the ring would
  divide by zero slots. `FrontEnd` assumes at least one worker.
* `ShardedThreadPool`, which nothing instantiates; `SimpleThrottle`, `RWLock`.
* The quota caches have size and life time 0 in this port; `UserStatsSync` models what
  remains of the synchronisation. Multipart initiation and completion change no data.
