# TLA+ models of the ep-engine core

This directory holds TLA+ models of the in-memory core of ep-engine and the
TLC configurations that check them. `PROJECT.json` lists the components, the
runs, the source lines every definition stands for, the findings and the
hazards; this file explains them.

Run a configuration with `tlc -workers 2 -config <cfg> <module>`, for example
`tlc -workers 2 -config MCHashTable_threads.cfg MCHashTable`.

## 1. The system

| Part | Source | State | Operations |
|---|---|---|---|
| Record (`StoredValue`) | `stored-value.hh` 68-577 | value handle, row id, dirtiness, dirty bit, and for the full variety CAS, expiry, lock bit, lock expiry, resident bit | `markDirty`, `reDirty`, `markClean`, `setValue`, `del`, `lock`, `unlock`, `isLocked` (clears a lock whose time has passed), `setId`, `setPendingId`, `clearId`, `clearPendingId`, `setCas`, `setExptime`, `size`, `valLength`, `ejectValue`, `restoreValue` |
| Record factory | `stored-value.hh` 731-785 | the variety (small, featured) | builds a record in front of a chain head |
| Hash table (`HashTable`) | `stored-value.hh` 790-1364 | chains `values[]`, `size`, stripe `mutexes[]`, `numItems`, `numNonResidentItems`, `numResizes`, `memSize`, `visitors`, `activeState` | `find`, `set`, `add`, `softDelete`, `del`, `addUnlessThere`, `unlocked_*`, `getLockedBucket`, `resize`, `clear`, `visit`, `visitDepth`, destructor |
| Memory accountant | declared in `stored-value.hh` 505-570 | `currentSize`, ceiling | `hasAvailableSpace`, `increaseCurrentSize`, `reduceCurrentSize` |
| CAS generator | `Item::setCas()` | a process-wide counter | next CAS |
| Visitors | `stored-value.hh` 604-718 | totals of a walk, visitor count | `visit` per record or per bucket |
| Chunk range planner | `ep.hh` 108-231 | ordered list of row id ranges | `add`, `splitChunkRange`, `mergeChunkRanges` |
| Vbucket deletion visitor | `ep.hh` 236-287 | set of row ids (on the heap), chunk size | `visit`, `createRangeList`, the destructor |
| Transaction context | `ep.hh` 300-386 | `_remaining`, `txnSize`, `intxn`, uncommitted items, callbacks | `enter`, `leave`, `commit`, `commitSoon`, `setTxnSize` |
| Persistence driver | `ep.hh` 421-1001 | write queue, reject queue, the flusher's batch `writing`, background fetch counter | `set`, `deleteItem`, `queueDirty`, `beginFlush`, `flushSome`, `flushOne`, `flushOneDelOrSet`, `completeFlush`, persistence callbacks |
| Background fetch counter | `ep.hh` 1009-1023 | a reference to `bgFetchQueue` | constructor, destructor |
| Backend factory | `kvstore.cc` | none | `create`, `typeToString`, `stringToType`, `stringToCharPtr` |
| Test stubs | `tests/suite_stubs.c` | remembered CAS, error flag | one-key client calls |

How they interact. A client mutation reaches the hash table of its vbucket:
the caller computes the bucket, takes the stripe mutex, finds the record and
changes it; every change of a record's size goes to the accountant, whose
ceiling decides whether the next store is admitted. The record is queued for
the flusher, which writes it in a transaction and gives the record its row
id. The pager ejects values of clean records, a background fetch restores
them. Deleting a vbucket walks its table for row ids, cuts them into chunks
and deletes the chunks one by one, adapting their width.

What makes it hard, and what should hold:

* **Concurrent callers on striped mutexes.** The bucket is computed before
  the mutex is held and the table may be resized in between; space is
  checked before the store; two callers may miss the same key. Every record
  must hang in its home bucket, a key must have one record that counts, the
  counters must say what is linked, and the ceiling may be overrun only by
  what is in flight. Every call must return.
* **Versions.** A CAS is the name of a version. Values get theirs from the
  generator, tombstones get the CAS of the value plus one, restored records
  bring theirs from a backup, expired records are replaced. A CAS must never
  name two versions of a key, and a call with the CAS of a replaced version
  must change nothing.
* **Locks that expire by themselves.** A lock is cleared by whoever looks
  next after its time; while it holds, only a set with the record's CAS may
  change the record.
* **Residency.** A record is resident exactly when its value is a payload;
  `valLength` reads a placeholder as a length otherwise.
* **Persistence behind the callers' backs.** A record is marked clean when
  its write is handed to the backend and learns its row id when the
  transaction is committed; clients change or delete it in between, writes
  and transactions fail, the flusher gives way to background fetches with a
  transaction open. No change may be lost, no key may have two rows, and
  every record must reach the disk in the end.
* **The deletion plan.** After any sequence of splits and merges the ranges
  are in order and still cover every row.

## 2. Modules

| Module | Models | Parameters |
|---|---|---|
| `StoredValue` | the record: one operator per method, from record to record | `Keys`, `Values`, `KeyLen`, `ValLen`, `Small` |
| `HashTable` | the table under concurrent callers, with the accountant, the CAS generator and the two clocks | threads, operations, the bytes of every key, signedness of `char`, bucket counts, ceiling, CAS and time bounds |
| `VersionedMap` | what the table promises: a map from key to version, with a lock per value, on which a call takes effect at one instant | keys, value lengths, CAS values, callers |
| `MCHashTable` | constants for TLC: value lengths, two pairs of keys, the modes of `add`, the symmetry of the threads | |
| `TableLifeCycle` | constructor, walks with their visitors, `clear`, destructor, `active()` | visitors, shapes of walk, buckets, records, chain length |
| `MCTableLifeCycle` | constants for TLC: a resident and an ejected record | |
| `TransactionContext` | the transaction the flusher writes in | the transaction sizes |
| `Flusher` | one vbucket's persistence: callers, queue, flusher thread, callbacks, the rows of the backend | keys, values, clients, transaction sizes, whether reads have a dispatcher of their own, bounds on CAS values, failures and fetches |
| `KVStoreFactory` | the factory that builds the backend from the configuration | the names a configuration may hold |
| `Engine` | the start of the engine: the backend is built, then the store of `Flusher` runs on it | the names a configuration may hold |
| `MCFlusher` | the module TLC is run on | |
| `ChunkRangeList` | the planner and the deletion visitor | ids shown to the visitor, chunk sizes, range sizes |
| `MCChunkRangeList` | constants for TLC | |

### StoredValue

A record is a TLA+ record with the fields of the class. A method that takes
the clock takes it as an argument. `isLocked` is two operators: `isLocked`
is what it returns and `afterIsLocked` is the record it leaves behind.
`size` follows the LP64 layout the field comments give (`sizeOf(small)` is
49, `sizeOf(featured)` 71; a value handle is 16 bytes, an ejected value 4).
The accounting a method does is the difference of `size` before and after;
`HashTable` applies it.

### HashTable

`values[b]` is the chain of bucket `b`, head first. A call is two steps.
`Begin` fixes the arguments and computes the bucket from the bucket count at
that moment; for `set` it also makes the space check, which the code makes
before it locks (`SetNoMem` is the other outcome). The step named after the
operation is `getLockedBucket` returning with the mutex and the bucket still
valid, the body, and the release of the mutex; `Relock` is
`getLockedBucket` finding the bucket stale and computing it again. Bodies
run under the stripe mutex, so they are one step each. `add` is cut once
more, after its space check (`addStore` is the rest), because it reads the
process-wide accountant while other stripes charge it; between the two steps
it owns the mutex in `mutexes`.

The arguments of a store that matter only when it stores (the expiry, and
for `add` whether the record is dirty and whether its value is kept) are
chosen at that step. `superseded` is a history variable: the CAS values of
the versions of a key that have been replaced. It only grows. A restore
hands `addUnlessThere` only versions that are not in it (`Restorable`):
the store keeps the keys deleted while it restores and skips them, in code
that is not among the sources, so this is an assumption of the runs about
the caller and not something the table does.

`hash(str)` is the loop of the code, `h = ((h << 5) + h) ^ str[i]` from
5381, on a 32-bit `int` kept as two halves of 16 bits (TLC's integers are
32 bits wide themselves); a `char` above 127 is sign-extended before the
exclusive or when `CharSigned` holds, as it is on x86. `Int32` reads the
result as the signed number the code takes `%` and `abs` of. `%` is C's
(`Remainder`: the remainder has the sign of the hash), so the `abs` is what
keeps the bucket of a negative hash inside the table. The keys of the runs
are byte strings whose hashes have either sign, which is why the loop is
kept bit by bit: the sign comes from the wrap and the sign extension.

From the specification, because their code is not among the sources: the
generator (`nextCas`), `hasAvailableSpace`, `Charge`/`Recharge`, `resize`
(every record is pushed onto the head of its new chain, all mutexes held),
and the engine operations `getLocked`, `unlockKey`, `evict` and `restore`.
Left out: `cacheSize` and `numEjects` (updated in code that is not at hand),
client flags, replica counts. With `cacheSize` goes the `residentOnly` flag
of `increaseCurrentSize` and `reduceCurrentSize`, which tells them to leave
that counter alone. `evict` asks of a record what `ejectValue` is said to
ask: that it is resident and not locked. Neither the sources nor the
specification make it ask that the record is clean, and the model does not
either.

### VersionedMap and the refinement

`VersionedMap` has a version per key (absent, a value with a CAS, a
tombstone with a CAS; a value may be locked) and a pending request per
caller. `Invoke` makes a request pending, `Respond` applies it: `Outcomes`
lists the versions a key may have afterwards. It says what the callers rely
on: `set` with a CAS changes only the version of that CAS; a new value has a
CAS above the one it replaces; a tombstone has the CAS of its value plus
one; `add` leaves a live value alone. A lock is taken by `getLocked` on a
live value that has none. While it lasts, `set` needs the CAS of the value
(CAS 0 is refused, which it is not on a value without a lock), `softDelete`
and `del` change nothing. It ends in three ways and no other: a `set` that
names the CAS (the new value is not locked), an `unlockKey` that names the
CAS, or by itself (`Timeout`, a step of the map and of no caller). `find`,
`evict` and `restore` leave every version as it is. Two things the map
allows because the code does them: `add` may always refuse (memory), and a
value stored over a tombstone may get the CAS the tombstone has (see
section 4).

`HashTable` instantiates it as `VM`: the version of a key is its first
record in the chain of its home bucket, the pending request of a thread is
its call. `Begin` maps to `Invoke`, the step that runs the body to
`Respond`, and `Relock`, `resize` and the first step of `add` to
stuttering. A version is locked when `isLocked(now)` says so of the record,
so a tick of the clock past `lock_expiry` maps to `Timeout`, and the lazy
clearing of the bit by the next call that looks at it to stuttering.
Ejecting and restoring a value change `value` and `resident` and map to
stuttering: the length of a version is `valLength()`, which a placeholder
answers with the length it remembers. Expiry is not part of the promise, and
the runs that check the refinement turn it off: with expiry the table is not
a map (run `duplicate`).

### TableLifeCycle

Records are reduced to what a visitor asks of them, `size()` and the
resident bit. The table starts empty (`Init` is the constructor); `link`
is a caller storing a record at the head of a chain. A walk is three kinds
of step: `visitBegin` (the `VisitorTracker` counts it in), `visitBucket`
(one bucket under its stripe mutex, shown to the visitor) and `visitEnd`
(counted out). The destructor is two steps, `destroy` (`clear(true)`) and
`free` (the poll of `visitors` is over, mutexes and buckets are given
back); in between the walks that were in the table go on. `active` is the
code's `return activeState = true`. The loops of `visit` and `visitDepth`
and the body of `clear` are not among the sources and follow the
specification; the depth histogram is left out. Walks begin only while the
table is alive: a caller of `visit` holds the table at least until the
tracker has counted the call, otherwise nothing could protect it.
`disturbed` is a history variable: the walks that a store or a clear has
crossed.

### ChunkRangeList

A range is a record `[first, second]`, an iterator an index, `end()` the
index one past the last. `createRangeList` is the loop of the code as a fold
over the sorted ids with its counter and `start_row_id`; `Chunking` is the
reference it is compared with. `visit` may be called until
`createRangeList` has deleted `row_ids`. `destroy` is the destructor: it
may come before or after `createRangeList` and deletes the set if `row_ids`
is not NULL; `deletes` is a history variable that counts the `delete`s of
the set. The list belongs to the caller: `Add`, `SplitChunkRange` and
`MergeChunkRanges` work on it once the visitor is done with it
(`HandedOver`), with any iterator, `end()` included.

### TransactionContext and Flusher

`TransactionContext` has the members of the class as variables and one
action per method, on those variables alone; `Flusher` instantiates it as
`TC` and conjoins what a call does to the rest of the store. The table of
`Flusher` is the map from keys to records that `HashTable` is shown to
implement (run `refine`), so a change of a record under its stripe mutex is
one step; the records are those of `StoredValue` (instance `SV`). A queued
item is a key: the flusher reads the record when it writes it.

| Code | Model |
|---|---|
| `set`, `deleteItem` | `set`, `deleteItem`: the record changes (`setValue`, `del`), and the caller holds the key in `unqueued` until `queueDirty` appends it to `queue` |
| `beginFlush` | `queue` becomes `writing` |
| `flushSome` | `flushSome` (`enter`, and `tsz = remaining()` read once), `flushOne` once per turn of the loop, `endLoop`, `commitUnlessPreempted`, `leave` |
| `flushOneDelOrSet` | `superseded` (record gone or clean), `waitsForId` (pending id: rejected), `persistDelete`, `persistSet`; a write is an uncommitted item and a callback of the transaction |
| `commit` of the context | `TC!commit`, then `callback` once per callback of the committed transaction |
| the callback of a write | `inserted` (`setId`), `updated`, `deleted` (`clearId` or the tombstone is unlinked), `redirty` (`reDirty`, rejected) |
| `completeFlush`, `requeueRejectedItems` | `completeFlush`: the rejects go to the end of `queue` |
| `BGFetchCounter` | `BGFetchCounter(1)`, `BGFetchCounter(-1)` |
| `assert` in `setId`, `setPendingId` | `aborted` becomes true and the store stops |

`pc` is the place of the flusher thread, `tsz` and `completed` the locals of
`flushSome`, `replay` the callbacks `commit` has still to run. `commitDue`
is a history variable: `commitSoon` was called on an open transaction.

Translated from `ep.hh`: the constructor of the context, `commitSoon`,
`setTxnSize`, `getTxnSize`, `getNumUncommittedItems`, `addCallback`,
`shouldPreemptFlush`, `hasSeparateRODispatcher`,
`invokeOnLockedStoredValue`, `BGFetchCounter`. Everything else in the two
modules is declared in `ep.hh` and defined in files that are not among the
sources; it follows the comments of the declarations and the specification
of the engine. Where these leave a choice the model takes this reading:

* `enter` begins a transaction and sets `_remaining` to the transaction
  size only when none is open; the backend may refuse to begin, and the
  whole batch is rejected then.
* `commit` closes the transaction and sets `_remaining` to the transaction
  size; `leave(completed)` commits when `_remaining - completed <= 0` and
  subtracts otherwise.
* `flushSome` commits after its loop unless `shouldPreemptFlush` holds; a
  transaction left open is committed by a later `leave` or by the commit
  the engine enqueues between two flushes.
* The backend gives every new row an id it has not given before and reports
  the update of a row that does not exist as a failure; any write may fail
  (`MaxFailures` times in a run).
* A write that fails makes the record dirty again (`reDirty`) and rejects
  its item.

Left out: vbucket states and versions, checkpoints, `flushOneDeleteAll`,
the restore list, the mutation log, the observe registry, statistics.

### KVStoreFactory

`create`, `typeToString`, `stringToType` and `stringToCharPtr` are
operators. A name is a TLA+ string, so the comparisons of `stringToType`
are comparisons of the strings the code compares. `stringToType(name,
typeOut)` returns the record of its result and of what `typeOut` holds
afterwards; `create(c, type)` takes what its local variable `type` holds
before the call, which is any strategy or a value that is none
(`Uninitialized`), because the code declares it without a value.

`Engine` composes the factory with `Flusher`. Its variable `boot` holds the
configuration, the local variable `type` and, after the step `create`, the
backend `create` returned with what `type` held at the return. `initialize`
constructs the store on the backend, after which the steps of `Flusher` are
enabled and `boot` is the constant `Started`; without a backend the engine
stays `down`. The order of the two (the engine's own code is not among the
sources) follows the constructor of the store, which takes the backend as a
parameter.

## 3. Runs

| Run | Configuration | Distinct states | Checks |
|---|---|---|---|
| `versions` | `MCHashTable_versions.cfg` | 1.0 million | `CasNeverReused`, `StaleTokenNeverWins` |
| `records` | `MCHashTable_records.cfg` | 303 000 | `LockedRecordProtected`, `TypeOK`, `AccountingConsistent`, `EjectedIffPlaceholder`, `ImplementsVersionedMap` |
| `threads` | `MCHashTable_threads.cfg` | 12 600 | `AccountingConsistent`, `RecordsHomed`, `ShadowedRecordsExpired`, `CeilingOverrunBounded`, `CallsReturn` |
| `refine` | `MCHashTable_refine.cfg` | 109 000 | `ImplementsVersionedMap` |
| `visitors` | `MCTableLifeCycle_visitors.cfg` | 152 000 | `TypeOK`, `NoWalkOnFreedTable`, `DestructorEnds`, `StatVisitorCountsTable`, `DepthVisitorFindsExtremes` |
| `plan` | `MCChunkRangeList_plan.cfg` | 90 600 | `TypeOK`, `RangesSorted`, `RowIdsDeletedOnce`, `CoverageNeverShrinks`, `CreateRangeListIsChunking`, `AdaptingKeepsDisjoint` |
| `flush` | `MCFlusher_flush.cfg` | 901 000 | `TypeOK`, `AssertionsHold`, `RowsOwned`, `CleanMeansPersisted`, `DirtyIsQueued`, `CommitSoonHonoured`, `EventuallyPersisted`, `NamesRoundTrip`, `CreateIgnoresUninitialized` |
| `duplicate` | `MCHashTable_duplicate.cfg` | violation | `NoDuplicateKeys` |
| `del_locked` | `MCHashTable_del_locked.cfg` | violation | `LockedRecordProtected` |
| `nonresident` | `MCHashTable_nonresident.cfg` | violation | `NonResidentCountExact` |
| `touching` | `MCChunkRangeList_touching.cfg` | violation | `AddKeepsDisjoint` |
| `active` | `MCTableLifeCycle_active.cfg` | violation | `TouchedOnlyWhileActive` |

The table's state space multiplies quickly, so each run turns on the
operations its question needs.

**versions.** One caller; two keys ("aaa" and "xzmnvflr", hashes 193409700 and
-750959766) that fall into the same bucket of two, so that tombstones and expired records of one key stand
in front of records of the other; `set`, `add`, `softDelete`, `del`,
`addUnlessThere`; client CAS values 0..4; expiry at real time 11 with the
clock running from 10 to 12. The generator hands out 3..5 and the backup
holds CAS 1: the run assumes that a restarted process seeds its generator
above every CAS of the backup plus one. Without that assumption a restored
tombstone (CAS of the backup plus one) and a new value share a CAS. The
seeding is in code that is not among the sources, so `CasNeverReused` shows
that the table reuses no CAS given a generator seeded that way, and says
nothing about the seeding. The second assumption is `Restorable`: the
restore offers no version that was replaced since the backup was taken.

**records.** One caller, one value, the keys in buckets of their own ("aab"
and "woixzhsd", hashes 193409703 and -206648983, three buckets);
`getLocked` and `unlockKey` with a lock timeout of 1 and the clock running
to 2; `evict`, `restore` and `add` both as a client calls it and as warmup
does (clean, value not kept); `set`, `softDelete`, `del` with CAS arguments
0 and 3. Locks and residency meet here: a locked record is ejected and
restored, an ejected record is locked, deleted and set again.
`ImplementsVersionedMap` is checked here with locks, the clock and
residency on: every step of the table is a step of the map or leaves it as
it is. That is more than `LockedRecordProtected`, which looks at one step of
a locked record: the refinement also says where a lock comes from and where
it goes. A `set` that stores the new value and leaves the lock on
(`setValue` does not look at the lock bits; line 979 is the only `unlock()`
of that path) passes `LockedRecordProtected` and fails the refinement, as
does a lock that outlives `lock_expiry` or a `softDelete` that goes through.
With both keys in one bucket `LockedRecordProtected` fails (run
`del_locked`), which is why the keys have buckets of their own. `TypeOK`
of this run says, besides the types, that every call works on a bucket of
the table although the hash of the second key is negative: C's `%` of it
is negative too, and `getBucketForHash` takes `abs` of it. Expiry is
off in this run (it is on in `versions` and `duplicate`): with it the run
does not finish within minutes.

**threads.** Two callers, two stripe mutexes, bucket counts 2 and 3 and two
resizes, records of the small variety, a ceiling (98 bytes) that admits one
record. Checked under `FairSpec`. Expiry is off: with it, the duplicate
record of run `duplicate` is brought to the front by a resize and
`ShadowedRecordsExpired` fails for that reason.

**refine.** Two callers (interchangeable, so TLC checks one of each pair
of mirrored states), two stripes, one resize between bucket counts 2 and 3,
`set`, `add`, `softDelete`, `del` and `addUnlessThere` with CAS arguments 0
and 3, a generator that hands out 3 and 4, a backup with CAS 1. TLC checks
that every step of the table is a step of `VersionedMap` or leaves the map
as it is. It shows that a call takes effect at one instant although a
caller computes its bucket, checks for space and stores in separate steps
while the table is resized, and that the versions follow the rules of the
map. Without the stripe mutex it fails. Locks are off here and on in
`records`: with two keys in one chain `del` removes a locked record (run
`del_locked`), and with two callers the run with locks has 2.8 million
states before the refinement is checked.

**visitors.** Two visitors, either with a `HashTableStatVisitor` or a
`HashTableDepthStatVisitor`, two buckets, chains of up to two records, a
resident record of 111 bytes and an ejected one of 99; stores, `clear` and
the destructor at any moment. Checked under `FairSpec`. The table is freed
only when no walk is in it; the destructor ends; a walk that nobody crossed
reports the records, the bytes and the shortest and longest chain the table
has. The run stops when the table is freed, so deadlock is not checked.

**plan.** The visitor is shown ids -2, -1 and 1..5; chunk sizes 1..3; range
sizes 0..3; `add` with any pair of ids while the list has fewer than
`MaxRanges` = 3 ranges; the visitor is destroyed at any point.
`RowIdsDeletedOnce` says that the set of ids is freed exactly once by
`createRangeList` and the destructor between them: it depends on
`createRangeList` leaving NULL in `row_ids`, and on the destructor freeing
the set of a visitor that never built its list.

**flush.** One client, two keys, one value, transaction sizes 0, 1 and 2, reads
on the flusher's dispatcher, three changes of records (`MaxCas`), one
failure of the backend, one background fetch at a time. Checked under
`EngineFairSpec`. What it shows:

* `AssertionsHold`, `RowsOwned`: the row id protocol survives every
  interleaving of the client with the flusher. `AssertionsHold` covers both
  assertions of `setId`: the record has no id before, and what it is given
  is an id (above 0) after. A record whose first write is
  on its way is not written again (its item is rejected while the id is
  pending); a deletion whose callback finds the key set again makes the
  record forget the id; an update that finds its row deleted is redone as an
  insertion. No key ever has two rows and no row outlives its record.
* `CleanMeansPersisted`: a clean record with no write outstanding is on disk
  as it is in memory.
* `DirtyIsQueued`: the key of a dirty record is always somewhere between the
  client and the flusher, also when a transaction does not begin or a write
  fails.
* `CommitSoonHonoured`: after `commitSoon` the next `leave` commits, also
  when the flusher was preempted with room left in the transaction.
* `EventuallyPersisted`: once the client stops, every record is clean and on
  disk for good, provided the transaction size is positive in the end.
  `setTxnSize` takes any `int`. While the size is 0 every batch of
  `flushSome` is empty: the flusher begins, commits and leaves without
  writing, and the property without its condition is violated by that loop.
  With the condition it says that nothing is lost meanwhile: the queue, the
  rejects and a transaction that was open when the size became 0 are all
  taken up again.
* `TypeOK`: besides the types, a transaction never holds more writes than
  the largest transaction size, every uncommitted item has its callback, and
  the batch size of `flushSome` is at most the transaction size.
  `remaining()` returns the `int` `_remaining` as a `size_t`
  (`remainingUpdates`); `_remaining` is -1 after a `leave` on a closed
  transaction, and read then it would be a batch of 2^64 - 1. `flushSome`
  reads it after `enter` only, which has set it anew.
* `NamesRoundTrip`, `CreateIgnoresUninitialized`: the engine starts from any
  of 42 configurations (backends sqlite, couchdb and one that does not exist;
  the names of the five strategies, one in another spelling and the empty
  one; a database name and none) with any value in the unassigned local of
  `create`. The backend it gets does not depend on that value, a name
  written by `typeToString` is read back as the same strategy, and the
  engine is down exactly for what the factory does not know.

### Bounds

| Bound | Value | Why it is enough |
|---|---|---|
| `MaxCas` (`Flusher`) | 3 | three changes give set, delete and set again of one key, or changes of two keys in one batch, each crossing the write of the one before; with 4 the run does not finish in five minutes |
| `TxnSizes` | {0, 1, 2} | a batch that fills a transaction, one that does not, a size changed while a transaction is open, and the size with which nothing is written |
| `PreemptAfter` | 0 | stands for the 100 of `shouldPreemptFlush`: the flusher gives way after the first write of a batch, as it does after the 101st |
| `MaxFailures` | 1 | one failed begin or one failed write, at any point |
| `MaxFetches` | 1 | `shouldPreemptFlush` asks only whether a fetch waits |
| `MaxCas` (`HashTable`) | 3 to 5 | three stores reach every order of value, tombstone, expired record and replacement of a key; `WellFormed` admits a call only while a CAS is left for it, so no call blocks on the bound |
| `MaxTime` | 0 to 3 | one tick past the expiry (11) and two past a lock timeout of 1 |
| `MaxResizes` | 2 | a caller can be overtaken by a resize on its first attempt and again on its retry |
| `MaxRanges` | 3 | bounds only `add`; splits are bounded by the width of the ranges |
| `CounterMod` | 65536 | stands for 2^64: only wrapping at zero matters |
| `SizeMod` | 65536 | stands for 2^64, the values of the `size_t` that `remaining()` returns |
| `Visitors`, `NumBuckets`, `MaxDepth` | 2, 2, 2 | two walks overlap each other and the destructor; two buckets give a first and a later bucket, an empty and a longer chain |
| keys, values | 2, 1 or 2 | two keys give chains of two records of different keys and two stripes; two value lengths tell a placeholder from the wrong one |

### Fairness

`FairSpec` is `Spec` with strong fairness on `Leave(t)`, the steps a thread
takes once it is in a call. A pthread mutex that is released again and
again is eventually acquired by a thread that keeps waiting for it, and a
thread that holds it runs on; weak fairness would not do, because another
caller or a resize disables the step in between. Nothing is assumed about
`Begin`, `resize` or `Tick`: callers need not call and the table need not be
resized. `resize` is bounded by `MaxResizes`; without a bound a caller can
be overtaken forever, which the code does not prevent either.

`FairSpec` of `TableLifeCycle` is weak fairness on the steps of a walk that
has begun and on `free`: a walk is a loop that holds one mutex at a time
and nothing disables its next step; the destructor polls every 100
microseconds. Nothing makes a walk, a store or the destructor begin.

`EngineFairSpec`, under which run `flush` is checked, is `FairSpec` of
`Flusher` with weak fairness on the two steps of the start, which nothing
delays. `FairSpec` of `Flusher` is weak fairness on `FlusherStep`, the steps of the
flusher thread, and on `queueDirty(c)` for every client. The flusher is a
task the dispatcher runs again and again, nothing but its own program order
decides its next step, and the commit between two flushes is part of it; a
client that has changed a record is inside `set` or `deleteItem` and returns
through `queueDirty`. Nothing is assumed of clients, administrators or
background fetches otherwise. Failures are bounded by `MaxFailures`: a
backend that always fails persists nothing, which the engine cannot help.

## 4. Findings

* **A key with two records** (`duplicate`, `stored-value.hh:999`). `set`
  without a CAS over an expired record links a new record and leaves the
  expired one linked, counted and charged. `del` then removes the new one
  and the expired one is first again.
* **A locked record deleted** (`del_locked`, `stored-value.hh:1237`).
  `unlocked_del` asks the predecessor, not the record, whether it is a
  tombstone. Trace: set k1, set k2, getLocked k1, softDelete k2, del k1.
* **numNonResidentItems wraps** (`nonresident`, `stored-value.hh:987`).
  Trace: set, evict, softDelete, set. The record gets to be non-resident
  by `evict`, which follows the specification; the counter is decremented a
  second time by `setValue` of the sources.
* **Touching ranges** (`touching`, `ep.hh:134`). `add` appends a range that
  begins at the id the last one ends at. `RangesSorted` is what the code
  does keep: ranges in order that share at most that id.
* **A transaction size of 0** (`flush`, `ep.hh:360`). `setTxnSize` refuses
  no size, and with 0 the flusher never writes. The specification speaks of
  the configured transaction size and not of who keeps it positive;
  `EventuallyPersisted` holds under that condition only.
* **Assertions that cannot fail** (`active`, `stored-value.hh:1332`).
  `active()` is `return activeState = true;`. Every `assert(active())`
  passes and switches the flag on. Trace: a walk begins, the destructor
  clears and deactivates the table, the walk touches its next bucket: the
  table is active again while it is destroyed.

Seen while modelling and not the subject of a run: a value stored over a
tombstone can have the CAS of the tombstone (`set` draws g, `softDelete`
makes it g + 1, the next `set` draws g + 1), where the specification has
the CAS increase with every mutation; `VersionedMap` allows it, and
`CasNeverReused` is about the CAS values of replaced values, the ones a
client can have been given. `createRangeList` closes
a chunk after `chunk_size` ids whatever their distance, so ids {1,2,3,7,8,20}
with chunk size 3 give [1,3] and [7,20], where the specification's example
has [7,8] and [20,20]; `hasId` is `id > 0`, so a row id of 0 counts as none;
the constructor of `HashTable` replaces the variety it is given by the
default one.

## 5. Not modelled

What is left is code that cannot be read, or that holds no behaviour. A
model of it would be a model of a guess.

* **`VBucketVisitor` and `VBCBAdaptor`** (`ep.hh:55-105`, `387-415`). The
  base class answers with constants: `visitBucket` asks the filter,
  `pauseVisitor` is false, `complete` is empty, `visit` aborts. What a
  visitor does is in its subclasses; the constructor and the callback of
  `VBCBAdaptor`, the dispatcher that runs it and the vbucket map it reads are
  not among the sources, and the specification says only that a paused
  visitor is scheduled again.
* **Walks next to callers of the full table.** The bodies of `visit`,
  `visitDepth` and `clear` are not among the sources; `TableLifeCycle`
  follows the specification for them, on records reduced to a size and a
  resident bit. Composed with `HashTable`, the question would be how a walk
  and a `resize` exclude each other, and neither the sources nor the
  specification say.
* **Deletion of a vbucket end to end.** `VBDeletionChunkRangeList` is the
  planner; the code that drains it against the rows of the backend
  (`vbucketDeletion` and the backend's `delVBucket`) is outside the sources.
* **Eviction next to the flusher.** The pager that chooses what to eject and
  the background fetch that brings a value back are outside the sources;
  `evict` and `restore` of `HashTable` are what the record and the counters
  do when they are called (run `records`).
* **Restart.** Warmup is modelled as far as the table goes (`add` with
  `isDirty = false` and `storeVal = false`, `addUnlessThere`); the loader
  that reads the rows and the stop of the process are outside the sources,
  and `versions` states the one assumption the table makes of them.
* **The client of `tests/suite_stubs.c`.** It calls the engine through the
  server API (`store`, `get`, `remove`, `arithmetic`, `unknown_command`),
  none of which is among the sources, in sequences that are generated
  elsewhere. What it relies on of CAS values and locks is the promise of
  `VersionedMap`.
* **Expiry in the abstract map.** With expiry a key has a stack of records
  (run `duplicate`), so the table is not a map of versions; what holds of
  expired records is checked as `ShadowedRecordsExpired` and
  `StaleTokenNeverWins`.
* **Row ids at the end of `int64_t`** (`ep.hh:181`): `first + range_size`
  overflows a signed type, which is undefined; the row ids of the model are
  small and the bound is not reached. **A negative transaction size**
  (`ep.hh:360`): `setTxnSize` takes any `int`, and what `enter` does with a
  negative one is in code that is not among the sources; the sizes of the
  runs are 0 and above. **The pointer `find` returns** (`stored-value.hh:895`) outlives
  the mutex; what goes wrong depends on callers that are not among the
  sources. **A `visit` after `createRangeList`** (`ep.hh:253`) dereferences
  NULL; the model lets the visitor collect only while the set is there.
* **`incrementNumReplicas`** (`stored-value.hh:223`) adds to an 8-bit
  counter; no operation among the sources calls it.
* The command ids (`command_ids.h`) and the stream operators of
  `mc-kvstore/mc-debug.hh`, which hold no behaviour; the dispatcher, the
  backends and the wire protocol, which are outside the sources.
