# Verification of TurboHash

TLA+ models of the TurboHash tables (`src/turbo`), the TLC runs that check
them on small instances, and TLAPS proofs for every size. Paths below are
relative to `src/` of the repository's source; `turbo_hash.h` is the table in
DRAM, `turbo_hash_pmem.h` the persistent table on Ralloc, and
`turbo_hash_pmem_pmdk.h` the persistent table on PMDK.

## The system

A table is an array of buckets. The bucket of a key never changes. A bucket is
one 8-byte word (`BucketMeta`): two lock bits, the cell count, and the address of
a power-of-two array of cells. A cell is one or two hundred bytes: a version
word (a bitmap of the slots in use, a bitmap of those whose record was deleted, a
sequence number), a tag byte for every slot, and the slots. A slot holds the
hash or the key (`H1`) and the value or a pointer to the record (`entry`).

| component | state | operations | concurrency and failure |
|---|---|---|---|
| bucket word | `data_` | `Lock`, `Unlock`, `TryRehashLock`, `RehashUnlock`, `Reset` | every writer of the bucket; unlock and `Reset` are loads followed by stores |
| cells, probing | version word, tags, slots | `MatchBitSet`, `Full`, ..., `ProbeWithinBucket`, the searches | writers under the lock, readers without one |
| bucket operations | the cells of one bucket | `Put`, `Find`, `Delete`, `MinorRehash`, `MinorReHashAll`, `GCAll` | a rehash replaces all the cells while searches go on in the old ones; the process exits at `kCellCountLimit` |
| lock-free access | what a search has copied | `findSlot`, `deleteSlot` | the version is compared after the read, one write is tolerated |
| epochs | global and local epochs, lists of callbacks | `enterEpoche`, `markNodeForDeletion`, `exitEpocheAndCleanup` | readers hold memory that writers retire |
| persistent bucket | `BucketMetaPmem`, the cells and the records in persistent memory | `Store`, `Extract`, the flushes | a crash between any two steps; lines reach memory in any order |
| table and root | `TurboRoot`, all buckets | `Initialize`, `Recover` | a crash while it is created |
| allocators, records, hashing, printing | | | sequential, or libraries |

A `Put` enters an epoch, locks the bucket, searches, writes a free slot and then
the version word; if it finds no slot it rehashes the bucket into twice the
cells, under the lock, and starts over. A `Find` enters an epoch and searches
without a lock. A `Delete` searches without a lock and locks once it has found
the key. What a writer has unlinked goes to the epochs. The persistent tables do
the same to cells in persistent memory, flush what they have written, and keep
the bucket's address and cell count in a `BucketMetaPmem` with two versions of
both.

What must hold: the locks exclude, and no late store brings back an old
bucket; a bucket is a map, in which a search reaches every record; a reader
gets a value that its key had; nothing is freed while somebody holds it, twice,
or never; and after a crash the table is what the calls that returned made it,
with the interrupted one done or not done.

## Modules

| module | models | main correspondences |
|---|---|---|
| `BucketMeta` | the bucket word and its locks | `data` is `data_`, split in the two lock bits and the parts of the address in its low and high half; one step per load, CAS and store |
| `TurboCell` | cells and probing, as operators | a bitmap is a set of slots; `Finds`, `UpdateTarget`, `InsertTarget` are what `findSlot` and `findSlotForInsert` return |
| `TurboBucket` | a bucket with one caller; extends `TurboCell` | `Put` to `PutInsert`/`PutUpdate` is `insertSlot`; `RehashMove`, `RehashNextCell`, `RehashCommit` are the loop of `MinorRehash`, with `slotVec` and the iterator |
| `KVMap` | what a caller is promised: an atomic map | `TurboBucket` implements it, `map <- MapOf` |
| `CellSync` | one cell with many threads; extends `TurboCell` | every word that is read or written is a step: tags, version, `H1`, `entry`; `had` and `disturbed` are history |
| `SharedBucket` | a bucket with many threads; extends `TurboCell` | `cells` is the sequence of all cell arrays the bucket has had, the last one current; `at`, `copy`, `insert`, `target` are the locals of `findSlot`, `deleteSlot` and `insertSlot`; one step per version word copied, copy compared, lock taken, slot stored, version published; `disturbed`, `writes`, `intact` and `within` are history |
| `TurboEpoche` | `turbo_epoche.h` and its use by the tables | a place is a pointer readers follow, the bucket word or a slot; one step per load of another thread's epoch; the store of `enterEpoche` is seen some time after its load, so searches may come before it; `unseen` is history |
| `PmemBucket` | a bucket of the persistent tables; extends `TurboCell` | `vol`, `heap`, `meta` are what the program sees, `pmCells`, `pmHeap`, `pmMeta` what a crash leaves; `lines`, `second` and `flushes` are the layout: the lines of a record, the pointers of the `BucketMetaPmem` that lie in its next line, and whether `Store` flushes; `lost` is history |
| `DurableMap` | what a persistent table promises | `PmemBucket` implements it, over what a restart would find |
| `PmemTable` | `Initialize` and `Recover` of a whole persistent table | `roots` are the `TurboRoot`s, `stored` and `durable` the parts of entries and cells that are written, and in persistent memory; the layout of the entries is byte for byte that of the code, and each array begins anywhere in a line; `raw` is history, the roots no `Initialize` has filled |
| `MC*` | values for the constants | |
| `*_proof` | theorems | |

The modules compose by what they take for granted of each other:

- `TurboBucket` has one caller at a time. `BucketMeta` shows that the lock
  excludes, and `SharedBucket` what becomes of a call when the others run beside it.
- `SharedBucket` and `CellSync` take the lock as atomic, for the same reason.
  `SharedBucket` keeps what `BucketMeta` found of the rehash lock: any `Unlock` may
  clear it. It has a rehash in one step, because nobody but its owner sees the new
  cells before the bucket word changes; `TurboBucket` has the steps. It has the
  version word of a cell as one step and flat keys; `CellSync` has the words.
- `PmemBucket` takes the placement of a record in cells and the order of a search
  from `TurboBucket`, and the release of old buckets and records from
  `TurboEpoche`, as actions that may happen once the call that retired is over.
- `PmemTable` ends with the entries that `Init` of `PmemBucket` begins with, but
  for a last pointer that nobody flushed (below). It shows that an array has
  entries across two lines, which `PmemBucket` has as the layouts with a `second`.

What the models leave out on purpose: tags, except in `CellSync`, because they
only filter candidates before the keys are compared; the hashes, which are any
functions; wording and statistics. `CellSync` follows the order of the source
(`H1`, `entry`, tag, version), which x86 keeps among stores and among loads.

## Runs

| run | question | result |
|---|---|---|
| `BucketMeta_lock` | three threads, all four builds (CAS or `bts`, with and without `PIN_KEY_TO_THREAD`), two rehashes | the bucket lock excludes, the bit is set exactly while it is held, the address is never torn and never goes back, somebody always gets in |
| `TurboBucket_calls` | three keys, two slots a cell, one and then two cells: every cell fills up and the limit is reached | a key is in one slot and is reached, a rehash neither loses nor copies a record, the reserved slot stays free, full cells stay full, every call does to the bucket and returns what it would do to a map, every `Put` ends |
| `TurboBucket_unreachable` | four cells, and a probe limit of two | violated: a rehash may use the cell one step behind the limit |
| `Shared_calls` | two threads, three keys with one home, each written by one of them, four writes, both builds, with one cell and a limit of one or four | as long as no cell has lost its reserved slot (`intact`) and no rehash has put a record out of reach (`within`), a call that nobody disturbs is right, though the bucket is rehashed under it, `Put` and `Delete` take effect in the current bucket, and nothing else changes the map; no record is ever overwritten where it lies |
| `CellSync_lookup` | two threads, three keys of which two share a tag, three writes | a checked read is right while nobody is storing; only writers of the same key disturb a search; a `Delete` never hits another key |
| `CellSync_miss` | is a key that a search misses really absent? | violated: it was updated between the copies of the tags and of the version |
| `Epoche_buckets` | three threads, four objects, unlinked before they are retired | what was read with a visible epoch is not freed, nothing is freed twice, nothing lost, the counts match, all is freed in the end |
| `Epoche_fence` | is nothing freed that a search holds? | violated: it has read the bucket before its epoch is visible |
| `Epoche_records` | records are retired before they are unlinked | violated: a record is freed that was read with a visible epoch |
| `Pmem_crash` | four layouts, a crash at any step, any line written back at any time | a restart finds a bucket that is whole and current, what has returned is durable, the table is a durable map; each as far as the layout has it flushed |
| `Pmem_straddle` | does a restart find the last state, with an entry across two lines? | violated: it finds no bucket |
| `Pmem_table` | both libraries, five bucket counts (one of them wrong), arrays at four places of a line, two calls of `Initialize`, a crash at any step | what has returned survives but for a last pointer in a line of its own, a root that was filled never names an array that is not whole, with PMDK an old table stays until the new one is complete, and a program uses the last table that was returned |

Keys, values, threads or objects are symmetric where the configuration says so;
only runs with invariants, or with a property that names no single one, use
symmetry. Deadlock is not checked: a program that makes no call may stop, and the
counters of the models end (see below).

### Bounds

- `MaxDoublings` in `BucketMeta` is a bound of the code: the cell count stops at
  `kCellCountLimit`. Two rehashes suffice for a store to bring back either the
  bucket before or the one before that.
- `CellCountLimit`, `MaxProbeLen`, the slots of a cell are constants of the code
  made small: two or three slots instead of 7 or 14, a probe limit of one or two
  instead of 15. All that the code says about them is how they compare; the
  interesting cases are a full cell, a wrap around the bucket and a bucket with
  more cells than the limit, and each of them is in a run. `TurboBucket_calls` has
  one value, since that the bucket is a map for any values is a theorem.
- `Shared_calls` has a limit of one cell, where a `Put` that finds no slot ends the
  process, and of four, which is past the probe limit of two. Three records do not
  fill four cells, so that no rehash overruns the limit in it. TLC has also checked its properties
  on one that does (four cells at first and a limit of eight, one record a cell,
  four keys, 1.5 million states), and with cells of one slot, where four cells are reached
  by two rehashes; both take too long to be kept as runs.
- `MaxWrites` bounds the calls of `Put` and `Delete` in `SharedBucket`. The
  check tolerates one write, so three calls on one cell, and a fourth that rehashes,
  meet every case: the version is equal, one ahead, two ahead, or of a bucket
  that is replaced. A `Find` costs nothing of it.
- `MaxSeq` bounds the writes to the cell in `CellSync`. The third is the first
  that must be noticed by a search that started with an empty cell.
- `MaxEpoche` is the code's value for "in no epoch" and bounds the global
  epoch; `EpocheStep`, `LabelSize` and `GCThreshold` are 64, 32 and the
  constructor's 256 made small, so that an advance of the epoch, a full label and
  a cleanup happen within a few calls.
- `Objects`, `Buckets` and `Records` are the memory that can be allocated. An
  object is used once in `TurboEpoche`, which makes its use after it was freed
  visible; memory is used again in `PmemBucket`.
- `FirstLine` says which slots share a cache line with the version word: one of two.
  `Pmem_crash` takes a bucket of one cell: the order of flushes is the same for each
  cell. `Layouts` are four: flat records that are flushed, with an entry whose second
  pointer is in the next line; flat records that are not (PMDK), with both pointers
  there; records of one line, with both pointers there; and records of two lines, with an
  entry in one line. The proofs have all of them.
- `Counts` in `PmemTable` is {1, 2, 3, 4, 8}: three is no power of two, which ends
  the process; eight entries of 24 bytes take every place in a line of 64, also
  across two. `Bases`, where an array begins in its line, is {0, 16, 32, 48}: nothing
  aligns it to more than the 16 bytes of an allocation, and the last entry lies in
  two lines for some of them. `MaxTables` is two: an old table and a new one.

### Fairness

Safety needs none. `LockProgress` assumes that a thread inside a call goes on
(weak fairness of its steps), as the spinning loops do; it does not say that
each waiter gets in, since the lock is test-and-set. `PutEnds` assumes that a
`Put` that has begun goes on. Nobody has to begin a call.

## Proofs

TLAPS proves for all values of the constants (with the assumptions named in the
modules):

- `BucketMeta_proof`: type correctness, `MutualExclusion`, `LockBitTracksHolder`,
  `AddressWhole` and `BucketNeverReverts`. The inductive invariant says that a
  holder's bit is set, that the holder is unique, and that whatever a holder has
  loaded for a later store agrees with the word but for bit 1. The other thread
  may change bit 1 in between, which is why the rehash lock excludes nobody.
- `TurboCell_proof`: lemmas on probing (distances and cells correspond one to
  one within a bucket) and on what each write does to a cell.
- `TurboBucket_proof`: type correctness, `BackupSlotLeft` and `FullStaysFull`. The
  invariant strengthens them for the bucket being filled: below `slotVec` all slots
  are in use, from there on none. And, as long as no rehash overruns the probe
  limit (`NoOverrun`, the case that `TurboBucket_unreachable` shows to happen),
  `OneSlotPerKey`, `Reachable` and that the bucket implements `KVMap`. The
  invariant: in the bucket, keys are unique and every record is reached by its
  probe path, and in a rehash the moved records are the same ones, in cells
  reached through full cells. `RehashKeepsRecords`
  has the same proviso: each move adds one record to the bucket being filled, and
  none that is there already.
- `SharedBucket_proof`: all the properties of `SharedBucket`, for any number of
  threads, keys, cells, slots and calls, and any `kCellCountLimit` and probe limit. Type correctness and `NeverOverwrites` need
  no hypothesis. `BackupSlotLeft`, `OneSlotPerKey`, `UndisturbedIsRight`,
  `OthersUntouched` and `CallsTakeEffect` assume that each key has one writer
  (`OneWriter`), which is what `PIN_KEY_TO_THREAD` is named for; the default build
  does not ask for it, and without it `CallsTakeEffect` fails there (below). They speak
  of the time until a rehash puts a record out of reach (`within`, turbo_hash.h:1722),
  and all but `BackupSlotLeft` of the time while the cells are `intact`, which
  in the default build they are, by `BackupSlotLeft`. The inductive
  invariant has five parts. Of the locks and the locals of calls: whoever stores or
  publishes holds the lock, and its slot is a free one. `Alone`: no other thread writes
  the key of a `Put` or a `Delete` meanwhile. Of every array that the bucket
  ever had, since searches go on in old ones: its cells are sound, keys are
  unique, and records are on their probe paths. Of each call that nobody
  disturbs: the cells its search has passed are full and do not have its key, its copy
  agrees with the cell on the key, however many other writes there were, and the
  slot that it chose is right. And of a `Put` in the lock of the default build: its
  slot does not use up the reserved one. A rehash is one step, a function
  of the position that is moved, and an induction over positions (by way of the
  least one at which the claim fails) shows that the new array holds the same map.
- `TurboEpoche_proof`: type correctness; and, for objects that are unlinked before they
  are retired, `WaitsOnce`, `NothingLost`, `CountMatches`, `AllFreedAtEnd` and
  `SeenIsNotFreed`. The invariant of the last: an object that a thread has read while
  its list showed an epoch, and that waits on a label, waits under an epoch that is not
  before the one the list shows, nor before the one that the thread is about to store;
  and a scan that has passed the thread has found an oldest epoch not after that label's.
- `CellSync_proof`: type correctness, `CheckedReadIsRight`, `EraseHitsKey` and
  `OthersDoNotDisturb`, for any number of threads, keys and writes. The invariant
  has two halves. Writers: whoever holds the lock stores only into slots that the
  version word does not declare valid, and the valid slots hold whole records with
  different keys. Readers: while at most one version was published since a thread
  copied it, a slot of the copy into which nobody is storing is as it was.
  `OthersDoNotDisturb` needs, beside it, that the copies of an undisturbed search
  still show its key.
- `PmemBucket_proof`: all the properties of `PmemBucket`, for every layout: type
  correctness, `RecoversBucket`, `ReturnedIsDurable`, and that the bucket implements
  `DurableMap`. What the layout does not flush is not assumed away but named. `WholeMeta`,
  `WholeCell` and `WholeHeap` are the persistent memory completed by the lines that
  nobody flushes; a crash at which a restart needs one that is missing adds to
  `lost`; and the properties end there. The invariant has two layers. `MetaInv`: at each step of
  a rehash, which bucket the completed entry names, which one its other version names, and that what
  is in persistent memory is the one before or the one after the store that is not
  flushed yet. `ContentInv`: a slot or a record that is stored and not yet in the
  bitmap is the only thing that may differ between the caches and the completed
  memory; once the bitmap has it, the version word is; and a bucket that a
  rehash has filled holds the same map as the one in use. The durable map follows
  step by step: only the write-back of the version word, at its flush or before,
  changes what a restart would find, and that is `Commit` or `Return`.
- `PmemTable_proof`: all the properties of `PmemTable`, for any bucket counts,
  number of tables, address of each array and contents of a new Ralloc root. The
  invariant: what the loop has passed is in persistent memory, except a pointer that
  lies in a line of its own, which the next `Init` flushes and the last entry has not
  (`LastPointer`); only the table being filled lacks more than that; a root that was filled has
  its pointer only when the table it names is complete but for it; and the roots in
  the caches differ from those in persistent memory only while `Initialize` stores
  their fields.

TLC checked the inductive invariant of `SharedBucket` before its proof, on the instance
of `Shared_calls`, and on the pinned build with a fourth key, where the cells do
not stay intact.

Only model-checked: the liveness properties (`LockProgress`, `PutEnds`), which
the prover does not do.

## What the code does not keep

Five runs show a disagreement between the code and what its comments say; the
lines are in `PROJECT.json` under `findings`.

1. `TurboBucket_unreachable`: a rehash may store a record one cell beyond what any
   search looks at, in a bucket with more cells than the probe limit.
2. `Epoche_records`: records are retired before they are unlinked, so a reader can
   hold one that is freed.
3. `Epoche_fence`: the store of the epoch is not ordered before the loads of the search.
   A reader whose last cleanup left "in no epoch" in its list can hold a bucket that
   another thread's cleanup frees.
4. `CellSync_miss`: a search can miss a key that is updated meanwhile: tags and version
   are two loads, and the version is not compared on a miss.
5. `Pmem_straddle`: an entry of `BucketMetaPmem` in two cache lines is flushed by halves.
   After the first rehash of such a bucket its version word is in persistent memory and its
   pointer need not be: a crash, however much later, leaves no bucket. With 24 bytes an
   entry the third of every eight of an aligned array has its second pointer in the next line,
   and the sixth both.

The following are no runs, but each is in the models, and is what a property of a run
excepts or what a hypothesis of a theorem excludes:

- Two writers of one key (`OneWriter`). `deleteSlot` searches without the lock and
  tolerates one write when it has it: two deletions of one key both return true and
  retire its record twice, and `CallsTakeEffect` is violated when two threads of `Shared_calls` share
  their keys. A deletion beside an update of its key marks the slot that the update
  has left, retires its record again and returns true, while the key stays; in the
  model this step also makes the cell unsound (an unused slot is marked erased), so
  `intact` ends with it.
- With `PIN_KEY_TO_THREAD` a `Put` stores into the slot that it chose before it had
  the lock, if that is not in use by then (`intact`). Several of them can use up the slot of a
  cell that is reserved for updates; and an update that chose a free slot, which
  was filled and erased meanwhile, leaves the cell with one used slot less. Either
  way a cell that ended no search before ends it now, and keys that lie beyond
  it are missed or stored again: with four keys in two cells of two slots TLC
  finds both.
- With `PIN_KEY_TO_THREAD` two threads can own the rehash lock, because an
  unlock stores the low half of the word back. `SharedBucket` includes it.
- A rehash that puts a record out of reach (`within`): the search misses it, and a `Put`
  stores its key a second time. This is run 1 again, with many threads.
- PMDK's `SlotRecord::Store` flushes nothing (`turbo_hash_pmem_pmdk.h` 1290-1294, though 2242
  says "contain sfence"), and `insertToSlotAndGC` only the first line of the cell: a `Put`
  has returned, its slot lies in another line, and a crash loses it while the bitmap
  says it is valid. In `PmemBucket` these are the layouts without `flushes`.
- Of a record of several lines only the first is flushed (`turbo_hash_pmem.h` 1327): the
  layouts with two `lines`. A crash leaves a value that was never stored.
- The last entry of an array, if its first pointer begins a line, is flushed by nobody:
  `LastPointer` in `PmemTable`. A crash after `Initialize` may leave a table whose last
  bucket is nowhere.
- Ralloc's `Initialize` makes a block the root before it stores its fields, and
  `RP_malloc` does not clear it (`raw`): a `Recover` after a crash or a wrong setting in
  between follows whatever the block held, which may be the fields of an old root.

## Not modelled

- Allocators (Ralloc, libpmemobj, jemalloc) are outside of the repository. A
  model has a set of objects that can be handed out. An allocation never fails.
- The byte layout of records, hashing, iteration and printing are sequential and
  have no state of their own.
- `CCEH-PMDK`, `Dash` and `Clevel-Hashing` (with its copy of libpmemobj-cpp) are
  hash tables and libraries of others, vendored for comparison in the benchmarks.
  TurboHash calls none of their code. They are most of the lines of the repository.
- `FLUSH` has no memory clobber; what a compiler
  may do with that is not modelled.
- `findSlot` loads the bucket word twice, for the address and for the cell count;
  `SharedBucket` takes both at once, and so may a compiler.
- In `SharedBucket` the key of a slot is read with the slot: for flat keys it is
  the `H1` word. A record behind a pointer that is freed meanwhile is in
  `TurboEpoche`.
- `PmemTable` gives every `Initialize` the same bucket count. With a bigger one
  over an old table PMDK's root can keep the old pointer with the new count.
- `MinorReHashAll` and `GCAll` beside other callers, which their comment excludes.

## Plan

Every safety property of the runs that pass is a theorem. Next: what the
hypothesis `OneWriter` can be weakened to, by splitting off the calls that need
it; what a pinned bucket keeps after its cells are no longer `intact`; and the
hazards in `PROJECT.json` that no property covers, of which `MinorReHashAll` and
`GCAll` beside a `Put`, and the two loads of the bucket word in `findSlot`, are
steps that `SharedBucket` could take.
