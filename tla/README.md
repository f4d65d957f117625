# TLA+ models of kopia/repo

This directory holds TLA+ specifications of the storage core of the
repository, the TLC configurations that check them, and `PROJECT.json`, which
lists the components, the runs, the source lines every definition models, the
findings and the hazards. Run a configuration with

    tlc -workers 2 -config <file>.cfg <MC module>

## 1. The system

The repository is a content-addressable store on top of a flat blob store.
Its parts, and where their code is:

| part | code | state | operations |
|---|---|---|---|
| storage contract test | `src/unnamed/part_000`, `src/internal/storagetesting/map_test.go` | the store under test, the test's failed flag | VerifyStorage, AssertConnectionInfoRoundTrips |
| blob store interface | not in `src/`; its contract is what `src/unnamed/part_000` tests | map blob ID -> bytes | PutBlock, GetBlock(range), DeleteBlock, ListBlocks(prefix, callback), Close, ConnectionInfo |
| logging wrapper | `src/unnamed/part_002` | base store, printf sink, prefix | the six calls, forwarded and logged |
| pack index builder / codec | `src/block/builder.go` | map block ID -> Info | Add, Build (sortedBlocks, prepareExtraData, writeEntry, formatEntry) |
| disk index cache | `src/block/committed_block_index_disk_cache.go` | a directory of `<id>.sndx` files and temporary files | hasIndexBlockID, openIndex, addBlockToCache (writeTempFileAtomic), expireUnused |
| committed block index | not in `src/` | active set of index blobs | lookup, list, use of the cache |
| block manager | not in `src/`; tests `src/unnamed/part_003`, `part_004` | pending index, current pack, blob store | WriteBlock, Delete, Flush, RecoverIndexFromPackFile, CompactIndexes, Get |
| retry helper | not in `src/`; test in `src/unnamed/part_001` | attempt counter, delay | WithExponentialBackoff |
| S3 adapter | not in `src/`; test in `src/unnamed/part_001` | remote bucket | the blob store calls, each through the retry helper |

How they interact: the block manager folds the entries of a pack into a
`packIndexBuilder`, `Build`s an index blob and puts it into the blob store;
every process that opens the repository copies index blobs into its disk
cache (`addBlockToCache`), maps them (`openIndex`) and now and then sweeps the
cache (`expireUnused` with its active set as `used`). Compaction reads several
index blobs into one builder, which is where `Add`'s merge rule decides which
entry of a block survives. The cache directory is shared by all processes of
a user, with the file system as the only synchronisation.

What is hard in each part:

* **disk cache**: processes interleave at every system call; a call fails or
  the process dies between two of them; the sweep acts on a listing that is
  stale when used.
* **builder**: the merge must not depend on arrival order; the entry layout
  packs several values into one word, each with a width; the output goes
  through a buffer that is flushed when full, before later entries are checked.
* **remote store**: an attempt times out after the store has carried it
  out, and the retry meets a store the first attempt already changed.
* **block manager**: a crash between the upload of a pack and the upload of
  its index; an upload that reaches the store while its answer is lost;
  timestamps of whole seconds; recovery of an index from a pack; a
  compaction cut short between its deletions.

## 2. Plan

Modules, in the order they were written:

1. `DiskIndexCache`: the cache directory shared by processes.
2. `PackIndexBuilder`: Add and Build, with the reader of the format.
3. `BlobStore` and `LoggingStorage`: the abstract blob store (the contract
   `VerifyStorage` tests) and the wrapper, with the run that shows the
   wrapper implements the store it wraps when the log is hidden, and the
   listing callback that deletes while it lists, as the recovery test does.
4. `VerifyStorage`: the storage contract test as a client of `BlobStore`,
   which ties the contract to what the repository's own test expects of a
   store.
5. `BlockManager`: pending index, flush in its two uploads, crash, index
   recovery from packs and compaction; modelled from the specification, the
   code being outside `src/`, and from `TestBlockIndexRecovery`.

6. The faults of the store as the block manager meets them: a call that
   took effect and reported a failure, and the clock of whole seconds, with
   the run that shows what equal seconds cost.

7. `Retry` and `RetriedStore`: the retry helper and a remote store's
   adapter that calls through it, put between the contract test and the
   contract, as `TestS3Storage` runs the test.

Section 9 says what was left out and why.

## 3. DiskIndexCache

`DiskIndexCache.tla` models `committed_block_index_disk_cache.go` for a set
`Procs` of processes and a set `IndexIDs` of index blocks.

State: `dirExists`, `files[id]` (the file `<id>.sndx` or `NoFile`), `tmps[n]`
(the temporary files), the clock `now`, and per process the program counter
`pc`, the argument `arg`, the temporary file in hand `tmpFile`, the map
`remaining` of `expireUnused` and the `result` of the last call. A file is a
record of how much of the index block it holds (`empty`, `partial`, `full`)
and its modification time.

| action | code |
|---|---|
| `HasIndexBlockID` | `hasIndexBlockID`: one `os.Stat` |
| `OpenIndex` | `openIndex`: `mmap.Open` and `openPackIndex` |
| `AddBlockToCache` | `addBlockToCache` up to the first presence check |
| `CreateTemp`, `MkdirAll` | `ioutil.TempFile`, and the retry after `os.MkdirAll` |
| `WriteTemp`, `CloseTemp` | `tf.Write`, `tf.Close` |
| `RenameTemp` | `os.Rename`; it replaces an existing file, as rename(2) does |
| `RecheckAfterRename` | the second presence check after a failed rename |
| `ExpireUnused` | `ioutil.ReadDir` and the two loops that build `remaining` |
| `SweepEntry`, `SweepDone` | one iteration of the removal loop; `return nil` |
| `Crash` | the process dies inside a call; the directory stays as it is |
| `Tick` | the clock advances |

Each system call is one atomic step, so processes interleave exactly where
the operating system lets them. `Faulty` names the calls that may fail in a
run, and `"crash"` in it lets processes die.

### Runs

* **cache_safety** (`DiskIndexCache_safety.cfg`, passes, 229 049 states): two
  processes, two index blocks, two temporary files, every call may fail,
  crashes allowed, `CleanupTime = 0`, clock up to 1, under `FairSpec`.
  - `InstalledIndexIsComplete`: a file visible under an index block's name is
    whole, and `openIndex` never maps a truncated one.
  - `SuccessMeansInstalled`: a call reports presence or success only when the
    file is in the directory at that moment.
  - `RemovalJustified`: the sweep removes a file younger than the cleanup
    time only when the listed modification time is old and is not the file's.
  - `CallsReturn`: every call returns, whatever fails and whatever the
    other process does to the directory meanwhile: each process is idle
    again and again.
* **cache_young** (`DiskIndexCache_young.cfg`, violated): `YoungEntriesRetained`,
  the claim of the code's own log line. No failure is needed: two adds race
  on one ID, the sweeper lists the first file, the second rename replaces it,
  the clock advances, the sweeper removes the new file by the old time.
* **cache_tmp** (`DiskIndexCache_tmp.cfg`, violated): `NoOrphanTempFiles`.
  One failed rename leaves a temporary file nothing ever removes.
* **cache_found** (`DiskIndexCache_found.cfg`, violated): `FoundIndexOpens`,
  what the committed block index relies on when it fetches only the index
  blobs `hasIndexBlockID` did not find and then opens them all. No call
  fails: process 1 installs a block and finds it present; process 2, whose
  active set does not hold it, has listed the directory; the clock passes the
  cleanup time; process 2 removes the file; `openIndex` of process 1 fails.
  Entries expire by the age of their write and by the sweeper's own `used`
  list, not by the age of their last use.

### Bounds

Two processes give every pairwise race (add/add, add/sweep, sweep/sweep);
two IDs let a sweep hold a listing of two entries while one is used. Two
temporary names are enough for both processes to write at once, and let
`TempFile` fail for lack of a name when crashed processes left both behind.
In the passing run `CleanupTime = 0` and `MaxTime = 1`: a file is young in
the second of its write and old in the next, so a sweep can list a file at
second 0 and find, at second 1, an old listing and a young file under the
same name. The runs that expect a violation keep `CleanupTime = 1` and a
clock up to 2, where a file is young for two seconds. The clock is bounded in
`Tick`'s guard. The passing run checks a liveness property and therefore
uses no symmetry; the two processes and the two index blocks are plain
sets.

### Fairness

`FairSpec` assumes weak fairness of `Running(p)`, the steps inside a call, for
each process: the code between two system calls is straight-line, no call
waits for another process (there are no locks), so a process inside a call
that is not killed takes its next step. Starting a call, `Crash` and `Tick`
are not fair: nobody has to call, die or wait.

## 4. PackIndexBuilder

`PackIndexBuilder.tla` models `builder.go`.

State: `builder`, the map from block ID to Info; `status`, `written` and
`index`, the outcome of the last `Build`: how it ended, how many bytes the
output received, and the index when all of it was written; and the history
variable `newest`, the greatest timestamp every block ID was ever added
with (`Noted(i)`, conjoined with `Add(i)` in `Next`).

Abstractions. A block ID is a natural number, ordered as the ID strings are;
`KeyLen[id]` is `len(contentIDToBytes(id))`. `KeyOrder` sorts by the block
ID: it assumes that `contentIDToBytes`, which is not in `src/`, keeps the
order of the IDs, as the sort of `sortedBlocks` by ID string and the
reader's binary search by key bytes together require. A pack file name is the sequence
of its bytes `<<name, 1>>, ..., <<name, PackLen[name]>>`, and the name of
length 0 is the empty string. The four fields of an entry are kept as
numbers with the code's bit layout; TLC's integers have 32 bits, so the widths
are constants (`TsBits`, `ByteBits`, `OffBits`, in the code 48, 8 and 31) and
the configurations scale them to 2 bits: what overflows a field in the code
overflows it in the model. `WordBits` is the width of a `uint32` (`Uint32` is
the conversion): `packFileOffsets`, `extraDataOffset`, their sum in an entry
and the entry count of the header are taken modulo `2^WordBits`, 6 bits in
the configurations, so that an index of 64 bytes is what one of 4 GiB is to
the code. `BufSize` is the size of `bufio.Writer`'s buffer,
4096 in the code and 40 in the configurations, so that the third entry
crosses it. `WriterLimits` are the byte counts after which the output's
`Write` fails. `Emit`, `Flush` and `BufWrite` are the behaviour of the Go
library's `bufio.Writer`; `DecodeEntry`, `Search` and `Lookup` are the reader
of an index, after the documented layout (the reader's code is not in `src/`).
`indexLayout` is the type of the layout `prepareExtraData` fills in, and
`writeEntry` one iteration of `Build`'s loop: nothing after an error, a
refusal, or the two `Write`s of key and entry.

| action | code |
|---|---|
| `Add(i)` | `packIndexBuilder.Add` |
| `Build(limit)` | `Build`, with `sortedBlocks`, `prepareExtraData`, `writeEntry`, `formatEntry` and the final `Flush` |

### Runs

All four use four block IDs (the third with a longer key), pack files of 1,
2 and 5 bytes and the empty name, timestamps around the 2-bit limit, and an
output that fails at once, after 40 bytes, or never. An index of two entries
has 53 to 55 bytes and one of three 75 or more, on either side of
`2^WordBits = 64`.

* **builder_codec** (`PackIndexBuilder_codec.cfg`, passes, 9 069 states).
  - `RoundTrip`: when `Build` returns nil the output holds the whole index and
    it reads back as the builder, for Infos that fit the fields and an index
    no longer than a `uint32` counts. Without the last condition the property
    fails: the offsets of a longer index wrap and its entries name bytes that
    are not their pack file.
  - `TypeOK`, which includes that the layout of the builder's blocks is an
    `indexLayout`.
  - `LookupFindsEveryBlock`: binary search over the entries finds exactly the
    builder's blocks.
  - `NewestAddedIsKept`: whatever the order of the `Add`s, the builder holds
    exactly the block IDs added, each with the greatest timestamp it was
    ever added with. It relates the map to every earlier `Add`, not to the
    last one; an `Add` that replaced without comparing breaks it as soon as
    an older Info follows a newer one. Which of two Infos of one timestamp
    is kept does depend on the order: that is `builder_tie`.
* **builder_tie** (violated): `TombstoneWinsTie`. `Add` uses `>=`, so the
  entry added last wins a tie, a live one over a tombstone included.
* **builder_refused** (violated): `RefusedBuildWritesNothing`. Blocks 1 and 2
  are valid, block 3 has another key length: 40 bytes are in the output when
  `Build` returns the error.
* **builder_lossless** (violated): `IndexIsLossless`. `Build` returns nil for
  a timestamp, a pack file name or an offset beyond the field's width, and
  for an index longer than a `uint32` counts.

## 5. BlobStore and LoggingStorage

`BlobStore.tla` is the contract of `storage.Storage`, after the
specification (no store's code is in `src/`). State: `blobs`, a function from
the IDs present to contents; per client `pc` (`idle`, `listing`, `callback`),
`list` (the prefix, the IDs still to hand over, the IDs handed over) and
`result`. IDs and contents are sequences, so prefixes and byte ranges are
what they are in the code. `Got`, `Stored` and `Removed` are what a call
returns and does to a store when nothing fails; `Get`, `Put` and `Delete`
give the outcomes a call may have (the value returned and the store after
it): with `Faulty` any call may fail and leave the store as it was. `ListBlocks` takes the matching IDs
when it begins, `ListDeliver` hands over one that still exists and skips one
that is gone, the callback returns nil or an error, and a client inside its
callback may call the store.

`LoggingStorage.tla` models the wrapper of `src/unnamed/part_002` over an
instance of `BlobStore`: `result` is what the base returns to the wrapper,
`returned` what the wrapper returns to its caller, `wrapper` the printf and
prefix `NewWrapper` and its options set, `cnt[c]` the counter of a caller's
`ListBlocks`, `printed` the last record a printf function received.

| action | code |
|---|---|
| `GetBlock`, `PutBlock`, `DeleteBlock`, `Close` | the method: base call, printf, return |
| `ConnectionInfo` | forwarded, not logged |
| `ListBlocks` | `cnt := 0` and the base's listing begins |
| `ListDeliver` | the base calls the wrapper's callback: `cnt++`, then the caller's callback |
| `CallbackReturns` | `return callback(bi)`: the base goes on, or ends and the wrapper reports |
| `ListEnds` | the base returns; printf of the error and the count; `return err` |

A simple call is one step: the base is atomic and the wrapper adds no shared
state but the sink. A record keeps the operation, the logged value (the bytes
of a result shorter than `InlineLimit`, else its length), the error and the
count; the arguments and the duration are left out. A `ListBlocks` inside a
callback is not modelled (`pc` has one level).

### Run

* **logging_refinement** (`LoggingStorage_refine.cfg`, passes, 98 890
  states): two clients, the blobs `a` and `ab`, contents of two bytes with
  `InlineLimit = 2` (20 in the code), the ranges "all" and "second byte", a
  store that may fail any call.
  - `WrapperImplementsStore`: `BlobStore`'s specification with `result <-
    returned`, checked as a property: the caller cannot tell the wrapper from
    the store.
  - `ListCountsCallbacks`: the record printed when `ListBlocks` returns has
    the number of callbacks made and the error returned.
  - `TypeOK`, which includes that a record holds bytes only of results
    shorter than the limit.

Two clients give a listing with a concurrent delete or put by the other; two
blobs under one prefix let a callback delete the blob the listing would hand
over next. The clients are symmetric (`SYMMETRY`), the properties are safety
properties.

## 6. VerifyStorage

`VerifyStorage.tla` models `src/unnamed/part_000`: `VerifyStorage` followed
by `AssertConnectionInfoRoundTrips`, in the order `TestS3Storage` calls them,
run by one goroutine `T` against a store that starts empty
(`TestMapStorage`; `TestS3Storage` gives every run a prefix of its own). The
store is `RetriedStore`, the adapter of a remote store over the contract
`BlobStore` (section 7).

| model | code |
|---|---|
| `Blocks` | the five blocks of lines 14-23; names cut down to what the test uses (three begin with "ab"), contents to short sequences of the same bytes with different lengths |
| `VerifyStorageSteps`, `RoundTripSteps`, `Script` | the statements of the two functions in their order, the loops unrolled |
| `step` | the statement the test is at |
| `failed` | `t.Failed()`: set by `Errorf` (the test goes on) and `Fatalf` (the test ends) |
| `AssertGetBlockNotFound`, `PutBlock`, `AssertGetBlock`, `DeleteBlock`, `ConnectionInfo`, `NewStorage`, `ConnectionInfo2`, `Close` | one call of the store and the check of its result |
| `ListBegins`, `ListDelivers`, `CallbackNotes`, `ListReturns` | `AssertListResults`: the steps of the store's `ListBlocks` with a callback that notes the ID and returns nil, and the comparison at the end |
| `faulted` | history variable: a call of the store returned its error |

`AssertGetBlock`, `AssertGetBlockNotFound` and `AssertListResults` are not in
`src/`. They are modelled by what their names and their uses say: the whole
block is read and compared with the contents, the error must be the
not-found error, the IDs listed are compared as a set with the ones expected
(the test names them out of order).

Run `storage_contract` (`VerifyStorage_contract.cfg`, `Faulty = TRUE`,
`MaxAttempts = 3`, 3 906 distinct states) checks

* `TypeOK`;
* `PassesOnHonestStore`: the test is marked failed only after a call of the
  store gave up, however many attempts timed out before, with or without
  effect. `BlobStore` is written from the specification; this is the
  check that it is the store the repository's own test accepts: a block is
  absent until put, a put overwrites, deleting an absent block is no error,
  a listing names exactly the blocks with the prefix;
  With the adapter passing on the remote store's not-found, or with a block
  left in the store by an earlier test (`InitLeftOver`), the property is
  violated.

Every call of the store may give up, independently, having taken effect or
not, so the script also runs against stores that lost a put, kept a deleted
block, or hold a block whose put reported an error. Both properties are
invariants and nothing is assumed fair. The test stops when it is over, so
the run does not check deadlock.

## 7. Retry and RetriedStore

The code of the retry helper and of the S3 adapter is not in `src/`; their
tests are (`src/unnamed/part_001`). Both modules follow the specification
(section 5, Retry; section 6, the blob store contract; section 7, the error
taxonomy and the propagation policy) and what the tests call.

`Retry.tla` is `retry.WithExponentialBackoff(desc, f, isRetriable)`. An
attempt is an operator from the state it runs in to the set of its outcomes,
each a result and the state left; the attempt `Try` and the predicate
`IsRetriable` are constants of the module, given by the caller that
instantiates it. `WithExponentialBackoff(s)` is the set of outcomes of the
call made in state `s`: the outcome of any attempt
whose result the predicate does not call retriable, made in a state that
fewer than `MaxAttempts` retriable failures lead to, and `Unable` (the
helper's own error) in every state `MaxAttempts` such failures lead to. The
sleeps between the attempts are left out: they change nothing a caller sees.

`RetriedStore.tla` is an adapter of a remote store. It has the variables of
`BlobStore` and instantiates it as `Contract`.

| model | specification |
|---|---|
| `Honest(call, s)` | section 6: what a call does to the store `s` and returns |
| `Remote(call, s)` | section 7: the remote store's answer before the adapter normalizes it, the contract's but that deleting an absent block is answered with not-found |
| `Normalized` | section 7: "delete of missing" is made a success at the adapter |
| `Transient` | section 7: a timeout is retried, a block not found is surfaced |
| `Attempt(call, s, timeouts)` | one call of the remote store: it answers, or the attempt times out, before or after the store has done what was asked |
| `Retried(call, timeouts)`, `Call` | the call through `WithExponentialBackoff`, from the store as it is |
| `GetBlock`, `PutBlock`, `DeleteBlock` | the adapter's calls; `ListBlocks`, `Close` and `ConnectionInfo` are the contract's |

A call goes through all its attempts in one step. That is exact for the
contract test, one goroutine with nothing of its own between two attempts;
it would not be for several clients of one store, whose calls fall between
each other's attempts.

The attempt that matters is the one after a lost answer: the put is
repeated over its own block, the delete finds the block gone and the remote
store answers not-found. `Normalized` is what makes the retried
`DeleteBlock` a success all the same; without it `VerifyStorage` fails on a
store that did everything it was asked (`PassesOnHonestStore`, section 6).

Bounds: `MaxAttempts = 3`, the value `TestRetry` sets. Two attempts are
enough for a retry to meet the effect of a lost answer; the third shows
that a further attempt changes nothing.

## 8. BlockManager

`BlockManager.tla` models one block manager and its blob store. The
manager's code is not in `src/`: the module follows the specification
(sections 4.3 to 4.5 and 5), and `TestBlockIndexRecovery`
(`src/unnamed/part_004`) for the loss of the index blobs and the recovery
passes.

State: `packs` and `indexes`, the blobs of the store; `active`, the index
blobs of the manager's committed block index; `pending`, what is staged for
each block; `doomed`, the index blobs a compaction still has to delete;
`phase`; the clock `now`; and the history variable `committed`, what the last
flush or recovery promised of each block. A blob is its contents: a pack is
the set of its blocks and the second it was written (its block table), an
index blob a function from block IDs to Infos (timestamp, deleted flag,
pack). Payload bytes are left out.

| action | specification or test |
|---|---|
| `Put(c)`, `Delete(c)` | 4.4: stage a block unless `Get` would find it (`Live`: what is staged, then the committed index); stage a tombstone |
| `UploadPack`, `UploadIndex` | 4.4 Flush: steps (a)-(b), then (c)-(h); either upload succeeds, fails, or reaches the store and reports a failure, and after a failure the pending state stays for the next flush |
| `NewManager` | `part_004` line 31, 4.5 state machine: a new manager is opened over the store and loads its index blobs; what the one before had staged, and the deletions its compaction had left, are gone with it. It is enabled at any moment, so it is also the crash of the process |
| `Compact(S)`, `DeleteSuperseded(ix)`, `CompactReturns` | 4.5 CompactIndexes: the merged blob is committed and replaces `S` in the active set, then the superseded blobs are deleted one at a time; when the upload reports a failure nothing is superseded, whether the blob reached the store or not |
| `DeleteIndex(ix)` | `part_004` lines 24-28: one callback of the listing that deletes the index blobs. The `DeleteBlock` may fail, which ends the listing with some index blobs gone and others left. The manager that was running is not used again (`phase = "closed"`) until `NewManager` |
| `Recover(p, commit)` | `part_004` lines 38-75: one callback of a recovery pass. With `commit` the recovered Infos are written as an index blob (specification, 4.5) and promised; the call may fail, and then nothing is written. The pass without `commit` changes nothing, as a call that fails does, and `Next` leaves it to those steps |

`Entries`, `Beats`, `Winner` and `Found` are the lookup of the committed
block index (4.3): the greater timestamp wins, a tombstone wins a tie.

Faults. `Faulty` lets the calls of the store fail. A failure is what the
manager sees when the retry helper has given up; a call that took effect
although it reported a failure is what a timeout leaves behind. After an
index upload of that kind the store holds an index blob nobody was told of:
`committed` then promises nothing of the blocks that were pending
(`Promised(FALSE)`), until a later flush or recovery settles them.

The clock. `Tick` is the clock at the moment an index blob has reached the
store. With `StrictClock` it has moved on, so no two index blobs carry the
same second: this is the monotonic source clock the specification asks for.
Without it the clock may stand still, as it does when the tests flush back to
back.

Assumptions.
An index blob is named by its contents, so merging a single blob into itself
supersedes nothing. `Merged` keeps every tombstone: the specification leaves
open when one may be dropped, and dropping them all breaks
`FlushedBlocksResolve` (a deleted block comes back when the blob with its
tombstone is merged and the blob with its live entry is not). One manager runs
at a time, one task at a time, and a flush writes one pack. A recovery that
fails has failed before its index blob reached the store: the lost answer is
modelled for the uploads of a flush and of a compaction, not for a recovery.
The `Flush` that ends the test (line 84) has nothing staged and writes
nothing.

### Run

* **manager_durable** (`BlockManager_durable.cfg`, passes, 1 184 601 states):
  two blocks, `MaxTime = 3`, compactions of one or two index blobs, uploads
  and deletions that may fail or lose their answer, `StrictClock`.
  - `NoDanglingEntry`: no index blob of the store names a pack that is not
    there or does not hold the block.
  - `FlushedBlocksResolve`: what a flush or a recovery committed is what the
    manager and a fresh manager over the same store resolve: blocks put are
    found, blocks deleted are not.
  - `SupersededBlobsAreRedundant`: at every moment of a compaction the store
    answers the same with and without the blobs still to be deleted, so the
    deletions may happen, fail or be cut short in any order.
  - `TypeOK`, which includes that a ready manager's active set is in the
    store and that only a compaction has blobs left to delete. A manager
    that took an index blob for written whatever the store answered, or one
    that went on after its index blobs were deleted, breaks the first.
* **manager_second** (`BlockManager_second.cfg`, violated):
  `FlushedBlocksResolve` without `StrictClock` and without any failure. A
  block is deleted and flushed, written again and flushed in the same second:
  its live entry and its tombstone carry one timestamp, the tombstone wins,
  and the block whose flush succeeded is not found. The promise "after flush
  a fresh manager resolves every content ID written" and the rule "tombstones
  win on equal timestamps" hold together only for a clock that ticks between
  two index blobs.

Bounds. Three seconds let a block be put, deleted and put again. The state
constraint `Bounded` stops at two pack blobs and three index blobs in the
store: enough for a live entry, its tombstone and a merged or recovered blob
side by side, and for an orphaned pack next to a committed one. The two
blocks are symmetric. The properties are safety properties; nothing is
assumed fair.

## 9. Not modelled


* The code behind the builder's reader (`openPackIndex`), the committed block
  index, the block manager, the retry helper and the blob store adapters is
  not in `src/`: they are modelled from the specification, as far as it
  says what they do, and marked so in `PROJECT.json`.
* Of the retry helper: the delays. The specification puts the backoff policy
  out of scope, and `TestRetry` sets the sleeps to milliseconds so that they
  do not matter. `TestRetry` itself calls the helper four times with
  constant closures.
* Retries between the calls of several clients: `RetriedStore` makes a call
  with its attempts one step, which is exact for one goroutine only.
  `BlockManager` and `LoggingStorage` see the retry helper through their
  fault models: a failed call is one whose attempts are exhausted, and a call
  that took effect and reported a failure is a retried timeout.
* Several processes writing to one repository at once: the specification
  names strong consistency across them a non-goal.
* Of the block manager: the bytes of blocks and packs, the pack-size
  threshold that closes a pack, the progress callback, `Get`'s range read,
  listing by prefix, and the dropping of tombstones in a compaction.
* Several tasks of one block manager: the specification guards the pending
  index, the pack buffer and the active set with a mutex each and lets
  readers release the lock during I/O; it does not say whether a block may
  be staged while `Flush` uploads, nor what `Flush` then clears. The code
  that would decide it is not in `src/`, and a model would be of a guess.
* The block manager over `DiskIndexCache` as one state space: the manager's
  use of the cache is has, add, open and expire with its active set as
  `used`, which is the environment `DiskIndexCache` already runs in, and
  `FoundIndexOpens` is what the manager relies on. The product of the two
  models is beyond what TLC explores in the time of a run.
* The other test scripts (`TestRetry`, the repository's end-to-end tests):
  they say what the parts promise, and the properties above are taken from
  them where they apply.
* The file table of a process: `writeTempFileAtomic` returns on a failed
  `tf.Write` without closing the file; the descriptor stays open until the
  garbage collector finalizes the `os.File`. The model holds the directory,
  where the same return leaves the temporary file (`NoOrphanTempFiles`),
  and not the descriptors.
* Log output, durations and message texts.
* The S3 integration test apart from its calls of the contract test:
  network I/O, the bucket and the prefix that keeps the runs of the test
  apart. Its `cleanupOldData` deletes, while it lists, every blob of the
  bucket older than an hour. Two runs that clean at once delete the same
  blobs, which is harmless as long as deleting an absent block succeeds
  (`Normalized`, section 7); a run of the test that lasts longer than the
  hour would lose its own blobs, which needs a clock the store's contract
  does not have.
* Hashing, encryption and the object layer's splitting: data transformations
  checked by the repository's own tests.
