# Specification and proofs of Bolt

TLA+ modules of the Bolt key/value store in this repository, TLC runs that
check them on small instances, and theorems that TLAPS checks for every value
of the constants. All line numbers refer to the files of the repository.

- [The system](#the-system): components, state, operations, hard behaviours
- [The modules](#the-modules): what models what
- [The runs](#the-runs): what is checked, the bounds, the fairness
- [The proofs](#the-proofs): what is proved, under which assumptions, how
- [Disagreements found](#disagreements-found)
- [Not modelled](#not-modelled) and [Plan](#plan)

## The system

A Bolt database is one file of pages. Pages 0 and 1 are the *meta pages*; every
other page belongs to a B+tree of buckets, to the *freelist*, or is free. A
write transaction never overwrites a page of the current version: it writes
new pages, then a new meta page into the slot that does not hold the current
one. Readers keep the meta page they found when they began.

| component | state | operations | interacts with |
|---|---|---|---|
| transactions (db.go, tx.go) | the two meta pages, `db.txs`, `db.rwtx` with its meta and dirty pages | Begin, Commit, Rollback, Open, Close | freelist (free, allocate, release, rollback, reload), file (write, fdatasync), B+tree (rebalance, spill) |
| freelist (freelist.go, page.go) | sorted `ids`, `pending` by transaction, `cache` | allocate, free, release, rollback, read, write, reload, reindex | called by the write transaction only, and by Open |
| locks and mapping (db.go) | `rwlock`, `metalock`, `mmaplock`, `db.data`, `db.opened` | beginTx, removeTx, beginRWTx, mmap, Close | shared by all goroutines |
| Batch (db.go) | `db.batch`: its calls, its timer, a `sync.Once` | Batch, trigger, run | Update, one goroutine per call, timers |
| B+tree (node.go) | nodes in memory, inodes, parents and children | put, del, split, spill, rebalance | allocates and frees pages |
| buckets (bucket.go) | nested and inline buckets, cached nodes and pages | Create/DeleteBucket, Put, Get, Delete, NextSequence | nodes, cursors |
| cursors (cursor.go) | a stack of page or node positions | First, Last, Next, Prev, Seek, Delete | buckets |
| file lock (bolt_unix.go, ...) | flock on the data file | flock with timeout, funlock | Open and Close of other processes |
| size of mapping and file (db.go) | `datasz`, `filesz` | mmapSize, grow | allocate, Commit |
| backup, check (tx.go) | a read transaction | WriteTo, CopyFile, Check | pages, freelist |
| command line tool, examples | none | | the library's API |

What is hard in it, and what makes each part correct:

- *Readers against the writer.* Pages freed by a transaction stay pending as
  long as a reader of an older version may read them. The oldest reader
  decides, while readers come and go and the writer may roll back, which takes
  the freelist back to the list on disk, in which pending pages count as free.
  Correct: no page of an open snapshot is overwritten or allocatable.
- *Commit step by step.* Any call may fail and any step may be the last one.
  Correct: what was acknowledged is visible, what failed is not, the file
  always has a complete version, every page is used once or free once.
- *The list that contains itself.* The freelist is written to pages taken from
  the freelist, at a size computed before.
- *Meta pages without a lock.* `db.meta` reads the mmap while a commit writes
  one of the two pages.
- *Three locks in several orders*, one of them an RWMutex on which a waiting
  writer blocks new readers; remapping waits for readers; Close.
- *Batches* triggered twice, retried, and answered call by call.
- *Trees in the middle of a transaction.* Some pages have become nodes, some
  nodes are empty or have no page yet; lookups and cursors walk over both, and
  the nodes are rebalanced in the order of a Go map. Correct: the answers of an
  ordered map, and after each commit a sound tree on pages used once.
- *Buckets in buckets*, moved between a page of their own and the inside of
  their parent's leaf, with cached copies of their headers.
- *Sizes that run ahead.* The map grows by doubling and in steps, the file is
  truncated to sizes computed from the map. Correct: every page is mapped and in
  the file, and the file can be opened again.
- *The lock on the file*, waited for with a timeout, shared or exclusive, and
  given back by every step of Open that fails.

`PROJECT.json` lists these hazards at their lines with the properties that
cover them, those no property covers yet included.

## The modules

| module | models | abstraction |
|---|---|---|
| `FreelistOps` | what freelist.go computes, and the number of pages of the list (tx.go:177) | sets for slices |
| `Freelist` | freelist.go, and merge of page.go, on sequences and turn by turn of their loops | refines `FreeSets` |
| `FreeSets` | what the freelist promises: the operations as operators of `FreelistOps` on sets | abstract |
| `DB` | transactions, Commit step by step, failures, Open, Close, crashes | refines `SnapshotStore` |
| `SnapshotStore` | what transactions promise: snapshots of one visible version, all-or-nothing commits, crashes | abstract |
| `DBInvariant` | the inductive invariants of `DB` | |
| `DBSafety`, `DBDisk`, `DBAccounting` | theorems about `DB`: types and lemmas, one per action; safety and refinement; the accounts of Tx.Check | |
| `TxLocks` | goroutines, locks, the mapping and meta pages under concurrent access | each lock operation is an action |
| `Batch` | DB.Batch and batch.run | an Update is one action |
| `TxLocksProofs`, `BatchProofs` | theorems about `TxLocks` and `Batch` | |
| `PageStore` | allocate and free as a write transaction uses them (freelist.go, db.go) | one transaction, no readers |
| `Inodes` | the inodes of one node: search, put, descent, split index (node.go, cursor.go) | a value is its length |
| `BTree` | node.go, with the parts of bucket.go and cursor.go that make nodes and look up keys | one bucket; a value is its length |
| `Cursor` | cursor.go, on `BTree` | one cursor |
| `Buckets` | bucket.go, Tx.check, and `bolt compact` (cmd/bolt/main.go) | the tree of a bucket is one leaf |
| `MmapSize`, `DataFile` | mmapSize, mmap, allocate and grow (db.go); Open, Close and flock (bolt_unix.go, bolt_windows.go, bolt_unix_solaris.go); WriteTo | sizes in pages, no contents |
| `FreelistProofs`, `DataFileProofs` | theorems about `Freelist` and `DataFile` | |
| `NodeProofs` | theorems about `Inodes` and `PageStore` | |
| `MCDB`, `MCCursor`, `MCBuckets`, `MCDataFile` | symmetry sets and data for TLC | |

`DB` and `Freelist` share `FreelistOps`: `DB` uses the set operators, and
`FreelistProofs!ImplementsFreeSets` shows that the sorted slices, the cache and
the format of the list's page do what the operators say. `DB` takes Begin and the end of a
read transaction as one action each; `TxLocks` takes them apart, and shows
(`ReleaseSparesReaders`, `SnapshotFresh`) that the effect is that of one action.
`BTree` and `Buckets` share `PageStore` and `Inodes`, which they are built
from and which have no recursion, so that they can be proved about; `Cursor`
extends `BTree`. `DB` lets a
transaction free and allocate nodes in any order; `BTree` and `Buckets` say
which it does free and allocate, and `PagesOnce` and `PagesSound` that it frees
each page once, as `DB` assumes. `DataFile` leaves what is in the pages to `DB`,
and which page the freelist serves to `Freelist`.

### DB

State. `file` gives each page's content as the process sees it: the number of
the write transaction that wrote it (`gen`) and, for a freelist page, the ids on
it. `disk` is what survives a power failure for certain. `slot`/`dslot` are the
two meta pages, likewise. A meta names its nodes (`tree`, `flist`) instead of
the root from which they are reached. `ids`, `pending`, `cache` are the
freelist; `rmeta` is `db.txs`; `phase`, `wmeta`, `dirty`, `wlist` the write
transaction; `gen` and `acked` count write transactions begun and name the last
one acknowledged (or recovered). `gen` differs from the transaction id of the
code, which a rolled back transaction and its successor share.

| action | code |
|---|---|
| `BeginTx`, `CloseTx` | beginTx (db.go:570), tx.close and removeTx |
| `BeginRWTx` | beginRWTx with the release of pending pages (db.go:618) |
| `FreeNode`, `AllocNode` | what put, delete, rebalance and spill do to pages: free a node that was found, allocate a new one (node.go:360-379, 554) |
| `CommitFreelist` | Commit: free, size, allocate and write the list (tx.go:172-186) |
| `WritePages`, `SyncPages` | tx.write (tx.go:474): all dirty pages, then fdatasync |
| `WriteMeta`, `SyncMeta` | tx.writeMeta (tx.go:547), then tx.close; Commit returns nil |
| `Rollback` | Tx.Rollback, and Update of a function that fails |
| `AllocFails`, `WriteFails`, `SyncFails`, `MetaWriteFails`, `MetaSyncFails` | Commit when the call fails: tx.rollback (tx.go:249) |
| `Open`, `Close` | Open of an existing file (db.go:286-300), Close (db.go:486) |
| `Kill`, `PowerFails` | external: the process dies, keeping the page cache; the machine dies, and any subset of the unsynced pages is lost, a meta page torn |

The order of `FreeNode` and `AllocNode` is left open, though the code frees a
node just before it allocates its successor: this only adds behaviours. A meta
page that names any node beyond its high water mark panics in `WriteMeta`, where
the code looks at the root and the freelist. `WriteFails` with nothing written
also stands for grow failing. The page being written when a write fails was
free, so whether a part of it was written cannot be observed and is left out.
`AllocFails` is a failure of mmap before it unmaps. `Close` is the documented
use ("All transactions must be closed before"); what happens otherwise is in
`TxLocks`.

### Freelist

State. `ids`, `pending` and `cache` are the fields of the struct, a list for a
slice; `page` is the freelist page of the last commit, `txid` the transaction the
calls are made for. `call` holds the local variables of the call under way, and
`got` what allocate returned last.

| action | code |
|---|---|
| `Allocate`, `Scan`, `NothingFound` | allocate (freelist.go:67): the call, one turn of its loop, its end without a block |
| `Free` | free (freelist.go:111) |
| `Release`, `Write` | release (freelist.go:132), write with copyall (freelist.go:191, 56): the calls |
| `Gather`, `Sort`, `Merge` | what both do then: one turn of the loop over the map, in any order; sort.Sort and the start of mergepgids (page.go:180); one turn of its loop |
| `Released`, `Written` | what each does with the result |
| `Rollback`, `Reload`, `Reloaded` | rollback, then reload (freelist.go:215): read and reindex, one turn of its loop, its end |
| `Reopen` | external: Open reads the page into a new freelist |

sort.Sort and sort.Search are modelled by what Go's documents say they return.

### TxLocks

A program counter per goroutine; `rwlock`, `metalock` with their owners;
`mmaplock` with the goroutine waiting in Lock (which blocks RLock), the one
holding it, and the number of read locks each goroutine holds. One action per
lock operation, and per step between two accesses to the meta pages: a reader
picks, validates and copies a meta page in three steps, a commit writes one in
two, and in between the page's txid may already be the new one but its checksum
is wrong. A page whose txid and checksum are read at different moments of one
write is taken for invalid, as the checksum covers the txid. A write transaction
remaps at most once (`CallMmap`), where the code may at every allocation: what
another remap meets, it meets in the next transaction. An error of Commit, which
changes no lock, is a rollback.

### Batch

`current` is `db.batch`; of each batch its calls, who is going to trigger it
(timer, the call that filled it), whether `sync.Once` was used, how many
goroutines are in the loop of `run`, and the result being passed to the calls.
What is done under `batchMu` is one action; an Update is one, for it holds the
writer lock. A function may succeed in one execution and fail in the next.

An Update whose functions succeed ends in one of three ways (`Answers`): nil; an
error without effect; or `"unsynced"`, the error of the fdatasync after the meta
page was written (tx.go:557), which leaves the transaction visible to all that
begin after it (`Effect`; in `DB` it is `MetaSyncFails`). run tells the calls of
the batch that error, and none of them is tried again, so that
`EffectMatchesAnswer` says: nil or `"unsynced"`, once; any other error, not at
all. A caller cannot tell the two kinds of error apart.

### BTree and Cursor

`b` is the `Bucket`: its root page, the cache of nodes, and the pages, as a
record the operators of node.go pass on and return changed, as the code changes
`b` in place. `phase` and `visit` split Commit into the visits of
`Bucket.rebalance`'s loop, which a Go map orders, and the spill. A failed
assertion, an index out of range and a double free end in `phase = "panic"`.

| action or operator | code |
|---|---|
| `Put`, `Delete` | Bucket.Put and Delete of plain values: seek, `cursorNode`, put or del |
| `Commit`, `Rebalance`, `Rebalanced`, `Spill` | the parts of Tx.Commit that concern nodes |
| `rebalance`, `CollapseRoot`, `Merge`, `Unlink`, `Reparent` | node.rebalance (node.go:409) and its cases |
| `spill`, `SpillParts`, `TellParent`, `split`, `splitIndex`, `NewRoot` | node.spill, split, splitTwo |
| `First`, `LastKey`, `NextKey`, `Prev`, `Seek`, `DeleteCurrent` | the methods of Cursor |

Keys are numbers, a value is its length, and `PageSize` is a few bytes, so that
pages of the sizes that matter have two to five elements. `want` is what an
ordered map would hold. The transaction before left no readers, so what was
freed is free in the next one. A caller of `Cursor` positions it again
after changing the bucket by other means, as cursor.go:15-17 asks. `may` holds
the moves it may make before that: both after First, Last and Seek; after a
delete under the cursor one direction, for a turn then skips or repeats a key in
the code; none after a delete in a node, which shifts the elements.

A nil answer does not end the walk. The stack stays as the code leaves it
(cursor.go:216-235): on the last element after Next, which Prev then leaves for
the one before; on an emptied leaf after Last or Prev, from which Prev goes on;
and empty when Prev has moved off the front, where both answer nil until the
cursor is positioned again. `said.at` is the place in an ordered map that
corresponds, and `said.due` what the map answers there. The comments do not say
what Next answers after Prev has moved off the front: nil is taken as right.

### Buckets

`t` is the write transaction: pages, root and `cache`, the opened `Bucket`s by
their path. An item of a leaf is a value or a header with root, sequence and, for
an inline bucket, its items. `DeleteBucket` iterates as ForEach does, over the page
or over the node that shrinks under it. The order of the map of children in
`Bucket.spill` is taken in both directions. `Check`, `Stats` and `compact` are
read-only operators over a committed store, `compact` with the transactions of
its copy. A value put as a nil slice is one until the next commit writes it:
DeleteBucket takes it for a bucket and fails, as the code does, with the buckets
it has come to before deleted (`Drop`): whether a commit or a rollback follows is
the caller's choice.

### DataFile

A handle is one call of Open and the DB it returns; `Owner` is its process. `pc`
is the step of Open; `lock` what the operating system has granted; `size` and
`committed` belong to the file; `datasz`, `filesz`, `hwm`, `snap` to the handle.

| action | code |
|---|---|
| `OpenFile`, `Flock`, `FlockBusy`, `FlockTimeout` | Open to flock, and the turns of its loop |
| `InitFile`, `InitFails`, `ReadMeta` | the size is 0, or not (db.go:246-276); Stat, the write or the fdatasync of init fails |
| `OpenMmap`, `OpenMmapFails` | db.mmap in Open, and db.close if it fails |
| `Allocate`, `Grow`, `Commit`, `RollbackRW` | db.allocate at the high water mark with its remap; db.grow, or its omission; the writes; rollback |
| `WriteTo`, `WriteToEnds` | the backup's own descriptor, opened and closed |
| `Close`, `Kill`, `Collected` | db.close; external: the process ends; the finalizer of an os.File closes a forgotten one |

## The runs

| run | bounds | shows |
|---|---|---|
| `power` | 2 readers, 3 commits, 10 pages, nodes of 1 and 2 pages; failing calls; power failures | all safety properties of `DB` and its refinement of `SnapshotStore` |
| `metasync_store` | 2 readers, 3 commits; the meta page's fdatasync fails; kills | what still holds then: freelist and file |
| `metasync_reader` | the same fault | *violation*, see below |
| `freelist_limit` | `CountLimit = 3` | *violation* |
| `freelist_slices` | pages 2..5, blocks of 1 and 2, 3 transactions, `CountLimit = 3` | every turn of the loops; slices implement sets on both sides of the limit |
| `locks` | 2 readers, 1 writer, 1 Close, transaction ids up to 4, fairness | every interleaving: snapshots, mapping, no circular wait; a writer that remaps is not starved, Close ends, calls after it return |
| `batch` | 3 calls, limits of 2, 3 and 0 (no batching), fairness | retries, double triggers, commits that fail with and without effect, batches that run while others fill; every call returns |
| `tree` | 6 keys, loads of 4 and 11 keys, 4 changes in 3 commits; a cursor in the first two transactions | the tree and lookups are right in every order of rebalancing, and each page has one use at every step of a commit; the cursor answers as an ordered map |
| `cursor_last` | the same | *violation*, see below |
| `buckets` | 3 names, depth 2, values of 2 bytes and nil, 5 calls, 3 transactions, compaction limit 3 | contents, pages, statistics and compacted copies |
| `delete_bucket` | 2 names, depth 3, 6 calls | *violation*, see below |
| `files` | 2 processes of one handle each, 3 Opens, 1 kill or failing step of Open; maps of 4, 6, 8, 12 and 13 pages; unix and windows | lock, mapping and file |

Why the bounds suffice. In `DB`, three commits after the initial version let a
page be freed, kept pending for a reader, released and used again, with a failed
transaction between; two readers make "the oldest" differ from "the newest";
`IdsPerPage = 4` makes the freelist need one, two or three pages, so that the
list's own pages matter; with `CountLimit = 65535` the limit is never reached,
with 3 always. In `Freelist`, lists reach four ids, beyond the limit of the
count. In `TxLocks`, Close competes with the writer for rwlock, and transaction
ids up to 4 let both slots be overwritten while a reader is in `db.meta`; a second
writer would add only waiters for rwlock, which one goroutine holds from the
beginning to the end of a write transaction. The theorems have any number. In
`Batch`, three calls with a limit of two fill a batch while another runs, and
with a limit of three a batch is retried twice.
In `BTree`, eleven keys of pages that hold four make a
tree of three levels, and the six keys include new ones between and
beside them, so that splits, merges with both siblings, collapses of the root,
overflow pages and emptied leaves all occur. In `Buckets`, a bucket of one
value is inline and one with a bucket in it is not; depth 2 nests a bucket in a
bucket; a third name lets a DeleteBucket fail after it has deleted a bucket.
In `DataFile`, the sizes straddle the doubling, the steps and
the limit of the map, and a growth by `AllocSize` passes `MaxInt`; three Opens
let a process open, die and open again while another waits.
`MaxOps`, `MaxTx`, `MaxDepth`, `MaxCursorOps`, `MaxCursorTx`, `MaxOpens`,
`MaxFaults`, `MaxGen`, `MaxNew`, `MaxPage` and `MaxTxid` are bounds of the model and appear
in guards only.

The actions that end or bound a behaviour of `BTree`, `Buckets` and `DataFile`
(`Finished`, `Stopped`) only stutter. Deadlock is checked except in `DB` (after `MaxGen` transactions nothing need be
possible) and in `Batch` (when all calls have returned the system has stopped).

Fairness (`TxLocks`, `Batch`, `DataFile`): goroutines are scheduled (weak fairness of their
steps); a `sync.Mutex` starves no waiter, as Go's documents (strong fairness of
its acquisition; acquisitions of one goroutine are joined in one condition, since
at each of its places at most one is enabled); a read transaction is closed in the end, which the comment of
Begin demands; timers fire; an Update returns. Nothing is assumed of the RWMutex
beyond weak fairness: that a waiting Lock blocks new RLocks is what gives the
remapping writer its turn. In `DataFile` only the loop of flock is fair, for as
long as its process lives: nothing is assumed of the holder of the lock, who may
keep it forever.

Every property of a passing run has a mutant: a plausible bug in a definition
(named after it, and commented as its mutant) under which TLC finds it violated.

## The proofs

### DB

For every set of readers, every number of pages and transactions, all node
lengths, sizes of a page and limits of the count:

| theorem | states | faults |
|---|---|---|
| `DBSafety!TypeCorrect` | `Spec => []TypeOK` | all |
| `DBAccounting!ListAlwaysFits` | `Spec => []FreelistFits` | all |
| `DBDisk!StoreStaysSound` | `Spec => []DiskInv` | `Recoverable` |
| `DBDisk!NothingPanics` | `Spec => []NoPanic` | `Recoverable` |
| `DBDisk!FileStaysUsable` | `Spec => []ClosedFileIsUsable` | `Recoverable` |
| `DBAccounting!CheckAlwaysPasses` | `Spec /\ []ListShort => []CheckPasses` | `Recoverable` |
| `DBAccounting!SmallFilesPassCheck` | `Spec => []CheckPasses` if `MaxPage <= CountLimit` | `Recoverable` |
| `DBDisk!InvariantHolds` | `Spec => []IInv` | `Tolerated` |
| `DBDisk!SnapshotsStayIntact` | `Spec => []SnapshotsIntact` | `Tolerated` |
| `DBDisk!SnapshotsStayReserved` | `Spec => []SnapshotsNotAllocatable` | `Tolerated` |
| `DBDisk!VisibleStaysAcked` | `Spec => []VisibleIsAcked` | `Tolerated` |
| `DBDisk!Implements` | `Spec => ImplementsStore`, that is `Spec => Store!Spec` | `Tolerated` |

What the faults are restricted to is needed, and each restriction is a
disagreement listed below. `Recoverable` (`DBInvariant`): any call may fail and
the process may die, or any call but the fdatasync of a meta page may fail and
the power too. With a power failure and the others together, `DB` violates
`ClosedFileIsUsable`: a meta page was written, not synced, and built upon.
`Tolerated`: the fdatasync of a meta page does not fail; otherwise open read
transactions lose their pages (run `metasync_reader`). `ListShort`: the stored
list is shorter than `CountLimit`; otherwise a page is lost (run
`freelist_limit`). No list is that long in a file of `CountLimit` pages.

The argument. None of the properties is inductive. That a reader's pages are not
overwritten follows from their not being allocatable, which must survive four
things: release at the beginning of a write transaction, reuse by it, reload
after a failure, and Open. That the file is usable after a power failure follows
from what is on the device, which must survive every step of Commit. The
invariants name what each of them relies on. `StoreInv`, about the file and the
freelist whoever reads:

- `SlotsAlternate`: the newest valid meta page is in the slot of its transaction
  id, so that the next commit overwrites the other one.
- `CurrentSound`: the nodes of the current version are disjoint and below its
  high water mark, its pages hold what their transactions wrote, and the list on
  its freelist page names none of them; this is what Open and reload start from.
- `FreelistSound`: free and pending pages are disjoint, the cache is exact, and
  pending pages belong to transactions up to the one being written.
- `Protected(m)`, for the current version: none of its pages is free or about to
  be written, those pending are so for younger transactions, and each is still
  used by the current version or pending for a transaction that was committed, so
  that neither release nor reload frees it.
- `WriterSound`: for each phase of a write transaction, its pages are neither
  free nor pending, what it wrote is in place, what it dropped of the current
  version is pending for it, and what it listed is what will be free.
- `ClosedSound`: a closed database has no transactions and an empty freelist.

`DiskInv` adds, where the power may fail, `DiskSound`: the meta page of
`Durable` (the current version, or the one before while a meta page is written
and not synced) is on the device with all its pages, and while two versions are
valid in the file, so is everything else. From it `PowerFailsKeeps` derives
`StoreInv` for whatever subset of the unsynced pages is lost: either `Durable` is
current again, or the new meta page survived and nothing was lost.

`IInv` adds `ReadersProtected` (`Protected` of each reader's version) and
`CurrentAcked`. `DBSafety` shows for each action that it keeps `StoreInv` and
that it keeps protected every version that was, not only those of the readers
there are, so that the two parts of the proof need not know of each other; only
the rollback after a failing fdatasync of the meta page does not. `RInv` adds
`Numbered` (versions are numbered below `gen`), and
`DBDisk!Implements` maps each action to a step of `SnapshotStore` or a stutter.

`CheckPasses` needs also that no page is lost: `MemoryComplete` (used, free and
pending pages of the version in hand are all below the high water mark),
`FileComplete` (used and listed pages of the current version are), because
reload and Open take the freelist from the page, and `DurableComplete`, because
a power failure may bring back the version before. `FreelistFits` follows from
the cardinalities alone: the list is sized for all free and pending pages, of
which its own pages are then taken.

### Freelist

For every highest page and transaction, all sizes of blocks and limits of the
count:

| theorem | states |
|---|---|
| `FreelistProofs!FreelistInvariant` | `Spec => []IInv` |
| `FreelistProofs!CacheStaysExact` | `Spec => []CacheExact` |
| `FreelistProofs!ImplementsFreeSets` | `Spec => ImplementsSets`, that is `Spec => Sets!Spec` |

`CacheExact` is not inductive: in the middle of a call the lists do not hold all
the pages. `IInv` says for each loop what it has done so far.

- `ScanSound` (allocate): the ids read last are a block that ends with `previd`
  and is too short, and no block that fits begins before it. Thus a block that
  is found is the lowest, and one that is not found does not exist.
- `GatherSound`: the lists gathered are disjoint from each other, from `ids` and
  from those left to gather.
- `MergeSound` (mergepgids): what is merged is ascending and below the rest,
  and nothing was lost.
- `ReloadSound`: what is kept of the ids read is what is not pending.

To these it adds that `ids` is ascending, without which allocate overlooks
blocks and mergepgids mixes up its result; that no page is on two lists, or twice
on one (`PendingSound`); that `cache` holds what the lists do (`FreeIds` counts
what a call has in hand); and that the page restores its list, with the length
before it from `CountLimit` on (`PageSound`).

For the refinement, `FreeSets` takes a step where a call has its effect: release
and reload when they are called, allocate when its loop ends, write when the page is
filled. All other turns stutter, and the proof of each action shows both that it
keeps `IInv` and that it is such a step. The loss of an id by read
(`freelist_limit`) is in `ReadBack` of `FreelistOps`, and thus in both.

### TxLocks

For any number of readers, writers and closers:

| theorem | states | assumes |
|---|---|---|
| `TxLocksProofs!LocksInvariant` | `Spec => []IInv` | |
| `TxLocksProofs!ReleaseSafe` | `Spec => []ReleaseSparesReaders` | |
| `TxLocksProofs!SnapshotsFresh` | `Spec => []SnapshotFresh` | |
| `TxLocksProofs!WriterFindsMap` | `Spec => []WriterMapped` | |
| `TxLocksProofs!ReadersFindMap` | `Spec => []ReadersMapped` | |
| `TxLocksProofs!NoDeadlock` | `Spec => []NoCircularWait` | `Depth = 1` |

The assumption is the documented use: no transaction is opened inside another.
`ReadersMapped` speaks of the time until Close has closed the database, before
which its comment wants all transactions closed. Without either restriction the
properties fail (see below). `TxLocksProofs!IInv` says which steps hold which lock (`LocksHeld`,
`ReadLocked`), that the slots hold the last commit and the one before or the one
being written (`SlotsSound`), and, what makes db.meta safe without a lock on the
meta pages, that a reader which has picked a slot still finds in it the last
commit or the one before (`PickSound`, `OneCommitAgo`): it holds metalock, so
that at most one commit that was under way can end before it copies, and no
write transaction can begin. `NoDeadlock` takes a set of processes in which each
waits for another and empties it, one lock at a time: none of them waits to
write mmaplock, since who holds it to read, with one transaction open, waits for
nothing; so none waits to read it, since the writer in front would have to be
waiting to write it; so none waits for metalock, and then none for rwlock, whose
holders wait only for the locks already dealt with.

### Batch

For any number of calls, any `MaxBatchSize`, and any sequence of results:

| theorem | states |
|---|---|
| `BatchProofs!BatchInvariant` | `Spec => []IInv` |
| `BatchProofs!AnswersTrue` | `Spec => []EffectMatchesAnswer`, errors of a visible transaction included |
| `BatchProofs!ChannelNeverFull` | `Spec => []OneMessagePerCall` |
| `BatchProofs!BatchesBounded` | `Spec => []BatchSizeBounded` |

`BatchProofs!IInv`: a call is in one place of one batch (`CallsDistinct`, which the
removal of a failing call, that swaps in the last one, must keep); a call not
yet answered by its batch waits, has no message, and took effect exactly if the
batch's last Update has put its meta page in the file (`PendingSound`); a message tells what happened to
the function (`MessagesSound`); `sync.Once` lets a batch run once (`LifeSound`).

### DataFile

For every set of handles, owners and limits, every size of map, allocation and
integer, and any number of Opens and kills:

| theorem | states |
|---|---|
| `DataFileProofs!TypeCorrect` | `Spec => []TypeOK` |
| `DataFileProofs!WritersAreAlone` | `Spec => []ExclusiveWriter` |
| `DataFileProofs!PagesAreBacked` | `Spec => []PagesBacked` |
| `DataFileProofs!CommitsAreKept` | `Spec => CommittedKept` |
| `DataFileProofs!FilesReopen` | `Spec => []Reopens` |

All but the first assume `"solaris" \notin Platforms`, for there a process loses
its lock with any descriptor of the file. `FilesReopen` assumes also
`InitialMmapSize <= maxMapSize`, a map of at least the four pages of an empty
file, and `MaxInt <= maxMapSize`, which holds where an int has 32 bits; with 64
bits growth can pass the largest map, of 256 TB.

The lemmas about `mmapSize` (`MapSizeFits`, `MapSizeGiven`, `MapToFits`) say that
a size it gives is no smaller than the one asked for and within the limit;
rounding needs the facts about `%` that `RoundUpGrows` proves. `FileInv` is
inductive: `LocksHeld` (a handle past flock holds the lock its mode asks for)
makes `ExclusiveWriter` survive the next Flock, and `HandleSound` ties each
handle's high water mark and snapshot to its map and to the committed mark, which
stays within the file: no truncation of grow may cut it off. `ExclusiveWriter`
itself is needed for `PagesBacked`: only a single writer's mark is the one
committed. `SizeInv` adds, for `Reopens`, that the file never outgrows the
largest map.

### Nodes and pages

`BTree` and `Buckets` are compositions of steps on one node and on the pages of
the transaction. For nodes of any length with any keys, and any number of pages:

| theorem of `NodeProofs` | states |
|---|---|
| `SearchFinds` | sort.Search finds exactly the keys that are there |
| `PutUpdates`, `RemoveForgets` | put and del change a node, as a map from keys, as they should, and keep it ordered |
| `JoinAppends` | merging two siblings keeps what they hold and their order |
| `SplitTwoSound` | splitTwo makes a sibling exactly when there are inodes enough and they do not fit a page; both nodes are ordered, one below the other, hold together what the node held, and have the minimum or more; the left one fits the threshold unless it has just the minimum |
| `SplitIndexSound` | where splitTwo cuts |
| `DescendLeads` | a branch leads each key to one child |
| `SplitDivides`, `UnlinkJoins` | the change of the parent that goes with a split or a merge moves the keys concerned, and no others |
| `FreePageKeeps`, `PlaceKeeps`, `ReleasedKeeps` | each page is in use, pending or free, and once, and the pages in use are the ones expected; a double free panics |
| `AllocatedIsUnused` | allocate takes the lowest run that fits, never a page in use |

`Lookup(l)` is the map that a node's inodes `l` are, `Child(l, key)` the page a
branch leads a key to. `SplitDivides` and `SplitTwoSound` belong together, as do
`UnlinkJoins` and `JoinAppends`: what one says of the nodes the other says of the
way to them, so that no key is held in one node and looked for in another.

The hypotheses are what `BTree` maintains. `Ordered` is a part of `TreeSound`, of
the pages after a commit and of the nodes at every step.
`InPlaceOf` (no other key lies between the old key of a put and the new one) holds
where the two are equal, and in spill, where a node's first key takes the place
of the one its parent knows it by: both are above the parent's key before it and
below the one after. `StoreSound` says that the record is a store
and that its pages are partitioned; the partition, at every step of a commit, is
a part of `PagesOnce`, and the theorems show that no call of `FreePage`, `Place`
or `Released` breaks it, whatever the tree does. What they cannot show is that
the tree never frees a page twice: that is `NoPanic`, and `PagesOnce` adds that
no page is left in use that the tree does not reach.

### Left to TLC

Liveness (`WriterEnds`, `BeginReturns`, `CloseEnds`, `EveryCallReturns`,
`TimedOpenReturns`) is outside what the prover does. `BTree`, `Cursor` and
`Buckets` as wholes (`LookupsMatch`, `TreeSound`, `PagesOnce`, `NoPanic`,
`CursorExact`, `ContentsMatch`, `PagesSound`, `StatsExact`, `CompactCopies`) use
recursive operators on trees: what they compute needs induction over data. The
steps they are made of are proved, see above.

## Disagreements found

Each is a run that TLC must find violated, and an entry of `PROJECT.json`.

| run | where | what |
|---|---|---|
| `metasync_reader` | tx.go:557 | a commit that reports an error of the meta page's fdatasync is visible nevertheless, and its rollback frees pages that open readers of the version before still use |
| `freelist_limit` | freelist.go:176 | a freelist of 65535 ids or more loses one id whenever it is read |
| `cursor_last` | cursor.go:55 | Last, documented to move to the last item, and Prev, documented to answer nil at the beginning, answer nil at a leaf that deletes in this transaction have emptied, though keys are left |
| `delete_bucket` | bucket.go:235 | DeleteBucket modifies the bucket it iterates over: if its leaf is a node, every second sub-bucket is skipped and its pages are lost |

Other behaviours the modules show, or are written around, that a reader of the
documentation may not expect:

- A kill and then a power failure (`Faults` with both in `DB`) violate
  `ClosedFileIsUsable`: Open (db.go:296) builds on a meta page that was written
  and never synced, and reuses the pages of the only durable version. So do a
  failing fdatasync of a meta page and then a power failure.
- Close (db.go:493) unmaps the file under open read transactions: without
  `opened`, `TxLocks` violates `ReadersMapped`. With `Depth = 2` it
  violates `NoCircularWait`: a goroutine that begins a second read transaction
  while a writer waits to remap blocks both (db.go:583).
- Because of `cursor_last`, `CursorExact` lets `Last` and `Prev` answer nil, but
  only where the leaf they have come to is itself empty. `First` and `Next` go on
  over empty leaves (cursor.go:38-42, 241-245).
- Update's comment (db.go:704) says an error rolls the transaction back; with the
  error of the meta page's fdatasync its changes stay visible (tx.go:557). This is
  part of the finding of `metasync_reader`, and `Batch` reckons with it.
- `Bucket.Delete` of an absent key answers ErrIncompatibleValue if the next key
  is a bucket (bucket.go:328-331), though its comment says it answers nil.
- DeleteBucket fails half way, with some sub-buckets deleted, if a value was put
  as nil in the same transaction (bucket.go:238).
- Commit notes the high water mark after the spill (tx.go:172) and compares it
  after the freelist is written, so that a file that only the spill made grow
  is extended by the writes, not by grow.
- Open of an empty file read-only, or one whose Stat or init fails, returns the
  error without closing the DB (db.go:246-252),
  and on Windows Close of a read-only DB leaves the lock file open (db.go:520):
  both keep the lock until the file is garbage collected (`Collected`).
- On Solaris, with two handles of one process, `ExclusiveWriter` is violated: a
  backup or an Open that fails closes a descriptor and with it drops the lock
  (bolt_unix_solaris.go:35).

## Not modelled

- What follows a failing system mmap after munmap (db.go:341-348), a memory
  fault. A write of init that stops in the middle, by a fault or a kill: in
  `DataFile` a new file is written as a whole or not at all.
- NoSync, which gives up durability by intent; MmapFlags.
- The header of a backup (tx.go:322-345). That its pages are one version is
  `SnapshotsIntact`; that they are in the file, `PagesBacked`.
- A tree of several pages in a nested bucket: `BTree` has the tree of one bucket,
  `Buckets` the nesting. Key and value lengths beyond what the runs' pages tell
  apart, and FillPercent other than 50.
- Bytes of pages: node.read and node.write are modelled by what they keep, which
  is all but the difference between a nil and an empty value.
- `node.dereference`, which copies keys out of the old mapping before a remap.
- The goroutine and channel of Tx.Check. Its comment restricts it to times
  without other writers, for it reads the freelist without a lock.
- Statistics. `OpenTxN` is computed under one lock and stored under another
  (db.go:601-612), so that it may stay wrong; no decision depends on it.
- Platform constants other than the limit of the map; the commands other than
  `compact`, which print what they read; `bench`; the examples.

## Plan

The order in which the modules were written: `FreelistOps`, `DB`,
`SnapshotStore`, `Freelist`, `FreeSets`, `TxLocks`, `Batch`; then `PageStore`,
`Inodes`, `BTree`, `Cursor`, `Buckets`, `MmapSize`, `DataFile`. Proved, for all values of
the constants: the safety of `DB` with all the faults it can survive and its
refinement of `SnapshotStore`, `Freelist` and its refinement of `FreeSets`, the
safety of `TxLocks`, `Batch` and `DataFile`, and the steps of `BTree` on nodes and
pages. What is left, in this order:

1. `BTree` as an implementation of a map, and the composition of `Buckets` with
   it: nested buckets of several pages.
2. The second meta page of a backup, and the recovery of a file from it.
