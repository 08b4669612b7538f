# A TLA+ model of the KVDB storage engine

KVDB is an embedded log-structured merge-tree store. This directory holds a
model of it at three levels: the engine, with everything `open`, `put`,
`remove`, `get`, `flush`, `compact_range` and `close` do to memory and to the
files; the files themselves, as the bytes of the two logs and the blocks of the
tables; and the structures in memory. Processes are killed, power fails and file
operations fail between any two steps. TLC checks small instances, and TLAPS
proves the main properties of the engine for every value of the constants.

| file | contents |
|---|---|
| `Lsm.tla` | records, tables, versions, and the pure algorithms: search order, manifest staging checks, compaction picking, manual range widening, compaction outputs |
| `Engine.tla` | the engine as a state machine over memory and files, and its properties |
| `BlockFile.tla` | fields in blocks of fixed size: where padding goes, for writers and readers |
| `WalFile.tla` | a WAL file's cells: fragments, the record assembler, the batch and the streaming loader |
| `ManifestFile.tla` | the MANIFEST's cells: header, edits field by field, the loader's verdicts |
| `Storage.tla` | `open`, `put` and `flush` over these two files, cell by cell |
| `Journal.tla` | what the two files promise together, the abstract specification of `Storage` |
| `TableFile.tla` | one table file: sections, what the loader checks, lookup |
| `TableStore.tla` | the life of table files: build, publish, open, read, compact |
| `Drivers.tla` | red-black tree, treap, splay tree and skip list |
| `Arena.tla` | the page allocator with checkpoints |
| `MemTable.tla` | generations over the drivers, with readers, a writer and flushers |
| `MCEngine.tla`, `MCStorage.tla`, `MCTables.tla`, `MCMemory.tla`, `*.cfg` | the instances TLC checks |
| `LevelSpec.tla` | the predicates the engine's invariants are built from |
| `LsmProofs.tla` | lemmas about the operators of `Lsm` |
| `EngineProofs.tla` | inductive invariants: types, table files |
| `WalProofs.tla` | inductive invariants: control flow, WAL files, MANIFEST header |
| `RecordProofs.tla` | inductive invariant: the records in WALs, memtables and tables |
| `DurabilityProofs.tla` | inductive invariant: what clients were told |
| `OrderProofs.tla` | inductive invariant: the order of search |
| `EngineTheorems.tla` | the theorems about the engine |
| `TableStoreProofs.tla` | publication of table files |
| `PROJECT.json` | components, runs, mutants, map to source lines, findings, hazards, theorems |

## The system

| part | source | model |
|---|---|---|
| Engine, KVDB facade | `core/engine/engine.cpp`, `core/kvdb.cpp` | `Engine`; its use of the log files in `Storage` |
| Manifest | `core/engine/manifest.cpp` | control in `Engine`, staging in `Lsm`, file contents in `ManifestFile` and `Storage` |
| WAL | `core/engine/wal.cpp` | control in `Engine`, file contents in `WalFile` and `Storage` |
| MemTable, drivers | `core/engine/mem_table.cpp`, `driver.cpp`, `data_structures/*` | `MemTable`, `Drivers`; as sets in `Engine` |
| Arena | `core/allocator/arena.cpp` | `Arena`, driven by `MemTable` |
| Level manager | `core/engine/level_manager.cpp` | `Lsm`, as sets |
| Compaction | `core/compaction/*`, `utils/merge_iterator.cpp` | picking in `Lsm`, the merge record by record in `TableStore`, one step in `Engine` |
| Tables | `core/engine/sstable*.cpp`, `core/sstable_infra/*`, `core/sstable_entities/*` | `TableFile`, `TableStore`; as sets of records in `Engine` |
| File layer, block encoding | `abstractions/file.cpp`, `utils/*` | steps that may fail; `BlockFile` |
| Checksums, hashing, demo, benchmarks | `utils/crc32_helpers.cpp`, `MurmurHash3.cpp`, `main.cpp`, `benchmarks/*` | not modelled |

**How the parts interact.** A write is appended to the WAL (and synced with
`sync_on_write`), then applied to the mutable MemTable. A flush freezes the
MemTable and drains the immutable ones oldest first. Each becomes an L0 table
file. The last one also rotates the WAL: a replacement is created, the manifest
edit that adds the table and names the replacement is committed, and then the
old WAL is closed and removed. Compaction merges tables into the next level,
commits an edit that exchanges them, and then removes the inputs. `open` replays
the manifest, then the WAL it names, rewrites the records to a replacement WAL
and commits that.

## Engine and Lsm

`Engine::mutex_` is held for the whole of each public call, so the model has one
call in progress: `pc` is where it stands and `job` its local variables. There
is a step for each operation on a file that recovery reads; a crash can come
between any two of them. The arguments of the calls are chosen with `\E`.

| variable | in the code |
|---|---|
| `manifest` | the MANIFEST file: state of its header and the versions its prefixes replay to. The first is the one the synced prefix yields, the last the one the whole file yields |
| `wal` | the WAL files: header state, records, how many are synced. `Torn` is an incomplete append |
| `sst` | the published table files; `{}` is no file (no table is built from no records) |
| `catalog` | `level_manager_` and the manifest's counters in memory |
| `poisoned` | `Manifest::write_poisoned_` |
| `mem`, `imm` | mutable MemTable, immutable ones oldest first |
| `next_sequence`, `wal_id`, `writer` | `next_sequence_`, `current_wal_id_`, the file that `wal_` appends to (0 once closed) |
| `issued`, `acked`, `promised`, `crashes` | history, which no step of the engine reads: the writes in order, the last acknowledged and the last durable one of each key |

| call | actions, in order |
|---|---|
| `open` | `Open`; `CreateManifest`, `WriteManifestHeader`, `SyncManifestHeader` or `LoadManifest`; `CreateWal`, `WriteWalHeader`, `SyncWalHeader` or `RecoverWal`, `SyncReplacement`, commit, `OpenCommitted`, `RemoveWal` |
| `put`, `remove` | `PutWrite`, `PutSync`, `PutApply`, and a flush when the limits say so |
| `flush` | `Flush`, `Freeze`, then for each immutable MemTable `FlushTable`, `FlushEdit`, commit, `FlushCommitted`, `RemoveWal`; `Drained`; background compactions; `FlushDone` |
| commit | `AppendEdit`, `SyncEdit` |
| compaction | `BackgroundCompact` or `ManualCompact`, commit, `CompactCommitted`, `RemoveSst`, `CompactDone` |
| `compact_range` | `CompactRange`, a flush, then per level `ManualSkip` or a compaction; `ManualDone` |
| `close` | `Close`, `CloseManifest` |

An action named `...Fails` or `Refuse...` is the error return of the one it is
named after, with what that return leaves behind. Which operations may fail is
the constant `Faults`. `Kill` ends the process and keeps all files. `PowerLoss`
also cuts the MANIFEST and the WAL it then names to any prefix that covers what
was synced.

**Abstractions.**
- A value is the number of the write that wrote it. `get` therefore says which
  write it returns, and "this read is older than that write" can be stated.
- Table metadata carries the records of the table, which give its key range and
  size. What the file holds is `sst`, a separate variable, so that metadata and
  file can disagree. `get` and compaction read the file.
- Sizes are counted in records, all of one size. Whether a MemTable limit is
  reached after a put is left open, which covers every limit.
- The size of the MANIFEST is not counted: an edit that meets a block boundary
  is the subject of `ManifestFile` and `Storage`.
- The id-keyed cache of open tables is not a variable. It is never evicted, so
  it is right as long as the file of a live table never changes, which
  `NeverTouchesLiveTable` states.
- An append that a kill or a power loss interrupts leaves a torn tail, which
  recovery drops: the same as not having happened. An append that fails while
  the process goes on is `Torn`. That a power loss leaves a prefix of a file is
  assumed.
- A call that only returns an error (a put with the WAL closed or the sequence
  numbers used up, a close whose first sync fails or whose WAL is closed)
  changes nothing and is a stuttering step.
- A file operation that fails while `open` creates or rewrites a file ends in
  the same state as a `Kill` there.
- A table or replacement WAL that no version names is one step: its temporary or
  partial forms are removed or overwritten before its name is used.
- What loading makes of bytes behind an incomplete append (corruption or a torn
  tail) depends on the bytes; `RecoverWal` and `RefuseWal` are both possible.
- A get of a table whose file is missing returns an error in the code. In the
  model it does not find the key, which `ReadsSeeAcked` reports.

## Log files: BlockFile, WalFile, ManifestFile, Storage

`Storage` drives the contents of MANIFEST and WAL the way `Engine::open`, `put`
and `flush` do. A file is `[cells, synced]`; a write of several fields is cut
off after any cell by a kill, and a power loss cuts a file anywhere behind its
synced cells. A cell remembers what it was written as part of, so a checksum
matches exactly when the cells it covers were written together. `truncated` is
the MANIFEST before the tail was cut off by `Manifest::load`, which is not
synced, so that a power loss may bring it back. A power loss touches the files
of one WAL id.

`Journal` is the abstract specification: a log of writes of which a durable
prefix survives. `MCStorage` adds the history variable `seen`, what an `open`
would recover from the files, as the refinement mapping. `seen` is frozen from
the first edit that meets a block boundary on, because from then on no recovery
is possible (the finding `manifest_boundary`).

## Table files: TableFile, TableStore

Each section but the data section is confined to one block, so a file is a
sequence of blocks and offsets are positions in it. `rot` says that a block has
changed since it was written; the checksum is ideal. `TableStore` writes the
sections, syncs the temporary file, renames it and syncs the directory, one step
each, under failures and crashes (`MaxFaults` of them). It opens tables into
the pool with every check of the loader, validates data blocks at first use, and
runs a compaction one merge step at a time. Damage to blocks that were already
validated is excluded: the code trusts them. A removed file does not come back
after a power loss.

`SSTable::get` never asks the Bloom filter, although `sstable.h:62-63` says it
does; `FilterCovers` states what the filter would have to guarantee.

## Memory: Drivers, Arena, MemTable

The four drivers are modelled pointer by pointer, with random priorities and
heights as choices. A lookup holds the shared lock from its first step to its
last and takes a step per turn of its loop, then one for the immutable
generations; on a splay tree it also rotates, one turn of the splay at a time.
Lookups of two readers overlap. Everything under the exclusive lock is one step
and waits for them. Two flushers
pin, dump, publish and retire generations without the engine's mutex. The arena
is a value with pages and cursors; puts fail at any allocation and roll it
back. Sequence numbers grow as the engine issues them, so duplicate records do
not occur, and `Arena::reset`, which the engine never calls, is left out.

The builds in `Serialized` have their lookups one at a time, as they come under
the engine's mutex. In `memory` that is the splay tree, whose lookups write: the
other three classes share the lock between two readers. `splay_readers` takes
the splay tree out of `Serialized`; see the findings.

## Properties and runs

| run | instance | properties |
|---|---|---|
| `faults` | `sync_on_write`, 2 crashes, 2 writes; table writes, WAL closes, removals, manifest appends may fail | `ReadsSeeAcked`, `RecoveryKeepsPromises`, `NamedWalExists`, `WalReplays`, `TablesIntact`, `NeverTouchesLiveTable` |
| `compaction` | `sync_on_write`, 4 writes, background compaction and `compact_range` of the upper key | `ReadsSeeAcked`, `RecoveryKeepsPromises`, `NamedWalExists`, `WalReplays`, `SearchOrder`, `EditsStage`, `TablesIntact`, `NeverTouchesLiveTable` |
| `session` | one process, 2 writes, every fault but a failing WAL close (see `faults`), few ids, `compact_range` with a reversed and a full range | `TypeOK`, `CatalogIntact`, `SearchOrder`, `EditsStage` |
| `liveness` | `FairSpec`, no sync, 1 crash, 2 writes, few ids | `ReadsSeeAcked`, `RecoveryKeepsPromises`, `CallsReturn` |
| `logs` | records of one and of several fragments, 3 writes, kills and power losses in all | `TypeOK`, `PromisesDurable`, `StreamMatchesBatch`, `TornAppendContained`, `ImplementsJournal` |
| `tables` | two memtables of up to three records, blocks of one or two records, one failure, crash or damage | `TypeOK`, `PublishedWhole`, `GetsNewest`, `HealthyTablesAnswer`, `FilterCovers`, `CompactionComplete`, `CompactionConsumes` |
| `memory` | all four drivers, three keys, four or five calls, up to eight records, two readers, two flushers | `TypeOK`, `DriversValid`, `GetSeesNewest`, `NothingLost`, `BytesBacked` |

The engine:
- `ReadsSeeAcked`: between calls, a get returns the last acknowledged write of
  the key or a later one.
- `RecoveryKeepsPromises`: at every moment, whatever prefix of the MANIFEST and
  of the WAL it names survives, recovery from it loses no write that a synced
  put, a flush, a compact_range or a close promised. It is stated for a MANIFEST
  whose header is synced; see the limits below.
- `NamedWalExists`, `TablesIntact`: every version that recovery may find names
  files that exist with the contents meant for it. `CatalogIntact` says so of
  the catalog in memory.
- `WalReplays`: once a write is promised, no open is refused because of what the
  WAL holds.
- `SearchOrder`: what a read searches first is never older than what it searches
  later, so the first hit may be returned.
- `EditsStage`: `Manifest::commit` never rejects an edit the engine built.
- `NeverTouchesLiveTable`: no step changes or removes the file of a table that
  a recoverable version or the catalog names after the step.
- `CallsReturn`: every call ends.

The files:
- `ImplementsJournal`: the log that `open` would recover grows only by writes and
  shrinks only by a power loss, down to what was synced. `PromisesDurable`:
  promised writes are in the synced part.
- `StreamMatchesBatch`: wherever a WAL is cut, its two loaders agree.
  `TornAppendContained`: a record is never put together from two.
- `PublishedWhole`: a table in the catalog is complete, synced and linked.
  `GetsNewest`, `HealthyTablesAnswer`: a lookup that succeeds is right, and on an
  undamaged table it succeeds. `CompactionComplete`: a merge that is committed
  kept the newest record of every key. `CompactionConsumes`: each of its steps
  comes nearer to the end.

The memory:
- `DriversValid`: each structure passes its own validator and lists its records
  in order. `GetSeesNewest`: a lookup returns a version no older than the newest
  one in any generation when it began. `NothingLost`: a retired generation was
  published. `BytesBacked`: the bytes of live records are allocated, and no two
  of them overlap.

All seven hold. Each property has a mutant, a plausible slip in the code
(tombstones dropped on every level, the sequence counter not raised after a
replay, inputs removed before the commit, a rebalancing that stops after a
recolouring, ...), that TLC refutes under the same configuration.

**Bounds.** Two keys are what key ranges, overlap and disjointness need, with
one record per compaction output so that a level holds several tables. Three
levels are the fewest with a level that is neither L0 nor the last, where
dropping a tombstone is wrong. An L0 trigger of two tables and a level budget of
one record make background compaction cascade. Two writes suffice for the fault
runs because a failed flush followed by a write gives two generations sharing
one WAL, and two crashes reach one in the middle of recovering a recovered WAL;
four writes are needed for a removal above a value above an older table. In that
run no crash happens, but the recovery properties speak of every prefix that one
would leave. `MaxSeq` is large
enough not to stop the writes; `MaxTableId` and `MaxWalId` are small enough that
ids run out, which is an error path of the code; three WALs are one in use, one
that replaces it, and one more rotation or recovery. In `logs` a WAL block takes two
fragments and the MANIFEST block a few edits, so that records are cut and edits
meet a boundary. In `tables` the index takes two or three entries, so that the
one-block limit is met. In `memory` pages double once and one value is larger
than the threshold for large allocations; a red-black tree alone in memory grows
to eight records, which a recolouring that calls for a rotation higher up needs,
and lookups overlap after up to three calls (`MaxShared`), so on trees of three
records or on two generations. Deadlock is checked in every run: a
closed or failed store can always be opened again, and the other models stutter
only where a bound is named.

**Fairness.** `FairSpec` asks only that a call in progress takes its next step:
the thread that holds the mutex is scheduled and system calls return. Clients
need not call anything. `Kill` and `PowerLoss` have no fairness.

## Findings

Five runs check a property that the documentation or a comment states; TLC finds
each violated.

- `ambiguous_flush` (`engine.cpp:703-710`). The manifest edit is appended and
  its sync fails. The flush removes the replacement WAL that the edit names. The
  edit may be on disk all the same. The old WAL stays in use and later writes
  are acknowledged into it; if the edit survives, `open` finds the WAL it names
  missing and creates an empty one.
- `failed_sync` (`engine.cpp:506-511`). A put whose WAL sync fails leaves its
  record in the WAL and does not advance the sequence number. The next put of
  the key writes a second record with the same number and is acknowledged.
  Replaying both is refused as a duplicate: the database does not open.
- `torn_append` (`engine.cpp:500-504`). A put whose append stops part-way leaves
  the bytes and a usable writer. Later writes are synced behind them and
  acknowledged, and recovery stops at the incomplete fragment.
- `manifest_boundary` (`manifest.cpp:575`, `904`). Fields of an edit that do not
  fit a block are written with padding, but the writer compares what it wrote
  with the unpadded size. The first edit that meets a boundary fails and
  poisons the manifest with its bytes in the file, and from then on
  `Manifest::load` refuses the file. No operation has to fail for this.
- `splay_readers` (`splay_tree.cpp:324`, `mem_table.cpp:55`). `MemTable::get`
  takes the shared lock, and with the splay tree as driver the lookup of the
  active generation rotates it. With keys 1 and 2 in memory and 2 at the root,
  two threads look up 1. One stands at 2 when the other has found 1 and rotated
  it to the root; the first goes on from 2, which has nothing below it any more,
  and returns that 1 is not there. Rotations are whole steps in the model; in
  the code they race as well. The red-black tree, the treap and the skip list
  write nothing in a lookup, and inside the engine the mutex keeps lookups
  apart: it takes a user of `MemTable` itself, which `mem_table.md` calls
  "independently thread-safe", with that driver.

The first needs the sync of the MANIFEST to fail, the next two a failing sync or
append of the WAL, the last a driver other than the default. `PROJECT.json` quotes the statements they contradict.

A failing sync of the MANIFEST has a second effect (`engine.cpp:648`): after a
compaction whose sync failed, `next_table_id` in memory is still that of its
first output, and the next flush renames its table over that file before it
finds the manifest poisoned. If the compaction's edit survives, it names a file
with other records, so `TablesIntact` needs syncs of the MANIFEST that succeed.


## Proofs

TLAPS proves the following for every value of the constants: any number of keys,
levels, tables, WALs, writes and crashes. The assumptions are `LsmAssumption`
and `EngineAssumption`: the constants have their types, keys are finitely many
natural numbers, there are at least two levels, and limits that the code divides
by or counts from are not zero.

| theorem | states | under which faults |
|---|---|---|
| `TypeCorrect` | `TypeOK` | all |
| `TablesStayIntact` | `TablesIntact`, `CatalogIntact` | the MANIFEST's syncs succeed |
| `LiveTablesUntouched` | `NeverTouchesLiveTable` | the MANIFEST's syncs succeed |
| `NamedWalsExist` | `NamedWalExists` | the MANIFEST's syncs succeed |
| `EditsAlwaysStage` | `EditsStage` | `LogsReliable` |
| `ReadsAnswerAcked` | `ReadsSeeAcked` | `LogsReliable` |
| `PromisesSurvive` | `RecoveryKeepsPromises` | `LogsReliable` |
| `RecoveriesReplay` | `WalReplays` | `LogsReliable` |
| `SearchedByAge` | `SearchOrder` | `LogsReliable`, and `SyncOnWrite` or no crash |
| `PublishedTablesWhole` | `PublishedWhole` of `TableStore` | all |

`LogsReliable` says that a sync of the MANIFEST and an append to the WAL succeed,
and with `sync_on_write` the sync of a put. Table writes, removals, WAL closes,
appends of manifest edits, kills and power losses are allowed everywhere. The
assumptions cannot be dropped: `ambiguous_flush` (MANIFEST sync), `torn_append`
(WAL append) and `failed_sync` (WAL sync) are the counterexamples. Without
`sync_on_write` nobody waits for the sync of a put, and it may fail.

**The inductive invariants.** None of these properties is inductive. The proof
is layered; each layer is preserved by `Next` given the ones before it.

1. `Typed` (`EngineProofs`): `TypeOK` and what is left to do at each `pc`
   (`Pending`): a draining flush has a memtable, a recovery its replacement WAL.
2. `TableInv`: every version that recovery may find, and the catalog, has its
   table files, and all table ids in use are below `next_table_id`. This is why a
   new table never overwrites one in use. It also says how the catalog and the
   last version of the MANIFEST are related during a commit.
3. `FlowInv` (`WalProofs`): which WAL is written to and which memtables are empty
   at each step of a call.
4. `WalInv`, `HeaderInv`: the WAL that a recoverable version names has a synced
   header; outside a commit the MANIFEST has only one recoverable version.
5. `RecordInv` (`RecordProofs`): the records in WALs, memtables and tables are
   what the writes wrote; a higher sequence number is a later write; a WAL holds
   increasing numbers; the memtables are in the WAL; the counters are above all
   numbers in use; the staged edit would load.
6. `KeepInv` (`DurabilityProofs`): the *first* place that answers for a key has
   the last acknowledged write or a later one (`Shows`), in memory and for every
   version and every part of the WAL that may survive (`Keeps`). A compaction
   drops records, so a statement about *all* records would be false; that the
   first hit is fresh is what merging, dropping tombstones on the bottom level
   and replaying a WAL preserve.
7. `OrderInv` (`OrderProofs`): the tables of every recoverable version are in the
   order of age; a memtable, and the WAL that would be replayed into one, holds
   with a record every record of the key in the tables that is newer (`Suffix`);
   and a record that is in the WAL and in a table is synced in the WAL, so that
   no power loss can leave an older part of the WAL in front of the table. TLC
   checked this invariant on instances with faults and crashes and with
   compactions before it was proved.

`LevelSpec` holds these predicates, and in its last section the facts about the
algorithms of `Lsm` that the steps need: outputs are disjoint and numbered in
order, picking and manual widening leave no table behind that shares a key with
the inputs, a merge leads to a version that loads and changes no answer.
`LsmProofs` proves the facts about picking and splitting (`PlanFactsHold`,
`PlansHold`) and those about merging and searching (`MergesHold`). The proofs
about the engine have them as their hypothesis `LevelFacts`, and `EngineTheorems`
joins both. `TableStoreProofs` is separate: its invariant
`StoreInv` adds to `PublishedWhole` what the writer has achieved at each step of
a publication, and that the ids a compaction uses are unused.

**Checked by TLC only.**
- `CallsReturn`: liveness.
- The engine under failing syncs of the MANIFEST or failing WAL writes, as far as
  the properties hold there (`CatalogIntact` and `SearchOrder` in `session`).
- `Storage`, `WalFile`, `ManifestFile`, `Drivers` and `MemTable`: what they
  compute is defined by recursion over cells, trees and lists, and proving it
  needs induction over that data. For the same reason the other properties of
  `TableStore`: the contents of its tables are sequences built by recursion.

`SearchOrder` is more than `ReadsSeeAcked` needs, and without its further
assumption it fails where that one holds. Without `sync_on_write`, write a key
twice, let the flush fail to write its table, write once more and flush again:
the drain commits the table of the first memtable while the WAL, which the second
one still needs, stays. A power loss at that point may keep the edit and only the
first record of the WAL. Recovery puts that record above the table, and a read
answers it instead of the second write. Nothing was promised, so no promise is
broken; but a later compaction makes the second write visible again.

## Not modelled

- A MANIFEST header that was written, not synced, and then loaded by another
  process before a power loss. Nothing syncs it until the next commit.
- Directory entries of MANIFEST and WAL. Only the publication of a table syncs
  its directory; the model lets a synced MANIFEST or WAL survive with its name,
  and a removed file does not come back.
- Two processes on one directory: there is no lock file.
- Failing memory allocation in the engine, among it a MemTable insertion that
  fails after the WAL append.
- Damage to data that was already validated, and collisions of checksums.
- `Arena::reset`, which nothing calls, and the CRC, the hash function, option
  parsing, the demo and the benchmarks.

Two statements in the headers differ from the code in ways no run is about:
`compact_range` is described as half-open (`include/core/kvdb.h`) and its end is
inclusive in the code; `close` is described as flushing pending state, and syncs
the WAL instead.
