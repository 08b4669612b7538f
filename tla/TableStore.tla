----------------------------- MODULE TableStore -----------------------------
(***************************************************************************)
(* The life of SSTable files: memtable dumps are built into tables and     *)
(* published (temporary file, sync, rename, directory sync), published     *)
(* tables are opened, validated block by block and read, and a compaction  *)
(* merges them into new ones.  Any system call may fail, the process may   *)
(* be killed, power may be lost, and the medium may damage a block.        *)
(*                                                                         *)
(* The engine's mutex makes flush, compaction and lookup exclude each      *)
(* other; the steps of one of them are separate actions here because a     *)
(* failure or a crash may fall between any two.  Committing the result to  *)
(* the catalog (`live`) is one step: Storage and Engine model how.         *)
(***************************************************************************)
EXTENDS TableFile

CONSTANTS Inputs,      \* ids of the tables that memtables are flushed to
          Outputs,     \* ids a compaction may use, the least first
          Dumps,       \* for each input, the sorted sequences its memtable may dump
          TargetSize,  \* CompactionPlan::max_output_file_size
          Fixed,       \* SSTable::fixed_disk_size plus the index header
          Bottommost,  \* is_bottommost_destination of the compaction's target
          MaxFaults    \* bound: failures, crashes and damages in a behaviour

ASSUME TableStoreAssumption ==
    /\ Inputs \subseteq Nat \ {0} /\ Inputs # {}
    /\ Outputs \subseteq Nat \ {0} /\ Inputs \cap Outputs = {}
    /\ \A id \in Inputs : \A d \in Dumps[id] : d # <<>> /\ buildable(d)
    /\ Bottommost \in BOOLEAN
    /\ {TargetSize, Fixed, MaxFaults} \subseteq Nat

Ids == Inputs \cup Outputs

VARIABLES dumps,   \* what each memtable holds, <<>> once it is retired
          wrote,   \* history: the data blocks last given to SSTable::write per id
          tmp,     \* the file at the temporary path of each id
          final,   \* the file at the final path of each id
          live,    \* ids in the catalog
          work,    \* the SSTable::write in progress
          pool,    \* SSTableManager::pool
          job,     \* the CompactionJob::run in progress
          faults

vars == <<dumps, wrote, tmp, final, live, work, pool, job, faults>>

\* A file is its blocks, whether the blocks are on the medium, and whether its
\* name is.
NoFile == [blocks |-> <<>>, synced |-> FALSE, linked |-> FALSE, there |-> FALSE]
file_of(blocks) == [blocks |-> blocks, synced |-> FALSE, linked |-> FALSE, there |-> TRUE]

NoWork == [id |-> 0, step |-> "none"]
NoView == [entries |-> <<>>, bloom |-> EmptyBloom, sizes |-> <<>>, state |-> <<>>]
NoJob  == [phase |-> "none"]

cached(id) == pool[id] # NoView

Init ==
    /\ dumps \in {d \in [Inputs -> UNION {Dumps[id] : id \in Inputs}] :
                    \A id \in Inputs : d[id] \in Dumps[id]}
    /\ wrote = [id \in Ids |-> <<>>]
    /\ tmp = [id \in Ids |-> NoFile]
    /\ final = [id \in Ids |-> NoFile]
    /\ live = {}
    /\ work = NoWork
    /\ pool = [id \in Ids |-> NoView]
    /\ job = NoJob
    /\ faults = 0

Fault == faults < MaxFaults /\ faults' = faults + 1

(***************************************************************************)
(* SSTable::write.  A flush that fails leaves the memtable to a later      *)
(* flush, under the same id; a compaction that fails removes the outputs   *)
(* it has finished.                                                        *)
(***************************************************************************)
start_write(id, blocks) ==
    /\ work' = [id |-> id, step |-> "sections"]
    /\ wrote' = [wrote EXCEPT ![id] = blocks]

\* Engine::flush_oldest_immutable up to the write; memtables are flushed in
\* the order in which they were frozen.
Build(id) ==
    /\ work = NoWork /\ job = NoJob
    /\ dumps[id] # <<>>
    /\ \A older \in Inputs : older < id => dumps[older] = <<>>
    /\ start_write(id, build_impl(dumps[id]))
    /\ UNCHANGED <<dumps, tmp, final, live, pool, job, faults>>

\* cleanup_finished_outputs: the outputs finished before the failing one.
removed(files, ids) == [id \in Ids |-> IF id \in ids THEN NoFile ELSE files[id]]

finished == IF job = NoJob THEN {} ELSE job.outputs

\* The caller's reaction to a write that returns an error, given what it left
\* at the final paths.
Abandon(files) ==
    /\ work' = NoWork
    /\ job' = NoJob
    /\ final' = removed(files, finished)

writing(step) == work # NoWork /\ work.step = step

\* A stale temporary file is removed first, so the sections go to an empty one.
WriteSections ==
    /\ writing("sections")
    /\ writable(wrote[work.id])
    /\ tmp' = [tmp EXCEPT ![work.id] = file_of(encoded(work.id, wrote[work.id]))]
    /\ work' = [work EXCEPT !.step = "sync"]
    /\ UNCHANGED <<dumps, wrote, final, live, pool, job, faults>>

\* A call fails part-way, or the index or the meta section would not fit.
WriteFails ==
    /\ writing("sections")
    /\ \E n \in 0 .. write_reaches(wrote[work.id]) :
         /\ IF n < write_reaches(wrote[work.id]) THEN Fault
            ELSE ~writable(wrote[work.id]) /\ UNCHANGED faults
         /\ tmp' = [tmp EXCEPT ![work.id] =
                file_of(SubSeq(encoded(work.id, wrote[work.id]), 1, n))]
    /\ Abandon(final)
    /\ UNCHANGED <<dumps, wrote, live, pool>>

\* A mutant: the rename does not wait for the data.
SyncTable_skipped ==
    /\ writing("sync")
    /\ work' = [work EXCEPT !.step = "rename"]
    /\ UNCHANGED <<dumps, wrote, tmp, final, live, pool, job, faults>>

\* sync and close.
SyncTable ==
    /\ writing("sync")
    /\ tmp' = [tmp EXCEPT ![work.id].synced = TRUE]
    /\ work' = [work EXCEPT !.step = "rename"]
    /\ UNCHANGED <<dumps, wrote, final, live, pool, job, faults>>

RenameTable ==
    /\ writing("rename")
    /\ final' = [final EXCEPT ![work.id] = tmp[work.id]]
    /\ tmp' = [tmp EXCEPT ![work.id] = NoFile]
    /\ work' = [work EXCEPT !.step = "directory"]
    /\ UNCHANGED <<dumps, wrote, live, pool, job, faults>>

\* sync, close or rename fails: the temporary file stays.
PublishFails ==
    /\ writing("sync") \/ writing("rename")
    /\ Fault
    /\ Abandon(final)
    /\ UNCHANGED <<dumps, wrote, tmp, live, pool>>

\* Syncing the directory makes every name in it durable.  A flushed table goes
\* to the catalog and its memtable is retired; a compaction's waits for the
\* others.
SyncDirectory ==
    /\ writing("directory")
    /\ final' = [id \in Ids |-> [final[id] EXCEPT !.linked = final[id].there]]
    /\ work' = NoWork
    /\ IF job = NoJob
       THEN /\ live' = live \cup {work.id}
            /\ dumps' = [dumps EXCEPT ![work.id] = <<>>]
            /\ UNCHANGED job
       ELSE /\ job' = [job EXCEPT !.outputs = @ \cup {work.id}, !.blocks = <<>>]
            /\ UNCHANGED <<dumps, live>>
    /\ UNCHANGED <<wrote, tmp, pool, faults>>

SyncDirectoryFails ==
    /\ writing("directory")
    /\ Fault
    /\ Abandon(final)
    /\ UNCHANGED <<dumps, wrote, tmp, live, pool>>

(***************************************************************************)
(* Lookups.  `failing` names the read that fails, "none" when all succeed. *)
(***************************************************************************)
Reads == {"none", "open", "validate", "search"}

file_at(id) == final[id].blocks

\* SSTableManager::open: NoView when the file cannot be read or is refused.
opened(id, failing) ==
    IF cached(id) THEN pool[id]
    ELSE IF failing # "open" /\ final[id].there /\ loads(file_at(id))
    THEN view_of(file_at(id))
    ELSE NoView

\* A mutant: a failed read of the payload is remembered like a bad checksum.
verdict_sticky(view, file, b, failing) ==
    IF view.state[b] # "Unvalidated" THEN view.state[b]
    ELSE IF failing = "validate" THEN "Corrupt"
    ELSE IF payload_checks(file[DataStart + b - 1], view.sizes[b]) THEN "Valid" ELSE "Corrupt"

\* DataBlock::validate: the cached verdict, or a new one; a read that fails
\* leaves none.
verdict(view, file, b, failing) ==
    IF view.state[b] # "Unvalidated" THEN view.state[b]
    ELSE IF failing = "validate" THEN "Unvalidated"
    ELSE IF payload_checks(file[DataStart + b - 1], view.sizes[b]) THEN "Valid" ELSE "Corrupt"

\* SSTable::get on an opened table: the new state of the view, whether the
\* call succeeds, and the record it finds, if any.
get(view, file, key, failing) ==
    LET b == find_first_candidate(view.entries, key)
    IN  IF view = NoView THEN [view |-> view, ok |-> FALSE, found |-> {}]
        ELSE IF b = 0 THEN [view |-> view, ok |-> TRUE, found |-> {}]
        ELSE LET v == verdict(view, file, b, failing)
                 ok == v = "Valid" /\ failing # "search"
             IN  [view  |-> [view EXCEPT !.state[b] = v],
                  ok    |-> ok,
                  found |-> IF ok THEN find_in_block(payload_read(file[DataStart + b - 1]), key)
                            ELSE {}]

lookup(id, key, failing) == get(opened(id, failing), file_at(id), key, failing)

Key == UNION {UNION {{d[i].key : i \in DOMAIN d} : d \in Dumps[id]} : id \in Inputs}

Lookup(id, key) ==
    /\ work = NoWork /\ job = NoJob
    /\ id \in live
    /\ \E failing \in Reads :
         /\ IF failing = "none" THEN UNCHANGED faults ELSE Fault
         /\ pool' = [pool EXCEPT ![id] = lookup(id, key, failing).view]
    /\ UNCHANGED <<dumps, wrote, tmp, final, live, work, job>>

\* Engine::get when the catalog names no table.
LookupNowhere == work = NoWork /\ job = NoJob /\ live = {} /\ UNCHANGED vars

(***************************************************************************)
(* SSTableIterator.                                                        *)
(***************************************************************************)
Fresh == [next |-> 1, records |-> <<>>, at |-> 1, valid |-> FALSE, ok |-> TRUE]

\* A mutant: next_block_index is not advanced.
load_next_block_again(it, file, count, fails) ==
    IF it.next > count THEN [it EXCEPT !.records = <<>>, !.at = 1, !.valid = FALSE]
    ELSE LET block == file[DataStart + it.next - 1]
         IN  IF fails \/ ~iterator_block_checks(block)
             THEN [it EXCEPT !.records = <<>>, !.at = 1, !.valid = FALSE, !.ok = FALSE]
             ELSE [next |-> it.next, records |-> block.payload, at |-> 1,
                   valid |-> TRUE, ok |-> TRUE]

load_next_block(it, file, count, fails) ==
    IF it.next > count THEN [it EXCEPT !.records = <<>>, !.at = 1, !.valid = FALSE]
    ELSE LET block == file[DataStart + it.next - 1]
         IN  IF fails \/ ~iterator_block_checks(block)
             THEN [it EXCEPT !.records = <<>>, !.at = 1, !.valid = FALSE, !.ok = FALSE]
             ELSE [next |-> it.next + 1, records |-> block.payload, at |-> 1,
                   valid |-> TRUE, ok |-> TRUE]

blocks_in(id) == Len(pool[id].sizes)

seek_to_first(id, view, fails) ==
    load_next_block(Fresh, file_at(id), Len(view.sizes), fails)

iterator_next(it, id, fails) ==
    IF ~it.valid THEN it
    ELSE IF it.at < Len(it.records) THEN [it EXCEPT !.at = @ + 1]
    ELSE load_next_block(it, file_at(id), blocks_in(id), fails)

record(it) == it.records[it.at]

(***************************************************************************)
(* MergeIterator and CompactionJob::run.                                   *)
(***************************************************************************)
\* add_input_table for every input: open it, or take it from the pool, and
\* position an iterator on its first record.
StartCompaction ==
    /\ work = NoWork /\ job = NoJob
    /\ Inputs \subseteq live
    /\ pool' = [id \in Ids |-> IF id \in Inputs THEN opened(id, "none") ELSE pool[id]]
    /\ \A id \in Inputs : pool'[id] # NoView /\ seek_to_first(id, pool'[id], FALSE).ok
    /\ job' = [phase |-> "build",
               its |-> [id \in Inputs |-> seek_to_first(id, pool'[id], FALSE)],
               heap |-> {}, valid |-> FALSE, key |-> <<>>,
               blocks |-> <<>>, id |-> 0, next |-> lowest(Outputs), outputs |-> {}]
    /\ UNCHANGED <<dumps, wrote, tmp, final, live, work, faults>>

\* An input cannot be opened, or its first block cannot be read: the job fails
\* with nothing to undo, but the inputs it has opened stay in the pool.
StartCompactionFails ==
    /\ work = NoWork /\ job = NoJob
    /\ Inputs \subseteq live
    /\ \E bad \in Inputs, seeking \in BOOLEAN :
         /\ pool' = [id \in Ids |->
                IF id \in Inputs /\ (id < bad \/ (id = bad /\ seeking)) THEN opened(id, "none")
                ELSE pool[id]]
         /\ \A id \in Inputs :
              id < bad => pool'[id] # NoView /\ seek_to_first(id, pool'[id], FALSE).ok
         /\ IF seeking
            THEN /\ pool'[bad] # NoView
                 /\ \/ Fault
                    \/ ~seek_to_first(bad, pool'[bad], FALSE).ok /\ UNCHANGED faults
            ELSE \/ ~cached(bad) /\ Fault
                 \/ opened(bad, "none") = NoView /\ UNCHANGED faults
    /\ UNCHANGED <<dumps, wrote, tmp, final, live, work, job>>

\* MergeIterator::build seeks every input again and stops at the first that
\* fails; the inputs behind it stay where they were.
merge_build(j, bad) ==
    LET its == [id \in Inputs |->
            IF \E b \in bad : b < id THEN j.its[id]
            ELSE seek_to_first(id, pool[id], id \in bad)]
        ok == \A id \in Inputs : its[id].ok
        heap == {id \in Inputs : its[id].valid}
    IN  [j EXCEPT !.its = its, !.heap = heap, !.valid = ok /\ heap # {}, !.phase = "loop"]

BuildMerge ==
    /\ work = NoWork /\ job.phase = "build"
    /\ \E bad \in {{}} \cup {{id} : id \in Inputs} :
         /\ IF bad = {} THEN UNCHANGED faults ELSE Fault
         /\ job' = merge_build(job, bad)
    /\ UNCHANGED <<dumps, wrote, tmp, final, live, work, pool>>

\* internal_before through HeapCompare: the input at the front of the heap.
top(j) ==
    CHOOSE id \in j.heap :
        \A other \in j.heap \ {id} : record_less(record(j.its[id]), record(j.its[other]))

merge_record(j) == record(j.its[top(j)])

\* A mutant: the merge stays valid when its last input runs out.
merge_next_overrun(j, fails) ==
    IF ~j.valid THEN j
    ELSE LET id == top(j)
             it == iterator_next(j.its[id], id, fails)
             heap == IF it.ok /\ it.valid THEN j.heap ELSE j.heap \ {id}
         IN  [j EXCEPT !.its[id] = it, !.heap = heap, !.valid = it.ok]

merge_next(j, fails) ==
    IF ~j.valid THEN j
    ELSE LET id == top(j)
             it == iterator_next(j.its[id], id, fails)
             heap == IF it.ok /\ it.valid THEN j.heap ELSE j.heap \ {id}
         IN  [j EXCEPT !.its[id] = it, !.heap = heap, !.valid = it.ok /\ heap # {}]

compaction_keep_newest_record(r) == ~(r.type = "Tombstone" /\ Bottommost)

\* start_new_output takes the next id when no builder is active.
add_output(j, r) ==
    IF ~compaction_keep_newest_record(r) THEN j
    ELSE IF j.blocks = <<>>
    THEN [j EXCEPT !.blocks = add_payload(<<>>, r), !.id = j.next, !.next = @ + 1]
    ELSE [j EXCEPT !.blocks = add_payload(@, r)]

\* An advance that reads a block from the file may fail.
Advance(j, phase) ==
    \E fails \in BOOLEAN :
        /\ IF fails THEN Fault ELSE UNCHANGED faults
        /\ job' = [merge_next(j, fails) EXCEPT !.phase = phase]

\* The iterators yield records in order, so the builder takes what it is given
\* (can_add); a record it refused would leave the job stuck here.  Outputs
\* bounds the ids that allocate_table_id hands out.
TakeNewest ==
    /\ work = NoWork /\ job.phase = "loop" /\ job.valid
    /\ LET r == merge_record(job)
       IN  /\ compaction_keep_newest_record(r) =>
                 can_add(job.blocks, r) /\ (job.blocks = <<>> => job.next \in Outputs)
           /\ Advance([add_output(job, r) EXCEPT !.key = r.key], "older")
    /\ UNCHANGED <<dumps, wrote, tmp, final, live, work, pool>>

older_follows == job.valid /\ merge_record(job).key = job.key

SkipOlder ==
    /\ work = NoWork /\ job.phase = "older" /\ older_follows
    /\ Advance(job, "older")
    /\ UNCHANGED <<dumps, wrote, tmp, final, live, work, pool>>

full(blocks) ==
    blocks # <<>> /\ approximate_disk_space(records_of(blocks), Fixed) >= TargetSize

\* The end of the loop's body: a full output is finished.
RollOutput ==
    /\ work = NoWork /\ job.phase = "older" /\ ~older_follows
    /\ job' = [job EXCEPT !.phase = "loop"]
    /\ IF full(job.blocks) THEN start_write(job.id, job.blocks) ELSE UNCHANGED <<work, wrote>>
    /\ UNCHANGED <<dumps, tmp, final, live, pool, faults>>

\* A mutant: a merge that ended is taken for a merge that is complete.
FinishMerge_unchecked ==
    /\ work = NoWork /\ job.phase = "loop" /\ ~job.valid
    /\ job' = [job EXCEPT !.phase = "done"]
    /\ IF job.blocks # <<>> THEN start_write(job.id, job.blocks) ELSE UNCHANGED <<work, wrote>>
    /\ UNCHANGED <<dumps, tmp, final, live, pool, faults>>

\* No input failed: finish the last output.
FinishMerge ==
    /\ work = NoWork /\ job.phase = "loop" /\ ~job.valid
    /\ \A id \in Inputs : job.its[id].ok
    /\ job' = [job EXCEPT !.phase = "done"]
    /\ IF job.blocks # <<>> THEN start_write(job.id, job.blocks) ELSE UNCHANGED <<work, wrote>>
    /\ UNCHANGED <<dumps, tmp, final, live, pool, faults>>

\* An input failed: do not commit a partial compaction.
FailMerge ==
    /\ work = NoWork /\ job.phase = "loop" /\ ~job.valid
    /\ \E id \in Inputs : ~job.its[id].ok
    /\ Abandon(final)
    /\ UNCHANGED <<dumps, wrote, tmp, live, pool, faults>>

\* The edit replaces the inputs by the outputs; then the inputs' files go.
CommitCompaction ==
    /\ work = NoWork /\ job.phase = "done"
    /\ live' = (live \ Inputs) \cup job.outputs
    /\ final' = removed(final, Inputs)
    /\ job' = NoJob
    /\ UNCHANGED <<dumps, wrote, tmp, work, pool, faults>>

(***************************************************************************)
(* The environment.                                                        *)
(***************************************************************************)
Forget ==
    /\ work' = NoWork
    /\ job' = NoJob
    /\ pool' = [id \in Ids |-> NoView]

Kill ==
    /\ Fault
    /\ Forget
    /\ UNCHANGED <<dumps, wrote, tmp, final, live>>

\* Unsynced blocks may be missing from the end, and an unsynced name may be
\* missing altogether.  One table is written at a time, and what is left at
\* other temporary paths is never read, so one table's files change.
survivors(file) ==
    {f \in {[file EXCEPT !.blocks = SubSeq(@, 1, n), !.synced = TRUE, !.linked = TRUE] :
                n \in 0 .. Len(file.blocks)} \cup {NoFile} :
        /\ f = NoFile => ~file.there \/ ~file.linked
        /\ f # NoFile => file.there /\ (file.synced => f.blocks = file.blocks)}

PowerLoss ==
    /\ Fault
    /\ Forget
    /\ \E id \in Ids :
         /\ \E t \in survivors(tmp[id]) : tmp' = [tmp EXCEPT ![id] = t]
         /\ \E f \in survivors(final[id]) : final' = [final EXCEPT ![id] = f]
    /\ UNCHANGED <<dumps, wrote, live>>

\* The ways in which a block may read differently from what was written.
damages(block) ==
    {[block EXCEPT !.rot = TRUE], [block EXCEPT !.type = "Other"]}
      \cup (IF block.type = "Data"
            THEN {[block EXCEPT !.size = @ - 1], [block EXCEPT !.size = Block]} ELSE {})

\* A block that a lookup has validated is trusted from then on, on the ground
\* that a published file does not change; damage comes before that.
trusted(id, n) ==
    cached(id) /\ n - DataStart + 1 \in DOMAIN pool[id].state
      /\ pool[id].state[n - DataStart + 1] = "Valid"

Damage ==
    /\ work = NoWork /\ job = NoJob
    /\ Fault
    /\ \E id \in live : \E n \in DOMAIN file_at(id) :
         /\ ~trusted(id, n)
         /\ \E block \in damages(file_at(id)[n]) :
              final' = [final EXCEPT ![id].blocks[n] = block]
    /\ UNCHANGED <<dumps, wrote, tmp, live, work, pool, job>>

Write ==
    \/ WriteSections \/ WriteFails \/ SyncTable \/ RenameTable \/ PublishFails
    \/ SyncDirectory \/ SyncDirectoryFails

Compact ==
    \/ BuildMerge \/ TakeNewest \/ SkipOlder \/ RollOutput
    \/ FinishMerge \/ FailMerge \/ CommitCompaction

Next ==
    \/ \E id \in Inputs : Build(id)
    \/ Write
    \/ \E id \in Ids, key \in Key : Lookup(id, key)
    \/ LookupNowhere
    \/ StartCompaction \/ StartCompactionFails
    \/ Compact
    \/ Kill \/ PowerLoss \/ Damage

Spec == Init /\ [][Next]_vars

(***************************************************************************)
(* Properties.                                                             *)
(***************************************************************************)
entries_of(id) == records_of(wrote[id])

\* The definition a lookup is measured against: the version of the key with
\* the highest sequence number.
newest(records, key) ==
    {records[i] : i \in {i \in DOMAIN records :
        /\ records[i].key = key
        /\ \A j \in DOMAIN records :
             records[j].key = key => records[j].seq <= records[i].seq}}

\* The variables have their types; ids in the catalog are known ids.
TypeOK ==
    /\ live \subseteq Ids
    /\ faults \in 0 .. MaxFaults
    /\ \A id \in Ids : tmp[id].there \/ tmp[id] = NoFile
    /\ \A id \in Ids : final[id].there \/ final[id] = NoFile
    /\ work = NoWork \/ (work.id \in Ids
         /\ work.step \in {"sections", "sync", "rename", "directory"})
    /\ job = NoJob \/ (job.phase \in {"build", "loop", "older", "done"}
         /\ job.heap \subseteq Inputs /\ job.outputs \subseteq Outputs
         /\ (job.valid => job.heap # {}))

same_but_damaged(file, whole) == DOMAIN file = DOMAIN whole

\* A table that the catalog names, or that a compaction is about to enter,
\* is complete at its final path and would be after a power loss: SSTable::
\* fsync renames only what it has synced, and returns success only after the
\* directory is synced.  (Damage may change blocks, never their number.)
PublishedWhole ==
    \A id \in live \cup finished :
        /\ final[id].there /\ final[id].synced /\ final[id].linked
        /\ same_but_damaged(final[id].blocks, encoded(id, wrote[id]))

\* A lookup that succeeds returns the newest version that was written to the
\* table, or finds nothing when there is none: the first candidate range and
\* the first match in its block are enough although the versions of a key may
\* span blocks, and no damage makes SSTable::get return anything else.
GetsNewest ==
    \A id \in live, key \in Key, failing \in Reads :
        LET r == lookup(id, key, failing)
        IN  r.ok => r.found = newest(entries_of(id), key)

healthy(id) == final[id].blocks = encoded(id, wrote[id])

\* A table nothing has damaged answers every lookup whose reads succeed: what
\* SSTable::write produces SSTable::load accepts, and a read that failed
\* earlier is not held against a block.
HealthyTablesAnswer ==
    \A id \in live : healthy(id) => \A key \in Key : lookup(id, key, "none").ok

\* The Bloom filter of a loaded table excludes no key the table holds.
FilterCovers ==
    \A id \in live : cached(id) =>
        \A i \in DOMAIN entries_of(id) : may_contain(pool[id].bloom, entries_of(id)[i].key)

\* What a compaction must keep of the records of its inputs.
survives(key) ==
    LET records == UNION {{entries_of(id)[i] : i \in DOMAIN entries_of(id)} : id \in Inputs}
    IN  {r \in records : /\ r.key = key
                         /\ \A other \in records : other.key = key => other.seq <= r.seq
                         /\ compaction_keep_newest_record(r)}

\* A compaction that is about to be committed has written the newest version
\* of every key of its inputs, and of no other record, once: a merge that
\* ended early because an input could not be read is not committed.
CompactionComplete ==
    (job.phase = "done" /\ work = NoWork) =>
        \A key \in Key :
            LET places == {p \in job.outputs \X (1 .. Cardinality(Key)) :
                    p[2] \in DOMAIN entries_of(p[1]) /\ entries_of(p[1])[p[2]].key = key}
            IN  /\ {entries_of(p[1])[p[2]] : p \in places} = survives(key)
                /\ Cardinality(places) <= 1

left(it, id) ==
    IF ~it.valid THEN 0
    ELSE Len(it.records) - it.at + 1
           + sum([n \in DOMAIN wrote[id] |-> IF n < it.next THEN 0 ELSE Len(wrote[id][n])])

remaining(j) == sum([id \in Inputs |-> left(j.its[id], id)])

rank(phase) == CASE phase = "older" -> 2 [] phase = "loop" -> 1 [] OTHER -> 0

\* A compaction comes to an end: once its iterators are positioned, a step of
\* the loop either consumes a record of an input or passes on to the next
\* part of the loop without returning a record to them.
CompactionConsumes ==
    [][ (work = NoWork /\ job # NoJob /\ job' # NoJob /\ job.phase # "build") =>
          \/ remaining(job') < remaining(job)
          \/ remaining(job') = remaining(job) /\ rank(job'.phase) < rank(job.phase) ]_job
=============================================================================
