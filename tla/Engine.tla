-------------------------------- MODULE Engine --------------------------------
(***************************************************************************)
(* The storage engine: open with manifest and WAL recovery, put and        *)
(* remove, flush with WAL rotation, background and manual compaction,      *)
(* close; with process kills, power loss and failing I/O between any two   *)
(* steps that touch a file.                                                *)
(*                                                                         *)
(* Engine::mutex_ serialises the calls, so one call is in progress at a    *)
(* time.  pc is where it stands, job holds its local variables.            *)
(*                                                                         *)
(* Files.  manifest.log is the MANIFEST as the versions that its synced    *)
(* prefix (first element) and each longer prefix replay to.  A WAL is a    *)
(* sequence of records of which the first `synced' are durable; Torn       *)
(* stands for the bytes of an incomplete append.  sst[i] = {} means that   *)
(* table file i does not exist: no table is built from no records.         *)
(***************************************************************************)
EXTENDS Lsm

CONSTANTS SyncOnWrite,           \* wal.sync_on_write
          BackgroundCompaction,  \* compaction.enable_background_compaction
          Ranges,                \* the ranges <<begin, end>> given to compact_range
          Faults,                \* the I/O operations that may fail
          MaxCrashes             \* how many kills and power losses happen

FaultKinds == {"wal_write", "wal_sync", "wal_close", "sst_write",
               "manifest_append", "manifest_sync", "remove"}

ASSUME EngineAssumption ==
    /\ SyncOnWrite \in BOOLEAN
    /\ BackgroundCompaction \in BOOLEAN
    /\ Ranges \subseteq Key \X Key
    /\ Faults \subseteq FaultKinds
    /\ MaxCrashes \in Nat

VARIABLES
    manifest,      \* the MANIFEST file: [hdr, log]
    wal,           \* the WAL files
    sst,           \* the table files
    pc, job,       \* the call in progress and its local variables
    catalog,       \* level_manager_ and the manifest's counters
    poisoned,      \* Manifest::write_poisoned_
    mem, imm,      \* mutable MemTable, immutable ones oldest first
    next_sequence, \* Engine::next_sequence_
    wal_id,        \* Engine::current_wal_id_
    writer,        \* the WAL that wal_ appends to, 0 when it is closed
    issued,        \* history: the writes clients attempted
    acked,         \* history: per key the last write that returned ok
    promised,      \* history: ... that must survive a power loss
    crashes        \* history: kills and power losses so far

files   == <<manifest, wal, sst>>
memory  == <<catalog, poisoned, mem, imm, next_sequence, wal_id, writer>>
history == <<issued, acked, promised>>
vars    == <<files, pc, job, memory, history, crashes>>

\* A file's header: the file is absent, part of the header is written (or,
\* for a WAL, none of it), all of it is written, it is synced.
Header == {"none", "torn", "new", "ok"}

Torn   == [key |-> 0, seq |-> 0, op |-> 0, del |-> FALSE]
NoFile == [hdr |-> "none", recs |-> <<>>, synced |-> 0]
NewWal == [hdr |-> "ok", recs |-> <<>>, synced |-> 0]

Latest(s) == s[Len(s)]

Synced(f)      == [f EXCEPT !.hdr = "ok", !.synced = Len(f.recs)]
SyncedManifest == [hdr |-> "ok", log |-> <<Latest(manifest.log)>>]

NoJob == [call |-> "none", rec |-> Torn, kind |-> "none", staged |-> EmptyVersion,
          repl |-> 0, obsolete |-> {}, lo |-> 0, hi |-> 0, level |-> 0]

NoWrite == [k \in Key |-> 0]

Init ==
    /\ manifest = [hdr |-> "none", log |-> <<EmptyVersion>>]
    /\ wal = [i \in WalId |-> NoFile]
    /\ sst = [i \in TableId |-> {}]
    /\ pc = "down" /\ job = NoJob
    /\ catalog = EmptyVersion /\ poisoned = FALSE
    /\ mem = {} /\ imm = <<>>
    /\ next_sequence = 1 /\ wal_id = 1 /\ writer = 0
    /\ issued = <<>> /\ acked = NoWrite /\ promised = NoWrite
    /\ crashes = 0

Fails(what) == what \in Faults

-----------------------------------------------------------------------------
(* How a call ends. *)

LoseMemory ==
    /\ job' = NoJob /\ catalog' = EmptyVersion /\ poisoned' = FALSE
    /\ mem' = {} /\ imm' = <<>>
    /\ next_sequence' = 1 /\ wal_id' = 1 /\ writer' = 0

\* open fails: KVDB::open destroys the engine.
OpenFails ==
    /\ pc' = "down" /\ LoseMemory
    /\ UNCHANGED <<history, crashes>>

ReturnError ==
    /\ pc' = "idle" /\ job' = NoJob
    /\ UNCHANGED <<history, crashes>>

\* A put that returns ok is visible from now on.  It is durable when it was
\* synced or flushed; so is every earlier acknowledged write after a flush.
ReturnOk(durable) ==
    /\ pc' = "idle" /\ job' = NoJob
    /\ acked' = IF job.call = "put"
                THEN [acked EXCEPT ![job.rec.key] = job.rec.op] ELSE acked
    /\ promised' = IF durable THEN acked' ELSE promised
    /\ UNCHANGED <<issued, crashes>>

Goto(label) == pc' = label /\ UNCHANGED <<history, crashes>>

-----------------------------------------------------------------------------
(* Engine::open: the manifest. *)

Open ==
    /\ pc = "down"
    /\ Goto("open_manifest")
    /\ UNCHANGED <<files, job, memory>>

\* Manifest::open_or_create writes the header field by field ...
CreateManifest ==
    /\ pc = "open_manifest" /\ manifest.hdr = "none"
    /\ manifest' = [hdr |-> "torn", log |-> <<EmptyVersion>>]
    /\ Goto("manifest_header")
    /\ UNCHANGED <<wal, sst, job, memory>>

WriteManifestHeader ==
    /\ pc = "manifest_header"
    /\ manifest' = [manifest EXCEPT !.hdr = "new"]
    /\ Goto("manifest_header_sync")
    /\ UNCHANGED <<wal, sst, job, memory>>

\* ... and syncs it.
SyncManifestHeader ==
    /\ pc = "manifest_header_sync"
    /\ manifest' = [manifest EXCEPT !.hdr = "ok"]
    /\ Goto("open_wal")
    /\ UNCHANGED <<wal, sst, job, memory>>

\* Manifest::load, prepare_for_append, attach_writer.
LoadManifest ==
    /\ pc = "open_manifest" /\ manifest.hdr \in {"new", "ok"}
    /\ check_invariants(Latest(manifest.log))
    /\ catalog' = Latest(manifest.log)
    /\ Goto("open_wal")
    /\ UNCHANGED <<files, job, poisoned, mem, imm, next_sequence, wal_id, writer>>

RefuseManifest ==
    /\ pc = "open_manifest"
    /\ \/ manifest.hdr = "torn"
       \/ manifest.hdr \in {"new", "ok"} /\ ~check_invariants(Latest(manifest.log))
    /\ OpenFails /\ UNCHANGED files

-----------------------------------------------------------------------------
(* Engine::open_wal. *)

\* The WAL the manifest names does not exist: WALWriter::create makes an
\* empty file, then writes and syncs its header.
CreateWal ==
    /\ pc = "open_wal" /\ wal[catalog.wal_id].hdr = "none"
    /\ wal' = [wal EXCEPT ![catalog.wal_id] = [NoFile EXCEPT !.hdr = "torn"]]
    /\ wal_id' = catalog.wal_id /\ next_sequence' = catalog.next_seq
    /\ Goto("wal_header")
    /\ UNCHANGED <<manifest, sst, job, catalog, poisoned, mem, imm, writer>>

WriteWalHeader ==
    /\ pc = "wal_header"
    /\ wal' = [wal EXCEPT ![wal_id].hdr = "new"]
    /\ Goto("wal_header_sync")
    /\ UNCHANGED <<manifest, sst, job, memory>>

SyncWalHeader ==
    /\ pc = "wal_header_sync"
    /\ wal' = [wal EXCEPT ![wal_id] = Synced(@)]
    /\ writer' = wal_id
    /\ Goto("idle")
    /\ UNCHANGED <<manifest, sst, job, catalog, poisoned, mem, imm, next_sequence, wal_id>>

\* Mutant: the last complete record is taken for the torn tail.
LoadedButLast(recs) == SubSeq(recs, 1, Len(recs) - 1)

\* The records WALLoader::load returns: those before the first incomplete one.
Loaded(recs) ==
    IF Torn \in Range(recs)
    THEN SubSeq(recs, 1, Min({i \in DOMAIN recs : recs[i] = Torn}) - 1)
    ELSE recs

\* Bytes after an incomplete append: a checksum or structure error, or, when
\* a length field reaches beyond the end, a torn tail.
Corrupt(recs) == \E i \in 1 .. Len(recs) - 1 : recs[i] = Torn

\* The memtable's tree refuses a second record of the same key and number.
HasDuplicate(recs) ==
    \E i, j \in DOMAIN recs :
        i # j /\ recs[i].key = recs[j].key /\ recs[i].seq = recs[j].seq

\* Replay the records into the memtable and rewrite them to the next WAL.
Replay(recs, next) ==
    /\ pc = "open_wal" /\ wal[catalog.wal_id].hdr \in {"new", "ok"}
    /\ ~HasDuplicate(recs)
    /\ catalog.wal_id < MaxWalId
    /\ mem' = Range(recs)
    /\ wal_id' = catalog.wal_id
    /\ next_sequence' = next
    /\ wal' = [wal EXCEPT ![catalog.wal_id + 1] = [NewWal EXCEPT !.recs = recs]]
    /\ job' = [NoJob EXCEPT !.call = "open", !.kind = "open",
                            !.repl = catalog.wal_id + 1,
                            !.staged = [catalog EXCEPT !.wal_id = @ + 1,
                                                       !.next_seq = next]]
    /\ Goto("replacement_sync")
    /\ UNCHANGED <<manifest, sst, catalog, poisoned, imm, writer>>

\* next_sequence_ is the manifest's counter, raised above every record.
NextSequence(recs, next) ==
    /\ catalog.next_seq <= next
    /\ \A r \in Range(recs) : r.seq < next
    /\ catalog.next_seq = next \/ \E r \in Range(recs) : r.seq + 1 = next

\* Mutant: the manifest's counter is not raised above the replayed records.
RecoverWalStaleCounter ==
    LET recs == Loaded(wal[catalog.wal_id].recs)
    IN  Replay(recs, catalog.next_seq)

RecoverWal ==
    LET recs == Loaded(wal[catalog.wal_id].recs)
    IN  \E next \in SeqNum : NextSequence(recs, next) /\ Replay(recs, next)

RefuseWal ==
    LET f == wal[catalog.wal_id]
    IN  /\ pc = "open_wal" /\ f.hdr # "none"
        /\ \/ f.hdr = "torn" \/ Corrupt(f.recs) \/ HasDuplicate(Loaded(f.recs))
           \/ catalog.wal_id = MaxWalId
           \/ ~\E next \in SeqNum : NextSequence(Loaded(f.recs), next)
        /\ OpenFails /\ UNCHANGED files

SyncReplacement ==
    /\ pc = "replacement_sync"
    /\ wal' = [wal EXCEPT ![job.repl] = Synced(@)]
    /\ Goto("append")
    /\ UNCHANGED <<manifest, sst, job, memory>>

SyncReplacementFails ==
    /\ pc = "replacement_sync" /\ Fails("wal_sync")
    /\ OpenFails /\ UNCHANGED files

-----------------------------------------------------------------------------
(* Engine::put and remove (put_impl). *)

PutWrite(k, del) ==
    LET r == [key |-> k, seq |-> next_sequence, op |-> Len(issued) + 1, del |-> del]
    IN  /\ pc = "idle" /\ writer # 0
        /\ next_sequence < MaxSeq
        /\ Len(issued) < MaxWrites
        /\ issued' = Append(issued, [key |-> k, del |-> del])
        /\ wal' = [wal EXCEPT ![writer].recs = Append(@, r)]
        /\ job' = [NoJob EXCEPT !.call = "put", !.rec = r]
        /\ pc' = IF SyncOnWrite THEN "put_sync" ELSE "put_apply"
        /\ UNCHANGED <<manifest, sst, memory, acked, promised, crashes>>

\* The append stops part-way: the bytes stay and the tracked offset with them.
PutWriteFails(k, del) ==
    /\ pc = "idle" /\ writer # 0 /\ Fails("wal_write")
    /\ next_sequence < MaxSeq
    /\ Len(issued) < MaxWrites
    /\ issued' = Append(issued, [key |-> k, del |-> del])
    /\ wal' = [wal EXCEPT ![writer].recs =
                  IF @ # <<>> /\ Latest(@) = Torn THEN @ ELSE Append(@, Torn)]
    /\ UNCHANGED <<manifest, sst, pc, job, memory, acked, promised, crashes>>

\* Mutant: the put goes on without the sync.
PutSyncSkipped ==
    /\ pc = "put_sync"
    /\ Goto("put_apply")
    /\ UNCHANGED <<files, job, memory>>

PutSync ==
    /\ pc = "put_sync"
    /\ wal' = [wal EXCEPT ![writer] = Synced(@)]
    /\ Goto("put_apply")
    /\ UNCHANGED <<manifest, sst, job, memory>>

PutSyncFails ==
    /\ pc = "put_sync" /\ Fails("wal_sync")
    /\ ReturnError
    /\ UNCHANGED <<files, memory>>

\* Whether the limits of maybe_flush_unlocked are reached is left open.
PutApply ==
    /\ pc = "put_apply"
    /\ mem' = mem \cup {job.rec}
    /\ next_sequence' = next_sequence + 1
    /\ \/ ReturnOk(SyncOnWrite)
       \/ Goto("freeze") /\ UNCHANGED job
    /\ UNCHANGED <<files, catalog, poisoned, imm, wal_id, writer>>

-----------------------------------------------------------------------------
(* Engine::flush_unlocked and flush_oldest_immutable. *)

Flush ==
    /\ pc = "idle"
    /\ job' = [NoJob EXCEPT !.call = "flush"]
    /\ Goto("freeze")
    /\ UNCHANGED <<files, memory>>

Freeze ==
    /\ pc = "freeze"
    /\ imm' = IF mem = {} THEN imm ELSE Append(imm, mem)
    /\ mem' = {}
    /\ Goto("drain")
    /\ UNCHANGED <<files, job, catalog, poisoned, next_sequence, wal_id, writer>>

Drained ==
    /\ pc = "drain" /\ imm = <<>>
    /\ Goto("maybe_compact")
    /\ UNCHANGED <<files, job, memory>>

\* Mutant: the id of the last table is used again.
FlushTableReusesId ==
    /\ pc = "drain" /\ imm # <<>>
    /\ catalog.next_table_id <= MaxTableId
    /\ sst' = [sst EXCEPT ![IF catalog.next_table_id = 1 THEN 1
                            ELSE catalog.next_table_id - 1] = Head(imm)]
    /\ Goto("flush_edit")
    /\ UNCHANGED <<manifest, wal, job, memory>>

\* The table is written, synced and renamed into place, over any leftover.
FlushTable ==
    /\ pc = "drain" /\ imm # <<>>
    /\ catalog.next_table_id <= MaxTableId
    /\ sst' = [sst EXCEPT ![catalog.next_table_id] = Head(imm)]
    /\ Goto("flush_edit")
    /\ UNCHANGED <<manifest, wal, job, memory>>

\* Mutant: the memtable is retired although its table was not written.
FlushTableFailsRetires ==
    /\ pc = "drain" /\ imm # <<>>
    /\ catalog.next_table_id > MaxTableId \/ Fails("sst_write")
    /\ imm' = Tail(imm)
    /\ ReturnError
    /\ UNCHANGED <<files, catalog, poisoned, mem, next_sequence, wal_id, writer>>

\* No id is left, or the write fails: before the rename, or after it, in the
\* sync of the directory.
FlushTableFails ==
    /\ pc = "drain" /\ imm # <<>>
    /\ \/ catalog.next_table_id > MaxTableId /\ UNCHANGED sst
       \/ /\ catalog.next_table_id <= MaxTableId /\ Fails("sst_write")
          /\ \/ UNCHANGED sst
             \/ sst' = [sst EXCEPT ![catalog.next_table_id] = Head(imm)]
    /\ ReturnError
    /\ UNCHANGED <<manifest, wal, memory>>

\* Mutant: the WAL is replaced with every table.
RotatesAlways == TRUE

\* The last immutable table takes the WAL with it.
rotates_wal == Len(imm) = 1

\* The edit adds the table and, when the WAL is rotated, names an empty
\* replacement that is created first.
FlushedVersion ==
    [catalog EXCEPT !.tables = @ \cup {[id |-> catalog.next_table_id, level |-> 0,
                                        recs |-> Head(imm)]},
                    !.next_table_id = @ + 1,
                    !.next_seq = next_sequence]

FlushRotates ==
    /\ job' = [job EXCEPT !.kind = "flush", !.repl = wal_id + 1,
                          !.staged = [FlushedVersion EXCEPT !.wal_id = wal_id + 1]]
    /\ wal' = [wal EXCEPT ![wal_id + 1] = NewWal]

FlushKeepsWal ==
    /\ job' = [job EXCEPT !.kind = "flush", !.staged = FlushedVersion]
    /\ UNCHANGED wal

\* Mutant: the WAL id is not checked against its limit.
FlushEditUnchecked ==
    /\ pc = "flush_edit"
    /\ IF rotates_wal THEN FlushRotates ELSE FlushKeepsWal
    /\ Goto("append")
    /\ UNCHANGED <<manifest, sst, memory>>

FlushEdit ==
    /\ pc = "flush_edit"
    /\ \/ rotates_wal /\ wal_id < MaxWalId /\ FlushRotates
       \/ ~rotates_wal /\ FlushKeepsWal
    /\ Goto("append")
    /\ UNCHANGED <<manifest, sst, memory>>

\* No WAL id is left, a leftover cannot be removed, or the replacement cannot
\* be created: it is left behind with part of its header or an unsynced one.
FlushEditFails ==
    /\ pc = "flush_edit" /\ rotates_wal
    /\ \/ (wal_id = MaxWalId \/ Fails("remove")) /\ UNCHANGED wal
       \/ /\ wal_id < MaxWalId
          /\ \E hdr \in {h \in {"torn", "new"} :
                          Fails(IF h = "torn" THEN "wal_write" ELSE "wal_sync")} :
                wal' = [wal EXCEPT ![wal_id + 1] = [NoFile EXCEPT !.hdr = hdr]]
    /\ ReturnError
    /\ UNCHANGED <<manifest, sst, memory>>

-----------------------------------------------------------------------------
(* Manifest::commit, for the edit of a recovery, a flush or a compaction. *)

\* What the caller does when commit fails.
CommitFails ==
    \/ /\ job.kind = "open"
       /\ OpenFails /\ UNCHANGED wal
    \/ /\ job.kind = "flush"
       /\ wal' = IF job.repl = 0 THEN wal ELSE [wal EXCEPT ![job.repl] = NoFile]
       /\ ReturnError
       /\ UNCHANGED <<catalog, mem, imm, next_sequence, wal_id, writer>>
    \/ /\ job.kind \in {"background", "manual"}
       /\ ReturnError
       /\ UNCHANGED <<wal, catalog, mem, imm, next_sequence, wal_id, writer>>

AppendEdit ==
    /\ pc = "append" /\ ~poisoned
    /\ stage_apply(catalog, job.staged)
    /\ manifest' = [manifest EXCEPT !.log = Append(@, job.staged)]
    /\ Goto("sync")
    /\ UNCHANGED <<wal, sst, job, memory>>

\* A poisoned writer or an edit that does not stage: nothing is written.
RefuseEdit ==
    /\ pc = "append"
    /\ poisoned \/ ~stage_apply(catalog, job.staged)
    /\ CommitFails
    /\ job.kind # "open" => UNCHANGED poisoned
    /\ UNCHANGED <<manifest, sst>>

\* An incomplete edit: recovery drops it.
AppendEditFails ==
    /\ pc = "append" /\ ~poisoned /\ Fails("manifest_append")
    /\ CommitFails
    /\ job.kind # "open" => poisoned' = TRUE
    /\ UNCHANGED <<manifest, sst>>

SyncEdit ==
    /\ pc = "sync"
    /\ manifest' = SyncedManifest
    /\ catalog' = job.staged
    /\ Goto("committed")
    /\ UNCHANGED <<wal, sst, job, poisoned, mem, imm, next_sequence, wal_id, writer>>

\* The edit is in the file and may or may not reach the disk.
SyncEditFails ==
    /\ pc = "sync" /\ Fails("manifest_sync")
    /\ CommitFails
    /\ job.kind # "open" => poisoned' = TRUE
    /\ UNCHANGED <<manifest, sst>>

-----------------------------------------------------------------------------
(* After the commit. *)

\* Recovery switches to the replacement WAL.
OpenCommitted ==
    /\ pc = "committed" /\ job.kind = "open"
    /\ writer' = job.repl /\ wal_id' = job.repl
    /\ Goto("remove_wal")
    /\ UNCHANGED <<files, job, catalog, poisoned, mem, imm, next_sequence>>

\* A flush retires the memtable; with a replacement it closes (and syncs)
\* the old WAL and switches.
FlushCommitted ==
    /\ pc = "committed" /\ job.kind = "flush"
    /\ imm' = Tail(imm)
    /\ IF job.repl = 0
       THEN Goto("drain") /\ UNCHANGED <<wal, writer, wal_id>>
       ELSE /\ wal' = [wal EXCEPT ![writer] = Synced(@)]
            /\ writer' = job.repl /\ wal_id' = job.repl
            /\ Goto("remove_wal")
    /\ UNCHANGED <<manifest, sst, job, catalog, poisoned, mem, next_sequence>>

\* WALWriter::close fails: its file is gone and the replacement is dropped.
FlushCommittedFails ==
    /\ pc = "committed" /\ job.kind = "flush" /\ job.repl # 0 /\ writer # 0
    /\ Fails("wal_close")
    /\ imm' = Tail(imm)
    /\ writer' = 0
    /\ ReturnError
    /\ UNCHANGED <<files, catalog, poisoned, mem, next_sequence, wal_id>>

\* Mutant: the WAL just switched to is removed.
RemoveCurrentWal ==
    /\ pc = "remove_wal"
    /\ wal' = [wal EXCEPT ![wal_id] = NoFile]
    /\ IF job.kind = "open"
       THEN Goto("idle") /\ job' = NoJob
       ELSE Goto("drain") /\ job' = [job EXCEPT !.repl = 0]
    /\ UNCHANGED <<manifest, sst, memory>>

RemoveWal ==
    /\ pc = "remove_wal"
    /\ wal' = [wal EXCEPT ![wal_id - 1] = NoFile]
    /\ IF job.kind = "open"
       THEN Goto("idle") /\ job' = NoJob
       ELSE Goto("drain") /\ job' = [job EXCEPT !.repl = 0]
    /\ UNCHANGED <<manifest, sst, memory>>

RemoveWalFails ==
    /\ pc = "remove_wal" /\ Fails("remove")
    /\ \/ job.kind = "open" /\ OpenFails
       \/ job.kind = "flush" /\ ReturnError /\ UNCHANGED memory
    /\ UNCHANGED files

-----------------------------------------------------------------------------
(* Compaction: maybe_compact_unlocked, compact_range, run_compaction. *)

CompactRange(lo, hi) ==
    /\ pc = "idle"
    /\ job' = [NoJob EXCEPT !.call = "compact_range", !.lo = lo, !.hi = hi]
    /\ Goto("freeze")
    /\ UNCHANGED <<files, memory>>

Compacts == BackgroundCompaction /\ should_compact(catalog.tables)

FlushDone ==
    /\ pc = "maybe_compact" /\ ~Compacts
    /\ CASE job.call # "compact_range" -> ReturnOk(TRUE)
         [] job.call = "compact_range" /\ job.hi < job.lo -> ReturnError
         [] OTHER -> Goto("manual") /\ UNCHANGED job
    /\ UNCHANGED <<files, memory>>

JobReads(plan)   == UNION {sst[t.id] : t \in Inputs(plan)}
JobOutputs(plan) ==
    LET target == plan.level + 1
    IN  Outputs(Survivors(JobReads(plan),
                          is_bottommost_destination(catalog.tables, target)),
                target, catalog.next_table_id)

JobReadable(plan) == \A t \in Inputs(plan) : sst[t.id] # {}

JobHasIds(plan) ==
    /\ \A t \in JobOutputs(plan) : t.id <= MaxTableId
    /\ catalog.next_table_id + Cardinality(JobOutputs(plan)) <= MaxTableId + 1

\* The outputs are written under fresh ids ...
JobWrites(outs) ==
    [i \in TableId |-> IF \E t \in outs : t.id = i
                       THEN (CHOOSE t \in outs : t.id = i).recs ELSE sst[i]]

\* ... and the edit replaces the inputs by them.
JobStages(plan, kind) ==
    LET outs == JobOutputs(plan)
    IN  job' = [job EXCEPT !.kind = kind,
                           !.staged = [catalog EXCEPT
                               !.tables = (@ \ Inputs(plan)) \cup outs,
                               !.next_table_id = @ + Cardinality(outs)],
                           !.obsolete = {t.id : t \in Inputs(plan)}]

\* Mutant: the inputs are removed before the edit is committed.
RunJobRemovesEarly(plan, kind) ==
    /\ JobReadable(plan) /\ JobHasIds(plan)
    /\ sst' = [i \in TableId |-> IF \E t \in Inputs(plan) : t.id = i
                                 THEN {} ELSE JobWrites(JobOutputs(plan))[i]]
    /\ JobStages(plan, kind)
    /\ Goto("append")
    /\ UNCHANGED <<manifest, wal, memory>>

RunJob(plan, kind) ==
    /\ JobReadable(plan) /\ JobHasIds(plan)
    /\ sst' = JobWrites(JobOutputs(plan))
    /\ JobStages(plan, kind)
    /\ Goto("append")
    /\ UNCHANGED <<manifest, wal, memory>>

\* What a job that fails in its (n+1)-th output leaves: the n finished outputs
\* are removed, the failing one stays if it was already renamed into place.
JobCleanup(plan, n, published) ==
    [i \in TableId |->
        CASE i - catalog.next_table_id \in 0 .. n - 1 -> {}
          [] i - catalog.next_table_id = n /\ published ->
                JobWrites(JobOutputs(plan))[i]
          [] OTHER -> sst[i]]

\* An unreadable input, no id left, or a failing output.
JobFails(plan) ==
    /\ \/ ~JobReadable(plan) /\ UNCHANGED sst
       \/ /\ JobReadable(plan) /\ ~JobHasIds(plan)
          /\ sst' = JobCleanup(plan, Cardinality(JobOutputs(plan)), FALSE)
       \/ /\ JobReadable(plan) /\ Fails("sst_write")
          /\ \E n \in 0 .. Cardinality(JobOutputs(plan)) - 1, published \in BOOLEAN :
                sst' = JobCleanup(plan, n, published)
    /\ ReturnError
    /\ UNCHANGED <<manifest, wal, memory>>

BackgroundCompact ==
    /\ pc = "maybe_compact" /\ Compacts
    /\ RunJob(pick_compaction(catalog.tables), "background")

BackgroundCompactFails ==
    /\ pc = "maybe_compact" /\ Compacts
    /\ JobFails(pick_compaction(catalog.tables))

ManualPlan == manual_plan(catalog.tables, job.level, job.lo, job.hi)

\* Mutant: the level is not advanced.
ManualSkipStays ==
    /\ pc = "manual" /\ job.level + 1 < NumLevels
    /\ ManualPlan.source = {}
    /\ Goto("manual")
    /\ UNCHANGED <<files, job, memory>>

ManualSkip ==
    /\ pc = "manual" /\ job.level + 1 < NumLevels
    /\ ManualPlan.source = {}
    /\ job' = [job EXCEPT !.level = @ + 1]
    /\ Goto("manual")
    /\ UNCHANGED <<files, memory>>

ManualCompact ==
    /\ pc = "manual" /\ job.level + 1 < NumLevels
    /\ ManualPlan.source # {}
    /\ RunJob(ManualPlan, "manual")

ManualCompactFails ==
    /\ pc = "manual" /\ job.level + 1 < NumLevels
    /\ ManualPlan.source # {}
    /\ JobFails(ManualPlan)

ManualDone ==
    /\ pc = "manual" /\ job.level + 1 = NumLevels
    /\ ReturnOk(TRUE)
    /\ UNCHANGED <<files, memory>>

CompactCommitted ==
    /\ pc = "committed" /\ job.kind \in {"background", "manual"}
    /\ Goto("remove_sst")
    /\ UNCHANGED <<files, job, memory>>

RemoveSst(i) ==
    /\ pc = "remove_sst" /\ i \in job.obsolete
    /\ sst' = [sst EXCEPT ![i] = {}]
    /\ job' = [job EXCEPT !.obsolete = @ \ {i}]
    /\ Goto("remove_sst")
    /\ UNCHANGED <<manifest, wal, memory>>

RemoveSstFails ==
    /\ pc = "remove_sst" /\ job.obsolete # {} /\ Fails("remove")
    /\ ReturnError
    /\ UNCHANGED <<files, memory>>

CompactDone ==
    /\ pc = "remove_sst" /\ job.obsolete = {}
    /\ IF job.kind = "background"
       THEN Goto("maybe_compact") /\ UNCHANGED job
       ELSE Goto("manual") /\ job' = [job EXCEPT !.level = @ + 1]
    /\ UNCHANGED <<files, memory>>

-----------------------------------------------------------------------------
(* Engine::close: sync the WAL, sync the manifest, close the WAL. *)

Close ==
    /\ pc = "idle" /\ writer # 0
    /\ wal' = [wal EXCEPT ![writer] = Synced(@)]
    /\ job' = [NoJob EXCEPT !.call = "close"]
    /\ Goto("close_manifest")
    /\ UNCHANGED <<manifest, sst, memory>>

CloseManifest ==
    /\ pc = "close_manifest" /\ ~poisoned
    /\ manifest' = SyncedManifest
    /\ pc' = "down" /\ LoseMemory
    /\ promised' = acked
    /\ UNCHANGED <<wal, sst, issued, acked, crashes>>

CloseManifestFails ==
    /\ pc = "close_manifest"
    /\ \/ poisoned /\ UNCHANGED poisoned
       \/ ~poisoned /\ Fails("manifest_sync") /\ poisoned' = TRUE
    /\ ReturnError
    /\ UNCHANGED <<files, catalog, mem, imm, next_sequence, wal_id, writer>>

CloseWalFails ==
    /\ pc = "close_manifest" /\ ~poisoned /\ Fails("wal_close")
    /\ manifest' = SyncedManifest
    /\ writer' = 0
    /\ ReturnError
    /\ UNCHANGED <<wal, sst, catalog, poisoned, mem, imm, next_sequence, wal_id>>

-----------------------------------------------------------------------------
(* The environment. *)

\* The process ends; what it wrote stays in the page cache.
Kill ==
    /\ pc # "down" /\ crashes < MaxCrashes
    /\ crashes' = crashes + 1
    /\ pc' = "down" /\ LoseMemory
    /\ UNCHANGED <<files, history>>

\* What a power loss may leave of a header.
Survives(h) == CASE h = "ok"   -> {"ok"}
                 [] h = "new"  -> {"none", "torn", "ok"}
                 [] h = "torn" -> {"none", "torn"}
                 [] OTHER      -> {"none"}

\* Every file keeps a prefix that covers what was synced.  Only the WAL that
\* the surviving manifest names is ever read again.
PowerLoss ==
    /\ crashes < MaxCrashes
    /\ crashes' = crashes + 1
    /\ pc' = "down" /\ LoseMemory
    /\ \E mh \in Survives(manifest.hdr), v \in Range(manifest.log) :
          LET survivor == IF mh = "ok" THEN v ELSE EmptyVersion
              f        == wal[survivor.wal_id]
          IN  /\ manifest' = [hdr |-> mh, log |-> <<survivor>>]
              /\ \E wh \in Survives(f.hdr), n \in f.synced .. Len(f.recs) :
                    wal' = [wal EXCEPT ![survivor.wal_id] =
                       IF wh = "ok"
                       THEN [hdr |-> "ok", recs |-> SubSeq(f.recs, 1, n), synced |-> n]
                       ELSE [NoFile EXCEPT !.hdr = wh]]
    /\ acked' = promised
    /\ UNCHANGED <<sst, issued, promised>>

-----------------------------------------------------------------------------
EngineStep ==
    \/ CreateManifest \/ WriteManifestHeader \/ SyncManifestHeader
    \/ LoadManifest \/ RefuseManifest
    \/ CreateWal \/ WriteWalHeader \/ SyncWalHeader
    \/ RecoverWal \/ RefuseWal \/ SyncReplacement \/ SyncReplacementFails
    \/ PutSync \/ PutSyncFails \/ PutApply
    \/ Freeze \/ Drained \/ FlushTable \/ FlushTableFails
    \/ FlushEdit \/ FlushEditFails
    \/ AppendEdit \/ RefuseEdit \/ AppendEditFails \/ SyncEdit \/ SyncEditFails
    \/ OpenCommitted \/ FlushCommitted \/ FlushCommittedFails
    \/ RemoveWal \/ RemoveWalFails
    \/ FlushDone \/ BackgroundCompact \/ BackgroundCompactFails
    \/ ManualSkip \/ ManualCompact \/ ManualCompactFails \/ ManualDone
    \/ CompactCommitted \/ (\E i \in job.obsolete : RemoveSst(i))
    \/ RemoveSstFails \/ CompactDone
    \/ CloseManifest \/ CloseManifestFails \/ CloseWalFails

ClientStep ==
    \/ Open \/ Flush \/ Close
    \/ \E k \in Key, del \in BOOLEAN : PutWrite(k, del) \/ PutWriteFails(k, del)
    \/ \E range \in Ranges : CompactRange(range[1], range[2])

Next == EngineStep \/ ClientStep \/ Kill \/ PowerLoss

Spec == Init /\ [][Next]_vars

\* Every step of a call is taken: the thread that holds the mutex is scheduled
\* and file operations return.
FairSpec == Spec /\ WF_vars(EngineStep)

-----------------------------------------------------------------------------
(* Properties. *)

Labels == {"down", "open_manifest", "manifest_header", "manifest_header_sync",
           "open_wal", "wal_header", "wal_header_sync", "replacement_sync",
           "idle", "put_sync", "put_apply", "freeze", "drain", "flush_edit",
           "append", "sync", "committed", "remove_wal", "maybe_compact",
           "manual", "remove_sst", "close_manifest"}

WalFile == [hdr : Header, recs : Seq(InternalRecord \cup {Torn}), synced : Nat]

Job == [call : {"none", "open", "put", "flush", "compact_range", "close"},
        rec : InternalRecord \cup {Torn},
        kind : {"none", "open", "flush", "background", "manual"},
        staged : Version, repl : WalId \cup {0}, obsolete : SUBSET TableId,
        lo : Key \cup {0}, hi : Key \cup {0}, level : LevelId]

\* Every variable has its type: table and WAL ids and sequence numbers stay
\* within what the 32-bit and 64-bit checks of the engine admit, in memory, in
\* every version the MANIFEST may replay to and in every staged edit.
TypeOK ==
    /\ manifest \in [hdr : Header, log : Seq(Version)] /\ manifest.log # <<>>
    /\ wal \in [WalId -> WalFile]
    /\ sst \in [TableId -> SUBSET InternalRecord]
    /\ pc \in Labels /\ job \in Job
    /\ catalog \in Version /\ poisoned \in BOOLEAN
    /\ mem \in SUBSET InternalRecord /\ imm \in Seq(SUBSET InternalRecord)
    /\ next_sequence \in SeqNum /\ wal_id \in WalId /\ writer \in WalId \cup {0}
    /\ issued \in Seq([key : Key, del : BOOLEAN])
    /\ acked \in [Key -> Nat] /\ promised \in [Key -> Nat]
    /\ crashes \in Nat

\* r, what a read of k returns, is no older than write w: it is w or a later
\* write of k, or nothing and one of those is a removal.
NoOlderThan(r, k, w) ==
    \/ w = 0
    \/ r.op >= w
    \/ r = NotFound /\ \E i \in w .. Len(issued) : issued[i].key = k /\ issued[i].del

InMemory == mem \cup UNION Range(imm)

\* Between calls, a get of any key returns the last write of it that returned
\* ok or a later one, through freezes, flushes, compactions and reopenings
\* (Engine::get over memtables, L0 newest first, then the levels).
ReadsSeeAcked ==
    pc = "idle" =>
        \A k \in Key : NoOlderThan(get(InMemory, catalog.tables, sst, k), k, acked[k])

\* The versions that recovery may find in the MANIFEST, now or after a power
\* loss.
Recoverable == Range(manifest.log)

\* Whatever prefix of the MANIFEST and of the WAL it names survives a power
\* loss at this point, recovering from it loses no write that was promised
\* durable (put with sync_on_write, flush, compact_range or close returned ok).
RecoveryKeepsPromises ==
    manifest.hdr = "ok" =>
        \A v \in Recoverable : LET f == wal[v.wal_id] IN
            \A n \in f.synced .. Len(f.recs), k \in Key :
                NoOlderThan(get(Range(Loaded(SubSeq(f.recs, 1, n))), v.tables, sst, k),
                            k, promised[k])

Intact(v) == \A t \in v.tables : sst[t.id] = t.recs

\* Every table that the catalog in memory refers to has its file, holding
\* exactly the records its metadata was made for, whatever I/O fails: outputs
\* are published before the catalog names them and inputs are removed after it
\* no longer does (flush_oldest_immutable, run_compaction).
CatalogIntact == Intact(catalog)

\* The same of every version that recovery may find in the MANIFEST.
TablesIntact == \A v \in Recoverable : Intact(v)

\* A replacement WAL that a version recovery may find names exists with a
\* synced header (create and sync before commit, remove after it).
NamedWalExists ==
    \A v \in Recoverable : v.wal_id > 1 => wal[v.wal_id].hdr = "ok"

\* Once a write is promised, the next open is not refused because of what the
\* files hold: the WAL that any surviving manifest names has a whole header, no
\* incomplete record before others, and no two records of one key and number.
WalReplays ==
    promised # NoWrite =>
        \A v \in Recoverable : LET f == wal[v.wal_id] IN
            f.hdr # "torn" /\ ~Corrupt(f.recs) /\ ~HasDuplicate(Loaded(f.recs))

\* What a read searches first never answers with an older record than what it
\* searches later: the memtables against every table, an L0 table against L0
\* tables of smaller ids and a level against deeper levels.  The first hit may
\* therefore be returned (Engine::get; LevelManager::add_table).
NotOlder(recs, later) ==
    \A r \in recs, q \in later :
        r.key = q.key => NewestOf(recs, r.key).seq >= q.seq

SearchOrder ==
    \A t \in catalog.tables :
        /\ NotOlder(InMemory, t.recs)
        /\ \A u \in catalog.tables : SearchedBefore(u, t) => NotOlder(u.recs, t.recs)

\* Manifest::commit never rejects an edit the engine built: recovery, flush and
\* compaction edits keep the counters monotone, ids unique and below
\* next_table_id, and the levels below L0 disjoint.
EditsStage == pc = "append" /\ ~poisoned => stage_apply(catalog, job.staged)

\* No step changes or removes the file of a table that the manifest, as it may
\* be recovered after the step, still refers to.  The id-keyed cache of open
\* tables relies on it too.
NeverTouchesLiveTable ==
    [][\A v \in Range(manifest'.log) \cup {catalog'} : \A t \in v.tables :
          sst[t.id] # {} => sst'[t.id] = sst[t.id]]_vars

\* Every call returns: recovery, drains, the compaction loop of
\* maybe_compact_unlocked and the level loop of compact_range end.
CallsReturn == pc \notin {"idle", "down"} ~> pc \in {"idle", "down"}
=============================================================================
