------------------------------- MODULE Storage -------------------------------
(***************************************************************************)
(* MANIFEST and WAL files cell by cell, as Engine::open, put and flush     *)
(* drive them: what is in the files when the process is killed in the      *)
(* middle of a write, or the power is lost, and what the next open makes   *)
(* of it.  The tables are taken as written and synced by the time an edit  *)
(* names them; Engine.tla models that side.                                *)
(*                                                                         *)
(* A file is [cells, synced]: its contents and how many of its cells are   *)
(* known to be durable.  A power loss cuts it anywhere behind those.       *)
(***************************************************************************)
EXTENDS WalFile, ManifestFile

CONSTANTS RecordSize,   \* the sizes of encoded records
          PathSize,     \* the widths of a table's path
          MaxEvents,    \* how many writes, kills and power losses happen
          MaxWalId,     \* how many WAL files are created
          Unreadable    \* what is recovered when open refuses the files

ASSUME StorageAssumption ==
    /\ RecordSize \subseteq Nat \ {0}
    /\ PathSize \subseteq Nat \ {0}
    /\ {MaxEvents, MaxWalId} \subseteq Nat

VARIABLES
    manifest,     \* the MANIFEST file
    truncated,    \* its contents before a truncation that is not synced yet
    wal,          \* the WAL files
    pc, job,      \* where the call in progress stands, its edit
    edits,        \* the edits the Manifest object has applied
    poisoned,     \* Manifest::write_poisoned_
    mem,          \* the memtable's records, in WAL order
    next_seq,     \* Engine::next_sequence_
    wal_id,       \* Engine::current_wal_id_
    sync_on_write,\* DBOptions::wal.sync_on_write
    issued,       \* history: the records clients attempted to write
    promised,     \* history: how many of the log must survive a power loss
    crashes       \* history: kills and power losses so far

disk   == <<manifest, truncated, wal>>
memory == <<edits, poisoned, mem, next_seq, wal_id>>
vars   == <<disk, pc, job, memory, sync_on_write, issued, promised, crashes>>

Absent   == [cells |-> <<>>, synced |-> 0, exists |-> FALSE]
NewFile(cells) == [cells |-> cells, synced |-> 0, exists |-> TRUE]
SyncFile(f)    == [f EXCEPT !.synced = Len(f.cells)]

NoEdit == [wal |-> 0, seq |-> 0, tid |-> 0, deleted |-> 0, new |-> <<>>]

\* The counters a sequence of edits leaves: the last edit that sets them.
LastWal(es) == IF es = <<>> THEN 1 ELSE Last(es).wal
LastSeq(es) == IF es = <<>> THEN 1 ELSE Last(es).seq

TableRecords(es) ==
    FlattenSeq([i \in DOMAIN es |->
        FlattenSeq([t \in DOMAIN es[i].new |-> es[i].new[t].recs])])

\* The records of a WAL, as the loader returns them.
Loaded(file, id) == wal_load(file, id, "bad")
RecordOf(r)      == r.bytes[1][2]
Records(l)       == [i \in DOMAIN l.records |-> RecordOf(l.records[i])]

Init ==
    /\ manifest = Absent /\ truncated = <<>>
    /\ wal = [i \in 1 .. MaxWalId + 1 |-> Absent]
    /\ pc = "down" /\ job = NoEdit
    /\ edits = <<>> /\ poisoned = FALSE /\ mem = <<>> /\ next_seq = 1 /\ wal_id = 1
    /\ sync_on_write \in BOOLEAN
    /\ issued = <<>> /\ promised = 0 /\ crashes = 0

\* The process is gone: so is everything that is not in a file.
LoseMemory ==
    /\ pc' = "down" /\ job' = NoEdit
    /\ edits' = <<>> /\ poisoned' = FALSE /\ mem' = <<>> /\ next_seq' = 1 /\ wal_id' = 1

Goto(label) == pc' = label

\* A write into a file: it completes, or the process is killed after some of
\* the cells.
Completes(label) == Goto(label) /\ UNCHANGED crashes
Killed == Len(issued) + crashes < MaxEvents /\ crashes' = crashes + 1 /\ LoseMemory

-----------------------------------------------------------------------------
(* Engine::open_manifest. *)

\* Manifest::open_or_create, for a missing or empty file.
CreateManifest ==
    /\ pc = "down" /\ manifest.cells = <<>>
    /\ \/ /\ manifest' = NewFile(manifest_header)
          /\ Completes("sync_manifest_header")
          /\ UNCHANGED <<job, memory>>
       \/ \E part \in prefixes_from(manifest_header, 0) \ {manifest_header} :
            manifest' = NewFile(part) /\ Killed
    /\ UNCHANGED <<truncated, wal, sync_on_write, issued, promised>>

SyncManifestHeader ==
    /\ pc = "sync_manifest_header"
    /\ manifest' = SyncFile(manifest)
    /\ Goto("open_wal")
    /\ UNCHANGED <<truncated, wal, job, memory, sync_on_write, issued, promised, crashes>>

\* Manifest::load; prepare_for_append cuts off a torn tail, without syncing.
LoadManifest ==
    /\ pc = "down" /\ manifest.cells # <<>>
    /\ \E l \in {manifest_load(manifest.cells)} :
        /\ l.ok
        /\ edits' = l.edits /\ poisoned' = FALSE
        /\ wal_id' = LastWal(l.edits) /\ next_seq' = LastSeq(l.edits)
        /\ IF l.offset < Len(manifest.cells)
           THEN /\ manifest' = [manifest EXCEPT !.cells = SubSeq(@, 1, l.offset),
                                               !.synced = Min({@, l.offset})]
                /\ truncated' = manifest.cells
           ELSE UNCHANGED <<manifest, truncated>>
    /\ Goto("open_wal")
    /\ UNCHANGED <<wal, job, mem, sync_on_write, issued, promised, crashes>>

\* open fails: the file is not a MANIFEST, or one that is damaged.
RefuseManifest ==
    /\ pc = "down" /\ manifest.cells # <<>>
    /\ ~manifest_load(manifest.cells).ok
    /\ UNCHANGED vars

-----------------------------------------------------------------------------
(* Engine::open_wal. *)

\* The WAL the manifest names does not exist.
CreateWal ==
    /\ pc = "open_wal" /\ ~wal[wal_id].exists
    /\ \/ /\ wal' = [wal EXCEPT ![wal_id] = NewFile(wal_header(wal_id))]
          /\ Completes("sync_wal_header")
          /\ UNCHANGED <<job, memory>>
       \/ \E part \in prefixes_from(wal_header(wal_id), 0) \ {wal_header(wal_id)} :
            wal' = [wal EXCEPT ![wal_id] = NewFile(part)] /\ Killed
    /\ UNCHANGED <<manifest, truncated, sync_on_write, issued, promised>>

SyncWalHeader ==
    /\ pc = "sync_wal_header"
    /\ wal' = [wal EXCEPT ![wal_id] = SyncFile(@)]
    /\ Goto("ready")
    /\ UNCHANGED <<manifest, truncated, job, memory, sync_on_write, issued, promised, crashes>>

\* The file a WAL with these records is.
RECURSIVE written(_, _)
written(file, recs) ==
    IF recs = <<>> THEN file ELSE written(wal_write(file, Head(recs)), Tail(recs))

\* Mutant: the sequence number moves on with every recovery.
RecoverWal_drifting ==
    /\ pc = "open_wal" /\ wal[wal_id].exists /\ wal_id < MaxWalId
    /\ \E l \in {Loaded(wal[wal_id].cells, wal_id)} :
        /\ l.end \in {"eof", "torn"}
        /\ mem' = Records(l)
        /\ next_seq' = 1 + Max({next_seq} \cup {l.records[i].seq + 1 : i \in DOMAIN l.records})
        /\ wal' = [wal EXCEPT ![wal_id + 1] =
                      NewFile(written(wal_header(wal_id + 1), Records(l)))]
    /\ Goto("sync_replacement")
    /\ UNCHANGED <<manifest, truncated, job, edits, poisoned, wal_id, sync_on_write,
                   issued, promised, crashes>>

\* Replay the records and rewrite them into the next WAL, which no edit names
\* yet: what a kill leaves of it is removed by the next open.
RecoverWal ==
    /\ pc = "open_wal" /\ wal[wal_id].exists /\ wal_id < MaxWalId
    /\ \E l \in {Loaded(wal[wal_id].cells, wal_id)} :
        /\ l.end \in {"eof", "torn"}
        /\ mem' = Records(l)
        /\ next_seq' = Max({next_seq} \cup {l.records[i].seq + 1 : i \in DOMAIN l.records})
        /\ wal' = [wal EXCEPT ![wal_id + 1] =
                      NewFile(written(wal_header(wal_id + 1), Records(l)))]
    /\ Goto("sync_replacement")
    /\ UNCHANGED <<manifest, truncated, job, edits, poisoned, wal_id, sync_on_write,
                   issued, promised, crashes>>

\* Damage, or no WAL id left.
RefuseWal ==
    /\ pc = "open_wal" /\ wal[wal_id].exists
    /\ \/ Loaded(wal[wal_id].cells, wal_id).end \notin {"eof", "torn"}
       \/ wal_id = MaxWalId
    /\ LoseMemory
    /\ UNCHANGED <<disk, sync_on_write, issued, promised, crashes>>

SyncReplacement ==
    /\ pc = "sync_replacement"
    /\ wal' = [wal EXCEPT ![wal_id + 1] = SyncFile(@)]
    /\ job' = [NoEdit EXCEPT !.wal = wal_id + 1, !.seq = next_seq]
    /\ Goto("append_edit")
    /\ UNCHANGED <<manifest, truncated, memory, sync_on_write, issued, promised, crashes>>

-----------------------------------------------------------------------------
(* Manifest::commit, called by open_wal and by flush_oldest_immutable. *)

\* append_prepared: the edit is written field by field.  When the fields did
\* not take exactly the encoded size the manifest is poisoned.
AppendEdit ==
    /\ pc = "append_edit" /\ ~poisoned
    /\ \E whole \in {write_edit(manifest.cells, job)} :
        \/ /\ edit_written(manifest.cells, job)
           /\ manifest' = [manifest EXCEPT !.cells = whole]
           /\ Completes("sync_edit")
           /\ UNCHANGED <<job, memory>>
        \/ /\ ~edit_written(manifest.cells, job)
           /\ manifest' = [manifest EXCEPT !.cells = whole]
           /\ poisoned' = TRUE
           /\ Completes("commit_failed")
           /\ UNCHANGED <<job, edits, mem, next_seq, wal_id>>
        \/ \E part \in prefixes_from(whole, Len(manifest.cells)) \ {whole} :
            manifest' = [manifest EXCEPT !.cells = part] /\ Killed
    /\ UNCHANGED <<truncated, wal, sync_on_write, issued, promised>>

SyncEdit ==
    /\ pc = "sync_edit"
    /\ manifest' = SyncFile(manifest) /\ truncated' = <<>>
    /\ edits' = Append(edits, job)
    /\ promised' = Len(TableRecords(edits')) + Len(IF job.new = <<>> THEN mem ELSE <<>>)
    /\ Goto("remove_wal")
    /\ UNCHANGED <<wal, job, poisoned, mem, next_seq, wal_id, sync_on_write, issued, crashes>>

\* The old WAL goes; after a flush so do the records that are in the table.
RemoveWal ==
    /\ pc = "remove_wal"
    /\ wal' = [wal EXCEPT ![wal_id] = Absent]
    /\ wal_id' = wal_id + 1
    /\ mem' = IF job.new = <<>> THEN mem ELSE <<>>
    /\ job' = NoEdit
    /\ Goto("ready")
    /\ UNCHANGED <<manifest, truncated, edits, poisoned, next_seq, sync_on_write,
                   issued, promised, crashes>>

\* open fails; flush removes the replacement and returns the error.
CommitFails ==
    /\ \/ pc = "commit_failed"
       \/ pc = "append_edit" /\ poisoned
    /\ IF job.new = <<>>
       THEN LoseMemory /\ UNCHANGED wal
       ELSE /\ wal' = [wal EXCEPT ![wal_id + 1] = Absent]
            /\ job' = NoEdit /\ Goto("ready")
            /\ UNCHANGED memory
    /\ UNCHANGED <<manifest, truncated, sync_on_write, issued, promised, crashes>>

-----------------------------------------------------------------------------
(* Engine::put_impl, flush, close. *)

\* The record goes into the WAL ...
Put ==
    /\ pc = "ready" /\ Len(issued) + crashes < MaxEvents
    /\ \E size \in RecordSize :
        LET rec   == [op |-> Len(issued) + 1, seq |-> next_seq, size |-> size]
            cells == wal[wal_id].cells
            whole == wal_write(cells, rec)
        IN  /\ issued' = Append(issued, rec)
            /\ \/ /\ wal' = [wal EXCEPT ![wal_id].cells = whole]
                  /\ Completes("put")
                  /\ UNCHANGED <<job, memory>>
               \/ \E part \in prefixes_from(whole, Len(cells)) \ {whole} :
                    wal' = [wal EXCEPT ![wal_id].cells = part] /\ Killed
    /\ UNCHANGED <<manifest, truncated, sync_on_write, promised>>

\* Mutant: the write is acknowledged without a sync.
FinishPut_unsynced ==
    /\ pc = "put"
    /\ mem' = Append(mem, Last(issued)) /\ next_seq' = next_seq + 1
    /\ promised' = IF sync_on_write THEN Len(TableRecords(edits)) + Len(mem') ELSE promised
    /\ Goto("ready")
    /\ UNCHANGED <<disk, job, edits, poisoned, wal_id, sync_on_write, issued, crashes>>

\* ... is synced if the options say so, applied to the memtable, acknowledged.
FinishPut ==
    /\ pc = "put"
    /\ mem' = Append(mem, Last(issued)) /\ next_seq' = next_seq + 1
    /\ IF sync_on_write
       THEN /\ wal' = [wal EXCEPT ![wal_id] = SyncFile(@)]
            /\ promised' = Len(TableRecords(edits)) + Len(mem')
       ELSE UNCHANGED <<wal, promised>>
    /\ Goto("ready")
    /\ UNCHANGED <<manifest, truncated, job, edits, poisoned, wal_id, sync_on_write,
                   issued, crashes>>

\* flush_oldest_immutable: the table is written and the next WAL created and
\* synced, then the edit that names both is committed.
Flush ==
    /\ pc = "ready" /\ mem # <<>> /\ wal_id < MaxWalId
    /\ \E path \in PathSize :
        job' = [wal |-> wal_id + 1, seq |-> next_seq, tid |-> Len(edits) + 2,
                deleted |-> 0,
                new |-> <<[path |-> path, key |-> 1, recs |-> mem]>>]
    /\ wal' = [wal EXCEPT ![wal_id + 1] = SyncFile(NewFile(wal_header(wal_id + 1)))]
    /\ Goto("append_edit")
    /\ UNCHANGED <<manifest, truncated, memory, sync_on_write, issued, promised, crashes>>

\* Engine::close: sync the WAL, then the MANIFEST; a poisoned one refuses.
Close ==
    /\ pc = "ready"
    /\ wal' = [wal EXCEPT ![wal_id] = SyncFile(@)]
    /\ IF poisoned
       THEN UNCHANGED <<manifest, truncated, pc, job, memory, promised>>
       ELSE /\ manifest' = SyncFile(manifest) /\ truncated' = <<>>
            /\ promised' = Len(TableRecords(edits)) + Len(mem)
            /\ LoseMemory
    /\ UNCHANGED <<sync_on_write, issued, crashes>>

-----------------------------------------------------------------------------
(* Crashes. *)

Kill ==
    /\ pc # "down" /\ Killed
    /\ UNCHANGED <<disk, sync_on_write, issued, promised>>

\* What a power loss may leave of a file.
Cuts(f) ==
    {[cells |-> part, synced |-> Len(part), exists |-> f.exists] :
        part \in prefixes_from(f.cells, f.synced)}

\* An unsynced truncation may be undone.
ManifestCuts ==
    Cuts(manifest)
        \cup (IF truncated = <<>> THEN {}
              ELSE Cuts([manifest EXCEPT !.cells = truncated]))

Unsynced == {i \in DOMAIN wal : wal[i].synced < Len(wal[i].cells)}

PowerLoss ==
    /\ Len(issued) + crashes < MaxEvents /\ crashes' = crashes + 1
    /\ manifest' \in ManifestCuts /\ truncated' = <<>>
    /\ \E cut \in [Unsynced -> UNION {Cuts(wal[i]) : i \in Unsynced}] :
        /\ \A i \in Unsynced : cut[i] \in Cuts(wal[i])
        /\ wal' = [i \in DOMAIN wal |-> IF i \in Unsynced THEN cut[i] ELSE wal[i]]
    /\ LoseMemory
    /\ UNCHANGED <<sync_on_write, issued, promised>>

Next ==
    \/ CreateManifest \/ SyncManifestHeader \/ LoadManifest \/ RefuseManifest
    \/ CreateWal \/ SyncWalHeader \/ RecoverWal \/ RefuseWal \/ SyncReplacement
    \/ AppendEdit \/ SyncEdit \/ RemoveWal \/ CommitFails
    \/ Put \/ FinishPut \/ Flush \/ Close
    \/ Kill \/ PowerLoss

Spec == Init /\ [][Next]_vars

-----------------------------------------------------------------------------
(* Properties. *)

\* Every variable stays within its type: ids and sequence numbers within
\* their bounds, no more durable cells than there are cells.
TypeOK ==
    /\ \A f \in {manifest} \cup {wal[i] : i \in DOMAIN wal} :
          f.synced \in 0 .. Len(f.cells)
    /\ wal_id \in 1 .. MaxWalId + 1
    /\ next_seq \in 1 .. MaxEvents + 1
    /\ poisoned \in BOOLEAN /\ sync_on_write \in BOOLEAN
    /\ promised \in 0 .. MaxEvents
    /\ crashes \in 0 .. MaxEvents

\* What open recovers from a MANIFEST with these cells and these WAL files:
\* the tables' records, then those of the WAL the MANIFEST names.
WithWal(es, exists, w) ==
    IF ~exists THEN TableRecords(es)
    ELSE IF w.end \in {"eof", "torn"} THEN TableRecords(es) \o Records(w)
    ELSE Unreadable

RecoveredBy(m, files) ==
    LET id == LastWal(m.edits)
    IN  [log |-> IF m.ok
                 THEN WithWal(m.edits, files[id].exists, Loaded(files[id].cells, id))
                 ELSE Unreadable,
         wal |-> id]

Recovered(cells, files) ==
    RecoveredBy(IF cells = <<>> THEN [ok |-> TRUE, edits |-> <<>>] ELSE manifest_load(cells),
                files)

\* The part of a file that is known to be durable.
Synced(f)   == [f EXCEPT !.cells = SubSeq(@, 1, f.synced)]
IsSynced(f) == f.synced = Len(f.cells)

\* What open recovers from the files as they are, and from their synced parts;
\* and whether the headers of the MANIFEST and of the WAL it names are synced.
Observed(m, w) ==
    LET observe(now, kept) ==
            [log |-> now.log, durable |-> kept.log,
             created |-> m.synced >= ManifestHdr /\ w[kept.wal].synced >= WalHdr]
        both(now) ==
            IF IsSynced(m) /\ \A i \in DOMAIN w : IsSynced(w[i]) THEN observe(now, now)
            ELSE observe(now, Recovered(Synced(m).cells, [i \in DOMAIN w |-> Synced(w[i])]))
    IN  both(Recovered(m.cells, w))

\* An edit met a block boundary: the writer put padding between its fields.
Padded(cells) == \E i \in DOMAIN cells : cells[i] = Padding

\* Recovery replays every edit of a MANIFEST this code has written, and drops
\* at most a torn final one: Manifest::load never refuses it.
EditsLoad ==
    manifest.synced >= ManifestHdr => manifest_load(manifest.cells).ok

Garbage == {"bad", "short"}

\* Wherever the WAL is cut, the streaming loader returns the records the batch
\* loader returns, stops at the same offset for the same reason (a header cut
\* short is a torn tail to it), and says the same again when it is called again.
\* (Other states hold prefixes of the same contents.)
StreamMatchesBatch ==
    pc = "put" => \A part \in prefixes_from(wal[wal_id].cells, 0), g \in Garbage :
        \A batch \in {wal_load(part, wal_id, g)},
           stream \in {stream_all(part, wal_id, StreamOpen, <<>>, g)} :
            /\ stream.records = batch.records
            /\ stream.offset = batch.offset
            /\ stream.again.state = stream.state /\ stream.again.offset = stream.offset
            /\ CASE stream.state = "EndOfFile" -> batch.end = "eof"
                 [] stream.state = "TornTail"  ->
                        batch.end = IF Len(part) < WalHdr THEN "no_header" ELSE "torn"
                 [] stream.state = "Corrupted" -> batch.end = "corrupt"

\* An append that fails part-way leaves the writer usable: the next record,
\* often with the same sequence number, goes behind what is there.  The loader
\* then returns the records before the gap and, if the gap is none, the new
\* one: never a record put together from two.
TornAppendContained ==
    pc = "put" => \A part \in prefixes_from(wal[wal_id].cells, WalHdr), g \in Garbage, size \in RecordSize :
        LET rec    == [op |-> 0, seq |-> next_seq, size |-> size]
            before == wal_load(part, wal_id, g)
            after  == wal_load(wal_write(part, rec), wal_id, g)
        IN  after.records = IF before.end = "eof"
                            THEN Append(before.records, [seq |-> next_seq, bytes |-> payload(rec)])
                            ELSE before.records
=============================================================================
