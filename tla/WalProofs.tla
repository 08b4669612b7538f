------------------------------- MODULE WalProofs -------------------------------
(***************************************************************************)
(* WAL files: unless a sync of the MANIFEST fails, a WAL that a version    *)
(* recovery may find names exists with a synced header, however recovery,  *)
(* rotation, failed creations and removals, kills and power losses follow  *)
(* one another.                                                            *)
(***************************************************************************)
EXTENDS EngineProofs

Starting   == {"down", "open_manifest", "manifest_header", "manifest_header_sync",
               "open_wal", "wal_header", "wal_header_sync"}
Committing == pc \in {"append", "sync", "committed"}

\* Engine::current_wal_id_ is the WAL the catalog names, or wal_ is closed and
\* everything is flushed (the WAL's close failed after the commit of a flush).
Switched == wal_id = catalog.wal_id \/ (writer = 0 /\ mem = {} /\ imm = <<>>)

\* What the locals of a call and the engine's members say of each other at each
\* point of it, whatever I/O fails.
FlowInv ==
    /\ writer \in {0, wal_id}
    /\ pc \in Starting \cup {"idle"} => job = NoJob
    /\ pc \in Starting => mem = {} /\ imm = <<>> /\ writer = 0
    /\ pc \in {"wal_header", "wal_header_sync", "remove_wal"} => wal_id = catalog.wal_id
    /\ pc \in {"put_sync", "put_apply", "close_manifest"} => writer # 0
    /\ pc \notin Starting \cup {"replacement_sync", "append", "sync", "committed"} => Switched
    /\ pc \in {"drain", "flush_edit", "maybe_compact", "manual", "remove_sst"} => mem = {}
    /\ pc \in {"maybe_compact", "manual", "remove_sst", "remove_wal", "replacement_sync"} =>
          imm = <<>>
    /\ pc \in {"put_sync", "put_apply", "freeze", "drain", "flush_edit"} => job.repl = 0
    /\ pc = "remove_wal" => job.kind \in {"open", "flush"} /\ (job.kind = "flush" => mem = {})
    /\ pc = "replacement_sync" =>
          job.staged.wal_id = job.repl /\ job.repl = catalog.wal_id + 1
    /\ pc = "committed" => catalog = job.staged
    /\ Committing => job.kind # "none"
    /\ Committing /\ job.kind = "open" =>
          /\ imm = <<>> /\ job.staged.wal_id = job.repl
          /\ pc # "committed" => job.repl = catalog.wal_id + 1
    /\ Committing /\ job.kind = "flush" =>
          /\ mem = {}
          /\ pc # "committed" => wal_id = catalog.wal_id
          /\ IF job.repl = 0 THEN job.staged.wal_id = wal_id /\ Len(imm) > 1
             ELSE job.repl = wal_id + 1 /\ job.staged.wal_id = job.repl /\ Len(imm) = 1
    /\ Committing /\ Compaction =>
          /\ mem = {} /\ imm = <<>> /\ Switched
          /\ job.staged.wal_id = catalog.wal_id
    /\ job.call = "compact_range" => job.lo \in Key /\ job.hi \in Key
    /\ pc = "manual" \/ ((pc = "remove_sst" \/ Committing) /\ job.kind = "manual") =>
          job.call = "compact_range"

-----------------------------------------------------------------------------
\* A new engine is not in a call.
LEMMA FlowInit == Init => FlowInv
  BY DEF Init, FlowInv, Starting, Committing, NoJob

\* Retiring the last immutable memtable leaves none.
LEMMA TailOfOne ==
    ASSUME NEW S, NEW s \in Seq(S), Len(s) = 1
    PROVE  Tail(s) = <<>>
<1>1. s # <<>>
  OBVIOUS
<1>2. Tail(s) \in Seq(S) /\ Len(Tail(s)) = 0
  BY <1>1, TailIs
<1> QED BY Zenon, <1>2, SeqIs

\* FlowInv is preserved by every step.
LEMMA FlowStep ==
    Typed /\ FlowInv /\ [Next]_vars => FlowInv'
  \* The process ends, in an orderly way or not.
<1>Down.
    ASSUME pc' = "down", LoseMemory
    PROVE  FlowInv'
  BY Zenon, <1>Down DEF FlowInv, LoseMemory, Starting, Committing, NoJob
  \* A step between two points at which no memtable is taken for flushed.
<1>Return.
    ASSUME FlowInv, pc' = "idle", job' = NoJob, Switched', writer' \in {0, wal_id'}
    PROVE  FlowInv'
  BY Zenon, <1>Return DEF FlowInv, Starting, Committing, NoJob
  \* Opening the manifest and the WAL.
<1>Open.
    ASSUME Typed, FlowInv,
           \/ Open \/ CreateManifest \/ WriteManifestHeader \/ SyncManifestHeader
           \/ LoadManifest \/ RefuseManifest \/ CreateWal \/ WriteWalHeader \/ SyncWalHeader
           \/ RecoverWal \/ RefuseWal \/ SyncReplacement \/ SyncReplacementFails
    PROVE  FlowInv'
  <2> USE <1>Open
  <2> USE DEF Goto, files, memory
  <2>1. CASE Open \/ CreateManifest \/ WriteManifestHeader \/ SyncManifestHeader
    BY Zenon, <2>1 DEF Open, CreateManifest, WriteManifestHeader, SyncManifestHeader,
                FlowInv, Starting, Committing
  <2>2. CASE LoadManifest
    BY Zenon, <2>2 DEF LoadManifest, FlowInv, Starting, Committing
  <2>3. CASE RefuseManifest \/ RefuseWal \/ SyncReplacementFails
    BY Zenon, <2>3, <1>Down DEF RefuseManifest, RefuseWal, SyncReplacementFails, OpenFails
  <2>4. CASE CreateWal
    BY Zenon, <2>4 DEF CreateWal, FlowInv, Starting, Committing
  <2>5. CASE WriteWalHeader
    BY Zenon, <2>5 DEF WriteWalHeader, FlowInv, Starting, Committing
  <2>6. CASE SyncWalHeader
    BY Zenon, <2>6 DEF SyncWalHeader, FlowInv, Starting, Committing, Switched
  <2>7. CASE RecoverWal
    <3>1. PICK next \in SeqNum : Replay(Loaded(wal[catalog.wal_id].recs), next)
      BY Zenon, <2>7 DEF RecoverWal
    <3>2. /\ pc = "open_wal" /\ pc' = "replacement_sync" /\ UNCHANGED <<catalog, imm, writer>>
          /\ job' = [NoJob EXCEPT !.call = "open", !.kind = "open",
                              !.repl = catalog.wal_id + 1,
                              !.staged = [catalog EXCEPT !.wal_id = @ + 1,
                                                         !.next_seq = next]]
      BY Zenon, <3>1 DEF Replay
    <3>3. job'.staged.wal_id = catalog.wal_id + 1 /\ job'.repl = catalog.wal_id + 1
      BY Zenon, <3>2 DEF NoJob, Typed, TypeOK, Version
    <3> QED BY <3>2, <3>3 DEF FlowInv, Starting, Committing
  <2>8. CASE SyncReplacement
    BY Zenon, <2>8 DEF SyncReplacement, FlowInv, Starting, Committing, Compaction, Typed, Pending
  <2> QED BY Zenon, <2>1, <2>2, <2>3, <2>4, <2>5, <2>6, <2>7, <2>8
  \* put_impl runs with an open WAL.
<1>Put.
    ASSUME Typed, FlowInv,
           \/ \E k \in Key, del \in BOOLEAN : PutWrite(k, del) \/ PutWriteFails(k, del)
           \/ PutSync \/ PutSyncFails \/ PutApply
    PROVE  FlowInv'
  <2> USE <1>Put
  <2> USE DEF Goto, files, memory
  <2>1. ASSUME NEW k \in Key, NEW del \in BOOLEAN, PutWrite(k, del) PROVE FlowInv'
    <3>1. /\ pc = "idle" /\ pc' \in {"put_sync", "put_apply"} /\ writer # 0
          /\ UNCHANGED <<catalog, mem, imm, wal_id, writer>>
      BY Zenon, <2>1 DEF PutWrite
    <3>2. job'.repl = 0 /\ job'.call = "put"
      BY Zenon, <2>1 DEF PutWrite, NoJob
    <3> QED BY Zenon, <3>1, <3>2 DEF FlowInv, Starting, Committing, Switched
  <2>2. ASSUME NEW k \in Key, NEW del \in BOOLEAN, PutWriteFails(k, del) PROVE FlowInv'
    BY Zenon, <2>2 DEF PutWriteFails, FlowInv, Starting, Committing, Switched
  <2>3. CASE PutSync
    BY Zenon, <2>3 DEF PutSync, FlowInv, Starting, Committing, Switched
  <2>4. CASE PutSyncFails
    BY Zenon, <2>4, <1>Return DEF PutSyncFails, ReturnError, FlowInv, Starting, Switched
  <2>5. CASE PutApply
    <3>1. /\ pc = "put_apply" /\ UNCHANGED <<catalog, imm, wal_id, writer>>
          /\ \/ pc' = "idle" /\ job' = NoJob
             \/ pc' = "freeze" /\ job' = job
      BY Zenon, <2>5 DEF PutApply, ReturnOk
    <3>2. wal_id = catalog.wal_id /\ writer = wal_id /\ job.repl = 0
      BY Zenon, <3>1 DEF FlowInv, Starting, Switched
    <3>3. NoJob.call # "compact_range"
      BY Zenon DEF NoJob
    <3> QED BY Zenon, <3>1, <3>2, <3>3 DEF FlowInv, Starting, Committing, Switched
  <2> QED BY Zenon, <2>1, <2>2, <2>3, <2>4, <2>5
  \* A flush stages its edit before it touches the WAL it switches from.
<1>Flush.
    ASSUME Typed, FlowInv,
           \/ Flush \/ Freeze \/ Drained \/ FlushTable \/ FlushTableFails
           \/ FlushEdit \/ FlushEditFails
    PROVE  FlowInv'
  <2> USE <1>Flush
  <2> USE DEF Goto, files, memory
  <2>1. CASE Flush
    BY Zenon, <2>1 DEF Flush, NoJob, FlowInv, Starting, Committing, Switched
  <2>2. CASE Freeze
    BY Zenon, <2>2 DEF Freeze, FlowInv, Starting, Committing, Switched
  <2>3. CASE Drained
    BY Zenon, <2>3 DEF Drained, FlowInv, Starting, Committing, Switched
  <2>4. CASE FlushTable
    BY Zenon, <2>4 DEF FlushTable, FlowInv, Starting, Committing, Switched
  <2>5. CASE FlushTableFails
    <3>1. pc = "drain" /\ ReturnError /\ UNCHANGED memory
      BY Zenon, <2>5 DEF FlushTableFails
    <3> QED BY Zenon, <3>1, <1>Return DEF ReturnError, FlowInv, Starting, Switched
  <2>6. CASE FlushEdit
    <3>1. /\ pc = "flush_edit" /\ pc' = "append" /\ UNCHANGED <<catalog, mem, imm, wal_id, writer>>
          /\ (rotates_wal /\ FlushRotates) \/ (~rotates_wal /\ FlushKeepsWal)
      BY Zenon, <2>6 DEF FlushEdit
    <3>2. imm # <<>> /\ wal_id = catalog.wal_id /\ mem = {} /\ job.repl = 0
      <4>1. imm # <<>>
        BY Zenon, <3>1 DEF Typed, Pending
      <4>2. Switched /\ mem = {} /\ job.repl = 0
        BY Zenon, <3>1 DEF FlowInv, Starting
      <4> QED BY Zenon, <4>1, <4>2 DEF Switched
    <3>3. Len(imm) \in Nat /\ Len(imm) # 0
      BY <3>2 DEF Typed, TypeOK
    <3>4. job \in Job /\ catalog \in Version /\ wal_id \in Nat
      BY DEF Typed, TypeOK, WalId
    <3>5. FlushedVersion.wal_id = wal_id
      BY Zenon, <3>2, <3>4 DEF FlushedVersion, Version
    <3>6. CASE rotates_wal /\ FlushRotates
      <4>1. /\ job'.kind = "flush" /\ job'.repl = wal_id + 1 /\ job'.staged.wal_id = wal_id + 1
            /\ job'.call = job.call /\ job'.lo = job.lo /\ job'.hi = job.hi
        BY Zenon, <3>4, <3>6 DEF FlushRotates, FlushedVersion, Job, Version
      <4> QED BY <3>1, <3>2, <3>4, <3>6, <4>1 DEF FlowInv, Starting, Committing, Compaction, rotates_wal
    <3>7. CASE ~rotates_wal /\ FlushKeepsWal
      <4>1. /\ job'.kind = "flush" /\ job'.repl = 0 /\ job'.staged = FlushedVersion
            /\ job'.call = job.call /\ job'.lo = job.lo /\ job'.hi = job.hi
        BY Zenon, <3>2, <3>4, <3>7 DEF FlushKeepsWal, Job
      <4>2. Len(imm) > 1
        BY <3>3, <3>7 DEF rotates_wal
      <4> QED BY Zenon, <3>1, <3>2, <3>5, <4>1, <4>2 DEF FlowInv, Starting, Committing, Compaction
    <3> QED BY Zenon, <3>1, <3>6, <3>7
  <2>7. CASE FlushEditFails
    <3>1. pc = "flush_edit" /\ ReturnError /\ UNCHANGED memory
      BY Zenon, <2>7 DEF FlushEditFails
    <3> QED BY Zenon, <3>1, <1>Return DEF ReturnError, FlowInv, Starting, Switched
  <2> QED BY Zenon, <2>1, <2>2, <2>3, <2>4, <2>5, <2>6, <2>7
  \* A commit that fails ends the call.
<1>CommitFails.
    ASSUME Typed, FlowInv, CommitFails, pc \in {"append", "sync"}
    PROVE  FlowInv'
  <2> USE <1>CommitFails
  <2>1. CASE OpenFails
    BY Zenon, <2>1, <1>Down DEF OpenFails
  <2>2. CASE /\ job.kind \in {"flush", "background", "manual"}
             /\ ReturnError /\ UNCHANGED <<catalog, mem, imm, wal_id, writer>>
    BY Zenon, <2>2, <1>Return DEF ReturnError, FlowInv, Committing, Compaction, Switched
  <2> QED BY Zenon, <2>1, <2>2 DEF CommitFails
  \* Manifest::commit.
<1>Commit.
    ASSUME Typed, FlowInv,
           \/ AppendEdit \/ RefuseEdit \/ AppendEditFails \/ SyncEdit \/ SyncEditFails
    PROVE  FlowInv'
  <2> USE <1>Commit
  <2> USE DEF Goto, files, memory
  <2>1. CASE AppendEdit
    BY Zenon, <2>1 DEF AppendEdit, FlowInv, Starting, Committing, Compaction, Switched
  <2>2. CASE RefuseEdit \/ AppendEditFails \/ SyncEditFails
    BY Zenon, <2>2, <1>CommitFails DEF RefuseEdit, AppendEditFails, SyncEditFails
  <2>3. CASE SyncEdit
    <3>1. /\ pc = "sync" /\ pc' = "committed" /\ catalog' = job.staged
          /\ UNCHANGED <<job, mem, imm, wal_id, writer>>
      BY Zenon, <2>3 DEF SyncEdit
    <3> QED BY Zenon, <3>1 DEF FlowInv, Starting, Committing, Compaction, Switched
  <2> QED BY Zenon, <2>1, <2>2, <2>3
  \* What follows a commit of open_wal or a flush.
<1>Committed.
    ASSUME Typed, FlowInv,
           \/ OpenCommitted \/ FlushCommitted \/ FlushCommittedFails
           \/ RemoveWal \/ RemoveWalFails
    PROVE  FlowInv'
  <2> USE <1>Committed
  <2> USE DEF Goto, files, memory
  <2>a. Len(imm) = 1 => Tail(imm) = <<>>
    BY Zenon, TailOfOne DEF Typed, TypeOK
  <2>1. CASE OpenCommitted
    BY Zenon, <2>1 DEF OpenCommitted, FlowInv, Starting, Committing, Switched
  <2>2. CASE FlushCommitted
    <3>1. /\ pc = "committed" /\ job.kind = "flush" /\ imm' = Tail(imm)
          /\ UNCHANGED <<job, catalog, mem>>
      BY Zenon, <2>2 DEF FlushCommitted
    <3>2. /\ mem = {} /\ catalog = job.staged /\ writer \in {0, wal_id}
          /\ IF job.repl = 0 THEN job.staged.wal_id = wal_id
             ELSE job.staged.wal_id = job.repl /\ Len(imm) = 1
      BY Zenon, <3>1 DEF FlowInv, Committing
    <3>3. CASE job.repl = 0
      <4>1. pc' = "drain" /\ UNCHANGED <<writer, wal_id>>
        BY Zenon, <2>2, <3>3 DEF FlushCommitted
      <4> QED BY Zenon, <3>1, <3>2, <3>3, <4>1 DEF FlowInv, Starting, Committing, Switched
    <3>4. CASE job.repl # 0
      <4>1. pc' = "remove_wal" /\ writer' = job.repl /\ wal_id' = job.repl
        BY Zenon, <2>2, <3>4 DEF FlushCommitted
      <4> QED BY Zenon, <2>a, <3>1, <3>2, <3>4, <4>1 DEF FlowInv, Starting, Committing, Switched
    <3> QED BY Zenon, <3>3, <3>4
  <2>3. CASE FlushCommittedFails
    <3>1. /\ pc = "committed" /\ job.kind = "flush" /\ job.repl # 0 /\ imm' = Tail(imm)
          /\ pc' = "idle" /\ job' = NoJob /\ writer' = 0 /\ UNCHANGED <<mem, wal_id>>
      BY Zenon, <2>3 DEF FlushCommittedFails, ReturnError
    <3>2. mem = {} /\ Len(imm) = 1
      BY Zenon, <3>1 DEF FlowInv, Committing
    <3> QED BY Zenon, <2>a, <3>1, <3>2, <1>Return DEF Switched
  <2>4. CASE RemoveWal
    <3>1. /\ pc = "remove_wal" /\ UNCHANGED <<catalog, mem, imm, wal_id, writer>>
          /\ IF job.kind = "open" THEN pc' = "idle" /\ job' = NoJob
             ELSE pc' = "drain" /\ job' = [job EXCEPT !.repl = 0]
      BY Zenon, <2>4 DEF RemoveWal
    <3>2. CASE job.kind = "open"
      BY Zenon, <3>1, <3>2, <1>Return DEF FlowInv, Switched
    <3>3. CASE job.kind = "flush"
      <4>1. job'.repl = 0 /\ job'.call = job.call /\ job'.lo = job.lo /\ job'.hi = job.hi
        BY Zenon, <3>1, <3>3 DEF Typed, TypeOK, Job
      <4> QED BY Zenon, <3>1, <3>3, <4>1 DEF FlowInv, Starting, Committing, Switched
    <3> QED BY Zenon, <3>1, <3>2, <3>3 DEF FlowInv
  <2>5. CASE RemoveWalFails
    <3>1. CASE OpenFails
      BY Zenon, <3>1, <1>Down DEF OpenFails
    <3>2. CASE ReturnError /\ UNCHANGED memory
      BY Zenon, <2>5, <3>2, <1>Return DEF RemoveWalFails, ReturnError, FlowInv, Switched
    <3> QED BY Zenon, <2>5, <3>1, <3>2 DEF RemoveWalFails
  <2> QED BY Zenon, <2>1, <2>2, <2>3, <2>4, <2>5
  \* A compaction runs on flushed memtables and keeps the WAL.
<1>RunJob.
    ASSUME Typed, FlowInv, NEW plan, NEW kind \in {"background", "manual"},
           pc = IF kind = "background" THEN "maybe_compact" ELSE "manual",
           RunJob(plan, kind)
    PROVE  FlowInv'
  <2> USE <1>RunJob
  <2>1. /\ pc' = "append" /\ UNCHANGED <<catalog, mem, imm, wal_id, writer>>
        /\ JobStages(plan, kind)
    BY Zenon DEF RunJob, Goto, memory
  <2>2. /\ job'.kind = kind /\ job'.staged.wal_id = catalog.wal_id
        /\ job'.call = job.call /\ job'.lo = job.lo /\ job'.hi = job.hi
    BY Zenon, <2>1 DEF JobStages, Typed, TypeOK, Job, Version
  <2>3. kind = "manual" => job.call = "compact_range"
    <3>1. pc = "manual" => job.call = "compact_range"
      BY Zenon DEF FlowInv
    <3> QED BY Zenon, <3>1
  <2> QED BY Zenon, <2>1, <2>2, <2>3 DEF FlowInv, Starting, Committing, Compaction, Switched
  \* Compaction.
<1>Compaction.
    ASSUME Typed, FlowInv,
           \/ FlushDone \/ BackgroundCompact \/ BackgroundCompactFails
           \/ ManualSkip \/ ManualCompact \/ ManualCompactFails \/ ManualDone
           \/ CompactCommitted \/ (\E i \in job.obsolete : RemoveSst(i))
           \/ RemoveSstFails \/ CompactDone
           \/ (\E range \in Ranges : CompactRange(range[1], range[2]))
    PROVE  FlowInv'
  <2> USE <1>Compaction
  <2> USE DEF Goto, files, memory
  <2>1. CASE FlushDone
    <3>1. /\ pc = "maybe_compact" /\ UNCHANGED memory
          /\ \/ pc' = "idle" /\ job' = NoJob
             \/ pc' = "manual" /\ job' = job /\ job.call = "compact_range"
      BY Zenon, <2>1 DEF FlushDone, ReturnOk, ReturnError
    <3>2. NoJob.call # "compact_range"
      BY Zenon DEF NoJob
    <3> QED BY Zenon, <3>1, <3>2 DEF FlowInv, Starting, Committing, Switched
  <2>2. CASE BackgroundCompact
    BY Zenon, <2>2, <1>RunJob DEF BackgroundCompact
  <2>3. CASE BackgroundCompactFails \/ ManualCompactFails
    <3>1. pc \in {"maybe_compact", "manual"} /\ ReturnError /\ UNCHANGED memory
      BY Zenon, <2>3 DEF BackgroundCompactFails, ManualCompactFails, JobFails
    <3> QED BY Zenon, <3>1, <1>Return DEF ReturnError, FlowInv, Starting, Switched
  <2>4. CASE ManualSkip
    BY <2>4 DEF ManualSkip, FlowInv, Starting, Committing, Switched
  <2>5. CASE ManualCompact
    BY Zenon, <2>5, <1>RunJob DEF ManualCompact
  <2>6. CASE ManualDone
    BY Zenon, <2>6, <1>Return DEF ManualDone, ReturnOk, FlowInv, Starting, Switched
  <2>7. CASE CompactCommitted
    BY Zenon, <2>7 DEF CompactCommitted, FlowInv, Starting, Committing, Compaction, Switched
  <2>8. CASE \E i \in job.obsolete : RemoveSst(i)
    BY <2>8 DEF RemoveSst, FlowInv, Starting, Committing, Switched
  <2>9. CASE RemoveSstFails
    BY Zenon, <2>9, <1>Return DEF RemoveSstFails, ReturnError, FlowInv, Starting, Switched
  <2>10. CASE CompactDone
    <3>1. /\ pc = "remove_sst" /\ UNCHANGED memory
          /\ pc' = IF job.kind = "background" THEN "maybe_compact" ELSE "manual"
      BY Zenon, <2>10 DEF CompactDone
    <3>2. job'.call = job.call /\ job'.lo = job.lo /\ job'.hi = job.hi
      BY Zenon, <2>10 DEF CompactDone, Typed, TypeOK, Job
    <3>3. job.kind \in {"background", "manual"}
      BY Zenon, <3>1 DEF Typed, Pending
    <3> QED BY Zenon, <3>1, <3>2, <3>3 DEF FlowInv, Starting, Committing, Switched
  <2>11. ASSUME NEW range \in Ranges, CompactRange(range[1], range[2]) PROVE FlowInv'
    <3>1. range[1] \in Key /\ range[2] \in Key
      BY Zenon, EngineAssumption
    <3>2. /\ pc = "idle" /\ pc' = "freeze" /\ UNCHANGED memory
          /\ job'.repl = 0 /\ job'.lo \in Key /\ job'.hi \in Key
      BY Zenon, <2>11, <3>1 DEF CompactRange, NoJob
    <3> QED BY Zenon, <3>2 DEF FlowInv, Starting, Committing, Switched
  <2> QED BY Zenon, <2>1, <2>2, <2>3, <2>4, <2>5, <2>6, <2>7, <2>8, <2>9, <2>10, <2>11
  \* Engine::close.
<1>Close.
    ASSUME FlowInv, Close \/ CloseManifest \/ CloseManifestFails \/ CloseWalFails
    PROVE  FlowInv'
  <2> USE <1>Close
  <2> USE DEF Goto, files, memory
  <2>1. CASE Close
    BY <2>1 DEF Close, FlowInv, Starting, Committing, Switched
  <2>2. CASE CloseManifest
    BY Zenon, <2>2, <1>Down DEF CloseManifest
  <2>3. CASE CloseManifestFails \/ CloseWalFails
    BY Zenon, <2>3, <1>Return DEF CloseManifestFails, CloseWalFails, ReturnError, FlowInv, Starting, Switched
  <2> QED BY Zenon, <2>1, <2>2, <2>3
<1>1. FlowInv /\ UNCHANGED vars => FlowInv'
  <2>1. UNCHANGED vars => /\ UNCHANGED <<pc, job, writer, wal_id, mem, imm, catalog>>
                          /\ UNCHANGED <<Switched, Committing, Compaction>>
    BY Zenon DEF Committing, Compaction, Switched, vars, memory
  <2> QED BY <2>1, SMTT(30) DEF FlowInv
<1>2. Kill \/ PowerLoss => FlowInv'
  BY Zenon, <1>Down DEF Kill, PowerLoss
<1> QED BY Zenon, <1>1, <1>2, <1>Open, <1>Put, <1>Flush, <1>Commit, <1>Committed,
           <1>Compaction, <1>Close
    DEF Next, EngineStep, ClientStep

-----------------------------------------------------------------------------
\* The engine is open, or goes on to be: what it serves is what the MANIFEST
\* holds on disk.
Serving ==
    \/ pc \notin Starting \cup {"replacement_sync", "append", "sync"}
    \/ pc \in {"append", "sync"} /\ job.kind # "open"

\* The inductive invariant.  A version without its WAL is the one of a database
\* never flushed; WALs of larger ids than the last version's are in no version,
\* so writing them disturbs none; and once an edit is synced no other version is
\* left, so removing the WAL it replaces disturbs none either.
WalInv ==
    /\ \A v \in Recoverable : /\ v.wal_id <= Latest(manifest.log).wal_id
                              /\ wal[v.wal_id].hdr # "ok" => v = EmptyVersion
    /\ pc \in {"wal_header", "wal_header_sync"} => wal[catalog.wal_id].hdr # "ok"
    /\ Serving => wal[catalog.wal_id].hdr = "ok"
    /\ Serving /\ pc # "sync" => Recoverable = {catalog}
    /\ pc = "replacement_sync" \/ Committing => wal[job.staged.wal_id].hdr = "ok"

\* The versions that may be recovered name WAL ids.
LEMMA NamedWalIds ==
    ASSUME Typed
    PROVE  /\ \A v \in Recoverable : v \in Version /\ v.wal_id \in WalId
           /\ catalog.wal_id \in WalId /\ job.staged.wal_id \in WalId
           /\ Latest(manifest.log) \in Recoverable
<1>1. \A v \in Recoverable : v \in Version
  BY Zenon, RangeType DEF Typed, TypeOK, Recoverable
<1>2. Latest(manifest.log) \in Recoverable
  BY Zenon, LatestInRange DEF Typed, TypeOK, Recoverable
<1>3. catalog \in Version /\ job.staged \in Version
  BY Zenon DEF Typed, TypeOK, Job
<1> QED BY Zenon, <1>1, <1>2, <1>3 DEF Version

\* The empty database names the WAL that a first open creates.
LEMMA WalInit == Init => WalInv
<1> SUFFICES ASSUME Init PROVE WalInv
  BY Zenon
<1>1. Recoverable = {EmptyVersion} /\ Latest(manifest.log) = EmptyVersion
  BY Zenon, RangeOfSingle DEF Init, Recoverable
<1>2. EmptyVersion.wal_id <= EmptyVersion.wal_id
  BY DEF EmptyVersion
<1> QED BY Zenon, <1>1, <1>2 DEF Init, WalInv, Serving, Starting, Committing

\* Only a database that was never flushed is opened without its WAL.
LEMMA NewDatabase ==
    ASSUME Typed, TableInv, WalInv, pc \in {"open_wal", "wal_header", "wal_header_sync"},
           wal[catalog.wal_id].hdr # "ok"
    PROVE  Recoverable = {EmptyVersion} /\ catalog = EmptyVersion
<1>1. catalog = Latest(manifest.log)
  BY Zenon DEF TableInv
<1>2. catalog = EmptyVersion /\ catalog \in Recoverable
  BY Zenon, <1>1, NamedWalIds DEF WalInv
<1>3. ASSUME NEW v \in Recoverable PROVE v = EmptyVersion
  <2>1. v.wal_id <= 1 /\ v.wal_id \in WalId
    BY <1>1, <1>2, NamedWalIds DEF WalInv, EmptyVersion
  <2>2. v.wal_id = catalog.wal_id
    BY <1>2, <2>1 DEF WalId, EmptyVersion
  <2> QED BY Zenon, <2>2 DEF WalInv
<1> QED BY Zenon, <1>2, <1>3

\* WalInv is preserved by every step.
LEMMA WalStep ==
    ASSUME ~Fails("manifest_sync")
    PROVE  Typed /\ TableInv /\ FlowInv /\ WalInv /\ [Next]_vars => WalInv'
  \* Ids are compared as numbers.
<1>IdsAreNumbers. \A i \in WalId : i \in Nat /\ i <= i
  BY DEF WalId
  \* A step while serving that keeps the header of the current WAL.
<1>Serves.
    ASSUME Typed, WalInv, Serving, pc # "sync",
           manifest'.log = manifest.log, catalog' = catalog,
           wal'[catalog.wal_id].hdr = "ok",
           pc' \notin Starting \cup {"replacement_sync", "sync"},
           pc' \in {"append", "committed"} =>
              job'.kind # "open" /\ wal'[job'.staged.wal_id].hdr = "ok"
    PROVE  WalInv'
  <2> USE <1>Serves
  <2>1. Recoverable = {catalog} /\ Recoverable' = {catalog'}
    BY Zenon DEF WalInv, Recoverable
  <2>2. Latest(manifest.log) = catalog /\ Latest(manifest'.log) = catalog'
    BY Zenon, <2>1, NamedWalIds
  <2>3. catalog.wal_id <= catalog.wal_id
    BY Zenon, NamedWalIds, <1>IdsAreNumbers
  <2> QED BY Zenon, <2>1, <2>2, <2>3 DEF WalInv, Serving, Starting, Committing
  \* The process ends: a version that is left keeps its WAL.
<1>Down.
    ASSUME Typed, WalInv, pc' = "down", manifest'.log = manifest.log,
           \A v \in Recoverable : wal'[v.wal_id].hdr = wal[v.wal_id].hdr
    PROVE  WalInv'
  BY Zenon, <1>Down DEF WalInv, Serving, Starting, Committing, Recoverable
  \* Opening the manifest.
<1>Open.
    ASSUME Typed, TableInv, WalInv,
           \/ Open \/ CreateManifest \/ WriteManifestHeader \/ SyncManifestHeader
           \/ LoadManifest \/ RefuseManifest
    PROVE  WalInv'
  <2> USE <1>Open
  <2> USE DEF Goto, files, memory
  <2>1. CASE \/ Open \/ WriteManifestHeader \/ SyncManifestHeader \/ LoadManifest
    <3>1. /\ manifest'.log = manifest.log /\ wal' = wal
          /\ pc' \in {"open_manifest", "manifest_header_sync", "open_wal"}
      BY Zenon, <2>1 DEF Open, WriteManifestHeader, SyncManifestHeader, LoadManifest, Typed, TypeOK
    <3> QED BY Zenon, <3>1 DEF WalInv, Serving, Starting, Committing, Recoverable
  <2>2. CASE CreateManifest
    <3>1. manifest'.log = <<EmptyVersion>> /\ pc' = "manifest_header"
      BY Zenon, <2>2 DEF CreateManifest
    <3>2. Recoverable' = {EmptyVersion} /\ Latest(manifest'.log) = EmptyVersion
      BY Zenon, <3>1, RangeOfSingle DEF Recoverable
    <3>3. EmptyVersion.wal_id <= EmptyVersion.wal_id
      BY DEF EmptyVersion
    <3> QED BY Zenon, <3>1, <3>2, <3>3 DEF WalInv, Serving, Starting, Committing
  <2>3. CASE RefuseManifest
    BY Zenon, <2>3, <1>Down DEF RefuseManifest, OpenFails
  <2> QED BY Zenon, <2>1, <2>2, <2>3
  \* The WAL of a new database gets its header, the WAL of a recovery is another
  \* one than any version names.
<1>OpenWal.
    ASSUME Typed, TableInv, FlowInv, WalInv,
           \/ CreateWal \/ WriteWalHeader \/ SyncWalHeader \/ RecoverWal
           \/ RefuseWal \/ SyncReplacement \/ SyncReplacementFails
    PROVE  WalInv'
  <2> USE <1>OpenWal
  <2> USE DEF Goto, files, memory
  <2>a. catalog.wal_id \in WalId /\ wal \in [WalId -> WalFile]
    BY Zenon, NamedWalIds DEF Typed, TypeOK
  <2>b. pc = "open_wal" => catalog = Latest(manifest.log)
    BY Zenon DEF TableInv
  <2>c. ASSUME pc \in {"open_wal", "wal_header", "wal_header_sync"},
               wal[catalog.wal_id].hdr # "ok"
        PROVE  Recoverable = {EmptyVersion} /\ catalog = EmptyVersion
    BY Zenon, <2>c, NewDatabase
  <2>1. CASE CreateWal
    <3>1. /\ pc = "open_wal" /\ pc' = "wal_header" /\ UNCHANGED <<manifest, catalog>>
          /\ wal[catalog.wal_id].hdr # "ok" /\ wal'[catalog.wal_id].hdr # "ok"
      BY Zenon, <2>1, <2>a DEF CreateWal, NoFile
    <3> QED BY Zenon, <2>c, <3>1 DEF WalInv, Serving, Starting, Committing, Recoverable
  <2>2. CASE WriteWalHeader
    <3>1. /\ pc = "wal_header" /\ pc' = "wal_header_sync" /\ UNCHANGED <<manifest, catalog>>
          /\ wal_id = catalog.wal_id /\ wal[catalog.wal_id].hdr # "ok"
      BY Zenon, <2>2 DEF WriteWalHeader, FlowInv, WalInv
    <3>2. wal'[catalog.wal_id].hdr # "ok"
      BY Zenon, <2>2, <2>a, <3>1 DEF WriteWalHeader, WalFile
    <3> QED BY Zenon, <2>c, <3>1, <3>2 DEF WalInv, Serving, Starting, Committing, Recoverable
  <2>3. CASE SyncWalHeader
    <3>1. /\ pc = "wal_header_sync" /\ pc' = "idle" /\ UNCHANGED <<manifest, catalog>>
          /\ wal_id = catalog.wal_id /\ wal[catalog.wal_id].hdr # "ok"
      BY Zenon, <2>3 DEF SyncWalHeader, FlowInv, WalInv
    <3>2. wal'[catalog.wal_id].hdr = "ok"
      BY Zenon, <2>3, <2>a, <3>1 DEF SyncWalHeader, WalFile, Synced
    <3>3. Recoverable = {EmptyVersion} /\ catalog = EmptyVersion
      BY Zenon, <2>c, <3>1
    <3> QED BY Zenon, <3>1, <3>2, <3>3 DEF WalInv, Serving, Starting, Committing, Recoverable
  <2>4. CASE RecoverWal
    <3> DEFINE recs == Loaded(wal[catalog.wal_id].recs)
    <3>1. PICK next \in SeqNum : Replay(recs, next)
      BY Zenon, <2>4 DEF RecoverWal
    <3> HIDE DEF recs
    <3>2. /\ pc = "open_wal" /\ pc' = "replacement_sync" /\ UNCHANGED <<manifest, catalog>>
          /\ catalog.wal_id < MaxWalId
          /\ wal' = [wal EXCEPT ![catalog.wal_id + 1] = [NewWal EXCEPT !.recs = recs]]
          /\ job' = [NoJob EXCEPT !.call = "open", !.kind = "open",
                              !.repl = catalog.wal_id + 1,
                              !.staged = [catalog EXCEPT !.wal_id = @ + 1,
                                                         !.next_seq = next]]
      BY Zenon, <3>1 DEF Replay
    <3>3. job'.staged.wal_id = catalog.wal_id + 1
      BY Zenon, <3>2 DEF NoJob, Typed, TypeOK, Version
    <3>4. catalog.wal_id + 1 \in WalId /\ \A i \in WalId : i <= catalog.wal_id => i # catalog.wal_id + 1
      BY <2>a, <3>2, LsmAssumption DEF WalId
    <3>5. wal'[catalog.wal_id + 1].hdr = "ok"
      BY Zenon, <2>a, <3>2, <3>4 DEF NewWal
    <3>6. \A v \in Recoverable : wal'[v.wal_id] = wal[v.wal_id]
      BY Zenon, <2>a, <2>b, <3>2, <3>4, NamedWalIds DEF WalInv
    <3> QED BY Zenon, <3>2, <3>3, <3>5, <3>6 DEF WalInv, Serving, Starting, Committing, Recoverable
  <2>5. CASE RefuseWal \/ SyncReplacementFails
    BY Zenon, <2>5, <1>Down DEF RefuseWal, SyncReplacementFails, OpenFails
  <2>6. CASE SyncReplacement
    <3>1. /\ pc = "replacement_sync" /\ pc' = "append" /\ UNCHANGED <<manifest, catalog, job>>
          /\ wal' = [wal EXCEPT ![job.repl] = Synced(@)] /\ job.kind = "open"
      BY Zenon, <2>6 DEF SyncReplacement, Typed, Pending
    <3>2. \A i \in WalId : wal'[i].hdr = wal[i].hdr \/ wal'[i].hdr = "ok"
      BY Zenon, <2>a, <3>1 DEF WalFile, Synced
    <3> QED BY Zenon, <3>1, <3>2, NamedWalIds DEF WalInv, Serving, Starting, Committing, Recoverable
  <2> QED BY Zenon, <2>1, <2>2, <2>3, <2>4, <2>5, <2>6
  \* Appending to the WAL and syncing it keep its header.
<1>Put.
    ASSUME Typed, FlowInv, WalInv,
           \/ \E k \in Key, del \in BOOLEAN : PutWrite(k, del) \/ PutWriteFails(k, del)
           \/ PutSync \/ PutSyncFails \/ PutApply
    PROVE  WalInv'
  <2> USE <1>Put
  <2> USE DEF Goto, files, memory
  <2>a. catalog.wal_id \in WalId /\ wal \in [WalId -> WalFile]
    BY Zenon, NamedWalIds DEF Typed, TypeOK
  <2>b. pc \in {"idle", "put_sync", "put_apply"} => Serving /\ wal[catalog.wal_id].hdr = "ok"
    BY Zenon DEF WalInv, Serving, Starting
  <2>1. ASSUME NEW k \in Key, NEW del \in BOOLEAN, PutWrite(k, del) PROVE WalInv'
    <3>1. /\ pc = "idle" /\ pc' \in {"put_sync", "put_apply"} /\ UNCHANGED <<manifest, catalog>>
          /\ \E s : wal' = [wal EXCEPT ![writer].recs = s]
      BY Zenon, <2>1 DEF PutWrite
    <3>2. wal'[catalog.wal_id].hdr = "ok"
      BY <2>a, <2>b, <3>1 DEF WalFile
    <3> QED BY Zenon, <2>b, <3>1, <3>2, <1>Serves DEF Starting
  <2>2. ASSUME NEW k \in Key, NEW del \in BOOLEAN, PutWriteFails(k, del) PROVE WalInv'
    <3>1. /\ pc = "idle" /\ pc' = pc /\ UNCHANGED <<manifest, catalog>>
          /\ \E s : wal' = [wal EXCEPT ![writer].recs = s]
      BY Zenon, <2>2 DEF PutWriteFails
    <3>2. wal'[catalog.wal_id].hdr = "ok"
      BY <2>a, <2>b, <3>1 DEF WalFile
    <3> QED BY Zenon, <2>b, <3>1, <3>2, <1>Serves DEF Starting
  <2>3. CASE PutSync
    <3>1. /\ pc = "put_sync" /\ pc' = "put_apply" /\ UNCHANGED <<manifest, catalog>>
          /\ wal' = [wal EXCEPT ![writer] = Synced(@)]
      BY Zenon, <2>3 DEF PutSync
    <3>2. wal'[catalog.wal_id].hdr = "ok"
      BY Zenon, <2>a, <2>b, <3>1 DEF WalFile, Synced
    <3> QED BY Zenon, <2>b, <3>1, <3>2, <1>Serves DEF Starting
  <2>4. CASE PutSyncFails
    BY Zenon, <2>4, <2>b, <1>Serves DEF PutSyncFails, ReturnError, Starting
  <2>5. CASE PutApply
    <3>1. pc = "put_apply" /\ pc' \in {"idle", "freeze"} /\ UNCHANGED <<manifest, wal, catalog>>
      BY Zenon, <2>5 DEF PutApply, ReturnOk
    <3> QED BY Zenon, <3>1, <2>b, <1>Serves DEF Starting
  <2> QED BY Zenon, <2>1, <2>2, <2>3, <2>4, <2>5
  \* A flush creates the replacement under an id no version names.
<1>Flush.
    ASSUME Typed, FlowInv, WalInv,
           \/ Flush \/ Freeze \/ Drained \/ FlushTable \/ FlushTableFails
           \/ FlushEdit \/ FlushEditFails
    PROVE  WalInv'
  <2> USE <1>Flush
  <2> USE DEF Goto, files, memory
  <2>a. /\ catalog.wal_id \in WalId /\ wal \in [WalId -> WalFile]
        /\ wal_id \in WalId /\ wal_id \in Nat
    BY NamedWalIds DEF Typed, TypeOK, WalId
  <2>b. pc \in {"idle", "freeze", "drain", "flush_edit"} =>
           Serving /\ wal[catalog.wal_id].hdr = "ok"
    BY Zenon DEF WalInv, Serving, Starting
  <2>c. pc = "flush_edit" => wal_id = catalog.wal_id
    BY Zenon DEF FlowInv, Switched, Starting, Typed, Pending
  <2>1. CASE Flush \/ Freeze \/ Drained \/ FlushTable \/ FlushTableFails
    <3>1. /\ pc \in {"idle", "freeze", "drain"} /\ UNCHANGED <<manifest, wal, catalog>>
          /\ pc' \in {"idle", "freeze", "drain", "maybe_compact", "flush_edit"}
      BY Zenon, <2>1 DEF Flush, Freeze, Drained, FlushTable, FlushTableFails, ReturnError
    <3> QED BY Zenon, <2>b, <3>1, <1>Serves DEF Starting
  <2>2. CASE FlushEdit
    <3>1. /\ pc = "flush_edit" /\ pc' = "append" /\ UNCHANGED <<manifest, catalog>>
          /\ (wal_id < MaxWalId /\ FlushRotates) \/ FlushKeepsWal
      BY Zenon, <2>2 DEF FlushEdit
    <3>2. CASE wal_id < MaxWalId /\ FlushRotates
      <4>1. /\ wal' = [wal EXCEPT ![wal_id + 1] = NewWal]
            /\ wal_id + 1 \in WalId /\ wal_id + 1 # catalog.wal_id
        BY <2>a, <2>c, <3>1, <3>2, LsmAssumption DEF FlushRotates, WalId
      <4>2. wal'[wal_id + 1].hdr = "ok" /\ wal'[catalog.wal_id] = wal[catalog.wal_id]
        BY Zenon, <2>a, <4>1 DEF NewWal
      <4>3. job'.kind = "flush" /\ job'.staged.wal_id = wal_id + 1
        BY Zenon, <3>2 DEF FlushRotates, FlushedVersion, Typed, TypeOK, Job, Version
      <4> QED BY Zenon, <2>b, <3>1, <4>2, <4>3, <1>Serves DEF Starting
    <3>3. CASE FlushKeepsWal
      <4>1. job'.kind = "flush" /\ job'.staged = FlushedVersion /\ wal' = wal
        BY Zenon, <3>3 DEF FlushKeepsWal, Typed, TypeOK, Job
      <4>2. job'.staged.wal_id = catalog.wal_id
        BY Zenon, <4>1 DEF FlushedVersion, Typed, TypeOK, Version
      <4> QED BY Zenon, <2>b, <3>1, <4>1, <4>2, <1>Serves DEF Starting
    <3> QED BY Zenon, <3>1, <3>2, <3>3
  <2>3. CASE FlushEditFails
    <3>1. /\ pc = "flush_edit" /\ pc' = "idle" /\ UNCHANGED <<manifest, catalog>>
          /\ wal' = wal \/ \E f : wal' = [wal EXCEPT ![wal_id + 1] = f]
      BY Zenon, <2>3 DEF FlushEditFails, ReturnError
    <3>2. wal'[catalog.wal_id].hdr = "ok"
      BY <2>a, <2>b, <2>c, <3>1
    <3> QED BY Zenon, <2>b, <3>1, <3>2, <1>Serves DEF Starting
  <2> QED BY Zenon, <2>1, <2>2, <2>3
  \* A failed commit removes only the replacement.
<1>CommitFails.
    ASSUME Typed, TableInv, FlowInv, WalInv, CommitFails, pc = "append", UNCHANGED manifest
    PROVE  WalInv'
  <2> USE <1>CommitFails
  <2>a. /\ catalog.wal_id \in WalId /\ wal \in [WalId -> WalFile]
        /\ wal_id \in WalId /\ wal_id \in Nat
    BY NamedWalIds DEF Typed, TypeOK, WalId
  <2>1. CASE job.kind = "open" /\ OpenFails /\ UNCHANGED wal
    BY Zenon, <2>1, <1>Down DEF OpenFails
  <2>2. CASE job.kind # "open" /\ ReturnError /\ UNCHANGED <<catalog, wal>>
    <3>1. Serving /\ wal[catalog.wal_id].hdr = "ok" /\ pc' = "idle"
      BY Zenon, <2>2 DEF WalInv, Serving, ReturnError
    <3> QED BY Zenon, <2>2, <3>1, <1>Serves DEF Starting
  <2>3. CASE /\ job.kind = "flush" /\ ReturnError /\ UNCHANGED catalog
             /\ job.repl # 0 /\ wal' = [wal EXCEPT ![job.repl] = NoFile]
    <3>1. Serving /\ wal[catalog.wal_id].hdr = "ok" /\ pc' = "idle"
      BY Zenon, <2>3 DEF WalInv, Serving, ReturnError
    <3>2. job.repl = wal_id + 1 /\ wal_id = catalog.wal_id
      BY Zenon, <2>3 DEF FlowInv, Committing
    <3>3. wal'[catalog.wal_id] = wal[catalog.wal_id]
      BY <2>3, <2>a, <3>2
    <3> QED BY Zenon, <2>3, <3>1, <3>3, <1>Serves DEF Starting
  <2> QED BY Zenon, <2>1, <2>2, <2>3 DEF CommitFails
  \* The version a commit appends names a WAL that exists.
<1>Commit.
    ASSUME Typed, TableInv, FlowInv, WalInv, ~Fails("manifest_sync"),
           \/ AppendEdit \/ RefuseEdit \/ AppendEditFails \/ SyncEdit \/ SyncEditFails
    PROVE  WalInv'
  <2> USE <1>Commit
  <2> USE DEF Goto, files, memory
  <2>a. manifest.log \in Seq(Version) /\ job.staged \in Version
    BY Zenon DEF Typed, TypeOK, Job
  <2>1. CASE AppendEdit
    <3>1. /\ pc = "append" /\ pc' = "sync" /\ UNCHANGED <<wal, job, catalog>>
          /\ manifest'.log = Append(manifest.log, job.staged)
          /\ job.staged.wal_id >= catalog.wal_id
      BY Zenon, <2>1 DEF AppendEdit, stage_apply, Typed, TypeOK
    <3>2. Recoverable' = Recoverable \cup {job.staged} /\ Latest(manifest'.log) = job.staged
      BY <2>a, <3>1, RangeOfAppend DEF Recoverable
    <3>3. wal[job.staged.wal_id].hdr = "ok" /\ catalog = Latest(manifest.log)
      BY Zenon, <3>1 DEF WalInv, Committing, TableInv
    <3>4. \A v \in Recoverable' : v.wal_id <= job.staged.wal_id
      <4>1. catalog.wal_id \in Nat /\ job.staged.wal_id \in Nat
        BY NamedWalIds DEF WalId
      <4>2. ASSUME NEW v \in Recoverable PROVE v.wal_id <= job.staged.wal_id
        <5>1. v.wal_id \in Nat /\ v.wal_id <= catalog.wal_id
          BY <3>3, NamedWalIds DEF WalInv, WalId
        <5> QED BY <3>1, <4>1, <5>1
      <4> QED BY <3>2, <4>1, <4>2
    <3>5. \A v \in Recoverable' : wal'[v.wal_id].hdr # "ok" => v = EmptyVersion
      BY Zenon, <3>1, <3>2, <3>3 DEF WalInv
    <3>6. job.kind # "open" => wal[catalog.wal_id].hdr = "ok"
      BY Zenon, <3>1 DEF WalInv, Serving
    <3> QED BY Zenon, <3>1, <3>2, <3>3, <3>4, <3>5, <3>6 DEF WalInv, Serving, Starting, Committing
  <2>2. CASE RefuseEdit \/ AppendEditFails
    BY Zenon, <2>2, <1>CommitFails DEF RefuseEdit, AppendEditFails
  <2>3. CASE SyncEdit
    <3>1. /\ pc = "sync" /\ pc' = "committed" /\ UNCHANGED <<wal, job>>
          /\ manifest'.log = <<job.staged>> /\ catalog' = job.staged
      BY Zenon, <2>3 DEF SyncEdit, SyncedManifest, TableInv
    <3>2. Recoverable' = {job.staged} /\ Latest(manifest'.log) = job.staged
      BY Zenon, <3>1, RangeOfSingle DEF Recoverable
    <3>3. wal[job.staged.wal_id].hdr = "ok"
      BY Zenon, <3>1 DEF WalInv, Committing
    <3>4. job.staged.wal_id <= job.staged.wal_id
      BY Zenon, NamedWalIds, <1>IdsAreNumbers
    <3> QED BY Zenon, <3>1, <3>2, <3>3, <3>4 DEF WalInv, Serving, Starting, Committing
  <2>4. CASE SyncEditFails
    BY Zenon, <2>4 DEF SyncEditFails
  <2> QED BY Zenon, <2>1, <2>2, <2>3, <2>4
  \* After the commit only the new version is left, and it names the WAL that is
  \* switched to, not the one that is removed.
<1>Committed.
    ASSUME Typed, FlowInv, WalInv,
           \/ OpenCommitted \/ FlushCommitted \/ FlushCommittedFails
           \/ RemoveWal \/ RemoveWalFails
    PROVE  WalInv'
  <2> USE <1>Committed
  <2> USE DEF Goto, files, memory
  <2>a. catalog.wal_id \in WalId /\ wal \in [WalId -> WalFile] /\ catalog.wal_id \in Nat
    BY NamedWalIds DEF Typed, TypeOK, WalId
  <2>b. pc \in {"committed", "remove_wal"} => Serving /\ wal[catalog.wal_id].hdr = "ok"
    BY Zenon DEF WalInv, Serving, Starting
  <2>1. CASE OpenCommitted
    BY Zenon, <2>1, <2>b, <1>Serves DEF OpenCommitted, Starting
  <2>2. CASE FlushCommitted
    <3>1. /\ pc = "committed" /\ pc' \in {"drain", "remove_wal"} /\ UNCHANGED <<manifest, catalog>>
          /\ wal' = wal \/ wal' = [wal EXCEPT ![writer] = Synced(@)]
      BY Zenon, <2>2 DEF FlushCommitted
    <3>2. wal'[catalog.wal_id].hdr = "ok"
      BY Zenon, <2>a, <2>b, <3>1 DEF WalFile, Synced
    <3> QED BY Zenon, <2>b, <3>1, <3>2, <1>Serves DEF Starting
  <2>3. CASE FlushCommittedFails
    BY Zenon, <2>3, <2>b, <1>Serves DEF FlushCommittedFails, ReturnError, Starting
  <2>4. CASE RemoveWal
    <3>1. /\ pc = "remove_wal" /\ pc' \in {"idle", "drain"} /\ UNCHANGED <<manifest, catalog>>
          /\ wal' = [wal EXCEPT ![wal_id - 1] = NoFile] /\ wal_id = catalog.wal_id
      BY Zenon, <2>4 DEF RemoveWal, FlowInv
    <3>2. wal'[catalog.wal_id] = wal[catalog.wal_id]
      BY <2>a, <3>1
    <3> QED BY Zenon, <2>b, <3>1, <3>2, <1>Serves DEF Starting
  <2>5. CASE RemoveWalFails
    <3>1. CASE OpenFails
      BY Zenon, <2>5, <3>1, <1>Down DEF RemoveWalFails, OpenFails
    <3>2. CASE ReturnError /\ UNCHANGED memory
      BY Zenon, <2>5, <2>b, <3>2, <1>Serves DEF RemoveWalFails, ReturnError, Starting
    <3> QED BY Zenon, <2>5, <3>1, <3>2 DEF RemoveWalFails
  <2> QED BY Zenon, <2>1, <2>2, <2>3, <2>4, <2>5
  \* A compaction touches no WAL.
<1>Compaction.
    ASSUME Typed, WalInv,
           \/ FlushDone \/ BackgroundCompact \/ BackgroundCompactFails
           \/ ManualSkip \/ ManualCompact \/ ManualCompactFails \/ ManualDone
           \/ CompactCommitted \/ (\E i \in job.obsolete : RemoveSst(i))
           \/ RemoveSstFails \/ CompactDone
           \/ (\E range \in Ranges : CompactRange(range[1], range[2]))
    PROVE  WalInv'
  <2> USE <1>Compaction
  <2> USE DEF Goto, files, memory
  <2>b. pc \in {"idle", "maybe_compact", "manual", "committed", "remove_sst"} =>
           Serving /\ wal[catalog.wal_id].hdr = "ok"
    BY Zenon DEF WalInv, Serving, Starting
  <2>1. ASSUME NEW plan, NEW kind \in {"background", "manual"}, RunJob(plan, kind),
               pc \in {"maybe_compact", "manual"}
        PROVE  WalInv'
    <3>1. pc' = "append" /\ UNCHANGED <<manifest, wal, catalog>> /\ JobStages(plan, kind)
      BY Zenon, <2>1 DEF RunJob
    <3>2. job'.kind = kind /\ job'.staged.wal_id = catalog.wal_id
      BY Zenon, <3>1 DEF JobStages, Typed, TypeOK, Job, Version
    <3> QED BY Zenon, <2>1, <2>b, <3>1, <3>2, <1>Serves DEF Starting
  <2>2. CASE FlushDone
    <3>1. pc = "maybe_compact" /\ pc' \in {"idle", "manual"} /\ UNCHANGED <<manifest, wal, catalog>>
      BY Zenon, <2>2 DEF FlushDone, ReturnOk, ReturnError
    <3> QED BY Zenon, <2>b, <3>1, <1>Serves DEF Starting
  <2>3. CASE BackgroundCompact \/ ManualCompact
    BY Zenon, <2>1, <2>3 DEF BackgroundCompact, ManualCompact
  <2>4. CASE BackgroundCompactFails \/ ManualCompactFails
    <3>1. /\ pc \in {"maybe_compact", "manual"} /\ pc' = "idle"
          /\ UNCHANGED <<manifest, wal, catalog>>
      BY Zenon, <2>4 DEF BackgroundCompactFails, ManualCompactFails, JobFails, ReturnError
    <3> QED BY Zenon, <2>b, <3>1, <1>Serves DEF Starting
  <2>5. CASE ManualSkip \/ ManualDone \/ CompactCommitted \/ RemoveSstFails \/ CompactDone
    <3>1. /\ pc \in {"manual", "committed", "remove_sst"}
          /\ pc' \in {"idle", "manual", "remove_sst", "maybe_compact"}
          /\ UNCHANGED <<manifest, wal, catalog>>
      BY Zenon, <2>5 DEF ManualSkip, ManualDone, CompactCommitted, RemoveSstFails, CompactDone,
                  ReturnOk, ReturnError
    <3> QED BY Zenon, <2>b, <3>1, <1>Serves DEF Starting
  <2>6. CASE \E i \in job.obsolete : RemoveSst(i)
    BY Zenon, <2>6, <2>b, <1>Serves DEF RemoveSst, Starting
  <2>7. ASSUME NEW range \in Ranges, CompactRange(range[1], range[2]) PROVE WalInv'
    BY Zenon, <2>7, <2>b, <1>Serves DEF CompactRange, Starting
  <2> QED BY Zenon, <2>2, <2>3, <2>4, <2>5, <2>6, <2>7
  \* Engine::close syncs the WAL and the MANIFEST.
<1>Close.
    ASSUME Typed, TableInv, WalInv, Close \/ CloseManifest \/ CloseManifestFails \/ CloseWalFails
    PROVE  WalInv'
  <2> USE <1>Close
  <2> USE DEF Goto, files, memory
  <2>a. catalog.wal_id \in WalId /\ wal \in [WalId -> WalFile]
    BY Zenon, NamedWalIds DEF Typed, TypeOK
  <2>b. pc \in {"idle", "close_manifest"} =>
          /\ Serving /\ wal[catalog.wal_id].hdr = "ok"
          /\ Recoverable = {catalog} /\ catalog = Latest(manifest.log)
    BY Zenon DEF WalInv, Serving, Starting, TableInv
  <2>1. CASE Close
    <3>1. /\ pc = "idle" /\ pc' = "close_manifest" /\ UNCHANGED <<manifest, catalog>>
          /\ wal' = [wal EXCEPT ![writer] = Synced(@)]
      BY Zenon, <2>1 DEF Close
    <3>2. wal'[catalog.wal_id].hdr = "ok"
      BY Zenon, <2>a, <2>b, <3>1 DEF WalFile, Synced
    <3> QED BY Zenon, <2>b, <3>1, <3>2, <1>Serves DEF Starting
  <2>2. CASE CloseManifestFails
    BY Zenon, <2>2, <2>b, <1>Serves DEF CloseManifestFails, ReturnError, Starting
  <2>3. CASE CloseManifest \/ CloseWalFails
    <3>1. /\ pc = "close_manifest" /\ manifest' = SyncedManifest /\ wal' = wal
          /\ pc' = "down" \/ (pc' = "idle" /\ catalog' = catalog)
      BY Zenon, <2>3 DEF CloseManifest, CloseWalFails, ReturnError
    <3>2. Recoverable' = {catalog} /\ Latest(manifest'.log) = catalog
      BY Zenon, <2>b, <3>1, RangeOfSingle DEF SyncedManifest, Recoverable
    <3>3. catalog.wal_id <= catalog.wal_id
      BY Zenon, <2>a, <1>IdsAreNumbers
    <3> QED BY Zenon, <2>b, <3>1, <3>2, <3>3 DEF WalInv, Serving, Starting, Committing
  <2> QED BY Zenon, <2>1, <2>2, <2>3
  \* A power loss leaves one version and, of its WAL, a synced header.
<1>Crash.
    ASSUME Typed, WalInv, Kill \/ PowerLoss
    PROVE  WalInv'
  <2> USE <1>Crash
  <2>1. CASE Kill
    BY Zenon, <2>1, <1>Down DEF Kill, files
  <2>2. CASE PowerLoss
    <3>1. PICK mh \in Survives(manifest.hdr), v \in Recoverable :
             LET survivor == IF mh = "ok" THEN v ELSE EmptyVersion
                 f        == wal[survivor.wal_id]
             IN  /\ manifest' = [hdr |-> mh, log |-> <<survivor>>]
                 /\ \E wh \in Survives(f.hdr), n \in f.synced .. Len(f.recs) :
                       wal' = [wal EXCEPT ![survivor.wal_id] =
                          IF wh = "ok"
                          THEN [hdr |-> "ok", recs |-> SubSeq(f.recs, 1, n), synced |-> n]
                          ELSE [NoFile EXCEPT !.hdr = wh]]
      BY Zenon, <2>2 DEF PowerLoss, Recoverable
    <3> DEFINE survivor == IF mh = "ok" THEN v ELSE EmptyVersion
               f        == wal[survivor.wal_id]
    <3>2. survivor \in Version /\ (survivor = v \/ survivor = EmptyVersion)
      BY Zenon, NamedWalIds, EmptyVersionType
    <3>3. /\ manifest' = [hdr |-> mh, log |-> <<survivor>>]
          /\ \E wh \in Survives(f.hdr), n \in f.synced .. Len(f.recs) :
                wal' = [wal EXCEPT ![survivor.wal_id] =
                   IF wh = "ok"
                   THEN [hdr |-> "ok", recs |-> SubSeq(f.recs, 1, n), synced |-> n]
                   ELSE [NoFile EXCEPT !.hdr = wh]]
      BY Zenon, <3>1
    <3> HIDE DEF survivor
    <3>4. wal \in [WalId -> WalFile] /\ survivor.wal_id \in WalId
      BY Zenon, <3>2 DEF Typed, TypeOK, Version
    <3>5. f.hdr = "ok" => wal'[survivor.wal_id].hdr = "ok"
      BY <3>3, <3>4 DEF Survives
    <3>6. f.hdr # "ok" => survivor = EmptyVersion
      BY Zenon, <3>2 DEF WalInv
    <3>7. Recoverable' = {survivor} /\ Latest(manifest'.log) = survivor
      BY Zenon, <3>3, RangeOfSingle DEF Recoverable
    <3>8. survivor.wal_id <= survivor.wal_id
      BY Zenon, <3>4, <1>IdsAreNumbers
    <3>9. pc' = "down"
      BY Zenon, <2>2 DEF PowerLoss
    <3> QED BY Zenon, <3>5, <3>6, <3>7, <3>8, <3>9 DEF WalInv, Serving, Starting, Committing
  <2> QED BY Zenon, <2>1, <2>2
<1>1. WalInv /\ UNCHANGED vars => WalInv'
  BY Zenon DEF WalInv, Serving, Committing, Recoverable, vars, files, memory
<1> QED BY Zenon, <1>1, <1>Open, <1>OpenWal, <1>Put, <1>Flush, <1>Commit, <1>Committed,
           <1>Compaction, <1>Close, <1>Crash
    DEF Next, EngineStep, ClientStep

-----------------------------------------------------------------------------
(* The header of the MANIFEST. *)

\* The MANIFEST's header is synced before its first edit.
HeaderInv ==
    /\ manifest.hdr # "ok" => EmptyVersion \in Recoverable
    /\ manifest.hdr \in {"none", "torn"} => manifest.log = <<EmptyVersion>>
    /\ pc = "manifest_header" => manifest.hdr = "torn"
    /\ pc \notin {"down", "open_manifest", "manifest_header"} => manifest.hdr \in {"new", "ok"}

\* The MANIFEST of a new database replays to the empty version.
LEMMA HeaderInit == Init => HeaderInv
  BY RangeOfSingle DEF Init, HeaderInv, Recoverable

\* HeaderInv is preserved by every step.
LEMMA HeaderStep == Typed /\ HeaderInv /\ [Next]_vars => HeaderInv'
<1> SUFFICES ASSUME Typed, HeaderInv, [Next]_vars PROVE HeaderInv'
  BY Zenon
<1> USE DEF Goto, files, memory
<1>a. manifest.log \in Seq(Version) /\ manifest.hdr \in Header /\ job.staged \in Version
  BY Zenon DEF Typed, TypeOK, Job
<1>b. manifest.log = <<EmptyVersion>> => EmptyVersion \in Recoverable
  BY Zenon, RangeOfSingle DEF Recoverable
<1>1. ASSUME UNCHANGED manifest,
             pc' = "down" \/ (pc = "down" /\ pc' = "open_manifest")
             \/ (manifest.hdr \in {"new", "ok"} /\ pc' # "manifest_header")
      PROVE  HeaderInv'
  BY Zenon, <1>1 DEF HeaderInv, Recoverable
<1>2. CASE CreateManifest
  <2>1. manifest'.hdr = "torn" /\ manifest'.log = <<EmptyVersion>> /\ pc' = "manifest_header"
    BY Zenon, <1>2 DEF CreateManifest
  <2>2. EmptyVersion \in Recoverable'
    BY Zenon, <2>1, RangeOfSingle DEF Recoverable
  <2> QED BY Zenon, <2>1, <2>2 DEF HeaderInv
<1>3. CASE WriteManifestHeader
  <2>1. /\ pc = "manifest_header" /\ manifest'.hdr = "new" /\ manifest'.log = manifest.log
        /\ pc' = "manifest_header_sync"
    BY Zenon, <1>3 DEF WriteManifestHeader, Typed, TypeOK
  <2> QED BY Zenon, <1>b, <2>1 DEF HeaderInv, Recoverable
<1>4. CASE SyncManifestHeader
  <2>1. manifest'.hdr = "ok" /\ pc' = "open_wal"
    BY Zenon, <1>4 DEF SyncManifestHeader, Typed, TypeOK
  <2> QED BY Zenon, <2>1 DEF HeaderInv
<1>5. CASE AppendEdit
  <2>1. /\ pc = "append" /\ pc' = "sync" /\ manifest'.hdr = manifest.hdr
        /\ manifest'.log = Append(manifest.log, job.staged)
    BY Zenon, <1>5 DEF AppendEdit, Typed, TypeOK
  <2>2. Recoverable' = Recoverable \cup {job.staged}
    BY <1>a, <2>1, RangeOfAppend DEF Recoverable
  <2> QED BY Zenon, <2>1, <2>2 DEF HeaderInv
<1>6. CASE SyncEdit \/ CloseManifest \/ CloseWalFails
  <2>1. manifest'.hdr = "ok" /\ pc' \in {"committed", "down", "idle"}
    BY <1>6 DEF SyncEdit, CloseManifest, CloseWalFails, ReturnError, SyncedManifest
  <2> QED BY Zenon, <2>1 DEF HeaderInv
<1>7. CASE PowerLoss
  <2>1. PICK mh \in Survives(manifest.hdr), v \in Recoverable :
           manifest' = [hdr |-> mh, log |-> <<IF mh = "ok" THEN v ELSE EmptyVersion>>]
    BY Zenon, <1>7 DEF PowerLoss, Recoverable
  <2>2. manifest'.hdr = mh /\ (mh # "ok" => manifest'.log = <<EmptyVersion>>)
    BY Zenon, <2>1
  <2>3. mh # "ok" => EmptyVersion \in Recoverable'
    BY Zenon, <2>2, RangeOfSingle DEF Recoverable
  <2>4. pc' = "down"
    BY Zenon, <1>7 DEF PowerLoss
  <2> QED BY Zenon, <2>2, <2>3, <2>4 DEF HeaderInv
<1>8. CASE Open \/ Kill \/ RefuseManifest \/ RefuseWal \/ SyncReplacementFails
  BY Zenon, <1>1, <1>8 DEF Open, Kill, RefuseManifest, RefuseWal, SyncReplacementFails, OpenFails
<1>9. CASE LoadManifest
  BY Zenon, <1>1, <1>9 DEF LoadManifest
<1>10. ASSUME CommitFails, UNCHANGED manifest, pc \in {"append", "sync"}
       PROVE  HeaderInv'
  <2>1. pc' \in {"down", "idle"} /\ manifest.hdr \in {"new", "ok"}
    BY Zenon, <1>10 DEF CommitFails, OpenFails, ReturnError, HeaderInv
  <2> QED BY Zenon, <1>1, <1>10, <2>1
<1>11. CASE RefuseEdit \/ AppendEditFails \/ SyncEditFails
  BY Zenon, <1>10, <1>11 DEF RefuseEdit, AppendEditFails, SyncEditFails
<1>12. ASSUME UNCHANGED manifest, pc' # "manifest_header",
              pc \notin {"down", "open_manifest", "manifest_header"}
       PROVE  HeaderInv'
  BY Zenon, <1>1, <1>12 DEF HeaderInv
<1>13. CASE CreateWal \/ WriteWalHeader \/ SyncWalHeader \/ RecoverWal \/ SyncReplacement
  BY Zenon, <1>12, <1>13 DEF CreateWal, WriteWalHeader, SyncWalHeader, RecoverWal, Replay,
                      SyncReplacement
<1>14. CASE \E k \in Key, del \in BOOLEAN : PutWrite(k, del) \/ PutWriteFails(k, del)
  BY Zenon, <1>12, <1>14 DEF PutWrite, PutWriteFails
<1>15. CASE PutSync \/ PutSyncFails \/ PutApply
  BY Zenon, <1>12, <1>15 DEF PutSync, PutSyncFails, PutApply, ReturnError, ReturnOk
<1>16. CASE Flush \/ Freeze \/ Drained \/ FlushTable \/ FlushTableFails \/ FlushEdit
            \/ FlushEditFails
  <2>1. /\ pc \in {"idle", "freeze", "drain", "flush_edit"} /\ UNCHANGED manifest
        /\ pc' # "manifest_header"
    BY Zenon, <1>16 DEF Flush, Freeze, Drained, FlushTable, FlushTableFails, FlushEdit,
                 FlushEditFails, ReturnError
  <2> QED BY Zenon, <1>12, <2>1
<1>17. CASE OpenCommitted \/ FlushCommitted \/ FlushCommittedFails \/ RemoveWal
            \/ RemoveWalFails
  <2>1. /\ pc \in {"committed", "remove_wal"} /\ UNCHANGED manifest
        /\ pc' # "manifest_header"
    BY Zenon, <1>17 DEF OpenCommitted, FlushCommitted, FlushCommittedFails, RemoveWal,
                 RemoveWalFails, ReturnError, OpenFails
  <2> QED BY Zenon, <1>12, <2>1
<1>18. CASE FlushDone \/ ManualSkip \/ ManualDone \/ CompactCommitted \/ RemoveSstFails
            \/ CompactDone
  <2>1. /\ pc \in {"maybe_compact", "manual", "committed", "remove_sst"}
        /\ UNCHANGED manifest /\ pc' # "manifest_header"
    BY Zenon, <1>18 DEF FlushDone, ManualSkip, ManualDone, CompactCommitted, RemoveSstFails,
                 CompactDone, ReturnOk, ReturnError
  <2> QED BY Zenon, <1>12, <2>1
<1>19. CASE BackgroundCompact \/ BackgroundCompactFails \/ ManualCompact \/ ManualCompactFails
            \/ \E i \in job.obsolete : RemoveSst(i)
  <2>1. /\ pc \in {"maybe_compact", "manual", "remove_sst"} /\ UNCHANGED manifest
        /\ pc' \in {"append", "idle", "remove_sst"}
    BY Zenon, <1>19 DEF BackgroundCompact, BackgroundCompactFails, ManualCompact,
                 ManualCompactFails, RemoveSst, RunJob, JobFails, ReturnError
  <2> QED BY Zenon, <1>12, <2>1
<1>20. CASE (\E range \in Ranges : CompactRange(range[1], range[2])) \/ Close
            \/ CloseManifestFails
  <2>1. /\ pc \in {"idle", "close_manifest"} /\ UNCHANGED manifest
        /\ pc' \in {"freeze", "close_manifest", "idle"}
    BY Zenon, <1>20 DEF CompactRange, Close, CloseManifestFails, ReturnError
  <2> QED BY Zenon, <1>12, <2>1
<1>21. CASE UNCHANGED vars
  BY Zenon, <1>21 DEF vars, HeaderInv, Recoverable
<1> QED BY Zenon, <1>2, <1>3, <1>4, <1>5, <1>6, <1>7, <1>8, <1>9, <1>11, <1>13, <1>14, <1>15,
           <1>16, <1>17, <1>18, <1>19, <1>20, <1>21 DEF Next, EngineStep, ClientStep
=============================================================================
