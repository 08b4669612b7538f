----------------------------- MODULE EngineProofs -----------------------------
(***************************************************************************)
(* Type correctness of the engine, and the table files: unless a sync of   *)
(* the MANIFEST fails, every version that recovery may find, and the       *)
(* catalog in memory, refer only to table files that exist and hold the    *)
(* records they were published with.                                       *)
(***************************************************************************)
EXTENDS Engine, LevelSpec, TLAPS

\* What type correctness needs of a call in progress: a flush under way has a
\* memtable to retire and, before its edit, a free table id; a recovery has
\* its replacement WAL; a put has a record and a next number; a manual
\* compaction has a level below it.
Pending ==
    /\ pc = "flush_edit" => imm # <<>> /\ catalog.next_table_id <= MaxTableId
    /\ pc \in {"append", "sync", "committed"} /\ job.kind = "flush" => imm # <<>>
    /\ pc \in {"append", "sync", "committed"} /\ job.kind = "open" => job.repl # 0
    /\ pc = "replacement_sync" => job.kind = "open" /\ job.repl # 0
    /\ pc \in {"put_sync", "put_apply"} => job.call = "put" /\ next_sequence < MaxSeq
    /\ job.call = "put" => job.rec \in InternalRecord
    /\ pc \in {"append", "sync", "committed", "remove_sst"} /\ job.kind = "manual" =>
          job.level + 1 < NumLevels
    /\ pc = "remove_sst" => job.kind \in {"background", "manual"}

Typed == TypeOK /\ Pending

-----------------------------------------------------------------------------
(* The values the actions build have their types. *)

\* A sequence has its elements at 1 .. Len, and only the empty one has none.
LEMMA SeqIs ==
    ASSUME NEW S, NEW s \in Seq(S)
    PROVE  /\ Len(s) \in Nat /\ DOMAIN s = 1 .. Len(s)
           /\ \A i \in 1 .. Len(s) : s[i] \in S
           /\ s = <<>> <=> Len(s) = 0
  OBVIOUS

\* What Append, SubSeq, Head and Tail make of a sequence.
LEMMA AppendIs ==
    ASSUME NEW S, NEW s \in Seq(S), NEW e \in S
    PROVE  /\ Append(s, e) \in Seq(S) /\ Append(s, e) # <<>>
           /\ Len(Append(s, e)) = Len(s) + 1
           /\ \A i \in 1 .. Len(s) : Append(s, e)[i] = s[i]
           /\ Append(s, e)[Len(s) + 1] = e
  OBVIOUS

\* A prefix has the first elements of the sequence.
LEMMA PrefixIs ==
    ASSUME NEW S, NEW s, NEW n \in Nat, \A i \in 1 .. n : s[i] \in S
    PROVE  /\ SubSeq(s, 1, n) \in Seq(S) /\ Len(SubSeq(s, 1, n)) = n
           /\ \A i \in 1 .. n : SubSeq(s, 1, n)[i] = s[i]
  OBVIOUS

\* A sequence is its head and its tail.
LEMMA TailIs ==
    ASSUME NEW S, NEW s \in Seq(S), s # <<>>
    PROVE  /\ Head(s) \in S /\ Head(s) = s[1]
           /\ Tail(s) \in Seq(S) /\ Len(Tail(s)) = Len(s) - 1
           /\ \A i \in 1 .. Len(s) - 1 : Tail(s)[i] = s[i + 1]
  OBVIOUS

\* The counters of a version are compared as numbers.
LEMMA VersionNumbers ==
    ASSUME NEW v \in Version
    PROVE  /\ v.next_table_id \in Nat \ {0} /\ v.next_seq \in Nat
           /\ v.wal_id \in WalId /\ v.wal_id \in Nat
<1>1. /\ v.next_table_id \in 1 .. MaxTableId + 1 /\ v.next_seq \in 1 .. MaxSeq
      /\ v.wal_id \in WalId /\ v.wal_id \in 1 .. MaxWalId
  BY Zenon DEF Version, SeqNum, WalId
<1>2. v.next_table_id \in Nat \ {0}
  BY <1>1, LsmAssumption
<1>3. v.next_seq \in Nat
  BY <1>1, LsmAssumption
<1>4. v.wal_id \in Nat
  BY <1>1, LsmAssumption
<1> QED BY Zenon, <1>1, <1>2, <1>3, <1>4

\* So are those of the engine.
LEMMA EngineNumbers ==
    ASSUME Typed
    PROVE  /\ catalog \in Version
           /\ catalog.next_table_id \in Nat \ {0} /\ catalog.next_seq \in Nat
           /\ catalog.wal_id \in WalId /\ catalog.wal_id \in Nat
           /\ next_sequence \in Nat
<1>1. catalog \in Version /\ next_sequence \in 1 .. MaxSeq
  BY Zenon DEF Typed, TypeOK, SeqNum
<1>2. next_sequence \in Nat
  BY <1>1, LsmAssumption
<1> QED BY Zenon, <1>1, <1>2, VersionNumbers

\* The counters of a new Manifest are within their limits.
LEMMA EmptyVersionType == EmptyVersion \in Version
  BY LsmAssumption DEF EmptyVersion, Version, SeqNum, WalId

\* Incomplete bytes are told apart from every record.
LEMMA TornType == Torn \notin InternalRecord
  BY LsmAssumption DEF Torn, InternalRecord, SeqNum

\* The locals of no call are typed.
LEMMA NoJobType == NoJob \in Job
  BY EmptyVersionType, LsmAssumption DEF NoJob, Job, LevelId

\* An absent WAL and a new one are WAL files.
LEMMA NewFileType == NoFile \in WalFile /\ NewWal \in WalFile
  BY DEF NoFile, NewWal, WalFile, Header

\* The last element of a nonempty sequence is one of its elements.
LEMMA LatestType ==
    ASSUME NEW S, NEW s \in Seq(S), s # <<>>
    PROVE  Latest(s) \in S
  BY DEF Latest

\* The elements of a typed sequence are typed.
LEMMA RangeType ==
    ASSUME NEW S, NEW s \in Seq(S)
    PROVE  Range(s) \subseteq S
  BY DEF Range

-----------------------------------------------------------------------------
(* Type correctness: Init and every action preserve Typed. *)

\* The empty database is typed.
LEMMA TypedInit == Init => Typed
<1> SUFFICES ASSUME Init PROVE Typed
  BY Zenon
<1>1. NoJob \in Job /\ EmptyVersion \in Version /\ NoFile \in WalFile
  BY Zenon, NoJobType, EmptyVersionType, NewFileType
<1>2. TypeOK
  <2>1. manifest \in [hdr : Header, log : Seq(Version)] /\ manifest.log # <<>>
    BY <1>1 DEF Init, Header
  <2>2. wal \in [WalId -> WalFile] /\ sst \in [TableId -> SUBSET InternalRecord]
    BY Zenon, <1>1 DEF Init
  <2>3. acked \in [Key -> Nat] /\ promised \in [Key -> Nat]
    BY Zenon DEF Init, NoWrite
  <2>4. next_sequence \in SeqNum /\ wal_id \in WalId /\ writer \in WalId \cup {0}
    BY LsmAssumption DEF Init, SeqNum, WalId
  <2>5. poisoned \in BOOLEAN
    BY Zenon DEF Init
  <2> QED BY <1>1, <2>1, <2>2, <2>3, <2>4, <2>5 DEF Init, TypeOK, Labels
<1>3. Pending
  BY Zenon DEF Init, Pending, NoJob
<1> QED BY Zenon, <1>2, <1>3 DEF Typed

\* What a plan's job reads and writes, for a plan made from the catalog.
LEMMA JobOutputsType ==
    ASSUME LevelFacts, TypeOK, NEW plan, Inputs(plan) \subseteq catalog.tables,
           plan.level + 1 \in LevelId
    PROVE  /\ JobReads(plan) \in SUBSET InternalRecord
           /\ Cardinality(JobOutputs(plan)) \in Nat
           /\ \A t \in JobOutputs(plan) : /\ t.recs \in SUBSET InternalRecord
                                          /\ t.id \in Nat /\ t.id >= catalog.next_table_id
           /\ \A t, u \in JobOutputs(plan) : t.id = u.id => t = u
           /\ JobHasIds(plan) => JobOutputs(plan) \subseteq TableMeta
           /\ {t.id : t \in Inputs(plan)} \subseteq TableId
<1>1. \A t \in Inputs(plan) : t.id \in TableId
  BY DEF TypeOK, Version, TableMeta
<1>2. JobReads(plan) \in SUBSET InternalRecord
  BY Zenon, <1>1 DEF JobReads, TypeOK
<1> DEFINE bottom == is_bottommost_destination(catalog.tables, plan.level + 1)
           recs   == Survivors(JobReads(plan), bottom)
<1>3. recs \in SUBSET InternalRecord
  BY Zenon, <1>2 DEF Survivors
<1> HIDE DEF recs
<1>4. JobOutputs(plan) = Outputs(recs, plan.level + 1, catalog.next_table_id)
  BY Zenon DEF JobOutputs, recs
<1>5. catalog.next_table_id \in Nat \ {0}
  BY LsmAssumption DEF TypeOK, Version
<1>6. /\ Cardinality(JobOutputs(plan)) \in Nat
      /\ \A t \in JobOutputs(plan) : t.id \in Nat /\ t.id >= catalog.next_table_id
      /\ \A t, u \in JobOutputs(plan) : t.id = u.id => t = u
      /\ (\A t \in JobOutputs(plan) : t.id <= MaxTableId) => JobOutputs(plan) \subseteq TableMeta
  <2>1. recs \in SUBSET InternalRecord /\ plan.level + 1 \in LevelId
    BY Zenon, <1>3
  <2>2. OutputsTyped
    BY Zenon DEF LevelFacts
  <2> DEFINE outs == Outputs(recs, plan.level + 1, catalog.next_table_id)
  <2>3. /\ Cardinality(outs) \in Nat
        /\ \A t \in outs : t.id \in Nat /\ t.id >= catalog.next_table_id
        /\ \A t, u \in outs : t.id = u.id => t = u
        /\ (\A t \in outs : t.id <= MaxTableId) => outs \subseteq TableMeta
    BY Zenon, <1>5, <2>1, <2>2 DEF OutputsTyped
  <2> QED BY Zenon, <1>4, <2>3
<1>7. JobHasIds(plan) => JobOutputs(plan) \subseteq TableMeta
  BY Zenon, <1>6 DEF JobHasIds
<1>8. \A t \in JobOutputs(plan) : t.recs \in SUBSET InternalRecord
  BY <1>3, <1>4 DEF Outputs
<1> QED BY Zenon, <1>1, <1>2, <1>6, <1>7, <1>8

\* Typed is preserved by every step.
LEMMA TypedStep ==
    ASSUME LevelFacts
    PROVE  Typed /\ [Next]_vars => Typed'
  \* A sync keeps a WAL file a WAL file.
<1>SyncedType.
    ASSUME NEW f \in WalFile
    PROVE  Synced(f) \in WalFile
  <2> USE <1>SyncedType
  <2>1. Len(f.recs) \in Nat
    BY DEF WalFile
  <2> QED BY Zenon, <2>1 DEF Synced, WalFile, Header
  \* What WALLoader::load returns holds no incomplete record.
<1>LoadedType.
    ASSUME LevelFacts, NEW recs \in Seq(InternalRecord \cup {Torn})
    PROVE  Loaded(recs) \in Seq(InternalRecord)
  <2> USE <1>LoadedType
  <2> DEFINE T == {i \in DOMAIN recs : recs[i] = Torn}
             m == Min(T)
  <2>1. CASE Torn \in Range(recs)
    <3>1. T # {} /\ T \in SUBSET Nat
      BY <2>1 DEF Range
    <3>2. m \in T /\ \A i \in T : m <= i
      BY Zenon, <3>1 DEF LevelFacts, LeastPicked
    <3>3. m \in 1 .. Len(recs)
      BY <3>2
    <3> HIDE DEF m
    <3>4. ASSUME NEW i \in 1 .. m - 1 PROVE recs[i] \in InternalRecord
      <4>1. i \in DOMAIN recs /\ i < m
        BY <3>3
      <4>2. i \notin T
        BY <3>2, <3>3, <4>1
      <4> QED BY <4>1, <4>2
    <3>5. SubSeq(recs, 1, m - 1) \in Seq(InternalRecord)
      BY <3>3, <3>4, PrefixIs
    <3> QED BY Zenon, <2>1, <3>5 DEF Loaded, m
  <2>2. CASE ~Torn \in Range(recs)
    <3>1. \A i \in 1 .. Len(recs) : recs[i] \in InternalRecord
      BY <2>2 DEF Range
    <3>2. recs \in Seq(InternalRecord)
      BY <3>1
    <3> QED BY Zenon, <2>2, <3>2 DEF Loaded
  <2> QED BY Zenon, <2>1, <2>2
  \* Steps of other systems change nothing.
<1>Stutter. Typed /\ UNCHANGED vars => Typed'
  BY DEF Typed, TypeOK, Pending, vars, files, memory, history
  \* The call ends, or the process does: memory is as in Init.
<1>LoseMemory.
    ASSUME Typed, LoseMemory, pc' = "down",
           manifest' \in [hdr : Header, log : Seq(Version)], manifest'.log # <<>>,
           wal' \in [WalId -> WalFile], sst' = sst, issued' = issued,
           acked' \in [Key -> Nat], promised' \in [Key -> Nat], crashes' \in Nat
    PROVE  Typed'
  <2> USE <1>LoseMemory
  <2>1. NoJob \in Job /\ EmptyVersion \in Version
    BY Zenon, NoJobType, EmptyVersionType
  <2>2. 1 \in SeqNum /\ 1 \in WalId
    BY LsmAssumption DEF SeqNum, WalId
  <2>3. poisoned' \in BOOLEAN
    BY Zenon DEF LoseMemory
  <2>4. TypeOK'
    BY <2>1, <2>2, <2>3 DEF Typed, TypeOK, LoseMemory, Labels
  <2>5. Pending'
    BY Zenon DEF Pending, LoseMemory, NoJob
  <2> QED BY Zenon, <2>4, <2>5 DEF Typed
  \* Engine::open and open_manifest keep the types.
<1>Open.
    ASSUME Typed,
           \/ Open \/ CreateManifest \/ WriteManifestHeader \/ SyncManifestHeader
           \/ LoadManifest \/ RefuseManifest
    PROVE  Typed'
  <2> USE <1>Open
  <2> USE DEF Typed, Goto, files, memory, history
  <2>1. CASE Open
    BY Zenon, <2>1 DEF Open, TypeOK, Pending, Labels
  <2>2. CASE CreateManifest
    BY <2>2, EmptyVersionType DEF CreateManifest, TypeOK, Pending, Labels, Header
  <2>3. CASE WriteManifestHeader
    BY Zenon, <2>3 DEF WriteManifestHeader, TypeOK, Pending, Labels, Header
  <2>4. CASE SyncManifestHeader
    BY Zenon, <2>4 DEF SyncManifestHeader, TypeOK, Pending, Labels, Header
  <2>5. CASE LoadManifest
    <3>1. Latest(manifest.log) \in Version
      BY Zenon, LatestType DEF TypeOK
    <3> QED BY Zenon, <2>5, <3>1 DEF LoadManifest, TypeOK, Pending, Labels
  <2>6. CASE RefuseManifest
    BY Zenon, <2>6, <1>LoseMemory DEF RefuseManifest, OpenFails, TypeOK
  <2> QED BY Zenon, <2>1, <2>2, <2>3, <2>4, <2>5, <2>6
  \* open_wal: the replacement id and the recovered counter stay within their limits.
<1>OpenWal.
    ASSUME LevelFacts, Typed,
           \/ CreateWal \/ WriteWalHeader \/ SyncWalHeader \/ RecoverWal
           \/ RefuseWal \/ SyncReplacement \/ SyncReplacementFails
    PROVE  Typed'
  <2> USE <1>OpenWal
  <2> USE DEF Typed, Goto, files, memory, history
  <2>0. \A i \in WalId : wal[i] \in WalFile
    BY Zenon DEF TypeOK
  <2>a. catalog.wal_id \in WalId /\ catalog.next_seq \in SeqNum
    BY Zenon DEF TypeOK, Version
  <2>1. CASE CreateWal
    <3>1. [NoFile EXCEPT !.hdr = "torn"] \in WalFile
      BY Zenon, NewFileType DEF WalFile, Header
    <3> QED BY Zenon, <2>1, <2>a, <3>1 DEF CreateWal, TypeOK, Pending, Labels
  <2>2. CASE WriteWalHeader
    <3>1. [wal[wal_id] EXCEPT !.hdr = "new"] \in WalFile
      BY Zenon, <2>0 DEF TypeOK, WalFile, Header
    <3> QED BY Zenon, <2>2, <3>1 DEF WriteWalHeader, TypeOK, Pending, Labels
  <2>3. CASE SyncWalHeader
    <3>1. Synced(wal[wal_id]) \in WalFile
      BY Zenon, <2>0, <1>SyncedType DEF TypeOK
    <3> QED BY Zenon, <2>3, <3>1 DEF SyncWalHeader, TypeOK, Pending, Labels
  <2>4. CASE RecoverWal
    <3> DEFINE recs == Loaded(wal[catalog.wal_id].recs)
    <3>1. PICK next \in SeqNum : Replay(recs, next)
      BY Zenon, <2>4 DEF RecoverWal
    <3>2. recs \in Seq(InternalRecord)
      BY Zenon, <2>0, <2>a, <1>LoadedType DEF WalFile
    <3> HIDE DEF recs
    <3>3. Range(recs) \in SUBSET InternalRecord
      BY Zenon, <3>2, RangeType
    <3>4. catalog.wal_id + 1 \in WalId /\ catalog.wal_id + 1 # 0
      BY <2>a, <3>1, LsmAssumption DEF Replay, WalId
    <3>5. [NewWal EXCEPT !.recs = recs] \in WalFile
      <4>1. recs \in Seq(InternalRecord \cup {Torn})
        BY <3>2
      <4> QED BY Zenon, <4>1 DEF NewWal, WalFile, Header
    <3>6. wal' \in [WalId -> WalFile]
      BY Zenon, <3>1, <3>5 DEF Replay, TypeOK
    <3> DEFINE v == [catalog EXCEPT !.wal_id = @ + 1, !.next_seq = next]
    <3>7. v \in Version
      BY Zenon, <3>4 DEF Version, TypeOK
    <3> HIDE DEF v
    <3>8. job' \in Job /\ job'.call = "open" /\ job'.kind = "open" /\ job'.repl # 0
      BY Zenon, <3>1, <3>4, <3>7, NoJobType DEF Replay, Job, v, NoJob
    <3>9. TypeOK'
      BY Zenon, <3>1, <3>3, <3>6, <3>8, <2>a DEF Replay, TypeOK, Labels
    <3>10. Pending'
      BY Zenon, <3>1, <3>8 DEF Replay, Pending
    <3> QED BY Zenon, <3>9, <3>10
  <2>5. CASE RefuseWal
    BY Zenon, <2>5, <1>LoseMemory DEF RefuseWal, OpenFails, TypeOK
  <2>6. CASE SyncReplacement
    <3>1. job.repl \in WalId
      BY Zenon, <2>6 DEF SyncReplacement, Pending, TypeOK, Job
    <3>2. Synced(wal[job.repl]) \in WalFile
      BY Zenon, <2>0, <3>1, <1>SyncedType
    <3>3. wal' \in [WalId -> WalFile]
      BY Zenon, <2>6, <3>2 DEF SyncReplacement, TypeOK
    <3> QED BY Zenon, <2>6, <3>1, <3>3 DEF SyncReplacement, TypeOK, Pending, Labels
  <2>7. CASE SyncReplacementFails
    BY Zenon, <2>7, <1>LoseMemory DEF SyncReplacementFails, OpenFails, TypeOK
  <2> QED BY Zenon, <2>1, <2>2, <2>3, <2>4, <2>5, <2>6, <2>7
  \* put_impl checks next_sequence_ before it uses and increments it.
<1>Put.
    ASSUME Typed,
           \/ \E k \in Key, del \in BOOLEAN : PutWrite(k, del) \/ PutWriteFails(k, del)
           \/ PutSync \/ PutSyncFails \/ PutApply
    PROVE  Typed'
  <2> USE <1>Put
  <2> USE DEF Typed, files, memory, history
  <2>0. \A i \in WalId : wal[i] \in WalFile
    BY Zenon DEF TypeOK
  <2>1. ASSUME NEW k \in Key, NEW del \in BOOLEAN, PutWrite(k, del) PROVE Typed'
    <3> DEFINE r == [key |-> k, seq |-> next_sequence, op |-> Len(issued) + 1, del |-> del]
    <3>0. /\ writer # 0 /\ Len(issued) < MaxWrites
          /\ issued' = Append(issued, [key |-> k, del |-> del])
      BY Zenon, <2>1 DEF PutWrite
    <3>a. /\ issued \in Seq([key : Key, del : BOOLEAN])
          /\ writer \in WalId \cup {0} /\ next_sequence \in SeqNum
      BY Zenon DEF TypeOK
    <3>1. Len(issued) \in Nat /\ writer \in WalId
      BY <3>0, <3>a
    <3>2. r \in InternalRecord
      <4>1. Len(issued) + 1 \in 1 .. MaxWrites
        BY <3>0, <3>1, LsmAssumption
      <4> QED BY Zenon, <3>a, <4>1 DEF InternalRecord
    <3> HIDE DEF r
    <3>3. [wal[writer] EXCEPT !.recs = Append(@, r)] \in WalFile
      <4>1. wal[writer] \in WalFile
        BY Zenon, <2>0, <3>1
      <4>2. wal[writer].recs \in Seq(InternalRecord \cup {Torn})
        BY Zenon, <4>1 DEF WalFile
      <4>3. Append(wal[writer].recs, r) \in Seq(InternalRecord \cup {Torn})
        BY Zenon, <3>2, <4>2, AppendIs
      <4> QED BY Zenon, <4>1, <4>3 DEF WalFile
    <3>4. wal' \in [WalId -> WalFile]
      BY Zenon, <2>1, <3>3 DEF PutWrite, TypeOK, r
    <3>5. job' \in Job /\ job'.call = "put" /\ job'.rec = r /\ job'.kind = "none"
      BY Zenon, <2>1, <3>2, NoJobType DEF PutWrite, Job, NoJob, r
    <3>6. issued' \in Seq([key : Key, del : BOOLEAN])
      BY <3>0, <3>a
    <3>7. pc' \in {"put_sync", "put_apply"}
      BY Zenon, <2>1 DEF PutWrite
    <3>8. TypeOK'
      BY Zenon, <2>1, <3>4, <3>5, <3>6, <3>7 DEF PutWrite, TypeOK, Labels
    <3>9. Pending'
      BY Zenon, <2>1, <3>2, <3>5, <3>7 DEF PutWrite, Pending
    <3> QED BY Zenon, <3>8, <3>9
  <2>2. ASSUME NEW k \in Key, NEW del \in BOOLEAN, PutWriteFails(k, del) PROVE Typed'
    <3> DEFINE recs == IF wal[writer].recs # <<>> /\ Latest(wal[writer].recs) = Torn
                       THEN wal[writer].recs ELSE Append(wal[writer].recs, Torn)
    <3>1. writer \in WalId
      BY Zenon, <2>2 DEF PutWriteFails, TypeOK
    <3>2. recs \in Seq(InternalRecord \cup {Torn})
      BY <2>0, <3>1 DEF WalFile
    <3> HIDE DEF recs
    <3>3. [wal[writer] EXCEPT !.recs = recs] \in WalFile
      BY Zenon, <2>0, <3>1, <3>2 DEF WalFile
    <3>4. wal' = [wal EXCEPT ![writer].recs = recs]
      BY Zenon, <2>2, Zenon DEF PutWriteFails, recs
    <3>5. wal' \in [WalId -> WalFile]
      BY Zenon, <3>3, <3>4 DEF TypeOK
    <3>6. issued' \in Seq([key : Key, del : BOOLEAN])
      BY <2>2 DEF PutWriteFails, TypeOK
    <3> QED BY Zenon, <2>2, <3>5, <3>6 DEF PutWriteFails, TypeOK, Pending
  <2>3. CASE PutSync
    <3>1. wal' \in [WalId -> WalFile]
      BY Zenon, <2>0, <2>3, <1>SyncedType DEF PutSync, TypeOK
    <3> QED BY Zenon, <2>3, <3>1 DEF PutSync, Goto, TypeOK, Pending, Labels
  <2>4. CASE PutSyncFails
    BY Zenon, <2>4, NoJobType DEF PutSyncFails, ReturnError, NoJob, TypeOK, Pending, Labels
  <2>5. CASE PutApply
    <3>1. job.rec \in InternalRecord /\ job.call = "put" /\ next_sequence < MaxSeq
      BY Zenon, <2>5 DEF PutApply, Pending
    <3>2. mem' \in SUBSET InternalRecord /\ next_sequence' \in SeqNum
      BY <2>5, <3>1, LsmAssumption DEF PutApply, TypeOK, SeqNum
    <3>3. CASE ReturnOk(SyncOnWrite)
      <4>1. job.rec.op \in Nat
        BY <3>1, LsmAssumption DEF InternalRecord
      <4>2. acked' \in [Key -> Nat]
        BY Zenon, <3>3, <4>1 DEF ReturnOk, TypeOK
      <4>3. promised' \in [Key -> Nat]
        BY Zenon, <3>3, <4>2 DEF ReturnOk, TypeOK
      <4> QED BY Zenon, <2>5, <3>2, <3>3, <4>2, <4>3, NoJobType
          DEF PutApply, ReturnOk, NoJob, TypeOK, Pending, Labels
    <3>4. CASE Goto("freeze") /\ UNCHANGED job
      BY Zenon, <2>5, <3>2, <3>4 DEF PutApply, Goto, TypeOK, Pending, Labels
    <3> QED BY Zenon, <2>5, <3>3, <3>4 DEF PutApply
  <2> QED BY Zenon, <2>1, <2>2, <2>3, <2>4, <2>5
  \* flush_oldest_immutable checks the table id and the WAL id before it uses them.
<1>Flush.
    ASSUME Typed,
           \/ Flush \/ Freeze \/ Drained \/ FlushTable \/ FlushTableFails
           \/ FlushEdit \/ FlushEditFails
    PROVE  Typed'
  <2> USE <1>Flush
  <2> USE DEF Typed, Goto, files, memory, history
  <2>1. CASE Flush
    <3>1. job' \in Job /\ job'.call = "flush"
      BY Zenon, <2>1, NoJobType DEF Flush, Job, NoJob
    <3> QED BY Zenon, <2>1, <3>1 DEF Flush, TypeOK, Pending, Labels
  <2>2. CASE Freeze
    <3>1. imm' \in Seq(SUBSET InternalRecord)
      BY <2>2 DEF Freeze, TypeOK
    <3> QED BY Zenon, <2>2, <3>1 DEF Freeze, TypeOK, Pending, Labels
  <2>3. CASE Drained
    BY Zenon, <2>3 DEF Drained, TypeOK, Pending, Labels
  <2>4. CASE FlushTable
    <3>1. sst' \in [TableId -> SUBSET InternalRecord]
      <4>1. Head(imm) \in SUBSET InternalRecord
        BY <2>4 DEF FlushTable, TypeOK
      <4> QED BY Zenon, <2>4, <4>1 DEF FlushTable, TypeOK
    <3> QED BY Zenon, <2>4, <3>1 DEF FlushTable, TypeOK, Pending, Labels
  <2>5. CASE FlushTableFails
    <3>1. sst' \in [TableId -> SUBSET InternalRecord]
      <4>1. Head(imm) \in SUBSET InternalRecord
        BY <2>5 DEF FlushTableFails, TypeOK
      <4> QED BY Zenon, <2>5, <4>1 DEF FlushTableFails, TypeOK
    <3> QED BY Zenon, <2>5, <3>1, NoJobType
        DEF FlushTableFails, ReturnError, NoJob, TypeOK, Pending, Labels
  <2>6. CASE FlushEdit
    <3>1. imm # <<>> /\ catalog.next_table_id <= MaxTableId
      BY Zenon, <2>6 DEF FlushEdit, Pending
    <3>2. Head(imm) \in SUBSET InternalRecord
      BY <3>1 DEF TypeOK
    <3> DEFINE t == [id |-> catalog.next_table_id, level |-> 0, recs |-> Head(imm)]
    <3>3. t \in TableMeta
      BY <3>1, <3>2, LsmAssumption DEF TableMeta, TableId, LevelId, TypeOK, Version
    <3> HIDE DEF t
    <3>4. FlushedVersion \in Version
      <4>1. catalog \in Version /\ next_sequence \in SeqNum
        BY Zenon DEF TypeOK
      <4>2. catalog.next_table_id + 1 \in 1 .. MaxTableId + 1
        BY <3>1, <4>1, LsmAssumption DEF Version
      <4>3. catalog.tables \cup {t} \in SUBSET TableMeta
        BY Zenon, <3>3, <4>1 DEF Version
      <4> QED BY Zenon, <4>1, <4>2, <4>3 DEF FlushedVersion, Version, t
    <3>5. CASE wal_id < MaxWalId /\ FlushRotates
      <4>1. wal_id + 1 \in WalId
        BY <3>5, LsmAssumption DEF WalId, TypeOK
      <4> DEFINE v == [FlushedVersion EXCEPT !.wal_id = wal_id + 1]
      <4>2. v \in Version
        BY Zenon, <3>4, <4>1 DEF Version
      <4> HIDE DEF v
      <4>3. job' \in Job /\ job'.kind = "flush" /\ job'.call = job.call /\ job'.rec = job.rec
        BY Zenon, <3>5, <4>1, <4>2 DEF FlushRotates, Job, TypeOK, v
      <4>4. wal' \in [WalId -> WalFile]
        BY Zenon, <3>5, NewFileType DEF FlushRotates, TypeOK
      <4> QED BY Zenon, <2>6, <3>1, <4>3, <4>4 DEF FlushEdit, TypeOK, Pending, Labels
    <3>6. CASE FlushKeepsWal
      <4>1. job' \in Job /\ job'.kind = "flush" /\ job'.call = job.call /\ job'.rec = job.rec
        BY Zenon, <3>4, <3>6 DEF FlushKeepsWal, Job, TypeOK
      <4> QED BY Zenon, <2>6, <3>1, <3>6, <4>1 DEF FlushEdit, FlushKeepsWal, TypeOK, Pending, Labels
    <3> QED BY Zenon, <2>6, <3>5, <3>6 DEF FlushEdit
  <2>7. CASE FlushEditFails
    <3>1. \A h \in {"torn", "new"} : [NoFile EXCEPT !.hdr = h] \in WalFile
      BY Zenon, NewFileType DEF WalFile, Header
    <3>2. wal' \in [WalId -> WalFile]
      BY Zenon, <2>7, <3>1 DEF FlushEditFails, TypeOK
    <3> QED BY Zenon, <2>7, <3>2, NoJobType
        DEF FlushEditFails, ReturnError, NoJob, TypeOK, Pending, Labels
  <2> QED BY Zenon, <2>1, <2>2, <2>3, <2>4, <2>5, <2>6, <2>7
  \* Whatever made commit fail, and whether or not it poisoned the manifest.
<1>CommitFails.
    ASSUME Typed, CommitFails, UNCHANGED <<manifest, sst>>,
           job.kind # "open" => poisoned' \in BOOLEAN
    PROVE  Typed'
  <2> USE <1>CommitFails
  <2> USE DEF Typed, history
  <2>1. CASE job.kind = "open" /\ OpenFails /\ UNCHANGED wal
    BY Zenon, <2>1, <1>LoseMemory DEF OpenFails, TypeOK
  <2>2. CASE job.kind # "open" /\ ReturnError /\ wal' \in [WalId -> WalFile]
             /\ UNCHANGED <<catalog, mem, imm, next_sequence, wal_id, writer>>
    BY Zenon, <2>2, NoJobType DEF ReturnError, NoJob, TypeOK, Pending, Labels
  <2>3. ASSUME job.kind = "flush",
               wal' = IF job.repl = 0 THEN wal ELSE [wal EXCEPT ![job.repl] = NoFile]
        PROVE  wal' \in [WalId -> WalFile]
    BY Zenon, <2>3, NewFileType DEF TypeOK
  <2>4. UNCHANGED wal => wal' \in [WalId -> WalFile]
    BY Zenon DEF TypeOK
  <2> QED BY Zenon, <2>1, <2>2, <2>3, <2>4 DEF CommitFails
  \* Manifest::commit installs only what the caller staged.
<1>Commit.
    ASSUME Typed,
           \/ AppendEdit \/ RefuseEdit \/ AppendEditFails \/ SyncEdit \/ SyncEditFails
    PROVE  Typed'
  <2> USE <1>Commit
  <2> USE DEF Typed, Goto, memory, history
  <2>0. job.staged \in Version
    BY Zenon DEF TypeOK, Job
  <2>1. CASE AppendEdit
    <3>1. manifest' \in [hdr : Header, log : Seq(Version)] /\ manifest'.log # <<>>
      <4>1. Append(manifest.log, job.staged) \in Seq(Version)
        BY <2>0 DEF TypeOK
      <4>2. Append(manifest.log, job.staged) # <<>>
        BY <2>0, AppendIs DEF TypeOK
      <4> QED BY Zenon, <2>1, <4>1, <4>2 DEF AppendEdit, TypeOK
    <3> QED BY Zenon, <2>1, <3>1 DEF AppendEdit, TypeOK, Pending, Labels
  <2>2. CASE RefuseEdit
    <3>1. job.kind # "open" => poisoned' \in BOOLEAN
      BY Zenon, <2>2 DEF RefuseEdit, TypeOK
    <3> QED BY Zenon, <2>2, <3>1, <1>CommitFails DEF RefuseEdit
  <2>3. CASE AppendEditFails
    <3>1. job.kind # "open" => poisoned' \in BOOLEAN
      BY Zenon, <2>3 DEF AppendEditFails
    <3> QED BY Zenon, <2>3, <3>1, <1>CommitFails DEF AppendEditFails
  <2>4. CASE SyncEdit
    <3>1. Latest(manifest.log) \in Version
      BY Zenon, LatestType DEF TypeOK
    <3>2. manifest' \in [hdr : Header, log : Seq(Version)] /\ manifest'.log # <<>>
      BY <2>4, <3>1 DEF SyncEdit, SyncedManifest, Header
    <3> QED BY <2>0, <2>4, <3>2 DEF SyncEdit, TypeOK, Pending, Labels
  <2>5. CASE SyncEditFails
    <3>1. job.kind # "open" => poisoned' \in BOOLEAN
      BY Zenon, <2>5 DEF SyncEditFails
    <3> QED BY Zenon, <2>5, <3>1, <1>CommitFails DEF SyncEditFails
  <2> QED BY Zenon, <2>1, <2>2, <2>3, <2>4, <2>5
  \* What follows a commit of open_wal or a flush.
<1>Committed.
    ASSUME Typed,
           \/ OpenCommitted \/ FlushCommitted \/ FlushCommittedFails
           \/ RemoveWal \/ RemoveWalFails
    PROVE  Typed'
  <2> USE <1>Committed
  <2> USE DEF Typed, Goto, files, memory, history
  <2>0. \A i \in WalId : wal[i] \in WalFile
    BY Zenon DEF TypeOK
  <2>a. job.repl \in WalId \cup {0}
    BY Zenon DEF TypeOK, Job
  <2>b. pc = "committed" /\ job.kind = "flush" => Tail(imm) \in Seq(SUBSET InternalRecord)
    BY DEF TypeOK, Pending
  <2>1. CASE OpenCommitted
    <3>1. job.repl \in WalId
      BY Zenon, <2>1, <2>a DEF OpenCommitted, Pending
    <3> QED BY Zenon, <2>1, <3>1 DEF OpenCommitted, TypeOK, Pending, Labels
  <2>2. CASE FlushCommitted
    <3>1. wal' \in [WalId -> WalFile]
      <4>1. [wal EXCEPT ![writer] = Synced(@)] \in [WalId -> WalFile]
        BY Zenon, <2>0, <1>SyncedType DEF TypeOK
      <4> QED BY Zenon, <2>2, <4>1 DEF FlushCommitted, TypeOK
    <3>2. writer' \in WalId \cup {0} /\ wal_id' \in WalId
      BY Zenon, <2>2, <2>a DEF FlushCommitted, TypeOK
    <3>3. pc' \in {"drain", "remove_wal"} /\ UNCHANGED <<history, crashes>>
      BY Zenon, <2>2 DEF FlushCommitted
    <3> QED BY Zenon, <2>2, <2>b, <3>1, <3>2, <3>3 DEF FlushCommitted, TypeOK, Pending, Labels
  <2>3. CASE FlushCommittedFails
    BY Zenon, <2>3, <2>b, NoJobType DEF FlushCommittedFails, ReturnError, NoJob, TypeOK, Pending, Labels
  <2>4. CASE RemoveWal
    <3>1. wal' \in [WalId -> WalFile]
      BY Zenon, <2>4, NewFileType DEF RemoveWal, TypeOK
    <3>2. [job EXCEPT !.repl = 0] \in Job
      BY Zenon DEF TypeOK, Job
    <3>3. /\ job' \in Job /\ pc' \in {"idle", "drain"}
          /\ job'.call = "put" => job.call = "put" /\ job'.rec = job.rec
          /\ UNCHANGED <<history, crashes>>
      BY Zenon, <2>4, <3>2, NoJobType DEF RemoveWal, NoJob, TypeOK, Job
    <3> QED BY Zenon, <2>4, <3>1, <3>3 DEF RemoveWal, TypeOK, Pending, Labels
  <2>5. CASE RemoveWalFails
    <3>1. CASE OpenFails
      BY Zenon, <2>5, <3>1, <1>LoseMemory DEF RemoveWalFails, OpenFails, TypeOK
    <3>2. CASE ReturnError /\ UNCHANGED memory
      BY Zenon, <2>5, <3>2, NoJobType DEF RemoveWalFails, ReturnError, NoJob, TypeOK, Pending, Labels
    <3> QED BY Zenon, <2>5, <3>1, <3>2 DEF RemoveWalFails
  <2> QED BY Zenon, <2>1, <2>2, <2>3, <2>4, <2>5
  \* Tables hold records after a job wrote its outputs.
<1>JobWritesType.
    ASSUME TypeOK, NEW outs, \A t \in outs : t.recs \in SUBSET InternalRecord
    PROVE  JobWrites(outs) \in [TableId -> SUBSET InternalRecord]
  <2> USE <1>JobWritesType
  <2>1. ASSUME NEW i \in TableId, \E t \in outs : t.id = i
        PROVE  (CHOOSE t \in outs : t.id = i).recs \in SUBSET InternalRecord
    BY Zenon, <2>1
  <2> QED BY Zenon, <2>1 DEF JobWrites, TypeOK
  \* The next table id, advanced past the outputs, is at most one past the limit.
<1>AdvancedTableId.
    ASSUME NEW first \in 1 .. MaxTableId + 1, NEW n \in Nat,
           first + n <= MaxTableId + 1
    PROVE  first + n \in 1 .. MaxTableId + 1
  BY <1>AdvancedTableId, LsmAssumption
  \* A job checks each output id; its edit stays within the limits.
<1>RunJob.
    ASSUME LevelFacts, Typed, NEW plan, NEW kind \in {"background", "manual"},
           Inputs(plan) \subseteq catalog.tables, plan.level + 1 \in LevelId,
           kind = "manual" => job.level + 1 < NumLevels,
           RunJob(plan, kind)
    PROVE  Typed'
  <2> USE <1>RunJob
  <2> USE DEF Typed, Goto, memory, history
  <2> DEFINE outs == JobOutputs(plan)
             v == [catalog EXCEPT !.tables = (@ \ Inputs(plan)) \cup outs,
                                  !.next_table_id = @ + Cardinality(outs)]
             obsolete == {t.id : t \in Inputs(plan)}
  <2>1. /\ outs \subseteq TableMeta /\ Cardinality(outs) \in Nat
        /\ catalog.next_table_id + Cardinality(outs) <= MaxTableId + 1
        /\ obsolete \subseteq TableId
    BY Zenon, JobOutputsType DEF RunJob, JobHasIds
  <2>2. sst' = JobWrites(outs)
    BY Zenon DEF RunJob
  <2>3. job' = [job EXCEPT !.kind = kind, !.staged = v, !.obsolete = obsolete]
    BY Zenon DEF RunJob, JobStages
  <2> HIDE DEF outs
  <2>4. v \in Version
    <3>1. catalog \in Version
      BY Zenon DEF TypeOK
    <3>2. catalog.next_table_id + Cardinality(outs) \in 1 .. MaxTableId + 1
      <4>1. catalog.next_table_id \in 1 .. MaxTableId + 1
        BY Zenon, <3>1 DEF Version
      <4> QED BY Zenon, <2>1, <4>1, <1>AdvancedTableId
    <3>3. (catalog.tables \ Inputs(plan)) \cup outs \in SUBSET TableMeta
      BY Zenon, <2>1, <3>1 DEF Version
    <3> QED BY Zenon, <3>1, <3>2, <3>3 DEF Version
  <2> HIDE DEF v, obsolete
  <2>5. /\ job' \in Job /\ job'.kind = kind
        /\ UNCHANGED <<job.call, job.rec, job.level>>
    BY Zenon, <2>1, <2>3, <2>4 DEF TypeOK, Job
  <2>6. sst' \in [TableId -> SUBSET InternalRecord]
    <3>1. \A t \in outs : t.recs \in SUBSET InternalRecord
      BY Zenon, <2>1 DEF TableMeta
    <3> QED BY Zenon, <2>2, <3>1, <1>JobWritesType
  <2>7. TypeOK'
    BY Zenon, <2>5, <2>6 DEF RunJob, TypeOK, Labels
  <2>8. Pending'
    BY Zenon, <2>5 DEF RunJob, Pending
  <2> QED BY Zenon, <2>7, <2>8
  \* Cleaning up after a failed job.
<1>JobFails.
    ASSUME LevelFacts, Typed, NEW plan, Inputs(plan) \subseteq catalog.tables,
           plan.level + 1 \in LevelId, JobFails(plan)
    PROVE  Typed'
  <2> USE <1>JobFails
  <2>1. sst' \in [TableId -> SUBSET InternalRecord]
    <3>1. JobWrites(JobOutputs(plan)) \in [TableId -> SUBSET InternalRecord]
      BY Zenon, JobOutputsType, <1>JobWritesType DEF Typed
    <3>2. ASSUME NEW n, NEW published \in BOOLEAN
          PROVE  JobCleanup(plan, n, published) \in [TableId -> SUBSET InternalRecord]
      BY Zenon, <3>1 DEF JobCleanup, Typed, TypeOK
    <3> QED BY Zenon, <3>2 DEF JobFails, Typed, TypeOK
  <2> QED BY Zenon, <2>1, NoJobType
      DEF JobFails, ReturnError, NoJob, Typed, TypeOK, Pending, Labels, memory, history
  \* maybe_compact_unlocked, compact_range and run_compaction.
<1>Compaction.
    ASSUME LevelFacts, Typed,
           \/ FlushDone \/ BackgroundCompact \/ BackgroundCompactFails
           \/ ManualSkip \/ ManualCompact \/ ManualCompactFails \/ ManualDone
           \/ CompactCommitted \/ (\E i \in job.obsolete : RemoveSst(i))
           \/ RemoveSstFails \/ CompactDone
           \/ (\E range \in Ranges : CompactRange(range[1], range[2]))
    PROVE  Typed'
  <2> USE <1>Compaction
  <2> USE DEF Typed, Goto, files, memory, history
  <2>a. catalog.tables \in SUBSET TableMeta
    BY Zenon DEF TypeOK, Version
  <2>b. job.level \in LevelId
    BY Zenon DEF TypeOK, Job
  <2>c. ReturnOk(TRUE) => acked' \in [Key -> Nat] /\ promised' \in [Key -> Nat]
    <3> SUFFICES ASSUME ReturnOk(TRUE) PROVE acked' \in [Key -> Nat] /\ promised' = acked'
      BY Zenon
    <3>1. job.call = "put" => job.rec.op \in Nat
      BY LsmAssumption DEF Pending, InternalRecord
    <3>2. acked' \in [Key -> Nat]
      BY Zenon, <3>1 DEF ReturnOk, TypeOK
    <3> QED BY Zenon, <3>2 DEF ReturnOk
  <2>d. /\ Inputs(ManualPlan) \subseteq catalog.tables
        /\ ManualPlan.level = job.level
    BY Zenon, <2>a DEF ManualPlan, manual_plan, Inputs, find_overlapping_tables, Level
  <2>e. job.level + 1 < NumLevels => job.level + 1 \in LevelId
    BY <2>b, LsmAssumption DEF LevelId
  <2>f. job.level + 1 < NumLevels => [job EXCEPT !.level = @ + 1] \in Job
    BY Zenon, <2>e DEF TypeOK, Job
  <2>1. CASE FlushDone
    <3>1. CASE ReturnOk(TRUE)
      BY Zenon, <2>1, <3>1, <2>c, NoJobType
         DEF FlushDone, ReturnOk, NoJob, TypeOK, Pending, Labels
    <3>2. CASE ReturnError
      BY Zenon, <2>1, <3>2, NoJobType DEF FlushDone, ReturnError, NoJob, TypeOK, Pending, Labels
    <3>3. CASE Goto("manual") /\ UNCHANGED job
      BY Zenon, <2>1, <3>3 DEF FlushDone, TypeOK, Pending, Labels
    <3> QED BY Zenon, <2>1, <3>1, <3>2, <3>3 DEF FlushDone
  <2>2. CASE BackgroundCompact
    <3> DEFINE plan == pick_compaction(catalog.tables)
    <3>1. Inputs(plan) \subseteq catalog.tables /\ plan.level + 1 \in LevelId
      BY Zenon, <2>2, <2>a DEF BackgroundCompact, Compacts, LevelFacts, PicksTyped
    <3> QED BY Zenon, <2>2, <3>1, <1>RunJob DEF BackgroundCompact
  <2>3. CASE BackgroundCompactFails
    <3> DEFINE plan == pick_compaction(catalog.tables)
    <3>1. Inputs(plan) \subseteq catalog.tables /\ plan.level + 1 \in LevelId
      BY Zenon, <2>3, <2>a DEF BackgroundCompactFails, Compacts, LevelFacts, PicksTyped
    <3> QED BY Zenon, <2>3, <3>1, <1>JobFails DEF BackgroundCompactFails
  <2>4. CASE ManualSkip
    <3>1. job' \in Job /\ job'.call = job.call /\ job'.rec = job.rec
      BY Zenon, <2>4, <2>f DEF ManualSkip, TypeOK, Job
    <3> QED BY Zenon, <2>4, <3>1 DEF ManualSkip, TypeOK, Pending, Labels
  <2>5. CASE ManualCompact
    BY Zenon, <2>5, <2>d, <2>e, <1>RunJob DEF ManualCompact
  <2>6. CASE ManualCompactFails
    BY Zenon, <2>6, <2>d, <2>e, <1>JobFails DEF ManualCompactFails
  <2>7. CASE ManualDone
    BY Zenon, <2>7, <2>c, NoJobType DEF ManualDone, ReturnOk, NoJob, TypeOK, Pending, Labels
  <2>8. CASE CompactCommitted
    BY Zenon, <2>8 DEF CompactCommitted, TypeOK, Pending, Labels
  <2>9. ASSUME NEW i \in job.obsolete, RemoveSst(i) PROVE Typed'
    <3>1. sst' \in [TableId -> SUBSET InternalRecord]
      BY Zenon, <2>9 DEF RemoveSst, TypeOK
    <3>2. /\ job' \in Job /\ job'.kind = job.kind /\ job'.level = job.level
          /\ job'.call = job.call /\ job'.rec = job.rec
      BY Zenon, <2>9 DEF RemoveSst, TypeOK, Job
    <3> QED BY Zenon, <2>9, <3>1, <3>2 DEF RemoveSst, TypeOK, Pending, Labels
  <2>10. CASE RemoveSstFails
    BY Zenon, <2>10, NoJobType DEF RemoveSstFails, ReturnError, NoJob, TypeOK, Pending, Labels
  <2>11. CASE CompactDone
    <3>1. CASE job.kind = "background"
      BY Zenon, <2>11, <3>1 DEF CompactDone, TypeOK, Pending, Labels
    <3>2. CASE job.kind # "background" /\ job.kind # "manual"
      <4>1. FALSE
        BY Zenon, <2>11, <3>2 DEF CompactDone, Pending
      <4> QED BY Zenon, <4>1
    <3>3. CASE job.kind = "manual"
      <4>1. job.level + 1 < NumLevels
        BY Zenon, <2>11, <3>3 DEF CompactDone, Pending
      <4> QED BY Zenon, <2>11, <3>3, <4>1, <2>f DEF CompactDone, TypeOK, Pending, Labels, Job
    <3> QED BY Zenon, <3>1, <3>2, <3>3
  <2>12. ASSUME NEW range \in Ranges, CompactRange(range[1], range[2]) PROVE Typed'
    <3>1. range[1] \in Key /\ range[2] \in Key
      BY Zenon, EngineAssumption
    <3>2. job' \in Job /\ job'.call = "compact_range"
      BY Zenon, <2>12, <3>1, NoJobType DEF CompactRange, Job, NoJob
    <3> QED BY Zenon, <2>12, <3>2 DEF CompactRange, TypeOK, Pending, Labels
  <2> QED BY Zenon, <2>1, <2>2, <2>3, <2>4, <2>5, <2>6, <2>7, <2>8, <2>9, <2>10, <2>11, <2>12
  \* Engine::close.
<1>Close.
    ASSUME Typed, Close \/ CloseManifest \/ CloseManifestFails \/ CloseWalFails
    PROVE  Typed'
  <2> USE <1>Close
  <2> USE DEF Typed, Goto, files, memory, history
  <2>a. Latest(manifest.log) \in Version
    BY Zenon, LatestType DEF TypeOK
  <2>b. SyncedManifest \in [hdr : Header, log : Seq(Version)]
    <3>1. <<Latest(manifest.log)>> \in Seq(Version)
      BY <2>a
    <3>2. "ok" \in Header
      BY Zenon DEF Header
    <3> QED BY Zenon, <3>1, <3>2 DEF SyncedManifest
  <2>1. CASE Close
    <3>1. wal' \in [WalId -> WalFile]
      BY Zenon, <2>1, <1>SyncedType DEF Close, TypeOK
    <3>2. job' \in Job /\ job'.call = "close"
      BY Zenon, <2>1, NoJobType DEF Close, Job, NoJob
    <3> QED BY Zenon, <2>1, <3>1, <3>2 DEF Close, TypeOK, Pending, Labels
  <2>2. CASE CloseManifest
    BY Zenon, <2>2, <2>b, <1>LoseMemory DEF CloseManifest, SyncedManifest, TypeOK
  <2>3. CASE CloseManifestFails
    <3>1. poisoned' \in BOOLEAN
      BY Zenon, <2>3 DEF CloseManifestFails, TypeOK
    <3> QED BY Zenon, <2>3, <3>1, NoJobType
        DEF CloseManifestFails, ReturnError, NoJob, TypeOK, Pending, Labels
  <2>4. CASE CloseWalFails
    BY Zenon, <2>4, <2>b, NoJobType DEF CloseWalFails, SyncedManifest, ReturnError, NoJob, TypeOK, Pending, Labels
  <2> QED BY Zenon, <2>1, <2>2, <2>3, <2>4
  \* A kill or a power loss leaves files of the same kind.
<1>Crash.
    ASSUME Typed, Kill \/ PowerLoss
    PROVE  Typed'
  <2> USE <1>Crash
  <2> USE DEF Typed, files, history
  <2>1. CASE Kill
    <3>1. /\ crashes' = crashes + 1 /\ pc' = "down" /\ LoseMemory
          /\ UNCHANGED <<manifest, wal, sst, issued, acked, promised>>
      BY Zenon, <2>1 DEF Kill
    <3>2. manifest' \in [hdr : Header, log : Seq(Version)] /\ manifest'.log # <<>>
      BY Zenon, <3>1 DEF TypeOK
    <3>3. wal' \in [WalId -> WalFile]
      BY Zenon, <3>1 DEF TypeOK
    <3>4. crashes' \in Nat
      BY <3>1 DEF TypeOK
    <3>5. acked' \in [Key -> Nat] /\ promised' \in [Key -> Nat]
      BY Zenon, <3>1 DEF TypeOK
    <3> QED BY Zenon, <3>1, <3>2, <3>3, <3>4, <3>5, <1>LoseMemory
  <2>2. CASE PowerLoss
    <3>1. PICK mh \in Survives(manifest.hdr), v \in Range(manifest.log) :
             LET survivor == IF mh = "ok" THEN v ELSE EmptyVersion
                 f        == wal[survivor.wal_id]
             IN  /\ manifest' = [hdr |-> mh, log |-> <<survivor>>]
                 /\ \E wh \in Survives(f.hdr), n \in f.synced .. Len(f.recs) :
                       wal' = [wal EXCEPT ![survivor.wal_id] =
                          IF wh = "ok"
                          THEN [hdr |-> "ok", recs |-> SubSeq(f.recs, 1, n), synced |-> n]
                          ELSE [NoFile EXCEPT !.hdr = wh]]
      BY Zenon, <2>2 DEF PowerLoss
    <3> DEFINE survivor == IF mh = "ok" THEN v ELSE EmptyVersion
               f        == wal[survivor.wal_id]
    <3>2. \A h : Survives(h) \subseteq Header
      BY Zenon DEF Survives, Header
    <3>3. survivor \in Version
      BY Zenon, EmptyVersionType, RangeType DEF TypeOK
    <3>4. manifest' = [hdr |-> mh, log |-> <<survivor>>]
      BY Zenon, <3>1
    <3>5. PICK wh \in Survives(f.hdr), n \in f.synced .. Len(f.recs) :
             wal' = [wal EXCEPT ![survivor.wal_id] =
                IF wh = "ok" THEN [hdr |-> "ok", recs |-> SubSeq(f.recs, 1, n), synced |-> n]
                             ELSE [NoFile EXCEPT !.hdr = wh]]
      BY Zenon, <3>1
    <3>6. f \in WalFile
      BY Zenon, <3>3 DEF TypeOK, Version
    <3> HIDE DEF survivor, f
    <3>7. n \in Nat /\ n <= Len(f.recs)
      BY <3>6 DEF WalFile
    <3>8. SubSeq(f.recs, 1, n) \in Seq(InternalRecord \cup {Torn})
      <4>1. \A i \in 1 .. n : f.recs[i] \in InternalRecord \cup {Torn}
        BY <3>6, <3>7 DEF WalFile
      <4> QED BY Zenon, <3>7, <4>1, PrefixIs
    <3>9. [hdr |-> "ok", recs |-> SubSeq(f.recs, 1, n), synced |-> n] \in WalFile
      BY Zenon, <3>7, <3>8 DEF WalFile, Header
    <3>10. [NoFile EXCEPT !.hdr = wh] \in WalFile
      BY Zenon, <3>2, NewFileType DEF WalFile
    <3>11. wal' \in [WalId -> WalFile]
      BY Zenon, <3>5, <3>9, <3>10 DEF TypeOK
    <3>12. manifest' \in [hdr : Header, log : Seq(Version)] /\ manifest'.log # <<>>
      <4>1. mh \in Header /\ <<survivor>> \in Seq(Version) /\ <<survivor>> # <<>>
        BY <3>2, <3>3
      <4> QED BY Zenon, <3>4, <4>1
    <3>13. /\ crashes' = crashes + 1 /\ pc' = "down" /\ LoseMemory
           /\ acked' = promised /\ UNCHANGED <<sst, issued, promised>>
      BY Zenon, <2>2 DEF PowerLoss
    <3>14. acked' \in [Key -> Nat] /\ promised' \in [Key -> Nat] /\ crashes' \in Nat
      BY <3>13 DEF TypeOK
    <3> QED BY Zenon, <3>11, <3>12, <3>13, <3>14, <1>LoseMemory
  <2> QED BY Zenon, <2>1, <2>2
<1> QED BY Zenon, <1>Stutter, <1>Open, <1>OpenWal, <1>Put, <1>Flush, <1>Commit,
     <1>Committed, <1>Compaction, <1>Close, <1>Crash
  DEF Next, EngineStep, ClientStep

-----------------------------------------------------------------------------
(* Table files. *)

Below(v)     == \A t \in v.tables : t.id < v.next_table_id
UniqueIds(v) == \A t, u \in v.tables : t.id = u.id => t = u

Compaction == job.kind \in {"background", "manual"}

\* The inductive invariant.  Ids at or above next_table_id of the catalog are
\* in no version that recovery may find, so writing (or cleaning up) tables
\* under them disturbs none; and a compaction's inputs are in none once its
\* edit is synced, so removing them disturbs none either.
TableInv ==
    /\ \A v \in Recoverable \cup {catalog} : Intact(v) /\ Below(v)
    /\ \A v \in Recoverable : v.next_table_id <= Latest(manifest.log).next_table_id
    /\ UniqueIds(catalog)
    /\ pc \in {"down", "open_manifest"} => catalog = EmptyVersion
    /\ pc \notin {"down", "open_manifest", "sync"} => catalog = Latest(manifest.log)
    /\ pc = "sync" => Latest(manifest.log) = job.staged /\ UniqueIds(job.staged)
    /\ pc \in {"committed", "remove_sst"} =>
          manifest.log = <<catalog>> /\ catalog = job.staged
    /\ pc = "flush_edit" => sst[catalog.next_table_id] = Head(imm)
    /\ pc \in {"replacement_sync", "append"} => Intact(job.staged)
    /\ pc \in {"append", "sync", "committed", "remove_sst"} /\ Compaction =>
          \A t \in job.staged.tables : t.id \notin job.obsolete

-----------------------------------------------------------------------------
\* A synced MANIFEST replays to one version.
LEMMA RangeOfSingle ==
    ASSUME NEW v
    PROVE  Range(<<v>>) = {v} /\ Latest(<<v>>) = v
  BY DEF Range, Latest

\* An appended edit adds one version.
LEMMA RangeOfAppend ==
    ASSUME NEW S, NEW s \in Seq(S), NEW v \in S
    PROVE  Range(Append(s, v)) = Range(s) \cup {v} /\ Latest(Append(s, v)) = v
<1>1. DOMAIN Append(s, v) = 1 .. Len(s) + 1 /\ Len(s) \in Nat
  OBVIOUS
<1>2. \A i \in 1 .. Len(s) : Append(s, v)[i] = s[i]
  OBVIOUS
<1>3. Append(s, v)[Len(s) + 1] = v
  OBVIOUS
<1>4. Len(Append(s, v)) = Len(s) + 1
  OBVIOUS
<1>5. Range(Append(s, v)) \subseteq Range(s) \cup {v}
  BY <1>1, <1>2, <1>3 DEF Range
<1>6. Range(s) \cup {v} \subseteq Range(Append(s, v))
  BY <1>1, <1>2, <1>3 DEF Range
<1> QED BY Zenon, <1>3, <1>4, <1>5, <1>6 DEF Latest

\* The whole MANIFEST is one of its prefixes.
LEMMA LatestInRange ==
    ASSUME NEW S, NEW s \in Seq(S), s # <<>>
    PROVE  Latest(s) \in Range(s)
  BY DEF Latest, Range

\* The empty database refers to no table.
LEMMA TableInit == Init => TableInv
<1> SUFFICES ASSUME Init PROVE TableInv
  BY Zenon
<1>1. manifest.log = <<EmptyVersion>> /\ catalog = EmptyVersion /\ pc = "down"
  BY Zenon DEF Init
<1>2. Recoverable = {EmptyVersion} /\ Latest(manifest.log) = EmptyVersion
  BY Zenon, <1>1, RangeOfSingle DEF Recoverable
<1>3. Intact(EmptyVersion) /\ Below(EmptyVersion) /\ UniqueIds(EmptyVersion)
  BY Zenon DEF Intact, Below, UniqueIds, EmptyVersion
<1>4. EmptyVersion.next_table_id <= EmptyVersion.next_table_id
  BY DEF EmptyVersion
<1> QED BY Zenon, <1>1, <1>2, <1>3, <1>4 DEF TableInv

\* Attached: the catalog in memory is what the MANIFEST's last edit leads to.
Attached == pc \notin {"down", "open_manifest", "sync"}

\* TableInv is preserved by every step.
LEMMA TableStep ==
    ASSUME LevelFacts, ~Fails("manifest_sync")
    PROVE  Typed /\ TableInv /\ [Next]_vars => TableInv'
  \* Most steps leave the MANIFEST, the tables and the catalog alone and lead to
  \* a point of a call of which the invariant says nothing more.
<1>Quiet.
    ASSUME TableInv, manifest'.log = manifest.log, sst' = sst, catalog' = catalog,
           pc \notin {"down", "open_manifest", "sync"},
           pc' \notin {"down", "open_manifest", "sync", "committed", "remove_sst",
                       "flush_edit", "replacement_sync", "append"}
    PROVE  TableInv'
  <2> USE <1>Quiet
  <2>1. \A v : Intact(v) => Intact(v)'
    BY Zenon DEF Intact
  <2> QED BY Zenon, <2>1 DEF TableInv, Recoverable
  \* The process ends, in an orderly way or not.
<1>Down.
    ASSUME TableInv, catalog' = EmptyVersion, sst' = sst, pc' = "down",
           Recoverable' \subseteq Recoverable \cup {EmptyVersion},
           \A v \in Recoverable' : v.next_table_id <= Latest(manifest'.log).next_table_id
    PROVE  TableInv'
  <2> USE <1>Down
  <2>1. \A v : Intact(v) => Intact(v)'
    BY Zenon DEF Intact
  <2>2. Intact(EmptyVersion)' /\ Below(EmptyVersion) /\ UniqueIds(EmptyVersion)
    BY Zenon DEF Intact, Below, UniqueIds, EmptyVersion
  <2>3. \A v \in Recoverable' \cup {catalog'} : Intact(v)' /\ Below(v)
    BY Zenon, <2>1, <2>2 DEF TableInv
  <2> QED BY Zenon, <2>2, <2>3 DEF TableInv
  \* Loading the manifest takes over a recoverable version.
<1>Open.
    ASSUME Typed, TableInv,
           \/ Open \/ CreateManifest \/ WriteManifestHeader \/ SyncManifestHeader
           \/ LoadManifest \/ RefuseManifest
    PROVE  TableInv'
  <2> USE <1>Open
  <2> USE DEF Goto, files, memory
  <2>0. \A v : sst' = sst /\ Intact(v) => Intact(v)'
    BY Zenon DEF Intact
  <2>1. CASE Open
    BY Zenon, <2>0, <2>1 DEF Open, TableInv, Recoverable
  <2>2. CASE CreateManifest
    <3>1. catalog' = EmptyVersion /\ manifest'.log = <<EmptyVersion>> /\ sst' = sst
          /\ pc' = "manifest_header"
      BY Zenon, <2>2 DEF CreateManifest, TableInv
    <3>2. Recoverable' = {EmptyVersion} /\ Latest(manifest'.log) = EmptyVersion
      BY Zenon, <3>1, RangeOfSingle DEF Recoverable
    <3>3. Intact(EmptyVersion)' /\ Below(EmptyVersion) /\ UniqueIds(EmptyVersion)
      BY Zenon DEF Intact, Below, UniqueIds, EmptyVersion
    <3>4. EmptyVersion.next_table_id <= EmptyVersion.next_table_id
      BY DEF EmptyVersion
    <3> QED BY Zenon, <3>1, <3>2, <3>3, <3>4 DEF TableInv
  <2>3. CASE WriteManifestHeader
    BY Zenon, <2>3, <1>Quiet DEF WriteManifestHeader, Typed, TypeOK
  <2>4. CASE SyncManifestHeader
    BY Zenon, <2>4, <1>Quiet DEF SyncManifestHeader, Typed, TypeOK
  <2>5. CASE LoadManifest
    <3>1. Latest(manifest.log) \in Recoverable
      BY Zenon, LatestInRange DEF Typed, TypeOK, Recoverable
    <3>2. UniqueIds(Latest(manifest.log))
      BY Zenon, <2>5 DEF LoadManifest, check_invariants, UniqueIds
    <3> QED BY Zenon, <2>0, <2>5, <3>1, <3>2 DEF LoadManifest, TableInv, Recoverable
  <2>6. CASE RefuseManifest
    <3>1. catalog' = EmptyVersion /\ UNCHANGED <<manifest, sst>> /\ pc' = "down"
      BY Zenon, <2>6 DEF RefuseManifest, OpenFails, LoseMemory
    <3> QED BY Zenon, <3>1, <1>Down DEF TableInv, Recoverable
  <2> QED BY Zenon, <2>1, <2>2, <2>3, <2>4, <2>5, <2>6
  \* WAL recovery stages an edit with the same tables.
<1>OpenWal.
    ASSUME Typed, TableInv,
           \/ CreateWal \/ WriteWalHeader \/ SyncWalHeader \/ RecoverWal
           \/ RefuseWal \/ SyncReplacement \/ SyncReplacementFails
    PROVE  TableInv'
  <2> USE <1>OpenWal
  <2> USE DEF Goto, files, memory
  <2>0. \A v : sst' = sst /\ Intact(v) => Intact(v)'
    BY Zenon DEF Intact
  <2>1. CASE CreateWal
    BY Zenon, <2>1, <1>Quiet DEF CreateWal
  <2>2. CASE WriteWalHeader
    BY Zenon, <2>2, <1>Quiet DEF WriteWalHeader
  <2>3. CASE SyncWalHeader
    BY Zenon, <2>3, <1>Quiet DEF SyncWalHeader
  <2>4. CASE RecoverWal
    <3>1. PICK next \in SeqNum : Replay(Loaded(wal[catalog.wal_id].recs), next)
      BY Zenon, <2>4 DEF RecoverWal
    <3>2. /\ pc = "open_wal" /\ pc' = "replacement_sync"
          /\ UNCHANGED <<manifest, sst, catalog>>
          /\ job' = [NoJob EXCEPT !.call = "open", !.kind = "open",
                              !.repl = catalog.wal_id + 1,
                              !.staged = [catalog EXCEPT !.wal_id = @ + 1,
                                                         !.next_seq = next]]
      BY Zenon, <3>1 DEF Replay
    <3>3. job'.staged.tables = catalog.tables
      BY Zenon, <3>2 DEF NoJob, Typed, TypeOK, Version
    <3>4. Intact(job.staged)'
      BY Zenon, <3>2, <3>3 DEF TableInv, Intact
    <3> QED BY Zenon, <2>0, <3>2, <3>4 DEF TableInv, Recoverable
  <2>5. CASE RefuseWal
    <3>1. catalog' = EmptyVersion /\ UNCHANGED <<manifest, sst>> /\ pc' = "down"
      BY Zenon, <2>5 DEF RefuseWal, OpenFails, LoseMemory
    <3> QED BY Zenon, <3>1, <1>Down DEF TableInv, Recoverable
  <2>6. CASE SyncReplacement
    <3>1. /\ pc = "replacement_sync" /\ pc' = "append" /\ job.kind = "open"
          /\ UNCHANGED <<manifest, sst, catalog, job>>
      BY Zenon, <2>6 DEF SyncReplacement, Typed, Pending
    <3> QED BY Zenon, <2>0, <3>1 DEF TableInv, Recoverable, Compaction
  <2>7. CASE SyncReplacementFails
    <3>1. catalog' = EmptyVersion /\ UNCHANGED <<manifest, sst>> /\ pc' = "down"
      BY Zenon, <2>7 DEF SyncReplacementFails, OpenFails, LoseMemory
    <3> QED BY Zenon, <3>1, <1>Down DEF TableInv, Recoverable
  <2> QED BY Zenon, <2>1, <2>2, <2>3, <2>4, <2>5, <2>6, <2>7
  \* No version refers to an id that the catalog has not allocated ...
<1>FreshIds.
    ASSUME Typed, TableInv, Attached, NEW v \in Recoverable \cup {catalog}, NEW t \in v.tables
    PROVE  t.id \in TableId /\ t.id < catalog.next_table_id
  <2> USE <1>FreshIds
  <2>1. v \in Version /\ catalog \in Version
    BY Zenon, RangeType DEF Typed, TypeOK, Recoverable
  <2>2. t.id \in TableId
    BY Zenon, <2>1 DEF Version, TableMeta
  <2>3. t.id < v.next_table_id
    BY Zenon DEF TableInv, Below
  <2>4. v.next_table_id \in Nat /\ catalog.next_table_id \in Nat
    BY Zenon, <2>1, VersionNumbers
  <2>5. t.id \in Int
    BY <2>2, LsmAssumption DEF TableId
  <2>6. v = catalog \/ v.next_table_id <= catalog.next_table_id
    BY Zenon DEF TableInv, Attached
  <2>7. t.id < catalog.next_table_id
    BY ONLY <2>3, <2>4, <2>5, <2>6
  <2> QED BY Zenon, <2>2, <2>7
  \* ... so writing or removing files of such ids leaves every version intact.
<1>KeepsIntact.
    ASSUME Typed, TableInv, Attached,
           \A i \in TableId : i < catalog.next_table_id => sst'[i] = sst[i],
           NEW v \in Recoverable \cup {catalog}
    PROVE  Intact(v)'
  <2> USE <1>KeepsIntact
  <2>1. \A t \in v.tables : sst'[t.id] = sst[t.id]
    BY Zenon, <1>FreshIds
  <2>2. Intact(v)
    BY Zenon DEF TableInv
  <2> QED BY Zenon, <2>1, <2>2 DEF Intact
  \* put_impl touches neither tables nor versions.
<1>Put.
    ASSUME Typed, TableInv,
           \/ \E k \in Key, del \in BOOLEAN : PutWrite(k, del) \/ PutWriteFails(k, del)
           \/ PutSync \/ PutSyncFails \/ PutApply
    PROVE  TableInv'
  <2> USE <1>Put
  <2> USE DEF Goto, files, memory
  <2>1. ASSUME NEW k \in Key, NEW del \in BOOLEAN, PutWrite(k, del) PROVE TableInv'
    BY Zenon, <2>1, <1>Quiet DEF PutWrite
  <2>2. ASSUME NEW k \in Key, NEW del \in BOOLEAN, PutWriteFails(k, del) PROVE TableInv'
    BY Zenon, <2>2, <1>Quiet DEF PutWriteFails
  <2>3. CASE PutSync
    BY Zenon, <2>3, <1>Quiet DEF PutSync
  <2>4. CASE PutSyncFails
    BY Zenon, <2>4, <1>Quiet DEF PutSyncFails, ReturnError
  <2>5. CASE PutApply
    BY Zenon, <2>5, <1>Quiet DEF PutApply, ReturnOk
  <2> QED BY Zenon, <2>1, <2>2, <2>3, <2>4, <2>5
  \* A flush writes its table under the fresh id and stages it.
<1>Flush.
    ASSUME Typed, TableInv,
           \/ Flush \/ Freeze \/ Drained \/ FlushTable \/ FlushTableFails
           \/ FlushEdit \/ FlushEditFails
    PROVE  TableInv'
  <2> USE <1>Flush
  <2> USE DEF Goto, files, memory
  <2>1. CASE Flush
    BY Zenon, <2>1, <1>Quiet DEF Flush
  <2>2. CASE Freeze
    BY Zenon, <2>2, <1>Quiet DEF Freeze
  <2>3. CASE Drained
    BY Zenon, <2>3, <1>Quiet DEF Drained
  <2>4. CASE FlushTable
    <3>1. /\ pc = "drain" /\ pc' = "flush_edit" /\ UNCHANGED <<manifest, catalog, imm>>
          /\ catalog.next_table_id <= MaxTableId
          /\ sst' = [sst EXCEPT ![catalog.next_table_id] = Head(imm)]
      BY Zenon, <2>4 DEF FlushTable
    <3>2. catalog.next_table_id \in TableId
      BY <3>1, LsmAssumption DEF Typed, TypeOK, Version, TableId
    <3>3. sst'[catalog.next_table_id] = Head(imm)
      BY Zenon, <3>1, <3>2 DEF Typed, TypeOK
    <3>4. \A i \in TableId : i < catalog.next_table_id => sst'[i] = sst[i]
      BY <3>1, <3>2 DEF Typed, TypeOK, TableId
    <3>5. \A v \in Recoverable \cup {catalog} : Intact(v)'
      BY Zenon, <3>1, <3>4, <1>KeepsIntact DEF Attached
    <3> QED BY Zenon, <3>1, <3>3, <3>5 DEF TableInv, Recoverable
  <2>5. CASE FlushTableFails
    <3>1. /\ pc = "drain" /\ pc' = "idle" /\ UNCHANGED <<manifest, catalog, imm>>
          /\ \/ UNCHANGED sst
             \/ sst' = [sst EXCEPT ![catalog.next_table_id] = Head(imm)]
      BY Zenon, <2>5 DEF FlushTableFails, ReturnError
    <3>2. catalog.next_table_id \in Nat
      BY DEF Typed, TypeOK, Version
    <3>3. \A i \in TableId : i < catalog.next_table_id => sst'[i] = sst[i]
      <4>1. \A i \in TableId : i < catalog.next_table_id => i # catalog.next_table_id
        BY <3>2 DEF TableId
      <4>2. DOMAIN sst = TableId
        BY Zenon DEF Typed, TypeOK
      <4> QED BY Zenon, <3>1, <4>1, <4>2
    <3>4. \A v \in Recoverable \cup {catalog} : Intact(v)'
      BY Zenon, <3>1, <3>3, <1>KeepsIntact DEF Attached
    <3> QED BY Zenon, <3>1, <3>4 DEF TableInv, Recoverable
  <2>6. CASE FlushEdit
    <3> DEFINE t == [id |-> catalog.next_table_id, level |-> 0, recs |-> Head(imm)]
    <3>1. /\ pc = "flush_edit" /\ pc' = "append" /\ UNCHANGED <<manifest, sst, catalog>>
          /\ FlushRotates \/ FlushKeepsWal
      BY Zenon, <2>6 DEF FlushEdit
    <3>2. FlushedVersion.tables = catalog.tables \cup {t}
      BY Zenon DEF FlushedVersion, Typed, TypeOK, Version
    <3>3. job'.staged.tables = FlushedVersion.tables /\ job'.kind = "flush"
      <4>1. CASE FlushRotates
        BY Zenon, <4>1 DEF FlushRotates, FlushedVersion, Typed, TypeOK, Job, Version
      <4>2. CASE FlushKeepsWal
        BY Zenon, <4>2 DEF FlushKeepsWal, Typed, TypeOK, Job
      <4> QED BY Zenon, <3>1, <4>1, <4>2
    <3>4. Intact(job.staged)'
      <4>1. \A u \in catalog.tables : sst'[u.id] = u.recs
        BY Zenon, <3>1 DEF TableInv, Intact
      <4>2. sst'[t.id] = t.recs
        BY Zenon, <3>1 DEF TableInv
      <4> QED BY Zenon, <3>2, <3>3, <4>1, <4>2 DEF Intact
    <3>5. \A v \in Recoverable \cup {catalog} : Intact(v)'
      BY Zenon, <3>1 DEF TableInv, Intact
    <3> QED BY Zenon, <3>1, <3>3, <3>4, <3>5 DEF TableInv, Recoverable, Compaction
  <2>7. CASE FlushEditFails
    BY Zenon, <2>7, <1>Quiet DEF FlushEditFails, ReturnError
  <2> QED BY Zenon, <2>1, <2>2, <2>3, <2>4, <2>5, <2>6, <2>7
  \* A commit that fails before the append leaves the versions alone.
<1>CommitFails.
    ASSUME Typed, TableInv, CommitFails, pc = "append", UNCHANGED <<manifest, sst>>
    PROVE  TableInv'
  <2> USE <1>CommitFails
  <2>1. CASE OpenFails
    BY Zenon, <2>1, <1>Down DEF OpenFails, LoseMemory, TableInv, Recoverable
  <2>2. CASE ReturnError /\ UNCHANGED catalog
    BY Zenon, <2>2, <1>Quiet DEF ReturnError
  <2> QED BY Zenon, <2>1, <2>2 DEF CommitFails
  \* Appending adds the staged version, syncing leaves only it.
<1>Commit.
    ASSUME Typed, TableInv, ~Fails("manifest_sync"),
           \/ AppendEdit \/ RefuseEdit \/ AppendEditFails \/ SyncEdit \/ SyncEditFails
    PROVE  TableInv'
  <2> USE <1>Commit
  <2> USE DEF Goto, memory
  <2>0. manifest.log \in Seq(Version) /\ job.staged \in Version /\ catalog \in Version
    BY Zenon DEF Typed, TypeOK, Job
  <2>1. CASE AppendEdit
    <3>1. /\ pc = "append" /\ pc' = "sync" /\ UNCHANGED <<sst, job, catalog>>
          /\ manifest'.log = Append(manifest.log, job.staged)
          /\ stage_apply(catalog, job.staged)
      BY Zenon, <2>1 DEF AppendEdit, Typed, TypeOK
    <3>2. Recoverable' = Recoverable \cup {job.staged} /\ Latest(manifest'.log) = job.staged
      BY <2>0, <3>1, RangeOfAppend DEF Recoverable
    <3>3. /\ Intact(job.staged) /\ Below(job.staged) /\ UniqueIds(job.staged)
          /\ catalog.next_table_id <= job.staged.next_table_id
      BY Zenon, <2>0, <3>1 DEF TableInv, stage_apply, check_invariants, Below, UniqueIds, Version
    <3>4. ASSUME NEW v \in Recoverable PROVE v.next_table_id <= job.staged.next_table_id
      <4>1. v \in Version
        BY Zenon, <2>0, RangeType DEF Recoverable
      <4>2. v.next_table_id <= catalog.next_table_id
        BY Zenon, <3>1 DEF TableInv
      <4> QED BY <2>0, <3>3, <4>1, <4>2 DEF Version
    <3>5. \A v \in Recoverable' \cup {catalog'} : Intact(v)' /\ Below(v)
      BY Zenon, <3>1, <3>2, <3>3 DEF TableInv, Intact
    <3>6. \A v \in Recoverable' : v.next_table_id <= Latest(manifest'.log).next_table_id
      BY <2>0, <3>2, <3>4 DEF Version
    <3> QED BY Zenon, <3>1, <3>2, <3>3, <3>5, <3>6 DEF TableInv, Compaction
  <2>2. CASE RefuseEdit
    BY Zenon, <2>2, <1>CommitFails DEF RefuseEdit
  <2>3. CASE AppendEditFails
    BY Zenon, <2>3, <1>CommitFails DEF AppendEditFails
  <2>4. CASE SyncEdit
    <3>1. /\ pc = "sync" /\ pc' = "committed" /\ UNCHANGED <<sst, job>>
          /\ manifest'.log = <<job.staged>> /\ catalog' = job.staged
      BY Zenon, <2>4 DEF SyncEdit, SyncedManifest, TableInv
    <3>2. Recoverable' = {job.staged} /\ Latest(manifest'.log) = job.staged
      BY Zenon, <3>1, RangeOfSingle DEF Recoverable
    <3>3. job.staged \in Recoverable
      BY Zenon, <2>0, <3>1, LatestInRange DEF TableInv, Recoverable, Typed, TypeOK
    <3>4. Intact(job.staged)' /\ Below(job.staged) /\ UniqueIds(job.staged)
      BY Zenon, <3>1, <3>3 DEF TableInv, Intact
    <3>5. job.staged.next_table_id <= job.staged.next_table_id
      BY <2>0 DEF Version
    <3> QED BY Zenon, <3>1, <3>2, <3>4, <3>5 DEF TableInv, Compaction
  <2>5. CASE SyncEditFails
    BY Zenon, <2>5 DEF SyncEditFails
  <2> QED BY Zenon, <2>1, <2>2, <2>3, <2>4, <2>5
  \* What follows a commit of open_wal or a flush.
<1>Committed.
    ASSUME Typed, TableInv,
           \/ OpenCommitted \/ FlushCommitted \/ FlushCommittedFails
           \/ RemoveWal \/ RemoveWalFails
    PROVE  TableInv'
  <2> USE <1>Committed
  <2> USE DEF Goto, files, memory
  <2>1. CASE OpenCommitted
    BY Zenon, <2>1, <1>Quiet DEF OpenCommitted
  <2>2. CASE FlushCommitted
    <3>1. /\ pc = "committed" /\ pc' \in {"drain", "remove_wal"}
          /\ UNCHANGED <<manifest, sst, catalog>>
      BY Zenon, <2>2 DEF FlushCommitted
    <3> QED BY Zenon, <3>1, <1>Quiet
  <2>3. CASE FlushCommittedFails
    BY Zenon, <2>3, <1>Quiet DEF FlushCommittedFails, ReturnError
  <2>4. CASE RemoveWal
    <3>1. /\ pc = "remove_wal" /\ pc' \in {"idle", "drain"}
          /\ UNCHANGED <<manifest, sst, catalog>>
      BY Zenon, <2>4 DEF RemoveWal
    <3> QED BY Zenon, <3>1, <1>Quiet
  <2>5. CASE RemoveWalFails
    <3>1. CASE OpenFails
      BY Zenon, <2>5, <3>1, <1>Down DEF RemoveWalFails, OpenFails, LoseMemory, TableInv, Recoverable
    <3>2. CASE ReturnError /\ UNCHANGED memory
      BY Zenon, <2>5, <3>2, <1>Quiet DEF RemoveWalFails, ReturnError
    <3> QED BY Zenon, <2>5, <3>1, <3>2 DEF RemoveWalFails
  <2> QED BY Zenon, <2>1, <2>2, <2>3, <2>4, <2>5
  \* A job writes its outputs under fresh ids, stages them, and marks for removal
  \* only ids that the staged version no longer has.
<1>RunJob.
    ASSUME LevelFacts, Typed, TableInv, Attached, NEW plan, NEW kind,
           Inputs(plan) \subseteq catalog.tables, plan.level + 1 \in LevelId,
           RunJob(plan, kind)
    PROVE  TableInv'
  <2> USE <1>RunJob
  <2> DEFINE outs == JobOutputs(plan)
             kept == catalog.tables \ Inputs(plan)
             n    == catalog.next_table_id
  <2>1. /\ sst' = JobWrites(outs) /\ pc' = "append" /\ UNCHANGED <<manifest, catalog>>
        /\ job' = [job EXCEPT !.kind = kind,
                             !.staged = [catalog EXCEPT
                                 !.tables = kept \cup outs,
                                 !.next_table_id = @ + Cardinality(outs)],
                             !.obsolete = {t.id : t \in Inputs(plan)}]
    BY Zenon DEF RunJob, JobStages, Goto, memory
  <2>2. job'.staged.tables = kept \cup outs /\ job'.obsolete = {t.id : t \in Inputs(plan)}
    BY Zenon, <2>1 DEF Typed, TypeOK, Job, Version
  <2>3. n \in Nat
    BY DEF Typed, TypeOK, Version
  <2>4. outs \subseteq TableMeta
    BY Zenon, JobOutputsType DEF RunJob, Typed
  <2>5. /\ \A t \in outs : t.id \in Nat /\ t.id >= n
        /\ \A t, u \in outs : t.id = u.id => t = u
    BY Zenon, JobOutputsType DEF Typed
  <2> HIDE DEF outs
  <2>7. \A t \in outs : t.id \in Nat /\ t.id >= n
    BY Zenon, <2>5
  <2>8. \A t, u \in outs : t.id = u.id => t = u
    BY Zenon, <2>5
  <2>9. \A t \in outs : sst'[t.id] = t.recs
    <3> SUFFICES ASSUME NEW t \in outs PROVE sst'[t.id] = t.recs
      BY Zenon
    <3>1. t.id \in TableId
      BY Zenon, <2>4 DEF TableMeta
    <3>2. (CHOOSE u \in outs : u.id = t.id) = t
      BY Zenon, <2>8
    <3> QED BY Zenon, <2>1, <3>1, <3>2 DEF JobWrites
  <2>10. \A i \in TableId : i < n => sst'[i] = sst[i]
    BY <2>1, <2>3, <2>7 DEF JobWrites, TableId
  <2>11. \A v \in Recoverable \cup {catalog} : Intact(v)'
    BY Zenon, <2>10, <1>KeepsIntact
  <2>12. Intact(job.staged)'
    BY Zenon, <2>1, <2>2, <2>9, <2>11 DEF Intact
  <2>13. \A t \in job'.staged.tables : t.id \notin job'.obsolete
    <3>1. ASSUME NEW t \in kept, NEW u \in Inputs(plan) PROVE t.id # u.id
      BY Zenon DEF TableInv, UniqueIds
    <3>2. ASSUME NEW t \in outs, NEW u \in Inputs(plan) PROVE t.id # u.id
      <4>1. u.id \in TableId /\ u.id < n
        BY Zenon, <1>FreshIds
      <4> QED BY <2>3, <2>7, <4>1 DEF TableId
    <3> QED BY Zenon, <2>2, <3>1, <3>2
  <2> QED BY Zenon, <2>1, <2>11, <2>12, <2>13 DEF TableInv, Attached, Recoverable
  \* A job that fails removes only files of fresh ids.
<1>JobFails.
    ASSUME LevelFacts, Typed, TableInv, Attached, NEW plan,
           Inputs(plan) \subseteq catalog.tables, plan.level + 1 \in LevelId,
           JobFails(plan)
    PROVE  TableInv'
  <2> USE <1>JobFails
  <2>1. \A i \in TableId : i < catalog.next_table_id => sst'[i] = sst[i]
    <3>1. catalog.next_table_id \in Nat
      BY DEF Typed, TypeOK, Version
    <3>2. ASSUME NEW n \in Nat, NEW published, NEW i \in TableId,
                 i < catalog.next_table_id
          PROVE  JobCleanup(plan, n, published)[i] = sst[i]
      <4>1. i - catalog.next_table_id \notin 0 .. n - 1 /\ i - catalog.next_table_id # n
        BY <3>1, <3>2 DEF TableId
      <4> QED BY Zenon, <4>1 DEF JobCleanup
    <3>3. Cardinality(JobOutputs(plan)) \in Nat
      BY Zenon, JobOutputsType DEF Typed
    <3>4. \/ sst' = sst
          \/ \E n \in Nat, published \in BOOLEAN : sst' = JobCleanup(plan, n, published)
      <4>1. CASE sst' = JobCleanup(plan, Cardinality(JobOutputs(plan)), FALSE)
        BY Zenon, <3>3, <4>1
      <4>2. ASSUME NEW n \in 0 .. Cardinality(JobOutputs(plan)) - 1,
                   NEW published \in BOOLEAN, sst' = JobCleanup(plan, n, published)
            PROVE  \E m \in Nat, p \in BOOLEAN : sst' = JobCleanup(plan, m, p)
        <5>1. n \in Nat
          BY <3>3
        <5> QED BY Zenon, <4>2, <5>1
      <4> QED BY Zenon, <4>1, <4>2 DEF JobFails
    <3> QED BY Zenon, <3>2, <3>4
  <2>2. pc' = "idle" /\ UNCHANGED <<manifest, catalog>>
    BY Zenon DEF JobFails, ReturnError, memory
  <2>3. \A v \in Recoverable \cup {catalog} : Intact(v)'
    BY Zenon, <2>1, <1>KeepsIntact
  <2> QED BY Zenon, <2>2, <2>3 DEF TableInv, Attached, Recoverable
  \* Compaction, including the removal of its inputs after the commit.
<1>Compaction.
    ASSUME LevelFacts, Typed, TableInv,
           \/ FlushDone \/ BackgroundCompact \/ BackgroundCompactFails
           \/ ManualSkip \/ ManualCompact \/ ManualCompactFails \/ ManualDone
           \/ CompactCommitted \/ (\E i \in job.obsolete : RemoveSst(i))
           \/ RemoveSstFails \/ CompactDone
           \/ (\E range \in Ranges : CompactRange(range[1], range[2]))
    PROVE  TableInv'
  <2> USE <1>Compaction
  <2> USE DEF Goto, files, memory
  <2>a. catalog.tables \in SUBSET TableMeta
    BY Zenon DEF Typed, TypeOK, Version
  <2>1. CASE FlushDone
    <3>1. /\ pc = "maybe_compact" /\ pc' \in {"idle", "manual"}
          /\ UNCHANGED <<manifest, sst, catalog>>
      BY Zenon, <2>1 DEF FlushDone, ReturnOk, ReturnError
    <3> QED BY Zenon, <3>1, <1>Quiet
  <2>2. CASE BackgroundCompact
    <3> DEFINE plan == pick_compaction(catalog.tables)
    <3>1. Inputs(plan) \subseteq catalog.tables /\ plan.level + 1 \in LevelId
      BY Zenon, <2>2, <2>a DEF BackgroundCompact, Compacts, LevelFacts, PicksTyped
    <3> QED BY Zenon, <2>2, <3>1, <1>RunJob DEF BackgroundCompact, Attached
  <2>3. CASE BackgroundCompactFails
    <3> DEFINE plan == pick_compaction(catalog.tables)
    <3>1. Inputs(plan) \subseteq catalog.tables /\ plan.level + 1 \in LevelId
      BY Zenon, <2>3, <2>a DEF BackgroundCompactFails, Compacts, LevelFacts, PicksTyped
    <3> QED BY Zenon, <2>3, <3>1, <1>JobFails DEF BackgroundCompactFails, Attached
  <2>4. CASE ManualSkip
    BY Zenon, <2>4, <1>Quiet DEF ManualSkip
  <2>5. CASE ManualCompact
    <3>1. /\ Inputs(ManualPlan) \subseteq catalog.tables
          /\ ManualPlan.level = job.level
      BY Zenon, <2>a DEF ManualPlan, manual_plan, Inputs, find_overlapping_tables, Level
    <3>2. job.level + 1 \in LevelId
      BY <2>5, LsmAssumption DEF ManualCompact, LevelId, Typed, TypeOK, Job
    <3> QED BY Zenon, <2>5, <3>1, <3>2, <1>RunJob DEF ManualCompact, Attached
  <2>6. CASE ManualCompactFails
    <3>1. /\ Inputs(ManualPlan) \subseteq catalog.tables
          /\ ManualPlan.level = job.level
      BY Zenon, <2>a DEF ManualPlan, manual_plan, Inputs, find_overlapping_tables, Level
    <3>2. job.level + 1 \in LevelId
      BY <2>6, LsmAssumption DEF ManualCompactFails, LevelId, Typed, TypeOK, Job
    <3> QED BY Zenon, <2>6, <3>1, <3>2, <1>JobFails DEF ManualCompactFails, Attached
  <2>7. CASE ManualDone
    BY Zenon, <2>7, <1>Quiet DEF ManualDone, ReturnOk
  <2>8. CASE CompactCommitted
    <3>1. /\ pc = "committed" /\ pc' = "remove_sst"
          /\ UNCHANGED <<manifest, sst, catalog, job>>
      BY Zenon, <2>8 DEF CompactCommitted
    <3>2. \A v \in Recoverable \cup {catalog} : Intact(v)'
      BY Zenon, <3>1 DEF TableInv, Intact
    <3> QED BY Zenon, <3>1, <3>2 DEF TableInv, Recoverable, Compaction
  <2>9. ASSUME NEW i \in job.obsolete, RemoveSst(i) PROVE TableInv'
    <3>1. /\ pc = "remove_sst" /\ pc' = "remove_sst" /\ UNCHANGED <<manifest, catalog>>
          /\ sst' = [sst EXCEPT ![i] = {}]
          /\ job' = [job EXCEPT !.obsolete = @ \ {i}]
      BY Zenon, <2>9 DEF RemoveSst
    <3>2. job'.staged = job.staged /\ job'.kind = job.kind /\ job'.obsolete \subseteq job.obsolete
      BY Zenon, <3>1 DEF Typed, TypeOK, Job
    <3>3. Compaction
      BY Zenon, <3>1 DEF Typed, Pending, Compaction
    <3>4. Recoverable = {catalog} /\ catalog = job.staged
      BY Zenon, <3>1, RangeOfSingle DEF TableInv, Recoverable
    <3>5. \A t \in catalog.tables : t.id # i /\ t.id \in TableId
      BY Zenon, <2>a, <3>1, <3>3, <3>4 DEF TableInv, TableMeta
    <3>6. Intact(catalog)'
      BY Zenon, <3>1, <3>5 DEF TableInv, Intact, Typed, TypeOK
    <3>7. \A v \in Recoverable' \cup {catalog'} : Intact(v)' /\ Below(v)
      BY Zenon, <3>1, <3>4, <3>6 DEF TableInv, Recoverable, Intact
    <3> QED BY Zenon, <3>1, <3>2, <3>3, <3>7 DEF TableInv, Recoverable, Compaction
  <2>10. CASE RemoveSstFails
    BY Zenon, <2>10, <1>Quiet DEF RemoveSstFails, ReturnError
  <2>11. CASE CompactDone
    <3>1. /\ pc = "remove_sst" /\ pc' \in {"maybe_compact", "manual"}
          /\ UNCHANGED <<manifest, sst, catalog>>
      BY Zenon, <2>11 DEF CompactDone
    <3> QED BY Zenon, <3>1, <1>Quiet
  <2>12. ASSUME NEW range \in Ranges, CompactRange(range[1], range[2]) PROVE TableInv'
    BY Zenon, <2>12, <1>Quiet DEF CompactRange
  <2> QED BY Zenon, <2>1, <2>2, <2>3, <2>4, <2>5, <2>6, <2>7, <2>8, <2>9, <2>10, <2>11, <2>12
  \* Engine::close syncs the last version.
<1>Close.
    ASSUME Typed, TableInv, Close \/ CloseManifest \/ CloseManifestFails \/ CloseWalFails
    PROVE  TableInv'
  <2> USE <1>Close
  <2> USE DEF Goto, files, memory
  <2>a. Latest(manifest.log) \in Version /\ Latest(manifest.log) \in Recoverable
    BY Zenon, LatestType, LatestInRange DEF Typed, TypeOK, Recoverable
  <2>b. manifest' = SyncedManifest =>
           Recoverable' = {Latest(manifest.log)} /\ Latest(manifest'.log) = Latest(manifest.log)
    BY RangeOfSingle DEF SyncedManifest, Recoverable
  <2>c. Latest(manifest.log).next_table_id <= Latest(manifest.log).next_table_id
    BY <2>a DEF Version
  <2>1. CASE Close
    BY Zenon, <2>1, <1>Quiet DEF Close
  <2>2. CASE CloseManifest
    <3>1. catalog' = EmptyVersion /\ sst' = sst /\ pc' = "down" /\ manifest' = SyncedManifest
      BY Zenon, <2>2 DEF CloseManifest, LoseMemory
    <3> QED BY Zenon, <3>1, <2>a, <2>b, <2>c, <1>Down
  <2>3. CASE CloseManifestFails
    BY Zenon, <2>3, <1>Quiet DEF CloseManifestFails, ReturnError
  <2>4. CASE CloseWalFails
    <3>1. /\ pc = "close_manifest" /\ pc' = "idle" /\ UNCHANGED <<sst, catalog>>
          /\ manifest' = SyncedManifest
      BY Zenon, <2>4 DEF CloseWalFails, ReturnError
    <3>2. \A v : Intact(v) => Intact(v)'
      BY Zenon, <3>1 DEF Intact
    <3> QED BY Zenon, <3>1, <3>2, <2>a, <2>b, <2>c DEF TableInv
  <2> QED BY Zenon, <2>1, <2>2, <2>3, <2>4
  \* A power loss leaves one of the recoverable versions.
<1>Crash.
    ASSUME Typed, TableInv, Kill \/ PowerLoss
    PROVE  TableInv'
  <2> USE <1>Crash
  <2>1. CASE Kill
    BY Zenon, <2>1, <1>Down DEF Kill, LoseMemory, files, TableInv, Recoverable
  <2>2. CASE PowerLoss
    <3>1. PICK mh \in Survives(manifest.hdr), v \in Recoverable :
             manifest' = [hdr |-> mh, log |-> <<IF mh = "ok" THEN v ELSE EmptyVersion>>]
      BY Zenon, <2>2 DEF PowerLoss, Recoverable
    <3> DEFINE survivor == IF mh = "ok" THEN v ELSE EmptyVersion
    <3>2. survivor \in Recoverable \cup {EmptyVersion}
      BY Zenon
    <3>3. Recoverable' = {survivor} /\ Latest(manifest'.log) = survivor
      BY Zenon, <3>1, RangeOfSingle DEF Recoverable
    <3>4. survivor \in Version
      BY Zenon, <3>2, EmptyVersionType, RangeType DEF Recoverable, Typed, TypeOK
    <3> HIDE DEF survivor
    <3>5. survivor.next_table_id <= survivor.next_table_id
      BY <3>4 DEF Version
    <3>6. catalog' = EmptyVersion /\ sst' = sst /\ pc' = "down"
      BY Zenon, <2>2 DEF PowerLoss, LoseMemory
    <3> QED BY Zenon, <3>2, <3>3, <3>5, <3>6, <1>Down
  <2> QED BY Zenon, <2>1, <2>2
  \* Steps of other systems change nothing.
<1>Stutter. TableInv /\ UNCHANGED vars => TableInv'
  <2>1. UNCHANGED vars => \A v : Intact(v) => Intact(v)'
    BY Zenon DEF Intact, vars, files
  <2> QED BY Zenon, <2>1 DEF TableInv, Recoverable, Compaction, vars, files, memory
<1> QED BY Zenon, <1>Stutter, <1>Open, <1>OpenWal, <1>Put, <1>Flush, <1>Commit,
     <1>Committed, <1>Compaction, <1>Close, <1>Crash
  DEF Next, EngineStep, ClientStep

-----------------------------------------------------------------------------
\* A step that changes a table file changes neither the MANIFEST nor the catalog.
LEMMA TableFilesChangeAlone ==
    [Next]_vars => sst' = sst \/ UNCHANGED <<manifest, catalog>>
<1> SUFFICES ASSUME [Next]_vars PROVE sst' = sst \/ UNCHANGED <<manifest, catalog>>
  BY Zenon
<1> USE DEF files, memory
<1>1. CASE FlushTable \/ FlushTableFails
  BY Zenon, <1>1 DEF FlushTable, FlushTableFails
<1>2. CASE BackgroundCompact \/ ManualCompact
  BY Zenon, <1>2 DEF BackgroundCompact, ManualCompact, RunJob
<1>3. CASE BackgroundCompactFails \/ ManualCompactFails
  BY Zenon, <1>3 DEF BackgroundCompactFails, ManualCompactFails, JobFails
<1>4. CASE \E i \in job.obsolete : RemoveSst(i)
  BY Zenon, <1>4 DEF RemoveSst
<1>5. CASE UNCHANGED vars
  BY Zenon, <1>5 DEF vars
<1>6. CASE \/ Open \/ CreateManifest \/ WriteManifestHeader \/ SyncManifestHeader
           \/ LoadManifest \/ RefuseManifest
  BY Zenon, <1>6 DEF Open, CreateManifest, WriteManifestHeader, SyncManifestHeader,
              LoadManifest, RefuseManifest
<1>7. CASE \/ CreateWal \/ WriteWalHeader \/ SyncWalHeader \/ RecoverWal
           \/ RefuseWal \/ SyncReplacement \/ SyncReplacementFails
  BY Zenon, <1>7 DEF CreateWal, WriteWalHeader, SyncWalHeader, RecoverWal, Replay,
              RefuseWal, SyncReplacement, SyncReplacementFails
<1>8. CASE \/ \E k \in Key, del \in BOOLEAN : PutWrite(k, del) \/ PutWriteFails(k, del)
           \/ PutSync \/ PutSyncFails \/ PutApply
  BY Zenon, <1>8 DEF PutWrite, PutWriteFails, PutSync, PutSyncFails, PutApply
<1>9. CASE Flush \/ Freeze \/ Drained \/ FlushEdit \/ FlushEditFails
  BY Zenon, <1>9 DEF Flush, Freeze, Drained, FlushEdit, FlushEditFails
<1>10. CASE AppendEdit \/ RefuseEdit \/ AppendEditFails \/ SyncEdit \/ SyncEditFails
  BY Zenon, <1>10 DEF AppendEdit, RefuseEdit, AppendEditFails, SyncEdit, SyncEditFails
<1>11. CASE \/ OpenCommitted \/ FlushCommitted \/ FlushCommittedFails
            \/ RemoveWal \/ RemoveWalFails
  BY Zenon, <1>11 DEF OpenCommitted, FlushCommitted, FlushCommittedFails, RemoveWal, RemoveWalFails
<1>12. CASE \/ FlushDone \/ ManualSkip \/ ManualDone \/ CompactCommitted
            \/ RemoveSstFails \/ CompactDone
            \/ (\E range \in Ranges : CompactRange(range[1], range[2]))
  BY Zenon, <1>12 DEF FlushDone, ManualSkip, ManualDone, CompactCommitted, RemoveSstFails,
               CompactDone, CompactRange
<1>13. CASE \/ Close \/ CloseManifest \/ CloseManifestFails \/ CloseWalFails
            \/ Kill \/ PowerLoss
  BY Zenon, <1>13 DEF Close, CloseManifest, CloseManifestFails, CloseWalFails, Kill, PowerLoss
<1> QED BY Zenon, <1>1, <1>2, <1>3, <1>4, <1>5, <1>6, <1>7, <1>8, <1>9, <1>10, <1>11, <1>12, <1>13
    DEF Next, EngineStep, ClientStep
=============================================================================
