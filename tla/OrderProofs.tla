------------------------------ MODULE OrderProofs ------------------------------
(***************************************************************************)
(* The order of search is that of age: what a read searches first never    *)
(* has an older record of a key than what it searches later.               *)
(***************************************************************************)
EXTENDS DurabilityProofs

\* The memtables.
Generations == Range(imm) \cup {mem}

\* A power loss takes nothing from the WAL of v, or there is none.
Whole(w, v) == MaxCrashes = 0 \/ Durable(w[v.wal_id]) = WalRecs(w, v)

\* The tables of v are in the order of age, the records of its WAL are newer
\* than theirs or among them, and those that are in both stay in the WAL.
Ordered(w, v) ==
    /\ TableOrder(v.tables) /\ Suffix(WalRecs(w, v), Recs(v.tables))
    /\ MaxCrashes = 0 \/ WalRecs(w, v) \cap Recs(v.tables) \subseteq Durable(w[v.wal_id])

OrderInv ==
    /\ \A v \in Recoverable : Ordered(wal, v)
    /\ TableOrder(catalog.tables)
    /\ \A g \in Generations : Suffix(g, Recs(catalog.tables))
    /\ Serving /\ pc # "put_sync" => Whole(wal, catalog)
    /\ Staging => /\ TableOrder(job.staged.tables)
                  /\ Suffix(WalRecs(wal, job.staged), Recs(job.staged.tables))
                  /\ \A g \in Generations : Suffix(g, Recs(job.staged.tables))
    /\ Committing => Whole(wal, job.staged)

-----------------------------------------------------------------------------
(* Sets of records and tables. *)

\* Records are compared by their numbers.
LEMMA Numbers ==
    ASSUME NEW S \in SUBSET InternalRecord
    PROVE  \A r \in S : r.seq \in Nat
  BY Zenon, RecordNumbers

\* A set that holds what is newer than its records has the newer ones.
LEMMA SuffixNewer ==
    ASSUME NEW S \in SUBSET InternalRecord, NEW R \in SUBSET InternalRecord,
           Suffix(S, R), NEW T, T \subseteq R
    PROVE  Newer(S, T)
<1> SUFFICES ASSUME NEW r \in S, NEW q \in T, r.key = q.key
             PROVE  \E p \in S : p.key = q.key /\ p.seq >= q.seq
  BY Zenon DEF Newer
<1>1. r.seq \in Nat /\ q.seq \in Nat /\ q \in R
  BY Zenon, Numbers
<1>2. r.seq >= q.seq \/ r.seq <= q.seq
  BY <1>1
<1>3. q.seq >= q.seq
  BY <1>1
<1>4. CASE r.seq <= q.seq
  BY Zenon, <1>1, <1>3, <1>4 DEF Suffix
<1> QED BY Zenon, <1>2, <1>4

\* A record with the next number may be added.
LEMMA SuffixAbove ==
    ASSUME NEW S, NEW R \in SUBSET InternalRecord, Suffix(S, R),
           NEW r \in InternalRecord, \A q \in R : q.seq < r.seq
    PROVE  Suffix(S \cup {r}, R) /\ r \notin R
<1>1. r.seq \in Nat /\ \A q \in R : q.seq \in Nat
  BY Zenon, Numbers, RecordNumbers
<1>2. \A q \in R : ~(r.seq <= q.seq)
  BY <1>1
<1>3. ~(r.seq < r.seq)
  BY <1>1
<1> QED BY Zenon, <1>2, <1>3 DEF Suffix

\* So may older records be added to what is searched later.
LEMMA SuffixBelow ==
    ASSUME NEW S \in SUBSET InternalRecord, NEW R, Suffix(S, R),
           NEW H \in SUBSET InternalRecord,
           \/ H \subseteq S \/ \A q \in H, r \in S : q.seq < r.seq
    PROVE  Suffix(S, R \cup H)
<1>1. (\A r \in S : r.seq \in Nat) /\ \A q \in H : q.seq \in Nat
  BY Zenon, Numbers
<1>2. CASE H \subseteq S
  BY Zenon, <1>2 DEF Suffix
<1>3. CASE \A q \in H, r \in S : q.seq < r.seq
  <2>1. \A q \in H, r \in S : ~(r.seq <= q.seq)
    BY <1>1, <1>3
  <2> QED BY Zenon, <2>1 DEF Suffix
<1> QED BY Zenon, <1>2, <1>3

\* A prefix of a WAL that keeps the records it shares with the tables.
LEMMA SuffixCut ==
    ASSUME NEW S, NEW R, Suffix(S, R), NEW D, S \cap R \subseteq D,
           NEW P, D \subseteq P, P \subseteq S
    PROVE  Suffix(P, R)
  BY Zenon DEF Suffix

\* The table of a flush is searched before the others and has newer records.
LEMMA FlushOrder ==
    ASSUME NEW tables, Built(tables), TableOrder(tables), NEW T \in TableMeta, T.level = 0,
           \A u \in tables : u.id < T.id, Suffix(T.recs, Recs(tables))
    PROVE  TableOrder(tables \cup {T})
<1>1. /\ T.recs \in SUBSET InternalRecord /\ Recs(tables) \in SUBSET InternalRecord
      /\ \A t \in tables : t.recs \subseteq Recs(tables)
  BY Zenon DEF Built, TableMeta, Recs
<1>2. \A t \in tables : Newer(T.recs, t.recs)
  BY Zenon, <1>1, SuffixNewer
<1>3. T.id \in Nat /\ \A t \in tables : t.id \in Nat /\ t.level \in Nat
  BY LsmAssumption DEF Built, TableMeta, TableId, LevelId
<1>4. ~SearchedBefore(T, T) /\ \A u \in tables : ~SearchedBefore(u, T)
  BY <1>3 DEF SearchedBefore
<1> QED BY Zenon, <1>2, <1>4 DEF TableOrder

\* The memtables are not older than the oldest one.
LEMMA OldestOf ==
    ASSUME NEW s \in Seq(SUBSET InternalRecord), s # <<>>, NEW M, OldestFirst(s, M)
    PROVE  /\ Head(s) \in Range(s) /\ Range(Tail(s)) \subseteq Range(s)
           /\ \A g \in Range(s) \cup {M} :
                 g = Head(s) \/ \A q \in Head(s), r \in g : q.seq < r.seq
<1>1. Len(s) \in Nat \ {0} /\ DOMAIN s = 1 .. Len(s) /\ Head(s) = s[1]
  BY SeqIs
<1>2. /\ Tail(s) \in Seq(SUBSET InternalRecord) /\ Len(Tail(s)) = Len(s) - 1
      /\ \A i \in 1 .. Len(s) - 1 : Tail(s)[i] = s[i + 1]
  BY Zenon, TailIs
<1>3. DOMAIN Tail(s) = 1 .. Len(s) - 1
  BY Zenon, <1>2, SeqIs
<1>4. 1 \in DOMAIN s /\ \A i \in 1 .. Len(s) - 1 : i + 1 \in DOMAIN s
  BY <1>1
<1>5. \A i \in DOMAIN s : i = 1 \/ 1 < i
  BY <1>1
<1>6. Head(s) \in Range(s) /\ Range(Tail(s)) \subseteq Range(s)
  BY Zenon, <1>1, <1>2, <1>3, <1>4 DEF Range
<1>7. ASSUME NEW g \in Range(s) \cup {M}, g # Head(s), NEW q \in Head(s), NEW r \in g
      PROVE  q.seq < r.seq
  <2>1. CASE g = M
    BY Zenon, <1>1, <1>4, <1>7, <2>1 DEF OldestFirst
  <2>2. CASE g \in Range(s)
    <3>1. PICK i \in DOMAIN s : g = s[i]
      BY Zenon, <2>2 DEF Range
    <3>2. 1 < i
      BY Zenon, <1>1, <1>5, <1>7, <3>1
    <3> QED BY Zenon, <1>1, <1>4, <1>7, <3>1, <3>2 DEF OldestFirst
  <2> QED BY Zenon, <1>7, <2>1, <2>2
<1> QED BY Zenon, <1>6, <1>7

-----------------------------------------------------------------------------
(* Versions and their WALs. *)

\* The order of a version depends on its own WAL.
LEMMA OrderedSame ==
    ASSUME NEW w, NEW w2, NEW v, w2[v.wal_id] = w[v.wal_id]
    PROVE  /\ Ordered(w, v) => Ordered(w2, v)
           /\ Whole(w, v) => Whole(w2, v)
           /\ WalRecs(w2, v) = WalRecs(w, v)
  BY Zenon DEF Ordered, Whole, WalRecs

\* A sync makes the WAL whole.
LEMMA OrderedSynced ==
    ASSUME NEW w, NEW w2, NEW v, w[v.wal_id] \in WalFile, GoodWal(w[v.wal_id]),
           w2[v.wal_id] = Synced(w[v.wal_id])
    PROVE  /\ Ordered(w, v) => Ordered(w2, v)
           /\ Whole(w2, v) /\ WalRecs(w2, v) = WalRecs(w, v)
<1>1. WalRecs(w2, v) = WalRecs(w, v) /\ Durable(w2[v.wal_id]) = WalRecs(w, v)
  BY Zenon, DurableSynced DEF WalRecs
<1> QED BY Zenon, <1>1 DEF Ordered, Whole

\* A version whose WAL is whole, or has no records.
LEMMA OrderedWhole ==
    ASSUME NEW w, NEW v, TableOrder(v.tables), Suffix(WalRecs(w, v), Recs(v.tables)),
           Whole(w, v) \/ WalRecs(w, v) = {}
    PROVE  Ordered(w, v)
  BY Zenon DEF Ordered, Whole

\* A version whose WAL has no records.
LEMMA OrderedEmpty ==
    ASSUME NEW w, NEW v, TableOrder(v.tables), WalRecs(w, v) = {}
    PROVE  Ordered(w, v)
<1>1. Suffix(WalRecs(w, v), Recs(v.tables))
  BY Zenon DEF Suffix
<1> QED BY Zenon, <1>1, OrderedWhole

\* No memtable holds a record.
LEMMA NoGenerations ==
    /\ mem = {} /\ imm = <<>> => \A g \in Generations : g = {}
    /\ (mem = {} /\ imm = <<>> => \A g \in Generations : g = {})'
  BY DEF Generations, Range

-----------------------------------------------------------------------------
(* Steps that add no record. *)

\* A new database is empty.
LEMMA OrderInit == Init => OrderInv
<1> SUFFICES ASSUME Init PROVE OrderInv
  BY Zenon
<1>1. /\ Recoverable = {EmptyVersion} /\ catalog = EmptyVersion /\ pc = "down"
      /\ mem = {} /\ imm = <<>>
  BY Zenon, RangeOfSingle DEF Init, Recoverable
<1>2. EmptyVersion.tables = {} /\ EmptyVersion.wal_id \in WalId
  BY Zenon, EmptyVersionType DEF EmptyVersion, Version
<1>3. TableOrder(EmptyVersion.tables)
  BY Zenon, <1>2 DEF TableOrder
<1>4. wal[EmptyVersion.wal_id].recs = <<>> /\ wal[EmptyVersion.wal_id].synced = 0
  BY Zenon, <1>2 DEF Init, NoFile
<1>5. WalRecs(wal, EmptyVersion) = {}
  BY Zenon, <1>4, EmptyWal DEF WalRecs
<1>6. Ordered(wal, EmptyVersion)
  BY Zenon, <1>3, <1>5, OrderedEmpty
<1>7. \A g \in Generations : Suffix(g, Recs(catalog.tables))
  BY Zenon, <1>1, NoGenerations DEF Suffix
<1> QED BY Zenon, <1>1, <1>3, <1>6, <1>7
        DEF OrderInv, Serving, Starting, Staging, Committing

\* The process ends.
LEMMA OrderDown ==
    ASSUME \A v \in Recoverable' : Ordered(wal', v), pc' = "down", LoseMemory
    PROVE  OrderInv'
<1>1. catalog' = EmptyVersion /\ mem' = {} /\ imm' = <<>>
  BY Zenon DEF LoseMemory
<1>2. EmptyVersion.tables = {}
  BY Zenon DEF EmptyVersion
<1>3. TableOrder(catalog'.tables)
  BY Zenon, <1>1, <1>2 DEF TableOrder
<1>4. \A g \in Generations' : Suffix(g, Recs(catalog'.tables))
  BY Zenon, <1>1, NoGenerations DEF Suffix
<1> QED BY Zenon, <1>3, <1>4 DEF OrderInv, Serving, Starting, Staging, Committing

\* Open fails or the process is killed: the files are untouched.
LEMMA OrderLost ==
    ASSUME OrderInv, UNCHANGED <<manifest, wal>>, pc' = "down", LoseMemory
    PROVE  OrderInv'
<1>1. \A v \in Recoverable' : Ordered(wal', v)
  BY Zenon DEF OrderInv, Recoverable
<1> QED BY Zenon, <1>1, OrderDown

\* A WAL that recovery may read is left alone or synced.
LEMMA OrderedStays ==
    ASSUME Typed, RecordInv, OrderInv,
           \A v \in Recoverable : wal'[v.wal_id] = wal[v.wal_id]
                                  \/ wal'[v.wal_id] = Synced(wal[v.wal_id])
    PROVE  \A v \in Recoverable : /\ Ordered(wal', v)
                                  /\ Whole(wal, v) => Whole(wal', v)
                                  /\ WalRecs(wal', v) = WalRecs(wal, v)
<1> SUFFICES ASSUME NEW v \in Recoverable
             PROVE  /\ Ordered(wal', v) /\ (Whole(wal, v) => Whole(wal', v))
                    /\ WalRecs(wal', v) = WalRecs(wal, v)
  BY Zenon
<1>1. Ordered(wal, v) /\ wal[v.wal_id] \in WalFile /\ GoodWal(wal[v.wal_id])
  BY Zenon, RecoverableSound DEF OrderInv
<1>2. CASE wal'[v.wal_id] = wal[v.wal_id]
  BY Zenon, <1>1, <1>2, OrderedSame
<1>3. CASE wal'[v.wal_id] = Synced(wal[v.wal_id])
  BY Zenon, <1>1, <1>3, OrderedSynced
<1> QED BY Zenon, <1>2, <1>3

\* A step of a call that leaves the catalog alone and stages nothing.
LEMMA OrderKeeps ==
    ASSUME Typed, WalInv, RecordInv, OrderInv, Recoverable' \subseteq Recoverable,
           catalog' = catalog,
           \A v \in Recoverable : wal'[v.wal_id] = wal[v.wal_id]
                                  \/ wal'[v.wal_id] = Synced(wal[v.wal_id]),
           \A g \in Generations' : g \in Generations \/ g = {},
           Serving, pc \notin {"put_sync", "sync"}, ~Staging'
    PROVE  OrderInv'
<1>1. Recoverable = {catalog} /\ Whole(wal, catalog)
  BY Zenon DEF WalInv, OrderInv
<1>2. (\A v \in Recoverable' : Ordered(wal', v)) /\ Whole(wal', catalog')
  BY Zenon, <1>1, OrderedStays
<1>3. \A g \in Generations' : Suffix(g, Recs(catalog'.tables))
  BY Zenon DEF OrderInv, Suffix
<1> QED BY Zenon, <1>2, <1>3 DEF OrderInv, Staging, Committing

-----------------------------------------------------------------------------
(* Opening. *)

\* Opening the manifest.
LEMMA OrderOpen ==
    ASSUME Typed, FlowInv, HeaderInv, OrderInv,
           \/ Open \/ CreateManifest \/ WriteManifestHeader \/ SyncManifestHeader
           \/ LoadManifest \/ RefuseManifest
    PROVE  OrderInv'
<1> USE DEF Goto, files, memory, history
<1>1. CASE RefuseManifest
  BY Zenon, <1>1, OrderLost DEF RefuseManifest, OpenFails
<1>2. CASE ~RefuseManifest
  <2>1. /\ wal' = wal /\ mem' = mem /\ imm' = imm /\ pc \in Starting
        /\ pc' \in {"open_manifest", "manifest_header", "manifest_header_sync", "open_wal"}
        /\ catalog' = catalog \/ catalog' = Latest(manifest.log)
    BY Zenon, <1>2 DEF Open, CreateManifest, WriteManifestHeader, SyncManifestHeader,
                       LoadManifest, Starting
  <2>2. manifest'.log = manifest.log
    <3>1. CASE CreateManifest
      BY Zenon, <3>1 DEF CreateManifest, HeaderInv
    <3>2. CASE WriteManifestHeader \/ SyncManifestHeader
      BY Zenon, <3>2 DEF WriteManifestHeader, SyncManifestHeader, Typed, TypeOK
    <3> QED BY Zenon, <1>2, <3>1, <3>2 DEF Open, LoadManifest
  <2>3. \A v \in Recoverable' : Ordered(wal', v)
    BY Zenon, <2>1, <2>2 DEF OrderInv, Recoverable
  <2>4. TableOrder(catalog'.tables)
    <3>1. Ordered(wal, Latest(manifest.log)) /\ TableOrder(catalog.tables)
      BY Zenon, NamedWalIds DEF OrderInv
    <3> QED BY Zenon, <2>1, <3>1 DEF Ordered
  <2>5. \A g \in Generations' : Suffix(g, Recs(catalog'.tables))
    <3>1. mem' = {} /\ imm' = <<>>
      BY Zenon, <2>1 DEF FlowInv
    <3> QED BY Zenon, <3>1, NoGenerations DEF Suffix
  <2>6. ~Serving' /\ ~Staging' /\ ~Committing'
    BY Zenon, <2>1 DEF Serving, Starting, Staging, Committing
  <2> QED BY Zenon, <2>3, <2>4, <2>5, <2>6 DEF OrderInv
<1> QED BY Zenon, <1>1, <1>2

\* Creating the first WAL.
LEMMA OrderCreateWal ==
    ASSUME Typed, Typed', TableInv, FlowInv, WalInv, RecordInv, RecordInv', OrderInv,
           CreateWal \/ WriteWalHeader \/ SyncWalHeader
    PROVE  OrderInv'
<1> USE DEF Goto, files, memory, history
<1>1. /\ pc \in {"open_wal", "wal_header", "wal_header_sync"}
      /\ pc' \in {"wal_header", "wal_header_sync", "idle"}
      /\ UNCHANGED <<manifest, catalog, mem, imm>>
      /\ wal[catalog.wal_id].hdr # "ok" /\ (pc # "open_wal" => wal_id = catalog.wal_id)
  BY Zenon DEF CreateWal, WriteWalHeader, SyncWalHeader, WalInv, FlowInv
<1>2. Recoverable = {catalog} /\ Recoverable' = {catalog'}
  BY Zenon, <1>1, NewDatabase DEF Recoverable
<1>3. /\ wal \in [WalId -> WalFile] /\ catalog.wal_id \in WalId
      /\ wal[catalog.wal_id] \in WalFile /\ wal[catalog.wal_id].recs = <<>>
  BY Zenon, <1>1, NamedWalIds DEF Typed, TypeOK, RecordInv, GoodWal
<1>4. wal'[catalog.wal_id].recs = <<>>
  <2>1. CASE CreateWal
    <3>1. wal'[catalog.wal_id] = [NoFile EXCEPT !.hdr = "torn"]
      BY Zenon, <1>3, <2>1 DEF CreateWal
    <3> QED BY Zenon, <3>1 DEF NoFile
  <2>2. CASE WriteWalHeader
    <3>1. wal'[catalog.wal_id] = [wal[catalog.wal_id] EXCEPT !.hdr = "new"]
      BY Zenon, <1>1, <1>3, <2>2 DEF WriteWalHeader
    <3> QED BY Zenon, <1>3, <3>1 DEF WalFile
  <2>3. CASE SyncWalHeader
    <3>1. wal'[catalog.wal_id] = Synced(wal[catalog.wal_id])
      BY Zenon, <1>1, <1>3, <2>3 DEF SyncWalHeader
    <3> QED BY Zenon, <1>3, <3>1 DEF Synced, WalFile
  <2> QED BY Zenon, <2>1, <2>2, <2>3
<1>5. WalRecs(wal', catalog') = {} /\ Whole(wal', catalog')
  <2>1. GoodWal(wal'[catalog.wal_id]) /\ wal'[catalog.wal_id].synced \in Nat
    BY Zenon, <1>3 DEF RecordInv, Typed, TypeOK, WalFile
  <2>2. wal'[catalog.wal_id].synced = 0
    <3>1. wal'[catalog.wal_id].synced <= Len(<<>>)
      BY Zenon, <1>4, <2>1 DEF GoodWal
    <3> QED BY <2>1, <3>1
  <2>3. Durable(wal'[catalog.wal_id]) = {} /\ Range(wal'[catalog.wal_id].recs) = {}
    BY Zenon, <1>4, <2>2, DurableEmpty
  <2> QED BY Zenon, <1>1, <2>3 DEF WalRecs, Whole
<1>6. TableOrder(catalog'.tables) /\ \A v \in Recoverable' : Ordered(wal', v)
  BY Zenon, <1>1, <1>2, <1>5, OrderedEmpty DEF OrderInv
<1>7. \A g \in Generations' : Suffix(g, Recs(catalog'.tables))
  BY Zenon, <1>1 DEF OrderInv, Generations
<1>8. ~Staging' /\ ~Committing'
  BY Zenon, <1>1 DEF Staging, Committing
<1> QED BY Zenon, <1>5, <1>6, <1>7, <1>8 DEF OrderInv

\* A step that stages an edit.
LEMMA OrderStages ==
    ASSUME Typed, RecordInv, OrderInv, Recoverable' = Recoverable, catalog' = catalog,
           \A v \in Recoverable : wal'[v.wal_id] = wal[v.wal_id]
                                  \/ wal'[v.wal_id] = Synced(wal[v.wal_id]),
           pc' \in {"replacement_sync", "append"},
           Serving' => Whole(wal', catalog),
           pc' = "append" => Whole(wal', job'.staged),
           TableOrder(job'.staged.tables),
           Suffix(WalRecs(wal', job'.staged), Recs(job'.staged.tables)),
           \A g \in Generations' : Suffix(g, Recs(catalog.tables))
                                   /\ Suffix(g, Recs(job'.staged.tables))
    PROVE  OrderInv'
<1>1. \A v \in Recoverable' : Ordered(wal', v)
  BY Zenon, OrderedStays
<1> QED BY Zenon, <1>1 DEF OrderInv, Committing

\* Replaying a WAL: its records are the memtable.
LEMMA OrderReplay ==
    ASSUME Typed, TableInv, FlowInv, FlowInv', WalInv, RecordInv, OrderInv, RecoverWal
    PROVE  OrderInv'
<1> DEFINE S == WalRecs(wal, catalog)
<1>1. /\ pc = "open_wal" /\ pc' = "replacement_sync" /\ UNCHANGED <<manifest, catalog>>
      /\ job'.staged.tables = catalog.tables /\ InMemory' = S
      /\ \A v \in Recoverable : wal'[v.wal_id] = wal[v.wal_id]
      /\ WalRecs(wal', job'.staged) = S
  BY Zenon, ReplayMeans
<1>2. Recoverable' = Recoverable /\ ~Serving'
  BY Zenon, <1>1 DEF Recoverable, Serving, Starting
<1>3. Suffix(S, Recs(catalog.tables)) /\ TableOrder(catalog.tables)
  <2>1. catalog \in Recoverable
    BY Zenon, <1>1, NamedWalIds DEF TableInv
  <2> QED BY Zenon, <2>1 DEF OrderInv, Ordered
<1> HIDE DEF S
<1>4. \A g \in Generations' : g = S
  <2>1. imm' = <<>>
    BY Zenon, <1>1 DEF FlowInv
  <2>2. Range(imm') = {}
    BY <2>1 DEF Range
  <2>3. InMemory' = mem'
    BY Zenon, <2>2 DEF InMemory
  <2> QED BY Zenon, <1>1, <2>2, <2>3 DEF Generations
<1> QED BY Zenon, <1>1, <1>2, <1>3, <1>4, OrderStages

\* The other steps of Engine::open.
LEMMA OrderOpenWal ==
    ASSUME Typed, FlowInv, RecordInv, OrderInv,
           RefuseWal \/ SyncReplacement \/ SyncReplacementFails
    PROVE  OrderInv'
<1> USE DEF Goto, files, memory, history
<1>1. CASE RefuseWal \/ SyncReplacementFails
  BY Zenon, <1>1, OrderLost DEF RefuseWal, SyncReplacementFails, OpenFails
<1>2. CASE SyncReplacement
  <2>1. /\ pc = "replacement_sync" /\ pc' = "append"
        /\ UNCHANGED <<manifest, catalog, mem, imm, job>>
        /\ wal' = [wal EXCEPT ![job.repl] = Synced(@)]
    BY Zenon, <1>2 DEF SyncReplacement
  <2>2. /\ wal \in [WalId -> WalFile] /\ job.staged.wal_id = job.repl
        /\ job.staged.wal_id \in WalId /\ GoodWal(wal[job.staged.wal_id])
        /\ wal[job.staged.wal_id] \in WalFile
        /\ \A v \in Recoverable : v.wal_id \in WalId
    BY Zenon, <2>1, NamedWalIds DEF Typed, TypeOK, FlowInv, RecordInv
  <2>3. \A v \in Recoverable : wal'[v.wal_id] = wal[v.wal_id]
                               \/ wal'[v.wal_id] = Synced(wal[v.wal_id])
    BY Zenon, <2>1, <2>2
  <2>4. wal'[job.staged.wal_id] = Synced(wal[job.staged.wal_id])
    BY Zenon, <2>1, <2>2
  <2>5. Whole(wal', job.staged) /\ WalRecs(wal', job.staged) = WalRecs(wal, job.staged)
    BY Zenon, <2>2, <2>4, OrderedSynced
  <2>6. /\ Recoverable' = Recoverable /\ Generations' = Generations /\ ~Serving'
        /\ job'.staged = job.staged
    BY Zenon, <2>1 DEF Recoverable, Generations, Serving, Starting, Typed, Pending
  <2>7. /\ TableOrder(job.staged.tables)
        /\ Suffix(WalRecs(wal, job.staged), Recs(job.staged.tables))
        /\ \A g \in Generations : Suffix(g, Recs(catalog.tables))
                                  /\ Suffix(g, Recs(job.staged.tables))
    BY Zenon, <2>1 DEF OrderInv, Staging
  <2> QED BY Zenon, <2>1, <2>3, <2>5, <2>6, <2>7, OrderStages
<1> QED BY Zenon, <1>1, <1>2

-----------------------------------------------------------------------------
(* Writes. *)

\* The next number is above the records of the tables.
LEMMA TablesBelow ==
    ASSUME Typed, TableInv, RecordInv, Live, pc \notin {"sync", "committed"}
    PROVE  /\ \A q \in Recs(catalog.tables) : q.seq < next_sequence
           /\ Recs(catalog.tables) \in SUBSET InternalRecord /\ Built(catalog.tables)
<1>1. Sound(WalRecs(wal, catalog), catalog, issued)
  BY Zenon, CatalogSound DEF Live
<1>2. Recs(catalog.tables) \in SUBSET InternalRecord /\ Built(catalog.tables)
  BY Zenon, <1>1 DEF Sound, Built, TableMeta, Recs
<1>3. catalog.next_seq \in Nat /\ next_sequence \in Nat /\ catalog.next_seq <= next_sequence
  BY Zenon, EngineNumbers DEF RecordInv, Backed
<1>4. ASSUME NEW q \in Recs(catalog.tables) PROVE q.seq < next_sequence
  <2>1. q.seq \in Nat /\ q.seq < catalog.next_seq
    BY Zenon, <1>1, <1>2, RecordNumbers DEF Sound
  <2> QED BY <1>3, <2>1
<1> QED BY Zenon, <1>2, <1>4

\* The append to the WAL: the new record is in no table.
LEMMA OrderPutWrite ==
    ASSUME SyncOnWrite \/ MaxCrashes = 0, Typed, TableInv, FlowInv, WalInv, RecordInv,
           OrderInv, NEW k \in Key, NEW del \in BOOLEAN, PutWrite(k, del)
    PROVE  OrderInv'
<1> DEFINE r == [key |-> k, seq |-> next_sequence, op |-> Len(issued) + 1, del |-> del]
           f == wal[catalog.wal_id]
           g == [f EXCEPT !.recs = Append(@, r)]
<1>1. /\ pc = "idle" /\ writer # 0 /\ Len(issued) < MaxWrites
      /\ wal' = [wal EXCEPT ![writer].recs = Append(@, r)]
      /\ pc' = IF SyncOnWrite THEN "put_sync" ELSE "put_apply"
      /\ UNCHANGED <<manifest, catalog, mem, imm>>
  BY Zenon DEF PutWrite, memory
<1>2. writer = catalog.wal_id /\ Recoverable = {catalog} /\ catalog.wal_id \in WalId
  BY Zenon, <1>1, PutTarget
<1>3. /\ Len(issued) \in Nat /\ next_sequence \in SeqNum
      /\ wal \in [WalId -> WalFile] /\ f \in WalFile /\ GoodWal(f)
  BY Zenon, <1>2, SeqIs DEF Typed, TypeOK, RecordInv
<1>4. r \in InternalRecord /\ r.seq = next_sequence
  <2>1. Len(issued) + 1 \in 1 .. MaxWrites
    BY <1>1, <1>3, LsmAssumption
  <2> QED BY Zenon, <1>3, <2>1 DEF InternalRecord
<1> HIDE DEF r
<1>5. g.recs = Append(f.recs, r) /\ g.synced = f.synced /\ f.synced \in Nat
  BY Zenon, <1>3 DEF WalFile
<1>6. wal'[catalog.wal_id] = g
  BY Zenon, <1>1, <1>2, <1>3
<1> HIDE DEF g
<1>7. Durable(g) = Durable(f) /\ Range(g.recs) = Range(f.recs) \cup {r}
  <2>1. f.recs \in Seq(InternalRecord)
    BY Zenon, <1>3 DEF GoodWal
  <2>2. Range(Append(f.recs, r)) = Range(f.recs) \cup {r}
    BY <1>4, <2>1, RangeOfAppend
  <2> QED BY Zenon, <1>3, <1>4, <1>5, <2>2, DurableAppended
<1>8. WalRecs(wal', catalog) = WalRecs(wal, catalog) \cup {r}
  BY Zenon, <1>6, <1>7 DEF WalRecs
<1>9. Ordered(wal, catalog)
  BY Zenon, <1>2 DEF OrderInv
<1>10. /\ \A q \in Recs(catalog.tables) : q.seq < r.seq
       /\ Recs(catalog.tables) \in SUBSET InternalRecord
  BY Zenon, <1>1, <1>4, TablesBelow DEF Live
<1>11. Suffix(WalRecs(wal', catalog), Recs(catalog.tables)) /\ r \notin Recs(catalog.tables)
  <2>1. Suffix(WalRecs(wal, catalog), Recs(catalog.tables))
    BY Zenon, <1>9 DEF Ordered
  <2>2. /\ Suffix(WalRecs(wal, catalog) \cup {r}, Recs(catalog.tables))
        /\ r \notin Recs(catalog.tables)
    BY Zenon, <1>4, <1>10, <2>1, SuffixAbove
  <2> QED BY Zenon, <1>8, <2>2
<1>12. Ordered(wal', catalog)
  BY Zenon, <1>6, <1>7, <1>8, <1>9, <1>11 DEF Ordered
<1>13. Recoverable' = {catalog} /\ Generations' = Generations /\ ~Staging' /\ ~Committing'
  BY Zenon, <1>1, <1>2 DEF Recoverable, Generations, Staging, Committing
<1>14. pc' # "put_sync" => Whole(wal', catalog)
  BY Zenon, <1>1 DEF Whole
<1> QED BY Zenon, <1>1, <1>12, <1>13, <1>14 DEF OrderInv

\* The sync of the WAL and the insertion into the memtable.
LEMMA OrderPut ==
    ASSUME Fails("wal_sync") => ~SyncOnWrite, Typed, TableInv, FlowInv, WalInv, RecordInv,
           OrderInv, PutSync \/ PutSyncFails \/ PutApply
    PROVE  OrderInv'
<1> USE DEF Goto, files, memory, history
<1>1. CASE PutSync
  <2>1. /\ pc = "put_sync" /\ pc' = "put_apply" /\ UNCHANGED <<manifest, catalog, mem, imm>>
        /\ wal' = [wal EXCEPT ![writer] = Synced(@)] /\ writer # 0
    BY Zenon, <1>1 DEF PutSync, FlowInv
  <2>2. writer = catalog.wal_id /\ Recoverable = {catalog} /\ catalog.wal_id \in WalId
    BY Zenon, <2>1, PutTarget
  <2>3. /\ wal \in [WalId -> WalFile] /\ wal[catalog.wal_id] \in WalFile
        /\ GoodWal(wal[catalog.wal_id])
    BY Zenon, <2>2 DEF Typed, TypeOK, RecordInv
  <2>4. wal'[catalog.wal_id] = Synced(wal[catalog.wal_id])
    BY Zenon, <2>1, <2>2, <2>3
  <2>5. Ordered(wal', catalog) /\ Whole(wal', catalog)
    BY Zenon, <2>2, <2>3, <2>4, OrderedSynced DEF OrderInv
  <2>6. Recoverable' = {catalog} /\ Generations' = Generations /\ ~Staging' /\ ~Committing'
    BY Zenon, <2>1, <2>2 DEF Recoverable, Generations, Staging, Committing
  <2> QED BY Zenon, <2>1, <2>5, <2>6 DEF OrderInv
<1>2. CASE PutSyncFails
  BY Zenon, <1>2 DEF PutSyncFails, RecordInv
<1>3. CASE PutApply
  <2>1. /\ pc = "put_apply" /\ pc' \in {"idle", "freeze"}
        /\ UNCHANGED <<manifest, wal, catalog, imm>> /\ mem' = mem \cup {job.rec}
    BY Zenon, <1>3 DEF PutApply, ReturnOk
  <2>2. job.rec \in InternalRecord /\ job.rec.seq = next_sequence
    BY Zenon, <2>1 DEF Typed, Pending, RecordInv, Putting
  <2>3. /\ \A q \in Recs(catalog.tables) : q.seq < job.rec.seq
        /\ Recs(catalog.tables) \in SUBSET InternalRecord
    BY Zenon, <2>1, <2>2, TablesBelow DEF Live
  <2>4. Suffix(mem', Recs(catalog.tables))
    BY Zenon, <2>1, <2>2, <2>3, SuffixAbove DEF OrderInv, Generations
  <2>5. \A g \in Generations' : Suffix(g, Recs(catalog'.tables))
    BY Zenon, <2>1, <2>4 DEF OrderInv, Generations
  <2>6. Serving /\ Recoverable' = Recoverable /\ ~Staging' /\ ~Committing'
    BY Zenon, <2>1 DEF Serving, Starting, Recoverable, Staging, Committing
  <2> QED BY Zenon, <2>1, <2>5, <2>6 DEF OrderInv
<1> QED BY Zenon, <1>1, <1>2, <1>3

-----------------------------------------------------------------------------
(* Flushes. *)

\* flush_unlocked and flush_oldest_immutable, up to the edit.
LEMMA OrderFlush ==
    ASSUME Typed, TableInv, FlowInv, WalInv, RecordInv, OrderInv,
           Flush \/ Freeze \/ Drained \/ FlushTable \/ FlushTableFails \/ FlushEditFails
    PROVE  OrderInv'
<1>1. /\ pc \in {"idle", "freeze", "drain", "flush_edit"}
      /\ pc' \in {"idle", "freeze", "drain", "flush_edit", "maybe_compact"}
      /\ UNCHANGED <<manifest, catalog>>
      /\ \A v \in Recoverable : wal'[v.wal_id] = wal[v.wal_id]
  BY Zenon, FlushMeans
<1>2. Recoverable' = Recoverable /\ Serving /\ ~Staging'
  BY Zenon, <1>1 DEF Recoverable, Serving, Starting, Staging
<1>3. \A g \in Generations' : g \in Generations \/ g = {}
  <2>1. CASE Freeze
    <3>1. /\ imm' = (IF mem = {} THEN imm ELSE Append(imm, mem)) /\ mem' = {}
          /\ imm \in Seq(SUBSET InternalRecord) /\ mem \in SUBSET InternalRecord
      BY Zenon, <2>1 DEF Freeze, Typed, TypeOK
    <3>2. Range(Append(imm, mem)) = Range(imm) \cup {mem}
      BY <3>1, RangeOfAppend
    <3> QED BY Zenon, <3>1, <3>2 DEF Generations
  <2>2. CASE ~Freeze
    BY Zenon, <2>2 DEF Flush, Drained, FlushTable, FlushTableFails, FlushEditFails,
                       Generations, memory
  <2> QED BY Zenon, <2>1, <2>2
<1> QED BY Zenon, <1>1, <1>2, <1>3, OrderKeeps

\* The edit of a flush: the oldest memtable becomes the newest table of L0.
LEMMA OrderFlushEdit ==
    ASSUME Typed, TableInv, FlowInv, WalInv, RecordInv, OrderInv, FlushEdit
    PROVE  OrderInv'
<1> DEFINE staged == job'.staged
<1>1. /\ pc = "flush_edit" /\ pc' = "append" /\ imm # <<>>
      /\ UNCHANGED <<manifest, catalog, mem, imm>>
      /\ FlushedTable \in TableMeta
      /\ staged.tables = catalog.tables \cup {FlushedTable}
      /\ \/ /\ wal' = wal /\ staged.wal_id = catalog.wal_id
         \/ /\ wal' = [wal EXCEPT ![catalog.wal_id + 1] = NewWal]
            /\ staged.wal_id = catalog.wal_id + 1 /\ catalog.wal_id + 1 \in WalId
  BY Zenon, FlushEditMeans
<1> HIDE DEF staged
<1>2. /\ Recoverable = {catalog} /\ Recoverable' = Recoverable /\ Generations' = Generations
      /\ Serving
  BY Zenon, <1>1 DEF WalInv, Serving, Starting, Recoverable, Generations
<1>3. /\ Whole(wal, catalog) /\ Ordered(wal, catalog) /\ TableOrder(catalog.tables)
      /\ \A g \in Generations : Suffix(g, Recs(catalog.tables))
  BY Zenon, <1>1, <1>2 DEF OrderInv
<1>4. Recs(catalog.tables) \in SUBSET InternalRecord /\ Built(catalog.tables)
  BY Zenon, <1>1, TablesBelow DEF Live
<1>5. /\ imm \in Seq(SUBSET InternalRecord) /\ mem \in SUBSET InternalRecord
      /\ wal \in [WalId -> WalFile] /\ catalog.wal_id \in WalId /\ catalog.wal_id \in Nat
      /\ OldestFirst(imm, mem) /\ GoodWal(wal[catalog.wal_id])
  BY Zenon, EngineNumbers DEF Typed, TypeOK, RecordInv
<1>6. /\ Head(imm) \in Generations /\ \A g \in Generations : g \in SUBSET InternalRecord
      /\ \A g \in Generations :
            g = Head(imm) \/ \A q \in Head(imm), r \in g : q.seq < r.seq
  <2>1. Range(imm) \subseteq SUBSET InternalRecord
    BY Zenon, <1>5, RangeType
  <2> QED BY Zenon, <1>1, <1>5, <2>1, OldestOf DEF Generations
<1>7. /\ FlushedTable.level = 0 /\ FlushedTable.recs = Head(imm)
      /\ \A u \in catalog.tables : u.id < FlushedTable.id
  BY Zenon DEF FlushedTable, TableInv, Below
<1>8. Recs(staged.tables) = Recs(catalog.tables) \cup Head(imm)
  BY Zenon, <1>1, <1>7 DEF Recs
<1>9. TableOrder(staged.tables)
  <2>1. Suffix(FlushedTable.recs, Recs(catalog.tables))
    BY Zenon, <1>3, <1>6, <1>7
  <2>2. TableOrder(catalog.tables \cup {FlushedTable})
    BY Zenon, <1>1, <1>3, <1>4, <1>7, <2>1, FlushOrder
  <2> QED BY Zenon, <1>1, <2>2
<1>10. \A g \in Generations : Suffix(g, Recs(staged.tables))
  <2> SUFFICES ASSUME NEW g \in Generations PROVE Suffix(g, Recs(staged.tables))
    BY Zenon
  <2>1. /\ g \in SUBSET InternalRecord /\ Head(imm) \in SUBSET InternalRecord
        /\ Suffix(g, Recs(catalog.tables))
        /\ Head(imm) \subseteq g \/ \A q \in Head(imm), r \in g : q.seq < r.seq
    BY Zenon, <1>3, <1>6
  <2>2. Suffix(g, Recs(catalog.tables) \cup Head(imm))
    BY Zenon, <2>1, SuffixBelow
  <2> QED BY Zenon, <1>8, <2>2
<1>11. /\ Suffix(WalRecs(wal', staged), Recs(staged.tables)) /\ Whole(wal', staged)
       /\ wal'[catalog.wal_id] = wal[catalog.wal_id]
  <2>1. CASE wal' = wal /\ staged.wal_id = catalog.wal_id
    <3>1. WalRecs(wal', staged) = WalRecs(wal, catalog) /\ Whole(wal', staged)
      BY Zenon, <1>3, <2>1 DEF WalRecs, Whole
    <3>2. Head(imm) \subseteq WalRecs(wal, catalog)
      <4>1. InMemory \subseteq WalRecs(wal, catalog)
        BY Zenon, <1>1 DEF RecordInv, Live, Applied, Putting, Backed
      <4> QED BY Zenon, <1>6, <4>1 DEF Generations, InMemory
    <3>3. WalRecs(wal, catalog) \in SUBSET InternalRecord
      BY Zenon, <1>5, GoodWalRecs DEF WalRecs
    <3>4. Suffix(WalRecs(wal, catalog), Recs(catalog.tables) \cup Head(imm))
      BY Zenon, <1>3, <1>6, <3>2, <3>3, SuffixBelow DEF Ordered
    <3> QED BY Zenon, <1>8, <2>1, <3>1, <3>4
  <2>2. CASE /\ wal' = [wal EXCEPT ![catalog.wal_id + 1] = NewWal]
             /\ staged.wal_id = catalog.wal_id + 1 /\ catalog.wal_id + 1 \in WalId
    <3>1. wal'[staged.wal_id] = NewWal
      BY Zenon, <1>5, <2>2
    <3>2. Durable(NewWal) = {} /\ Range(NewWal.recs) = {}
      BY Zenon, DurableEmpty DEF NewWal
    <3>3. WalRecs(wal', staged) = {} /\ Whole(wal', staged)
      BY Zenon, <3>1, <3>2 DEF WalRecs, Whole
    <3>4. catalog.wal_id # catalog.wal_id + 1
      BY <1>5
    <3> QED BY Zenon, <1>5, <2>2, <3>3, <3>4 DEF Suffix
  <2> QED BY Zenon, <1>1, <2>1, <2>2
<1>12. Whole(wal', catalog)
  BY Zenon, <1>3, <1>11, OrderedSame
<1> QED BY Zenon, <1>1, <1>2, <1>3, <1>9, <1>10, <1>11, <1>12, OrderStages DEF staged

-----------------------------------------------------------------------------
(* Commits. *)

\* A failed commit drops the edit.
LEMMA OrderCommitFails ==
    ASSUME Typed, FlowInv, WalInv, RecordInv, OrderInv, CommitFails, pc = "append",
           UNCHANGED manifest
    PROVE  OrderInv'
<1>1. CASE OpenFails /\ UNCHANGED wal
  BY Zenon, <1>1, OrderLost DEF OpenFails
<1>2. CASE /\ pc' = "idle" /\ UNCHANGED <<catalog, mem, imm>> /\ job.kind # "open"
           /\ \A v \in Recoverable : wal'[v.wal_id] = wal[v.wal_id]
  <2>1. /\ Recoverable' = Recoverable /\ Generations' = Generations /\ Serving /\ ~Staging'
    BY Zenon, <1>2 DEF Recoverable, Generations, Serving, Staging
  <2> QED BY Zenon, <1>2, <2>1, OrderKeeps
<1>3. job.kind = "open" => OpenFails /\ UNCHANGED wal
  BY Zenon DEF CommitFails
<1> QED BY Zenon, <1>1, <1>2, <1>3, CommitFailsMeans

\* The MANIFEST gains the staged version, then holds it alone.
LEMMA OrderCommit ==
    ASSUME ~Fails("manifest_sync"), Typed, TableInv, FlowInv, WalInv, RecordInv, OrderInv,
           AppendEdit \/ RefuseEdit \/ AppendEditFails \/ SyncEdit \/ SyncEditFails
    PROVE  OrderInv'
<1> USE DEF Goto, files, memory, history
<1>a. manifest.log \in Seq(Version) /\ job.staged \in Version
  BY Zenon DEF Typed, TypeOK, Job
<1>b. pc \in {"append", "sync"} =>
        /\ TableOrder(job.staged.tables) /\ Whole(wal, job.staged)
        /\ Suffix(WalRecs(wal, job.staged), Recs(job.staged.tables))
        /\ \A g \in Generations : Suffix(g, Recs(job.staged.tables))
        /\ Ordered(wal, job.staged)
  BY Zenon, OrderedWhole DEF OrderInv, Staging, Committing
<1>1. CASE AppendEdit
  <2>1. /\ pc = "append" /\ pc' = "sync" /\ UNCHANGED <<wal, job, catalog, mem, imm>>
        /\ manifest'.log = Append(manifest.log, job.staged)
    BY Zenon, <1>1 DEF AppendEdit, Typed, TypeOK
  <2>a. Recoverable' = Recoverable \cup {job.staged}
    BY <1>a, <2>1, RangeOfAppend DEF Recoverable
  <2>2. Recoverable' = Recoverable \cup {job.staged} /\ Generations' = Generations
    BY Zenon, <2>1, <2>a DEF Generations
  <2>3. \A v \in Recoverable' : Ordered(wal', v)
    BY Zenon, <1>b, <2>1, <2>2 DEF OrderInv
  <2>4. Serving' => Whole(wal', catalog')
    <3>1. Serving' => Serving
      BY Zenon, <2>1 DEF Serving
    <3> QED BY Zenon, <2>1, <3>1 DEF OrderInv
  <2> QED BY Zenon, <1>b, <2>1, <2>2, <2>3, <2>4 DEF OrderInv
<1>2. CASE RefuseEdit \/ AppendEditFails
  BY Zenon, <1>2, OrderCommitFails DEF RefuseEdit, AppendEditFails
<1>3. CASE SyncEdit
  <2>1. /\ pc = "sync" /\ pc' = "committed" /\ UNCHANGED <<wal, job, mem, imm>>
        /\ catalog' = job.staged /\ manifest'.log = <<job.staged>>
    BY Zenon, <1>3 DEF SyncEdit, SyncedManifest, TableInv
  <2>2. Recoverable' = {job.staged} /\ Generations' = Generations
    BY Zenon, <2>1, RangeOfSingle DEF Recoverable, Generations
  <2> QED BY Zenon, <1>b, <2>1, <2>2 DEF OrderInv
<1>4. CASE SyncEditFails
  BY Zenon, <1>4 DEF SyncEditFails
<1> QED BY Zenon, <1>1, <1>2, <1>3, <1>4

\* After the commit a flush retires its memtable.
LEMMA OrderCommitted ==
    ASSUME Typed, FlowInv, WalInv, RecordInv, OrderInv,
           \/ OpenCommitted \/ FlushCommitted \/ FlushCommittedFails \/ CompactCommitted
           \/ RemoveWal \/ RemoveWalFails
    PROVE  OrderInv'
<1> USE DEF Goto, files, memory, history
<1>a. /\ wal \in [WalId -> WalFile] /\ catalog.wal_id \in WalId
      /\ \A v \in Recoverable : v.wal_id \in WalId
  BY Zenon, NamedWalIds DEF Typed, TypeOK
<1>1. CASE OpenCommitted \/ CompactCommitted
  <2>1. /\ pc = "committed" /\ UNCHANGED <<manifest, wal, catalog, mem, imm>>
        /\ pc' \in {"remove_wal", "remove_sst"}
    BY Zenon, <1>1 DEF OpenCommitted, CompactCommitted
  <2>2. /\ Recoverable' = Recoverable /\ Generations' = Generations /\ Serving /\ ~Staging'
    BY Zenon, <2>1 DEF Recoverable, Generations, Serving, Starting, Staging
  <2> QED BY Zenon, <2>1, <2>2, OrderKeeps
<1>2. CASE FlushCommitted \/ FlushCommittedFails
  <2>1. /\ pc = "committed" /\ UNCHANGED <<manifest, catalog, mem>>
        /\ imm' = Tail(imm) /\ job.kind = "flush" /\ pc' \in {"drain", "remove_wal", "idle"}
        /\ wal' = wal \/ wal' = [wal EXCEPT ![writer] = Synced(@)]
    BY Zenon, <1>2 DEF FlushCommitted, FlushCommittedFails, ReturnError
  <2>2. \A i \in WalId : wal'[i] = wal[i] \/ wal'[i] = Synced(wal[i])
    BY Zenon, <1>a, <2>1
  <2>3. imm # <<>> /\ imm \in Seq(SUBSET InternalRecord) /\ OldestFirst(imm, mem)
    BY Zenon, <2>1 DEF Typed, TypeOK, Pending, RecordInv
  <2>4. \A g \in Generations' : g \in Generations
    BY Zenon, <2>1, <2>3, OldestOf DEF Generations
  <2>5. /\ Recoverable' = Recoverable /\ Serving /\ ~Staging'
    BY Zenon, <2>1 DEF Recoverable, Serving, Starting, Staging
  <2> QED BY Zenon, <1>a, <2>1, <2>2, <2>4, <2>5, OrderKeeps
<1>3. CASE RemoveWal
  <2>1. /\ pc = "remove_wal" /\ pc' \in {"idle", "drain"}
        /\ UNCHANGED <<manifest, catalog, mem, imm>>
        /\ wal' = [wal EXCEPT ![wal_id - 1] = NoFile]
    BY Zenon, <1>3 DEF RemoveWal
  <2>2. wal_id = catalog.wal_id /\ catalog.wal_id \in Nat /\ Recoverable = {catalog}
    BY Zenon, <2>1, EngineNumbers DEF FlowInv, WalInv, Serving, Starting
  <2>3. wal_id - 1 # catalog.wal_id
    BY <2>2
  <2>4. wal'[catalog.wal_id] = wal[catalog.wal_id]
    BY Zenon, <1>a, <2>1, <2>3
  <2>5. /\ Recoverable' = Recoverable /\ Generations' = Generations /\ Serving /\ ~Staging'
    BY Zenon, <2>1 DEF Recoverable, Generations, Serving, Starting, Staging
  <2> QED BY Zenon, <2>1, <2>2, <2>4, <2>5, OrderKeeps
<1>4. CASE RemoveWalFails
  <2>1. pc = "remove_wal" /\ UNCHANGED <<manifest, wal>>
    BY Zenon, <1>4 DEF RemoveWalFails
  <2>2. CASE OpenFails
    BY Zenon, <2>1, <2>2, OrderLost DEF OpenFails
  <2>3. CASE ReturnError /\ UNCHANGED memory
    <3>1. pc' = "idle" /\ UNCHANGED <<catalog, mem, imm>>
      BY Zenon, <2>3 DEF ReturnError
    <3>2. /\ Recoverable' = Recoverable /\ Generations' = Generations /\ Serving /\ ~Staging'
      BY Zenon, <2>1, <3>1 DEF Recoverable, Generations, Serving, Starting, Staging
    <3> QED BY Zenon, <2>1, <3>1, <3>2, OrderKeeps
  <2> QED BY Zenon, <1>4, <2>2, <2>3 DEF RemoveWalFails
<1> QED BY Zenon, <1>1, <1>2, <1>3, <1>4

-----------------------------------------------------------------------------
(* Compactions, closing and crashes. *)

\* The edit of a compaction: merged tables are in order, and hold no record that
\* the tables did not hold.
LEMMA OrderRunJob ==
    ASSUME LevelFacts, Typed, TableInv, WalInv, RecordInv, OrderInv,
           pc \in {"maybe_compact", "manual"}, NEW plan, GoodPlan(catalog.tables, plan),
           NEW kind, RunJob(plan, kind)
    PROVE  OrderInv'
<1> DEFINE staged == job'.staged
<1>1. /\ pc' = "append" /\ UNCHANGED <<manifest, wal, catalog, mem, imm>>
      /\ staged.tables = Compacted(catalog.tables, plan, catalog.next_table_id)
      /\ staged.wal_id = catalog.wal_id
  BY Zenon, RunJobMeans
<1> HIDE DEF staged
<1>2. /\ Recoverable = {catalog} /\ Recoverable' = Recoverable /\ Generations' = Generations
      /\ Serving
  BY Zenon, <1>1 DEF WalInv, Serving, Starting, Recoverable, Generations
<1>3. /\ Whole(wal, catalog) /\ Ordered(wal, catalog) /\ TableOrder(catalog.tables)
      /\ \A g \in Generations : Suffix(g, Recs(catalog.tables))
  BY Zenon, <1>2 DEF OrderInv
<1>4. /\ Built(catalog.tables) /\ Aligned(Recs(catalog.tables))
      /\ Genuine(Recs(catalog.tables), issued) /\ catalog.next_table_id \in Nat
  <2>1. Sound(WalRecs(wal, catalog), catalog, issued)
    BY Zenon, CatalogSound
  <2> QED BY Zenon, <2>1, EngineNumbers, SoundMeans
<1>5. TableOrder(staged.tables) /\ Recs(staged.tables) \subseteq Recs(catalog.tables)
  BY Zenon, <1>1, <1>3, <1>4 DEF LevelFacts, MergesKeep
<1>6. WalRecs(wal', staged) = WalRecs(wal, catalog) /\ Whole(wal', staged) /\ Whole(wal', catalog)
  BY Zenon, <1>1, <1>3 DEF WalRecs, Whole
<1>7. /\ Suffix(WalRecs(wal', staged), Recs(staged.tables))
      /\ \A g \in Generations : Suffix(g, Recs(staged.tables))
  BY Zenon, <1>3, <1>5, <1>6 DEF Ordered, Suffix
<1> QED BY Zenon, <1>1, <1>2, <1>3, <1>5, <1>6, <1>7, OrderStages DEF staged

\* maybe_compact_unlocked, compact_range and run_compaction.
LEMMA OrderCompaction ==
    ASSUME LevelFacts, Typed, TableInv, FlowInv, WalInv, RecordInv, OrderInv,
           \/ FlushDone \/ BackgroundCompact \/ BackgroundCompactFails
           \/ ManualSkip \/ ManualCompact \/ ManualCompactFails \/ ManualDone
           \/ (\E i \in job.obsolete : RemoveSst(i))
           \/ RemoveSstFails \/ CompactDone
           \/ (\E range \in Ranges : CompactRange(range[1], range[2]))
    PROVE  OrderInv'
<1> USE DEF Goto, files, memory, history
<1>1. CASE BackgroundCompact
  BY Zenon, <1>1, PlansGood, OrderRunJob DEF BackgroundCompact
<1>2. CASE ManualCompact
  BY Zenon, <1>2, PlansGood, OrderRunJob DEF ManualCompact
<1>3. ASSUME pc \in {"idle", "maybe_compact", "manual", "remove_sst"},
             pc' \in {"idle", "freeze", "maybe_compact", "manual", "remove_sst"},
             UNCHANGED <<manifest, wal, catalog, mem, imm>>
      PROVE  OrderInv'
  <2>1. Recoverable' = Recoverable /\ Generations' = Generations /\ Serving /\ ~Staging'
    BY Zenon, <1>3 DEF Recoverable, Generations, Serving, Starting, Staging
  <2> QED BY Zenon, <1>3, <2>1, OrderKeeps
<1>4. CASE FlushDone \/ ManualSkip \/ ManualDone \/ RemoveSstFails \/ CompactDone
  <2>1. /\ pc \in {"maybe_compact", "manual", "remove_sst"}
        /\ pc' \in {"idle", "maybe_compact", "manual", "remove_sst"}
        /\ UNCHANGED <<manifest, wal, catalog, mem, imm>>
    BY Zenon, <1>4 DEF FlushDone, ManualSkip, ManualDone, RemoveSstFails, CompactDone,
                       ReturnOk, ReturnError
  <2> QED BY Zenon, <1>3, <2>1
<1>5. CASE BackgroundCompactFails \/ ManualCompactFails \/ \E i \in job.obsolete : RemoveSst(i)
  <2>1. /\ pc \in {"maybe_compact", "manual", "remove_sst"} /\ pc' \in {"idle", "remove_sst"}
        /\ UNCHANGED <<manifest, wal, catalog, mem, imm>>
    BY Zenon, <1>5 DEF BackgroundCompactFails, ManualCompactFails, JobFails, ReturnError,
                       RemoveSst
  <2> QED BY Zenon, <1>3, <2>1
<1>6. CASE \E range \in Ranges : CompactRange(range[1], range[2])
  <2>1. pc = "idle" /\ pc' = "freeze" /\ UNCHANGED <<manifest, wal, catalog, mem, imm>>
    BY Zenon, <1>6 DEF CompactRange
  <2> QED BY Zenon, <1>3, <2>1
<1> QED BY Zenon, <1>1, <1>2, <1>4, <1>5, <1>6

\* Engine::close.
LEMMA OrderClose ==
    ASSUME Typed, WalInv, RecordInv, OrderInv,
           Close \/ CloseManifest \/ CloseManifestFails \/ CloseWalFails
    PROVE  OrderInv'
<1> USE DEF Goto, files, memory, history
<1>1. CASE CloseManifest
  <2>1. manifest' = SyncedManifest /\ wal' = wal /\ pc' = "down" /\ LoseMemory
    BY Zenon, <1>1 DEF CloseManifest
  <2>2. Recoverable' \subseteq Recoverable
    BY Zenon, <2>1, NamedWalIds, RangeOfSingle DEF SyncedManifest, Recoverable
  <2> QED BY Zenon, <2>1, <2>2, OrderDown DEF OrderInv
<1>2. CASE Close \/ CloseManifestFails \/ CloseWalFails
  <2>1. /\ pc \in {"idle", "close_manifest"} /\ pc' \in {"idle", "close_manifest"}
        /\ UNCHANGED <<catalog, mem, imm>>
        /\ manifest' = manifest \/ manifest' = SyncedManifest
        /\ wal' = wal \/ wal' = [wal EXCEPT ![writer] = Synced(@)]
    BY Zenon, <1>2 DEF Close, CloseManifestFails, CloseWalFails, ReturnError
  <2>2. Recoverable' \subseteq Recoverable
    <3>1. CASE manifest' = manifest
      BY Zenon, <3>1 DEF Recoverable
    <3>2. CASE manifest' = SyncedManifest
      BY Zenon, <3>2, NamedWalIds, RangeOfSingle DEF SyncedManifest, Recoverable
    <3> QED BY Zenon, <2>1, <3>1, <3>2
  <2>3. \A v \in Recoverable : wal'[v.wal_id] = wal[v.wal_id]
                               \/ wal'[v.wal_id] = Synced(wal[v.wal_id])
    BY Zenon, <2>1, NamedWalIds DEF Typed, TypeOK
  <2>4. Generations' = Generations /\ Serving /\ ~Staging'
    BY Zenon, <2>1 DEF Generations, Serving, Starting, Staging
  <2> QED BY Zenon, <2>1, <2>2, <2>3, <2>4, OrderKeeps
<1> QED BY Zenon, <1>1, <1>2

\* Kills and power losses.  A power loss takes no record that is in a table from
\* the WAL, so that what replays is not older than the tables.
LEMMA OrderCrash ==
    ASSUME Typed, HeaderInv, RecordInv, OrderInv, Kill \/ PowerLoss
    PROVE  OrderInv'
<1>1. CASE Kill
  BY Zenon, <1>1, OrderLost DEF Kill, files
<1>2. CASE PowerLoss
  <2>1. PICK v \in Recoverable : \E g \in {wal'[v.wal_id]} :
           /\ Recoverable' = {v} /\ GoodWal(g)
           /\ \/ g.hdr # "ok"
              \/ /\ g.synced = Len(g.recs)
                 /\ \E n \in wal[v.wal_id].synced .. Len(wal[v.wal_id].recs) :
                       g.recs = SubSeq(wal[v.wal_id].recs, 1, n)
    BY Zenon, <1>2, PowerLossMeans
  <2> DEFINE f == wal[v.wal_id]
             g == wal'[v.wal_id]
  <2>2. f.synced \in Nat /\ GoodWal(f) /\ Ordered(wal, v)
    BY Zenon, RecoverableSound DEF OrderInv, WalFile
  <2>3. MaxCrashes # 0
    <3>1. crashes \in Nat /\ crashes < MaxCrashes
      BY Zenon, <1>2 DEF PowerLoss, Typed, TypeOK
    <3> QED BY <3>1
  <2>4. Suffix(Range(g.recs), Recs(v.tables)) /\ (Whole(wal', v) \/ WalRecs(wal', v) = {})
    <3>1. CASE g.hdr # "ok"
      <4>1. Range(g.recs) = {}
        BY Zenon, <2>1, <3>1, GoodWalRecs
      <4> QED BY Zenon, <4>1 DEF Suffix, WalRecs
    <3>2. CASE g.hdr = "ok"
      <4>1. PICK n \in f.synced .. Len(f.recs) : g.recs = SubSeq(f.recs, 1, n)
        BY Zenon, <2>1, <3>2
      <4>2. Durable(f) \subseteq Range(g.recs) /\ Range(g.recs) \subseteq Range(f.recs)
        BY Zenon, <2>2, <4>1, DurablePart
      <4>3. Suffix(Range(f.recs), Recs(v.tables))
            /\ Range(f.recs) \cap Recs(v.tables) \subseteq Durable(f)
        BY Zenon, <2>2, <2>3 DEF Ordered, WalRecs
      <4>4. g.synced = Len(g.recs) /\ GoodWal(g)
        BY Zenon, <2>1, <3>2
      <4> HIDE DEF f, g
      <4>5. Suffix(Range(g.recs), Recs(v.tables))
        BY Zenon, <4>2, <4>3, SuffixCut
      <4>6. Durable(g) = Range(g.recs)
        BY Zenon, <4>4, DurableAll
      <4> QED BY Zenon, <4>5, <4>6 DEF Whole, WalRecs, g
    <3> QED BY Zenon, <3>1, <3>2
  <2>5. Ordered(wal', v)
    BY Zenon, <2>2, <2>4, OrderedWhole DEF Ordered, WalRecs
  <2>6. pc' = "down" /\ LoseMemory
    BY Zenon, <1>2 DEF PowerLoss
  <2> QED BY Zenon, <2>1, <2>5, <2>6, OrderDown
<1> QED BY Zenon, <1>1, <1>2

-----------------------------------------------------------------------------
(* Together. *)

\* OrderInv is preserved by every step.
LEMMA OrderStep ==
    ASSUME LevelFacts, ~Fails("manifest_sync"), ~Fails("wal_write"),
           Fails("wal_sync") => ~SyncOnWrite, SyncOnWrite \/ MaxCrashes = 0
    PROVE  /\ Typed /\ Typed' /\ TableInv /\ FlowInv /\ FlowInv' /\ WalInv /\ HeaderInv
           /\ RecordInv /\ RecordInv' /\ OrderInv /\ [Next]_vars
           => OrderInv'
<1> SUFFICES ASSUME Typed, Typed', TableInv, FlowInv, FlowInv', WalInv, HeaderInv,
                    RecordInv, RecordInv', OrderInv, [Next]_vars
             PROVE  OrderInv'
  BY Zenon
<1>1. CASE UNCHANGED vars
  BY Zenon, <1>1 DEF OrderInv, Recoverable, Generations, Serving, Staging, Committing,
                     vars, files, memory
<1>2. CASE \E k \in Key, del \in BOOLEAN : PutWrite(k, del) \/ PutWriteFails(k, del)
  BY Zenon, <1>2, OrderPutWrite DEF PutWriteFails
<1> QED BY Zenon, <1>1, <1>2, OrderOpen, OrderCreateWal, OrderReplay, OrderOpenWal,
           OrderPut, OrderFlush, OrderFlushEdit, OrderCommit, OrderCommitted,
           OrderCompaction, OrderClose, OrderCrash
    DEF Next, EngineStep, ClientStep

\* The first hit of a search is the newest record.
LEMMA SearchFollows ==
    ASSUME NewestPicked, Typed, OrderInv
    PROVE  SearchOrder
<1>1. /\ InMemory \in SUBSET InternalRecord /\ catalog.tables \in SUBSET TableMeta
      /\ Recs(catalog.tables) \in SUBSET InternalRecord
      /\ \A t \in catalog.tables : t.recs \in SUBSET InternalRecord
                                   /\ t.recs \subseteq Recs(catalog.tables)
  <2>1. catalog.tables \in SUBSET TableMeta
    BY Zenon DEF Typed, TypeOK, Version
  <2> QED BY Zenon, <2>1, MemoryType DEF TableMeta, Recs
<1>2. ASSUME NEW S \in SUBSET InternalRecord, NEW T \in SUBSET InternalRecord, Newer(S, T)
      PROVE  NotOlder(S, T)
  <2> SUFFICES ASSUME NEW r \in S, NEW q \in T, r.key = q.key
               PROVE  NewestOf(S, r.key).seq >= q.seq
    BY Zenon DEF NotOlder
  <2>1. PICK p \in S : p.key = q.key /\ p.seq >= q.seq
    BY Zenon, <1>2 DEF Newer
  <2>2. NewestOf(S, r.key) \in S /\ p.seq <= NewestOf(S, r.key).seq
    BY Zenon, <1>2, <2>1 DEF NewestPicked
  <2>3. p.seq \in Nat /\ q.seq \in Nat /\ NewestOf(S, r.key).seq \in Nat
    BY Zenon, <2>2, RecordNumbers
  <2> QED BY <2>1, <2>2, <2>3
<1>3. ASSUME NEW t \in catalog.tables PROVE NotOlder(InMemory, t.recs)
  <2>1. \A g \in Generations : g \in SUBSET InternalRecord /\ g \subseteq InMemory
    BY Zenon, <1>1 DEF Generations, InMemory
  <2>2. \A g \in Generations : Newer(g, t.recs)
    BY Zenon, <1>1, <2>1, SuffixNewer DEF OrderInv
  <2>3. \A r \in InMemory : \E g \in Generations : r \in g
    BY Zenon DEF Generations, InMemory
  <2>4. Newer(InMemory, t.recs)
    <3> SUFFICES ASSUME NEW r \in InMemory, NEW q \in t.recs, r.key = q.key
                 PROVE  \E p \in InMemory : p.key = q.key /\ p.seq >= q.seq
      BY Zenon DEF Newer
    <3>1. PICK g \in Generations : r \in g
      BY Zenon, <2>3
    <3>2. PICK p \in g : p.key = q.key /\ p.seq >= q.seq
      BY Zenon, <2>2, <3>1 DEF Newer
    <3> QED BY Zenon, <2>1, <3>2
  <2> QED BY Zenon, <1>1, <1>2, <2>4
<1>4. \A t, u \in catalog.tables : SearchedBefore(u, t) => NotOlder(u.recs, t.recs)
  BY Zenon, <1>1, <1>2 DEF OrderInv, TableOrder
<1> QED BY Zenon, <1>3, <1>4 DEF SearchOrder
=============================================================================
