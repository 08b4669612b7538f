---------------------------- MODULE DurabilityProofs ----------------------------
(***************************************************************************)
(* What clients were told: a read between calls answers no older write     *)
(* than the last one of its key that returned ok, and a recovery after a   *)
(* power loss at any point none older than the last that was promised      *)
(* durable, whatever sync_on_write is.                                     *)
(***************************************************************************)
EXTENDS RecordProofs

Kept(w, v, p, h) == Keeps(Durable(w[v.wal_id]), WalRecs(w, v), v.tables, p, h)

\* What a read shows now: the acknowledged writes and, once it is applied, the
\* put in progress.
Due == [k \in Key |-> IF job.call = "put" /\ ~Putting /\ job.rec.key = k
                      THEN job.rec.op ELSE acked[k]]

Told ==
    /\ \A k \in Key : promised[k] <= acked[k] /\ acked[k] <= Len(issued)
    /\ job.call = "put" => acked[job.rec.key] <= job.rec.op /\ job.rec.op <= Len(issued)

\* The same of every version that recovery may find, and what the next open
\* shows.
FilesKeep ==
    /\ \A v \in Recoverable : /\ Kept(wal, v, promised, issued)
                              /\ wal[v.wal_id].hdr # "ok" => promised = NoWrite
    /\ Shows(WalRecs(wal, Latest(manifest.log)), Latest(manifest.log).tables, Due, issued)

KeepInv ==
    /\ Told /\ FilesKeep
    /\ Live /\ pc # "committed" => Shows(InMemory, catalog.tables, Due, issued)
    /\ Staging => /\ Shows(WalRecs(wal, job.staged), job.staged.tables, Due, issued)
                  /\ Shows(After, job.staged.tables, Due, issued)
    /\ Committing => Kept(wal, job.staged, promised, issued)
    /\ (pc = "put_apply" /\ SyncOnWrite) \/ pc = "close_manifest" =>
          Durable(wal[catalog.wal_id]) = WalRecs(wal, catalog)

-----------------------------------------------------------------------------
(* Histories, WALs and tables. *)

\* Fresh for a write is fresh for the earlier ones, whatever is issued later.
LEMMA FreshEarlier ==
    ASSUME NEW S \in SUBSET InternalRecord, NEW tables, Built(tables), NEW k,
           NEW op \in Nat, NEW op2 \in Nat, op2 <= op,
           NEW w, NEW w2, Len(w) \in Nat, Len(w2) \in Nat, Len(w) <= Len(w2),
           \A i \in 1 .. Len(w) : w2[i] = w[i],
           Fresh(S, tables, k, op, w)
    PROVE  Fresh(S, tables, k, op2, w2)
<1>1. \A r \in S : r.op \in Nat
  BY Zenon, RecordNumbers
<1>2. \A t \in tables : \A r \in t.recs : r.op \in Nat
  BY Zenon, RecordNumbers DEF Built, TableMeta
<1>3. CASE \E r \in S : r.key = k
  BY <1>1, <1>3 DEF Fresh
<1>4. CASE ~\E r \in S : r.key = k
  <2>1. TableFresh(tables, k, op, w)
    BY Zenon, <1>4 DEF Fresh
  <2>2. TableFresh(tables, k, op2, w2)
    <3>1. CASE op2 = 0
      BY Zenon, <3>1 DEF TableFresh
    <3>2. CASE op2 # 0 /\ (\A t \in tables : ~Holds(t, k)) /\ Removed(k, op, w)
      <4>1. PICK i \in op .. Len(w) : w[i].key = k /\ w[i].del
        BY Zenon, <3>2 DEF Removed
      <4>2. i \in op2 .. Len(w2) /\ w2[i] = w[i]
        BY <3>2, <4>1
      <4> QED BY Zenon, <3>2, <4>1, <4>2 DEF TableFresh, Removed
    <3>3. ASSUME NEW t \in tables, NEW r \in t.recs, r.key = k, r.op >= op,
                 \A u \in tables : Holds(u, k) => u = t \/ SearchedBefore(t, u)
          PROVE  TableFresh(tables, k, op2, w2)
      <4>1. r.op >= op2
        BY <1>2, <3>3
      <4> QED BY Zenon, <3>3, <4>1 DEF TableFresh
    <3>4. CASE op = 0
      BY <3>1, <3>4
    <3> QED BY Zenon, <2>1, <3>1, <3>2, <3>3, <3>4 DEF TableFresh
  <2> QED BY Zenon, <1>4, <2>2 DEF Fresh
<1> QED BY Zenon, <1>3, <1>4

\* Showing a write is showing the earlier ones, whatever is issued later.
LEMMA ShowsEarlier ==
    ASSUME NEW S \in SUBSET InternalRecord, NEW tables, Built(tables),
           NEW d \in [Key -> Nat], NEW d2 \in [Key -> Nat], \A k \in Key : d2[k] <= d[k],
           NEW w, NEW w2, Extends(w, w2), Shows(S, tables, d, w)
    PROVE  Shows(S, tables, d2, w2)
<1> SUFFICES ASSUME NEW k \in Key PROVE Fresh(S, tables, k, d2[k], w2)
  BY Zenon DEF Shows
<1>1. d[k] \in Nat /\ d2[k] \in Nat /\ d2[k] <= d[k] /\ Fresh(S, tables, k, d[k], w)
  BY Zenon DEF Shows
<1> QED BY Zenon, <1>1, FreshEarlier DEF Extends

\* Any part of the WAL that has its durable records is enough.
LEMMA KeepsPart ==
    ASSUME NEW D, NEW S, NEW tables, NEW p, NEW w, Keeps(D, S, tables, p, w),
           NEW X, D \subseteq X, X \subseteq S
    PROVE  Keeps(X, X, tables, p, w) /\ Keeps(X, S, tables, p, w) /\ Shows(X, tables, p, w)
<1>1. ASSUME NEW k \in Key PROVE Fresh(X, tables, k, p[k], w)
  <2>1. Fresh(D, tables, k, p[k], w)
    BY Zenon DEF Keeps, Shows
  <2>2. CASE \E r \in D : r.key = k
    BY Zenon, <2>1, <2>2 DEF Fresh
  <2>3. CASE (~\E r \in D : r.key = k) /\ \E r \in X : r.key = k
    BY Zenon, <2>3 DEF Fresh, Keeps
  <2>4. CASE ~\E r \in X : r.key = k
    BY Zenon, <2>1, <2>4 DEF Fresh
  <2> QED BY Zenon, <2>2, <2>3, <2>4
<1>2. Shows(X, tables, p, w)
  BY Zenon, <1>1 DEF Shows
<1> QED BY Zenon, <1>2 DEF Keeps

\* The durable records of a WAL are among those of every prefix that a power
\* loss may leave.
LEMMA DurablePart ==
    ASSUME NEW f, GoodWal(f), f.synced \in Nat
    PROVE  \A n \in f.synced .. Len(f.recs) :
              /\ Durable(f) \subseteq Range(SubSeq(f.recs, 1, n))
              /\ Range(SubSeq(f.recs, 1, n)) \subseteq Range(f.recs)
<1> SUFFICES ASSUME NEW n \in f.synced .. Len(f.recs)
             PROVE  /\ Durable(f) \subseteq Range(SubSeq(f.recs, 1, n))
                    /\ Range(SubSeq(f.recs, 1, n)) \subseteq Range(f.recs)
  BY Zenon
<1>1. f.recs \in Seq(InternalRecord) /\ Len(f.recs) \in Nat /\ n \in Nat /\ n <= Len(f.recs)
  BY GoodWalRecs DEF GoodWal
<1>2. DOMAIN f.recs = 1 .. Len(f.recs) /\ \A i \in 1 .. Len(f.recs) : f.recs[i] \in InternalRecord
  BY Zenon, <1>1, SeqIs
<1>3. \A m \in 0 .. n : DOMAIN SubSeq(f.recs, 1, m) = 1 .. m
                        /\ \A i \in 1 .. m : SubSeq(f.recs, 1, m)[i] = f.recs[i]
  <2> SUFFICES ASSUME NEW m \in 0 .. n
               PROVE  /\ DOMAIN SubSeq(f.recs, 1, m) = 1 .. m
                      /\ \A i \in 1 .. m : SubSeq(f.recs, 1, m)[i] = f.recs[i]
    BY Zenon
  <2>1. m \in Nat /\ \A i \in 1 .. m : f.recs[i] \in InternalRecord
    BY <1>1, <1>2
  <2>2. /\ SubSeq(f.recs, 1, m) \in Seq(InternalRecord) /\ Len(SubSeq(f.recs, 1, m)) = m
        /\ \A i \in 1 .. m : SubSeq(f.recs, 1, m)[i] = f.recs[i]
    BY <2>1, PrefixIs
  <2> QED BY Zenon, <2>2, SeqIs
<1>4. f.synced \in 0 .. n /\ n \in 0 .. n /\ 1 .. f.synced \subseteq 1 .. n
      /\ 1 .. n \subseteq 1 .. Len(f.recs)
  BY <1>1
<1>5. Range(SubSeq(f.recs, 1, n)) \subseteq Range(f.recs)
  BY Zenon, <1>2, <1>3, <1>4 DEF Range
<1>6. Durable(f) \subseteq Range(SubSeq(f.recs, 1, n))
  BY Zenon, <1>3, <1>4 DEF Range, Durable
<1> QED BY Zenon, <1>5, <1>6

\* A WAL without records.
LEMMA DurableEmpty ==
    ASSUME NEW f, f.recs = <<>>, f.synced = 0
    PROVE  Durable(f) = {} /\ Range(f.recs) = {}
<1>1. SubSeq(<<>>, 1, 0) = <<>> /\ Range(<<>>) = {}
  BY DEF Range
<1> QED BY Zenon, <1>1 DEF Durable

\* All records of a WAL whose last append is synced are durable.
LEMMA DurableAll ==
    ASSUME NEW f, GoodWal(f), f.synced = Len(f.recs)
    PROVE  Durable(f) = Range(f.recs)
<1>1. f.recs \in Seq(InternalRecord) /\ Len(f.recs) \in Nat
  BY Zenon, GoodWalRecs DEF GoodWal
<1>2. SubSeq(f.recs, 1, Len(f.recs)) = f.recs
  BY <1>1
<1> QED BY Zenon, <1>2 DEF Durable

\* A sync makes them durable.
LEMMA DurableSynced ==
    ASSUME NEW f \in WalFile, GoodWal(f)
    PROVE  /\ Durable(Synced(f)) = Range(f.recs) /\ Range(Synced(f).recs) = Range(f.recs)
           /\ Durable(f) \subseteq Range(f.recs)
<1>1. f.synced \in Nat /\ Len(f.recs) \in Nat /\ f.synced <= Len(f.recs)
  BY Zenon, GoodWalRecs DEF WalFile, GoodWal
<1>2. f.synced \in f.synced .. Len(f.recs)
  BY <1>1
<1>3. Durable(f) \subseteq Range(f.recs)
  BY Zenon, <1>1, <1>2, DurablePart
<1> QED BY Zenon, <1>3, SyncedWal, DurableAll

\* An append adds no durable record.
LEMMA DurableAppended ==
    ASSUME NEW f, GoodWal(f), f.synced \in Nat, NEW r \in InternalRecord,
           NEW g, g.synced = f.synced, g.recs = Append(f.recs, r)
    PROVE  Durable(g) = Durable(f)
<1>1. f.recs \in Seq(InternalRecord) /\ Len(f.recs) \in Nat /\ f.synced <= Len(f.recs)
  BY Zenon, GoodWalRecs DEF GoodWal
<1>2. SubSeq(g.recs, 1, f.synced) = SubSeq(f.recs, 1, f.synced)
  BY <1>1
<1> QED BY Zenon, <1>2 DEF Durable

-----------------------------------------------------------------------------
(* What the invariants say of the versions that recovery may find. *)

\* The history goes on after itself.
LEMMA ExtendsItself == Typed => Extends(issued, issued)
  BY SeqIs DEF Extends, Typed, TypeOK

\* The memtables hold records.
LEMMA MemoryType == Typed => InMemory \in SUBSET InternalRecord
<1> SUFFICES ASSUME Typed PROVE InMemory \in SUBSET InternalRecord
  BY Zenon
<1>1. mem \in SUBSET InternalRecord /\ imm \in Seq(SUBSET InternalRecord)
  BY Zenon DEF Typed, TypeOK
<1>2. \A M \in Range(imm) : M \in SUBSET InternalRecord
  BY <1>1, SeqIs DEF Range
<1> QED BY Zenon, <1>1, <1>2 DEF InMemory

\* The writes a read shows are numbers.
LEMMA DueType ==
    /\ Typed => Due \in [Key -> Nat] /\ acked \in [Key -> Nat] /\ promised \in [Key -> Nat]
    /\ (Typed => Due \in [Key -> Nat] /\ acked \in [Key -> Nat] /\ promised \in [Key -> Nat])'
<1>1. \A r \in InternalRecord : r.op \in Nat
  BY Zenon, RecordNumbers
<1>2. Typed => Due \in [Key -> Nat] /\ acked \in [Key -> Nat] /\ promised \in [Key -> Nat]
  BY Zenon, <1>1 DEF Typed, TypeOK, Pending, Due
<1>3. (Typed => Due \in [Key -> Nat] /\ acked \in [Key -> Nat] /\ promised \in [Key -> Nat])'
  BY Zenon, <1>1 DEF Typed, TypeOK, Pending, Due
<1> QED BY Zenon, <1>2, <1>3

\* What is promised is acknowledged and what is acknowledged is shown.
LEMMA ToldAndDue ==
    ASSUME Typed, Told
    PROVE  \A k \in Key : promised[k] <= Due[k] /\ acked[k] <= Due[k]
<1> SUFFICES ASSUME NEW k \in Key PROVE promised[k] <= Due[k] /\ acked[k] <= Due[k]
  BY Zenon
<1>1. Due[k] \in Nat /\ acked[k] \in Nat /\ promised[k] \in Nat /\ promised[k] <= acked[k]
  BY Zenon, DueType DEF Told
<1>2. acked[k] <= Due[k]
  BY <1>1 DEF Told, Due
<1> QED BY <1>1, <1>2

\* A sound version and its WAL.
LEMMA SoundMeans ==
    ASSUME Typed, RecordInv, NEW v \in Version, Sound(WalRecs(wal, v), v, issued)
    PROVE  /\ v.wal_id \in WalId /\ Built(v.tables)
           /\ WalRecs(wal, v) \in SUBSET InternalRecord
           /\ GoodWal(wal[v.wal_id]) /\ wal[v.wal_id] \in WalFile
           /\ Aligned(WalRecs(wal, v) \cup Recs(v.tables))
           /\ Aligned(Recs(v.tables)) /\ Genuine(Recs(v.tables), issued)
<1>1. v.wal_id \in WalId
  BY Zenon DEF Version
<1>2. GoodWal(wal[v.wal_id]) /\ wal[v.wal_id] \in WalFile
  BY Zenon, <1>1 DEF Typed, TypeOK, RecordInv
<1>3. Aligned(Recs(v.tables)) /\ Genuine(Recs(v.tables), issued)
  BY Zenon DEF Sound, Aligned, Genuine
<1> QED BY Zenon, <1>1, <1>2, <1>3, GoodWalRecs DEF Sound, WalRecs

\* Each version that recovery may find is one.
LEMMA RecoverableSound ==
    ASSUME Typed, RecordInv
    PROVE  /\ \A v \in Recoverable :
                 /\ v \in Version /\ Sound(WalRecs(wal, v), v, issued)
                 /\ v.wal_id \in WalId /\ Built(v.tables)
                 /\ WalRecs(wal, v) \in SUBSET InternalRecord
                 /\ GoodWal(wal[v.wal_id]) /\ wal[v.wal_id] \in WalFile
           /\ Latest(manifest.log) \in Recoverable
<1>1. \A v \in Recoverable : v \in Version /\ Sound(WalRecs(wal, v), v, issued)
  BY Zenon, NamedWalIds DEF RecordInv
<1> QED BY Zenon, <1>1, SoundMeans, NamedWalIds

-----------------------------------------------------------------------------
(* Opening. *)

\* Nothing is told before the first open.
LEMMA KeepInit == Init => KeepInv
<1> SUFFICES ASSUME Init PROVE KeepInv
  BY Zenon
<1>1. /\ Recoverable = {EmptyVersion} /\ Latest(manifest.log) = EmptyVersion
      /\ EmptyVersion.wal_id \in WalId
  BY Zenon, RangeOfSingle, EmptyVersionType DEF Init, Recoverable, Version
<1>2. wal[EmptyVersion.wal_id] = NoFile
  BY Zenon, <1>1 DEF Init
<1>3. Durable(wal[EmptyVersion.wal_id]) = {} /\ WalRecs(wal, EmptyVersion) = {}
  BY <1>2, DurableEmpty DEF NoFile, WalRecs
<1>4. /\ acked = NoWrite /\ promised = NoWrite /\ job.call = "none" /\ pc = "down"
      /\ Len(issued) = 0 /\ \A k \in Key : NoWrite[k] = 0
  BY Zenon DEF Init, NoJob, NoWrite
<1>5. \A k \in Key : Due[k] = 0
  BY Zenon, <1>4 DEF Due
<1>6. \A d : (\A k \in Key : d[k] = 0) => Shows({}, EmptyVersion.tables, d, issued)
  BY Zenon DEF Shows, Fresh, TableFresh
<1>7. Shows({}, EmptyVersion.tables, promised, issued) /\ Shows({}, EmptyVersion.tables, Due, issued)
  BY Zenon, <1>4, <1>5, <1>6
<1>8. FilesKeep
  BY Zenon, <1>1, <1>3, <1>4, <1>7 DEF FilesKeep, Kept, Keeps
<1>9. Told
  BY <1>4 DEF Told
<1> QED BY Zenon, <1>4, <1>8, <1>9 DEF KeepInv, Live, Staging, Committing

-----------------------------------------------------------------------------
(* Crashes. *)

\* KeepInv is preserved by every step.
LEMMA KeepStep ==
    ASSUME LevelFacts, ~Fails("manifest_sync"), ~Fails("wal_write"), Fails("wal_sync") => ~SyncOnWrite
    PROVE  /\ Typed /\ Typed' /\ TableInv /\ FlowInv /\ WalInv /\ HeaderInv /\ RecordInv
           /\ KeepInv /\ [Next]_vars
           => KeepInv'
  \* The newest L0 table answers before every other one.
<1>NewestTableFirst.
    ASSUME NEW tables, Built(tables), NEW T, T.level = 0,
           \A u \in tables : u.id < T.id,
           NEW k, NEW op, NEW w, Fresh(T.recs, tables, k, op, w)
    PROVE  TableFresh(tables \cup {T}, k, op, w)
  <2> USE <1>NewestTableFirst
  <2>1. CASE Holds(T, k)
    <3>1. PICK r \in T.recs : r.key = k /\ r.op >= op
      BY Zenon, <2>1 DEF Fresh, Holds
    <3>2. ASSUME NEW u \in tables PROVE SearchedBefore(T, u)
      <4>1. u.level \in Nat /\ u.id < T.id
        BY LsmAssumption DEF Built, TableMeta, LevelId
      <4> QED BY <4>1 DEF SearchedBefore
    <3> QED BY Zenon, <3>1, <3>2 DEF TableFresh
  <2>2. CASE ~Holds(T, k)
    <3>1. TableFresh(tables, k, op, w)
      BY Zenon, <2>2 DEF Fresh, Holds
    <3>2. ASSUME NEW t \in tables, \E r \in t.recs : r.key = k /\ r.op >= op,
                 \A u \in tables : Holds(u, k) => u = t \/ SearchedBefore(t, u)
          PROVE  TableFresh(tables \cup {T}, k, op, w)
      <4>1. \A u \in tables \cup {T} : Holds(u, k) => u = t \/ SearchedBefore(t, u)
        BY Zenon, <2>2, <3>2
      <4> QED BY Zenon, <3>2, <4>1 DEF TableFresh
    <3>3. CASE op = 0
      BY Zenon, <3>3 DEF TableFresh
    <3>4. CASE (\A t \in tables : ~Holds(t, k)) /\ Removed(k, op, w)
      BY Zenon, <2>2, <3>4 DEF TableFresh
    <3> QED BY Zenon, <3>1, <3>2, <3>3, <3>4 DEF TableFresh
  <2> QED BY Zenon, <2>1, <2>2
  \* A flush of the oldest records in memory changes no answer of a read.
<1>FlushFresh.
    ASSUME NEW tables, Built(tables), NEW T, T.level = 0,
           \A u \in tables : u.id < T.id,
           NEW M \in SUBSET InternalRecord, T.recs \in SUBSET InternalRecord,
           Aligned(T.recs \cup M), \A r \in T.recs, q \in M : r.seq < q.seq,
           NEW k, NEW op \in Nat, NEW w, Fresh(T.recs \cup M, tables, k, op, w)
    PROVE  Fresh(M, tables \cup {T}, k, op, w)
  <2> USE <1>FlushFresh
  <2>1. CASE \E q \in M : q.key = k
    <3>1. PICK q \in M : q.key = k
      BY Zenon, <2>1
    <3>2. PICK r \in T.recs \cup M : r.key = k /\ r.op >= op
      BY Zenon, <3>1 DEF Fresh
    <3>3. r.op \in Nat /\ q.op \in Nat /\ r.seq \in Nat /\ q.seq \in Nat
      BY Zenon, RecordNumbers
    <3>4. CASE r \in M
      BY Zenon, <2>1, <3>2, <3>4 DEF Fresh
    <3>5. CASE r \in T.recs
      <4>1. r.seq <= q.seq
        BY <3>3, <3>5
      <4>2. r.op <= q.op
        BY Zenon, <3>1, <3>2, <4>1 DEF Aligned
      <4>3. q.op >= op
        BY <3>2, <3>3, <4>2
      <4> QED BY Zenon, <2>1, <3>1, <4>3 DEF Fresh
    <3> QED BY Zenon, <3>4, <3>5
  <2>2. CASE ~\E q \in M : q.key = k
    <3>1. Fresh(T.recs, tables, k, op, w)
      BY Zenon, <2>2 DEF Fresh
    <3>2. TableFresh(tables \cup {T}, k, op, w)
      BY Zenon, <3>1, <1>NewestTableFirst
    <3> QED BY Zenon, <2>2, <3>2 DEF Fresh
  <2> QED BY Zenon, <2>1, <2>2
  \* Nor does it change what a recovery from a part S of the WAL answers, when
  \* what the rest of the WAL gave the table is late enough.
<1>FlushKeepsFresh.
    ASSUME NEW tables, Built(tables), NEW T, T.level = 0,
           \A u \in tables : u.id < T.id,
           NEW S, NEW k, NEW op, NEW w, Fresh(S, tables, k, op, w),
           \A r \in T.recs : r.key = k /\ r \notin S => r.op >= op
    PROVE  Fresh(S, tables \cup {T}, k, op, w)
  <2> USE <1>FlushKeepsFresh
  <2>1. CASE \E q \in S : q.key = k
    BY Zenon, <2>1 DEF Fresh
  <2>2. CASE ~\E q \in S : q.key = k
    <3>1. TableFresh(tables, k, op, w)
      BY Zenon, <2>2 DEF Fresh
    <3>2. Fresh(T.recs, tables, k, op, w)
      BY Zenon, <2>2, <3>1 DEF Fresh
    <3>3. TableFresh(tables \cup {T}, k, op, w)
      BY Zenon, <3>2, <1>NewestTableFirst
    <3> QED BY Zenon, <2>2, <3>3 DEF Fresh
  <2> QED BY Zenon, <2>1, <2>2
  \* A write is added to the records searched first.
<1>ShowsPut.
    ASSUME NEW S \in SUBSET InternalRecord, NEW tables, Built(tables),
           NEW r \in InternalRecord,
           NEW d \in [Key -> Nat], NEW d2 \in [Key -> Nat],
           \A k \in Key : k # r.key => d2[k] <= d[k], d2[r.key] <= r.op,
           NEW w, NEW w2, Extends(w, w2), Shows(S, tables, d, w)
    PROVE  Shows(S \cup {r}, tables, d2, w2)
  <2> USE <1>ShowsPut
  <2> SUFFICES ASSUME NEW k \in Key PROVE Fresh(S \cup {r}, tables, k, d2[k], w2)
    BY Zenon DEF Shows
  <2>1. d[k] \in Nat /\ d2[k] \in Nat /\ Fresh(S, tables, k, d[k], w) /\ r.op \in Nat
    BY Zenon, RecordNumbers DEF Shows
  <2>2. CASE k = r.key
    BY Zenon, <2>1, <2>2 DEF Fresh
  <2>3. CASE k # r.key
    <3>1. Fresh(S, tables, k, d2[k], w2)
      BY Zenon, <2>1, <2>3, FreshEarlier DEF Extends
    <3> QED BY Zenon, <2>3, <3>1 DEF Fresh
  <2> QED BY Zenon, <2>2, <2>3
  \* A flush of records of S, of which S keeps a copy, ...
<1>ShowsFlushed.
    ASSUME NEW S, NEW tables, Built(tables), NEW T, T.level = 0,
           \A u \in tables : u.id < T.id, T.recs \subseteq S,
           NEW d, NEW w, Shows(S, tables, d, w)
    PROVE  Shows(S, tables \cup {T}, d, w)
  <2> USE <1>ShowsFlushed
  <2> SUFFICES ASSUME NEW k \in Key PROVE Fresh(S, tables \cup {T}, k, d[k], w)
    BY Zenon DEF Shows
  <2> QED BY Zenon, <1>FlushKeepsFresh DEF Shows
  \* ... and of the oldest records, which leave the memory.
<1>ShowsRetired.
    ASSUME NEW tables, Built(tables), NEW T, T.level = 0,
           \A u \in tables : u.id < T.id,
           NEW M \in SUBSET InternalRecord, T.recs \in SUBSET InternalRecord,
           Aligned(T.recs \cup M), \A r \in T.recs, q \in M : r.seq < q.seq,
           NEW d \in [Key -> Nat], NEW w, Shows(T.recs \cup M, tables, d, w)
    PROVE  Shows(M, tables \cup {T}, d, w)
  <2> USE <1>ShowsRetired
  <2> SUFFICES ASSUME NEW k \in Key PROVE Fresh(M, tables \cup {T}, k, d[k], w)
    BY Zenon DEF Shows
  <2>1. d[k] \in Nat /\ Fresh(T.recs \cup M, tables, k, d[k], w)
    BY Zenon DEF Shows
  <2> QED BY Zenon, <2>1, <1>FlushFresh
  \* A compaction changes no answer.
<1>ShowsCompacted.
    ASSUME LevelFacts, NEW S, NEW tables, Built(tables), NEW plan, GoodPlan(tables, plan),
           NEW first \in Nat, NEW w, Aligned(Recs(tables)), Genuine(Recs(tables), w),
           NEW d \in [Key -> Nat], Shows(S, tables, d, w)
    PROVE  Shows(S, Compacted(tables, plan, first), d, w)
  <2> USE <1>ShowsCompacted
  <2> SUFFICES ASSUME NEW k \in Key
               PROVE  Fresh(S, Compacted(tables, plan, first), k, d[k], w)
    BY Zenon DEF Shows
  <2>1. d[k] \in Nat /\ Fresh(S, tables, k, d[k], w)
    BY Zenon DEF Shows
  <2>2. CASE \E r \in S : r.key = k
    BY Zenon, <2>1, <2>2 DEF Fresh
  <2>3. CASE ~\E r \in S : r.key = k
    <3>1. TableFresh(tables, k, d[k], w)
      BY Zenon, <2>1, <2>3 DEF Fresh
    <3>2. TableFresh(Compacted(tables, plan, first), k, d[k], w)
      BY Zenon, <2>1, <3>1 DEF LevelFacts, MergesKeep
    <3> QED BY Zenon, <2>3, <3>2 DEF Fresh
  <2> QED BY Zenon, <2>2, <2>3
  \* A write is added to the WAL.
<1>KeepsPut.
    ASSUME NEW D, NEW S \in SUBSET InternalRecord, NEW tables, Built(tables),
           NEW r \in InternalRecord, NEW p \in [Key -> Nat], p[r.key] <= r.op,
           NEW w, NEW w2, Extends(w, w2), Keeps(D, S, tables, p, w)
    PROVE  Keeps(D, S \cup {r}, tables, p, w2)
  <2> USE <1>KeepsPut
  <2>1. D \in SUBSET InternalRecord /\ \A k \in Key : p[k] \in Nat /\ p[k] <= p[k]
    BY DEF Keeps
  <2>2. Shows(D, tables, p, w2)
    BY Zenon, <2>1, ShowsEarlier DEF Keeps
  <2>3. r.op >= p[r.key]
    BY Zenon, <2>1, RecordNumbers
  <2> QED BY Zenon, <2>2, <2>3 DEF Keeps
  \* A flush of records of the WAL.
<1>KeepsFlushed.
    ASSUME NEW D, NEW S, NEW tables, Built(tables), NEW T, T.level = 0,
           \A u \in tables : u.id < T.id, T.recs \subseteq S,
           NEW p, NEW w, Keeps(D, S, tables, p, w)
    PROVE  Keeps(D, S, tables \cup {T}, p, w)
  <2> USE <1>KeepsFlushed
  <2>1. ASSUME NEW k \in Key PROVE Fresh(D, tables \cup {T}, k, p[k], w)
    <3>1. Fresh(D, tables, k, p[k], w)
      BY Zenon DEF Keeps, Shows
    <3>2. \A r \in T.recs : r.key = k /\ r \notin D => r.op >= p[k]
      BY Zenon DEF Keeps
    <3> QED BY Zenon, <3>1, <3>2, <1>FlushKeepsFresh
  <2> QED BY Zenon, <2>1 DEF Keeps, Shows
  \* A call that goes on or ends, but for a put that is applied or acknowledged.
<1>DueStays.
    ASSUME Typed, Told, UNCHANGED <<issued, acked, promised>>,
           job'.call # "put" \/ (job'.call = job.call /\ job'.rec = job.rec /\ ~Putting)
    PROVE  Told' /\ \A k \in Key : Due'[k] <= Due[k]
  <2> USE <1>DueStays
  <2>1. Told'
    BY Zenon DEF Told
  <2>2. ASSUME NEW k \in Key PROVE Due'[k] <= Due[k]
    <3>1. Due[k] \in Nat /\ acked[k] <= Due[k]
      BY Zenon, DueType, ToldAndDue
    <3>2. Due'[k] = acked[k] \/ Due'[k] = Due[k]
      BY Zenon DEF Due
    <3> QED BY <3>1, <3>2
  <2> QED BY Zenon, <2>1, <2>2
  \* The MANIFEST is the same, or synced, and so are the WALs it names.
<1>FilesStay.
    ASSUME Typed, Typed', RecordInv, FilesKeep, UNCHANGED <<issued, promised>>,
           Recoverable' \subseteq Recoverable, Latest(manifest'.log) = Latest(manifest.log),
           \A k \in Key : Due'[k] <= Due[k],
           \A v \in Recoverable : wal'[v.wal_id] = wal[v.wal_id]
                                  \/ wal'[v.wal_id] = Synced(wal[v.wal_id])
    PROVE  FilesKeep' /\ \A v \in Recoverable : WalRecs(wal', v) = WalRecs(wal, v)
  <2> USE <1>FilesStay
  <2>2. \A v \in Recoverable : WalRecs(wal', v) = WalRecs(wal, v)
    BY Zenon, RecoverableSound, DurableSynced DEF WalRecs
  <2>3. ASSUME NEW v \in Recoverable
        PROVE  Kept(wal', v, promised, issued) /\ (wal'[v.wal_id].hdr # "ok" => promised = NoWrite)
    <3>1. CASE wal'[v.wal_id] = wal[v.wal_id]
      BY Zenon, <3>1 DEF FilesKeep, Kept, WalRecs
    <3>2. CASE wal'[v.wal_id] = Synced(wal[v.wal_id])
      <4>1. /\ Durable(wal'[v.wal_id]) = WalRecs(wal, v) /\ wal'[v.wal_id].hdr = "ok"
            /\ Durable(wal[v.wal_id]) \subseteq WalRecs(wal, v)
        BY Zenon, <3>2, RecoverableSound, DurableSynced DEF WalRecs, Synced, WalFile
      <4>2. Keeps(Durable(wal[v.wal_id]), WalRecs(wal, v), v.tables, promised, issued)
        BY Zenon DEF FilesKeep, Kept
      <4>3. Keeps(WalRecs(wal, v), WalRecs(wal, v), v.tables, promised, issued)
        BY Zenon, <4>1, <4>2, KeepsPart
      <4> QED BY Zenon, <2>2, <4>1, <4>3 DEF Kept
    <3> QED BY Zenon, <3>1, <3>2
  <2>4. LET v == Latest(manifest.log) IN Shows(WalRecs(wal', v), v.tables, Due', issued)
    <3> DEFINE v == Latest(manifest.log)
    <3>1. /\ v \in Recoverable /\ Built(v.tables) /\ WalRecs(wal, v) \in SUBSET InternalRecord
          /\ WalRecs(wal', v) = WalRecs(wal, v) /\ Shows(WalRecs(wal, v), v.tables, Due, issued)
      BY Zenon, <2>2, RecoverableSound DEF FilesKeep
    <3>2. Due \in [Key -> Nat] /\ Due' \in [Key -> Nat] /\ Extends(issued, issued)
      BY Zenon, DueType, ExtendsItself
    <3> HIDE DEF v
    <3>3. Shows(WalRecs(wal, v), v.tables, Due', issued)
      BY Zenon, <3>1, <3>2, ShowsEarlier
    <3> QED BY Zenon, <3>1, <3>3 DEF v
  <2> QED BY Zenon, <2>2, <2>3, <2>4 DEF FilesKeep
  \* The process ends, in an orderly way or not, and the page cache survives.
<1>Lost.
    ASSUME Typed, Typed', RecordInv, KeepInv,
           UNCHANGED <<manifest, wal, issued, acked, promised>>, pc' = "down", LoseMemory
    PROVE  KeepInv'
  <2> USE <1>Lost
  <2>1. job'.call # "put"
    BY Zenon DEF LoseMemory, NoJob
  <2>2. Told' /\ \A k \in Key : Due'[k] <= Due[k]
    BY Zenon, <2>1, <1>DueStays DEF KeepInv
  <2>3. FilesKeep'
    BY Zenon, <2>2, <1>FilesStay DEF KeepInv, Recoverable
  <2> QED BY Zenon, <2>2, <2>3 DEF KeepInv, Live, Staging, Committing
  \* Between two points of a call where neither a put nor an edit is in progress:
  \* the memtables hold the same and the WALs are synced at most.
<1>Serves.
    ASSUME Typed, Typed', TableInv, RecordInv, KeepInv,
           UNCHANGED <<issued, acked, promised, catalog>>,
           Recoverable' \subseteq Recoverable, Latest(manifest'.log) = Latest(manifest.log),
           \A v \in Recoverable : wal'[v.wal_id] = wal[v.wal_id]
                                  \/ wal'[v.wal_id] = Synced(wal[v.wal_id]),
           InMemory' = InMemory,
           job'.call # "put" \/ (job'.call = job.call /\ job'.rec = job.rec /\ ~Putting),
           Live, pc \notin {"sync", "committed"}, ~Putting', ~Staging',
           pc' = "close_manifest" => Durable(wal'[catalog.wal_id]) = WalRecs(wal, catalog)
    PROVE  KeepInv'
  <2> USE <1>Serves
  <2>1. Told' /\ \A k \in Key : Due'[k] <= Due[k]
    BY Zenon, <1>DueStays DEF KeepInv
  <2>2. FilesKeep' /\ WalRecs(wal', catalog) = WalRecs(wal, catalog)
    BY Zenon, <2>1, <1>FilesStay, NamedWalIds DEF KeepInv, TableInv, Live
  <2>3. /\ InMemory \in SUBSET InternalRecord /\ Built(catalog.tables)
        /\ Shows(InMemory, catalog.tables, Due, issued)
    <3>1. Built(catalog.tables)
      BY Zenon, RecoverableSound DEF TableInv, Live
    <3>2. InMemory \in SUBSET InternalRecord
      BY Zenon, MemoryType
    <3> QED BY Zenon, <3>1, <3>2 DEF KeepInv
  <2>4. Due \in [Key -> Nat] /\ Due' \in [Key -> Nat] /\ Extends(issued, issued)
    BY Zenon, DueType, ExtendsItself
  <2>5. Shows(InMemory, catalog.tables, Due', issued)
    BY Zenon, <2>1, <2>3, <2>4, ShowsEarlier
  <2> QED BY Zenon, <2>1, <2>2, <2>5 DEF KeepInv, Putting, Staging, Committing
  \* Opening the manifest.
<1>Open.
    ASSUME Typed, Typed', HeaderInv, FlowInv, RecordInv, KeepInv,
           \/ Open \/ CreateManifest \/ WriteManifestHeader \/ SyncManifestHeader
           \/ LoadManifest \/ RefuseManifest
    PROVE  KeepInv'
  <2> USE <1>Open
  <2> USE DEF Goto, files, memory, history
  <2>1. CASE RefuseManifest
    BY Zenon, <2>1, <1>Lost DEF RefuseManifest, OpenFails
  <2>2. CASE Open \/ CreateManifest \/ WriteManifestHeader \/ SyncManifestHeader \/ LoadManifest
    <3>1. /\ UNCHANGED <<wal, job, issued, acked, promised>> /\ pc \in Starting
          /\ pc' \in {"open_manifest", "manifest_header", "manifest_header_sync", "open_wal"}
      BY Zenon, <2>2 DEF Open, CreateManifest, WriteManifestHeader, SyncManifestHeader, LoadManifest,
                  Starting
    <3>2. manifest'.log = manifest.log
      <4>1. CASE CreateManifest
        BY Zenon, <4>1 DEF CreateManifest, HeaderInv
      <4>2. CASE WriteManifestHeader \/ SyncManifestHeader
        BY Zenon, <4>2 DEF WriteManifestHeader, SyncManifestHeader, Typed, TypeOK
      <4> QED BY Zenon, <2>2, <4>1, <4>2 DEF Open, LoadManifest
    <3>3. Told' /\ \A k \in Key : Due'[k] <= Due[k]
      BY Zenon, <3>1, <1>DueStays DEF KeepInv, Putting, Starting
    <3>4. FilesKeep'
      BY Zenon, <3>1, <3>2, <3>3, <1>FilesStay DEF KeepInv, Recoverable
    <3> QED BY Zenon, <3>1, <3>3, <3>4 DEF KeepInv, Live, Staging, Committing
  <2> QED BY Zenon, <2>1, <2>2
  \* The WAL of a new database.
<1>CreateWal.
    ASSUME Typed, Typed', TableInv, FlowInv, WalInv, RecordInv, KeepInv,
           CreateWal \/ WriteWalHeader \/ SyncWalHeader
    PROVE  KeepInv'
  <2> USE <1>CreateWal
  <2> USE DEF Goto, files, memory, history
  <2>1. /\ pc \in {"open_wal", "wal_header", "wal_header_sync"}
        /\ pc' \in {"wal_header", "wal_header_sync", "idle"}
        /\ UNCHANGED <<manifest, issued, acked, promised, mem, imm, catalog, job>>
    BY Zenon DEF CreateWal, WriteWalHeader, SyncWalHeader
  <2>2. RecordInv'
    BY Zenon, RecordCreateWal
  <2>3. wal[catalog.wal_id].hdr # "ok" /\ catalog = Latest(manifest.log)
    BY Zenon, <2>1 DEF CreateWal, WriteWalHeader, SyncWalHeader, WalInv, TableInv
  <2>4. Recoverable = {catalog} /\ Recoverable' = {catalog} /\ Latest(manifest'.log) = catalog
    BY Zenon, <2>1, <2>3, NewDatabase DEF Recoverable
  <2>5. /\ WalRecs(wal, catalog) = {} /\ Durable(wal[catalog.wal_id]) = {} /\ promised = NoWrite
        /\ Kept(wal, catalog, promised, issued)
    <3>1. WalRecs(wal, catalog) = {}
      BY Zenon, <2>3, <2>4, RecoverableSound, GoodWalRecs DEF WalRecs
    <3> QED BY Zenon, <2>3, <2>4, <3>1, RecoverableSound, DurableSynced DEF WalRecs, KeepInv, FilesKeep
  <2>6. WalRecs(wal', catalog) = {} /\ Durable(wal'[catalog.wal_id]) = {}
    <3>1. Backed(WalRecs(wal', catalog), catalog, {}, next_sequence')
      BY Zenon, <2>1, <2>2, NothingInMemory DEF RecordInv, Live, Applied, Putting, FlowInv, Starting
    <3>2. catalog.wal_id \in WalId /\ wal'[catalog.wal_id] \in WalFile /\ GoodWal(wal'[catalog.wal_id])
      BY Zenon, <2>2, <2>4, RecoverableSound DEF Typed, TypeOK, RecordInv
    <3> QED BY Zenon, <3>1, <3>2, DurableSynced DEF WalRecs, Backed
  <2>7. Told' /\ Due' = Due /\ job.call # "put"
    <3>1. job.call # "put" /\ job'.call # "put"
      BY <2>1 DEF FlowInv, Starting, NoJob
    <3> QED BY Zenon, <2>1, <3>1 DEF KeepInv, Told, Due
  <2>8. InMemory' = {} /\ Shows({}, catalog.tables, Due, issued)
    BY Zenon, <2>1, <2>4, <2>5, NothingInMemory DEF FlowInv, Starting, KeepInv, FilesKeep
  <2>9. FilesKeep'
    BY Zenon, <2>1, <2>4, <2>5, <2>6, <2>7, <2>8 DEF FilesKeep, Kept
  <2> QED BY Zenon, <2>1, <2>7, <2>8, <2>9 DEF KeepInv, Staging, Committing
  \* An edit is staged and the files that recovery may read stay.
<1>Stages.
    ASSUME Told', FilesKeep', pc' = "append",
           Shows(InMemory', catalog'.tables, Due', issued'),
           Shows(WalRecs(wal', job'.staged), job'.staged.tables, Due', issued'),
           Shows(After', job'.staged.tables, Due', issued'),
           Kept(wal', job'.staged, promised', issued')
    PROVE  KeepInv'
  BY Zenon, <1>Stages DEF KeepInv
  \* Recovery replays and rewrites the WAL: the memtable and the new WAL show what
  \* the old WAL did.
<1>Replay.
    ASSUME Typed, Typed', TableInv, FlowInv, WalInv, RecordInv, KeepInv, RecoverWal
    PROVE  KeepInv'
  <2> USE <1>Replay
  <2> DEFINE S == WalRecs(wal, catalog)
  <2>1. /\ pc = "open_wal" /\ pc' = "replacement_sync"
        /\ UNCHANGED <<manifest, catalog, issued, acked, promised>>
        /\ job'.call = "open" /\ job'.staged.tables = catalog.tables
        /\ InMemory' = S /\ After' = S /\ WalRecs(wal', job'.staged) = S
        /\ \A v \in Recoverable : wal'[v.wal_id] = wal[v.wal_id]
    BY Zenon, ReplayMeans
  <2>2. /\ Told' /\ \A k \in Key : Due'[k] <= Due[k]
        /\ catalog = Latest(manifest.log) /\ catalog \in Recoverable
    BY Zenon, <2>1, <1>DueStays, NamedWalIds DEF KeepInv, TableInv
  <2>3. FilesKeep' /\ WalRecs(wal', catalog) = S
    BY Zenon, <2>1, <2>2, <1>FilesStay DEF KeepInv, Recoverable
  <2>4. Shows(S, catalog.tables, Due', issued')
    BY Zenon, <2>1, <2>2, <2>3 DEF FilesKeep
  <2> HIDE DEF S
  <2> QED BY Zenon, <2>1, <2>2, <2>3, <2>4 DEF KeepInv, Committing, Putting
  \* Its sync makes them durable.
<1>OpenWal.
    ASSUME Typed, Typed', TableInv, FlowInv, WalInv, RecordInv, KeepInv,
           RefuseWal \/ SyncReplacement \/ SyncReplacementFails
    PROVE  KeepInv'
  <2> USE <1>OpenWal
  <2> USE DEF Goto, files, memory, history
  <2>1. CASE RefuseWal \/ SyncReplacementFails
    BY Zenon, <2>1, <1>Lost DEF RefuseWal, SyncReplacementFails, OpenFails
  <2>2. CASE SyncReplacement
    <3> DEFINE f == wal[job.staged.wal_id]
               S == WalRecs(wal, job.staged)
    <3>1. /\ pc = "replacement_sync" /\ pc' = "append"
          /\ UNCHANGED <<manifest, catalog, mem, imm, job, issued, acked, promised>>
          /\ wal' = [wal EXCEPT ![job.repl] = Synced(@)]
      BY Zenon, <2>2 DEF SyncReplacement
    <3>2. /\ wal \in [WalId -> WalFile] /\ job.staged \in Version /\ job.staged.wal_id \in WalId
          /\ job.staged.wal_id = job.repl /\ Sound(S, job.staged, issued)
      BY Zenon, <3>1, NamedWalIds DEF Typed, TypeOK, Job, FlowInv, RecordInv, Staging
    <3>3. /\ Built(job.staged.tables) /\ S \in SUBSET InternalRecord
          /\ GoodWal(f) /\ f \in WalFile
      BY Zenon, <3>2, SoundMeans
    <3>4. wal'[job.staged.wal_id] = Synced(f)
      BY Zenon, <3>1, <3>2
    <3>5. \A v \in Recoverable : wal'[v.wal_id] = wal[v.wal_id]
                                 \/ wal'[v.wal_id] = Synced(wal[v.wal_id])
      BY Zenon, <3>1, <3>2, NamedWalIds
    <3>6. /\ Durable(wal'[job.staged.wal_id]) = S /\ WalRecs(wal', job.staged) = S
      BY Zenon, <3>3, <3>4, DurableSynced DEF WalRecs
    <3>7. /\ Due' = Due /\ Told' /\ InMemory' = InMemory /\ After' = After
          /\ Due \in [Key -> Nat] /\ promised \in [Key -> Nat] /\ Extends(issued, issued)
          /\ \A k \in Key : Due'[k] <= Due[k] /\ promised[k] <= Due[k]
      <4>1. Due' = Due /\ Told' /\ InMemory' = InMemory /\ After' = After
        BY Zenon, <3>1 DEF Due, Putting, KeepInv, Told, InMemory, After
      <4> QED BY <4>1, DueType, ExtendsItself, ToldAndDue DEF KeepInv
    <3>8. FilesKeep'
      BY Zenon, <3>1, <3>5, <3>7, <1>FilesStay DEF KeepInv, Recoverable
    <3>9. /\ Shows(InMemory, catalog.tables, Due, issued)
          /\ Shows(S, job.staged.tables, Due, issued)
          /\ Shows(After, job.staged.tables, Due, issued)
      BY Zenon, <3>1 DEF KeepInv, Live, Staging
    <3> HIDE DEF S
    <3>10. Shows(S, job.staged.tables, promised, issued)
      BY Zenon, <3>3, <3>7, <3>9, ShowsEarlier
    <3>11. Kept(wal', job.staged, promised, issued)
      BY Zenon, <3>6, <3>10 DEF Kept, Keeps
    <3> QED BY Zenon, <3>1, <3>6, <3>7, <3>8, <3>9, <3>11, <1>Stages
  <2> QED BY Zenon, <2>1, <2>2
  \* The write is appended: it may be lost, and is later than what must be kept.
<1>PutWrite.
    ASSUME Typed, Typed', TableInv, FlowInv, WalInv, RecordInv, KeepInv,
           NEW k \in Key, NEW del \in BOOLEAN, PutWrite(k, del)
    PROVE  KeepInv'
  <2> USE <1>PutWrite
  <2> DEFINE r == job'.rec
             f == wal[catalog.wal_id]
             g == wal'[catalog.wal_id]
             S == WalRecs(wal, catalog)
  <2>1. /\ pc = "idle" /\ pc' \in {"put_sync", "put_apply"} /\ (pc' = "put_apply" => ~SyncOnWrite)
        /\ writer # 0 /\ issued' = Append(issued, [key |-> k, del |-> del])
        /\ job'.call = "put" /\ job'.rec.key = k /\ job'.rec.op = Len(issued) + 1
        /\ UNCHANGED <<manifest, catalog, mem, imm, acked, promised>>
        /\ wal' = [wal EXCEPT ![writer].recs = Append(@, job'.rec)]
    BY Zenon DEF PutWrite, memory, NoJob
  <2>2. /\ writer = catalog.wal_id /\ f.hdr = "ok" /\ Recoverable = {catalog}
        /\ catalog.wal_id \in WalId /\ catalog = Latest(manifest.log)
    BY Zenon, <2>1, PutTarget DEF TableInv
  <2>3. /\ Built(catalog.tables) /\ S \in SUBSET InternalRecord
        /\ GoodWal(f) /\ f \in WalFile /\ f.synced \in Nat /\ wal \in [WalId -> WalFile]
    BY Zenon, <2>2, RecoverableSound DEF WalFile, Typed, TypeOK
  <2>4. r \in InternalRecord
    BY Zenon, <2>1 DEF Typed, Pending
  <2>5. g.hdr = "ok" /\ g.synced = f.synced /\ g.recs = Append(f.recs, r)
    BY Zenon, <2>1, <2>2, <2>3 DEF WalFile
  <2>6. Durable(g) = Durable(f) /\ WalRecs(wal', catalog) = S \cup {r}
    <3>1. f.recs \in Seq(InternalRecord)
      BY Zenon, <2>3, GoodWalRecs DEF GoodWal
    <3>2. Range(Append(f.recs, r)) = Range(f.recs) \cup {r}
      BY <2>4, <3>1, RangeOfAppend
    <3>3. Durable(g) = Durable(f)
      BY Zenon, <2>3, <2>4, <2>5, DurableAppended
    <3> QED BY Zenon, <2>5, <3>2, <3>3 DEF WalRecs
  <2>7. /\ Len(issued) \in Nat /\ Len(issued') = Len(issued) + 1 /\ Extends(issued, issued')
    <3>1. issued \in Seq([key : Key, del : BOOLEAN])
      BY Zenon DEF Typed, TypeOK
    <3>2. /\ Len(issued') = Len(issued) + 1 /\ Len(issued) \in Nat
          /\ \A i \in 1 .. Len(issued) : issued'[i] = issued[i]
      BY <2>1, <3>1, AppendIs, SeqIs
    <3> QED BY <3>2 DEF Extends
  <2>8. /\ acked \in [Key -> Nat] /\ promised \in [Key -> Nat]
        /\ \A i \in Key : promised[i] <= acked[i] /\ acked[i] <= Len(issued)
    BY Zenon, DueType DEF KeepInv, Told
  <2>9. /\ Due \in [Key -> Nat] /\ Due' \in [Key -> Nat]
        /\ \A i \in Key : Due'[i] <= Due[i]
    <3>1. \A i \in Key : Due'[i] = acked[i]
      BY Zenon, <2>1 DEF Due, Putting
    <3>2. \A i \in Key : acked[i] <= Due[i]
      BY Zenon, ToldAndDue DEF KeepInv
    <3> QED BY Zenon, <3>1, <3>2, DueType
  <2> HIDE DEF r, f, g, S
  <2>10. r.op = Len(issued) + 1 /\ r.key = k /\ Due'[k] <= r.op /\ promised[k] <= r.op
    <3>1. Due'[k] = acked[k]
      BY Zenon, <2>1 DEF Due, Putting
    <3>2. acked[k] \in Nat /\ promised[k] \in Nat
      BY Zenon, <2>8
    <3> QED BY <2>1, <2>7, <2>8, <3>1, <3>2 DEF r
  <2>11. Told'
    <3>1. ASSUME NEW i \in Key PROVE promised[i] <= acked[i] /\ acked[i] <= Len(issued')
      <4>1. promised[i] \in Nat /\ acked[i] \in Nat
        BY Zenon, <2>8
      <4> QED BY <2>7, <2>8, <4>1
    <3>2. acked[k] <= Len(issued) + 1 /\ Len(issued) + 1 <= Len(issued')
      BY <2>7, <2>8, <3>1
    <3> QED BY Zenon, <2>1, <3>1, <3>2 DEF Told
  <2>12. /\ Shows(S, catalog.tables, Due, issued)
         /\ Shows(InMemory, catalog.tables, Due, issued)
         /\ Keeps(Durable(f), S, catalog.tables, promised, issued)
    BY Zenon, <2>1, <2>2 DEF KeepInv, FilesKeep, Kept, Live, S, f
  <2>13. Shows(S \cup {r}, catalog.tables, Due', issued')
    BY Zenon, <2>3, <2>4, <2>7, <2>9, <2>10, <2>12, <1>ShowsPut
  <2>14. Shows(InMemory, catalog.tables, Due', issued')
    <3>1. InMemory \in SUBSET InternalRecord
      BY Zenon, MemoryType
    <3> QED BY Zenon, <2>3, <2>7, <2>9, <2>12, <3>1, ShowsEarlier
  <2>15. Keeps(Durable(f), S \cup {r}, catalog.tables, promised, issued')
    BY Zenon, <2>3, <2>4, <2>7, <2>8, <2>10, <2>12, <1>KeepsPut
  <2>16. FilesKeep'
    <3>1. Recoverable' = {catalog} /\ Latest(manifest'.log) = catalog
      BY Zenon, <2>1, <2>2 DEF Recoverable
    <3>2. Kept(wal', catalog, promised, issued')
      BY Zenon, <2>6, <2>15 DEF Kept, g
    <3> QED BY Zenon, <2>1, <2>5, <2>6, <2>13, <3>1, <3>2 DEF FilesKeep, g
  <2>17. InMemory' = InMemory
    BY Zenon, <2>1 DEF InMemory
  <2> QED BY Zenon, <2>1, <2>11, <2>14, <2>16, <2>17 DEF KeepInv, Staging, Committing
  \* The sync of a put.
<1>PutSync.
    ASSUME Typed, Typed', TableInv, FlowInv, WalInv, RecordInv, KeepInv, PutSync
    PROVE  KeepInv'
  <2> USE <1>PutSync
  <2>1. /\ pc = "put_sync" /\ pc' = "put_apply"
        /\ UNCHANGED <<manifest, catalog, mem, imm, job, issued, acked, promised>>
        /\ wal' = [wal EXCEPT ![writer] = Synced(@)]
    BY Zenon DEF PutSync, Goto, memory, history
  <2>2. /\ writer = catalog.wal_id /\ Recoverable = {catalog} /\ writer \in WalId
        /\ wal \in [WalId -> WalFile]
    BY Zenon, <2>1, PutTarget DEF FlowInv, Typed, TypeOK
  <2>3. wal'[catalog.wal_id] = Synced(wal[catalog.wal_id])
    BY Zenon, <2>1, <2>2
  <2>4. Told' /\ Due' = Due
    BY Zenon, <2>1 DEF KeepInv, Told, Due, Putting
  <2>5. \A k \in Key : Due'[k] <= Due[k]
    BY <2>4, DueType
  <2>6. FilesKeep' /\ WalRecs(wal', catalog) = WalRecs(wal, catalog)
    BY Zenon, <2>1, <2>2, <2>3, <2>4, <2>5, <1>FilesStay DEF KeepInv, Recoverable
  <2>7. InMemory' = InMemory /\ Shows(InMemory, catalog.tables, Due, issued)
    BY Zenon, <2>1 DEF InMemory, KeepInv, Live
  <2>8. Durable(wal'[catalog.wal_id]) = WalRecs(wal, catalog)
    BY Zenon, <2>2, <2>3, RecoverableSound, DurableSynced DEF WalRecs
  <2> QED BY Zenon, <2>1, <2>4, <2>6, <2>7, <2>8 DEF KeepInv, Staging, Committing
  \* The put is applied, and acknowledged unless a flush comes first.
<1>PutApply.
    ASSUME Typed, Typed', TableInv, FlowInv, WalInv, RecordInv, KeepInv, PutApply
    PROVE  KeepInv'
  <2> USE <1>PutApply
  <2> DEFINE r == job.rec
  <2>1. /\ pc = "put_apply" /\ UNCHANGED <<manifest, wal, catalog, imm, issued>>
        /\ mem' = mem \cup {r}
        /\ \/ /\ pc' = "idle" /\ job' = NoJob
              /\ acked' = IF job.call = "put" THEN [acked EXCEPT ![r.key] = r.op] ELSE acked
              /\ promised' = IF SyncOnWrite THEN acked' ELSE promised
           \/ pc' = "freeze" /\ UNCHANGED <<job, acked, promised>>
    BY Zenon DEF PutApply, ReturnOk, Goto, files, history
  <2>2. /\ job.call = "put" /\ r \in InternalRecord /\ r \in WalRecs(wal, catalog)
        /\ acked \in [Key -> Nat] /\ promised \in [Key -> Nat]
        /\ r.op \in Nat /\ r.key \in Key /\ Len(issued) \in Nat
        /\ acked[r.key] <= r.op /\ r.op <= Len(issued)
    <3>1. job.call = "put" /\ r \in InternalRecord
      BY Zenon, <2>1 DEF Typed, Pending
    <3>2. r \in WalRecs(wal, catalog)
      BY Zenon, <2>1 DEF RecordInv, Putting
    <3>3. acked \in [Key -> Nat] /\ promised \in [Key -> Nat] /\ Len(issued) \in Nat
      BY Zenon, SeqIs DEF Typed, TypeOK
    <3> QED BY Zenon, <3>1, <3>2, <3>3, RecordNumbers DEF KeepInv, Told
  <2>3. /\ Recoverable = {catalog} /\ Recoverable' = {catalog}
        /\ Latest(manifest'.log) = catalog /\ Latest(manifest.log) = catalog
    <3>1. Latest(manifest.log) = catalog
      BY Zenon, <2>1 DEF TableInv
    <3> QED BY Zenon, <2>1, <3>1, PutTarget DEF FlowInv, Recoverable
  <2> HIDE DEF r
  <2>4. \A k \in Key : Due'[k] = (IF k = r.key THEN r.op ELSE acked[k]) /\ Due[k] = acked[k]
    <3>1. \A k \in Key : Due[k] = acked[k]
      BY Zenon, <2>1 DEF Due, Putting
    <3>2. CASE pc' = "idle" /\ job' = NoJob /\ acked' = [acked EXCEPT ![r.key] = r.op]
      BY Zenon, <2>2, <3>1, <3>2 DEF Due, NoJob
    <3>3. CASE pc' = "freeze" /\ UNCHANGED <<job, acked>>
      BY Zenon, <2>2, <3>1, <3>3 DEF Due, Putting, r
    <3> QED BY Zenon, <2>1, <2>2, <3>2, <3>3
  <2>5. Due \in [Key -> Nat] /\ Due' \in [Key -> Nat] /\ Extends(issued, issued)
    BY Zenon, DueType, ExtendsItself
  <2>6. /\ \A k \in Key : k # r.key => Due'[k] <= Due[k]
        /\ Due'[r.key] <= r.op
    BY <2>2, <2>4
  <2>7. Built(catalog.tables) /\ WalRecs(wal, catalog) \in SUBSET InternalRecord
    BY Zenon, <2>3, RecoverableSound
  <2>8. Shows(WalRecs(wal, catalog), catalog.tables, Due', issued)
    <3>1. Shows(WalRecs(wal, catalog), catalog.tables, Due, issued)
      BY Zenon, <2>3 DEF KeepInv, FilesKeep
    <3>2. Shows(WalRecs(wal, catalog) \cup {r}, catalog.tables, Due', issued)
      BY Zenon, <2>2, <2>5, <2>6, <2>7, <3>1, <1>ShowsPut
    <3>3. WalRecs(wal, catalog) \cup {r} = WalRecs(wal, catalog)
      BY Zenon, <2>2
    <3> QED BY Zenon, <3>2, <3>3
  <2>9. Shows(InMemory', catalog.tables, Due', issued)
    <3>1. InMemory' = InMemory \cup {r} /\ InMemory \in SUBSET InternalRecord
      BY Zenon, <2>1, MemoryType DEF InMemory
    <3>2. Shows(InMemory, catalog.tables, Due, issued)
      BY Zenon, <2>1 DEF KeepInv, Live
    <3>3. Shows(InMemory \cup {r}, catalog.tables, Due', issued)
      BY Zenon, <2>2, <2>5, <2>6, <2>7, <3>1, <3>2, <1>ShowsPut
    <3> QED BY Zenon, <3>1, <3>3
  <2>10. Told'
    <3>1. CASE pc' = "idle"
      <4>1. ASSUME NEW k \in Key
            PROVE  acked'[k] = Due'[k] /\ acked[k] <= acked'[k] /\ acked'[k] <= Len(issued)
        <5>1. acked[k] \in Nat /\ acked[k] <= Len(issued)
          BY Zenon, <2>2 DEF KeepInv, Told
        <5>2. acked'[k] = IF k = r.key THEN r.op ELSE acked[k]
          BY Zenon, <2>1, <2>2, <3>1
        <5>3. Due'[k] = IF k = r.key THEN r.op ELSE acked[k]
          BY Zenon, <2>4
        <5> QED BY <2>2, <5>1, <5>2, <5>3
      <4>2. ASSUME NEW k \in Key PROVE promised'[k] <= acked'[k]
        <5>1. /\ promised[k] \in Nat /\ acked[k] \in Nat /\ acked'[k] \in Nat
              /\ promised[k] <= acked[k] /\ acked[k] <= acked'[k]
          BY Zenon, <2>2, <2>5, <4>1 DEF KeepInv, Told
        <5>2. promised'[k] \in {promised[k], acked'[k]}
          BY Zenon, <2>1, <3>1
        <5> QED BY <5>1, <5>2
      <4> QED BY <2>1, <3>1, <4>1, <4>2 DEF Told, NoJob
    <3>2. CASE pc' = "freeze"
      BY Zenon, <2>1, <3>2 DEF KeepInv, Told
    <3> QED BY Zenon, <2>1, <3>1, <3>2
  <2>11. FilesKeep'
    <3>1. wal'[catalog.wal_id].hdr = "ok"
      BY Zenon, <2>1, PutTarget DEF FlowInv
    <3>2. Kept(wal', catalog, promised', issued')
      <4>1. CASE promised' = promised
        BY Zenon, <2>1, <2>3, <4>1 DEF KeepInv, FilesKeep
      <4>2. CASE promised' = acked' /\ SyncOnWrite /\ pc' = "idle"
        <5>1. Durable(wal[catalog.wal_id]) = WalRecs(wal, catalog)
          BY Zenon, <2>1, <4>2 DEF KeepInv
        <5>2. \A k \in Key : promised'[k] = Due'[k]
          BY Zenon, <2>1, <2>2, <2>4, <4>2
        <5>3. Shows(WalRecs(wal, catalog), catalog.tables, promised', issued)
          BY Zenon, <2>8, <5>2 DEF Shows
        <5> QED BY Zenon, <2>1, <5>1, <5>3 DEF Kept, Keeps
      <4> QED BY Zenon, <2>1, <4>1, <4>2
    <3> QED BY Zenon, <2>1, <2>3, <2>8, <3>1, <3>2 DEF FilesKeep
  <2>12. pc' \in {"idle", "freeze"}
    BY Zenon, <2>1
  <2> QED BY Zenon, <2>1, <2>9, <2>10, <2>11, <2>12 DEF KeepInv, Staging, Committing
  \* flush_unlocked and flush_oldest_immutable, up to the edit.
<1>Flush.
    ASSUME Typed, Typed', TableInv, FlowInv, WalInv, RecordInv, KeepInv,
           Flush \/ Freeze \/ Drained \/ FlushTable \/ FlushTableFails \/ FlushEditFails
    PROVE  KeepInv'
  <2> USE <1>Flush
  <2>1. /\ pc \in {"idle", "freeze", "drain", "flush_edit"}
        /\ pc' \in {"idle", "freeze", "drain", "flush_edit", "maybe_compact"}
        /\ UNCHANGED <<manifest, catalog, issued, acked, promised>>
        /\ job' = job \/ job'.call # "put"
        /\ InMemory' = InMemory
        /\ \A v \in Recoverable : wal'[v.wal_id] = wal[v.wal_id]
    BY Zenon, FlushMeans
  <2>2. /\ Live /\ ~Putting /\ ~Putting' /\ ~Staging' /\ pc \notin {"sync", "committed"}
        /\ pc' # "close_manifest" /\ Recoverable' = Recoverable
    BY Zenon, <2>1 DEF Live, Putting, Staging, Recoverable
  <2> QED BY Zenon, <2>1, <2>2, <1>Serves
  \* The edit of a flush: the oldest memtable becomes the first table searched,
  \* and the WAL is replaced when no other memtable is left.
<1>FlushEdit.
    ASSUME Typed, Typed', TableInv, FlowInv, WalInv, RecordInv, KeepInv, FlushEdit
    PROVE  KeepInv'
  <2> USE <1>FlushEdit
  <2> DEFINE staged == job'.staged
             M      == UNION Range(Tail(imm))
             T      == FlushedTable
             S      == WalRecs(wal, catalog)
             new    == catalog.tables \cup {T}
  <2>1. /\ pc = "flush_edit" /\ pc' = "append" /\ imm # <<>> /\ mem = {}
        /\ UNCHANGED <<manifest, catalog, mem, imm, issued, acked, promised>>
        /\ job'.kind = "flush" /\ job'.call = job.call /\ job'.rec = job.rec
        /\ T \in TableMeta /\ staged.tables = new
        /\ \/ /\ Len(imm) > 1 /\ wal' = wal /\ staged.wal_id = catalog.wal_id
           \/ /\ Len(imm) = 1 /\ wal' = [wal EXCEPT ![catalog.wal_id + 1] = NewWal]
              /\ staged.wal_id = catalog.wal_id + 1 /\ catalog.wal_id + 1 \in WalId
    BY Zenon, FlushEditMeans
  <2>2. /\ Recoverable = {catalog} /\ Recoverable' = Recoverable
        /\ Latest(manifest.log) = catalog /\ Latest(manifest'.log) = catalog
    BY Zenon, <2>1 DEF WalInv, Serving, Starting, TableInv, Recoverable
  <2>3. /\ catalog.wal_id \in WalId /\ catalog.wal_id \in Nat /\ wal \in [WalId -> WalFile]
        /\ Built(catalog.tables) /\ S \in SUBSET InternalRecord
        /\ Aligned(S \cup Recs(catalog.tables))
        /\ imm \in Seq(SUBSET InternalRecord)
    <3>1. catalog.wal_id \in WalId => catalog.wal_id \in Nat
      BY DEF WalId
    <3> QED BY Zenon, <2>2, <3>1, RecoverableSound DEF Typed, TypeOK, Sound
  <2>4. Backed(S, catalog, InMemory, next_sequence) /\ OldestFirst(imm, mem)
    BY Zenon, <2>1 DEF RecordInv, Live, Applied, Putting
  <2>5. /\ T.level = 0 /\ T.recs = Head(imm) /\ \A u \in catalog.tables : u.id < T.id
    BY Zenon DEF FlushedTable, TableInv, Below
  <2>6. /\ Head(imm) # {} /\ Head(imm) \in SUBSET InternalRecord
        /\ UNION Range(imm) = Head(imm) \cup M
        /\ \A r \in Head(imm), q \in mem \cup M : r.seq < q.seq
    BY Zenon, <2>1, <2>3, <2>4, OldestAndRest
  <2>7. /\ InMemory = T.recs \cup M /\ InMemory' = InMemory /\ After' = M
        /\ T.recs \subseteq S /\ M \subseteq S /\ M \in SUBSET InternalRecord
        /\ Aligned(T.recs \cup M) /\ \A r \in T.recs, q \in M : r.seq < q.seq
    BY Zenon, <2>1, <2>3, <2>4, <2>5, <2>6 DEF InMemory, After, Backed, Aligned
  <2> HIDE DEF M, T, staged, S
  <2>8. /\ Due' = Due /\ Told' /\ Due \in [Key -> Nat] /\ Extends(issued, issued)
        /\ \A k \in Key : Due'[k] <= Due[k] /\ promised[k] <= Due[k]
    <3>1. Due' = Due
      BY Zenon, <2>1 DEF Due, Putting
    <3> QED BY <2>1, <3>1, DueType, ExtendsItself, ToldAndDue DEF KeepInv, Told
  <2>9. /\ Shows(InMemory, catalog.tables, Due, issued) /\ Shows(S, catalog.tables, Due, issued)
        /\ Keeps(Durable(wal[catalog.wal_id]), S, catalog.tables, promised, issued)
    BY Zenon, <2>1, <2>2 DEF KeepInv, FilesKeep, Kept, Live, S
  <2>10. Shows(M, new, Due, issued)
    BY Zenon, <2>3, <2>5, <2>7, <2>8, <2>9, <1>ShowsRetired
  <2>11. Built(new)
    BY Zenon, <2>1, <2>3, <2>5, <2>6 DEF Built
  <2>12. wal'[catalog.wal_id] = wal[catalog.wal_id]
    <3>1. catalog.wal_id # catalog.wal_id + 1
      BY <2>3
    <3> QED BY Zenon, <2>1, <2>3, <3>1
  <2>13. FilesKeep'
    BY Zenon, <2>1, <2>2, <2>8, <2>12, <1>FilesStay DEF KeepInv
  <2> HIDE DEF new
  <2>14. Shows(WalRecs(wal', staged), new, Due, issued) /\ Kept(wal', staged, promised, issued)
    <3>1. CASE wal' = wal /\ staged.wal_id = catalog.wal_id
      <4>1. WalRecs(wal', staged) = S
        BY Zenon, <3>1 DEF WalRecs, S
      <4>2. Shows(S, new, Due, issued)
        BY Zenon, <2>3, <2>5, <2>7, <2>9, <1>ShowsFlushed DEF new
      <4>3. Keeps(Durable(wal[catalog.wal_id]), S, new, promised, issued)
        BY Zenon, <2>3, <2>5, <2>7, <2>9, <1>KeepsFlushed DEF new
      <4> QED BY Zenon, <2>1, <3>1, <4>1, <4>2, <4>3 DEF Kept, new
    <3>2. CASE /\ Len(imm) = 1 /\ wal' = [wal EXCEPT ![catalog.wal_id + 1] = NewWal]
               /\ staged.wal_id = catalog.wal_id + 1 /\ catalog.wal_id + 1 \in WalId
      <4>1. wal'[staged.wal_id] = NewWal
        BY Zenon, <2>3, <3>2
      <4>2. WalRecs(wal', staged) = {} /\ Durable(wal'[staged.wal_id]) = {}
        BY <4>1, DurableEmpty DEF WalRecs, NewWal
      <4>3. M = {}
        BY <2>3, <3>2, TailOfOne DEF Range, M
      <4>4. Shows({}, new, Due, issued) /\ promised \in [Key -> Nat]
        BY Zenon, <2>10, <4>3, DueType
      <4>5. Shows({}, new, promised, issued)
        BY Zenon, <2>8, <2>11, <4>4, ShowsEarlier
      <4> QED BY Zenon, <2>1, <4>2, <4>4, <4>5 DEF Kept, Keeps, new
    <3> QED BY Zenon, <2>1, <3>1, <3>2
  <2> QED BY Zenon, <2>1, <2>7, <2>8, <2>9, <2>10, <2>13, <2>14, <1>Stages DEF staged, new
  \* The edit of a compaction.
<1>RunJob.
    ASSUME LevelFacts, Typed, Typed', TableInv, FlowInv, WalInv, RecordInv, KeepInv,
           pc \in {"maybe_compact", "manual"},
           NEW plan, GoodPlan(catalog.tables, plan), NEW kind \in {"background", "manual"},
           RunJob(plan, kind)
    PROVE  KeepInv'
  <2> USE <1>RunJob
  <2> DEFINE S   == WalRecs(wal, catalog)
             D   == Durable(wal[catalog.wal_id])
             new == Compacted(catalog.tables, plan, catalog.next_table_id)
  <2>1. /\ pc' = "append"
        /\ UNCHANGED <<manifest, wal, catalog, mem, imm, issued, acked, promised>>
        /\ job'.kind = kind /\ job'.call = job.call /\ job'.rec = job.rec
        /\ job'.staged.tables = new /\ job'.staged.wal_id = catalog.wal_id
    BY Zenon, RunJobMeans
  <2>2. /\ Recoverable = {catalog} /\ Recoverable' = Recoverable
        /\ Latest(manifest.log) = catalog /\ Latest(manifest'.log) = catalog
    BY Zenon, <2>1 DEF WalInv, Serving, Starting, TableInv, Recoverable
  <2>3. /\ Built(catalog.tables) /\ catalog.next_table_id \in Nat
        /\ Aligned(Recs(catalog.tables)) /\ Genuine(Recs(catalog.tables), issued)
    <3>1. catalog \in Version /\ Sound(WalRecs(wal, catalog), catalog, issued)
      BY Zenon, <2>2, RecoverableSound
    <3>2. catalog.next_table_id \in Nat
      BY <3>1, LsmAssumption DEF Version
    <3> QED BY Zenon, <3>1, <3>2, SoundMeans
  <2>4. /\ Due' = Due /\ Told' /\ Due \in [Key -> Nat] /\ promised \in [Key -> Nat]
        /\ \A k \in Key : Due'[k] <= Due[k]
    <3>1. Due' = Due
      BY Zenon, <2>1 DEF Due, Putting
    <3> QED BY <2>1, <3>1, DueType DEF KeepInv, Told
  <2>5. /\ Shows(InMemory, catalog.tables, Due, issued) /\ Shows(S, catalog.tables, Due, issued)
        /\ Keeps(D, S, catalog.tables, promised, issued)
    BY Zenon, <2>1, <2>2 DEF KeepInv, FilesKeep, Kept, Live
  <2>6. InMemory' = InMemory /\ After' = InMemory /\ WalRecs(wal', job'.staged) = S
    BY Zenon, <2>1 DEF InMemory, After, WalRecs
  <2>7. FilesKeep'
    BY Zenon, <2>1, <2>2, <2>4, <1>FilesStay DEF KeepInv
  <2> HIDE DEF new, S, D
  <2>8. Shows(InMemory, new, Due, issued) /\ Shows(S, new, Due, issued)
    BY Zenon, <2>3, <2>4, <2>5, <1>ShowsCompacted DEF new
  <2>9. Shows(D, new, promised, issued)
    <3>1. Shows(D, catalog.tables, promised, issued)
      BY Zenon, <2>5 DEF Keeps
    <3> QED BY Zenon, <2>3, <2>4, <3>1, <1>ShowsCompacted DEF new
  <2>10. Kept(wal', job'.staged, promised, issued)
    BY Zenon, <2>1, <2>5, <2>6, <2>9 DEF Kept, Keeps, D
  <2> QED BY Zenon, <2>1, <2>4, <2>5, <2>6, <2>7, <2>8, <2>10, <1>Stages
  \* Manifest::commit succeeds: the edit is what recovery finds, first as one of
  \* two versions and then as the only one.
<1>Commit.
    ASSUME Typed, Typed', TableInv, FlowInv, WalInv, RecordInv, KeepInv, AppendEdit \/ SyncEdit
    PROVE  KeepInv'
  <2> USE <1>Commit
  <2> USE DEF Goto, files, memory, history
  <2>1. CASE AppendEdit
    <3>1. /\ pc = "append" /\ pc' = "sync"
          /\ UNCHANGED <<wal, job, catalog, mem, imm, issued, acked, promised>>
          /\ manifest'.log = Append(manifest.log, job.staged)
      BY Zenon, <2>1 DEF AppendEdit, Typed, TypeOK
    <3>2. Recoverable' = Recoverable \cup {job.staged} /\ Latest(manifest'.log) = job.staged
      BY <3>1, RangeOfAppend DEF Recoverable, Typed, TypeOK, Job
    <3>3. Due' = Due /\ Told' /\ InMemory' = InMemory /\ After' = After
      BY Zenon, <3>1 DEF Due, Putting, KeepInv, Told, InMemory, After
    <3>4. /\ wal[job.staged.wal_id].hdr = "ok" /\ Kept(wal, job.staged, promised, issued)
          /\ Shows(WalRecs(wal, job.staged), job.staged.tables, Due, issued)
          /\ Shows(After, job.staged.tables, Due, issued)
          /\ Shows(InMemory, catalog.tables, Due, issued)
      BY Zenon, <3>1 DEF WalInv, Committing, Staging, Live, KeepInv
    <3>5. FilesKeep'
      BY Zenon, <3>1, <3>2, <3>3, <3>4 DEF FilesKeep, KeepInv
    <3> QED BY Zenon, <3>1, <3>3, <3>4, <3>5 DEF KeepInv
  <2>2. CASE SyncEdit
    <3>1. /\ pc = "sync" /\ pc' = "committed" /\ catalog' = job.staged
          /\ UNCHANGED <<wal, job, mem, imm, issued, acked, promised>>
          /\ manifest'.log = <<Latest(manifest.log)>>
      BY Zenon, <2>2 DEF SyncEdit, SyncedManifest
    <3>2. /\ Recoverable' = {job.staged} /\ Latest(manifest'.log) = job.staged
          /\ Latest(manifest.log) = job.staged /\ job.staged \in Recoverable
      <4>1. Latest(manifest.log) = job.staged
        BY Zenon, <3>1 DEF TableInv
      <4> QED BY Zenon, <3>1, <4>1, RangeOfSingle, NamedWalIds DEF Recoverable
    <3>3. Due' = Due /\ Told' /\ After' = After
      BY Zenon, <3>1 DEF Due, Putting, KeepInv, Told, InMemory, After
    <3>4. /\ Kept(wal, job.staged, promised, issued)
          /\ Shows(WalRecs(wal, job.staged), job.staged.tables, Due, issued)
          /\ Shows(After, job.staged.tables, Due, issued)
      BY Zenon, <3>1 DEF Committing, Staging, KeepInv
    <3>5. FilesKeep'
      BY Zenon, <3>1, <3>2, <3>3, <3>4 DEF FilesKeep, KeepInv
    <3> QED BY Zenon, <3>1, <3>3, <3>4, <3>5 DEF KeepInv
  <2> QED BY Zenon, <2>1, <2>2
  \* A failed commit.
<1>CommitFails.
    ASSUME Typed, Typed', TableInv, FlowInv, WalInv, RecordInv, KeepInv,
           RefuseEdit \/ AppendEditFails
    PROVE  KeepInv'
  <2> USE <1>CommitFails
  <2>1. CommitFails /\ pc = "append" /\ UNCHANGED manifest
    BY Zenon DEF RefuseEdit, AppendEditFails
  <2>2. CASE OpenFails /\ UNCHANGED wal
    BY Zenon, <2>1, <2>2, <1>Lost DEF OpenFails, history
  <2>3. CASE /\ pc' = "idle" /\ job' = NoJob
             /\ UNCHANGED <<catalog, mem, imm, issued, acked, promised>>
             /\ \A v \in Recoverable : wal'[v.wal_id] = wal[v.wal_id]
    <3>1. /\ Live /\ ~Putting' /\ ~Staging' /\ pc \notin {"sync", "committed"}
          /\ pc' # "close_manifest" /\ Recoverable' = Recoverable /\ InMemory' = InMemory
          /\ job'.call # "put"
      BY Zenon, <2>1, <2>3 DEF Live, Putting, Staging, Recoverable, InMemory, NoJob
    <3> QED BY Zenon, <2>1, <2>3, <3>1, <1>Serves
  <2> QED BY Zenon, <2>1, <2>2, <2>3, CommitFailsMeans
  \* The memtables are those of the committed edit.
<1>Committed.
    ASSUME Typed, Typed', TableInv, FlowInv, RecordInv, KeepInv, pc = "committed",
           UNCHANGED <<manifest, catalog, issued, acked, promised>>,
           \A v \in Recoverable : wal'[v.wal_id] = wal[v.wal_id]
                                  \/ wal'[v.wal_id] = Synced(wal[v.wal_id]),
           InMemory' = After,
           job'.call # "put" \/ (job'.call = job.call /\ job'.rec = job.rec),
           pc' \in {"idle", "drain", "remove_wal", "remove_sst"}
    PROVE  KeepInv'
  <2> USE <1>Committed
  <2>1. Told' /\ \A k \in Key : Due'[k] <= Due[k]
    BY Zenon, <1>DueStays DEF KeepInv, Putting
  <2>2. FilesKeep'
    BY Zenon, <2>1, <1>FilesStay DEF KeepInv, Recoverable
  <2>3. catalog = job.staged /\ Shows(After, catalog.tables, Due, issued)
    BY Zenon DEF FlowInv, KeepInv, Staging
  <2>4. /\ After \in SUBSET InternalRecord /\ Built(catalog.tables)
        /\ Due \in [Key -> Nat] /\ Due' \in [Key -> Nat] /\ Extends(issued, issued)
    <3>1. Built(catalog.tables)
      BY Zenon, RecoverableSound DEF TableInv
    <3>2. Sound(WalRecs(wal, job.staged), job.staged, issued)
          /\ Backed(WalRecs(wal, job.staged), job.staged, After, next_sequence)
      BY Zenon DEF RecordInv, Staging
    <3>3. WalRecs(wal, job.staged) \in SUBSET InternalRecord
      BY Zenon, <3>2, SoundMeans DEF Typed, TypeOK, Job
    <3> QED BY Zenon, <3>1, <3>2, <3>3, DueType, ExtendsItself DEF Backed
  <2>5. Shows(After, catalog.tables, Due', issued)
    BY Zenon, <2>1, <2>3, <2>4, ShowsEarlier
  <2> QED BY Zenon, <2>1, <2>2, <2>5 DEF KeepInv, Staging, Committing
  \* The steps after the commit.
<1>Switch.
    ASSUME Typed, Typed', TableInv, FlowInv, WalInv, RecordInv, KeepInv,
           \/ OpenCommitted \/ FlushCommitted \/ FlushCommittedFails \/ CompactCommitted
           \/ RemoveWal \/ RemoveWalFails
    PROVE  KeepInv'
  <2> USE <1>Switch
  <2> USE DEF Goto, files, memory, history
  <2>a. /\ wal \in [WalId -> WalFile] /\ catalog \in Version /\ job \in Job
        /\ \A v \in Recoverable : v.wal_id \in WalId
    BY Zenon, NamedWalIds DEF Typed, TypeOK
  <2>1. CASE OpenCommitted \/ CompactCommitted
    <3>1. /\ pc = "committed" /\ pc' \in {"remove_wal", "remove_sst"} /\ job.kind # "flush"
          /\ UNCHANGED <<manifest, wal, catalog, mem, imm, job, issued, acked, promised>>
      BY Zenon, <2>1 DEF OpenCommitted, CompactCommitted
    <3>2. InMemory' = After
      BY Zenon, <3>1 DEF InMemory, After
    <3> QED BY Zenon, <3>1, <3>2, <1>Committed
  <2>2. CASE FlushCommitted \/ FlushCommittedFails
    <3>1. /\ pc = "committed" /\ pc' \in {"drain", "remove_wal", "idle"} /\ job.kind = "flush"
          /\ UNCHANGED <<manifest, catalog, mem, issued, acked, promised>> /\ imm' = Tail(imm)
          /\ job' = job \/ job' = NoJob
          /\ wal' = wal \/ wal' = [wal EXCEPT ![writer] = Synced(@)]
      BY Zenon, <2>2 DEF FlushCommitted, FlushCommittedFails, ReturnError
    <3>2. InMemory' = After /\ (job'.call # "put" \/ (job'.call = job.call /\ job'.rec = job.rec))
      BY <3>1 DEF InMemory, After, NoJob
    <3>3. \A v \in Recoverable : wal'[v.wal_id] = wal[v.wal_id]
                                 \/ wal'[v.wal_id] = Synced(wal[v.wal_id])
      BY Zenon, <2>a, <3>1
    <3> QED BY Zenon, <3>1, <3>2, <3>3, <1>Committed
  <2>3. ASSUME pc = "remove_wal", pc' \in {"idle", "drain"},
               UNCHANGED <<manifest, catalog, mem, imm, issued, acked, promised>>,
               job'.call # "put" \/ (job'.call = job.call /\ job'.rec = job.rec),
               \A v \in Recoverable : wal'[v.wal_id] = wal[v.wal_id]
        PROVE  KeepInv'
    <3>1. /\ Live /\ ~Putting /\ ~Putting' /\ ~Staging' /\ pc \notin {"sync", "committed"}
          /\ pc' # "close_manifest" /\ Recoverable' = Recoverable /\ InMemory' = InMemory
      BY Zenon, <2>3 DEF Live, Putting, Staging, Recoverable, InMemory
    <3> QED BY Zenon, <2>3, <3>1, <1>Serves
  <2>4. CASE RemoveWal
    <3>1. /\ pc = "remove_wal" /\ pc' \in {"idle", "drain"}
          /\ UNCHANGED <<manifest, catalog, mem, imm, issued, acked, promised>>
          /\ wal' = [wal EXCEPT ![wal_id - 1] = NoFile]
          /\ job' = NoJob \/ job' = [job EXCEPT !.repl = 0]
      BY Zenon, <2>4 DEF RemoveWal
    <3>2. job'.call # "put" \/ (job'.call = job.call /\ job'.rec = job.rec)
      BY <2>a, <3>1 DEF NoJob, Job
    <3>3. wal_id = catalog.wal_id /\ catalog.wal_id \in Nat /\ Recoverable = {catalog}
      BY Zenon, <3>1, EngineNumbers DEF FlowInv, WalInv, Serving, Starting
    <3>4. wal'[catalog.wal_id] = wal[catalog.wal_id]
      BY <2>a, <3>1, <3>3
    <3> QED BY Zenon, <2>3, <3>1, <3>2, <3>3, <3>4
  <2>5. CASE RemoveWalFails
    <3>1. CASE OpenFails
      BY Zenon, <2>5, <3>1, <1>Lost DEF RemoveWalFails, OpenFails
    <3>2. CASE ReturnError /\ UNCHANGED memory
      BY Zenon, <2>3, <2>5, <3>2 DEF RemoveWalFails, ReturnError, NoJob
    <3> QED BY Zenon, <2>5, <3>1, <3>2 DEF RemoveWalFails
  <2> QED BY Zenon, <2>1, <2>2, <2>4, <2>5
  \* flush, compact_range and the put that flushed return: nothing is in memory,
  \* so the tables alone show every acknowledged write.
<1>ReturnOk.
    ASSUME Typed, Typed', TableInv, FlowInv, WalInv, RecordInv, KeepInv,
           pc \in {"maybe_compact", "manual"}, ReturnOk(TRUE),
           UNCHANGED <<manifest, wal, catalog, mem, imm>>
    PROVE  KeepInv'
  <2> USE <1>ReturnOk
  <2>1. /\ pc' = "idle" /\ job' = NoJob /\ issued' = issued /\ promised' = acked'
        /\ acked' = IF job.call = "put" THEN [acked EXCEPT ![job.rec.key] = job.rec.op] ELSE acked
    BY Zenon DEF ReturnOk
  <2>2. /\ Recoverable = {catalog} /\ Recoverable' = Recoverable
        /\ Latest(manifest.log) = catalog /\ Latest(manifest'.log) = catalog
        /\ wal[catalog.wal_id].hdr = "ok"
    BY Zenon DEF WalInv, Serving, Starting, TableInv, Recoverable
  <2>3. InMemory = {} /\ InMemory' = {} /\ Shows({}, catalog.tables, Due, issued)
    BY Zenon, NothingInMemory DEF FlowInv, KeepInv, Live
  <2>4. WalRecs(wal, catalog) = {} /\ Durable(wal[catalog.wal_id]) = {}
    <3>1. Backed(WalRecs(wal, catalog), catalog, InMemory, next_sequence)
      BY Zenon DEF RecordInv, Live, Applied, Putting
    <3>2. WalRecs(wal, catalog) = {}
      BY Zenon, <2>3, <3>1 DEF Backed
    <3> QED BY Zenon, <2>2, <3>2, RecoverableSound, DurableSynced DEF WalRecs
  <2>5. \A k \in Key : acked'[k] = Due[k] /\ Due'[k] = acked'[k]
    <3>1. \A k \in Key : Due'[k] = acked'[k]
      BY Zenon, <2>1 DEF Due, NoJob
    <3>2. \A k \in Key : acked'[k] = Due[k]
      BY Zenon, <2>1 DEF Due, Putting, Typed, TypeOK
    <3> QED BY Zenon, <3>1, <3>2
  <2>6. Shows({}, catalog.tables, acked', issued) /\ Shows({}, catalog.tables, Due', issued)
    BY Zenon, <2>3, <2>5 DEF Shows
  <2>7. Told'
    <3>1. \A k \in Key : Due[k] \in Nat /\ Due[k] <= Len(issued)
      BY Zenon, DueType DEF KeepInv, Told, Due
    <3> QED BY <2>1, <2>5, <3>1 DEF Told, NoJob
  <2>8. FilesKeep'
    BY Zenon, <2>1, <2>2, <2>4, <2>6 DEF FilesKeep, Kept, Keeps, WalRecs
  <2> QED BY Zenon, <2>1, <2>3, <2>6, <2>7, <2>8 DEF KeepInv, Staging, Committing
  \* Compactions and what returns from them.
<1>Compaction.
    ASSUME LevelFacts, Typed, Typed', TableInv, FlowInv, WalInv, RecordInv, KeepInv,
           \/ FlushDone \/ BackgroundCompact \/ BackgroundCompactFails
           \/ ManualSkip \/ ManualCompact \/ ManualCompactFails \/ ManualDone
           \/ (\E i \in job.obsolete : RemoveSst(i))
           \/ RemoveSstFails \/ CompactDone
           \/ (\E range \in Ranges : CompactRange(range[1], range[2]))
    PROVE  KeepInv'
  <2> USE <1>Compaction
  <2> USE DEF Goto, files, memory, history
  <2>1. CASE BackgroundCompact
    BY Zenon, <2>1, PlansGood, <1>RunJob DEF BackgroundCompact
  <2>2. CASE ManualCompact
    BY Zenon, <2>2, PlansGood, <1>RunJob DEF ManualCompact
  <2>3. CASE (FlushDone \/ ManualDone) /\ ReturnOk(TRUE)
    BY Zenon, <2>3, <1>ReturnOk DEF FlushDone, ManualDone
  <2>4. ASSUME pc \in {"idle", "maybe_compact", "manual", "remove_sst"},
               pc' \in {"idle", "freeze", "maybe_compact", "manual", "remove_sst"},
               UNCHANGED <<manifest, wal, catalog, mem, imm, issued, acked, promised>>,
               job'.call # "put" \/ (job'.call = job.call /\ job'.rec = job.rec)
        PROVE  KeepInv'
    <3>1. /\ Live /\ ~Putting /\ ~Putting' /\ ~Staging' /\ pc \notin {"sync", "committed"}
          /\ pc' # "close_manifest" /\ Recoverable' = Recoverable /\ InMemory' = InMemory
      BY Zenon, <2>4 DEF Live, Putting, Staging, Recoverable, InMemory
    <3> QED BY Zenon, <2>4, <3>1, <1>Serves
  <2>5. CASE FlushDone /\ ~ReturnOk(TRUE)
    <3>1. /\ pc = "maybe_compact" /\ pc' \in {"idle", "manual"}
          /\ UNCHANGED <<manifest, wal, catalog, mem, imm, issued, acked, promised>>
          /\ job' = job \/ job' = NoJob
      BY Zenon, <2>5 DEF FlushDone, ReturnError
    <3> QED BY <2>4, <3>1 DEF NoJob
  <2>6. CASE ManualSkip \/ CompactDone \/ \E i \in job.obsolete : RemoveSst(i)
    <3>1. /\ pc \in {"manual", "remove_sst"} /\ pc' \in {"maybe_compact", "manual", "remove_sst"}
          /\ UNCHANGED <<manifest, wal, catalog, mem, imm, issued, acked, promised>>
          /\ \/ job' = job \/ job' = [job EXCEPT !.level = @ + 1]
             \/ \E i \in job.obsolete : job' = [job EXCEPT !.obsolete = @ \ {i}]
      BY Zenon, <2>6 DEF ManualSkip, CompactDone, RemoveSst
    <3>2. job'.call = job.call /\ job'.rec = job.rec
      BY Zenon, <3>1 DEF Typed, TypeOK, Job
    <3> QED BY Zenon, <2>4, <3>1, <3>2
  <2>7. CASE BackgroundCompactFails \/ ManualCompactFails \/ RemoveSstFails
    <3>1. /\ pc \in {"maybe_compact", "manual", "remove_sst"} /\ pc' = "idle"
          /\ UNCHANGED <<manifest, wal, catalog, mem, imm, issued, acked, promised>>
          /\ job' = NoJob
      BY Zenon, <2>7 DEF BackgroundCompactFails, ManualCompactFails, JobFails, RemoveSstFails,
                         ReturnError
    <3> QED BY Zenon, <2>4, <3>1 DEF NoJob
  <2>8. CASE \E range \in Ranges : CompactRange(range[1], range[2])
    <3>1. /\ pc = "idle" /\ pc' = "freeze"
          /\ UNCHANGED <<manifest, wal, catalog, mem, imm, issued, acked, promised>>
          /\ \E range \in Ranges :
                job' = [NoJob EXCEPT !.call = "compact_range", !.lo = range[1], !.hi = range[2]]
      BY Zenon, <2>8 DEF CompactRange
    <3>2. job'.call # "put"
      BY Zenon, <3>1 DEF NoJob
    <3> QED BY Zenon, <2>4, <3>1, <3>2
  <2>9. CASE ManualDone
    BY Zenon, <2>3, <2>9 DEF ManualDone
  <2> QED BY Zenon, <2>1, <2>2, <2>3, <2>5, <2>6, <2>7, <2>8, <2>9
  \* Engine::close syncs the WAL, so that what is acknowledged is promised.
<1>Close.
    ASSUME Typed, Typed', TableInv, FlowInv, WalInv, RecordInv, KeepInv,
           Close \/ CloseManifest \/ CloseManifestFails \/ CloseWalFails
    PROVE  KeepInv'
  <2> USE <1>Close
  <2> USE DEF Goto, files, memory, history
  <2>a. /\ wal \in [WalId -> WalFile] /\ catalog \in Recoverable /\ catalog = Latest(manifest.log)
        /\ Recoverable = {catalog} /\ wal[catalog.wal_id].hdr = "ok"
        /\ catalog.wal_id \in WalId
    <3>1. pc \in {"idle", "close_manifest"}
      BY Zenon DEF Close, CloseManifest, CloseManifestFails, CloseWalFails
    <3>2. wal \in [WalId -> WalFile] /\ catalog = Latest(manifest.log) /\ catalog.wal_id \in WalId
      BY Zenon, <3>1, NamedWalIds DEF Typed, TypeOK, TableInv
    <3>3. Recoverable = {catalog} /\ wal[catalog.wal_id].hdr = "ok"
      BY Zenon, <3>1 DEF WalInv, Serving, Starting
    <3> QED BY Zenon, <3>2, <3>3
  <2>b. /\ GoodWal(wal[catalog.wal_id]) /\ wal[catalog.wal_id] \in WalFile
        /\ Built(catalog.tables) /\ WalRecs(wal, catalog) \in SUBSET InternalRecord
    BY Zenon, <2>a, RecoverableSound
  <2>c. manifest' = SyncedManifest => Recoverable' = {catalog} /\ Latest(manifest'.log) = catalog
    BY <2>a, RangeOfSingle DEF SyncedManifest, Recoverable
  <2>1. CASE Close
    <3>1. /\ pc = "idle" /\ pc' = "close_manifest" /\ writer # 0
          /\ UNCHANGED <<manifest, catalog, mem, imm, issued, acked, promised>>
          /\ wal' = [wal EXCEPT ![writer] = Synced(@)] /\ job'.call = "close"
      BY Zenon, <2>1 DEF Close, NoJob
    <3>2. wal'[catalog.wal_id] = Synced(wal[catalog.wal_id])
      BY Zenon, <2>a, <3>1, PutTarget
    <3>3. Durable(wal'[catalog.wal_id]) = WalRecs(wal, catalog)
      BY Zenon, <2>b, <3>2, DurableSynced DEF WalRecs
    <3>4. /\ Live /\ ~Putting' /\ ~Staging' /\ pc \notin {"sync", "committed"}
          /\ Recoverable' = Recoverable /\ InMemory' = InMemory
      BY Zenon, <3>1 DEF Live, Putting, Staging, Recoverable, InMemory
    <3> QED BY Zenon, <2>a, <3>1, <3>2, <3>3, <3>4, <1>Serves
  <2>2. CASE CloseManifest
    <3>1. /\ pc = "close_manifest" /\ pc' = "down" /\ manifest' = SyncedManifest /\ job' = NoJob
          /\ promised' = acked /\ UNCHANGED <<wal, issued, acked>>
      BY Zenon, <2>2 DEF CloseManifest, LoseMemory
    <3>2. Durable(wal[catalog.wal_id]) = WalRecs(wal, catalog)
      BY Zenon, <3>1 DEF KeepInv
    <3>3. /\ Due \in [Key -> Nat] /\ acked \in [Key -> Nat] /\ Extends(issued, issued)
          /\ \A k \in Key : acked[k] <= Due[k] /\ Due'[k] = acked[k]
      BY Zenon, <3>1, DueType, ExtendsItself, ToldAndDue DEF KeepInv, Due, NoJob
    <3>4. Shows(WalRecs(wal, catalog), catalog.tables, acked, issued)
      <4>1. Shows(WalRecs(wal, catalog), catalog.tables, Due, issued)
        BY Zenon, <2>a DEF KeepInv, FilesKeep
      <4> QED BY Zenon, <2>b, <3>3, <4>1, ShowsEarlier
    <3>5. Shows(WalRecs(wal, catalog), catalog.tables, Due', issued)
      BY Zenon, <3>3, <3>4 DEF Shows
    <3>6. Kept(wal, catalog, acked, issued)
      BY Zenon, <3>2, <3>4 DEF Kept, Keeps
    <3>7. FilesKeep'
      BY Zenon, <2>a, <2>c, <3>1, <3>5, <3>6 DEF FilesKeep
    <3>8. Told'
      <4>1. \A k \in Key : acked[k] <= acked[k] /\ acked[k] <= Len(issued)
        BY <3>3 DEF KeepInv, Told
      <4> QED BY Zenon, <3>1, <4>1 DEF Told, NoJob
    <3> QED BY Zenon, <3>1, <3>7, <3>8 DEF KeepInv, Live, Staging, Committing
  <2>3. CASE CloseManifestFails \/ CloseWalFails
    <3>1. /\ pc = "close_manifest" /\ pc' = "idle" /\ job' = NoJob
          /\ manifest' = manifest \/ manifest' = SyncedManifest
          /\ UNCHANGED <<wal, catalog, mem, imm, issued, acked, promised>>
      BY Zenon, <2>3 DEF CloseManifestFails, CloseWalFails, ReturnError
    <3>2. /\ Live /\ ~Putting' /\ ~Staging' /\ pc \notin {"sync", "committed"}
          /\ pc' # "close_manifest" /\ InMemory' = InMemory /\ job'.call # "put"
      BY Zenon, <3>1 DEF Live, Putting, Staging, InMemory, NoJob
    <3>3. Recoverable' \subseteq Recoverable /\ Latest(manifest'.log) = Latest(manifest.log)
      BY Zenon, <2>a, <2>c, <3>1 DEF Recoverable
    <3> QED BY Zenon, <3>1, <3>2, <3>3, <1>Serves
  <2> QED BY Zenon, <2>1, <2>2, <2>3
  \* A power loss leaves one of the versions with a prefix of its WAL that has
  \* the durable records.
<1>PowerLoss.
    ASSUME Typed, Typed', HeaderInv, RecordInv, KeepInv, PowerLoss
    PROVE  KeepInv'
  <2> USE <1>PowerLoss
  <2>1. PICK v \in Recoverable : \E g \in {wal'[v.wal_id]} :
           /\ Recoverable' = {v} /\ wal' = [wal EXCEPT ![v.wal_id] = g]
           /\ Latest(manifest'.log) = v /\ GoodWal(g)
           /\ \/ g.hdr # "ok" /\ wal[v.wal_id].hdr # "ok"
              \/ /\ g.hdr = "ok" /\ g.synced = Len(g.recs)
                 /\ \E n \in wal[v.wal_id].synced .. Len(wal[v.wal_id].recs) :
                       g.recs = SubSeq(wal[v.wal_id].recs, 1, n)
    BY Zenon, PowerLossMeans
  <2> DEFINE f == wal[v.wal_id]
             g == wal'[v.wal_id]
             X == Range(g.recs)
  <2>2. /\ Recoverable' = {v} /\ Latest(manifest'.log) = v /\ GoodWal(g)
        /\ \/ g.hdr # "ok" /\ f.hdr # "ok"
           \/ /\ g.hdr = "ok" /\ g.synced = Len(g.recs)
              /\ \E n \in f.synced .. Len(f.recs) : g.recs = SubSeq(f.recs, 1, n)
    BY Zenon, <2>1
  <2>3. /\ pc' = "down" /\ job' = NoJob /\ acked' = promised /\ promised' = promised
        /\ issued' = issued
    BY Zenon DEF PowerLoss, LoseMemory
  <2>4. /\ GoodWal(f) /\ f \in WalFile /\ f.synced \in Nat /\ v.wal_id \in WalId
        /\ Keeps(Durable(f), Range(f.recs), v.tables, promised, issued)
        /\ f.hdr # "ok" => promised = NoWrite
    BY Zenon, RecoverableSound DEF WalFile, KeepInv, FilesKeep, Kept, WalRecs
  <2>5. g \in WalFile
    BY Zenon, <2>4 DEF Typed, TypeOK
  <2> HIDE DEF f, g
  <2>6. Durable(g) = X /\ Durable(f) \subseteq X /\ X \subseteq Range(f.recs)
    <3>1. CASE g.hdr # "ok" /\ f.hdr # "ok"
      <4>1. X = {} /\ Range(f.recs) = {}
        BY Zenon, <2>2, <2>4, <3>1, GoodWalRecs
      <4> QED BY Zenon, <2>2, <2>4, <2>5, <4>1, DurableSynced
    <3>2. CASE /\ g.hdr = "ok" /\ g.synced = Len(g.recs)
               /\ \E n \in f.synced .. Len(f.recs) : g.recs = SubSeq(f.recs, 1, n)
      <4>1. Durable(g) = X
        BY Zenon, <2>2, <3>2, DurableAll
      <4> QED BY Zenon, <2>4, <3>2, <4>1, DurablePart
    <3> QED BY Zenon, <2>2, <3>1, <3>2
  <2>7. Keeps(X, X, v.tables, promised, issued) /\ Shows(X, v.tables, promised, issued)
    BY Zenon, <2>4, <2>6, KeepsPart
  <2>8. \A k \in Key : Due'[k] = promised[k]
    BY Zenon, <2>3 DEF Due, NoJob
  <2>9. Told'
    <3>1. \A k \in Key : promised[k] \in Nat /\ acked[k] \in Nat /\ Len(issued) \in Nat
      BY Zenon, SeqIs DEF Typed, TypeOK
    <3>2. \A k \in Key : promised[k] <= acked[k] /\ acked[k] <= Len(issued)
      BY Zenon DEF KeepInv, Told
    <3>3. \A k \in Key : promised[k] <= promised[k] /\ promised[k] <= Len(issued)
      BY <3>1, <3>2
    <3> QED BY Zenon, <2>3, <3>3 DEF Told, NoJob
  <2>10. WalRecs(wal', v) = X
    BY Zenon DEF WalRecs, g
  <2>11. Shows(X, v.tables, Due', issued)
    BY Zenon, <2>7, <2>8 DEF Shows
  <2>12. FilesKeep'
    BY Zenon, <2>2, <2>3, <2>4, <2>6, <2>7, <2>10, <2>11 DEF FilesKeep, Kept, g
  <2> QED BY Zenon, <2>3, <2>9, <2>12 DEF KeepInv, Live, Staging, Committing
<1> SUFFICES ASSUME Typed, Typed', TableInv, FlowInv, WalInv, HeaderInv, RecordInv, KeepInv,
                    [Next]_vars
             PROVE  KeepInv'
  BY Zenon
<1>1. CASE UNCHANGED vars
  <2>1. /\ Recoverable' = Recoverable /\ InMemory' = InMemory /\ After' = After /\ Due' = Due
        /\ Live' = Live /\ Staging' = Staging /\ Committing' = Committing /\ Told' = Told
    BY Zenon, <1>1 DEF Recoverable, Live, Putting, Staging, After, InMemory, Due, Committing,
                       Told, vars, files, memory, history
  <2>2. UNCHANGED <<manifest, wal, pc, job, catalog, issued, promised>>
    BY Zenon, <1>1 DEF vars, files, memory, history
  <2> QED BY Zenon, <2>1, <2>2 DEF KeepInv, FilesKeep
<1>2. CASE \E k \in Key, del \in BOOLEAN : PutWrite(k, del) \/ PutWriteFails(k, del)
  BY Zenon, <1>2, <1>PutWrite DEF PutWriteFails
<1>3. CASE PutSyncFails \/ SyncEditFails
  BY Zenon, <1>3 DEF PutSyncFails, SyncEditFails, RecordInv
<1>4. CASE Kill
  BY Zenon, <1>4, <1>Lost DEF Kill, files, history
<1> QED BY Zenon, <1>1, <1>2, <1>3, <1>4, <1>Open, <1>CreateWal, <1>Replay, <1>OpenWal,
           <1>PutSync, <1>PutApply, <1>Flush, <1>FlushEdit, <1>Commit, <1>CommitFails,
           <1>Switch, <1>Compaction, <1>Close, <1>PowerLoss
    DEF Next, EngineStep, ClientStep

-----------------------------------------------------------------------------
(* What the invariants give a client. *)

\* A get that is fresh for write op of k answers no older one.
LEMMA ReadsFresh ==
    ASSUME LevelFacts, Typed, NEW M \in SUBSET InternalRecord, NEW v, Built(v.tables),
           Aligned(M \cup Recs(v.tables)), Intact(v),
           NEW k, NEW op \in Nat, Fresh(M, v.tables, k, op, issued)
    PROVE  NoOlderThan(get(M, v.tables, sst, k), k, op)
<1>1. LET r == get(M, v.tables, sst, k)
      IN  op = 0 \/ r.op >= op \/ (r = NotFound /\ Removed(k, op, issued))
  BY Zenon DEF Intact, LevelFacts, GetsAreFresh
<1> QED BY Zenon, <1>1 DEF NoOlderThan, Removed

\* Reads between calls.
LEMMA ReadsAreFresh ==
    ASSUME LevelFacts, Typed, TableInv, RecordInv, KeepInv
    PROVE  ReadsSeeAcked
<1> SUFFICES ASSUME pc = "idle", NEW k \in Key
             PROVE  NoOlderThan(get(InMemory, catalog.tables, sst, k), k, acked[k])
  BY Zenon DEF ReadsSeeAcked
<1>1. /\ Backed(WalRecs(wal, catalog), catalog, InMemory, next_sequence)
      /\ Shows(InMemory, catalog.tables, Due, issued)
  BY Zenon DEF RecordInv, KeepInv, Live, Applied, Putting
<1>2. catalog \in Recoverable /\ Intact(catalog)
  BY Zenon, NamedWalIds DEF TableInv
<1>3. /\ Built(catalog.tables) /\ WalRecs(wal, catalog) \in SUBSET InternalRecord
      /\ Aligned(WalRecs(wal, catalog) \cup Recs(catalog.tables))
  BY Zenon, <1>2, RecoverableSound DEF Sound
<1>4. InMemory \in SUBSET InternalRecord /\ Aligned(InMemory \cup Recs(catalog.tables))
  BY Zenon, <1>1, <1>3 DEF Backed, Aligned
<1>5. /\ Due \in [Key -> Nat] /\ acked \in [Key -> Nat] /\ Extends(issued, issued)
      /\ \A i \in Key : acked[i] <= Due[i]
  BY Zenon, DueType, ExtendsItself, ToldAndDue DEF KeepInv
<1>6. Shows(InMemory, catalog.tables, acked, issued)
  BY Zenon, <1>1, <1>3, <1>4, <1>5, ShowsEarlier
<1>7. acked[k] \in Nat /\ Fresh(InMemory, catalog.tables, k, acked[k], issued)
  BY Zenon, <1>5, <1>6 DEF Shows
<1> QED BY Zenon, <1>2, <1>3, <1>4, <1>7, ReadsFresh

\* Reads after a recovery.
LEMMA RecoveriesAreFresh ==
    ASSUME LevelFacts, Typed, TableInv, RecordInv, KeepInv
    PROVE  RecoveryKeepsPromises
<1> SUFFICES ASSUME NEW v \in Recoverable,
                    NEW n \in wal[v.wal_id].synced .. Len(wal[v.wal_id].recs), NEW k \in Key
             PROVE  NoOlderThan(get(Range(Loaded(SubSeq(wal[v.wal_id].recs, 1, n))), v.tables,
                                    sst, k), k, promised[k])
  BY Zenon DEF RecoveryKeepsPromises
<1> DEFINE f == wal[v.wal_id]
           X == Range(SubSeq(f.recs, 1, n))
<1>1. /\ GoodWal(f) /\ f.synced \in Nat /\ Built(v.tables)
      /\ WalRecs(wal, v) \in SUBSET InternalRecord
      /\ Aligned(WalRecs(wal, v) \cup Recs(v.tables))
      /\ Keeps(Durable(f), WalRecs(wal, v), v.tables, promised, issued)
  BY Zenon, RecoverableSound DEF WalFile, KeepInv, FilesKeep, Kept, Sound
<1>2. Durable(f) \subseteq X /\ X \subseteq WalRecs(wal, v)
  BY <1>1, DurablePart DEF WalRecs
<1> HIDE DEF f
<1>3. X \in SUBSET InternalRecord /\ Aligned(X \cup Recs(v.tables))
  BY Zenon, <1>1, <1>2 DEF Aligned
<1>4. Loaded(SubSeq(f.recs, 1, n)) = SubSeq(f.recs, 1, n)
  BY Zenon, <1>3, TornType DEF Loaded
<1>5. Shows(X, v.tables, promised, issued)
  BY Zenon, <1>1, <1>2, KeepsPart
<1>6. promised[k] \in Nat /\ Fresh(X, v.tables, k, promised[k], issued)
  BY Zenon, <1>5, DueType DEF Shows
<1>7. Intact(v)
  BY Zenon DEF TableInv
<1> HIDE DEF X
<1>8. NoOlderThan(get(X, v.tables, sst, k), k, promised[k])
  BY Zenon, <1>1, <1>3, <1>6, <1>7, ReadsFresh
<1> QED BY Zenon, <1>4, <1>8 DEF X, f

\* Recoveries are not refused.
LEMMA WalsReplay ==
    ASSUME Typed, RecordInv, KeepInv
    PROVE  WalReplays
<1> SUFFICES ASSUME promised # NoWrite, NEW v \in Recoverable
             PROVE  LET f == wal[v.wal_id]
                    IN  f.hdr # "torn" /\ ~Corrupt(f.recs) /\ ~HasDuplicate(Loaded(f.recs))
  BY Zenon DEF WalReplays
<1> DEFINE f == wal[v.wal_id]
<1>1. f.hdr = "ok" /\ GoodWal(f)
  BY Zenon, RecoverableSound DEF KeepInv, FilesKeep
<1> HIDE DEF f
<1>2. f.recs \in Seq(InternalRecord) /\ Increasing(f.recs) /\ Range(f.recs) \in SUBSET InternalRecord
  BY Zenon, <1>1, GoodWalRecs DEF GoodWal
<1>3. Torn \notin Range(f.recs)
  BY Zenon, <1>2, TornType
<1>4. Loaded(f.recs) = f.recs
  BY Zenon, <1>3 DEF Loaded
<1>5. DOMAIN f.recs = 1 .. Len(f.recs) /\ Len(f.recs) \in Nat
      /\ \A i \in DOMAIN f.recs : f.recs[i] \in InternalRecord /\ f.recs[i] \in Range(f.recs)
  BY Zenon, <1>2, SeqIs DEF Range
<1>6. ~Corrupt(f.recs)
  <2>1. 1 .. Len(f.recs) - 1 \subseteq DOMAIN f.recs
    BY <1>5
  <2> QED BY Zenon, <1>3, <1>5, <2>1 DEF Corrupt
<1>7. ~HasDuplicate(f.recs)
  <2> SUFFICES ASSUME NEW i \in DOMAIN f.recs, NEW j \in DOMAIN f.recs, i # j,
                      f.recs[i].seq = f.recs[j].seq
               PROVE  FALSE
    BY Zenon DEF HasDuplicate
  <2>1. f.recs[i].seq \in Nat /\ f.recs[j].seq \in Nat /\ i \in Nat /\ j \in Nat
    BY <1>5, RecordNumbers
  <2>2. i < j \/ j < i
    BY <2>1
  <2> QED BY <1>2, <2>1, <2>2 DEF Increasing
<1> QED BY Zenon, <1>1, <1>4, <1>6, <1>7 DEF f
=============================================================================
