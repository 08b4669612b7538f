------------------------------ MODULE RecordProofs ------------------------------
(***************************************************************************)
(* Records: what the WALs, the memtables and the tables hold, and how the  *)
(* catalog, the edit in progress and the engine's counters relate to it.   *)
(* From it follows that Manifest::commit rejects no edit that the engine   *)
(* builds.                                                                 *)
(***************************************************************************)
EXTENDS WalProofs

\* The records of the WAL that v names.
WalRecs(w, v) == Range(w[v.wal_id].recs)

Live    == pc \notin {"down", "open_manifest", "manifest_header", "manifest_header_sync",
                      "open_wal"}
Putting == pc \in {"put_sync", "put_apply"}
Staging == pc \in {"replacement_sync", "append", "sync", "committed"}

\* The records of the WAL whose put has been applied to the memtable.
Applied == IF Putting THEN WalRecs(wal, catalog) \ {job.rec} ELSE WalRecs(wal, catalog)

\* The memtables once the edit is committed.
After == IF job.kind = "flush" THEN mem \cup UNION Range(Tail(imm)) ELSE InMemory

RecordInv ==
    /\ \A i \in WalId : GoodWal(wal[i])
    /\ \A v \in Recoverable : Sound(WalRecs(wal, v), v, issued)
    /\ OldestFirst(imm, mem)
    /\ Live /\ pc # "committed" => Backed(Applied, catalog, InMemory, next_sequence)
    /\ Putting => job.rec \in WalRecs(wal, catalog) /\ job.rec.seq = next_sequence
    /\ pc = "put_sync" => SyncOnWrite
    /\ Staging => /\ Sound(WalRecs(wal, job.staged), job.staged, issued)
                  /\ Backed(WalRecs(wal, job.staged), job.staged, After, next_sequence)
    /\ pc \in {"replacement_sync", "append"} => stage_apply(catalog, job.staged)

-----------------------------------------------------------------------------
(* Versions that stage and load. *)

\* Keys, sequence numbers and write numbers are compared as numbers.
LEMMA RecordNumbers ==
    ASSUME NEW r \in InternalRecord
    PROVE  r.key \in Key /\ r.key \in Nat /\ r.seq \in Nat /\ r.op \in Nat
<1>1. r.key \in Key /\ r.seq \in 1 .. MaxSeq /\ r.op \in 1 .. MaxWrites
  BY Zenon DEF InternalRecord, SeqNum
<1>2. Key \subseteq Nat /\ MaxSeq \in Nat /\ MaxWrites \in Nat
  BY Zenon, LsmAssumption
<1>3. r.key \in Nat
  BY Zenon, <1>1, <1>2
<1>4. r.seq \in Nat
  BY <1>1, <1>2
<1>5. r.op \in Nat
  BY <1>1, <1>2
<1> QED BY Zenon, <1>1, <1>3, <1>4, <1>5

\* Fewer records of the WAL, the same tables and a counter that is not lower
\* (a recovery, a power loss).
LEMMA SoundLess ==
    ASSUME NEW S, NEW S2, S2 \subseteq S, NEW v, NEW v2, NEW w, Sound(S, v, w),
           v2.tables = v.tables, v2.next_table_id = v.next_table_id,
           v.next_seq \in Nat, v2.next_seq \in Nat, v.next_seq <= v2.next_seq
    PROVE  Sound(S2, v2, w)
<1>1. check_invariants(v2)
  BY Zenon DEF Sound, check_invariants
<1>2. \A r \in Recs(v.tables) : r.seq \in Nat
  BY Zenon, RecordNumbers DEF Sound, Built, TableMeta, Recs
<1>3. \A r \in Recs(v2.tables) : r.seq < v2.next_seq
  BY <1>2 DEF Sound
<1>4. Aligned(S2 \cup Recs(v2.tables)) /\ Genuine(S2 \cup Recs(v2.tables), w)
  BY Zenon DEF Sound, Aligned, Genuine
<1> QED BY Zenon, <1>1, <1>3, <1>4 DEF Sound

-----------------------------------------------------------------------------
(* Files and memtables. *)

\* The records of a WAL that replays.
LEMMA GoodWalRecs ==
    ASSUME NEW f, GoodWal(f)
    PROVE  /\ Range(f.recs) \in SUBSET InternalRecord /\ Len(f.recs) \in Nat
           /\ f.hdr # "ok" => Range(f.recs) = {}
<1>1. f.recs \in Seq(InternalRecord) /\ (f.hdr # "ok" => f.recs = <<>>)
  BY Zenon DEF GoodWal
<1>2. Range(<<>>) = {}
  BY DEF Range
<1> QED BY Zenon, <1>1, <1>2, RangeType, SeqIs

\* New, absent and removed WALs.
LEMMA EmptyWal ==
    ASSUME NEW f, f.recs = <<>>, f.synced = 0
    PROVE  GoodWal(f) /\ Range(f.recs) = {}
  BY SeqIs DEF GoodWal, Increasing, Range

\* A sync makes the header and all records durable.
LEMMA SyncedWal ==
    ASSUME NEW f \in WalFile, GoodWal(f)
    PROVE  /\ GoodWal(Synced(f)) /\ Synced(f).recs = f.recs
           /\ Synced(f).synced = Len(f.recs)
<1>1. Synced(f).recs = f.recs /\ Synced(f).synced = Len(f.recs) /\ Synced(f).hdr = "ok"
  BY Zenon DEF Synced, WalFile
<1>2. Len(f.recs) <= Len(f.recs)
  BY GoodWalRecs
<1> QED BY Zenon, <1>1, <1>2 DEF GoodWal

\* A power loss keeps the records up to the n-th.
LEMMA CutWal ==
    ASSUME NEW f, GoodWal(f), f.synced \in Nat, NEW n \in f.synced .. Len(f.recs),
           NEW g, g.hdr = "ok", g.synced = n, g.recs = SubSeq(f.recs, 1, n)
    PROVE  GoodWal(g) /\ Range(g.recs) \subseteq Range(f.recs) /\ Len(g.recs) = n
<1>1. f.recs \in Seq(InternalRecord) /\ Len(f.recs) \in Nat /\ n \in Nat /\ n <= Len(f.recs)
  BY GoodWalRecs DEF GoodWal
<1>2. DOMAIN f.recs = 1 .. Len(f.recs) /\ \A i \in 1 .. n : f.recs[i] \in InternalRecord
  BY <1>1, SeqIs
<1>3. /\ g.recs \in Seq(InternalRecord) /\ Len(g.recs) = n
      /\ \A i \in 1 .. n : g.recs[i] = f.recs[i]
  BY <1>1, <1>2, PrefixIs
<1>4. DOMAIN g.recs = 1 .. n
  BY Zenon, <1>3, SeqIs
<1>5. Range(g.recs) \subseteq Range(f.recs)
  BY <1>1, <1>2, <1>3, <1>4 DEF Range
<1>6. Increasing(g.recs)
  <2> SUFFICES ASSUME NEW i \in 1 .. n, NEW j \in 1 .. n, i < j
               PROVE  g.recs[i].seq < g.recs[j].seq
    BY Zenon, <1>4 DEF Increasing
  <2>1. i \in DOMAIN f.recs /\ j \in DOMAIN f.recs
    BY <1>1, <1>2
  <2> QED BY Zenon, <1>3, <2>1 DEF GoodWal, Increasing
<1>7. n <= Len(g.recs)
  BY <1>1, <1>3
<1> QED BY Zenon, <1>3, <1>5, <1>6, <1>7 DEF GoodWal

\* The oldest memtable and the others.
LEMMA OldestAndRest ==
    ASSUME NEW s \in Seq(SUBSET InternalRecord), s # <<>>, NEW M, OldestFirst(s, M)
    PROVE  /\ Head(s) # {} /\ Head(s) \in SUBSET InternalRecord
           /\ UNION Range(s) = Head(s) \cup UNION Range(Tail(s))
           /\ OldestFirst(Tail(s), M)
           /\ \A r \in Head(s), q \in M \cup UNION Range(Tail(s)) : r.seq < q.seq
           /\ Len(s) > 1 => UNION Range(Tail(s)) # {}
<1>1. Len(s) \in Nat \ {0} /\ DOMAIN s = 1 .. Len(s) /\ Head(s) = s[1]
  BY SeqIs
<1>2. /\ Tail(s) \in Seq(SUBSET InternalRecord) /\ Len(Tail(s)) = Len(s) - 1
      /\ \A i \in 1 .. Len(s) - 1 : Tail(s)[i] = s[i + 1]
      /\ Head(s) \in SUBSET InternalRecord
  BY Zenon, TailIs
<1>3. DOMAIN Tail(s) = 1 .. Len(s) - 1
  BY Zenon, <1>2, SeqIs
<1>4. \A i \in 1 .. Len(s) : i = 1 \/ (i - 1 \in 1 .. Len(s) - 1 /\ s[i] = Tail(s)[i - 1])
  BY <1>1, <1>2
<1>5. \A i \in 1 .. Len(s) - 1 : i + 1 \in DOMAIN s /\ 1 < i + 1 /\ 1 \in DOMAIN s
  BY <1>1
<1>6. UNION Range(s) = Head(s) \cup UNION Range(Tail(s))
  <2>1. \A i \in 1 .. Len(s) : s[i] = Head(s) \/ s[i] \in Range(Tail(s))
    <3>1. \A i \in 1 .. Len(s) - 1 : Tail(s)[i] \in Range(Tail(s))
      BY Zenon, <1>3 DEF Range
    <3> QED BY Zenon, <1>1, <1>4, <3>1
  <2>2. \A i \in 1 .. Len(s) - 1 : Tail(s)[i] \in Range(s)
    BY Zenon, <1>2, <1>5 DEF Range
  <2>3. Head(s) \in Range(s)
    BY <1>1 DEF Range
  <2>4. Range(Tail(s)) \subseteq Range(s)
    BY Zenon, <1>3, <2>2 DEF Range
  <2>5. \A x \in Range(s) : x = Head(s) \/ x \in Range(Tail(s))
    BY Zenon, <1>1, <2>1 DEF Range
  <2> QED BY Zenon, <2>3, <2>4, <2>5
<1>7. OldestFirst(Tail(s), M)
  <2> SUFFICES ASSUME NEW i \in 1 .. Len(s) - 1
               PROVE  /\ Tail(s)[i] # {}
                      /\ \A r \in Tail(s)[i] :
                            /\ \A q \in M : r.seq < q.seq
                            /\ \A j \in 1 .. Len(s) - 1 :
                                  i < j => \A q \in Tail(s)[j] : r.seq < q.seq
    BY Zenon, <1>3 DEF OldestFirst
  <2>1. Tail(s)[i] = s[i + 1] /\ i + 1 \in DOMAIN s
    BY Zenon, <1>2, <1>5
  <2>2. ASSUME NEW r \in s[i + 1], NEW j \in 1 .. Len(s) - 1, i < j, NEW q \in Tail(s)[j]
        PROVE  r.seq < q.seq
    <3>1. j + 1 \in DOMAIN s /\ q \in s[j + 1] /\ i + 1 < j + 1
      BY <1>1, <1>2, <1>5, <2>2
    <3> QED BY Zenon, <2>1, <2>2, <3>1 DEF OldestFirst
  <2> QED BY Zenon, <2>1, <2>2 DEF OldestFirst
<1>8. \A r \in Head(s), q \in M \cup UNION Range(Tail(s)) : r.seq < q.seq
  <2> SUFFICES ASSUME NEW r \in Head(s), NEW q \in M \cup UNION Range(Tail(s))
               PROVE  r.seq < q.seq
    BY Zenon
  <2>1. CASE q \in M
    BY <1>1, <2>1 DEF OldestFirst
  <2>2. CASE q \in UNION Range(Tail(s))
    <3>1. PICK i \in 1 .. Len(s) - 1 : q \in Tail(s)[i]
      BY Zenon, <1>3, <2>2 DEF Range
    <3> QED BY Zenon, <1>1, <1>2, <1>5, <3>1 DEF OldestFirst
  <2> QED BY Zenon, <2>1, <2>2
<1>9. ASSUME Len(s) > 1 PROVE UNION Range(Tail(s)) # {}
  <2>1. 1 \in 1 .. Len(s) - 1
    BY <1>1, <1>9
  <2>2. Tail(s)[1] = s[2] /\ s[2] # {} /\ Tail(s)[1] \in Range(Tail(s))
    BY <1>2, <1>3, <1>5, <2>1 DEF OldestFirst, Range
  <2> QED BY Zenon, <2>2
<1>10. Head(s) # {}
  BY <1>1 DEF OldestFirst
<1> QED BY Zenon, <1>2, <1>6, <1>7, <1>8, <1>9, <1>10

\* flush_unlocked puts the mutable memtable behind the immutable ones.
LEMMA FrozenLast ==
    ASSUME NEW s \in Seq(SUBSET InternalRecord), NEW M \in SUBSET InternalRecord,
           M # {}, OldestFirst(s, M)
    PROVE  /\ OldestFirst(Append(s, M), {})
           /\ UNION Range(Append(s, M)) = M \cup UNION Range(s)
<1>1. /\ Len(s) \in Nat /\ DOMAIN s = 1 .. Len(s)
      /\ DOMAIN Append(s, M) = 1 .. Len(s) + 1
      /\ \A i \in 1 .. Len(s) : Append(s, M)[i] = s[i]
      /\ Append(s, M)[Len(s) + 1] = M
  BY SeqIs, AppendIs
<1>2. Range(Append(s, M)) = Range(s) \cup {M}
  BY RangeOfAppend
<1>3. ASSUME NEW i \in 1 .. Len(s) + 1
      PROVE  /\ Append(s, M)[i] # {}
             /\ \A r \in Append(s, M)[i], j \in 1 .. Len(s) + 1 :
                   i < j => \A q \in Append(s, M)[j] : r.seq < q.seq
  <2>1. CASE i = Len(s) + 1
    BY <1>1, <2>1
  <2>2. CASE i \in 1 .. Len(s)
    <3>1. Append(s, M)[i] # {}
      BY Zenon, <1>1, <2>2 DEF OldestFirst
    <3>2. ASSUME NEW r \in Append(s, M)[i], NEW j \in 1 .. Len(s) + 1, i < j,
                 NEW q \in Append(s, M)[j]
          PROVE  r.seq < q.seq
      <4>1. r \in s[i] /\ i \in DOMAIN s
        BY Zenon, <1>1, <2>2
      <4>2. CASE j = Len(s) + 1
        BY Zenon, <1>1, <4>1, <4>2 DEF OldestFirst
      <4>3. CASE j \in 1 .. Len(s)
        BY Zenon, <1>1, <3>2, <4>1, <4>3 DEF OldestFirst
      <4> QED BY <1>1, <4>2, <4>3
    <3> QED BY Zenon, <3>1, <3>2
  <2> QED BY <1>1, <2>1, <2>2
<1>4. OldestFirst(Append(s, M), {})
  BY Zenon, <1>1, <1>3 DEF OldestFirst
<1> QED BY Zenon, <1>2, <1>4

-----------------------------------------------------------------------------
(* Steps that add no record. *)

\* No memtable holds a record.
LEMMA NothingInMemory ==
    /\ mem = {} /\ imm = <<>> => InMemory = {} /\ OldestFirst(imm, mem)
    /\ (mem = {} /\ imm = <<>> => InMemory = {} /\ OldestFirst(imm, mem))'
  BY DEF InMemory, Range, OldestFirst

\* One WAL is written.
LEMMA OneWal ==
    ASSUME NEW w \in [WalId -> WalFile], \A i \in WalId : GoodWal(w[i]),
           NEW i, NEW g, GoodWal(g), NEW w2, w2 = [w EXCEPT ![i] = g]
    PROVE  /\ \A j \in WalId : GoodWal(w2[j])
           /\ \A v \in Version : /\ v.wal_id # i => w2[v.wal_id] = w[v.wal_id]
                                 /\ v.wal_id = i => w2[v.wal_id] = g
<1>1. \A j \in WalId : (j # i => w2[j] = w[j]) /\ (j = i => w2[j] = g)
  BY Zenon
<1>2. \A v \in Version : v.wal_id \in WalId
  BY Zenon DEF Version
<1> QED BY Zenon, <1>1, <1>2

\* A WAL is synced.
LEMMA OneSynced ==
    ASSUME NEW w \in [WalId -> WalFile], \A i \in WalId : GoodWal(w[i]),
           NEW w2, \A i \in WalId : w2[i] = w[i] \/ w2[i] = Synced(w[i])
    PROVE  /\ \A j \in WalId : GoodWal(w2[j]) /\ w2[j].recs = w[j].recs
           /\ \A v \in Version : WalRecs(w2, v) = WalRecs(w, v)
<1>1. \A j \in WalId : GoodWal(w2[j]) /\ w2[j].recs = w[j].recs
  BY Zenon, SyncedWal
<1>2. \A v \in Version : v.wal_id \in WalId
  BY Zenon DEF Version
<1> QED BY Zenon, <1>1, <1>2 DEF WalRecs

\* A recoverable version stays sound when its WAL gains nothing.
LEMMA StaysSound ==
    ASSUME NEW w, NEW w2, NEW v \in Version, NEW h, Sound(WalRecs(w, v), v, h),
           WalRecs(w2, v) \subseteq WalRecs(w, v)
    PROVE  Sound(WalRecs(w2, v), v, h)
<1>1. v.next_seq \in Nat /\ v.next_seq <= v.next_seq
  BY DEF Version, SeqNum
<1> QED BY Zenon, <1>1, SoundLess

\* A step after which no edit is staged and no put is in progress.
LEMMA RecordServes ==
    ASSUME Typed, RecordInv, \A i \in WalId : GoodWal(wal'[i]),
           Recoverable' \subseteq Recoverable, issued' = issued,
           \A v \in Recoverable' : WalRecs(wal', v) \subseteq WalRecs(wal, v),
           OldestFirst(imm', mem'), ~Putting', ~Staging',
           Live' => Backed(WalRecs(wal', catalog'), catalog', InMemory', next_sequence')
    PROVE  RecordInv'
<1>1. \A v \in Recoverable' : Sound(WalRecs(wal', v), v, issued')
  BY Zenon, NamedWalIds, StaysSound DEF RecordInv
<1>2. Applied' = WalRecs(wal', catalog')
  BY Zenon DEF Applied
<1> QED BY Zenon, <1>1, <1>2 DEF RecordInv, Putting, Staging

\* A new database is empty.
LEMMA RecordInit == Init => RecordInv
<1> SUFFICES ASSUME Init PROVE RecordInv
  BY Zenon
<1>1. Recoverable = {EmptyVersion}
  BY Zenon, RangeOfSingle DEF Init, Recoverable
<1>2. \A i \in WalId : wal[i].recs = <<>> /\ wal[i].synced = 0
  BY Zenon DEF Init, NoFile
<1>3. EmptyVersion.wal_id \in WalId
  BY Zenon, EmptyVersionType DEF Version
<1>4. WalRecs(wal, EmptyVersion) = {}
  BY <1>2, <1>3 DEF WalRecs, Range
<1>5. Sound({}, EmptyVersion, issued)
  BY Zenon DEF Sound, Aligned, Genuine, Built, check_invariants, EmptyVersion, Recs
<1>6. \A i \in WalId : GoodWal(wal[i])
  BY Zenon, <1>2, EmptyWal
<1>7. OldestFirst(imm, mem)
  BY Zenon, NothingInMemory DEF Init
<1>8. pc = "down"
  BY Zenon DEF Init
<1> QED BY Zenon, <1>1, <1>4, <1>5, <1>6, <1>7, <1>8 DEF RecordInv, Live, Putting, Staging

-----------------------------------------------------------------------------
(* Each operation. *)

\* Creating the first WAL.
LEMMA RecordCreateWal ==
    ASSUME Typed, FlowInv, WalInv, RecordInv, CreateWal \/ WriteWalHeader \/ SyncWalHeader
    PROVE  RecordInv'
<1> USE DEF Goto, files, memory, history
<1>a. /\ catalog \in Version /\ wal \in [WalId -> WalFile] /\ catalog.wal_id \in WalId
      /\ \A i \in WalId : GoodWal(wal[i])
  BY Zenon, NamedWalIds DEF Typed, TypeOK, RecordInv
<1>b. /\ pc \in Starting /\ ~Putting' /\ ~Staging' /\ UNCHANGED <<manifest, issued, mem, imm, catalog>>
  BY Zenon DEF CreateWal, WriteWalHeader, SyncWalHeader, Putting, Staging, Starting
<1>c. /\ InMemory = {} /\ InMemory' = {} /\ OldestFirst(imm', mem')
      /\ Recoverable' = Recoverable
  BY Zenon, <1>b, NothingInMemory DEF FlowInv, Recoverable
<1>d. \A v \in Recoverable : v \in Version
  BY Zenon, NamedWalIds
<1>e. pc \in {"wal_header", "wal_header_sync"} =>
        /\ Backed(WalRecs(wal, catalog), catalog, InMemory, next_sequence)
        /\ wal_id = catalog.wal_id /\ wal[wal_id].hdr # "ok"
  BY Zenon DEF RecordInv, Live, Applied, Putting, FlowInv, WalInv
<1>1. CASE CreateWal
  <2> DEFINE g == [NoFile EXCEPT !.hdr = "torn"]
  <2>1. GoodWal(g) /\ Range(g.recs) = {}
    BY Zenon, EmptyWal DEF NoFile
  <2>2. wal' = [wal EXCEPT ![catalog.wal_id] = g] /\ next_sequence' = catalog.next_seq
    BY Zenon, <1>1 DEF CreateWal
  <2> HIDE DEF g
  <2>3. /\ \A j \in WalId : GoodWal(wal'[j])
        /\ \A v \in Version : /\ v.wal_id # catalog.wal_id => wal'[v.wal_id] = wal[v.wal_id]
                              /\ v.wal_id = catalog.wal_id => wal'[v.wal_id] = g
    BY <1>a, <2>1, <2>2, OneWal
  <2>4. \A v \in Version : WalRecs(wal', v) \subseteq WalRecs(wal, v)
    BY Zenon, <2>1, <2>3 DEF WalRecs
  <2>5. WalRecs(wal', catalog') = {}
    BY Zenon, <1>a, <1>b, <2>1, <2>3 DEF WalRecs
  <2>6. catalog.next_seq <= catalog.next_seq
    BY <1>a DEF Version, SeqNum
  <2>7. Backed(WalRecs(wal', catalog'), catalog', InMemory', next_sequence')
    BY Zenon, <1>b, <1>c, <2>2, <2>5, <2>6 DEF Backed
  <2> QED BY Zenon, <1>b, <1>c, <1>d, <2>3, <2>4, <2>7, RecordServes
<1>2. CASE WriteWalHeader
  <2> DEFINE g == [wal[wal_id] EXCEPT !.hdr = "new"]
  <2>1. /\ pc = "wal_header" /\ wal' = [wal EXCEPT ![wal_id] = g]
        /\ next_sequence' = next_sequence
    BY Zenon, <1>2 DEF WriteWalHeader
  <2>2. g.recs = wal[wal_id].recs /\ g.synced = wal[wal_id].synced
    BY Zenon, <1>a, <1>e, <2>1 DEF WalFile
  <2>3. g.recs = <<>> /\ g.synced <= Len(g.recs) /\ GoodWal(wal[wal_id])
    BY Zenon, <1>a, <1>e, <2>1, <2>2 DEF GoodWal
  <2>4. GoodWal(g)
    BY Zenon, <2>2, <2>3 DEF GoodWal
  <2> HIDE DEF g
  <2>5. /\ \A j \in WalId : GoodWal(wal'[j])
        /\ \A v \in Version : /\ v.wal_id # wal_id => wal'[v.wal_id] = wal[v.wal_id]
                              /\ v.wal_id = wal_id => wal'[v.wal_id] = g
    BY <1>a, <2>1, <2>4, OneWal
  <2>6. \A v \in Version : WalRecs(wal', v) = WalRecs(wal, v)
    BY Zenon, <2>2, <2>5 DEF WalRecs
  <2>7. Backed(WalRecs(wal', catalog'), catalog', InMemory', next_sequence')
    BY Zenon, <1>a, <1>b, <1>c, <1>e, <2>1, <2>6
  <2> QED BY Zenon, <1>b, <1>c, <1>d, <2>5, <2>6, <2>7, RecordServes
<1>3. CASE SyncWalHeader
  <2>1. /\ pc = "wal_header_sync" /\ wal' = [wal EXCEPT ![wal_id] = Synced(@)]
        /\ next_sequence' = next_sequence
    BY Zenon, <1>3 DEF SyncWalHeader
  <2>2. /\ \A j \in WalId : GoodWal(wal'[j])
        /\ \A v \in Version : WalRecs(wal', v) = WalRecs(wal, v)
    <3>1. \A i \in WalId : wal'[i] = wal[i] \/ wal'[i] = Synced(wal[i])
      BY Zenon, <1>a, <2>1
    <3> QED BY Zenon, <1>a, <3>1, OneSynced
  <2>3. Backed(WalRecs(wal', catalog'), catalog', InMemory', next_sequence')
    BY Zenon, <1>a, <1>b, <1>c, <1>e, <2>1, <2>2
  <2> QED BY Zenon, <1>b, <1>c, <1>d, <2>2, <2>3, RecordServes
<1> QED BY Zenon, <1>1, <1>2, <1>3

\* The catalog is sound except while an appended edit is not synced.
LEMMA CatalogSound ==
    ASSUME Typed, TableInv, RecordInv, pc \notin {"down", "open_manifest", "sync"}
    PROVE  Sound(WalRecs(wal, catalog), catalog, issued)
<1>1. catalog = Latest(manifest.log) /\ Latest(manifest.log) \in Recoverable
  BY Zenon, NamedWalIds DEF TableInv
<1> QED BY Zenon, <1>1 DEF RecordInv

\* Recovery replays the WAL that the catalog names into the memtable and
\* rewrites it.
LEMMA ReplayMeans ==
    ASSUME Typed, TableInv, FlowInv, WalInv, RecordInv, RecoverWal
    PROVE  LET S == WalRecs(wal, catalog)
           IN  /\ pc = "open_wal" /\ pc' = "replacement_sync"
               /\ UNCHANGED <<manifest, catalog, issued, acked, promised>>
               /\ job'.call = "open" /\ job'.kind = "open"
               /\ job'.staged.tables = catalog.tables
               /\ job'.staged.next_table_id = catalog.next_table_id
               /\ job'.staged.wal_id = catalog.wal_id + 1
               /\ job'.staged.next_seq = next_sequence'
               /\ catalog.next_seq \in Nat /\ next_sequence' \in Nat
               /\ catalog.next_seq <= next_sequence' /\ \A r \in S : r.seq < next_sequence'
               /\ InMemory' = S /\ After' = S /\ OldestFirst(imm', mem')
               /\ \A i \in WalId : GoodWal(wal'[i])
               /\ \A v \in Recoverable : wal'[v.wal_id] = wal[v.wal_id]
               /\ WalRecs(wal', job'.staged) = S
<1> DEFINE recs == wal[catalog.wal_id].recs
           g    == [NewWal EXCEPT !.recs = recs]
<1>a. /\ catalog \in Version /\ wal \in [WalId -> WalFile] /\ catalog.wal_id \in WalId
      /\ catalog.wal_id \in Nat /\ \A i \in WalId : GoodWal(wal[i])
  BY Zenon, VersionNumbers DEF Typed, TypeOK, RecordInv
<1>1. GoodWal(wal[catalog.wal_id]) /\ Range(recs) \in SUBSET InternalRecord
  BY Zenon, <1>a, GoodWalRecs
<1>2. Loaded(recs) = recs
  BY Zenon, <1>1, TornType DEF Loaded
<1>3. PICK next \in SeqNum : NextSequence(recs, next) /\ Replay(recs, next)
  BY Zenon, <1>2 DEF RecoverWal
<1> HIDE DEF recs
<1>4. /\ pc = "open_wal" /\ pc' = "replacement_sync" /\ catalog.wal_id < MaxWalId
      /\ UNCHANGED <<manifest, catalog, imm, issued, acked, promised>>
      /\ mem' = Range(recs) /\ next_sequence' = next
      /\ wal' = [wal EXCEPT ![catalog.wal_id + 1] = g]
      /\ job' = [NoJob EXCEPT !.call = "open", !.kind = "open",
                              !.repl = catalog.wal_id + 1,
                              !.staged = [catalog EXCEPT !.wal_id = @ + 1,
                                                         !.next_seq = next]]
  BY Zenon, <1>3 DEF Replay, Goto, history
<1>5. /\ job'.call = "open" /\ job'.kind = "open"
      /\ job'.staged = [catalog EXCEPT !.wal_id = @ + 1, !.next_seq = next]
  BY Zenon, <1>4 DEF NoJob
<1>6. /\ job'.staged.wal_id = catalog.wal_id + 1 /\ job'.staged.next_seq = next
      /\ job'.staged.tables = catalog.tables
      /\ job'.staged.next_table_id = catalog.next_table_id
  BY Zenon, <1>a, <1>5 DEF Version
<1>7. GoodWal(g) /\ g.recs = recs
  <2>1. g.recs = recs /\ g.hdr = "ok" /\ g.synced = 0
    BY Zenon DEF NewWal
  <2>2. Len(recs) \in Nat /\ recs \in Seq(InternalRecord) /\ Increasing(recs)
    BY Zenon, <1>1, GoodWalRecs DEF GoodWal, recs
  <2> QED BY <2>1, <2>2 DEF GoodWal
<1> HIDE DEF g
<1>8. /\ \A j \in WalId : GoodWal(wal'[j])
      /\ \A v \in Version : v.wal_id # catalog.wal_id + 1 => wal'[v.wal_id] = wal[v.wal_id]
  BY <1>a, <1>4, <1>7, OneWal
<1>9. \A v \in Recoverable : wal'[v.wal_id] = wal[v.wal_id]
  <2>1. catalog = Latest(manifest.log)
    BY Zenon, <1>4 DEF TableInv
  <2>2. \A v \in Recoverable : v \in Version /\ v.wal_id \in Nat /\ v.wal_id <= catalog.wal_id
    BY <2>1, NamedWalIds DEF WalInv, WalId
  <2>3. \A v \in Recoverable : v \in Version /\ v.wal_id # catalog.wal_id + 1
    BY <1>a, <2>2
  <2> QED BY Zenon, <1>8, <2>3
<1>10. WalRecs(wal, catalog) = Range(recs)
  BY Zenon DEF WalRecs, recs
<1>11. WalRecs(wal', job'.staged) = Range(recs)
  <2>1. catalog.wal_id + 1 \in WalId
    BY <1>a, <1>4, LsmAssumption DEF WalId
  <2>2. wal'[catalog.wal_id + 1] = g
    BY Zenon, <1>a, <1>4, <2>1
  <2> QED BY Zenon, <1>6, <1>7, <2>2 DEF WalRecs
<1>12. /\ catalog.next_seq \in Nat /\ next \in Nat /\ catalog.next_seq <= next
       /\ \A r \in Range(recs) : r.seq < next
  BY <1>a, <1>3 DEF NextSequence, Version, SeqNum
<1>13. InMemory' = Range(recs) /\ After' = Range(recs) /\ OldestFirst(imm', mem')
  <2>1. imm' = <<>> /\ mem' = Range(recs)
    BY Zenon, <1>4 DEF FlowInv, Starting
  <2>2. UNION Range(imm') = {}
    BY <2>1 DEF Range
  <2>3. OldestFirst(imm', mem')
    BY <2>1 DEF OldestFirst
  <2> QED BY Zenon, <1>5, <2>1, <2>2, <2>3 DEF InMemory, After
<1> QED BY Zenon, <1>4, <1>5, <1>6, <1>8, <1>9, <1>10, <1>11, <1>12, <1>13

\* put_impl appends to the WAL that the catalog names.
LEMMA PutTarget ==
    ASSUME Typed, FlowInv, WalInv, pc \in {"idle", "put_sync", "put_apply"}, writer # 0
    PROVE  /\ writer = catalog.wal_id /\ wal[writer].hdr = "ok" /\ Recoverable = {catalog}
           /\ writer \in WalId
<1>1. wal_id = catalog.wal_id /\ writer = wal_id
  BY Zenon DEF FlowInv, Switched, Starting
<1>2. wal[catalog.wal_id].hdr = "ok" /\ Recoverable = {catalog}
  BY Zenon DEF WalInv, Serving, Starting
<1> QED BY Zenon, <1>1, <1>2, NamedWalIds

\* The table that a flush writes.
FlushedTable == [id |-> catalog.next_table_id, level |-> 0, recs |-> Head(imm)]

\* The edit of a flush: the oldest memtable becomes a table of L0; with the last
\* one the catalog turns to an empty WAL.
LEMMA FlushEditMeans ==
    ASSUME Typed, FlowInv, FlushEdit
    PROVE  /\ pc = "flush_edit" /\ pc' = "append" /\ imm # <<>> /\ mem = {}
           /\ UNCHANGED <<manifest, sst, catalog, mem, imm, next_sequence, issued>>
           /\ UNCHANGED <<acked, promised, wal_id, writer>>
           /\ job'.kind = "flush" /\ job'.call = job.call /\ job'.rec = job.rec
           /\ FlushedTable \in TableMeta
           /\ job'.staged.tables = catalog.tables \cup {FlushedTable}
           /\ job'.staged.next_table_id = catalog.next_table_id + 1
           /\ job'.staged.next_seq = next_sequence
           /\ wal_id = catalog.wal_id
           /\ \/ /\ Len(imm) > 1 /\ wal' = wal
                 /\ job'.staged.wal_id = catalog.wal_id
              \/ /\ Len(imm) = 1 /\ wal' = [wal EXCEPT ![catalog.wal_id + 1] = NewWal]
                 /\ job'.staged.wal_id = catalog.wal_id + 1
                 /\ catalog.wal_id + 1 \in WalId
<1> USE DEF Goto, files, memory, history
<1>1. /\ pc = "flush_edit" /\ pc' = "append"
      /\ UNCHANGED <<manifest, sst, catalog, mem, imm, next_sequence, issued>>
      /\ UNCHANGED <<acked, promised, wal_id, writer>>
      /\ \/ Len(imm) = 1 /\ wal_id < MaxWalId /\ FlushRotates
         \/ Len(imm) # 1 /\ FlushKeepsWal
  BY Zenon DEF FlushEdit, rotates_wal
<1>2. /\ imm # <<>> /\ mem = {} /\ wal_id = catalog.wal_id /\ wal_id \in WalId
      /\ catalog.next_table_id <= MaxTableId /\ imm \in Seq(SUBSET InternalRecord)
      /\ catalog \in Version /\ job \in Job
  BY Zenon, <1>1 DEF Typed, TypeOK, Pending, FlowInv, Switched, Starting
<1>3. FlushedTable \in TableMeta
  <2>1. Head(imm) \in SUBSET InternalRecord
    BY Zenon, <1>2, TailIs
  <2>2. catalog.next_table_id \in TableId /\ 0 \in LevelId
    BY <1>2, LsmAssumption DEF Version, TableId, LevelId
  <2> QED BY Zenon, <2>1, <2>2 DEF FlushedTable, TableMeta
<1>4. /\ FlushedVersion.tables = catalog.tables \cup {FlushedTable}
      /\ FlushedVersion.next_table_id = catalog.next_table_id + 1
      /\ FlushedVersion.next_seq = next_sequence
      /\ FlushedVersion.wal_id = catalog.wal_id
      /\ FlushedVersion \in [tables : {FlushedVersion.tables},
                             next_table_id : {FlushedVersion.next_table_id},
                             next_seq : {FlushedVersion.next_seq},
                             wal_id : {FlushedVersion.wal_id}]
  BY Zenon, <1>2 DEF FlushedVersion, FlushedTable, Version
<1>5. Len(imm) \in Nat \ {0}
  BY Zenon, <1>2, SeqIs
<1>6. CASE Len(imm) = 1 /\ wal_id < MaxWalId /\ FlushRotates
  <2>1. /\ job' = [job EXCEPT !.kind = "flush", !.repl = wal_id + 1,
                              !.staged = [FlushedVersion EXCEPT !.wal_id = wal_id + 1]]
        /\ wal' = [wal EXCEPT ![wal_id + 1] = NewWal]
    BY Zenon, <1>6 DEF FlushRotates
  <2>2. /\ job'.kind = "flush" /\ job'.call = job.call /\ job'.rec = job.rec
        /\ job'.staged = [FlushedVersion EXCEPT !.wal_id = wal_id + 1]
    BY Zenon, <1>2, <2>1 DEF Job
  <2>3. /\ job'.staged.tables = FlushedVersion.tables /\ job'.staged.wal_id = wal_id + 1
        /\ job'.staged.next_table_id = FlushedVersion.next_table_id
        /\ job'.staged.next_seq = FlushedVersion.next_seq
    BY Zenon, <1>4, <2>2
  <2>4. wal_id + 1 \in WalId
    BY <1>2, <1>6, LsmAssumption DEF WalId
  <2> QED BY Zenon, <1>1, <1>2, <1>3, <1>4, <1>6, <2>1, <2>2, <2>3, <2>4
<1>7. CASE Len(imm) # 1 /\ FlushKeepsWal
  <2>1. job' = [job EXCEPT !.kind = "flush", !.staged = FlushedVersion] /\ wal' = wal
    BY Zenon, <1>7 DEF FlushKeepsWal
  <2>2. /\ job'.kind = "flush" /\ job'.call = job.call /\ job'.rec = job.rec
        /\ job'.staged = FlushedVersion
    BY Zenon, <1>2, <2>1 DEF Job
  <2>3. Len(imm) > 1
    <3>1. Len(imm) # 1
      BY Zenon, <1>7
    <3>2. \A n \in Nat \ {0} : n # 1 => n > 1
      OBVIOUS
    <3> QED BY Zenon, <1>5, <3>1, <3>2
  <2> QED BY Zenon, <1>1, <1>2, <1>3, <1>4, <2>1, <2>2, <2>3
<1> QED BY Zenon, <1>1, <1>6, <1>7

\* flush_unlocked and flush_oldest_immutable, up to the edit.
LEMMA FlushMeans ==
    ASSUME Typed, TableInv, FlowInv, WalInv, RecordInv,
           Flush \/ Freeze \/ Drained \/ FlushTable \/ FlushTableFails \/ FlushEditFails
    PROVE  /\ pc \in {"idle", "freeze", "drain", "flush_edit"}
           /\ pc' \in {"idle", "freeze", "drain", "flush_edit", "maybe_compact"}
           /\ UNCHANGED <<manifest, catalog, next_sequence, issued, acked, promised>>
           /\ job' = job \/ job'.call # "put"
           /\ OldestFirst(imm', mem') /\ InMemory' = InMemory
           /\ \A i \in WalId : GoodWal(wal'[i])
           /\ \A v \in Recoverable : wal'[v.wal_id] = wal[v.wal_id]
<1> USE DEF Goto, files, memory, history
<1>1. /\ pc \in {"idle", "freeze", "drain", "flush_edit"}
      /\ pc' \in {"idle", "freeze", "drain", "flush_edit", "maybe_compact"}
      /\ UNCHANGED <<manifest, catalog, next_sequence, issued, acked, promised>>
  BY Zenon DEF Flush, Freeze, Drained, FlushTable, FlushTableFails, FlushEditFails, ReturnError
<1>2. OldestFirst(imm, mem) /\ (job' = job \/ job'.call # "put")
  <2>1. job' = job \/ job' = NoJob \/ job' = [NoJob EXCEPT !.call = "flush"]
    BY Zenon DEF Flush, Freeze, Drained, FlushTable, FlushTableFails, FlushEditFails, ReturnError
  <2> QED BY <2>1 DEF NoJob, RecordInv
<1>3. OldestFirst(imm', mem') /\ InMemory' = InMemory
  <2>1. CASE Freeze
    <3>1. imm' = (IF mem = {} THEN imm ELSE Append(imm, mem)) /\ mem' = {}
      BY Zenon, <2>1 DEF Freeze
    <3>2. imm \in Seq(SUBSET InternalRecord) /\ mem \in SUBSET InternalRecord
      BY Zenon DEF Typed, TypeOK
    <3>3. CASE mem = {}
      BY Zenon, <1>2, <3>1, <3>3 DEF InMemory
    <3>4. CASE mem # {}
      BY Zenon, <1>2, <3>1, <3>2, <3>4, FrozenLast DEF InMemory
    <3> QED BY Zenon, <3>3, <3>4
  <2>2. CASE ~Freeze
    <3>1. UNCHANGED <<mem, imm>>
      BY Zenon, <2>2 DEF Flush, Drained, FlushTable, FlushTableFails, FlushEditFails
    <3> QED BY Zenon, <1>2, <3>1 DEF InMemory
  <2> QED BY Zenon, <2>1, <2>2
<1>4. /\ \A i \in WalId : GoodWal(wal'[i])
      /\ \A v \in Recoverable : wal'[v.wal_id] = wal[v.wal_id]
  <2>1. CASE wal' = wal
    BY Zenon, <2>1 DEF RecordInv
  <2>2. CASE wal' # wal
    <3>1. PICK h \in {"torn", "new"} :
             wal' = [wal EXCEPT ![wal_id + 1] = [NoFile EXCEPT !.hdr = h]]
      BY Zenon, <2>2 DEF Flush, Freeze, Drained, FlushTable, FlushTableFails, FlushEditFails
    <3>2. pc = "flush_edit"
      BY Zenon, <2>2 DEF Flush, Freeze, Drained, FlushTable, FlushTableFails, FlushEditFails
    <3> DEFINE g == [NoFile EXCEPT !.hdr = h]
    <3>3. GoodWal(g)
      BY Zenon, EmptyWal DEF NoFile
    <3>4. wal' = [wal EXCEPT ![wal_id + 1] = g]
      BY Zenon, <3>1
    <3> HIDE DEF g
    <3>5. wal \in [WalId -> WalFile] /\ \A i \in WalId : GoodWal(wal[i])
      BY Zenon DEF Typed, TypeOK, RecordInv
    <3>6. /\ \A j \in WalId : GoodWal(wal'[j])
          /\ \A v \in Version : v.wal_id # wal_id + 1 => wal'[v.wal_id] = wal[v.wal_id]
      BY <3>3, <3>4, <3>5, OneWal
    <3>7. \A v \in Recoverable : v \in Version /\ v.wal_id # wal_id + 1
      <4>1. wal_id = catalog.wal_id /\ wal_id \in Nat
        BY <3>2 DEF FlowInv, Switched, Starting, Typed, TypeOK, Pending, WalId
      <4>2. Recoverable = {catalog} /\ catalog \in Version
        BY Zenon, <3>2 DEF WalInv, Serving, Starting, Typed, TypeOK
      <4> QED BY <4>1, <4>2
    <3> QED BY Zenon, <3>6, <3>7
  <2> QED BY Zenon, <2>1, <2>2
<1> QED BY Zenon, <1>1, <1>2, <1>3, <1>4

\* A failed commit drops the replacement WAL, which no version names.
LEMMA CommitFailsMeans ==
    ASSUME Typed, FlowInv, WalInv, RecordInv, CommitFails, pc = "append", UNCHANGED manifest
    PROVE  \/ OpenFails /\ UNCHANGED wal
           \/ /\ pc' = "idle" /\ job' = NoJob
              /\ UNCHANGED <<catalog, mem, imm, next_sequence, issued, acked, promised>>
              /\ \A i \in WalId : GoodWal(wal'[i])
              /\ \A v \in Recoverable : wal'[v.wal_id] = wal[v.wal_id]
<1>1. CASE job.kind = "open" /\ OpenFails /\ UNCHANGED wal
  BY Zenon, <1>1
<1>2. CASE /\ job.kind # "open" /\ ReturnError
           /\ UNCHANGED <<catalog, mem, imm, next_sequence>>
           /\ \/ wal' = wal
              \/ job.kind = "flush" /\ job.repl # 0 /\ wal' = [wal EXCEPT ![job.repl] = NoFile]
  <2>1. pc' = "idle" /\ job' = NoJob /\ UNCHANGED <<issued, acked, promised>>
    BY Zenon, <1>2 DEF ReturnError, history
  <2>2. wal \in [WalId -> WalFile] /\ \A i \in WalId : GoodWal(wal[i])
    BY Zenon DEF Typed, TypeOK, RecordInv
  <2>3. /\ \A i \in WalId : GoodWal(wal'[i])
        /\ \A v \in Recoverable : wal'[v.wal_id] = wal[v.wal_id]
    <3>1. CASE wal' = wal
      BY Zenon, <2>2, <3>1
    <3>2. CASE job.kind = "flush" /\ job.repl # 0 /\ wal' = [wal EXCEPT ![job.repl] = NoFile]
      <4>1. GoodWal(NoFile)
        BY Zenon, EmptyWal DEF NoFile
      <4>2. /\ \A j \in WalId : GoodWal(wal'[j])
            /\ \A v \in Version : v.wal_id # job.repl => wal'[v.wal_id] = wal[v.wal_id]
        BY <2>2, <3>2, <4>1, OneWal
      <4>3. job.repl = catalog.wal_id + 1 /\ catalog.wal_id \in Nat /\ catalog \in Version
        BY <3>2 DEF FlowInv, Committing, Typed, TypeOK, Version, WalId
      <4>4. Recoverable = {catalog}
        BY Zenon, <1>2 DEF WalInv, Serving
      <4> QED BY <4>2, <4>3, <4>4
    <3> QED BY Zenon, <1>2, <3>1, <3>2
  <2> QED BY Zenon, <1>2, <2>1, <2>3
<1> QED BY Zenon, <1>1, <1>2 DEF CommitFails

\* The plans of the scheduler and of compact_range compact.
LEMMA PlansGood ==
    ASSUME LevelFacts, Typed, TableInv, FlowInv, RecordInv
    PROVE  /\ pc = "maybe_compact" /\ Compacts =>
                 GoodPlan(catalog.tables, pick_compaction(catalog.tables))
           /\ pc = "manual" /\ job.level + 1 < NumLevels /\ ManualPlan.source # {} =>
                 GoodPlan(catalog.tables, ManualPlan)
<1>1. pc \in {"maybe_compact", "manual"} => Built(catalog.tables) /\ check_invariants(catalog)
  BY Zenon, CatalogSound DEF Sound
<1>2. ASSUME pc = "maybe_compact", Compacts
      PROVE  GoodPlan(catalog.tables, pick_compaction(catalog.tables))
  BY Zenon, <1>1, <1>2 DEF Compacts, LevelFacts, PlansAreGood
<1>3. ASSUME pc = "manual", job.level + 1 < NumLevels, ManualPlan.source # {}
      PROVE  GoodPlan(catalog.tables, ManualPlan)
  <2>1. job.level \in LevelId
    BY Zenon DEF Typed, TypeOK, Job
  <2>2. job.level + 1 \in LevelId
    BY <1>3, <2>1, LsmAssumption DEF LevelId
  <2>3. job.lo \in Key /\ job.hi \in Key
    BY Zenon, <1>3 DEF FlowInv
  <2> QED BY Zenon, <1>1, <1>3, <2>1, <2>2, <2>3 DEF ManualPlan, LevelFacts, PlansAreGood
<1> QED BY Zenon, <1>2, <1>3

\* The edit of a compaction: the survivors of the inputs replace them.
LEMMA RunJobMeans ==
    ASSUME Typed, TableInv, NEW plan, GoodPlan(catalog.tables, plan), NEW kind,
           RunJob(plan, kind)
    PROVE  /\ pc' = "append"
           /\ UNCHANGED <<manifest, wal, catalog, mem, imm, next_sequence, issued>>
           /\ UNCHANGED <<acked, promised, wal_id, writer>>
           /\ job'.kind = kind /\ job'.call = job.call /\ job'.rec = job.rec
           /\ job'.staged.tables =
                 Compacted(catalog.tables, plan, catalog.next_table_id)
           /\ job'.staged.next_table_id = catalog.next_table_id
                 + Cardinality(Outputs(Merged(catalog.tables, plan), plan.level + 1,
                                       catalog.next_table_id))
           /\ job'.staged.next_seq = catalog.next_seq
           /\ job'.staged.wal_id = catalog.wal_id
           /\ \A t \in Outputs(Merged(catalog.tables, plan), plan.level + 1,
                               catalog.next_table_id) : t.id <= MaxTableId
<1> DEFINE outs == Outputs(Merged(catalog.tables, plan), plan.level + 1, catalog.next_table_id)
<1>1. JobReads(plan) = Recs(Inputs(plan))
  <2>1. \A t \in Inputs(plan) : t \in catalog.tables
    BY Zenon DEF GoodPlan, Inputs
  <2>2. \A t \in Inputs(plan) : sst[t.id] = t.recs
    BY Zenon, <2>1 DEF TableInv, Intact
  <2> QED BY Zenon, <2>2 DEF JobReads, Recs
<1>2. JobOutputs(plan) = outs
  BY Zenon, <1>1 DEF JobOutputs, Merged
<1>3. /\ pc' = "append" /\ JobHasIds(plan) /\ JobStages(plan, kind)
      /\ UNCHANGED <<manifest, wal, catalog, mem, imm, next_sequence, issued>>
      /\ UNCHANGED <<acked, promised, wal_id, writer>>
  BY Zenon DEF RunJob, Goto, memory, history
<1> HIDE DEF outs
<1>4. job' = [job EXCEPT !.kind = kind,
                         !.staged = [catalog EXCEPT
                             !.tables = (@ \ Inputs(plan)) \cup outs,
                             !.next_table_id = @ + Cardinality(outs)],
                         !.obsolete = {t.id : t \in Inputs(plan)}]
  BY Zenon, <1>2, <1>3 DEF JobStages
<1>5. job \in Job /\ catalog \in Version
  BY Zenon DEF Typed, TypeOK
<1>6. /\ job'.kind = kind /\ job'.call = job.call /\ job'.rec = job.rec
      /\ job'.staged = [catalog EXCEPT !.tables = (@ \ Inputs(plan)) \cup outs,
                                       !.next_table_id = @ + Cardinality(outs)]
  BY Zenon, <1>4, <1>5 DEF Job
<1>7. /\ job'.staged.tables = (catalog.tables \ Inputs(plan)) \cup outs
      /\ job'.staged.next_table_id = catalog.next_table_id + Cardinality(outs)
      /\ job'.staged.next_seq = catalog.next_seq /\ job'.staged.wal_id = catalog.wal_id
  BY Zenon, <1>5, <1>6 DEF Version
<1>8. \A t \in outs : t.id <= MaxTableId
  BY Zenon, <1>2, <1>3 DEF JobHasIds
<1> QED BY Zenon, <1>3, <1>6, <1>7, <1>8 DEF outs, Compacted

\* What a power loss leaves: one of the versions, or the empty one of a MANIFEST
\* whose header was not synced, and a prefix of the records of its WAL.
LEMMA PowerLossMeans ==
    ASSUME Typed, HeaderInv, RecordInv, PowerLoss
    PROVE  \E v \in Recoverable : \E g \in {wal'[v.wal_id]} :
              /\ Recoverable' = {v} /\ wal' = [wal EXCEPT ![v.wal_id] = g]
              /\ Latest(manifest'.log) = v /\ GoodWal(g)
              /\ \/ g.hdr # "ok" /\ wal[v.wal_id].hdr # "ok"
                 \/ /\ g.hdr = "ok" /\ g.synced = Len(g.recs)
                    /\ \E n \in wal[v.wal_id].synced .. Len(wal[v.wal_id].recs) :
                          g.recs = SubSeq(wal[v.wal_id].recs, 1, n)
<1>1. PICK mh \in Survives(manifest.hdr), u \in Recoverable :
         LET v == IF mh = "ok" THEN u ELSE EmptyVersion
             f == wal[v.wal_id]
         IN  /\ manifest' = [hdr |-> mh, log |-> <<v>>]
             /\ \E wh \in Survives(f.hdr), n \in f.synced .. Len(f.recs) :
                   wal' = [wal EXCEPT ![v.wal_id] =
                      IF wh = "ok"
                      THEN [hdr |-> "ok", recs |-> SubSeq(f.recs, 1, n), synced |-> n]
                      ELSE [NoFile EXCEPT !.hdr = wh]]
  BY Zenon DEF PowerLoss, Recoverable
<1> DEFINE v == IF mh = "ok" THEN u ELSE EmptyVersion
           f == wal[v.wal_id]
<1>2. v \in Recoverable
  <2>1. manifest.hdr = "ok" => mh = "ok"
    BY Zenon DEF Survives
  <2> QED BY Zenon, <2>1 DEF HeaderInv
<1>3. /\ manifest'.log = <<v>>
      /\ \E wh \in Survives(f.hdr), n \in f.synced .. Len(f.recs) :
            wal' = [wal EXCEPT ![v.wal_id] =
               IF wh = "ok"
               THEN [hdr |-> "ok", recs |-> SubSeq(f.recs, 1, n), synced |-> n]
               ELSE [NoFile EXCEPT !.hdr = wh]]
  BY Zenon, <1>1
<1> HIDE DEF v
<1>4. /\ wal \in [WalId -> WalFile] /\ v.wal_id \in WalId /\ f \in WalFile /\ GoodWal(f)
      /\ f.synced \in Nat
  BY Zenon, <1>2, NamedWalIds DEF Typed, TypeOK, RecordInv, WalFile
<1>5. PICK wh \in Survives(f.hdr), n \in f.synced .. Len(f.recs) :
         wal' = [wal EXCEPT ![v.wal_id] =
            IF wh = "ok"
            THEN [hdr |-> "ok", recs |-> SubSeq(f.recs, 1, n), synced |-> n]
            ELSE [NoFile EXCEPT !.hdr = wh]]
  BY Zenon, <1>3
<1> DEFINE g == wal'[v.wal_id]
<1>6. Recoverable' = {v} /\ Latest(manifest'.log) = v
  BY Zenon, <1>3, RangeOfSingle DEF Recoverable
<1>7. CASE wh = "ok"
  <2>1. g = [hdr |-> "ok", recs |-> SubSeq(f.recs, 1, n), synced |-> n]
    BY Zenon, <1>4, <1>5, <1>7
  <2>2. g.hdr = "ok" /\ g.recs = SubSeq(f.recs, 1, n) /\ g.synced = n
    BY <2>1
  <2>3. wal' = [wal EXCEPT ![v.wal_id] = g]
    BY Zenon, <1>5, <1>7, <2>1
  <2> HIDE DEF g
  <2>4. GoodWal(g) /\ Len(g.recs) = n
    BY <1>4, <2>2, CutWal
  <2> QED BY Zenon, <1>2, <1>6, <2>2, <2>3, <2>4 DEF g
<1>8. CASE wh # "ok"
  <2>1. g = [NoFile EXCEPT !.hdr = wh]
    BY Zenon, <1>4, <1>5, <1>8
  <2>2. g.hdr = wh /\ g.recs = <<>> /\ g.synced = 0
    BY Zenon, <2>1 DEF NoFile
  <2>3. wal' = [wal EXCEPT ![v.wal_id] = g]
    BY Zenon, <1>5, <1>8, <2>1
  <2>4. f.hdr # "ok"
    BY Zenon, <1>8 DEF Survives
  <2> HIDE DEF g
  <2>5. GoodWal(g)
    BY Zenon, <2>2, EmptyWal
  <2> QED BY Zenon, <1>2, <1>6, <1>8, <2>2, <2>3, <2>4, <2>5 DEF g
<1> QED BY Zenon, <1>7, <1>8

\* RecordInv is preserved by every step.
LEMMA RecordStep ==
    ASSUME LevelFacts, ~Fails("manifest_sync"), ~Fails("wal_write"), Fails("wal_sync") => ~SyncOnWrite
    PROVE  Typed /\ TableInv /\ FlowInv /\ WalInv /\ HeaderInv /\ RecordInv /\ [Next]_vars
              => RecordInv'
  \* A write with the next number is added to the WAL.
<1>SoundWrite.
    ASSUME NEW S \in SUBSET InternalRecord, NEW v, NEW w, Sound(S, v, w),
           NEW r \in InternalRecord, NEW w2, Len(w) \in Nat, Len(w2) = Len(w) + 1,
           \A i \in 1 .. Len(w) : w2[i] = w[i],
           r.op = Len(w2), w2[r.op] = [key |-> r.key, del |-> r.del],
           \A q \in S \cup Recs(v.tables) : q.seq < r.seq
    PROVE  Sound(S \cup {r}, v, w2)
  <2> USE <1>SoundWrite
  <2> DEFINE R == S \cup Recs(v.tables)
  <2>0. Aligned(R) /\ Genuine(R, w)
    BY Zenon DEF Sound
  <2>1. \A q \in R : q.seq \in Nat /\ q.op \in Nat
    <3>1. R \subseteq InternalRecord
      BY Zenon DEF Sound, Built, TableMeta, Recs
    <3> HIDE DEF R
    <3> QED BY Zenon, <3>1, RecordNumbers
  <2>3. r.seq \in Nat /\ r.op \in Nat
    BY Zenon, RecordNumbers
  <2>4. \A q \in R : q.seq < r.seq
    BY Zenon
  <2>5. (S \cup {r}) \cup Recs(v.tables) = R \cup {r}
    BY Zenon
  <2> HIDE DEF R
  <2>2. ASSUME NEW q \in R
        PROVE  q.op <= r.op /\ q.op \in 1 .. Len(w) /\ w[q.op] = [key |-> q.key, del |-> q.del]
    BY <2>0 DEF Genuine
  <2>6. Aligned(R \cup {r})
    <3> SUFFICES ASSUME NEW p \in R \cup {r}, NEW q \in R \cup {r},
                        p.key = q.key, p.seq <= q.seq
                 PROVE  p.op <= q.op
      BY Zenon DEF Aligned
    <3>1. CASE p \in R /\ q \in R
      BY Zenon, <2>0, <3>1 DEF Aligned
    <3>2. CASE q = r
      <4>1. p \in R => p.op <= r.op
        BY Zenon, <2>2
      <4>2. r.op <= r.op
        BY <2>3
      <4> QED BY Zenon, <3>2, <4>1, <4>2
    <3>3. CASE p = r /\ q \in R
      BY <2>1, <2>3, <2>4, <3>3
    <3> QED BY Zenon, <3>1, <3>2, <3>3
  <2>7. Genuine(R \cup {r}, w2)
    <3> SUFFICES ASSUME NEW q \in R \cup {r}
                 PROVE  q.op \in 1 .. Len(w2) /\ w2[q.op] = [key |-> q.key, del |-> q.del]
      BY Zenon DEF Genuine
    <3>1. CASE q \in R
      BY <2>2, <3>1
    <3>2. CASE q = r
      BY <2>3, <3>2
    <3> QED BY Zenon, <3>1, <3>2
  <2> QED BY Zenon, <2>5, <2>6, <2>7 DEF Sound
  \* A flush adds a table of records of the WAL, with the next id, to L0.
<1>SoundFlush.
    ASSUME NEW S, NEW S2, S2 \subseteq S, NEW v, NEW v2, NEW w, Sound(S, v, w),
           NEW T \in TableMeta, T.level = 0, T.recs # {}, T.recs \subseteq S,
           T.id = v.next_table_id, v2.tables = v.tables \cup {T},
           v2.next_table_id = v.next_table_id + 1,
           v.next_seq \in Nat, v2.next_seq \in Nat, v.next_seq <= v2.next_seq,
           \A r \in T.recs : r.seq < v2.next_seq
    PROVE  Sound(S2, v2, w)
  <2> USE <1>SoundFlush
  <2>1. Built(v2.tables)
    BY Zenon DEF Sound, Built
  <2>2. \A t \in v2.tables : t.id \in Nat
    BY <2>1 DEF Built, TableMeta, TableId
  <2>3. T.id \in Nat /\ \A t \in v.tables : t.id \in Nat
    BY Zenon, <2>2
  <2>4. \A t \in v.tables : t.id < T.id
    BY Zenon DEF Sound, check_invariants
  <2>5. \A t \in v2.tables : t.id < v2.next_table_id
    BY <2>3, <2>4
  <2>6. ASSUME NEW t \in v2.tables, NEW u \in v2.tables, t # u
        PROVE  /\ t.id # u.id
               /\ t.level = u.level /\ t.level > 0 =>
                     ~Overlaps(t, SmallestKey(u), LargestKey(u))
    <3>1. CASE t \in v.tables /\ u \in v.tables
      BY Zenon, <2>6, <3>1 DEF Sound, check_invariants
    <3>2. CASE t = T \/ u = T
      BY <2>3, <2>4, <2>6, <3>2
    <3> QED BY Zenon, <3>1, <3>2
  <2>7. check_invariants(v2)
    BY Zenon, <2>5, <2>6 DEF check_invariants
  <2>8. Recs(v2.tables) = Recs(v.tables) \cup T.recs
    BY Zenon DEF Recs
  <2>9. Aligned(S2 \cup Recs(v2.tables)) /\ Genuine(S2 \cup Recs(v2.tables), w)
    BY Zenon, <2>8 DEF Sound, Aligned, Genuine
  <2>10. \A r \in Recs(v.tables) : r.seq \in Nat
    BY RecordNumbers DEF Sound, Built, TableMeta, Recs
  <2>11. \A r \in Recs(v2.tables) : r.seq < v2.next_seq
    BY <2>8, <2>10 DEF Sound
  <2> QED BY Zenon, <2>1, <2>7, <2>9, <2>11 DEF Sound
  \* An append with a higher number.
<1>AppendedWal.
    ASSUME NEW f, GoodWal(f), f.hdr = "ok", f.synced \in Nat, NEW r \in InternalRecord,
           \A q \in Range(f.recs) : q.seq < r.seq,
           NEW g, g.hdr = "ok", g.synced = f.synced, g.recs = Append(f.recs, r)
    PROVE  GoodWal(g) /\ Range(g.recs) = Range(f.recs) \cup {r}
  <2> USE <1>AppendedWal
  <2>1. f.recs \in Seq(InternalRecord) /\ Len(f.recs) \in Nat
    BY Zenon, GoodWalRecs DEF GoodWal
  <2>2. /\ g.recs \in Seq(InternalRecord) /\ Len(g.recs) = Len(f.recs) + 1
        /\ \A i \in 1 .. Len(f.recs) : g.recs[i] = f.recs[i]
        /\ g.recs[Len(f.recs) + 1] = r
    BY <2>1, AppendIs
  <2>3. Range(g.recs) = Range(f.recs) \cup {r}
    BY <2>1, RangeOfAppend
  <2>4. DOMAIN f.recs = 1 .. Len(f.recs) /\ DOMAIN g.recs = 1 .. Len(f.recs) + 1
    BY Zenon, <2>1, <2>2, SeqIs
  <2>5. \A i \in DOMAIN f.recs : f.recs[i] \in Range(f.recs)
    BY Zenon DEF Range
  <2>6. Increasing(g.recs)
    <3> SUFFICES ASSUME NEW i \in DOMAIN g.recs, NEW j \in DOMAIN g.recs, i < j
                 PROVE  g.recs[i].seq < g.recs[j].seq
      BY Zenon DEF Increasing
    <3>1. i \in DOMAIN f.recs /\ g.recs[i] = f.recs[i]
      BY <2>1, <2>2, <2>4
    <3>2. CASE j \in DOMAIN f.recs
      BY Zenon, <2>2, <2>4, <3>1, <3>2 DEF GoodWal, Increasing
    <3>3. CASE j = Len(f.recs) + 1
      BY Zenon, <2>2, <2>5, <3>1, <3>3
    <3> QED BY <2>1, <2>4, <3>2, <3>3
  <2>7. g.synced <= Len(g.recs)
    BY <2>1, <2>2 DEF GoodWal
  <2> QED BY Zenon, <2>2, <2>3, <2>6, <2>7 DEF GoodWal
  \* The process ends.
<1>Down.
    ASSUME Typed, RecordInv, \A i \in WalId : GoodWal(wal'[i]),
           Recoverable' \subseteq Recoverable, issued' = issued,
           \A v \in Recoverable' : WalRecs(wal', v) \subseteq WalRecs(wal, v),
           pc' = "down", LoseMemory
    PROVE  RecordInv'
  <2> USE <1>Down
  <2>1. ~Live' /\ ~Putting' /\ ~Staging' /\ OldestFirst(imm', mem')
    BY Zenon, NothingInMemory DEF Live, Putting, Staging, LoseMemory
  <2> QED BY Zenon, <2>1, RecordServes
  \* Open fails or the process is killed: the files are untouched.
<1>Lost.
    ASSUME Typed, RecordInv, UNCHANGED <<manifest, wal, issued>>, pc' = "down", LoseMemory
    PROVE  RecordInv'
  <2> USE <1>Lost
  <2>1. Recoverable' = Recoverable /\ \A v : WalRecs(wal', v) = WalRecs(wal, v)
    BY Zenon DEF Recoverable
  <2>2. \A i \in WalId : GoodWal(wal'[i])
    BY Zenon DEF RecordInv
  <2> QED BY Zenon, <2>1, <2>2, <1>Down
  \* Opening the manifest.
<1>Open.
    ASSUME Typed, FlowInv, HeaderInv, RecordInv,
           \/ Open \/ CreateManifest \/ WriteManifestHeader \/ SyncManifestHeader
           \/ LoadManifest \/ RefuseManifest
    PROVE  RecordInv'
  <2> USE <1>Open
  <2> USE DEF Goto, files, memory, history
  <2>1. CASE RefuseManifest
    BY Zenon, <2>1, <1>Lost DEF RefuseManifest, OpenFails
  <2>2. CASE ~RefuseManifest
    <3>1. /\ wal' = wal /\ issued' = issued /\ mem' = mem /\ imm' = imm
          /\ pc \in Starting
          /\ pc' \in {"open_manifest", "manifest_header", "manifest_header_sync", "open_wal"}
      BY Zenon, <2>2 DEF Open, CreateManifest, WriteManifestHeader, SyncManifestHeader, LoadManifest,
                  Starting
    <3>2. manifest'.log = manifest.log
      <4>1. CASE CreateManifest
        BY Zenon, <4>1 DEF CreateManifest, HeaderInv
      <4>2. CASE WriteManifestHeader \/ SyncManifestHeader
        BY Zenon, <4>2 DEF WriteManifestHeader, SyncManifestHeader, Typed, TypeOK
      <4> QED BY Zenon, <2>2, <4>1, <4>2 DEF Open, LoadManifest
    <3>3. OldestFirst(imm', mem')
      BY Zenon, <3>1 DEF RecordInv
    <3>4. ~Live' /\ ~Putting' /\ ~Staging'
      BY Zenon, <3>1 DEF Live, Putting, Staging
    <3>5. Recoverable' = Recoverable /\ \A i \in WalId : GoodWal(wal'[i])
      BY Zenon, <3>1, <3>2 DEF Recoverable, RecordInv
    <3> QED BY Zenon, <3>1, <3>3, <3>4, <3>5, RecordServes
  <2> QED BY Zenon, <2>1, <2>2
  \* A step that stages an edit.
<1>Stages.
    ASSUME Typed, RecordInv, \A i \in WalId : GoodWal(wal'[i]),
           Recoverable' = Recoverable, issued' = issued,
           \A v \in Recoverable : WalRecs(wal', v) \subseteq WalRecs(wal, v),
           OldestFirst(imm', mem'), pc' \in {"replacement_sync", "append"},
           Backed(WalRecs(wal', catalog'), catalog', InMemory', next_sequence'),
           Sound(WalRecs(wal', job'.staged), job'.staged, issued),
           Backed(WalRecs(wal', job'.staged), job'.staged, After', next_sequence'),
           stage_apply(catalog', job'.staged)
    PROVE  RecordInv'
  <2> USE <1>Stages
  <2>1. \A v \in Recoverable' : Sound(WalRecs(wal', v), v, issued')
    BY Zenon, NamedWalIds, StaysSound DEF RecordInv
  <2>2. Applied' = WalRecs(wal', catalog') /\ ~Putting'
    BY Zenon DEF Applied, Putting
  <2> QED BY Zenon, <2>1, <2>2 DEF RecordInv, Putting, Staging
  \* The edit that names the rewritten WAL stages.
<1>Replay.
    ASSUME Typed, TableInv, FlowInv, WalInv, RecordInv, RecoverWal
    PROVE  RecordInv'
  <2> USE <1>Replay
  <2> DEFINE S == WalRecs(wal, catalog)
  <2>1. /\ pc = "open_wal" /\ pc' = "replacement_sync" /\ UNCHANGED <<manifest, catalog, issued>>
        /\ job'.staged.tables = catalog.tables
        /\ job'.staged.next_table_id = catalog.next_table_id
        /\ job'.staged.wal_id = catalog.wal_id + 1 /\ job'.staged.next_seq = next_sequence'
        /\ catalog.next_seq \in Nat /\ next_sequence' \in Nat
        /\ catalog.next_seq <= next_sequence' /\ \A r \in S : r.seq < next_sequence'
        /\ InMemory' = S /\ After' = S /\ OldestFirst(imm', mem')
        /\ \A i \in WalId : GoodWal(wal'[i])
        /\ \A v \in Recoverable : wal'[v.wal_id] = wal[v.wal_id]
        /\ WalRecs(wal', job'.staged) = S
    BY Zenon, ReplayMeans
  <2>2. /\ catalog \in Version /\ catalog.wal_id \in Nat /\ catalog.next_table_id \in Nat
        /\ next_sequence' <= next_sequence'
    <3>1. catalog \in Version /\ next_sequence' \in Nat
      BY Zenon, <2>1 DEF Typed, TypeOK
    <3>2. next_sequence' <= next_sequence'
      BY ONLY <3>1
    <3> QED BY Zenon, <3>1, <3>2, VersionNumbers
  <2>3. Recoverable' = Recoverable /\ \A v \in Recoverable : WalRecs(wal', v) = WalRecs(wal, v)
    BY Zenon, <2>1 DEF Recoverable, WalRecs
  <2>4. WalRecs(wal', catalog') = S
    <3>1. catalog \in Recoverable
      BY Zenon, <2>1, NamedWalIds DEF TableInv
    <3> QED BY Zenon, <2>1, <2>3, <3>1
  <2>5. Sound(S, job'.staged, issued)
    BY Zenon, <2>1, CatalogSound, SoundLess
  <2> HIDE DEF S
  <2>6. /\ Backed(WalRecs(wal', catalog'), catalog', InMemory', next_sequence')
        /\ Backed(WalRecs(wal', job'.staged), job'.staged, After', next_sequence')
    BY Zenon, <2>1, <2>2, <2>4 DEF Backed
  <2>7. stage_apply(catalog', job'.staged)
    <3>1. check_invariants(job'.staged)
      BY Zenon, <2>5 DEF Sound
    <3> QED BY <2>1, <2>2, <3>1 DEF stage_apply
  <2> QED BY Zenon, <2>1, <2>3, <2>5, <2>6, <2>7, <1>Stages
  \* The other steps of Engine::open.
<1>OpenWal.
    ASSUME Typed, RecordInv, RefuseWal \/ SyncReplacement \/ SyncReplacementFails
    PROVE  RecordInv'
  <2> USE <1>OpenWal
  <2> USE DEF Goto, files, memory, history
  <2>1. CASE RefuseWal \/ SyncReplacementFails
    BY Zenon, <2>1, <1>Lost DEF RefuseWal, SyncReplacementFails, OpenFails
  <2>2. CASE SyncReplacement
    <3>1. /\ pc = "replacement_sync" /\ pc' = "append"
          /\ UNCHANGED <<manifest, catalog, mem, imm, job, issued, next_sequence>>
          /\ wal' = [wal EXCEPT ![job.repl] = Synced(@)]
      BY Zenon, <2>2 DEF SyncReplacement
    <3>2. /\ wal \in [WalId -> WalFile] /\ \A i \in WalId : GoodWal(wal[i])
          /\ catalog \in Version /\ job.staged \in Version
      BY Zenon DEF Typed, TypeOK, Job, RecordInv
    <3>3. \A i \in WalId : wal'[i] = wal[i] \/ wal'[i] = Synced(wal[i])
      BY Zenon, <3>1, <3>2
    <3>4. /\ \A j \in WalId : GoodWal(wal'[j])
          /\ \A v \in Version : WalRecs(wal', v) = WalRecs(wal, v)
      BY Zenon, <3>2, <3>3, OneSynced
    <3>5. /\ Recoverable' = Recoverable /\ InMemory' = InMemory /\ After' = After
          /\ \A v \in Recoverable : v \in Version
      BY Zenon, <3>1, NamedWalIds DEF Recoverable, InMemory, After
    <3>6. /\ Backed(WalRecs(wal, catalog), catalog, InMemory, next_sequence)
          /\ Backed(WalRecs(wal, job.staged), job.staged, After, next_sequence)
          /\ Sound(WalRecs(wal, job.staged), job.staged, issued)
          /\ OldestFirst(imm, mem) /\ stage_apply(catalog, job.staged)
      BY Zenon, <3>1 DEF RecordInv, Live, Applied, Putting, Staging
    <3> QED BY Zenon, <3>1, <3>2, <3>4, <3>5, <3>6, <1>Stages
  <2> QED BY Zenon, <2>1, <2>2
  \* The write is appended to the WAL with the next number.
<1>PutWrite.
    ASSUME Typed, FlowInv, WalInv, RecordInv,
           NEW k \in Key, NEW del \in BOOLEAN, PutWrite(k, del)
    PROVE  RecordInv'
  <2> USE <1>PutWrite
  <2> DEFINE r == [key |-> k, seq |-> next_sequence, op |-> Len(issued) + 1, del |-> del]
             f == wal[catalog.wal_id]
             g == [f EXCEPT !.recs = Append(@, r)]
  <2>1. /\ pc = "idle" /\ writer # 0 /\ Len(issued) < MaxWrites
        /\ issued' = Append(issued, [key |-> k, del |-> del])
        /\ wal' = [wal EXCEPT ![writer].recs = Append(@, r)]
        /\ job' = [NoJob EXCEPT !.call = "put", !.rec = r]
        /\ pc' = IF SyncOnWrite THEN "put_sync" ELSE "put_apply"
        /\ UNCHANGED <<manifest, catalog, mem, imm, next_sequence>>
    BY Zenon DEF PutWrite, memory
  <2>2. /\ writer = catalog.wal_id /\ f.hdr = "ok" /\ Recoverable = {catalog}
        /\ catalog.wal_id \in WalId
    BY Zenon, <2>1, PutTarget
  <2>3. /\ issued \in Seq([key : Key, del : BOOLEAN]) /\ Len(issued) \in Nat
        /\ next_sequence \in SeqNum /\ next_sequence \in Nat
        /\ wal \in [WalId -> WalFile] /\ f \in WalFile /\ catalog \in Version
        /\ catalog.next_seq \in Nat /\ \A i \in WalId : GoodWal(wal[i])
    BY Zenon, <2>2, EngineNumbers, SeqIs DEF Typed, TypeOK, RecordInv
  <2>4. r \in InternalRecord
    <3>1. Len(issued) + 1 \in 1 .. MaxWrites
      BY <2>1, <2>3, LsmAssumption
    <3> QED BY Zenon, <2>3, <3>1 DEF InternalRecord
  <2>5. r.seq = next_sequence /\ r.op = Len(issued) + 1 /\ r.key = k /\ r.del = del
    BY Zenon
  <2>6. job'.rec = r
    BY Zenon, <2>1 DEF NoJob
  <2> HIDE DEF r
  <2>7. Backed(WalRecs(wal, catalog), catalog, InMemory, next_sequence)
    BY Zenon, <2>1 DEF RecordInv, Live, Applied, Putting
  <2>8. /\ g.recs = Append(f.recs, r) /\ g.hdr = "ok" /\ g.synced = f.synced
        /\ f.synced \in Nat
    BY Zenon, <2>2, <2>3 DEF WalFile
  <2>9. wal' = [wal EXCEPT ![catalog.wal_id] = g]
    BY Zenon, <2>1, <2>2
  <2>10. GoodWal(f) /\ \A q \in Range(f.recs) : q.seq < r.seq
    BY Zenon, <2>2, <2>3, <2>5, <2>7 DEF Backed, WalRecs
  <2> HIDE DEF g
  <2>11. GoodWal(g) /\ Range(g.recs) = Range(f.recs) \cup {r}
    BY Zenon, <2>2, <2>4, <2>8, <2>10, <1>AppendedWal
  <2>12. /\ \A j \in WalId : GoodWal(wal'[j])
         /\ wal'[catalog.wal_id] = g
    BY <2>3, <2>9, <2>11, OneWal
  <2>13. WalRecs(wal', catalog) = WalRecs(wal, catalog) \cup {r}
    BY Zenon, <2>11, <2>12 DEF WalRecs
  <2>14. Sound(WalRecs(wal, catalog), catalog, issued)
    BY Zenon, <2>2 DEF RecordInv
  <2>15. Sound(WalRecs(wal', catalog), catalog, issued')
    <3>1. /\ Len(issued') = Len(issued) + 1
          /\ \A i \in 1 .. Len(issued) : issued'[i] = issued[i]
          /\ issued'[Len(issued) + 1] = [key |-> k, del |-> del]
      BY <2>1, <2>3, AppendIs
    <3>2. ASSUME NEW q \in Recs(catalog.tables) PROVE q.seq < r.seq
      <4>1. q \in InternalRecord /\ q.seq < catalog.next_seq
        BY Zenon, <2>14 DEF Sound, Built, TableMeta, Recs
      <4>2. q.seq \in Nat
        BY Zenon, <4>1, RecordNumbers
      <4> QED BY <2>3, <2>5, <2>7, <4>1, <4>2 DEF Backed
    <3>3. \A q \in WalRecs(wal, catalog) : q.seq < r.seq
      BY Zenon, <2>5, <2>7 DEF Backed
    <3>4. WalRecs(wal, catalog) \in SUBSET InternalRecord
      BY Zenon, <2>10, GoodWalRecs DEF WalRecs
    <3>5. \A q \in WalRecs(wal, catalog) \cup Recs(catalog.tables) : q.seq < r.seq
      BY Zenon, <3>2, <3>3
    <3>6. r.op = Len(issued') /\ issued'[r.op] = [key |-> r.key, del |-> r.del]
      BY Zenon, <2>5, <3>1
    <3>7. Sound(WalRecs(wal, catalog) \cup {r}, catalog, issued')
      <4> HIDE DEF f
      <4>1. Len(issued) \in Nat /\ Len(issued') = Len(issued) + 1
        BY Zenon, <2>3, <3>1
      <4>2. \A i \in 1 .. Len(issued) : issued'[i] = issued[i]
        BY Zenon, <3>1
      <4> QED BY Zenon, <2>4, <2>14, <3>4, <3>5, <3>6, <4>1, <4>2, <1>SoundWrite
    <3> QED BY Zenon, <2>13, <3>7
  <2>16. Applied' = WalRecs(wal, catalog)
    <3>1. r \notin WalRecs(wal, catalog)
      <4>1. ~(next_sequence < next_sequence)
        BY <2>3
      <4> QED BY Zenon, <2>5, <2>7, <4>1 DEF Backed
    <3>2. Applied' = WalRecs(wal', catalog') \ {job'.rec}
      BY Zenon, <2>1 DEF Applied, Putting
    <3> QED BY Zenon, <2>1, <2>6, <2>13, <3>1, <3>2
  <2>17. Backed(Applied', catalog', InMemory', next_sequence')
    BY Zenon, <2>1, <2>7, <2>16 DEF InMemory
  <2>18. Recoverable' = {catalog} /\ job'.rec \in WalRecs(wal', catalog')
    BY Zenon, <2>1, <2>2, <2>6, <2>13 DEF Recoverable
  <2>19. ~Staging' /\ OldestFirst(imm', mem')
    BY Zenon, <2>1 DEF RecordInv, Staging
  <2> QED BY Zenon, <2>1, <2>5, <2>6, <2>12, <2>15, <2>17, <2>18, <2>19, EngineAssumption
      DEF RecordInv, Staging
  \* The sync and the insertion into the memtable.
<1>Put.
    ASSUME Typed, FlowInv, RecordInv, Fails("wal_sync") => ~SyncOnWrite,
           PutSync \/ PutSyncFails \/ PutApply
    PROVE  RecordInv'
  <2> USE <1>Put
  <2> USE DEF Goto, files, memory, history
  <2>a. /\ wal \in [WalId -> WalFile] /\ catalog \in Version
        /\ \A i \in WalId : GoodWal(wal[i])
        /\ \A v \in Recoverable : v \in Version
    BY Zenon, NamedWalIds DEF Typed, TypeOK, RecordInv
  <2>b. pc \in {"put_sync", "put_apply"} =>
          /\ Applied = WalRecs(wal, catalog) \ {job.rec}
          /\ Backed(Applied, catalog, InMemory, next_sequence)
          /\ job.rec \in WalRecs(wal, catalog) /\ job.rec.seq = next_sequence
    BY Zenon DEF RecordInv, Live, Putting, Applied
  <2>1. CASE PutSync
    <3>1. /\ pc = "put_sync" /\ pc' = "put_apply"
          /\ UNCHANGED <<manifest, catalog, mem, imm, job, issued, next_sequence>>
          /\ wal' = [wal EXCEPT ![writer] = Synced(@)]
      BY Zenon, <2>1 DEF PutSync
    <3>2. \A i \in WalId : wal'[i] = wal[i] \/ wal'[i] = Synced(wal[i])
      BY Zenon, <2>a, <3>1
    <3>3. /\ \A j \in WalId : GoodWal(wal'[j])
          /\ \A v \in Version : WalRecs(wal', v) = WalRecs(wal, v)
      BY Zenon, <2>a, <3>2, OneSynced
    <3>4. Recoverable' = Recoverable /\ InMemory' = InMemory
      BY Zenon, <3>1 DEF Recoverable, InMemory
    <3>5. Applied' = Applied
      BY Zenon, <2>a, <3>1, <3>3 DEF Applied, Putting
    <3>6. \A v \in Recoverable' : Sound(WalRecs(wal', v), v, issued')
      BY Zenon, <2>a, <3>1, <3>3, <3>4 DEF RecordInv
    <3>7. ~Staging' /\ OldestFirst(imm', mem')
      BY Zenon, <3>1 DEF RecordInv, Staging
    <3> QED BY Zenon, <2>a, <2>b, <3>1, <3>3, <3>4, <3>5, <3>6, <3>7 DEF RecordInv, Staging
  <2>2. CASE PutSyncFails
    BY Zenon, <2>2 DEF PutSyncFails, RecordInv
  <2>3. CASE PutApply
    <3>1. /\ pc = "put_apply" /\ pc' \in {"idle", "freeze"}
          /\ UNCHANGED <<manifest, wal, catalog, imm, issued>>
          /\ mem' = mem \cup {job.rec} /\ next_sequence' = next_sequence + 1
      BY Zenon, <2>3 DEF PutApply, ReturnOk
    <3>2. InMemory' = InMemory \cup {job.rec} /\ Recoverable' = Recoverable
      BY Zenon, <3>1 DEF InMemory, Recoverable
    <3>3. /\ next_sequence \in Nat /\ catalog.next_seq \in Nat
          /\ \A r \in WalRecs(wal, catalog) : r.seq \in Nat
      <4>1. WalRecs(wal, catalog) \in SUBSET InternalRecord
        BY Zenon, <2>a, NamedWalIds, GoodWalRecs DEF WalRecs
      <4> QED BY <2>a, <4>1, RecordNumbers DEF Typed, TypeOK, SeqNum, Version
    <3>4. \A r \in WalRecs(wal, catalog) : r.seq < next_sequence + 1
      BY <2>b, <3>1, <3>3 DEF Backed
    <3>5. catalog.next_seq <= next_sequence + 1
      BY <2>b, <3>1, <3>3 DEF Backed
    <3>6. Backed(WalRecs(wal', catalog'), catalog', InMemory', next_sequence')
      <4>1. InMemory' \subseteq WalRecs(wal, catalog) /\ InMemory' # {}
        BY Zenon, <2>b, <3>1, <3>2 DEF Backed
      <4> QED BY Zenon, <3>1, <3>4, <3>5, <4>1 DEF Backed
    <3>7. OldestFirst(imm', mem')
      <4>1. \A i \in DOMAIN imm : \A r \in imm[i] : r.seq < job.rec.seq
        BY Zenon, <2>b, <3>1 DEF Backed, InMemory, Range
      <4> QED BY <3>1, <4>1 DEF RecordInv, OldestFirst
    <3>8. ~Putting' /\ ~Staging'
      BY Zenon, <3>1 DEF Putting, Staging
    <3> QED BY Zenon, <2>a, <3>1, <3>2, <3>6, <3>7, <3>8, RecordServes
  <2> QED BY Zenon, <2>1, <2>2, <2>3
  \* A step that changes neither the records nor the catalog.
<1>Keeps.
    ASSUME Typed, TableInv, RecordInv, \A i \in WalId : GoodWal(wal'[i]),
           manifest'.log = manifest.log, UNCHANGED <<catalog, issued, next_sequence>>,
           \A v \in Recoverable : WalRecs(wal', v) = WalRecs(wal, v),
           OldestFirst(imm', mem'), InMemory' = InMemory,
           Live, pc \notin {"put_sync", "put_apply", "sync", "committed"},
           ~Putting', ~Staging'
    PROVE  RecordInv'
  <2> USE <1>Keeps
  <2>1. Recoverable' = Recoverable /\ catalog \in Recoverable
    BY Zenon, NamedWalIds DEF Recoverable, TableInv, Live
  <2>2. Backed(WalRecs(wal, catalog), catalog, InMemory, next_sequence)
    BY Zenon DEF RecordInv, Applied, Putting
  <2> QED BY Zenon, <2>1, <2>2, RecordServes
  \* So the records and the versions agree as before.
<1>Flush.
    ASSUME Typed, TableInv, FlowInv, WalInv, RecordInv,
           Flush \/ Freeze \/ Drained \/ FlushTable \/ FlushTableFails \/ FlushEditFails
    PROVE  RecordInv'
  <2> USE <1>Flush
  <2>1. /\ pc \in {"idle", "freeze", "drain", "flush_edit"}
        /\ pc' \in {"idle", "freeze", "drain", "flush_edit", "maybe_compact"}
        /\ UNCHANGED <<manifest, catalog, next_sequence, issued>>
        /\ OldestFirst(imm', mem') /\ InMemory' = InMemory
        /\ \A i \in WalId : GoodWal(wal'[i])
        /\ \A v \in Recoverable : wal'[v.wal_id] = wal[v.wal_id]
    BY Zenon, FlushMeans
  <2>2. /\ Live /\ ~Putting' /\ ~Staging'
        /\ pc \notin {"put_sync", "put_apply", "sync", "committed"}
        /\ \A v \in Recoverable : WalRecs(wal', v) = WalRecs(wal, v)
    BY Zenon, <2>1 DEF Live, Putting, Staging, WalRecs
  <2> QED BY Zenon, <2>1, <2>2, <1>Keeps
  \* The edit of a flush stages: its table takes the next id and the records of
  \* the oldest memtable, which are in the WAL.
<1>FlushEdit.
    ASSUME Typed, TableInv, FlowInv, WalInv, RecordInv, FlushEdit
    PROVE  RecordInv'
  <2> USE <1>FlushEdit
  <2> DEFINE staged == job'.staged
             M      == UNION Range(Tail(imm))
  <2>1. /\ pc = "flush_edit" /\ pc' = "append" /\ imm # <<>> /\ mem = {}
        /\ UNCHANGED <<manifest, catalog, mem, imm, next_sequence, issued>>
        /\ job'.kind = "flush" /\ FlushedTable \in TableMeta
        /\ staged.tables = catalog.tables \cup {FlushedTable}
        /\ staged.next_table_id = catalog.next_table_id + 1
        /\ staged.next_seq = next_sequence
    BY Zenon, FlushEditMeans
  <2>2. /\ catalog \in Version /\ wal \in [WalId -> WalFile] /\ next_sequence \in Nat
        /\ catalog.next_seq \in Nat /\ catalog.next_table_id \in Nat
        /\ \A i \in WalId : GoodWal(wal[i])
        /\ imm \in Seq(SUBSET InternalRecord)
        /\ catalog.wal_id \in WalId /\ catalog.wal_id \in Nat
    BY Zenon, EngineNumbers DEF Typed, TypeOK, RecordInv
  <2>3. /\ Backed(WalRecs(wal, catalog), catalog, InMemory, next_sequence)
        /\ OldestFirst(imm, mem)
    BY Zenon, <2>1 DEF RecordInv, Live, Applied, Putting
  <2>4. /\ Head(imm) # {} /\ Head(imm) \in SUBSET InternalRecord
        /\ UNION Range(imm) = Head(imm) \cup M
        /\ Len(imm) > 1 => M # {}
    BY Zenon, <2>1, <2>2, <2>3, OldestAndRest
  <2>5. Sound(WalRecs(wal, catalog), catalog, issued)
    BY Zenon, <2>1, CatalogSound
  <2>6. InMemory = Head(imm) \cup M /\ After' = M
    BY Zenon, <2>1, <2>4 DEF InMemory, After
  <2>7. /\ FlushedTable.level = 0 /\ FlushedTable.recs = Head(imm)
        /\ FlushedTable.id = catalog.next_table_id
    BY Zenon DEF FlushedTable
  <2>8. /\ Head(imm) \subseteq WalRecs(wal, catalog) /\ M \subseteq WalRecs(wal, catalog)
        /\ \A r \in Head(imm) : r.seq < next_sequence
        /\ \A r \in WalRecs(wal, catalog) : r.seq < next_sequence
        /\ catalog.next_seq <= next_sequence /\ next_sequence <= next_sequence
    BY <2>2, <2>3, <2>6 DEF Backed
  <2>9. ASSUME NEW S2, S2 \subseteq WalRecs(wal, catalog)
        PROVE  Sound(S2, staged, issued)
    <3> HIDE DEF staged, M
    <3>1. FlushedTable.recs # {} /\ FlushedTable.recs \subseteq WalRecs(wal, catalog)
      BY Zenon, <2>4, <2>7, <2>8
    <3>2. \A r \in FlushedTable.recs : r.seq < staged.next_seq
      BY Zenon, <2>1, <2>7, <2>8
    <3>3. staged.next_seq \in Nat /\ catalog.next_seq <= staged.next_seq
      BY Zenon, <2>1, <2>2, <2>8
    <3> QED BY Zenon, <2>1, <2>2, <2>5, <2>7, <2>9, <3>1, <3>2, <3>3, <1>SoundFlush
  <2>10. /\ \A i \in WalId : GoodWal(wal'[i])
         /\ \A v \in Recoverable : WalRecs(wal', v) = WalRecs(wal, v)
         /\ WalRecs(wal', catalog) = WalRecs(wal, catalog)
         /\ \/ WalRecs(wal', staged) = WalRecs(wal, catalog) /\ M # {}
            \/ WalRecs(wal', staged) = {} /\ M = {}
         /\ staged.wal_id >= catalog.wal_id
    <3> HIDE DEF staged
    <3>1. CASE Len(imm) > 1 /\ wal' = wal /\ staged.wal_id = catalog.wal_id
      BY <2>2, <2>4, <3>1 DEF WalRecs
    <3>2. CASE /\ Len(imm) = 1 /\ wal' = [wal EXCEPT ![catalog.wal_id + 1] = NewWal]
               /\ staged.wal_id = catalog.wal_id + 1 /\ catalog.wal_id + 1 \in WalId
      <4>1. GoodWal(NewWal) /\ Range(NewWal.recs) = {}
        BY Zenon, EmptyWal DEF NewWal
      <4>2. /\ \A j \in WalId : GoodWal(wal'[j])
            /\ \A v \in Version : v.wal_id # catalog.wal_id + 1 => wal'[v.wal_id] = wal[v.wal_id]
        BY <2>2, <3>2, <4>1, OneWal
      <4>3. Recoverable = {catalog} /\ catalog.wal_id # catalog.wal_id + 1
        BY <2>1, <2>2 DEF WalInv, Serving, Starting
      <4>4. wal'[staged.wal_id] = NewWal
        BY Zenon, <2>2, <3>2
      <4>5. M = {}
        BY <2>2, <3>2, TailOfOne DEF Range
      <4> QED BY <2>2, <3>2, <4>1, <4>2, <4>3, <4>4, <4>5 DEF WalRecs
    <3> QED BY Zenon, <3>1, <3>2, FlushEditMeans DEF staged
  <2>11. Sound(WalRecs(wal', staged), staged, issued)
    BY Zenon, <2>9, <2>10
  <2>12. Backed(WalRecs(wal', staged), staged, After', next_sequence')
    BY Zenon, <2>1, <2>6, <2>8, <2>10 DEF Backed
  <2>13. Backed(WalRecs(wal', catalog'), catalog', InMemory', next_sequence')
    BY Zenon, <2>1, <2>3, <2>10 DEF InMemory
  <2>14. stage_apply(catalog', staged)
    <3>1. check_invariants(staged)
      BY Zenon, <2>11 DEF Sound
    <3> QED BY <2>1, <2>2, <2>8, <2>10, <3>1 DEF stage_apply
  <2>15. Recoverable' = Recoverable /\ OldestFirst(imm', mem')
    BY Zenon, <2>1, <2>3 DEF Recoverable
  <2> QED BY Zenon, <2>1, <2>10, <2>11, <2>12, <2>13, <2>14, <2>15, <1>Stages
  \* So the records and the versions agree as before.
<1>CommitFails.
    ASSUME Typed, TableInv, FlowInv, WalInv, RecordInv, CommitFails, pc = "append",
           UNCHANGED manifest
    PROVE  RecordInv'
  <2> USE <1>CommitFails
  <2>1. CASE OpenFails /\ UNCHANGED wal
    BY Zenon, <2>1, <1>Lost DEF OpenFails, history
  <2>2. CASE /\ pc' = "idle" /\ UNCHANGED <<catalog, mem, imm, next_sequence, issued>>
             /\ \A i \in WalId : GoodWal(wal'[i])
             /\ \A v \in Recoverable : wal'[v.wal_id] = wal[v.wal_id]
    <3>1. /\ Live /\ ~Putting' /\ ~Staging' /\ OldestFirst(imm', mem') /\ InMemory' = InMemory
          /\ \A v \in Recoverable : WalRecs(wal', v) = WalRecs(wal, v)
      BY Zenon, <2>2 DEF Live, Putting, Staging, RecordInv, InMemory, WalRecs
    <3> QED BY Zenon, <2>2, <3>1, <1>Keeps
  <2> QED BY Zenon, <2>1, <2>2, CommitFailsMeans
  \* The MANIFEST gains the staged version, then holds it alone.
<1>Commit.
    ASSUME Typed, TableInv, FlowInv, WalInv, RecordInv, ~Fails("manifest_sync"),
           AppendEdit \/ RefuseEdit \/ AppendEditFails \/ SyncEdit \/ SyncEditFails
    PROVE  RecordInv'
  <2> USE <1>Commit
  <2> USE DEF Goto, files, memory, history
  <2>a. manifest.log \in Seq(Version) /\ job.staged \in Version
    BY Zenon DEF Typed, TypeOK, Job
  <2>b. pc \in {"append", "sync"} => Sound(WalRecs(wal, job.staged), job.staged, issued)
    BY Zenon DEF RecordInv, Staging
  <2>1. CASE AppendEdit
    <3>1. /\ pc = "append" /\ pc' = "sync"
          /\ UNCHANGED <<wal, job, catalog, mem, imm, next_sequence, issued>>
          /\ manifest'.log = Append(manifest.log, job.staged)
      BY Zenon, <2>1 DEF AppendEdit, Typed, TypeOK
    <3>2. Recoverable' = Recoverable \cup {job.staged}
      BY <2>a, <3>1, RangeOfAppend DEF Recoverable
    <3>3. \A v \in Recoverable' : Sound(WalRecs(wal', v), v, issued')
      BY Zenon, <2>b, <3>1, <3>2 DEF RecordInv
    <3>4. Applied' = Applied /\ InMemory' = InMemory /\ After' = After
      BY Zenon, <3>1 DEF Applied, Putting, InMemory, After
    <3> QED BY Zenon, <3>1, <3>3, <3>4 DEF RecordInv, Live, Putting, Staging
  <2>2. CASE RefuseEdit \/ AppendEditFails
    BY Zenon, <2>2, <1>CommitFails DEF RefuseEdit, AppendEditFails
  <2>3. CASE SyncEdit
    <3>1. /\ pc = "sync" /\ pc' = "committed"
          /\ UNCHANGED <<wal, job, mem, imm, next_sequence, issued>>
          /\ manifest'.log = <<job.staged>>
      BY Zenon, <2>3 DEF SyncEdit, SyncedManifest, TableInv
    <3>2. Recoverable' = {job.staged}
      BY Zenon, <3>1, RangeOfSingle DEF Recoverable
    <3>3. \A v \in Recoverable' : Sound(WalRecs(wal', v), v, issued')
      BY Zenon, <2>b, <3>1, <3>2
    <3>4. After' = After
      BY Zenon, <3>1 DEF InMemory, After
    <3> QED BY Zenon, <3>1, <3>3, <3>4 DEF RecordInv, Live, Putting, Staging
  <2>4. CASE SyncEditFails
    BY Zenon, <2>4 DEF SyncEditFails
  <2> QED BY Zenon, <2>1, <2>2, <2>3, <2>4
  \* After the commit the memtables are those the staged edit leaves.
<1>Committed.
    ASSUME Typed, TableInv, FlowInv, WalInv, RecordInv,
           \/ OpenCommitted \/ FlushCommitted \/ FlushCommittedFails \/ CompactCommitted
           \/ RemoveWal \/ RemoveWalFails
    PROVE  RecordInv'
  <2> USE <1>Committed
  <2> USE DEF Goto, files, memory, history
  <2>a. /\ wal \in [WalId -> WalFile] /\ catalog \in Version
        /\ \A i \in WalId : GoodWal(wal[i])
        /\ \A v \in Recoverable : v \in Version
    BY Zenon, NamedWalIds DEF Typed, TypeOK, RecordInv
  <2>b. OldestFirst(imm, mem)
    BY Zenon DEF RecordInv
  <2>c. pc = "committed" => Backed(WalRecs(wal, catalog), catalog, After, next_sequence)
    BY Zenon DEF RecordInv, Staging, FlowInv
  <2>1. ASSUME pc = "committed", UNCHANGED <<manifest, catalog, next_sequence, issued>>,
               \A i \in WalId : GoodWal(wal'[i]),
               \A v \in Version : WalRecs(wal', v) = WalRecs(wal, v),
               InMemory' = After, OldestFirst(imm', mem'), ~Putting', ~Staging'
        PROVE  RecordInv'
    <3>1. Backed(WalRecs(wal', catalog'), catalog', InMemory', next_sequence')
      <4>1. WalRecs(wal', catalog) = WalRecs(wal, catalog)
        BY Zenon, <2>1, <2>a
      <4>2. catalog' = catalog /\ next_sequence' = next_sequence /\ InMemory' = After
        BY Zenon, <2>1
      <4>3. Backed(WalRecs(wal, catalog), catalog, After, next_sequence)
        BY Zenon, <2>1, <2>c
      <4> QED BY Zenon, <4>1, <4>2, <4>3
    <3>2. Recoverable' = Recoverable
      BY Zenon, <2>1 DEF Recoverable
    <3> QED BY Zenon, <2>1, <2>a, <3>1, <3>2, RecordServes
  <2>2. CASE OpenCommitted \/ CompactCommitted
    <3>1. /\ pc = "committed" /\ UNCHANGED <<manifest, wal, catalog, next_sequence, issued>>
          /\ mem' = mem /\ imm' = imm /\ job.kind # "flush" /\ pc' \in {"remove_wal", "remove_sst"}
      BY Zenon, <2>2 DEF OpenCommitted, CompactCommitted
    <3>2. InMemory' = After /\ ~Putting' /\ ~Staging'
      BY Zenon, <3>1 DEF InMemory, After, Putting, Staging
    <3> QED BY Zenon, <2>1, <2>a, <2>b, <3>1, <3>2
  <2>3. CASE FlushCommitted \/ FlushCommittedFails
    <3>1. /\ pc = "committed" /\ UNCHANGED <<manifest, catalog, next_sequence, issued, mem>>
          /\ imm' = Tail(imm) /\ job.kind = "flush" /\ pc' \in {"drain", "remove_wal", "idle"}
          /\ wal' = wal \/ wal' = [wal EXCEPT ![writer] = Synced(@)]
      BY Zenon, <2>3 DEF FlushCommitted, FlushCommittedFails, ReturnError
    <3>2. \A i \in WalId : wal'[i] = wal[i] \/ wal'[i] = Synced(wal[i])
      BY Zenon, <2>a, <3>1
    <3>3. /\ \A j \in WalId : GoodWal(wal'[j])
          /\ \A v \in Version : WalRecs(wal', v) = WalRecs(wal, v)
      BY Zenon, <2>a, <3>2, OneSynced
    <3>4. imm # <<>> /\ imm \in Seq(SUBSET InternalRecord)
      BY Zenon, <3>1 DEF Typed, TypeOK, Pending
    <3>5. OldestFirst(imm', mem')
      BY Zenon, <2>b, <3>1, <3>4, OldestAndRest
    <3>6. InMemory' = After /\ ~Putting' /\ ~Staging'
      BY Zenon, <3>1 DEF InMemory, After, Putting, Staging
    <3> QED BY Zenon, <2>1, <3>1, <3>3, <3>5, <3>6
  <2>4. ASSUME pc = "remove_wal", pc' \in {"idle", "drain"}, \A i \in WalId : GoodWal(wal'[i]),
               \A v \in Recoverable : WalRecs(wal', v) = WalRecs(wal, v),
               UNCHANGED <<manifest, catalog, mem, imm, next_sequence, issued>>
        PROVE  RecordInv'
    <3>1. Live /\ ~Putting' /\ ~Staging' /\ InMemory' = InMemory
      BY Zenon, <2>4 DEF Live, Putting, Staging, InMemory
    <3> QED BY Zenon, <2>4, <2>b, <3>1, <1>Keeps
  <2>5. CASE RemoveWal
    <3>1. /\ pc = "remove_wal" /\ pc' \in {"idle", "drain"}
          /\ UNCHANGED <<manifest, catalog, mem, imm, next_sequence, issued>>
          /\ wal' = [wal EXCEPT ![wal_id - 1] = NoFile]
      BY Zenon, <2>5 DEF RemoveWal
    <3>2. wal_id = catalog.wal_id /\ catalog.wal_id \in Nat /\ Recoverable = {catalog}
      BY Zenon, <3>1, EngineNumbers DEF FlowInv, WalInv, Serving, Starting
    <3>3. GoodWal(NoFile)
      BY Zenon, EmptyWal DEF NoFile
    <3>4. /\ \A j \in WalId : GoodWal(wal'[j])
          /\ \A v \in Version : v.wal_id # wal_id - 1 => wal'[v.wal_id] = wal[v.wal_id]
      BY <2>a, <3>1, <3>3, OneWal
    <3>5. \A v \in Recoverable : WalRecs(wal', v) = WalRecs(wal, v)
      BY <2>a, <3>2, <3>4 DEF WalRecs
    <3> QED BY Zenon, <2>4, <3>1, <3>4, <3>5
  <2>6. CASE RemoveWalFails
    <3>1. CASE OpenFails
      BY Zenon, <2>6, <3>1, <1>Lost DEF RemoveWalFails, OpenFails
    <3>2. CASE ReturnError /\ UNCHANGED memory
      BY Zenon, <2>4, <2>6, <2>a, <3>2 DEF RemoveWalFails, ReturnError
    <3> QED BY Zenon, <2>6, <3>1, <3>2 DEF RemoveWalFails
  <2> QED BY Zenon, <2>2, <2>3, <2>5, <2>6
  \* The edit of a compaction stages.
<1>RunJob.
    ASSUME LevelFacts, Typed, TableInv, FlowInv, RecordInv, pc \in {"maybe_compact", "manual"},
           NEW plan, GoodPlan(catalog.tables, plan), NEW kind \in {"background", "manual"},
           RunJob(plan, kind)
    PROVE  RecordInv'
  <2> USE <1>RunJob
  <2> DEFINE outs == Outputs(Merged(catalog.tables, plan), plan.level + 1, catalog.next_table_id)
             staged == job'.staged
  <2>1. /\ pc' = "append" /\ job'.kind = kind
        /\ UNCHANGED <<manifest, wal, catalog, mem, imm, next_sequence, issued>>
        /\ staged.tables = (catalog.tables \ Inputs(plan)) \cup outs
        /\ staged.next_table_id = catalog.next_table_id + Cardinality(outs)
        /\ staged.next_seq = catalog.next_seq /\ staged.wal_id = catalog.wal_id
        /\ \A t \in outs : t.id <= MaxTableId
    BY Zenon, RunJobMeans DEF Compacted
  <2>2. /\ catalog.next_table_id \in Nat \ {0} /\ catalog.next_seq \in Nat
        /\ catalog.wal_id \in Nat
    BY Zenon, EngineNumbers
  <2>3. Sound(WalRecs(wal, catalog), catalog, issued)
    BY Zenon, CatalogSound
  <2>4. Sound(WalRecs(wal, catalog), staged, issued) /\ Cardinality(outs) \in Nat
    <3> HIDE DEF outs, staged
    <3>1. outs = Outputs(Merged(catalog.tables, plan), plan.level + 1, catalog.next_table_id)
      BY Zenon DEF outs
    <3>2. staged.tables = Compacted(catalog.tables, plan, catalog.next_table_id)
      BY Zenon, <2>1, <3>1 DEF Compacted
    <3> QED BY Zenon, <2>1, <2>2, <2>3, <3>1, <3>2 DEF LevelFacts, MergesStage
  <2>5. Backed(WalRecs(wal, catalog), catalog, InMemory, next_sequence) /\ OldestFirst(imm, mem)
    BY Zenon DEF RecordInv, Live, Applied, Putting
  <2> HIDE DEF outs
  <2>6. WalRecs(wal', staged) = WalRecs(wal, catalog) /\ WalRecs(wal', catalog') = WalRecs(wal, catalog)
    BY Zenon, <2>1 DEF WalRecs
  <2>7. InMemory' = InMemory /\ After' = InMemory /\ Recoverable' = Recoverable
    BY Zenon, <2>1 DEF InMemory, After, Recoverable
  <2>8. /\ Backed(WalRecs(wal', catalog'), catalog', InMemory', next_sequence')
        /\ Backed(WalRecs(wal', staged), staged, After', next_sequence')
    BY Zenon, <2>1, <2>5, <2>6, <2>7 DEF Backed
  <2>9. stage_apply(catalog', staged)
    <3>1. check_invariants(staged)
      BY Zenon, <2>4 DEF Sound
    <3> QED BY <2>1, <2>2, <2>4, <3>1 DEF stage_apply
  <2>10. \A i \in WalId : GoodWal(wal'[i])
    BY Zenon, <2>1 DEF RecordInv
  <2> QED BY Zenon, <2>1, <2>4, <2>5, <2>6, <2>7, <2>8, <2>9, <2>10, <1>Stages
  \* maybe_compact_unlocked, compact_range and run_compaction.
<1>Compaction.
    ASSUME LevelFacts, Typed, TableInv, FlowInv, RecordInv,
           \/ FlushDone \/ BackgroundCompact \/ BackgroundCompactFails
           \/ ManualSkip \/ ManualCompact \/ ManualCompactFails \/ ManualDone
           \/ (\E i \in job.obsolete : RemoveSst(i))
           \/ RemoveSstFails \/ CompactDone
           \/ (\E range \in Ranges : CompactRange(range[1], range[2]))
    PROVE  RecordInv'
  <2> USE <1>Compaction
  <2> USE DEF Goto, files, memory, history
  <2>1. CASE BackgroundCompact
    BY Zenon, <2>1, PlansGood, <1>RunJob DEF BackgroundCompact
  <2>2. CASE ManualCompact
    BY Zenon, <2>2, PlansGood, <1>RunJob DEF ManualCompact
  <2>3. ASSUME pc \in {"idle", "maybe_compact", "manual", "remove_sst"},
               pc' \in {"idle", "freeze", "maybe_compact", "manual", "remove_sst"},
               UNCHANGED <<manifest, wal, catalog, mem, imm, next_sequence, issued>>
        PROVE  RecordInv'
    <3>1. /\ Live /\ ~Putting' /\ ~Staging' /\ InMemory' = InMemory /\ OldestFirst(imm', mem')
          /\ \A i \in WalId : GoodWal(wal'[i])
      BY Zenon, <2>3 DEF Live, Putting, Staging, InMemory, RecordInv
    <3> QED BY Zenon, <2>3, <3>1, <1>Keeps
  <2>4. CASE FlushDone \/ ManualSkip \/ ManualDone \/ RemoveSstFails \/ CompactDone
    <3>1. /\ pc \in {"maybe_compact", "manual", "remove_sst"}
          /\ pc' \in {"idle", "maybe_compact", "manual", "remove_sst"}
          /\ UNCHANGED <<manifest, wal, catalog, mem, imm, next_sequence, issued>>
      BY Zenon, <2>4 DEF FlushDone, ManualSkip, ManualDone, RemoveSstFails, CompactDone,
                  ReturnOk, ReturnError
    <3> QED BY Zenon, <2>3, <3>1
  <2>5. CASE BackgroundCompactFails \/ ManualCompactFails \/ \E i \in job.obsolete : RemoveSst(i)
    <3>1. /\ pc \in {"maybe_compact", "manual", "remove_sst"} /\ pc' \in {"idle", "remove_sst"}
          /\ UNCHANGED <<manifest, wal, catalog, mem, imm, next_sequence, issued>>
      BY Zenon, <2>5 DEF BackgroundCompactFails, ManualCompactFails, JobFails, ReturnError, RemoveSst
    <3> QED BY Zenon, <2>3, <3>1
  <2>6. CASE \E range \in Ranges : CompactRange(range[1], range[2])
    <3>1. /\ pc = "idle" /\ pc' = "freeze"
          /\ UNCHANGED <<manifest, wal, catalog, mem, imm, next_sequence, issued>>
      BY Zenon, <2>6 DEF CompactRange
    <3> QED BY Zenon, <2>3, <3>1
  <2> QED BY Zenon, <2>1, <2>2, <2>4, <2>5, <2>6
  \* Engine::close.
<1>Close.
    ASSUME Typed, TableInv, RecordInv, Close \/ CloseManifest \/ CloseManifestFails \/ CloseWalFails
    PROVE  RecordInv'
  <2> USE <1>Close
  <2> USE DEF Goto, files, memory, history
  <2>a. /\ wal \in [WalId -> WalFile] /\ OldestFirst(imm, mem)
        /\ \A i \in WalId : GoodWal(wal[i])
        /\ \A v \in Recoverable : v \in Version
    BY Zenon, NamedWalIds DEF Typed, TypeOK, RecordInv
  <2>1. CASE Close \/ CloseManifestFails
    <3>1. /\ pc \in {"idle", "close_manifest"} /\ pc' \in {"idle", "close_manifest"}
          /\ UNCHANGED <<manifest, catalog, mem, imm, next_sequence, issued>>
          /\ wal' = wal \/ wal' = [wal EXCEPT ![writer] = Synced(@)]
      BY Zenon, <2>1 DEF Close, CloseManifestFails, ReturnError
    <3>2. \A i \in WalId : wal'[i] = wal[i] \/ wal'[i] = Synced(wal[i])
      BY Zenon, <2>a, <3>1
    <3>3. /\ \A j \in WalId : GoodWal(wal'[j])
          /\ \A v \in Version : WalRecs(wal', v) = WalRecs(wal, v)
      BY Zenon, <2>a, <3>2, OneSynced
    <3>4. Live /\ ~Putting' /\ ~Staging' /\ InMemory' = InMemory
      BY Zenon, <3>1 DEF Live, Putting, Staging, InMemory
    <3> QED BY Zenon, <2>a, <3>1, <3>3, <3>4, <1>Keeps
  <2>2. CASE CloseManifest \/ CloseWalFails
    <3>1. /\ pc = "close_manifest" /\ manifest' = SyncedManifest /\ wal' = wal /\ issued' = issued
      BY Zenon, <2>2 DEF CloseManifest, CloseWalFails, ReturnError
    <3>2. Recoverable' \subseteq Recoverable
      BY Zenon, <3>1, NamedWalIds, RangeOfSingle DEF SyncedManifest, Recoverable
    <3>3. \A i \in WalId : GoodWal(wal'[i])
      BY Zenon, <2>a, <3>1
    <3>4. CASE CloseManifest
      BY Zenon, <3>1, <3>2, <3>3, <3>4, <1>Down DEF CloseManifest
    <3>5. CASE CloseWalFails
      <4>1. pc' = "idle" /\ UNCHANGED <<catalog, mem, imm, next_sequence>>
        BY Zenon, <3>5 DEF CloseWalFails, ReturnError
      <4>2. Backed(WalRecs(wal, catalog), catalog, InMemory, next_sequence)
        BY Zenon, <3>1 DEF RecordInv, Live, Applied, Putting
      <4>3. ~Putting' /\ ~Staging' /\ InMemory' = InMemory
        BY Zenon, <4>1 DEF Putting, Staging, InMemory
      <4> QED BY Zenon, <2>a, <3>1, <3>2, <3>3, <4>1, <4>2, <4>3, RecordServes
    <3> QED BY Zenon, <2>2, <3>4, <3>5
  <2> QED BY Zenon, <2>1, <2>2
  \* Kills and power losses.
<1>Crash.
    ASSUME Typed, HeaderInv, RecordInv, Kill \/ PowerLoss
    PROVE  RecordInv'
  <2> USE <1>Crash
  <2>1. CASE Kill
    BY Zenon, <2>1, <1>Lost DEF Kill, files, history
  <2>2. CASE PowerLoss
    <3>1. PICK v \in Recoverable : \E g \in {wal'[v.wal_id]} :
             /\ Recoverable' = {v} /\ wal' = [wal EXCEPT ![v.wal_id] = g] /\ GoodWal(g)
             /\ \/ g.hdr # "ok"
                \/ /\ g.hdr = "ok" /\ g.synced = Len(g.recs)
                   /\ \E n \in wal[v.wal_id].synced .. Len(wal[v.wal_id].recs) :
                         g.recs = SubSeq(wal[v.wal_id].recs, 1, n)
      BY Zenon, <2>2, PowerLossMeans
    <3>2. PICK g :
             /\ Recoverable' = {v} /\ wal' = [wal EXCEPT ![v.wal_id] = g] /\ GoodWal(g)
             /\ \/ g.hdr # "ok"
                \/ /\ g.hdr = "ok" /\ g.synced = Len(g.recs)
                   /\ \E n \in wal[v.wal_id].synced .. Len(wal[v.wal_id].recs) :
                         g.recs = SubSeq(wal[v.wal_id].recs, 1, n)
      BY Zenon, <3>1
    <3>3. /\ wal \in [WalId -> WalFile] /\ v \in Version /\ v.wal_id \in WalId
          /\ \A i \in WalId : GoodWal(wal[i])
      BY Zenon, NamedWalIds DEF Typed, TypeOK, RecordInv
    <3>4. \A i \in WalId : GoodWal(wal'[i])
      BY Zenon, <3>2, <3>3, OneWal
    <3>5. wal'[v.wal_id] = g
      BY Zenon, <3>2, <3>3, OneWal
    <3>6. Range(g.recs) \subseteq Range(wal[v.wal_id].recs)
      <4>1. CASE g.hdr # "ok"
        BY Zenon, <3>2, <4>1, GoodWalRecs
      <4>2. CASE g.hdr = "ok"
        <5>1. PICK n \in wal[v.wal_id].synced .. Len(wal[v.wal_id].recs) :
                 g.recs = SubSeq(wal[v.wal_id].recs, 1, n)
          BY Zenon, <3>2, <4>2
        <5>2. wal[v.wal_id].synced \in Nat /\ GoodWal(wal[v.wal_id])
          BY Zenon, <3>3 DEF WalFile
        <5> DEFINE h == [hdr |-> "ok", recs |-> g.recs, synced |-> n]
        <5>3. h.hdr = "ok" /\ h.recs = SubSeq(wal[v.wal_id].recs, 1, n) /\ h.synced = n
          BY Zenon, <5>1
        <5>4. h.recs = g.recs
          BY Zenon
        <5> HIDE DEF h
        <5> QED BY Zenon, <5>2, <5>3, <5>4, CutWal
      <4> QED BY Zenon, <4>1, <4>2
    <3>7. \A u \in Recoverable' : WalRecs(wal', u) \subseteq WalRecs(wal, u)
      BY Zenon, <3>2, <3>5, <3>6 DEF WalRecs
    <3>8. pc' = "down" /\ LoseMemory /\ issued' = issued
      BY Zenon, <2>2 DEF PowerLoss
    <3> QED BY Zenon, <3>2, <3>4, <3>7, <3>8, <1>Down
  <2> QED BY Zenon, <2>1, <2>2
<1> SUFFICES ASSUME Typed, TableInv, FlowInv, WalInv, HeaderInv, RecordInv, [Next]_vars
             PROVE  RecordInv'
  BY Zenon
<1>1. CASE UNCHANGED vars
  BY Zenon, <1>1 DEF RecordInv, Recoverable, Live, Putting, Staging, Applied, After, InMemory,
              vars, files, memory, history
<1>2. CASE \E k \in Key, del \in BOOLEAN : PutWrite(k, del) \/ PutWriteFails(k, del)
  BY Zenon, <1>2, <1>PutWrite DEF PutWriteFails
<1> QED BY Zenon, <1>1, <1>2, <1>Open, RecordCreateWal, <1>Replay, <1>OpenWal, <1>Put,
           <1>Flush, <1>FlushEdit, <1>Commit, <1>Committed, <1>Compaction,
           <1>Close, <1>Crash
    DEF Next, EngineStep, ClientStep
=============================================================================
