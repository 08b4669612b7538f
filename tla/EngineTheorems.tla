---------------------------- MODULE EngineTheorems ----------------------------
(***************************************************************************)
(* What the engine keeps, for every number of keys, levels, tables, WALs,  *)
(* writes and crashes, under the faults each theorem allows.  The facts    *)
(* about the pure algorithms meet the invariants that rest on them here.   *)
(***************************************************************************)
EXTENDS LsmProofs, OrderProofs

\* What the engine relies on of merging, picking and searching holds.
LEMMA LevelFactsHold == LevelFacts
<1>1. PlanFacts
  BY Zenon, PlanFactsHold
<1>2. MergesStage /\ MergesKeep /\ GetsAreFresh
  BY Zenon, <1>1, MergesHold
<1> QED BY Zenon, <1>1, <1>2, PlansHold DEF LevelFacts, PlanFacts

\* Typed holds in every reachable state.
LEMMA AlwaysTyped == Spec => []Typed
<1>1. Typed /\ [Next]_vars => Typed'
  BY Zenon, LevelFactsHold, TypedStep
<1> QED BY <1>1, TypedInit, PTL DEF Spec

\* Unless a sync of the MANIFEST fails, so do the invariants of the files.
LEMMA AlwaysFiles ==
    ASSUME ~Fails("manifest_sync")
    PROVE  Spec => [](TableInv /\ FlowInv /\ WalInv /\ HeaderInv)
<1>1. Typed /\ TableInv /\ [Next]_vars => TableInv'
  BY Zenon, LevelFactsHold, TableStep
<1>2. Typed /\ TableInv /\ FlowInv /\ WalInv /\ [Next]_vars => WalInv'
  BY Zenon, WalStep
<1> QED BY <1>1, <1>2, AlwaysTyped, TableInit, FlowInit, FlowStep, WalInit, HeaderInit,
           HeaderStep, PTL DEF Spec

\* The faults under which the records of a database are kept.  Tables, removals,
\* closes and appends of edits may fail; a sync of the MANIFEST, a write to a WAL
\* and the sync that a put waits for may not.
LogsReliable ==
    ~Fails("manifest_sync") /\ ~Fails("wal_write") /\ (Fails("wal_sync") => ~SyncOnWrite)

\* Under these the invariants of the records hold.
LEMMA AlwaysRecords ==
    ASSUME LogsReliable
    PROVE  Spec => [](RecordInv /\ KeepInv)
<1>1. ~Fails("manifest_sync") /\ ~Fails("wal_write") /\ (Fails("wal_sync") => ~SyncOnWrite)
  BY Zenon DEF LogsReliable
<1>2. Typed /\ TableInv /\ FlowInv /\ WalInv /\ HeaderInv /\ RecordInv /\ [Next]_vars
         => RecordInv'
  BY Zenon, <1>1, LevelFactsHold, RecordStep
<1>3. /\ Typed /\ Typed' /\ TableInv /\ FlowInv /\ WalInv /\ HeaderInv /\ RecordInv
      /\ KeepInv /\ [Next]_vars
      => KeepInv'
  BY Zenon, <1>1, LevelFactsHold, KeepStep
<1>4. Spec => [](TableInv /\ FlowInv /\ WalInv /\ HeaderInv)
  BY Zenon, <1>1, AlwaysFiles
<1> QED BY <1>2, <1>3, <1>4, AlwaysTyped, RecordInit, KeepInit, PTL DEF Spec

\* If every put waits for its sync, or no process dies, so does the invariant of
\* the order of search.
LEMMA AlwaysOrdered ==
    ASSUME LogsReliable, SyncOnWrite \/ MaxCrashes = 0
    PROVE  Spec => []OrderInv
<1>1. ~Fails("manifest_sync") /\ ~Fails("wal_write") /\ (Fails("wal_sync") => ~SyncOnWrite)
  BY Zenon DEF LogsReliable
<1>2. /\ Typed /\ Typed' /\ TableInv /\ FlowInv /\ FlowInv' /\ WalInv /\ HeaderInv
      /\ RecordInv /\ RecordInv' /\ OrderInv /\ [Next]_vars
      => OrderInv'
  BY Zenon, <1>1, LevelFactsHold, OrderStep
<1>3. Spec => [](TableInv /\ FlowInv /\ WalInv /\ HeaderInv)
  BY Zenon, <1>1, AlwaysFiles
<1>4. Spec => [](RecordInv /\ KeepInv)
  BY Zenon, AlwaysRecords
<1> QED BY <1>2, <1>3, <1>4, AlwaysTyped, OrderInit, PTL DEF Spec

-----------------------------------------------------------------------------
\* No call, failure or crash leads outside the types: in particular a flush
\* always has a memtable to retire, a recovery its replacement WAL and a
\* compaction a level below its input's (run_compaction, compact_range).
THEOREM TypeCorrect == Spec => []TypeOK
<1>1. Typed => TypeOK
  BY Zenon DEF Typed
<1> QED BY <1>1, AlwaysTyped, PTL

\* Unless a sync of the MANIFEST fails, every table that a recoverable version
\* or the catalog refers to has its file with its records: through flushes,
\* compactions, the removal of their inputs, failed table writes and removals,
\* kills and power losses (flush_oldest_immutable and run_compaction publish
\* tables before the commit and remove them after it).
THEOREM TablesStayIntact ==
    ASSUME ~Fails("manifest_sync")
    PROVE  Spec => [](TablesIntact /\ CatalogIntact)
<1>1. TableInv => TablesIntact /\ CatalogIntact
  BY Zenon DEF TableInv, TablesIntact, CatalogIntact
<1> QED BY <1>1, AlwaysFiles, PTL

\* Unless a sync of the MANIFEST fails, no step overwrites or removes the file
\* of a table that the catalog or a recoverable version refers to after it: a
\* flush or compaction writes only unused ids, and cleaning up after one removes
\* only tables nobody refers to.
THEOREM LiveTablesUntouched ==
    ASSUME ~Fails("manifest_sync")
    PROVE  Spec => NeverTouchesLiveTable
<1> DEFINE Untouched == \A v \in Range(manifest'.log) \cup {catalog'} :
              \A t \in v.tables : sst[t.id] # {} => sst'[t.id] = sst[t.id]
<1>1. TableInv /\ TableInv' /\ [Next]_vars => Untouched
  <2> SUFFICES ASSUME TableInv, TableInv', [Next]_vars PROVE Untouched
    OBVIOUS
  <2>1. CASE sst' = sst
    BY Zenon, <2>1
  <2>2. CASE UNCHANGED <<manifest, catalog>>
    <3>1. \A v \in Range(manifest'.log) \cup {catalog'} : Intact(v) /\ Intact(v)'
      BY Zenon, <2>2 DEF TableInv, Recoverable
    <3> QED BY Zenon, <3>1 DEF Intact
  <2> QED BY Zenon, <2>1, <2>2, TableFilesChangeAlone
<1>2. [][Untouched]_vars => NeverTouchesLiveTable
  BY Zenon DEF NeverTouchesLiveTable
<1> HIDE DEF Untouched
<1> QED BY <1>1, <1>2, AlwaysFiles, PTL DEF Spec

\* Unless a sync of the MANIFEST fails, every version that recovery may find
\* names a WAL that exists with a synced header, or the first WAL of a database
\* that was never flushed: open_wal and flush_oldest_immutable create and sync
\* the replacement before the edit that names it is appended, and remove the old
\* WAL only after that edit is synced.
THEOREM NamedWalsExist ==
    ASSUME ~Fails("manifest_sync")
    PROVE  Spec => []NamedWalExists
<1>1. Typed /\ WalInv => NamedWalExists
  <2>1. ~(EmptyVersion.wal_id > 1)
    BY DEF EmptyVersion
  <2> QED BY Zenon, <2>1 DEF WalInv, NamedWalExists
<1> QED BY <1>1, AlwaysTyped, AlwaysFiles, PTL

\* While the logs are reliable, Manifest::commit rejects no edit for what it says: a recovery's, a
\* flush's and a compaction's edit keep the counters monotone, the ids unique
\* and below next_table_id, and the levels below L0 disjoint, after any number
\* of flushes, compactions, failures, kills and power losses.
THEOREM EditsAlwaysStage ==
    ASSUME LogsReliable
    PROVE  Spec => []EditsStage
<1>1. RecordInv => EditsStage
  BY Zenon DEF RecordInv, EditsStage
<1> QED BY <1>1, AlwaysRecords, PTL

\* While the logs are reliable, between calls a get of any key answers with the last
\* write of it that returned ok or a later one: through freezes, flushes, any
\* number of compactions, failed calls, reopenings and crashes (Engine::get
\* returns the first hit of memtables, L0 newest first and the levels).
THEOREM ReadsAnswerAcked ==
    ASSUME LogsReliable
    PROVE  Spec => []ReadsSeeAcked
<1>1. Typed /\ TableInv /\ RecordInv /\ KeepInv => ReadsSeeAcked
  BY Zenon, LevelFactsHold, ReadsAreFresh
<1>2. Spec => [](TableInv /\ FlowInv /\ WalInv /\ HeaderInv)
  BY Zenon, AlwaysFiles DEF LogsReliable
<1> QED BY <1>1, <1>2, AlwaysTyped, AlwaysRecords, PTL

\* While the logs are reliable, whatever prefix of the MANIFEST and of the WAL it
\* names survives a power loss at any point of any call, recovering from it
\* loses no write that put with sync_on_write, flush, compact_range or close
\* promised durable.
THEOREM PromisesSurvive ==
    ASSUME LogsReliable
    PROVE  Spec => []RecoveryKeepsPromises
<1>1. Typed /\ TableInv /\ RecordInv /\ KeepInv => RecoveryKeepsPromises
  BY Zenon, LevelFactsHold, RecoveriesAreFresh
<1>2. Spec => [](TableInv /\ FlowInv /\ WalInv /\ HeaderInv)
  BY Zenon, AlwaysFiles DEF LogsReliable
<1> QED BY <1>1, <1>2, AlwaysTyped, AlwaysRecords, PTL

\* While the logs are reliable, once a write is promised no open is refused for what
\* the WAL holds: WalReader finds a whole header, no incomplete record before
\* others and no record twice.
THEOREM RecoveriesReplay ==
    ASSUME LogsReliable
    PROVE  Spec => []WalReplays
<1>1. Typed /\ RecordInv /\ KeepInv => WalReplays
  BY Zenon, WalsReplay
<1> QED BY <1>1, AlwaysTyped, AlwaysRecords, PTL

\* While the logs are reliable, and either every put waits for its sync or no
\* process dies, the order in which Engine::get searches is that of age: the
\* memtables before L0, L0 newest file first and each level before the next hold
\* for a key nothing older than what comes later, so that the first hit is the
\* newest record.  Flushes take the oldest memtable, compactions whole ranges and
\* recoveries the WAL of the version they found.
THEOREM SearchedByAge ==
    ASSUME LogsReliable, SyncOnWrite \/ MaxCrashes = 0
    PROVE  Spec => []SearchOrder
<1>1. NewestPicked
  BY Zenon, PlanFactsHold DEF PlanFacts
<1>2. Typed /\ OrderInv => SearchOrder
  BY Zenon, <1>1, SearchFollows
<1>3. Spec => []OrderInv
  BY Zenon, AlwaysOrdered
<1> QED BY <1>2, <1>3, AlwaysTyped, PTL
=============================================================================
