--------------------------------- MODULE Lsm ---------------------------------
(***************************************************************************)
(* The data of the store and the pure algorithms over it: internal         *)
(* records, the catalog (Version) the MANIFEST describes, the level        *)
(* manager's queries, the order in which a read searches the tables, the   *)
(* compaction scheduler's and compact_range's plans, and the outputs of a  *)
(* compaction job.  The engine (module Engine) is built from these.        *)
(*                                                                         *)
(* A value is represented by the number of the write that wrote it (op):   *)
(* a read tells which write it returns.  A table's metadata carries the    *)
(* records it was built from, which determine its key range and its size;  *)
(* what the file holds is the engine's variable sst.                       *)
(***************************************************************************)
EXTENDS Integers, Sequences, FiniteSets, FiniteSetsExt

CONSTANTS Key,          \* user keys; numbers, for their byte order
          NumLevels,    \* compaction.max_levels
          L0Trigger,    \* compaction.l0_file_count_trigger
          LevelRecs,    \* max_bytes_per_level, counted in records
          OutputRecs,   \* target_file_size_per_level, counted in records
          MaxTableId,   \* largest id a table file may have (32 bits in the code)
          MaxWalId,     \* largest id a WAL may have (32 bits in the code)
          MaxSeq,       \* largest sequence number (64 bits in the code)
          MaxWrites     \* how many writes clients attempt

ASSUME LsmAssumption ==
    /\ Key \subseteq Nat /\ IsFiniteSet(Key)
    /\ NumLevels \in Nat /\ NumLevels >= 2
    /\ L0Trigger \in Nat \ {0}
    /\ LevelRecs \in Nat
    /\ OutputRecs \in Nat \ {0}
    /\ MaxTableId \in Nat \ {0}
    /\ MaxWalId \in Nat \ {0}
    /\ MaxSeq \in Nat \ {0}
    /\ MaxWrites \in Nat

LevelId == 0 .. NumLevels - 1
TableId == 1 .. MaxTableId
WalId   == 1 .. MaxWalId
SeqNum  == 1 .. MaxSeq

InternalRecord == [key : Key, seq : SeqNum, op : 1 .. MaxWrites, del : BOOLEAN]

TableMeta == [id : TableId, level : LevelId, recs : SUBSET InternalRecord]

\* What replaying a prefix of the MANIFEST's edits yields.
Version == [tables : SUBSET TableMeta, next_table_id : 1 .. MaxTableId + 1,
            next_seq : SeqNum, wal_id : WalId]

EmptyVersion ==
    [tables |-> {}, next_table_id |-> 1, next_seq |-> 1, wal_id |-> 1]

-----------------------------------------------------------------------------
(* Records and tables. *)

OfKey(recs, k) == {r \in recs : r.key = k}

\* The record of the highest sequence number (internal_before: key ascending,
\* then sequence number descending).
NewestOf(recs, k) ==
    CHOOSE r \in OfKey(recs, k) : \A q \in OfKey(recs, k) : q.seq <= r.seq

SmallestKey(t) == Min({r.key : r \in t.recs})
LargestKey(t)  == Max({r.key : r \in t.recs})

ranges_overlap(lo1, hi1, lo2, hi2) == ~(hi1 < lo2) /\ ~(hi2 < lo1)

Overlaps(t, lo, hi) == ranges_overlap(SmallestKey(t), LargestKey(t), lo, hi)

Level(tables, l) == {t \in tables : t.level = l}

find_overlapping_tables(tables, l, lo, hi) ==
    {t \in Level(tables, l) : Overlaps(t, lo, hi)}

-----------------------------------------------------------------------------
(* Engine::get: the memtables first, then the levels in order; L0 newest   *)
(* table first.  The first table that holds the key answers.               *)

SearchedBefore(t, u) ==
    t.level < u.level \/ (t.level = 0 /\ u.level = 0 /\ t.id > u.id)

NotFound == [key |-> 0, seq |-> 0, op |-> 0, del |-> TRUE]

\* file[t.id] is what the table's file holds.
get(inMemory, tables, file, k) ==
    LET hits == {t \in tables : Overlaps(t, k, k) /\ OfKey(file[t.id], k) # {}}
    IN  CASE OfKey(inMemory, k) # {} -> NewestOf(inMemory, k)
          [] OfKey(inMemory, k) = {} /\ hits # {} ->
                LET first == CHOOSE t \in hits :
                                \A u \in hits \ {t} : ~SearchedBefore(u, t)
                IN  NewestOf(file[first.id], k)
          [] OTHER -> NotFound

-----------------------------------------------------------------------------
(* Manifest::stage_apply and check_invariants. *)

check_invariants(v) ==
    /\ \A t \in v.tables : t.id < v.next_table_id
    /\ \A t, u \in v.tables : t # u =>
          /\ t.id # u.id
          /\ t.level = u.level /\ t.level > 0 =>
                ~Overlaps(t, SmallestKey(u), LargestKey(u))

\* The staged version an edit leads to may be installed over v.
stage_apply(v, staged) ==
    /\ staged.next_table_id >= v.next_table_id
    /\ staged.next_seq >= v.next_seq
    /\ staged.wal_id >= v.wal_id
    /\ check_invariants(staged)

-----------------------------------------------------------------------------
(* CompactionScheduler: which tables are merged into the next level. *)

level_size(tables, l) ==
    MapThenSumSet(LAMBDA t : Cardinality(t.recs), Level(tables, l))

OverBudget(tables) ==
    {l \in 1 .. NumLevels - 2 : level_size(tables, l) > LevelRecs}

should_compact(tables) ==
    Cardinality(Level(tables, 0)) >= L0Trigger \/ OverBudget(tables) # {}

\* std::max_element over file size; of equals the smallest id.
LargestTable(tables) ==
    {t \in tables : \A u \in tables \ {t} :
        \/ Cardinality(u.recs) < Cardinality(t.recs)
        \/ Cardinality(u.recs) = Cardinality(t.recs) /\ t.id < u.id}

\* pick_level_compaction: the source tables and what they overlap below.
PlanOf(tables, l, source) ==
    [level |-> l, source |-> source,
     target |-> find_overlapping_tables(tables, l + 1,
                    Min({SmallestKey(t) : t \in source}),
                    Max({LargestKey(t) : t \in source}))]

\* Mutant: of L0 only the newest table is pushed down.
PickNewestL0(tables) ==
    IF Cardinality(Level(tables, 0)) >= L0Trigger
    THEN PlanOf(tables, 0, {t \in Level(tables, 0) :
                              \A u \in Level(tables, 0) : u.id <= t.id})
    ELSE LET l == Min(OverBudget(tables))
         IN  PlanOf(tables, l, LargestTable(Level(tables, l)))

pick_compaction(tables) ==
    IF Cardinality(Level(tables, 0)) >= L0Trigger
    THEN PlanOf(tables, 0, Level(tables, 0))
    ELSE LET l == Min(OverBudget(tables))
         IN  PlanOf(tables, l, LargestTable(Level(tables, l)))

(* Engine::compact_range widens [lo, hi] until it cuts no table of the     *)
(* source or the target level: the smallest closed range around it.        *)
ClosedRange(tables, l, a, b) ==
    \A t \in Level(tables, l) \cup Level(tables, l + 1) :
        Overlaps(t, a, b) => a <= SmallestKey(t) /\ LargestKey(t) <= b

manual_plan(tables, l, lo, hi) ==
    LET closed == {e \in Key \X Key : /\ e[1] <= lo /\ hi <= e[2]
                                      /\ ClosedRange(tables, l, e[1], e[2])}
        a == Max({e[1] : e \in closed})
        b == Min({e[2] : e \in closed})
    IN  IF find_overlapping_tables(tables, l, lo, hi) = {}
        THEN [level |-> l, source |-> {}, target |-> {}]
        ELSE [level |-> l,
              source |-> find_overlapping_tables(tables, l, a, b),
              target |-> find_overlapping_tables(tables, l + 1, a, b)]

-----------------------------------------------------------------------------
(* CompactionJob::run. *)

\* Mutant: the overlapped tables of the target level are left out.
SourceOnly(plan) == plan.source

Inputs(plan) == plan.source \cup plan.target

\* Mutant: tombstones are dropped on every level.
AlwaysBottommost(tables, l) == TRUE

is_bottommost_destination(tables, l) == \A t \in tables : t.level <= l

\* The newest record of every key; a tombstone only while older records may
\* lie below (compaction_keep_newest_record).
Survivors(recs, bottommost) ==
    {r \in recs : /\ \A q \in OfKey(recs, r.key) : q.seq <= r.seq
                  /\ ~(bottommost /\ r.del)}

\* How many outputs precede the one that r is written to.
OutputIndex(recs, r) == Cardinality({q \in recs : q.key < r.key}) \div OutputRecs

Outputs(recs, l, firstId) ==
    {[id |-> firstId + i, level |-> l,
      recs |-> {r \in recs : OutputIndex(recs, r) = i}] :
        i \in {OutputIndex(recs, r) : r \in recs}}
=============================================================================
