------------------------------ MODULE LevelSpec ------------------------------
(***************************************************************************)
(* What the store keeps of the writes, as predicates over its data: sets   *)
(* of records and of tables, versions and WAL files.  The invariants of    *)
(* the engine's proofs are built from these.                               *)
(*                                                                         *)
(* The last section states what the engine relies on of the pure           *)
(* algorithms of Lsm.  LsmProofs proves it; the proofs about the engine    *)
(* use it as their hypothesis LevelFacts, and EngineTheorems joins them.   *)
(***************************************************************************)
EXTENDS Lsm

-----------------------------------------------------------------------------
(* Records, tables and histories. *)

\* All records of a set of tables.
Recs(tables) == UNION {t.recs : t \in tables}

Holds(t, k) == \E r \in t.recs : r.key = k

\* Every key of S comes before every key of T.
Left(S, T) == \A r \in S, q \in T : r.key < q.key

\* Tables are tables with records, as the builder and the job make them.
Built(tables) == tables \subseteq TableMeta /\ \A t \in tables : t.recs # {}

\* The tables of a level below L0 are on either side of each other.
Apart(tables) ==
    \A t, u \in tables : t # u /\ t.level = u.level /\ t.level > 0 =>
        Left(t.recs, u.recs) \/ Left(u.recs, t.recs)

\* Later writes of a key have higher sequence numbers.
Aligned(S) == \A r, q \in S : r.key = q.key /\ r.seq <= q.seq => r.op <= q.op

\* The records of S are what the writes w, in the order they were issued, wrote.
Genuine(S, w) ==
    \A r \in S : r.op \in 1 .. Len(w) /\ w[r.op] = [key |-> r.key, del |-> r.del]

\* The history w2 goes on after w.
Extends(w, w2) ==
    /\ Len(w) \in Nat /\ Len(w2) \in Nat /\ Len(w) <= Len(w2)
    /\ \A i \in 1 .. Len(w) : w2[i] = w[i]

-----------------------------------------------------------------------------
(* What a read answers. *)

\* Write op of k, or a later one, is a removal.
Removed(k, op, w) == \E i \in op .. Len(w) : w[i].key = k /\ w[i].del

\* The first table that answers for k holds write op of it or a later one; or
\* none answers, and write op or a later one is a removal.
TableFresh(tables, k, op, w) ==
    \/ op = 0
    \/ \E t \in tables : /\ \E r \in t.recs : r.key = k /\ r.op >= op
                         /\ \A u \in tables : Holds(u, k) => u = t \/ SearchedBefore(t, u)
    \/ (\A t \in tables : ~Holds(t, k)) /\ Removed(k, op, w)

\* The same of the records in memory and then the tables.
Fresh(S, tables, k, op, w) ==
    IF \E r \in S : r.key = k THEN \E r \in S : r.key = k /\ r.op >= op
    ELSE TableFresh(tables, k, op, w)

\* A read of S over the tables answers no older write of a key than d gives.
Shows(S, tables, d, w) == \A k \in Key : Fresh(S, tables, k, d[k], w)

\* So does one of any part of S that has the durable records D: records that
\* may be lost are no older than what must be kept.
Keeps(D, S, tables, p, w) ==
    /\ D \subseteq S /\ Shows(D, tables, p, w)
    /\ \A r \in S \ D : r.op >= p[r.key]

-----------------------------------------------------------------------------
(* The order in which records are searched. *)

\* For every key of both, S has the newer record.
Newer(S, T) ==
    \A r \in S, q \in T : r.key = q.key => \E p \in S : p.key = q.key /\ p.seq >= q.seq

\* A table has newer records than every table searched after it.
TableOrder(tables) ==
    \A t, u \in tables : SearchedBefore(u, t) => Newer(u.recs, t.recs)

\* S holds every record of R that is newer than one of its own.
Suffix(S, R) == \A r \in S, q \in R : r.seq <= q.seq => q \in S

\* Every immutable memtable holds records, older ones than the next and mem.
OldestFirst(s, M) ==
    \A i \in DOMAIN s :
        /\ s[i] # {}
        /\ \A r \in s[i] : /\ \A q \in M : r.seq < q.seq
                           /\ \A j \in DOMAIN s : i < j => \A q \in s[j] : r.seq < q.seq

-----------------------------------------------------------------------------
(* Versions and their WALs. *)

\* A version and a set of records of its WAL: later writes have higher numbers,
\* every record is what a write wrote, the tables are a catalog that loads, and
\* the recorded counter is above their records.
Sound(S, v, w) ==
    /\ Aligned(S \cup Recs(v.tables)) /\ Genuine(S \cup Recs(v.tables), w)
    /\ Built(v.tables) /\ check_invariants(v)
    /\ \A r \in Recs(v.tables) : r.seq < v.next_seq

Increasing(s) == \A i, j \in DOMAIN s : i < j => s[i].seq < s[j].seq

\* A WAL replays: whole records, in the order of their numbers.
GoodWal(f) ==
    /\ f.recs \in Seq(InternalRecord) /\ Increasing(f.recs)
    /\ f.synced <= Len(f.recs)
    /\ f.hdr # "ok" => f.recs = <<>>

\* The records of a WAL that a power loss leaves.
Durable(f) == Range(SubSeq(f.recs, 1, f.synced))

\* The memtables M are in the WAL's records S, which are empty when M is, and
\* the engine's next number is above S and the version's counter.
Backed(S, v, M, next) ==
    /\ M \subseteq S /\ (M = {} => S = {})
    /\ \A r \in S : r.seq < next
    /\ v.next_seq <= next

-----------------------------------------------------------------------------
(* Compactions. *)

\* A plan that may be merged: its inputs are tables of two neighbouring levels;
\* a table of the upper one that is kept shares no key with them, and one of
\* the lower one that is kept has all its keys on one side of theirs.
GoodPlan(tables, plan) ==
    /\ plan.level \in LevelId /\ plan.level + 1 \in LevelId
    /\ \A t \in plan.source : t \in tables /\ t.level = plan.level
    /\ \A t \in plan.target : t \in tables /\ t.level = plan.level + 1
    /\ \A u \in tables \ Inputs(plan) :
          /\ u.level = plan.level =>
                \A r \in u.recs, q \in Recs(plan.source) : r.key # q.key
          /\ u.level = plan.level + 1 =>
                \/ Left(u.recs, Recs(Inputs(plan)))
                \/ Left(Recs(Inputs(plan)), u.recs)

\* The tables after the job of a plan.
Merged(tables, plan) ==
    Survivors(Recs(Inputs(plan)), is_bottommost_destination(tables, plan.level + 1))
Compacted(tables, plan, first) ==
    (tables \ Inputs(plan)) \cup Outputs(Merged(tables, plan), plan.level + 1, first)

-----------------------------------------------------------------------------
(* What the engine relies on of the algorithms. *)

\* Tables of level l on either side of each other that hold the records S.
Partition(outs, S, l) ==
    /\ \A t \in outs : t.level = l /\ t.recs # {} /\ t.recs \subseteq S
    /\ \A r \in S : \E t \in outs : r \in t.recs
    /\ \A t, u \in outs : t # u => Left(t.recs, u.recs) \/ Left(u.recs, t.recs)

\* No two records have the same key.
OnePerKey(S) == \A r, q \in S : r.key = q.key => r = q

\* SmallestKey and LargestKey bound the keys of a table.
KeysInRange ==
    \A t : t.recs \in SUBSET InternalRecord /\ t.recs # {} =>
        /\ SmallestKey(t) \in Nat /\ LargestKey(t) \in Nat
        /\ \A r \in t.recs : /\ r.key \in Nat
                             /\ SmallestKey(t) <= r.key /\ r.key <= LargestKey(t)

\* NewestOf is the record of the highest sequence number.
NewestPicked ==
    \A S \in SUBSET InternalRecord : \A k : (\E r \in S : r.key = k) =>
        /\ NewestOf(S, k) \in S /\ NewestOf(S, k).key = k
        /\ \A q \in S : q.key = k => q.seq <= NewestOf(S, k).seq

\* check_invariants asks for unique ids and for levels of disjoint tables.
RangesApart ==
    \A v : Built(v.tables) =>
        (check_invariants(v) <=> /\ \A t \in v.tables : t.id < v.next_table_id
                                 /\ \A t, u \in v.tables : t.id = u.id => t = u
                                 /\ Apart(v.tables))

\* The outputs of a job partition the records that survive, and the next free
\* id is above theirs.
OutputsSplit ==
    \A S \in SUBSET InternalRecord : \A l : \A first \in Nat :
        LET outs == Outputs(S, l, first)
        IN  /\ Partition(outs, S, l)
            /\ OnePerKey(S) => \A t \in outs : t.id < first + Cardinality(outs)

\* Min picks the least number of a set (the first incomplete record of a WAL).
LeastPicked == \A S \in SUBSET Nat : S # {} => Min(S) \in S /\ \A i \in S : Min(S) <= i

\* The outputs of a job whose ids fit are tables with distinct new ids.
OutputsTyped ==
    \A recs \in SUBSET InternalRecord, l \in LevelId, first \in Nat \ {0} :
        LET outs == Outputs(recs, l, first)
        IN  /\ Cardinality(outs) \in Nat
            /\ \A t \in outs : t.id \in Nat /\ t.id >= first
            /\ \A t, u \in outs : t.id = u.id => t = u
            /\ (\A t \in outs : t.id <= MaxTableId) => outs \subseteq TableMeta

\* The scheduler merges tables of the catalog into an existing level ...
PicksTyped ==
    \A tables \in SUBSET TableMeta : should_compact(tables) =>
        LET plan == pick_compaction(tables)
        IN  /\ Inputs(plan) \subseteq tables
            /\ plan.level \in LevelId /\ plan.level + 1 \in LevelId

\* ... and leaves behind no table that the merge would hide or cut; nor does
\* compact_range.
PlansAreGood ==
    \A v : Built(v.tables) /\ check_invariants(v) =>
        /\ should_compact(v.tables) => GoodPlan(v.tables, pick_compaction(v.tables))
        /\ \A l \in LevelId, lo, hi \in Key :
              l + 1 \in LevelId /\ manual_plan(v.tables, l, lo, hi).source # {} =>
                  GoodPlan(v.tables, manual_plan(v.tables, l, lo, hi))

\* A merge leads to a version that stages and loads, ...
MergesStage ==
    \A v, v2, S, w, plan :
        LET outs == Outputs(Merged(v.tables, plan), plan.level + 1, v.next_table_id)
        IN  /\ Sound(S, v, w) /\ GoodPlan(v.tables, plan) /\ v.next_table_id \in Nat \ {0}
            /\ \A t \in outs : t.id <= MaxTableId
            /\ v2.tables = Compacted(v.tables, plan, v.next_table_id)
            /\ v2.next_table_id = v.next_table_id + Cardinality(outs)
            /\ v2.next_seq = v.next_seq
            => Sound(S, v2, w) /\ Cardinality(outs) \in Nat

\* ... changes no answer, keeps the search order that of age and adds no record.
MergesKeep ==
    \A tables, plan, w : \A first \in Nat :
        /\ Built(tables) /\ GoodPlan(tables, plan)
        /\ Aligned(Recs(tables)) /\ Genuine(Recs(tables), w)
        => LET tables2 == Compacted(tables, plan, first)
           IN  /\ \A k : \A op \in Nat :
                      TableFresh(tables, k, op, w) => TableFresh(tables2, k, op, w)
               /\ TableOrder(tables) => TableOrder(tables2)
               /\ Recs(tables2) \subseteq Recs(tables)

\* A get answers no older write than what the first holder is fresh for.
GetsAreFresh ==
    \A v, file, k, w : \A M \in SUBSET InternalRecord, op \in Nat :
        /\ Built(v.tables) /\ Aligned(M \cup Recs(v.tables))
        /\ \A t \in v.tables : file[t.id] = t.recs
        /\ Fresh(M, v.tables, k, op, w)
        => LET g == get(M, v.tables, file, k)
           IN  op = 0 \/ g.op >= op \/ (g = NotFound /\ Removed(k, op, w))

PlanFacts == KeysInRange /\ NewestPicked /\ RangesApart /\ OutputsTyped /\ OutputsSplit

LevelFacts ==
    /\ LeastPicked /\ OutputsTyped /\ PicksTyped /\ PlansAreGood
    /\ MergesStage /\ MergesKeep /\ GetsAreFresh
=============================================================================
