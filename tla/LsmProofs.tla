------------------------------ MODULE LsmProofs ------------------------------
(***************************************************************************)
(* Facts about the operators of Lsm, for every value of its constants:     *)
(* bounds of tables, the newest record of a key, the plans of the          *)
(* scheduler and of compact_range, the outputs of a job, what a merge      *)
(* keeps and what a get returns.                                           *)
(***************************************************************************)
EXTENDS LevelSpec, TLAPS, FiniteSetTheorems, WellFoundedInduction

\* Min picks the least element of a set of numbers (the level that
\* pick_compaction chooses, the first incomplete record of a WAL).
LEMMA MinOfNaturals ==
    ASSUME NEW S \in SUBSET Nat, S # {}
    PROVE  Min(S) \in S /\ \A y \in S : Min(S) <= y
<1> DEFINE R == {ss \in Nat \X Nat : ss[1] < ss[2]}
<1>1. IsWellFoundedOn(R, Nat)
  BY Zenon, NatLessThanWellFounded, Zenon DEF OpToRel
<1>2. \A y, m \in Nat : y < m => <<y, m>> \in R
  BY Zenon
<1> HIDE DEF R
<1>3. PICK m \in S : \A y \in S : ~ (<<y, m>> \in R)
  BY Zenon, <1>1, WFMin
<1>4. ASSUME NEW y \in S PROVE m <= y
  <2>1. m \in Nat /\ y \in Nat
    BY Zenon
  <2>2. ~ (y < m)
    BY Zenon, <1>2, <1>3, <2>1
  <2> QED BY <2>1, <2>2
<1> QED BY Zenon, <1>4 DEF Min

\* There are finitely many records, so every table is finite.
LEMMA RecordsFinite == IsFiniteSet(InternalRecord)
<1> DEFINE P == (Key \X SeqNum) \X ((1 .. MaxWrites) \X BOOLEAN)
           f == [p \in P |-> [key |-> p[1][1], seq |-> p[1][2],
                              op |-> p[2][1], del |-> p[2][2]]]
<1>1. IsFiniteSet(SeqNum) /\ IsFiniteSet(1 .. MaxWrites) /\ IsFiniteSet(Key)
  BY FS_Interval, LsmAssumption DEF SeqNum
<1>2. IsFiniteSet(BOOLEAN)
  <2>1. IsFiniteSet({TRUE} \cup {FALSE})
    BY Zenon, FS_Singleton, FS_Union
  <2>2. BOOLEAN = {TRUE} \cup {FALSE}
    BY Zenon
  <2> QED BY Zenon, <2>1, <2>2
<1>3. IsFiniteSet(P)
  BY Zenon, <1>1, <1>2, FS_Product
<1>4. f \in Surjection(P, InternalRecord)
  <2>1. f \in [P -> InternalRecord]
    BY Zenon DEF InternalRecord
  <2>2. ASSUME NEW r \in InternalRecord PROVE \E p \in P : f[p] = r
    <3> DEFINE p == <<<<r.key, r.seq>>, <<r.op, r.del>>>>
    <3>1. p \in P
      BY Zenon DEF InternalRecord
    <3>2. f[p] = [key |-> r.key, seq |-> r.seq, op |-> r.op, del |-> r.del]
      BY Zenon, <3>1
    <3>3. @ = r
      BY Zenon DEF InternalRecord
    <3> QED BY Zenon, <3>1, <3>2, <3>3
  <2> QED BY Zenon, <2>1, <2>2 DEF Surjection
<1> QED BY Zenon, <1>3, <1>4, FS_Surjection

\* An output's position among the outputs is a number.
LEMMA OutputIndexType ==
    ASSUME NEW recs \in SUBSET InternalRecord, NEW r \in recs
    PROVE  OutputIndex(recs, r) \in Nat
<1> DEFINE Q == {q \in recs : q.key < r.key}
<1>1. Cardinality(Q) \in Nat
  BY Zenon, RecordsFinite, FS_Subset, FS_CardinalityType
<1> HIDE DEF Q
<1>2. Cardinality(Q) \div OutputRecs \in Nat
  BY <1>1, LsmAssumption
<1> QED BY Zenon, <1>2 DEF OutputIndex, Q

\* There are finitely many outputs.
LEMMA OutputsFinite ==
    ASSUME NEW recs \in SUBSET InternalRecord, NEW l, NEW first
    PROVE  Cardinality(Outputs(recs, l, first)) \in Nat
<1> DEFINE I == {OutputIndex(recs, r) : r \in recs}
           table(i) == [id |-> first + i, level |-> l,
                        recs |-> {r \in recs : OutputIndex(recs, r) = i}]
           f == [r \in recs |-> OutputIndex(recs, r)]
           g == [i \in I |-> table(i)]
<1>1. IsFiniteSet(recs)
  BY Zenon, RecordsFinite, FS_Subset
<1>2. f \in Surjection(recs, I)
  BY Zenon DEF Surjection
<1>3. IsFiniteSet(I)
  BY Zenon, <1>1, <1>2, FS_Surjection
<1>4. g \in Surjection(I, Outputs(recs, l, first))
  BY Zenon DEF Surjection, Outputs
<1>5. IsFiniteSet(Outputs(recs, l, first))
  BY Zenon, <1>3, <1>4, FS_Surjection
<1> QED BY Zenon, <1>5, FS_CardinalityType

\* The outputs of a job whose ids fit are tables of the target level.
LEMMA OutputsType ==
    ASSUME NEW recs \in SUBSET InternalRecord, NEW l \in LevelId,
           NEW first \in Nat \ {0},
           \A t \in Outputs(recs, l, first) : t.id <= MaxTableId
    PROVE  Outputs(recs, l, first) \subseteq TableMeta
<1> SUFFICES ASSUME NEW t \in Outputs(recs, l, first) PROVE t \in TableMeta
  BY Zenon
<1>1. PICK r \in recs :
         t = [id |-> first + OutputIndex(recs, r), level |-> l,
              recs |-> {q \in recs : OutputIndex(recs, q) = OutputIndex(recs, r)}]
  BY Zenon DEF Outputs
<1>2. OutputIndex(recs, r) \in Nat
  BY Zenon, OutputIndexType
<1>3. t.id \in TableId
  BY <1>1, <1>2, LsmAssumption DEF TableId
<1> QED BY Zenon, <1>1, <1>3 DEF TableMeta

\* The ids of the outputs start at the first free id.
LEMMA OutputsFresh ==
    ASSUME NEW recs \in SUBSET InternalRecord, NEW l, NEW first \in Nat,
           NEW t \in Outputs(recs, l, first)
    PROVE  t.id \in Nat /\ t.id >= first
<1>1. PICK r \in recs :
         t = [id |-> first + OutputIndex(recs, r), level |-> l,
              recs |-> {q \in recs : OutputIndex(recs, q) = OutputIndex(recs, r)}]
  BY Zenon DEF Outputs
<1>2. OutputIndex(recs, r) \in Nat
  BY Zenon, OutputIndexType
<1> QED BY <1>1, <1>2

\* No two outputs have the same id.
LEMMA OutputsDistinct ==
    ASSUME NEW recs \in SUBSET InternalRecord, NEW l, NEW first \in Nat,
           NEW t \in Outputs(recs, l, first), NEW u \in Outputs(recs, l, first),
           t.id = u.id
    PROVE  t = u
<1>1. PICK r \in recs :
         t = [id |-> first + OutputIndex(recs, r), level |-> l,
              recs |-> {q \in recs : OutputIndex(recs, q) = OutputIndex(recs, r)}]
  BY DEF Outputs
<1>2. PICK s \in recs :
         u = [id |-> first + OutputIndex(recs, s), level |-> l,
              recs |-> {q \in recs : OutputIndex(recs, q) = OutputIndex(recs, s)}]
  BY DEF Outputs
<1>3. OutputIndex(recs, r) \in Nat /\ OutputIndex(recs, s) \in Nat
  BY Zenon, OutputIndexType
<1>4. OutputIndex(recs, r) = OutputIndex(recs, s)
  BY <1>1, <1>2, <1>3
<1> QED BY Zenon, <1>1, <1>2, <1>4

\* The scheduler's plan merges tables of the catalog into an existing level.
LEMMA PickCompactionType ==
    ASSUME NEW tables \in SUBSET TableMeta, should_compact(tables)
    PROVE  /\ Inputs(pick_compaction(tables)) \subseteq tables
           /\ pick_compaction(tables).level \in LevelId
           /\ pick_compaction(tables).level + 1 \in LevelId
<1>1. CASE Cardinality(Level(tables, 0)) >= L0Trigger
  BY <1>1, LsmAssumption
     DEF pick_compaction, PlanOf, Inputs, find_overlapping_tables, Level, LevelId
<1>2. CASE ~(Cardinality(Level(tables, 0)) >= L0Trigger)
  <2> DEFINE l == Min(OverBudget(tables))
  <2>1. OverBudget(tables) # {} /\ OverBudget(tables) \subseteq Nat
    BY <1>2, LsmAssumption DEF should_compact, OverBudget
  <2>2. l \in OverBudget(tables)
    BY Zenon, <2>1, MinOfNaturals
  <2>3. l \in Nat /\ l <= NumLevels - 2
    BY <2>2, LsmAssumption DEF OverBudget
  <2> HIDE DEF l
  <2>4. pick_compaction(tables) = PlanOf(tables, l, LargestTable(Level(tables, l)))
    BY Zenon, <1>2 DEF pick_compaction, l
  <2> QED BY <2>3, <2>4, LsmAssumption
       DEF PlanOf, Inputs, find_overlapping_tables, Level, LevelId, LargestTable
<1> QED BY Zenon, <1>1, <1>2

\* So does the plan of compact_range.
LEMMA ManualPlanType ==
    ASSUME NEW tables \in SUBSET TableMeta, NEW l, NEW lo, NEW hi
    PROVE  /\ Inputs(manual_plan(tables, l, lo, hi)) \subseteq tables
           /\ manual_plan(tables, l, lo, hi).level = l
  BY Zenon DEF manual_plan, Inputs, find_overlapping_tables, Level

-----------------------------------------------------------------------------
(* Key ranges. *)

\* A finite set of numbers has a greatest element, which Max picks (the largest
\* key of a table, the bounds of a compaction, the newest record).
LEMMA MaxOfNaturals ==
    ASSUME NEW S \in SUBSET Nat, IsFiniteSet(S), S # {}
    PROVE  Max(S) \in S /\ \A y \in S : y <= Max(S)
<1> DEFINE HasMax(T) == \E x \in T : \A y \in T : y <= x
           Bad == {T \in FiniteSubsetsOf(Nat) : T # {} /\ ~HasMax(T)}
<1>1. Bad = {}
  <2> SUFFICES ASSUME Bad # {} PROVE FALSE
    BY Zenon
  <2>1. Bad \subseteq FiniteSubsetsOf(Nat)
    BY Zenon
  <2>2. PICK T \in Bad : \A U \in Bad : ~(<<U, T>> \in StrictSubsetOrdering(Nat))
    BY Zenon, <2>1, FS_StrictSubsetOrderingWellFounded, WFMin
  <2>3. T \in SUBSET Nat /\ IsFiniteSet(T) /\ T # {} /\ ~HasMax(T)
    BY Zenon DEF FiniteSubsetsOf
  <2>4. PICK x \in T : TRUE
    BY Zenon, <2>3
  <2> DEFINE U == T \ {x}
  <2>5. U \in SUBSET Nat /\ IsFiniteSet(U) /\ U \subseteq T /\ U # T
    BY Zenon, <2>3, <2>4, FS_RemoveElement
  <2>6. <<U, T>> \in StrictSubsetOrdering(Nat)
    BY Zenon, <2>3, <2>5 DEF StrictSubsetOrdering
  <2>7. U \notin Bad
    BY Zenon, <2>2, <2>6
  <2>8. CASE U = {}
    <3>1. T = {x} /\ x \in Nat
      BY Zenon, <2>3, <2>4, <2>8
    <3> QED BY <2>3, <3>1
  <2>9. CASE U # {}
    <3>1. HasMax(U)
      BY Zenon, <2>5, <2>7, <2>9 DEF FiniteSubsetsOf
    <3>2. PICK m \in U : \A y \in U : y <= m
      BY Zenon, <3>1
    <3>3. m \in Nat /\ x \in Nat /\ m \in T
      BY Zenon, <2>3, <2>4, <2>5, <3>2
    <3>4. \A y \in T : y \in U \/ y = x
      BY Zenon
    <3>5. CASE x <= m
      BY Zenon, <2>3, <3>2, <3>3, <3>4, <3>5
    <3>6. CASE m < x
      <4>1. \A y \in T : y <= x
        <5> SUFFICES ASSUME NEW y \in T PROVE y <= x
          BY Zenon
        <5>1. y \in Nat
          BY Zenon, <2>3
        <5> QED BY <3>2, <3>3, <3>4, <3>6, <5>1
      <4> QED BY Zenon, <2>3, <2>4, <4>1
    <3> QED BY <3>3, <3>5, <3>6
  <2> QED BY Zenon, <2>8, <2>9
<1>2. HasMax(S)
  BY Zenon, <1>1 DEF FiniteSubsetsOf
<1>3. PICK x \in S : \A y \in S : y <= x
  BY Zenon, <1>2
<1>4. \A y \in S : x >= y
  BY Zenon, <1>3
<1>5. Max(S) \in S /\ \A y \in S : Max(S) >= y
  BY Zenon, <1>4 DEF Max
<1> QED BY Zenon, <1>5

\* SmallestKey and LargestKey are the bounds of a table's keys.
LEMMA KeyRange ==
    ASSUME NEW t, t.recs \in SUBSET InternalRecord, t.recs # {}
    PROVE  /\ SmallestKey(t) \in Key /\ LargestKey(t) \in Key
           /\ SmallestKey(t) \in Nat /\ LargestKey(t) \in Nat
           /\ \A r \in t.recs : /\ r.key \in Nat
                                /\ SmallestKey(t) <= r.key /\ r.key <= LargestKey(t)
           /\ \E r \in t.recs : r.key = SmallestKey(t)
           /\ \E r \in t.recs : r.key = LargestKey(t)
<1> DEFINE K == {r.key : r \in t.recs}
<1>1. K # {} /\ K \subseteq Key
  BY Zenon DEF InternalRecord
<1>2. K \in SUBSET Nat /\ IsFiniteSet(K)
  BY Zenon, <1>1, LsmAssumption, FS_Subset
<1>3. Min(K) \in K /\ \A y \in K : Min(K) <= y
  BY Zenon, <1>1, <1>2, MinOfNaturals
<1>4. Max(K) \in K /\ \A y \in K : y <= Max(K)
  BY Zenon, <1>1, <1>2, MaxOfNaturals
<1>5. SmallestKey(t) = Min(K) /\ LargestKey(t) = Max(K)
  BY Zenon DEF SmallestKey, LargestKey
<1>6. \A r \in t.recs : r.key \in K
  BY Zenon
<1>7. \A k \in K : \E r \in t.recs : r.key = k
  BY Zenon
<1> HIDE DEF K
<1> QED BY Zenon, <1>1, <1>2, <1>3, <1>4, <1>5, <1>6, <1>7

\* Two tables whose ranges do not overlap are on either side of each other.
LEMMA ApartMeans ==
    ASSUME NEW t, t.recs \in SUBSET InternalRecord, t.recs # {},
           NEW u, u.recs \in SUBSET InternalRecord, u.recs # {}
    PROVE  ~Overlaps(t, SmallestKey(u), LargestKey(u)) <=>
              Left(t.recs, u.recs) \/ Left(u.recs, t.recs)
<1>1. /\ SmallestKey(t) \in Nat /\ LargestKey(t) \in Nat
      /\ \A r \in t.recs : r.key \in Nat /\ SmallestKey(t) <= r.key /\ r.key <= LargestKey(t)
      /\ \E r \in t.recs : r.key = SmallestKey(t)
      /\ \E r \in t.recs : r.key = LargestKey(t)
  BY Zenon, KeyRange
<1>2. /\ SmallestKey(u) \in Nat /\ LargestKey(u) \in Nat
      /\ \A r \in u.recs : r.key \in Nat /\ SmallestKey(u) <= r.key /\ r.key <= LargestKey(u)
      /\ \E r \in u.recs : r.key = SmallestKey(u)
      /\ \E r \in u.recs : r.key = LargestKey(u)
  BY Zenon, KeyRange
<1>3. Left(t.recs, u.recs) <=> LargestKey(t) < SmallestKey(u)
  BY <1>1, <1>2 DEF Left
<1>4. Left(u.recs, t.recs) <=> LargestKey(u) < SmallestKey(t)
  BY <1>1, <1>2 DEF Left
<1> QED BY Zenon, <1>3, <1>4 DEF Overlaps, ranges_overlap

\* What check_invariants of the manifest means for tables with records.
LEMMA CheckInvariantsMeans ==
    ASSUME NEW v, Built(v.tables)
    PROVE  check_invariants(v) <=>
              /\ \A t \in v.tables : t.id < v.next_table_id
              /\ \A t, u \in v.tables : t.id = u.id => t = u
              /\ Apart(v.tables)
<1>1. ASSUME NEW t \in v.tables, NEW u \in v.tables
      PROVE  ~Overlaps(t, SmallestKey(u), LargestKey(u)) <=>
                Left(t.recs, u.recs) \/ Left(u.recs, t.recs)
  BY Zenon, ApartMeans DEF Built, TableMeta
<1> QED BY Zenon, <1>1 DEF check_invariants, Apart

-----------------------------------------------------------------------------
(* Reads. *)

\* NewestOf is the record of the highest sequence number.
LEMMA NewestOfMeans ==
    ASSUME NEW S \in SUBSET InternalRecord, NEW k, \E r \in S : r.key = k
    PROVE  /\ NewestOf(S, k) \in S /\ NewestOf(S, k).key = k
           /\ \A q \in S : q.key = k => q.seq <= NewestOf(S, k).seq
<1> DEFINE N == {r.seq : r \in OfKey(S, k)}
<1>1. N \in SUBSET Nat /\ \A n \in N : n <= MaxSeq
  BY LsmAssumption DEF OfKey, InternalRecord, SeqNum
<1>2. IsFiniteSet(N)
  BY Zenon, <1>1, FS_BoundedSetOfNaturals, LsmAssumption
<1>3. N # {}
  BY Zenon DEF OfKey
<1>4. Max(N) \in N /\ \A y \in N : y <= Max(N)
  BY Zenon, <1>1, <1>2, <1>3, MaxOfNaturals
<1>5. PICK r \in OfKey(S, k) : r.seq = Max(N)
  BY Zenon, <1>4
<1>6. \A q \in OfKey(S, k) : q.seq \in N
  BY Zenon
<1> HIDE DEF N
<1>7. \A q \in OfKey(S, k) : q.seq <= r.seq
  BY Zenon, <1>4, <1>5, <1>6
<1>8. NewestOf(S, k) \in OfKey(S, k) /\ \A q \in OfKey(S, k) : q.seq <= NewestOf(S, k).seq
  BY Zenon, <1>7 DEF NewestOf
<1> QED BY Zenon, <1>8 DEF OfKey

-----------------------------------------------------------------------------
(* Plans. *)

\* A table outside the range of the sources is on one side of them and of the
\* tables of its level that overlap the range.
LEMMA OutsideRange ==
    ASSUME NEW tables, Built(tables), Apart(tables), NEW l \in Nat,
           NEW a \in Nat, NEW b \in Nat, NEW source \in SUBSET tables,
           \A t \in source : \A r \in t.recs : a <= r.key /\ r.key <= b,
           NEW u \in Level(tables, l + 1), ~Overlaps(u, a, b)
    PROVE  LET all == source \cup find_overlapping_tables(tables, l + 1, a, b)
           IN  Left(u.recs, Recs(all)) \/ Left(Recs(all), u.recs)
<1> DEFINE target == find_overlapping_tables(tables, l + 1, a, b)
<1>1. /\ SmallestKey(u) \in Nat /\ LargestKey(u) \in Nat
      /\ \A r \in u.recs : r.key \in Nat /\ SmallestKey(u) <= r.key /\ r.key <= LargestKey(u)
      /\ \E r \in u.recs : r.key = SmallestKey(u)
      /\ \E r \in u.recs : r.key = LargestKey(u)
  BY Zenon, KeyRange DEF Built, Level, TableMeta
<1>2. \A t \in source : \A q \in t.recs : q.key \in Nat
  BY Zenon, KeyRange DEF Built, TableMeta
<1>3. ASSUME NEW t \in target
      PROVE  /\ SmallestKey(t) \in Nat /\ LargestKey(t) \in Nat
             /\ SmallestKey(t) <= b /\ a <= LargestKey(t)
             /\ \E r \in t.recs : r.key = SmallestKey(t)
             /\ \E r \in t.recs : r.key = LargestKey(t)
             /\ Left(u.recs, t.recs) \/ Left(t.recs, u.recs)
  <2>1. t \in tables /\ t.level = l + 1 /\ Overlaps(t, a, b)
    BY Zenon DEF find_overlapping_tables, Level
  <2>2. /\ SmallestKey(t) \in Nat /\ LargestKey(t) \in Nat
        /\ \E r \in t.recs : r.key = SmallestKey(t)
        /\ \E r \in t.recs : r.key = LargestKey(t)
    BY Zenon, <2>1, KeyRange DEF Built, TableMeta
  <2>3. u # t /\ u \in tables /\ u.level = t.level /\ t.level > 0
    BY <2>1 DEF Level
  <2>4. Left(u.recs, t.recs) \/ Left(t.recs, u.recs)
    BY Zenon, <2>1, <2>3 DEF Apart
  <2> QED BY <2>1, <2>2, <2>4 DEF Overlaps, ranges_overlap
<1>4. CASE LargestKey(u) < a
  <2>1. ASSUME NEW t \in target PROVE Left(u.recs, t.recs)
    <3>1. ASSUME Left(t.recs, u.recs) PROVE FALSE
      <4>1. LargestKey(t) < LargestKey(u)
        BY Zenon, <1>1, <1>3, <3>1 DEF Left
      <4> QED BY <1>1, <1>3, <1>4, <4>1
    <3> QED BY Zenon, <1>3, <3>1
  <2>2. ASSUME NEW t \in source PROVE Left(u.recs, t.recs)
    BY <1>1, <1>2, <1>4 DEF Left
  <2>3. Left(u.recs, Recs(source \cup target))
    BY Zenon, <2>1, <2>2 DEF Left, Recs
  <2> QED BY Zenon, <2>3
<1>5. CASE b < SmallestKey(u)
  <2>1. ASSUME NEW t \in target PROVE Left(t.recs, u.recs)
    <3>1. ASSUME Left(u.recs, t.recs) PROVE FALSE
      <4>1. SmallestKey(u) < SmallestKey(t)
        BY Zenon, <1>1, <1>3, <3>1 DEF Left
      <4> QED BY <1>1, <1>3, <1>5, <4>1
    <3> QED BY Zenon, <1>3, <3>1
  <2>2. ASSUME NEW t \in source PROVE Left(t.recs, u.recs)
    BY <1>1, <1>2, <1>5 DEF Left
  <2>3. Left(Recs(source \cup target), u.recs)
    BY Zenon, <2>1, <2>2 DEF Left, Recs
  <2> QED BY Zenon, <2>3
<1>6. LargestKey(u) < a \/ b < SmallestKey(u)
  BY Zenon DEF Overlaps, ranges_overlap
<1> QED BY Zenon, <1>4, <1>5, <1>6

\* PlanOf merges its sources with what they overlap below.
LEMMA PlanOfGood ==
    ASSUME NEW tables, Built(tables), Apart(tables),
           NEW l \in LevelId, l + 1 \in LevelId,
           NEW source \in SUBSET Level(tables, l), source # {},
           \A u \in Level(tables, l) \ source :
              \A r \in u.recs, q \in Recs(source) : r.key # q.key
    PROVE  GoodPlan(tables, PlanOf(tables, l, source))
<1> DEFINE A == {SmallestKey(t) : t \in source}
           B == {LargestKey(t) : t \in source}
           a == Min(A)
           b == Max(B)
           target == find_overlapping_tables(tables, l + 1, a, b)
<1>0. source \in SUBSET tables /\ \A t \in source : t.level = l
  BY Zenon DEF Level
<1>1. \A t \in source : /\ SmallestKey(t) \in Key /\ LargestKey(t) \in Key
                        /\ SmallestKey(t) \in Nat /\ LargestKey(t) \in Nat
                        /\ \A r \in t.recs : /\ r.key \in Nat /\ SmallestKey(t) <= r.key
                                             /\ r.key <= LargestKey(t)
  BY Zenon, <1>0, KeyRange DEF Built, TableMeta
<1>2. A # {} /\ A \in SUBSET Nat
  BY Zenon, <1>1
<1>3. B # {} /\ B \in SUBSET Nat /\ IsFiniteSet(B)
  <2>1. B \in SUBSET Key /\ B \in SUBSET Nat /\ B # {}
    BY Zenon, <1>1
  <2> HIDE DEF B
  <2> QED BY Zenon, <2>1, FS_Subset, LsmAssumption
<1>4. a \in Nat /\ \A t \in source : a <= SmallestKey(t)
  <2>1. \A t \in source : SmallestKey(t) \in A
    BY Zenon
  <2> HIDE DEF A
  <2>2. a \in A /\ \A y \in A : a <= y
    BY Zenon, <1>2, MinOfNaturals
  <2> QED BY Zenon, <1>2, <2>1, <2>2
<1>5. b \in Nat /\ \A t \in source : LargestKey(t) <= b
  <2>1. \A t \in source : LargestKey(t) \in B
    BY Zenon
  <2> HIDE DEF B
  <2>2. b \in B /\ \A y \in B : y <= b
    BY Zenon, <1>3, MaxOfNaturals
  <2> QED BY Zenon, <1>3, <2>1, <2>2
<1>6. PlanOf(tables, l, source) = [level |-> l, source |-> source, target |-> target]
  BY Zenon DEF PlanOf
<1> HIDE DEF a, b
<1>7. \A t \in source : \A r \in t.recs : a <= r.key /\ r.key <= b
  BY <1>1, <1>4, <1>5
<1>8. l \in Nat
  BY LsmAssumption DEF LevelId
<1>9. \A t \in target : t \in tables /\ t.level = l + 1
  BY Zenon DEF find_overlapping_tables, Level
<1>10. ASSUME NEW u \in tables \ (source \cup target), u.level = l + 1
       PROVE  \/ Left(u.recs, Recs(source \cup target))
              \/ Left(Recs(source \cup target), u.recs)
  <2>1. u \in Level(tables, l + 1) /\ ~Overlaps(u, a, b)
    BY Zenon, <1>10 DEF find_overlapping_tables, Level
  <2> QED BY Zenon, <1>0, <1>4, <1>5, <1>7, <1>8, <2>1, OutsideRange
<1>11. ASSUME NEW u \in tables \ (source \cup target), u.level = l
       PROVE  \A r \in u.recs, q \in Recs(source) : r.key # q.key
  BY Zenon, <1>11 DEF Level
<1> HIDE DEF target
<1> DEFINE plan == PlanOf(tables, l, source)
<1>12. plan.level = l /\ plan.source = source /\ plan.target = target
  BY <1>6
<1> HIDE DEF plan
<1> QED BY Zenon, <1>0, <1>9, <1>10, <1>11, <1>12 DEF GoodPlan, Inputs, plan

\* A level that is over its budget has tables.
LEMMA EmptyLevel ==
    ASSUME NEW tables, NEW l, Level(tables, l) = {}
    PROVE  level_size(tables, l) = 0
<1> DEFINE F(g) == [s \in SUBSET {} |-> IF s = {} THEN 0
                     ELSE LET x == CHOOSE y \in s : TRUE IN Cardinality(x.recs) + g[s \ {x}]]
           f == CHOOSE g : g = F(g)
<1>1. \A g : F(g) = [s \in SUBSET {} |-> 0]
  BY Zenon
<1>2. \E g : g = F(g)
  BY Zenon, <1>1
<1>3. f = F(f)
  BY Zenon, <1>2, Zenon
<1>4. f[{}] = 0
  BY Zenon, <1>1, <1>3
<1>5. level_size(tables, l) = f[{}]
  BY Zenon DEF level_size, MapThenSumSet, MapThenFoldSet
<1> QED BY Zenon, <1>4, <1>5

\* A level with tables has a largest one.
LEMMA LargestTableExists ==
    ASSUME NEW T \in SUBSET TableMeta, T # {},
           \A t, u \in T : t.id = u.id => t = u
    PROVE  \E t \in T : LargestTable(T) = {t}
<1> DEFINE size(t) == Cardinality(t.recs)
           Sizes == {size(t) : t \in T}
           Big == {t \in T : size(t) = Max(Sizes)}
           Ids == {t.id : t \in Big}
<1>1. \A t \in T : size(t) \in Nat /\ size(t) <= Cardinality(InternalRecord)
  <2> SUFFICES ASSUME NEW t \in T
               PROVE  size(t) \in Nat /\ size(t) <= Cardinality(InternalRecord)
    BY Zenon
  <2>1. t.recs \in SUBSET InternalRecord
    BY Zenon DEF TableMeta
  <2> QED BY Zenon, <2>1, RecordsFinite, FS_Subset, FS_CardinalityType
<1>2. Cardinality(InternalRecord) \in Nat
  BY Zenon, RecordsFinite, FS_CardinalityType
<1> HIDE DEF size
<1>3. Sizes \in SUBSET Nat /\ Sizes # {} /\ IsFiniteSet(Sizes)
  <2>1. Sizes \in SUBSET Nat /\ Sizes # {} /\ \A n \in Sizes : n <= Cardinality(InternalRecord)
    BY Zenon, <1>1
  <2> HIDE DEF Sizes
  <2> QED BY Zenon, <1>2, <2>1, FS_BoundedSetOfNaturals
<1>4. Max(Sizes) \in Sizes /\ \A y \in Sizes : y <= Max(Sizes)
  <2> HIDE DEF Sizes
  <2> QED BY Zenon, <1>3, MaxOfNaturals
<1> DEFINE m == Max(Sizes)
<1>5. \E t \in T : size(t) = m
  BY Zenon, <1>4
<1>6. m \in Nat /\ \A t \in T : size(t) <= m
  BY Zenon, <1>3, <1>4
<1> HIDE DEF m, Sizes
<1>7. Big # {} /\ \A t \in Big : t \in T /\ size(t) = m
  BY Zenon, <1>5 DEF m
<1>a. \A t \in T : t.id \in Nat
  BY DEF TableMeta, TableId
<1>8. Ids \in SUBSET Nat /\ Ids # {}
  BY <1>7, <1>a
<1>9. PICK t \in Big : \A u \in Big : t.id <= u.id
  <2>1. \A u \in Big : u.id \in Ids
    BY Zenon
  <2>2. \A i \in Ids : \E u \in Big : u.id = i
    BY Zenon
  <2> HIDE DEF Ids, Big
  <2>3. Min(Ids) \in Ids /\ \A y \in Ids : Min(Ids) <= y
    BY Zenon, <1>8, MinOfNaturals
  <2> QED BY <2>1, <2>2, <2>3
<1>b. t \in T /\ size(t) = m
  BY Zenon, <1>7
<1>c. \A u \in T : size(u) = m => u \in Big
  BY Zenon DEF m
<1> HIDE DEF Big, Ids
<1>10. ASSUME NEW u \in T, u # t
       PROVE  size(u) < size(t) \/ (size(u) = size(t) /\ t.id < u.id)
  <2>1. size(u) \in Nat /\ size(u) <= m /\ m \in Nat /\ u.id \in Nat /\ t.id \in Nat
    BY Zenon, <1>1, <1>6, <1>a, <1>b
  <2>2. CASE size(u) = m
    <3>1. t.id <= u.id /\ t.id # u.id
      BY Zenon, <1>9, <1>b, <1>c, <1>10, <2>2
    <3> QED BY <1>b, <2>1, <2>2, <3>1
  <2>3. CASE size(u) # m
    BY <1>b, <2>1, <2>3
  <2> QED BY Zenon, <2>2, <2>3
<1>11. t \in LargestTable(T)
  BY Zenon, <1>b, <1>10 DEF LargestTable, size
<1>12. ASSUME NEW u \in LargestTable(T) PROVE u = t
  <2>1. u \in T /\ (u # t => \/ size(t) < size(u)
                             \/ size(t) = size(u) /\ u.id < t.id)
    BY Zenon, <1>b DEF LargestTable, size
  <2>2. size(u) \in Nat /\ size(t) \in Nat /\ u.id \in Nat /\ t.id \in Nat
    BY Zenon, <1>1, <1>a, <1>b, <2>1
  <2> QED BY <1>10, <2>1, <2>2
<1> QED BY Zenon, <1>b, <1>11, <1>12

\* The scheduler picks good plans.
LEMMA PickCompactionGood ==
    ASSUME NEW v, Built(v.tables), check_invariants(v), should_compact(v.tables)
    PROVE  GoodPlan(v.tables, pick_compaction(v.tables))
<1> DEFINE tables == v.tables
<1>0. Apart(tables) /\ \A t, u \in tables : t.id = u.id => t = u
  BY Zenon, CheckInvariantsMeans
<1> HIDE DEF tables
<1>a. Built(tables) /\ should_compact(tables)
  BY Zenon DEF tables
<1>1. CASE Cardinality(Level(tables, 0)) >= L0Trigger
  <2>1. Level(tables, 0) # {}
    BY <1>1, FS_EmptySet, LsmAssumption
  <2>2. 0 \in LevelId /\ 0 + 1 \in LevelId
    BY LsmAssumption DEF LevelId
  <2>3. pick_compaction(tables) = PlanOf(tables, 0, Level(tables, 0))
    BY Zenon, <1>1 DEF pick_compaction
  <2>4. GoodPlan(tables, PlanOf(tables, 0, Level(tables, 0)))
    BY Zenon, <1>0, <1>a, <2>1, <2>2, PlanOfGood
  <2> QED BY Zenon, <2>3, <2>4 DEF tables
<1>2. CASE ~(Cardinality(Level(tables, 0)) >= L0Trigger)
  <2> DEFINE l == Min(OverBudget(tables))
             T == Level(tables, l)
  <2>1. OverBudget(tables) # {} /\ OverBudget(tables) \subseteq Nat
    BY <1>2, <1>a, LsmAssumption DEF should_compact, OverBudget
  <2>2. l \in OverBudget(tables)
    BY Zenon, <2>1, MinOfNaturals
  <2>3. l \in Nat /\ l >= 1 /\ l <= NumLevels - 2 /\ level_size(tables, l) > LevelRecs
    BY <2>2, LsmAssumption DEF OverBudget
  <2> HIDE DEF l
  <2>4. T # {}
    BY <2>3, EmptyLevel, LsmAssumption
  <2>5. PICK t \in T : LargestTable(T) = {t}
    <3>1. T \in SUBSET TableMeta /\ \A x, y \in T : x.id = y.id => x = y
      BY Zenon, <1>0, <1>a DEF Level, Built
    <3> QED BY Zenon, <2>4, <3>1, LargestTableExists
  <2>6. ASSUME NEW u \in T \ {t}
        PROVE  \A r \in u.recs, q \in Recs({t}) : r.key # q.key
    <3>1. /\ u \in tables /\ t \in tables /\ u # t
          /\ u.level = t.level /\ u.level > 0
      BY <2>3 DEF Level
    <3>2. Left(u.recs, t.recs) \/ Left(t.recs, u.recs)
      BY Zenon, <1>0, <3>1 DEF Apart
    <3>3. /\ \A r \in u.recs : r.key \in Nat
          /\ \A r \in t.recs : r.key \in Nat
      BY Zenon, <1>a, <3>1, KeyRange DEF Built, TableMeta
    <3> QED BY <3>2, <3>3 DEF Left, Recs
  <2>7. l \in LevelId /\ l + 1 \in LevelId
    BY <2>3, LsmAssumption DEF LevelId
  <2>8. GoodPlan(tables, PlanOf(tables, l, {t}))
    BY Zenon, <1>0, <1>a, <2>6, <2>7, PlanOfGood
  <2>9. pick_compaction(tables) = PlanOf(tables, l, {t})
    BY Zenon, <1>2, <2>5 DEF pick_compaction, l
  <2> QED BY Zenon, <2>8, <2>9 DEF tables
<1> QED BY Zenon, <1>1, <1>2

\* The intersection of two ranges that cut no table cuts none.
LEMMA ClosedIntersection ==
    ASSUME NEW tables, Built(tables), NEW l,
           NEW a \in Nat, NEW b \in Nat, NEW c \in Nat, NEW d \in Nat,
           c <= a, d <= b, ClosedRange(tables, l, a, b), ClosedRange(tables, l, c, d)
    PROVE  ClosedRange(tables, l, a, d)
<1> SUFFICES ASSUME NEW t \in Level(tables, l) \cup Level(tables, l + 1), Overlaps(t, a, d)
             PROVE  a <= SmallestKey(t) /\ LargestKey(t) <= d
  BY Zenon DEF ClosedRange
<1>1. SmallestKey(t) \in Nat /\ LargestKey(t) \in Nat
  BY Zenon, KeyRange DEF Built, TableMeta, Level
<1>2. a <= LargestKey(t) /\ SmallestKey(t) <= d
  BY <1>1 DEF Overlaps, ranges_overlap
<1>3. Overlaps(t, a, b) /\ Overlaps(t, c, d)
  BY <1>1, <1>2 DEF Overlaps, ranges_overlap
<1> QED BY Zenon, <1>3 DEF ClosedRange

\* The ranges around [lo, hi] that cut no table, and their intersection.
Closed(tables, l, lo, hi) ==
    {e \in Key \X Key : /\ e[1] <= lo /\ hi <= e[2]
                        /\ ClosedRange(tables, l, e[1], e[2])}
WidenedLo(tables, l, lo, hi) == Max({e[1] : e \in Closed(tables, l, lo, hi)})
WidenedHi(tables, l, lo, hi) == Min({e[2] : e \in Closed(tables, l, lo, hi)})

\* compact_range widens its range to one that cuts no table.
LEMMA WidenedRange ==
    ASSUME NEW tables, Built(tables), NEW l, NEW lo \in Key, NEW hi \in Key
    PROVE  LET a == WidenedLo(tables, l, lo, hi)
               b == WidenedHi(tables, l, lo, hi)
           IN  a \in Nat /\ b \in Nat /\ ClosedRange(tables, l, a, b)
<1> DEFINE closed == Closed(tables, l, lo, hi)
           A == {e[1] : e \in closed}
           B == {e[2] : e \in closed}
           first == Min(Key)
           last == Max(Key)
<1>0. Key \in SUBSET Nat /\ Key # {} /\ IsFiniteSet(Key)
  BY Zenon, LsmAssumption
<1>1. first \in Key /\ \A k \in Key : first <= k
  BY Zenon, <1>0, MinOfNaturals
<1>2. last \in Key /\ \A k \in Key : k <= last
  BY Zenon, <1>0, MaxOfNaturals
<1> HIDE DEF first, last
<1>3. ClosedRange(tables, l, first, last)
  <2> SUFFICES ASSUME NEW t \in Level(tables, l) \cup Level(tables, l + 1)
               PROVE  first <= SmallestKey(t) /\ LargestKey(t) <= last
    BY Zenon DEF ClosedRange
  <2>1. SmallestKey(t) \in Key /\ LargestKey(t) \in Key
    BY Zenon, KeyRange DEF Built, TableMeta, Level
  <2> QED BY Zenon, <1>1, <1>2, <2>1
<1>4. <<first, last>> \in closed
  BY Zenon, <1>1, <1>2, <1>3 DEF Closed
<1>5. \A e \in closed : /\ e[1] \in Nat /\ e[2] \in Nat /\ e[1] \in Key /\ e[2] \in Key
                        /\ ClosedRange(tables, l, e[1], e[2])
  BY Zenon, <1>0 DEF Closed
<1> HIDE DEF closed
<1>6. A \in SUBSET Nat /\ A # {} /\ IsFiniteSet(A)
  <2>1. A \in SUBSET Key /\ A # {}
    BY Zenon, <1>4, <1>5
  <2> HIDE DEF A
  <2> QED BY Zenon, <1>0, <2>1, FS_Subset
<1>7. B \in SUBSET Nat /\ B # {}
  BY Zenon, <1>4, <1>5
<1>8. PICK e \in closed : \A x \in closed : x[1] <= e[1] /\ e[1] = Max(A)
  <2>1. \A x \in closed : x[1] \in A
    BY Zenon
  <2>2. \A y \in A : \E x \in closed : x[1] = y
    BY Zenon
  <2> HIDE DEF A
  <2>3. Max(A) \in A /\ \A y \in A : y <= Max(A)
    BY Zenon, <1>6, MaxOfNaturals
  <2> QED BY Zenon, <2>1, <2>2, <2>3
<1>9. PICK f \in closed : \A x \in closed : f[2] <= x[2] /\ f[2] = Min(B)
  <2>1. \A x \in closed : x[2] \in B
    BY Zenon
  <2>2. \A y \in B : \E x \in closed : x[2] = y
    BY Zenon
  <2> HIDE DEF B
  <2>3. Min(B) \in B /\ \A y \in B : Min(B) <= y
    BY Zenon, <1>7, MinOfNaturals
  <2> QED BY Zenon, <2>1, <2>2, <2>3
<1>10. f[1] <= e[1] /\ f[2] <= e[2]
  BY Zenon, <1>8, <1>9
<1>11. ClosedRange(tables, l, e[1], f[2])
  BY <1>5, <1>10, ClosedIntersection
<1>12. Max(A) \in Nat /\ Min(B) \in Nat /\ ClosedRange(tables, l, Max(A), Min(B))
  BY Zenon, <1>5, <1>8, <1>9, <1>11
<1> QED BY Zenon, <1>12 DEF closed, WidenedLo, WidenedHi

\* compact_range picks good plans.
LEMMA ManualPlanGood ==
    ASSUME NEW v, Built(v.tables), check_invariants(v),
           NEW l \in LevelId, l + 1 \in LevelId, NEW lo \in Key, NEW hi \in Key,
           manual_plan(v.tables, l, lo, hi).source # {}
    PROVE  GoodPlan(v.tables, manual_plan(v.tables, l, lo, hi))
<1> DEFINE tables == v.tables
           a == WidenedLo(tables, l, lo, hi)
           b == WidenedHi(tables, l, lo, hi)
           source == find_overlapping_tables(tables, l, a, b)
           target == find_overlapping_tables(tables, l + 1, a, b)
           plan == manual_plan(tables, l, lo, hi)
<1>0. Apart(tables)
  BY Zenon, CheckInvariantsMeans
<1>1. a \in Nat /\ b \in Nat /\ ClosedRange(tables, l, a, b)
  BY Zenon, WidenedRange
<1>2. plan.level = l /\ plan.source = source /\ plan.target = target
  <2>1. ASSUME find_overlapping_tables(tables, l, lo, hi) = {} PROVE FALSE
    <3>1. plan = [level |-> l, source |-> {}, target |-> {}]
      BY Zenon, <2>1 DEF manual_plan
    <3> QED BY <3>1
  <2>2. plan = [level |-> l, source |-> source, target |-> target]
    BY Zenon, <2>1 DEF manual_plan, WidenedLo, WidenedHi, Closed
  <2> QED BY <2>2
<1>a. Built(tables)
  BY Zenon
<1> HIDE DEF a, b, plan, tables
<1>3. \A t \in source : t \in tables /\ t.level = l /\ Overlaps(t, a, b)
  BY Zenon DEF find_overlapping_tables, Level
<1>4. \A t \in target : t \in tables /\ t.level = l + 1
  BY Zenon DEF find_overlapping_tables, Level
<1>5. \A t \in source : \A r \in t.recs : r.key \in Nat /\ a <= r.key /\ r.key <= b
  <2> SUFFICES ASSUME NEW t \in source, NEW r \in t.recs
               PROVE  r.key \in Nat /\ a <= r.key /\ r.key <= b
    BY Zenon
  <2>1. a <= SmallestKey(t) /\ LargestKey(t) <= b
    BY Zenon, <1>1, <1>3 DEF ClosedRange, Level
  <2>2. /\ SmallestKey(t) \in Nat /\ LargestKey(t) \in Nat /\ r.key \in Nat
        /\ SmallestKey(t) <= r.key /\ r.key <= LargestKey(t)
    BY Zenon, <1>3, <1>a, KeyRange DEF Built, TableMeta
  <2> QED BY <1>1, <2>1, <2>2
<1>6. ASSUME NEW u \in tables \ (source \cup target), u.level = l
      PROVE  \A r \in u.recs, q \in Recs(source) : r.key # q.key
  <2>1. ~Overlaps(u, a, b)
    BY Zenon, <1>6 DEF find_overlapping_tables, Level
  <2>2. /\ SmallestKey(u) \in Nat /\ LargestKey(u) \in Nat
        /\ \A r \in u.recs : r.key \in Nat /\ SmallestKey(u) <= r.key /\ r.key <= LargestKey(u)
    BY Zenon, <1>a, KeyRange DEF Built, TableMeta
  <2>3. LargestKey(u) < a \/ b < SmallestKey(u)
    BY Zenon, <2>1 DEF Overlaps, ranges_overlap
  <2> QED BY <1>1, <1>5, <2>2, <2>3 DEF Recs
<1>7. ASSUME NEW u \in tables \ (source \cup target), u.level = l + 1
      PROVE  \/ Left(u.recs, Recs(source \cup target))
             \/ Left(Recs(source \cup target), u.recs)
  <2>1. u \in Level(tables, l + 1) /\ ~Overlaps(u, a, b)
    BY Zenon, <1>7 DEF find_overlapping_tables, Level
  <2>2. l \in Nat /\ source \in SUBSET tables
    BY <1>3, LsmAssumption DEF LevelId
  <2> QED BY Zenon, <1>0, <1>1, <1>5, <1>a, <2>1, <2>2, OutsideRange
<1> HIDE DEF source, target
<1> QED BY Zenon, <1>2, <1>3, <1>4, <1>6, <1>7 DEF GoodPlan, Inputs, plan, tables

-----------------------------------------------------------------------------
(* Outputs of a job. *)

\* Division rounds down.
LEMMA DivMeans ==
    ASSUME NEW a \in Nat, NEW n \in Nat \ {0}
    PROVE  /\ a \div n \in Nat /\ n * (a \div n) <= a /\ a < n * (a \div n) + n
<1>1. a = n * (a \div n) + (a % n) /\ a % n \in 0 .. n - 1 /\ a \div n \in Int
  OBVIOUS
<1>2. a \div n \in Nat
  OBVIOUS
<1> QED BY <1>1, <1>2

\* Multiples are a divisor apart.
LEMMA Times ==
    ASSUME NEW i \in Nat, NEW j \in Nat, NEW n \in Nat \ {0}, i < j
    PROVE  n * i + n <= n * j
<1>1. PICK d \in Nat : j = i + 1 + d
  <2>1. j - i - 1 \in Nat /\ j = i + 1 + (j - i - 1)
    OBVIOUS
  <2> QED BY Zenon, <2>1
<1>2. n * j = n * i + n + n * d /\ n * d >= 0
  BY <1>1
<1> QED BY <1>2

\* A later record is not in an earlier output.
LEMMA DivMonotone ==
    ASSUME NEW a \in Nat, NEW b \in Nat, NEW n \in Nat \ {0}, a <= b
    PROVE  a \div n <= b \div n
<1> DEFINE i == a \div n
           j == b \div n
<1>1. i \in Nat /\ n * i <= a /\ a < n * i + n
  BY Zenon, DivMeans
<1>2. j \in Nat /\ n * j <= b /\ b < n * j + n
  BY Zenon, DivMeans
<1> HIDE DEF i, j
<1>3. ASSUME j < i PROVE FALSE
  <2>1. n * j + n <= n * i
    BY Zenon, <1>1, <1>2, <1>3, Times
  <2>2. n * j \in Nat /\ n * i \in Nat
    BY <1>1, <1>2
  <2> QED BY <1>1, <1>2, <2>1, <2>2
<1> QED BY <1>1, <1>2, <1>3 DEF i, j

\* Every output has a first record.
LEMMA DivOfMultiple ==
    ASSUME NEW j \in Nat, NEW n \in Nat \ {0}
    PROVE  (n * j) \div n = j
<1> DEFINE a == n * j
           i == a \div n
<1>0. a \in Nat
  OBVIOUS
<1>1. i \in Nat /\ n * i <= a /\ a < n * i + n
  BY Zenon, <1>0, DivMeans
<1> HIDE DEF i
<1>2. ASSUME j < i PROVE FALSE
  <2>1. n * j + n <= n * i
    BY Zenon, <1>1, <1>2, Times
  <2>2. n * j \in Nat /\ n * i \in Nat
    BY <1>1
  <2> QED BY <1>1, <2>1, <2>2
<1>3. ASSUME i < j PROVE FALSE
  <2>1. n * i + n <= n * j
    BY Zenon, <1>1, <1>3, Times
  <2>2. n * j \in Nat /\ n * i \in Nat
    BY <1>1
  <2> QED BY <1>1, <2>1, <2>2
<1> QED BY <1>1, <1>2, <1>3 DEF i

\* A record of a higher key is not in an earlier output.
LEMMA OutputsInOrder ==
    ASSUME NEW S \in SUBSET InternalRecord, NEW r \in S, NEW q \in S, r.key <= q.key
    PROVE  OutputIndex(S, r) <= OutputIndex(S, q)
<1> DEFINE A == {p \in S : p.key < r.key}
           B == {p \in S : p.key < q.key}
<1>1. IsFiniteSet(S) /\ r.key \in Nat /\ q.key \in Nat /\ \A p \in S : p.key \in Nat
  BY Zenon, RecordsFinite, FS_Subset, LsmAssumption DEF InternalRecord
<1>2. A \in SUBSET B /\ B \in SUBSET S
  BY <1>1
<1> HIDE DEF A, B
<1>3. Cardinality(A) \in Nat /\ Cardinality(B) \in Nat /\ Cardinality(A) <= Cardinality(B)
  BY Zenon, <1>1, <1>2, FS_Subset, FS_CardinalityType
<1>4. Cardinality(A) \div OutputRecs <= Cardinality(B) \div OutputRecs
  BY Zenon, <1>3, DivMonotone, LsmAssumption
<1> QED BY Zenon, <1>4 DEF OutputIndex, A, B

\* The outputs partition the records that survive.
LEMMA OutputsPartition ==
    ASSUME NEW S \in SUBSET InternalRecord, NEW l, NEW first \in Nat
    PROVE  Partition(Outputs(S, l, first), S, l)
<1> DEFINE table(i) == [id |-> first + i, level |-> l,
                        recs |-> {r \in S : OutputIndex(S, r) = i}]
<1>1. ASSUME NEW t \in Outputs(S, l, first)
      PROVE  \E r \in S : t = table(OutputIndex(S, r))
  BY Zenon DEF Outputs
<1>2. ASSUME NEW r \in S PROVE table(OutputIndex(S, r)) \in Outputs(S, l, first)
  BY Zenon DEF Outputs
<1>3. ASSUME NEW t \in Outputs(S, l, first)
      PROVE  t.level = l /\ t.recs # {} /\ t.recs \subseteq S
  BY <1>1
<1>4. ASSUME NEW r \in S PROVE \E t \in Outputs(S, l, first) : r \in t.recs
  <2>1. r \in table(OutputIndex(S, r)).recs
    BY Zenon
  <2> QED BY Zenon, <1>2, <2>1
<1>6. ASSUME NEW t \in Outputs(S, l, first), NEW u \in Outputs(S, l, first), t # u
      PROVE  Left(t.recs, u.recs) \/ Left(u.recs, t.recs)
  <2>1. PICK i \in Nat : /\ t = table(i) /\ \A r \in t.recs : r \in S /\ OutputIndex(S, r) = i
    BY <1>1, OutputIndexType
  <2>2. PICK j \in Nat : /\ u = table(j) /\ \A r \in u.recs : r \in S /\ OutputIndex(S, r) = j
    BY <1>1, OutputIndexType
  <2>3. i # j
    BY Zenon, <1>6, <2>1, <2>2
  <2>4. ASSUME NEW r \in t.recs, NEW q \in u.recs
        PROVE  /\ r.key \in Nat /\ q.key \in Nat
               /\ r.key <= q.key => i <= j
               /\ q.key <= r.key => j <= i
    <3>1. r \in S /\ q \in S /\ OutputIndex(S, r) = i /\ OutputIndex(S, q) = j
      BY Zenon, <2>1, <2>2
    <3>2. r.key \in Nat /\ q.key \in Nat
      BY Zenon, <3>1, LsmAssumption DEF InternalRecord
    <3>3. r.key <= q.key => OutputIndex(S, r) <= OutputIndex(S, q)
      BY Zenon, <3>1, OutputsInOrder
    <3>4. q.key <= r.key => OutputIndex(S, q) <= OutputIndex(S, r)
      BY Zenon, <3>1, OutputsInOrder
    <3> QED BY Zenon, <3>1, <3>2, <3>3, <3>4
  <2> HIDE DEF table
  <2>5. CASE i < j
    BY <2>4, <2>5 DEF Left
  <2>6. CASE j < i
    BY <2>4, <2>6 DEF Left
  <2> QED BY <2>1, <2>2, <2>3, <2>5, <2>6
<1> HIDE DEF table
<1> QED BY Zenon, <1>3, <1>4, <1>6 DEF Partition

Rank(S, r) == Cardinality({q \in S : q.key < r.key})

\* The records of distinct keys take all ranks.
LEMMA RanksTaken ==
    ASSUME NEW S \in SUBSET InternalRecord, OnePerKey(S), NEW r \in S,
           NEW m \in Nat, m <= Rank(S, r)
    PROVE  \E q \in S : Rank(S, q) = m
<1> DEFINE N == Cardinality(S)
           Before(q) == {p \in S : p.key < q.key}
           f == [q \in S |-> Rank(S, q)]
<1>1. IsFiniteSet(S) /\ N \in Nat /\ \A q \in S : q.key \in Nat
  BY Zenon, RecordsFinite, FS_Subset, FS_CardinalityType, LsmAssumption DEF InternalRecord
<1>2. \A q \in S : Rank(S, q) \in Nat /\ Rank(S, q) < N
  <2> SUFFICES ASSUME NEW q \in S PROVE Rank(S, q) \in Nat /\ Rank(S, q) < N
    BY Zenon
  <2>1. Before(q) \in SUBSET S /\ Before(q) # S
    BY <1>1
  <2>2. Rank(S, q) = Cardinality(Before(q))
    BY Zenon DEF Rank
  <2> HIDE DEF Before
  <2>3. IsFiniteSet(Before(q)) /\ Cardinality(Before(q)) <= N /\ Cardinality(Before(q)) # N
    BY Zenon, <1>1, <2>1, FS_Subset
  <2>4. Cardinality(Before(q)) \in Nat
    BY Zenon, <2>3, FS_CardinalityType
  <2> HIDE DEF N
  <2> QED BY <1>1, <2>2, <2>3, <2>4
<1>3. ASSUME NEW p \in S, NEW q \in S, p.key < q.key PROVE Rank(S, p) < Rank(S, q)
  <2>1. Before(p) \in SUBSET Before(q) /\ Before(p) # Before(q) /\ Before(q) \in SUBSET S
    <3>1. p \in Before(q) /\ p \notin Before(p)
      BY <1>1, <1>3
    <3> QED BY <1>1, <1>3, <3>1
  <2>2. Rank(S, p) = Cardinality(Before(p)) /\ Rank(S, q) = Cardinality(Before(q))
    BY Zenon DEF Rank
  <2> HIDE DEF Before
  <2>3. IsFiniteSet(Before(q))
    BY Zenon, <1>1, <2>1, FS_Subset
  <2>4. Rank(S, p) <= Rank(S, q) /\ Rank(S, p) # Rank(S, q)
    BY Zenon, <2>1, <2>2, <2>3, FS_Subset
  <2> QED BY <1>2, <2>4
<1> DEFINE T == 0 .. N - 1
<1>4. f \in Injection(S, T)
  <2>1. f \in [S -> T]
    BY <1>1, <1>2
  <2>2. ASSUME NEW p \in S, NEW q \in S, f[p] = f[q] PROVE p = q
    <3>1. Rank(S, p) = Rank(S, q)
      BY Zenon, <2>2
    <3>2. ~(p.key < q.key) /\ ~(q.key < p.key)
      BY <1>2, <1>3, <3>1
    <3>3. p.key = q.key
      BY <1>1, <3>2
    <3> QED BY Zenon, <3>3 DEF OnePerKey
  <2> HIDE DEF f, T
  <2> QED BY Zenon, <2>1, <2>2 DEF Injection, IsInjective
<1>5. IsFiniteSet(T) /\ Cardinality(T) = N
  <2>1. N # 0
    BY Zenon, <1>1, FS_EmptySet
  <2>2. N >= 1
    BY <1>1, <2>1
  <2> HIDE DEF N
  <2> QED BY <1>1, <2>2, FS_Interval
<1>6. f \in Surjection(S, T)
  <2> HIDE DEF f, T
  <2> QED BY Zenon, <1>4, <1>5, FS_Injection
<1>7. m \in T
  BY <1>1, <1>2
<1>8. PICK q \in S : f[q] = m
  <2> HIDE DEF f, T
  <2> QED BY Zenon, <1>6, <1>7 DEF Surjection
<1> QED BY Zenon, <1>8

\* The ids of the outputs are consecutive, so the next free id is above them.
LEMMA OutputsCount ==
    ASSUME NEW S \in SUBSET InternalRecord, OnePerKey(S), NEW l, NEW first \in Nat,
           NEW t \in Outputs(S, l, first)
    PROVE  /\ t.id \in Nat /\ Cardinality(Outputs(S, l, first)) \in Nat
           /\ t.id < first + Cardinality(Outputs(S, l, first))
<1> DEFINE table(j) == [id |-> first + j, level |-> l,
                        recs |-> {r \in S : OutputIndex(S, r) = j}]
           I == {OutputIndex(S, r) : r \in S}
           outs == Outputs(S, l, first)
           g == [j \in I |-> table(j)]
<1>1. PICK r \in S : t = table(OutputIndex(S, r))
  BY Zenon DEF Outputs
<1> DEFINE i == OutputIndex(S, r)
<1>2. i \in Nat /\ t.id = first + i
  BY Zenon, <1>1, OutputIndexType
<1>3. ASSUME NEW j \in 0 .. i PROVE j \in I
  <2> DEFINE n == OutputRecs
  <2>1. Rank(S, r) \in Nat
    BY Zenon, RecordsFinite, FS_Subset, FS_CardinalityType DEF Rank
  <2>2. n \in Nat \ {0} /\ i = Rank(S, r) \div n
    BY Zenon, LsmAssumption DEF OutputIndex, Rank
  <2> HIDE DEF n
  <2>3. n * i <= Rank(S, r)
    BY Zenon, <2>1, <2>2, DivMeans
  <2>4. n * j <= n * i /\ n * j \in Nat /\ n * i \in Nat
    <3>0. j \in Nat /\ i \in Nat
      BY <1>2
    <3>1. CASE j = i
      BY <2>2, <3>0, <3>1
    <3>2. CASE j < i
      <4> HIDE DEF i
      <4>1. n * j + n <= n * i
        BY Zenon, <2>2, <3>0, <3>2, Times
      <4>2. n * j \in Nat /\ n * i \in Nat
        BY <2>2, <3>0
      <4> QED BY <2>2, <4>1, <4>2
    <3> QED BY <1>2, <3>1, <3>2
  <2>5. PICK q \in S : Rank(S, q) = n * j
    <3> HIDE DEF i
    <3> QED BY Zenon, <2>1, <2>3, <2>4, RanksTaken
  <2>6. OutputIndex(S, q) = (n * j) \div n
    BY Zenon, <2>5 DEF OutputIndex, Rank, n
  <2>7. OutputIndex(S, q) = j
    BY <1>2, <2>2, <2>6, DivOfMultiple
  <2> QED BY Zenon, <2>7
<1>4. I \in SUBSET Nat
  BY Zenon, OutputIndexType
<1>5. IsFiniteSet(I)
  <2> DEFINE f == [q \in S |-> OutputIndex(S, q)]
  <2>1. f \in Surjection(S, I)
    BY Zenon DEF Surjection
  <2>2. IsFiniteSet(S)
    BY Zenon, RecordsFinite, FS_Subset
  <2> QED BY Zenon, <2>1, <2>2, FS_Surjection
<1>6. i + 1 <= Cardinality(I) /\ Cardinality(I) \in Nat
  <2> HIDE DEF I, i
  <2>1. 0 .. i \in SUBSET I
    BY Zenon, <1>3
  <2>2. Cardinality(0 .. i) = i + 1
    BY <1>2, FS_Interval
  <2>3. Cardinality(0 .. i) <= Cardinality(I)
    BY Zenon, <1>5, <2>1, FS_Subset
  <2> QED BY Zenon, <1>5, <2>2, <2>3, FS_CardinalityType
<1>7. g \in Surjection(I, outs)
  BY Zenon DEF Surjection, Outputs
<1>8. g \in Injection(I, outs)
  <2>1. g \in [I -> outs]
    BY Zenon, <1>7 DEF Surjection
  <2>2. ASSUME NEW a \in I, NEW b \in I, g[a] = g[b] PROVE a = b
    <3>1. first + a = first + b
      BY Zenon, <2>2
    <3>2. a \in Nat /\ b \in Nat
      BY Zenon, <1>4
    <3> QED BY <3>1, <3>2
  <2> HIDE DEF g, I, outs
  <2> QED BY Zenon, <2>1, <2>2 DEF Injection, IsInjective
<1>9. Cardinality(outs) = Cardinality(I)
  <2> HIDE DEF g, I, outs
  <2> QED BY Zenon, <1>5, <1>7, <1>8, FS_Surjection
<1> HIDE DEF I, i, outs
<1> QED BY <1>2, <1>6, <1>9 DEF outs

-----------------------------------------------------------------------------
(* Together. *)

\* Outputs, ranges and newest records are what the level facts below need.
THEOREM PlanFactsHold == PlanFacts
<1>1. KeysInRange
  BY Zenon, KeyRange DEF KeysInRange
<1>2. NewestPicked
  BY Zenon, NewestOfMeans DEF NewestPicked
<1>3. RangesApart
  BY Zenon, CheckInvariantsMeans DEF RangesApart
<1>4. OutputsTyped
  <2> SUFFICES ASSUME NEW recs \in SUBSET InternalRecord, NEW l \in LevelId,
                      NEW first \in Nat \ {0}
               PROVE  LET outs == Outputs(recs, l, first)
                      IN  /\ Cardinality(outs) \in Nat
                          /\ \A t \in outs : t.id \in Nat /\ t.id >= first
                          /\ \A t, u \in outs : t.id = u.id => t = u
                          /\ (\A t \in outs : t.id <= MaxTableId) => outs \subseteq TableMeta
    BY Zenon DEF OutputsTyped
  <2> QED BY Zenon, OutputsFinite, OutputsFresh, OutputsDistinct, OutputsType
<1>5. OutputsSplit
  <2> SUFFICES ASSUME NEW S \in SUBSET InternalRecord, NEW l, NEW first \in Nat
               PROVE  LET outs == Outputs(S, l, first)
                      IN  /\ Partition(outs, S, l)
                          /\ OnePerKey(S) => \A t \in outs : t.id < first + Cardinality(outs)
    BY Zenon DEF OutputsSplit
  <2> QED BY Zenon, OutputsPartition, OutputsCount
<1> QED BY Zenon, <1>1, <1>2, <1>3, <1>4, <1>5 DEF PlanFacts

\* The scheduler and compact_range merge tables that may be merged, and the
\* least element is what Min picks.
THEOREM PlansHold == LeastPicked /\ PicksTyped /\ PlansAreGood
<1>1. LeastPicked
  BY Zenon, MinOfNaturals DEF LeastPicked
<1>2. PicksTyped
  BY Zenon, PickCompactionType DEF PicksTyped
<1>3. PlansAreGood
  <2> SUFFICES ASSUME NEW v, Built(v.tables), check_invariants(v)
               PROVE  /\ should_compact(v.tables) =>
                            GoodPlan(v.tables, pick_compaction(v.tables))
                      /\ \A l \in LevelId, lo, hi \in Key :
                            l + 1 \in LevelId /\ manual_plan(v.tables, l, lo, hi).source # {} =>
                                GoodPlan(v.tables, manual_plan(v.tables, l, lo, hi))
    BY Zenon DEF PlansAreGood
  <2> QED BY Zenon, PickCompactionGood, ManualPlanGood
<1> QED BY Zenon, <1>1, <1>2, <1>3

-----------------------------------------------------------------------------
(* What a get returns and what a merge keeps, from the facts above (PlanFacts). *)

\* Keys, sequence numbers and write numbers are compared as numbers.
LEMMA RecordFields ==
    ASSUME NEW r \in InternalRecord
    PROVE  r.key \in Key /\ r.key \in Nat /\ r.seq \in Nat /\ r.op \in Nat
<1>1. r.key \in Key /\ r.seq \in 1 .. MaxSeq /\ r.op \in 1 .. MaxWrites
  BY Zenon DEF InternalRecord, SeqNum
<1>2. Key \subseteq Nat /\ MaxSeq \in Nat /\ MaxWrites \in Nat
  BY Zenon, LsmAssumption
<1>3. r.key \in Nat
  BY Zenon, <1>1, <1>2
<1>4. r.seq \in Nat
  BY <1>1, <1>2
<1>5. r.op \in Nat
  BY <1>1, <1>2
<1> QED BY Zenon, <1>1, <1>3, <1>4, <1>5

\* In an aligned set it is also the latest write.
LEMMA NewestIsLatest ==
    ASSUME PlanFacts, NEW S \in SUBSET InternalRecord, Aligned(S), NEW r \in S
    PROVE  NewestOf(S, r.key).op >= r.op
<1>1. /\ NewestOf(S, r.key) \in S /\ NewestOf(S, r.key).key = r.key
      /\ r.seq <= NewestOf(S, r.key).seq
  BY Zenon DEF PlanFacts, NewestPicked
<1>2. r.op <= NewestOf(S, r.key).op
  BY Zenon, <1>1 DEF Aligned
<1>3. r.op \in Nat /\ NewestOf(S, r.key).op \in Nat
  BY <1>1, LsmAssumption DEF InternalRecord
<1> QED BY Zenon, <1>2, <1>3

\* A get returns no older write than what the first holder of the key is fresh
\* for (Engine::get; the first hit may be returned).
LEMMA GetFresh ==
    ASSUME PlanFacts, NEW M \in SUBSET InternalRecord, NEW v, Built(v.tables),
           Aligned(M \cup Recs(v.tables)), NEW file,
           \A t \in v.tables : file[t.id] = t.recs,
           NEW k, NEW op \in Nat, NEW w, Fresh(M, v.tables, k, op, w)
    PROVE  LET g == get(M, v.tables, file, k)
           IN  op = 0 \/ g.op >= op \/ (g = NotFound /\ Removed(k, op, w))
<1> DEFINE hits == {t \in v.tables : Overlaps(t, k, k) /\ OfKey(file[t.id], k) # {}}
           first == CHOOSE t \in hits : \A u \in hits \ {t} : ~SearchedBefore(u, t)
<1>1. \A t \in v.tables : t \in hits <=> Holds(t, k)
  <2> SUFFICES ASSUME NEW t \in v.tables PROVE t \in hits <=> Holds(t, k)
    BY Zenon
  <2>1. OfKey(file[t.id], k) # {} <=> Holds(t, k)
    BY Zenon DEF OfKey, Holds
  <2>2. ASSUME NEW r \in t.recs, r.key = k PROVE Overlaps(t, k, k)
    <3>1. /\ SmallestKey(t) \in Nat /\ LargestKey(t) \in Nat /\ r.key \in Nat
          /\ SmallestKey(t) <= r.key /\ r.key <= LargestKey(t)
      BY Zenon, <2>2 DEF PlanFacts, KeysInRange, Built, TableMeta
    <3> QED BY <2>2, <3>1 DEF Overlaps, ranges_overlap
  <2> QED BY Zenon, <2>1, <2>2 DEF Holds
<1>2. ASSUME \E r \in M : r.key = k PROVE op = 0 \/ get(M, v.tables, file, k).op >= op
  <2>1. PICK r \in M : r.key = k /\ r.op >= op
    BY Zenon, <1>2 DEF Fresh
  <2>2. get(M, v.tables, file, k) = NewestOf(M, k)
    BY Zenon, <1>2 DEF get, OfKey
  <2>3. Aligned(M)
    BY Zenon DEF Aligned
  <2>4. NewestOf(M, k).op >= r.op
    BY Zenon, <2>1, <2>3, NewestIsLatest
  <2>5. NewestOf(M, k).op \in Nat /\ r.op \in Nat
    BY <1>2, LsmAssumption DEF PlanFacts, NewestPicked, InternalRecord
  <2> QED BY <2>1, <2>2, <2>4, <2>5
<1>3. ASSUME ~\E r \in M : r.key = k, hits = {}
      PROVE  op = 0 \/ (get(M, v.tables, file, k) = NotFound /\ Removed(k, op, w))
  <2>1. get(M, v.tables, file, k) = NotFound
    BY Zenon, <1>3 DEF get, OfKey
  <2>2. TableFresh(v.tables, k, op, w)
    BY Zenon, <1>3 DEF Fresh
  <2>3. \A t \in v.tables : ~Holds(t, k)
    BY Zenon, <1>1, <1>3
  <2> QED BY Zenon, <2>1, <2>2, <2>3 DEF TableFresh, Holds
<1>4. ASSUME ~\E r \in M : r.key = k, hits # {}, op # 0
      PROVE  get(M, v.tables, file, k).op >= op
  <2>1. get(M, v.tables, file, k) = NewestOf(file[first.id], k)
    BY Zenon, <1>4, Zenon DEF get, OfKey
  <2>2. TableFresh(v.tables, k, op, w)
    BY Zenon, <1>4 DEF Fresh
  <2>3. PICK t \in v.tables : /\ \E r \in t.recs : r.key = k /\ r.op >= op
                              /\ \A u \in v.tables : Holds(u, k) => u = t \/ SearchedBefore(t, u)
    BY Zenon, <1>1, <1>4, <2>2 DEF TableFresh
  <2>4. t \in hits
    BY Zenon, <1>1, <2>3 DEF Holds
  <2>5. \A u \in hits \ {t} : SearchedBefore(t, u)
    BY Zenon, <1>1, <2>3
  <2>6. ASSUME NEW u \in hits, u # t, SearchedBefore(u, t) PROVE FALSE
    <3>1. SearchedBefore(t, u) /\ t \in TableMeta /\ u \in TableMeta
      BY Zenon, <2>5, <2>6 DEF Built
    <3> QED BY <2>6, <3>1, LsmAssumption DEF SearchedBefore, TableMeta, LevelId, TableId
  <2>7. first \in hits /\ \A u \in hits \ {first} : ~SearchedBefore(u, first)
    BY Zenon, <2>4, <2>6
  <2> HIDE DEF first
  <2>8. first = t
    BY Zenon, <2>4, <2>5, <2>7
  <2>9. file[first.id] = t.recs
    BY Zenon, <2>8
  <2>10. PICK r \in t.recs : r.key = k /\ r.op >= op
    BY Zenon, <2>3
  <2>11. t.recs \in SUBSET InternalRecord /\ Aligned(t.recs)
    BY Zenon DEF Built, TableMeta, Aligned, Recs
  <2>12. NewestOf(t.recs, k).op >= r.op /\ NewestOf(t.recs, k) \in t.recs
    BY Zenon, <2>10, <2>11, NewestIsLatest DEF PlanFacts, NewestPicked
  <2>13. NewestOf(t.recs, k).op \in Nat /\ r.op \in Nat
    BY <2>11, <2>12, LsmAssumption DEF InternalRecord
  <2> QED BY <2>1, <2>9, <2>10, <2>12, <2>13
<1> QED BY Zenon, <1>2, <1>3, <1>4

-----------------------------------------------------------------------------
(* Compactions. *)

\* Records of the same key and number are the same record.
LEMMA RecordsUnique ==
    ASSUME NEW S \in SUBSET InternalRecord, NEW w, Aligned(S), Genuine(S, w),
           NEW r \in S, NEW q \in S, r.key = q.key, r.seq = q.seq
    PROVE  r = q
<1>1. r.seq \in Nat /\ q.seq \in Nat /\ r.op \in Nat /\ q.op \in Nat
  BY LsmAssumption DEF InternalRecord, SeqNum
<1>2. r.op <= q.op /\ q.op <= r.op
  BY <1>1 DEF Aligned
<1>3. r.op = q.op
  BY <1>1, <1>2
<1>4. [key |-> r.key, del |-> r.del] = [key |-> q.key, del |-> q.del]
  BY Zenon, <1>3 DEF Genuine
<1>5. r.del = q.del
  BY Zenon, <1>4
<1> QED BY <1>3, <1>5 DEF InternalRecord

\* Of the records of a key the newest survives, unless it is a tombstone that
\* the bottommost level drops; nothing else does.
LEMMA SurvivorsMean ==
    ASSUME PlanFacts, NEW S \in SUBSET InternalRecord, NEW w, Aligned(S), Genuine(S, w),
           NEW bottommost \in BOOLEAN
    PROVE  /\ Survivors(S, bottommost) \subseteq S
           /\ OnePerKey(Survivors(S, bottommost))
           /\ \A r \in S : \E m \in S :
                 /\ m.key = r.key /\ \A q \in S : q.key = r.key => q.seq <= m.seq
                 /\ m \in Survivors(S, bottommost) \/ (bottommost /\ m.del)
                 /\ \A q \in Survivors(S, bottommost) : q.key = r.key => q = m
<1> DEFINE out == Survivors(S, bottommost)
<1>1. out \subseteq S /\ \A r \in out : \A q \in S : q.key = r.key => q.seq <= r.seq
  BY Zenon DEF Survivors, OfKey
<1>0. \A r \in S : r.seq \in Nat
  BY LsmAssumption DEF InternalRecord, SeqNum
<1>2. ASSUME NEW r \in out, NEW m \in S, m.key = r.key,
             \A q \in S : q.key = r.key => q.seq <= m.seq
      PROVE  r = m
  <2>1. r \in S /\ r.seq <= m.seq /\ m.seq <= r.seq
    BY Zenon, <1>1, <1>2
  <2>2. r.seq = m.seq
    BY <1>0, <2>1
  <2> QED BY Zenon, <1>2, <2>1, <2>2, RecordsUnique
<1>3. OnePerKey(out)
  <2> SUFFICES ASSUME NEW r \in out, NEW q \in out, r.key = q.key PROVE r = q
    BY Zenon DEF OnePerKey
  <2>1. q \in S /\ \A p \in S : p.key = r.key => p.seq <= q.seq
    BY Zenon, <1>1
  <2> QED BY Zenon, <1>2, <2>1
<1>4. ASSUME NEW r \in S
      PROVE  \E m \in S :
                 /\ m.key = r.key /\ \A q \in S : q.key = r.key => q.seq <= m.seq
                 /\ m \in out \/ (bottommost /\ m.del)
                 /\ \A q \in out : q.key = r.key => q = m
  <2> DEFINE m == NewestOf(S, r.key)
  <2>1. m \in S /\ m.key = r.key /\ \A q \in S : q.key = r.key => q.seq <= m.seq
    BY Zenon DEF PlanFacts, NewestPicked
  <2> HIDE DEF m
  <2>2. m \in out \/ (bottommost /\ m.del)
    BY Zenon, <2>1 DEF Survivors, OfKey
  <2>3. \A q \in out : q.key = r.key => q = m
    BY Zenon, <1>2, <2>1
  <2> QED BY Zenon, <2>1, <2>2, <2>3
<1> QED BY Zenon, <1>1, <1>3, <1>4

\* What the lemmas below use of a job.
LEMMA MergedMeans ==
    ASSUME PlanFacts, NEW tables, Built(tables), NEW plan, GoodPlan(tables, plan),
           NEW w, Aligned(Recs(tables)), Genuine(Recs(tables), w)
    PROVE  LET all == Recs(Inputs(plan))
               out == Merged(tables, plan)
           IN  /\ all \subseteq Recs(tables) /\ Recs(tables) \in SUBSET InternalRecord
               /\ out \subseteq all /\ OnePerKey(out)
               /\ \A r \in all : \E m \in all :
                    /\ m.key = r.key /\ \A q \in all : q.key = r.key => q.seq <= m.seq
                    /\ m \in out \/ (is_bottommost_destination(tables, plan.level + 1) /\ m.del)
                    /\ \A q \in out : q.key = r.key => q = m
<1> DEFINE all == Recs(Inputs(plan))
           bottommost == is_bottommost_destination(tables, plan.level + 1)
<1>1. all \subseteq Recs(tables) /\ Recs(tables) \in SUBSET InternalRecord
  BY DEF GoodPlan, Recs, Inputs, Built, TableMeta
<1>2. Aligned(all) /\ Genuine(all, w) /\ all \in SUBSET InternalRecord
  BY Zenon, <1>1 DEF Aligned, Genuine
<1>3. bottommost \in BOOLEAN
  BY Zenon DEF is_bottommost_destination
<1>4. Merged(tables, plan) = Survivors(all, bottommost)
  BY Zenon DEF Merged
<1> HIDE DEF all, bottommost
<1>5. /\ Survivors(all, bottommost) \subseteq all
      /\ OnePerKey(Survivors(all, bottommost))
      /\ \A r \in all : \E m \in all :
            /\ m.key = r.key /\ \A q \in all : q.key = r.key => q.seq <= m.seq
            /\ m \in Survivors(all, bottommost) \/ (bottommost /\ m.del)
            /\ \A q \in Survivors(all, bottommost) : q.key = r.key => q = m
  BY Zenon, <1>2, <1>3, SurvivorsMean
<1> QED BY <1>1, <1>4, <1>5 DEF all, bottommost

\* A kept table of the level of the sources shares no key with them.
LEMMA KeptApart ==
    ASSUME NEW tables, NEW plan, GoodPlan(tables, plan), NEW u \in tables \ Inputs(plan),
           u.level = plan.level, NEW t \in plan.source, NEW k, Holds(t, k)
    PROVE  ~Holds(u, k)
<1>1. \A r \in u.recs, q \in Recs(plan.source) : r.key # q.key
  BY Zenon DEF GoodPlan
<1>2. \A q \in t.recs : q \in Recs(plan.source)
  BY Zenon DEF Recs
<1> QED BY Zenon, <1>1, <1>2 DEF Holds

\* A kept table that shares a key with an input and is not searched before it
\* lies below the outputs.
LEMMA KeptBelow ==
    ASSUME PlanFacts, NEW tables, Built(tables), NEW plan, GoodPlan(tables, plan),
           NEW t \in Inputs(plan), NEW u \in tables \ Inputs(plan), NEW k,
           Holds(t, k), Holds(u, k), SearchedBefore(t, u)
    PROVE  u.level > plan.level + 1
<1> DEFINE l == plan.level
<1>0. l \in Nat /\ u.level \in Nat /\ t.level \in Nat /\ t \in tables
  BY LsmAssumption DEF GoodPlan, LevelId, Built, TableMeta, Inputs
<1>1. \A r \in u.recs : r.key \in Nat
  BY Zenon DEF PlanFacts, KeysInRange, Built, TableMeta
<1>2. t.level \in {l, l + 1} /\ (t.level = l => t \in plan.source)
  BY <1>0 DEF GoodPlan, Inputs
<1>3. u.level # l + 1
  BY <1>1 DEF GoodPlan, Left, Recs, Holds
<1>4. ASSUME u.level = l PROVE FALSE
  <2>1. t.level = l
    BY <1>0, <1>2, <1>4 DEF SearchedBefore
  <2> QED BY Zenon, <1>2, <1>4, <2>1, KeptApart
<1>5. u.level >= l
  BY <1>0, <1>2 DEF SearchedBefore
<1> QED BY <1>0, <1>3, <1>4, <1>5

\* A compaction keeps what a read through the tables is fresh for.
LEMMA CompactionFresh ==
    ASSUME PlanFacts, NEW tables, Built(tables), NEW plan, GoodPlan(tables, plan),
           NEW first \in Nat, NEW w, Aligned(Recs(tables)), Genuine(Recs(tables), w),
           NEW k, NEW op \in Nat, TableFresh(tables, k, op, w)
    PROVE  TableFresh(Compacted(tables, plan, first), k, op, w)
<1> DEFINE all == Recs(Inputs(plan))
           out == Merged(tables, plan)
           l == plan.level + 1
           outs == Outputs(out, l, first)
           bottommost == is_bottommost_destination(tables, l)
           new == Compacted(tables, plan, first)
<1>1. /\ all \subseteq Recs(tables) /\ Recs(tables) \in SUBSET InternalRecord
      /\ out \subseteq all /\ OnePerKey(out)
      /\ \A r \in all : \E m \in all :
            /\ m.key = r.key /\ \A q \in all : q.key = r.key => q.seq <= m.seq
            /\ m \in out \/ (bottommost /\ m.del)
            /\ \A q \in out : q.key = r.key => q = m
  BY Zenon, MergedMeans
<1>2. Partition(outs, out, l)
  <2>1. out \in SUBSET InternalRecord
    BY Zenon, <1>1
  <2> HIDE DEF out, l
  <2> QED BY Zenon, <2>1 DEF PlanFacts, OutputsSplit
<1>3. \A u : u \in new <=> (u \in tables /\ u \notin Inputs(plan)) \/ u \in outs
  BY Zenon DEF Compacted
<1>4. \A r \in all : \E t \in Inputs(plan) : r \in t.recs
  BY Zenon DEF Recs
<1>5. \A t \in Inputs(plan) : t \in tables /\ \A r \in t.recs : r \in all
  BY Zenon DEF GoodPlan, Inputs, Recs
<1>6. /\ l \in Nat /\ l > 0
      /\ \A t \in tables : t.level \in Nat
      /\ \A t \in Inputs(plan) : t.level <= l
  <2>1. plan.level \in Nat /\ \A t \in tables : t.level \in Nat
    BY LsmAssumption DEF GoodPlan, LevelId, Built, TableMeta
  <2>2. \A t \in Inputs(plan) : t.level \in {plan.level, plan.level + 1}
    BY Zenon DEF GoodPlan, Inputs
  <2> QED BY <2>1, <2>2
<1>7. \A r \in Recs(tables) : r.key \in Nat /\ r.op \in Nat /\ r.seq \in Nat
  <2> SUFFICES ASSUME NEW r \in Recs(tables)
               PROVE  r.key \in Nat /\ r.op \in Nat /\ r.seq \in Nat
    BY Zenon
  <2>1. r \in InternalRecord
    BY Zenon, <1>1
  <2> QED BY Zenon, <2>1, RecordFields
<1> HIDE DEF all, out, outs, new, l, bottommost
<1>8. CASE op = 0
  BY Zenon, <1>8 DEF TableFresh, new
<1>9. CASE (\A t \in tables : ~Holds(t, k)) /\ Removed(k, op, w)
  <2>1. \A t \in outs : ~Holds(t, k)
    BY Zenon, <1>1, <1>2, <1>4, <1>5, <1>9 DEF Holds, Partition
  <2>2. \A t \in new : ~Holds(t, k)
    BY Zenon, <1>3, <1>9, <2>1
  <2> QED BY Zenon, <1>9, <2>2 DEF TableFresh, new
<1>10. ASSUME NEW t \in tables, NEW r \in t.recs, r.key = k, r.op >= op,
              \A u \in tables : Holds(u, k) => u = t \/ SearchedBefore(t, u)
       PROVE  TableFresh(new, k, op, w)
  <2>0. Holds(t, k)
    BY Zenon, <1>10 DEF Holds
  <2>1. CASE t \notin Inputs(plan)
    <3>1. ASSUME NEW u \in outs, Holds(u, k) PROVE SearchedBefore(t, u)
      <4>1. PICK q \in all : q.key = k
        BY Zenon, <1>1, <1>2, <3>1 DEF Holds, Partition
      <4>2. PICK i \in Inputs(plan) : q \in i.recs
        BY Zenon, <1>4
      <4>3. SearchedBefore(t, i)
        BY Zenon, <1>5, <1>10, <2>1, <4>1, <4>2 DEF Holds
      <4>4. u.level = l /\ i.level <= l /\ i.level \in Nat /\ t.level \in Nat /\ i \in tables
        BY Zenon, <1>2, <1>5, <1>6 DEF Partition
      <4> QED BY <1>6, <4>3, <4>4 DEF SearchedBefore
    <3>2. t \in new
      BY Zenon, <1>3, <2>1
    <3>3. \A u \in new : Holds(u, k) => u = t \/ SearchedBefore(t, u)
      BY Zenon, <1>3, <1>10, <3>1
    <3> QED BY Zenon, <1>10, <3>2, <3>3 DEF TableFresh
  <2>2. CASE t \in Inputs(plan)
    <3>1. r \in all
      BY Zenon, <1>5, <2>2
    <3>2. PICK m \in all : /\ m.key = k /\ \A q \in all : q.key = k => q.seq <= m.seq
                           /\ m \in out \/ (bottommost /\ m.del)
                           /\ \A q \in out : q.key = k => q = m
      BY Zenon, <1>1, <1>10, <3>1
    <3>3. m.op >= op
      <4>1. r \in Recs(tables) /\ m \in Recs(tables)
        BY Zenon, <1>1, <3>1
      <4>2. r.seq <= m.seq
        BY Zenon, <1>10, <3>1, <3>2
      <4>3. r.op <= m.op
        BY Zenon, <1>10, <3>2, <4>1, <4>2 DEF Aligned
      <4> QED BY <1>7, <1>10, <4>1, <4>3
    <3>4. ASSUME NEW u \in tables, u \notin Inputs(plan), Holds(u, k) PROVE u.level > l
      <4>1. SearchedBefore(t, u)
        BY Zenon, <1>10, <2>2, <3>4
      <4> QED BY Zenon, <2>0, <2>2, <3>4, <4>1, KeptBelow DEF l
    <3>5. CASE m \in out
      <4>1. PICK o \in outs : m \in o.recs
        BY Zenon, <1>2, <3>5 DEF Partition
      <4>2. ASSUME NEW u \in outs, Holds(u, k) PROVE u = o
        <5>1. m \in u.recs
          BY Zenon, <1>2, <3>2, <4>2 DEF Holds, Partition
        <5>2. m.key \in Nat
          BY Zenon, <1>1, <1>7
        <5> QED BY <1>2, <4>1, <5>1, <5>2 DEF Left, Partition
      <4>3. ASSUME NEW u \in tables, u \notin Inputs(plan), Holds(u, k)
            PROVE  SearchedBefore(o, u)
        BY Zenon, <1>2, <3>4, <4>3 DEF SearchedBefore, Partition
      <4>4. o \in new /\ \A u \in new : Holds(u, k) => u = o \/ SearchedBefore(o, u)
        BY Zenon, <1>3, <4>2, <4>3
      <4> QED BY Zenon, <3>2, <3>3, <4>1, <4>4 DEF TableFresh
    <3>6. CASE m \notin out
      <4>1. bottommost /\ m.del
        BY Zenon, <3>2, <3>6
      <4>2. \A u \in outs : ~Holds(u, k)
        BY Zenon, <1>2, <3>2, <3>6 DEF Holds, Partition
      <4>3. ASSUME NEW u \in tables, u \notin Inputs(plan), Holds(u, k) PROVE FALSE
        <5>1. u.level > l /\ u.level <= l
          BY Zenon, <3>4, <4>1, <4>3 DEF bottommost, is_bottommost_destination
        <5> QED BY <1>6, <5>1
      <4>4. \A u \in new : ~Holds(u, k)
        BY Zenon, <1>3, <4>2, <4>3
      <4>5. Removed(k, op, w)
        <5>1. m.op \in 1 .. Len(w) /\ w[m.op] = [key |-> m.key, del |-> m.del]
          BY Zenon, <1>1 DEF Genuine
        <5>2. m.op \in op .. Len(w) /\ w[m.op].key = k /\ w[m.op].del
          BY <3>2, <3>3, <4>1, <5>1
        <5> QED BY Zenon, <5>2 DEF Removed
      <4> QED BY Zenon, <4>4, <4>5 DEF TableFresh
    <3> QED BY Zenon, <3>5, <3>6
  <2> QED BY Zenon, <2>1, <2>2
<1> QED BY Zenon, <1>8, <1>9, <1>10 DEF TableFresh, new

\* A compaction leads to a version that stages and loads.
LEMMA CompactionSound ==
    ASSUME PlanFacts, NEW v, NEW v2, NEW S, NEW w, Sound(S, v, w),
           NEW plan, GoodPlan(v.tables, plan), v.next_table_id \in Nat \ {0},
           NEW outs, outs = Outputs(Merged(v.tables, plan), plan.level + 1, v.next_table_id),
           \A t \in outs : t.id <= MaxTableId,
           v2.tables = (v.tables \ Inputs(plan)) \cup outs,
           v2.next_table_id = v.next_table_id + Cardinality(outs),
           v2.next_seq = v.next_seq
    PROVE  Sound(S, v2, w) /\ Cardinality(outs) \in Nat
<1> DEFINE tables == v.tables
           all == Recs(Inputs(plan))
           out == Merged(tables, plan)
           l == plan.level + 1
           first == v.next_table_id
           kept == tables \ Inputs(plan)
<1>0. Built(tables) /\ Aligned(Recs(tables)) /\ Genuine(Recs(tables), w)
  BY Zenon DEF Sound, Aligned, Genuine
<1>1. /\ all \subseteq Recs(tables) /\ Recs(tables) \in SUBSET InternalRecord
      /\ out \subseteq all /\ OnePerKey(out)
  BY Zenon, <1>0, MergedMeans
<1>2. out \in SUBSET InternalRecord /\ first \in Nat /\ l \in LevelId
  BY Zenon, <1>1 DEF GoodPlan
<1>3. /\ \A t \in tables : t.id < first
      /\ \A t, u \in tables : t.id = u.id => t = u
      /\ Apart(tables)
  BY Zenon, <1>0 DEF PlanFacts, RangesApart, Sound
<1>4. \A t \in tables : t.id \in Nat
  BY <1>0 DEF Built, TableMeta, TableId
<1>5. \A u \in kept : u.level = l => Left(u.recs, all) \/ Left(all, u.recs)
  BY Zenon DEF GoodPlan
<1>6. l > 0
  BY LsmAssumption DEF GoodPlan, LevelId
<1>a. outs = Outputs(out, l, first)
  BY Zenon
<1> HIDE DEF out, l, first, tables, all
<1>7. Partition(outs, out, l)
  BY Zenon, <1>2, <1>a DEF PlanFacts, OutputsSplit
<1>b. /\ Cardinality(outs) \in Nat
      /\ \A t \in outs : t.id \in Nat /\ t.id >= first
      /\ \A t, u \in outs : t.id = u.id => t = u
      /\ (\A t \in outs : t.id <= MaxTableId) => outs \subseteq TableMeta
  <2>1. first \in Nat \ {0}
    BY Zenon DEF first
  <2>2. OutputsTyped
    BY Zenon DEF PlanFacts
  <2> QED BY Zenon, <1>2, <1>a, <2>1, <2>2 DEF OutputsTyped
<1>c. \A t \in outs : t.id < first + Cardinality(outs)
  BY Zenon, <1>1, <1>2, <1>a DEF PlanFacts, OutputsSplit
<1>8. Cardinality(outs) \in Nat
  BY Zenon, <1>b
<1>9. \A t \in outs : t.id \in Nat /\ first <= t.id /\ t.id < first + Cardinality(outs)
  BY Zenon, <1>2, <1>b, <1>c
<1>10. \A t, u \in outs : t.id = u.id => t = u
  BY Zenon, <1>b
<1>11. outs \subseteq TableMeta
  BY Zenon, <1>b
<1>12. v2.tables = kept \cup outs /\ v2.next_table_id = first + Cardinality(outs)
  BY Zenon DEF tables, first
<1>13. Built(v2.tables)
  BY Zenon, <1>0, <1>7, <1>11, <1>12 DEF Built, Partition
<1>14. Recs(v2.tables) \subseteq Recs(tables)
  <2>1. \A t \in outs : t.recs \subseteq Recs(tables)
    BY Zenon, <1>1, <1>7 DEF Partition
  <2> QED BY <1>12, <2>1 DEF Recs
<1>15. \A t \in v2.tables : t.id < v2.next_table_id
  BY <1>2, <1>3, <1>4, <1>8, <1>9, <1>12
<1>16. \A t, u \in v2.tables : t.id = u.id => t = u
  BY <1>2, <1>3, <1>4, <1>9, <1>10, <1>12
<1>17. Apart(v2.tables)
  <2> SUFFICES ASSUME NEW t \in v2.tables, NEW u \in v2.tables,
                      t # u, t.level = u.level, t.level > 0
               PROVE  Left(t.recs, u.recs) \/ Left(u.recs, t.recs)
    BY Zenon DEF Apart
  <2>1. CASE t \in kept /\ u \in kept
    BY Zenon, <1>3, <2>1 DEF Apart
  <2>2. CASE t \in outs /\ u \in outs
    BY Zenon, <1>7, <2>2 DEF Partition
  <2>3. ASSUME NEW x \in kept, NEW y \in outs, x.level = y.level
        PROVE  Left(x.recs, y.recs) \/ Left(y.recs, x.recs)
    <3>1. y.level = l /\ y.recs \subseteq all
      BY Zenon, <1>1, <1>7 DEF Partition
    <3>2. Left(x.recs, all) \/ Left(all, x.recs)
      BY Zenon, <1>5, <2>3, <3>1
    <3> QED BY Zenon, <3>1, <3>2 DEF Left
  <2> QED BY Zenon, <1>12, <2>1, <2>2, <2>3
<1>18. check_invariants(v2)
  BY Zenon, <1>13, <1>15, <1>16, <1>17 DEF PlanFacts, RangesApart
<1>19. /\ Aligned(S \cup Recs(v2.tables)) /\ Genuine(S \cup Recs(v2.tables), w)
       /\ \A r \in Recs(v2.tables) : r.seq < v2.next_seq
  BY Zenon, <1>14 DEF Sound, Aligned, Genuine, tables
<1> QED BY Zenon, <1>8, <1>13, <1>18, <1>19 DEF Sound

\* A compaction keeps the order in which tables are searched that of age.
LEMMA CompactionOrder ==
    ASSUME PlanFacts, NEW tables, Built(tables), NEW plan, GoodPlan(tables, plan),
           NEW first \in Nat, NEW w, Aligned(Recs(tables)), Genuine(Recs(tables), w),
           TableOrder(tables)
    PROVE  TableOrder(Compacted(tables, plan, first))
<1> DEFINE all == Recs(Inputs(plan))
           out == Merged(tables, plan)
           l == plan.level + 1
           outs == Outputs(out, l, first)
           kept == tables \ Inputs(plan)
           new == Compacted(tables, plan, first)
<1>1. /\ all \subseteq Recs(tables) /\ Recs(tables) \in SUBSET InternalRecord
      /\ out \subseteq all
      /\ \A r \in all : \E m \in all :
            /\ m.key = r.key /\ \A q \in all : q.key = r.key => q.seq <= m.seq
            /\ \A q \in out : q.key = r.key => q = m
  BY MergedMeans
<1>2. Partition(outs, out, l)
  <2>1. out \in SUBSET InternalRecord
    BY Zenon, <1>1
  <2> HIDE DEF out, l
  <2> QED BY Zenon, <2>1 DEF PlanFacts, OutputsSplit
<1>3. new = kept \cup outs
  BY Zenon DEF Compacted
<1>4. \A r \in all : \E t \in Inputs(plan) : r \in t.recs
  BY Zenon DEF Recs
<1>5. \A t \in Inputs(plan) : t \in tables /\ \A r \in t.recs : r \in all
  BY Zenon DEF GoodPlan, Inputs, Recs
<1>6. /\ l \in Nat /\ l > 0
      /\ \A t \in tables : t.level \in Nat
      /\ \A t \in Inputs(plan) : t.level <= l
  <2>1. plan.level \in Nat /\ \A t \in tables : t.level \in Nat
    BY LsmAssumption DEF GoodPlan, LevelId, Built, TableMeta
  <2>2. \A t \in Inputs(plan) : t.level \in {plan.level, plan.level + 1}
    BY Zenon DEF GoodPlan, Inputs
  <2> QED BY <2>1, <2>2
<1>7. \A r \in Recs(tables) : r.key \in Nat /\ r.seq \in Nat
  <2> SUFFICES ASSUME NEW r \in Recs(tables) PROVE r.key \in Nat /\ r.seq \in Nat
    BY Zenon
  <2>1. r \in InternalRecord
    BY Zenon, <1>1
  <2> QED BY Zenon, <2>1, RecordFields
<1>8. \A t \in tables : \A r \in t.recs : r \in Recs(tables)
  BY Zenon DEF Recs
<1>9. ASSUME NEW u \in kept, NEW i \in Inputs(plan), NEW k, Holds(u, k), Holds(i, k),
             u.level <= l
      PROVE  SearchedBefore(u, i)
  <2>1. u \in tables /\ i \in tables /\ u.level \in Nat /\ i.level \in Nat
    BY Zenon, <1>5, <1>6
  <2>2. u.level # l
    BY <1>5, <1>7, <1>8, <1>9 DEF GoodPlan, Left, Holds, all, l
  <2>3. u.level = plan.level => i.level = l
    <3>1. u.level = plan.level => i \notin plan.source
      BY Zenon, <1>9, KeptApart
    <3> QED BY Zenon, <3>1 DEF GoodPlan, Inputs, l
  <2>4. i.level \in {plan.level, l} /\ plan.level \in Nat /\ l = plan.level + 1
    BY LsmAssumption DEF GoodPlan, Inputs, l, LevelId
  <2> QED BY <1>9, <2>1, <2>2, <2>3, <2>4 DEF SearchedBefore
<1> HIDE DEF all, out, outs, new, l
<1> SUFFICES ASSUME NEW t \in new, NEW u \in new, SearchedBefore(u, t),
                    NEW r \in u.recs, NEW q \in t.recs, r.key = q.key
             PROVE  \E p \in u.recs : p.key = q.key /\ p.seq >= q.seq
  BY Zenon DEF TableOrder, Newer, new
<1>10. CASE u \in kept /\ t \in kept
  BY Zenon, <1>10 DEF TableOrder, Newer
<1>11. CASE u \in outs /\ t \in outs
  BY <1>2, <1>6, <1>11 DEF SearchedBefore, Partition
<1>12. CASE u \in outs /\ t \in kept
  <2>1. u.level = l /\ r \in out /\ r \in all /\ t \in tables /\ t.level \in Nat
    BY Zenon, <1>1, <1>2, <1>6, <1>12 DEF Partition
  <2>2. t.level > l
    BY Zenon, <1>6, <2>1 DEF SearchedBefore
  <2>3. PICK i \in Inputs(plan) : r \in i.recs
    BY Zenon, <1>4, <2>1
  <2>4. i \in tables /\ i.level <= l /\ i.level \in Nat
    BY Zenon, <1>5, <1>6
  <2>5. SearchedBefore(i, t)
    BY <1>6, <2>1, <2>2, <2>4 DEF SearchedBefore
  <2>6. PICK p \in i.recs : p.key = q.key /\ p.seq >= q.seq
    BY Zenon, <2>1, <2>3, <2>4, <2>5 DEF TableOrder, Newer
  <2>7. p \in all /\ p.seq <= r.seq
    BY Zenon, <1>1, <1>5, <2>1, <2>6
  <2>8. p.seq \in Nat /\ r.seq \in Nat /\ q.seq \in Nat
    BY Zenon, <1>1, <1>7, <1>8, <2>1, <2>7
  <2> QED BY <2>6, <2>7, <2>8
<1>13. CASE u \in kept /\ t \in outs
  <2>1. t.level = l /\ q \in all /\ u \in tables /\ u.level \in Nat
    BY Zenon, <1>1, <1>2, <1>6, <1>13 DEF Partition
  <2>2. PICK i \in Inputs(plan) : q \in i.recs
    BY Zenon, <1>4, <2>1
  <2>3. u.level <= l
    BY <1>6, <2>1 DEF SearchedBefore
  <2>4. SearchedBefore(u, i)
    BY Zenon, <1>9, <1>13, <2>2, <2>3 DEF Holds
  <2> QED BY <1>5, <2>1, <2>2, <2>4 DEF TableOrder, Newer
<1> QED BY Zenon, <1>3, <1>10, <1>11, <1>12, <1>13

\* No merge makes a record: its outputs hold records of its inputs.
LEMMA CompactionRecs ==
    ASSUME PlanFacts, NEW tables, Built(tables), NEW plan, GoodPlan(tables, plan),
           NEW first \in Nat, NEW w, Aligned(Recs(tables)), Genuine(Recs(tables), w)
    PROVE  Recs(Compacted(tables, plan, first)) \subseteq Recs(tables)
<1> DEFINE out  == Merged(tables, plan)
           outs == Outputs(out, plan.level + 1, first)
<1>1. out \subseteq Recs(tables) /\ out \in SUBSET InternalRecord
  BY Zenon, MergedMeans
<1>2. Partition(outs, out, plan.level + 1)
  <2> HIDE DEF out
  <2> QED BY Zenon, <1>1 DEF PlanFacts, OutputsSplit
<1>3. Compacted(tables, plan, first) = (tables \ Inputs(plan)) \cup outs
  BY Zenon DEF Compacted
<1> HIDE DEF out, outs
<1> QED BY Zenon, <1>1, <1>2, <1>3 DEF Recs, Partition

-----------------------------------------------------------------------------
(* Together. *)

\* A merge leads to a catalog that stages and loads, changes no answer, keeps
\* the search order and adds no record (run_compaction), and a get returns a
\* fresh record (Engine::get), for every number of keys, levels and records.
THEOREM MergesHold ==
    ASSUME PlanFacts
    PROVE  MergesStage /\ MergesKeep /\ GetsAreFresh
<1>1. MergesStage
  <2> SUFFICES ASSUME NEW v, NEW v2, NEW S, NEW w, NEW plan, NEW outs,
                      outs = Outputs(Merged(v.tables, plan), plan.level + 1, v.next_table_id),
                      Sound(S, v, w), GoodPlan(v.tables, plan), v.next_table_id \in Nat \ {0},
                      \A t \in outs : t.id <= MaxTableId,
                      v2.tables = (v.tables \ Inputs(plan)) \cup outs,
                      v2.next_table_id = v.next_table_id + Cardinality(outs),
                      v2.next_seq = v.next_seq
               PROVE  Sound(S, v2, w) /\ Cardinality(outs) \in Nat
    BY DEF MergesStage, Compacted
  <2> QED BY Zenon, CompactionSound
<1>2. MergesKeep
  <2> SUFFICES ASSUME NEW tables, NEW plan, NEW w, NEW first \in Nat,
                      Built(tables), GoodPlan(tables, plan),
                      Aligned(Recs(tables)), Genuine(Recs(tables), w)
               PROVE  LET tables2 == Compacted(tables, plan, first)
                      IN  /\ \A k : \A op \in Nat :
                                TableFresh(tables, k, op, w) => TableFresh(tables2, k, op, w)
                          /\ TableOrder(tables) => TableOrder(tables2)
                          /\ Recs(tables2) \subseteq Recs(tables)
    BY Zenon DEF MergesKeep
  <2> QED BY Zenon, CompactionFresh, CompactionOrder, CompactionRecs
<1>3. GetsAreFresh
  <2> SUFFICES \A v, file, k, w : \A M \in SUBSET InternalRecord, op \in Nat :
                 /\ Built(v.tables) /\ Aligned(M \cup Recs(v.tables))
                 /\ \A t \in v.tables : file[t.id] = t.recs
                 /\ Fresh(M, v.tables, k, op, w)
                 => LET g == get(M, v.tables, file, k)
                    IN  op = 0 \/ g.op >= op \/ (g = NotFound /\ Removed(k, op, w))
    BY Zenon DEF GetsAreFresh
  <2> TAKE v, file, k, w
  <2> TAKE M \in SUBSET InternalRecord, op \in Nat
  <2> HAVE /\ Built(v.tables) /\ Aligned(M \cup Recs(v.tables))
           /\ \A t \in v.tables : file[t.id] = t.recs
           /\ Fresh(M, v.tables, k, op, w)
  <2> QED BY Zenon, GetFresh
<1> QED BY Zenon, <1>1, <1>2, <1>3
=============================================================================
