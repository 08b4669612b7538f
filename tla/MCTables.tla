------------------------------ MODULE MCTables ------------------------------
(***************************************************************************)
(* A store of two tables for TLC.  Three keys, one a prefix of another, and *)
(* up to three records per memtable; a block takes one or two records, so   *)
(* the versions of a key may span blocks, and the index takes two entries,  *)
(* or three when their keys are short.                                      *)
(***************************************************************************)
EXTENDS TableStore

LOCAL INSTANCE SequencesExt

\* What a memtable dumps after these writes, the first with sequence number
\* `from`.
dump_of(writes, from) ==
    SetToSortSeq({[key   |-> writes[i].key, seq |-> from + i - 1, type |-> writes[i].type,
                   value |-> IF writes[i].type = "Put" THEN (from + i - 1) % 2 ELSE 0] :
                     i \in DOMAIN writes},
                 record_less)

Put(key) == [key |-> key, type |-> "Put"]
Del(key) == [key |-> key, type |-> "Tombstone"]

\* Every history of three writes to two keys, then a few that overwrite, delete
\* and add.
TwoDumps ==
    <<{dump_of(w, 1) : w \in [1 .. 3 -> {Put(<<0>>), Put(<<0, 1>>)}]},
      {dump_of(w, 4) : w \in {<<Put(<<0>>)>>, <<Del(<<0, 1>>)>>, <<Put(<<0>>), Put(<<1>>)>>}}>>

\* A small hash in place of fnv1a64.
SmallFnv(key, seed) ==
    IF Len(key) = 0 THEN seed ELSE 2 * key[Len(key)] + Len(key) + 3 * seed
=============================================================================
