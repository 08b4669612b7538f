------------------------------- MODULE MCEngine -------------------------------
(***************************************************************************)
(* Instances of the engine for TLC.  Two keys suffice for ranges that       *)
(* overlap, that are disjoint and that compact_range has to widen; tables   *)
(* of one record (OutputRecs = 1) make every compaction of two keys split.  *)
(***************************************************************************)
EXTENDS Engine

NoRanges       == {}
UpperRange     == {<<2, 2>>}
ReversedAndAll == {<<1, 2>>, <<2, 1>>}
=============================================================================
