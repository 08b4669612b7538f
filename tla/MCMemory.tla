------------------------------ MODULE MCMemory ------------------------------
(***************************************************************************)
(* Instances of MemTable for TLC.  Pages of four bytes that double once,   *)
(* records that fill a page, that cross into the next and that are large,  *)
(* and objects that need alignment.  The builds that draw priorities or    *)
(* heights have fewer calls; a red-black tree needs eight records for a    *)
(* recolouring that calls for a rotation higher up.                        *)
(***************************************************************************)
EXTENDS MemTable, TLC

KeySizes   == <<1, 1, 2>>
ValueSizes == <<2, 5, 0>>
ObjectSet  == {<<1, 2, 2>>}
Calls      == [d \in DriverClasses |-> IF d \in {"Treap", "SkipList"} THEN 4 ELSE 5]
Heights    == [d \in DriverClasses |-> IF d = "RBTree" THEN 8 ELSE 5]
ThreadSymmetry == Permutations(Readers) \cup Permutations(Flushers)
=============================================================================
