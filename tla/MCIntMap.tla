------------------------------ MODULE MCIntMap ------------------------------
(***************************************************************************)
(* TLC instance of IntMap: two buckets, two keys in the first and one in   *)
(* the second, so that removals happen at the head, in the middle and at   *)
(* the tail of a bucket.                                                   *)
(***************************************************************************)
EXTENDS IntMap, TLC

CONSTANTS n1, n2, n3, n4, v1, v2

MCLists == 0 .. BUCKETS - 1

\* Cells and values are only ever compared for equality.
HeapSymmetry == Permutations(Nodes) \cup Permutations(Values)
=============================================================================
