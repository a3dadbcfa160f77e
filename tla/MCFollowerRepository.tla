------------------------ MODULE MCFollowerRepository ------------------------
(***************************************************************************)
(* TLC instance of FollowerRepository.  Three users make every list long   *)
(* enough for a removal at its head, in its middle and at its tail; the    *)
(* graphs explored are those with at most MaxEdges recorded edges.         *)
(***************************************************************************)
EXTENDS FollowerRepository, TLC

CONSTANT MaxEdges

EdgeBound == Cardinality(IdolEdges \cup FollowerEdges) <= MaxEdges

\* The code never compares two ids other than for equality.
UserSymmetry == Permutations(Users)

=============================================================================
