CONSTANTS
  u1 = u1
  u2 = u2
  u3 = u3
  Users = {u1, u2, u3}
  Allocs = {"stored", "refused"}
  MaxEdges = 4
SPECIFICATION Spec
SYMMETRY UserSymmetry
CONSTRAINT EdgeBound
INVARIANTS DumpImpliesPush NoDuplicates
PROPERTIES GraphSpec CallsMatchGraph
