CONSTANTS
  n1 = n1
  n2 = n2
  n3 = n3
  n4 = n4
  v1 = v1
  v2 = v2
  Garbage = Garbage
  NoValue = NoValue
  Nodes = {n1, n2, n3, n4}
  Values = {v1, v2}
  Keys = {0, 1, 2}
  BUCKETS = 2
  Lists <- MCLists
SPECIFICATION Spec
SYMMETRY HeapSymmetry
INVARIANTS LinksSound
PROPERTIES MapSpec
