SPECIFICATION FifoSpec
CONSTANTS
  n1 = n1
  n2 = n2
  n3 = n3
  n4 = n4
  n5 = n5
  Node = {n1, n2, n3, n4, n5}
  NULL = NULL
  Removable = {n1, n2}
INVARIANTS Represents NoStaleNode
