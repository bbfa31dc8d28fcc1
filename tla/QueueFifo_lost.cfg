SPECIFICATION FifoSpec
CONSTANTS
  n1 = n1
  n2 = n2
  n3 = n3
  n4 = n4
  Node = {n1, n2, n3, n4}
  NULL = NULL
  Removable = {n1, n2}
INVARIANT NothingLost
