CONSTANTS
  a = a
  b = b
  c = c
  n = n
  q1 = q1
  q2 = q2
  Id = {a, b}
  Name = {n}
  Root = Root
  None = None
  Request = {q1}
  Initial = {a, b}
  Calls = {"renamemove"}
  BulkLists <- NoLists
SPECIFICATION TreeSpec
CHECK_DEADLOCK FALSE
INVARIANTS
  NoCycles
