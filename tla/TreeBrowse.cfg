CONSTANTS
  a = a
  b = b
  c = c
  n = n
  q1 = q1
  q2 = q2
  Id = {a, b, c}
  Name = {n}
  Root = Root
  None = None
  Request = {q1, q2}
  Initial = {a}
  Calls = {"renamemove", "createfolder", "softdelete", "restore", "delete", "shortcut"}
  BulkLists <- NoLists
SPECIFICATION TreeSpec
CHECK_DEADLOCK FALSE
SYMMETRY RowsSymmetry
INVARIANTS
  LinksResolve
  TreeTypeOK
  
