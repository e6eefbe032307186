CONSTANTS
  a = a
  b = b
  c = c
  n = n
  q1 = q1
  q2 = q2
  Id = {a, b}
  Name = {n}
  Root = Root
  None = None
  Request = {q1, q2}
  Initial = {a}
  Calls = {"renamemove", "bulkmove", "delete", "upload", "createfolder", "shortcut"}
  BulkLists <- OppositeLists
SPECIFICATION TreeFairSpec
CHECK_DEADLOCK FALSE
INVARIANTS
  LinksResolve
PROPERTIES
  TreeRequestsReturn
  CyclesComeFromMoves
