CONSTANTS
  a = a
  s1 = s1
  s2 = s2
  r1 = r1
  d1 = d1
  folder = folder
  Hash = {a}
  Session = {s1, s2}
  NoSession = NoSession
  Request = {r1}
  Folder = {}
  Root = Root
  MaxFiles = 2
  Manifests <- OneBlock
  MD5Choices = {TRUE}
  PutContents = {"ok"}
  Deleter = {}
  BulkLists <- NoLists
  DryRun = FALSE
SPECIFICATION StoreSpec
SYMMETRY SessionSymmetry
INVARIANTS
  UsedBlocksStay
CHECK_DEADLOCK FALSE
