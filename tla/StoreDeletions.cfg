CONSTANTS
  a = a
  s1 = s1
  s2 = s2
  r1 = r1
  d1 = d1
  folder = folder
  Hash = {a}
  Session = {s1, s2}
  NoSession = NoSession
  Request = {r1}
  Folder = {folder}
  Root = Root
  MaxFiles = 2
  Manifests <- OneBlock
  MD5Choices = {TRUE}
  PutContents = {"truncated", "ok"}
  Deleter = {d1}
  BulkLists <- FolderLists
  DryRun = FALSE
SPECIFICATION StoreSpec
SYMMETRY SessionSymmetry
INVARIANTS
  StoreTypeOK
  LossOnlyFromRace
  StuckOnlyByCollection
  NoOrphanFiles
PROPERTIES
  ImplementsSafeCatalog
CHECK_DEADLOCK FALSE
