CONSTANTS
  a = a
  b = b
  s1 = s1
  s2 = s2
  r1 = r1
  folder = folder
  r2 = r2
  Hash = {a, b}
  Session = {s1, s2}
  NoSession = NoSession
  Request = {r1, r2}
  Folder = {folder}
  Root = Root
  MaxFiles = 2
  Manifests <- OppositeManifests
  MD5Choices = {TRUE}
  PutContents = {"ok"}
SPECIFICATION FairSpec
CHECK_DEADLOCK FALSE
INVARIANTS
  LinkedRowsExist
  OneRowPerHash
PROPERTIES
  ImplementsCatalog
  RequestsReturn
