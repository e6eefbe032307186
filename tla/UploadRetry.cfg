CONSTANTS
  a = a
  b = b
  s1 = s1
  s2 = s2
  r1 = r1
  folder = folder
  Hash = {a, b}
  Session = {s1, s2}
  NoSession = NoSession
  Request = {r1}
  Folder = {folder}
  Root = Root
  MaxFiles = 3
  Manifests <- MixedManifests
  MD5Choices = {TRUE, FALSE}
  PutContents = {"truncated", "altered", "ok"}
SPECIFICATION HistorySpec
CHECK_DEADLOCK FALSE
SYMMETRY SessionSymmetry
INVARIANTS
  TypeOK
  DamageOnlyByOverwrite
  OneFilePerSession
