CONSTANTS
  c1 = c1
  c2 = c2
  u1 = u1
  f1 = f1
  f2 = f2
  h1 = h1
  w1 = w1
  Conn = {c1}
  User = {u1}
  UserOf <- ConnOfOneUser
  NotifyDepth = 1
  SendDepth = 1
  None = None
  File = {f1, f2}
  Image = {f1, f2}
  Broken = {f2}
  Worker = {w1}
  NoFile = NoFile
  Owner <- FileOfOneUser
  Handler = {h1}
  UseSQS = TRUE
SPECIFICATION SplitFairSpec
CHECK_DEADLOCK FALSE
INVARIANTS
  ApiTypeOK
  ClientsOpen
  ClientsForgotten
  JobsKeptUntilDone
PROPERTIES
  CallsReturn
  ConnectionsEnd
  ThumbnailsArrive
  ShutdownEnds
