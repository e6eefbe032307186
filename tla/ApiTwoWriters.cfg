CONSTANTS
  c1 = c1
  c2 = c2
  u1 = u1
  f1 = f1
  f2 = f2
  h1 = h1
  w1 = w1
  Conn = {c1}
  User = {u1}
  UserOf <- ConnOfOneUser
  NotifyDepth = 1
  SendDepth = 1
  None = None
  File = {}
  Image = {}
  Broken = {}
  Worker = {w1}
  NoFile = NoFile
  Owner <- FileOfOneUser
  Handler = {h1}
  UseSQS = TRUE
SPECIFICATION ApiSpec
CHECK_DEADLOCK FALSE
INVARIANTS
  OneWriter
