CONSTANTS
  e1 = e1
  e2 = e2
  s1 = s1
  s2 = s2
  p1 = p1
  p2 = p2
  q1 = q1
  q2 = q2
  c1 = c1
  t1 = t1
  Email = {e1}
  Password = {p1, p2}
  Random = Random
  Session = {s1, s2}
  Code = {c1}
  ResetToken = {t1}
  Request = {q1, q2}
  Expiring = {None}
  None = None
SPECIFICATION AuthSpec
SYMMETRY Symmetry
INVARIANTS
  AuthTypeOK
  SessionsFollowPassword
  TokensVouched
