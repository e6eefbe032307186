-------------------------- MODULE MCAuthSessions --------------------------
(* Instances of AuthSessions for TLC.                                       *)
EXTENDS AuthSessions, TLC

CONSTANTS e1, e2, s1, s2, p1, p2, q1, q2, c1, t1

Symmetry == Permutations(Email) \cup Permutations(Session)
              \cup Permutations(Password) \cup Permutations(Request)
=============================================================================
