---------------------------- MODULE MCApiProcess ----------------------------
(* Instances of ApiProcess for TLC.                                         *)
EXTENDS ApiProcess

CONSTANTS c1, c2, u1, f1, f2, h1, w1

ConnOfOneUser == [c \in Conn |-> u1]
FileOfOneUser == [f \in File |-> u1]

(* To keep the graph small enough for liveness: connections and the         *)
(* backplane after all files were deleted, or files on a single node after  *)
(* all connections have ended.                                              *)
SplitInit == ApiInit({}, File, TRUE) \/ ApiInit(Conn, {}, FALSE)
SplitFairSpec == SplitInit /\ [][ApiNext]_apiVars /\ Fair
=============================================================================
