------------------------- MODULE MCTargetPublication -------------------------
(* Values of the constants for TLC: two publishers of one commit, or one of  *)
(* a commit whose required checks share a name.                              *)
EXTENDS TargetPublication

MCSameCommit == [p \in Publisher |-> "c1"]
MCAmbiguous == [p \in Publisher |-> "c2"]
=============================================================================
