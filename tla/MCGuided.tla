------------------------------- MODULE MCGuided -------------------------------
(* Guided with a face that looks straight, to either side, up or down; from   *)
(* a baseline that was itself a little up or down, too; or from too far away. *)
EXTENDS Guided

Pose(yaw, pitch) == [yaw |-> yaw, pitch |-> pitch, eyes |-> 60]
FarAway == [yaw |-> 0, pitch |-> 50, eyes |-> 29]
MCPoses == {Pose(0, 50), Pose(30, 50), Pose(-30, 52), Pose(2, 64), Pose(-2, 36), FarAway}
=============================================================================
