----------------------------- MODULE MCSession -----------------------------
(* One axis, so two voxels of level 1; a run reads a point of each of them, *)
(* too many points of one, or none.                                         *)
EXTENDS Session
V(i) == [level |-> 1, pos |-> [a \in Axes |-> i]]
Files == {[direct |-> {V(0), V(1)}, big |-> {}], [direct |-> {}, big |-> {V(0)}], NoInput}
Temp == {"none", "dir", "file"}
TempWithKid == {"dir"}
=============================================================================
