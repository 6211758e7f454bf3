---------------------------- MODULE MCReprocess ----------------------------
(* Instances of Reprocess for TLC: see the configurations MCReprocess*.cfg. *)
EXTENDS Reprocess

CONSTANTS p1, p2, w1, w2, x

Procs1   == {p1}
Procs2   == {p1, p2}
Writers1 == {w1}
Writers2 == {w1, w2}
OneAxis  == {x}

V(level, n) == [level |-> level, pos |-> (x :> n)]

\* Two voxels of the first pass and those below them that their points fall in.
Pair == {V(1, 0), V(1, 1)} \cup {V(2, n) : n \in 0..2}
\* With MaxPointsPerNode = 2.
PairSizes  == {V(1, 0) :> 3 @@ V(1, 1) :> 1, V(1, 0) :> 3 @@ V(1, 1) :> 3}
ExactSizes == {V(1, 0) :> 2 @@ V(1, 1) :> 1}
=============================================================================
