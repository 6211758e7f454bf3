----------------------------- MODULE MCPyramid -----------------------------
(* Instances of Pyramid for TLC: see the configurations MCPyramid*.cfg.     *)
EXTENDS Pyramid

CONSTANTS w1, w2, x, pt1, pt2, pt3, pt4, pt5, pt6

Workers2 == {w1, w2}
OneAxis  == {x}

\* The voxel at position n of a level.
V(level, n)    == [level |-> level, pos |-> (x :> n)]

\* Tiling left its files on one level or on several.
Level2  == V(2, 0) :> {pt1, pt2} @@ V(2, 1) :> {pt3} @@ V(2, 2) :> {pt4, pt5} @@ V(2, 3) :> {pt6}
Mixed   == V(1, 0) :> {pt1, pt2} @@ V(2, 2) :> {pt3} @@ V(3, 6) :> {pt4} @@ V(3, 7) :> {pt5, pt6}
Sparse  == V(2, 0) :> {pt1, pt2} @@ V(2, 1) :> {pt3}
Deep    == V(1, 0) :> {pt1, pt2} @@ V(3, 6) :> {pt4} @@ V(3, 7) :> {pt5, pt6}
\* V(1, 0) and V(1, 1) are left from an earlier run.
Stale   == V(1, 0) :> {pt1} @@ V(1, 1) :> {pt2} @@ V(2, 0) :> {pt3, pt4} @@ V(2, 3) :> {pt5}
\* An earlier run ended between the creation of a file and its first write.
Empty   == V(1, 0) :> {pt1, pt2, pt3} @@ V(2, 2) :> {}
EmptyUp == V(2, 0) :> {pt1, pt2, pt3} @@ V(2, 1) :> {}
AllEmpty == V(2, 1) :> {}
RootOnly == V(0, 0) :> {pt1}

OnLine  == {Level2, Mixed, Sparse, Deep, Stale, Empty, EmptyUp, AllEmpty, RootOnly}
=============================================================================
