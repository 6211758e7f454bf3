------------------------------ MODULE MCTiling ------------------------------
(* Instances of Tiling for TLC: see the configurations MCTiling*.cfg.       *)
EXTENDS Tiling

CONSTANTS p1, p2, p3, w1, w2, k1, k2, k3, scratch

Procs1   == {p1}
Procs2   == {p1, p2}
Procs3   == {p1, p2, p3}
Writers1 == {w1}
Writers2 == {w1, w2}
Keys1    == {k1}
Keys2    == {k1, k2}
Keys3    == {k1, k2, k3}

\* Sound for runs without temporal properties only.
Symmetric ==
    Permutations(Procs) \cup Permutations(Writers) \cup Permutations(Keys)
=============================================================================
