---------------------------- MODULE MCThreadPool ----------------------------
(* Instances of ThreadPool for TLC: see the configurations MCThreadPool*.cfg. *)
EXTENDS ThreadPool

CONSTANTS w1, w2, owner, c2, t1, t2, t3, t4, none

Workers2 == {w1, w2}
Clients2 == {owner, c2}
Tasks4   == {t1, t2, t3, t4}
Sizes    == {-1, 1}
=============================================================================
