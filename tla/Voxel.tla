------------------------------- MODULE Voxel -------------------------------
(***************************************************************************)
(* untwine/VoxelKey: the key of a voxel is its level and its position on   *)
(* each axis of the grid of 2^level cells.  A voxel is split in two along  *)
(* every axis.  The code has three axes, so eight children.                *)
(***************************************************************************)
EXTENDS Integers, FiniteSets

CONSTANT Axes
ASSUME AxesAssumption == Axes # {} /\ IsFiniteSet(Axes)

VoxelKey == [level : Nat, pos : [Axes -> Nat]]
Root == [level |-> 0, pos |-> [a \in Axes |-> 0]]

\* The octants of a voxel: the half to take along each axis.
Dirs == [Axes -> {0, 1}]

Child(k, d) == [level |-> k.level + 1, pos |-> [a \in Axes |-> 2 * k.pos[a] + d[a]]]

Parent(k) == [level |-> IF k.level = 0 THEN 0 ELSE k.level - 1,
              pos |-> [a \in Axes |-> k.pos[a] \div 2]]

Children(k) == {Child(k, d) : d \in Dirs}

\* The voxel that is n levels above k.
Up(k) == LET up[n \in Nat] == IF n = 0 THEN k ELSE Parent(up[n - 1]) IN up

\* k, its parent, its parent's parent and so on, the root left out.
Lineage(k)   == {Up(k)[n] : n \in 0..(k.level - 1)}
Ancestors(k) == {Parent(j) : j \in Lineage(k)}

\* k is one of the 2^level cells of its level.
InTree(k) == Root \in {k} \cup Ancestors(k)
=============================================================================
