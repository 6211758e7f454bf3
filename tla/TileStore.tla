------------------------------ MODULE TileStore ------------------------------
(***************************************************************************)
(* What the tiling phase promises, whatever its threads and buffers do:    *)
(* a voxel's file never holds more points than arrived for it, and when    *)
(* the phase reports success it holds all of them.  Tiling implements it   *)
(* (ImplementsTileStore there).                                            *)
(***************************************************************************)
EXTENDS Naturals

CONSTANTS Keys      \* the voxels

VARIABLES
    arrived,    \* points read so far, by voxel
    stored,     \* points in each voxel's file
    outcome     \* "running", then "tiled" or "failed"

Init ==
    /\ arrived = [k \in Keys |-> 0]
    /\ stored = [k \in Keys |-> 0]
    /\ outcome = "running"

Arrive(k) ==
    /\ outcome = "running"
    /\ arrived' = [arrived EXCEPT ![k] = @ + 1]
    /\ UNCHANGED <<stored, outcome>>

\* Some of the points that are not in the file yet are appended to it.
Store(k) ==
    /\ outcome = "running"
    /\ \E n \in 1..(arrived[k] - stored[k]) : stored' = [stored EXCEPT ![k] = @ + n]
    /\ UNCHANGED <<arrived, outcome>>

Succeed ==
    /\ outcome = "running" /\ stored = arrived
    /\ outcome' = "tiled"
    /\ UNCHANGED <<arrived, stored>>

Fail ==
    /\ outcome = "running"
    /\ outcome' = "failed"
    /\ UNCHANGED <<arrived, stored>>

Next == (\E k \in Keys : Arrive(k) \/ Store(k)) \/ Succeed \/ Fail

Spec == Init /\ [][Next]_<<arrived, stored, outcome>>
=============================================================================
