----------------------------- MODULE ChunkStore -----------------------------
(***************************************************************************)
(* What bu promises, whatever the order in which its threads work: every   *)
(* point of the temporary files is put in one chunk of the output, a voxel *)
(* has at most one chunk, and a run that succeeds has left no point behind *)
(* and has a chunk for the parent of every voxel that has one.             *)
(***************************************************************************)
EXTENDS Voxel

CONSTANTS Points, Voxels

VARIABLES
    pending,    \* points that are in no chunk yet
    chunks,     \* the points of each voxel that has a chunk
    outcome

Init ==
    /\ pending \in SUBSET Points
    /\ chunks = <<>>
    /\ outcome = "running"

\* An empty chunk only makes the tree complete.
Put(k, S) ==
    /\ outcome = "running" /\ k \notin DOMAIN chunks /\ S \subseteq pending
    /\ chunks' = [j \in DOMAIN chunks \cup {k} |-> IF j = k THEN S ELSE chunks[j]]
    /\ pending' = pending \ S
    /\ UNCHANGED outcome

Succeed ==
    /\ outcome = "running" /\ pending = {}
    /\ Root \in DOMAIN chunks
    /\ \A k \in DOMAIN chunks : Parent(k) \in DOMAIN chunks
    /\ outcome' = "done"
    /\ UNCHANGED <<pending, chunks>>

\* A run that fails promises nothing.
Fail ==
    /\ outcome = "running" /\ outcome' = "failed"
    /\ UNCHANGED <<pending, chunks>>

Next ==
    \/ \E k \in Voxels, S \in SUBSET pending : Put(k, S)
    \/ Succeed
    \/ Fail

Spec == Init /\ [][Next]_<<pending, chunks, outcome>>
=============================================================================
