----------------------------- MODULE MCMeshJobs -----------------------------
(* MeshJobs with up to three nodes and two jobs; the second job does not   *)
(* fit every node where MCSomeSuit is used.                                *)
EXTENDS MeshJobs, TLC

CONSTANTS n1, n2, n3, j1, j2

MCAllSuit == [j \in Jobs |-> Nodes]
MCSomeSuit == [j \in Jobs |-> IF j = j2 THEN Nodes \ {n1} ELSE Nodes]

MCSym == Permutations({n1, n2}) \cup Permutations({j1, j2})
=============================================================================
