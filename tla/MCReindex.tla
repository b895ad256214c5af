----------------------------- MODULE MCReindex -----------------------------
(***************************************************************************)
(* The rebuild of one object on k + m nodes, or one more for repair to     *)
(* place a shard elsewhere; weights as in MCStorageClient.                 *)
(***************************************************************************)
EXTENDS Reindex, TLC

CONSTANTS t1, t2

MCWeight == [i \in Idx |-> [n \in Nodes |-> ((n + i - 1) % Cardinality(Nodes)) + 1]]

ThreadSymmetry == Permutations(Threads)
=============================================================================
