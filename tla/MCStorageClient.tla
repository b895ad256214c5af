-------------------------- MODULE MCStorageClient --------------------------
(***************************************************************************)
(* One object on as few nodes as let a shard be moved.  With the weights   *)
(* below shard 0 prefers the highest node, shard 1 the second highest, and *)
(* so on, so a node that joins or leaves shifts every shard by one and     *)
(* every node is contested by two shards.                                  *)
(***************************************************************************)
EXTENDS StorageClient, TLC

CONSTANTS t1, t2

MCWeight == [i \in Idx |-> [n \in Nodes |-> ((n + i - 1) % Cardinality(Nodes)) + 1]]

ThreadSymmetry == Permutations(Threads)
=============================================================================
