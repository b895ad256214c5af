---------------------------- MODULE MCPutRequest ----------------------------
(* Requests at the edges of the checks, with the machine words scaled down  *)
(* to a few hundred values, and codes over real GF(2^8) bytes.              *)
EXTENDS PutRequest

CONSTANTS Codes,      \* [k, m, shard_size] of ordinary requests
          Lengths,    \* sizes of their objects
          EdgeCounts, \* values of k and m at the edges
          EdgeSizes,  \* values of shard_size at the edges
          EdgeNodes   \* sizes of the cluster

\* An object without symmetries between its bytes.
Object(size) == [x \in 1 .. size |-> (37 * x + 201) % 256]

MCRequests ==
    {[k |-> c[1], m |-> c[2], shard_size |-> c[3], data |-> Object(size), nodes |-> c[1] + c[2]] :
        c \in Codes, size \in Lengths}
    \cup
    {[k |-> k, m |-> m, shard_size |-> ss, data |-> Object(size), nodes |-> nodes] :
        k \in EdgeCounts, m \in EdgeCounts, ss \in EdgeSizes,
        size \in {0, 2}, nodes \in EdgeNodes}

MCCodes == {<<1, 1, 3>>, <<2, 1, 2>>, <<2, 2, 3>>, <<3, 2, 1>>, <<4, 2, 2>>, <<5, 5, 1>>, <<8, 4, 1>>}
MCBadCode == {<<6, 5, 1>>}
=============================================================================
