----------------------------- MODULE Placement -----------------------------
(***************************************************************************)
(* Where the shards of one object go: the HRW (rendezvous) placement of    *)
(* core/ShardTransport.cpp, which put(), repair() and rebalance_object()   *)
(* share, and the target assignment of StorageClient::repair().            *)
(*                                                                         *)
(* A node address is a natural number; `<` on addresses is the string      *)
(* order the code breaks ties with.  weight[i][n] is hrw_weight of the     *)
(* object at hand, a 64-bit hash of (object, shard index, node): any table *)
(* of naturals, ties included.                                             *)
(***************************************************************************)
EXTENDS Integers, FiniteSets

CONSTANTS Nodes,    \* addresses of the storage nodes that may be registered
          K,        \* data_shards of the object's ErasureSpec
          M         \* parity_shards

Total == K + M

Idx == 0 .. (Total - 1)

\* put() refuses k = 0, m = 0 and k + m > 255.
ASSUME PlacementAssumption ==
    /\ Nodes \subseteq Nat /\ IsFiniteSet(Nodes)
    /\ K \in Nat \ {0}
    /\ M \in Nat \ {0}
    /\ Total <= 255

\* The tables hrw_weight can give.
Weights == [Idx -> [Nodes -> Nat]]

-----------------------------------------------------------------------------
\* The scan of the inner loop keeps n over other.
Outranks(weight, i, n, other) ==
    \/ weight[i][n] > weight[i][other]
    \/ weight[i][n] = weight[i][other] /\ n <= other

\* A greedy step that forgets the nodes assigned to lower shard indices.
GreedyWithoutExclusion(weight, f, eligible) ==
    \A i \in Idx :
        /\ f[i] \in eligible
        /\ \A n \in eligible : Outranks(weight, i, f[i], n)

\* Shard i takes the best eligible node no lower shard index has taken.
IsHrwPlacement(weight, f, eligible) ==
    \A i \in Idx :
        LET free == eligible \ {f[j] : j \in 0 .. (i - 1)}
        IN  /\ f[i] \in free
            /\ \A n \in free : Outranks(weight, i, f[i], n)

\* Defined when eligible has at least Total nodes; the code throws otherwise.
hrw_intended_nodes(weight, eligible) ==
    CHOOSE f \in [Idx -> eligible] : IsHrwPlacement(weight, f, eligible)

\* The nodes a placement puts shards on.
NodesOf(f) == {f[i] : i \in Idx}

-----------------------------------------------------------------------------
\* The nodes repair() may give missing shard i, when the missing shards of
\* lower index took the nodes of `taken`: the HRW-intended node when it is
\* healthy and free, else the fallback pool, nodes without a surviving shard
\* (used) first.  The order inside the pool is the registration order, left
\* open here.  HRW is only computable with Total nodes registered.
RepairCandidates(weight, i, taken, healthy, used, eligible) ==
    LET free      == healthy \ taken
        preferred == {n \in free : /\ Cardinality(eligible) >= Total
                                   /\ n = hrw_intended_nodes(weight, eligible)[i]}
        unused    == free \ used
    IN  IF preferred # {} THEN preferred
        ELSE IF unused # {} THEN unused
        ELSE free

\* One distinct healthy target per missing shard, in index order.
IsRepairAssignment(weight, target, missing, healthy, used, eligible) ==
    \A i \in missing :
        target[i] \in
            RepairCandidates(weight, i, {target[j] : j \in {h \in missing : h < i}},
                             healthy, used, eligible)
=============================================================================
