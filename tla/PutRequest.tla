----------------------------- MODULE PutRequest -----------------------------
(***************************************************************************)
(* One object from the JSON numbers of PUT /objects/:id to its shards, and *)
(* back from those that survive: the route of StorageClientServer, the     *)
(* validation of StorageClient::put(), encode(), the loss of one shard     *)
(* after another (every shard is on a node of its own), and the decode()   *)
(* of get().                                                               *)
(***************************************************************************)
EXTENDS ErasureCodec

CONSTANTS Requests   \* records [k, m, shard_size, data, nodes]; nodes is the
                     \* number of registered storage nodes

\* An object is bytes, and the nodes table has fewer than 2^32 rows.  The k, m
\* and shard_size of a request may be anything.
ASSUME RequestAssumption ==
    \A r \in Requests : r.data \in Seq(0 .. 255) /\ r.nodes \in 0 .. (Word32 - 1)

VARIABLES request,   \* the request under way
          spec,      \* the ErasureSpec made from it
          status,    \* "parse", "validate", "encode", or the HTTP status
          shards,    \* what encode() returned
          present    \* the shards that still answer

vars == <<request, spec, status, shards, present>>

NoSpec == [k |-> 0, m |-> 0, shard_size |-> 0]

Init ==
    /\ request \in Requests
    /\ spec = NoSpec
    /\ status = "parse"
    /\ shards = <<>>
    /\ present = {}

\* is_number_unsigned() of the JSON library.
IsUnsigned(x) == x \in 0 .. (Word64 - 1)

\* The PUT route: malformed fields are answered with 400, k and m are
\* converted to uint32_t.
ParseRequest ==
    /\ status = "parse"
    /\ IF IsUnsigned(request.k) /\ IsUnsigned(request.m) /\ IsUnsigned(request.shard_size)
       THEN /\ spec' = [k |-> request.k % Word32, m |-> request.m % Word32,
                        shard_size |-> request.shard_size]
            /\ status' = "validate"
       ELSE /\ status' = "400"
            /\ UNCHANGED spec
    /\ UNCHANGED <<request, shards, present>>

\* Counting the nodes with the sum of the limit check.
PutChecksNarrow(e, size, nodes) ==
    /\ size # 0
    /\ e.k # 0
    /\ e.m # 0
    /\ (e.k + e.m) % Word32 <= 255
    /\ e.shard_size # 0
    /\ size <= (e.k * e.shard_size) % Word64
    /\ nodes >= (e.k + e.m) % Word32

\* The checks of put(): k + m wraps as uint32_t in the first sum and not in
\* the second, k * shard_size wraps as size_t.
PutChecks(e, size, nodes) ==
    /\ size # 0
    /\ e.k # 0
    /\ e.m # 0
    /\ (e.k + e.m) % Word32 <= 255
    /\ e.shard_size # 0
    /\ size <= (e.k * e.shard_size) % Word64
    /\ nodes >= e.k + e.m

\* put() validates; what it throws is answered with 500.
Validate ==
    /\ status = "validate"
    /\ status' = IF PutChecks(spec, Len(request.data), request.nodes) THEN "encode" ELSE "500"
    /\ UNCHANGED <<request, spec, shards, present>>

\* put() encodes and stores; encode() checks once more.
Encode ==
    /\ status = "encode"
    /\ LET encoded == encode(request.data, spec)
       IN  IF encoded = Failed
           THEN /\ status' = "500"
                /\ UNCHANGED <<shards, present>>
           ELSE /\ status' = "200"
                /\ shards' = encoded
                /\ present' = DOMAIN encoded
    /\ UNCHANGED <<request, spec>>

\* A storage node is lost, down to one shard fewer than get() needs.
LoseShard ==
    /\ status = "200"
    /\ Cardinality(present) >= spec.k
    /\ \E i \in present : present' = present \ {i}
    /\ UNCHANGED <<request, spec, status, shards>>

\* Refused, or too few shards are left.
Finished ==
    /\ \/ status \in {"400", "500"}
       \/ status = "200" /\ Cardinality(present) < spec.k
    /\ UNCHANGED vars

Next == ParseRequest \/ Validate \/ Encode \/ LoseShard \/ Finished

Spec == Init /\ [][Next]_vars

-----------------------------------------------------------------------------
\* get() of the object from the shards that answer.
get == decode([i \in present |-> shards[i]], spec, Len(request.data))

\* "an object comes back if, and only if, at least k shards survive", and it
\* comes back byte for byte.
ComesBackIffKSurvive ==
    status = "200" => (Cardinality(present) >= spec.k <=> get = request.data)

\* Whatever wraps on the way, put() goes on to encode, place and commit only
\* specs that the codec and the cluster can carry: the true k + m is within
\* the field and the registered nodes, and the object fits its data shards.
AdmittedSpecsAreSound ==
    status \in {"encode", "200"} =>
        /\ spec.k > 0 /\ spec.m > 0
        /\ spec.k + spec.m <= 255
        /\ spec.k + spec.m <= request.nodes
        /\ Len(request.data) <= spec.k * spec.shard_size
=============================================================================
