-------------------------- MODULE PutRequestProofs --------------------------
(***************************************************************************)
(* Theorems about PutRequest for every request, every width of the machine *)
(* words that satisfies their relations, and objects of any size.          *)
(***************************************************************************)
EXTENDS PutRequest, FiniteSetTheorems, TLAPS

ErasureSpec == [k : 0 .. (Word32 - 1), m : 0 .. (Word32 - 1), shard_size : 0 .. (Word64 - 1)]

\* The checks that a request has passed when it has a status.
RequestInv ==
    /\ request \in Requests
    /\ spec \in ErasureSpec
    /\ status \in {"encode", "200"} => PutChecks(spec, Len(request.data), request.nodes)
    /\ status = "200" =>
         /\ SpecChecked(spec, Len(request.data))
         /\ shards = encode(request.data, spec)
         /\ present \subseteq 0 .. (spec.k + spec.m - 1)

-----------------------------------------------------------------------------
\* Division with remainder.
LEMMA DivMod ==
    ASSUME NEW a \in Nat, NEW n \in Nat, n > 0
    PROVE  a \div n \in Nat /\ a % n \in 0 .. (n - 1) /\ a = n * (a \div n) + (a % n)
OBVIOUS

LEMMA ModIsBelow ==
    ASSUME NEW a \in Nat, NEW n \in Nat, n > 0
    PROVE  a % n <= a
OBVIOUS

\* Byte y + 1 of a byte sequence in stretches of n bytes.
LEMMA ByteAddress ==
    ASSUME NEW y \in Nat, NEW n \in Nat, n > 0, NEW k \in Nat, y < k * n
    PROVE  \E i \in 0 .. (k - 1), j \in 1 .. n :
              i = y \div n /\ j = (y % n) + 1 /\ i * n + j = y + 1
<1>1. PICK i \in Nat, r \in 0 .. (n - 1) : i = y \div n /\ r = y % n /\ y = n * i + r
  BY DivMod
<1>2. i < k
  BY <1>1
<1>3. n * i = i * n /\ i * n \in Nat
  BY <1>1
<1>4. r + 1 \in 1 .. n /\ i * n + (r + 1) = y + 1
  BY <1>1, <1>3
<1> QED BY <1>1, <1>2, <1>4

\* A sum that passes the checks did not wrap: it would need 2^32 nodes.
LEMMA SumDidNotWrap ==
    ASSUME NEW e \in ErasureSpec, NEW size \in Nat, NEW nodes \in 0 .. (Word32 - 1),
           PutChecks(e, size, nodes)
    PROVE  /\ e.k \in Nat /\ e.m \in Nat /\ e.shard_size \in Nat
           /\ e.k > 0 /\ e.m > 0 /\ e.shard_size > 0
           /\ (e.k + e.m) % Word32 = e.k + e.m
           /\ e.k + e.m <= 255 /\ e.k + e.m <= nodes
           /\ size <= e.k * e.shard_size
<1>1. /\ e.k \in Nat /\ e.m \in Nat /\ e.shard_size \in Nat /\ Word32 \in Nat /\ Word64 \in Nat
      /\ Word32 > 255 /\ Word64 > 0
  <2>1. Word32 * Word32 > 0
    BY WordAssumption
  <2> QED BY <2>1, WordAssumption DEF ErasureSpec
<1>2. e.k > 0 /\ e.m > 0 /\ e.shard_size > 0
  BY <1>1 DEF PutChecks
<1>3. e.k + e.m <= nodes /\ e.k + e.m < Word32
  BY <1>1 DEF PutChecks
<1>4. (e.k + e.m) % Word32 = e.k + e.m
  BY <1>1, <1>3
<1>5. e.k + e.m <= 255
  BY <1>4 DEF PutChecks
<1>6. e.k * e.shard_size \in Nat
  BY <1>1
<1>7. (e.k * e.shard_size) % Word64 <= e.k * e.shard_size
  BY <1>1, <1>6, ModIsBelow
<1>8. (e.k * e.shard_size) % Word64 \in Nat
  BY <1>1, <1>6, DivMod
<1>9. size <= e.k * e.shard_size
  BY <1>6, <1>7, <1>8 DEF PutChecks
<1> QED BY <1>1, <1>2, <1>3, <1>4, <1>5, <1>9

\* What encode() returns: k + m shards of shard_size bytes, the first k of
\* which are the object.
LEMMA EncodeShape ==
    ASSUME NEW data, NEW e, SpecChecked(e, Len(data)), e.shard_size \in Nat,
           e.k \in Nat, e.m \in Nat, (e.k + e.m) % Word32 = e.k + e.m
    PROVE  /\ DOMAIN encode(data, e) = 0 .. (e.k + e.m - 1)
           /\ \A i \in 0 .. (e.k + e.m - 1) : Len(encode(data, e)[i]) = e.shard_size
           /\ \A i \in 0 .. (e.k - 1) : encode(data, e)[i] = DataShard(data, e, i)
<1> DEFINE n == (e.k + e.m) % Word32
           plain == [c \in 0 .. (e.k - 1) |-> DataShard(data, e, c)]
           parity(i) == [j \in 1 .. e.shard_size |->
                           Dot(RsMatrix(n, e.k)[i], [c \in DOMAIN plain |-> plain[c][j]])]
<1>1. encode(data, e) = [i \in 0 .. (n - 1) |-> IF i < e.k THEN plain[i] ELSE parity(i)]
  BY Zenon DEF encode
<1>2. \A i : Len(parity(i)) = e.shard_size
  OBVIOUS
<1>3. \A i : Len(DataShard(data, e, i)) = e.shard_size
  BY DEF DataShard
<1> HIDE DEF parity
<1>4. \A i \in 0 .. (e.k - 1) : plain[i] = DataShard(data, e, i)
  OBVIOUS
<1>n. n = e.k + e.m
  OBVIOUS
<1> HIDE DEF plain, n
<1>5. DOMAIN encode(data, e) = 0 .. (e.k + e.m - 1)
  BY <1>1, <1>n
<1>6. ASSUME NEW i \in 0 .. (e.k - 1) PROVE encode(data, e)[i] = DataShard(data, e, i)
  BY <1>1, <1>4, <1>n
<1>7. ASSUME NEW i \in 0 .. (e.k + e.m - 1) PROVE Len(encode(data, e)[i]) = e.shard_size
  <2>1. CASE i < e.k
    BY <1>3, <1>6, <2>1
  <2>2. CASE ~ (i < e.k)
    <3>1. encode(data, e)[i] = parity(i)
      BY <1>1, <1>n, <2>2
    <3> QED BY <1>2, <3>1
  <2> QED BY <2>1, <2>2
<1> QED BY <1>5, <1>6, <1>7

-----------------------------------------------------------------------------
LEMMA InitRequest == Init => RequestInv
<1>1. NoSpec \in ErasureSpec
  <2>1. Word32 > 0 /\ Word64 > 0 /\ Word32 \in Nat /\ Word64 \in Nat
    <3>1. Word32 * Word32 > 0
      BY WordAssumption
    <3> QED BY <3>1, WordAssumption
  <2> QED BY <2>1 DEF NoSpec, ErasureSpec
<1> QED BY <1>1 DEF Init, RequestInv

LEMMA RequestTypes ==
    ASSUME request \in Requests
    PROVE  /\ request.data \in Seq(0 .. 255) /\ Len(request.data) \in Nat
           /\ request.nodes \in 0 .. (Word32 - 1)
BY RequestAssumption

LEMMA NextRequest == RequestInv /\ [Next]_vars => RequestInv'
<1> SUFFICES ASSUME RequestInv, [Next]_vars PROVE RequestInv'
  OBVIOUS
<1>1. CASE ParseRequest
  <2>1. spec' \in ErasureSpec
    <3>1. CASE IsUnsigned(request.k) /\ IsUnsigned(request.m) /\ IsUnsigned(request.shard_size)
      <4>1. request.k % Word32 \in 0 .. (Word32 - 1) /\ request.m % Word32 \in 0 .. (Word32 - 1)
        BY <3>1, WordAssumption DEF IsUnsigned
      <4> QED BY <1>1, <3>1, <4>1 DEF ParseRequest, IsUnsigned, ErasureSpec
    <3> QED BY <1>1, <3>1 DEF ParseRequest, RequestInv
  <2>2. request' = request /\ status' \notin {"encode", "200"}
    BY <1>1 DEF ParseRequest
  <2> QED BY <2>1, <2>2 DEF RequestInv
<1>2. CASE Validate
  BY <1>2 DEF Validate, RequestInv
<1>3. CASE Encode
  <2>0. UNCHANGED <<request, spec>> /\ status = "encode"
    BY <1>3 DEF Encode
  <2>1. CASE encode(request.data, spec) = Failed
    BY <1>3, <2>0, <2>1 DEF Encode, RequestInv
  <2>2. CASE encode(request.data, spec) # Failed
    <3>1. status' = "200" /\ shards' = encode(request.data, spec)
          /\ present' = DOMAIN encode(request.data, spec)
      BY <1>3, <2>2 DEF Encode
    <3>2. SpecChecked(spec, Len(request.data))
      BY <2>2 DEF encode
    <3>3. PutChecks(spec, Len(request.data), request.nodes)
      BY <2>0 DEF RequestInv
    <3>4. /\ spec.k \in Nat /\ spec.m \in Nat /\ spec.shard_size \in Nat
          /\ (spec.k + spec.m) % Word32 = spec.k + spec.m
      BY <3>3, RequestTypes, SumDidNotWrap DEF RequestInv
    <3>5. present' = 0 .. (spec.k + spec.m - 1)
      BY <3>1, <3>2, <3>4, EncodeShape
    <3> QED BY <2>0, <3>1, <3>2, <3>3, <3>5 DEF RequestInv
  <2> QED BY <2>1, <2>2
<1>4. CASE LoseShard
  BY <1>4 DEF LoseShard, RequestInv
<1>5. CASE Finished \/ UNCHANGED vars
  BY <1>5 DEF Finished, vars, RequestInv
<1> QED BY <1>1, <1>2, <1>3, <1>4, <1>5 DEF Next

LEMMA RequestInvariant == Spec => []RequestInv
BY InitRequest, NextRequest, PTL DEF Spec

\* Whatever k, m and shard_size a request asks for and whichever of the sums
\* and products of the checks wraps, put() goes on only with a spec that the
\* field, the cluster and the object fit.  The sum of the limit check does
\* wrap; it is the comparison with the node count, made in size_t, that
\* refuses those specs, as long as fewer than 2^32 nodes are registered.
THEOREM AdmittedAreSound == Spec => []AdmittedSpecsAreSound
<1>1. RequestInv => AdmittedSpecsAreSound
  BY RequestTypes, SumDidNotWrap DEF RequestInv, AdmittedSpecsAreSound
<1> QED BY <1>1, RequestInvariant, PTL

\* With fewer than k shards left get() fails; it never returns other bytes.
THEOREM TooFewShardsFail ==
    Spec => [](status = "200" /\ Cardinality(present) < spec.k => get = Failed)
<1>1. RequestInv => (status = "200" /\ Cardinality(present) < spec.k => get = Failed)
  BY DEF get, decode
<1> QED BY <1>1, RequestInvariant, PTL

\* As long as the data shards all answer, get() returns the object byte for
\* byte, whatever its size, the size of the shards and the padding of the
\* last ones, and whichever parity shards are lost.  (Failed stands for an
\* exception: it is not a function.)
THEOREM DataShardsSuffice ==
    ASSUME Failed # [i \in DOMAIN Failed |-> Failed[i]]
    PROVE  Spec => [](status = "200" /\ 0 .. (spec.k - 1) \subseteq present
                        => get = request.data)
<1>1. ASSUME RequestInv, status = "200", 0 .. (spec.k - 1) \subseteq present
      PROVE  get = request.data
  <2> DEFINE data == request.data
             answered == [i \in present |-> shards[i]]
             ss == spec.shard_size
  <2>1. /\ data \in Seq(0 .. 255) /\ Len(data) \in Nat
        /\ PutChecks(spec, Len(data), request.nodes) /\ SpecChecked(spec, Len(data))
        /\ shards = encode(data, spec)
        /\ present \subseteq 0 .. (spec.k + spec.m - 1)
    BY <1>1, RequestTypes DEF RequestInv
  <2>2. /\ spec.k \in Nat /\ spec.m \in Nat /\ ss \in Nat /\ ss > 0
        /\ (spec.k + spec.m) % Word32 = spec.k + spec.m
        /\ Len(data) <= spec.k * ss
    BY <1>1, <2>1, RequestTypes, SumDidNotWrap DEF RequestInv
  <2>3. /\ \A i \in 0 .. (spec.k + spec.m - 1) : Len(shards[i]) = ss
        /\ \A i \in 0 .. (spec.k - 1) : shards[i] = DataShard(data, spec, i)
    BY <2>1, <2>2, EncodeShape
  <2>4. DOMAIN answered = present /\ \A i \in present : answered[i] = shards[i]
    OBVIOUS
  <2>5. Cardinality(present) \in Nat /\ Cardinality(present) >= spec.k
    <3>0. 0 \in Int /\ spec.k - 1 \in Int /\ spec.k + spec.m - 1 \in Int
      BY <2>2
    <3>1. IsFiniteSet(0 .. (spec.k + spec.m - 1)) /\ present \in SUBSET (0 .. (spec.k + spec.m - 1))
      BY <2>1, <3>0, FS_Interval
    <3>2. IsFiniteSet(present)
      BY <3>1, FS_Subset
    <3>3. Cardinality(0 .. (spec.k - 1)) = IF 0 > spec.k - 1 THEN 0 ELSE (spec.k - 1) - 0 + 1
      BY <3>0, FS_Interval
    <3>4. Cardinality(0 .. (spec.k - 1)) = spec.k
      BY <2>2, <3>3
    <3>5. 0 .. (spec.k - 1) \in SUBSET present
      BY <1>1
    <3>6. Cardinality(0 .. (spec.k - 1)) <= Cardinality(present)
      BY <3>2, <3>5, FS_Subset
    <3>7. Cardinality(present) \in Nat
      BY <3>2, FS_CardinalityType
    <3> QED BY <2>2, <3>4, <3>6, <3>7
  <2>6. ~ \E i \in present : i >= spec.k + spec.m \/ Len(answered[i]) # ss
    BY <2>1, <2>2, <2>3, <2>4
  <2>7. answered # Failed
    OBVIOUS
  <2> HIDE DEF answered
  <2>8. get = [x \in 1 .. Len(data) |-> answered[(x - 1) \div ss][((x - 1) % ss) + 1]]
    <3>1. get = decode(answered, spec, Len(data))
      BY DEF get, answered
    <3> QED BY <1>1, <2>1, <2>2, <2>4, <2>5, <2>6, <2>7, <3>1 DEF decode
  <2>9. ASSUME NEW x \in 1 .. Len(data)
        PROVE  answered[(x - 1) \div ss][((x - 1) % ss) + 1] = data[x]
    <3>1. x - 1 \in Nat /\ x - 1 < spec.k * ss
      <4>1. spec.k * ss \in Nat
        BY <2>2
      <4> QED BY <2>1, <2>2, <4>1
    <3>2. PICK i \in 0 .. (spec.k - 1), j \in 1 .. ss :
             i = (x - 1) \div ss /\ j = ((x - 1) % ss) + 1 /\ i * ss + j = (x - 1) + 1
      BY <2>2, <3>1, ByteAddress
    <3>3. i * ss + j = x
      BY <3>1, <3>2
    <3>4. answered[i] = DataShard(data, spec, i)
      BY <1>1, <2>3, <2>4
    <3>5. DataShard(data, spec, i)[j] = IF i * ss + j <= Len(data) THEN data[i * ss + j] ELSE 0
      BY DEF DataShard
    <3>6. DataShard(data, spec, i)[j] = data[x]
      BY <2>1, <3>3, <3>5
    <3> QED BY <3>2, <3>4, <3>6
  <2>10. get = [x \in 1 .. Len(data) |-> data[x]]
    BY <2>8, <2>9
  <2> QED BY <2>1, <2>10
<1> QED BY <1>1, RequestInvariant, PTL
=============================================================================
