---------------------------- MODULE ErasureCodec ----------------------------
(***************************************************************************)
(* core/ErasureCodec.cpp: the layout of an object in k data shards, its m  *)
(* Reed-Solomon parity shards, and the decoding of whatever shards come    *)
(* back.  The arithmetic of ISA-L is the real one over GF(2^8), because    *)
(* which shards decode depends on the matrix the code asks for.            *)
(*                                                                         *)
(* A spec is a record [k, m, shard_size]; bytes are sequences over 0..255; *)
(* the shards that came back are a function from shard index to bytes.     *)
(***************************************************************************)
EXTENDS Integers, Sequences, FiniteSets, SequencesExt

CONSTANTS Word32,   \* 2^32: uint32_t arithmetic is modulo this
          Word64,   \* 2^64: size_t arithmetic is modulo this
          IntMax,   \* numeric_limits<int>::max(), ISA-L's limit on lengths
          Failed    \* the function throws

\* The relations between the three that the checks depend on.
ASSUME WordAssumption ==
    /\ Word32 \in Nat /\ Word32 > 255
    /\ Word64 \in Nat /\ Word64 >= Word32 * Word32
    /\ IntMax \in Nat /\ IntMax < Word32

-----------------------------------------------------------------------------
\* Addition in GF(2^8): the exclusive or of two bytes, bit by bit.
gf_add(a, b) ==
    LET Sum[x, y \in 0 .. 255] ==
            LET Bit(p) == p * (((x \div p) + (y \div p)) % 2)
            IN  Bit(1) + Bit(2) + Bit(4) + Bit(8) + Bit(16) + Bit(32) + Bit(64) + Bit(128)
    IN  Sum[a, b]

\* The powers of 2 in GF(2^8) with the polynomial 0x11d.
GfPowers ==
    LET Twice(a)    == IF a < 128 THEN 2 * a ELSE gf_add(2 * a - 256, 29)
        Extend(s, i) == Append(s, Twice(Last(s)))
    IN  FoldLeft(Extend, <<1>>, [i \in 1 .. 254 |-> i])

GfExp ==
    LET powers == GfPowers
    IN  [n \in 0 .. 254 |-> powers[n + 1]]

GfLog ==
    LET powers == GfPowers
    IN  [a \in 1 .. 255 |-> CHOOSE n \in 0 .. 254 : powers[n + 1] = a]

gf_mul(a, b) ==
    IF a = 0 \/ b = 0 THEN 0 ELSE GfExp[(GfLog[a] + GfLog[b]) % 255]

gf_inv(a) == GfExp[(255 - GfLog[a]) % 255]

\* The inner product of a matrix row and one byte of each shard.
Dot(row, column) ==
    FoldFunction(gf_add, 0, [c \in DOMAIN row |-> gf_mul(row[c], column[c])])

\* gf_gen_rs_matrix: identity rows, then the powers of 2^0, 2^1, 2^2, ...
RsMatrix(n, k) ==
    [i \in 0 .. (n - 1) |-> [c \in 0 .. (k - 1) |->
        IF i < k THEN (IF i = c THEN 1 ELSE 0)
        ELSE GfExp[((i - k) * c) % 255]]]

\* One column of Gauss-Jordan elimination on the rows of `a`, which carry the
\* inverse in their right half.
Pivot(a, c) ==
    IF a = Failed \/ \A i \in DOMAIN a : i >= c => a[i][c] = 0 THEN Failed
    ELSE LET p       == CHOOSE i \in DOMAIN a : i >= c /\ a[i][c] # 0
             swapped == [a EXCEPT ![c] = a[p], ![p] = a[c]]
             scale   == gf_inv(swapped[c][c])
             pivot   == [x \in DOMAIN swapped[c] |-> gf_mul(scale, swapped[c][x])]
         IN  [i \in DOMAIN a |->
                IF i = c THEN pivot
                ELSE [x \in DOMAIN pivot |->
                        gf_add(swapped[i][x], gf_mul(swapped[i][c], pivot[x]))]]

\* gf_invert_matrix: the inverse of a k x k matrix, Failed if it is singular.
gf_invert_matrix(a, k) ==
    LET wide == [i \in 0 .. (k - 1) |-> [x \in 0 .. (2 * k - 1) |->
                    IF x < k THEN a[i][x] ELSE IF x - k = i THEN 1 ELSE 0]]
        columns[c \in 0 .. k] == IF c = 0 THEN wide ELSE Pivot(columns[c - 1], c - 1)
        done == columns[k]
    IN  IF done = Failed THEN Failed
        ELSE [i \in 0 .. (k - 1) |-> [c \in 0 .. (k - 1) |-> done[i][k + c]]]

-----------------------------------------------------------------------------
\* The checks encode() and decode() share.  The sum wraps as a uint32_t, the
\* product cannot wrap after the division.
SpecChecked(spec, size) ==
    /\ spec.k # 0
    /\ spec.m # 0
    /\ (spec.k + spec.m) % Word32 <= 255
    /\ spec.shard_size # 0
    /\ spec.shard_size <= IntMax
    /\ spec.shard_size <= (Word64 - 1) \div spec.k
    /\ size <= spec.k * spec.shard_size

\* Padding at the front of the shard.
FrontPadded(data, spec, i) ==
    [j \in 1 .. spec.shard_size |->
        LET at == (i + 1) * spec.shard_size - (j - 1)
        IN  IF at <= Len(data) THEN data[at] ELSE 0]

\* Data shard i: its stretch of the object, zeroes behind the end.
DataShard(data, spec, i) ==
    [j \in 1 .. spec.shard_size |->
        LET at == i * spec.shard_size + j
        IN  IF at <= Len(data) THEN data[at] ELSE 0]

\* encode(): k data shards and m parity shards of shard_size bytes each.
encode(data, spec) ==
    IF ~SpecChecked(spec, Len(data)) THEN Failed
    ELSE LET n      == (spec.k + spec.m) % Word32
             matrix == RsMatrix(n, spec.k)
             plain  == [c \in 0 .. (spec.k - 1) |-> DataShard(data, spec, c)]
         IN  [i \in 0 .. (n - 1) |->
                IF i < spec.k THEN plain[i]
                ELSE [j \in 1 .. spec.shard_size |->
                        Dot(matrix[i], [c \in DOMAIN plain |-> plain[c][j]])]]

\* Taking any k shards in the order of their arrival, an index twice.
RepeatedIndex(present, k) ==
    [i \in 0 .. (k - 1) |->
        CHOOSE x \in DOMAIN present : Cardinality({y \in DOMAIN present : y < x}) = (i + 1) \div 2]

\* decode_index: the first k shards that are present, data before parity.
DecodeIndex(present, k) ==
    [i \in 0 .. (k - 1) |->
        CHOOSE x \in DOMAIN present : Cardinality({y \in DOMAIN present : y < x}) = i]

\* The missing data shards from the selected ones; Failed when the matrix of
\* the selection is singular.
Recovered(present, spec) ==
    LET k       == spec.k
        chosen  == DecodeIndex(present, k)
        matrix  == RsMatrix(k + spec.m, k)
        inverse == gf_invert_matrix([i \in 0 .. (k - 1) |-> matrix[chosen[i]]], k)
    IN  IF inverse = Failed THEN Failed
        ELSE [i \in 0 .. (k - 1) |->
                IF i \in DOMAIN present THEN present[i]
                ELSE [j \in 1 .. spec.shard_size |->
                        Dot(inverse[i], [c \in 0 .. (k - 1) |-> present[chosen[c]][j]])]]

\* decode(): all data shards at hand, or k shards to compute them from; then
\* the concatenation, cut to the object's size.
decode(present, spec, size) ==
    IF \/ ~SpecChecked(spec, size)
       \/ Cardinality(DOMAIN present) < spec.k
       \/ \E i \in DOMAIN present : i >= spec.k + spec.m \/ Len(present[i]) # spec.shard_size
    THEN Failed
    ELSE LET plain == IF 0 .. (spec.k - 1) \subseteq DOMAIN present THEN present
                      ELSE Recovered(present, spec)
         IN  IF plain = Failed THEN Failed
             ELSE [x \in 1 .. size |->
                    plain[(x - 1) \div spec.shard_size][((x - 1) % spec.shard_size) + 1]]
=============================================================================
