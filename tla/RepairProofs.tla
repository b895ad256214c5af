---------------------------- MODULE RepairProofs ----------------------------
(***************************************************************************)
(* What put(), repair() and rebalance_object() leave behind, for every set *)
(* of nodes, every number of threads and every code (k, m): every shard    *)
(* index listed exactly once, and, unless a disk is lost during the call,  *)
(* every listed shard on its node, after a put() on distinct nodes.        *)
(***************************************************************************)
EXTENDS StorageClientProofs, PlacementProofs, FiniteSetTheorems

\* On its node, or deleted by a remove(), but not lost with a disk.
Kept(c) == c \in shards \/ c.token \in removing

Rewrites(t) == op[t] \in {"repair", "rebalance"}

\* An idle thread is in no operation and has seen nothing.
IdleBlank ==
    \A t \in Threads : pc[t] = "idle" => op[t] = "none" /\ seen[t] = {}

\* What a calm call has seen is there, and what it will commit is there or
\* still to write; a rebalance has seen all that it has not yet to probe.
HealSound ==
    \A t \in calm : Rewrites(t) =>
        /\ \A c \in seen[t] : Kept(c)
        /\ pc[t] = "apply" => \A c \in update[t] : Kept(c) \/ c \in todo[t]
        /\ op[t] = "rebalance" /\ pc[t] = "probe" => meta[t].locs \subseteq seen[t] \cup todo[t]

\* The inductive invariant behind CommitsHeal.
HealInv == IdleBlank /\ HealSound

LEMMA InitHeal == Init => HealInv
BY DEF Init, HealInv, IdleBlank, HealSound

\* Ending an operation leaves no promise to keep.
LEMMA DoneHeal ==
    ASSUME Typed, NEW t \in Threads, Done(t)
    PROVE  pc'[t] = "idle" /\ op'[t] = "none" /\ seen'[t] = {}
BY DEF Typed, TypeOK, Done

\* No step of a thread takes a copy away but a remove()'s.
LEMMA StaysKept ==
    ASSUME Typed, DeletesAnnounced, NEW t \in Threads, Step(t), NEW c, Kept(c)
    PROVE  Kept(c)'
<1> USE DEF store, ghost, faults
<1>1. CASE RemoveShard(t)
  <2>1. PICK d \in todo[t] : shards' \in {shards, shards \ {d}}
    BY <1>1 DEF RemoveShard
  <2>2. d.token \in removing
    BY <1>1 DEF RemoveShard, DeletesAnnounced
  <2> QED BY <1>1, <2>1, <2>2 DEF RemoveShard, Kept
<1>2. CASE ~RemoveShard(t)
  <2>1. shards \subseteq shards' /\ removing \subseteq removing'
    BY <1>2 DEF Step, PutStart, ApplyPut, PutCommit, ReadRow, ReadLocations, GetFetch,
          RemoveRow, ProbeShard, RepairFetch, RepairPlace, RebalanceGate, RebalanceCopy,
          FencedCommit, Abandon
  <2> QED BY <2>1 DEF Kept
<1> QED BY <1>1, <1>2

\* The thread that takes a step keeps its own promises.
LEMMA OwnHeal ==
    ASSUME Typed, DeletesAnnounced, HealInv, NEW t \in Threads, Step(t)
    PROVE  /\ pc'[t] = "idle" => op'[t] = "none" /\ seen'[t] = {}
           /\ t \in calm' /\ Rewrites(t)' =>
                /\ \A c \in seen'[t] : Kept(c)'
                /\ pc'[t] = "apply" => \A c \in update'[t] : Kept(c)' \/ c \in todo'[t]
                /\ op'[t] = "rebalance" /\ pc'[t] = "probe" =>
                      meta'[t].locs \subseteq seen'[t] \cup todo'[t]
<1>k. \A c : Kept(c) => Kept(c)'
  BY StaysKept
<1>t. /\ pc \in [Threads -> PCs] /\ op \in [Threads -> Ops \cup {"none"}]
      /\ meta \in [Threads -> Row] /\ seen \in [Threads -> SUBSET Copy]
      /\ todo \in [Threads -> SUBSET Copy] /\ update \in [Threads -> SUBSET Copy]
  BY DEF Typed, TypeOK
<1>h. /\ pc[t] = "idle" => op[t] = "none" /\ seen[t] = {}
      /\ t \in calm /\ Rewrites(t) =>
           /\ \A c \in seen[t] : Kept(c)
           /\ pc[t] = "apply" => \A c \in update[t] : Kept(c) \/ c \in todo[t]
           /\ op[t] = "rebalance" /\ pc[t] = "probe" => meta[t].locs \subseteq seen[t] \cup todo[t]
  BY DEF HealInv, IdleBlank, HealSound
<1> USE DEF Rewrites, store, client, ghost, faults
<1>1. CASE PutStart(t)
  BY <1>1, <1>t DEF PutStart
<1>2. CASE ApplyPut(t)
  <2>1. PICK d \in todo[t] : shards' = shards \cup {d} /\ todo' = [todo EXCEPT ![t] = @ \ {d}]
    BY <1>2 DEF ApplyPut
  <2>2. Kept(d)'
    BY <2>1 DEF Kept
  <2> QED BY <1>2, <1>k, <1>t, <1>h, <2>1, <2>2 DEF ApplyPut
<1>3. CASE ReadRow(t)
  BY <1>3, <1>t, <1>h DEF ReadRow
<1>4. CASE ReadLocations(t)
  <2>1. op[t] \in {"get", "remove", "repair", "rebalance"}
    BY <1>4 DEF ReadLocations, Typed, OpAtPc
  <2>2. /\ AfterRead(op[t]) \notin {"idle", "apply"}
        /\ op[t] = "rebalance" => AfterRead(op[t]) = "gate"
    BY <2>1, Zenon DEF AfterRead
  <2> QED BY <1>4, <1>k, <1>t, <1>h, <2>2 DEF ReadLocations
<1>5. CASE PutCommit(t) \/ GetFetch(t) \/ RemoveRow(t) \/ FencedCommit(t) \/ Abandon(t)
  BY <1>5, DoneHeal DEF PutCommit, GetFetch, RemoveRow, FencedCommit, Abandon
<1>6. CASE RemoveShard(t)
  <2>1. op[t] = "remove"
    BY <1>6 DEF RemoveShard, Typed, OpAtPc
  <2> QED BY <1>6, <1>t, <2>1 DEF RemoveShard
<1>7. CASE ProbeShard(t)
  <2>1. PICK d \in todo[t] :
          /\ todo' = [todo EXCEPT ![t] = @ \ {d}]
          /\ \/ d \in shards /\ seen' = [seen EXCEPT ![t] = @ \cup {d}]
             \/ op[t] = "repair" /\ seen' = seen
    BY <1>7 DEF ProbeShard
  <2>2. d \in shards => Kept(d)'
    BY <1>k DEF Kept
  <2> QED BY <1>7, <1>k, <1>t, <1>h, <2>1, <2>2 DEF ProbeShard
<1>8. CASE RepairFetch(t)
  BY <1>8, <1>k, <1>t, <1>h DEF RepairFetch
<1>9. CASE RepairPlace(t)
  <2>1. PICK new : /\ todo' = [todo EXCEPT ![t] = new]
                   /\ update' = [update EXCEPT ![t] = seen[t] \cup new]
    BY <1>9 DEF RepairPlace
  <2>2. pc' = [pc EXCEPT ![t] = "apply"] /\ UNCHANGED <<op, meta, seen, calm>>
    BY <1>9 DEF RepairPlace
  <2> QED BY <1>k, <1>t, <1>h, <2>1, <2>2
<1>10. CASE RebalanceGate(t)
  <2>1. /\ pc' = [pc EXCEPT ![t] = "probe"] /\ todo' = [todo EXCEPT ![t] = meta[t].locs]
        /\ UNCHANGED <<op, meta, seen, calm>>
    BY <1>10 DEF RebalanceGate
  <2> QED BY <1>k, <1>t, <1>h, <2>1
<1>11. CASE RebalanceCopy(t)
  <2>1. PICK moves \in SUBSET update[t] :
          /\ todo' = [todo EXCEPT ![t] = moves]
          /\ update' = [update EXCEPT ![t] =
                          moves \cup {c \in meta[t].locs : c.index \notin Indices(moves)}]
    BY <1>11 DEF RebalanceCopy
  <2>2. /\ pc[t] = "probe" /\ op[t] = "rebalance" /\ todo[t] = {}
        /\ pc' = [pc EXCEPT ![t] = "apply"] /\ UNCHANGED <<op, meta, seen, calm>>
    BY <1>11 DEF RebalanceCopy
  <2> QED BY <1>k, <1>t, <1>h, <2>1, <2>2
<1> QED BY <1>1, <1>2, <1>3, <1>4, <1>5, <1>6, <1>7, <1>8, <1>9, <1>10, <1>11 DEF Step

LEMMA StepHeal ==
    ASSUME Typed, DeletesAnnounced, HealInv, NEW t \in Threads, Step(t)
    PROVE  HealInv'
<1>k. \A c : Kept(c) => Kept(c)'
  BY StaysKept
<1>c. calm' \subseteq calm \cup {t} /\ calm' \subseteq Threads
  BY StepTyped DEF Typed, TypeOK, Step, PutStart, ApplyPut, PutCommit, ReadRow, ReadLocations,
        GetFetch, RemoveShard, RemoveRow, ProbeShard, RepairFetch, RepairPlace, RebalanceGate,
        RebalanceCopy, FencedCommit, Abandon, ghost, faults
<1>1. IdleBlank'
  <2> SUFFICES ASSUME NEW u \in Threads, pc'[u] = "idle" PROVE op'[u] = "none" /\ seen'[u] = {}
    BY DEF IdleBlank
  <2> QED BY OwnHeal, StepLocal DEF HealInv, IdleBlank
<1>2. HealSound'
  <2> SUFFICES ASSUME NEW u \in calm', Rewrites(u)'
               PROVE  /\ \A c \in seen'[u] : Kept(c)'
                      /\ pc'[u] = "apply" => \A c \in update'[u] : Kept(c)' \/ c \in todo'[u]
                      /\ op'[u] = "rebalance" /\ pc'[u] = "probe" =>
                            meta'[u].locs \subseteq seen'[u] \cup todo'[u]
    BY DEF HealSound
  <2>1. CASE u = t
    BY <2>1, OwnHeal
  <2>2. CASE u # t
    <3>1. u \in calm /\ u \in Threads
      BY <1>c, <2>2
    <3>2. /\ pc'[u] = pc[u] /\ op'[u] = op[u] /\ meta'[u] = meta[u]
          /\ seen'[u] = seen[u] /\ todo'[u] = todo[u] /\ update'[u] = update[u]
      BY <2>2, <3>1, StepLocal
    <3> QED BY <1>k, <3>1, <3>2 DEF HealInv, HealSound, Rewrites
  <2> QED BY <2>1, <2>2
<1> QED BY <1>1, <1>2 DEF HealInv

LEMMA NextHeal == Typed /\ StoredInv /\ HealInv /\ [Next]_vars => HealInv'
<1> SUFFICES ASSUME Typed, StoredInv, HealInv, [Next]_vars PROVE HealInv'
  OBVIOUS
<1> USE DEF HealInv, IdleBlank, HealSound, Rewrites, Kept, client, ghost, faults
<1>1. CASE RegisterNode \/ UnregisterNode
  BY <1>1 DEF RegisterNode, UnregisterNode
<1>2. CASE LoseDisk
  BY <1>2 DEF LoseDisk
<1>3. CASE LateDelete
  BY <1>3 DEF LateDelete, StoredInv, DeletesAnnounced
<1>4. CASE \E t \in Threads : Step(t)
  BY <1>4, StepHeal DEF StoredInv
<1>5. CASE UNCHANGED vars
  BY <1>5 DEF vars, store
<1> QED BY <1>1, <1>2, <1>3, <1>4, <1>5 DEF Next

\* The step in which a repair or a rebalance ends with a new row.
LEMMA HealStep ==
    ASSUME Typed, HealInv, [Next]_vars, NEW t \in Threads, Rewrites(t), t \in calm,
           pc'[t] = "idle", row' # row, NEW c \in row'.locs
    PROVE  c \in shards' \/ c.token \in removing'
<1>0. pc[t] # "idle"
  BY DEF HealInv, IdleBlank, Rewrites
<1>1. PICK u \in Threads : Step(u)
  BY DEF Next, vars, store, RegisterNode, UnregisterNode, LoseDisk, LateDelete
<1>2. u = t
  BY <1>0, <1>1, StepLocal
<1>3. FencedCommit(t)
  BY <1>1, <1>2 DEF Step, PutStart, ApplyPut, PutCommit, ReadRow, ReadLocations, GetFetch,
        RemoveShard, RemoveRow, ProbeShard, RepairFetch, RepairPlace, RebalanceGate,
        RebalanceCopy, Abandon, Rewrites, Typed, OpAtPc, store
<1>4. c \in update[t] /\ pc[t] = "apply" /\ todo[t] = {}
  BY <1>3 DEF FencedCommit, NewRow, Applied
<1>5. Kept(c)
  BY <1>4 DEF HealInv, HealSound
<1> QED BY <1>3, <1>5 DEF FencedCommit, Kept, ghost

\* A repair() or rebalance_object() whose fenced commit succeeds, and during
\* which no disk was lost, leaves every shard on the node its row says: losses
\* before the call are made good, whatever the other threads do meanwhile.
THEOREM RepairsHeal == Spec => CommitsHeal
<1>1. Spec => []Typed
  BY InitTyped, NextTyped, PTL DEF Spec
<1>2. Spec => []HealInv
  BY <1>1, InitHeal, NextHeal, StoredInvariant, PTL DEF Spec
<1>3. Typed /\ HealInv /\ [Next]_vars =>
        [\A t \in Threads :
            (op[t] \in {"repair", "rebalance"} /\ t \in calm /\ pc'[t] = "idle" /\ row' # row)
                => \A c \in row'.locs : c \in shards' \/ c.token \in removing']_vars
  BY HealStep DEF Rewrites
<1> QED BY <1>1, <1>2, <1>3, PTL DEF Spec, CommitsHeal

-----------------------------------------------------------------------------
\* No index twice, and every index once.
Distinct(copies) == \A c, d \in copies : c.index = d.index => c = d

Full(copies) == Distinct(copies) /\ \A i \in Idx : \E c \in copies : c.index = i

\* What lists of locations hold on their way to a commit.  A list read between
\* a remove() and the next put() is empty; no such list gets past the checks of
\* repair() and rebalance_object().
ListOf(t) ==
    /\ meta[t].locs = {} \/ Full(meta[t].locs)
    /\ pc[t] = "row" => meta[t].locs = {}
    /\ seen[t] \subseteq meta[t].locs
    /\ pc[t] = "probe" => todo[t] \subseteq meta[t].locs
    /\ pc[t] = "place" => Full(meta[t].locs)
    /\ pc[t] = "probe" /\ op[t] = "rebalance" => Full(meta[t].locs) /\ Distinct(update[t])
    /\ pc[t] = "apply" => Full(update[t])

\* The inductive invariant behind RowComplete.
ListInv ==
    /\ row.locs = {} \/ Full(row.locs)
    /\ row.version # 0 => Full(row.locs)
    /\ \A t \in Threads : ListOf(t)

LEMMA FullIsComplete ==
    ASSUME NEW S \in SUBSET Copy, Full(S), NEW i \in Idx
    PROVE  \E c \in S : \A d \in S : d.index = i <=> d = c
<1>1. PICK c \in S : c.index = i
  BY DEF Full
<1>2. \A d \in S : d.index = i <=> d = c
  BY <1>1 DEF Full, Distinct
<1> QED BY <1>2

\* A location for every index of a placement.
LEMMA PlacedIsFull ==
    ASSUME NEW f, NEW token PROVE Full(CopiesAt(f, Idx, token))
<1> USE DEF CopiesAt
<1>1. Distinct(CopiesAt(f, Idx, token))
  BY DEF Distinct
<1>2. ASSUME NEW i \in Idx PROVE \E c \in CopiesAt(f, Idx, token) : c.index = i
  <2>1. [index |-> i, node |-> f[i], token |-> token] \in CopiesAt(f, Idx, token)
    OBVIOUS
  <2> QED BY <2>1
<1> QED BY <1>1, <1>2 DEF Full

\* repair() replaces the missing indices and no other.
LEMMA SpliceIsFull ==
    ASSUME NEW L \in SUBSET Copy, Full(L), NEW S \in SUBSET L, NEW f, NEW token
    PROVE  Full(S \cup CopiesAt(f, Indices(L \ S), token))
<1> DEFINE new == CopiesAt(f, Indices(L \ S), token)
<1>1. \A c \in new : c.index \in Indices(L \ S)
  BY DEF CopiesAt
<1>2. \A i \in Indices(L \ S) : \E c \in new : c.index = i
  <2> TAKE i \in Indices(L \ S)
  <2>1. [index |-> i, node |-> f[i], token |-> token] \in new
    BY DEF CopiesAt
  <2> QED BY <2>1
<1>3. \A c, d \in new : c.index = d.index => c = d
  BY DEF CopiesAt
<1>4. \A c \in S : c.index \notin Indices(L \ S)
  BY DEF Full, Distinct, Indices
<1>5. \A c, d \in S : c.index = d.index => c = d
  BY DEF Full, Distinct
<1>6. Distinct(S \cup new)
  BY <1>1, <1>3, <1>4, <1>5 DEF Distinct
<1>7. ASSUME NEW i \in Idx PROVE \E c \in S \cup new : c.index = i
  <2>1. PICK c \in L : c.index = i
    BY DEF Full
  <2>2. CASE c \in S
    BY <2>1, <2>2
  <2>3. CASE c \notin S
    <3>1. i \in Indices(L \ S)
      BY <2>1, <2>3 DEF Indices
    <3> QED BY <1>2, <3>1
  <2> QED BY <2>2, <2>3
<1> QED BY <1>6, <1>7 DEF Full

\* rebalance_object() replaces the moved indices and no other.
LEMMA MoveIsFull ==
    ASSUME NEW L \in SUBSET Copy, Full(L), NEW P \in SUBSET Copy, Distinct(P), NEW moves \in SUBSET P
    PROVE  Full(moves \cup {c \in L : c.index \notin Indices(moves)})
<1> DEFINE rest == {c \in L : c.index \notin Indices(moves)}
<1>1. \A c \in moves : c.index \in Indices(moves)
  BY DEF Indices
<1>2. Distinct(moves \cup rest)
  BY <1>1 DEF Full, Distinct
<1>3. ASSUME NEW i \in Idx PROVE \E c \in moves \cup rest : c.index = i
  <2>1. CASE i \in Indices(moves)
    BY <2>1 DEF Indices
  <2>2. CASE i \notin Indices(moves)
    BY <2>2 DEF Full
  <2> QED BY <2>1, <2>2
<1> QED BY <1>2, <1>3 DEF Full

\* The plan of rebalance_object() has one move per misplaced shard.
LEMMA PlanIsDistinct ==
    ASSUME NEW L \in SUBSET Copy, Distinct(L), NEW S \in SUBSET L, NEW intended
    PROVE  Distinct({Moved(c, intended) : c \in S})
BY DEF Distinct, Moved

LEMMA InitList == Init => ListInv
BY DEF Init, ListInv, ListOf, NoRow

LEMMA OwnList ==
    ASSUME Typed, IdleBlank, ListInv, NEW t \in Threads, Step(t)
    PROVE  ListOf(t)'
<1>t. /\ pc \in [Threads -> PCs] /\ op \in [Threads -> Ops \cup {"none"}]
      /\ meta \in [Threads -> Row] /\ seen \in [Threads -> SUBSET Copy]
      /\ todo \in [Threads -> SUBSET Copy] /\ update \in [Threads -> SUBSET Copy]
      /\ meta[t].locs \subseteq Copy
  BY DEF Typed, TypeOK, Row
<1>i. /\ meta[t].locs = {} \/ Full(meta[t].locs)
      /\ pc[t] = "row" => meta[t].locs = {}
      /\ seen[t] \subseteq meta[t].locs
      /\ pc[t] = "probe" => todo[t] \subseteq meta[t].locs
      /\ pc[t] = "place" => Full(meta[t].locs)
      /\ pc[t] = "probe" /\ op[t] = "rebalance" => Full(meta[t].locs) /\ Distinct(update[t])
      /\ pc[t] = "apply" => Full(update[t])
      /\ row.locs = {} \/ Full(row.locs)
      /\ pc[t] = "idle" => seen[t] = {}
  BY DEF ListInv, ListOf, IdleBlank
<1> USE DEF store, client, ghost
<1>1. CASE PutStart(t)
  <2>1. PICK f : update' = [update EXCEPT ![t] = CopiesAt(f, Idx, started + 1)]
    BY <1>1 DEF PutStart
  <2>2. Full(CopiesAt(f, Idx, started + 1))
    BY PlacedIsFull
  <2>3. /\ pc[t] = "idle" /\ pc' = [pc EXCEPT ![t] = "apply"] /\ seen' = seen
        /\ meta' = [meta EXCEPT ![t] = [version |-> 0, content |-> started + 1, locs |-> {}]]
    BY <1>1 DEF PutStart
  <2> QED BY <1>t, <1>i, <2>1, <2>2, <2>3 DEF ListOf
<1>2. CASE ApplyPut(t)
  BY <1>2, <1>t, <1>i DEF ApplyPut, ListOf
<1>3. CASE ReadRow(t)
  BY <1>3, <1>t, <1>i DEF ReadRow, ListOf
<1>4. CASE ReadLocations(t)
  <2>1. op[t] \in {"get", "remove", "repair", "rebalance"}
    BY <1>4 DEF ReadLocations, Typed, OpAtPc
  <2>2. /\ AfterRead(op[t]) \notin {"row", "place", "apply"}
        /\ op[t] = "rebalance" => AfterRead(op[t]) = "gate"
        /\ AfterRead(op[t]) = "probe" => op[t] = "repair"
    BY <2>1, Zenon DEF AfterRead
  <2>3. /\ pc[t] = "row" /\ pc'[t] = AfterRead(op[t]) /\ op' = op /\ seen' = seen
        /\ meta'[t].locs = row.locs
        /\ op[t] = "repair" => todo'[t] = row.locs
    BY <1>4, <1>t DEF ReadLocations
  <2> QED BY <1>i, <2>2, <2>3 DEF ListOf
<1>5. CASE PutCommit(t) \/ GetFetch(t) \/ RemoveRow(t) \/ FencedCommit(t) \/ Abandon(t)
  <2>1. Done(t)
    BY <1>5 DEF PutCommit, GetFetch, RemoveRow, FencedCommit, Abandon
  <2> QED BY <1>t, <2>1 DEF Done, NoRow, ListOf
<1>6. CASE RemoveShard(t)
  BY <1>6, <1>t, <1>i DEF RemoveShard, ListOf
<1>7. CASE ProbeShard(t)
  BY <1>7, <1>t, <1>i DEF ProbeShard, ListOf
<1>8. CASE RepairFetch(t)
  BY <1>8, <1>t, <1>i DEF RepairFetch, ListOf
<1>9. CASE RepairPlace(t)
  <2>1. PICK f, token : update' = [update EXCEPT ![t] =
            seen[t] \cup CopiesAt(f, Indices(meta[t].locs \ seen[t]), token)]
    BY <1>9 DEF RepairPlace
  <2>2. pc[t] = "place" /\ pc' = [pc EXCEPT ![t] = "apply"] /\ UNCHANGED <<op, meta, seen>>
    BY <1>9 DEF RepairPlace
  <2>3. Full(update'[t])
    BY <1>t, <1>i, <2>1, <2>2, SpliceIsFull
  <2> QED BY <1>t, <1>i, <2>2, <2>3 DEF ListOf
<1>10. CASE RebalanceGate(t)
  <2>1. /\ pc' = [pc EXCEPT ![t] = "probe"] /\ todo' = [todo EXCEPT ![t] = meta[t].locs]
        /\ UNCHANGED <<op, meta, seen>> /\ Cardinality(meta[t].locs) = Total
    BY <1>10 DEF RebalanceGate
  <2>2. Full(meta[t].locs)
    <3>1. Cardinality({}) = 0 /\ Total # 0
      BY FS_EmptySet, PlacementAssumption DEF Total
    <3> QED BY <1>i, <2>1, <3>1
  <2>3. PICK intended \in [Idx -> registered], S \in SUBSET meta[t].locs :
          update' = [update EXCEPT ![t] = {Moved(c, intended) : c \in S}]
    BY <1>10, GatePlan
  <2>4. Distinct({Moved(c, intended) : c \in S})
    BY <1>t, <2>2, PlanIsDistinct DEF Full
  <2>5. Distinct(update'[t])
    BY <1>t, <2>3, <2>4
  <2> QED BY <1>t, <1>i, <2>1, <2>2, <2>5 DEF ListOf
<1>11. CASE RebalanceCopy(t)
  <2>1. PICK moves \in SUBSET update[t] : update' = [update EXCEPT ![t] =
                          moves \cup {c \in meta[t].locs : c.index \notin Indices(moves)}]
    BY <1>11 DEF RebalanceCopy
  <2>2. /\ pc[t] = "probe" /\ op[t] = "rebalance"
        /\ pc' = [pc EXCEPT ![t] = "apply"] /\ UNCHANGED <<op, meta, seen>>
    BY <1>11 DEF RebalanceCopy
  <2>3. Full(update'[t])
    <3>1. Full(meta[t].locs) /\ Distinct(update[t]) /\ update[t] \in SUBSET Copy
      BY <1>t, <1>i, <2>2
    <3>2. Full(moves \cup {c \in meta[t].locs : c.index \notin Indices(moves)})
      BY <1>t, <3>1, MoveIsFull
    <3> QED BY <1>t, <2>1, <3>2
  <2> QED BY <1>t, <1>i, <2>2, <2>3 DEF ListOf
<1> QED BY <1>1, <1>2, <1>3, <1>4, <1>5, <1>6, <1>7, <1>8, <1>9, <1>10, <1>11 DEF Step

LEMMA StepList ==
    ASSUME Typed, IdleBlank, ListInv, NEW t \in Threads, Step(t)
    PROVE  ListInv'
<1>1. \A u \in Threads : ListOf(u)'
  <2> TAKE u \in Threads
  <2>1. CASE u = t
    BY <2>1, OwnList
  <2>2. CASE u # t
    <3>1. /\ pc'[u] = pc[u] /\ op'[u] = op[u] /\ meta'[u] = meta[u]
          /\ seen'[u] = seen[u] /\ todo'[u] = todo[u] /\ update'[u] = update[u]
      BY <2>2, StepLocal
    <3> QED BY <3>1 DEF ListInv, ListOf
  <2> QED BY <2>1, <2>2
<1>2. row' = row \/ row' = NoRow \/ (Applied(t) /\ row' = NewRow(t))
  BY DEF Step, PutStart, ApplyPut, PutCommit, ReadRow, ReadLocations, GetFetch, RemoveShard,
        RemoveRow, ProbeShard, RepairFetch, RepairPlace, RebalanceGate, RebalanceCopy,
        FencedCommit, Abandon, store
<1>3. (row'.locs = {} \/ Full(row'.locs)) /\ (row'.version # 0 => Full(row'.locs))
  <2>1. CASE row' = row
    BY <2>1 DEF ListInv
  <2>2. CASE row' = NoRow
    BY <2>2 DEF NoRow
  <2>3. CASE Applied(t) /\ row' = NewRow(t)
    BY <2>3 DEF Applied, NewRow, ListInv, ListOf
  <2> QED BY <1>2, <2>1, <2>2, <2>3
<1>4. (row.locs = {} \/ Full(row.locs))' /\ (row.version # 0 => Full(row.locs))'
  BY <1>3 DEF Full, Distinct
<1> QED BY <1>1, <1>4 DEF ListInv

LEMMA NextList == Typed /\ IdleBlank /\ ListInv /\ [Next]_vars => ListInv'
<1> SUFFICES ASSUME Typed, IdleBlank, ListInv, [Next]_vars PROVE ListInv'
  OBVIOUS
<1>1. CASE RegisterNode \/ UnregisterNode \/ LoseDisk \/ LateDelete \/ UNCHANGED vars
  <2>1. UNCHANGED <<row, client>>
    BY <1>1 DEF RegisterNode, UnregisterNode, LoseDisk, LateDelete, vars, store
  <2> QED BY <2>1 DEF ListInv, ListOf, client
<1>2. CASE \E t \in Threads : Step(t)
  BY <1>2, StepList
<1> QED BY <1>1, <1>2 DEF Next

\* Whatever puts, removes, repairs and rebalances overlap, fail or crash, and
\* whatever the nodes lose: a committed row lists every shard index exactly once.
THEOREM RowsAreComplete == Spec => []RowComplete
<1>1. Spec => []Typed
  BY InitTyped, NextTyped, PTL DEF Spec
<1>2. Spec => []HealInv
  BY <1>1, InitHeal, NextHeal, StoredInvariant, PTL DEF Spec
<1>3. HealInv => IdleBlank
  BY DEF HealInv
<1>4. Spec => []ListInv
  BY <1>1, <1>2, <1>3, InitList, NextList, PTL DEF Spec
<1>5. Typed /\ ListInv => RowComplete
  <2> SUFFICES ASSUME Typed, ListInv, row.version # 0, NEW i \in Idx
               PROVE  \E c \in row.locs : \A d \in row.locs : d.index = i <=> d = c
    BY DEF RowComplete
  <2>1. row.locs \in SUBSET Copy /\ Full(row.locs)
    BY DEF Typed, TypeOK, Row, ListInv
  <2> QED BY <2>1, FullIsComplete
<1> QED BY <1>1, <1>4, <1>5, PTL

-----------------------------------------------------------------------------
\* A token that the row, a remove() or an operation other than a running put
\* has come across.
KnownBy(t, x) ==
    \/ x = meta[t].content
    \/ \E c \in meta[t].locs \cup seen[t] \cup update[t] : c.token = x

Known(x) ==
    \/ x \in removing
    \/ x = row.content
    \/ \E c \in row.locs : c.token = x
    \/ \E t \in Threads : op[t] # "put" /\ KnownBy(t, x)

\* A running put has its shards on distinct nodes under a token nobody else
\* knows, and no other put has; in a calm call they are stored or to be stored.
PutSound(t) ==
    /\ meta[t].content # 0
    /\ meta[t].content <= started
    /\ ~Known(meta[t].content)
    /\ \A u \in Threads \ {t} : op[u] = "put" => meta[u].content # meta[t].content
    /\ \E f \in [Idx -> Nodes] :
          /\ \A i, j \in Idx : i # j => f[i] # f[j]
          /\ update[t] = CopiesAt(f, Idx, meta[t].content)
    /\ t \in calm => update[t] \subseteq shards \cup todo[t]

\* The inductive invariant behind PutsSurviveLosses.
PutInv ==
    /\ \A x \in Nat : Known(x) => x <= started
    /\ \A t \in Threads : op[t] = "put" => PutSound(t)

LEMMA InitPut == Init => PutInv
<1> SUFFICES ASSUME Init PROVE PutInv
  OBVIOUS
<1>1. \A t \in Threads : op[t] # "put" /\ meta[t] = NoRow /\ seen[t] = {} /\ update[t] = {}
  BY DEF Init
<1>2. ASSUME NEW x \in Nat, Known(x) PROVE x = 0
  BY <1>1, <1>2 DEF Known, KnownBy, Init, NoRow
<1> QED BY <1>1, <1>2 DEF PutInv, Init

\* The tokens of what a put commits.
LEMMA PutTokens ==
    ASSUME NEW t \in Threads, PutSound(t), NEW c \in update[t]
    PROVE  c.token = meta[t].content
BY DEF PutSound, CopiesAt

\* An operation that is not a put derives every token from the row.
LEMMA OwnKnown ==
    ASSUME Typed, ListInv, NEW t \in Threads, Step(t), NEW x \in Nat \ {0},
           op'[t] # "put", KnownBy(t, x)'
    PROVE  Known(x)
<1>t. /\ pc \in [Threads -> PCs] /\ op \in [Threads -> Ops \cup {"none"}]
      /\ meta \in [Threads -> Row] /\ seen \in [Threads -> SUBSET Copy]
      /\ todo \in [Threads -> SUBSET Copy] /\ update \in [Threads -> SUBSET Copy]
  BY DEF Typed, TypeOK
<1>o. op[t] = "put" => pc[t] = "apply"
  BY DEF Typed, OpAtPc
<1>k. op[t] # "put" /\ KnownBy(t, x) => Known(x)
  BY DEF Known
<1>1. CASE PutStart(t)
  BY <1>1, <1>t DEF PutStart
<1>2. CASE ApplyPut(t) \/ RemoveShard(t) \/ RepairFetch(t)
  BY <1>2, <1>k DEF ApplyPut, RemoveShard, RepairFetch, KnownBy
<1>3. CASE ReadRow(t)
  <2>1. /\ op[t] # "put" /\ meta'[t].content = row.content /\ meta'[t].locs = {}
        /\ seen' = seen /\ update' = update
    BY <1>3, <1>o, <1>t DEF ReadRow
  <2> QED BY <1>k, <2>1 DEF KnownBy, Known
<1>4. CASE ReadLocations(t)
  <2>1. /\ op[t] # "put" /\ meta'[t].content = meta[t].content /\ meta'[t].locs = row.locs
        /\ seen' = seen /\ update' = update
    BY <1>4, <1>o, <1>t DEF ReadLocations
  <2> QED BY <1>k, <2>1 DEF KnownBy, Known
<1>5. CASE PutCommit(t) \/ GetFetch(t) \/ RemoveRow(t) \/ FencedCommit(t) \/ Abandon(t)
  <2>1. Done(t)
    BY <1>5 DEF PutCommit, GetFetch, RemoveRow, FencedCommit, Abandon
  <2>2. meta'[t].content = 0 /\ meta'[t].locs = {} /\ seen'[t] = {} /\ update'[t] = {}
    BY <1>t, <2>1 DEF Done, NoRow
  <2> QED BY <2>2 DEF KnownBy
<1>6. CASE ProbeShard(t)
  <2>1. /\ pc[t] = "probe" /\ op[t] # "put" /\ meta' = meta /\ update' = update
        /\ seen'[t] \subseteq seen[t] \cup todo[t]
    BY <1>6, <1>o, <1>t DEF ProbeShard
  <2>2. todo[t] \subseteq meta[t].locs
    BY <2>1 DEF ListInv, ListOf
  <2> QED BY <1>k, <2>1, <2>2 DEF KnownBy
<1>7. CASE RepairPlace(t)
  <2>1. PICK new, first : /\ first \in meta[t].locs
                          /\ \A c \in new : c.token = first.token
                          /\ update' = [update EXCEPT ![t] = seen[t] \cup new]
    BY <1>7, PlacedCopies
  <2>2. op[t] # "put" /\ meta' = meta /\ seen' = seen
    BY <1>7, <1>o DEF RepairPlace
  <2> QED BY <1>k, <1>t, <2>1, <2>2 DEF KnownBy
<1>8. CASE RebalanceGate(t)
  <2>1. PICK intended \in [Idx -> registered], moves \in SUBSET meta[t].locs :
          update' = [update EXCEPT ![t] = {Moved(c, intended) : c \in moves}]
    BY <1>8, GatePlan
  <2>2. op[t] # "put" /\ meta' = meta /\ seen' = seen
    BY <1>8, <1>o DEF RebalanceGate
  <2>3. \A d \in update'[t] : \E c \in meta[t].locs : d.token = c.token
    BY <1>t, <2>1 DEF Moved
  <2> QED BY <1>k, <2>2, <2>3 DEF KnownBy
<1>9. CASE RebalanceCopy(t)
  <2>1. PICK moves \in SUBSET update[t] : update' = [update EXCEPT ![t] =
                          moves \cup {c \in meta[t].locs : c.index \notin Indices(moves)}]
    BY <1>9 DEF RebalanceCopy
  <2>2. op[t] # "put" /\ meta' = meta /\ seen' = seen
    BY <1>9, <1>o DEF RebalanceCopy
  <2>3. update'[t] \subseteq update[t] \cup meta[t].locs
    BY <1>t, <2>1
  <2> QED BY <1>k, <2>2, <2>3 DEF KnownBy
<1> QED BY <1>1, <1>2, <1>3, <1>4, <1>5, <1>6, <1>7, <1>8, <1>9 DEF Step

\* Only the commit of a put makes a token known.
LEMMA StepKnown ==
    ASSUME Typed, ListInv, PutInv, NEW t \in Threads, Step(t), NEW x \in Nat \ {0}, Known(x)'
    PROVE  Known(x) \/ (PutCommit(t) /\ x = meta[t].content)
<1>1. CASE x \in removing'
  <2>1. CASE x \in removing
    BY <2>1 DEF Known
  <2>2. CASE x \notin removing
    <3>1. ReadLocations(t)
      BY <1>1, <2>2 DEF Step, PutStart, ApplyPut, PutCommit, ReadRow, GetFetch, RemoveShard,
         RemoveRow, ProbeShard, RepairFetch, RepairPlace, RebalanceGate, RebalanceCopy,
         FencedCommit, Abandon, ghost
    <3>2. /\ op[t] # "put"
          /\ x = meta[t].content \/ \E c \in row.locs : c.token = x
      BY <1>1, <2>2, <3>1 DEF ReadLocations, Typed, OpAtPc
    <3> QED BY <3>2 DEF Known, KnownBy
  <2> QED BY <2>1, <2>2
<1>2. CASE x = row'.content \/ \E c \in row'.locs : c.token = x
  <2>1. CASE PutCommit(t)
    <3>1. PutSound(t) /\ row' = NewRow(t)
      BY <2>1 DEF PutCommit, PutInv
    <3>2. x = meta[t].content
      BY <1>2, <3>1, PutTokens DEF NewRow
    <3> QED BY <2>1, <3>2
  <2>2. CASE FencedCommit(t)
    <3>1. op[t] # "put" /\ (row' = NewRow(t) \/ row' = row)
      BY <2>2 DEF FencedCommit
    <3> QED BY <1>2, <3>1 DEF NewRow, Known, KnownBy
  <2>3. CASE RemoveRow(t)
    BY <1>2, <2>3 DEF RemoveRow, NoRow
  <2>4. CASE ~PutCommit(t) /\ ~FencedCommit(t) /\ ~RemoveRow(t)
    <3>1. row' = row
      BY <2>4 DEF Step, PutStart, ApplyPut, ReadRow, ReadLocations, GetFetch, RemoveShard,
         ProbeShard, RepairFetch, RepairPlace, RebalanceGate, RebalanceCopy, Abandon, store
    <3> QED BY <1>2, <3>1 DEF Known
  <2> QED BY <2>1, <2>2, <2>3, <2>4
<1>3. ASSUME NEW u \in Threads, op'[u] # "put", KnownBy(u, x)' PROVE Known(x)
  <2>1. CASE u = t
    BY <1>3, <2>1, OwnKnown
  <2>2. CASE u # t
    <3>1. op'[u] = op[u] /\ meta'[u] = meta[u] /\ seen'[u] = seen[u] /\ update'[u] = update[u]
      BY <2>2, StepLocal
    <3> QED BY <1>3, <3>1 DEF Known, KnownBy
  <2> QED BY <2>1, <2>2
<1> QED BY <1>1, <1>2, <1>3 DEF Known

\* A new put meets all of it: its token is the next number and its shards are
\* on their HRW nodes.
LEMMA PutStartSound ==
    ASSUME Typed, ListInv, PutInv, NEW t \in Threads, PutStart(t)
    PROVE  PutSound(t)'
<1>t. /\ op \in [Threads -> Ops \cup {"none"}] /\ meta \in [Threads -> Row] /\ started \in Nat
      /\ todo \in [Threads -> SUBSET Copy] /\ update \in [Threads -> SUBSET Copy]
      /\ registered \subseteq Nodes
  BY DEF Typed, TypeOK
<1>1. PICK f \in [Idx -> registered] :
        /\ IsHrwPlacement(Weight, f, registered)
        /\ todo' = [todo EXCEPT ![t] = CopiesAt(f, Idx, started + 1)]
        /\ update' = [update EXCEPT ![t] = CopiesAt(f, Idx, started + 1)]
  BY DEF PutStart
<1>2. /\ meta'[t].content = started + 1 /\ started' = started + 1
      /\ \A u \in Threads \ {t} : meta'[u] = meta[u] /\ op'[u] = op[u]
  BY <1>t DEF PutStart
<1>3. f \in [Idx -> Nodes] /\ \A i, j \in Idx : i # j => f[i] # f[j]
  BY <1>t, <1>1, HrwDistinct
<1>4. ASSUME NEW x, x = started + 1 PROVE ~Known(x)'
  <2> SUFFICES ASSUME Known(x)' PROVE FALSE
    OBVIOUS
  <2>1. x \in Nat \ {0} /\ ~(x <= started)
    BY <1>t, <1>4
  <2>2. Step(t) /\ ~PutCommit(t)
    <3>1. pc[t] = "idle"
      BY DEF PutStart
    <3> QED BY <3>1 DEF Step, PutCommit, Applied
  <2> QED BY <2>1, <2>2, StepKnown DEF PutInv
<1>5. ~Known(meta[t].content)'
  BY <1>2, <1>4 DEF Known, KnownBy
<1>6. \A u \in Threads \ {t} : op'[u] = "put" => meta'[u].content # meta'[t].content
  <2> SUFFICES ASSUME NEW u \in Threads \ {t}, op[u] = "put" PROVE meta[u].content # started + 1
    BY <1>2
  <2>1. meta[u].content <= started /\ meta[u].content \in Nat
    BY <1>t DEF PutInv, PutSound, Row
  <2> QED BY <1>t, <2>1
<1>7. todo'[t] = CopiesAt(f, Idx, started + 1) /\ update'[t] = CopiesAt(f, Idx, started + 1)
  BY <1>t, <1>1
<1>8. (\E g \in [Idx -> Nodes] :
          /\ \A i, j \in Idx : i # j => g[i] # g[j]
          /\ update[t] = CopiesAt(g, Idx, meta[t].content))'
  BY <1>2, <1>3, <1>7 DEF CopiesAt
<1>9. started + 1 # 0 /\ started + 1 <= started + 1
  BY <1>t
<1> QED BY <1>2, <1>5, <1>6, <1>7, <1>8, <1>9 DEF PutSound

\* A running put only stores its shards until it ends.
LEMMA StaysPut ==
    ASSUME Typed, NEW t \in Threads, Step(t), ~PutStart(t), op'[t] = "put"
    PROVE  ApplyPut(t) /\ op[t] = "put"
<1>1. PutCommit(t) \/ GetFetch(t) \/ RemoveRow(t) \/ FencedCommit(t) \/ Abandon(t) => Done(t)
  BY DEF PutCommit, GetFetch, RemoveRow, FencedCommit, Abandon
<1>2. ~Done(t)
  BY DEF Done, Typed, TypeOK
<1>3. ~ReadRow(t)
  <2> SUFFICES ASSUME ReadRow(t) PROVE FALSE
    OBVIOUS
  <2>1. PICK o \in Ops \ {"put"} : op' = [op EXCEPT ![t] = o]
    BY DEF ReadRow
  <2> QED BY <2>1 DEF Typed, TypeOK
<1>4. op' = op
  BY <1>1, <1>2, <1>3 DEF Step, ApplyPut, ReadLocations, RemoveShard, ProbeShard,
        RepairFetch, RepairPlace, RebalanceGate, RebalanceCopy
<1>5. pc[t] = "apply"
  BY <1>4 DEF Typed, OpAtPc
<1>6. ApplyPut(t)
  BY <1>1, <1>2, <1>3, <1>5 DEF Step, ReadLocations, RemoveShard, ProbeShard,
        RepairFetch, RepairPlace, RebalanceGate, RebalanceCopy
<1> QED BY <1>4, <1>6

\* The promises of a put that is not the one taking the step: its token is
\* unknown, so no remove() deletes its shards.
LEMMA OtherPutSound ==
    ASSUME Typed, StoredInv, ListInv, PutInv, NEW t \in Threads, Step(t),
           NEW u \in Threads, u # t, op[u] = "put"
    PROVE  PutSound(u)'
<1>l. pc'[u] = pc[u] /\ op'[u] = op[u] /\ meta'[u] = meta[u] /\ todo'[u] = todo[u] /\ update'[u] = update[u]
  BY StepLocal
<1>u. PutSound(u)
  BY DEF PutInv
<1>p. PICK x : x = meta[u].content
  OBVIOUS
<1>x. x \in Nat \ {0} /\ started \in Nat /\ started' \in Nat
  BY <1>p, <1>u, StepTyped DEF PutSound, Typed, TypeOK, Row
<1>1. started' >= started
  <2>1. started' = started \/ started' = started + 1
    BY DEF Step, PutStart, ApplyPut, PutCommit, ReadRow, ReadLocations, GetFetch, RemoveShard,
         RemoveRow, ProbeShard, RepairFetch, RepairPlace, RebalanceGate, RebalanceCopy,
         FencedCommit, Abandon
  <2> QED BY <1>x, <2>1
<1>2. ~Known(x)'
  <2>1. ~Known(x)
    BY <1>p, <1>u DEF PutSound
  <2>2. PutCommit(t) => x # meta[t].content
    BY <1>p, <1>u DEF PutSound, PutCommit
  <2> QED BY <1>x, <2>1, <2>2, StepKnown
<1>3. ~Known(meta[u].content)'
  BY <1>p, <1>2, <1>l DEF Known, KnownBy
<1>4. \A v \in Threads \ {u} : op'[v] = "put" => meta'[v].content # x
  <2> SUFFICES ASSUME NEW v \in Threads \ {u}, op'[v] = "put" PROVE meta'[v].content # x
    OBVIOUS
  <2>1. CASE v # t
    BY <1>p, <1>u, <2>1, StepLocal DEF PutSound
  <2>2. CASE v = t /\ PutStart(t)
    <3>1. meta'[t].content = started + 1 /\ x <= started
      BY <1>p, <1>u, <2>2 DEF PutStart, PutSound, Typed, TypeOK
    <3> QED BY <1>x, <2>2, <3>1
  <2>3. CASE v = t /\ ~PutStart(t)
    <3>1. op[t] = "put" /\ meta'[t] = meta[t]
      BY <2>3, StaysPut DEF ApplyPut
    <3> QED BY <1>p, <1>u, <2>3, <3>1 DEF PutSound
  <2> QED BY <2>1, <2>2, <2>3
<1>5. u \in calm' => u \in calm
  BY DEF Step, PutStart, ApplyPut, PutCommit, ReadRow, ReadLocations, GetFetch, RemoveShard,
       RemoveRow, ProbeShard, RepairFetch, RepairPlace, RebalanceGate, RebalanceCopy,
       FencedCommit, Abandon, ghost, faults
<1>6. ASSUME u \in calm PROVE update[u] \subseteq shards' \cup todo[u]
  <2> SUFFICES ASSUME NEW c \in update[u], c \notin todo[u] PROVE c \in shards'
    OBVIOUS
  <2>1. c \in shards
    BY <1>6, <1>u DEF PutSound
  <2>2. c.token = x
    BY <1>p, <1>u, PutTokens
  <2>3. Kept(c)'
    BY <2>1, StaysKept DEF Kept, StoredInv
  <2> QED BY <1>2, <2>2, <2>3 DEF Kept, Known
<1>7. (\E g \in [Idx -> Nodes] :
          /\ \A i, j \in Idx : i # j => g[i] # g[j]
          /\ update[u] = CopiesAt(g, Idx, meta[u].content))'
  BY <1>u, <1>l DEF PutSound, CopiesAt
<1>8. x <= started' /\ x # 0
  BY <1>p, <1>u, <1>x, <1>1 DEF PutSound
<1> QED BY <1>p, <1>l, <1>3, <1>4, <1>5, <1>6, <1>7, <1>8 DEF PutSound

LEMMA StepPut ==
    ASSUME Typed, StoredInv, ListInv, PutInv, NEW t \in Threads, Step(t)
    PROVE  PutInv'
<1>0. started \in Nat /\ started' \in Nat /\ started' >= started
  <2>1. started' = started \/ started' = started + 1
    BY DEF Step, PutStart, ApplyPut, PutCommit, ReadRow, ReadLocations, GetFetch, RemoveShard,
         RemoveRow, ProbeShard, RepairFetch, RepairPlace, RebalanceGate, RebalanceCopy,
         FencedCommit, Abandon
  <2> QED BY <2>1 DEF Typed, TypeOK
<1>1. ASSUME NEW x \in Nat, Known(x)' PROVE x <= started'
  <2>1. CASE x = 0
    BY <1>0, <2>1
  <2>2. CASE x # 0 /\ Known(x)
    BY <1>0, <2>2 DEF PutInv
  <2>3. CASE PutCommit(t) /\ x = meta[t].content
    <3>1. PutSound(t)
      BY <2>3 DEF PutCommit, PutInv
    <3> QED BY <1>0, <2>3, <3>1 DEF PutSound
  <2> QED BY <1>1, <2>1, <2>2, <2>3, StepKnown
<1>2. ASSUME NEW u \in Threads, op'[u] = "put" PROVE PutSound(u)'
  <2>1. CASE u # t
    <3>1. op[u] = "put"
      BY <1>2, <2>1, StepLocal
    <3> QED BY <2>1, <3>1, OtherPutSound
  <2>2. CASE u = t /\ PutStart(t)
    BY <2>2, PutStartSound
  <2>3. CASE u = t /\ ~PutStart(t)
    <3>1. ApplyPut(t) /\ op[t] = "put"
      BY <1>2, <2>3, StaysPut
    <3>2. PutSound(t)
      BY <3>1 DEF PutInv
    <3>3. UNCHANGED <<row, op, meta, seen, update, started, removing, calm>>
      BY <3>1 DEF ApplyPut, ghost, faults
    <3>4. PICK c \in todo[t] : shards' = shards \cup {c} /\ todo' = [todo EXCEPT ![t] = @ \ {c}]
      BY <3>1 DEF ApplyPut
    <3>5. ~Known(meta[t].content)'
      BY <3>2, <3>3 DEF PutSound, Known, KnownBy
    <3>6. t \in calm => update[t] \subseteq shards' \cup todo'[t]
      BY <3>2, <3>4 DEF PutSound, Typed, TypeOK
    <3>7. (\E g \in [Idx -> Nodes] :
              /\ \A i, j \in Idx : i # j => g[i] # g[j]
              /\ update[t] = CopiesAt(g, Idx, meta[t].content))'
      BY <3>2, <3>3 DEF PutSound, CopiesAt
    <3> QED BY <2>3, <3>2, <3>3, <3>5, <3>6, <3>7 DEF PutSound
  <2> QED BY <2>1, <2>2, <2>3
<1> QED BY <1>1, <1>2 DEF PutInv

LEMMA NextPut == Typed /\ StoredInv /\ ListInv /\ PutInv /\ [Next]_vars => PutInv'
<1> SUFFICES ASSUME Typed, StoredInv, ListInv, PutInv, [Next]_vars PROVE PutInv'
  OBVIOUS
<1>1. CASE \E t \in Threads : Step(t)
  BY <1>1, StepPut
<1>2. CASE RegisterNode \/ UnregisterNode \/ LoseDisk \/ LateDelete \/ UNCHANGED vars
  <2>1. UNCHANGED <<row, client, started, removing>> /\ calm' \subseteq calm
    BY <1>2 DEF RegisterNode, UnregisterNode, LoseDisk, LateDelete, vars, store, ghost, faults
  <2>2. \A x : Known(x)' <=> Known(x)
    BY <2>1 DEF Known, KnownBy, client
  <2>3. ASSUME NEW t \in Threads, op'[t] = "put" PROVE PutSound(t)'
    <3>1. PutSound(t)
      BY <2>1, <2>3 DEF PutInv, client
    <3>2. ~Known(meta[t].content)'
      BY <2>1, <3>1 DEF PutSound, Known, KnownBy, client
    <3>3. ASSUME t \in calm', NEW c \in update[t], c \notin todo[t] PROVE c \in shards'
      <4>1. c \in shards
        BY <2>1, <3>1, <3>3 DEF PutSound
      <4>2. c.token \notin removing
        BY <3>1, PutTokens DEF PutSound, Known
      <4>3. CASE LoseDisk
        BY <3>3, <4>3 DEF LoseDisk
      <4>4. CASE LateDelete
        BY <4>1, <4>2, <4>4 DEF LateDelete, StoredInv, DeletesAnnounced
      <4>5. CASE RegisterNode \/ UnregisterNode \/ UNCHANGED vars
        BY <4>1, <4>5 DEF RegisterNode, UnregisterNode, vars, store
      <4> QED BY <1>2, <4>3, <4>4, <4>5
    <3>4. (\E g \in [Idx -> Nodes] :
              /\ \A i, j \in Idx : i # j => g[i] # g[j]
              /\ update[t] = CopiesAt(g, Idx, meta[t].content))'
      BY <2>1, <3>1 DEF PutSound, CopiesAt, client
    <3> QED BY <2>1, <3>1, <3>2, <3>3, <3>4 DEF PutSound, client
  <2> QED BY <2>1, <2>2, <2>3 DEF PutInv
<1> QED BY <1>1, <1>2 DEF Next

\* k shards of a new row are left on the other nodes.
LEMMA CommitSurvives ==
    ASSUME Typed, PutInv, NEW t \in Threads, PutCommit(t), t \in calm,
           NEW lost \in SUBSET Nodes, Cardinality(lost) <= M
    PROVE  Decodable({c \in row'.locs \cap shards' : c.node \notin lost}, row'.content)
<1>1. PutSound(t) /\ todo[t] = {} /\ row' = NewRow(t) /\ shards' = shards
  BY DEF PutCommit, Applied, PutInv
<1>2. row'.locs = update[t] /\ row'.content = meta[t].content /\ update[t] \subseteq shards
  BY <1>1 DEF NewRow, PutSound
<1>3. PICK f \in [Idx -> Nodes] :
        /\ \A i, j \in Idx : i # j => f[i] # f[j]
        /\ update[t] = CopiesAt(f, Idx, meta[t].content)
  BY <1>1 DEF PutSound
<1> DEFINE left == {c \in {c \in row'.locs \cap shards' : c.node \notin lost} : c.token = row'.content}
<1>4. Indices(left) = {i \in Idx : f[i] \notin lost}
  <2>1. left = {c \in CopiesAt(f, Idx, meta[t].content) : c.node \notin lost}
    BY <1>1, <1>2, <1>3 DEF CopiesAt
  <2>2. ASSUME NEW i \in Idx, f[i] \notin lost PROVE i \in Indices(left)
    <3>1. [index |-> i, node |-> f[i], token |-> meta[t].content] \in left
      BY <2>1, <2>2 DEF CopiesAt
    <3> HIDE DEF left
    <3> QED BY <3>1 DEF Indices
  <2>3. ASSUME NEW c \in left PROVE c.index \in {i \in Idx : f[i] \notin lost}
    BY <2>1 DEF CopiesAt
  <2> HIDE DEF left
  <2> QED BY <2>2, <2>3 DEF Indices
<1>5. Cardinality({i \in Idx : f[i] \notin lost}) >= K
  BY <1>3, LossesLeaveK
<1>6. Cardinality(Indices(left)) >= K
  BY <1>4, <1>5
<1> QED BY <1>6 DEF Decodable

\* "Any m nodes can be lost and every object still reconstructs" holds of what
\* a put has just committed, for every cluster, code and weight table and
\* whatever the other threads did to the object meanwhile.
THEOREM PutsAreDurable == Spec => PutsSurviveLosses
<1>1. Spec => []Typed
  BY InitTyped, NextTyped, PTL DEF Spec
<1>2. Spec => []HealInv
  BY <1>1, InitHeal, NextHeal, StoredInvariant, PTL DEF Spec
<1>3. HealInv => IdleBlank
  BY DEF HealInv
<1>4. Spec => []ListInv
  BY <1>1, <1>2, <1>3, InitList, NextList, PTL DEF Spec
<1>5. Spec => []PutInv
  BY <1>1, <1>4, StoredInvariant, InitPut, NextPut, PTL DEF Spec
<1>6. Typed /\ PutInv /\ [Next]_vars =>
        [\A t \in Threads, lost \in SUBSET Nodes :
            ( /\ op[t] = "put" /\ t \in calm
              /\ pc'[t] = "idle" /\ row' # row
              /\ Cardinality(lost) <= M )
                => Decodable({c \in row'.locs \cap shards' : c.node \notin lost},
                             row'.content)]_vars
  <2> SUFFICES ASSUME Typed, PutInv, [Next]_vars, NEW t \in Threads, NEW lost \in SUBSET Nodes,
                      op[t] = "put", t \in calm, pc'[t] = "idle", row' # row,
                      Cardinality(lost) <= M
               PROVE  Decodable({c \in row'.locs \cap shards' : c.node \notin lost}, row'.content)
    OBVIOUS
  <2>0. pc[t] = "apply"
    BY DEF Typed, OpAtPc
  <2>1. PICK u \in Threads : Step(u)
    BY DEF Next, vars, store, RegisterNode, UnregisterNode, LoseDisk, LateDelete
  <2>2. u = t
    BY <2>0, <2>1, StepLocal
  <2>3. PutCommit(t)
    BY <2>0, <2>1, <2>2 DEF Step, PutStart, ApplyPut, ReadRow, ReadLocations, GetFetch,
          RemoveShard, RemoveRow, ProbeShard, RepairFetch, RepairPlace, RebalanceGate,
          RebalanceCopy, FencedCommit, Abandon, store
  <2> QED BY <2>3, CommitSurvives
<1> QED BY <1>1, <1>5, <1>6, PTL DEF Spec, PutsSurviveLosses

-----------------------------------------------------------------------------
LEMMA IdxIsFinite == IsFiniteSet(Idx) /\ Cardinality(Idx) = Total
<1>1. 0 \in Int /\ Total - 1 \in Int /\ ~(0 > Total - 1) /\ (Total - 1) - 0 + 1 = Total
  BY IdxFacts
<1> QED BY <1>1, FS_Interval DEF Idx

\* A complete list of one put without M of its copies can still be decoded.
LEMMA FullMinusM ==
    ASSUME NEW L \in SUBSET Copy, Full(L), NEW gone \in SUBSET L, Cardinality(gone) <= M,
           NEW content, \A c \in L : c.token = content,
           NEW left \in SUBSET Copy, L \ gone \subseteq left
    PROVE  Decodable(left, content)
<1> DEFINE at == [c \in L |-> c.index]
           hit == [c \in gone |-> c.index]
           rest == Indices({c \in left : c.token = content})
<1>1. at \in Injection(L, Idx)
  BY DEF Injection, IsInjective, Full, Distinct, Copy
<1>2. IsFiniteSet(L)
  <2> HIDE DEF at
  <2> QED BY <1>1, IdxIsFinite, FS_Injection
<1>3. IsFiniteSet(gone) /\ Cardinality(gone) \in Nat
  BY <1>2, FS_Subset, FS_CardinalityType
<1>4. hit \in Surjection(gone, Indices(gone))
  BY DEF Surjection, Indices
<1>5. IsFiniteSet(Indices(gone)) /\ Cardinality(Indices(gone)) <= Cardinality(gone)
  <2> HIDE DEF hit
  <2> QED BY <1>3, <1>4, FS_Surjection
<1>6. Cardinality(Indices(gone)) \in Nat
  BY <1>5, FS_CardinalityType
<1>7. Indices(gone) \in SUBSET Idx /\ rest \in SUBSET Idx
  <2>1. gone \in SUBSET Copy /\ {c \in left : c.token = content} \in SUBSET Copy
    OBVIOUS
  <2> QED BY <2>1, IndicesType
<1>8. Idx \ Indices(gone) \in SUBSET rest
  <2> SUFFICES ASSUME NEW i \in Idx, i \notin Indices(gone) PROVE i \in rest
    OBVIOUS
  <2>1. PICK c \in L : c.index = i
    BY DEF Full
  <2>2. c \notin gone
    BY <2>1 DEF Indices
  <2>3. c \in left /\ c.token = content
    BY <2>2
  <2> QED BY <2>1, <2>3 DEF Indices
<1>9. IsFiniteSet(rest) /\ Cardinality(rest) \in Nat
  <2> HIDE DEF rest
  <2> QED BY <1>7, IdxIsFinite, FS_Subset, FS_CardinalityType
<1>10. Cardinality(Idx \ Indices(gone)) <= Cardinality(rest)
  <2> HIDE DEF rest
  <2> QED BY <1>8, <1>9, FS_Subset
<1>11. Cardinality(Idx \ Indices(gone)) = Total - Cardinality(Indices(gone))
  <2>1. Idx \cap Indices(gone) = Indices(gone)
    BY <1>7
  <2>2. Cardinality(Idx \ Indices(gone)) = Cardinality(Idx) - Cardinality(Idx \cap Indices(gone))
    BY IdxIsFinite, FS_Difference
  <2> QED BY <2>1, <2>2, IdxIsFinite
<1>12. K \in Nat /\ M \in Nat /\ Total = K + M
  BY PlacementAssumption DEF Total
<1>13. Cardinality(rest) >= K
  <2> HIDE DEF rest
  <2> QED BY <1>3, <1>5, <1>6, <1>9, <1>10, <1>11, <1>12
<1> QED BY <1>13 DEF Decodable

\* "Any m nodes can be lost" holds of shards instead: until a remove() begins,
\* an acknowledged object can be read at every moment, whatever the other
\* operations are in the middle of, unless more than m of its listed shards are
\* lost.  (Of nodes it fails where repair() puts two shards on one.)
THEOREM ObjectsSurviveMShards == Spec => []SurvivesMShardLosses
<1>1. Spec => []Typed
  BY InitTyped, NextTyped, PTL DEF Spec
<1>2. Spec => []HealInv
  BY <1>1, InitHeal, NextHeal, StoredInvariant, PTL DEF Spec
<1>3. HealInv => IdleBlank
  BY DEF HealInv
<1>4. Spec => []ListInv
  BY <1>1, <1>2, <1>3, InitList, NextList, PTL DEF Spec
<1>5. Typed /\ StoredInv /\ ListInv /\ UntilRemove => SurvivesMShardLosses
  <2> SUFFICES ASSUME Typed, StoredInv, ListInv, UntilRemove, NEW lost \in SUBSET Nodes,
                      removing = {}, row.version # 0,
                      Cardinality({c \in row.locs : c.node \in lost \cup wiped}) <= M
               PROVE  Decodable({c \in row.locs \cap shards : c.node \notin lost}, row.content)
    BY DEF SurvivesMShardLosses
  <2> DEFINE gone == {c \in row.locs : c.node \in lost \cup wiped}
             left == {c \in row.locs \cap shards : c.node \notin lost}
  <2>1. row.locs \in SUBSET Copy /\ left \in SUBSET Copy
    BY DEF Typed, TypeOK, Row
  <2>2. Full(row.locs)
    BY DEF ListInv
  <2>3. \A c \in row.locs : c.token = row.content
    BY DEF UntilRemove, FenceInv, RowCoherent
  <2>4. row.locs \ gone \subseteq left
    BY DEF StoredInv, CommittedShardsStored, Accounted
  <2>5. gone \in SUBSET row.locs /\ Cardinality(gone) <= M
    OBVIOUS
  <2>6. Decodable(left, row.content)
    <3> HIDE DEF gone, left
    <3> QED BY <2>1, <2>2, <2>3, <2>4, <2>5, FullMinusM
  <2> QED BY <2>6
<1> QED BY <1>1, <1>4, <1>5, StoredInvariant, FenceInvariant, PTL
=============================================================================
