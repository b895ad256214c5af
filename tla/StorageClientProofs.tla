------------------------ MODULE StorageClientProofs ------------------------
(***************************************************************************)
(* Theorems about StorageClient for every set of nodes, every number of    *)
(* threads, every code (k, m), every weight table and any number of        *)
(* operations.                                                             *)
(***************************************************************************)
EXTENDS StorageClient, TLAPS

\* Which operation can be at which step.
OpAtPc ==
    \A t \in Threads :
        /\ pc[t] = "row" => op[t] \in {"get", "remove", "repair", "rebalance"}
        /\ pc[t] = "delete" => op[t] = "remove"
        /\ op[t] = "put" => pc[t] = "apply"

Typed == TypeOK /\ OpAtPc

\* The operators the actions build copies with return copies.
LEMMA CopiesAtType ==
    ASSUME NEW indices \in SUBSET Idx, NEW f, NEW token \in Nat,
           \A i \in indices : f[i] \in Nodes
    PROVE  CopiesAt(f, indices, token) \subseteq Copy
BY DEF CopiesAt, Copy

LEMMA IndicesType ==
    ASSUME NEW copies \in SUBSET Copy
    PROVE  Indices(copies) \in SUBSET Idx
BY DEF Indices, Copy

LEMMA MovedType ==
    ASSUME NEW c \in Copy, NEW intended \in [Idx -> Nodes]
    PROVE  /\ Moved(c, intended) \in Copy
           /\ Moved(c, intended).token = c.token
           /\ Moved(c, intended).index = c.index
           /\ Moved(c, intended).node = intended[c.index]
BY DEF Moved, Copy

LEMMA CappedSubset ==
    ASSUME NEW misplaced, NEW cap
    PROVE  Capped(misplaced, cap) \subseteq misplaced
BY DEF Capped

\* RebalanceGate plans a new copy of some of the listed shards.
LEMMA GatePlan ==
    ASSUME NEW t \in Threads, RebalanceGate(t)
    PROVE  \E intended \in [Idx -> registered], moves \in SUBSET meta[t].locs :
              update' = [update EXCEPT ![t] = {Moved(c, intended) : c \in moves}]
<1>1. PICK healthy \in SUBSET registered, cap \in MoveCaps,
           intended \in [Idx -> registered] :
        update' = [update EXCEPT ![t] =
           {Moved(c, intended) : c \in Capped({c \in meta[t].locs :
                        /\ c.node # intended[c.index]
                        /\ intended[c.index] \in healthy}, cap)}]
  BY DEF RebalanceGate
<1> DEFINE misplaced == {c \in meta[t].locs : /\ c.node # intended[c.index]
                                             /\ intended[c.index] \in healthy}
<1>2. Capped(misplaced, cap) \in SUBSET meta[t].locs
  BY CappedSubset
<1> QED BY <1>1, <1>2

LEMMA InitTyped == Init => Typed
<1> SUFFICES ASSUME Init PROVE Typed
  OBVIOUS
<1>1. cramped \in BOOLEAN
  BY Zenon DEF Init
<1> QED BY <1>1, ClientAssumption DEF Init, Typed, TypeOK, OpAtPc, NoRow, Row, PCs

\* Forgetting a thread's locals keeps them well typed.
LEMMA DoneTyped ==
    ASSUME Typed, NEW t \in Threads, Done(t)
    PROVE  /\ pc' \in [Threads -> PCs]
           /\ op' \in [Threads -> Ops \cup {"none"}]
           /\ meta' \in [Threads -> Row]
           /\ seen' \in [Threads -> SUBSET Copy]
           /\ todo' \in [Threads -> SUBSET Copy]
           /\ update' \in [Threads -> SUBSET Copy]
           /\ OpAtPc'
BY DEF Typed, TypeOK, OpAtPc, Done, PCs, NoRow, Row

LEMMA NewRowType ==
    ASSUME TypeOK, NEW t \in Threads
    PROVE  NewRow(t) \in Row
BY DEF TypeOK, NewRow, Row

LEMMA StepTyped ==
    ASSUME Typed, NEW t \in Threads, Step(t)
    PROVE  Typed'
<1> USE DEF Typed, store, client, ghost, faults
<1>1. CASE PutStart(t)
  <2>1. PICK intended \in [Idx -> registered] :
          /\ todo' = [todo EXCEPT ![t] = CopiesAt(intended, Idx, started + 1)]
          /\ update' = [update EXCEPT ![t] = CopiesAt(intended, Idx, started + 1)]
    BY <1>1 DEF PutStart
  <2>2. CopiesAt(intended, Idx, started + 1) \subseteq Copy
    BY CopiesAtType DEF TypeOK
  <2>3. [version |-> 0, content |-> started + 1, locs |-> {}] \in Row
    BY DEF TypeOK, Row
  <2>4. op' \in [Threads -> Ops \cup {"none"}] /\ pc' \in [Threads -> PCs]
    BY <1>1 DEF PutStart, TypeOK, PCs
  <2>5. OpAtPc'
    BY <1>1 DEF PutStart, TypeOK, OpAtPc
  <2> QED BY <1>1, <2>1, <2>2, <2>3, <2>4, <2>5 DEF PutStart, TypeOK
<1>2. CASE ApplyPut(t)
  BY <1>2 DEF ApplyPut, TypeOK, OpAtPc
<1>3. CASE PutCommit(t)
  BY <1>3, DoneTyped, NewRowType DEF PutCommit, TypeOK, Row
<1>4. CASE ReadRow(t)
  <2>1. [version |-> row.version, content |-> row.content, locs |-> {}] \in Row
    BY DEF TypeOK, Row
  <2>2. PICK o \in Ops \ {"put"} : op' = [op EXCEPT ![t] = o]
    BY <1>4 DEF ReadRow
  <2>3. o \in {"get", "remove", "repair", "rebalance"}
    BY ClientAssumption
  <2> QED BY <1>4, <2>1, <2>2, <2>3 DEF ReadRow, TypeOK, OpAtPc, PCs
<1>5. CASE ReadLocations(t)
  <2>1. AfterRead(op[t]) \in PCs /\ AfterRead(op[t]) # "row"
    BY <1>5 DEF ReadLocations, OpAtPc, AfterRead, PCs
  <2>2. AfterRead(op[t]) = "delete" => op[t] = "remove"
    BY <1>5 DEF ReadLocations, OpAtPc, AfterRead
  <2>3. removing' \subseteq Nat
    <3>1. \A c \in row.locs : c.token \in Nat
      BY DEF TypeOK, Row, Copy
    <3>2. {c.token : c \in row.locs} \subseteq Nat
      BY <3>1
    <3>3. meta[t].content \in Nat
      BY DEF TypeOK, Row
    <3> QED BY <1>5, <3>2, <3>3 DEF ReadLocations, TypeOK
  <2>4. meta' \in [Threads -> Row] /\ todo' \in [Threads -> SUBSET Copy]
    BY <1>5 DEF ReadLocations, TypeOK, Row
  <2>5. OpAtPc' /\ pc' \in [Threads -> PCs]
    BY <1>5, <2>1, <2>2 DEF ReadLocations, TypeOK, OpAtPc
  <2> QED BY <1>5, <2>3, <2>4, <2>5 DEF ReadLocations, TypeOK
<1>6. CASE GetFetch(t)
  BY <1>6, DoneTyped DEF GetFetch, TypeOK
<1>7. CASE RemoveShard(t)
  BY <1>7 DEF RemoveShard, TypeOK, OpAtPc
<1>8. CASE RemoveRow(t)
  BY <1>8, DoneTyped DEF RemoveRow, TypeOK, NoRow, Row
<1>9. CASE ProbeShard(t)
  BY <1>9 DEF ProbeShard, TypeOK, OpAtPc
<1>10. CASE RepairFetch(t)
  BY <1>10 DEF RepairFetch, TypeOK, OpAtPc, PCs
<1>11. CASE RepairPlace(t)
  <2> DEFINE missing == Indices(meta[t].locs \ seen[t])
  <2>1. PICK healthy \in SUBSET registered :
          \E target \in [missing -> healthy], first \in meta[t].locs :
            /\ todo' = [todo EXCEPT ![t] = CopiesAt(target, missing, first.token)]
            /\ update' = [update EXCEPT ![t] =
                            seen[t] \cup CopiesAt(target, missing, first.token)]
    BY <1>11 DEF RepairPlace
  <2>2. PICK target \in [missing -> healthy], first \in meta[t].locs :
            /\ todo' = [todo EXCEPT ![t] = CopiesAt(target, missing, first.token)]
            /\ update' = [update EXCEPT ![t] =
                            seen[t] \cup CopiesAt(target, missing, first.token)]
    BY <2>1
  <2>3. meta[t].locs \in SUBSET Copy
    BY DEF TypeOK, Row
  <2>4. missing \in SUBSET Idx
    BY <2>3, IndicesType
  <2>5. first.token \in Nat
    BY <2>3 DEF Copy
  <2>6. \A i \in missing : target[i] \in Nodes
    BY DEF TypeOK
  <2>7. CopiesAt(target, missing, first.token) \subseteq Copy
    BY <2>4, <2>5, <2>6, CopiesAtType
  <2> HIDE DEF missing
  <2> QED BY <1>11, <2>2, <2>7 DEF RepairPlace, TypeOK, OpAtPc, PCs
<1>12. CASE RebalanceGate(t)
  <2>1. PICK intended \in [Idx -> registered], moves \in SUBSET meta[t].locs :
          update' = [update EXCEPT ![t] = {Moved(c, intended) : c \in moves}]
    BY <1>12, GatePlan
  <2>2. intended \in [Idx -> Nodes] /\ meta[t].locs \in SUBSET Copy
    BY DEF TypeOK, Row
  <2>3. \A c \in meta[t].locs : Moved(c, intended) \in Copy
    BY <2>2, MovedType
  <2>4. update' \in [Threads -> SUBSET Copy]
    <3>1. {Moved(c, intended) : c \in moves} \subseteq Copy
      BY <2>3
    <3> QED BY <2>1, <3>1 DEF TypeOK
  <2>5. todo' \in [Threads -> SUBSET Copy]
    BY <1>12, <2>2 DEF RebalanceGate, TypeOK
  <2> QED BY <1>12, <2>4, <2>5 DEF RebalanceGate, TypeOK, OpAtPc, PCs
<1>13. CASE RebalanceCopy(t)
  <2>1. meta[t].locs \in SUBSET Copy
    BY DEF TypeOK, Row
  <2> QED BY <1>13, <2>1 DEF RebalanceCopy, TypeOK, OpAtPc, PCs
<1>14. CASE FencedCommit(t)
  BY <1>14, DoneTyped, NewRowType DEF FencedCommit, TypeOK
<1>15. CASE Abandon(t)
  BY <1>15, DoneTyped DEF Abandon, TypeOK
<1> QED BY <1>1, <1>2, <1>3, <1>4, <1>5, <1>6, <1>7, <1>8, <1>9, <1>10,
           <1>11, <1>12, <1>13, <1>14, <1>15 DEF Step

\* A step of one thread leaves the locals of the others alone.
LEMMA StepLocal ==
    ASSUME Typed, NEW t \in Threads, Step(t), NEW u \in Threads, u # t
    PROVE  pc'[u] = pc[u] /\ op'[u] = op[u] /\ meta'[u] = meta[u]
           /\ seen'[u] = seen[u] /\ todo'[u] = todo[u] /\ update'[u] = update[u]
<1> USE DEF Typed, TypeOK, client
<1>1. CASE PutStart(t) \/ RepairPlace(t) \/ RebalanceGate(t) \/ RebalanceCopy(t)
  BY <1>1 DEF PutStart, RepairPlace, RebalanceGate, RebalanceCopy
<1>2. CASE ApplyPut(t) \/ RemoveShard(t) \/ ProbeShard(t) \/ RepairFetch(t)
  BY <1>2 DEF ApplyPut, RemoveShard, ProbeShard, RepairFetch
<1>3. CASE ReadRow(t) \/ ReadLocations(t)
  BY <1>3 DEF ReadRow, ReadLocations
<1>4. CASE Done(t)
  BY <1>4 DEF Done
<1>5. PutCommit(t) \/ GetFetch(t) \/ RemoveRow(t) \/ FencedCommit(t) \/ Abandon(t) => Done(t)
  BY DEF PutCommit, GetFetch, RemoveRow, FencedCommit, Abandon
<1> QED BY <1>1, <1>2, <1>3, <1>4, <1>5 DEF Step

LEMMA NextTyped == Typed /\ [Next]_vars => Typed'
<1> SUFFICES ASSUME Typed, [Next]_vars PROVE Typed'
  OBVIOUS
<1>1. CASE RegisterNode \/ UnregisterNode
  BY <1>1, ClientAssumption DEF RegisterNode, UnregisterNode, Typed, TypeOK, OpAtPc, client, ghost, faults
<1>2. CASE LoseDisk \/ LateDelete
  BY <1>2, ClientAssumption DEF LoseDisk, LateDelete, Typed, TypeOK, OpAtPc, client
<1>3. CASE \E t \in Threads : Step(t)
  BY <1>3, StepTyped
<1>4. CASE UNCHANGED vars
  BY <1>4 DEF Typed, TypeOK, OpAtPc, vars, store, client, ghost, faults
<1> QED BY <1>1, <1>2, <1>3, <1>4 DEF Next

\* The row, the nodes and every thread's locals stay well formed, whatever the
\* operations interleave.
THEOREM TypeCorrect == Spec => []TypeOK
<1>1. Spec => []Typed
  BY InitTyped, NextTyped, PTL DEF Spec
<1> QED BY <1>1, PTL DEF Typed

-----------------------------------------------------------------------------
\* The copies a thread's probes found.
SeenStored ==
    \A t \in Threads : \A c \in seen[t] : Accounted(c)

\* The locations a thread is about to commit are written, or still to write.
UpdateWritten ==
    \A t \in Threads : pc[t] = "apply" => \A c \in update[t] : Accounted(c) \/ c \in todo[t]

\* Only the shards of a token recorded in removing are ever deleted, at once
\* or late.
DeletesAnnounced ==
    /\ \A t \in Threads : pc[t] = "delete" => \A c \in todo[t] : c.token \in removing
    /\ \A c \in late : c.token \in removing

\* The inductive invariant behind CommittedShardsStored and StaleReadersServed.
StoredInv ==
    /\ CommittedShardsStored
    /\ StaleReadersServed
    /\ SeenStored
    /\ UpdateWritten
    /\ DeletesAnnounced

LEMMA InitStored == Init => StoredInv
BY DEF Init, StoredInv, CommittedShardsStored, StaleReadersServed, SeenStored,
       UpdateWritten, DeletesAnnounced, NoRow

\* No step takes a copy out of account.
LEMMA StaysAccounted ==
    ASSUME Typed, DeletesAnnounced, NEW t \in Threads, Step(t), NEW c, Accounted(c)
    PROVE  Accounted(c)'
<1> USE DEF store, ghost, faults
<1>1. CASE RemoveShard(t)
  <2>1. PICK d \in todo[t] : shards' \in {shards, shards \ {d}}
    BY <1>1 DEF RemoveShard
  <2>2. d.token \in removing
    BY <1>1 DEF RemoveShard, DeletesAnnounced
  <2> QED BY <1>1, <2>1, <2>2 DEF RemoveShard, Accounted
<1>2. CASE ~RemoveShard(t)
  <2>1. shards \subseteq shards' /\ removing \subseteq removing' /\ wiped' = wiped
    BY <1>2 DEF Step, PutStart, ApplyPut, PutCommit, ReadRow, ReadLocations, GetFetch,
          RemoveRow, ProbeShard, RepairFetch, RepairPlace, RebalanceGate, RebalanceCopy,
          FencedCommit, Abandon
  <2> QED BY <2>1 DEF Accounted
<1> QED BY <1>1, <1>2

\* An operation that ends leaves nothing of its own to account for.
LEMMA DoneStored ==
    ASSUME Typed, StoredInv, NEW t \in Threads, Done(t),
           shards' = shards, removing' = removing, late' = late, wiped' = wiped
    PROVE  StaleReadersServed' /\ SeenStored' /\ UpdateWritten' /\ DeletesAnnounced'
BY DEF Typed, TypeOK, Done, NoRow, StoredInv, StaleReadersServed, SeenStored, UpdateWritten,
       DeletesAnnounced, Accounted

LEMMA StepStored ==
    ASSUME Typed, StoredInv, NEW t \in Threads, Step(t)
    PROVE  StoredInv'
<1>0. \A c : Accounted(c) => Accounted(c)'
  BY StaysAccounted DEF StoredInv
<1>t. /\ row \in Row /\ pc \in [Threads -> PCs] /\ op \in [Threads -> Ops \cup {"none"}]
      /\ meta \in [Threads -> Row] /\ seen \in [Threads -> SUBSET Copy]
      /\ todo \in [Threads -> SUBSET Copy] /\ update \in [Threads -> SUBSET Copy]
  BY DEF Typed, TypeOK
<1>r. \A c \in row.locs : Accounted(c)
  BY DEF StoredInv, CommittedShardsStored, Accounted
<1>m. \A u \in Threads : \A c \in meta[u].locs : Accounted(c)
  BY DEF StoredInv, StaleReadersServed, Accounted
<1> SUFFICES /\ \A c \in row'.locs : Accounted(c)'
             /\ \A u \in Threads : \A c \in meta'[u].locs : Accounted(c)'
             /\ SeenStored'
             /\ UpdateWritten'
             /\ DeletesAnnounced'
  BY DEF StoredInv, CommittedShardsStored, StaleReadersServed, Accounted
<1> USE DEF store, client, ghost, faults
<1>1. CASE PutStart(t)
  <2>1. PICK intended \in [Idx -> registered] :
          /\ todo' = [todo EXCEPT ![t] = CopiesAt(intended, Idx, started + 1)]
          /\ update' = [update EXCEPT ![t] = CopiesAt(intended, Idx, started + 1)]
    BY <1>1 DEF PutStart
  <2>2. UpdateWritten' /\ DeletesAnnounced'
    BY <1>0, <1>1, <1>t, <2>1 DEF PutStart, StoredInv, UpdateWritten, DeletesAnnounced
  <2>3. SeenStored' /\ \A c \in row'.locs : Accounted(c)'
    BY <1>0, <1>1, <1>r DEF PutStart, StoredInv, SeenStored
  <2>4. \A u \in Threads : \A c \in meta'[u].locs : Accounted(c)'
    BY <1>0, <1>1, <1>t, <1>m DEF PutStart
  <2> QED BY <2>2, <2>3, <2>4
<1>2. CASE ApplyPut(t)
  <2>1. PICK d \in todo[t] : /\ shards' = shards \cup {d}
                            /\ todo' = [todo EXCEPT ![t] = @ \ {d}]
    BY <1>2 DEF ApplyPut
  <2>2. UpdateWritten'
    BY <1>0, <1>2, <1>t, <2>1 DEF ApplyPut, StoredInv, UpdateWritten, Accounted
  <2> QED BY <1>0, <1>2, <1>t, <1>r, <1>m, <2>1, <2>2
       DEF ApplyPut, StoredInv, SeenStored, DeletesAnnounced
<1>3. CASE PutCommit(t)
  <2>1. \A c \in NewRow(t).locs : Accounted(c)
    BY <1>3 DEF PutCommit, Applied, NewRow, StoredInv, UpdateWritten
  <2> QED BY <1>0, <1>3, <2>1, DoneStored DEF PutCommit, StaleReadersServed, Accounted
<1>4. CASE ReadRow(t)
  BY <1>0, <1>4, <1>t, <1>r, <1>m
    DEF ReadRow, StoredInv, SeenStored, UpdateWritten, DeletesAnnounced
<1>5. CASE ReadLocations(t)
  <2>1. \A u \in Threads : \A c \in meta'[u].locs : Accounted(c)'
    BY <1>0, <1>5, <1>t, <1>r, <1>m DEF ReadLocations
  <2>2. op[t] \in {"get", "remove", "repair", "rebalance"}
    BY <1>5 DEF ReadLocations, Typed, OpAtPc
  <2>3. /\ AfterRead(op[t]) # "apply"
        /\ AfterRead(op[t]) = "delete" => op[t] = "remove"
    BY <2>2, Zenon DEF AfterRead
  <2>4. UpdateWritten'
    BY <1>0, <1>5, <1>t, <2>3 DEF ReadLocations, StoredInv, UpdateWritten
  <2>5. DeletesAnnounced'
    <3>0. \A c \in late' : c.token \in removing'
      BY <1>5 DEF ReadLocations, StoredInv, DeletesAnnounced
    <3> SUFFICES ASSUME NEW u \in Threads, pc'[u] = "delete", NEW c \in todo'[u]
                 PROVE  c.token \in removing'
      BY <3>0 DEF DeletesAnnounced
    <3>1. CASE u = t
      BY <1>5, <1>t, <2>3, <3>1 DEF ReadLocations
    <3>2. CASE u # t
      BY <1>5, <1>t, <3>2 DEF ReadLocations, StoredInv, DeletesAnnounced
    <3> QED BY <3>1, <3>2
  <2> QED BY <1>0, <1>5, <1>r, <2>1, <2>4, <2>5 DEF ReadLocations, StoredInv, SeenStored
<1>6. CASE GetFetch(t)
  BY <1>0, <1>6, <1>r, DoneStored DEF GetFetch, StaleReadersServed, Accounted
<1>7. CASE RemoveShard(t)
  <2>1. PICK d \in todo[t] : todo' = [todo EXCEPT ![t] = @ \ {d}]
    BY <1>7 DEF RemoveShard
  <2>2. UpdateWritten'
    BY <1>0, <1>7, <1>t, <2>1 DEF RemoveShard, StoredInv, UpdateWritten
  <2> QED BY <1>0, <1>7, <1>t, <1>r, <1>m, <2>1, <2>2
       DEF RemoveShard, StoredInv, SeenStored, DeletesAnnounced
<1>8. CASE RemoveRow(t)
  BY <1>0, <1>8, DoneStored DEF RemoveRow, NoRow, StaleReadersServed, Accounted
<1>9. CASE ProbeShard(t)
  <2>1. PICK d \in todo[t] :
          /\ todo' = [todo EXCEPT ![t] = @ \ {d}]
          /\ \/ d \in shards /\ seen' = [seen EXCEPT ![t] = @ \cup {d}]
             \/ seen' = seen
    BY <1>9 DEF ProbeShard
  <2>2. SeenStored'
    BY <1>0, <1>9, <1>t, <2>1 DEF ProbeShard, StoredInv, SeenStored, Accounted
  <2> QED BY <1>0, <1>9, <1>t, <1>r, <1>m, <2>1, <2>2
       DEF ProbeShard, StoredInv, UpdateWritten, DeletesAnnounced
<1>10. CASE RepairFetch(t)
  BY <1>0, <1>10, <1>t, <1>r, <1>m
    DEF RepairFetch, StoredInv, SeenStored, UpdateWritten, DeletesAnnounced
<1>11. CASE RepairPlace(t)
  <2>1. PICK new : /\ todo' = [todo EXCEPT ![t] = new]
                   /\ update' = [update EXCEPT ![t] = seen[t] \cup new]
    BY <1>11 DEF RepairPlace
  <2>2. UpdateWritten'
    BY <1>0, <1>11, <1>t, <2>1 DEF RepairPlace, StoredInv, SeenStored, UpdateWritten
  <2>3. /\ pc' = [pc EXCEPT ![t] = "apply"]
        /\ row' = row /\ meta' = meta /\ seen' = seen /\ removing' = removing /\ late' = late
    BY <1>11 DEF RepairPlace
  <2> QED BY <1>0, <1>t, <1>r, <1>m, <2>1, <2>2, <2>3 DEF StoredInv, SeenStored, DeletesAnnounced
<1>12. CASE RebalanceGate(t)
  BY <1>0, <1>12, <1>t, <1>r, <1>m, GatePlan
    DEF RebalanceGate, StoredInv, SeenStored, UpdateWritten, DeletesAnnounced
<1>13. CASE RebalanceCopy(t)
  <2>1. PICK moves \in SUBSET update[t] :
          /\ todo' = [todo EXCEPT ![t] = moves]
          /\ update' = [update EXCEPT ![t] =
                          moves \cup {c \in meta[t].locs : c.index \notin Indices(moves)}]
    BY <1>13 DEF RebalanceCopy
  <2>2. UpdateWritten'
    BY <1>0, <1>13, <1>t, <1>m, <2>1 DEF RebalanceCopy, StoredInv, UpdateWritten
  <2>3. /\ pc' = [pc EXCEPT ![t] = "apply"]
        /\ row' = row /\ meta' = meta /\ seen' = seen /\ removing' = removing /\ late' = late
    BY <1>13 DEF RebalanceCopy
  <2> QED BY <1>0, <1>t, <1>r, <1>m, <2>1, <2>2, <2>3 DEF StoredInv, SeenStored, DeletesAnnounced
<1>14. CASE FencedCommit(t)
  <2>1. \A c \in NewRow(t).locs : Accounted(c)
    BY <1>14 DEF FencedCommit, Applied, NewRow, StoredInv, UpdateWritten
  <2> QED BY <1>0, <1>14, <1>r, <2>1, DoneStored DEF FencedCommit, StaleReadersServed, Accounted
<1>15. CASE Abandon(t)
  BY <1>0, <1>15, <1>r, DoneStored DEF Abandon, StaleReadersServed, Accounted
<1> QED BY <1>1, <1>2, <1>3, <1>4, <1>5, <1>6, <1>7, <1>8, <1>9, <1>10,
           <1>11, <1>12, <1>13, <1>14, <1>15 DEF Step

LEMMA NextStored == Typed /\ StoredInv /\ [Next]_vars => StoredInv'
<1> SUFFICES ASSUME Typed, StoredInv, [Next]_vars PROVE StoredInv'
  OBVIOUS
<1> USE DEF StoredInv, CommittedShardsStored, StaleReadersServed, SeenStored, UpdateWritten,
            DeletesAnnounced, Accounted, client, ghost, faults
<1>1. CASE RegisterNode \/ UnregisterNode
  BY <1>1 DEF RegisterNode, UnregisterNode
<1>2. CASE LoseDisk
  BY <1>2 DEF LoseDisk
<1>3. CASE LateDelete
  BY <1>3 DEF LateDelete
<1>4. CASE \E t \in Threads : Step(t)
  BY <1>4, StepStored
<1>5. CASE UNCHANGED vars
  BY <1>5 DEF vars, store
<1> QED BY <1>1, <1>2, <1>3, <1>4, <1>5 DEF Next

LEMMA StoredInvariant == Spec => []StoredInv
<1>1. Spec => []Typed
  BY InitTyped, NextTyped, PTL DEF Spec
<1> QED BY <1>1, InitStored, NextStored, PTL DEF Spec

\* The committed row never points at a shard that is missing from its node for
\* any reason but a remove(): payloads go first, and no failure, crash or race
\* of put, repair and rebalance_object breaks that order.
THEOREM CommittedShardsAreStored == Spec => []CommittedShardsStored
BY StoredInvariant, PTL DEF StoredInv

\* Overwriting, repairing or rebalancing an object never takes a shard away
\* from a reader that holds older metadata.
THEOREM StaleReadersAreServed == Spec => []StaleReadersServed
BY StoredInvariant, PTL DEF StoredInv

-----------------------------------------------------------------------------
\* A thread that is idle has empty locals.
IdleClean ==
    \A t \in Threads : pc[t] = "idle" => seen[t] = {} /\ todo[t] = {} /\ update[t] = {}

\* What the version read is worth: while the row still has it, the row is the
\* one that was read, and every copy derived from it carries its token.
FenceSound ==
    \A t \in Threads :
        /\ meta[t].version <= row.version
        /\ op[t] \in {"get", "repair", "rebalance"} /\ meta[t].version = row.version =>
              /\ meta[t].content = row.content
              /\ \A c \in meta[t].locs \cup seen[t] \cup todo[t] \cup update[t] :
                    c.token = row.content

\* A running put has a token of its own that no commit has used.
PutsFresh ==
    /\ \A w \in written : w <= started
    /\ \A t \in Threads : op[t] = "put" =>
          /\ meta[t].content \in 1 .. started
          /\ meta[t].content \notin written
          /\ \A c \in update[t] : c.token = meta[t].content
    /\ \A t, u \in Threads : op[t] = "put" /\ op[u] = "put" /\ t # u
                                => meta[t].content # meta[u].content

\* No remove() has got to its deletes.
NotDeleting ==
    \A t \in Threads : pc[t] # "delete"

\* The inductive invariant behind RowCoherent and ImplementsRegister, until a
\* remove() begins: it rests on a row never going back to version 1.
FenceInv ==
    /\ RowCoherent
    /\ IdleClean
    /\ FenceSound
    /\ PutsFresh
    /\ NotDeleting

UntilRemove == removing = {} => FenceInv

LEMMA InitFence == Init => FenceInv
BY DEF Init, FenceInv, RowCoherent, IdleClean, FenceSound, PutsFresh, NotDeleting, NoRow

\* RepairPlace gives every new copy the token of a listed one.
LEMMA PlacedCopies ==
    ASSUME NEW t \in Threads, RepairPlace(t)
    PROVE  \E new, first :
              /\ first \in meta[t].locs
              /\ \A c \in new : c.token = first.token
              /\ todo' = [todo EXCEPT ![t] = new]
              /\ update' = [update EXCEPT ![t] = seen[t] \cup new]
<1> DEFINE missing == Indices(meta[t].locs \ seen[t])
<1>1. PICK healthy \in SUBSET registered :
        \E target \in [missing -> healthy], first \in meta[t].locs :
          /\ todo' = [todo EXCEPT ![t] = CopiesAt(target, missing, first.token)]
          /\ update' = [update EXCEPT ![t] =
                          seen[t] \cup CopiesAt(target, missing, first.token)]
  BY DEF RepairPlace
<1>2. PICK target \in [missing -> healthy], first \in meta[t].locs :
          /\ todo' = [todo EXCEPT ![t] = CopiesAt(target, missing, first.token)]
          /\ update' = [update EXCEPT ![t] =
                          seen[t] \cup CopiesAt(target, missing, first.token)]
  BY <1>1
<1>3. \A c \in CopiesAt(target, missing, first.token) : c.token = first.token
  BY DEF CopiesAt
<1> HIDE DEF missing
<1> QED BY <1>2, <1>3

LEMMA PlannedTokens ==
    ASSUME TypeOK, NEW t \in Threads, RebalanceGate(t), NEW x,
           \A c \in meta[t].locs : c.token = x
    PROVE  \E plan : /\ \A c \in plan : c.token = x
                    /\ update' = [update EXCEPT ![t] = plan]
<1>1. PICK intended \in [Idx -> registered], moves \in SUBSET meta[t].locs :
        update' = [update EXCEPT ![t] = {Moved(c, intended) : c \in moves}]
  BY GatePlan
<1>2. \A c \in moves : Moved(c, intended).token = x
  BY DEF Moved
<1>3. \A d \in {Moved(c, intended) : c \in moves} : d.token = x
  BY <1>2
<1> QED BY <1>1, <1>3

\* Ending an operation without touching the row keeps the fence.
LEMMA DoneFence ==
    ASSUME Typed, FenceInv, NEW t \in Threads, Done(t),
           row' = row, started' = started, written' = written
    PROVE  FenceInv'
<1> USE DEF Typed, TypeOK, Done, NoRow
<1>1. RowCoherent' /\ IdleClean'
  BY DEF FenceInv, RowCoherent, IdleClean
<1>2. FenceSound'
  BY DEF FenceInv, FenceSound, Row
<1>3. PutsFresh' /\ NotDeleting'
  BY DEF FenceInv, PutsFresh, NotDeleting
<1> QED BY <1>1, <1>2, <1>3 DEF FenceInv

\* A commit moves the row past every version read before.
LEMMA CommitFence ==
    ASSUME Typed, FenceInv, NEW t \in Threads, Done(t), row' = NewRow(t),
           started' = started, \A c \in update[t] : c.token = meta[t].content
    PROVE  RowCoherent' /\ IdleClean' /\ FenceSound' /\ NotDeleting'
<1> USE DEF Typed, TypeOK, Done, NoRow, NewRow
<1>1. RowCoherent' /\ IdleClean' /\ NotDeleting'
  BY DEF FenceInv, RowCoherent, IdleClean, NotDeleting
<1>2. FenceSound'
  BY DEF FenceInv, FenceSound, Row
<1> QED BY <1>1, <1>2

LEMMA StepFence ==
    ASSUME Typed, FenceInv, NEW t \in Threads, Step(t), removing' = {}
    PROVE  FenceInv'
<1>t. /\ row \in Row /\ pc \in [Threads -> PCs] /\ op \in [Threads -> Ops \cup {"none"}]
      /\ meta \in [Threads -> Row] /\ seen \in [Threads -> SUBSET Copy]
      /\ todo \in [Threads -> SUBSET Copy] /\ update \in [Threads -> SUBSET Copy]
      /\ started \in Nat /\ written \subseteq Nat
  BY DEF Typed, TypeOK
<1>v. \A u \in Threads : meta[u].version \in Nat /\ row.version \in Nat
  BY <1>t DEF Row
<1>n. pc[t] # "delete"
  BY DEF FenceInv, NotDeleting
<1> USE DEF store, client, ghost, faults
<1>1. CASE PutStart(t)
  <2>1. PICK copies :
          /\ \A c \in copies : c.token = started + 1
          /\ todo' = [todo EXCEPT ![t] = copies]
          /\ update' = [update EXCEPT ![t] = copies]
    <3>1. PICK intended \in [Idx -> registered] :
            /\ todo' = [todo EXCEPT ![t] = CopiesAt(intended, Idx, started + 1)]
            /\ update' = [update EXCEPT ![t] = CopiesAt(intended, Idx, started + 1)]
      BY <1>1 DEF PutStart
    <3>2. \A c \in CopiesAt(intended, Idx, started + 1) : c.token = started + 1
      BY DEF CopiesAt
    <3> QED BY <3>1, <3>2
  <2>2. RowCoherent' /\ IdleClean' /\ NotDeleting'
    BY <1>1, <1>t, <2>1 DEF PutStart, FenceInv, RowCoherent, IdleClean, NotDeleting
  <2>3. FenceSound'
    BY <1>1, <1>t, <1>v, <2>1 DEF PutStart, FenceInv, FenceSound
  <2>4. PutsFresh'
    BY <1>1, <1>t, <2>1 DEF PutStart, FenceInv, PutsFresh
  <2> QED BY <2>2, <2>3, <2>4 DEF FenceInv
<1>2. CASE ApplyPut(t)
  BY <1>2, <1>t DEF ApplyPut, FenceInv, RowCoherent, IdleClean, FenceSound, PutsFresh, NotDeleting
<1>3. CASE PutCommit(t)
  <2>1. op[t] = "put" /\ meta[t].content \in 1 .. started
    BY <1>3 DEF PutCommit, FenceInv, PutsFresh
  <2>2. RowCoherent' /\ IdleClean' /\ FenceSound' /\ NotDeleting'
    BY <1>3, CommitFence DEF PutCommit, FenceInv, PutsFresh
  <2>3. PutsFresh'
    BY <1>3, <1>t, <2>1 DEF PutCommit, Done, NoRow, FenceInv, PutsFresh
  <2> QED BY <2>2, <2>3 DEF FenceInv
<1>4. CASE ReadRow(t)
  <2>1. RowCoherent' /\ IdleClean' /\ NotDeleting'
    BY <1>4, <1>t DEF ReadRow, FenceInv, RowCoherent, IdleClean, NotDeleting
  <2>2. FenceSound'
    BY <1>4, <1>t, <1>v DEF ReadRow, FenceInv, IdleClean, FenceSound
  <2>3. PutsFresh'
    BY <1>4, <1>t DEF ReadRow, FenceInv, PutsFresh
  <2> QED BY <2>1, <2>2, <2>3 DEF FenceInv
<1>5. CASE ReadLocations(t)
  <2>0. op[t] \in {"get", "repair", "rebalance"}
    BY <1>5, <1>t DEF ReadLocations, Typed, OpAtPc
  <2>1. AfterRead(op[t]) \notin {"idle", "delete"}
    BY <2>0, Zenon DEF AfterRead
  <2>2. RowCoherent' /\ IdleClean' /\ NotDeleting'
    BY <1>5, <1>t, <2>1 DEF ReadLocations, FenceInv, RowCoherent, IdleClean, NotDeleting
  <2>3. FenceSound'
    BY <1>5, <1>t, <1>v, <2>0 DEF ReadLocations, FenceInv, RowCoherent, FenceSound
  <2>4. PutsFresh'
    BY <1>5, <1>t, <2>0 DEF ReadLocations, FenceInv, PutsFresh
  <2> QED BY <2>2, <2>3, <2>4 DEF FenceInv
<1>6. CASE GetFetch(t)
  BY <1>6, DoneFence DEF GetFetch
<1>7. CASE RemoveShard(t) \/ RemoveRow(t)
  BY <1>7, <1>n DEF RemoveShard, RemoveRow
<1>8. CASE ProbeShard(t)
  <2>1. PICK d \in todo[t] :
          /\ todo' = [todo EXCEPT ![t] = @ \ {d}]
          /\ \/ seen' = [seen EXCEPT ![t] = @ \cup {d}]
             \/ seen' = seen
    BY <1>8 DEF ProbeShard
  <2>2. FenceSound'
    BY <1>8, <1>t, <2>1 DEF ProbeShard, FenceInv, FenceSound
  <2> QED BY <1>8, <1>t, <2>1, <2>2 DEF ProbeShard, FenceInv, RowCoherent, IdleClean, PutsFresh, NotDeleting
<1>9. CASE RepairFetch(t)
  BY <1>9, <1>t DEF RepairFetch, FenceInv, RowCoherent, IdleClean, FenceSound, PutsFresh, NotDeleting
<1>10. CASE RepairPlace(t)
  <2>1. PICK new, first :
          /\ first \in meta[t].locs
          /\ \A c \in new : c.token = first.token
          /\ todo' = [todo EXCEPT ![t] = new]
          /\ update' = [update EXCEPT ![t] = seen[t] \cup new]
    BY <1>10, PlacedCopies
  <2>2. /\ pc[t] = "place" /\ pc' = [pc EXCEPT ![t] = "apply"]
        /\ UNCHANGED <<row, op, meta, seen, started, written>>
    BY <1>10 DEF RepairPlace
  <2>3. FenceSound'
    BY <1>t, <2>1, <2>2 DEF FenceInv, FenceSound
  <2>4. op[t] # "put"
    BY <2>2 DEF Typed, OpAtPc
  <2>5. PutsFresh'
    BY <1>t, <2>1, <2>2, <2>4 DEF FenceInv, PutsFresh
  <2> QED BY <1>t, <2>1, <2>2, <2>3, <2>5 DEF FenceInv, RowCoherent, IdleClean, NotDeleting
<1>11. CASE RebalanceGate(t)
  <2>1. /\ pc[t] = "gate" /\ pc' = [pc EXCEPT ![t] = "probe"]
        /\ todo' = [todo EXCEPT ![t] = meta[t].locs]
        /\ UNCHANGED <<row, op, meta, seen, started, written>>
    BY <1>11 DEF RebalanceGate
  <2>2. PICK plan : update' = [update EXCEPT ![t] = plan]
    BY <1>11, GatePlan
  <2>3. FenceSound'
    <3> SUFFICES ASSUME NEW u \in Threads
                 PROVE  /\ meta[u].version <= row.version
                        /\ op[u] \in {"get", "repair", "rebalance"} /\ meta[u].version = row.version =>
                             /\ meta[u].content = row.content
                             /\ \A c \in meta[u].locs \cup seen[u] \cup todo'[u] \cup update'[u] :
                                   c.token = row.content
      BY <2>1 DEF FenceSound
    <3>1. CASE u = t
      <4>1. CASE op[t] \in {"get", "repair", "rebalance"} /\ meta[t].version = row.version
        <5>0. PICK x : x = row.content
          OBVIOUS
        <5>2. \A c \in meta[t].locs : c.token = x
          BY <4>1, <5>0 DEF FenceInv, FenceSound
        <5>3. TypeOK
          BY DEF Typed
        <5>4. PICK p : /\ \A c \in p : c.token = x
                       /\ update' = [update EXCEPT ![t] = p]
          BY <1>11, <5>2, <5>3, PlannedTokens
        <5>1. /\ \A c \in p : c.token = row.content
              /\ update' = [update EXCEPT ![t] = p]
          BY <5>0, <5>4
        <5> QED BY <1>t, <2>1, <3>1, <4>1, <5>1 DEF FenceInv, FenceSound
      <4> QED BY <3>1, <4>1 DEF FenceInv, FenceSound
    <3>2. CASE u # t
      BY <1>t, <2>1, <2>2, <3>2 DEF FenceInv, FenceSound
    <3> QED BY <3>1, <3>2
  <2>4. op[t] # "put"
    BY <2>1 DEF Typed, OpAtPc
  <2>5. PutsFresh'
    BY <1>t, <2>1, <2>2, <2>4 DEF FenceInv, PutsFresh
  <2> QED BY <1>t, <2>1, <2>2, <2>3, <2>5 DEF FenceInv, RowCoherent, IdleClean, NotDeleting
<1>12. CASE RebalanceCopy(t)
  <2>1. PICK moves \in SUBSET update[t] :
          /\ todo' = [todo EXCEPT ![t] = moves]
          /\ update' = [update EXCEPT ![t] =
                          moves \cup {c \in meta[t].locs : c.index \notin Indices(moves)}]
    BY <1>12 DEF RebalanceCopy
  <2>2. /\ pc' = [pc EXCEPT ![t] = "apply"] /\ op[t] = "rebalance"
        /\ UNCHANGED <<row, op, meta, seen, started, written>>
    BY <1>12 DEF RebalanceCopy
  <2>3. FenceSound'
    BY <1>t, <2>1, <2>2 DEF FenceInv, FenceSound
  <2>4. PutsFresh'
    BY <1>t, <2>1, <2>2 DEF FenceInv, PutsFresh
  <2> QED BY <1>t, <2>1, <2>2, <2>3, <2>4 DEF FenceInv, RowCoherent, IdleClean, NotDeleting
<1>13. CASE FencedCommit(t)
  <2>1. CASE row.version = meta[t].version
    <3>1. \A c \in update[t] : c.token = meta[t].content
      BY <1>13, <2>1 DEF FencedCommit, FenceInv, FenceSound
    <3>2. RowCoherent' /\ IdleClean' /\ FenceSound' /\ NotDeleting'
      BY <1>13, <2>1, <3>1, CommitFence DEF FencedCommit
    <3>3. PutsFresh'
      BY <1>13, <1>t DEF FencedCommit, Done, NoRow, FenceInv, PutsFresh
    <3> QED BY <3>2, <3>3 DEF FenceInv
  <2>2. CASE row.version # meta[t].version
    BY <1>13, <2>2, DoneFence DEF FencedCommit
  <2> QED BY <2>1, <2>2
<1>14. CASE Abandon(t)
  BY <1>14, DoneFence DEF Abandon
<1> QED BY <1>1, <1>2, <1>3, <1>4, <1>5, <1>6, <1>7, <1>8, <1>9, <1>10,
           <1>11, <1>12, <1>13, <1>14 DEF Step

\* A remove() that has begun stays recorded.
LEMMA RemovingGrows == [Next]_vars => removing \subseteq removing'
BY DEF Next, vars, ghost, faults, RegisterNode, UnregisterNode, LoseDisk, LateDelete, Step,
       PutStart, ApplyPut, PutCommit, ReadRow, ReadLocations, GetFetch, RemoveShard, RemoveRow,
       ProbeShard, RepairFetch, RepairPlace, RebalanceGate, RebalanceCopy, FencedCommit, Abandon

LEMMA NextFence == Typed /\ UntilRemove /\ [Next]_vars => UntilRemove'
<1> SUFFICES ASSUME Typed, UntilRemove, [Next]_vars, removing' = {} PROVE FenceInv'
  BY DEF UntilRemove
<1>0. FenceInv
  BY RemovingGrows DEF UntilRemove
<1> USE DEF FenceInv, RowCoherent, IdleClean, FenceSound, PutsFresh, NotDeleting, client, ghost
<1>1. CASE RegisterNode \/ UnregisterNode
  BY <1>0, <1>1 DEF RegisterNode, UnregisterNode
<1>2. CASE LoseDisk \/ LateDelete
  BY <1>0, <1>2 DEF LoseDisk, LateDelete
<1>3. CASE \E t \in Threads : Step(t)
  BY <1>0, <1>3, StepFence
<1>4. CASE UNCHANGED vars
  BY <1>0, <1>4 DEF vars, store
<1> QED BY <1>1, <1>2, <1>3, <1>4 DEF Next

LEMMA FenceInvariant == Spec => []UntilRemove
<1>1. Spec => []Typed
  BY InitTyped, NextTyped, PTL DEF Spec
<1>2. Init => UntilRemove
  BY InitFence DEF UntilRemove
<1> QED BY <1>1, <1>2, NextFence, PTL DEF Spec

\* Until a remove() begins, the locations in the row are shards of the put
\* whose checksum and DEK it holds: a repair or a rebalance that read a torn
\* or superseded row never gets past the version fence.
THEOREM FenceKeepsRowCoherent == Spec => []CoherentUntilRemove
<1>1. UntilRemove => CoherentUntilRemove
  BY DEF UntilRemove, FenceInv, CoherentUntilRemove
<1> QED BY <1>1, FenceInvariant, PTL

-----------------------------------------------------------------------------
\* A thread whose version is still the row's has the row's locations, once it
\* has read them.
LoadedIsCurrent ==
    \A t \in Threads :
        /\ pc[t] = "idle" => op[t] = "none"
        /\ ( /\ op[t] \in {"get", "repair", "rebalance"}
             /\ pc[t] # "row"
             /\ meta[t].version = row.version )
               => meta[t].locs = row.locs

LoadedUntilRemove == removing = {} => LoadedIsCurrent

\* A row is replaced by a commit or by a remove() only.
LEMMA RowChanges ==
    ASSUME NEW t \in Threads, Step(t)
    PROVE  \/ row' = row
           \/ (PutCommit(t) \/ FencedCommit(t)) /\ row' = NewRow(t) /\ Done(t)
           \/ RemoveRow(t)
BY DEF Step, PutStart, ApplyPut, PutCommit, ReadRow, ReadLocations, GetFetch, RemoveShard,
       ProbeShard, RepairFetch, RepairPlace, RebalanceGate, RebalanceCopy, FencedCommit,
       Abandon, store

\* What a thread has loaded changes only in the two steps of the load.
LEMMA LoadedStays ==
    ASSUME Typed, NEW t \in Threads, Step(t), ~PutStart(t), ~ReadRow(t), ~ReadLocations(t),
           pc'[t] # "idle"
    PROVE  meta' = meta /\ op' = op /\ pc[t] # "idle" /\ (pc'[t] = "row" => pc[t] = "row")
<1>1. ~ Done(t)
  BY DEF Typed, TypeOK, Done
<1>2. PutCommit(t) \/ GetFetch(t) \/ RemoveRow(t) \/ FencedCommit(t) \/ Abandon(t) => Done(t)
  BY DEF PutCommit, GetFetch, RemoveRow, FencedCommit, Abandon
<1>3. CASE ApplyPut(t) \/ RemoveShard(t) \/ ProbeShard(t)
  BY <1>3 DEF ApplyPut, RemoveShard, ProbeShard
<1>4. CASE RepairFetch(t) \/ RepairPlace(t) \/ RebalanceGate(t) \/ RebalanceCopy(t)
  BY <1>4 DEF RepairFetch, RepairPlace, RebalanceGate, RebalanceCopy, Typed, TypeOK
<1> QED BY <1>1, <1>2, <1>3, <1>4 DEF Step

LEMMA StepLoaded ==
    ASSUME Typed, FenceInv, LoadedIsCurrent, NEW t \in Threads, Step(t)
    PROVE  LoadedIsCurrent'
<1>t. row \in Row /\ meta \in [Threads -> Row] /\ pc \in [Threads -> PCs]
  BY DEF Typed, TypeOK
<1>i. ASSUME NEW u \in Threads, pc'[u] = "idle" PROVE op'[u] = "none"
  <2>1. CASE u # t
    BY <1>i, <2>1, StepLocal DEF LoadedIsCurrent
  <2>2. CASE u = t /\ Done(t)
    BY <2>2 DEF Done, Typed, TypeOK
  <2>3. CASE u = t /\ ~Done(t)
    <3>1. ~ ReadLocations(t)
      <4>1. ASSUME ReadLocations(t) PROVE FALSE
        <5>1. op[t] \in {"get", "remove", "repair", "rebalance"}
          BY <4>1 DEF ReadLocations, Typed, OpAtPc
        <5>2. AfterRead(op[t]) # "idle"
          BY <5>1, Zenon DEF AfterRead
        <5> QED BY <1>i, <1>t, <2>3, <4>1, <5>2 DEF ReadLocations
      <4> QED BY <4>1
    <3> QED BY <1>i, <1>t, <2>3, <3>1 DEF Step, PutStart, ApplyPut, PutCommit, ReadRow, GetFetch,
          RemoveShard, RemoveRow, ProbeShard, RepairFetch, RepairPlace, RebalanceGate,
          RebalanceCopy, FencedCommit, Abandon
  <2> QED BY <2>1, <2>2, <2>3
<1> SUFFICES ASSUME NEW u \in Threads, op'[u] \in {"get", "repair", "rebalance"},
                    pc'[u] # "row", meta'[u].version = row'.version
             PROVE  meta'[u].locs = row'.locs
  BY <1>i DEF LoadedIsCurrent
<1>p. pc'[u] # "idle"
  BY <1>i
<1>n. ~ RemoveRow(t)
  BY DEF RemoveRow, FenceInv, NotDeleting
<1>1. CASE row' = NewRow(t) /\ Done(t)
  <2>1. u # t
    BY <1>t, <1>p, <1>1 DEF Done
  <2>2. meta'[u] = meta[u]
    BY <2>1, StepLocal
  <2>3. meta[u].version <= row.version /\ meta[u].version \in Nat /\ row.version \in Nat
    BY <1>t DEF FenceInv, FenceSound, Row
  <2>4. row'.version = row.version + 1
    BY <1>1 DEF NewRow
  <2> QED BY <2>2, <2>3, <2>4
<1>2. CASE row' = row /\ u # t
  BY <1>2, StepLocal DEF LoadedIsCurrent
<1>3. CASE row' = row /\ u = t
  <2>1. CASE PutStart(t) \/ ReadRow(t)
    BY <1>t, <1>3, <2>1 DEF PutStart, ReadRow, Typed, TypeOK
  <2>2. CASE ReadLocations(t)
    BY <1>t, <1>3, <2>2 DEF ReadLocations
  <2>3. CASE ~PutStart(t) /\ ~ReadRow(t) /\ ~ReadLocations(t)
    <3>1. meta' = meta /\ op' = op /\ pc[t] # "idle" /\ pc[t] # "row"
      <4>1. meta' = meta /\ op' = op /\ pc[t] # "idle"
        BY <1>p, <1>3, <2>3, LoadedStays
      <4>2. pc[t] # "row"
        <5>1. CASE pc[t] = "row"
          BY <1>p, <1>3, <2>3, <5>1, <1>t DEF Step, ApplyPut, PutCommit, GetFetch, RemoveShard, RemoveRow,
             ProbeShard, RepairFetch, RepairPlace, RebalanceGate, RebalanceCopy, FencedCommit,
             Abandon, Applied, Done
        <5> QED BY <5>1
      <4> QED BY <4>1, <4>2
    <3> QED BY <1>3, <3>1 DEF LoadedIsCurrent
  <2> QED BY <2>1, <2>2, <2>3
<1> QED BY <1>n, <1>1, <1>2, <1>3, RowChanges

LEMMA NextLoaded == Typed /\ UntilRemove /\ LoadedUntilRemove /\ [Next]_vars => LoadedUntilRemove'
<1> SUFFICES ASSUME Typed, UntilRemove, LoadedUntilRemove, [Next]_vars, removing' = {}
             PROVE  LoadedIsCurrent'
  BY DEF LoadedUntilRemove
<1>0. FenceInv /\ LoadedIsCurrent
  BY RemovingGrows DEF UntilRemove, LoadedUntilRemove
<1>1. CASE RegisterNode \/ UnregisterNode \/ LoseDisk \/ LateDelete
  BY <1>0, <1>1 DEF RegisterNode, UnregisterNode, LoseDisk, LateDelete, LoadedIsCurrent, client
<1>2. CASE \E t \in Threads : Step(t)
  BY <1>0, <1>2, StepLoaded
<1>3. CASE UNCHANGED vars
  BY <1>0, <1>3 DEF vars, store, client, LoadedIsCurrent
<1> QED BY <1>1, <1>2, <1>3 DEF Next

LEMMA LoadedInvariant == Spec => []LoadedUntilRemove
<1>1. Spec => []Typed
  BY InitTyped, NextTyped, PTL DEF Spec
<1>2. Init => LoadedUntilRemove
  BY DEF Init, LoadedUntilRemove, LoadedIsCurrent
<1> QED BY <1>1, <1>2, NextLoaded, FenceInvariant, PTL DEF Spec

\* Until a remove() begins, the fenced commit makes each repair and rebalance
\* an atomic edit of the row as it is at the commit: what other threads have
\* moved, rebuilt or overwritten since the load is never lost.
THEOREM UpdatesAreNotLost == Spec => NoLostUpdates
<1> DEFINE Atomic ==
      \A t \in Threads :
        (op[t] \in {"repair", "rebalance"} /\ removing = {} /\ pc'[t] = "idle" /\ row' # row)
            => meta[t] = row
<1>1. Typed /\ UntilRemove /\ LoadedUntilRemove /\ [Next]_vars => [Atomic]_vars
  <2> SUFFICES ASSUME Typed, UntilRemove, LoadedUntilRemove, Next, NEW t \in Threads,
                      op[t] \in {"repair", "rebalance"}, removing = {},
                      pc'[t] = "idle", row' # row
               PROVE  meta[t] = row
    OBVIOUS
  <2>0. FenceInv /\ LoadedIsCurrent
    BY DEF UntilRemove, LoadedUntilRemove
  <2>t. row \in Row /\ meta[t] \in Row
    BY DEF Typed, TypeOK
  <2>1. PICK u \in Threads : Step(u)
    BY DEF Next, RegisterNode, UnregisterNode, LoseDisk, LateDelete
  <2>2. CASE u = t
    <3>1. FencedCommit(t)
      <4>1. ~ PutCommit(t) /\ ~ RemoveRow(t)
        BY <2>0 DEF PutCommit, RemoveRow, FenceInv, NotDeleting
      <4> QED BY <2>1, <2>2, <4>1, RowChanges
    <3>2. row.version = meta[t].version /\ pc[t] = "apply"
      BY <3>1 DEF FencedCommit, Applied
    <3>3. meta[t].content = row.content /\ meta[t].locs = row.locs
      BY <2>0, <3>2 DEF FenceInv, FenceSound, LoadedIsCurrent
    <3> QED BY <2>t, <3>2, <3>3 DEF Row
  <2>3. CASE u # t
    <3>1. pc[t] = "idle"
      BY <2>1, <2>3, StepLocal
    <3> QED BY <2>0, <3>1 DEF LoadedIsCurrent
  <2> QED BY <2>2, <2>3
<1>2. Spec => []Typed
  BY InitTyped, NextTyped, PTL DEF Spec
<1> QED BY <1>1, <1>2, FenceInvariant, LoadedInvariant, PTL DEF Spec, NoLostUpdates

\* Every step is a put taking effect or invisible in the object's content.
LEMMA StepRefines ==
    ASSUME Typed, FenceInv, NEW t \in Threads, Step(t), removing = {}, removing' = {}
    PROVE  \/ row'.content \in Nat \ ({0} \cup written) /\ written' = written \cup {row'.content}
           \/ row'.content = row.content /\ written' = written
<1> USE DEF store, ghost, faults
<1>1. CASE PutCommit(t)
  <2>1. /\ row'.content = meta[t].content
        /\ written' = written \cup {meta[t].content}
    BY <1>1 DEF PutCommit, NewRow
  <2>2. /\ meta[t].content \in 1 .. started
        /\ meta[t].content \notin written
    BY <1>1 DEF PutCommit, FenceInv, PutsFresh
  <2>3. meta[t].content \in Nat \ ({0} \cup written)
    BY <2>2 DEF Typed, TypeOK
  <2> QED BY <2>1, <2>3
<1>2. CASE FencedCommit(t)
  <2>1. row.version = meta[t].version => meta[t].content = row.content
    BY <1>2 DEF FencedCommit, FenceInv, FenceSound
  <2> QED BY <1>2, <2>1 DEF FencedCommit, NewRow
<1>3. CASE RemoveRow(t)
  BY <1>3 DEF RemoveRow, FenceInv, NotDeleting
<1>4. CASE ~PutCommit(t) /\ ~FencedCommit(t) /\ ~RemoveRow(t)
  BY <1>4 DEF Step, PutStart, ApplyPut, ReadRow, ReadLocations, GetFetch, RemoveShard,
        ProbeShard, RepairFetch, RepairPlace, RebalanceGate, RebalanceCopy, Abandon
<1> QED BY <1>1, <1>2, <1>3, <1>4

LEMMA NextRefines ==
    ASSUME Typed, UntilRemove, [Next]_vars
    PROVE  [Register!Next]_<<IF removing = {} THEN row.content ELSE 0,
                             IF removing = {} THEN written ELSE {}>>
<1>0. removing \subseteq removing'
  BY RemovingGrows
<1>1. CASE removing' # {} /\ removing # {}
  BY <1>1
<1>2. CASE removing' # {} /\ removing = {}
  BY <1>2 DEF Register!Next, Register!Remove
<1>3. CASE removing' = {}
  <2>0. removing = {} /\ FenceInv
    BY <1>0, <1>3 DEF UntilRemove
  <2>1. \/ row'.content \in Nat \ ({0} \cup written) /\ written' = written \cup {row'.content}
        \/ row'.content = row.content /\ written' = written
    <3>1. CASE RegisterNode \/ UnregisterNode \/ LoseDisk \/ LateDelete
      BY <3>1 DEF RegisterNode, UnregisterNode, LoseDisk, LateDelete, ghost
    <3>2. CASE \E t \in Threads : Step(t)
      BY <1>3, <2>0, <3>2, StepRefines
    <3>3. CASE UNCHANGED vars
      BY <3>3 DEF vars, store, ghost
    <3> QED BY <3>1, <3>2, <3>3 DEF Next
  <2> QED BY <1>3, <2>0, <2>1 DEF Register!Next, Register!Put
<1> QED BY <1>1, <1>2, <1>3

\* Until a remove() begins, the client implements a register of whole puts:
\* repair, rebalance_object, failures, crashes and disk losses never show in
\* the object's content, and each put takes effect exactly once.
THEOREM RefinesRegister == Spec => ImplementsRegister
<1>1. Init => Register!Init
  BY DEF Init, NoRow, Register!Init
<1>2. Typed /\ UntilRemove /\ [Next]_vars
        => [Register!Next]_<<IF removing = {} THEN row.content ELSE 0,
                             IF removing = {} THEN written ELSE {}>>
  BY NextRefines
<1>3. Spec => []Typed
  BY InitTyped, NextTyped, PTL DEF Spec
<1> QED BY <1>1, <1>2, <1>3, FenceInvariant, PTL DEF Spec, ImplementsRegister, Register!Spec
=============================================================================
