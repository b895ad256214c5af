--------------------------- MODULE ReindexProofs ---------------------------
(***************************************************************************)
(* Theorems about Reindex for every set of nodes and threads, every code   *)
(* (k, m), and any number of operations and of losses of the catalog.      *)
(***************************************************************************)
EXTENDS Reindex, RepairProofs, FiniteSetTheorems

Candidate == [token : Nat, at : Nat, locs : SUBSET Copy]

\* Every stored shard and every payload under way has a date.
DatesInv ==
    /\ clock \in Nat
    /\ shards \subseteq DOMAIN stamp
    /\ \A c \in DOMAIN stamp : c \in Copy /\ stamp[c] \in Nat
    /\ carried = [t \in Threads |-> carried[t]]
    /\ \A t \in Threads : \A c \in DOMAIN carried[t] : c \in Copy /\ carried[t][c] \in Nat
    /\ \A t \in Threads : pc[t] = "apply" => todo[t] \subseteq DOMAIN carried[t]

\* A rebalance plans moves of listed shards only.
PlanSound ==
    \A t \in Threads : pc[t] = "probe" /\ op[t] = "rebalance" =>
        \A u \in update[t] : \E s \in meta[t].locs : s.index = u.index

\* What one round of the selection loop preserves: no version read so far is
\* better than the winner so far.
Unbeaten ==
    candidates # {} =>
        /\ best \in candidates
        /\ \A c \in candidates : ~ Better(c, best)

\* The inductive invariant of the scan and the selection.
ScanInv ==
    /\ phase \in {"idle", "scan", "select"}
    /\ unscanned \subseteq Nodes
    /\ found \subseteq Copy
    /\ pending \subseteq Nat
    /\ losses \in Nat
    /\ latest \in Nat
    /\ candidates \subseteq Candidate
    /\ best \in Candidate
    /\ Unbeaten

ReindexInv == Typed /\ DatesInv /\ PlanSound /\ ScanInv

-----------------------------------------------------------------------------
\* The number of distinct indices is a natural number.
LEMMA ShardCountType ==
    ASSUME NEW c \in Candidate
    PROVE  ShardCount(c) \in Nat
<1>1. Indices(c.locs) \in SUBSET Idx
  BY IndicesType DEF Candidate
<1>2. IsFiniteSet(Idx)
  BY FS_Interval, PlacementAssumption DEF Idx, Total
<1>3. IsFiniteSet(Indices(c.locs))
  BY <1>1, <1>2, FS_Subset
<1> QED BY <1>3, FS_CardinalityType DEF ShardCount

\* Better is irreflexive, and replacing the winner by a better one keeps every
\* version it had beaten beaten.
LEMMA BetterIsStrict ==
    ASSUME NEW a \in Candidate
    PROVE  ~ Better(a, a)
BY ShardCountType, PlacementAssumption DEF Better, Candidate

LEMMA BetterIsTransitive ==
    ASSUME NEW a \in Candidate, NEW b \in Candidate, NEW c \in Candidate,
           ~ Better(a, b), Better(c, b)
    PROVE  ~ Better(a, c)
<1>1. ShardCount(a) \in Nat /\ ShardCount(b) \in Nat /\ ShardCount(c) \in Nat
  BY ShardCountType
<1>2. a.at \in Nat /\ b.at \in Nat /\ c.at \in Nat /\ K \in Nat
  BY PlacementAssumption DEF Candidate
<1> QED BY <1>1, <1>2 DEF Better

-----------------------------------------------------------------------------
LEMMA InitReindex == ReindexInit => ReindexInv
<1> SUFFICES ASSUME ReindexInit PROVE ReindexInv
  OBVIOUS
<1>1. Typed
  BY InitTyped DEF ReindexInit
<1>2. NoCandidate \in Candidate
  BY DEF NoCandidate, Candidate
<1>3. DatesInv
  BY DEF ReindexInit, Init, DatesInv
<1>4. PlanSound
  BY DEF ReindexInit, Init, PlanSound
<1>5. ScanInv
  BY <1>2 DEF ReindexInit, ScanInv, Unbeaten
<1> QED BY <1>1, <1>3, <1>4, <1>5 DEF ReindexInv

\* The client's steps, seen from here, are its own.
LEMMA ClientStepIsNext ==
    ASSUME ClientStep
    PROVE  (\E t \in Threads : Step(t)) \/ RegisterNode \/ UnregisterNode \/ LateDelete
BY DEF ClientStep, Step, BuildManifests, CopyManifests, StoreManifest, DropManifests,
       RemoveObject, WithoutManifests

LEMMA ClientTyped ==
    ASSUME Typed, ClientStep
    PROVE  Typed'
BY ClientStepIsNext, NextTyped DEF Next

\* No other step of its own takes a rebalance to its probes.
LEMMA OnlyGateProbes ==
    ASSUME Typed, NEW t \in Threads, Step(t), ~ RebalanceGate(t), ~ ProbeShard(t),
           pc'[t] = "probe", op'[t] = "rebalance"
    PROVE  FALSE
<1>1. CASE ReadLocations(t)
  <2>1. op[t] = "rebalance" => AfterRead(op[t]) # "probe"
    BY DEF AfterRead
  <2> QED BY <1>1, <2>1 DEF ReadLocations, Typed, TypeOK
<1>2. CASE Done(t)
  BY <1>2 DEF Done, Typed, TypeOK
<1>3. CASE ApplyPut(t) \/ RemoveShard(t)
  BY <1>3 DEF ApplyPut, RemoveShard
<1>4. CASE PutStart(t) \/ ReadRow(t) \/ RepairFetch(t) \/ RepairPlace(t) \/ RebalanceCopy(t)
  BY <1>4 DEF PutStart, ReadRow, RepairFetch, RepairPlace, RebalanceCopy, Typed, TypeOK
<1>5. PutCommit(t) \/ GetFetch(t) \/ RemoveRow(t) \/ FencedCommit(t) \/ Abandon(t) => Done(t)
  BY DEF PutCommit, GetFetch, RemoveRow, FencedCommit, Abandon
<1> QED BY <1>1, <1>2, <1>3, <1>4, <1>5 DEF Step

LEMMA StepPlanSound ==
    ASSUME Typed, PlanSound, NEW t \in Threads, Step(t)
    PROVE  PlanSound'
<1> SUFFICES ASSUME NEW u \in Threads, pc'[u] = "probe", op'[u] = "rebalance",
                    NEW m \in update'[u]
             PROVE  \E s \in meta'[u].locs : s.index = m.index
  BY DEF PlanSound
<1>1. CASE u # t
  BY <1>1, StepLocal DEF PlanSound
<1>2. CASE u = t /\ RebalanceGate(t)
  <2>1. PICK intended \in [Idx -> registered], moves \in SUBSET meta[t].locs :
          update' = [update EXCEPT ![t] = {Moved(c, intended) : c \in moves}]
    BY <1>2, GatePlan
  <2>2. PICK c \in moves : m = Moved(c, intended)
    BY <1>2, <2>1 DEF Typed, TypeOK
  <2>3. c \in meta'[t].locs /\ m.index = c.index
    BY <1>2, <2>2 DEF RebalanceGate, Moved
  <2> QED BY <1>2, <2>3
<1>3. CASE u = t /\ ProbeShard(t)
  BY <1>3 DEF ProbeShard, PlanSound
<1>4. CASE u = t /\ ~ RebalanceGate(t) /\ ~ ProbeShard(t)
  BY <1>4, OnlyGateProbes
<1> QED BY <1>1, <1>2, <1>3, <1>4

\* The dates after a step of the client.
LEMMA ClientDates ==
    ASSUME Typed, Typed', DatesInv, PlanSound, NEW t \in Threads,
           \/ BuildManifests(t) \/ CopyManifests(t) \/ StoreManifest(t)
           \/ DropManifests(t) \/ RemoveObject(t) \/ WithoutManifests(t)
    PROVE  DatesInv'
<1>0. Step(t)
  BY DEF Step, BuildManifests, CopyManifests, StoreManifest, DropManifests,
         RemoveObject, WithoutManifests
<1>l. \A u \in Threads : u # t => pc'[u] = pc[u] /\ todo'[u] = todo[u]
  BY <1>0, StepLocal
<1>t. todo'[t] \subseteq Copy
  BY DEF Typed, TypeOK
<1>1. CASE BuildManifests(t)
  <2>1. shards' = shards
    BY <1>1 DEF BuildManifests, PutStart, RepairPlace, store
  <2>2. carried' = [carried EXCEPT ![t] = [c \in todo'[t] |-> clock + 1]]
    BY <1>1 DEF BuildManifests
  <2>3. carried'[t] = [c \in todo'[t] |-> clock + 1]
    BY <2>2 DEF DatesInv
  <2>4. \A u \in Threads : u # t => carried'[u] = carried[u]
    BY <2>2 DEF DatesInv
  <2>5. carried' = [u \in Threads |-> carried'[u]]
    BY <2>2 DEF DatesInv
  <2> QED BY <1>1, <1>l, <1>t, <2>1, <2>3, <2>4, <2>5 DEF BuildManifests, DatesInv
<1>2. CASE CopyManifests(t)
  <2> DEFINE source(c) == CHOOSE s \in meta[t].locs : s.index = c.index
  <2>1. shards' = shards
    BY <1>2 DEF CopyManifests, RebalanceCopy, store
  <2>2. \A c \in todo'[t] : source(c) \in DOMAIN stamp
    <3>1. PICK moves \in SUBSET update[t] :
            /\ \A c \in meta[t].locs : c.index \in Indices(moves) => c \in shards
            /\ todo' = [todo EXCEPT ![t] = moves]
      BY <1>2 DEF CopyManifests, RebalanceCopy
    <3>2. todo'[t] = moves
      BY <3>1 DEF Typed, TypeOK
    <3>3. SUFFICES ASSUME NEW c \in moves PROVE source(c) \in shards
      BY <3>2 DEF DatesInv
    <3>4. \E s \in meta[t].locs : s.index = c.index
      BY <1>2 DEF CopyManifests, RebalanceCopy, PlanSound
    <3>5. source(c) \in meta[t].locs /\ source(c).index = c.index
      BY <3>4
    <3>6. c.index \in Indices(moves)
      BY DEF Indices
    <3> QED BY <3>1, <3>5, <3>6
  <2>3. carried' = [carried EXCEPT ![t] = [c \in todo'[t] |-> stamp[source(c)]]]
    BY <1>2 DEF CopyManifests
  <2>4. carried'[t] = [c \in todo'[t] |-> stamp[source(c)]]
    BY <2>3 DEF DatesInv
  <2>5. \A u \in Threads : u # t => carried'[u] = carried[u]
    BY <2>3 DEF DatesInv
  <2>6. carried' = [u \in Threads |-> carried'[u]]
    BY <2>3 DEF DatesInv
  <2>7. \A c \in todo'[t] : stamp[source(c)] \in Nat
    BY <2>2 DEF DatesInv
  <2>8. \A c \in DOMAIN carried'[t] : c \in Copy /\ carried'[t][c] \in Nat
    BY <1>t, <2>4, <2>7
  <2>9. DOMAIN carried'[t] = todo'[t]
    BY <2>4
  <2> HIDE DEF source
  <2> QED BY <1>2, <1>l, <2>1, <2>5, <2>6, <2>8, <2>9 DEF CopyManifests, DatesInv
<1>3. CASE StoreManifest(t)
  <2> DEFINE new == todo[t] \ todo'[t]
  <2>1. /\ stamp' = [c \in DOMAIN stamp \cup new |->
                        IF c \in new THEN carried[t][c] ELSE stamp[c]]
        /\ clock' = clock /\ carried' = carried
    BY <1>3 DEF StoreManifest
  <2>2. pc[t] = "apply" /\ pc' = pc
    BY <1>3 DEF StoreManifest, ApplyPut
  <2>3. PICK c \in todo[t] : shards' = shards \cup {c} /\ todo' = [todo EXCEPT ![t] = @ \ {c}]
    BY <1>3 DEF StoreManifest, ApplyPut
  <2>4. new = {c}
    BY <2>3 DEF Typed, TypeOK
  <2>5. c \in DOMAIN carried[t]
    BY <2>2, <2>3 DEF DatesInv
  <2>6. todo'[t] \subseteq todo[t]
    BY <2>3 DEF Typed, TypeOK
  <2>7. shards' \subseteq DOMAIN stamp'
    BY <2>1, <2>3, <2>4 DEF DatesInv
  <2>8. \A d \in DOMAIN stamp' : d \in Copy /\ stamp'[d] \in Nat
    BY <2>1, <2>4, <2>5 DEF DatesInv
  <2>9. \A u \in Threads : pc'[u] = "apply" => todo'[u] \subseteq DOMAIN carried'[u]
    BY <1>l, <2>1, <2>2, <2>6 DEF DatesInv
  <2> HIDE DEF new
  <2> QED BY <2>1, <2>7, <2>8, <2>9 DEF DatesInv
<1>4. CASE DropManifests(t)
  <2>1. Done(t) /\ shards' = shards
    BY <1>4 DEF DropManifests, PutCommit, FencedCommit, Abandon, store
  <2>2. pc'[t] = "idle"
    BY <2>1 DEF Done, Typed, TypeOK
  <2>3. carried' = [carried EXCEPT ![t] = <<>>] /\ clock' = clock /\ stamp' = stamp
    BY <1>4 DEF DropManifests
  <2>4. carried'[t] = <<>> /\ DOMAIN carried'[t] = {}
    BY <2>3 DEF DatesInv
  <2>5. \A u \in Threads : u # t => carried'[u] = carried[u]
    BY <2>3 DEF DatesInv
  <2>6. carried' = [u \in Threads |-> carried'[u]]
    BY <2>3 DEF DatesInv
  <2>7. \A u \in Threads : \A c \in DOMAIN carried'[u] : c \in Copy /\ carried'[u][c] \in Nat
    BY <2>4, <2>5 DEF DatesInv
  <2>8. \A u \in Threads : pc'[u] = "apply" => todo'[u] \subseteq DOMAIN carried'[u]
    BY <1>l, <2>2, <2>5 DEF DatesInv
  <2> QED BY <2>1, <2>3, <2>6, <2>7, <2>8 DEF DatesInv
<1>5. CASE RemoveObject(t)
  <2>1. Done(t) /\ shards' = shards /\ manifests' = manifests
    BY <1>5 DEF RemoveObject, RemoveRow
  <2>2. pc'[t] # "apply"
    BY <2>1 DEF Done, Typed, TypeOK
  <2> QED BY <1>l, <2>1, <2>2 DEF DatesInv, manifests
<1>6. CASE WithoutManifests(t)
  <2>1. shards' \subseteq shards /\ manifests' = manifests
    BY <1>6 DEF WithoutManifests, ReadRow, ReadLocations, GetFetch, RemoveShard, ProbeShard,
                RepairFetch, RebalanceGate, store
  <2>2. pc'[t] # "apply"
    <3>1. CASE ReadLocations(t)
      <4>1. op[t] \in {"get", "remove", "repair", "rebalance"}
        BY <3>1 DEF ReadLocations, Typed, OpAtPc
      <4>2. AfterRead(op[t]) # "apply"
        BY <4>1 DEF AfterRead
      <4> QED BY <3>1, <4>2 DEF ReadLocations, Typed, TypeOK
    <3>2. CASE ~ ReadLocations(t)
      BY <1>6, <3>2 DEF WithoutManifests, ReadRow, GetFetch, Done, RemoveShard, ProbeShard,
                        RepairFetch, RebalanceGate, Typed, TypeOK
    <3> QED BY <3>1, <3>2
  <2> QED BY <1>l, <2>1, <2>2 DEF DatesInv, manifests
<1> QED BY <1>1, <1>2, <1>3, <1>4, <1>5, <1>6

\* The client's steps do not touch the running rebuild.
LEMMA ClientReindex ==
    ASSUME ReindexInv, ClientStep
    PROVE  ReindexInv'
<1> USE DEF ReindexInv
<1>1. Typed'
  BY ClientTyped
<1>2. UNCHANGED <<scan, losses>>
  BY DEF ClientStep
<1>3. SUFFICES DatesInv' /\ PlanSound' /\ latest' \in Nat
  BY <1>1, <1>2 DEF ScanInv, Unbeaten, scan
<1>4. CASE \E t \in Threads :
              \/ BuildManifests(t) \/ CopyManifests(t) \/ StoreManifest(t)
              \/ DropManifests(t) \/ RemoveObject(t) \/ WithoutManifests(t)
  <2>1. PICK t \in Threads :
              \/ BuildManifests(t) \/ CopyManifests(t) \/ StoreManifest(t)
              \/ DropManifests(t) \/ RemoveObject(t) \/ WithoutManifests(t)
    BY <1>4
  <2>2. Step(t)
    BY <2>1 DEF Step, BuildManifests, CopyManifests, StoreManifest, DropManifests,
                RemoveObject, WithoutManifests
  <2>3. DatesInv'
    BY <1>1, <2>1, ClientDates
  <2>4. PlanSound'
    BY <2>2, StepPlanSound
  <2>5. latest' \in Nat
    BY <1>1, <2>1 DEF BuildManifests, CopyManifests, StoreManifest, DropManifests, RemoveObject,
                      WithoutManifests, ScanInv, Typed, TypeOK, Row, past
  <2> QED BY <2>3, <2>4, <2>5
<1>5. CASE (RegisterNode \/ UnregisterNode \/ LateDelete) /\ UNCHANGED <<manifests, past>>
  <2>1. shards' \subseteq shards /\ UNCHANGED <<pc, op, meta, todo, update, manifests, latest>>
    BY <1>5 DEF RegisterNode, UnregisterNode, LateDelete, client, past
  <2> QED BY <2>1 DEF DatesInv, PlanSound, ScanInv, manifests
<1> QED BY <1>4, <1>5 DEF ClientStep

\* What a group of keys and one of its manifests make is a candidate.
LEMMA SelectedType ==
    ASSUME ReindexInv, NEW token \in pending, NEW rep \in shards,
           NEW at, NEW group \in SUBSET found, at \in [Indices(group) -> group]
    PROVE  [token |-> token, at |-> stamp[rep],
            locs |-> {at[i] : i \in Indices(group)}] \in Candidate
<1>1. stamp[rep] \in Nat
  BY DEF ReindexInv, DatesInv
<1>2. {at[i] : i \in Indices(group)} \subseteq Copy
  BY DEF ReindexInv, ScanInv
<1>3. token \in Nat
  BY DEF ReindexInv, ScanInv
<1> QED BY <1>1, <1>2, <1>3 DEF Candidate

\* The loop keeps a maximum.
LEMMA SelectReindex ==
    ASSUME ReindexInv, SelectVersion
    PROVE  ScanInv'
<1> USE DEF ReindexInv, ScanInv
<1>1. PICK token \in pending :
        /\ pending' = pending \ {token}
        /\ \/ \E rep \in {c \in found : c.token = token} \cap shards,
                 at \in [Indices({c \in found : c.token = token}) -> {c \in found : c.token = token}] :
                LET new == [token |-> token, at |-> stamp[rep],
                            locs |-> {at[i] : i \in Indices({c \in found : c.token = token})}]
                IN  /\ candidates' = candidates \cup {new}
                    /\ best' = IF candidates = {} \/ Better(new, best) THEN new ELSE best
           \/ UNCHANGED <<best, candidates>>
  BY DEF SelectVersion
<1>2. UNCHANGED <<phase, unscanned, found, losses, latest>>
  BY DEF SelectVersion, past
<1>3. SUFFICES candidates' \subseteq Candidate /\ best' \in Candidate /\ Unbeaten'
  BY <1>1, <1>2
<1> DEFINE group == {c \in found : c.token = token}
<1>4. CASE UNCHANGED <<best, candidates>>
  BY <1>4 DEF Unbeaten
<1>5. CASE ~ UNCHANGED <<best, candidates>>
  <2>1. PICK rep \in group \cap shards, at \in [Indices(group) -> group] :
          LET new == [token |-> token, at |-> stamp[rep],
                      locs |-> {at[i] : i \in Indices(group)}]
          IN  /\ candidates' = candidates \cup {new}
              /\ best' = IF candidates = {} \/ Better(new, best) THEN new ELSE best
    BY <1>1, <1>5
  <2> DEFINE new == [token |-> token, at |-> stamp[rep], locs |-> {at[i] : i \in Indices(group)}]
  <2>2. group \in SUBSET found
    OBVIOUS
  <2>3. new \in Candidate
    BY <2>2, SelectedType
  <2>4. /\ candidates' = candidates \cup {new}
        /\ best' = IF candidates = {} \/ Better(new, best) THEN new ELSE best
    BY <2>1
  <2> HIDE DEF new, group
  <2>5. candidates' \subseteq Candidate /\ best' \in Candidate
    BY <2>3, <2>4
  <2>6. CASE candidates = {} \/ Better(new, best)
    <3>1. best' = new
      BY <2>4, <2>6
    <3>2. \A c \in candidates : ~ Better(c, new)
      BY <2>3, <2>6, BetterIsTransitive DEF Unbeaten
    <3>3. ~ Better(new, new)
      BY <2>3, BetterIsStrict
    <3>4. \A c \in candidates' : ~ Better(c, best')
      BY <2>4, <3>1, <3>2, <3>3
    <3>5. best' \in candidates'
      BY <2>4, <3>1
    <3> QED BY <2>5, <3>4, <3>5 DEF Unbeaten
  <2>7. CASE candidates # {} /\ ~ Better(new, best)
    <3>1. best' = best
      BY <2>4, <2>7
    <3>2. \A c \in candidates' : ~ Better(c, best')
      BY <2>4, <2>7, <3>1 DEF Unbeaten
    <3>3. best' \in candidates'
      BY <2>4, <2>7, <3>1 DEF Unbeaten
    <3> QED BY <2>5, <3>2, <3>3 DEF Unbeaten
  <2> QED BY <2>6, <2>7
<1> QED BY <1>4, <1>5

\* The rebuilt row is a row.
LEMMA InsertedType ==
    ASSUME ReindexInv
    PROVE  [version |-> 1, content |-> best.token, locs |-> FullLocations(best)] \in Row
<1>1. best.token \in Nat /\ best.locs \subseteq Copy
  BY DEF ReindexInv, ScanInv, Candidate
<1>2. FullLocations(best) \subseteq Copy
  BY <1>1 DEF FullLocations, Copy
<1> QED BY <1>1, <1>2 DEF Row

LEMMA NextReindex == ReindexInv /\ [ReindexNext]_allVars => ReindexInv'
<1> SUFFICES ASSUME ReindexInv, [ReindexNext]_allVars PROVE ReindexInv'
  OBVIOUS
<1> USE DEF ReindexInv
<1>n. NoCandidate \in Candidate /\ NoRow \in Row
  BY DEF NoCandidate, Candidate, NoRow, Row
<1>f. ASSUME UNCHANGED <<shards, registered, client, started, ghost, manifests>>, row' \in Row
      PROVE  Typed' /\ DatesInv' /\ PlanSound'
  <2>1. Typed'
    BY <1>f DEF Typed, TypeOK, OpAtPc, client, ghost, faults
  <2>2. DatesInv'
    BY <1>f DEF DatesInv, client, manifests
  <2>3. PlanSound'
    BY <1>f DEF PlanSound, client
  <2> QED BY <2>1, <2>2, <2>3
<1>g. row \in Row
  BY DEF Typed, TypeOK
<1>1. CASE ClientStep
  BY <1>1, ClientReindex
<1>2. CASE LoseCatalog
  <2>1. ScanInv'
    BY <1>2 DEF LoseCatalog, ScanInv, Unbeaten, scan
  <2> QED BY <1>2, <1>f, <1>n, <2>1 DEF LoseCatalog
<1>3. CASE ReindexStart
  <2>1. ScanInv'
    BY <1>3 DEF ReindexStart, ScanInv, Unbeaten, Typed, TypeOK, past
  <2> QED BY <1>3, <1>f, <1>g, <2>1 DEF ReindexStart, vars, store
<1>4. CASE ScanNode
  <2>1. ScanInv'
    BY <1>4 DEF ScanNode, ScanInv, Unbeaten, Typed, TypeOK, past
  <2> QED BY <1>4, <1>f, <1>g, <2>1 DEF ScanNode, vars, store
<1>5. CASE GroupVersions
  <2>1. \A c \in found : c.token \in Nat
    BY DEF ScanInv, Copy
  <2>2. {c.token : c \in found} \subseteq Nat
    BY <2>1
  <2>3. ScanInv'
    BY <1>5, <2>2 DEF GroupVersions, ScanInv, Unbeaten, past
  <2> QED BY <1>5, <1>f, <1>g, <2>3 DEF GroupVersions, vars, store
<1>6. CASE SelectVersion
  <2>1. ScanInv'
    BY <1>6, SelectReindex
  <2> QED BY <1>6, <1>f, <1>g, <2>1 DEF SelectVersion, vars, store
<1>7. ASSUME ReindexDone, row' \in Row PROVE ReindexInv'
  <2>1. ScanInv'
    BY <1>7, <1>n DEF ReindexDone, ScanInv, Unbeaten, past
  <2> QED BY <1>7, <1>f, <2>1 DEF ReindexDone
<1>8. CASE InsertIfAbsent
  BY <1>8, <1>7, <1>g, InsertedType DEF InsertIfAbsent
<1>9. CASE ReindexAbandon
  BY <1>9, <1>7, <1>g DEF ReindexAbandon
<1>10. CASE UNCHANGED allVars
  <2>1. ScanInv'
    BY <1>10 DEF allVars, scan, ScanInv, Unbeaten, past
  <2> QED BY <1>10, <1>f, <1>g, <2>1 DEF allVars, vars, store
<1> QED BY <1>1, <1>2, <1>3, <1>4, <1>5, <1>6, <1>8, <1>9, <1>10 DEF ReindexNext

LEMMA ReindexInvariant == ReindexSpec => []ReindexInv
BY InitReindex, NextReindex, PTL DEF ReindexSpec

-----------------------------------------------------------------------------
\* Puts are numbered as they begin, so one that had committed before another
\* began has the lower number.
PastInv ==
    /\ held \in Nat
    /\ \A w \in written : w <= started
    /\ \A t \in Threads : op[t] = "put" => meta[t].content \in 1 .. started
    /\ \A p \in precedes : p \in Nat \X Nat /\ p[1] < p[2]

LEMMA InitPast == ReindexInit => PastInv
BY DEF ReindexInit, Init, PastInv

LEMMA StepPast ==
    ASSUME Typed, PastInv, NEW t \in Threads,
           \/ BuildManifests(t) \/ CopyManifests(t) \/ StoreManifest(t)
           \/ DropManifests(t) \/ RemoveObject(t) \/ WithoutManifests(t)
    PROVE  PastInv'
<1>t. /\ started \in Nat /\ written \subseteq Nat
      /\ op = [u \in Threads |-> op[u]] /\ meta = [u \in Threads |-> meta[u]]
  BY DEF Typed, TypeOK
<1>1. CASE PutStart(t) /\ held' = held /\ precedes' = precedes \cup (written \X {started'})
  <2>1. /\ started' = started + 1 /\ written' = written
        /\ op' = [op EXCEPT ![t] = "put"]
        /\ meta' = [meta EXCEPT ![t] = [version |-> 0, content |-> started + 1, locs |-> {}]]
    BY <1>1 DEF PutStart
  <2>2. precedes' = precedes \cup (written \X {started + 1})
    BY <1>1, <2>1
  <2>3. \A p \in precedes' : p \in Nat \X Nat /\ p[1] < p[2]
    BY <1>t, <2>2 DEF PastInv
  <2>4. \A u \in Threads : op'[u] = "put" => meta'[u].content \in 1 .. started'
    BY <1>t, <2>1 DEF PastInv
  <2> QED BY <1>1, <1>t, <2>1, <2>3, <2>4 DEF PastInv
<1>2. CASE PutCommit(t) /\ held' = meta[t].content /\ precedes' = precedes
  <2>1. /\ started' = started /\ written' = written \cup {meta[t].content}
        /\ op[t] = "put" /\ Done(t)
    BY <1>2 DEF PutCommit
  <2>3. meta[t].content \in 1 .. started
    BY <2>1 DEF PastInv
  <2>4. \A u \in Threads : op'[u] = "put" => op[u] = "put" /\ meta'[u] = meta[u]
    BY <1>t, <2>1 DEF Done
  <2> QED BY <1>2, <1>t, <2>1, <2>3, <2>4 DEF PastInv
<1>3. CASE \/ (RepairPlace(t) \/ FencedCommit(t) \/ Abandon(t)) /\ UNCHANGED <<held, precedes>>
           \/ CopyManifests(t) \/ StoreManifest(t) \/ RemoveObject(t) \/ WithoutManifests(t)
  <2>1. /\ written' = written /\ started' \in {started, started + 1}
        /\ precedes' = precedes /\ held' \in {held, 0}
    BY <1>3 DEF CopyManifests, StoreManifest, RemoveObject, WithoutManifests, RepairPlace, RebalanceCopy, ApplyPut, FencedCommit, Abandon, RemoveRow,
            ReadRow, ReadLocations, GetFetch, RemoveShard, ProbeShard, RepairFetch, RebalanceGate,
            past, ghost
  <2>2. \A u \in Threads : op'[u] = "put" =>
              op[u] = "put" /\ meta'[u].content = meta[u].content
    <3>1. CASE Done(t)
      BY <1>t, <3>1 DEF Done
    <3>2. CASE ReadRow(t) \/ ReadLocations(t)
      BY <1>t, <3>2 DEF ReadRow, ReadLocations
    <3>3. CASE RepairPlace(t) \/ RebalanceCopy(t) \/ ApplyPut(t) \/ RemoveShard(t)
               \/ ProbeShard(t) \/ RepairFetch(t) \/ RebalanceGate(t)
      BY <3>3 DEF RepairPlace, RebalanceCopy, ApplyPut, RemoveShard, ProbeShard, RepairFetch,
                  RebalanceGate
    <3>4. FencedCommit(t) \/ Abandon(t) \/ RemoveRow(t) \/ GetFetch(t) => Done(t)
      BY DEF FencedCommit, Abandon, RemoveRow, GetFetch
    <3> QED BY <1>3, <3>1, <3>2, <3>3, <3>4 DEF CopyManifests, StoreManifest, RemoveObject,
            WithoutManifests
  <2> QED BY <1>t, <2>1, <2>2 DEF PastInv
<1> QED BY <1>1, <1>2, <1>3 DEF BuildManifests, DropManifests

LEMMA NextPast == ReindexInv /\ PastInv /\ [ReindexNext]_allVars => PastInv'
<1> SUFFICES ASSUME ReindexInv, PastInv, [ReindexNext]_allVars PROVE PastInv'
  OBVIOUS
<1>1. CASE \E t \in Threads :
              \/ BuildManifests(t) \/ CopyManifests(t) \/ StoreManifest(t)
              \/ DropManifests(t) \/ RemoveObject(t) \/ WithoutManifests(t)
  BY <1>1, StepPast DEF ReindexInv
<1>2. CASE (RegisterNode \/ UnregisterNode \/ LateDelete) /\ UNCHANGED <<manifests, past>>
  BY <1>2 DEF RegisterNode, UnregisterNode, LateDelete, client, ghost, past, PastInv
<1>3. CASE LoseCatalog
  BY <1>3 DEF LoseCatalog, client, ghost, PastInv
<1>4. CASE ReindexStart \/ ScanNode \/ GroupVersions \/ SelectVersion \/ InsertIfAbsent
           \/ ReindexAbandon \/ UNCHANGED allVars
  BY <1>4 DEF ReindexStart, ScanNode, GroupVersions, SelectVersion, InsertIfAbsent, ReindexAbandon,
              ReindexDone, allVars, vars, client, ghost, past, PastInv
<1> QED BY <1>1, <1>2, <1>3, <1>4 DEF ReindexNext, ClientStep

LEMMA PastInvariant == ReindexSpec => []PastInv
BY InitPast, NextPast, ReindexInvariant, PTL DEF ReindexSpec

-----------------------------------------------------------------------------
\* The locals of reindex(), the dates of the manifests and the client's state
\* stay well formed; no shard on a node is without a manifest to read.
THEOREM ReindexTypeCorrect == ReindexSpec => []ReindexTypeOK
<1>1. ReindexInv /\ PastInv => ReindexTypeOK
  BY DEF ReindexInv, PastInv, ReindexTypeOK, Typed, DatesInv, ScanInv, Candidate
<1> QED BY <1>1, ReindexInvariant, PastInvariant, PTL

\* The loop over the version groups ends with the version the documented
\* policy chooses, whatever the order of the groups, the number of versions
\* and the code (k, m): a winner no one beats is that version.
THEOREM ReindexPicksBest == ReindexSpec => []WinnerIsBest
<1>1. ASSUME ReindexInv PROVE WinnerIsBest
  <2> DEFINE readable == {c \in candidates : ShardCount(c) >= K}
  <2> SUFFICES ASSUME candidates # {}
               PROVE  /\ best \in candidates
                      /\ readable # {} => /\ best \in readable
                                         /\ \A c \in readable : c.at <= best.at
                      /\ readable = {} =>
                           \A c \in candidates :
                              \/ ShardCount(c) < ShardCount(best)
                              \/ ShardCount(c) = ShardCount(best) /\ c.at <= best.at
    BY DEF WinnerIsBest
  <2>1. best \in candidates /\ \A c \in candidates : ~ Better(c, best)
    BY <1>1 DEF ReindexInv, ScanInv, Unbeaten
  <2>2. \A c \in candidates : ShardCount(c) \in Nat /\ c.at \in Nat
    BY <1>1, ShardCountType DEF ReindexInv, ScanInv, Candidate
  <2>3. K \in Nat
    BY PlacementAssumption
  <2>4. CASE readable # {}
    <3>1. best \in readable
      BY <2>1, <2>2, <2>3, <2>4 DEF Better
    <3>2. \A c \in readable : c.at <= best.at
      BY <2>1, <2>2, <2>3, <3>1 DEF Better
    <3> QED BY <2>1, <2>4, <3>1, <3>2
  <2>5. CASE readable = {}
    <3>1. \A c \in candidates : ShardCount(c) < K
      BY <2>2, <2>3, <2>5
    <3> QED BY <2>1, <2>2, <2>3, <2>5, <3>1 DEF Better
  <2> QED BY <2>4, <2>5
<1> QED BY <1>1, ReindexInvariant, PTL

-----------------------------------------------------------------------------
\* The keys found, and the locations of every candidate, are still on their
\* nodes unless a remove() is deleting that version; a candidate's locations
\* are of its own version.
FoundInv ==
    /\ wiped = {}
    /\ DeletesAnnounced
    /\ \A c \in found : Accounted(c)
    /\ \A k \in candidates : \A c \in k.locs : c.token = k.token /\ Accounted(c)

LEMMA InitFound == ReindexInit => FoundInv
BY DEF ReindexInit, Init, FoundInv, DeletesAnnounced

\* remove() announces the shards it deletes.
LEMMA StepAnnounced ==
    ASSUME Typed, DeletesAnnounced, NEW t \in Threads, Step(t)
    PROVE  DeletesAnnounced'
<1>0. \A c \in late' : c.token \in removing'
  <2>1. CASE RemoveShard(t)
    BY <2>1 DEF RemoveShard, DeletesAnnounced
  <2>2. CASE ~ RemoveShard(t)
    <3>1. late' = late /\ removing \subseteq removing'
      BY <2>2 DEF Step, PutStart, ApplyPut, PutCommit, ReadRow, ReadLocations, GetFetch,
           RemoveRow, ProbeShard, RepairFetch, RepairPlace, RebalanceGate, RebalanceCopy,
           FencedCommit, Abandon, ghost, faults
    <3> QED BY <3>1 DEF DeletesAnnounced
  <2> QED BY <2>1, <2>2
<1> SUFFICES ASSUME NEW u \in Threads, pc'[u] = "delete", NEW c \in todo'[u]
             PROVE  c.token \in removing'
  BY <1>0 DEF DeletesAnnounced
<1>1. removing \subseteq removing'
  BY DEF Step, PutStart, ApplyPut, PutCommit, ReadRow, ReadLocations, GetFetch, RemoveShard,
         RemoveRow, ProbeShard, RepairFetch, RepairPlace, RebalanceGate, RebalanceCopy,
         FencedCommit, Abandon, ghost
<1>2. CASE u # t
  BY <1>1, <1>2, StepLocal DEF DeletesAnnounced
<1>3. CASE u = t /\ ReadLocations(t)
  <2>1. op[t] \in {"get", "remove", "repair", "rebalance"} /\ AfterRead(op[t]) = "delete"
    BY <1>3 DEF ReadLocations, Typed, TypeOK, OpAtPc
  <2>2. op[t] = "remove"
    BY <2>1 DEF AfterRead
  <2>3. c \in row.locs
    BY <1>3, <2>2 DEF ReadLocations, Typed, TypeOK
  <2> QED BY <1>3, <2>2, <2>3 DEF ReadLocations
<1>4. CASE u = t /\ RemoveShard(t)
  <2>1. todo'[t] \subseteq todo[t] /\ pc[t] = "delete"
    BY <1>4 DEF RemoveShard, Typed, TypeOK
  <2> QED BY <1>1, <1>4, <2>1 DEF DeletesAnnounced
<1>5. CASE u = t /\ ~ ReadLocations(t) /\ ~ RemoveShard(t)
  <2>1. PutCommit(t) \/ GetFetch(t) \/ RemoveRow(t) \/ FencedCommit(t) \/ Abandon(t) => Done(t)
    BY DEF PutCommit, GetFetch, RemoveRow, FencedCommit, Abandon
  <2>2. CASE Done(t)
    BY <1>5, <2>2 DEF Done, Typed, TypeOK
  <2>3. CASE PutStart(t) \/ ReadRow(t) \/ RepairFetch(t) \/ RepairPlace(t) \/ RebalanceGate(t)
             \/ RebalanceCopy(t)
    BY <1>5, <2>3 DEF PutStart, ReadRow, RepairFetch, RepairPlace, RebalanceGate, RebalanceCopy,
                      Typed, TypeOK
  <2>4. CASE ApplyPut(t) \/ ProbeShard(t)
    BY <1>5, <2>4 DEF ApplyPut, ProbeShard
  <2> QED BY <1>5, <2>1, <2>2, <2>3, <2>4 DEF Step
<1> QED BY <1>2, <1>3, <1>4, <1>5

LEMMA NextFound == ReindexInv /\ FoundInv /\ [ReindexNext]_allVars => FoundInv'
<1> SUFFICES ASSUME ReindexInv, FoundInv, [ReindexNext]_allVars PROVE FoundInv'
  OBVIOUS
<1>1. CASE ClientStep
  <2>1. UNCHANGED <<found, candidates>>
    BY <1>1 DEF ClientStep, scan
  <2>2. CASE \E t \in Threads : Step(t)
    <3>1. DeletesAnnounced'
      BY <2>2, StepAnnounced DEF ReindexInv, FoundInv
    <3>2. \A c : Accounted(c) => Accounted(c)'
      BY <2>2, StaysAccounted DEF ReindexInv, FoundInv
    <3>3. wiped' = wiped
      BY <2>2 DEF Step, PutStart, ApplyPut, PutCommit, ReadRow, ReadLocations, GetFetch,
           RemoveShard, RemoveRow, ProbeShard, RepairFetch, RepairPlace, RebalanceGate,
           RebalanceCopy, FencedCommit, Abandon, ghost, faults
    <3> QED BY <2>1, <3>1, <3>2, <3>3 DEF FoundInv
  <2>3. CASE RegisterNode \/ UnregisterNode \/ LateDelete
    BY <2>1, <2>3 DEF RegisterNode, UnregisterNode, LateDelete, FoundInv, DeletesAnnounced,
                      Accounted, client, ghost, faults
  <2> QED BY <1>1, <2>2, <2>3, ClientStepIsNext
<1>f. ASSUME UNCHANGED <<shards, client, ghost>>
      PROVE  wiped' = {} /\ DeletesAnnounced' /\ \A c : Accounted(c) => Accounted(c)'
  BY <1>f DEF FoundInv, DeletesAnnounced, Accounted, client, ghost, faults
<1>2. CASE LoseCatalog
  BY <1>2, <1>f DEF LoseCatalog, FoundInv, scan
<1>3. CASE ReindexStart \/ GroupVersions
  BY <1>3, <1>f DEF ReindexStart, GroupVersions, FoundInv, vars, store
<1>4. CASE ScanNode
  <2>1. \A c \in found' : c \in found \/ c \in shards
    BY <1>4 DEF ScanNode
  <2>2. \A c \in found' : Accounted(c)
    BY <2>1 DEF FoundInv, Accounted
  <2> QED BY <1>4, <1>f, <2>2 DEF ScanNode, FoundInv, vars, store
<1>5. CASE SelectVersion
  <2>1. \A k \in candidates' : \A c \in k.locs : c.token = k.token /\ Accounted(c)
    <3>1. PICK token \in pending :
            \/ \E rep \in {c \in found : c.token = token} \cap shards,
                  at \in [Indices({c \in found : c.token = token})
                            -> {c \in found : c.token = token}] :
                 candidates' = candidates \cup
                    {[token |-> token, at |-> stamp[rep],
                      locs |-> {at[i] : i \in Indices({c \in found : c.token = token})}]}
            \/ candidates' = candidates
      BY <1>5 DEF SelectVersion
    <3> DEFINE group == {c \in found : c.token = token}
    <3>2. CASE candidates' = candidates
      BY <3>2 DEF FoundInv
    <3>3. ASSUME NEW rep \in group \cap shards, NEW at \in [Indices(group) -> group],
                 candidates' = candidates \cup
                    {[token |-> token, at |-> stamp[rep],
                      locs |-> {at[i] : i \in Indices(group)}]}
          PROVE  \A k \in candidates' : \A c \in k.locs : c.token = k.token /\ Accounted(c)
      <4>1. \A c \in {at[i] : i \in Indices(group)} : c \in found /\ c.token = token
        BY <3>3
      <4>2. \A c \in found : Accounted(c)
        BY DEF FoundInv
      <4> HIDE DEF group
      <4> QED BY <3>3, <4>1, <4>2 DEF FoundInv
    <3> QED BY <3>1, <3>2, <3>3
  <2>2. found' = found /\ UNCHANGED <<shards, client, ghost>>
    BY <1>5 DEF SelectVersion, vars, store
  <2> QED BY <1>f, <2>1, <2>2 DEF FoundInv
<1>6. CASE InsertIfAbsent \/ ReindexAbandon
  BY <1>6, <1>f DEF InsertIfAbsent, ReindexAbandon, ReindexDone, FoundInv
<1>7. CASE UNCHANGED allVars
  BY <1>7, <1>f DEF allVars, vars, store, scan, FoundInv
<1> QED BY <1>1, <1>2, <1>3, <1>4, <1>5, <1>6, <1>7 DEF ReindexNext

\* The row that InsertIfAbsent writes lists at least k readable shards when
\* any of the candidates has k.
LEMMA InsertReadable ==
    ASSUME ReindexInv, FoundInv, NEW c \in candidates, ShardCount(c) >= K
    PROVE  \/ Decodable(FullLocations(best) \cap shards, best.token)
           \/ best.token \in removing
<1>1. best \in candidates /\ ~ Better(c, best)
  BY DEF ReindexInv, ScanInv, Unbeaten
<1>2. c \in Candidate /\ best \in Candidate
  BY DEF ReindexInv, ScanInv
<1>3. ShardCount(c) \in Nat /\ ShardCount(best) \in Nat /\ K \in Nat
  BY <1>2, ShardCountType, PlacementAssumption
<1>4. ShardCount(best) >= K
  BY <1>1, <1>3 DEF Better
<1> SUFFICES ASSUME best.token \notin removing
             PROVE  Decodable(FullLocations(best) \cap shards, best.token)
  OBVIOUS
<1> DEFINE readable == {d \in FullLocations(best) \cap shards : d.token = best.token}
<1>5. \A d \in best.locs : d \in shards /\ d.token = best.token
  BY <1>1 DEF FoundInv, Accounted
<1>6. best.locs \subseteq readable
  BY <1>5 DEF FullLocations
<1>7. Indices(best.locs) \in SUBSET Indices(readable)
  BY <1>6 DEF Indices
<1>8. IsFiniteSet(Indices(readable))
  <2>1. readable \in SUBSET Copy
    BY DEF ReindexInv, Typed, TypeOK
  <2>2. Indices(readable) \in SUBSET Idx
    BY <2>1, IndicesType
  <2>3. IsFiniteSet(Idx)
    BY FS_Interval, PlacementAssumption DEF Idx, Total
  <2> QED BY <2>2, <2>3, FS_Subset
<1>9. Cardinality(Indices(best.locs)) <= Cardinality(Indices(readable))
  BY <1>7, <1>8, FS_Subset
<1>10. Cardinality(Indices(readable)) \in Nat
  BY <1>8, FS_CardinalityType
<1>11. Cardinality(Indices(readable)) >= K
  BY <1>3, <1>4, <1>9, <1>10 DEF ShardCount
<1> QED BY <1>11 DEF Decodable

\* A rebuild never passes over a version it found k shards of for one that
\* cannot be read, with any number of versions, concurrent operations and
\* nodes that do not answer.
THEOREM RecoveredRowIsReadable == ReindexSpec => RecoveredReadable
<1> DEFINE Readable ==
      Inserts /\ (\E c \in candidates : ShardCount(c) >= K)
          => \/ Decodable(row'.locs \cap shards, row'.content)
             \/ row'.content \in removing
<1>1. ReindexInv /\ FoundInv /\ [ReindexNext]_allVars => [Readable]_allVars
  <2> SUFFICES ASSUME ReindexInv, FoundInv, ReindexNext, Inserts,
                      NEW c \in candidates, ShardCount(c) >= K
               PROVE  \/ Decodable(row'.locs \cap shards, row'.content)
                      \/ row'.content \in removing
    OBVIOUS
  <2>1. InsertIfAbsent
    BY DEF Inserts, ReindexNext, ClientStep, scan, LoseCatalog, ReindexStart, ScanNode,
           GroupVersions, SelectVersion, ReindexAbandon
  <2>2. row' = [version |-> 1, content |-> best.token, locs |-> FullLocations(best)]
    BY <2>1 DEF InsertIfAbsent, Inserts
  <2>3. row'.content = best.token /\ row'.locs = FullLocations(best)
    BY <2>2
  <2> QED BY <2>3, InsertReadable
<1>2. ReindexSpec => []FoundInv
  BY InitFound, NextFound, ReindexInvariant, PTL DEF ReindexSpec
<1> QED BY <1>1, <1>2, ReindexInvariant, PTL DEF ReindexSpec, RecoveredReadable

-----------------------------------------------------------------------------
\* The locations of a candidate have distinct indices.
CatalogInv ==
    /\ HealInv
    /\ ListInv
    /\ \A k \in candidates : Distinct(k.locs)

LEMMA InitCatalog == ReindexInit => CatalogInv
BY InitHeal, InitList DEF ReindexInit, CatalogInv

\* What reindex() inserts lists every index once.
LEMMA InsertedIsFull ==
    ASSUME NEW k, Distinct(k.locs)
    PROVE  Full(FullLocations(k))
<1> DEFINE rest == {[index |-> i, node |-> kUnknownNode, token |-> k.token] :
                        i \in Idx \ Indices(k.locs)}
<1>1. FullLocations(k) = k.locs \cup rest
  BY DEF FullLocations
<1>2. \A c \in k.locs : c.index \in Indices(k.locs)
  BY DEF Indices
<1>3. \A c \in rest : c.index \in Idx \ Indices(k.locs)
  OBVIOUS
<1>4. \A c, d \in rest : c.index = d.index => c = d
  OBVIOUS
<1>5. ASSUME NEW i \in Idx PROVE \E c \in k.locs \cup rest : c.index = i
  <2>1. CASE i \in Indices(k.locs)
    BY <2>1 DEF Indices
  <2>2. CASE i \notin Indices(k.locs)
    <3>1. [index |-> i, node |-> kUnknownNode, token |-> k.token] \in rest
      BY <2>2
    <3> HIDE DEF rest
    <3> QED BY <3>1
  <2> QED BY <2>1, <2>2
<1> HIDE DEF rest
<1>6. Distinct(k.locs \cup rest)
  BY <1>2, <1>3, <1>4 DEF Distinct
<1> QED BY <1>1, <1>5, <1>6 DEF Full

\* The manifest that SelectVersion reads makes a candidate of the group.
LEMMA SelectedCandidate ==
    ASSUME SelectVersion, NEW k \in candidates', k \notin candidates
    PROVE  \E rep \in found \cap shards :
              /\ k.token = rep.token /\ k.at = stamp[rep]
              /\ Distinct(k.locs)
              /\ \A c \in k.locs : c \in found /\ c.token = k.token
<1>1. PICK token \in pending :
        \/ \E rep \in {c \in found : c.token = token} \cap shards,
              at \in [Indices({c \in found : c.token = token})
                        -> {c \in found : c.token = token}] :
             /\ \A i \in Indices({c \in found : c.token = token}) : at[i].index = i
             /\ candidates' = candidates \cup
                {[token |-> token, at |-> stamp[rep],
                  locs |-> {at[i] : i \in Indices({c \in found : c.token = token})}]}
        \/ candidates' = candidates
  BY DEF SelectVersion
<1> DEFINE group == {c \in found : c.token = token}
<1>2. PICK rep \in group \cap shards, at \in [Indices(group) -> group] :
        /\ \A i \in Indices(group) : at[i].index = i
        /\ candidates' = candidates \cup
             {[token |-> token, at |-> stamp[rep], locs |-> {at[i] : i \in Indices(group)}]}
  BY <1>1
<1>3. k = [token |-> token, at |-> stamp[rep], locs |-> {at[i] : i \in Indices(group)}]
  BY <1>2
<1>4. k.token = token /\ k.at = stamp[rep] /\ k.locs = {at[i] : i \in Indices(group)}
  BY <1>3
<1>5. Distinct({at[i] : i \in Indices(group)})
  BY <1>2 DEF Distinct
<1>6. \A c \in {at[i] : i \in Indices(group)} : c \in found /\ c.token = token
  OBVIOUS
<1>7. rep \in found \cap shards /\ rep.token = token
  OBVIOUS
<1> HIDE DEF group
<1> QED BY <1>4, <1>5, <1>6, <1>7

LEMMA NextCatalog ==
    ReindexInv /\ FoundInv /\ CatalogInv /\ [ReindexNext]_allVars => CatalogInv'
<1> SUFFICES ASSUME ReindexInv, FoundInv, CatalogInv, [ReindexNext]_allVars PROVE CatalogInv'
  OBVIOUS
<1>1. CASE ClientStep
  <2>0. candidates' = candidates
    BY <1>1 DEF ClientStep, scan
  <2>1. CASE \E t \in Threads : Step(t)
    <3>1. PICK t \in Threads : Step(t)
      BY <2>1
    <3>2. Typed /\ DeletesAnnounced /\ HealInv /\ IdleBlank /\ ListInv
      BY DEF ReindexInv, FoundInv, CatalogInv, HealInv
    <3>3. HealInv'
      BY <3>1, <3>2, StepHeal
    <3>4. ListInv'
      BY <3>1, <3>2, StepList
    <3> QED BY <2>0, <3>3, <3>4 DEF CatalogInv
  <2>2. CASE RegisterNode \/ UnregisterNode \/ LateDelete
    <3>1. UNCHANGED <<row, client, removing, calm>>
      BY <2>2 DEF RegisterNode, UnregisterNode, LateDelete, ghost, faults
    <3>2. \A c : Kept(c) => Kept(c)'
      BY <2>2 DEF RegisterNode, UnregisterNode, LateDelete, Kept, FoundInv, DeletesAnnounced, ghost
    <3>3. HealInv'
      BY <3>1, <3>2 DEF CatalogInv, HealInv, IdleBlank, HealSound, Rewrites, client
    <3>4. ListInv'
      BY <3>1 DEF CatalogInv, ListInv, ListOf, client
    <3> QED BY <2>0, <3>3, <3>4 DEF CatalogInv
  <2> QED BY <1>1, <2>1, <2>2, ClientStepIsNext
<1>f. ASSUME UNCHANGED <<shards, client, ghost>>, row' = row \/ row' = NoRow \/ Full(row'.locs)
      PROVE  HealInv' /\ ListInv'
  <2>1. HealInv'
    BY <1>f DEF CatalogInv, HealInv, IdleBlank, HealSound, Rewrites, Kept, client, ghost, faults
  <2>2. \A t \in Threads : ListOf(t)'
    BY <1>f DEF CatalogInv, ListInv, ListOf, client
  <2>3. (row.locs = {} \/ Full(row.locs))' /\ (row.version # 0 => Full(row.locs))'
    <3>1. CASE row' = row
      BY <3>1 DEF CatalogInv, ListInv, Full, Distinct
    <3>2. CASE row' = NoRow
      BY <3>2 DEF NoRow
    <3>3. CASE Full(row'.locs)
      BY <3>3 DEF Full, Distinct
    <3> QED BY <1>f, <3>1, <3>2, <3>3
  <2> QED BY <2>1, <2>2, <2>3 DEF ListInv
<1>2. CASE LoseCatalog
  BY <1>2, <1>f DEF LoseCatalog, CatalogInv, scan
<1>3. CASE ReindexStart \/ GroupVersions \/ ScanNode
  BY <1>3, <1>f DEF ReindexStart, GroupVersions, ScanNode, CatalogInv, vars, store
<1>4. CASE SelectVersion
  <2>1. \A k \in candidates' : Distinct(k.locs)
    BY <1>4, SelectedCandidate DEF CatalogInv
  <2> QED BY <1>4, <1>f, <2>1 DEF SelectVersion, CatalogInv, vars, store
<1>5. CASE InsertIfAbsent
  <2>1. row' = row \/ Full(row'.locs)
    <3>1. Distinct(best.locs)
      BY <1>5 DEF InsertIfAbsent, CatalogInv, ReindexInv, ScanInv, Unbeaten
    <3>2. Full(FullLocations(best))
      BY <3>1, InsertedIsFull
    <3> QED BY <1>5, <3>2 DEF InsertIfAbsent
  <2> QED BY <1>5, <1>f, <2>1 DEF InsertIfAbsent, ReindexDone, CatalogInv
<1>6. CASE ReindexAbandon
  BY <1>6, <1>f DEF ReindexAbandon, ReindexDone, CatalogInv
<1>7. CASE UNCHANGED allVars
  BY <1>7, <1>f DEF allVars, vars, store, scan, CatalogInv
<1> QED BY <1>1, <1>2, <1>3, <1>4, <1>5, <1>6, <1>7 DEF ReindexNext

LEMMA FoundInvariant == ReindexSpec => []FoundInv
BY InitFound, NextFound, ReindexInvariant, PTL DEF ReindexSpec

LEMMA CatalogInvariant == ReindexSpec => []CatalogInv
BY InitCatalog, NextCatalog, FoundInvariant, ReindexInvariant, PTL DEF ReindexSpec

\* A row lists every shard index exactly once also when the catalog is lost
\* and rebuilt at any point, from as few shards as were found, and repaired
\* or rebalanced from there.
THEOREM RebuiltRowsAreComplete == ReindexSpec => []RowComplete
<1>1. ReindexInv /\ CatalogInv => RowComplete
  <2> SUFFICES ASSUME ReindexInv, CatalogInv, row.version # 0, NEW i \in Idx
               PROVE  \E c \in row.locs : \A d \in row.locs : d.index = i <=> d = c
    BY DEF RowComplete
  <2>1. row.locs \in SUBSET Copy /\ Full(row.locs)
    BY DEF ReindexInv, CatalogInv, Typed, TypeOK, Row, ListInv
  <2> QED BY <2>1, FullIsComplete
<1> QED BY <1>1, ReindexInvariant, CatalogInvariant, PTL

-----------------------------------------------------------------------------
\* What reindex() inserts is of one version.
LEMMA InsertedIsCoherent ==
    ASSUME ReindexInv, FoundInv, InsertIfAbsent, row' # row
    PROVE  /\ row' = [version |-> 1, content |-> best.token, locs |-> FullLocations(best)]
           /\ \A c \in FullLocations(best) : c.token = best.token
<1>1. \A c \in best.locs : c.token = best.token
  BY DEF InsertIfAbsent, ReindexInv, ScanInv, Unbeaten, FoundInv
<1>2. \A c \in FullLocations(best) : c.token = best.token
  BY <1>1 DEF FullLocations
<1> QED BY <1>2 DEF InsertIfAbsent

\* While no table was lost and no remove() has begun, an inserted row is the
\* first of the object, so its version is one nobody has read.
UntilLoss == removing = {} /\ losses = 0 => FenceInv

LEMMA InitUntilLoss == ReindexInit => UntilLoss
BY InitFence DEF ReindexInit, UntilLoss

LEMMA InsertFence ==
    ASSUME ReindexInv, FoundInv, FenceInv, InsertIfAbsent
    PROVE  FenceInv'
<1>0. UNCHANGED <<client, started, written>>
  BY DEF InsertIfAbsent, ReindexDone, ghost
<1>1. CASE row' = row
  BY <1>0, <1>1 DEF FenceInv, RowCoherent, IdleClean, FenceSound, PutsFresh, NotDeleting, client
<1>2. CASE row' # row
  <2>1. row.version = 0
    BY <1>2 DEF InsertIfAbsent
  <2>2. RowCoherent'
    BY <1>2, InsertedIsCoherent DEF RowCoherent
  <2>3. row'.version = 1
    BY <1>2, InsertedIsCoherent
  <2>4. FenceSound'
    <3>1. \A t \in Threads : meta[t].version \in Nat /\ meta[t].version <= 0
      BY <2>1 DEF FenceInv, FenceSound, ReindexInv, Typed, TypeOK, Row
    <3>2. \A t \in Threads : meta[t].version <= 1 /\ meta[t].version # 1
      BY <3>1
    <3> QED BY <1>0, <2>3, <3>2 DEF FenceSound, client
  <2> QED BY <1>0, <2>2, <2>4 DEF FenceInv, IdleClean, PutsFresh, NotDeleting, client
<1> QED BY <1>1, <1>2

LEMMA NextUntilLoss ==
    ReindexInv /\ FoundInv /\ UntilLoss /\ [ReindexNext]_allVars => UntilLoss'
<1> SUFFICES ASSUME ReindexInv, FoundInv, UntilLoss, [ReindexNext]_allVars,
                    removing' = {}, losses' = 0
             PROVE  FenceInv'
  BY DEF UntilLoss
<1> USE DEF FenceInv, RowCoherent, IdleClean, FenceSound, PutsFresh, NotDeleting, client, ghost
<1>1. CASE ClientStep
  <2>0. losses = 0
    BY <1>1 DEF ClientStep
  <2>1. CASE \E t \in Threads : Step(t)
    <3>1. PICK t \in Threads : Step(t)
      BY <2>1
    <3>2. removing = {}
      BY <3>1, RemovingGrows DEF Next
    <3>3. Typed /\ FenceInv
      BY <2>0, <3>2 DEF UntilLoss, ReindexInv
    <3> QED BY <3>1, <3>3, StepFence
  <2>2. CASE RegisterNode \/ UnregisterNode \/ LateDelete
    BY <2>0, <2>2 DEF RegisterNode, UnregisterNode, LateDelete, UntilLoss
  <2> QED BY <1>1, <2>1, <2>2, ClientStepIsNext
<1>2. CASE LoseCatalog
  <2>1. losses' = losses + 1 /\ losses \in Nat
    BY <1>2 DEF LoseCatalog, ReindexInv, ScanInv
  <2> QED BY <2>1
<1>3. CASE ReindexStart \/ GroupVersions \/ ScanNode \/ SelectVersion \/ ReindexAbandon
           \/ UNCHANGED allVars
  <2>1. UNCHANGED <<row, client, started, ghost, losses>>
    BY <1>3 DEF ReindexStart, GroupVersions, ScanNode, SelectVersion, ReindexAbandon, ReindexDone,
                allVars, vars, store
  <2> QED BY <2>1 DEF UntilLoss
<1>4. CASE InsertIfAbsent
  <2>1. losses = 0 /\ removing = {}
    BY <1>4 DEF InsertIfAbsent, ReindexDone
  <2> QED BY <1>4, <2>1, InsertFence DEF UntilLoss
<1> QED BY <1>1, <1>2, <1>3, <1>4 DEF ReindexNext

\* reindex() may run on a live catalog beside any puts, repairs and
\* rebalances: until the tables are lost or a remove() begins, no row mixes
\* the shards of one put with the DEK of another.
THEOREM RebuildIsHarmless == ReindexSpec => []CoherentUntilLoss
<1>1. ReindexSpec => []UntilLoss
  BY InitUntilLoss, NextUntilLoss, FoundInvariant, ReindexInvariant, PTL DEF ReindexSpec
<1>2. UntilLoss => CoherentUntilLoss
  BY DEF UntilLoss, CoherentUntilLoss, FenceInv
<1> QED BY <1>1, <1>2, PTL

\* While no table was lost and no remove() has begun, no row means no put yet.
NothingWritten == removing = {} /\ losses = 0 /\ row.version = 0 => written = {}

LEMMA NextNothingWritten ==
    ReindexInv /\ UntilLoss /\ NothingWritten /\ [ReindexNext]_allVars => NothingWritten'
<1> SUFFICES ASSUME ReindexInv, UntilLoss, NothingWritten, [ReindexNext]_allVars,
                    removing' = {}, losses' = 0, row'.version = 0
             PROVE  written' = {}
  BY DEF NothingWritten
<1>1. CASE ClientStep
  <2>0. losses = 0
    BY <1>1 DEF ClientStep
  <2>1. CASE \E t \in Threads : Step(t)
    <3>1. PICK t \in Threads : Step(t)
      BY <2>1
    <3>2. removing = {} /\ FenceInv
      BY <2>0, <3>1, RemovingGrows DEF Next, UntilLoss
    <3>3. ~ RemoveRow(t)
      BY <3>2 DEF RemoveRow, FenceInv, NotDeleting
    <3>4. row.version \in Nat
      BY DEF ReindexInv, Typed, TypeOK, Row
    <3>5. row' = row
      BY <3>1, <3>3, <3>4, RowChanges DEF NewRow
    <3>6. ~ PutCommit(t)
      BY <3>4, <3>5 DEF PutCommit, NewRow
    <3>7. written' = written
      BY <3>1, <3>6 DEF Step, PutStart, ApplyPut, ReadRow, ReadLocations, GetFetch, RemoveShard,
            RemoveRow, ProbeShard, RepairFetch, RepairPlace, RebalanceGate, RebalanceCopy,
            FencedCommit, Abandon, ghost
    <3> QED BY <2>0, <3>2, <3>5, <3>7 DEF NothingWritten
  <2>2. CASE RegisterNode \/ UnregisterNode \/ LateDelete
    BY <2>0, <2>2 DEF RegisterNode, UnregisterNode, LateDelete, NothingWritten, ghost
  <2> QED BY <1>1, <2>1, <2>2, ClientStepIsNext
<1>2. CASE LoseCatalog
  BY <1>2 DEF LoseCatalog, ReindexInv, ScanInv
<1>3. CASE ReindexStart \/ GroupVersions \/ ScanNode \/ SelectVersion \/ ReindexAbandon
           \/ UNCHANGED allVars
  <2>1. UNCHANGED <<row, ghost, losses>>
    BY <1>3 DEF ReindexStart, GroupVersions, ScanNode, SelectVersion, ReindexAbandon, ReindexDone,
                allVars, vars, store
  <2> QED BY <2>1 DEF NothingWritten, ghost
<1>4. CASE InsertIfAbsent
  <2>1. UNCHANGED <<ghost, losses>> /\ row' = row
    BY <1>4 DEF InsertIfAbsent, ReindexDone
  <2> QED BY <2>1 DEF NothingWritten, ghost
<1> QED BY <1>1, <1>2, <1>3, <1>4 DEF ReindexNext

\* A rebuild of a live catalog may bring in a put that has not committed yet,
\* but never one that another put has overwritten.
THEOREM RebuildsReviveNothing == ReindexSpec => NoRevival
<1> DEFINE New == removing' = {} /\ losses' = 0 /\ row'.content # row.content
                      => row'.content \notin written
<1>1. ReindexInv /\ UntilLoss /\ NothingWritten /\ [ReindexNext]_allVars => [New]_allVars
  <2> SUFFICES ASSUME ReindexInv, UntilLoss, NothingWritten, ReindexNext,
                      removing' = {}, losses' = 0, row'.content # row.content
               PROVE  row'.content \notin written
    OBVIOUS
  <2>1. CASE ClientStep
    <3>1. losses = 0
      BY <2>1 DEF ClientStep
    <3>2. PICK t \in Threads : Step(t)
      BY <2>1, ClientStepIsNext DEF RegisterNode, UnregisterNode, LateDelete
    <3>3. removing = {} /\ FenceInv /\ Typed
      BY <3>1, <3>2, RemovingGrows DEF Next, UntilLoss, ReindexInv
    <3> QED BY <3>2, <3>3, StepRefines
  <2>2. CASE LoseCatalog
    BY <2>2 DEF LoseCatalog, ReindexInv, ScanInv
  <2>3. CASE InsertIfAbsent
    <3>1. UNCHANGED <<ghost, losses>> /\ row.version = 0
      BY <2>3 DEF InsertIfAbsent, ReindexDone
    <3> QED BY <3>1 DEF NothingWritten, ghost
  <2>4. CASE ReindexStart \/ GroupVersions \/ ScanNode \/ SelectVersion \/ ReindexAbandon
    BY <2>4 DEF ReindexStart, GroupVersions, ScanNode, SelectVersion, ReindexAbandon, vars, store
  <2> QED BY <2>1, <2>2, <2>3, <2>4 DEF ReindexNext
<1>2. ReindexSpec => []UntilLoss
  BY InitUntilLoss, NextUntilLoss, FoundInvariant, ReindexInvariant, PTL DEF ReindexSpec
<1>3. ReindexInit => NothingWritten
  BY DEF ReindexInit, Init, NothingWritten
<1>4. ReindexSpec => []NothingWritten
  BY <1>2, <1>3, NextNothingWritten, ReindexInvariant, PTL DEF ReindexSpec
<1> QED BY <1>1, <1>2, <1>4, ReindexInvariant, PTL DEF ReindexSpec, NoRevival

-----------------------------------------------------------------------------
\* What LocationsAreTrue needs of the calls under way.  No disk is lost here,
\* so every call is calm, and HealInv speaks of each.
TruthInv ==
    /\ \A c \in row.locs : Kept(c) \/ c.node = kUnknownNode
    /\ \A t \in Threads : pc[t] # "idle" => t \in calm
    /\ \A t \in Threads : op[t] = "put" => \A c \in update[t] : Kept(c) \/ c \in todo[t]

LEMMA StepTruth ==
    ASSUME Typed, DeletesAnnounced, HealInv, TruthInv, NEW t \in Threads, Step(t)
    PROVE  TruthInv'
<1>k. \A c : Kept(c) => Kept(c)'
  BY StaysKept
<1>t. /\ todo \in [Threads -> SUBSET Copy] /\ update \in [Threads -> SUBSET Copy]
  BY DEF Typed, TypeOK
<1>1. ASSUME NEW c \in row'.locs PROVE Kept(c)' \/ c.node = kUnknownNode
  <2>1. CASE row' = row
    BY <1>k, <1>1, <2>1 DEF TruthInv
  <2>2. CASE (PutCommit(t) \/ FencedCommit(t)) /\ row' = NewRow(t)
    <3>1. /\ pc[t] = "apply" /\ todo[t] = {} /\ c \in update[t]
          /\ op[t] = "put" \/ Rewrites(t)
      BY <1>1, <2>2 DEF PutCommit, FencedCommit, Applied, NewRow, Rewrites
    <3>2. t \in calm
      BY <3>1 DEF TruthInv
    <3>3. Kept(c)
      BY <3>1, <3>2 DEF TruthInv, HealInv, HealSound
    <3> QED BY <1>k, <3>3
  <2>3. CASE RemoveRow(t)
    BY <1>1, <2>3 DEF RemoveRow, NoRow
  <2> QED BY <2>1, <2>2, <2>3, RowChanges
<1>2. ASSUME NEW u \in Threads, pc'[u] # "idle" PROVE u \in calm'
  <2>1. calm \subseteq calm'
    BY DEF Step, PutStart, ApplyPut, PutCommit, ReadRow, ReadLocations, GetFetch, RemoveShard,
           RemoveRow, ProbeShard, RepairFetch, RepairPlace, RebalanceGate, RebalanceCopy,
           FencedCommit, Abandon, ghost, faults
  <2>2. CASE u # t
    BY <1>2, <2>1, <2>2, StepLocal DEF TruthInv
  <2>3. CASE u = t /\ (PutStart(t) \/ ReadRow(t))
    BY <2>3 DEF PutStart, ReadRow
  <2>4. CASE u = t /\ ReadLocations(t)
    BY <2>1, <2>4 DEF ReadLocations, TruthInv
  <2>5. CASE u = t /\ ~PutStart(t) /\ ~ReadRow(t) /\ ~ReadLocations(t)
    BY <1>2, <2>1, <2>5, LoadedStays DEF TruthInv
  <2> QED BY <2>2, <2>3, <2>4, <2>5
<1>3. ASSUME NEW u \in Threads, op'[u] = "put", NEW c \in update'[u]
      PROVE  Kept(c)' \/ c \in todo'[u]
  <2>1. CASE u # t
    BY <1>3, <1>k, <2>1, StepLocal DEF TruthInv
  <2>2. CASE u = t /\ PutStart(t)
    BY <1>t, <1>3, <2>2 DEF PutStart
  <2>3. CASE u = t /\ ~PutStart(t)
    <3>1. ApplyPut(t) /\ op[t] = "put"
      BY <1>3, <2>3, StaysPut
    <3>2. PICK d \in todo[t] : shards' = shards \cup {d} /\ todo' = [todo EXCEPT ![t] = @ \ {d}]
      BY <3>1 DEF ApplyPut
    <3>3. c \in update[t]
      BY <1>3, <2>3, <3>1 DEF ApplyPut
    <3>4. Kept(d)'
      BY <3>2 DEF Kept
    <3> QED BY <1>k, <1>t, <2>3, <3>1, <3>2, <3>3, <3>4 DEF TruthInv
  <2> QED BY <2>1, <2>2, <2>3
<1> QED BY <1>1, <1>2, <1>3 DEF TruthInv

LEMMA NextTruth ==
    ReindexInv /\ FoundInv /\ CatalogInv /\ TruthInv /\ [ReindexNext]_allVars => TruthInv'
<1> SUFFICES ASSUME ReindexInv, FoundInv, CatalogInv, TruthInv, [ReindexNext]_allVars
             PROVE  TruthInv'
  OBVIOUS
<1>1. CASE ClientStep
  <2>1. CASE \E t \in Threads : Step(t)
    BY <2>1, StepTruth DEF ReindexInv, FoundInv, CatalogInv
  <2>2. CASE RegisterNode \/ UnregisterNode \/ LateDelete
    <3>1. UNCHANGED <<row, client, calm>>
      BY <2>2 DEF RegisterNode, UnregisterNode, LateDelete, ghost, faults
    <3>2. \A c : Kept(c) => Kept(c)'
      BY <2>2 DEF RegisterNode, UnregisterNode, LateDelete, Kept, FoundInv, DeletesAnnounced, ghost
    <3> QED BY <3>1, <3>2 DEF TruthInv, client
  <2> QED BY <1>1, <2>1, <2>2, ClientStepIsNext
<1>2. ASSUME UNCHANGED <<shards, client, ghost>>,
             \A c \in row'.locs : Kept(c) \/ c.node = kUnknownNode
      PROVE  TruthInv'
  BY <1>2 DEF TruthInv, Kept, client, ghost, faults
<1>3. CASE LoseCatalog
  BY <1>2, <1>3 DEF LoseCatalog, NoRow
<1>4. CASE ReindexStart \/ GroupVersions \/ ScanNode \/ SelectVersion \/ ReindexAbandon
           \/ UNCHANGED allVars
  <2>1. UNCHANGED <<row, shards, client, ghost>>
    BY <1>4 DEF ReindexStart, GroupVersions, ScanNode, SelectVersion, ReindexAbandon, ReindexDone,
                allVars, vars, store
  <2> QED BY <1>2, <2>1 DEF TruthInv
<1>5. CASE InsertIfAbsent
  <2>1. \A c \in best.locs : Kept(c)
    BY <1>5 DEF InsertIfAbsent, ReindexInv, ScanInv, Unbeaten, FoundInv, Accounted, Kept
  <2>2. \A c \in FullLocations(best) : Kept(c) \/ c.node = kUnknownNode
    BY <2>1 DEF FullLocations
  <2>3. \A c \in row'.locs : Kept(c) \/ c.node = kUnknownNode
    BY <1>5, <2>2 DEF InsertIfAbsent, TruthInv
  <2> QED BY <1>2, <1>5, <2>3 DEF InsertIfAbsent, ReindexDone
<1> QED BY <1>1, <1>3, <1>4, <1>5 DEF ReindexNext

\* With rebuilds too, a location names a node that has the shard or says that
\* it is unknown, until a remove() begins on that version: what a scan found
\* while puts, repairs and rebalances were half done is there to stay.
THEOREM CatalogTellsTheTruth == ReindexSpec => []LocationsAreTrue
<1>1. ReindexInit => TruthInv
  BY DEF ReindexInit, Init, TruthInv, NoRow
<1>2. TruthInv => LocationsAreTrue
  BY DEF TruthInv, LocationsAreTrue, Kept
<1> QED BY <1>1, <1>2, NextTruth, FoundInvariant, CatalogInvariant, ReindexInvariant, PTL
        DEF ReindexSpec

-----------------------------------------------------------------------------
\* Without rebalance_object(): every list is of one put, and by the time a
\* repair places shards it has decoded some of the list under the row's DEK,
\* so the list is of the row's put.
OneVersion(t) ==
    /\ \A c, d \in meta[t].locs : c.token = d.token
    /\ pc[t] = "place" => \A c \in meta[t].locs : c.token = meta[t].content
    /\ pc[t] = "apply" => \A c \in update[t] : c.token = meta[t].content

WholeVersions == RowCoherent /\ \A t \in Threads : OneVersion(t)

\* What can be decoded under a DEK has a shard of that put.
LEMMA DecodedUnder ==
    ASSUME NEW copies, NEW content, Decodable(copies, content)
    PROVE  \E c \in copies : c.token = content
<1> SUFFICES ASSUME ~ \E c \in copies : c.token = content PROVE FALSE
  OBVIOUS
<1>1. Indices({c \in copies : c.token = content}) = {}
  BY DEF Indices
<1>2. K \in Nat /\ K > 0
  BY PlacementAssumption
<1> QED BY <1>1, <1>2, FS_EmptySet DEF Decodable

LEMMA OwnWhole ==
    ASSUME Typed, ListInv, WholeVersions, "rebalance" \notin Ops, NEW t \in Threads, Step(t)
    PROVE  OneVersion(t)'
<1>t. /\ pc \in [Threads -> PCs] /\ op \in [Threads -> Ops \cup {"none"}]
      /\ meta \in [Threads -> Row] /\ seen \in [Threads -> SUBSET Copy]
      /\ todo \in [Threads -> SUBSET Copy] /\ update \in [Threads -> SUBSET Copy]
  BY DEF Typed, TypeOK
<1>w. OneVersion(t) /\ ListOf(t)
  BY DEF WholeVersions, ListInv
<1> USE DEF OneVersion
<1>1. CASE PutStart(t)
  <2>1. PICK f : update' = [update EXCEPT ![t] = CopiesAt(f, Idx, started + 1)]
    BY <1>1 DEF PutStart
  <2>2. meta'[t].content = started + 1 /\ meta'[t].locs = {} /\ pc'[t] = "apply"
    BY <1>t, <1>1 DEF PutStart
  <2>3. \A c \in CopiesAt(f, Idx, started + 1) : c.token = started + 1
    BY DEF CopiesAt
  <2> QED BY <1>t, <2>1, <2>2, <2>3
<1>2. CASE ReadRow(t)
  BY <1>t, <1>2 DEF ReadRow
<1>3. CASE ReadLocations(t)
  <2>1. op[t] \in {"get", "remove", "repair", "rebalance"}
    BY <1>3 DEF ReadLocations, Typed, OpAtPc
  <2>2. AfterRead(op[t]) \notin {"place", "apply"}
    BY <2>1, Zenon DEF AfterRead
  <2>3. meta'[t].locs = row.locs /\ pc'[t] = AfterRead(op[t])
    BY <1>t, <1>3 DEF ReadLocations
  <2> QED BY <2>2, <2>3 DEF WholeVersions, RowCoherent
<1>4. CASE RepairFetch(t)
  <2>1. PICK c \in seen[t] \cap shards : c.token = meta[t].content
    BY <1>4, DecodedUnder DEF RepairFetch
  <2>2. c \in meta[t].locs
    BY <1>w, <2>1 DEF ListOf
  <2> QED BY <1>4, <1>t, <1>w, <2>1, <2>2 DEF RepairFetch
<1>5. CASE RepairPlace(t)
  <2>1. PICK new, first :
          /\ first \in meta[t].locs
          /\ \A c \in new : c.token = first.token
          /\ update' = [update EXCEPT ![t] = seen[t] \cup new]
    BY <1>5, PlacedCopies
  <2>2. pc[t] = "place" /\ pc' = [pc EXCEPT ![t] = "apply"] /\ meta' = meta
    BY <1>5 DEF RepairPlace
  <2>3. seen[t] \subseteq meta[t].locs
    BY <1>w DEF ListOf
  <2> QED BY <1>t, <1>w, <2>1, <2>2, <2>3
<1>6. CASE RebalanceGate(t)
  <2>1. pc' = [pc EXCEPT ![t] = "probe"] /\ meta' = meta
    BY <1>6 DEF RebalanceGate
  <2> QED BY <1>t, <1>w, <2>1
<1>7. CASE RebalanceCopy(t)
  BY <1>t, <1>7 DEF RebalanceCopy
<1>8. CASE ApplyPut(t) \/ RemoveShard(t) \/ ProbeShard(t)
  BY <1>w, <1>8 DEF ApplyPut, RemoveShard, ProbeShard
<1>9. CASE Done(t)
  BY <1>t, <1>9 DEF Done, NoRow
<1>10. PutCommit(t) \/ GetFetch(t) \/ RemoveRow(t) \/ FencedCommit(t) \/ Abandon(t) => Done(t)
  BY DEF PutCommit, GetFetch, RemoveRow, FencedCommit, Abandon
<1> QED BY <1>1, <1>2, <1>3, <1>4, <1>5, <1>6, <1>7, <1>8, <1>9, <1>10 DEF Step

LEMMA StepWhole ==
    ASSUME Typed, ListInv, WholeVersions, "rebalance" \notin Ops, NEW t \in Threads, Step(t)
    PROVE  WholeVersions'
<1>1. RowCoherent'
  <2>1. CASE row' = row
    BY <2>1 DEF WholeVersions, RowCoherent
  <2>2. CASE (PutCommit(t) \/ FencedCommit(t)) /\ row' = NewRow(t)
    <3>1. pc[t] = "apply"
      BY <2>2 DEF PutCommit, FencedCommit, Applied
    <3> QED BY <2>2, <3>1 DEF NewRow, WholeVersions, OneVersion, RowCoherent
  <2>3. CASE RemoveRow(t)
    BY <2>3 DEF RemoveRow, NoRow, RowCoherent
  <2> QED BY <2>1, <2>2, <2>3, RowChanges
<1>2. ASSUME NEW u \in Threads PROVE OneVersion(u)'
  <2>1. CASE u = t
    BY <2>1, OwnWhole
  <2>2. CASE u # t
    BY <2>2, StepLocal DEF WholeVersions, OneVersion
  <2> QED BY <2>1, <2>2
<1> QED BY <1>1, <1>2 DEF WholeVersions

LEMMA NextWhole ==
    ASSUME "rebalance" \notin Ops
    PROVE  ReindexInv /\ FoundInv /\ CatalogInv /\ WholeVersions /\ [ReindexNext]_allVars
               => WholeVersions'
<1> SUFFICES ASSUME ReindexInv, FoundInv, CatalogInv, WholeVersions, [ReindexNext]_allVars
             PROVE  WholeVersions'
  OBVIOUS
<1>1. CASE ClientStep
  <2>1. CASE \E t \in Threads : Step(t)
    BY <2>1, StepWhole DEF ReindexInv, CatalogInv
  <2>2. CASE RegisterNode \/ UnregisterNode \/ LateDelete
    BY <2>2 DEF RegisterNode, UnregisterNode, LateDelete, WholeVersions, OneVersion, RowCoherent,
                client
  <2> QED BY <1>1, <2>1, <2>2, ClientStepIsNext
<1>2. ASSUME UNCHANGED client, RowCoherent' PROVE WholeVersions'
  BY <1>2 DEF WholeVersions, OneVersion, client
<1>3. CASE LoseCatalog
  BY <1>2, <1>3 DEF LoseCatalog, NoRow, RowCoherent
<1>4. CASE ReindexStart \/ GroupVersions \/ ScanNode \/ SelectVersion \/ ReindexAbandon
           \/ UNCHANGED allVars
  <2>1. UNCHANGED <<row, client>>
    BY <1>4 DEF ReindexStart, GroupVersions, ScanNode, SelectVersion, ReindexAbandon, ReindexDone,
                allVars, vars, store
  <2> QED BY <1>2, <2>1 DEF WholeVersions, RowCoherent
<1>5. CASE InsertIfAbsent
  <2>1. RowCoherent'
    BY <1>5, InsertedIsCoherent DEF WholeVersions, RowCoherent
  <2> QED BY <1>2, <1>5, <2>1 DEF InsertIfAbsent, ReindexDone
<1> QED BY <1>1, <1>3, <1>4, <1>5 DEF ReindexNext

\* Without rebalance_object() a row is always of one put, also across losses
\* of the tables, removes, rebuilds from partly deleted shards and the repairs
\* that a version number coming back lets past the fence: repair() has decoded
\* what it commits under the DEK it commits.  Only rebalance_object(), which
\* copies shards unopened, depends on the fence for this.
THEOREM RebuiltRowsAreCoherent ==
    ASSUME "rebalance" \notin Ops
    PROVE  ReindexSpec => []RowCoherent
<1>1. ReindexInit => WholeVersions
  BY DEF ReindexInit, Init, WholeVersions, OneVersion, RowCoherent, NoRow
<1>2. ReindexInv /\ FoundInv /\ CatalogInv /\ WholeVersions /\ [ReindexNext]_allVars
        => WholeVersions'
  BY NextWhole
<1>3. WholeVersions => RowCoherent
  BY DEF WholeVersions
<1> QED BY <1>1, <1>2, <1>3, FoundInvariant, CatalogInvariant, ReindexInvariant, PTL DEF ReindexSpec

-----------------------------------------------------------------------------
\* Version x is dated d by a stored shard, a payload under way, or a manifest
\* that a running rebuild has read.
Dated(x, d) ==
    \/ \E c \in DOMAIN stamp : c.token = x /\ stamp[c] = d
    \/ \E t \in Threads : \E c \in DOMAIN carried[t] : c.token = x /\ carried[t][c] = d
    \/ \E k \in candidates : k.token = x /\ k.at = d

\* A planned move is of a listed shard and keeps its version.
PlanKeepsTokens ==
    \A t \in Threads : pc[t] = "probe" /\ op[t] = "rebalance" =>
        \A u \in update[t] : \E s \in meta[t].locs : s.index = u.index /\ s.token = u.token

\* Without repair(), manifests are dated by puts only, in the order of their
\* tokens.
Chronological ==
    /\ \A t \in Threads : pc[t] # "place"
    /\ PlanKeepsTokens
    /\ \A x, d \in Nat : Dated(x, d) => x <= started /\ d <= clock
    /\ \A x, y, d, e \in Nat : Dated(x, d) /\ Dated(y, e) /\ x < y => d < e

LEMMA InitChronological == ReindexInit => Chronological
BY DEF ReindexInit, Init, Chronological, PlanKeepsTokens, Dated

LEMMA StepPlanTokens ==
    ASSUME Typed, PlanKeepsTokens, NEW t \in Threads, Step(t)
    PROVE  PlanKeepsTokens'
<1> SUFFICES ASSUME NEW u \in Threads, pc'[u] = "probe", op'[u] = "rebalance",
                    NEW m \in update'[u]
             PROVE  \E s \in meta'[u].locs : s.index = m.index /\ s.token = m.token
  BY DEF PlanKeepsTokens
<1>1. CASE u # t
  BY <1>1, StepLocal DEF PlanKeepsTokens
<1>2. CASE u = t /\ RebalanceGate(t)
  <2>1. PICK intended \in [Idx -> registered], moves \in SUBSET meta[t].locs :
          update' = [update EXCEPT ![t] = {Moved(c, intended) : c \in moves}]
    BY <1>2, GatePlan
  <2>2. PICK c \in moves : m = Moved(c, intended)
    BY <1>2, <2>1 DEF Typed, TypeOK
  <2>3. c \in meta'[t].locs /\ m.index = c.index /\ m.token = c.token
    BY <1>2, <2>2 DEF RebalanceGate, Moved
  <2> QED BY <1>2, <2>3
<1>3. CASE u = t /\ ProbeShard(t)
  BY <1>3 DEF ProbeShard, PlanKeepsTokens
<1>4. CASE u = t /\ ~ RebalanceGate(t) /\ ~ ProbeShard(t)
  BY <1>4, OnlyGateProbes
<1> QED BY <1>1, <1>2, <1>3, <1>4

\* The payload a rebalance copies has the version of the copy it writes.
LEMMA SourceOfMove ==
    ASSUME ReindexInv, CatalogInv, PlanKeepsTokens, NEW t \in Threads, RebalanceCopy(t),
           NEW c \in todo'[t]
    PROVE  LET source == CHOOSE s \in meta[t].locs : s.index = c.index
           IN  source \in DOMAIN stamp /\ source.token = c.token
<1> DEFINE source == CHOOSE s \in meta[t].locs : s.index = c.index
<1>1. PICK moves \in SUBSET update[t] :
        /\ \A d \in meta[t].locs : d.index \in Indices(moves) => d \in shards
        /\ todo' = [todo EXCEPT ![t] = moves]
  BY DEF RebalanceCopy
<1>2. c \in moves
  BY <1>1 DEF ReindexInv, Typed, TypeOK
<1>3. pc[t] = "probe" /\ op[t] = "rebalance"
  BY DEF RebalanceCopy
<1>4. PICK s \in meta[t].locs : s.index = c.index /\ s.token = c.token
  BY <1>2, <1>3 DEF PlanKeepsTokens
<1>5. source \in meta[t].locs /\ source.index = c.index
  BY <1>4
<1>6. source = s
  BY <1>3, <1>4, <1>5 DEF CatalogInv, ListInv, ListOf, Full, Distinct
<1>7. s \in shards
  BY <1>1, <1>2, <1>4 DEF Indices
<1> QED BY <1>4, <1>6, <1>7 DEF ReindexInv, DatesInv

\* No step but the start of a put dates a version anew.
LEMMA ClientDated ==
    ASSUME ReindexInv, CatalogInv, Chronological, "repair" \notin Ops, NEW t \in Threads,
           \/ BuildManifests(t) \/ CopyManifests(t) \/ StoreManifest(t)
           \/ DropManifests(t) \/ RemoveObject(t) \/ WithoutManifests(t),
           candidates' = candidates, NEW x \in Nat, NEW d \in Nat, Dated(x, d)'
    PROVE  \/ Dated(x, d)
           \/ PutStart(t) /\ x = started + 1 /\ d = clock + 1 /\ clock' = clock + 1
<1>d. carried = [u \in Threads |-> carried[u]] /\ carried' = [u \in Threads |-> carried'[u]]
  <2>1. DatesInv'
    BY ClientDates, StepTyped DEF ReindexInv, Step, BuildManifests, CopyManifests, StoreManifest,
          DropManifests, RemoveObject, WithoutManifests
  <2> QED BY <2>1 DEF ReindexInv, DatesInv
<1>1. CASE BuildManifests(t)
  <2>1. PutStart(t)
    BY <1>1 DEF BuildManifests, RepairPlace, Chronological
  <2>2. /\ carried' = [carried EXCEPT ![t] = [c \in todo'[t] |-> clock + 1]]
        /\ stamp' = stamp /\ clock' = clock + 1
    BY <1>1 DEF BuildManifests
  <2>3. \A c \in todo'[t] : c.token = started + 1
    <3>1. PICK f : todo' = [todo EXCEPT ![t] = CopiesAt(f, Idx, started + 1)]
      BY <2>1 DEF PutStart
    <3>2. todo'[t] = CopiesAt(f, Idx, started + 1)
      BY <3>1 DEF ReindexInv, Typed, TypeOK
    <3> QED BY <3>2 DEF CopiesAt
  <2>4. carried'[t] = [c \in todo'[t] |-> clock + 1] /\ \A u \in Threads \ {t} : carried'[u] = carried[u]
    BY <1>d, <2>2
  <2>5. CASE \E c \in DOMAIN carried'[t] : c.token = x /\ carried'[t][c] = d
    BY <2>1, <2>2, <2>3, <2>4, <2>5
  <2>6. CASE ~ \E c \in DOMAIN carried'[t] : c.token = x /\ carried'[t][c] = d
    BY <2>2, <2>4, <2>6 DEF Dated
  <2> QED BY <2>5, <2>6
<1>2. CASE CopyManifests(t)
  <2> DEFINE source(c) == CHOOSE s \in meta[t].locs : s.index = c.index
  <2>1. /\ RebalanceCopy(t) /\ stamp' = stamp
        /\ carried' = [carried EXCEPT ![t] = [c \in todo'[t] |-> stamp[source(c)]]]
    BY <1>2 DEF CopyManifests
  <2>2. \A c \in todo'[t] : source(c) \in DOMAIN stamp /\ source(c).token = c.token
    BY <2>1, SourceOfMove DEF Chronological
  <2> HIDE DEF source
  <2>3. /\ carried'[t] = [c \in todo'[t] |-> stamp[source(c)]]
        /\ \A u \in Threads \ {t} : carried'[u] = carried[u]
    BY <1>d, <2>1
  <2> QED BY <2>1, <2>2, <2>3 DEF Dated
<1>3. CASE StoreManifest(t)
  <2>1. PICK c \in todo[t] : todo' = [todo EXCEPT ![t] = @ \ {c}]
    BY <1>3 DEF StoreManifest, ApplyPut
  <2>2. todo[t] \ todo'[t] = {c}
    BY <2>1 DEF ReindexInv, Typed, TypeOK
  <2>3. /\ stamp' = [e \in DOMAIN stamp \cup {c} |-> IF e \in {c} THEN carried[t][e] ELSE stamp[e]]
        /\ carried' = carried
    BY <1>3, <2>2 DEF StoreManifest
  <2>4. c \in DOMAIN carried[t]
    BY <1>3 DEF StoreManifest, ApplyPut, ReindexInv, DatesInv
  <2> QED BY <2>3, <2>4 DEF Dated
<1>4. CASE DropManifests(t)
  <2>1. carried' = [carried EXCEPT ![t] = <<>>] /\ stamp' = stamp
    BY <1>4 DEF DropManifests
  <2>2. DOMAIN carried'[t] = {} /\ \A u \in Threads \ {t} : carried'[u] = carried[u]
    BY <1>d, <2>1
  <2> QED BY <2>1, <2>2 DEF Dated
<1>5. CASE RemoveObject(t) \/ WithoutManifests(t)
  BY <1>5 DEF RemoveObject, WithoutManifests, manifests, Dated
<1> QED BY <1>1, <1>2, <1>3, <1>4, <1>5

\* The order of dates after a step that dates at most one new version, later
\* than all others.
LEMMA OrderKept ==
    ASSUME Typed, started' \in Nat, clock \in Nat, clock' \in Nat, Chronological,
           started' >= started, clock' >= clock,
           \/ \A x, d \in Nat : Dated(x, d)' => Dated(x, d)
           \/ /\ started' = started + 1 /\ clock' = clock + 1
              /\ \A x, d \in Nat : Dated(x, d)' =>
                     Dated(x, d) \/ (x = started + 1 /\ d = clock + 1)
    PROVE  /\ \A x, d \in Nat : Dated(x, d)' => x <= started' /\ d <= clock'
           /\ \A x, y, d, e \in Nat : Dated(x, d)' /\ Dated(y, e)' /\ x < y => d < e
<1>0. started \in Nat
  BY DEF Typed, TypeOK
<1>1. \A x, d \in Nat : Dated(x, d) => x <= started /\ d <= clock
  BY DEF Chronological
<1>2. \A x, y, d, e \in Nat : Dated(x, d) /\ Dated(y, e) /\ x < y => d < e
  BY DEF Chronological
<1>3. CASE \A x, d \in Nat : Dated(x, d)' => Dated(x, d)
  BY <1>0, <1>1, <1>2, <1>3
<1>4. CASE /\ started' = started + 1 /\ clock' = clock + 1
           /\ \A x, d \in Nat : Dated(x, d)' => Dated(x, d) \/ (x = started + 1 /\ d = clock + 1)
  <2>1. ASSUME NEW x \in Nat, NEW d \in Nat, Dated(x, d)' PROVE x <= started' /\ d <= clock'
    BY <1>0, <1>1, <1>4, <2>1
  <2>2. ASSUME NEW x \in Nat, NEW y \in Nat, NEW d \in Nat, NEW e \in Nat,
               Dated(x, d)', Dated(y, e)', x < y
        PROVE  d < e
    <3>1. Dated(x, d) \/ (x = started + 1 /\ d = clock + 1)
      BY <1>4, <2>2
    <3>2. Dated(y, e) \/ (y = started + 1 /\ e = clock + 1)
      BY <1>4, <2>2
    <3>3. CASE Dated(x, d) /\ Dated(y, e)
      BY <1>2, <2>2, <3>3
    <3>4. CASE Dated(x, d) /\ e = clock + 1
      BY <1>1, <3>4
    <3>5. CASE x = started + 1
      BY <1>0, <1>1, <2>2, <3>2, <3>5
    <3> QED BY <3>1, <3>2, <3>3, <3>4, <3>5
  <2> QED BY <2>1, <2>2
<1> QED BY <1>3, <1>4

LEMMA NextChronological ==
    ASSUME "repair" \notin Ops
    PROVE  ReindexInv /\ CatalogInv /\ Chronological /\ [ReindexNext]_allVars => Chronological'
<1> SUFFICES ASSUME ReindexInv, CatalogInv, Chronological, [ReindexNext]_allVars
             PROVE  Chronological'
  OBVIOUS
<1>n. Typed /\ clock \in Nat /\ started \in Nat
  BY DEF ReindexInv, Typed, TypeOK, DatesInv
<1>q. ASSUME UNCHANGED <<client, started, clock>>,
             \A x, d \in Nat : Dated(x, d)' => Dated(x, d)
      PROVE  Chronological'
  <2>1. /\ \A x, d \in Nat : Dated(x, d)' => x <= started' /\ d <= clock'
        /\ \A x, y, d, e \in Nat : Dated(x, d)' /\ Dated(y, e)' /\ x < y => d < e
    BY <1>n, <1>q, OrderKept
  <2>2. (\A t \in Threads : pc'[t] # "place") /\ PlanKeepsTokens'
    BY <1>q DEF Chronological, PlanKeepsTokens, client
  <2> QED BY <2>1, <2>2 DEF Chronological
<1>1. CASE ClientStep
  <2>0. candidates' = candidates
    BY <1>1 DEF ClientStep, scan
  <2>1. CASE \E t \in Threads :
               \/ BuildManifests(t) \/ CopyManifests(t) \/ StoreManifest(t)
               \/ DropManifests(t) \/ RemoveObject(t) \/ WithoutManifests(t)
    <3>1. PICK t \in Threads :
               \/ BuildManifests(t) \/ CopyManifests(t) \/ StoreManifest(t)
               \/ DropManifests(t) \/ RemoveObject(t) \/ WithoutManifests(t)
      BY <2>1
    <3>2. Step(t)
      BY <3>1 DEF Step, BuildManifests, CopyManifests, StoreManifest, DropManifests,
                  RemoveObject, WithoutManifests
    <3>3. PlanKeepsTokens'
      BY <3>2, StepPlanTokens, <1>n DEF Chronological
    <3>4. \A u \in Threads : pc'[u] # "place"
      <4> SUFFICES ASSUME NEW u \in Threads, pc'[u] = "place" PROVE FALSE
        OBVIOUS
      <4>1. u = t
        BY <3>2, <1>n, StepLocal DEF Chronological
      <4>2. ~ RepairFetch(t)
        BY <1>n DEF RepairFetch, Typed, TypeOK
      <4>3. ~ ReadLocations(t)
        <5>1. ASSUME ReadLocations(t) PROVE FALSE
          <6>1. op[t] \in {"get", "remove", "repair", "rebalance"}
            BY <1>n, <5>1 DEF ReadLocations, Typed, OpAtPc
          <6>2. AfterRead(op[t]) # "place"
            BY <6>1 DEF AfterRead
          <6> QED BY <1>n, <4>1, <5>1, <6>2 DEF ReadLocations, Typed, TypeOK
        <5> QED BY <5>1
      <4>4. ~ Done(t)
        BY <1>n, <4>1 DEF Done, Typed, TypeOK
      <4>5. PutCommit(t) \/ GetFetch(t) \/ RemoveRow(t) \/ FencedCommit(t) \/ Abandon(t) => Done(t)
        BY DEF PutCommit, GetFetch, RemoveRow, FencedCommit, Abandon
      <4>6. CASE ApplyPut(t) \/ RemoveShard(t) \/ ProbeShard(t)
        BY <4>6 DEF ApplyPut, RemoveShard, ProbeShard, Chronological
      <4>7. CASE PutStart(t) \/ ReadRow(t) \/ RepairPlace(t) \/ RebalanceGate(t) \/ RebalanceCopy(t)
        BY <1>n, <4>1, <4>7 DEF PutStart, ReadRow, RepairPlace, RebalanceGate, RebalanceCopy,
                                Typed, TypeOK
      <4> QED BY <3>2, <4>2, <4>3, <4>4, <4>5, <4>6, <4>7 DEF Step
    <3>5. /\ started' \in Nat /\ clock' \in Nat /\ started' >= started /\ clock' >= clock
          /\ PutStart(t) => started' = started + 1
      <4>1. started' = started \/ started' = started + 1
        <5>1. PutStart(t) \/ ReadRow(t) => started' = started + 1
          BY DEF PutStart, ReadRow
        <5> QED BY <3>2, <5>1 DEF Step, ApplyPut, PutCommit, ReadLocations, GetFetch, RemoveShard,
              RemoveRow, ProbeShard, RepairFetch, RepairPlace, RebalanceGate, RebalanceCopy,
              FencedCommit, Abandon
      <4>2. clock' = clock \/ clock' = clock + 1
        BY <3>1 DEF BuildManifests, CopyManifests, StoreManifest, DropManifests,
                    RemoveObject, WithoutManifests, manifests
      <4>3. PutStart(t) => started' = started + 1
        BY DEF PutStart
      <4> QED BY <1>n, <4>1, <4>2, <4>3
    <3>6. \/ \A x, d \in Nat : Dated(x, d)' => Dated(x, d)
          \/ /\ started' = started + 1 /\ clock' = clock + 1
             /\ \A x, d \in Nat : Dated(x, d)' =>
                     Dated(x, d) \/ (x = started + 1 /\ d = clock + 1)
      BY <2>0, <3>1, <3>5, ClientDated
    <3>7. /\ \A x, d \in Nat : Dated(x, d)' => x <= started' /\ d <= clock'
          /\ \A x, y, d, e \in Nat : Dated(x, d)' /\ Dated(y, e)' /\ x < y => d < e
      BY <1>n, <3>5, <3>6, OrderKept
    <3> QED BY <3>3, <3>4, <3>7 DEF Chronological
  <2>2. CASE (RegisterNode \/ UnregisterNode \/ LateDelete) /\ UNCHANGED <<manifests, past>>
    <3>1. UNCHANGED <<client, started, clock, stamp, carried>>
      BY <2>2 DEF RegisterNode, UnregisterNode, LateDelete, manifests
    <3>2. \A x, d \in Nat : Dated(x, d)' => Dated(x, d)
      BY <2>0, <3>1 DEF Dated
    <3> QED BY <1>q, <3>1, <3>2
  <2> QED BY <1>1, <2>1, <2>2 DEF ClientStep
<1>2. CASE LoseCatalog \/ ReindexStart \/ ScanNode \/ GroupVersions \/ InsertIfAbsent
           \/ ReindexAbandon \/ UNCHANGED allVars
  <2>1. UNCHANGED <<client, started, clock, stamp, carried>> /\ candidates' \subseteq candidates
    BY <1>2 DEF LoseCatalog, ReindexStart, ScanNode, GroupVersions, InsertIfAbsent, ReindexAbandon,
                ReindexDone, allVars, vars, manifests, scan
  <2>2. \A x, d \in Nat : Dated(x, d)' => Dated(x, d)
    BY <2>1 DEF Dated
  <2> QED BY <1>q, <2>1, <2>2
<1>3. CASE SelectVersion
  <2>1. UNCHANGED <<client, started, clock, stamp, carried>>
    BY <1>3 DEF SelectVersion, vars, manifests
  <2>2. ASSUME NEW x \in Nat, NEW d \in Nat, Dated(x, d)' PROVE Dated(x, d)
    <3>1. CASE \E k \in candidates' : k \notin candidates /\ k.token = x /\ k.at = d
      <4>1. PICK rep \in shards : x = rep.token /\ d = stamp[rep]
        BY <1>3, <3>1, SelectedCandidate
      <4> QED BY <4>1 DEF Dated, ReindexInv, DatesInv
    <3>2. CASE ~ \E k \in candidates' : k \notin candidates /\ k.token = x /\ k.at = d
      BY <2>1, <2>2, <3>2 DEF Dated
    <3> QED BY <3>1, <3>2
  <2> QED BY <1>q, <2>1, <2>2
<1> QED BY <1>1, <1>2, <1>3 DEF ReindexNext

\* As long as no repair() re-dates a version, a rebuild that found k shards of
\* the put committed last never goes back to a put that was over before that
\* one began: whatever put, remove and rebalance do meanwhile, however often
\* the tables are lost and whichever nodes did not answer.  (With repairs it
\* does: that is a finding.  Of two overlapping puts it may restore the one
\* that was overwritten.)
THEOREM RebuildsRestoreNewest ==
    ASSUME "repair" \notin Ops
    PROVE  ReindexSpec => RestoresNewest
<1> DEFINE Newest ==
      Inserts /\ (\E c \in candidates : c.token = latest /\ ShardCount(c) >= K)
          => <<row'.content, latest>> \notin precedes
<1>1. ReindexInv /\ PastInv /\ Chronological /\ [ReindexNext]_allVars => [Newest]_allVars
  <2> SUFFICES ASSUME ReindexInv, PastInv, Chronological, ReindexNext, Inserts,
                      NEW c \in candidates, c.token = latest, ShardCount(c) >= K,
                      <<row'.content, latest>> \in precedes
               PROVE  FALSE
    OBVIOUS
  <2>1. InsertIfAbsent
    BY DEF Inserts, ReindexNext, ClientStep, scan, LoseCatalog, ReindexStart, ScanNode,
           GroupVersions, SelectVersion, ReindexAbandon
  <2>2. row' = [version |-> 1, content |-> best.token, locs |-> FullLocations(best)]
    BY <2>1 DEF InsertIfAbsent, Inserts
  <2>3. row'.content = best.token
    BY <2>2
  <2>4. best \in candidates /\ ~ Better(c, best)
    BY DEF ReindexInv, ScanInv, Unbeaten
  <2>5. c \in Candidate /\ best \in Candidate
    BY DEF ReindexInv, ScanInv
  <2>6. ShardCount(c) \in Nat /\ ShardCount(best) \in Nat /\ K \in Nat
    BY <2>5, ShardCountType, PlacementAssumption
  <2>7. c.at \in Nat /\ best.at \in Nat /\ c.token \in Nat /\ best.token \in Nat
    BY <2>5 DEF Candidate
  <2>8. c.at <= best.at
    BY <2>4, <2>6, <2>7 DEF Better
  <2>9. Dated(best.token, best.at) /\ Dated(c.token, c.at)
    BY <2>4 DEF Dated
  <2>10. best.token < c.token => best.at < c.at
    BY <2>7, <2>9 DEF Chronological
  <2>11. best.token < c.token
    BY <2>3 DEF PastInv
  <2> QED BY <2>7, <2>8, <2>10, <2>11
<1>2. ReindexSpec => []Chronological
  BY InitChronological, NextChronological, CatalogInvariant, ReindexInvariant, PTL DEF ReindexSpec
<1> QED BY <1>1, <1>2, ReindexInvariant, PastInvariant, PTL DEF ReindexSpec, RestoresNewest

-----------------------------------------------------------------------------
\* Where only put, get and remove run beside it, reindex() never takes a put
\* back that was acknowledged since the tables were last lost, however long
\* before that put it scanned the nodes.  (A repair or a rebalance that began
\* before the loss may: the version it is fenced on comes round again.)
THEOREM RebuildsKeepAcknowledgedPuts ==
    ASSUME Ops \cap {"repair", "rebalance"} = {}
    PROVE  ReindexSpec => []AcknowledgedPutsStay
<1> DEFINE Inv == held # 0 => row.content = held /\ row.version # 0
<1>1. ReindexInit => Inv
  BY DEF ReindexInit
<1>2. ReindexInv /\ Inv /\ [ReindexNext]_allVars => Inv'
  <2> SUFFICES ASSUME ReindexInv, Inv, [ReindexNext]_allVars PROVE Inv'
    OBVIOUS
  <2>1. ASSUME NEW t \in Threads, DropManifests(t) PROVE Inv'
    <3>1. ~ FencedCommit(t)
      BY DEF FencedCommit, ReindexInv, Typed, TypeOK
    <3>2. CASE Abandon(t) /\ held' = held
      BY <3>2 DEF Abandon, store
    <3>3. CASE PutCommit(t) /\ held' = meta[t].content
      <4>1. row' = NewRow(t) /\ row.version \in Nat
        BY <3>3 DEF PutCommit, ReindexInv, Typed, TypeOK, Row
      <4> QED BY <3>3, <4>1 DEF NewRow
    <3> QED BY <2>1, <3>1, <3>2, <3>3 DEF DropManifests
  <2>2. ASSUME NEW t \in Threads,
               BuildManifests(t) \/ CopyManifests(t) \/ StoreManifest(t) \/ WithoutManifests(t)
        PROVE  Inv'
    BY <2>2 DEF BuildManifests, CopyManifests, StoreManifest, WithoutManifests, PutStart,
         RepairPlace, RebalanceCopy, ApplyPut, ReadRow, ReadLocations, GetFetch, RemoveShard,
         ProbeShard, RepairFetch, RebalanceGate, store, past
  <2>3. ASSUME NEW t \in Threads, RemoveObject(t) PROVE Inv'
    BY <2>3 DEF RemoveObject
  <2>4. CASE (RegisterNode \/ UnregisterNode \/ LateDelete) /\ UNCHANGED <<manifests, past>>
    BY <2>4 DEF RegisterNode, UnregisterNode, LateDelete, past
  <2>5. CASE LoseCatalog
    BY <2>5 DEF LoseCatalog
  <2>6. CASE InsertIfAbsent
    BY <2>6 DEF InsertIfAbsent, ReindexDone, past
  <2>7. CASE ReindexStart \/ ScanNode \/ GroupVersions \/ SelectVersion \/ ReindexAbandon
             \/ UNCHANGED allVars
    BY <2>7 DEF ReindexStart, ScanNode, GroupVersions, SelectVersion, ReindexAbandon, ReindexDone,
                allVars, vars, store, past
  <2> QED BY <2>1, <2>2, <2>3, <2>4, <2>5, <2>6, <2>7 DEF ReindexNext, ClientStep
<1>3. Inv => AcknowledgedPutsStay
  BY DEF AcknowledgedPutsStay
<1> QED BY <1>1, <1>2, <1>3, ReindexInvariant, PTL DEF ReindexSpec
=============================================================================
