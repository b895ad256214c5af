--------------------------- MODULE StorageClient ---------------------------
(***************************************************************************)
(* The life of one object under core/StorageClient.cpp: put, get, remove,  *)
(* repair and rebalance_object run by concurrent request threads against   *)
(* one metadata row in Postgres and the shard copies on the storage nodes. *)
(* Metadata rows, shard keys and the version fence are all per object id,  *)
(* so one object is the whole story.                                       *)
(*                                                                         *)
(* A step is one metadata statement, one shard request, or a piece of      *)
(* local computation with the reads it starts from.  Any node request may  *)
(* fail, and an operation may end at any point: an early return, an        *)
(* exception and a crash of the client all forget the local state and      *)
(* leave the row and the nodes as they are (Abandon).                      *)
(*                                                                         *)
(* A put's random version token is a number never used before; it stands   *)
(* for the payload, the DEK and the checksum that belong to that put.      *)
(***************************************************************************)
EXTENDS Placement

CONSTANTS Weight,     \* hrw_weight of the object, per shard index and node
          Threads,    \* concurrent callers of the client
          Ops,        \* the operations they call
          MoveCaps,   \* RebalancePolicy::max_moves values, 0 = no cap
          Churn,      \* the nodes that join or leave meanwhile
          Fragile,    \* the nodes that may lose their disk
          MaxOps      \* bound on the operations started

ASSUME ClientAssumption ==
    /\ Weight \in Weights
    /\ Ops \subseteq {"put", "get", "remove", "repair", "rebalance"}
    /\ MoveCaps \subseteq Nat
    /\ Churn \subseteq Nodes
    /\ Fragile \subseteq Nodes
    /\ MaxOps \in Nat

VARIABLES
    row,          \* the object's row and its shard_locations
    shards,       \* the shard copies stored on the nodes
    registered,   \* the nodes table
    late,         \* copies whose DELETE timed out and is still on its way
    pc, op,       \* per thread: the next step, the operation
    meta,         \* per thread: the ObjectMetadata it loaded (put: builds)
    seen,         \* per thread: the copies its probes found
    todo,         \* per thread: the copies still to probe, PUT or DELETE
    update,       \* per thread: the copies to commit as shard_locations
    started,      \* operations started, and the last token handed out
    removing,     \* history: tokens a remove() has begun on
    written,      \* history: tokens put() has committed
    wiped,        \* history: the nodes that lost their disk
    calm,         \* history: threads whose call no such loss fell into
    cramped       \* history: whether a repair() ever had fewer healthy nodes
                  \* without a surviving shard than shards to place

store  == <<row, shards, registered>>
client == <<pc, op, meta, seen, todo, update>>
faults == <<late, wiped, calm, cramped>>
ghost  == <<removing, written, faults>>
vars   == <<store, client, started, ghost>>

\* "0.0.0.0:0", the node of a location whose shard reindex() did not find: no
\* address of a node, so every request to it fails.
kUnknownNode == -1

\* "node/object/token/index": a stored shard, and an entry of shard_locations.
Copy == [index : Idx, node : Nodes \cup {kUnknownNode}, token : Nat]

Row == [version : Nat, content : Nat, locs : SUBSET Copy]

\* Version 0 is no row: the upsert of put() then always adds 1.
NoRow == [version |-> 0, content |-> 0, locs |-> {}]

PCs == {"idle", "row", "fetch", "delete", "probe", "gate", "place", "apply"}

Init ==
    /\ row = NoRow
    /\ shards = {}
    /\ registered \in {Nodes, Nodes \ Churn}
    /\ pc = [t \in Threads |-> "idle"]
    /\ op = [t \in Threads |-> "none"]
    /\ meta = [t \in Threads |-> NoRow]
    /\ seen = [t \in Threads |-> {}]
    /\ todo = [t \in Threads |-> {}]
    /\ update = [t \in Threads |-> {}]
    /\ started = 0
    /\ late = {}
    /\ removing = {}
    /\ written = {}
    /\ wiped = {}
    /\ calm = {}
    /\ cramped = FALSE

\* The operation's stack frame is gone.
Done(t) ==
    /\ pc' = [pc EXCEPT ![t] = "idle"]
    /\ op' = [op EXCEPT ![t] = "none"]
    /\ meta' = [meta EXCEPT ![t] = NoRow]
    /\ seen' = [seen EXCEPT ![t] = {}]
    /\ todo' = [todo EXCEPT ![t] = {}]
    /\ update' = [update EXCEPT ![t] = {}]

\* Shards numbered from 1.
CopiesOneBased(f, indices, token) ==
    {[index |-> i + 1, node |-> f[i], token |-> token] : i \in indices}

\* The copies that put the shards of `indices` on the nodes of f.
CopiesAt(f, indices, token) ==
    {[index |-> i, node |-> f[i], token |-> token] : i \in indices}

Indices(copies) == {c.index : c \in copies}

\* fetch_encrypted_shards(), decrypt_shards() and decode() all succeed: the
\* DEK of `content` opens the shards of at least k indices.
Decodable(copies, content) ==
    Cardinality(Indices({c \in copies : c.token = content})) >= K

-----------------------------------------------------------------------------
\* The nodes table changes under every running operation.
RegisterNode ==
    /\ \E n \in Churn : registered' = registered \cup {n}
    /\ UNCHANGED <<row, shards, client, started, ghost>>

UnregisterNode ==
    /\ \E n \in Churn : registered' = registered \ {n}
    /\ UNCHANGED <<row, shards, client, started, ghost>>

\* A node loses its disk and comes back empty.
LoseDisk ==
    /\ \E n \in Fragile :
        /\ shards' = {c \in shards : c.node # n}
        /\ wiped' = wiped \cup {n}
    /\ calm' = {}
    /\ UNCHANGED <<row, registered, client, started, late, removing, written, cramped>>

\* A node applies a DELETE that the client has given up waiting for.
LateDelete ==
    /\ \E c \in late :
        /\ shards' = shards \ {c}
        /\ late' = late \ {c}
    /\ UNCHANGED <<row, registered, client, started, removing, written, wiped, calm, cramped>>

-----------------------------------------------------------------------------
\* put(): validate, list_nodes, encode and encrypt under a fresh token, and
\* place every shard on its HRW node.  Node health is not consulted.
PutStart(t) ==
    /\ pc[t] = "idle"
    /\ "put" \in Ops
    /\ started < MaxOps
    /\ Cardinality(registered) >= Total
    /\ \E intended \in [Idx -> registered] :
        /\ IsHrwPlacement(Weight, intended, registered)
        /\ LET copies == CopiesAt(intended, Idx, started + 1)
           IN  /\ todo' = [todo EXCEPT ![t] = copies]
               /\ update' = [update EXCEPT ![t] = copies]
    /\ meta' = [meta EXCEPT ![t] = [version |-> 0, content |-> started + 1, locs |-> {}]]
    /\ started' = started + 1
    /\ op' = [op EXCEPT ![t] = "put"]
    /\ calm' = calm \cup {t}
    /\ pc' = [pc EXCEPT ![t] = "apply"]
    /\ UNCHANGED <<store, seen, removing, written, late, wiped, cramped>>

\* apply_placement(): one shard PUT lands; the tasks run in parallel, so in
\* any order.  A PUT that fails makes the caller throw: Abandon.
ApplyPut(t) ==
    /\ pc[t] = "apply"
    /\ \E c \in todo[t] :
        /\ shards' = shards \cup {c}
        /\ todo' = [todo EXCEPT ![t] = @ \ {c}]
    /\ UNCHANGED <<row, registered, pc, op, meta, seen, update, started, ghost>>

\* Not waiting for the PUTs.
FireAndForget(t) ==
    pc[t] = "apply"

\* apply_placement() returned: every task's PUT was answered.
Applied(t) ==
    pc[t] = "apply" /\ todo[t] = {}

\* What a commit of thread t stores.
NewRow(t) ==
    [version |-> row.version + 1, content |-> meta[t].content, locs |-> update[t]]

\* Deleting the overwritten version's shards inline.
PutCommitCollecting(t) ==
    /\ Applied(t)
    /\ op[t] = "put"
    /\ row' = NewRow(t)
    /\ shards' = shards \ row.locs
    /\ written' = written \cup {meta[t].content}
    /\ Done(t)
    /\ UNCHANGED <<registered, started, removing, faults>>

\* MetadataStore::put(): one transaction that inserts the row at version 1 or
\* overwrites it with version + 1, and replaces the locations.
PutCommit(t) ==
    /\ Applied(t)
    /\ op[t] = "put"
    /\ row' = NewRow(t)
    /\ written' = written \cup {meta[t].content}
    /\ Done(t)
    /\ UNCHANGED <<shards, registered, started, removing, faults>>

-----------------------------------------------------------------------------
\* Every other operation loads the metadata first.  MetadataStore::get() is
\* two statements of a READ COMMITTED transaction: the row, then its
\* locations.  A missing row ends the operation at once.
ReadRow(t) ==
    /\ pc[t] = "idle"
    /\ started < MaxOps
    /\ row.version # 0
    /\ \E o \in Ops \ {"put"} : op' = [op EXCEPT ![t] = o]
    /\ meta' = [meta EXCEPT ![t] = [version |-> row.version, content |-> row.content, locs |-> {}]]
    /\ started' = started + 1
    /\ calm' = calm \cup {t}
    /\ pc' = [pc EXCEPT ![t] = "row"]
    /\ UNCHANGED <<store, seen, todo, update, removing, written, late, wiped, cramped>>

AfterRead(o) ==
    CASE o = "get"       -> "fetch"
      [] o = "remove"    -> "delete"
      [] o = "repair"    -> "probe"
      [] o = "rebalance" -> "gate"

ReadLocations(t) ==
    /\ pc[t] = "row"
    /\ meta' = [meta EXCEPT ![t] = [version |-> @.version, content |-> @.content, locs |-> row.locs]]
    /\ todo' = [todo EXCEPT ![t] = IF op[t] \in {"remove", "repair"} THEN row.locs ELSE {}]
    /\ removing' = removing \cup
          (IF op[t] = "remove" THEN {meta[t].content} \cup {c.token : c \in row.locs} ELSE {})
    /\ pc' = [pc EXCEPT ![t] = AfterRead(op[t])]
    /\ UNCHANGED <<store, op, seen, update, started, written, faults>>

\* get(): enough of the listed shards are fetched and decrypt under the DEK
\* of the row that was read.  Otherwise it throws.
GetFetch(t) ==
    /\ pc[t] = "fetch"
    /\ Decodable(meta[t].locs \cap shards, meta[t].content)
    /\ Done(t)
    /\ UNCHANGED <<store, started, ghost>>

\* remove(): remove_from_nodes() is best effort, so a DELETE that is lost or
\* times out is ignored.
RemoveShard(t) ==
    /\ pc[t] = "delete"
    /\ \E c \in todo[t] :
        /\ \/ shards' \in {shards, shards \ {c}} /\ late' = late
           \/ shards' = shards /\ late' = late \cup {c}
        /\ todo' = [todo EXCEPT ![t] = @ \ {c}]
    /\ UNCHANGED <<row, registered, pc, op, meta, seen, update, started,
                   removing, written, wiped, calm, cramped>>

\* MetadataStore::remove(): deletes whatever row is there by now.
RemoveRow(t) ==
    /\ pc[t] = "delete"
    /\ todo[t] = {}
    /\ row' = NoRow
    /\ Done(t)
    /\ UNCHANGED <<shards, registered, started, ghost>>

-----------------------------------------------------------------------------
\* probe_shard() of one listed location.  A probe that fails makes the shard
\* missing for repair(); rebalance_object() gives up on the first (Abandon).
ProbeShard(t) ==
    /\ pc[t] = "probe"
    /\ \E c \in todo[t] :
        /\ todo' = [todo EXCEPT ![t] = @ \ {c}]
        /\ \/ c \in shards /\ seen' = [seen EXCEPT ![t] = @ \cup {c}]
           \/ op[t] = "repair" /\ UNCHANGED seen
    /\ UNCHANGED <<store, pc, op, meta, update, started, ghost>>

\* repair(): something is missing and k shards survive; fetch them, decrypt
\* under the row's DEK, decode, check the checksum, encode again.
RepairFetch(t) ==
    /\ pc[t] = "probe"
    /\ op[t] = "repair"
    /\ todo[t] = {}
    /\ seen[t] # meta[t].locs
    /\ Decodable(seen[t] \cap shards, meta[t].content)
    /\ pc' = [pc EXCEPT ![t] = "place"]
    /\ UNCHANGED <<store, op, meta, seen, todo, update, started, ghost>>

\* Committing the rebuilt shards alone.
RepairPlaceRebuiltOnly(t) ==
    /\ pc[t] = "place"
    /\ \E healthy \in SUBSET registered :
        LET missing == Indices(meta[t].locs \ seen[t])
            used    == {c.node : c \in seen[t]}
        IN  \E target \in [missing -> healthy], first \in meta[t].locs :
              /\ IsRepairAssignment(Weight, target, missing, healthy, used, registered)
              /\ todo' = [todo EXCEPT ![t] = CopiesAt(target, missing, first.token)]
              /\ update' = [update EXCEPT ![t] = CopiesAt(target, missing, first.token)]
    /\ pc' = [pc EXCEPT ![t] = "apply"]
    /\ UNCHANGED <<store, op, meta, seen, started, ghost>>

\* list_nodes, their health, and a target per missing shard.  The version
\* token of the new keys is the one in the first location's key.
RepairPlace(t) ==
    /\ pc[t] = "place"
    /\ \E healthy \in SUBSET registered :
        LET missing == Indices(meta[t].locs \ seen[t])
            used    == {c.node : c \in seen[t]}
        IN  \E target \in [missing -> healthy], first \in meta[t].locs :
              /\ \A c \in meta[t].locs : first.index <= c.index
              /\ IsRepairAssignment(Weight, target, missing, healthy, used, registered)
              /\ LET new == CopiesAt(target, missing, first.token)
                 IN  /\ todo' = [todo EXCEPT ![t] = new]
                     /\ update' = [update EXCEPT ![t] = seen[t] \cup new]
              /\ cramped' = (cramped \/ Cardinality(healthy \ used) < Cardinality(missing))
    /\ pc' = [pc EXCEPT ![t] = "apply"]
    /\ UNCHANGED <<store, op, meta, seen, started, removing, written, late, wiped, calm>>

-----------------------------------------------------------------------------
\* A copy of the misplaced shard c on its intended node.
Moved(c, intended) ==
    [index |-> c.index, node |-> intended[c.index], token |-> c.token]

\* planned.resize(max_moves): the misplaced shards of lowest index.
Capped(misplaced, cap) ==
    {c \in misplaced :
        \/ cap = 0
        \/ Cardinality({d \in misplaced : d.index < c.index}) < cap}

\* rebalance_object(): list_nodes and their health, the safety checks, and
\* the plan: misplaced shards whose intended node is healthy, capped.  The
\* plan is kept as the copies to make; a dry run or an empty plan returns.
RebalanceGate(t) ==
    /\ pc[t] = "gate"
    /\ Cardinality(registered) >= Total
    /\ Cardinality(meta[t].locs) = Total
    /\ \E healthy \in SUBSET registered, cap \in MoveCaps,
          intended \in [Idx -> registered] :
        /\ Cardinality(healthy) >= Total
        /\ IsHrwPlacement(Weight, intended, registered)
        /\ LET misplaced == {c \in meta[t].locs : /\ c.node # intended[c.index]
                                                  /\ intended[c.index] \in healthy}
               plan == {Moved(c, intended) : c \in Capped(misplaced, cap)}
           IN  /\ plan # {}
               /\ update' = [update EXCEPT ![t] = plan]
    /\ todo' = [todo EXCEPT ![t] = meta[t].locs]
    /\ pc' = [pc EXCEPT ![t] = "probe"]
    /\ UNCHANGED <<store, op, meta, seen, started, ghost>>

\* Every shard answered its probe; fetch_raw_shard() of each planned source,
\* a source that cannot be read is dropped from the plan.
RebalanceCopy(t) ==
    /\ pc[t] = "probe"
    /\ op[t] = "rebalance"
    /\ todo[t] = {}
    /\ \E moves \in SUBSET update[t] :
        /\ moves # {}
        /\ \A c \in meta[t].locs : c.index \in Indices(moves) => c \in shards
        /\ todo' = [todo EXCEPT ![t] = moves]
        /\ update' = [update EXCEPT ![t] =
                        moves \cup {c \in meta[t].locs : c.index \notin Indices(moves)}]
    /\ pc' = [pc EXCEPT ![t] = "apply"]
    /\ UNCHANGED <<store, op, meta, seen, started, ghost>>

\* Committing without the version in the WHERE clause.
UnfencedCommit(t) ==
    /\ Applied(t)
    /\ op[t] \in {"repair", "rebalance"}
    /\ row' = IF row.version # 0 THEN NewRow(t) ELSE row
    /\ Done(t)
    /\ UNCHANGED <<shards, registered, started, ghost>>

\* MetadataStore::conditional_put() of repair() and rebalance_object(): the
\* loaded metadata with the new locations, if the row still has its version.
FencedCommit(t) ==
    /\ Applied(t)
    /\ op[t] \in {"repair", "rebalance"}
    /\ row' = IF row.version = meta[t].version THEN NewRow(t) ELSE row
    /\ Done(t)
    /\ UNCHANGED <<shards, registered, started, ghost>>

\* An early return, an exception, or a crash of the client.
Abandon(t) ==
    /\ pc[t] # "idle"
    /\ Done(t)
    /\ UNCHANGED <<store, started, ghost>>

-----------------------------------------------------------------------------
Step(t) ==
    \/ PutStart(t) \/ ApplyPut(t) \/ PutCommit(t)
    \/ ReadRow(t) \/ ReadLocations(t)
    \/ GetFetch(t)
    \/ RemoveShard(t) \/ RemoveRow(t)
    \/ ProbeShard(t) \/ RepairFetch(t) \/ RepairPlace(t)
    \/ RebalanceGate(t) \/ RebalanceCopy(t)
    \/ FencedCommit(t)
    \/ Abandon(t)

Next ==
    \/ RegisterNode
    \/ UnregisterNode
    \/ LoseDisk
    \/ LateDelete
    \/ \E t \in Threads : Step(t)

Spec == Init /\ [][Next]_vars

-----------------------------------------------------------------------------
\* Type correctness of the row, the nodes and every thread's locals.
TypeOK ==
    /\ row \in Row
    /\ shards \subseteq Copy
    /\ registered \subseteq Nodes
    /\ pc \in [Threads -> PCs]
    /\ op \in [Threads -> Ops \cup {"none"}]
    /\ meta \in [Threads -> Row]
    /\ seen \in [Threads -> SUBSET Copy]
    /\ todo \in [Threads -> SUBSET Copy]
    /\ update \in [Threads -> SUBSET Copy]
    /\ started \in Nat
    /\ late \subseteq Copy
    /\ removing \subseteq Nat
    /\ written \subseteq Nat
    /\ wiped \subseteq Nodes
    /\ calm \subseteq Threads
    /\ cramped \in BOOLEAN

\* Nothing but a remove() of its token or the loss of its node's disk takes a
\* copy away, a DELETE that arrives late included.
Accounted(c) == c \in shards \/ c.token \in removing \/ c.node \in wiped

\* The committed row never points at a shard that is not on its node for any
\* other reason: put, repair and rebalance_object all write the payloads before
\* the row, and nothing but remove() deletes any, whatever the threads
\* interleave, wherever an operation fails or crashes and however late the
\* DELETEs of an earlier version of the object arrive.
CommittedShardsStored ==
    \A c \in row.locs : Accounted(c)

\* A thread that loaded its metadata earlier still finds every shard it lists
\* after any number of puts, repairs and rebalances of the object: they leave
\* the superseded copies in place.
StaleReadersServed ==
    \A t \in Threads : \A c \in meta[t].locs : Accounted(c)

\* A repair or rebalance that commits leaves every shard of the object on the
\* node the row says, whatever was lost before the call and whoever else works
\* on the object during it, unless a disk is lost during the call or a
\* remove() has begun on the shard's version.
CommitsHeal ==
    [][\A t \in Threads :
        (op[t] \in {"repair", "rebalance"} /\ t \in calm /\ pc'[t] = "idle" /\ row' # row)
            => \A c \in row'.locs : c \in shards' \/ c.token \in removing']_vars

\* A put that commits has put its shards so that any M nodes can be lost right
\* after it: greedy exclusion keeps them on distinct nodes, every PUT has
\* landed, and no remove() or late DELETE of an earlier version took one away.
\* (Repairs and capped rebalances give this up: SurvivesMNodeLosses.)
PutsSurviveLosses ==
    [][\A t \in Threads, lost \in SUBSET Nodes :
        ( /\ op[t] = "put" /\ t \in calm
          /\ pc'[t] = "idle" /\ row' # row
          /\ Cardinality(lost) <= M )
            => Decodable({c \in row'.locs \cap shards' : c.node \notin lost},
                         row'.content)]_vars

\* A committed row has exactly one location per shard index: repair() and
\* rebalance_object() neither lose nor duplicate an index when they splice
\* new copies into the list they loaded.
RowComplete ==
    row.version # 0 => \A i \in Idx : \E c \in row.locs : \A d \in row.locs :
                            d.index = i <=> d = c

\* The locations of a row belong to the put whose checksum and wrapped DEK it
\* holds, so a get() that fetches k of them can decrypt them.
RowCoherent ==
    \A c \in row.locs : c.token = row.content

\* The version fence keeps that so until the first remove(): a repair or
\* rebalance that loaded a torn or overwritten row never commits it.
CoherentUntilRemove ==
    removing = {} => RowCoherent

\* "Any m nodes can be lost and every object still reconstructs": k shards of
\* the committed object are left whichever m nodes are taken away, until a
\* remove() begins on it, and unless a repair() had to fall back on the "last
\* resort" of its pool, for want of healthy nodes without a surviving shard.
SurvivesMNodeLosses ==
    \A lost \in SUBSET Nodes :
        ( /\ ~cramped /\ row.version # 0 /\ row.content \notin removing
          /\ Cardinality(lost) <= M )
            => Decodable({c \in row.locs \cap shards : c.node \notin lost}, row.content)

\* What does hold until the first remove(), at any moment and in the middle of
\* every put, repair and rebalance: k shards of the committed object are left
\* whichever nodes are taken away, as long as no more than M of its shards are
\* listed on those and on nodes that have lost a disk.
SurvivesMShardLosses ==
    \A lost \in SUBSET Nodes :
        ( /\ removing = {} /\ row.version # 0
          /\ Cardinality({c \in row.locs : c.node \in lost \cup wiped}) <= M )
            => Decodable({c \in row.locs \cap shards : c.node \notin lost}, row.content)

\* Until the first remove(), a repair or rebalance that commits has built on
\* the very row it replaces, though it read the row in two statements and long
\* ago: no shard moved, rebuilt or overwritten meanwhile by another thread is
\* listed at its old place again.
NoLostUpdates ==
    [][\A t \in Threads :
        (op[t] \in {"repair", "rebalance"} /\ removing = {} /\ pc'[t] = "idle" /\ row' # row)
            => meta[t] = row]_vars

\* "repair never silently overwrites a concurrent mutation's metadata": the
\* object's content changes only to that of a put that had not committed, or
\* to nothing.  A repair or rebalance never brings an older put back.
NoSilentOverwrite ==
    [][row'.content # row.content => row'.content = 0 \/ row'.content \notin written]_vars

\* What the client promises of one object until a remove() begins on it: a
\* register of whole puts.
Register == INSTANCE ObjectRegister WITH
    value   <- IF removing = {} THEN row.content ELSE 0,
    written <- IF removing = {} THEN written ELSE {}

\* Probes, repairs, rebalances, crashes and half-done puts are invisible in
\* the object's content; each put takes effect once, at its metadata commit.
ImplementsRegister == Register!Spec
=============================================================================
