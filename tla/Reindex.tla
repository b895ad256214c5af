------------------------------ MODULE Reindex ------------------------------
(***************************************************************************)
(* StorageClient::reindex(): rebuilding the metadata row from the shards   *)
(* on the nodes, after a loss of the object tables and while the client's  *)
(* other operations go on.  Shards are self-describing: each carries its   *)
(* object's manifest, of which only written_at varies with the writer.     *)
(*                                                                         *)
(* This module composes with StorageClient: every step of it is a step     *)
(* here, with the manifests that travel along.  written_at is one client's *)
(* wall clock, which advances with every manifest built.                   *)
(***************************************************************************)
EXTENDS StorageClient

CONSTANT MaxLosses    \* bound on the losses of the object tables

ASSUME ReindexAssumption == MaxLosses \in Nat

VARIABLES
    clock,        \* now_unix_nanos()
    carried,      \* per thread: written_at of the payloads it is to PUT
    stamp,        \* written_at in the manifest of each stored shard
    phase,        \* of the running reindex()
    unscanned,    \* nodes whose keys are still to come
    found,        \* shard keys found, with their node
    pending,      \* version groups whose manifest is still to come
    best,         \* the object's entry of winners
    losses,       \* losses of the object tables so far
    candidates,   \* history: the groups whose manifest was read
    latest,       \* history: the content last committed
    held,         \* history: the put acknowledged last, if since the last loss
    precedes      \* history: <<a, b>> when put a had committed before b began

manifests == <<clock, carried, stamp>>
scan      == <<phase, unscanned, found, pending, best, candidates>>
past      == <<latest, held, precedes>>
allVars   == <<vars, manifests, scan, losses, past>>

\* An entry of winners: a version, its manifest's date, a location per index.
NoCandidate == [token |-> 0, at |-> 0, locs |-> {}]

ReindexInit ==
    /\ Init
    /\ clock = 0
    /\ carried = [t \in Threads |-> <<>>]
    /\ stamp = <<>>
    /\ phase = "idle"
    /\ unscanned = {}
    /\ found = {}
    /\ pending = {}
    /\ best = NoCandidate
    /\ losses = 0
    /\ candidates = {}
    /\ latest = 0
    /\ held = 0
    /\ precedes = {}

-----------------------------------------------------------------------------
\* put() and repair() date the manifests they are about to write.
BuildManifests(t) ==
    /\ \/ PutStart(t) /\ precedes' = precedes \cup (written \X {started'})
       \/ RepairPlace(t) /\ UNCHANGED precedes
    /\ clock' = clock + 1
    /\ carried' = [carried EXCEPT ![t] = [c \in todo'[t] |-> clock + 1]]
    /\ UNCHANGED <<stamp, latest, held>>

\* rebalance_object() copies the payload verbatim, with its manifest.
CopyManifests(t) ==
    /\ RebalanceCopy(t)
    /\ carried' = [carried EXCEPT ![t] =
          [c \in todo'[t] |-> stamp[CHOOSE s \in meta[t].locs : s.index = c.index]]]
    /\ UNCHANGED <<clock, stamp, past>>

\* A PUT replaces whatever the node had under the key.
StoreManifest(t) ==
    /\ ApplyPut(t)
    /\ LET new == todo[t] \ todo'[t]
       IN  stamp' = [c \in DOMAIN stamp \cup new |->
                        IF c \in new THEN carried[t][c] ELSE stamp[c]]
    /\ UNCHANGED <<clock, carried, past>>

\* The writes are over: committed, fenced off or given up.
DropManifests(t) ==
    /\ \/ PutCommit(t) /\ latest' = meta[t].content /\ held' = meta[t].content
       \/ /\ FencedCommit(t)
          /\ latest' = IF row' = row THEN latest ELSE row'.content
          /\ UNCHANGED held
       \/ Abandon(t) /\ UNCHANGED <<latest, held>>
    /\ carried' = [carried EXCEPT ![t] = <<>>]
    /\ UNCHANGED <<clock, stamp, precedes>>

RemoveObject(t) ==
    /\ RemoveRow(t)
    /\ latest' = 0
    /\ held' = 0
    /\ UNCHANGED <<manifests, precedes>>

WithoutManifests(t) ==
    /\ \/ ReadRow(t) \/ ReadLocations(t) \/ GetFetch(t) \/ RemoveShard(t)
       \/ ProbeShard(t) \/ RepairFetch(t) \/ RebalanceGate(t)
    /\ UNCHANGED <<manifests, past>>

ClientStep ==
    /\ \/ \E t \in Threads :
             \/ BuildManifests(t) \/ CopyManifests(t) \/ StoreManifest(t)
             \/ DropManifests(t) \/ RemoveObject(t) \/ WithoutManifests(t)
       \/ (RegisterNode \/ UnregisterNode \/ LateDelete) /\ UNCHANGED <<manifests, past>>
    /\ UNCHANGED <<scan, losses>>

\* The object tables are lost, the nodes table is not or is filled in again
\* before the rebuild.
LoseCatalog ==
    /\ phase = "idle"
    /\ losses < MaxLosses
    /\ row' = NoRow
    /\ losses' = losses + 1
    /\ held' = 0
    /\ UNCHANGED <<shards, registered, client, started, ghost, manifests, scan, latest, precedes>>

-----------------------------------------------------------------------------
\* list_nodes, and a scan of every node started.
ReindexStart ==
    /\ phase = "idle"
    /\ phase' = "scan"
    /\ unscanned' = registered
    /\ UNCHANGED <<vars, manifests, found, pending, best, losses, candidates, past>>

\* list_node_shards() of one node; no answer counts as no keys.
ScanNode ==
    /\ phase = "scan"
    /\ \E n \in unscanned :
        /\ unscanned' = unscanned \ {n}
        /\ found' \in {found, found \cup {c \in shards : c.node = n}}
    /\ UNCHANGED <<vars, manifests, phase, pending, best, losses, candidates, past>>

\* The keys are grouped by version.
GroupVersions ==
    /\ phase = "scan"
    /\ unscanned = {}
    /\ phase' = "select"
    /\ pending' = {c.token : c \in found}
    /\ UNCHANGED <<vars, manifests, unscanned, found, best, losses, candidates, past>>

ShardCount(candidate) == Cardinality(Indices(candidate.locs))

\* The newest version, whether or not it can be reconstructed.
NewestFirst(new, current) == new.at > current.at

\* The comparison of dates turned round.
OldestFirst(new, current) ==
    \/ ShardCount(new) >= K /\ ShardCount(current) < K
    \/ ShardCount(new) >= K /\ ShardCount(current) >= K /\ new.at < current.at

\* new replaces current: a version that can be reconstructed before one that
\* cannot, then the newest; if neither can, the one with more shards.
Better(new, current) ==
    LET n == ShardCount(new)
        c == ShardCount(current)
    IN  \/ n >= K /\ c < K
        \/ n >= K /\ c >= K /\ new.at > current.at
        \/ n < K /\ c < K /\ n > c
        \/ n < K /\ n = c /\ new.at > current.at

\* The last manifest read wins.
SelectLast ==
    /\ phase = "select"
    /\ \E token \in pending, rep \in found :
        /\ rep.token = token
        /\ rep \in shards
        /\ pending' = pending \ {token}
        /\ best' = [token |-> token, at |-> stamp[rep], locs |-> {c \in found : c.token = token}]
        /\ candidates' = candidates \cup {best'}
    /\ UNCHANGED <<vars, manifests, phase, unscanned, found, losses, past>>

\* Grouping by object alone: an index is taken from any version.
SelectUngrouped ==
    /\ phase = "select"
    /\ \E token \in pending, rep \in found \cap shards, at \in [Indices(found) -> found] :
        /\ rep.token = token
        /\ \A i \in Indices(found) : at[i].index = i
        /\ pending' = pending \ {token}
        /\ best' = [token |-> token, at |-> stamp[rep], locs |-> {at[i] : i \in Indices(found)}]
        /\ candidates' = candidates \cup {best'}
    /\ UNCHANGED <<vars, manifests, phase, unscanned, found, losses, past>>

\* fetch_shard_manifest() of one shard of a group, and the comparison with
\* the winner so far.  Groups come in the order of a hash map.  Where an
\* index was found on two nodes, the order of list_nodes, left open here,
\* decides which one is listed.
SelectVersion ==
    /\ phase = "select"
    /\ \E token \in pending :
        LET group == {c \in found : c.token = token}
        IN  /\ pending' = pending \ {token}
            /\ \/ \E rep \in group \cap shards, at \in [Indices(group) -> group] :
                    LET new == [token |-> token, at |-> stamp[rep],
                                locs |-> {at[i] : i \in Indices(group)}]
                    IN  /\ \A i \in Indices(group) : at[i].index = i
                        /\ candidates' = candidates \cup {new}
                        /\ best' = IF candidates = {} \/ Better(new, best) THEN new ELSE best
               \/ UNCHANGED <<best, candidates>>
    /\ UNCHANGED <<vars, manifests, phase, unscanned, found, losses, past>>

\* The call is over and its locals are gone.
ReindexDone ==
    /\ phase' = "idle"
    /\ unscanned' = {}
    /\ found' = {}
    /\ pending' = {}
    /\ best' = NoCandidate
    /\ candidates' = {}
    /\ UNCHANGED <<shards, registered, client, started, ghost, manifests, losses, past>>

\* Leaving the indices that were not found out of the list.
FoundOnly(candidate) == candidate.locs

\* Filling in one index too many.
LocationsPastEnd(candidate) ==
    candidate.locs \cup
        {[index |-> i, node |-> kUnknownNode, token |-> candidate.token] :
            i \in (0 .. Total) \ Indices(candidate.locs)}

\* Taking the indices that were not found to be where another shard is.
LocationsGuessed(candidate) ==
    candidate.locs \cup
        {[index |-> i, node |-> (CHOOSE c \in candidate.locs : TRUE).node,
          token |-> candidate.token] : i \in Idx \ Indices(candidate.locs)}

\* A location for every index, kUnknownNode for those not found.
FullLocations(candidate) ==
    candidate.locs \cup
        {[index |-> i, node |-> kUnknownNode, token |-> candidate.token] :
            i \in Idx \ Indices(candidate.locs)}

\* Writing the row with put()'s upsert.
InsertOverwriting ==
    /\ phase = "select"
    /\ pending = {}
    /\ candidates # {}
    /\ row' = [version |-> row.version + 1, content |-> best.token, locs |-> FullLocations(best)]
    /\ ReindexDone

\* MetadataStore::insert_if_absent(): a row that is there by now is left alone.
InsertIfAbsent ==
    /\ phase = "select"
    /\ pending = {}
    /\ candidates # {}
    /\ row' = IF row.version = 0
              THEN [version |-> 1, content |-> best.token, locs |-> FullLocations(best)]
              ELSE row
    /\ ReindexDone

\* Nothing to insert, an error of the store, or a crash.
ReindexAbandon ==
    /\ phase # "idle"
    /\ ReindexDone
    /\ UNCHANGED row

ReindexNext ==
    \/ ClientStep
    \/ LoseCatalog
    \/ ReindexStart \/ ScanNode \/ GroupVersions
    \/ SelectVersion \/ InsertIfAbsent \/ ReindexAbandon

ReindexSpec == ReindexInit /\ [][ReindexNext]_allVars

-----------------------------------------------------------------------------
\* Type correctness of what reindex() adds to the client.
ReindexTypeOK ==
    /\ TypeOK
    /\ clock \in Nat
    /\ \A t \in Threads : \A c \in DOMAIN carried[t] : c \in Copy /\ carried[t][c] \in Nat
    /\ \A c \in DOMAIN stamp : c \in Copy /\ stamp[c] \in Nat
    /\ phase \in {"idle", "scan", "select"}
    /\ unscanned \subseteq Nodes
    /\ found \subseteq Copy
    /\ pending \subseteq Nat
    /\ best \in [token : Nat, at : Nat, locs : SUBSET Copy]
    /\ losses \in Nat
    /\ latest \in Nat
    /\ held \in Nat
    /\ precedes \subseteq Nat \X Nat

\* "prefer the newest reconstructable version; if none is reconstructable, fall
\* back to the version with the most surviving shards, newest breaking ties":
\* whatever the order the groups come in, the winner of the pairwise
\* comparisons is the choice this policy makes among all of them.
WinnerIsBest ==
    LET readable == {c \in candidates : ShardCount(c) >= K}
    IN  candidates # {} =>
            /\ best \in candidates
            /\ readable # {} =>
                 /\ best \in readable
                 /\ \A c \in readable : c.at <= best.at
            /\ readable = {} =>
                 \A c \in candidates :
                    \/ ShardCount(c) < ShardCount(best)
                    \/ ShardCount(c) = ShardCount(best) /\ c.at <= best.at

\* A rebuild run against a live catalog does no harm: until the object tables
\* are lost or a remove() begins, its row still holds the locations of the put
\* whose checksum and DEK it has, though reindex() may insert the shards of a
\* put that has not committed yet and repairs go on from there.
CoherentUntilLoss ==
    removing = {} /\ losses = 0 => RowCoherent

\* The catalog never lies about where shards are, as long as the nodes keep
\* theirs, as they do in this module: a location names a node that
\* has the shard, or kUnknownNode, or a remove() has begun on that version,
\* also where a rebuild scanned beside puts, repairs and rebalances whose
\* shards were only partly written, or that went on from a rebuilt row.
LocationsAreTrue ==
    \A c \in row.locs : c \in shards \/ c.node = kUnknownNode \/ c.token \in removing

\* A rebuild of a live catalog brings no overwritten version back: until the
\* tables are lost or a remove() begins, the content changes only to that of a
\* put that has not committed, however long ago reindex() scanned the nodes.
NoRevival ==
    [][ removing' = {} /\ losses' = 0 /\ row'.content # row.content
            => row'.content \notin written ]_allVars

\* The running reindex() inserts a row in this step.
Inserts == phase = "select" /\ phase' = "idle" /\ row' # row

\* A version that k shards were found of is never passed over for one that
\* cannot be read: the rebuilt row decodes, unless a remove() is deleting it.
RecoveredReadable ==
    [][ Inserts /\ (\E c \in candidates : ShardCount(c) >= K)
            => \/ Decodable(row'.locs \cap shards, row'.content)
               \/ row'.content \in removing ]_allVars

\* "a reindex never clobbers a live or newer catalog entry": a put that was
\* acknowledged after the tables were lost, or before they ever were, is the
\* object's row until another put, a remove() or a loss ends it, though the
\* rebuild may have scanned the nodes before it and chosen an older version.
AcknowledgedPutsStay ==
    held # 0 => row.content = held

\* "restores the most recent valid data rather than resurrecting a stale
\* overwritten version": a rebuild that found k shards of the put committed
\* last, and its manifest, does not go back to a put that was over when that
\* one began.  (Of two puts that overlapped it restores the one that began
\* last, which need not be the one that committed last.)
RestoresNewest ==
    [][ Inserts /\ (\E c \in candidates : c.token = latest /\ ShardCount(c) >= K)
            => <<row'.content, latest>> \notin precedes ]_allVars
=============================================================================
