# A TLA+ model of PQDOS

PQDOS is an erasure-coded, encrypted object store. A client library
(`StorageClient`) splits an object into k data and m parity shards, encrypts
each under a fresh data key (DEK), wraps the DEK under an ML-KEM key (KEK), puts
the shards on k + m storage nodes over HTTP and commits one metadata row in
PostgreSQL. This directory holds TLA+ modules of its core, the TLC
configurations that check them, and TLAPS proofs. `PROJECT.json` maps each
definition to the source lines it models, and lists runs, findings, hazards and
theorems.

## 1. Inventory

| Component | State | Operations | Interacts with | What is hard | What makes it correct |
|---|---|---|---|---|---|
| `StorageClient` object operations | none of its own between calls; per call: loaded metadata, probe results, planned placement | `put`, `get`, `remove`, `repair`, `rebalance_object`, `list`, `health` | catalog (SQL), nodes (HTTP), key ring | many threads and clients, no lock per object, only a version fence; any request may fail, the client may crash between any two | a committed location has its shard; a row is complete and of one version; content changes only by whole puts; m nodes can be lost |
| HRW placement (`ShardTransport`) | none | `hrw_intended_nodes`, `placement_strategy` | put, repair, rebalance | greedy exclusion, ties, changing membership | k + m distinct nodes, a function of object and membership |
| Shard transport | one HTTP client per thread and node | PUT, GET, DELETE, list, probe | nodes | parallel requests, partial success, requests applied after their timeout | all PUTs answered before success is reported |
| Metadata catalog (`MetadataStore`) | `object_metadata`, `object_shard_locations`, `nodes` | `put` (upsert, version + 1), `get` (two statements), `conditional_put`, `insert_if_absent`, `remove`, `list`, node registration | client | READ COMMITTED isolation; version restarts at 1 after a remove | the fence rejects a stale commit |
| Connection pool | free list, mutex, condition variable | `acquire`, `release` | every catalog call | lost wakeups, leaks, starvation | exclusive checkout, nothing leaks, every call returns |
| Key ring (`rotate`, keystore) | `kek_ring_`, `active_kek_id_`, `kek_mu_`, the keystore file | start-up load, `rotate`, wrap, unwrap | put, get, repair | file truncated in place, save after activation, crash | a committed object's KEK is on disk before anything depends on it |
| Catalog rebuild (`reindex`) | scan results, version groups, winners | scan, group, select, insert | nodes, catalog, concurrent operations | unordered answers, missing nodes, stale versions, running puts | the newest version that can be read is restored, and nothing live is overwritten |
| Rebalance pass (`rebalance`) | budgets, report | loop over objects | `rebalance_object`, other passes | stale plans, partial moves, every pass starts at the same end | the move budget holds, no commit undoes a placement, every movable object settles |
| Erasure codec | none | `encode`, `decode` | put, get, repair; ISA-L | padding, wrapping checks, singular matrices | an object comes back from any k shards, byte for byte |
| Crypto | none | AES-GCM, ML-KEM | put, get, repair; Botan | key lifetime (see key ring) | a shard opens only under its own DEK |
| Storage node | LMDB key space | `put`, `get`, `remove`, `list_locations` | client | lost disks, map size | each request is one transaction |
| HTTP servers | none | routes | `StorageClient` | 64-bit numbers narrowed to 32 | only specs the codec can carry get through |
| Metrics, executables | a vector of timings / none | | | | |

The hazards this gives rise to are in `PROJECT.json`, each at its line with the
properties that would catch it.

## 2. Modules

| Module | Models | Extends |
|---|---|---|
| `Placement` | HRW placement and the target assignment of `repair` | |
| `StorageClient` | put, get, remove, repair, rebalance_object on one object | `Placement` |
| `ObjectRegister` | abstract specification: the object is a register of whole puts | |
| `Reindex` | the rebuild, composed with every step of `StorageClient` | `StorageClient` |
| `RebalancePass` | `rebalance()` over several objects, several passes at once | `Placement` |
| `ErasureCodec` | `encode` and `decode` over GF(2^8) | |
| `PutRequest` | a PUT request through validation and encoding, then the loss of shards and a get | `ErasureCodec` |
| `KekRing` | start-up, rotation, wrapping, keystore file, crashes | |
| `ConnectionPool` | `acquire` / `release` | |
| `MC*` | finite instances | the above |
| `PlacementProofs`, `StorageClientProofs`, `RepairProofs`, `ReindexProofs`, `RebalancePassProofs`, `PutRequestProofs`, `KekRingProofs`, `ConnectionPoolProofs` | inductive invariants and theorems | the above, `TLAPS` |

Some modules hold, next to a definition, a variant with a plausible bug in it
(`UnfencedCommit`, `VisitCharging`, `PutChecksNarrow`, ...). No specification uses
them; `PROJECT.json` lists which property each of them violates when it takes the
place of its original, which shows that the property depends on that code.

### StorageClient and Placement

State: `row` is the object's `object_metadata` row with its
`object_shard_locations`; `shards` the shard copies on all nodes; `registered`
the `nodes` table. Each thread has the locals of one call: `meta` (the
`ObjectMetadata` it loaded, or is building), `seen` (probes that answered), `todo`
(copies still to probe, PUT or DELETE), `update` (the locations to commit). `late`
is the set of DELETEs that timed out and may still be applied. `removing`,
`written`, `wiped`, `calm` and `cramped` are history for the properties: the tokens
a remove has begun on, the tokens committed, the nodes that lost a disk, the threads
whose call no such loss fell into, and whether a repair ever had fewer unused healthy
nodes than shards to place, so that co-locating two was its documented last resort. A copy
is a record of shard index, node and version token, the parts of
`node/object/token/index`. The token of a put stands for everything that belongs
to that put: payload, DEK, checksum.

| Actions | Code |
|---|---|
| `PutStart`, `ApplyPut`, `PutCommit` | `put()`: validation to placement; each shard PUT; `MetadataStore::put` |
| `ReadRow`, `ReadLocations` | the two statements of `MetadataStore::get` |
| `GetFetch` | `get()` fetches, decrypts, decodes, verifies |
| `RemoveShard`, `LateDelete`, `RemoveRow` | `remove()`: one best-effort DELETE at a time (applied, lost, or applied later), then the row |
| `ProbeShard`, `RepairFetch`, `RepairPlace`, `ApplyPut`, `FencedCommit` | `repair()` |
| `RebalanceGate`, `ProbeShard`, `RebalanceCopy`, `ApplyPut`, `FencedCommit` | `rebalance_object()` |
| `RegisterNode`, `UnregisterNode` | node administration |
| `LoseDisk` | a storage node loses its disk and comes back empty |
| `Abandon` | every early return and exception, and a crash of the client |

What is abstracted:

- *One object.* Rows, shard keys and the fence are per object id, and no
  operation reads another object's state.
- *One code (k, m)* for all puts of the object; k and m are constants.
- *Weights.* A table of any naturals replaces the FNV-1a hash; the operators of
  `Placement` take it as an argument, `Weight` here, one per object in
  `RebalancePass`. Node addresses are numbers whose order is the string order that
  breaks ties.
- *Failures are per request.* There is no up/down state of nodes: a probe, a
  health check or a fetch may fail at any time. A PUT that is never answered is a
  PUT that landed followed by `Abandon`, or `Abandon` alone. A PUT applied after
  its client gave up adds a copy of a token no row lists, or one that is there
  already; a slow thread that PUTs and then abandons does the same.
- *Fetches are one step* per phase: `GetFetch` and `RepairFetch` find k shards at
  one moment. Probes, PUTs and DELETEs are separate steps.
- The order of the fallback pool inside `repair()` is `list_nodes` order; it is
  left open, which allows more behaviours.
- Version 0 stands for "no row", so that the upsert is `version + 1` in both
  cases and the restart of versions after a remove is kept.

### Reindex

Every step of `StorageClient` is a step here with the manifests' dates along:
`put` and `repair` date them from the clock (`BuildManifests`), `rebalance_object`
copies them (`CopyManifests`), a PUT stores them (`StoreManifest`).
`LoseCatalog` empties the object tables (at most `MaxLosses` times, not during a
rebuild; the `nodes` table stays or is filled in again). The rebuild is
`ReindexStart`, a `ScanNode` per node which may give nothing, `GroupVersions`, a
`SelectVersion` per group in any order, and `InsertIfAbsent`.
`written_at` is the clock of one client, which grows with every manifest built;
clocks of several clients that disagree are outside the model. Locations that were not
found name `kUnknownNode`, whose requests always fail.
`candidates`, `latest`, `held` and `precedes` are history variables for the
properties: the versions whose manifest was read, the content committed last, the put
acknowledged last unless a remove or a loss of the tables came after it, and the pairs
of puts of which one had committed before the other began.

The rebuild runs have `Fragile = {}`: without lost disks a missing shard is a node
that does not answer the scan.

### RebalancePass

State: the `nodes` table and the nodes that are down; per object its locations and
version; per pass the `RebalanceScope`, the places of the list still to visit,
`remaining_moves`, the `RebalanceReport` and the object at hand with its loaded
version and planned moves. `relocated` is history: what the commits of the pass
really changed in the catalog.

| Actions | Code |
|---|---|
| `Start` | `rebalance()` resolves the object set |
| `Visit` | one round of the loop: `rebalance_object()` up to its copies, or an early result |
| `CopyFails`, `Conflict`, `Commit` | the rest of `rebalance_object()` |
| `Finish` | the breaks of the loop, the report is returned |
| `Register`, `Unregister`, `GoDown`, `ComeBack`, `Overwrite`, `Remove` | what happens around a pass, at most `MaxChanges` times |

The single requests of `rebalance_object()` are in `StorageClient`. Here it is two
steps, with everything else possible between them. Node failures are a state
(`down`) because the liveness property is about objects that stay movable.
`Placements` tabulates the HRW placement of every object over every membership.

### ErasureCodec and PutRequest

`encode` and `decode` are translated with their checks; the routines they call in
ISA-L (`gf_gen_rs_matrix`, `gf_invert_matrix`, addition and multiplication) are external
definitions with the real arithmetic over GF(2^8), because which survivors decode
depends on the matrix. `PutRequest` leads a request through the PUT route
(`ParseRequest` narrows k and m to 32 bits, so the properties speak of the narrowed values), the checks of `put()` (`Validate`, with
the sum that wraps at 32 bits, the product that wraps at 64, and the sum that does
not), `Encode`, and then loses shards one after another (`LoseShard`) down to k - 1.

The word sizes are constants. TLC's integers have 32 bits, so the run scales them
down: `Word32 = 512`, `Word64 = 512 * 512`, `IntMax = 255`. `WordAssumption` states
the relations the checks depend on, which 2^32, 2^64 and 2^31 - 1 have as well.

### KekRing

State: process, ring, active key, keystore file (absent, saved with a set of keys,
or torn), `kek_mu_` as writer and readers, per-thread steps, and the set of KEKs
under which objects are committed. `rotate()` is split where the code's order
matters: lock, activate, emplace, truncate, write. `Crash` may happen at every
step. `saves` records whether a save ever failed. Objects are never taken away
again, which only asks more of the ring. A crash between truncate and write
leaves a file from which the client refuses to start (`BootRefused`); the repository's
SYSTEM-EVALUATION.md acknowledges it. `RestartsUnlessSaving` says that this is the only
such moment: a client that is up and dies at any other step can start again with every
key in use.

### ConnectionPool

`pool_mu_`, the FIFO free list, and per thread the position in
`acquire`/`release`. `notify_one` is a step of its own after the unlock, as in the
code. Spurious wakeups happen, bounded together with the calls by `MaxEvents`.

## 3. Runs

Bounds are named constants: `MaxOps` (operations started), `MaxLosses` (of the
catalog), `MaxChanges` (around the passes), `MaxEvents` (calls and spurious
wakeups); the rest are the sizes of the sets.

| Run | Instance | Shows |
|---|---|---|
| `MCClientAll` | 2 threads, 3 nodes of which one joins and leaves and two may lose their disks, k = m = 1, 3 operations of all five kinds, move caps 0 and 1 | `TypeOK`, `CommittedShardsStored`, `StaleReadersServed`, `RowComplete`, `CoherentUntilRemove`, `CommitsHeal`, `PutsSurviveLosses`, `SurvivesMShardLosses`, `NoLostUpdates`, and the refinement `ImplementsRegister` |
| `MCReindex` | 3 nodes, k = 2, m = 1, 2 puts or removes, one loss | `ReindexTypeOK`, `WinnerIsBest`, `RowCoherent`, `AcknowledgedPutsStay`, `RecoveredReadable`, `RestoresNewest` |
| `MCReindexRepair` | 3 nodes, k = m = 1, 2 operations of put, get, repair, rebalance, one loss | `RowComplete`, `CoherentUntilLoss`, `LocationsAreTrue`, `NoRevival` |
| `MCRebalancePass` | 2 passes, 2 objects, 4 nodes, k = m = 1, four scopes (one move, one object, dry run, named objects with two moves), memberships of 3 and 4 nodes, one change | `TypeOK`, `BudgetHolds`, `CommitsImprove`, `SettlingIsMonotone`, `ChurnIsBounded`, `MovableObjectsSettle` |
| `MCPutRequest` | seven codes up to k = 8, m = 4 with objects of four lengths and every order of losing shards; about 2000 requests at the edges of the checks | `ComesBackIffKSurvive`, `AdmittedSpecsAreSound` |
| `MCKekRing` | 2 threads, 3 KEKs in use at once | `TypeOK`, `WrapFindsActiveKey`, `RecoverableUnlessSaveFails`, `WrappedKeysPersisted`, `RestartsUnlessSaving` |
| `MCConnectionPool` | 4 threads, 2 connections, 6 calls or spurious wakeups | `TypeOK`, `ExclusiveCheckout`, `NothingLeaks`, `NoLostWakeup`, `EveryCallReturns` |

Why the bounds are enough. Two threads give every pairwise race, and the second
can run several operations while the first is between two steps, as the ABA on the
version needs (put, repair, remove, put: four operations). One node more
than k + m, joining and leaving, makes shards misplaced; with the weights of the
MC modules a membership change shifts every shard by one, so every node is
contested by two shards. k = 2 is the smallest code for which a version can be
partly found and for which mixing shards of two versions matters; k = m = 1 keeps
the longer histories small. Two fragile nodes out of three let a repair run into
the loss of its source, of its target, and of both shards. For the rebuild two versions, one with fewer and one
with at least k shards found, are the cases of the selection. For the passes, two
at once over the same objects give stale plans, a budget of one on an object with
two misplaced shards gives partial moves, and one change is enough to fail, degrade
or conflict any single step (the initial states hold a second: the membership the
objects were put under, and a node that is down). For the codec the run covers each
side of each comparison, and lengths that end inside a shard, at its edge and
before the last one. For the pool,
two sleepers and two returns at once are the smallest instance in which a wakeup
could be lost to the wrong thread. What the theorems cover does not depend on
the bounds at all.

CHECK_DEADLOCK stays on everywhere: in `StorageClient` and `KekRing` a step is
always possible, a pass can always start, and `ConnectionPool` and `PutRequest`
state their legitimate ends (`Quiet`, `Finished`).

Runs that find a documented promise broken:

| Run | Property | What happens |
|---|---|---|
| `MCFenceAba` | `NoSilentOverwrite` | A repair loads version 1; the object is removed and put again, at version 1; the repair's `conditional_put` passes and restores the removed object's metadata over the new one. ADR-0006 excludes this. |
| `MCRepairColocate` | `SurvivesMNodeLosses` | After a node has joined, the HRW node of the missing shard already holds a surviving one; `repair` puts both there though it had an unused healthy node for every missing shard; repairs that had not (`cramped`) are exempt. With `rebalance` in place of `repair` the property fails as well: a move whose neighbour cannot move co-locates the two. |
| `MCReindexStale` | `RestoresNewest` | A repair that an overwriting put fences off has dated the old version's manifests after the new one's; a rebuild then restores the overwritten version. |
| `MCCodecSingular` | `ComesBackIffKSurvive` | With k = 6 and m = 5 the survivors 1, 3, 4, 6, 9, 10 have a singular decode matrix: ISA-L's `gf_gen_rs_matrix` does not give every selection an inverse, and the code admits all k + m up to 255. |
| `MCKekSaveFails` | `ObjectsRecoverable` | `rotate` activates the key before the save fails; the objects put under it are lost at the next restart. |

Three more disagreements with the documents have no run of their own.
ADR-0008 lines 80-83 say that a rebuild "restores the most recent valid data rather than
resurrecting a stale overwritten version", and lines 118-121 name clock skew across
writers as the exception. One client with one clock is enough: put 1 begins, put 2 begins
and commits, put 1 commits over it. Manifests are dated when a put begins
(StorageClient.cpp:326), so after a loss of the tables the rebuild takes put 2, found
whole like put 1, for the newer and restores what was overwritten. `MCReindex` has this
history: its `RestoresNewest`, which forbids going back to a put that was over when
the one committed last began, fails when it is restated with "is the put committed last,
or was never committed" as its conclusion.
ADR-0006 line 97 says of a get during a put that it "May read old or new metadata
(Postgres snapshot isolation)" and that "either version is self-consistent". The
two SELECTs of `MetadataStore::get` run under READ COMMITTED, so a put between them
gives the old DEK with the new locations; such a get throws. `MCClientAll` has this
step, and shows that until a remove the fence keeps it out of the row.
ADR-0009 lines 61-63 say that "adding or removing a node only changes the shards for
which that node would win or was winning". Under greedy exclusion the shards that the
displaced one displaces in turn change too. `ChurnIsBounded` is what holds: at most
one node of an object is exchanged, and a node that held nothing changes nothing.

Fairness.

- `ConnectionPool` assumes weak fairness of each thread's own steps once it has
  called: the OS runs a thread that can run, a mutex that is free is eventually
  granted, and a transaction ends, by success or error. Nothing is assumed about new
  calls or spurious wakeups. The number of calls is bounded, so `EveryCallReturns`
  says that a call returns once newcomers stop overtaking it;
  `std::condition_variable` and the code promise no more.
- `RebalancePass` assumes weak fairness of the steps of a pass (its request thread
  runs on) and strong fairness of starting a pass over the whole catalog that writes.
  The second is an assumption about the operator, who posts such requests again
  and again; the code has no scheduler. Passes with `max_objects` alone would not do:
  each begins at the same end of the catalog and reaches only its first objects.
- The object operations promise nothing to the caller under failures (each may
  throw), so they have no liveness property.

## 4. Proofs

All theorems hold for arbitrary nodes, threads, k, m, weights, key sets, requests
and numbers of operations; they assume only the named ASSUMEs of the modules
(`PlacementAssumption`, `ClientAssumption`, `ReindexAssumption`, `PassAssumption`,
`WordAssumption`, `RequestAssumption`, `KekAssumption`, `PoolAssumption`), which TLC
evaluates in the runs. Four theorems have a hypothesis of their own, given below with
the reason for it.

- `PlacementProofs`: facts about `hrw_intended_nodes` that the other proofs cite, and
  about the targets of `repair`.
  `HrwExists` is the code's comment "Guaranteed non-null": with k + m eligible nodes
  the greedy scan always finds one more, ties included. `HrwUnique`: the placement is
  a function of object and membership. `HrwDistinct`, `LossesLeaveK`: distinct nodes, so
  m lost ones leave k shards. `HrwChurn`: when a node joins, the nodes still free for
  shard i differ by one node in the two placements, for every i (`OffByOne`); the
  placements therefore differ by one node in the end. These are inductions over the shard
  index. The library's induction theorems cannot be instantiated here, so each one takes
  the least index at which the claim fails (`LeastNat`, from well-foundedness)
  and derives a contradiction from the one before. `RepairFindsTargets` is another:
  the fallback pool is there "so repair never fails when enough healthy nodes exist",
  and with as many healthy nodes as missing shards an assignment does exist.
  `RepairKeepsNodesApart` gives the conditions under which a repair does not co-locate
  two shards: the survivors are apart, none is on the HRW node of a missing shard
  (`NoneTaken`), and there are enough other healthy nodes. The finding
  `MCRepairColocate` is a case in which only the second fails. A row on its HRW
  nodes meets the first two under the membership it was placed for, so
  `RepairRestoresTolerance`: after its repair any m nodes can be lost again.
- `StorageClientProofs`
  - `TypeCorrect`: `TypeOK`, strengthened by which operation can be at which step
    (`OpAtPc`).
  - `CommittedShardsAreStored`, `StaleReadersAreServed`, from `StoredInv`. A commit
    copies `update` into the row, so the invariant has to say what `update` holds
    long before: what is not in `todo` any more is on a node or accounted for, and
    what a repair or rebalance keeps comes from metadata that was accounted for when
    loaded. It also says that a shard about to be deleted, now or late, is announced
    in `removing`.
  - `FenceKeepsRowCoherent`, `RefinesRegister`, from `FenceInv`: until the first
    remove begins, a loaded version never exceeds the row's, and a thread whose version
    equals the row's has the row's content and locations of that content. Versions
    are monotone only as long as no remove resets them, which is exactly what
    `MCFenceAba` shows to be needed. Once `removing` is not empty the invariant claims
    nothing more, and the mapped register stays at rest: a property of every
    behaviour's prefix up to the first remove.
  - `UpdatesAreNotLost` (`NoLostUpdates`) from `LoadedIsCurrent`: `FenceInv` speaks of
    content only, and a repair may lose another's move within one content. The
    invariant adds that a thread past its second SELECT whose version is the row's has
    exactly the row's locations. A read torn by a commit in between has the older
    version, and only remove brings a version back.
- `RepairProofs`
  - `RepairsHeal` (`CommitsHeal`) from `HealInv`: in a call without a lost disk, what
    the probes found and what was PUT is still on its node, or a remove has begun
    on it. `calm` makes that inductive while disks are lost around other calls.
  - `PutsAreDurable` (`PutsSurviveLosses`) from `PutInv`: the copies of a put under way
    are those of an HRW placement; what is no longer in `todo` is on its node, since a token
    is in no row, no loaded list and no DELETE before its put commits
    (`Known`). With `LossesLeaveK` any m nodes can then be lost. That this ends
    with the next repair or capped rebalance is what `MCRepairColocate` shows.
  - `ObjectsSurviveMShards` (`SurvivesMShardLosses`) is what holds throughout, from
    `ListInv`, `FenceInv` and the stored locations together: the row has k + m copies of
    one content (`FullMinusM`), each on its node unless that lost a disk, also while
    puts, repairs and moves are half done.
  - `RowsAreComplete` from `ListInv`: every list, loaded, planned or committed, has
    one copy per index, or is the empty list of a read torn by a remove, from which
    nothing can be committed; survivors and rebuilt shards split the indices between them.
- `ReindexProofs`
  - `ReindexTypeCorrect` from `ReindexInv` (every stored shard has a manifest date).
  - `ReindexPicksBest`: one round of the loop preserves `Unbeaten`, which needs that
    `Better` is irreflexive and that a winner's victories carry over to what beats
    it; an unbeaten winner is the one of the documented policy.
  - `RecoveredRowIsReadable` from `FoundInv` (what was found is still there unless a
    remove is deleting it).
  - `RebuiltRowsAreComplete` (`RowComplete`) from `CatalogInv`: the invariants of
    `RepairProofs` carry over, because a group has one location per index and
    `FullLocations` fills in exactly the others.
  - `RebuildIsHarmless` (`CoherentUntilLoss`): `FenceInv` survives a rebuild of a live
    catalog. A row that `insert_if_absent` adds has version 1 and is of one version,
    and as long as nothing was removed or lost no thread has loaded a version before it.
  - `RebuildsReviveNothing` (`NoRevival`) from `NothingWritten`: until a remove or a loss,
    an empty row means that no put has committed, so what `insert_if_absent` adds, from
    a scan however old, is not yet written.
  - `CatalogTellsTheTruth` (`LocationsAreTrue`) from `TruthInv`: what a scan found, and
    what a put, repair or rebalance has stored, is kept or announced in `removing`, also
    when the row it came from is gone. It needs no assumption on losses of the tables.
  - `RebuiltRowsAreCoherent` (`RowCoherent`), for `Ops` without `rebalance`, from
    `WholeVersions`. A version number that comes back lets a stale commit through, after a
    remove (`MCFenceAba`) and after a loss of the tables alike. A repair that gets through
    still commits one put: it has decoded its shards under the DEK it commits, and
    locations of another version do not open under it (`OneVersion`). A rebalance copies
    shards unopened, so only the fence keeps it from committing the DEK of one version
    with the locations of another.
  - `RebuildsRestoreNewest` (`RestoresNewest`), for `Ops` without `repair`: the dates of
    all manifests, stored, under way or read, are ordered as the tokens
    (`Chronological`); a put dates a new token later than all others, and a move
    copies the date of a shard of the same token. So the version chosen began no earlier
    than the last committed one, while a put that had committed before another began has
    the lower token (`PastInv`). `MCReindexStale` shows that `repair` has to be left out.
  - `RebuildsKeepAcknowledgedPuts` (`AcknowledgedPutsStay`), for `Ops` without `repair` and
    `rebalance`: a put that was acknowledged has left a row, and `insert_if_absent` leaves
    a row alone. It needs no bound on how old the scan is. A repair or rebalance that
    loaded its row before the loss is left out because its version comes round again.
- `RebalancePassProofs`
  - `BudgetIsKept` (`BudgetHolds`) from `BudgetInv`: what was relocated and what
    remains never exceed `max_moves` together, and a job plans no more than remains.
    The last needs that the `cap` lowest of a finite set of indices are at most
    `cap` many (`CapBounds`, by pigeonhole).
  - `EveryCommitImproves` (`CommitsImprove`): the fence makes the loaded locations
    the current ones, each move sets a misplaced shard right, and none is
    disturbed.
  - `SettledShardsStay` (`SettlingIsMonotone`): the same argument for every step. It is the
    safety half of `MovableObjectsSettle`: under a membership that stays, once no plan
    for an older one is under way, an object that has reached its placement keeps it.
  - `PassTypes` (`TypeOK`) from `RowsTyped`: what a job has loaded and what it means to
    write have a node for every index. That an overwrite stores such a thing at all is
    `HrwExists`.
  - `ChurnIsMinimal` (`ChurnIsBounded`) from `HrwChurn`, used in both directions.
- `PutRequestProofs`
  - `AdmittedAreSound` (`AdmittedSpecsAreSound`): the 32-bit sum of the limit check wraps,
    but the comparison with the number of nodes is made without wrapping, and there
    are fewer than 2^32 nodes (`RequestAssumption`); so a sum that passed both did not
    wrap. The 64-bit product is never larger than the true one.
  - `DataShardsSuffice`: layout, padding and cut agree for every object and shard size, so
    a get that finds all data shards returns the object whichever parity shards
    are missing. Its hypothesis says that `Failed`, which stands for an exception,
    is not a function. `TooFewShardsFail` is the "only if" half of
    `ComesBackIffKSurvive`.
- `KekRingProofs`: `RingTypeCorrect`; `WrapAlwaysFindsActiveKey` from `RingInv` (the lock discipline and
  where the active key may be missing); `WrappedKeysArePersisted` and
  `ObjectsAreRecoverable` from `DurableInv` (until a save fails, the keystore is the
  ring whenever no one rotates); `CrashesOutsideTheSaveAreSurvived`
  (`RestartsUnlessSaving`) from both, since the file is intact unless some thread is
  between truncation and write.
- `ConnectionPoolProofs`: `PoolTypeCorrect`; `CheckoutIsExclusive` from `PoolInv` (the
  free list has no duplicates and a thread holds a connection exactly between take and
  return); `PoolNeverDrains` (`NothingLeaks`) from `AllAccounted` (each connection is
  free or held); `WakeupsAreNotLost` (`NoLostWakeup`), which is inductive as it stands:
  the connections that are free never outnumber the threads that will take one or
  signal one, while anyone sleeps.

Only model-checked:

- `EveryCallReturns` and `MovableObjectsSettle`: liveness is out of TLAPS's reach here.
- `ComesBackIffKSurvive` when data shards are missing: it depends on which matrices over
  GF(2^8) are invertible. A theorem for all k and m would be false (`MCCodecSingular`).
- `SurvivesMNodeLosses`, `NoSilentOverwrite` and `ObjectsRecoverable` are checked only
  where they fail; `PutsSurviveLosses` and `SurvivesMShardLosses`, `NoLostUpdates` and
  `ImplementsRegister`, and `RecoverableUnlessSaveFails` are what holds instead.

## 5. Not modelled

- `list()` and `health()` (no state change), `init()`'s probe of the nodes, the schema
  migration of the catalog. What an operation returns to its caller, beyond the
  counters of `RebalanceReport`.
- Botan's cryptography: represented by "a shard opens only under its own DEK". Byte
  formats of rows, manifests and shards.
- The storage node's batch forms and LMDB's map size: the client sends single
  requests, each one transaction.
- The HTTP routes besides PUT and the rebalance scope (they map exceptions to status
  codes), metrics, executables and benchmarks.
- Broken database connections (a state of pqxx's); disagreement of the clocks of
  several clients; two client processes with one keystore file, which ADR-0006
  excludes.

## 6. Plan

Every invariant and action property of the passing runs, `ComesBackIffKSurvive`
excepted, is a theorem by now. What is left, in this order:

1. Results of operations: what `repair`, `remove` and `reindex` report against what
   they did, with the torn read of a removed object.
2. The storage node's batches and its map size as a module of its own.

The register cannot be extended to rebuilds of a live catalog as it stands: a rebuild may
insert a put's content before the put commits, another put may overwrite it, and then the
first commits, so that one put takes effect twice. `NoRevival` and `CoherentUntilLoss`
are what holds there.
