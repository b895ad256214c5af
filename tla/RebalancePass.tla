--------------------------- MODULE RebalancePass ---------------------------
(***************************************************************************)
(* StorageClient::rebalance(): passes over the catalog that move shards    *)
(* towards their HRW-intended nodes within a budget, while nodes join,     *)
(* leave, go down and come back and objects are overwritten and removed.   *)
(*                                                                         *)
(* rebalance_object() is two steps here, the assessment with the metadata  *)
(* it loads and the copy with its fenced commit; StorageClient has its     *)
(* single requests.  A shard is identified with its location.  An object   *)
(* that was removed is not put again.                                      *)
(***************************************************************************)
EXTENDS Placement, Sequences

CONSTANTS Ids,            \* the object ids in the order of list()
          WeightOf,       \* hrw_weight of each object
          Passes,         \* concurrent POST /admin/rebalance requests
          Scopes,         \* records [max_objects, max_moves, dry_run, object_ids]
          Memberships,    \* the nodes tables it may start from
          Failing,        \* the nodes that may be down
          MaxChanges      \* bound on what happens around the passes

Objects == {Ids[i] : i \in DOMAIN Ids}

ASSUME PassAssumption ==
    /\ Ids \in Seq(Nat)
    /\ WeightOf \in [Objects -> Weights]
    /\ \A s \in Scopes : /\ s.max_objects \in Nat /\ s.max_moves \in Nat
                         /\ s.dry_run \in BOOLEAN
                         /\ s.object_ids \in Seq(Objects)
    /\ Memberships \subseteq SUBSET Nodes
    /\ \A e \in Memberships : Cardinality(e) >= Total
    /\ Failing \subseteq Nodes
    /\ MaxChanges \in Nat

VARIABLES
    registered, down,   \* the nodes table, the nodes that do not answer
    locs, version,      \* per object: its row; version 0 is no row
    pc,                 \* per pass: "idle", "loop" or "copy"
    scope,              \* per pass: its RebalanceScope
    queue,              \* per pass: the places in its list still to visit
    remaining,          \* per pass: remaining_moves
    report,             \* per pass: its RebalanceReport
    job,                \* per pass: the object at hand and its planned moves
    relocated,          \* history, per pass: locations its commits changed
    changes             \* what happened around the passes so far

catalog == <<locs, version>>
cluster == <<registered, down>>
passvars == <<pc, scope, queue, remaining, report, job, relocated>>
vars == <<cluster, catalog, passvars, changes>>

Outcomes == {"Balanced", "Moved", "DryRun", "SkippedDegraded", "SkippedUnsafe",
             "SkippedConflict", "SkippedNotFound", "Errored"}

NoReport == [scanned |-> 0, results |-> [s \in Outcomes |-> 0], shards_moved |-> 0]
NoScope == [max_objects |-> 0, max_moves |-> 0, dry_run |-> FALSE, object_ids |-> <<>>]
NoJob == [object |-> 0, version |-> 0, from |-> <<>>, moves |-> {}, to |-> <<>>]

\* Placement by position in the list of nodes instead.
PlacementsModulo ==
    [o \in Objects |-> [eligible \in {e \in SUBSET Nodes : Cardinality(e) >= Total} |->
        [i \in Idx |-> CHOOSE n \in eligible :
            Cardinality({m \in eligible : m < n}) = (o + i) % Cardinality(eligible)]]]

\* The HRW placement of every object over every membership that has one.
Placements ==
    [o \in Objects |-> [eligible \in {e \in SUBSET Nodes : Cardinality(e) >= Total} |->
        hrw_intended_nodes(WeightOf[o], eligible)]]

Intended(o) == Placements[o][registered]

\* The objects were put when `before` was the membership; since then it may
\* have changed and a node have failed.
Init ==
    /\ \E before \in Memberships :
        locs = [o \in Objects |-> Placements[o][before]]
    /\ registered \in Memberships
    /\ down \in {{}} \cup {{n} : n \in Failing}
    /\ version = [o \in Objects |-> 1]
    /\ pc = [p \in Passes |-> "idle"]
    /\ scope = [p \in Passes |-> NoScope]
    /\ queue = [p \in Passes |-> {}]
    /\ remaining = [p \in Passes |-> 0]
    /\ report = [p \in Passes |-> NoReport]
    /\ job = [p \in Passes |-> NoJob]
    /\ relocated = [p \in Passes |-> 0]
    /\ changes = 0

-----------------------------------------------------------------------------
\* The surroundings: membership, outages, and other callers of the client.
Change ==
    /\ changes < MaxChanges
    /\ changes' = changes + 1
    /\ UNCHANGED passvars

Register ==
    /\ Change
    /\ \E n \in Nodes \ registered : registered' = registered \cup {n}
    /\ UNCHANGED <<down, catalog>>

Unregister ==
    /\ Change
    /\ \E n \in registered : registered' = registered \ {n}
    /\ UNCHANGED <<down, catalog>>

GoDown ==
    /\ Change
    /\ \E n \in Failing \ down : down' = down \cup {n}
    /\ UNCHANGED <<registered, catalog>>

ComeBack ==
    /\ Change
    /\ \E n \in down : down' = down \ {n}
    /\ UNCHANGED <<registered, catalog>>

\* put() over an existing object: its shards are on their HRW nodes again.
Overwrite ==
    /\ Change
    /\ Cardinality(registered) >= Total
    /\ \E o \in Objects :
        /\ version[o] # 0
        /\ \A i \in Idx : Intended(o)[i] \notin down
        /\ version' = [version EXCEPT ![o] = @ + 1]
        /\ locs' = [locs EXCEPT ![o] = Intended(o)]
    /\ UNCHANGED cluster

Remove ==
    /\ Change
    /\ \E o \in Objects : version[o] # 0 /\ version' = [version EXCEPT ![o] = 0]
    /\ UNCHANGED <<cluster, locs>>

-----------------------------------------------------------------------------
\* The list a pass goes through: the named objects, or the catalog.
Listed(s) == IF s.object_ids # <<>> THEN s.object_ids ELSE Ids

\* rebalance() resolves its object set, without the objects that are not in
\* the catalog unless they were named, and starts with the full budget.
Start(p, s) ==
    /\ pc[p] = "idle"
    /\ scope' = [scope EXCEPT ![p] = s]
    /\ queue' = [queue EXCEPT ![p] =
                    {i \in DOMAIN Listed(s) : s.object_ids # <<>> \/ version[Ids[i]] # 0}]
    /\ remaining' = [remaining EXCEPT ![p] = s.max_moves]
    /\ pc' = [pc EXCEPT ![p] = "loop"]
    /\ UNCHANGED <<cluster, catalog, report, job, relocated, changes>>

\* The loop condition and its two breaks.
Exhausted(p) ==
    \/ queue[p] = {}
    \/ scope[p].max_objects > 0 /\ report[p].scanned >= scope[p].max_objects
    \/ scope[p].max_moves > 0 /\ remaining[p] = 0

\* The report is returned, and the locals are gone.
Finish(p) ==
    /\ pc[p] = "loop"
    /\ Exhausted(p)
    /\ pc' = [pc EXCEPT ![p] = "idle"]
    /\ scope' = [scope EXCEPT ![p] = NoScope]
    /\ queue' = [queue EXCEPT ![p] = {}]
    /\ remaining' = [remaining EXCEPT ![p] = 0]
    /\ report' = [report EXCEPT ![p] = NoReport]
    /\ relocated' = [relocated EXCEPT ![p] = 0]
    /\ UNCHANGED <<cluster, catalog, job, changes>>

\* planned.resize(max_moves) of the misplaced shards with a healthy target.
Plan(o, cap) ==
    LET movable == {i \in Idx : locs[o][i] # Intended(o)[i] /\ Intended(o)[i] \notin down}
    IN  {i \in movable : cap = 0 \/ Cardinality({j \in movable : j < i}) < cap}

\* What rebalance_object() finds before it copies: a reason to return, or
\* "Copy".
Assessment(o, cap, dry_run) ==
    CASE version[o] = 0                             -> "SkippedNotFound"
      [] version[o] # 0
         /\ Cardinality(registered \ down) < Total  -> "SkippedUnsafe"
      [] version[o] # 0
         /\ Cardinality(registered \ down) >= Total
         /\ \E i \in Idx : locs[o][i] \in down      -> "SkippedDegraded"
      [] OTHER -> IF Plan(o, cap) = {} THEN "Balanced"
                  ELSE IF dry_run THEN "DryRun"
                  ELSE "Copy"

\* One result in the report.
Counted(r, status, moved) ==
    [scanned |-> r.scanned,
     results |-> [r.results EXCEPT ![status] = @ + 1],
     shards_moved |-> r.shards_moved + moved]

\* The metadata of o with its moves planned.
Loaded(o, cap) ==
    [object |-> o, version |-> version[o], from |-> locs[o],
     moves |-> Plan(o, cap), to |-> Intended(o)]

\* Charging the budget for objects that are looked at.
VisitCharging(p) ==
    /\ pc[p] = "loop"
    /\ ~Exhausted(p)
    /\ \E at \in queue[p] :
        /\ \A other \in queue[p] : at <= other
        /\ queue' = [queue EXCEPT ![p] = @ \ {at}]
        /\ LET o      == Listed(scope[p])[at]
               begun  == [report[p] EXCEPT !.scanned = @ + 1]
               status == Assessment(o, remaining[p], scope[p].dry_run)
           IN  IF status = "Copy"
               THEN /\ report' = [report EXCEPT ![p] = begun]
                    /\ job' = [job EXCEPT ![p] = Loaded(o, remaining[p])]
                    /\ pc' = [pc EXCEPT ![p] = "copy"]
                    /\ UNCHANGED remaining
               ELSE /\ report' = [report EXCEPT ![p] = Counted(begun, status, 0)]
                    /\ remaining' = [remaining EXCEPT ![p] = IF @ > 0 THEN @ - 1 ELSE 0]
                    /\ UNCHANGED <<job, pc>>
    /\ UNCHANGED <<cluster, catalog, scope, relocated, changes>>

\* One round of the loop, up to the copies.  The object may be not found only
\* because it was named, or removed after list().
Visit(p) ==
    /\ pc[p] = "loop"
    /\ ~Exhausted(p)
    /\ \E at \in queue[p] :
        /\ \A other \in queue[p] : at <= other
        /\ queue' = [queue EXCEPT ![p] = @ \ {at}]
        /\ LET o      == Listed(scope[p])[at]
               begun  == [report[p] EXCEPT !.scanned = @ + 1]
               status == Assessment(o, remaining[p], scope[p].dry_run)
           IN  IF status = "Copy"
               THEN /\ report' = [report EXCEPT ![p] = begun]
                    /\ job' = [job EXCEPT ![p] = Loaded(o, remaining[p])]
                    /\ pc' = [pc EXCEPT ![p] = "copy"]
               ELSE /\ report' = [report EXCEPT ![p] = Counted(begun, status, 0)]
                    /\ UNCHANGED <<job, pc>>
    /\ UNCHANGED <<cluster, catalog, scope, remaining, relocated, changes>>

\* fetch_raw_shard(): the moves whose source answers.
Fetched(p) ==
    {i \in job[p].moves : job[p].from[i] \notin down}

\* rebalance_object() is over with this result; back to the loop.
Close(p, status, moved) ==
    /\ report' = [report EXCEPT ![p] = Counted(@, status, moved)]
    /\ job' = [job EXCEPT ![p] = NoJob]
    /\ pc' = [pc EXCEPT ![p] = "loop"]
    /\ UNCHANGED <<cluster, scope, queue, changes>>

\* No source can be read, because of its node or because a remove() deleted
\* the shards; or the PUT of a copy throws.
CopyFails(p) ==
    /\ pc[p] = "copy"
    /\ \/ /\ Fetched(p) = {} \/ version[job[p].object] = 0
          /\ Close(p, "SkippedDegraded", 0)
       \/ /\ \E i \in Fetched(p) : job[p].to[i] \in down
          /\ Close(p, "Errored", 0)
    /\ UNCHANGED <<catalog, remaining, relocated>>

Copied(p) ==
    /\ pc[p] = "copy"
    /\ Fetched(p) # {}
    /\ \A i \in Fetched(p) : job[p].to[i] \notin down

\* Committing to any row that is still there.
AnyVersion(p) == version[job[p].object] # 0

\* The version fence of conditional_put().
SameVersion(p) == version[job[p].object] = job[p].version

Conflict(p) ==
    /\ Copied(p)
    /\ ~SameVersion(p)
    /\ Close(p, "SkippedConflict", 0)
    /\ UNCHANGED <<catalog, remaining, relocated>>

\* Every object with the full budget.
Unpaid(p, moved) == remaining[p]

\* Subtracting without the minimum, for an unbounded pass too.
Unclamped(p, moved) == remaining[p] - moved

\* remaining_moves after a commit that moved so many shards.
Paid(p, moved) == IF moved > remaining[p] THEN 0 ELSE remaining[p] - moved

\* The loaded locations with the moved ones replaced are committed.
Commit(p) ==
    LET o     == job[p].object
        moved == Cardinality(Fetched(p))
        new   == [i \in Idx |-> IF i \in Fetched(p) THEN job[p].to[i] ELSE job[p].from[i]]
    IN  /\ Copied(p)
        /\ SameVersion(p)
        /\ version' = [version EXCEPT ![o] = @ + 1]
        /\ locs' = [locs EXCEPT ![o] = new]
        /\ relocated' = [relocated EXCEPT ![p] =
                            @ + Cardinality({i \in Idx : new[i] # locs[o][i]})]
        /\ remaining' = [remaining EXCEPT ![p] = Paid(p, moved)]
        /\ Close(p, "Moved", moved)

-----------------------------------------------------------------------------
Surroundings ==
    Register \/ Unregister \/ GoDown \/ ComeBack \/ Overwrite \/ Remove

PassStep(p) == Finish(p) \/ Visit(p) \/ CopyFails(p) \/ Conflict(p) \/ Commit(p)

Next ==
    \/ Surroundings
    \/ \E p \in Passes : PassStep(p) \/ \E s \in Scopes : Start(p, s)

\* A pass over the whole catalog that writes, with or without a move budget.
WholeCatalog ==
    {s \in Scopes : s.object_ids = <<>> /\ s.max_objects = 0 /\ ~s.dry_run}

\* A request thread runs on, and the operator asks for such a pass again and
\* again; which passes happen besides is open.
Fairness ==
    \A p \in Passes : /\ WF_vars(PassStep(p))
                       /\ SF_vars(\E s \in WholeCatalog : Start(p, s))

Spec == Init /\ [][Next]_vars /\ Fairness

-----------------------------------------------------------------------------
\* Type correctness of the cluster, the catalog and the passes.
TypeOK ==
    /\ registered \subseteq Nodes
    /\ down \subseteq Nodes
    /\ locs \in [Objects -> [Idx -> Nodes]]
    /\ version \in [Objects -> Nat]
    /\ pc \in [Passes -> {"idle", "loop", "copy"}]
    /\ scope \in [Passes -> Scopes \cup {NoScope}]
    /\ queue \in [Passes -> SUBSET Nat]
    /\ remaining \in [Passes -> Nat]
    /\ report \in [Passes -> [scanned : Nat, results : [Outcomes -> Nat], shards_moved : Nat]]
    /\ relocated \in [Passes -> Nat]

\* "Cap on the total number of shards relocated in the invocation": what the
\* commits of a pass changed in the catalog, over all objects and whatever
\* failed or conflicted between, is what its report says and never more than
\* max_moves; a dry run changed nothing.
BudgetHolds ==
    \A p \in Passes :
        /\ relocated[p] = report[p].shards_moved
        /\ scope[p].max_moves > 0 => relocated[p] <= scope[p].max_moves
        /\ scope[p].dry_run => relocated[p] = 0

Misplaced(o) == {i \in Idx : locs[o][i] # Intended(o)[i]}

\* A commit never undoes a placement: with the membership it was planned for,
\* fewer shards are misplaced after it, also when other passes, overwrites and
\* removals ran since the object was loaded.
CommitsImprove ==
    [][\A p \in Passes, o \in Objects :
        ( /\ job[p].object = o /\ job'[p].object # o
          /\ locs'[o] # locs[o]
          /\ Cardinality(registered) >= Total
          /\ job[p].to = Intended(o) )
            => Cardinality(Misplaced(o)') < Cardinality(Misplaced(o))]_vars

\* A shard in its place stays there: while the membership stays, and no pass
\* holds a plan for another one, nothing that happens to an object displaces a
\* shard of it, a commit of locations that were loaded long ago included.
SettlingIsMonotone ==
    [][\A o \in Objects :
        ( /\ locs'[o] # locs[o]
          /\ registered' = registered
          /\ Cardinality(registered) >= Total
          /\ \A p \in Passes : pc[p] = "copy" /\ job[p].object = o => job[p].to = Intended(o) )
            => Misplaced(o)' \subseteq Misplaced(o)]_vars

\* Nothing stands between object o and its intended placement.
Movable(o) ==
    /\ version[o] # 0
    /\ Cardinality(registered \ down) >= Total
    /\ \A i \in Idx : locs[o][i] \notin down /\ Intended(o)[i] \notin down

\* No starvation: an object that stays movable ends up on its intended nodes
\* and stays there, though every pass starts at the same end of the catalog
\* with a small budget and objects before it are degraded, fail or conflict.
MovableObjectsSettle ==
    \A o \in Objects :
        <>[]Movable(o) => <>[](Movable(o) /\ Misplaced(o) = {})

\* A node that joins or leaves exchanges at most one of an object's nodes, and
\* the departure of a node that holds none of its shards changes nothing:
\* greedy exclusion may reshuffle the shards, but only among those nodes.
ChurnIsBounded ==
    [][( /\ registered' # registered
         /\ Cardinality(registered) >= Total
         /\ Cardinality(registered') >= Total ) =>
        \A o \in Objects :
            /\ Cardinality(NodesOf(Intended(o))' \ NodesOf(Intended(o))) <= 1
            /\ (NodesOf(Intended(o)) \subseteq registered' /\ registered' \subseteq registered)
                  => Intended(o)' = Intended(o)]_vars
=============================================================================
