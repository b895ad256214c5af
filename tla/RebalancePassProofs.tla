------------------------ MODULE RebalancePassProofs ------------------------
(***************************************************************************)
(* The move budget of rebalance(), for any catalog, cluster, code and      *)
(* scopes and any number of concurrent passes and changes around them.     *)
(***************************************************************************)
EXTENDS RebalancePass, PlacementProofs, FiniteSetTheorems, TLAPS

\* The types the argument needs.
Numbers ==
    /\ version \in [Objects -> Nat]
    /\ locs = [o \in Objects |-> locs[o]]
    /\ pc \in [Passes -> {"idle", "loop", "copy"}]
    /\ scope \in [Passes -> Scopes \cup {NoScope}]
    /\ queue \in [Passes -> SUBSET Nat]
    /\ remaining \in [Passes -> Nat]
    /\ report \in [Passes -> [scanned : Nat, results : [Outcomes -> Nat], shards_moved : Nat]]
    /\ job = [p \in Passes |-> job[p]]
    /\ relocated \in [Passes -> Nat]

\* A pass visits places of its list only.
QueueInList ==
    \A p \in Passes : queue[p] \subseteq DOMAIN Listed(scope[p])

\* A planned job is on a listed object, moves only misplaced shards, and, as
\* long as the object's version is the one it loaded, starts from its row.
JobSound(p) ==
    /\ ~scope[p].dry_run
    /\ job[p].object \in Objects
    /\ job[p].version \in Nat \ {0}
    /\ version[job[p].object] = 0 \/ version[job[p].object] >= job[p].version
    /\ version[job[p].object] = job[p].version => locs[job[p].object] = job[p].from
    /\ job[p].moves \subseteq Idx
    /\ \A i \in job[p].moves : job[p].from[i] # job[p].to[i]
    /\ scope[p].max_moves > 0 => Cardinality(job[p].moves) <= remaining[p]

JobsSound == \A p \in Passes : pc[p] = "copy" => JobSound(p)

\* What was relocated and what may still be adds up to the budget.
Budgeted ==
    \A p \in Passes :
        /\ relocated[p] = report[p].shards_moved
        /\ scope[p].max_moves > 0 => relocated[p] + remaining[p] <= scope[p].max_moves
        /\ scope[p].dry_run => relocated[p] = 0
        /\ pc[p] = "idle" => relocated[p] = 0

\* The inductive invariant behind BudgetHolds.
BudgetInv == Numbers /\ QueueInList /\ JobsSound /\ Budgeted

LEMMA ScopeType ==
    ASSUME NEW s \in Scopes \cup {NoScope}
    PROVE  /\ s.max_moves \in Nat /\ s.max_objects \in Nat /\ s.dry_run \in BOOLEAN
           /\ s.object_ids \in Seq(Objects)
<1>1. CASE s \in Scopes
  BY <1>1, PassAssumption
<1>2. CASE s = NoScope
  <2>1. <<>> \in Seq(Objects) /\ 0 \in Nat /\ FALSE \in BOOLEAN
    OBVIOUS
  <2> QED BY <1>2, <2>1 DEF NoScope
<1> QED BY <1>1, <1>2

LEMMA ListedType ==
    ASSUME NEW s \in Scopes \cup {NoScope}, NEW i \in DOMAIN Listed(s)
    PROVE  i \in Nat /\ Listed(s)[i] \in Objects
<1>1. s.object_ids \in Seq(Objects)
  BY ScopeType
<1>2. CASE s.object_ids # <<>>
  BY <1>1, <1>2 DEF Listed
<1>3. CASE s.object_ids = <<>>
  BY <1>3, PassAssumption DEF Listed, Objects
<1> QED BY <1>2, <1>3

LEMMA IdxFinite == IsFiniteSet(Idx) /\ Idx \subseteq Int
<1>1. Total \in Int
  BY PlacementAssumption DEF Total
<1>2. 0 \in Int /\ Total - 1 \in Int
  BY <1>1
<1> QED BY <1>2, FS_Interval DEF Idx

\* planned.resize(max_moves): at most cap shards are left in the plan.
LEMMA CapBounds ==
    ASSUME NEW movable \in SUBSET Idx, NEW cap \in Nat \ {0}
    PROVE  Cardinality({i \in movable : cap = 0 \/ Cardinality({j \in movable : j < i}) < cap}) <= cap
<1> DEFINE Below(i) == {j \in movable : j < i}
           plan == {i \in movable : cap = 0 \/ Cardinality(Below(i)) < cap}
           rank == [i \in plan |-> Cardinality(Below(i))]
<1>1. IsFiniteSet(movable) /\ movable \subseteq Int
  BY IdxFinite, FS_Subset
<1>2. \A i \in movable : IsFiniteSet(Below(i)) /\ Cardinality(Below(i)) \in Nat
  <2> TAKE i \in movable
  <2>1. Below(i) \in SUBSET movable
    OBVIOUS
  <2> QED BY <1>1, <2>1, FS_Subset, FS_CardinalityType
<1>3. ASSUME NEW i \in movable, NEW k \in movable, i < k
      PROVE  Cardinality(Below(i)) < Cardinality(Below(k))
  <2>0. i \in Int /\ k \in Int /\ ~(i < i) /\ \A j \in movable : j \in Int
    BY <1>1
  <2>1. i \notin Below(i) /\ Below(i) \cup {i} \in SUBSET Below(k)
    <3>1. ASSUME NEW j \in movable, j < i PROVE j < k
      BY <1>3, <2>0, <3>1
    <3> QED BY <1>3, <2>0, <3>1
  <2>2. Cardinality(Below(i) \cup {i}) = Cardinality(Below(i)) + 1
    BY <1>2, <2>1, FS_AddElement
  <2>3. Cardinality(Below(i) \cup {i}) <= Cardinality(Below(k))
    BY <1>2, <2>1, FS_Subset
  <2> QED BY <1>2, <2>2, <2>3
<1>4. \A i, k \in plan : rank[i] = rank[k] => i = k
  <2> TAKE i, k \in plan
  <2>1. i \in movable /\ k \in movable /\ (i < k \/ k < i \/ i = k)
    BY <1>1
  <2>2. Cardinality(Below(i)) \in Nat /\ Cardinality(Below(k)) \in Nat
    BY <1>2, <2>1
  <2>3. i < k => Cardinality(Below(i)) < Cardinality(Below(k))
    BY <1>3, <2>1
  <2>4. k < i => Cardinality(Below(k)) < Cardinality(Below(i))
    BY <1>3, <2>1
  <2> QED BY <2>1, <2>2, <2>3, <2>4
<1>5. rank \in [plan -> 0 .. (cap - 1)]
  BY <1>2
<1>6. rank \in Injection(plan, 0 .. (cap - 1))
  BY <1>4, <1>5 DEF Injection, IsInjective
<1>7. IsFiniteSet(0 .. (cap - 1)) /\ Cardinality(0 .. (cap - 1)) = cap
  <2>1. 0 \in Int /\ cap - 1 \in Int /\ ~(0 > cap - 1) /\ (cap - 1) - 0 + 1 = cap
    OBVIOUS
  <2> QED BY <2>1, FS_Interval
<1>8. Cardinality(plan) <= Cardinality(0 .. (cap - 1))
  BY <1>6, <1>7, FS_Injection
<1> QED BY <1>7, <1>8

LEMMA PlanSound ==
    ASSUME NEW o, NEW cap \in Nat
    PROVE  /\ Plan(o, cap) \subseteq Idx
           /\ \A i \in Plan(o, cap) : locs[o][i] # Intended(o)[i]
           /\ cap > 0 => Cardinality(Plan(o, cap)) <= cap
<1> DEFINE movable == {i \in Idx : locs[o][i] # Intended(o)[i] /\ Intended(o)[i] \notin down}
<1>1. Plan(o, cap) = {i \in movable : cap = 0 \/ Cardinality({j \in movable : j < i}) < cap}
  BY DEF Plan
<1>2. cap > 0 => Cardinality(Plan(o, cap)) <= cap
  <2> SUFFICES ASSUME cap \in Nat \ {0} PROVE Cardinality(Plan(o, cap)) <= cap
    OBVIOUS
  <2>1. movable \in SUBSET Idx
    OBVIOUS
  <2> HIDE DEF movable
  <2> QED BY <1>1, <2>1, CapBounds
<1> QED BY <1>1, <1>2

-----------------------------------------------------------------------------
LEMMA InitBudget == Init => BudgetInv
<1> SUFFICES ASSUME Init PROVE BudgetInv
  OBVIOUS
<1>1. Numbers
  BY DEF Init, Numbers, NoReport
<1>2. QueueInList /\ JobsSound /\ Budgeted
  BY DEF Init, QueueInList, JobsSound, Budgeted, NoReport, NoScope
<1> QED BY <1>1, <1>2 DEF BudgetInv

\* The surroundings never give an object an old version back.
LEMMA SurroundingsBudget ==
    ASSUME BudgetInv, Surroundings PROVE BudgetInv'
<1>1. UNCHANGED passvars
  BY DEF Surroundings, Register, Unregister, GoDown, ComeBack, Overwrite, Remove, Change
<1>2. CASE UNCHANGED catalog
  BY <1>1, <1>2 DEF BudgetInv, Numbers, QueueInList, JobsSound, JobSound, Budgeted, passvars, catalog
<1>3. ASSUME NEW o \in Objects, version[o] # 0, NEW v \in Nat, v = 0 \/ v = version[o] + 1,
             version' = [version EXCEPT ![o] = v],
             v # 0 => \E l : locs' = [locs EXCEPT ![o] = l], v = 0 => locs' = locs
      PROVE  BudgetInv'
  <2>1. Numbers'
    BY <1>1, <1>3 DEF BudgetInv, Numbers, passvars
  <2>2. JobsSound'
    BY <1>1, <1>3 DEF BudgetInv, Numbers, JobsSound, JobSound, passvars
  <2> QED BY <1>1, <2>1, <2>2 DEF BudgetInv, QueueInList, Budgeted, passvars
<1>4. CASE Overwrite
  <2>1. PICK o \in Objects : /\ version[o] # 0
                             /\ version' = [version EXCEPT ![o] = @ + 1]
                             /\ locs' = [locs EXCEPT ![o] = Intended(o)]
    BY <1>4 DEF Overwrite
  <2>2. version[o] + 1 \in Nat /\ version[o] + 1 # 0
    BY DEF BudgetInv, Numbers
  <2> QED BY <1>3, <2>1, <2>2
<1>5. CASE Remove
  <2>1. PICK o \in Objects : version[o] # 0 /\ version' = [version EXCEPT ![o] = 0]
    BY <1>5 DEF Remove
  <2>2. locs' = locs
    BY <1>5 DEF Remove
  <2> QED BY <1>3, <2>1, <2>2
<1> QED BY <1>2, <1>4, <1>5 DEF Surroundings, Register, Unregister, GoDown, ComeBack

LEMMA StartBudget ==
    ASSUME BudgetInv, NEW p \in Passes, NEW s \in Scopes, Start(p, s) PROVE BudgetInv'
<1>0. /\ s.max_moves \in Nat
      /\ {i \in DOMAIN Listed(s) : s.object_ids # <<>> \/ version[Ids[i]] # 0} \subseteq Nat
  BY ScopeType, ListedType
<1>1. Numbers'
  BY <1>0 DEF Start, BudgetInv, Numbers, catalog
<1>2. QueueInList'
  BY DEF Start, BudgetInv, Numbers, QueueInList
<1>3. JobsSound'
  BY DEF Start, BudgetInv, Numbers, JobsSound, JobSound, catalog
<1>4. Budgeted'
  BY <1>0 DEF Start, BudgetInv, Numbers, Budgeted
<1> QED BY <1>1, <1>2, <1>3, <1>4 DEF BudgetInv

LEMMA FinishBudget ==
    ASSUME BudgetInv, NEW p \in Passes, Finish(p) PROVE BudgetInv'
<1>1. Numbers'
  BY DEF Finish, BudgetInv, Numbers, catalog, NoReport
<1>2. QueueInList'
  BY DEF Finish, BudgetInv, Numbers, QueueInList
<1>3. JobsSound'
  BY DEF Finish, BudgetInv, Numbers, JobsSound, JobSound, catalog
<1>4. Budgeted'
  BY DEF Finish, BudgetInv, Numbers, Budgeted, NoReport, NoScope
<1> QED BY <1>1, <1>2, <1>3, <1>4 DEF BudgetInv

\* A result in the report changes the moved shards by as many as were moved.
LEMMA CountedType ==
    ASSUME NEW r \in [scanned : Nat, results : [Outcomes -> Nat], shards_moved : Nat],
           NEW status, NEW moved \in Nat
    PROVE  /\ Counted(r, status, moved) \in
                [scanned : Nat, results : [Outcomes -> Nat], shards_moved : Nat]
           /\ Counted(r, status, moved).shards_moved = r.shards_moved + moved
<1>1. [r.results EXCEPT ![status] = @ + 1] \in [Outcomes -> Nat]
  <2>1. r.results \in [Outcomes -> Nat]
    OBVIOUS
  <2>2. ASSUME NEW f \in [Outcomes -> Nat] PROVE [f EXCEPT ![status] = @ + 1] \in [Outcomes -> Nat]
    <3>1. \A x \in Outcomes : [f EXCEPT ![status] = @ + 1][x] \in Nat
      OBVIOUS
    <3> QED BY <3>1
  <2> QED BY <2>1, <2>2
<1>2. r.shards_moved + moved \in Nat
  OBVIOUS
<1> QED BY <1>1, <1>2 DEF Counted

LEMMA VisitBudget ==
    ASSUME BudgetInv, NEW p \in Passes, Visit(p) PROVE BudgetInv'
<1> DEFINE Reports == [scanned : Nat, results : [Outcomes -> Nat], shards_moved : Nat]
           begun == [report[p] EXCEPT !.scanned = @ + 1]
<1>n. Numbers
  BY DEF BudgetInv
<1>1. PICK at \in queue[p] :
        /\ queue' = [queue EXCEPT ![p] = @ \ {at}]
        /\ LET o      == Listed(scope[p])[at]
               status == Assessment(o, remaining[p], scope[p].dry_run)
           IN  IF status = "Copy"
               THEN /\ report' = [report EXCEPT ![p] = begun]
                    /\ job' = [job EXCEPT ![p] = Loaded(o, remaining[p])]
                    /\ pc' = [pc EXCEPT ![p] = "copy"]
               ELSE /\ report' = [report EXCEPT ![p] = Counted(begun, status, 0)]
                    /\ UNCHANGED <<job, pc>>
  BY DEF Visit
<1> DEFINE o == Listed(scope[p])[at]
           status == Assessment(o, remaining[p], scope[p].dry_run)
<1>2. /\ pc[p] = "loop" /\ ~Exhausted(p)
      /\ UNCHANGED <<version, locs, scope, remaining, relocated>>
  BY DEF Visit, catalog
<1>3. o \in Objects
  <2>1. at \in DOMAIN Listed(scope[p]) /\ scope[p] \in Scopes \cup {NoScope}
    BY <1>n DEF BudgetInv, QueueInList, Numbers
  <2> QED BY <2>1, ListedType
<1>4. begun \in Reports /\ begun.shards_moved = report[p].shards_moved
  <2>1. ASSUME NEW r \in Reports
        PROVE  /\ [r EXCEPT !.scanned = @ + 1] \in Reports
               /\ [r EXCEPT !.scanned = @ + 1].shards_moved = r.shards_moved
    OBVIOUS
  <2> QED BY <1>n, <2>1 DEF Numbers
<1>5. Counted(begun, status, 0) \in Reports /\ Counted(begun, status, 0).shards_moved = report[p].shards_moved
  <2>1. begun.shards_moved \in Nat /\ begun.shards_moved + 0 = begun.shards_moved
    BY <1>4
  <2> HIDE DEF begun, status
  <2> QED BY <1>4, <2>1, CountedType
<1>6. PICK r \in Reports : /\ report' = [report EXCEPT ![p] = r]
                           /\ r.shards_moved = report[p].shards_moved
  <2>1. CASE status = "Copy"
    BY <1>1, <1>4, <2>1
  <2>2. CASE status # "Copy"
    BY <1>1, <1>5, <2>2
  <2> QED BY <2>1, <2>2
<1>7. QueueInList'
  BY <1>n, <1>1, <1>2 DEF BudgetInv, Numbers, QueueInList
<1>8. CASE status # "Copy"
  <2>1. UNCHANGED <<job, pc>>
    BY <1>1, <1>8
  <2>2. Numbers'
    BY <1>n, <1>1, <1>2, <1>6, <2>1 DEF Numbers
  <2>3. JobsSound' /\ Budgeted'
    BY <1>n, <1>2, <1>6, <2>1 DEF BudgetInv, Numbers, JobsSound, JobSound, Budgeted
  <2> QED BY <1>7, <2>2, <2>3 DEF BudgetInv
<1>9. CASE status = "Copy"
  <2>1. job' = [job EXCEPT ![p] = Loaded(o, remaining[p])] /\ pc' = [pc EXCEPT ![p] = "copy"]
    BY <1>1, <1>9
  <2>2. version[o] # 0 /\ ~scope[p].dry_run
    BY <1>9 DEF Assessment
  <2>3. Numbers'
    BY <1>n, <1>1, <1>2, <1>6, <2>1 DEF Numbers
  <2>4. JobSound(p)'
    <3> HIDE DEF o, status
    <3>1. /\ job'[p].object = o /\ job'[p].version = version[o] /\ job'[p].from = locs[o]
          /\ job'[p].moves = Plan(o, remaining[p]) /\ job'[p].to = Intended(o)
      BY <1>n, <2>1 DEF Loaded, Numbers
    <3>2. /\ Plan(o, remaining[p]) \subseteq Idx
          /\ \A i \in Plan(o, remaining[p]) : locs[o][i] # Intended(o)[i]
          /\ remaining[p] > 0 => Cardinality(Plan(o, remaining[p])) <= remaining[p]
      BY <1>n, PlanSound DEF Numbers
    <3>3. scope[p].max_moves > 0 => remaining[p] > 0
      BY <1>n, <1>2 DEF Exhausted, Numbers
    <3>4. version[o] \in Nat \ {0}
      BY <1>n, <1>3, <2>2 DEF Numbers
    <3> QED BY <1>2, <1>3, <2>2, <3>1, <3>2, <3>3, <3>4 DEF JobSound
  <2>5. JobsSound'
    BY <1>n, <1>2, <2>1, <2>4 DEF BudgetInv, Numbers, JobsSound, JobSound
  <2>6. Budgeted'
    BY <1>n, <1>2, <1>6, <2>1 DEF BudgetInv, Numbers, Budgeted
  <2> QED BY <1>7, <2>3, <2>5, <2>6 DEF BudgetInv
<1> QED BY <1>8, <1>9

\* A job that changes nothing in the catalog.
LEMMA CloseBudget ==
    ASSUME BudgetInv, NEW p \in Passes, pc[p] = "copy", NEW status, Close(p, status, 0),
           UNCHANGED <<catalog, remaining, relocated>>
    PROVE  BudgetInv'
<1>1. /\ Counted(report[p], status, 0) \in
            [scanned : Nat, results : [Outcomes -> Nat], shards_moved : Nat]
      /\ Counted(report[p], status, 0).shards_moved = report[p].shards_moved
  <2>1. report[p].shards_moved \in Nat /\ report[p].shards_moved + 0 = report[p].shards_moved
    BY DEF BudgetInv, Numbers
  <2>2. report[p] \in [scanned : Nat, results : [Outcomes -> Nat], shards_moved : Nat]
    BY DEF BudgetInv, Numbers
  <2> QED BY <2>1, <2>2, CountedType
<1>2. Numbers'
  BY <1>1 DEF Close, BudgetInv, Numbers, catalog
<1>3. QueueInList' /\ JobsSound'
  BY DEF Close, BudgetInv, Numbers, QueueInList, JobsSound, JobSound, catalog
<1>4. Budgeted'
  BY <1>1 DEF Close, BudgetInv, Numbers, Budgeted
<1> QED BY <1>2, <1>3, <1>4 DEF BudgetInv

LEMMA CommitBudget ==
    ASSUME BudgetInv, NEW p \in Passes, Commit(p) PROVE BudgetInv'
<1> DEFINE o     == job[p].object
           done  == Fetched(p)
           moved == Cardinality(done)
           new   == [i \in Idx |-> IF i \in done THEN job[p].to[i] ELSE job[p].from[i]]
<1>n. Numbers
  BY DEF BudgetInv
<1>1. /\ pc[p] = "copy" /\ version[o] = job[p].version
      /\ version' = [version EXCEPT ![o] = @ + 1]
      /\ locs' = [locs EXCEPT ![o] = new]
      /\ relocated' = [relocated EXCEPT ![p] = @ + Cardinality({i \in Idx : new[i] # locs[o][i]})]
      /\ remaining' = [remaining EXCEPT ![p] = Paid(p, moved)]
      /\ Close(p, "Moved", moved)
  BY DEF Commit, Copied, SameVersion
<1>2. JobSound(p)
  BY <1>1 DEF BudgetInv, JobsSound
<1>3. o \in Objects /\ version[o] \in Nat /\ locs[o] = job[p].from
  BY <1>n, <1>1, <1>2 DEF JobSound, Numbers
<1>4. done \subseteq job[p].moves /\ job[p].moves \subseteq Idx
  BY <1>2 DEF Fetched, JobSound
<1>5. {i \in Idx : new[i] # locs[o][i]} = done
  BY <1>2, <1>3, <1>4 DEF JobSound
<1>6. moved \in Nat /\ (scope[p].max_moves > 0 => moved <= remaining[p])
  <2>1. IsFiniteSet(job[p].moves)
    BY <1>4, IdxFinite, FS_Subset
  <2>2. moved \in Nat /\ Cardinality(job[p].moves) \in Nat /\ moved <= Cardinality(job[p].moves)
    BY <1>4, <2>1, FS_Subset, FS_CardinalityType
  <2> QED BY <1>n, <1>2, <2>2 DEF JobSound, Numbers
<1>7. relocated' = [relocated EXCEPT ![p] = @ + moved]
  BY <1>1, <1>5
<1> HIDE DEF moved, done, new, o
<1>8. Paid(p, moved) \in Nat /\ (scope[p].max_moves > 0 => Paid(p, moved) = remaining[p] - moved)
  BY <1>n, <1>6 DEF Paid, Numbers
<1>9. /\ Counted(report[p], "Moved", moved) \in
            [scanned : Nat, results : [Outcomes -> Nat], shards_moved : Nat]
      /\ Counted(report[p], "Moved", moved).shards_moved = report[p].shards_moved + moved
  BY <1>n, <1>6, CountedType DEF Numbers
<1>10. /\ report' = [report EXCEPT ![p] = Counted(@, "Moved", moved)]
       /\ job' = [job EXCEPT ![p] = NoJob]
       /\ pc' = [pc EXCEPT ![p] = "loop"]
       /\ UNCHANGED <<scope, queue>>
  BY <1>1 DEF Close
<1>11. Numbers'
  <2>1. version' \in [Objects -> Nat] /\ locs' = [x \in Objects |-> locs'[x]]
    <3>1. version[o] + 1 \in Nat
      BY <1>3
    <3>2. version' \in [Objects -> Nat]
      BY <1>n, <1>1, <3>1 DEF Numbers
    <3>3. locs' = [x \in Objects |-> locs'[x]]
      BY <1>n, <1>1 DEF Numbers
    <3> QED BY <3>2, <3>3
  <2>2. relocated' \in [Passes -> Nat] /\ remaining' \in [Passes -> Nat]
    BY <1>n, <1>1, <1>6, <1>7, <1>8 DEF Numbers
  <2>3. report' \in [Passes -> [scanned : Nat, results : [Outcomes -> Nat], shards_moved : Nat]]
    BY <1>n, <1>9, <1>10 DEF Numbers
  <2> QED BY <1>n, <1>10, <2>1, <2>2, <2>3 DEF Numbers
<1>12. QueueInList'
  BY <1>10 DEF BudgetInv, QueueInList
<1>13. JobsSound'
  <2> SUFFICES ASSUME NEW q \in Passes, pc'[q] = "copy" PROVE JobSound(q)'
    BY DEF JobsSound
  <2>1. q # p /\ pc[q] = "copy" /\ job'[q] = job[q] /\ remaining'[q] = remaining[q]
    BY <1>n, <1>1, <1>8, <1>10 DEF Numbers
  <2>2. JobSound(q)
    BY <2>1 DEF BudgetInv, JobsSound
  <2>3. \A x \in Objects : \/ version'[x] = version[x] /\ locs'[x] = locs[x]
                           \/ x = o /\ version'[x] = version[x] + 1
    BY <1>n, <1>1, <1>3 DEF Numbers
  <2>4. version[o] # 0
    BY <1>1, <1>2 DEF JobSound
  <2> QED BY <1>n, <1>3, <1>10, <2>1, <2>2, <2>3, <2>4 DEF JobSound, Numbers
<1>14. Budgeted'
  <2> SUFFICES ASSUME NEW q \in Passes
               PROVE  /\ relocated'[q] = report'[q].shards_moved
                      /\ scope'[q].max_moves > 0 => relocated'[q] + remaining'[q] <= scope'[q].max_moves
                      /\ scope'[q].dry_run => relocated'[q] = 0
                      /\ pc'[q] = "idle" => relocated'[q] = 0
    BY DEF Budgeted
  <2>1. CASE q # p
    BY <1>n, <1>1, <1>7, <1>10, <2>1 DEF BudgetInv, Numbers, Budgeted
  <2>2. CASE q = p
    <3>1. /\ relocated'[p] = relocated[p] + moved /\ remaining'[p] = Paid(p, moved)
          /\ report'[p].shards_moved = report[p].shards_moved + moved
          /\ pc'[p] = "loop" /\ scope' = scope
      BY <1>n, <1>1, <1>7, <1>9, <1>10 DEF Numbers
    <3>2. ~scope[p].dry_run
      BY <1>2 DEF JobSound
    <3>3. relocated[p] \in Nat /\ remaining[p] \in Nat /\ report[p].shards_moved \in Nat
      BY <1>n DEF Numbers
    <3>4. scope[p].max_moves \in Nat
      BY <1>n, ScopeType DEF Numbers
    <3>5. /\ relocated[p] = report[p].shards_moved
          /\ scope[p].max_moves > 0 => relocated[p] + remaining[p] <= scope[p].max_moves
      BY DEF BudgetInv, Budgeted
    <3> QED BY <1>6, <1>8, <2>2, <3>1, <3>2, <3>3, <3>4, <3>5
  <2> QED BY <2>1, <2>2
<1> QED BY <1>11, <1>12, <1>13, <1>14 DEF BudgetInv

LEMMA NextBudget == BudgetInv /\ [Next]_vars => BudgetInv'
<1> SUFFICES ASSUME BudgetInv, [Next]_vars PROVE BudgetInv'
  OBVIOUS
<1>1. CASE Surroundings
  BY <1>1, SurroundingsBudget
<1>2. ASSUME NEW p \in Passes, PassStep(p) PROVE BudgetInv'
  <2>1. CASE Finish(p) \/ Visit(p) \/ Commit(p)
    BY <2>1, FinishBudget, VisitBudget, CommitBudget
  <2>2. CASE CopyFails(p) \/ Conflict(p)
    <3>1. pc[p] = "copy" /\ UNCHANGED <<catalog, remaining, relocated>>
      BY <2>2 DEF CopyFails, Conflict, Copied
    <3>2. PICK status : Close(p, status, 0)
      BY <2>2 DEF CopyFails, Conflict
    <3> QED BY <3>1, <3>2, CloseBudget
  <2> QED BY <1>2, <2>1, <2>2 DEF PassStep
<1>3. ASSUME NEW p \in Passes, NEW s \in Scopes, Start(p, s) PROVE BudgetInv'
  BY <1>3, StartBudget
<1>4. CASE UNCHANGED vars
  BY <1>4 DEF BudgetInv, Numbers, QueueInList, JobsSound, JobSound, Budgeted, vars, catalog, passvars
<1> QED BY <1>1, <1>2, <1>3, <1>4 DEF Next

\* A pass never relocates more shards than max_moves, counts every one it
\* relocates and relocates none in a dry run, for any number of objects,
\* concurrent passes and changes around them.
THEOREM BudgetIsKept == Spec => []BudgetHolds
<1>1. Spec => []BudgetInv
  BY InitBudget, NextBudget, PTL DEF Spec
<1>2. BudgetInv => BudgetHolds
  <2> SUFFICES ASSUME BudgetInv, NEW p \in Passes
               PROVE  /\ relocated[p] = report[p].shards_moved
                      /\ scope[p].max_moves > 0 => relocated[p] <= scope[p].max_moves
                      /\ scope[p].dry_run => relocated[p] = 0
    BY DEF BudgetHolds
  <2>1. scope[p].max_moves \in Nat /\ relocated[p] \in Nat /\ remaining[p] \in Nat
    BY ScopeType DEF BudgetInv, Numbers
  <2> QED BY <2>1 DEF BudgetInv, Budgeted
<1> QED BY <1>1, <1>2, PTL

-----------------------------------------------------------------------------
\* What a commit moved is exactly what is not misplaced any more.
LEMMA CommitMoves ==
    ASSUME BudgetInv, NEW p \in Passes, Commit(p), NEW o \in Objects, job[p].object = o,
           job[p].to = Intended(o)
    PROVE  /\ Fetched(p) # {} /\ Fetched(p) \subseteq Misplaced(o)
           /\ Misplaced(o)' = Misplaced(o) \ Fetched(p)
<1>1. /\ pc[p] = "copy" /\ version[o] = job[p].version /\ Fetched(p) # {}
      /\ registered' = registered
      /\ locs' = [locs EXCEPT ![o] =
            [i \in Idx |-> IF i \in Fetched(p) THEN job[p].to[i] ELSE job[p].from[i]]]
  BY DEF Commit, Copied, SameVersion, Close, cluster
<1>2. JobSound(p)
  BY <1>1 DEF BudgetInv, JobsSound
<1>3. locs[o] = job[p].from
  BY <1>1, <1>2 DEF JobSound
<1>4. Fetched(p) \subseteq Misplaced(o)
  BY <1>2, <1>3 DEF Fetched, JobSound, Misplaced
<1>5. Intended(o)' = Intended(o)
  BY <1>1 DEF Intended
<1>6. \A i \in Idx : locs'[o][i] = IF i \in Fetched(p) THEN Intended(o)[i] ELSE locs[o][i]
  BY <1>1, <1>3 DEF BudgetInv, Numbers
<1>7. Misplaced(o)' = {i \in Idx : locs'[o][i] # Intended(o)'[i]}
  BY DEF Misplaced
<1>8. Misplaced(o)' = Misplaced(o) \ Fetched(p)
  BY <1>5, <1>6, <1>7 DEF Misplaced
<1> QED BY <1>1, <1>4, <1>8

LEMMA CommitImproves ==
    ASSUME BudgetInv, NEW p \in Passes, Commit(p), NEW o \in Objects, job[p].object = o,
           job[p].to = Intended(o)
    PROVE  Cardinality(Misplaced(o)') < Cardinality(Misplaced(o))
<1>1. PICK i \in Fetched(p) : TRUE
  BY CommitMoves
<1>2. IsFiniteSet(Misplaced(o)) /\ Cardinality(Misplaced(o)) \in Nat
  <2>1. Misplaced(o) \in SUBSET Idx
    BY DEF Misplaced
  <2> QED BY <2>1, IdxFinite, FS_Subset, FS_CardinalityType
<1>3. /\ IsFiniteSet(Misplaced(o) \ {i})
      /\ Cardinality(Misplaced(o) \ {i}) = Cardinality(Misplaced(o)) - 1
  <2>1. i \in Misplaced(o)
    BY <1>1, CommitMoves
  <2> QED BY <1>2, <2>1, FS_RemoveElement
<1>4. /\ Cardinality(Misplaced(o)') <= Cardinality(Misplaced(o) \ {i})
      /\ Cardinality(Misplaced(o)') \in Nat
  <2>1. Misplaced(o)' \in SUBSET (Misplaced(o) \ {i})
    BY <1>1, CommitMoves
  <2> QED BY <2>1, <1>3, FS_Subset, FS_CardinalityType
<1> QED BY <1>2, <1>3, <1>4

\* The only step that ends a job and changes the row of its object.
LEMMA OnlyCommitMoves ==
    ASSUME BudgetInv, [Next]_vars, NEW p \in Passes, NEW o \in Objects, job[p].object = o,
           job'[p].object # o, locs'[o] # locs[o]
    PROVE  Commit(p)
<1>1. job' # job /\ locs' # locs
  OBVIOUS
<1>2. PICK q \in Passes : Commit(q)
  BY <1>1 DEF Next, Surroundings, Register, Unregister, GoDown, ComeBack, Overwrite, Remove, Change,
        PassStep, Finish, Visit, CopyFails, Conflict, Start, vars, catalog, passvars
<1>3. job' = [job EXCEPT ![q] = NoJob]
  BY <1>2 DEF Commit, Close
<1>4. q = p
  BY <1>3 DEF BudgetInv, Numbers
<1> QED BY <1>2, <1>4

\* Every commit of a pass brings the object closer to its intended placement,
\* however many passes, overwrites and removals ran since it was loaded.
THEOREM EveryCommitImproves == Spec => CommitsImprove
<1>1. Spec => []BudgetInv
  BY InitBudget, NextBudget, PTL DEF Spec
<1>2. BudgetInv /\ [Next]_vars =>
        [\A p \in Passes, o \in Objects :
            ( /\ job[p].object = o /\ job'[p].object # o
              /\ locs'[o] # locs[o]
              /\ Cardinality(registered) >= Total
              /\ job[p].to = Intended(o) )
                => Cardinality(Misplaced(o)') < Cardinality(Misplaced(o))]_vars
  BY CommitImproves, OnlyCommitMoves
<1> QED BY <1>1, <1>2, PTL DEF Spec, CommitsImprove

\* The rows only change by a commit and by an overwrite.
LEMMA RowsChange ==
    ASSUME [Next]_vars, locs' # locs
    PROVE  Overwrite \/ \E p \in Passes : Commit(p)
BY DEF Next, Surroundings, Register, Unregister, GoDown, ComeBack, Remove, Change,
    PassStep, Finish, Visit, CopyFails, Conflict, Close, Start, vars, catalog, passvars

LEMMA StepSettles ==
    ASSUME BudgetInv, [Next]_vars, NEW o \in Objects,
           registered' = registered,
           \A p \in Passes : pc[p] = "copy" /\ job[p].object = o => job[p].to = Intended(o)
    PROVE  Misplaced(o)' \subseteq Misplaced(o)
<1>1. Intended(o)' = Intended(o)
  BY DEF Intended
<1>2. Misplaced(o)' = {i \in Idx : locs'[o][i] # Intended(o)'[i]}
  BY DEF Misplaced
<1>3. CASE locs'[o] = locs[o]
  BY <1>1, <1>2, <1>3 DEF Misplaced
<1>4. CASE locs'[o] # locs[o] /\ Overwrite
  <2>1. PICK x \in Objects : locs' = [locs EXCEPT ![x] = Intended(x)]
    BY <1>4 DEF Overwrite
  <2>2. locs'[o] = Intended(o)
    BY <1>4, <2>1 DEF BudgetInv, Numbers
  <2> QED BY <1>1, <1>2, <2>2
<1>5. CASE locs'[o] # locs[o] /\ \E p \in Passes : Commit(p)
  <2>1. PICK p \in Passes : Commit(p)
    BY <1>5
  <2>2. pc[p] = "copy" /\ job[p].object = o
    BY <1>5, <2>1 DEF Commit, Copied, BudgetInv, Numbers
  <2> QED BY <2>1, <2>2, CommitMoves
<1> QED BY <1>3, <1>4, <1>5, RowsChange

\* With the membership and the plans for it unchanged, no step of any pass or
\* caller puts a shard out of its place.
THEOREM SettledShardsStay == Spec => SettlingIsMonotone
<1>1. Spec => []BudgetInv
  BY InitBudget, NextBudget, PTL DEF Spec
<1>2. BudgetInv /\ [Next]_vars =>
        [\A o \in Objects :
            ( /\ locs'[o] # locs[o]
              /\ registered' = registered
              /\ Cardinality(registered) >= Total
              /\ \A p \in Passes : pc[p] = "copy" /\ job[p].object = o => job[p].to = Intended(o) )
                => Misplaced(o)' \subseteq Misplaced(o)]_vars
  BY StepSettles
<1> QED BY <1>1, <1>2, PTL DEF Spec, SettlingIsMonotone

-----------------------------------------------------------------------------
\* With enough nodes every object has its HRW placement on them.
LEMMA PlacementOf ==
    ASSUME NEW o \in Objects, NEW E \in SUBSET Nodes, Cardinality(E) >= Total
    PROVE  /\ Placements[o][E] \in [Idx -> E]
           /\ IsHrwPlacement(WeightOf[o], Placements[o][E], E)
<1>1. Placements[o][E] = hrw_intended_nodes(WeightOf[o], E)
  BY DEF Placements
<1>2. WeightOf[o] \in Weights
  BY PassAssumption
<1> QED BY <1>1, <1>2, HrwExists

\* The part of the type invariant BudgetInv does not have, with the rows a
\* planned job carries.
RowsTyped ==
    /\ registered \subseteq Nodes
    /\ down \subseteq Nodes
    /\ locs \in [Objects -> [Idx -> Nodes]]
    /\ \A p \in Passes : pc[p] = "copy" =>
            job[p].from \in [Idx -> Nodes] /\ job[p].to \in [Idx -> Nodes]

LEMMA InitRows == Init => RowsTyped
<1> SUFFICES ASSUME Init PROVE RowsTyped
  OBVIOUS
<1>1. PICK before \in Memberships : locs = [o \in Objects |-> Placements[o][before]]
  BY DEF Init
<1>2. before \in SUBSET Nodes /\ Cardinality(before) >= Total
  BY PassAssumption
<1>3. \A o \in Objects : Placements[o][before] \in [Idx -> Nodes]
  BY <1>2, PlacementOf
<1>4. registered \subseteq Nodes /\ down \subseteq Nodes
  BY PassAssumption DEF Init
<1>5. \A p \in Passes : pc[p] # "copy"
  BY DEF Init
<1> QED BY <1>1, <1>3, <1>4, <1>5 DEF RowsTyped

LEMMA SurroundingsRows ==
    ASSUME RowsTyped, BudgetInv, Surroundings PROVE RowsTyped'
<1>1. pc' = pc /\ job' = job
  BY DEF Surroundings, Register, Unregister, GoDown, ComeBack, Overwrite, Remove, Change, passvars
<1>2. CASE Register \/ Unregister \/ GoDown \/ ComeBack \/ Remove
  <2>1. registered' \subseteq Nodes /\ down' \subseteq Nodes /\ locs' = locs
    BY <1>2, PassAssumption DEF Register, Unregister, GoDown, ComeBack, Remove, RowsTyped, catalog, cluster
  <2> QED BY <1>1, <2>1 DEF RowsTyped
<1>3. CASE Overwrite
  <2>1. PICK o \in Objects : locs' = [locs EXCEPT ![o] = Intended(o)]
    BY <1>3 DEF Overwrite
  <2>2. registered \in SUBSET Nodes /\ Cardinality(registered) >= Total
    BY <1>3 DEF Overwrite, RowsTyped
  <2>3. Intended(o) \in [Idx -> Nodes]
    BY <2>2, PlacementOf DEF Intended
  <2>4. locs' \in [Objects -> [Idx -> Nodes]]
    BY <2>1, <2>3 DEF RowsTyped
  <2>5. registered' = registered /\ down' = down
    BY <1>3 DEF Overwrite, cluster
  <2> QED BY <1>1, <2>4, <2>5 DEF RowsTyped
<1> QED BY <1>2, <1>3 DEF Surroundings

\* A job is only planned with Total healthy nodes, so its targets exist.
LEMMA VisitRows ==
    ASSUME RowsTyped, BudgetInv, NEW p \in Passes, Visit(p) PROVE RowsTyped'
<1>1. PICK at \in queue[p] :
        LET o      == Listed(scope[p])[at]
            status == Assessment(o, remaining[p], scope[p].dry_run)
        IN  IF status = "Copy"
            THEN /\ job' = [job EXCEPT ![p] = Loaded(o, remaining[p])]
                 /\ pc' = [pc EXCEPT ![p] = "copy"]
            ELSE UNCHANGED <<job, pc>>
  BY DEF Visit
<1> DEFINE o == Listed(scope[p])[at]
           status == Assessment(o, remaining[p], scope[p].dry_run)
<1>2. UNCHANGED <<registered, down, locs>>
  BY DEF Visit, cluster, catalog
<1>3. o \in Objects
  <2>1. at \in DOMAIN Listed(scope[p]) /\ scope[p] \in Scopes \cup {NoScope}
    BY DEF BudgetInv, QueueInList, Numbers
  <2> QED BY <2>1, ListedType
<1>4. CASE status # "Copy"
  BY <1>1, <1>2, <1>4 DEF RowsTyped
<1>5. CASE status = "Copy"
  <2>1. version[o] # 0 /\ ~(Cardinality(registered \ down) < Total)
    BY <1>5 DEF Assessment
  <2>2. Cardinality(registered) >= Total
    <3>1. IsFiniteSet(registered)
      BY PlacementAssumption, FS_Subset DEF RowsTyped
    <3>2. /\ Cardinality(registered \ down) <= Cardinality(registered)
          /\ Cardinality(registered \ down) \in Nat /\ Cardinality(registered) \in Nat
      <4>1. registered \ down \in SUBSET registered
        OBVIOUS
      <4> QED BY <3>1, <4>1, FS_Subset, FS_CardinalityType
    <3> QED BY <2>1, <3>2, IdxFacts
  <2>3. Intended(o) \in [Idx -> Nodes] /\ locs[o] \in [Idx -> Nodes]
    BY <1>3, <2>2, PlacementOf DEF Intended, RowsTyped
  <2>4. job' = [job EXCEPT ![p] = Loaded(o, remaining[p])] /\ pc' = [pc EXCEPT ![p] = "copy"]
    BY <1>1, <1>5
  <2>5. Loaded(o, remaining[p]).from = locs[o] /\ Loaded(o, remaining[p]).to = Intended(o)
    BY DEF Loaded
  <2> HIDE DEF o, status
  <2>6. \A q \in Passes : pc'[q] = "copy" =>
            job'[q].from \in [Idx -> Nodes] /\ job'[q].to \in [Idx -> Nodes]
    BY <2>3, <2>4, <2>5 DEF RowsTyped, BudgetInv, Numbers
  <2> QED BY <1>2, <2>6 DEF RowsTyped
<1> QED BY <1>4, <1>5

LEMMA CloseRows ==
    ASSUME RowsTyped, BudgetInv, NEW p \in Passes, NEW status, NEW moved, Close(p, status, moved),
           locs' \in [Objects -> [Idx -> Nodes]]
    PROVE  RowsTyped'
<1>1. /\ registered' = registered /\ down' = down
      /\ job' = [job EXCEPT ![p] = NoJob] /\ pc' = [pc EXCEPT ![p] = "loop"]
  BY DEF Close, cluster
<1>2. \A q \in Passes : pc'[q] = "copy" => pc[q] = "copy" /\ job'[q] = job[q]
  BY <1>1 DEF BudgetInv, Numbers
<1> QED BY <1>1, <1>2 DEF RowsTyped

LEMMA CommitRows ==
    ASSUME RowsTyped, BudgetInv, NEW p \in Passes, Commit(p) PROVE RowsTyped'
<1>1. /\ pc[p] = "copy"
      /\ locs' = [locs EXCEPT ![job[p].object] =
            [i \in Idx |-> IF i \in Fetched(p) THEN job[p].to[i] ELSE job[p].from[i]]]
      /\ Close(p, "Moved", Cardinality(Fetched(p)))
  BY DEF Commit, Copied
<1>2. job[p].from \in [Idx -> Nodes] /\ job[p].to \in [Idx -> Nodes]
  BY <1>1 DEF RowsTyped
<1>3. [i \in Idx |-> IF i \in Fetched(p) THEN job[p].to[i] ELSE job[p].from[i]] \in [Idx -> Nodes]
  BY <1>2
<1>4. locs' \in [Objects -> [Idx -> Nodes]]
  BY <1>1, <1>3 DEF RowsTyped
<1> QED BY <1>1, <1>4, CloseRows

LEMMA NextRows == RowsTyped /\ BudgetInv /\ [Next]_vars => RowsTyped'
<1> SUFFICES ASSUME RowsTyped, BudgetInv, [Next]_vars PROVE RowsTyped'
  OBVIOUS
<1>1. CASE Surroundings
  BY <1>1, SurroundingsRows
<1>2. ASSUME NEW p \in Passes, PassStep(p) PROVE RowsTyped'
  <2>1. CASE Finish(p)
    <3>1. UNCHANGED <<registered, down, locs, job>> /\ pc' = [pc EXCEPT ![p] = "idle"]
      BY <2>1 DEF Finish, cluster, catalog
    <3> QED BY <3>1 DEF RowsTyped, BudgetInv, Numbers
  <2>2. CASE CopyFails(p) \/ Conflict(p)
    <3>1. locs' = locs /\ \E status : Close(p, status, 0)
      BY <2>2 DEF CopyFails, Conflict, catalog
    <3>2. locs' \in [Objects -> [Idx -> Nodes]]
      BY <3>1 DEF RowsTyped
    <3> QED BY <3>1, <3>2, CloseRows
  <2> QED BY <1>2, <2>1, <2>2, VisitRows, CommitRows DEF PassStep
<1>3. ASSUME NEW p \in Passes, NEW s \in Scopes, Start(p, s) PROVE RowsTyped'
  <2>1. UNCHANGED <<registered, down, locs, job>> /\ pc' = [pc EXCEPT ![p] = "loop"]
    BY <1>3 DEF Start, cluster, catalog
  <2> QED BY <2>1 DEF RowsTyped, BudgetInv, Numbers
<1>4. CASE UNCHANGED vars
  BY <1>4 DEF RowsTyped, vars, cluster, catalog, passvars
<1> QED BY <1>1, <1>2, <1>3, <1>4 DEF Next

\* Type correctness of the passes: no HRW placement is looked up on fewer
\* nodes than the object has shards, so every location is a node.
THEOREM PassTypes == Spec => []TypeOK
<1>1. Init => BudgetInv /\ RowsTyped
  BY InitBudget, InitRows
<1>2. (BudgetInv /\ RowsTyped) /\ [Next]_vars => (BudgetInv /\ RowsTyped)'
  BY NextBudget, NextRows
<1>3. BudgetInv /\ RowsTyped => TypeOK
  BY DEF BudgetInv, Numbers, RowsTyped, TypeOK
<1> QED BY <1>1, <1>2, <1>3, PTL DEF Spec

-----------------------------------------------------------------------------
\* Membership changes by one node at a time.
LEMMA OneNode ==
    ASSUME RowsTyped, [Next]_vars, registered' # registered
    PROVE  /\ registered' \subseteq Nodes
           /\ \/ \E n \in Nodes \ registered : registered' = registered \cup {n}
              \/ \E n \in Nodes \ registered' : registered = registered' \cup {n}
<1>1. CASE Register
  BY <1>1 DEF Register, RowsTyped
<1>2. CASE Unregister
  <2>1. PICK n \in registered : registered' = registered \ {n}
    BY <1>2 DEF Unregister
  <2>2. n \in Nodes \ registered' /\ registered = registered' \cup {n} /\ registered' \subseteq Nodes
    BY <2>1 DEF RowsTyped
  <2> QED BY <2>2
<1>3. Register \/ Unregister
  BY DEF Next, Surroundings, GoDown, ComeBack, Overwrite, Remove, PassStep, Finish, Visit,
         CopyFails, Conflict, Commit, Close, Start, vars, cluster
<1> QED BY <1>1, <1>2, <1>3

LEMMA AtMostOne ==
    ASSUME NEW S, NEW x, S \subseteq {x}
    PROVE  Cardinality(S) <= 1
<1>1. CASE S = {}
  BY <1>1, FS_EmptySet
<1>2. CASE S = {x}
  BY <1>2, FS_Singleton
<1> QED BY <1>1, <1>2

\* The placement of an object before and after one node joins (E to D) or
\* leaves (D to E).
LEMMA ChurnOf ==
    ASSUME NEW o \in Objects, NEW E \in SUBSET Nodes, NEW n \in Nodes \ E,
           Cardinality(E) >= Total, Cardinality(E \cup {n}) >= Total
    PROVE  LET f == Placements[o][E]
               g == Placements[o][E \cup {n}]
           IN  /\ Cardinality(NodesOf(g) \ NodesOf(f)) <= 1
               /\ Cardinality(NodesOf(f) \ NodesOf(g)) <= 1
               /\ NodesOf(g) \subseteq E => f = g
<1> DEFINE f == Placements[o][E]
           g == Placements[o][E \cup {n}]
           w == WeightOf[o]
<1>0. w \in Weights /\ E \cup {n} \in SUBSET Nodes
  BY PassAssumption
<1>1. f \in [Idx -> E] /\ IsHrwPlacement(w, f, E)
  BY PlacementOf
<1>2. g \in [Idx -> E \cup {n}] /\ IsHrwPlacement(w, g, E \cup {n})
  BY <1>0, PlacementOf
<1> HIDE DEF f, g, w
<1>3. /\ NodesOf(g) \ NodesOf(f) \subseteq {n}
      /\ \E y : NodesOf(f) \ NodesOf(g) \subseteq {y}
  BY <1>0, <1>1, <1>2, HrwChurn
<1>4. /\ Cardinality(NodesOf(g) \ NodesOf(f)) <= 1
      /\ Cardinality(NodesOf(f) \ NodesOf(g)) <= 1
  BY <1>3, AtMostOne
<1>5. ASSUME NodesOf(g) \subseteq E PROVE f = g
  <2>1. g \in [Idx -> E]
    BY <1>2, <1>5 DEF NodesOf
  <2>2. IsHrwPlacement(w, g, E)
    BY <1>2, <2>1 DEF IsHrwPlacement
  <2> QED BY <1>0, <1>1, <2>1, <2>2, HrwUnique
<1> QED BY <1>4, <1>5 DEF f, g

\* HRW's promise for every code, cluster and weight table: a node that joins
\* or leaves exchanges at most one node of an object, although the exclusion
\* of taken nodes makes the choice for a shard depend on all below it.
THEOREM ChurnIsMinimal == Spec => ChurnIsBounded
<1>1. Init => BudgetInv /\ RowsTyped
  BY InitBudget, InitRows
<1>2. (BudgetInv /\ RowsTyped) /\ [Next]_vars => (BudgetInv /\ RowsTyped)'
  BY NextBudget, NextRows
<1>3. BudgetInv /\ RowsTyped /\ [Next]_vars =>
        [( /\ registered' # registered
           /\ Cardinality(registered) >= Total
           /\ Cardinality(registered') >= Total ) =>
          \A o \in Objects :
            /\ Cardinality(NodesOf(Intended(o))' \ NodesOf(Intended(o))) <= 1
            /\ (NodesOf(Intended(o)) \subseteq registered' /\ registered' \subseteq registered)
                  => Intended(o)' = Intended(o)]_vars
  <2> SUFFICES ASSUME RowsTyped, [Next]_vars, registered' # registered,
                      Cardinality(registered) >= Total, Cardinality(registered') >= Total,
                      NEW o \in Objects
               PROVE  /\ Cardinality(NodesOf(Intended(o))' \ NodesOf(Intended(o))) <= 1
                      /\ (NodesOf(Intended(o)) \subseteq registered' /\ registered' \subseteq registered)
                            => Intended(o)' = Intended(o)
    OBVIOUS
  <2> DEFINE f == Placements[o][registered]
             g == Placements[o][registered']
  <2>1. /\ Intended(o) = f /\ Intended(o)' = g
        /\ NodesOf(Intended(o)) = NodesOf(f) /\ NodesOf(Intended(o))' = NodesOf(g)
    BY DEF Intended, NodesOf
  <2>2. registered \in SUBSET Nodes /\ registered' \in SUBSET Nodes
    BY OneNode DEF RowsTyped
  <2>3. CASE \E n \in Nodes \ registered : registered' = registered \cup {n}
    <3>1. PICK n \in Nodes \ registered : registered' = registered \cup {n}
      BY <2>3
    <3>2. Cardinality(NodesOf(g) \ NodesOf(f)) <= 1
      BY <2>2, <3>1, ChurnOf
    <3> QED BY <2>1, <3>1, <3>2
  <2>4. CASE \E n \in Nodes \ registered' : registered = registered' \cup {n}
    <3>1. PICK n \in Nodes \ registered' : registered = registered' \cup {n}
      BY <2>4
    <3>2. /\ Cardinality(NodesOf(g) \ NodesOf(f)) <= 1
          /\ NodesOf(f) \subseteq registered' => g = f
      BY <2>2, <3>1, ChurnOf
    <3> QED BY <2>1, <3>2
  <2> QED BY <2>3, <2>4, OneNode
<1> QED BY <1>1, <1>2, <1>3, PTL DEF Spec, ChurnIsBounded
=============================================================================
