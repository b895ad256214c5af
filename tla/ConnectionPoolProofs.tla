------------------------ MODULE ConnectionPoolProofs ------------------------
(***************************************************************************)
(* Theorems about ConnectionPool for any number of threads, connections    *)
(* and calls.                                                              *)
(***************************************************************************)
EXTENDS ConnectionPool, FiniteSetTheorems, TLAPS

\* The free list holds no connection twice.
FreeListDistinct ==
    \A i, j \in DOMAIN available : available[i] = available[j] => i = j

\* A thread has a connection from Take to PushBack.
HoldsWhileUsing ==
    \A t \in Threads : conn[t] # None <=> pc[t] \in {"use", "return"}

PoolInv ==
    /\ TypeOK
    /\ FreeListDistinct
    /\ HoldsWhileUsing
    /\ ExclusiveCheckout

LEMMA InitPool == Init => PoolInv
<1> SUFFICES ASSUME Init PROVE PoolInv
  OBVIOUS
<1>1. Cardinality(Conns) \in Nat
  BY PoolAssumption, FS_CardinalityType
<1>2. available \in Seq(Conns)
  BY <1>1 DEF Init
<1> QED BY <1>2, PoolAssumption
     DEF Init, PoolInv, TypeOK, FreeListDistinct, HoldsWhileUsing, ExclusiveCheckout, PCs

LEMMA NextPool == PoolInv /\ [Next]_vars => PoolInv'
<1> SUFFICES ASSUME PoolInv, [Next]_vars PROVE PoolInv'
  OBVIOUS
<1> USE PoolAssumption DEF PoolInv, Goto
<1>1. ASSUME NEW t \in Threads, Call(t) \/ LockPool(t) \/ Wait(t) \/ SpuriousWakeup(t)
                                \/ FinishTransaction(t) \/ NotifyOne(t)
      PROVE  PoolInv'
  <2>1. available' = available /\ conn' = conn
    BY <1>1 DEF Call, LockPool, Wait, SpuriousWakeup, FinishTransaction, NotifyOne
  <2>2. TypeOK'
    BY <1>1 DEF Call, LockPool, Wait, SpuriousWakeup, FinishTransaction, NotifyOne, TypeOK,
                PCs, Sleeping
  <2>3. HoldsWhileUsing'
    BY <1>1 DEF Call, LockPool, Wait, SpuriousWakeup, FinishTransaction, NotifyOne, TypeOK,
                HoldsWhileUsing, Sleeping
  <2> QED BY <2>1, <2>2, <2>3 DEF FreeListDistinct, ExclusiveCheckout
<1>2. ASSUME NEW t \in Threads, Take(t) PROVE PoolInv'
  <2>1. /\ available \in Seq(Conns) /\ available # <<>>
        /\ Head(available) = available[1] /\ Head(available) \in Conns
        /\ available' = Tail(available)
        /\ conn' = [conn EXCEPT ![t] = Head(available)]
        /\ pc' = [pc EXCEPT ![t] = "use"]
    BY <1>2 DEF Take, TypeOK
  <2>2. /\ Len(available') = Len(available) - 1
        /\ \A i \in 1 .. Len(available') : available'[i] = available[i + 1]
        /\ available' \in Seq(Conns)
    BY <2>1
  <2>3. \A i \in 1 .. Len(available') : i + 1 \in 1 .. Len(available) /\ i + 1 # 1
    BY <2>1, <2>2
  <2>4. TypeOK'
    BY <1>2, <2>1, <2>2 DEF Take, TypeOK, PCs
  <2>5. FreeListDistinct'
    BY <2>1, <2>2, <2>3 DEF FreeListDistinct
  <2>6. HoldsWhileUsing'
    BY <2>1 DEF TypeOK, HoldsWhileUsing
  <2>7. 1 \in DOMAIN available
    BY <2>1
  <2>8. \A u \in Threads : conn[u] # Head(available)
    BY <2>1, <2>7 DEF ExclusiveCheckout
  <2>9. \A i \in DOMAIN available' : available'[i] # Head(available)
    BY <2>1, <2>2, <2>3, <2>7 DEF FreeListDistinct
  <2>10. \A u \in Threads : \A i \in DOMAIN available' : available'[i] # conn[u]
    BY <2>1, <2>2, <2>3 DEF ExclusiveCheckout
  <2>11. ExclusiveCheckout'
    BY <2>1, <2>8, <2>9, <2>10 DEF ExclusiveCheckout, TypeOK
  <2> QED BY <2>4, <2>5, <2>6, <2>11
<1>3. ASSUME NEW t \in Threads, PushBack(t) PROVE PoolInv'
  <2>1. /\ available \in Seq(Conns)
        /\ conn[t] \in Conns
        /\ available' = Append(available, conn[t])
        /\ conn' = [conn EXCEPT ![t] = None]
        /\ pc' = [pc EXCEPT ![t] = "notify"]
    BY <1>3 DEF PushBack, TypeOK, HoldsWhileUsing
  <2>2. /\ available' \in Seq(Conns)
        /\ Len(available') = Len(available) + 1
        /\ \A i \in 1 .. Len(available) : available'[i] = available[i]
        /\ available'[Len(available) + 1] = conn[t]
    BY <2>1
  <2>3. TypeOK'
    BY <1>3, <2>1, <2>2 DEF PushBack, TypeOK, PCs
  <2>4. \A i \in 1 .. Len(available) : available[i] # conn[t]
    BY <2>1 DEF ExclusiveCheckout
  <2>5. FreeListDistinct'
    BY <2>1, <2>2, <2>4 DEF FreeListDistinct
  <2>6. HoldsWhileUsing'
    BY <2>1 DEF TypeOK, HoldsWhileUsing
  <2>7. \A u \in Threads \ {t} : conn[u] # conn[t]
    BY <2>1 DEF ExclusiveCheckout
  <2>8. ExclusiveCheckout'
    BY <2>1, <2>2, <2>7 DEF ExclusiveCheckout, TypeOK
  <2> QED BY <2>3, <2>5, <2>6, <2>8
<1>4. CASE Quiet \/ UNCHANGED vars
  BY <1>4 DEF Quiet, vars, TypeOK, FreeListDistinct, HoldsWhileUsing, ExclusiveCheckout
<1> QED BY <1>1, <1>2, <1>3, <1>4 DEF Next, Proceed

\* What is on the free list and what threads hold are always connections.
THEOREM PoolTypeCorrect == Spec => []TypeOK
<1>1. Spec => []PoolInv
  BY InitPool, NextPool, PTL DEF Spec
<1> QED BY <1>1, PTL DEF PoolInv

\* A pqxx connection is never in the hands of two threads, nor free while one
\* uses it: what makes the pool a replacement for the global mutex.
THEOREM CheckoutIsExclusive == Spec => []ExclusiveCheckout
<1>1. Spec => []PoolInv
  BY InitPool, NextPool, PTL DEF Spec
<1> QED BY <1>1, PTL DEF PoolInv

-----------------------------------------------------------------------------
Free == {available[i] : i \in DOMAIN available}

Held == {conn[t] : t \in Threads}

\* Every connection is free or in a thread's hands.
AllAccounted == \A c \in Conns : c \in Free \/ c \in Held

LEMMA InitAccounted == Init => AllAccounted
<1> SUFFICES ASSUME Init PROVE AllAccounted
  OBVIOUS
<1> DEFINE n == Cardinality(Conns)
<1>1. n \in Nat /\ IsFiniteSet(Conns)
  BY PoolAssumption, FS_CardinalityType
<1>2. IsFiniteSet(1 .. n) /\ Cardinality(1 .. n) = n
  <2> HIDE DEF n
  <2>1. 1 \in Int /\ n \in Int /\ (1 > n => n = 0)
    BY <1>1
  <2> QED BY <1>1, <2>1, FS_Interval
<1>3. available \in [1 .. n -> Conns] /\ \A i, j \in 1 .. n : available[i] = available[j] => i = j
  BY DEF Init
<1>4. available \in Injection(1 .. n, Conns)
  BY <1>3 DEF Injection, IsInjective
<1>5. available \in Surjection(1 .. n, Conns)
  BY <1>1, <1>2, <1>4, FS_Injection
<1>6. \A c \in Conns : \E i \in DOMAIN available : available[i] = c
  BY <1>3, <1>5 DEF Surjection
<1> QED BY <1>6 DEF AllAccounted, Free

LEMMA NextAccounted == PoolInv /\ AllAccounted /\ [Next]_vars => AllAccounted'
<1> SUFFICES ASSUME PoolInv, AllAccounted, [Next]_vars, NEW c \in Conns
             PROVE  (c \in Free \/ c \in Held)'
  BY DEF AllAccounted
<1>0. c \in Free \/ c \in Held
  BY DEF AllAccounted
<1>t. available \in Seq(Conns) /\ conn \in [Threads -> Conns \cup {None}]
  BY DEF PoolInv, TypeOK
<1>1. CASE UNCHANGED <<available, conn>>
  BY <1>0, <1>1 DEF Free, Held
<1>2. ASSUME NEW t \in Threads, Take(t) PROVE (c \in Free \/ c \in Held)'
  <2>1. /\ available # <<>> /\ available' = Tail(available)
        /\ conn' = [conn EXCEPT ![t] = available[1]]
    BY <1>2, <1>t DEF Take
  <2>2. CASE c \in Held
    <3>1. PICK u \in Threads : conn[u] = c
      BY <2>2 DEF Held
    <3>2. conn[t] = None
      BY <1>2 DEF Take, PoolInv, HoldsWhileUsing
    <3>3. u # t /\ conn'[u] = c
      BY <1>t, <2>1, <3>1, <3>2, PoolAssumption
    <3> QED BY <3>3 DEF Held
  <2>3. CASE c \in Free
    <3>1. PICK i \in 1 .. Len(available) : available[i] = c
      BY <1>t, <2>3 DEF Free
    <3>2. CASE i = 1
      <4>1. conn'[t] = c
        BY <1>t, <2>1, <3>1, <3>2
      <4> QED BY <4>1 DEF Held
    <3>3. CASE i # 1
      <4>1. i - 1 \in DOMAIN available' /\ available'[i - 1] = c
        BY <1>t, <2>1, <3>1, <3>3
      <4> QED BY <4>1 DEF Free
    <3> QED BY <3>2, <3>3
  <2> QED BY <1>0, <2>2, <2>3
<1>3. ASSUME NEW t \in Threads, PushBack(t) PROVE (c \in Free \/ c \in Held)'
  <2>1. available' = Append(available, conn[t]) /\ conn' = [conn EXCEPT ![t] = None]
    BY <1>3 DEF PushBack
  <2>2. conn[t] \in Conns
    BY <1>3, <1>t DEF PushBack, PoolInv, HoldsWhileUsing
  <2>3. CASE c \in Free \/ c = conn[t]
    <3>1. PICK i \in 1 .. Len(available) + 1 :
            IF i = Len(available) + 1 THEN conn[t] = c ELSE available[i] = c
      BY <1>t, <2>3 DEF Free
    <3>2. i \in DOMAIN available' /\ available'[i] = c
      BY <1>t, <2>1, <2>2, <3>1
    <3> QED BY <3>2 DEF Free
  <2>4. CASE c \in Held /\ c # conn[t]
    <3>1. PICK u \in Threads : conn[u] = c
      BY <2>4 DEF Held
    <3>2. conn'[u] = c
      BY <1>t, <2>1, <2>4, <3>1
    <3> QED BY <3>2 DEF Held
  <2> QED BY <1>0, <2>3, <2>4
<1> QED BY <1>1, <1>2, <1>3 DEF Next, Proceed, Call, LockPool, Wait, SpuriousWakeup,
      FinishTransaction, NotifyOne, Quiet, vars

\* A transaction that throws returns its connection like one that commits: once
\* every thread is idle, all of the pool is free again, after any number of calls.
THEOREM PoolNeverDrains == Spec => []NothingLeaks
<1>1. Spec => []PoolInv
  BY InitPool, NextPool, PTL DEF Spec
<1>2. Spec => []AllAccounted
  BY <1>1, InitAccounted, NextAccounted, PTL DEF Spec
<1>3. PoolInv /\ AllAccounted => NothingLeaks
  <2> SUFFICES ASSUME PoolInv, AllAccounted, \A t \in Threads : pc[t] = "idle"
               PROVE  Free = Conns
    BY DEF NothingLeaks, Free
  <2>1. Free \subseteq Conns
    BY DEF PoolInv, TypeOK, Free
  <2>2. \A t \in Threads : conn[t] \notin Conns
    BY PoolAssumption DEF PoolInv, TypeOK, HoldsWhileUsing
  <2> QED BY <2>1, <2>2 DEF AllAccounted, Held
<1> QED BY <1>1, <1>2, <1>3, PTL

-----------------------------------------------------------------------------
\* Threads that will look at the free list, or wake one that will.
Hopeful == {t \in Threads : pc[t] \in {"enter", "woken", "check", "notify"}}

LEMMA HopefulFinite ==
    /\ IsFiniteSet(Hopeful) /\ Cardinality(Hopeful) \in Nat
    /\ IsFiniteSet(Hopeful') /\ Cardinality(Hopeful') \in Nat
<1>1. Hopeful \in SUBSET Threads /\ Hopeful' \in SUBSET Threads
  BY DEF Hopeful
<1> QED BY <1>1, PoolAssumption, FS_Subset, FS_CardinalityType

\* NoLostWakeup is inductive: a returned connection comes with a signal to be
\* sent, a signal turns into a woken thread, and a thread takes at most one.
LEMMA NextHopeful == PoolInv /\ NoLostWakeup /\ [Next]_vars => NoLostWakeup'
<1> SUFFICES ASSUME PoolInv, NoLostWakeup, [Next]_vars, Sleeping' # {}
             PROVE  Len(available') <= Cardinality(Hopeful')
  BY DEF NoLostWakeup, Hopeful
<1>0. Sleeping # {} => Len(available) <= Cardinality(Hopeful)
  BY DEF NoLostWakeup, Hopeful
<1>t. available \in Seq(Conns) /\ Len(available) \in Nat /\ pc \in [Threads -> PCs]
  BY DEF PoolInv, TypeOK
<1>f. /\ IsFiniteSet(Hopeful) /\ Cardinality(Hopeful) \in Nat
      /\ IsFiniteSet(Hopeful') /\ Cardinality(Hopeful') \in Nat
  BY HopefulFinite
<1> USE DEF Goto
<1>1. ASSUME NEW t \in Threads, Call(t) \/ LockPool(t) \/ SpuriousWakeup(t) \/ FinishTransaction(t)
      PROVE  Len(available') <= Cardinality(Hopeful')
  <2>1. available' = available /\ Sleeping' \subseteq Sleeping /\ Hopeful \subseteq Hopeful'
    BY <1>1, <1>t DEF Call, LockPool, SpuriousWakeup, FinishTransaction, Sleeping, Hopeful
  <2>2. Cardinality(Hopeful) <= Cardinality(Hopeful')
    BY <1>f, <2>1, FS_Subset
  <2> QED BY <1>0, <1>t, <1>f, <2>1, <2>2
<1>2. ASSUME NEW t \in Threads, Take(t) PROVE Len(available') <= Cardinality(Hopeful')
  <2>1. Len(available') = Len(available) - 1
    BY <1>2, <1>t DEF Take
  <2>2. Sleeping' = Sleeping /\ t \in Hopeful /\ Hopeful' = Hopeful \ {t}
    BY <1>2, <1>t DEF Take, Sleeping, Hopeful
  <2>3. Cardinality(Hopeful') = Cardinality(Hopeful) - 1
    BY <1>f, <2>2, FS_RemoveElement
  <2> QED BY <1>0, <1>t, <1>f, <2>1, <2>2, <2>3
<1>3. ASSUME NEW t \in Threads, Wait(t) PROVE Len(available') <= Cardinality(Hopeful')
  BY <1>3, <1>f DEF Wait
<1>4. ASSUME NEW t \in Threads, PushBack(t) PROVE Len(available') <= Cardinality(Hopeful')
  <2>1. Len(available') = Len(available) + 1
    BY <1>4, <1>t DEF PushBack
  <2>2. Sleeping' = Sleeping /\ t \notin Hopeful /\ Hopeful' = Hopeful \cup {t}
    BY <1>4, <1>t DEF PushBack, Sleeping, Hopeful
  <2>3. Cardinality(Hopeful') = Cardinality(Hopeful) + 1
    BY <1>f, <2>2, FS_AddElement
  <2> QED BY <1>0, <1>t, <1>f, <2>1, <2>2, <2>3
<1>5. ASSUME NEW t \in Threads, NotifyOne(t) PROVE Len(available') <= Cardinality(Hopeful')
  <2>1. Sleeping # {}
    BY <1>5, <1>t DEF NotifyOne, Sleeping
  <2>2. PICK s \in Sleeping : pc' = [pc EXCEPT ![t] = "idle", ![s] = "woken"]
    BY <1>5, <2>1 DEF NotifyOne
  <2>3. /\ s \in Threads /\ s # t /\ s \notin Hopeful \ {t} /\ t \in Hopeful
        /\ Hopeful' = (Hopeful \ {t}) \cup {s}
    BY <1>5, <1>t, <2>2 DEF NotifyOne, Sleeping, Hopeful
  <2>4. IsFiniteSet(Hopeful \ {t}) /\ Cardinality(Hopeful \ {t}) = Cardinality(Hopeful) - 1
    BY <1>f, <2>3, FS_RemoveElement
  <2>5. Cardinality((Hopeful \ {t}) \cup {s}) = Cardinality(Hopeful \ {t}) + 1
    BY <2>3, <2>4, FS_AddElement
  <2>6. available' = available
    BY <1>5 DEF NotifyOne
  <2> QED BY <1>0, <1>t, <1>f, <2>1, <2>3, <2>4, <2>5, <2>6
<1>6. CASE Quiet \/ UNCHANGED vars
  BY <1>0, <1>6 DEF Quiet, vars, Sleeping, Hopeful
<1> QED BY <1>1, <1>2, <1>3, <1>4, <1>5, <1>6 DEF Next, Proceed

\* notify_one() after the unlock loses no wakeup, whatever newcomers and
\* spurious wakeups do to the free list in between.
THEOREM WakeupsAreNotLost == Spec => []NoLostWakeup
<1>1. Spec => []PoolInv
  BY InitPool, NextPool, PTL DEF Spec
<1>2. Init => NoLostWakeup
  BY DEF Init, NoLostWakeup, Sleeping
<1> QED BY <1>1, <1>2, NextHopeful, PTL DEF Spec
=============================================================================
