--------------------------- MODULE ConnectionPool ---------------------------
(***************************************************************************)
(* The connection pool of MetadataStore: acquire() waits on pool_cv_ under *)
(* pool_mu_ until a connection is free, release() is the destructor of the *)
(* RAII handle and runs however the transaction ends.  Every operation of  *)
(* MetadataStore is one checkout; none nests another.                      *)
(***************************************************************************)
EXTENDS Naturals, Sequences, FiniteSets

CONSTANTS Threads,    \* request threads
          Conns,      \* pooled connections, max(1, pool_size) of them
          None,       \* no connection, no thread
          MaxEvents   \* bound on operations called and spurious wakeups

ASSUME PoolAssumption ==
    /\ None \notin Conns
    /\ None \notin Threads
    /\ IsFiniteSet(Conns)
    /\ IsFiniteSet(Threads)
    /\ Conns # {}
    /\ MaxEvents \in Nat

VARIABLES available,   \* the free list, a FIFO queue
          mutex,       \* the thread inside pool_mu_
          pc,          \* per thread
          conn,        \* per thread: the connection it has checked out
          events       \* operations called and spurious wakeups so far

vars == <<available, mutex, pc, conn, events>>

Init ==
    /\ available \in {q \in [1 .. Cardinality(Conns) -> Conns] :
                        \A i, j \in DOMAIN q : q[i] = q[j] => i = j}
    /\ mutex = None
    /\ pc = [t \in Threads |-> "idle"]
    /\ conn = [t \in Threads |-> None]
    /\ events = 0

Goto(t, label) == pc' = [pc EXCEPT ![t] = label]

Sleeping == {t \in Threads : pc[t] = "sleep"}

-----------------------------------------------------------------------------
\* A request thread calls put, get, conditional_put, ... of MetadataStore.
Call(t) ==
    /\ pc[t] = "idle"
    /\ events < MaxEvents
    /\ events' = events + 1
    /\ Goto(t, "enter")
    /\ UNCHANGED <<available, mutex, conn>>

\* acquire() locks pool_mu_, first on entry and again when wait() wakes up.
LockPool(t) ==
    /\ pc[t] \in {"enter", "woken"}
    /\ mutex = None
    /\ mutex' = t
    /\ Goto(t, "check")
    /\ UNCHANGED <<available, conn, events>>

\* Handing out the front of the queue without popping it.
TakeWithoutPop(t) ==
    /\ pc[t] = "check"
    /\ available # <<>>
    /\ conn' = [conn EXCEPT ![t] = Head(available)]
    /\ mutex' = None
    /\ Goto(t, "use")
    /\ UNCHANGED <<available, events>>

\* The predicate holds: pop the front and unlock.
Take(t) ==
    /\ pc[t] = "check"
    /\ available # <<>>
    /\ conn' = [conn EXCEPT ![t] = Head(available)]
    /\ available' = Tail(available)
    /\ mutex' = None
    /\ Goto(t, "use")
    /\ UNCHANGED events

\* It does not: unlock and block on the condition variable, in one step.
Wait(t) ==
    /\ pc[t] = "check"
    /\ available = <<>>
    /\ mutex' = None
    /\ Goto(t, "sleep")
    /\ UNCHANGED <<available, conn, events>>

\* A condition variable may wake up for no reason.
SpuriousWakeup(t) ==
    /\ pc[t] = "sleep"
    /\ events < MaxEvents
    /\ events' = events + 1
    /\ Goto(t, "woken")
    /\ UNCHANGED <<available, mutex, conn>>

\* An exception that skips the destructor.
FinishLeaking(t) ==
    /\ pc[t] = "use"
    /\ conn' = [conn EXCEPT ![t] = None]
    /\ Goto(t, "idle")
    /\ UNCHANGED <<available, mutex, events>>

\* The transaction committed, aborted or threw; the handle is destroyed.
FinishTransaction(t) ==
    /\ pc[t] = "use"
    /\ Goto(t, "return")
    /\ UNCHANGED <<available, mutex, conn, events>>

\* Signalling only when the queue was empty.
NotifyFirstOnly(t) ==
    /\ pc[t] = "return"
    /\ mutex = None
    /\ available' = Append(available, conn[t])
    /\ conn' = [conn EXCEPT ![t] = None]
    /\ Goto(t, IF available = <<>> THEN "notify" ELSE "idle")
    /\ UNCHANGED <<mutex, events>>

\* Pushing the handle's pointer after it was cleared.
PushCleared(t) ==
    /\ pc[t] = "return"
    /\ mutex = None
    /\ available' = Append(available, None)
    /\ conn' = [conn EXCEPT ![t] = None]
    /\ Goto(t, "notify")
    /\ UNCHANGED <<mutex, events>>

\* release(): push under the lock ...
PushBack(t) ==
    /\ pc[t] = "return"
    /\ mutex = None
    /\ available' = Append(available, conn[t])
    /\ conn' = [conn EXCEPT ![t] = None]
    /\ Goto(t, "notify")
    /\ UNCHANGED <<mutex, events>>

\* Returning without the signal.
ForgetNotify(t) ==
    /\ pc[t] = "notify"
    /\ Goto(t, "idle")
    /\ UNCHANGED <<available, mutex, conn, events>>

\* ... and notify_one() after it, which wakes one sleeper if there is any.
NotifyOne(t) ==
    /\ pc[t] = "notify"
    /\ \/ /\ Sleeping = {}
          /\ Goto(t, "idle")
       \/ \E s \in Sleeping : pc' = [pc EXCEPT ![t] = "idle", ![s] = "woken"]
    /\ UNCHANGED <<available, mutex, conn, events>>

-----------------------------------------------------------------------------
\* The steps a running thread owes; only calling again is up to the client.
Proceed(t) ==
    \/ LockPool(t) \/ Take(t) \/ Wait(t)
    \/ FinishTransaction(t) \/ PushBack(t) \/ NotifyOne(t)

\* All requests are answered and no more come.
Quiet ==
    /\ events = MaxEvents
    /\ \A t \in Threads : pc[t] = "idle"
    /\ UNCHANGED vars

Next ==
    \/ \E t \in Threads : Call(t) \/ Proceed(t) \/ SpuriousWakeup(t)
    \/ Quiet

\* A thread that can run does: the OS schedules it, Postgres answers or the
\* connection reports an error.  Spurious wakeups are not promised.
Fairness == \A t \in Threads : WF_vars(Proceed(t))

Spec == Init /\ [][Next]_vars /\ Fairness

-----------------------------------------------------------------------------
PCs == {"idle", "enter", "check", "sleep", "woken", "use", "return", "notify"}

\* Type correctness.
TypeOK ==
    /\ available \in Seq(Conns)
    /\ mutex \in Threads \cup {None}
    /\ pc \in [Threads -> PCs]
    /\ conn \in [Threads -> Conns \cup {None}]
    /\ events \in Nat

\* "each connection is checked out to exactly one thread at a time": no two
\* threads hold a connection, and none that is held is on the free list.
ExclusiveCheckout ==
    /\ \A t, u \in Threads : conn[t] # None /\ conn[t] = conn[u] => t = u
    /\ \A t \in Threads : \A i \in DOMAIN available : available[i] # conn[t]

\* No connection is lost: when every thread is idle the whole pool is free,
\* however the transactions ended.
NothingLeaks ==
    (\A t \in Threads : pc[t] = "idle") => {available[i] : i \in DOMAIN available} = Conns

\* A sleeper never misses the connection that was returned for it: while
\* someone sleeps, each free connection has a thread under way to it or a
\* signal still to be sent.
NoLostWakeup ==
    Sleeping # {} =>
        Len(available) <=
            Cardinality({t \in Threads : pc[t] \in {"enter", "woken", "check", "notify"}})

\* Every metadata operation gets a connection and returns, once no new calls
\* overtake it.
EveryCallReturns ==
    \A t \in Threads : pc[t] = "enter" ~> pc[t] = "idle"
=============================================================================
