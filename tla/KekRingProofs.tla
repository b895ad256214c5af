--------------------------- MODULE KekRingProofs ---------------------------
(***************************************************************************)
(* Theorems about KekRing for any number of threads and keys.              *)
(***************************************************************************)
EXTENDS KekRing, TLAPS

Rotating == {"activate", "emplace", "truncate", "write"}

\* kek_mu_: one writer or any readers, and none in a process that is not up.
LockInv ==
    /\ \A t \in Threads : pc[t] \in Rotating => writer = {t}
    /\ \A t \in Threads : pc[t] = "wrap" <=> t \in readers
    /\ readers # {} => writer = {}
    /\ proc # "up" => \A t \in Threads : pc[t] = "idle"
    /\ writer # {} => \E t \in Threads : writer = {t} /\ pc[t] \in Rotating

\* The active key is in the ring except between rotate()'s two assignments.
ActiveInv ==
    /\ proc # "down" /\ (\A t \in Threads : pc[t] # "emplace") => active \in ring
    /\ \A t \in Threads : pc[t] = "emplace" => active \in Keks
    /\ file.state = "saved" => file.active \in file.keys
    /\ \A t \in Threads : pc[t] = "commit" => used[t] \in Keks

RingInv == TypeOK /\ LockInv /\ ActiveInv

LEMMA InitRing == Init => RingInv
BY DEF Init, RingInv, TypeOK, LockInv, ActiveInv, File, Absent, PCs, Rotating

LEMMA SavedType ==
    ASSUME NEW keys \in SUBSET Keks, NEW id \in Keks \cup {None}
    PROVE  /\ Saved(keys, id) \in File
           /\ Saved(keys, id).state = "saved"
           /\ Saved(keys, id).keys = keys
           /\ Saved(keys, id).active = id
BY DEF Saved, File

LEMMA TornType ==
    Torn \in File /\ Torn.state = "torn"
BY DEF Torn, File

LEMMA NextRing == RingInv /\ [Next]_vars => RingInv'
<1> SUFFICES ASSUME RingInv, [Next]_vars PROVE RingInv'
  OBVIOUS
<1> USE KekAssumption DEF RingInv, disk, lock, Goto
<1>1. CASE BootLoad
  BY <1>1 DEF BootLoad, TypeOK, LockInv, ActiveInv, File, Rotating
<1>2. CASE BootRefused
  BY <1>2 DEF BootRefused, vars, TypeOK, LockInv, ActiveInv
<1>3. CASE BootFresh
  BY <1>3 DEF BootFresh, Fresh, TypeOK, LockInv, ActiveInv, Rotating
<1>4. CASE BootTruncate
  BY <1>4, TornType DEF BootTruncate, TypeOK, LockInv, ActiveInv, Rotating
<1>5. CASE BootWrite
  <2>1. file' \in File /\ (file'.state = "saved" => file'.active \in file'.keys)
    BY <1>5, TornType, SavedType DEF BootWrite, WriteKeystore, TypeOK, LockInv, ActiveInv
  <2> QED BY <1>5, <2>1 DEF BootWrite, WriteKeystore, TypeOK, LockInv, ActiveInv, Rotating
<1>6. CASE Crash
  BY <1>6 DEF Crash, TypeOK, LockInv, ActiveInv, PCs, Rotating
<1>7. ASSUME NEW t \in Threads, PutLock(t) PROVE RingInv'
  BY <1>7 DEF PutLock, TypeOK, LockInv, ActiveInv, PCs, Rotating
<1>8. ASSUME NEW t \in Threads, PutWrap(t) PROVE RingInv'
  BY <1>8 DEF PutWrap, TypeOK, LockInv, ActiveInv, PCs, Rotating
<1>9. ASSUME NEW t \in Threads, PutCommit(t) PROVE RingInv'
  BY <1>9 DEF PutCommit, TypeOK, LockInv, ActiveInv, PCs, Rotating
<1>10. ASSUME NEW t \in Threads, RotateLock(t) PROVE RingInv'
  BY <1>10 DEF RotateLock, TypeOK, LockInv, ActiveInv, PCs, Rotating
<1>11. ASSUME NEW t \in Threads, RotateActivate(t) PROVE RingInv'
  BY <1>11 DEF RotateActivate, Fresh, TypeOK, LockInv, ActiveInv, PCs, Rotating
<1>12. ASSUME NEW t \in Threads, RotateEmplace(t) PROVE RingInv'
  BY <1>12 DEF RotateEmplace, TypeOK, LockInv, ActiveInv, PCs, Rotating
<1>13. ASSUME NEW t \in Threads, RotateTruncate(t) PROVE RingInv'
  BY <1>13, TornType DEF RotateTruncate, TypeOK, LockInv, ActiveInv, PCs, Rotating
<1>14. ASSUME NEW t \in Threads, RotateOpenFails(t) PROVE RingInv'
  BY <1>14 DEF RotateOpenFails, TypeOK, LockInv, ActiveInv, PCs, Rotating
<1>15. ASSUME NEW t \in Threads, RotateWrite(t) PROVE RingInv'
  <2>0. \A u \in Threads : pc[u] # "emplace"
    BY <1>15 DEF RotateWrite, LockInv, Rotating
  <2>1. file' \in File /\ (file'.state = "saved" => file'.active \in file'.keys)
    BY <1>15, <2>0, TornType, SavedType DEF RotateWrite, WriteKeystore, TypeOK, LockInv, ActiveInv, Rotating
  <2> QED BY <1>15, <2>0, <2>1 DEF RotateWrite, WriteKeystore, TypeOK, LockInv, ActiveInv, PCs, Rotating
<1>16. CASE UNCHANGED vars
  BY <1>16 DEF vars, TypeOK, LockInv, ActiveInv
<1> QED BY <1>1, <1>2, <1>3, <1>4, <1>5, <1>6, <1>7, <1>8, <1>9, <1>10, <1>11, <1>12,
           <1>13, <1>14, <1>15, <1>16 DEF Next, Rotate

\* The ring, the keystore file, the lock and every thread's step stay of their
\* types, also when the client restarts from a torn file or a save fails.
THEOREM RingTypeCorrect == Spec => []TypeOK
<1>1. Spec => []RingInv
  BY InitRing, NextRing, PTL DEF Spec
<1> QED BY <1>1, PTL DEF RingInv

\* kek_ring_.at(active_kek_id_) never throws in put(), whatever rotations,
\* failed saves and crashes came before: rotate() publishes its two
\* assignments together because it holds the exclusive lock over both.
THEOREM WrapAlwaysFindsActiveKey == Spec => []WrapFindsActiveKey
<1>1. Spec => []RingInv
  BY InitRing, NextRing, PTL DEF Spec
<1>2. RingInv => WrapFindsActiveKey
  BY DEF RingInv, LockInv, ActiveInv, WrapFindsActiveKey, Rotating
<1> QED BY <1>1, <1>2, PTL

-----------------------------------------------------------------------------
\* As long as no save has failed: an intact keystore holds every KEK in use,
\* and between rotations it is the ring.
Durable ==
    /\ file.state = "saved" => wrapped \subseteq file.keys
    /\ ObjectsRecoverable
    /\ file.state = "absent" => wrapped = {} /\ proc \in {"down", "creating"}
    /\ proc \in {"creating", "saving"} => wrapped = {}
    /\ proc = "up" /\ writer = {} => file.state = "saved" /\ file.keys = ring
    /\ proc = "up" /\ file.state = "saved" => file.keys \subseteq ring
    /\ proc = "up" /\ (\A t \in Threads : pc[t] # "write") => file.state = "saved"
    /\ \A t \in Threads : pc[t] = "commit" =>
          used[t] \in ring /\ (file.state = "saved" => used[t] \in file.keys)

DurableInv == saves = "ok" => Durable

LEMMA InitDurable == Init => DurableInv
BY DEF Init, DurableInv, Durable, ObjectsRecoverable, Absent

\* A failed save is not forgotten.
LEMMA FailureIsRemembered ==
    ASSUME RingInv, [Next]_vars, saves' = "ok"
    PROVE  saves = "ok"
BY DEF RingInv, TypeOK, Next, Rotate, vars, disk, BootLoad, BootRefused, BootFresh, BootTruncate,
       BootWrite, WriteKeystore, Crash, PutLock, PutWrap, PutCommit, RotateLock, RotateActivate,
       RotateEmplace, RotateTruncate, RotateOpenFails, RotateWrite

LEMMA NextDurable == RingInv /\ DurableInv /\ [Next]_vars => DurableInv'
<1> SUFFICES ASSUME RingInv, DurableInv, [Next]_vars, saves' = "ok" PROVE Durable'
  BY DEF DurableInv
<1>d. Durable
  BY FailureIsRemembered DEF DurableInv
<1> USE <1>d DEF Durable, ObjectsRecoverable, Recoverable, disk, lock, Goto
<1>t. /\ pc \in [Threads -> PCs] /\ used \in [Threads -> Keks \cup {None}]
      /\ ring \subseteq Keks /\ active \in Keks \cup {None}
  BY DEF RingInv, TypeOK
<1>1. CASE BootLoad
  BY <1>1, <1>t DEF BootLoad, RingInv, LockInv
<1>2. CASE BootRefused
  BY <1>2 DEF BootRefused, vars
<1>3. CASE BootFresh
  BY <1>3, <1>t DEF BootFresh, RingInv, LockInv
<1>4. CASE BootTruncate
  BY <1>4, TornType DEF BootTruncate, RingInv, LockInv
<1>5. CASE BootWrite
  <2>1. file' = Saved(ring, active)
    BY <1>5 DEF BootWrite, WriteKeystore
  <2> QED BY <1>5, <1>t, <2>1, SavedType DEF BootWrite, RingInv, LockInv
<1>6. CASE Crash
  BY <1>6 DEF Crash
<1>7. ASSUME NEW t \in Threads, PutLock(t) PROVE Durable'
  BY <1>7, <1>t DEF PutLock
<1>8. ASSUME NEW t \in Threads, PutWrap(t) PROVE Durable'
  <2>1. proc = "up" /\ writer = {}
    BY <1>8 DEF PutWrap, RingInv, LockInv
  <2> QED BY <1>8, <1>t, <2>1 DEF PutWrap
<1>9. ASSUME NEW t \in Threads, PutCommit(t) PROVE Durable'
  <2>1. proc = "up"
    BY <1>9 DEF PutCommit, RingInv, LockInv
  <2> QED BY <1>9, <1>t, <2>1 DEF PutCommit
<1>10. ASSUME NEW t \in Threads, RotateLock(t) PROVE Durable'
  BY <1>10, <1>t DEF RotateLock
<1>11. ASSUME NEW t \in Threads, RotateActivate(t) PROVE Durable'
  BY <1>11, <1>t DEF RotateActivate
<1>12. ASSUME NEW t \in Threads, RotateEmplace(t) PROVE Durable'
  <2>1. writer # {}
    BY <1>12 DEF RotateEmplace, RingInv, LockInv, Rotating
  <2> QED BY <1>12, <1>t, <2>1 DEF RotateEmplace
<1>13. ASSUME NEW t \in Threads, RotateTruncate(t) PROVE Durable'
  <2>1. writer # {} /\ proc = "up"
    BY <1>13 DEF RotateTruncate, RingInv, LockInv, Rotating
  <2> QED BY <1>13, <1>t, <2>1, TornType DEF RotateTruncate
<1>14. ASSUME NEW t \in Threads, RotateOpenFails(t) PROVE Durable'
  BY <1>14 DEF RotateOpenFails
<1>15. ASSUME NEW t \in Threads, RotateWrite(t) PROVE Durable'
  <2>1. file' = Saved(ring, active)
    BY <1>15 DEF RotateWrite, WriteKeystore
  <2>2. proc = "up"
    BY <1>15 DEF RotateWrite, RingInv, LockInv
  <2> QED BY <1>15, <1>t, <2>1, <2>2, SavedType DEF RotateWrite
<1>16. CASE UNCHANGED vars
  BY <1>16 DEF vars
<1> QED BY <1>1, <1>2, <1>3, <1>4, <1>5, <1>6, <1>7, <1>8, <1>9, <1>10, <1>11, <1>12,
           <1>13, <1>14, <1>15, <1>16 DEF Next, Rotate

LEMMA DurableInvariant == Spec => []DurableInv
<1>1. Spec => []RingInv
  BY InitRing, NextRing, PTL DEF Spec
<1> QED BY <1>1, NextDurable, InitDurable, PTL DEF Spec

\* While the keystore could be written, no object is ever committed under a KEK
\* that an intact keystore lacks: the exclusive lock covers the save, so a put
\* cannot pick up a key that is not on disk yet.
THEOREM WrappedKeysArePersisted == Spec => []WrappedKeysPersisted
<1>1. DurableInv => WrappedKeysPersisted
  BY DEF DurableInv, Durable, WrappedKeysPersisted
<1> QED BY <1>1, DurableInvariant, PTL

\* While the keystore could be written, every committed object can be decrypted
\* whenever the client is up, across rotations, crashes and restarts.
THEOREM ObjectsAreRecoverable == Spec => []RecoverableUnlessSaveFails
<1>1. DurableInv => RecoverableUnlessSaveFails
  BY DEF DurableInv, Durable, RecoverableUnlessSaveFails
<1> QED BY <1>1, DurableInvariant, PTL

\* While the keystore could be written, a crash loses it between the truncation
\* and the end of the write and at no other step of any thread: at every other
\* moment the client that dies can start again and read every object.
THEOREM CrashesOutsideTheSaveAreSurvived == Spec => []RestartsUnlessSaving
<1>1. Spec => []RingInv
  BY InitRing, NextRing, PTL DEF Spec
<1>2. RingInv /\ DurableInv => RestartsUnlessSaving
  BY DEF RingInv, ActiveInv, DurableInv, Durable, RestartsUnlessSaving
<1> QED BY <1>1, <1>2, DurableInvariant, PTL
=============================================================================
