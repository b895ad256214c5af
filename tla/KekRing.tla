------------------------------ MODULE KekRing ------------------------------
(***************************************************************************)
(* The key ring of StorageClient: kek_ring_ and active_kek_id_ under       *)
(* kek_mu_, the keystore file that save_kek_file() rewrites in place and   *)
(* load_kek_file() reads at start-up, and the puts that wrap their DEK     *)
(* under the active KEK.  The client may crash at any step.                *)
(*                                                                         *)
(* generateKekId() and the ML-KEM key pair are fresh: a KEK nothing refers *)
(* to.  Keks bounds how many can be in use at once.                        *)
(* An object is represented by the KEK its DEK is wrapped under; objects   *)
(* are never taken away again, which only asks more of the ring.           *)
(***************************************************************************)
CONSTANTS Threads,   \* request threads of the client
          Keks,      \* key ids with their key pairs
          None       \* no key

ASSUME KekAssumption == None \notin Keks

VARIABLES
    proc,      \* the client process
    ring,      \* kek_ring_
    active,    \* active_kek_id_
    file,      \* the keystore on disk
    writer,    \* kek_mu_ held exclusively
    readers,   \* kek_mu_ held shared
    pc,        \* per thread
    used,      \* per thread: used_kek_id of a running put
    wrapped,   \* KEKs of the objects whose metadata is committed
    saves      \* history: whether opening or writing the file ever failed

vars == <<proc, ring, active, file, writer, readers, pc, used, wrapped, saves>>
disk == <<file, wrapped, saves>>
lock == <<writer, readers>>

\* "torn" is a file that open(trunc) emptied and no complete write followed.
Absent == [state |-> "absent", keys |-> {}, active |-> None]
Torn   == [state |-> "torn", keys |-> {}, active |-> None]
Saved(keys, id) == [state |-> "saved", keys |-> keys, active |-> id]

Init ==
    /\ proc = "down"
    /\ ring = {}
    /\ active = None
    /\ file = Absent
    /\ writer = {}
    /\ readers = {}
    /\ pc = [t \in Threads |-> "idle"]
    /\ used = [t \in Threads |-> None]
    /\ wrapped = {}
    /\ saves = "ok"

\* What generateKekId() and create_private_key() may return.
Fresh ==
    Keks \ ({active} \cup ring \cup file.keys \cup wrapped \cup {used[t] : t \in Threads})

Goto(t, label) == pc' = [pc EXCEPT ![t] = label]

\* recover_dek(): the KEK named in the metadata, else every key of the ring.
Recoverable(kek) == kek \in ring

-----------------------------------------------------------------------------
\* The constructor: load the keystore, or create the first KEK and save it.
\* A torn keystore makes load_kek_file() throw and the process exit.
BootLoad ==
    /\ proc = "down"
    /\ file.state = "saved"
    /\ ring' = file.keys
    /\ active' = file.active
    /\ proc' = "up"
    /\ UNCHANGED <<disk, lock, pc, used>>

BootRefused ==
    /\ proc = "down"
    /\ file.state = "torn"
    /\ UNCHANGED vars

BootFresh ==
    /\ proc = "down"
    /\ file.state = "absent"
    /\ \E kek \in Fresh : ring' = {kek} /\ active' = kek
    /\ proc' = "creating"
    /\ UNCHANGED <<disk, lock, pc, used>>

BootTruncate ==
    /\ proc = "creating"
    /\ file' = Torn
    /\ proc' = "saving"
    /\ UNCHANGED <<ring, active, lock, pc, used, wrapped, saves>>

\* save_kek_file() writes and closes the stream and never looks at its state:
\* a short write goes unnoticed.
WriteKeystore ==
    \/ file' = Saved(ring, active) /\ UNCHANGED saves
    \/ file' = Torn /\ saves' = "failed"

BootWrite ==
    /\ proc = "saving"
    /\ WriteKeystore
    /\ proc' = "up"
    /\ UNCHANGED <<ring, active, lock, pc, used, wrapped>>

\* The process dies: memory and locks are gone, disk and catalog stay.
Crash ==
    /\ proc # "down"
    /\ proc' = "down"
    /\ ring' = {}
    /\ active' = None
    /\ writer' = {}
    /\ readers' = {}
    /\ pc' = [t \in Threads |-> "idle"]
    /\ used' = [t \in Threads |-> None]
    /\ UNCHANGED disk

-----------------------------------------------------------------------------
\* put(): the DEK is wrapped under a shared lock, shards and metadata are
\* written after it is released.
PutLock(t) ==
    /\ proc = "up"
    /\ pc[t] = "idle"
    /\ writer = {}
    /\ readers' = readers \cup {t}
    /\ Goto(t, "wrap")
    /\ UNCHANGED <<proc, ring, active, disk, writer, used>>

\* Forgetting which KEK was used.
PutWrapUnrecorded(t) ==
    /\ pc[t] = "wrap"
    /\ active \in ring
    /\ readers' = readers \ {t}
    /\ Goto(t, "commit")
    /\ UNCHANGED <<proc, ring, active, disk, writer, used>>

\* kek_ring_.at(active_kek_id_) throws when the active key is not there.
PutWrap(t) ==
    /\ pc[t] = "wrap"
    /\ active \in ring
    /\ used' = [used EXCEPT ![t] = active]
    /\ readers' = readers \ {t}
    /\ Goto(t, "commit")
    /\ UNCHANGED <<proc, ring, active, disk, writer>>

\* The metadata is committed, or the put fails on the way.
PutCommit(t) ==
    /\ pc[t] = "commit"
    /\ wrapped' \in {wrapped, wrapped \cup {used[t]}}
    /\ used' = [used EXCEPT ![t] = None]
    /\ Goto(t, "idle")
    /\ UNCHANGED <<proc, ring, active, file, lock, saves>>

-----------------------------------------------------------------------------
\* Taking the lock without waiting for the readers.
RotateBarge(t) ==
    /\ proc = "up"
    /\ pc[t] = "idle"
    /\ Fresh # {}
    /\ writer' = {t}
    /\ Goto(t, "activate")
    /\ UNCHANGED <<proc, ring, active, disk, readers, used>>

\* rotate(): everything, the save included, under the exclusive lock.
RotateLock(t) ==
    /\ proc = "up"
    /\ pc[t] = "idle"
    /\ Fresh # {}
    /\ writer = {}
    /\ readers = {}
    /\ writer' = {t}
    /\ Goto(t, "activate")
    /\ UNCHANGED <<proc, ring, active, disk, readers, used>>

\* active_kek_id_ is overwritten first, the key inserted second.
RotateActivate(t) ==
    /\ pc[t] = "activate"
    /\ active' \in Fresh
    /\ Goto(t, "emplace")
    /\ UNCHANGED <<proc, ring, disk, lock, used>>

\* Releasing the lock before the keystore is saved.
RotateEmplaceUnlocked(t) ==
    /\ pc[t] = "emplace"
    /\ ring' = ring \cup {active}
    /\ writer' = {}
    /\ Goto(t, "truncate")
    /\ UNCHANGED <<proc, active, disk, readers, used>>

RotateEmplace(t) ==
    /\ pc[t] = "emplace"
    /\ ring' = ring \cup {active}
    /\ Goto(t, "truncate")
    /\ UNCHANGED <<proc, active, disk, lock, used>>

\* save_kek_file() opens the file with trunc, or throws: rotate() reports the
\* error and the new key stays active in memory.
RotateTruncate(t) ==
    /\ pc[t] = "truncate"
    /\ file' = Torn
    /\ Goto(t, "write")
    /\ UNCHANGED <<proc, ring, active, lock, used, wrapped, saves>>

RotateOpenFails(t) ==
    /\ pc[t] = "truncate"
    /\ saves' = "failed"
    /\ writer' = {}
    /\ Goto(t, "idle")
    /\ UNCHANGED <<proc, ring, active, file, readers, used, wrapped>>

\* Writing the new key alone instead of the ring.
RotateWriteNewOnly(t) ==
    /\ pc[t] = "write"
    /\ file' = Saved({active}, active)
    /\ writer' = {}
    /\ Goto(t, "idle")
    /\ UNCHANGED <<proc, ring, active, readers, used, wrapped, saves>>

\* Releasing the lock with the stream not flushed yet.
RotateWriteUnflushed(t) ==
    /\ pc[t] = "write"
    /\ writer' = {}
    /\ Goto(t, "idle")
    /\ UNCHANGED <<proc, ring, active, disk, readers, used>>

RotateWrite(t) ==
    /\ pc[t] = "write"
    /\ WriteKeystore
    /\ writer' = {}
    /\ Goto(t, "idle")
    /\ UNCHANGED <<proc, ring, active, readers, used, wrapped>>

-----------------------------------------------------------------------------
Rotate(t) ==
    \/ RotateLock(t) \/ RotateActivate(t) \/ RotateEmplace(t)
    \/ RotateTruncate(t) \/ RotateOpenFails(t) \/ RotateWrite(t)

Next ==
    \/ BootLoad \/ BootRefused \/ BootFresh \/ BootTruncate \/ BootWrite
    \/ Crash
    \/ \E t \in Threads : PutLock(t) \/ PutWrap(t) \/ PutCommit(t) \/ Rotate(t)

Spec == Init /\ [][Next]_vars

-----------------------------------------------------------------------------
PCs == {"idle", "wrap", "commit", "activate", "emplace", "truncate", "write"}

File == [state : {"absent", "torn", "saved"}, keys : SUBSET Keks, active : Keks \cup {None}]

\* Type correctness.
TypeOK ==
    /\ proc \in {"down", "creating", "saving", "up"}
    /\ ring \subseteq Keks
    /\ active \in Keks \cup {None}
    /\ file \in File
    /\ writer \subseteq Threads
    /\ readers \subseteq Threads
    /\ pc \in [Threads -> PCs]
    /\ used \in [Threads -> Keks \cup {None}]
    /\ wrapped \subseteq Keks
    /\ saves \in {"ok", "failed"}

\* A put that holds the shared lock finds the active key in the ring: it never
\* sees rotate() between its two assignments, so kek_ring_.at() cannot throw.
WrapFindsActiveKey ==
    \A t \in Threads : pc[t] = "wrap" => active \in ring

\* "Key rotation is non-disruptive to reads": while the client runs, every
\* committed object can be decrypted, after any number of rotations, crashes
\* and restarts.
ObjectsRecoverable ==
    proc = "up" => \A kek \in wrapped : Recoverable(kek)

\* The same as long as no save has failed.
RecoverableUnlessSaveFails ==
    saves = "ok" => ObjectsRecoverable

\* "persists the updated ring to disk": as long as no save has failed, no
\* object is committed under a KEK that an intact keystore does not hold, so a
\* restart can read it.
WrappedKeysPersisted ==
    saves = "ok" /\ file.state = "saved" => wrapped \subseteq file.keys

\* The write that follows the truncation is the only moment at which a crash
\* loses the keystore: as long as no save has failed, a client that is up and
\* dies at any other step, in the middle of puts and of the rest of rotate(),
\* can start again and read every committed object.
RestartsUnlessSaving ==
    saves = "ok" /\ proc = "up" /\ (\A t \in Threads : pc[t] # "write") =>
        /\ file.state = "saved"
        /\ file.active \in file.keys
        /\ wrapped \subseteq file.keys
=============================================================================
