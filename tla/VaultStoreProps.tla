--------------------------- MODULE VaultStoreProps ---------------------------
(***************************************************************************)
(* What the vault directory of VaultStore must satisfy.                    *)
(***************************************************************************)
EXTENDS VaultStore

\* Every variable holds a value of its kind.
TypeOK ==
  /\ secrets \in Files \union {None}
  /\ bak \in Files \union {None}
  /\ lock \in LockFiles \union {None}
  /\ secretsDisk \subseteq Files \union {None}
  /\ bakDisk \subseteq Files \union {None}
  /\ litter \in BOOLEAN
  /\ recipients \in RecipientFiles
  /\ holder \in [LockFiles -> Procs \union {None}]
  /\ pc \in [Procs -> {"idle", "exit"} \union WriterPCs \union ReaderPCs]
  /\ request \in [Procs -> Requests \union {None}]
  /\ lockFd \in [Procs -> LockFiles \union {None}]
  /\ base \in [Procs -> Files \union {None}]
  /\ recips \in [Procs -> SUBSET Identities]
  /\ temp \in [Procs -> Files \union {None}]
  /\ err \in [Procs -> Statuses]
  /\ acked \in Nat
  /\ floor \in [Procs -> Nat]

(***************************************************************************)
(* The lock excludes: at most one process is between the flock and the     *)
(* unlock of withLock, crashes and power failures included (store.go,      *)
(* 101-118: "two writers then hold exclusive locks on different objects    *)
(* and exclude nobody").                                                   *)
(***************************************************************************)
OneWriter == \A p, q \in Procs : pc[p] \in CriticalPCs /\ pc[q] \in CriticalPCs => p = q

(***************************************************************************)
(* No update is lost: the vault a rename puts in place is the writer's     *)
(* change applied to the very vault that the rename replaces, not to an    *)
(* older one that another process has replaced since it was read.          *)
(***************************************************************************)
NoLostUpdateStep ==
  \A p \in Procs : pc[p] = "rename" /\ pc'[p] = "syncdir" =>
    /\ PlainOf(secrets') = Apply(request[p], PlainOf(secrets)).vault
    /\ VersionOf(secrets') = VersionOf(secrets) + 1
NoLostUpdate == [][NoLostUpdateStep]_vars

(***************************************************************************)
(* An acknowledged write is durable: whatever a power failure now or       *)
(* later makes of secrets.age, it is no older than the newest write whose  *)
(* process exited with success.                                            *)
(***************************************************************************)
AckedIsDurable == \A f \in secretsDisk : VersionOf(f) >= acked

(***************************************************************************)
(* The vault file is whole at every instant, for the reader that opens it  *)
(* without a lock and for the reboot that finds it: no file that is        *)
(* half-written or not yet on disk is ever reachable by its name.          *)
(***************************************************************************)
VaultIsWhole == \A f \in secretsDisk \union {secrets} : f # None => f.st = "synced"

(***************************************************************************)
(* A lock-free read is current: it answers from a vault at least as new as *)
(* every write acknowledged before the read was issued, though writers     *)
(* replace the file and crash while it runs.                               *)
(***************************************************************************)
ReadsAreCurrent ==
  \A p \in Procs :
    pc[p] = "exit" /\ Reading(p) /\ err[p] # Generic => VersionOf(base[p]) >= floor[p]

(***************************************************************************)
(* A write that succeeded has set its predecessor aside: secrets.age.bak   *)
(* is, in memory and on disk, exactly the vault that the write replaced.   *)
(***************************************************************************)
BackupIsPrevious ==
  \A p \in Procs :
    pc[p] \in {"cleanup", "unlock"} /\ err[p] = OK /\ base[p] # None =>
      bak = base[p] /\ bakDisk = {base[p]}

(***************************************************************************)
(* A failure at any step of save leaves no copy of the vault behind: once  *)
(* the process has given up the lock it has no temp file any more.         *)
(***************************************************************************)
FailureLeavesNoCopy ==
  \A p \in Procs : pc[p] \in {"unlock", "exit", "idle"} => temp[p] = None

(***************************************************************************)
(* The owner is locked out only by choice: a vault or backup that this     *)
(* machine cannot decrypt is one that was encrypted, as a whole, to the    *)
(* keys of a recipients file that leaves its own key out; it is never one  *)
(* encrypted to nobody, whenever the user edits or empties that file.      *)
(***************************************************************************)
VaultStaysReadable ==
  \A f \in secretsDisk \union bakDisk :
    Undecryptable(f) => f.to \in RecipientFiles \ {{}} /\ Me \notin f.to

(***************************************************************************)
(* Stored data is clean: every name in the vault is a shell identifier and *)
(* every value non-empty and free of NUL, whatever sequence of verbs led   *)
(* to it (format.go, 52-66: "an invariant every consumer inherits").       *)
(***************************************************************************)
StoredDataIsClean ==
  \A n \in Names :
    LET stored == PlainOf(secrets)[n]
    IN  stored # Absent => n \in ValidNames /\ stored \in ValidSecrets

(***************************************************************************)
(* secrets.age.bak is the previous vault whenever no write is under way    *)
(* (README.md, 248: "holds the previous ciphertext until the next write";  *)
(* delete.go, 12-13, says the same to the user).                           *)
(***************************************************************************)
BackupHeldUntilNextWrite ==
  VersionOf(secrets) > 1 /\ (\A p \in Procs : pc[p] \notin WriterPCs) =>
    VersionOf(bak) = VersionOf(secrets) - 1

(***************************************************************************)
(* Every writer returns: waiters get the lock, and no error path keeps it. *)
(***************************************************************************)
WritersReturn == Fairness => \A p \in Procs : Writing(p) ~> ~Writing(p)

(***************************************************************************)
(* A read returns whatever the writers do, even if one stops for ever with *)
(* the lock in its hands (store.go, 42-45: no lock, because it "would let  *)
(* a stuck writer block reads").                                           *)
(***************************************************************************)
ReadersNeverWait == \A p \in Procs : Reading(p) ~> ~Reading(p)
-----------------------------------------------------------------------------
(***************************************************************************)
(* The store implements AtomicVault.  A write takes effect at its rename   *)
(* and is safe after the directory's fsync; a read takes effect when it    *)
(* opens the file.                                                         *)
(***************************************************************************)
Contents(f) == IF f = None THEN None ELSE f.secrets

vault == Contents(secrets)
survivors == {Contents(f) : f \in secretsDisk}
sample == [p \in Procs |-> IF Reading(p) THEN Contents(base[p]) ELSE None]

PhaseAt(at) ==
  CASE at = "idle" -> "idle"
    [] at = "syncdir" -> "committed"
    [] at = "read" -> "sampled"
    [] at \in {"cleanup", "unlock", "exit"} -> "replied"
    [] OTHER -> "pending"
phase == [p \in Procs |-> PhaseAt(pc[p])]

Abstract == INSTANCE AtomicVault WITH NoVault <- None, reply <- err

\* Each mutation is one atomic change of the vault or none, and a success is
\* reported only when it cannot be lost; each read answers from one vault.
Implements == Abstract!Spec
=============================================================================
