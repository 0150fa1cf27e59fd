-------------------------- MODULE VaultStore_proofs --------------------------
(***************************************************************************)
(* Proofs about VaultStore for every number of processes, every set of     *)
(* requests, names, secrets and recipients, and every combination of       *)
(* faults.                                                                 *)
(***************************************************************************)
EXTENDS VaultStoreProps, TLAPS
(***************************************************************************)
(* What the callbacks return.                                              *)
(***************************************************************************)

\* New is a vault: every name holds nothing.
LEMMA NewType == New \in Vaults
  BY DEF New, Vaults

\* A callback keeps a vault a vault, whatever the verb and its arguments.
LEMMA ApplyType ==
  ASSUME NEW r \in Mutations, NEW v \in Vaults
  PROVE  Apply(r, v).vault \in Vaults /\ Apply(r, v).err \in Statuses
<1>1. CASE r \in SetRequests
  <2>1. Apply(r, v) = Set(v, r.key, r.secret)
    BY <1>1 DEF SetRequests, Apply
  <2>2. r.key \in Names /\ r.secret \in Secrets
    BY <1>1 DEF SetRequests
  <2> QED
    BY <2>1, <2>2 DEF Set, Mutated, Vaults, Statuses, OK, Generic
<1>2. CASE r \in DeleteRequests
  <2>1. Apply(r, v) = Delete(v, r.key)
    BY <1>2 DEF DeleteRequests, Apply
  <2> QED
    BY <2>1, <1>2 DEF Delete, Has, DeleteRequests, Mutated, Vaults, Statuses, OK, KeyNotFound
<1>3. CASE r \in RenameRequests
  <2>1. Apply(r, v) = Rename(v, r.old, r.new, r.force)
    BY <1>3 DEF RenameRequests, Apply
  <2>2. r.old \in Names /\ r.new \in Names
    BY <1>3 DEF RenameRequests
  <2> QED
    BY <2>1, <2>2 DEF Rename, Mutated, Vaults, Statuses, OK, Generic, KeyNotFound
<1>4. CASE r \in ImportRequests
  <2>1. Apply(r, v) = Import(v, r.entries, r.policy)
    BY <1>4 DEF ImportRequests, Apply
  <2>2. r.entries \in Vaults
    BY <1>4 DEF ImportRequests
  <2> QED
    BY <2>1, <2>2 DEF Import, Mutated, Vaults, Statuses, OK, Generic
<1> QED
  BY <1>1, <1>2, <1>3, <1>4 DEF Mutations
-----------------------------------------------------------------------------
(***************************************************************************)
(* Typing.  A process that writes has a writing request, one that reads a  *)
(* reading one: without that, the callback could be anything.              *)
(***************************************************************************)
RequestInv ==
  \A p \in Procs :
    /\ pc[p] \in WriterPCs => request[p] \in Requests /\ ~IsRead(request[p])
    /\ pc[p] \in ReaderPCs => request[p] \in Requests /\ IsRead(request[p])
    /\ pc[p] = "exit" => request[p] \in Requests
    /\ pc[p] = "idle" <=> request[p] = None

\* A temp file exists from CreateTemp on, until the rename or the cleanup.
TempInv ==
  \A p \in Procs :
    /\ pc[p] \in TempPCs \ {"cleanup"} => temp[p] # None
    /\ pc[p] \notin TempPCs => temp[p] = None

TypeInv == TypeOK /\ RequestInv /\ TempInv

LEMMA ResultType ==
  ASSUME TypeInv, NEW p \in Procs, pc[p] \in WriterPCs
  PROVE  Result(p).vault \in Vaults /\ Result(p).err \in Statuses
<1>1. request[p] \in Mutations
  BY StoreAssumption DEF TypeInv, RequestInv, ReadRequests, IsRead
<1>2. PlainOf(base[p]) \in Vaults
  BY NewType DEF TypeInv, TypeOK, PlainOf, Files
<1> QED
  BY <1>1, <1>2, ApplyType DEF Result

LEMMA SurvivesType ==
  ASSUME NEW f \in Files \union {None} PROVE Survives(f) \subseteq Files \union {None}
  BY DEF Survives, Files

\* A failure is one of three errors.
LEMMA FailuresAre ==
  ASSUME NEW p PROVE Failures(p) \subseteq {Generic, Identity, Decrypt}
  BY DEF Failures

LEMMA TypeInit == Init => TypeInv
<1> SUFFICES ASSUME Init PROVE TypeInv
  OBVIOUS
<1>1. TypeOK
  BY StoreAssumption DEF Init, TypeOK, Statuses, OK
<1>2. RequestInv /\ TempInv
  BY DEF Init, RequestInv, TempInv, WriterPCs, ReaderPCs, TempPCs
<1> QED
  BY <1>1, <1>2 DEF TypeInv

LEMMA TypeNext == TypeInv /\ [Next]_vars => TypeInv'
<1> SUFFICES ASSUME TypeInv, [Next]_vars PROVE TypeInv'
  OBVIOUS
<1> USE StoreAssumption DEF TypeInv, TypeOK, RequestInv, TempInv, names, disk, locals,
     Goto, Return, WriterPCs, ReaderPCs, TempPCs
<1>1. ASSUME NEW p \in Procs, Start(p) PROVE TypeInv'
  BY <1>1 DEF Start
<1>2. ASSUME NEW p \in Procs, OpenLock(p) PROVE TypeInv'
  BY <1>2 DEF OpenLock
<1>3. ASSUME NEW p \in Procs, Flock(p) PROVE TypeInv'
  BY <1>3 DEF Flock
<1>4. ASSUME NEW p \in Procs, OpenVault(p) PROVE TypeInv'
  BY <1>4 DEF OpenVault
<1>5. ASSUME NEW p \in Procs, Mutate(p) PROVE TypeInv'
  <2>1. Result(p).err \in Statuses
    BY <1>5, ResultType DEF Mutate
  <2> QED
    BY <1>5, <2>1 DEF Mutate, Statuses, Decrypt
<1>6. ASSUME NEW p \in Procs, Read(p) PROVE TypeInv'
  BY <1>6 DEF Read, LookupSome, Statuses, OK, KeyNotFound, VaultNotFound, Decrypt
<1>7. ASSUME NEW p \in Procs, LoadRecipients(p) PROVE TypeInv'
  BY <1>7 DEF LoadRecipients, Statuses, Identity
<1>8. ASSUME NEW p \in Procs, CreateTemp(p) PROVE TypeInv'
  BY <1>8, NewType DEF CreateTemp, Files
<1>9. ASSUME NEW p \in Procs, WriteTemp(p) PROVE TypeInv'
  <2>1. Result(p).vault \in Vaults
    BY <1>9, ResultType DEF WriteTemp
  <2>2. VersionOf(base[p]) \in Nat
    BY DEF VersionOf, Files
  <2> QED
    BY <1>9, <2>1, <2>2 DEF WriteTemp, Files
<1>10. ASSUME NEW p \in Procs, SyncTemp(p) PROVE TypeInv'
  BY <1>10 DEF SyncTemp, Files
<1>11. ASSUME NEW p \in Procs, StatVault(p) PROVE TypeInv'
  BY <1>11 DEF StatVault
<1>12. ASSUME NEW p \in Procs, RemoveBackup(p) PROVE TypeInv'
  BY <1>12 DEF RemoveBackup
<1>13. ASSUME NEW p \in Procs, LinkBackup(p) PROVE TypeInv'
  BY <1>13 DEF LinkBackup, Statuses, OK, Generic
<1>14. ASSUME NEW p \in Procs, RenameTemp(p) PROVE TypeInv'
  BY <1>14 DEF RenameTemp
<1>15. ASSUME NEW p \in Procs, SyncDir(p) PROVE TypeInv'
  BY <1>15 DEF SyncDir
<1>16. ASSUME NEW p \in Procs, Cleanup(p) PROVE TypeInv'
  BY <1>16 DEF Cleanup
<1>17. ASSUME NEW p \in Procs, Unlock(p) PROVE TypeInv'
  BY <1>17 DEF Unlock
<1>18. ASSUME NEW p \in Procs, Exit(p) PROVE TypeInv'
  <2>1. VersionOf(base[p]) + 1 \in Nat
    BY DEF VersionOf, Files
  <2> QED
    BY <1>18, <2>1 DEF Exit, Forget, Statuses, OK
<1>19. ASSUME NEW p \in Procs, IOError(p) PROVE TypeInv'
  BY <1>19, FailuresAre DEF IOError, Statuses, Generic, Identity, Decrypt
<1>20. ASSUME NEW p \in Procs, Kill(p) PROVE TypeInv'
  BY <1>20 DEF Kill, Forget, Statuses, OK
<1>21. ASSUME PowerFailure PROVE TypeInv'
  <2>1. secrets' \in Files \union {None} /\ bak' \in Files \union {None}
    BY <1>21, SurvivesType DEF PowerFailure
  <2> QED
    BY <1>21, <2>1 DEF PowerFailure, Statuses, OK
<1>22. ASSUME EditRecipients PROVE TypeInv'
  BY <1>22 DEF EditRecipients
<1>23. ASSUME UNCHANGED vars PROVE TypeInv'
  BY <1>23 DEF vars
<1> QED
  BY <1>1, <1>2, <1>3, <1>4, <1>5, <1>6, <1>7, <1>8, <1>9, <1>10, <1>11, <1>12, <1>13,
     <1>14, <1>15, <1>16, <1>17, <1>18, <1>19, <1>20, <1>21, <1>22, <1>23
     DEF Next, Step, Save

LEMMA TypeInvariant == Spec => []TypeInv
  BY TypeInit, TypeNext, PTL DEF Spec

\* Every variable always holds a value of its kind.
THEOREM TypeCorrect == Spec => []TypeOK
<1>1. TypeInv => TypeOK
  BY DEF TypeInv
<1> QED
  BY <1>1, TypeInvariant, PTL

(***************************************************************************)
(* After a failure at any step of save, the temp file is gone before the   *)
(* lock is (store.go, 139-141).                                            *)
(***************************************************************************)
THEOREM NoCopyLeft == Spec => []FailureLeavesNoCopy
<1>1. TypeInv => FailureLeavesNoCopy
  BY DEF TypeInv, TempInv, TempPCs, FailureLeavesNoCopy
<1> QED
  BY <1>1, TypeInvariant, PTL
-----------------------------------------------------------------------------
(***************************************************************************)
(* The lock.  OneWriter is not inductive: it holds because every process   *)
(* past the flock holds it on the inode it has open, and because every     *)
(* open lock file is the one inode that the name "lock" refers to, which   *)
(* is why the file must never be unlinked.                                 *)
(***************************************************************************)
LockInv ==
  \A p \in Procs :
    /\ pc[p] \in WriterPCs \ {"openlock"} => lockFd[p] # None
    /\ pc[p] \in CriticalPCs => holder[lockFd[p]] = p
    /\ lockFd[p] # None => lockFd[p] = lock

LEMMA LockExcludes == TypeInv /\ LockInv => OneWriter
  BY DEF TypeInv, TypeOK, LockInv, OneWriter, CriticalPCs, WriterPCs

LEMMA LockInit == Init => LockInv
  BY DEF Init, LockInv, WriterPCs, CriticalPCs

LEMMA LockNext == TypeInv /\ LockInv /\ [Next]_vars => LockInv'
<1> SUFFICES ASSUME TypeInv, LockInv, [Next]_vars PROVE LockInv'
  OBVIOUS
<1> USE StoreAssumption DEF TypeInv, TypeOK, RequestInv, LockInv, names, disk, locals,
     Goto, Return, WriterPCs, ReaderPCs, CriticalPCs
<1>1. ASSUME NEW p \in Procs, Start(p) PROVE LockInv'
  BY <1>1 DEF Start
<1>2. ASSUME NEW p \in Procs, OpenLock(p) PROVE LockInv'
  <2>1. CASE lock = None
    <3>1. \A q \in Procs : lockFd[q] = None
      BY <2>1
    <3> QED
      BY <1>2, <2>1, <3>1 DEF OpenLock
  <2>2. CASE lock # None
    BY <1>2, <2>2 DEF OpenLock
  <2> QED
    BY <2>1, <2>2
<1>3. ASSUME NEW p \in Procs, Flock(p) PROVE LockInv'
  <2>1. \A q \in Procs : pc[q] \notin CriticalPCs
    BY <1>3 DEF Flock
  <2> QED
    BY <1>3, <2>1 DEF Flock
<1>4. ASSUME NEW p \in Procs, OpenVault(p) PROVE LockInv'
  BY <1>4 DEF OpenVault
<1>5. ASSUME NEW p \in Procs, Mutate(p) PROVE LockInv'
  BY <1>5 DEF Mutate
<1>6. ASSUME NEW p \in Procs, Read(p) PROVE LockInv'
  BY <1>6 DEF Read
<1>7. ASSUME NEW p \in Procs, LoadRecipients(p) PROVE LockInv'
  BY <1>7 DEF LoadRecipients
<1>8. ASSUME NEW p \in Procs, CreateTemp(p) \/ WriteTemp(p) \/ SyncTemp(p) PROVE LockInv'
  BY <1>8 DEF CreateTemp, WriteTemp, SyncTemp
<1>9. ASSUME NEW p \in Procs, StatVault(p) PROVE LockInv'
  BY <1>9 DEF StatVault
<1>10. ASSUME NEW p \in Procs, RemoveBackup(p) \/ LinkBackup(p) PROVE LockInv'
  BY <1>10 DEF RemoveBackup, LinkBackup
<1>11. ASSUME NEW p \in Procs, RenameTemp(p) \/ SyncDir(p) \/ Cleanup(p) PROVE LockInv'
  BY <1>11 DEF RenameTemp, SyncDir, Cleanup
<1>12. ASSUME NEW p \in Procs, Unlock(p) PROVE LockInv'
  <2>1. \A q \in Procs : pc[q] \in CriticalPCs => q = p
    BY <1>12, LockExcludes DEF Unlock, OneWriter
  <2> QED
    BY <1>12, <2>1 DEF Unlock
<1>13. ASSUME NEW p \in Procs, Exit(p) \/ Kill(p) PROVE LockInv'
  BY <1>13 DEF Exit, Kill, Forget
<1>14. ASSUME NEW p \in Procs, IOError(p) PROVE LockInv'
  BY <1>14 DEF IOError
<1>15. ASSUME PowerFailure PROVE LockInv'
  BY <1>15 DEF PowerFailure
<1>16. ASSUME EditRecipients PROVE LockInv'
  BY <1>16 DEF EditRecipients
<1>17. ASSUME UNCHANGED vars PROVE LockInv'
  BY <1>17 DEF vars
<1> QED
  BY <1>1, <1>2, <1>3, <1>4, <1>5, <1>6, <1>7, <1>8, <1>9, <1>10, <1>11, <1>12, <1>13,
     <1>14, <1>15, <1>16, <1>17 DEF Next, Step, Save

LEMMA LockInvariant == Spec => [](TypeInv /\ LockInv)
  BY TypeInit, TypeNext, LockInit, LockNext, PTL DEF Spec

(***************************************************************************)
(* Mutual exclusion: however processes crash and whenever power fails, at  *)
(* most one of them is between the flock and the unlock of withLock.       *)
(***************************************************************************)
THEOREM MutualExclusion == Spec => []OneWriter
  BY LockInvariant, LockExcludes, PTL
-----------------------------------------------------------------------------
(***************************************************************************)
(* The data.  Only the holder of the lock replaces the vault, so what it   *)
(* has read is what it replaces; the file it renames was synced and is one *)
(* version newer, so no name can lead to an older or an unfinished file    *)
(* once the directory is synced.                                           *)
(***************************************************************************)
BaseInv ==
  \A p \in Procs :
    pc[p] \in CriticalPCs \ {"load", "syncdir", "cleanup", "unlock"} => base[p] = secrets

TempIsResult ==
  \A p \in Procs :
    pc[p] \in {"sync", "stat", "unlink", "link", "rename"} =>
      /\ temp[p].secrets = Result(p).vault
      /\ temp[p].version = VersionOf(base[p]) + 1
      /\ pc[p] # "sync" => temp[p].st = "synced"

ErrInv ==
  \A p \in Procs : pc[p] \notin {"cleanup", "unlock", "exit"} => err[p] = OK

DiskInv ==
  /\ secrets \in secretsDisk
  /\ \A f \in secretsDisk : VersionOf(f) >= acked /\ (f # None => f.st = "synced")

\* A writer about to report success: nothing older than its write can come back.
AckInv ==
  \A p \in Procs :
    /\ pc[p] = "syncdir" => VersionOf(secrets) >= VersionOf(base[p]) + 1
    /\ pc[p] \in {"cleanup", "unlock", "exit"} /\ Writing(p) /\ err[p] = OK =>
         \A f \in secretsDisk : VersionOf(f) >= VersionOf(base[p]) + 1

ReadInv ==
  \A p \in Procs :
    /\ floor[p] <= acked
    /\ pc[p] = "read" => VersionOf(base[p]) >= floor[p]
    /\ pc[p] = "exit" /\ Reading(p) /\ err[p] # Generic => VersionOf(base[p]) >= floor[p]

BackupInv ==
  \A p \in Procs :
    /\ pc[p] \in {"rename", "syncdir"} /\ base[p] # None => bak = base[p]
    /\ pc[p] \in {"cleanup", "unlock"} /\ base[p] # None /\ err[p] = OK =>
         bak = base[p] /\ bakDisk = {base[p]}

\* What only the refinement needs: nothing is read before the vault is opened,
\* and a writer goes on to save only when its callback returned no error.
ProgressInv ==
  \A p \in Procs :
    /\ pc[p] \in {"idle", "open", "openlock", "flock", "load"} => base[p] = None
    /\ pc[p] \in {"recipients", "create", "write", "sync", "stat", "unlink", "link", "rename"}
         => Result(p).err = OK

DataInv == ProgressInv /\ BaseInv /\ TempIsResult /\ ErrInv /\ DiskInv /\ AckInv /\ ReadInv /\ BackupInv
IInv == TypeInv /\ LockInv /\ DataInv

LEMMA DataInit == Init => DataInv
  BY DEF Init, DataInv, ProgressInv, BaseInv, TempIsResult, ErrInv, DiskInv, AckInv, ReadInv, BackupInv,
     CriticalPCs, WriterPCs, VersionOf, Writing, Reading

LEMMA DataNext == IInv /\ [Next]_vars => DataInv'
<1> SUFFICES ASSUME IInv, [Next]_vars PROVE DataInv'
  OBVIOUS
<1> USE StoreAssumption DEF IInv, TypeInv, TypeOK, RequestInv, TempInv, DataInv, ProgressInv, BaseInv,
     TempIsResult, ErrInv, DiskInv, AckInv, ReadInv, BackupInv, VersionOf, Result, Writing,
     Reading, names, disk, locals, Goto, Return, WriterPCs, ReaderPCs, CriticalPCs, TempPCs,
     Files, Statuses, OK, Generic, KeyNotFound, VaultNotFound, Identity, Decrypt
<1>a. OneWriter
  BY LockExcludes DEF IInv
<1>1. ASSUME NEW p \in Procs, Start(p) PROVE DataInv'
  BY <1>1 DEF Start
<1>2. ASSUME NEW p \in Procs, OpenLock(p) PROVE DataInv'
  BY <1>2 DEF OpenLock
<1>3. ASSUME NEW p \in Procs, Flock(p) PROVE DataInv'
  BY <1>3 DEF Flock
<1>4. ASSUME NEW p \in Procs, OpenVault(p) PROVE DataInv'
  BY <1>4 DEF OpenVault
<1>5. ASSUME NEW p \in Procs, Mutate(p) PROVE DataInv'
  <2>1. \E e : /\ err' = [err EXCEPT ![p] = e]
               /\ pc' = [pc EXCEPT ![p] = IF e = OK THEN "recipients" ELSE "unlock"]
    BY <1>5 DEF Mutate
  <2>2. PICK e : /\ err' = [err EXCEPT ![p] = e]
                 /\ pc' = [pc EXCEPT ![p] = IF e = OK THEN "recipients" ELSE "unlock"]
    BY <2>1
  <2>3. CASE e = OK
    BY <1>5, <2>2, <2>3 DEF Mutate
  <2>4. CASE e # OK
    BY <1>5, <2>2, <2>4 DEF Mutate
  <2> QED
    BY <2>3, <2>4
<1>6. ASSUME NEW p \in Procs, Read(p) PROVE DataInv'
  BY <1>6 DEF Read, LookupSome
<1>7. ASSUME NEW p \in Procs, LoadRecipients(p) PROVE DataInv'
  BY <1>7 DEF LoadRecipients
<1>8. ASSUME NEW p \in Procs, CreateTemp(p) PROVE DataInv'
  BY <1>8 DEF CreateTemp
<1>9. ASSUME NEW p \in Procs, WriteTemp(p) PROVE DataInv'
  BY <1>9 DEF WriteTemp
<1>10. ASSUME NEW p \in Procs, SyncTemp(p) PROVE DataInv'
  BY <1>10 DEF SyncTemp
<1>11. ASSUME NEW p \in Procs, StatVault(p) PROVE DataInv'
  BY <1>11 DEF StatVault
<1>12. ASSUME NEW p \in Procs, RemoveBackup(p) PROVE DataInv'
  BY <1>a, <1>12 DEF RemoveBackup, OneWriter
<1>13. ASSUME NEW p \in Procs, LinkBackup(p) PROVE DataInv'
  BY <1>13 DEF LinkBackup
<1>14. ASSUME NEW p \in Procs, RenameTemp(p) PROVE DataInv'
  BY <1>a, <1>14 DEF RenameTemp, OneWriter
<1>15. ASSUME NEW p \in Procs, SyncDir(p) PROVE DataInv'
  BY <1>15 DEF SyncDir
<1>16. ASSUME NEW p \in Procs, Cleanup(p) PROVE DataInv'
  BY <1>16 DEF Cleanup
<1>17. ASSUME NEW p \in Procs, Unlock(p) PROVE DataInv'
  BY <1>17 DEF Unlock
<1>18. ASSUME NEW p \in Procs, Exit(p) PROVE DataInv'
  BY <1>18 DEF Exit, Forget
<1>19. ASSUME NEW p \in Procs, IOError(p) PROVE DataInv'
  <2>1. UNCHANGED <<secrets, bak, secretsDisk, bakDisk, request, base, recips, temp, acked, floor>>
    BY <1>19 DEF IOError
  <2>2. PICK e \in Failures(p) :
          \/ \E from \in {"openlock", "flock", "open", "read"} : Return(p, from, e, "exit")
          \/ \E from \in {"load", "mutate", "recipients", "create"} :
               Return(p, from, e, "unlock")
          \/ \E from \in {"write", "sync", "stat", "unlink", "link", "rename", "syncdir"} :
               Return(p, from, e, "cleanup")
    BY <1>19 DEF IOError
  <2>3. e \in {Generic, Identity, Decrypt} /\ (pc[p] = "open" => e = Generic)
    BY FailuresAre DEF Failures
  <2>4. CASE \E from \in {"openlock", "flock", "open", "read"} : Return(p, from, e, "exit")
    BY <2>1, <2>3, <2>4
  <2>5. CASE \E from \in {"load", "mutate", "recipients", "create"} :
               Return(p, from, e, "unlock")
    BY <2>1, <2>3, <2>5
  <2>6. CASE \E from \in {"write", "sync", "stat", "unlink", "link", "rename", "syncdir"} :
               Return(p, from, e, "cleanup")
    BY <2>1, <2>3, <2>6
  <2> QED
    BY <2>2, <2>4, <2>5, <2>6
<1>20. ASSUME NEW p \in Procs, Kill(p) PROVE DataInv'
  BY <1>20 DEF Kill, Forget
<1>21. ASSUME PowerFailure PROVE DataInv'
  BY <1>21 DEF PowerFailure, Survives
<1>22. ASSUME EditRecipients PROVE DataInv'
  BY <1>22 DEF EditRecipients
<1>23. ASSUME UNCHANGED vars PROVE DataInv'
  BY <1>23 DEF vars
<1> QED
  BY <1>1, <1>2, <1>3, <1>4, <1>5, <1>6, <1>7, <1>8, <1>9, <1>10, <1>11, <1>12, <1>13,
     <1>14, <1>15, <1>16, <1>17, <1>18, <1>19, <1>20, <1>21, <1>22, <1>23
     DEF Next, Step, Save

LEMMA Invariant == Spec => []IInv
<1>1. Init => IInv
  BY TypeInit, LockInit, DataInit DEF IInv
<1>2. IInv /\ [Next]_vars => IInv'
  BY TypeNext, LockNext, DataNext DEF IInv
<1> QED
  BY <1>1, <1>2, PTL DEF Spec

(***************************************************************************)
(* Durability: once a writer has exited with success, no power failure     *)
(* brings back a vault older than the one it wrote.                        *)
(***************************************************************************)
THEOREM Durability == Spec => []AckedIsDurable
<1>1. IInv => AckedIsDurable
  BY DEF IInv, DataInv, DiskInv, AckedIsDurable
<1> QED
  BY <1>1, Invariant, PTL

(***************************************************************************)
(* Neither a reader without a lock nor a reboot ever finds a vault file    *)
(* that is not complete and on disk.                                       *)
(***************************************************************************)
THEOREM NeverTorn == Spec => []VaultIsWhole
<1>1. IInv => VaultIsWhole
  BY DEF IInv, DataInv, DiskInv, VaultIsWhole
<1> QED
  BY <1>1, Invariant, PTL

(***************************************************************************)
(* A read sees every write that was acknowledged before it was issued.     *)
(***************************************************************************)
THEOREM FreshReads == Spec => []ReadsAreCurrent
<1>1. IInv => ReadsAreCurrent
  BY DEF IInv, DataInv, ReadInv, ReadsAreCurrent
<1> QED
  BY <1>1, Invariant, PTL

(***************************************************************************)
(* A successful write leaves its predecessor in secrets.age.bak.           *)
(***************************************************************************)
THEOREM BackupKept == Spec => []BackupIsPrevious
<1>1. IInv => BackupIsPrevious
  BY DEF IInv, DataInv, BackupInv, BackupIsPrevious
<1> QED
  BY <1>1, Invariant, PTL

(***************************************************************************)
(* Every rename installs the writer's change of the vault it replaces.     *)
(***************************************************************************)
THEOREM UpdatesAreKept == Spec => NoLostUpdate
<1>1. IInv /\ [Next]_vars => NoLostUpdateStep
  <2> SUFFICES ASSUME IInv, [Next]_vars, NEW p \in Procs, pc[p] = "rename", pc'[p] = "syncdir"
               PROVE  /\ PlainOf(secrets') = Apply(request[p], PlainOf(secrets)).vault
                      /\ VersionOf(secrets') = VersionOf(secrets) + 1
    BY DEF NoLostUpdateStep
  <2>1. RenameTemp(p)
    <3>1. pc \in [Procs -> {"idle", "exit"} \union WriterPCs \union ReaderPCs]
      BY DEF IInv, TypeInv, TypeOK
    <3>2. ASSUME NEW q \in Procs, NEW from, NEW to, Goto(q, from, to)
          PROVE  q = p /\ from = "rename" /\ to = "syncdir"
      BY <3>1, <3>2 DEF Goto
    <3>3. ASSUME NEW q \in Procs, Step(q) PROVE RenameTemp(p)
      BY <3>1, <3>2, <3>3 DEF Step, Save, OpenLock, Flock, OpenVault, Mutate, Read,
         LoadRecipients, CreateTemp, WriteTemp, SyncTemp, StatVault, RemoveBackup, LinkBackup,
         RenameTemp, SyncDir, Cleanup, Unlock, Exit, Forget, Return
    <3>4. ASSUME NEW q \in Procs, Start(q) \/ IOError(q) PROVE FALSE
      BY <3>2, <3>4 DEF Start, IOError, Return
    <3>5. ASSUME NEW q \in Procs, Kill(q) PROVE FALSE
      BY <3>1, <3>5 DEF Kill, Forget
    <3>6. ~PowerFailure /\ ~EditRecipients /\ ~UNCHANGED vars
      BY <3>1 DEF PowerFailure, EditRecipients, vars
    <3> QED
      BY <3>3, <3>4, <3>5, <3>6 DEF Next
  <2>2. secrets' = temp[p] /\ temp[p] # None
    BY <2>1 DEF RenameTemp, IInv, TypeInv, TempInv, TempPCs
  <2>3. /\ temp[p].secrets = Apply(request[p], PlainOf(secrets)).vault
        /\ temp[p].version = VersionOf(secrets) + 1
    BY DEF IInv, DataInv, BaseInv, TempIsResult, Result, CriticalPCs, WriterPCs
  <2> QED
    BY <2>2, <2>3 DEF PlainOf, VersionOf
<1> QED
  BY <1>1, Invariant, PTL DEF Spec, NoLostUpdate
-----------------------------------------------------------------------------
(***************************************************************************)
(* What can be in a file that a name leads to: clean data, encrypted as a  *)
(* whole to a recipients file that is not empty.  Neither property below   *)
(* is inductive: a file comes from the temp file of the process that       *)
(* renamed it, whose data comes from a file read earlier and whose         *)
(* recipients were cached before it was created.                           *)
(***************************************************************************)
Clean(v) == \A n \in Names : v[n] # Absent => n \in ValidNames /\ v[n] \in ValidSecrets

SomeRecipients == RecipientFiles \ {{}}

GoodFile(f) == f.to \in SomeRecipients /\ f.st = "synced" /\ Clean(f.secrets)

NamedInv ==
  \A f \in {secrets, bak} \union secretsDisk \union bakDisk : f # None => GoodFile(f)

LocalInv ==
  \A p \in Procs :
    /\ base[p] # None => GoodFile(base[p])
    /\ pc[p] \in {"create", "write"} => recips[p] \in SomeRecipients
    /\ pc[p] \in {"sync", "stat", "unlink", "link", "rename"} =>
         temp[p].to \in SomeRecipients /\ Clean(temp[p].secrets)

ContentInv == NamedInv /\ LocalInv

LEMMA NewClean == Clean(New)
  BY DEF Clean, New

(***************************************************************************)
(* Every verb that writes keeps a clean vault clean by itself, whether or  *)
(* not its arguments were checked before the store was opened.             *)
(***************************************************************************)
LEMMA ApplyClean ==
  ASSUME NEW r \in Mutations, NEW v \in Vaults, Clean(v)
  PROVE  Clean(Apply(r, v).vault)
<1>1. CASE r \in SetRequests
  <2>1. Apply(r, v) = Set(v, r.key, r.secret)
    BY <1>1 DEF SetRequests, Apply
  <2> QED
    BY <2>1 DEF Set, Mutated, CheckKey, CheckValue, Clean, Vaults
<1>2. CASE r \in DeleteRequests
  <2>1. Apply(r, v) = Delete(v, r.key)
    BY <1>2 DEF DeleteRequests, Apply
  <2> QED
    BY <2>1 DEF Delete, Mutated, Clean, Vaults
<1>3. CASE r \in RenameRequests
  <2>1. Apply(r, v) = Rename(v, r.old, r.new, r.force)
    BY <1>3 DEF RenameRequests, Apply
  <2>2. r.old \in Names /\ r.new \in Names
    BY <1>3 DEF RenameRequests
  <2> QED
    BY <2>1, <2>2 DEF Rename, Mutated, Has, CheckKey, Clean, Vaults
<1>4. CASE r \in ImportRequests
  <2>1. Apply(r, v) = Import(v, r.entries, r.policy)
    BY <1>4 DEF ImportRequests, Apply
  <2> QED
    BY <2>1 DEF Import, Mutated, CheckKey, CheckValue, Clean
<1> QED
  BY <1>1, <1>2, <1>3, <1>4 DEF Mutations

LEMMA ContentInit == Init => ContentInv
  BY DEF Init, ContentInv, NamedInv, LocalInv

LEMMA ContentNext == IInv /\ ContentInv /\ [Next]_vars => ContentInv'
<1> SUFFICES ASSUME IInv, ContentInv, [Next]_vars PROVE ContentInv'
  OBVIOUS
<1> USE StoreAssumption DEF ContentInv, NamedInv, LocalInv, SomeRecipients, names, disk, locals,
     Goto, Return
<1>0. TypeInv /\ TypeOK
  BY DEF IInv, TypeInv
<1>1. ASSUME NEW p \in Procs, Start(p) PROVE ContentInv'
  BY <1>0, <1>1 DEF Start, TypeOK
<1>2. ASSUME NEW p \in Procs, OpenLock(p) \/ Flock(p) PROVE ContentInv'
  BY <1>0, <1>2 DEF OpenLock, Flock, TypeOK
<1>3. ASSUME NEW p \in Procs, OpenVault(p) PROVE ContentInv'
  BY <1>0, <1>3 DEF OpenVault, TypeOK
<1>4. ASSUME NEW p \in Procs, Mutate(p) \/ Read(p) PROVE ContentInv'
  BY <1>0, <1>4 DEF Mutate, Read, TypeOK
<1>5. ASSUME NEW p \in Procs, LoadRecipients(p) PROVE ContentInv'
  BY <1>0, <1>5 DEF LoadRecipients, TypeOK
<1>6. ASSUME NEW p \in Procs, CreateTemp(p) PROVE ContentInv'
  BY <1>0, <1>6 DEF CreateTemp, TypeOK
<1>7. ASSUME NEW p \in Procs, WriteTemp(p) PROVE ContentInv'
  <2>1. request[p] \in Mutations
    BY <1>0, <1>7 DEF WriteTemp, TypeInv, RequestInv, WriterPCs, ReadRequests, IsRead
  <2>2. PlainOf(base[p]) \in Vaults /\ Clean(PlainOf(base[p]))
    BY <1>0, NewType, NewClean DEF TypeOK, PlainOf, Files, GoodFile
  <2>3. Clean(Result(p).vault)
    BY <2>1, <2>2, ApplyClean DEF Result
  <2> QED
    BY <1>0, <1>7, <2>3 DEF WriteTemp, TypeOK
<1>8. ASSUME NEW p \in Procs, SyncTemp(p) PROVE ContentInv'
  BY <1>0, <1>8 DEF SyncTemp, TypeOK, TypeInv, TempInv, TempPCs, Files
<1>9. ASSUME NEW p \in Procs, StatVault(p) PROVE ContentInv'
  BY <1>0, <1>9 DEF StatVault, TypeOK
<1>10. ASSUME NEW p \in Procs, RemoveBackup(p) \/ LinkBackup(p) PROVE ContentInv'
  BY <1>0, <1>10 DEF RemoveBackup, LinkBackup, TypeOK
<1>11. ASSUME NEW p \in Procs, RenameTemp(p) PROVE ContentInv'
  <2>1. GoodFile(temp[p])
    BY <1>11 DEF RenameTemp, GoodFile, IInv, DataInv, TempIsResult
  <2> QED
    BY <1>0, <1>11, <2>1 DEF RenameTemp, TypeOK
<1>12. ASSUME NEW p \in Procs, SyncDir(p) \/ Cleanup(p) \/ Unlock(p) PROVE ContentInv'
  BY <1>0, <1>12 DEF SyncDir, Cleanup, Unlock, TypeOK
<1>13. ASSUME NEW p \in Procs, Exit(p) \/ Kill(p) PROVE ContentInv'
  BY <1>0, <1>13 DEF Exit, Kill, Forget, TypeOK
<1>14. ASSUME NEW p \in Procs, IOError(p) PROVE ContentInv'
  BY <1>0, <1>14 DEF IOError, TypeOK
<1>15. ASSUME PowerFailure PROVE ContentInv'
  <2>1. secrets' \in secretsDisk /\ bak' \in bakDisk
    BY <1>15 DEF PowerFailure, Survives, GoodFile
  <2> QED
    BY <1>15, <2>1 DEF PowerFailure
<1>16. ASSUME EditRecipients PROVE ContentInv'
  BY <1>16 DEF EditRecipients
<1>17. ASSUME UNCHANGED vars PROVE ContentInv'
  BY <1>17 DEF vars
<1> QED
  BY <1>1, <1>2, <1>3, <1>4, <1>5, <1>6, <1>7, <1>8, <1>9, <1>10, <1>11, <1>12, <1>13,
     <1>14, <1>15, <1>16, <1>17 DEF Next, Step, Save

LEMMA ContentInvariant == Spec => []ContentInv
  BY Invariant, ContentInit, ContentNext, PTL DEF Spec

(***************************************************************************)
(* Whatever sequence of verbs of whichever processes led to it, the vault  *)
(* holds no bad name, no empty value and no NUL (format.go, 52-66).        *)
(***************************************************************************)
THEOREM CleanData == Spec => []StoredDataIsClean
<1>1. ContentInv => StoredDataIsClean
  BY NewClean DEF ContentInv, NamedInv, GoodFile, Clean, StoredDataIsClean, PlainOf
<1> QED
  BY <1>1, ContentInvariant, PTL

(***************************************************************************)
(* A vault or backup that its owner cannot decrypt was encrypted to a      *)
(* recipients file without the owner's key; it is neither torn nor         *)
(* encrypted to nobody (store.go, 205-227).                                *)
(***************************************************************************)
THEOREM NeverLockedOut == Spec => []VaultStaysReadable
<1>1. ContentInv => VaultStaysReadable
  BY DEF ContentInv, NamedInv, GoodFile, SomeRecipients, VaultStaysReadable, Undecryptable, Readable
<1> QED
  BY <1>1, ContentInvariant, PTL
-----------------------------------------------------------------------------
(***************************************************************************)
(* The directory protocol of VaultStore implements AtomicVault: every step *)
(* of a process, a kill and a power failure is a step of the atomic vault  *)
(* or leaves it as it is.                                                  *)
(***************************************************************************)
(***************************************************************************)
(* Abstract and VaultStore share the operators of Vault.                   *)
(***************************************************************************)
LEMMA SameOperators ==
  /\ Abstract!OK = OK /\ Abstract!Generic = Generic /\ Abstract!Identity = Identity
  /\ Abstract!Decrypt = Decrypt /\ Abstract!VaultNotFound = VaultNotFound
  /\ \A r : Abstract!IsRead(r) = IsRead(r)
  /\ \A r, v : Abstract!LookupSome(r, v) = LookupSome(r, v)
  /\ \A r, v : Abstract!Apply(r, v) = Apply(r, v)
<1>1. /\ Abstract!OK = OK /\ Abstract!Generic = Generic /\ Abstract!Identity = Identity
      /\ Abstract!Decrypt = Decrypt /\ Abstract!VaultNotFound = VaultNotFound
      /\ Abstract!KeyNotFound = KeyNotFound
  BY DEF OK, Generic, Identity, Decrypt, VaultNotFound, KeyNotFound, Abstract!OK,
     Abstract!Generic, Abstract!Identity, Abstract!Decrypt, Abstract!VaultNotFound,
     Abstract!KeyNotFound
<1>2. /\ \A r : Abstract!IsRead(r) = IsRead(r)
      /\ \A r, v : Abstract!LookupSome(r, v) = LookupSome(r, v)
  BY <1>1 DEF IsRead, LookupSome, Missing, Has, Abstract!IsRead, Abstract!LookupSome,
     Abstract!Missing, Abstract!Has
<1>3. ASSUME NEW r, NEW v PROVE Abstract!Apply(r, v) = Apply(r, v)
  <2>1. Abstract!Set(v, r.key, r.secret) = Set(v, r.key, r.secret)
    BY <1>1 DEF Set, CheckKey, CheckValue, Mutated, Abstract!Set, Abstract!CheckKey,
       Abstract!CheckValue, Abstract!Mutated
  <2>2. Abstract!Delete(v, r.key) = Delete(v, r.key)
    BY <1>1 DEF Delete, Has, Mutated, Abstract!Delete, Abstract!Has, Abstract!Mutated
  <2>3. Abstract!Rename(v, r.old, r.new, r.force) = Rename(v, r.old, r.new, r.force)
    BY <1>1 DEF Rename, CheckKey, Has, Mutated, Abstract!Rename, Abstract!CheckKey,
       Abstract!Has, Abstract!Mutated
  <2>4. Abstract!Import(v, r.entries, r.policy) = Import(v, r.entries, r.policy)
    BY <1>1 DEF Import, CheckKey, CheckValue, Has, Mutated, Abstract!Import,
       Abstract!CheckKey, Abstract!CheckValue, Abstract!Has, Abstract!Mutated
  <2> QED
    BY <2>1, <2>2, <2>3, <2>4 DEF Apply, Abstract!Apply
<1> QED
  BY <1>1, <1>2, <1>3

\* The vault as a callback sees it, when there is one and when there is none.
LEMMA SameContents ==
  ASSUME NEW f \in Files \union {None} PROVE Abstract!ContentsOf(Contents(f)) = PlainOf(f)
<1>1. f # None => f.secrets # None
  BY StoreAssumption DEF Files
<1>2. Abstract!New = New
  BY DEF New, Abstract!New
<1> QED
  BY <1>1, <1>2 DEF Contents, PlainOf, Abstract!ContentsOf
-----------------------------------------------------------------------------
(***************************************************************************)
(* How a step of one process shows in the abstract state.                  *)
(***************************************************************************)
LEMMA PhaseMove ==
  ASSUME TypeOK, NEW p \in Procs, NEW from, NEW to, Goto(p, from, to)
  PROVE  /\ phase[p] = PhaseAt(from)
         /\ phase' = [phase EXCEPT ![p] = PhaseAt(to)]
         /\ PhaseAt(from) = PhaseAt(to) => phase' = phase
<1>1. /\ pc[p] = from /\ pc' = [pc EXCEPT ![p] = to]
      /\ pc \in [Procs -> {"idle", "exit"} \union WriterPCs \union ReaderPCs]
  BY DEF Goto, TypeOK
<1> QED
  BY <1>1 DEF phase

LEMMA SampleKept == UNCHANGED <<request, base>> => sample' = sample
  BY DEF sample, Reading

LEMMA VaultKept == UNCHANGED <<secrets, secretsDisk>> => vault' = vault /\ survivors' = survivors
  BY DEF vault, survivors

\* An error before the reply: nothing else of the abstract state moves.
LEMMA FailStep ==
  ASSUME TypeOK, NEW p \in Procs, NEW from, NEW to, NEW e \in {Generic, Identity, Decrypt},
         Return(p, from, e, to), PhaseAt(from) \in {"pending", "committed", "sampled"},
         PhaseAt(to) = "replied", UNCHANGED <<secrets, secretsDisk, request, base>>
  PROVE  Abstract!Fail(p)
  BY PhaseMove, SampleKept, VaultKept, SameOperators DEF Return, Abstract!Fail

\* A local step that the atomic vault does not see.
LEMMA StutterStep ==
  ASSUME TypeOK, NEW p \in Procs, NEW from, NEW to, Goto(p, from, to),
         PhaseAt(from) = PhaseAt(to), UNCHANGED <<secrets, secretsDisk, request, base, err>>
  PROVE  UNCHANGED Abstract!vars
  BY PhaseMove, SampleKept, VaultKept DEF Abstract!vars

LEMMA StartStep ==
  ASSUME IInv, NEW p \in Procs, Start(p)
  PROVE  Abstract!Submit(p)
<1>1. PICK r \in Requests : /\ Goto(p, "idle", IF IsRead(r) THEN "open" ELSE "openlock")
                            /\ request' = [request EXCEPT ![p] = r]
  BY DEF Start
<1>2. phase[p] = "idle" /\ phase' = [phase EXCEPT ![p] = "pending"]
  BY <1>1, PhaseMove DEF PhaseAt, IInv, TypeInv
<1>3. sample' = sample
  <2>1. base[p] = None /\ base' = base
    BY <1>1 DEF Start, Goto, IInv, DataInv, ProgressInv
  <2>2. \A q \in Procs : q # p => Reading(q)' = Reading(q)
    BY <1>1 DEF Reading, IInv, TypeInv, TypeOK
  <2> QED
    BY <2>1, <2>2 DEF sample, Contents
<1>4. UNCHANGED <<secrets, secretsDisk, err>>
  BY DEF Start, names, disk
<1> QED
  BY <1>1, <1>2, <1>3, <1>4, VaultKept DEF Abstract!Submit

LEMMA OpenStep ==
  ASSUME IInv, NEW p \in Procs, OpenVault(p)
  PROVE  Abstract!Sample(p) \/ UNCHANGED Abstract!vars
<1>1. /\ base' = [base EXCEPT ![p] = secrets]
      /\ UNCHANGED <<secrets, secretsDisk, request, err>>
  BY DEF OpenVault, names, disk
<1>2. TypeOK /\ request \in [Procs -> Requests \union {None}]
      /\ base \in [Procs -> Files \union {None}]
  BY DEF IInv, TypeInv, TypeOK
<1>3. CASE Goto(p, "load", "mutate")
  <2>1. ~Reading(p)
    BY <1>3 DEF IInv, TypeInv, RequestInv, Goto, WriterPCs, Reading
  <2>2. sample' = sample
    BY <1>1, <1>2, <2>1 DEF sample, Reading
  <2>3. phase' = phase
    BY <1>2, <1>3, PhaseMove DEF PhaseAt
  <2> QED
    BY <1>1, <2>2, <2>3, VaultKept DEF Abstract!vars
<1>4. CASE Goto(p, "open", "read")
  <2>1. Reading(p) /\ IsRead(request[p])
    BY <1>4, StoreAssumption DEF IInv, TypeInv, RequestInv, Goto, ReaderPCs, Reading
  <2>2. sample' = [sample EXCEPT ![p] = vault]
    BY <1>1, <1>2, <2>1 DEF sample, Reading, vault
  <2>3. phase[p] = "pending" /\ phase' = [phase EXCEPT ![p] = "sampled"]
    BY <1>2, <1>4, PhaseMove DEF PhaseAt
  <2> QED
    BY <1>1, <2>1, <2>2, <2>3, VaultKept, SameOperators DEF Abstract!Sample
<1> QED
  BY <1>3, <1>4 DEF OpenVault

LEMMA MutateStep ==
  ASSUME IInv, NEW p \in Procs, Mutate(p)
  PROVE  Abstract!Refuse(p) \/ Abstract!Fail(p) \/ UNCHANGED Abstract!vars
<1>1. UNCHANGED <<secrets, secretsDisk, request, base>> /\ TypeOK
  BY DEF Mutate, names, disk, IInv, TypeInv
<1>2. CASE Undecryptable(base[p]) /\ Return(p, "mutate", Decrypt, "unlock")
  BY <1>1, <1>2, FailStep DEF PhaseAt
<1>3. CASE Return(p, "mutate", Result(p).err, IF Result(p).err = OK THEN "recipients"
                                                                    ELSE "unlock")
  <2>1. CASE Result(p).err = OK
    <3>1. Goto(p, "mutate", "recipients") /\ err' = err
      BY <1>1, <1>3, <2>1 DEF Return, Goto, IInv, DataInv, ErrInv, TypeOK
    <3> QED
      BY <1>1, <3>1, StutterStep DEF PhaseAt
  <2>2. CASE Result(p).err # OK
    <3>1. Goto(p, "mutate", "unlock") /\ err' = [err EXCEPT ![p] = Result(p).err]
      BY <1>3, <2>2 DEF Return
    <3>2. phase[p] = "pending" /\ phase' = [phase EXCEPT ![p] = "replied"]
      BY <1>1, <3>1, PhaseMove DEF PhaseAt
    <3>3. ~IsRead(request[p]) /\ base[p] = secrets /\ secrets \in Files \union {None}
      BY <3>1 DEF Goto, IInv, TypeInv, TypeOK, RequestInv, DataInv, BaseInv, WriterPCs,
         CriticalPCs
    <3>4. Result(p).err = Abstract!Apply(request[p], Abstract!ContentsOf(vault)).err
      BY <3>3, SameContents, SameOperators DEF Result, vault
    <3>5. err'[p] # OK
      BY <1>1, <2>2, <3>1 DEF TypeOK
    <3> QED
      BY <1>1, <3>1, <3>2, <3>3, <3>4, <3>5, SampleKept, VaultKept, SameOperators
         DEF Abstract!Refuse
  <2> QED
    BY <2>1, <2>2
<1> QED
  BY <1>2, <1>3 DEF Mutate

LEMMA ReadStep ==
  ASSUME IInv, NEW p \in Procs, Read(p)
  PROVE  Abstract!Answer(p) \/ Abstract!Fail(p)
<1>1. UNCHANGED <<secrets, secretsDisk, request, base>> /\ TypeOK
  BY DEF Read, names, disk, IInv, TypeInv
<1>2. CASE Undecryptable(base[p]) /\ Return(p, "read", Decrypt, "exit")
  BY <1>1, <1>2, FailStep DEF PhaseAt
<1>3. ASSUME NEW e, e = IF base[p] = None THEN VaultNotFound
                        ELSE LookupSome(request[p], base[p].secrets),
             Return(p, "read", e, "exit")
      PROVE  Abstract!Answer(p)
  <2>1. sample[p] = Contents(base[p])
    BY <1>3, StoreAssumption DEF Return, Goto, sample, Reading, IInv, TypeInv, RequestInv,
       ReaderPCs
  <2>2. base[p] # None => base[p].secrets # None
    BY StoreAssumption DEF IInv, TypeInv, TypeOK, Files
  <2>3. phase[p] = "sampled" /\ phase' = [phase EXCEPT ![p] = "replied"]
    BY <1>1, <1>3, PhaseMove DEF Return, PhaseAt
  <2> QED
    BY <1>1, <1>3, <2>1, <2>2, <2>3, SampleKept, VaultKept, SameOperators
       DEF Contents, Return, Abstract!Answer
<1> QED
  BY <1>2, <1>3 DEF Read

LEMMA RenameStep ==
  ASSUME IInv, NEW p \in Procs, RenameTemp(p)
  PROVE  Abstract!Commit(p)
<1>1. /\ Goto(p, "rename", "syncdir") /\ secrets' = temp[p]
      /\ secretsDisk' = secretsDisk \union {temp[p]}
      /\ UNCHANGED <<request, base, err>>
  BY DEF RenameTemp, names, disk
<1>2. TypeOK /\ temp[p] # None /\ ~IsRead(request[p]) /\ base[p] = secrets
      /\ secrets \in Files \union {None}
  BY <1>1 DEF Goto, IInv, TypeInv, TypeOK, RequestInv, TempInv, TempPCs, DataInv, BaseInv,
     CriticalPCs, WriterPCs
<1>3. Result(p).err = OK /\ temp[p].secrets = Result(p).vault
  BY <1>1 DEF Goto, IInv, DataInv, ProgressInv, TempIsResult
<1>4. Result(p) = Abstract!Apply(request[p], Abstract!ContentsOf(vault))
  BY <1>2, SameContents, SameOperators DEF Result, vault
<1>5. vault' = Result(p).vault /\ survivors' = survivors \union {vault'}
  BY <1>1, <1>2, <1>3 DEF vault, survivors, Contents
<1>6. phase[p] = "pending" /\ phase' = [phase EXCEPT ![p] = "committed"]
  BY <1>1, <1>2, PhaseMove DEF PhaseAt
<1> QED
  BY <1>1, <1>2, <1>3, <1>4, <1>5, <1>6, SampleKept, SameOperators DEF Abstract!Commit

LEMMA SyncDirStep ==
  ASSUME IInv, NEW p \in Procs, SyncDir(p)
  PROVE  Abstract!Persist(p)
<1>1. /\ Goto(p, "syncdir", "cleanup") /\ secretsDisk' = {secrets}
      /\ UNCHANGED <<secrets, request, base, err>>
  BY DEF SyncDir, names, locals
<1>2. vault' = vault /\ survivors' = {vault}
  BY <1>1 DEF vault, survivors, Contents
<1>3. phase[p] = "committed" /\ phase' = [phase EXCEPT ![p] = "replied"]
  BY <1>1, PhaseMove DEF PhaseAt, IInv, TypeInv
<1> QED
  BY <1>1, <1>2, <1>3, SampleKept DEF Abstract!Persist

\* An exit and a kill alike end the request.
LEMMA ForgetStep ==
  ASSUME IInv, NEW p \in Procs, Forget(p), pc[p] # "idle", UNCHANGED <<secrets, secretsDisk>>
  PROVE  Abstract!Exit(p)
<1>1. /\ pc \in [Procs -> {"idle", "exit"} \union WriterPCs \union ReaderPCs]
      /\ request \in [Procs -> Requests \union {None}]
      /\ base \in [Procs -> Files \union {None}]
  BY DEF IInv, TypeInv, TypeOK
<1>2. phase[p] # "idle" /\ phase' = [phase EXCEPT ![p] = "idle"]
  BY <1>1 DEF Forget, phase, PhaseAt
<1>3. sample' = [sample EXCEPT ![p] = None]
  BY <1>1 DEF Forget, sample, Reading
<1> QED
  BY <1>2, <1>3, VaultKept, SameOperators DEF Forget, Abstract!Exit

LEMMA PowerStep ==
  ASSUME IInv, PowerFailure
  PROVE  Abstract!PowerFailure
<1>1. secrets' \in secretsDisk /\ secretsDisk' = {secrets'}
  BY DEF PowerFailure, Survives, IInv, DataInv, DiskInv
<1>2. vault' \in survivors /\ survivors' = {vault'}
  BY <1>1 DEF vault, survivors
<1>3. phase' = [p \in Procs |-> "idle"] /\ sample' = [p \in Procs |-> None]
  BY DEF PowerFailure, phase, PhaseAt, sample, Reading
<1> QED
  BY <1>2, <1>3, SameOperators DEF PowerFailure, Abstract!PowerFailure

\* The steps of a process that only prepare a change, or clean up after it.
LEMMA LocalStep ==
  ASSUME IInv, NEW p \in Procs,
         \/ OpenLock(p) \/ Flock(p) \/ CreateTemp(p) \/ WriteTemp(p) \/ SyncTemp(p)
         \/ StatVault(p) \/ RemoveBackup(p) \/ Cleanup(p) \/ Unlock(p)
  PROVE  UNCHANGED Abstract!vars
<1>1. UNCHANGED <<secrets, secretsDisk, request, base, err>> /\ TypeOK
  BY DEF OpenLock, Flock, CreateTemp, WriteTemp, SyncTemp, StatVault, RemoveBackup, Cleanup,
     Unlock, names, disk, locals, IInv, TypeInv
<1>2. PICK from, to : Goto(p, from, to) /\ PhaseAt(from) = PhaseAt(to)
  BY DEF OpenLock, Flock, CreateTemp, WriteTemp, SyncTemp, StatVault, RemoveBackup, Cleanup,
     Unlock, PhaseAt
<1> QED
  BY <1>1, <1>2, StutterStep

\* The two steps of save that may turn back without a failing system call.
LEMMA CheckStep ==
  ASSUME IInv, NEW p \in Procs, LoadRecipients(p) \/ LinkBackup(p)
  PROVE  Abstract!Fail(p) \/ UNCHANGED Abstract!vars
<1>1. UNCHANGED <<secrets, secretsDisk, request, base>> /\ TypeOK
  BY DEF LoadRecipients, LinkBackup, names, disk, IInv, TypeInv
<1>2. CASE LoadRecipients(p)
  <2>1. CASE Goto(p, "recipients", "create") /\ UNCHANGED err
    BY <1>1, <2>1, StutterStep DEF PhaseAt
  <2>2. CASE Return(p, "recipients", Identity, "unlock")
    BY <1>1, <2>2, FailStep DEF PhaseAt
  <2> QED
    BY <1>2, <2>1, <2>2 DEF LoadRecipients
<1>3. CASE LinkBackup(p)
  <2>1. CASE bak # None \/ secrets = None
    <3>1. Return(p, "link", Generic, "cleanup")
      BY <1>3, <2>1 DEF LinkBackup
    <3> QED
      BY <1>1, <3>1, FailStep DEF PhaseAt
  <2>2. CASE ~(bak # None \/ secrets = None)
    <3>1. Goto(p, "link", "rename") /\ UNCHANGED err
      BY <1>3, <2>2 DEF LinkBackup, Return, Goto, IInv, TypeInv, TypeOK, DataInv, ErrInv
    <3> QED
      BY <1>1, <3>1, StutterStep DEF PhaseAt
  <2> QED
    BY <2>1, <2>2
<1> QED
  BY <1>2, <1>3

LEMMA IOErrorStep ==
  ASSUME IInv, NEW p \in Procs, IOError(p)
  PROVE  Abstract!Fail(p)
<1>1. UNCHANGED <<secrets, secretsDisk, request, base>> /\ TypeOK
  BY DEF IOError, names, disk, IInv, TypeInv
<1>2. PICK e, from, to : /\ e \in Failures(p) /\ Return(p, from, e, to)
                         /\ PhaseAt(from) \in {"pending", "committed", "sampled"}
                         /\ PhaseAt(to) = "replied"
  BY DEF IOError, PhaseAt
<1> QED
  BY <1>1, <1>2, FailuresAre, FailStep

LEMMA RefinementInit == Init => Abstract!Init
  BY SameOperators DEF Init, Abstract!Init, vault, survivors, sample, phase, PhaseAt, Contents,
     Reading

LEMMA RefinementNext == IInv /\ [Next]_vars => [Abstract!Next]_Abstract!vars
<1> SUFFICES ASSUME IInv, [Next]_vars PROVE [Abstract!Next]_Abstract!vars
  OBVIOUS
<1>1. ASSUME NEW p \in Procs, Start(p) PROVE Abstract!Next
  BY <1>1, StartStep DEF Abstract!Next
<1>2. ASSUME NEW p \in Procs, Step(p) PROVE [Abstract!Next]_Abstract!vars
  <2>1. CASE OpenVault(p)
    BY <2>1, OpenStep DEF Abstract!Next
  <2>2. CASE Mutate(p) \/ Read(p)
    BY <2>2, MutateStep, ReadStep DEF Abstract!Next
  <2>3. CASE LoadRecipients(p) \/ LinkBackup(p)
    BY <2>3, CheckStep DEF Abstract!Next
  <2>4. CASE RenameTemp(p) \/ SyncDir(p)
    BY <2>4, RenameStep, SyncDirStep DEF Abstract!Next
  <2>5. CASE Exit(p)
    <3>1. Forget(p) /\ pc[p] # "idle" /\ UNCHANGED <<secrets, secretsDisk>>
      BY <2>5 DEF Exit, names, disk
    <3> QED
      BY <3>1, ForgetStep DEF Abstract!Next
  <2> QED
    BY <1>2, <2>1, <2>2, <2>3, <2>4, <2>5, LocalStep DEF Step, Save
<1>3. ASSUME NEW p \in Procs, IOError(p) PROVE Abstract!Next
  BY <1>3, IOErrorStep DEF Abstract!Next
<1>4. ASSUME NEW p \in Procs, Kill(p) PROVE Abstract!Next
  <2>1. Forget(p) /\ pc[p] # "idle" /\ UNCHANGED <<secrets, secretsDisk>>
    BY <1>4 DEF Kill, names, disk
  <2> QED
    BY <2>1, ForgetStep DEF Abstract!Next
<1>5. CASE PowerFailure
  BY <1>5, PowerStep DEF Abstract!Next
<1>6. CASE EditRecipients \/ UNCHANGED vars
  <2>1. UNCHANGED <<secrets, secretsDisk, pc, request, base, err>>
    BY <1>6 DEF EditRecipients, vars, names, disk, locals
  <2> QED
    BY <2>1, SampleKept, VaultKept DEF Abstract!vars, phase
<1> QED
  BY <1>1, <1>2, <1>3, <1>4, <1>5, <1>6 DEF Next

(***************************************************************************)
(* The store implements the atomic vault: a mutation takes effect at one   *)
(* instant or not at all, success is reported only for what cannot be lost *)
(* any more, and a read answers from the vault of one instant.             *)
(***************************************************************************)
THEOREM StoreIsAtomic == Spec => Implements
<1>1. Spec => []IInv
  BY Invariant
<1> QED
  BY <1>1, RefinementInit, RefinementNext, PTL DEF Spec, Implements, Abstract!Spec
=============================================================================
