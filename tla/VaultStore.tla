----------------------------- MODULE VaultStore -----------------------------
(***************************************************************************)
(* The vault directory of internal/vault/store.go and the processes that   *)
(* work on it.  Writers (Store.Update) read, modify and replace the whole  *)
(* file under an exclusive flock; readers (Store.Load) take no lock.  One  *)
(* action is one system call that another process, a kill or a power       *)
(* failure can come between, with the local computation that follows it.   *)
(*                                                                         *)
(* Once renamed into place a file is never written again, so a directory   *)
(* entry holds the file's contents, and a hard link is the same contents   *)
(* under a second name.                                                    *)
(***************************************************************************)
EXTENDS Vault

CONSTANTS
  Procs,          \* kleidos processes, each running one verb at a time
  Requests,       \* the verbs with arguments they may be given
  LockFiles,      \* inodes the lock file can have
  Identities,     \* age key pairs
  Me,             \* the one in this machine's identity file
  RecipientFiles, \* what the user may put in the recipients file
  MaxVersion,     \* bound: no request is issued once the vault is this old
  Faults,         \* which of "io", "kill" and "power" can happen
  None            \* nothing: no such file, no holder, no request

Files == [secrets : Vaults,           \* the plaintext inside the envelope
          version : Nat,              \* history: how many writes led to it
          to : SUBSET Identities,     \* who can decrypt it
          st : {"partial", "written", "synced"}]

ASSUME StoreAssumption ==
  /\ Me \in Identities
  /\ RecipientFiles \subseteq SUBSET Identities
  /\ Requests \subseteq Mutations \union ReadRequests
  /\ MaxVersion \in Nat
  /\ None \notin Files /\ None \notin Procs /\ None \notin LockFiles
  /\ None \notin Vaults /\ None \notin Requests

VARIABLES
  secrets,      \* secrets.age, or None
  bak,          \* secrets.age.bak, or None
  lock,         \* the inode the name "lock" refers to, or None
  secretsDisk,  \* what secrets.age may turn out to be after a power failure
  bakDisk,      \* likewise for secrets.age.bak
  litter,       \* some .secrets-*.tmp file has no process to remove it
  recipients,   \* the recipients file; {} when missing or empty
  holder,       \* per lock inode, the process whose flock is granted
  pc,           \* per process, the next system call
  request,      \* the verb it runs
  lockFd,       \* the lock inode it has open
  base,         \* the vault file it has opened and read
  recips,       \* Store.recips, the cached recipients
  temp,         \* its temp file, while that has a name
  err,          \* the error it returns, OK while there is none
  acked,        \* history: newest version whose writer exited with success
  floor         \* history: acked when the request was issued

names == <<secrets, bak, lock>>
disk == <<secretsDisk, bakDisk>>
locals == <<request, lockFd, base, recips, temp, err, floor>>
vars == <<names, disk, litter, recipients, holder, pc, locals, acked>>

VersionOf(f) == IF f = None THEN 0 ELSE f.version
PlainOf(f) == IF f = None THEN New ELSE f.secrets

\* age.Decrypt and Decode: a torn file, or one for other identities, fails.
Readable(f) == f.st # "partial" /\ Me \in f.to
Undecryptable(f) == f # None /\ ~Readable(f)

\* The vault that save writes: Update's callback applied to what it loaded.
Result(p) == Apply(request[p], PlainOf(base[p]))

WriterPCs == {"openlock", "flock", "load", "mutate", "recipients", "create",
              "write", "sync", "stat", "unlink", "link", "rename", "syncdir",
              "cleanup", "unlock"}
ReaderPCs == {"open", "read"}
CriticalPCs == WriterPCs \ {"openlock", "flock"}
TempPCs == {"write", "sync", "stat", "unlink", "link", "rename", "cleanup"}

Init ==
  /\ secrets = None /\ bak = None /\ lock = None
  /\ secretsDisk = {None} /\ bakDisk = {None}
  /\ litter = FALSE
  /\ recipients \in RecipientFiles
  /\ holder = [l \in LockFiles |-> None]
  /\ pc = [p \in Procs |-> "idle"]
  /\ request = [p \in Procs |-> None]
  /\ lockFd = [p \in Procs |-> None]
  /\ base = [p \in Procs |-> None]
  /\ recips = [p \in Procs |-> {}]
  /\ temp = [p \in Procs |-> None]
  /\ err = [p \in Procs |-> OK]
  /\ acked = 0
  /\ floor = [p \in Procs |-> 0]
-----------------------------------------------------------------------------
Goto(p, from, to) == pc[p] = from /\ pc' = [pc EXCEPT ![p] = to]

\* A handler that returns error e and unwinds to the step named by to.
Return(p, from, e, to) == Goto(p, from, to) /\ err' = [err EXCEPT ![p] = e]

\* A verb starts: its arguments are accepted, and Open has loaded the identity.
Start(p) ==
  /\ VersionOf(secrets) < MaxVersion
  /\ \E r \in Requests :
       /\ Accepted(r)
       /\ Goto(p, "idle", IF IsRead(r) THEN "open" ELSE "openlock")
       /\ request' = [request EXCEPT ![p] = r]
  /\ floor' = [floor EXCEPT ![p] = acked]
  /\ UNCHANGED <<names, disk, litter, recipients, holder, lockFd, base, recips, temp,
                 err, acked>>

\* os.OpenFile with O_CREATE: a missing lock file gets an inode nobody has open.
OpenLock(p) ==
  /\ Goto(p, "openlock", "flock")
  /\ lock' \in IF lock = None THEN {l \in LockFiles : \A q \in Procs : lockFd[q] # l}
                              ELSE {lock}
  /\ lockFd' = [lockFd EXCEPT ![p] = lock']
  /\ UNCHANGED <<secrets, bak, disk, litter, recipients, holder, request, base, recips,
                 temp, err, acked, floor>>

\* Mutant of Flock: LOCK_SH, which any number of processes may hold.
FlockShared(p) ==
  /\ Goto(p, "flock", "load")
  /\ holder' = [holder EXCEPT ![lockFd[p]] = p]
  /\ UNCHANGED <<names, disk, litter, recipients, locals, acked>>

\* flock(LOCK_EX) blocks while another process holds the same inode.
Flock(p) ==
  /\ Goto(p, "flock", "load")
  /\ holder[lockFd[p]] = None
  /\ holder' = [holder EXCEPT ![lockFd[p]] = p]
  /\ UNCHANGED <<names, disk, litter, recipients, locals, acked>>

\* Mutant of OpenVault: a reader, too, waits until nobody holds the lock.
OpenVaultLocked(p) ==
  /\ \/ Goto(p, "load", "mutate")
     \/ Goto(p, "open", "read") /\ \A l \in LockFiles : holder[l] = None
  /\ base' = [base EXCEPT ![p] = secrets]
  /\ UNCHANGED <<names, disk, litter, recipients, holder, request, lockFd, recips, temp,
                 err, acked, floor>>

\* load opens secrets.age: the file it gets is the one the name refers to now.
OpenVault(p) ==
  /\ Goto(p, "load", "mutate") \/ Goto(p, "open", "read")
  /\ base' = [base EXCEPT ![p] = secrets]
  /\ UNCHANGED <<names, disk, litter, recipients, holder, request, lockFd, recips, temp,
                 err, acked, floor>>

\* Mutant of Mutate: a refused change is tried again, from the flock on.
MutateRetrying(p) ==
  /\ pc[p] = "mutate"
  /\ pc' = [pc EXCEPT ![p] = IF Result(p).err = OK THEN "recipients" ELSE "flock"]
  /\ UNCHANGED <<names, disk, litter, recipients, holder, locals, acked>>

\* The rest of load, and the callback on the vault it decoded (New if none).
Mutate(p) ==
  /\ \/ Undecryptable(base[p]) /\ Return(p, "mutate", Decrypt, "unlock")
     \/ /\ ~Undecryptable(base[p])
        /\ Return(p, "mutate", Result(p).err,
                  IF Result(p).err = OK THEN "recipients" ELSE "unlock")
  /\ UNCHANGED <<names, disk, litter, recipients, holder, request, lockFd, base, recips,
                 temp, acked, floor>>

\* Mutant of Read: the keys are looked up in a file opened a second time.
ReadReopening(p) ==
  /\ base[p] # None /\ secrets # None
  /\ Return(p, "read", LookupSome(request[p], secrets.secrets), "exit")
  /\ UNCHANGED <<names, disk, litter, recipients, holder, request, lockFd, base, recips,
                 temp, acked, floor>>

\* A reader decrypts the file it has open and resolves its keys.
Read(p) ==
  /\ \/ base[p] = None /\ Return(p, "read", VaultNotFound, "exit")
     \/ Undecryptable(base[p]) /\ Return(p, "read", Decrypt, "exit")
     \/ /\ base[p] # None /\ ~Undecryptable(base[p])
        /\ Return(p, "read", LookupSome(request[p], base[p].secrets), "exit")
  /\ UNCHANGED <<names, disk, litter, recipients, holder, request, lockFd, base, recips,
                 temp, acked, floor>>
-----------------------------------------------------------------------------
(***************************************************************************)
(* save, one step per system call.                                         *)
(***************************************************************************)
\* Mutant of LoadRecipients: an empty recipients file is accepted.
LoadNoRecipients(p) ==
  /\ Goto(p, "recipients", "create")
  /\ recips' = [recips EXCEPT ![p] = recipients]
  /\ UNCHANGED <<names, disk, litter, recipients, holder, request, lockFd, base, temp,
                 err, acked, floor>>

LoadRecipients(p) ==
  /\ \/ recipients # {} /\ Goto(p, "recipients", "create") /\ UNCHANGED err
     \/ recipients = {} /\ Return(p, "recipients", Identity, "unlock")
  /\ recips' = [recips EXCEPT ![p] = recipients]
  /\ UNCHANGED <<names, disk, litter, recipients, holder, request, lockFd, base, temp,
                 acked, floor>>

CreateTemp(p) ==
  /\ Goto(p, "create", "write")
  /\ temp' = [temp EXCEPT ![p] = [secrets |-> New, version |-> 0, to |-> {},
                                  st |-> "partial"]]
  /\ UNCHANGED <<names, disk, litter, recipients, holder, request, lockFd, base, recips,
                 err, acked, floor>>

\* age.Encrypt to the cached recipients, Encode, and Close of the age writer.
WriteTemp(p) ==
  /\ Goto(p, "write", "sync")
  /\ temp' = [temp EXCEPT ![p] = [secrets |-> Result(p).vault,
                                  version |-> VersionOf(base[p]) + 1,
                                  to |-> recips[p], st |-> "written"]]
  /\ UNCHANGED <<names, disk, litter, recipients, holder, request, lockFd, base, recips,
                 err, acked, floor>>

\* Mutant of SyncTemp: the temp file is closed without an fsync.
SyncTempSkipped(p) ==
  /\ Goto(p, "sync", "stat")
  /\ UNCHANGED <<names, disk, litter, recipients, holder, locals, acked>>

SyncTemp(p) ==
  /\ Goto(p, "sync", "stat")
  /\ temp' = [temp EXCEPT ![p].st = "synced"]
  /\ UNCHANGED <<names, disk, litter, recipients, holder, request, lockFd, base, recips,
                 err, acked, floor>>

\* Mutant of StatVault: it looks for the backup instead of for the vault.
StatBackup(p) ==
  /\ Goto(p, "stat", IF bak = None THEN "rename" ELSE "unlink")
  /\ UNCHANGED <<names, disk, litter, recipients, holder, locals, acked>>

\* Step 5 is skipped entirely when there is no vault to set aside.
StatVault(p) ==
  /\ Goto(p, "stat", IF secrets = None THEN "rename" ELSE "unlink")
  /\ UNCHANGED <<names, disk, litter, recipients, holder, locals, acked>>

RemoveBackup(p) ==
  /\ Goto(p, "unlink", "link")
  /\ bak' = None
  /\ bakDisk' = bakDisk \union {None}
  /\ UNCHANGED <<secrets, lock, secretsDisk, litter, recipients, holder, locals, acked>>

\* Mutant of LinkBackup: the vault is moved to secrets.age.bak.
MoveToBackup(p) ==
  /\ Goto(p, "link", "rename")
  /\ bak' = secrets /\ secrets' = None
  /\ bakDisk' = bakDisk \union {secrets} /\ secretsDisk' = secretsDisk \union {None}
  /\ UNCHANGED <<lock, litter, recipients, holder, locals, acked>>

\* os.Link fails when the new name exists or the old one does not.
LinkBackup(p) ==
  LET fails == bak # None \/ secrets = None
      linked == IF fails THEN bak ELSE secrets
  IN  /\ Return(p, "link", IF fails THEN Generic ELSE OK, IF fails THEN "cleanup" ELSE "rename")
      /\ bak' = linked
      /\ bakDisk' = bakDisk \union {linked}
      /\ UNCHANGED <<secrets, lock, secretsDisk, litter, recipients, holder, request,
                     lockFd, base, recips, temp, acked, floor>>

RenameTemp(p) ==
  /\ Goto(p, "rename", "syncdir")
  /\ secrets' = temp[p]
  /\ secretsDisk' = secretsDisk \union {temp[p]}
  /\ temp' = [temp EXCEPT ![p] = None]
  /\ UNCHANGED <<bak, lock, bakDisk, litter, recipients, holder, request, lockFd, base,
                 recips, err, acked, floor>>

\* Mutant of SyncDir: the directory is not synced.
SyncDirSkipped(p) ==
  /\ Goto(p, "syncdir", "cleanup")
  /\ UNCHANGED <<names, disk, litter, recipients, holder, locals, acked>>

\* fsync of the directory: each name is on disk as it is in memory.
SyncDir(p) ==
  /\ Goto(p, "syncdir", "cleanup")
  /\ secretsDisk' = {secrets}
  /\ bakDisk' = {bak}
  /\ UNCHANGED <<names, litter, recipients, holder, locals, acked>>

\* Mutant of Cleanup: no deferred Remove.
CleanupForgotten(p) ==
  /\ Goto(p, "cleanup", "unlock")
  /\ UNCHANGED <<names, disk, litter, recipients, holder, locals, acked>>

\* The deferred os.Remove of the temp name, whose own error is discarded.
Cleanup(p) ==
  /\ Goto(p, "cleanup", "unlock")
  /\ temp' = [temp EXCEPT ![p] = None]
  /\ litter' \in {litter, litter \/ ("io" \in Faults /\ temp[p] # None)}
  /\ UNCHANGED <<names, disk, recipients, holder, request, lockFd, base, recips, err,
                 acked, floor>>

\* Mutant of Unlock: the lock file is removed with the lock.
UnlockRemoving(p) ==
  /\ Goto(p, "unlock", "exit")
  /\ lock' = None
  /\ holder' = [holder EXCEPT ![lockFd[p]] = None]
  /\ lockFd' = [lockFd EXCEPT ![p] = None]
  /\ UNCHANGED <<secrets, bak, disk, litter, recipients, request, base, recips, temp,
                 err, acked, floor>>

\* LOCK_UN, then close.  The lock file itself stays.
Unlock(p) ==
  /\ Goto(p, "unlock", "exit")
  /\ holder' = [holder EXCEPT ![lockFd[p]] = None]
  /\ lockFd' = [lockFd EXCEPT ![p] = None]
  /\ UNCHANGED <<names, disk, litter, recipients, request, base, recips, temp, err,
                 acked, floor>>
-----------------------------------------------------------------------------
\* What is left of a process that has gone: the kernel closes its descriptors,
\* and with them goes its lock.
Forget(p) ==
  /\ holder' = [l \in LockFiles |-> IF holder[l] = p THEN None ELSE holder[l]]
  /\ pc' = [pc EXCEPT ![p] = "idle"]
  /\ request' = [request EXCEPT ![p] = None]
  /\ lockFd' = [lockFd EXCEPT ![p] = None]
  /\ base' = [base EXCEPT ![p] = None]
  /\ recips' = [recips EXCEPT ![p] = {}]
  /\ temp' = [temp EXCEPT ![p] = None]
  /\ err' = [err EXCEPT ![p] = OK]
  /\ floor' = [floor EXCEPT ![p] = 0]

\* The process exits and its caller sees the status.
Exit(p) ==
  /\ pc[p] = "exit"
  /\ Forget(p)
  /\ acked' = IF err[p] = OK /\ ~IsRead(request[p]) /\ VersionOf(base[p]) + 1 > acked
              THEN VersionOf(base[p]) + 1 ELSE acked
  /\ UNCHANGED <<names, disk, litter, recipients>>

\* What p returns when its call fails.  The recipients file is reported as a bad
\* identity, a vault file that cannot be read as corrupt or as not decryptable.
Failures(p) ==
  CASE pc[p] = "recipients" -> {Identity}
    [] pc[p] \in {"mutate", "read"} /\ base[p] # None -> {Generic, Decrypt}
    [] OTHER -> {Generic}

\* Any system call can fail; each handler unwinds through what it has deferred.
IOError(p) ==
  /\ "io" \in Faults
  /\ \E e \in Failures(p) :
       \/ \E from \in {"openlock", "flock", "open", "read"} :
            /\ Return(p, from, e, "exit")
            /\ lockFd' = [lockFd EXCEPT ![p] = None]
       \/ /\ \E from \in {"load", "mutate", "recipients", "create"} :
               Return(p, from, e, "unlock")
          /\ UNCHANGED lockFd
       \/ /\ \E from \in {"write", "sync", "stat", "unlink", "link", "rename", "syncdir"} :
               Return(p, from, e, "cleanup")
          /\ UNCHANGED lockFd
  /\ UNCHANGED <<names, disk, litter, recipients, holder, request, base, recips, temp,
                 acked, floor>>

\* Nobody runs the deferred calls of a killed process.
Kill(p) ==
  /\ "kill" \in Faults
  /\ pc[p] # "idle"
  /\ Forget(p)
  /\ litter' = (litter \/ temp[p] # None)
  /\ UNCHANGED <<names, disk, recipients, acked>>

\* A file that was not synced may come back torn.
Survives(f) == IF f # None /\ f.st = "written" THEN {f, [f EXCEPT !.st = "partial"]}
                                               ELSE {f}

PowerFailure ==
  /\ "power" \in Faults
  /\ \E f \in secretsDisk : secrets' \in Survives(f)
  /\ \E f \in bakDisk : bak' \in Survives(f)
  /\ lock' \in {lock, None}
  /\ secretsDisk' = {secrets'}
  /\ bakDisk' = {bak'}
  /\ litter' \in {litter, litter \/ \E p \in Procs : temp[p] # None}
  /\ holder' = [l \in LockFiles |-> None]
  /\ pc' = [p \in Procs |-> "idle"]
  /\ request' = [p \in Procs |-> None]
  /\ lockFd' = [p \in Procs |-> None]
  /\ base' = [p \in Procs |-> None]
  /\ recips' = [p \in Procs |-> {}]
  /\ temp' = [p \in Procs |-> None]
  /\ err' = [p \in Procs |-> OK]
  /\ floor' = [p \in Procs |-> 0]
  /\ UNCHANGED <<recipients, acked>>

\* The user replaces, empties or removes the recipients file at any time.
EditRecipients ==
  /\ recipients' \in RecipientFiles
  /\ UNCHANGED <<names, disk, litter, holder, pc, locals, acked>>
-----------------------------------------------------------------------------
Save(p) ==
  \/ LoadRecipients(p) \/ CreateTemp(p) \/ WriteTemp(p) \/ SyncTemp(p)
  \/ StatVault(p) \/ RemoveBackup(p) \/ LinkBackup(p) \/ RenameTemp(p)
  \/ SyncDir(p) \/ Cleanup(p)

\* What a running process does by itself, once it has been started.
Step(p) ==
  \/ OpenLock(p) \/ Flock(p) \/ OpenVault(p) \/ Mutate(p) \/ Read(p)
  \/ Save(p) \/ Unlock(p) \/ Exit(p)

Next ==
  \/ \E p \in Procs : Start(p) \/ Step(p) \/ IOError(p) \/ Kill(p)
  \/ PowerFailure
  \/ EditRecipients

Spec == Init /\ [][Next]_vars
-----------------------------------------------------------------------------
(***************************************************************************)
(* Scheduling.  A process that can make its next system call eventually    *)
(* makes it; the kernel queues the waiters of a flock, so one that is      *)
(* granted again and again reaches each of them.  No fault ever has to     *)
(* happen, no verb ever has to be issued.                                  *)
(***************************************************************************)
Reading(p) == request[p] # None /\ IsRead(request[p])
Writing(p) == request[p] # None /\ ~IsRead(request[p])

Fairness == \A p \in Procs : WF_vars(Step(p)) /\ SF_vars(Flock(p))

\* Only readers are scheduled: a writer may stop for ever at any point.
ReadersFairSpec == Spec /\ \A p \in Procs : WF_vars(Reading(p) /\ Step(p))
=============================================================================
