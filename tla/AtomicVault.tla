---------------------------- MODULE AtomicVault ----------------------------
(***************************************************************************)
(* What the store promises its callers.  Each mutation changes the vault   *)
(* in one step or not at all, and reports success only when the change can *)
(* no longer be lost; each read answers from the vault as it was at one    *)
(* moment of the call.  A process may be killed and the machine may lose   *)
(* power between any two steps.                                            *)
(***************************************************************************)
EXTENDS Vault

CONSTANTS
  Procs,     \* the kleidos processes
  Requests,  \* the requests they are given
  NoVault    \* the vault before its first write

VARIABLES
  vault,     \* the vault, or NoVault
  survivors, \* the vaults a power failure may leave behind
  phase,     \* how far each process is with its request
  request,   \* the request of each process that is not idle
  sample,    \* the vault a read answers from
  reply      \* the exit status of a process that has replied

vars == <<vault, survivors, phase, request, sample, reply>>

ContentsOf(v) == IF v = NoVault THEN New ELSE v

Init ==
  /\ vault = NoVault
  /\ survivors = {NoVault}
  /\ phase = [p \in Procs |-> "idle"]
  /\ request = [p \in Procs |-> NoVault]
  /\ sample = [p \in Procs |-> NoVault]
  /\ reply = [p \in Procs |-> OK]

Submit(p) ==
  /\ phase[p] = "idle"
  /\ \E r \in Requests : request' = [request EXCEPT ![p] = r]
  /\ phase' = [phase EXCEPT ![p] = "pending"]
  /\ UNCHANGED <<vault, survivors, sample, reply>>

\* The whole read-modify-write, at one instant.
Commit(p) ==
  /\ phase[p] = "pending"
  /\ ~IsRead(request[p])
  /\ Apply(request[p], ContentsOf(vault)).err = OK
  /\ vault' = Apply(request[p], ContentsOf(vault)).vault
  /\ survivors' = survivors \union {vault'}
  /\ phase' = [phase EXCEPT ![p] = "committed"]
  /\ UNCHANGED <<request, sample, reply>>

\* From here on the current vault is the only one a power failure can leave.
Persist(p) ==
  /\ phase[p] = "committed"
  /\ survivors' = {vault}
  /\ phase' = [phase EXCEPT ![p] = "replied"]
  /\ UNCHANGED <<vault, request, sample, reply>>

\* The request does not apply to the vault of this moment.
Refuse(p) ==
  /\ phase[p] = "pending"
  /\ ~IsRead(request[p])
  /\ reply' = [reply EXCEPT ![p] = Apply(request[p], ContentsOf(vault)).err]
  /\ reply'[p] # OK
  /\ phase' = [phase EXCEPT ![p] = "replied"]
  /\ UNCHANGED <<vault, survivors, request, sample>>

Sample(p) ==
  /\ phase[p] = "pending"
  /\ IsRead(request[p])
  /\ sample' = [sample EXCEPT ![p] = vault]
  /\ phase' = [phase EXCEPT ![p] = "sampled"]
  /\ UNCHANGED <<vault, survivors, request, reply>>

Answer(p) ==
  /\ phase[p] = "sampled"
  /\ reply' = [reply EXCEPT ![p] =
       IF sample[p] = NoVault THEN VaultNotFound
                              ELSE LookupSome(request[p], sample[p])]
  /\ phase' = [phase EXCEPT ![p] = "replied"]
  /\ UNCHANGED <<vault, survivors, request, sample>>

\* The environment got in the way.  After a commit the change stays.
Fail(p) ==
  /\ phase[p] \in {"pending", "committed", "sampled"}
  /\ \E e \in {Generic, Identity, Decrypt} : reply' = [reply EXCEPT ![p] = e]
  /\ phase' = [phase EXCEPT ![p] = "replied"]
  /\ UNCHANGED <<vault, survivors, request, sample>>

\* A process exits after its reply, or is killed before it.
Exit(p) ==
  /\ phase[p] # "idle"
  /\ phase' = [phase EXCEPT ![p] = "idle"]
  /\ request' = [request EXCEPT ![p] = NoVault]
  /\ sample' = [sample EXCEPT ![p] = NoVault]
  /\ reply' = [reply EXCEPT ![p] = OK]
  /\ UNCHANGED <<vault, survivors>>

PowerFailure ==
  /\ vault' \in survivors
  /\ survivors' = {vault'}
  /\ phase' = [p \in Procs |-> "idle"]
  /\ request' = [p \in Procs |-> NoVault]
  /\ sample' = [p \in Procs |-> NoVault]
  /\ reply' = [p \in Procs |-> OK]

Next ==
  \/ \E p \in Procs :
       Submit(p) \/ Commit(p) \/ Persist(p) \/ Refuse(p) \/ Sample(p)
         \/ Answer(p) \/ Fail(p) \/ Exit(p)
  \/ PowerFailure

Spec == Init /\ [][Next]_vars
=============================================================================
