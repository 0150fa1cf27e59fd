---------------------------- MODULE MCVaultStore ----------------------------
(***************************************************************************)
(* Small instances of VaultStore for TLC.                                  *)
(***************************************************************************)
EXTENDS VaultStoreProps, TLC

CONSTANTS k1, k2, kBad, s1, s2, sEmpty, me, other

Entries(k, s) == [n \in Names |-> IF n = k THEN s ELSE Absent]
BothEntries(s) == [n \in Names |-> IF n \in {k1, k2} THEN s ELSE Absent]

\* Two writes that collide, one that needs what another removes, one read.
CoreRequests ==
  {[verb |-> "set", key |-> k1, secret |-> s1],
   [verb |-> "rename", old |-> k1, new |-> k2, force |-> TRUE],
   [verb |-> "read", required |-> {k1}, optional |-> {}]}

\* Every verb that writes, with arguments it accepts and arguments it refuses,
\* and a read.
AllRequests ==
  {[verb |-> "set", key |-> k1, secret |-> s1],
   [verb |-> "set", key |-> kBad, secret |-> s1],
   [verb |-> "set", key |-> k2, secret |-> sEmpty],
   [verb |-> "delete", key |-> k1],
   [verb |-> "rename", old |-> k1, new |-> k2, force |-> FALSE],
   [verb |-> "rename", old |-> k1, new |-> k2, force |-> TRUE],
   [verb |-> "rename", old |-> k1, new |-> kBad, force |-> TRUE],
   [verb |-> "import", entries |-> Entries(k1, s2), policy |-> "skip"],
   [verb |-> "import", entries |-> BothEntries(s2), policy |-> "abort"],
   [verb |-> "import", entries |-> Entries(k1, s2), policy |-> "overwrite"],
   [verb |-> "import", entries |-> Entries(kBad, s2), policy |-> "overwrite"],
   [verb |-> "read", required |-> {k1}, optional |-> {k2}]}

\* The recipients file has this machine's key in it; or the user empties it, which
\* save refuses; or the user puts the key of another machine in its place.
OwnKeyOnly == {{me}}

AnyRecipients == {{}, {me}, {other}}

ProcSymmetry == Permutations(Procs)
=============================================================================
