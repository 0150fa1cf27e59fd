------------------------------- MODULE Vault -------------------------------
(***************************************************************************)
(* The plaintext vault of internal/vault/format.go and what each mutating  *)
(* or reading verb of internal/cmd computes on it.  A vault is a function  *)
(* from every key name to the secret stored under it, or Absent.           *)
(*                                                                         *)
(* A secret is the object the code moves around by pointer: its value and  *)
(* its update time together, so a rename that keeps the time is a move.    *)
(* The fingerprint key is not represented: it is generated once by New and *)
(* carried along with the vault it was generated for.                      *)
(***************************************************************************)
EXTENDS Errs

CONSTANTS
  Names,        \* every string offered as a key name
  ValidNames,   \* those that match [A-Z_][A-Z0-9_]*
  Secrets,      \* every secret offered for storage
  ValidSecrets, \* those whose value is non-empty and free of NUL
  Absent        \* the mark of a name that holds nothing

ASSUME NamesAssumption == ValidNames \subseteq Names
ASSUME SecretsAssumption == ValidSecrets \subseteq Secrets /\ Absent \notin Secrets

Vaults == [Names -> Secrets \union {Absent}]

New == [n \in Names |-> Absent]

\* Mutant of CheckKey: an unanchored pattern, which finds a match in any name.
CheckKeyUnanchored(k) == k \in Names

CheckKey(k) == k \in ValidNames
CheckValue(s) == s \in ValidSecrets

Has(v, k) == k \in Names /\ v[k] # Absent
Missing(v, keys) == {k \in keys : ~Has(v, k)}

(***************************************************************************)
(* The callbacks handed to Store.Update: the error each returns, and the   *)
(* vault it leaves for save when that error is OK.                         *)
(***************************************************************************)
Mutated(err, v) == [err |-> err, vault |-> v]

Set(v, k, s) ==
  IF CheckKey(k) /\ CheckValue(s) THEN Mutated(OK, [v EXCEPT ![k] = s])
                                  ELSE Mutated(Generic, v)

Delete(v, k) ==
  IF Has(v, k) THEN Mutated(OK, [v EXCEPT ![k] = Absent])
               ELSE Mutated(KeyNotFound, v)

\* Mutant of Rename: the old name is gone from the vault altogether.
RenameShrinking(v, old, new, force) ==
  IF ~Has(v, old) THEN Mutated(KeyNotFound, v)
  ELSE Mutated(OK, [n \in Names \ {old} |-> IF n = new THEN v[old] ELSE v[n]])

Rename(v, old, new, force) ==
  IF ~Has(v, old) THEN Mutated(KeyNotFound, v)
  ELSE IF (Has(v, new) /\ ~force) \/ ~CheckKey(new) THEN Mutated(Generic, v)
  ELSE Mutated(OK, [v EXCEPT ![new] = v[old], ![old] = Absent])

\* entries maps each name of the input to its value and the others to Absent:
\* both parsers refuse a name that occurs twice, so the order does not matter.
Import(v, entries, policy) ==
  LET named == {n \in Names : entries[n] # Absent}
      colliding == {n \in named : Has(v, n)}
      written == IF policy = "skip" THEN named \ colliding ELSE named
      storable(n) == CheckKey(n) /\ CheckValue(entries[n])
  IN  IF (colliding # {} /\ policy = "abort") \/ \E n \in written : ~storable(n)
      THEN Mutated(Generic, v)
      ELSE Mutated(OK, [n \in Names |-> IF n \in written THEN entries[n] ELSE v[n]])

(***************************************************************************)
(* Requests: a verb with its parsed arguments.  "read" stands for get,     *)
(* reveal, copy, has and run, which name required and optional keys, and   *)
(* for list and export, which take every name as optional.                 *)
(***************************************************************************)
SetRequests == [verb : {"set"}, key : Names, secret : Secrets]
DeleteRequests == [verb : {"delete"}, key : Names]
RenameRequests == [verb : {"rename"}, old : Names, new : Names, force : BOOLEAN]
ImportRequests == [verb : {"import"}, entries : Vaults,
                   policy : {"abort", "overwrite", "skip"}]
ReadRequests == [verb : {"read"}, required : SUBSET Names, optional : SUBSET Names]

Mutations == SetRequests \union DeleteRequests \union RenameRequests \union ImportRequests

IsRead(r) == r.verb = "read"

\* What the verbs refuse from their arguments alone, before the store is opened.
Accepted(r) ==
  CASE r.verb = "set" -> CheckKey(r.key) /\ CheckValue(r.secret)
    [] r.verb = "rename" -> r.old # r.new /\ CheckKey(r.new)
    [] r.verb = "import" ->
         /\ \E n \in Names : r.entries[n] # Absent
         /\ \A n \in Names : r.entries[n] # Absent => CheckKey(n) /\ CheckValue(r.entries[n])
    [] r.verb = "read" -> r.required \intersect r.optional = {}
    [] OTHER -> TRUE

\* The callback of request r applied to vault v.
Apply(r, v) ==
  CASE r.verb = "set" -> Set(v, r.key, r.secret)
    [] r.verb = "delete" -> Delete(v, r.key)
    [] r.verb = "rename" -> Rename(v, r.old, r.new, r.force)
    [] r.verb = "import" -> Import(v, r.entries, r.policy)

\* lookupSome: every required key must resolve, or nothing is returned.
LookupSome(r, v) == IF Missing(v, r.required) # {} THEN KeyNotFound ELSE OK
=============================================================================
