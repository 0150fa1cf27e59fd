---------------------------- MODULE Session_proofs ----------------------------
(***************************************************************************)
(* Proofs about what the commands of a session do to the vault, whatever   *)
(* their arguments and inputs are and whatever the parsers of import make  *)
(* of them, and about what they print and hand to a child: read back, it   *)
(* is what was asked for.                                                  *)
(***************************************************************************)
EXTENDS SessionProps, Outputs_proofs, FiniteSetTheorems

\* The vault that a mutation is applied to.
Held == IF vault = Absent THEN V!New ELSE vault

\* Values are in the vault as they can be read back from it.
VaultInv ==
  /\ vault \in V!Vaults \union {Absent, Unreadable}
  /\ \A n \in Found(vault) : ~Occurs("hi", vault[n])

\* The commands that say they may overwrite a value.
Overwriting(verb, args) ==
  \/ verb = "set"
  \/ verb = "import" /\ Has(ParseFlags(args, ImportFlags), "--overwrite")
  \/ verb = "rename" /\ Has(ParseFlags(args, {<<"--force">>}), "--force")

\* What a command may make of the vault, old, when it leaves new.
Preserves(verb, status, old, new) ==
  new # old => /\ verb \in Writers /\ status = OK
               /\ old # Unreadable /\ new \in V!Vaults

AddsClean(verb, old, new) ==
  \A n \in Found(new) :
    \/ n \in Found(old) /\ new[n] = old[n]
    \/ verb \in {"set", "import"} /\ CheckKey(n) /\ CheckValue(new[n])
    \/ verb = "rename" /\ CheckKey(n) /\ \E m \in Found(old) \ Found(new) : new[n] = old[m]

LosesNothing(verb, args, old, new) ==
  /\ \A n \in Found(old) \intersect Found(new) : new[n] # old[n] => Overwriting(verb, args)
  /\ \A m \in Found(old) \ Found(new) :
       /\ Found(old) \ Found(new) = {m}
       /\ \/ verb = "delete"
          \/ verb = "rename" /\ \E n \in Found(new) : new[n] = old[m]

Encoded(new) == \A n \in Found(new) : ~Occurs("hi", new[n])

Sound(verb, args, e) ==
  /\ Preserves(verb, e.status, vault, e.vault)
  /\ AddsClean(verb, vault, e.vault)
  /\ LosesNothing(verb, args, vault, e.vault)
  /\ Encoded(e.vault)
-----------------------------------------------------------------------------
\* What the encoder makes of a value is a value it makes nothing else of.
LEMMA EncodeOnce ==
  ASSUME NEW s \in Seq(Bytes)
  PROVE  /\ Encode(s) \in Seq(Bytes) /\ ~Occurs("hi", Encode(s))
         /\ ~Occurs("hi", s) => Encode(s) = s
         /\ CheckValue(s) => CheckValue(Encode(s))
<1>1. Encode(s) \in Seq(Bytes)
  <2>1. \A i \in DOMAIN s : Encode(s)[i] \in Bytes
    <3>1. "U+FFFD" \in Bytes
      BY DEF Bytes
    <3>2. \A i \in DOMAIN s : s[i] \in Bytes
      OBVIOUS
    <3> QED
      BY <3>1, <3>2 DEF Encode
  <2>2. Encode(s) \in [1..Len(s) -> Bytes]
    BY <2>1 DEF Encode
  <2> QED
    BY <2>2, SeqDef
<1>2. ~Occurs("hi", Encode(s))
  BY DEF Encode, Occurs
<1>3. ~Occurs("hi", s) => Encode(s) = s
  BY DEF Encode, Occurs
<1>4. CheckValue(s) => CheckValue(Encode(s))
  BY DEF CheckValue, Encode, Occurs
<1> QED
  BY <1>1, <1>2, <1>3, <1>4

\* A first write finds an empty vault, which holds what no vault holds: nothing.
LEMMA HeldVault ==
  ASSUME VaultInv, Decodable(vault)
  PROVE  /\ Held \in V!Vaults
         /\ Found(vault) = {n \in Names : Held[n] # Absent}
         /\ \A n \in Names : /\ Held[n] # Absent => Held[n] = vault[n]
                             /\ (IF Held[n] = Absent THEN Absent ELSE Encode(Held[n])) = Held[n]
<1>1. Held \in V!Vaults /\ Found(vault) = {n \in Names : Held[n] # Absent}
  BY MarksAssumption DEF VaultInv, Decodable, Held, V!New, Found, V!Vaults
<1>2. \A n \in Names : Held[n] # Absent => Held[n] = vault[n]
  BY DEF Held, V!New
<1>3. ASSUME NEW n \in Names, Held[n] # Absent PROVE Encode(Held[n]) = Held[n]
  <2>1. n \in Found(vault) /\ Held[n] = vault[n]
    BY <1>1, <1>2, <1>3
  <2>2. Held[n] \in Seq(Bytes)
    BY <1>1, <1>3 DEF V!Vaults
  <2> QED
    BY <2>1, <2>2, EncodeOnce DEF VaultInv
<1> QED
  BY <1>1, <1>2, <1>3

\* A command that leaves the vault alone.
LEMMA NoChange ==
  ASSUME VaultInv, NEW verb, NEW args, NEW e, e.vault = vault PROVE Sound(verb, args, e)
BY DEF VaultInv, Sound, Preserves, AddsClean, LosesNothing, Encoded
-----------------------------------------------------------------------------
(***************************************************************************)
(* What Store.Update makes of each request.                                *)
(***************************************************************************)
Saved(v) == [n \in Names |-> IF v[n] = Absent THEN Absent ELSE Encode(v[n])]

LEMMA UpdateEffect ==
  ASSUME NEW r, Update(r).vault # vault
  PROVE  /\ Decodable(vault) /\ V!Accepted(r) /\ V!Apply(r, Held).err = OK
         /\ Update(r).status = OK /\ Update(r).vault = Saved(V!Apply(r, Held).vault)
<1>1. Update(r) = IF ~V!Accepted(r) \/ ~Decodable(vault) THEN Failed(Generic)
                  ELSE IF V!Apply(r, Held).err # OK THEN Failed(V!Apply(r, Held).err)
                  ELSE Effect(OK, Saved(V!Apply(r, Held).vault), <<>>)
  BY DEF Update, Held, Saved
<1>2. \A x : Failed(x).vault = vault
  BY DEF Failed, Effect
<1> QED
  BY <1>1, <1>2 DEF Effect

\* Saving changes nothing but the value that is new.
LEMMA SavedHeld ==
  ASSUME VaultInv, Decodable(vault), NEW k, NEW x \in Seq(Bytes) \union {Absent}
  PROVE  Saved([Held EXCEPT ![k] = x]) = [Held EXCEPT ![k] = IF x = Absent THEN Absent ELSE Encode(x)]
<1>1. /\ DOMAIN Held = Names
      /\ \A n \in Names : (IF Held[n] = Absent THEN Absent ELSE Encode(Held[n])) = Held[n]
  BY HeldVault DEF V!Vaults
<1> QED
  BY <1>1 DEF Saved

LEMMA SetSound ==
  ASSUME VaultInv, NEW k, NEW s, NEW args
  PROVE  Sound("set", args, Update([verb |-> "set", key |-> k, secret |-> s]))
<1> DEFINE r == [verb |-> "set", key |-> k, secret |-> s]
           e == Update(r)
           new == [Held EXCEPT ![k] = Encode(s)]
<1>1. CASE e.vault = vault
  BY <1>1, NoChange
<1>2. CASE e.vault # vault
  <2>1. /\ Decodable(vault) /\ V!Accepted(r) /\ V!Apply(r, Held).err = OK
        /\ e.status = OK /\ e.vault = Saved(V!Apply(r, Held).vault)
    BY <1>2, UpdateEffect
  <2>2. V!CheckKey(k) /\ V!CheckValue(s)
    BY <2>1 DEF V!Accepted
  <2>3. k \in Names /\ CheckKey(k) /\ s \in Seq(Bytes) /\ CheckValue(s)
    BY <2>2 DEF V!CheckKey, V!CheckValue
  <2>4. V!Apply(r, Held) = V!Set(Held, k, s)
    BY DEF V!Apply
  <2>5. e.vault = new
    <3> DEFINE put == [Held EXCEPT ![k] = s]
    <3>1. V!Apply(r, Held) = [err |-> V!OK, vault |-> put]
      BY <2>2, <2>4 DEF V!Set, V!Mutated
    <3>2. s # Absent
      BY <2>3, MarksAssumption
    <3>3. Saved(put) = new
      BY <2>1, <2>3, <3>2, SavedHeld
    <3> HIDE DEF put, new, r
    <3> QED
      BY <2>1, <3>1, <3>3
  <2>6. Encode(s) \in Seq(Bytes) /\ ~Occurs("hi", Encode(s)) /\ CheckValue(Encode(s))
    BY <2>3, EncodeOnce
  <2>7. new \in V!Vaults /\ Found(new) = Found(vault) \union {k}
    <3>1. Held \in V!Vaults /\ Found(vault) = {n \in Names : Held[n] # Absent}
      BY <2>1, HeldVault
    <3>2. new \in V!Vaults
      BY <2>6, <3>1 DEF V!Vaults
    <3>3. Found(new) = {n \in Names : new[n] # Absent}
      BY <3>2, MarksAssumption DEF Found
    <3>4. DOMAIN Held = Names /\ Encode(s) # Absent
      BY <2>6, <3>1, MarksAssumption DEF V!Vaults
    <3>5. \A n \in Names : new[n] = IF n = k THEN Encode(s) ELSE Held[n]
      BY <3>4
    <3> HIDE DEF new
    <3> QED
      BY <2>3, <3>1, <3>2, <3>3, <3>4, <3>5
  <2>8. \A n \in Found(new) : n # k => n \in Found(vault) /\ new[n] = vault[n]
    BY <2>1, <2>7, HeldVault DEF V!Vaults
  <2>9. new[k] = Encode(s)
    BY <2>1, <2>3, HeldVault DEF V!Vaults
  <2>10. Preserves("set", e.status, vault, new)
    BY <2>1, <2>7 DEF Preserves, Writers, Decodable
  <2>11. AddsClean("set", vault, new)
    BY <2>3, <2>6, <2>8, <2>9 DEF AddsClean
  <2>12. LosesNothing("set", args, vault, new)
    BY <2>7 DEF LosesNothing, Overwriting
  <2>13. Encoded(new)
    BY <2>6, <2>8, <2>9 DEF VaultInv, Encoded
  <2> QED
    BY <2>5, <2>10, <2>11, <2>12, <2>13 DEF Sound
<1> QED
  BY <1>1, <1>2

LEMMA DeleteSound ==
  ASSUME VaultInv, NEW k, NEW args
  PROVE  Sound("delete", args, Update([verb |-> "delete", key |-> k]))
<1> DEFINE r == [verb |-> "delete", key |-> k]
           e == Update(r)
           new == [Held EXCEPT ![k] = Absent]
<1>1. CASE e.vault = vault
  BY <1>1, NoChange
<1>2. CASE e.vault # vault
  <2>1. /\ Decodable(vault) /\ V!Apply(r, Held).err = OK
        /\ e.status = OK /\ e.vault = Saved(V!Apply(r, Held).vault)
    BY <1>2, UpdateEffect
  <2>2. V!Apply(r, Held) = V!Delete(Held, k)
    BY DEF V!Apply
  <2>3. V!Apply(r, Held) = [err |-> V!OK, vault |-> new]
    <3>1. V!Mutated(V!KeyNotFound, Held).err # OK
      BY DEF V!Mutated, OK, V!KeyNotFound
    <3>2. V!Apply(r, Held) \in {V!Mutated(V!OK, new), V!Mutated(V!KeyNotFound, Held)}
      BY <2>2 DEF V!Delete
    <3> QED
      BY <2>1, <3>1, <3>2 DEF V!Mutated
  <2>4. e.vault = new
    <3>1. Saved(new) = new
      BY <2>1, SavedHeld
    <3> HIDE DEF new, r
    <3> QED
      BY <2>1, <2>3, <3>1
  <2>5. new \in V!Vaults /\ Found(new) = Found(vault) \ {k}
    BY <2>1, HeldVault, MarksAssumption DEF V!Vaults, Found
  <2>6. \A n \in Found(new) : new[n] = vault[n]
    BY <2>1, <2>5, HeldVault DEF V!Vaults
  <2>7. Preserves("delete", e.status, vault, new)
    BY <2>1, <2>5 DEF Preserves, Writers, Decodable
  <2>8. AddsClean("delete", vault, new)
    BY <2>5, <2>6 DEF AddsClean
  <2>9. LosesNothing("delete", args, vault, new)
    BY <2>5, <2>6 DEF LosesNothing
  <2>10. Encoded(new)
    BY <2>5, <2>6 DEF VaultInv, Encoded
  <2> QED
    BY <2>4, <2>7, <2>8, <2>9, <2>10 DEF Sound
<1> QED
  BY <1>1, <1>2

LEMMA RenameSound ==
  ASSUME VaultInv, NEW from, NEW to, NEW args, NEW force, force => Overwriting("rename", args)
  PROVE  Sound("rename", args,
               Update([verb |-> "rename", old |-> from, new |-> to, force |-> force]))
<1> DEFINE r == [verb |-> "rename", old |-> from, new |-> to, force |-> force]
           e == Update(r)
           new == [Held EXCEPT ![to] = Held[from], ![from] = Absent]
<1>1. CASE e.vault = vault
  BY <1>1, NoChange
<1>2. CASE e.vault # vault
  <2>1. /\ Decodable(vault) /\ V!Accepted(r) /\ V!Apply(r, Held).err = OK
        /\ e.status = OK /\ e.vault = Saved(V!Apply(r, Held).vault)
    BY <1>2, UpdateEffect
  <2>2. from # to
    BY <2>1 DEF V!Accepted
  <2>3. V!Apply(r, Held) = V!Rename(Held, from, to, force)
    BY DEF V!Apply
  <2>4. /\ from \in Names /\ Held[from] # Absent /\ (Held[to] = Absent \/ force) /\ V!CheckKey(to)
        /\ V!Apply(r, Held) = [err |-> V!OK, vault |-> new]
    <3>1. V!Mutated(V!KeyNotFound, Held).err # OK /\ V!Mutated(V!Generic, Held).err # OK
      BY DEF V!Mutated, OK, V!KeyNotFound, V!Generic
    <3>2. V!Apply(r, Held) = IF ~V!Has(Held, from) THEN V!Mutated(V!KeyNotFound, Held)
                             ELSE IF (V!Has(Held, to) /\ ~force) \/ ~V!CheckKey(to)
                                  THEN V!Mutated(V!Generic, Held)
                             ELSE V!Mutated(V!OK, new)
      BY <2>3 DEF V!Rename
    <3>3. V!Has(Held, from) /\ (~V!Has(Held, to) \/ force) /\ V!CheckKey(to)
      BY <2>1, <3>1, <3>2
    <3>4. V!Apply(r, Held) = V!Mutated(V!OK, new)
      BY <3>2, <3>3
    <3>5. to \in Names
      BY <3>3 DEF V!CheckKey
    <3> QED
      BY <3>3, <3>4, <3>5 DEF V!Has, V!Mutated
  <2>5. to \in Names /\ CheckKey(to)
    BY <2>4 DEF V!CheckKey
  <2>6. DOMAIN Held = Names /\ DOMAIN new = Names
    BY <2>1, HeldVault DEF V!Vaults
  <2>7. \A n \in Names : new[n] = IF n = from THEN Absent ELSE IF n = to THEN Held[from] ELSE Held[n]
    BY <2>2, <2>6
  <2>8. e.vault = new
    <3>1. \A n \in Names : (IF new[n] = Absent THEN Absent ELSE Encode(new[n])) = new[n]
      BY <2>1, <2>4, <2>7, HeldVault
    <3>2. Saved(new) = new
      BY <2>6, <3>1 DEF Saved
    <3> HIDE DEF new, r
    <3> QED
      BY <2>1, <2>4, <3>2
  <2>9. new \in V!Vaults /\ Found(new) = {n \in Names : new[n] # Absent}
    <3>1. Held \in V!Vaults /\ from \in Names
      BY <2>1, <2>4, HeldVault
    <3>2. new \in V!Vaults
      BY <2>5, <3>1, <2>6, <2>7 DEF V!Vaults
    <3> QED
      BY <3>2, MarksAssumption DEF Found
  <2>10. Found(new) = (Found(vault) \union {to}) \ {from} /\ from \in Found(vault)
    <3>1. Found(vault) = {n \in Names : Held[n] # Absent}
      BY <2>1, HeldVault
    <3> QED
      BY <2>2, <2>4, <2>5, <2>7, <2>9, <3>1
  <2>11. new[to] = vault[from] /\ \A n \in Found(new) \ {to} : new[n] = vault[n]
    BY <2>1, <2>2, <2>4, <2>5, <2>7, <2>9, HeldVault
  <2>12. Preserves("rename", e.status, vault, new)
    BY <2>1, <2>9 DEF Preserves, Writers, Decodable
  <2>13. AddsClean("rename", vault, new)
    BY <2>5, <2>10, <2>11 DEF AddsClean
  <2>14. LosesNothing("rename", args, vault, new)
    <3>1. to \in Found(vault) => Overwriting("rename", args)
      BY <2>1, <2>4, <2>5, HeldVault
    <3> QED
      BY <2>2, <2>10, <2>11, <3>1 DEF LosesNothing
  <2>15. Encoded(new)
    BY <2>10, <2>11 DEF VaultInv, Encoded
  <2> QED
    BY <2>8, <2>12, <2>13, <2>14, <2>15 DEF Sound
<1> QED
  BY <1>1, <1>2

LEMMA ImportSound ==
  ASSUME VaultInv, NEW entries, NEW args, NEW policy \in {"abort", "overwrite", "skip"},
         DOMAIN entries = Names, policy = "overwrite" => Overwriting("import", args)
  PROVE  Sound("import", args,
               Update([verb |-> "import", policy |-> policy, entries |-> entries]))
<1> DEFINE r == [verb |-> "import", policy |-> policy, entries |-> entries]
           e == Update(r)
           named == {n \in Names : entries[n] # Absent}
           written == IF policy = "skip" THEN {n \in named : Held[n] = Absent} ELSE named
           merged == [n \in Names |-> IF n \in written THEN entries[n] ELSE Held[n]]
           new == [n \in Names |-> IF n \in written THEN Encode(entries[n]) ELSE Held[n]]
<1>1. CASE e.vault = vault
  BY <1>1, NoChange
<1>2. CASE e.vault # vault
  <2>1. /\ Decodable(vault) /\ V!Accepted(r) /\ V!Apply(r, Held).err = OK
        /\ e.status = OK /\ e.vault = Saved(V!Apply(r, Held).vault)
    BY <1>2, UpdateEffect
  <2>2. \A n \in named : V!CheckKey(n) /\ V!CheckValue(entries[n])
    BY <2>1 DEF V!Accepted
  <2>3. \A n \in written : CheckKey(n) /\ entries[n] \in Seq(Bytes) /\ CheckValue(entries[n])
    BY <2>2 DEF V!CheckKey, V!CheckValue
  <2>4. V!Apply(r, Held) = V!Import(Held, entries, policy)
    BY DEF V!Apply
  <2>5. V!Apply(r, Held).vault = merged /\ (policy = "abort" => \A n \in named : Held[n] = Absent)
    <3> DEFINE colliding == {n \in named : Held[n] # Absent}
    <3>1. V!Import(Held, entries, policy) =
            IF \/ colliding # {} /\ policy = "abort"
               \/ \E n \in IF policy = "skip" THEN named \ colliding ELSE named :
                    ~(V!CheckKey(n) /\ V!CheckValue(entries[n]))
            THEN V!Mutated(Generic, Held)
            ELSE V!Mutated(OK, [n \in Names |->
                   IF n \in IF policy = "skip" THEN named \ colliding ELSE named
                   THEN entries[n] ELSE Held[n]])
      BY DEF V!Import, V!Has, V!OK, V!Generic, OK, Generic
    <3>2. written = IF policy = "skip" THEN named \ colliding ELSE named
      OBVIOUS
    <3>3. V!Mutated(Generic, Held).err # OK
      BY DEF V!Mutated, Generic, OK
    <3> HIDE DEF written
    <3>4. V!Apply(r, Held) = V!Mutated(OK, merged) /\ (policy = "abort" => colliding = {})
      BY <2>1, <2>4, <3>1, <3>2, <3>3
    <3> QED
      BY <3>4 DEF V!Mutated
  <2>6. \A n \in written : Held[n] # Absent => policy = "overwrite"
    BY <2>5
  <2> HIDE DEF written
  <2>7. \A n \in written : /\ Encode(entries[n]) \in Seq(Bytes) /\ ~Occurs("hi", Encode(entries[n]))
                           /\ CheckValue(Encode(entries[n])) /\ entries[n] # Absent
    BY <2>3, EncodeOnce, MarksAssumption
  <2>8. e.vault = new
    <3>1. \A n \in Names : (IF Held[n] = Absent THEN Absent ELSE Encode(Held[n])) = Held[n]
      BY <2>1, HeldVault
    <3> QED
      BY <2>1, <2>5, <2>7, <3>1 DEF Saved
  <2>9. new \in V!Vaults /\ Found(new) = {n \in Names : new[n] # Absent}
    BY <2>1, <2>7, HeldVault, MarksAssumption DEF V!Vaults, Found
  <2>10. \A n \in Found(new) \ written : n \in Found(vault) /\ new[n] = vault[n]
    BY <2>1, <2>9, HeldVault
  <2>11. Found(vault) \subseteq Found(new)
    BY <2>1, <2>7, <2>9, HeldVault, MarksAssumption
  <2>12. \A n \in written : new[n] = Encode(entries[n])
    BY DEF written
  <2> HIDE DEF new
  <2>13. Preserves("import", e.status, vault, new)
    BY <2>1, <2>9 DEF Preserves, Writers, Decodable
  <2>14. AddsClean("import", vault, new)
    BY <2>3, <2>7, <2>10, <2>12 DEF AddsClean
  <2>15. LosesNothing("import", args, vault, new)
    <3>1. \A n \in Found(vault) \intersect written : Overwriting("import", args)
      BY <2>1, <2>6, HeldVault
    <3> QED
      BY <2>10, <2>11, <3>1 DEF LosesNothing
  <2>16. Encoded(new)
    BY <2>7, <2>10, <2>12 DEF VaultInv, Encoded
  <2> QED
    BY <2>8, <2>13, <2>14, <2>15, <2>16 DEF Sound
<1> QED
  BY <1>1, <1>2
-----------------------------------------------------------------------------
(***************************************************************************)
(* The verbs: each ends with an error of its own and the vault as it was,  *)
(* or with what Store.Update or Store.Load made of its request.            *)
(***************************************************************************)
LEMMA FailedSound == ASSUME VaultInv, NEW verb, NEW args, NEW x PROVE Sound(verb, args, Failed(x))
  BY NoChange DEF Failed, Effect

LEMMA SetVerb == ASSUME VaultInv, NEW c PROVE Sound("set", c.args, Set(c))
<1> DEFINE p == ParseFlags(c.args, {<<"--stdin">>})
<1>1. \/ \E x : Set(c) = Failed(x)
      \/ Set(c) = Update([verb |-> "set", key |-> p.rest[1], secret |-> c.input])
  BY DEF Set
<1> QED
  BY <1>1, FailedSound, SetSound

LEMMA DeleteVerb == ASSUME VaultInv, NEW c PROVE Sound("delete", c.args, Delete(c))
<1> DEFINE p == ParseFlags(c.args, {})
<1>1. \/ \E x : Delete(c) = Failed(x)
      \/ Delete(c) = Update([verb |-> "delete", key |-> p.rest[1]])
  BY DEF Delete
<1> QED
  BY <1>1, FailedSound, DeleteSound

LEMMA RenameVerb == ASSUME VaultInv, NEW c PROVE Sound("rename", c.args, Rename(c))
<1> DEFINE p == ParseFlags(c.args, {<<"--force">>})
<1>1. \/ \E x : Rename(c) = Failed(x)
      \/ Rename(c) = Update([verb |-> "rename", old |-> p.rest[1], new |-> p.rest[2],
                             force |-> Has(p, "--force")])
  BY DEF Rename
<1>2. Has(p, "--force") => Overwriting("rename", c.args)
  BY DEF Overwriting
<1> QED
  BY <1>1, <1>2, FailedSound, RenameSound

LEMMA ImportVerb == ASSUME VaultInv, NEW c PROVE Sound("import", c.args, Import(c))
<1> DEFINE p == ParseFlags(c.args, ImportFlags)
           parsed == IF Has(p, "--null") THEN ParseNullRecords(c.input) ELSE ParseDotenv(c.input)
           policy == IF Has(p, "--overwrite") THEN "overwrite"
                     ELSE IF Has(p, "--skip-existing") THEN "skip" ELSE "abort"
           entries == [n \in Names |-> EntryOf(parsed, n)]
<1>1. \/ \E x : Import(c) = Failed(x)
      \/ Import(c) = Update([verb |-> "import", policy |-> policy, entries |-> entries])
  BY DEF Import
<1>2. /\ policy \in {"abort", "overwrite", "skip"} /\ DOMAIN entries = Names
      /\ policy = "overwrite" => Overwriting("import", c.args)
  BY DEF Overwriting
<1> HIDE DEF policy, entries
<1> QED
  BY <1>1, <1>2, FailedSound, ImportSound

LEMMA ReadingVerbs ==
  ASSUME NEW c
  PROVE  /\ Get(c).vault = vault /\ Reveal(c).vault = vault /\ HasKeys(c).vault = vault
         /\ List(c).vault = vault /\ ExportAll(c).vault = vault /\ Usage(c).vault = vault
<1>1. \A x : Failed(x).vault = vault /\ Printed(x).vault = vault
  BY DEF Failed, Printed, Effect
<1>2. \A x, y : Effect(x, vault, y).vault = vault
  BY DEF Effect
<1>3. Get(c).vault = vault
  BY <1>1 DEF Get
<1>4. Reveal(c).vault = vault
  BY <1>1 DEF Reveal
<1>5. HasKeys(c).vault = vault
  BY <1>1 DEF HasKeys
<1>6. List(c).vault = vault
  BY <1>1 DEF List
<1>7. ExportAll(c).vault = vault
  BY <1>1, <1>2 DEF ExportAll
<1>8. Usage(c).vault = vault
  BY <1>1 DEF Usage
<1> QED
  BY <1>3, <1>4, <1>5, <1>6, <1>7, <1>8

\* The step relations of the session, from those of its verbs.
StepSound ==
  /\ Preserves(last'.verb, last'.status, vault, vault')
  /\ AddsClean(last'.verb, vault, vault')
  /\ LosesNothing(last'.verb, last'.args, vault, vault')
  /\ Encoded(vault')

LEMMA DoSound == ASSUME VaultInv, NEW verb, Do(verb), verb \in Writers \union
                        {"get", "reveal", "has", "list", "export", "usage"}
                 PROVE  StepSound
<1>1. PICK c \in Invocations[verb] :
        /\ vault' = Perform(verb, c).vault
        /\ last' = [Nothing EXCEPT !.verb = verb, !.args = c.args, !.input = c.input,
                      !.records = c.records, !.status = Perform(verb, c).status,
                      !.out = Perform(verb, c).out]
  BY DEF Do
<1>2. last'.verb = verb /\ last'.args = c.args /\ last'.status = Perform(verb, c).status
  BY <1>1 DEF Nothing
<1>3. Sound(verb, c.args, Perform(verb, c))
  <2>1. CASE verb = "set"
    BY <2>1, SetVerb DEF Perform
  <2>2. CASE verb = "import"
    BY <2>2, ImportVerb DEF Perform
  <2>3. CASE verb = "delete"
    BY <2>3, DeleteVerb DEF Perform
  <2>4. CASE verb = "rename"
    BY <2>4, RenameVerb DEF Perform
  <2>5. CASE verb \in {"get", "reveal", "has", "list", "export", "usage"}
    <3>1. Perform(verb, c).vault = vault
      BY <2>5, ReadingVerbs DEF Perform
    <3> QED
      BY <3>1, NoChange
  <2> QED
    BY <2>1, <2>2, <2>3, <2>4, <2>5 DEF Writers
<1> QED
  BY <1>1, <1>2, <1>3 DEF Sound, StepSound

LEMMA NextSound == ASSUME VaultInv, [Next]_vars PROVE StepSound /\ VaultInv'
<1>1. StepSound
  <2>1. CASE vault' = vault
    BY <2>1 DEF VaultInv, StepSound, Preserves, AddsClean, LosesNothing, Encoded
  <2>2. CASE vault' # vault
    <3>1. PICK verb \in Writers \union {"get", "reveal", "has", "list", "export", "usage"} : Do(verb)
      BY <2>2 DEF Next, DoRun, vars, Writers
    <3> QED
      BY <3>1, DoSound
  <2> QED
    BY <2>1, <2>2
<1>2. VaultInv'
  BY <1>1 DEF StepSound, VaultInv, Preserves, Encoded
<1> QED
  BY <1>1, <1>2
-----------------------------------------------------------------------------
(***************************************************************************)
(* The inductive invariant: the vault is one that this version reads, with *)
(* values that encode to themselves, or there is none, or none it can read *)
(* (what TypeOK says of vault, and a little more).                         *)
(***************************************************************************)
THEOREM VaultIsKept == Spec => []VaultInv
<1>1. Init => VaultInv
  BY InitialVaultsAssumption, MarksAssumption DEF Init, VaultInv, Found, V!Vaults
<1> QED
  BY <1>1, NextSound, PTL DEF Spec

(***************************************************************************)
(* Only a verb that writes changes the vault, only when it succeeds, and   *)
(* never one that it cannot read (format.go, 173).                         *)
(***************************************************************************)
OnlyWritesWrite == [][Preserves(last'.verb, last'.status, vault, vault')]_vars

THEOREM VaultOnlyWritten == Spec => OnlyWritesWrite
<1>1. VaultInv /\ [Next]_vars => [Preserves(last'.verb, last'.status, vault, vault')]_vars
  BY NextSound DEF StepSound
<1> QED
  BY <1>1, VaultIsKept, PTL DEF Spec, OnlyWritesWrite

(***************************************************************************)
(* Every name and value in the vault after a command was there, the same,  *)
(* or may be stored today, or is a value that a rename moved to a name     *)
(* that may be: what older versions left is kept and never added to.       *)
(***************************************************************************)
WritesAreClean == [][AddsClean(last'.verb, vault, vault')]_vars

THEOREM NothingBadAdded == Spec => WritesAreClean
<1>1. VaultInv /\ [Next]_vars => [AddsClean(last'.verb, vault, vault')]_vars
  BY NextSound DEF StepSound
<1> QED
  BY <1>1, VaultIsKept, PTL DEF Spec, WritesAreClean

(***************************************************************************)
(* A value goes only by delete, which takes one, or by set, by a rename    *)
(* with --force or by an import with --overwrite, which say so; a rename   *)
(* keeps the value it moves, and nothing else changes.                     *)
(***************************************************************************)
LossIsAskedFor == [][LosesNothing(last'.verb, last'.args, vault, vault')]_vars

THEOREM NothingLostUnasked == Spec => LossIsAskedFor
<1>1. VaultInv /\ [Next]_vars => [LosesNothing(last'.verb, last'.args, vault, vault')]_vars
  BY NextSound DEF StepSound
<1> QED
  BY <1>1, VaultIsKept, PTL DEF Spec, LossIsAskedFor

(***************************************************************************)
(* A session that finds no vault, or one without what only older versions  *)
(* stored, never has one that export or run must refuse (export.go, 48-52; *)
(* run.go, childEnv).                                                      *)
(***************************************************************************)
Usable(v) == \A n \in Found(v) : Exportable(n, v[n]) /\ CheckValue(v[n])

THEOREM AlwaysUsable ==
  ASSUME \A v \in InitialVaults : Usable(v) PROVE Spec => []Usable(vault)
<1>1. Init => Usable(vault)
  BY DEF Init
<1>2. ASSUME VaultInv, Usable(vault), [Next]_vars PROVE Usable(vault)'
  <2>1. AddsClean(last'.verb, vault, vault')
    BY <1>2, NextSound DEF StepSound
  <2>2. \A n \in Found(vault') : CheckKey(n) /\ CheckValue(vault'[n])
    BY <1>2, <2>1 DEF AddsClean, Usable, Exportable
  <2> QED
    BY <2>2 DEF Usable, Exportable, CheckValue
<1> QED
  BY <1>1, <1>2, VaultIsKept, PTL DEF Spec
-----------------------------------------------------------------------------
(***************************************************************************)
(* What the parser makes of arguments.                                     *)
(***************************************************************************)
Parses(B, known) == [stop : {"no", "help", "error"}, flags : SUBSET known, rest : Seq(B)]
NoneParsed == [stop |-> "no", flags |-> {}, rest |-> <<>>]
Argument(known, p, a) ==
  IF p.stop # "no" THEN p
  ELSE IF a \in known THEN [p EXCEPT !.flags = @ \union {a}]
  ELSE IF a = <<"-h">> THEN [p EXCEPT !.stop = "help"]
  ELSE IF a \in FlagLike THEN [p EXCEPT !.stop = "error"]
  ELSE [p EXCEPT !.rest = Append(@, a)]
ArgumentStep(B, known) == [x \in Parses(B, known) \X B |-> Argument(known, x[1], x[2])]

LEMMA ArgumentFolds ==
  ASSUME NEW B, NEW known
  PROVE  Folds(Parses(B, known), B, ArgumentStep(B, known), NoneParsed)
<1>1. NoneParsed \in Parses(B, known)
  BY EmptySeq DEF NoneParsed, Parses
<1>2. ASSUME NEW p \in Parses(B, known), NEW a \in B PROVE Argument(known, p, a) \in Parses(B, known)
  <2>1. Append(p.rest, a) \in Seq(B)
    BY DEF Parses
  <2> QED
    BY <2>1 DEF Argument, Parses
<1> QED
  BY <1>1, <1>2 DEF Folds, ArgumentStep

\* The arguments that may be flags, one after the other.
ParsesAs(B, known, u) ==
  LET p == Fold(ArgumentStep(B, known), NoneParsed, u) IN
  /\ p \in Parses(B, known)
  /\ p.stop = "no" <=> <<"-h">> \notin ToSet(u) /\ ToSet(u) \intersect FlagLike \subseteq known
  /\ p.stop = "help" => <<"-h">> \in ToSet(u)
  /\ p.stop = "no" => p.flags = ToSet(u) \intersect known /\ p.rest = Keep(u, B \ FlagLike)

LEMMA ArgumentsParsed ==
  ASSUME NEW B, NEW known, known \subseteq FlagLike, NEW u \in Seq(B)
  PROVE  ParsesAs(B, known, u)
<1> DEFINE F == ArgumentStep(B, known)
           T == {w \in Seq(B) : ParsesAs(B, known, w)}
<1>1. Folds(Parses(B, known), B, F, NoneParsed)
  BY ArgumentFolds
<1>2. <<"-h">> \notin FlagLike
  BY DEF FlagLike
<1>3. \A p \in Parses(B, known), a \in B : F[<<p, a>>] = Argument(known, p, a)
  BY DEF ArgumentStep
<1> HIDE DEF F
<1>4. ParsesAs(B, known, <<>>)
  <2>1. Fold(F, NoneParsed, <<>>) = NoneParsed
    BY <1>1, FoldEmpty
  <2>2. ToSet(<<>>) = {}
    BY DEF ToSet
  <2>3. Keep(<<>>, B \ FlagLike) = <<>>
    BY KeepEmpty
  <2>4. NoneParsed \in Parses(B, known)
    BY <1>1 DEF Folds
  <2>5. NoneParsed.stop = "no" /\ NoneParsed.flags = {} /\ NoneParsed.rest = <<>>
    BY DEF NoneParsed
  <2> QED
    BY <2>1, <2>2, <2>3, <2>4, <2>5 DEF ParsesAs, F
<1>5. ASSUME NEW w \in Seq(B), NEW a \in B, ParsesAs(B, known, w)
      PROVE  ParsesAs(B, known, Append(w, a))
  <2>1. PICK p : p = Fold(F, NoneParsed, w)
    OBVIOUS
  <2>2. PICK q : q = Argument(known, p, a)
    OBVIOUS
  <2>3. p \in Parses(B, known) /\ Fold(F, NoneParsed, Append(w, a)) = q
    <3>1. Fold(F, NoneParsed, w) \in Parses(B, known)
          /\ Fold(F, NoneParsed, Append(w, a)) = F[<<Fold(F, NoneParsed, w), a>>]
      BY <1>1, FoldAppend
    <3> QED
      BY <1>3, <2>1, <2>2, <3>1
  <2>4. PICK X : X = ToSet(w)
    OBVIOUS
  <2>5. PICK k : k = Keep(w, B \ FlagLike)
    OBVIOUS
  <2>6. /\ p.stop = "no" <=> <<"-h">> \notin X /\ X \intersect FlagLike \subseteq known
        /\ p.stop = "help" => <<"-h">> \in X
        /\ p.stop = "no" => p.flags = X \intersect known /\ p.rest = k
    BY <1>5, <2>1, <2>4, <2>5 DEF ParsesAs, F
  <2>7. ToSet(Append(w, a)) = X \union {a}
    BY <2>4, AppendElements DEF ToSet
  <2>8. Keep(Append(w, a), B \ FlagLike) = IF a \in FlagLike THEN k ELSE Append(k, a)
    BY <2>5, KeepAppend
  <2>9. q \in Parses(B, known)
    BY <1>1, <1>3, <2>2, <2>3 DEF Folds
  <2>10. /\ q.stop = "no" <=> <<"-h">> \notin X \union {a} /\ (X \union {a}) \intersect FlagLike \subseteq known
         /\ q.stop = "help" => <<"-h">> \in X \union {a}
         /\ q.stop = "no" => /\ q.flags = (X \union {a}) \intersect known
                             /\ q.rest = IF a \in FlagLike THEN k ELSE Append(k, a)
    <3>1. p.stop \in {"no", "help", "error"} /\ DOMAIN p = {"stop", "flags", "rest"}
      BY <2>3 DEF Parses
    <3>2. CASE p.stop # "no"
      BY <2>2, <2>6, <3>2 DEF Argument
    <3>3. CASE p.stop = "no" /\ a \in known
      BY <1>2, <2>2, <2>3, <2>6, <3>3 DEF Argument, Parses
    <3>4. CASE p.stop = "no" /\ a \notin known /\ a = <<"-h">>
      BY <1>2, <2>2, <2>3, <2>6, <3>4 DEF Argument, Parses
    <3>5. CASE p.stop = "no" /\ a \notin known /\ a # <<"-h">> /\ a \in FlagLike
      BY <1>2, <2>2, <2>3, <2>6, <3>5 DEF Argument, Parses
    <3>6. CASE p.stop = "no" /\ a \notin known /\ a # <<"-h">> /\ a \notin FlagLike
      BY <1>2, <2>2, <2>3, <2>6, <3>6 DEF Argument, Parses
    <3> QED
      BY <3>2, <3>3, <3>4, <3>5, <3>6
  <2> QED
    BY <2>3, <2>7, <2>8, <2>9, <2>10 DEF ParsesAs, F
<1>6. Seq(B) \subseteq T
  <2>1. <<>> \in T
    BY <1>4, EmptySeq
  <2>2. \A w \in Seq(B), a \in B : w \in T => Append(w, a) \in T
    BY <1>5
  <2> HIDE DEF T
  <2> QED
    BY <2>1, <2>2, SequenceInduction
<1> QED
  BY <1>6

\* The first "--" is where a text says so, and what is before it a text too.
LEMMA EndedIs ==
  ASSUME NEW B, NEW args \in Seq(B)
  PROVE  /\ Ended(args) \in 0..Len(args) /\ Len(args) \in Nat
         /\ Flagged(args) \in Seq(B)
         /\ Ended(args) # 0 => After(Ended(args), args) \in Seq(B)
<1> DEFINE I == {i \in 1..Len(args) : args[i] = <<"--">>}
<1>1. Len(args) \in Nat
  BY LenProperties
<1>2. Ended(args) = IF I # {} THEN Min(I) ELSE 0
  BY DEF Ended, SelectInSeq
<1>3. I \subseteq 1..Len(args)
  OBVIOUS
<1> HIDE DEF I
<1>4. I # {} => Min(I) \in I
  <2>1. SUFFICES ASSUME I # {} PROVE Min(I) \in I
    OBVIOUS
  <2>0. I \subseteq Nat
    BY <1>1, <1>3
  <2>2. PICK m \in I : \A k \in I : m <= k
    BY <2>0, <2>1, Least
  <2>3. \A x \in I : (\A y \in I : x <= y) => x = m
    BY <1>3, <2>2
  <2> QED
    BY <2>2, <2>3, Zenon DEF Min
<1>5. Ended(args) \in 0..Len(args)
  <2>1. CASE I = {}
    BY <1>1, <1>2, <2>1
  <2>2. CASE I # {}
    <3>1. PICK m : m = Min(I)
      OBVIOUS
    <3>2. m \in 1..Len(args)
      BY <1>3, <1>4, <2>2, <3>1
    <3>3. Ended(args) = m
      BY <1>2, <2>2, <3>1
    <3> QED
      BY <1>1, <3>2, <3>3
  <2> QED
    BY <2>1, <2>2
<1>6. PICK e : e = Ended(args)
  OBVIOUS
<1>7. e # 0 => Before(e, args) \in Seq(B) /\ After(e, args) \in Seq(B)
  <2>1. SUFFICES ASSUME e # 0 PROVE Before(e, args) \in Seq(B) /\ After(e, args) \in Seq(B)
    OBVIOUS
  <2>2. e - 1 \in 0..Len(args) /\ e \in 0..Len(args)
    BY <1>1, <1>5, <1>6, <2>1
  <2>3. SubSeq(args, 1, e - 1) \in Seq(B)
    BY <2>2, CutAt
  <2>4. After(e, args) \in Seq(B)
    BY <2>2, CutAt
  <2> QED
    BY <2>3, <2>4 DEF Before
<1> QED
  BY <1>1, <1>5, <1>6, <1>7 DEF Flagged

\* Flags and arguments may stand in any order before the first "--": what is
\* parsed is what the arguments ask for (parseFlags, cmd.go, 24-27).
THEOREM FlagsAnywhere ==
  ASSUME NEW args, IsText(args), NEW known, known \subseteq FlagLike, NEW p, p = ParseFlags(args, known)
  PROVE  /\ p.stop = "no" <=> <<"-h">> \notin ToSet(Flagged(args)) /\ Known(args, known)
         /\ p.stop = "help" => <<"-h">> \in ToSet(Flagged(args))
         /\ p.stop = "no" => /\ p.flags = ToSet(Flagged(args)) \intersect known
                             /\ p.rest = Asked(args)
<1> DEFINE B == ToSet(args)
           s == Flagged(args)
           A == Parses(B, known)
           a == NoneParsed
           F == ArgumentStep(B, known)
           G(g) == g = [t \in SUBSET DOMAIN s |->
                          IF t = {} THEN a ELSE Argument(known, g[t \ {Max(t)}], s[Max(t)])]
           g == CHOOSE g : G(g)
           end == Ended(args)
<1>1. s \in Seq(B)
  BY EndedIs DEF IsText
<1>2. p = IF end = 0 THEN g[DOMAIN s] ELSE [g[DOMAIN s] EXCEPT !.rest = @ \o After(end, args)]
  BY DEF ParseFlags, FoldLeft, MapThenFoldSet, Argument, Flagged, Ended, NoneParsed
<1>3. Folds(A, B, F, a)
  BY ArgumentFolds
<1>4. \A q \in A, b \in B : F[<<q, b>>] = Argument(known, q, b)
  BY DEF ArgumentStep
<1>5. ParsesAs(B, known, s)
  BY <1>1, ArgumentsParsed
<1>6. ToSet(s) \subseteq B
  BY <1>1, LenProperties DEF ToSet
<1> HIDE DEF A, F, a, s, B
<1>7. PICK f : Table(A, B, F, a, s, f)
  BY <1>1, <1>3, TableExists
<1>8. G(f)
  BY <1>4, <1>7 DEF Table
<1>9. G(g)
  BY <1>8
<1> HIDE DEF g
<1>10. Unfolds(A, B, F, a, s, g)
  BY <1>4, <1>9 DEF Unfolds
<1>11. g[DOMAIN s] = Fold(F, a, s)
  BY <1>1, <1>3, <1>10, FoldIs
<1>12. PICK q : q = Fold(F, a, s)
  OBVIOUS
<1>13. /\ q \in A
       /\ q.stop = "no" <=> <<"-h">> \notin ToSet(s) /\ ToSet(s) \intersect FlagLike \subseteq known
       /\ q.stop = "help" => <<"-h">> \in ToSet(s)
       /\ q.stop = "no" => q.flags = ToSet(s) \intersect known /\ q.rest = Keep(s, B \ FlagLike)
  BY <1>5, <1>12 DEF ParsesAs, A, F, a
<1>14. p = IF end = 0 THEN q ELSE [q EXCEPT !.rest = @ \o After(end, args)]
  BY <1>2, <1>11, <1>12
<1>15. /\ p.stop = q.stop /\ p.flags = q.flags
       /\ p.rest = q.rest \o (IF end = 0 THEN <<>> ELSE After(end, args))
  <2>1. q.rest \in Seq(B)
    BY <1>13 DEF A, Parses
  <2>2. q.rest \o <<>> = q.rest
    BY <2>1, ConcatEmptySeq
  <2>3. DOMAIN q = {"stop", "flags", "rest"}
    BY <1>13 DEF A, Parses
  <2> QED
    BY <1>14, <2>2, <2>3
<1>16. Asked(args) = Keep(s, B \ FlagLike) \o (IF end = 0 THEN <<>> ELSE After(end, args))
  BY DEF Asked, s, B
<1> QED
  BY <1>13, <1>15, <1>16 DEF Known, s
-----------------------------------------------------------------------------
(***************************************************************************)
(* What the verbs that read print.                                         *)
(***************************************************************************)
\* The last command of a step that is not run.
LastIs(verb, c, e) ==
  /\ last' = [verb |-> verb, args |-> c.args, input |-> c.input, records |-> c.records,
              status |-> e.status, out |-> e.out, inherited |-> <<>>, started |-> FALSE, env |-> <<>>]
  /\ vault' = e.vault

LEMMA LastGiven ==
  ASSUME [Next]_vars
  PROVE  \/ UNCHANGED vars
         \/ \E verb \in Verbs \ {"run"} : \E c \in Invocations[verb] : LastIs(verb, c, Perform(verb, c))
         \/ vault' = vault /\ last'.verb = "run"
<1>1. ASSUME NEW verb \in Verbs \ {"run"}, Do(verb)
      PROVE  \E c \in Invocations[verb] : LastIs(verb, c, Perform(verb, c))
  <2>1. PICK c \in Invocations[verb] :
          /\ vault' = Perform(verb, c).vault
          /\ last' = [Nothing EXCEPT !.verb = verb, !.args = c.args, !.input = c.input,
                        !.records = c.records, !.status = Perform(verb, c).status,
                        !.out = Perform(verb, c).out]
    BY <1>1 DEF Do
  <2>2. PICK e : e = Perform(verb, c)
    OBVIOUS
  <2>3. LastIs(verb, c, e)
    BY <2>1, <2>2 DEF LastIs, Nothing
  <2> QED
    BY <2>2, <2>3
<1>2. ASSUME DoRun PROVE vault' = vault /\ last'.verb = "run"
  <2>1. PICK r, args, inherited :
          last' = [Nothing EXCEPT !.verb = "run", !.args = args, !.inherited = inherited,
                     !.status = r.status, !.started = r.started, !.env = r.env]
    BY <1>2 DEF DoRun
  <2> QED
    BY <1>2, <2>1 DEF DoRun, Nothing
<1> QED
  BY <1>1, <1>2 DEF Next, Verbs

LEMMA TextIs ==
  ASSUME NEW S, NEW s \in Seq(S)
  PROVE  IsText(s) /\ ToSet(s) \subseteq S
<1>1. Len(s) \in Nat /\ s \in [1..Len(s) -> S] /\ DOMAIN s = 1..Len(s)
  BY LenProperties
<1>2. s \in [1..Len(s) -> ToSet(s)]
  BY <1>1 DEF ToSet
<1>3. s \in Seq(ToSet(s))
  BY <1>1, <1>2, SeqDef
<1> QED
  BY <1>1, <1>3 DEF IsText, ToSet

\* The vault as the reading verbs find it.
LEMMA LoadedVault ==
  ASSUME VaultInv, Load = OK
  PROVE  /\ \A n \in Found(vault) : vault[n] \in Seq(Bytes)
         /\ Holding = Found(vault)
         /\ IsText(Stored) /\ ToSet(Stored) = Found(vault)
<1>1. vault \notin {Absent, Unreadable}
  BY DEF Load, Decodable, OK, VaultNotFound, Generic
<1>2. vault \in V!Vaults /\ Found(vault) = {n \in Names : vault[n] # Absent}
  BY <1>1 DEF VaultInv, Found
<1>3. \A n \in Found(vault) : vault[n] \in Seq(Bytes)
  BY <1>2 DEF V!Vaults
<1>4. Holding = Found(vault)
  BY <1>2 DEF Holding, V!Has
<1>5. Stored = Keep(SortedNames, Holding)
  BY DEF Stored
<1>6. Keep(SortedNames, Holding) \in Seq(Names)
      /\ ToSet(Keep(SortedNames, Holding)) = ToSet(SortedNames) \intersect Holding
  <2>1. SortedNames \in Seq(Names)
    BY TextsAssumption DEF IsText, Names
  <2> HIDE DEF Names
  <2> QED
    BY <2>1, KeepSet
<1>7. ToSet(Stored) = Found(vault)
  BY <1>2, <1>4, <1>5, <1>6 DEF Names
<1>8. IsText(Stored)
  BY <1>5, <1>6, TextIs
<1> QED
  BY <1>3, <1>4, <1>7, <1>8

LEMMA BytesAlphabet == Alphabet(Bytes)
  BY DEF Alphabet, Bytes, Quotes, Blanks

\* Either reader of an export, the shell and import, finds the vault in it.
Reimported(out) == ParseDotenv(out).ok => ToSet(ParseDotenv(out).entries) = Contents

LEMMA ExportRestores ==
  ASSUME VaultInv, NEW c, IsText(c.args), ExportAll(c).status = OK,
         <<"-h">> \notin ToSet(Flagged(c.args))
  PROVE  Evaluated(ExportAll(c).out) = Contents /\ Reimported(ExportAll(c).out)
<1> DEFINE p == ParseFlags(c.args, {})
           printed == Export(Stored, vault)
<1>1. p.stop # "help"
  BY FlagsAnywhere
<1>2. ExportAll(c) = IF p.stop # "no" THEN Failed(Stopped(p))
                     ELSE IF p.rest # <<>> THEN Failed(Generic)
                     ELSE IF Load # OK THEN Failed(Load)
                     ELSE Effect(IF printed.ok THEN OK ELSE Generic, vault, printed.out)
  BY DEF ExportAll
<1> HIDE DEF p, printed
<1>3. \A x : Failed(x).status = x
  BY DEF Failed, Effect
<1>4. Stopped(p) # OK /\ Generic # OK
  BY <1>1 DEF Stopped, OK, Generic
<1>5. Load = OK /\ ExportAll(c) = Effect(IF printed.ok THEN OK ELSE Generic, vault, printed.out)
  BY <1>2, <1>3, <1>4
<1>6. printed.ok /\ ExportAll(c).out = printed.out
  BY <1>4, <1>5 DEF Effect
<1>7. /\ \A n \in Found(vault) : vault[n] \in Seq(Bytes)
      /\ IsText(Stored) /\ ToSet(Stored) = Found(vault)
  BY <1>5, LoadedVault
<1>8. \A n \in ToSet(Stored) : IsText(n) /\ vault[n] \in Seq(Bytes)
  BY <1>7, TextsAssumption, TextIs DEF Found
<1>9. Evaluated(Export(Stored, vault).out) = Assigned(vault, ToSet(Stored))
  BY <1>6, <1>7, <1>8, BytesAlphabet, ExportEvaluates DEF printed
<1>10. ParseDotenv(Export(Stored, vault).out).ok =>
         ToSet(ParseDotenv(Export(Stored, vault).out).entries) = Assigned(vault, ToSet(Stored))
  <2>1. "cr" \in Bytes
    BY DEF Bytes
  <2> QED
    BY <1>6, <1>7, <1>8, <2>1, BytesAlphabet, ExportReadsBack DEF printed
<1> QED
  BY <1>6, <1>7, <1>9, <1>10 DEF printed, Assigned, Contents, Reimported

(***************************************************************************)
(* A shell that evals what export wrote has every name of the vault with   *)
(* its value, and nothing else (export.go, shellquote.go).                 *)
(***************************************************************************)
THEOREM EvalAlwaysRestores == Spec => []EvalRestores
<1>1. Init => EvalRestores
  BY DEF Init, Nothing, EvalRestores
<1>2. ASSUME VaultInv, EvalRestores, [Next]_vars PROVE EvalRestores'
  <2>1. CASE UNCHANGED vars
    BY <1>2, <2>1 DEF EvalRestores, vars, Contents, Helped
  <2>2. CASE last'.verb # "export"
    BY <2>2 DEF EvalRestores
  <2>3. CASE \E c \in Invocations["export"] : LastIs("export", c, ExportAll(c))
    <3>1. PICK c \in Invocations["export"] : LastIs("export", c, ExportAll(c))
      BY <2>3
    <3>2. IsText(c.args)
      BY TextsAssumption DEF Verbs
    <3>3. vault' = vault
      BY <3>1, ReadingVerbs DEF LastIs
    <3>4. last'.args = c.args /\ last'.status = ExportAll(c).status /\ last'.out = ExportAll(c).out
      BY <3>1 DEF LastIs
    <3>5. ExportAll(c).status = OK /\ <<"-h">> \notin ToSet(Flagged(c.args))
            => Evaluated(ExportAll(c).out) = Contents
      BY <1>2, <3>2, ExportRestores
    <3>6. Contents' = Contents
      BY <3>3 DEF Contents
    <3> QED
      BY <3>4, <3>5, <3>6 DEF EvalRestores, Helped
  <2>4. last'.verb = "export" /\ ~UNCHANGED vars
          => \E c \in Invocations["export"] : LastIs("export", c, ExportAll(c))
    <3>1. \A verb, c : LastIs(verb, c, Perform(verb, c)) /\ last'.verb = "export" => verb = "export"
      BY DEF LastIs
    <3>2. \A c : Perform("export", c) = ExportAll(c)
      BY DEF Perform
    <3> QED
      BY <1>2, <3>1, <3>2, LastGiven
  <2> QED
    BY <2>1, <2>2, <2>3, <2>4
<1> QED
  BY <1>1, <1>2, VaultIsKept, PTL DEF Spec
(***************************************************************************)
(* What export wrote, read again by import as a .env file, is refused or   *)
(* is the vault it was: the quoting that is for a shell (shellquote.go)    *)
(* means nothing else to import (dotenv.go), whatever the values are.      *)
(***************************************************************************)
THEOREM ExportAlwaysReimports == Spec => []ExportReimports
<1>1. Init => ExportReimports
  BY DEF Init, Nothing, ExportReimports
<1>2. ASSUME VaultInv, ExportReimports, [Next]_vars PROVE ExportReimports'
  <2>1. CASE UNCHANGED vars
    BY <1>2, <2>1 DEF ExportReimports, vars, Contents, Helped
  <2>2. CASE last'.verb # "export"
    BY <2>2 DEF ExportReimports
  <2>3. CASE \E c \in Invocations["export"] : LastIs("export", c, ExportAll(c))
    <3>1. PICK c \in Invocations["export"] : LastIs("export", c, ExportAll(c))
      BY <2>3
    <3>2. IsText(c.args)
      BY TextsAssumption DEF Verbs
    <3>3. vault' = vault
      BY <3>1, ReadingVerbs DEF LastIs
    <3>4. last'.args = c.args /\ last'.status = ExportAll(c).status /\ last'.out = ExportAll(c).out
      BY <3>1 DEF LastIs
    <3>5. ExportAll(c).status = OK /\ <<"-h">> \notin ToSet(Flagged(c.args))
            => Reimported(ExportAll(c).out)
      BY <1>2, <3>2, ExportRestores
    <3>6. Contents' = Contents
      BY <3>3 DEF Contents
    <3> QED
      BY <3>4, <3>5, <3>6 DEF ExportReimports, Helped, Reimported
  <2>4. last'.verb = "export" /\ ~UNCHANGED vars
          => \E c \in Invocations["export"] : LastIs("export", c, ExportAll(c))
    <3>1. \A verb, c : LastIs(verb, c, Perform(verb, c)) /\ last'.verb = "export" => verb = "export"
      BY DEF LastIs
    <3>2. \A c : Perform("export", c) = ExportAll(c)
      BY DEF Perform
    <3> QED
      BY <1>2, <3>1, <3>2, LastGiven
  <2> QED
    BY <2>1, <2>2, <2>3, <2>4
<1> QED
  BY <1>1, <1>2, VaultIsKept, PTL DEF Spec
-----------------------------------------------------------------------------
\* What reveal -0 is asked for is a text, of the arguments.
LEMMA AskedIs ==
  ASSUME NEW args, IsText(args)
  PROVE  IsText(Asked(args))
<1> DEFINE B == ToSet(args)
           k == Keep(Flagged(args), B \ FlagLike)
           r == IF Ended(args) = 0 THEN <<>> ELSE After(Ended(args), args)
<1>1. args \in Seq(B)
  BY DEF IsText
<1>2. Flagged(args) \in Seq(B) /\ (Ended(args) # 0 => After(Ended(args), args) \in Seq(B))
  BY <1>1, EndedIs
<1>3. k \in Seq(B)
  BY <1>2, KeepSet
<1>4. r \in Seq(B)
  BY <1>2, EmptySeq
<1>5. Asked(args) = k \o r
  BY DEF Asked
<1> HIDE DEF B, k, r
<1>6. k \o r \in Seq(B)
  BY <1>3, <1>4, ConcatIn
<1>7. Asked(args) \in Seq(B)
  BY <1>5, <1>6
<1> QED
  BY <1>7, TextIs

\* A read of required keys succeeds if they are all in the vault.
LEMMA LookupIs ==
  ASSUME VaultInv, NEW keys, IsText(keys), keys # <<>>
  PROVE  Lookup(keys) = OK <=> ToSet(keys) \subseteq Found(vault)
<1>1. V!OK = OK /\ V!KeyNotFound # OK /\ VaultNotFound # OK /\ Generic # OK
  BY DEF V!OK, V!KeyNotFound, OK, VaultNotFound, Generic
<1>2. CASE Load # OK
  <2>1. vault \in {Absent, Unreadable}
    BY <1>2 DEF Load, Decodable
  <2>2. ToSet(keys) # {}
    <3>1. Len(keys) \in Nat /\ DOMAIN keys = 1..Len(keys) /\ Len(keys) # 0
      BY LenProperties, EmptySeq DEF IsText
    <3>2. keys[1] \in ToSet(keys)
      BY <3>1 DEF ToSet
    <3> QED
      BY <3>2
  <2> QED
    BY <1>2, <2>1, <2>2 DEF Lookup, Found
<1>3. CASE Load = OK
  <2>1. Holding = Found(vault)
    BY <1>3, LoadedVault
  <2>2. V!Missing(vault, ToSet(keys)) = {} <=> ToSet(keys) \subseteq Found(vault)
    BY <2>1 DEF V!Missing, Holding, V!Has
  <2> QED
    BY <1>1, <1>3, <2>2 DEF Lookup, V!LookupSome
<1> QED
  BY <1>2, <1>3

LEMMA RevealIs ==
  ASSUME VaultInv, NEW c, IsText(c.args), <<"-0">> \in ToSet(Flagged(c.args)),
         <<"-h">> \notin ToSet(Flagged(c.args)), NEW asked, asked = Asked(c.args), NEW e, e = Reveal(c)
  PROVE  IF asked # <<>> /\ ToSet(asked) \subseteq Found(vault) /\ Known(c.args, {<<"-0">>})
         THEN /\ e.status = OK
              /\ (\A n \in ToSet(asked) : ~Occurs("nul", vault[n])) =>
                    Records(e.out) = [i \in DOMAIN asked |-> vault[asked[i]]]
         ELSE e.status # OK /\ e.out = <<>>
<1> DEFINE known == {<<"-0">>}
           p == ParseFlags(c.args, known)
<1>1. known \subseteq FlagLike
  BY DEF FlagLike
<1>2. e = IF p.stop # "no" THEN Failed(Stopped(p))
          ELSE IF p.rest = <<>> THEN Failed(Generic)
          ELSE IF Lookup(p.rest) # OK THEN Failed(Lookup(p.rest))
          ELSE Printed(IF Has(p, "-0") THEN EmitNUL(p.rest, vault) ELSE Emit(p.rest, vault))
  BY DEF Reveal
<1>3. <<"-0">> \in known
  OBVIOUS
<1> HIDE DEF known
<1>4. /\ p.stop = "no" <=> Known(c.args, known)
      /\ p.stop # "help"
      /\ p.stop = "no" => p.flags = ToSet(Flagged(c.args)) \intersect known /\ p.rest = asked
  BY <1>1, FlagsAnywhere
<1> HIDE DEF p
<1>5. \A x : Failed(x).status = x /\ Failed(x).out = <<>> /\ Printed(x).status = OK /\ Printed(x).out = x
  BY DEF Failed, Printed, Effect
<1>6. Stopped(p) # OK /\ Generic # OK
  BY <1>4 DEF Stopped, OK, Generic
<1>7. IsText(asked)
  BY AskedIs
<1>8. CASE p.stop # "no"
  BY <1>2, <1>4, <1>5, <1>6, <1>8 DEF known
<1>9. CASE p.stop = "no" /\ asked = <<>>
  BY <1>2, <1>4, <1>5, <1>6, <1>9
<1>10. CASE p.stop = "no" /\ asked # <<>> /\ ~(ToSet(asked) \subseteq Found(vault))
  <2>1. Lookup(asked) # OK
    BY <1>7, <1>10, LookupIs
  <2> QED
    BY <1>2, <1>4, <1>5, <1>10, <2>1
<1>11. CASE p.stop = "no" /\ asked # <<>> /\ ToSet(asked) \subseteq Found(vault)
  <2>1. Lookup(asked) = OK
    BY <1>7, <1>11, LookupIs
  <2>2. Has(p, "-0")
    BY <1>3, <1>4, <1>11 DEF Has
  <2>3. e = Printed(EmitNUL(asked, vault))
    BY <1>2, <1>4, <1>11, <2>1, <2>2
  <2>4. e.status = OK /\ e.out = EmitNUL(asked, vault)
    BY <1>5, <2>3
  <2>5. ASSUME \A n \in ToSet(asked) : ~Occurs("nul", vault[n])
        PROVE  Records(EmitNUL(asked, vault)) = [i \in DOMAIN asked |-> vault[asked[i]]]
    <3>1. Load = OK
      BY <2>1 DEF Lookup
    <3>2. \A n \in ToSet(asked) : vault[n] \in Seq(Bytes)
      BY <1>11, <3>1, LoadedVault
    <3>3. "nul" \in Bytes
      BY DEF Bytes
    <3> QED
      BY <1>7, <1>11, <2>5, <3>2, <3>3, NulsDelimit
  <2> QED
    BY <1>4, <1>11, <2>4, <2>5 DEF known
<1> QED
  BY <1>8, <1>9, <1>10, <1>11

(***************************************************************************)
(* What reveal -0 prints, cut at its NULs, is the values asked for, in the *)
(* order asked; and it prints nothing if it cannot print them all          *)
(* (read.go, 14-19).                                                       *)
(***************************************************************************)
THEOREM RevealAlwaysRestores == Spec => []RevealRestores
<1>1. Init => RevealRestores
  BY DEF Init, Nothing, RevealRestores
<1>2. ASSUME VaultInv, RevealRestores, [Next]_vars PROVE RevealRestores'
  <2>1. CASE UNCHANGED vars
    BY <1>2, <2>1 DEF RevealRestores, vars, Helped, Found
  <2>2. CASE last'.verb # "reveal"
    BY <2>2 DEF RevealRestores
  <2>3. CASE \E c \in Invocations["reveal"] : LastIs("reveal", c, Reveal(c))
    <3>1. PICK c \in Invocations["reveal"] : LastIs("reveal", c, Reveal(c))
      BY <2>3
    <3>2. IsText(c.args)
      BY TextsAssumption DEF Verbs
    <3>3. vault' = vault
      BY <3>1, ReadingVerbs DEF LastIs
    <3>4. last'.args = c.args /\ last'.status = Reveal(c).status /\ last'.out = Reveal(c).out
      BY <3>1 DEF LastIs
    <3>5. PICK asked, e : asked = Asked(c.args) /\ e = Reveal(c)
      OBVIOUS
    <3>6. ASSUME <<"-0">> \in ToSet(Flagged(c.args)), <<"-h">> \notin ToSet(Flagged(c.args))
          PROVE  IF asked # <<>> /\ ToSet(asked) \subseteq Found(vault) /\ Known(c.args, {<<"-0">>})
                 THEN /\ e.status = OK
                      /\ (\A n \in ToSet(asked) : ~Occurs("nul", vault[n])) =>
                            Records(e.out) = [i \in DOMAIN asked |-> vault[asked[i]]]
                 ELSE e.status # OK /\ e.out = <<>>
      BY <1>2, <3>2, <3>5, <3>6, RevealIs
    <3> QED
      BY <3>3, <3>4, <3>5, <3>6 DEF RevealRestores, Helped, Found
  <2>4. last'.verb = "reveal" /\ ~UNCHANGED vars
          => \E c \in Invocations["reveal"] : LastIs("reveal", c, Reveal(c))
    <3>1. \A verb, c : LastIs(verb, c, Perform(verb, c)) /\ last'.verb = "reveal" => verb = "reveal"
      BY DEF LastIs
    <3>2. \A c : Perform("reveal", c) = Reveal(c)
      BY DEF Perform
    <3> QED
      BY <1>2, <3>1, <3>2, LastGiven
  <2> QED
    BY <2>1, <2>2, <2>3, <2>4
<1> QED
  BY <1>1, <1>2, VaultIsKept, PTL DEF Spec
-----------------------------------------------------------------------------
(***************************************************************************)
(* What run makes of its lists, and what its child gets.                   *)
(***************************************************************************)
\* The names of a list that run accepts can be those of variables.
LEMMA KeysAre ==
  ASSUME NEW csv, IsText(csv), GoodKeys(csv), NEW S, Upper \union Digits \subseteq S
  PROVE  /\ Keys(csv) \in Seq({k \in Nameable(S) : CheckKey(k)})
         /\ ToSet(Keys(csv)) = ToSet(Split(",", csv)) \ {<<>>}
<1> DEFINE X == ToSet(csv)
           C == {k \in Nameable(S) : CheckKey(k)}
<1>1. PICK ks : ks = Keys(csv)
  OBVIOUS
<1>2. PICK R : R = Seq(X)
  OBVIOUS
<1>3. PICK ps : ps = Split(",", csv)
  OBVIOUS
<1>4. ps \in Seq(R)
  <2>1. csv \in Seq(X)
    BY DEF IsText
  <2> HIDE DEF X
  <2> QED
    BY <1>2, <1>3, <2>1, SplitType DEF Pieces
<1>5. ks = IF csv = <<>> THEN <<>> ELSE ps
  BY <1>1, <1>3 DEF Keys
<1>6. ks \in Seq(R)
  BY <1>4, <1>5, EmptySeq
<1>7. Len(ks) \in Nat /\ DOMAIN ks = 1..Len(ks) /\ ks \in [1..Len(ks) -> R]
  BY <1>6, LenProperties
<1>8. ASSUME NEW i \in 1..Len(ks) PROVE ks[i] \in C
  <2>1. PICK k : k = ks[i]
    OBVIOUS
  <2>2. CheckKey(k) /\ k \in Seq(X)
    BY <1>1, <1>2, <1>7, <2>1 DEF GoodKeys
  <2>3. Len(k) \in Nat /\ DOMAIN k = 1..Len(k) /\ k \in [1..Len(k) -> X]
    BY <2>2, LenProperties
  <2>4. k \in [1..Len(k) -> S]
    BY <2>2, <2>3 DEF CheckKey
  <2>5. k \in Seq(S)
    BY <2>3, <2>4, SeqDef
  <2>6. ~Occurs("=", k)
    BY <2>2 DEF CheckKey, Occurs, Upper, Digits
  <2> QED
    BY <2>1, <2>2, <2>5, <2>6 DEF Nameable
<1>9. ks \in Seq(C)
  <2>1. ks \in [1..Len(ks) -> C]
    BY <1>7, <1>8
  <2> HIDE DEF C
  <2> QED
    BY <1>7, <2>1, SeqDef
<1>10. <<>> \notin C
  BY DEF CheckKey
<1>11. ToSet(ks) = ToSet(ps) \ {<<>>}
  <2>1. CASE csv = <<>>
    <3>1. ps = << <<>> >>
      BY <1>3, <2>1, SplitEmpty
    <3>2. ToSet(ps) = {<<>>}
      BY <3>1 DEF ToSet
    <3>3. ToSet(ks) = {}
      BY <1>5, <2>1 DEF ToSet
    <3> QED
      BY <3>2, <3>3
  <2>2. CASE csv # <<>>
    <3>1. ks = ps
      BY <1>5, <2>2
    <3>2. ToSet(ks) \subseteq C
      BY <1>7, <1>8 DEF ToSet
    <3> QED
      BY <1>10, <3>1, <3>2
  <2> QED
    BY <2>1, <2>2
<1> QED
  BY <1>1, <1>3, <1>9, <1>11

LEMMA ListedIs ==
  ASSUME NEW u, NEW flag, NEW csv, LastList(u, flag, csv), IsText(csv), GoodKeys(csv)
  PROVE  Listed(u, flag) = ToSet(Keys(csv))
<1>1. Listed(u, flag) = IF Turns(u, flag) = {} THEN {}
                        ELSE ToSet(Split(",", u[Max(Turns(u, flag)) + 1])) \ {<<>>}
  BY DEF Listed, Turns
<1>2. CASE Turns(u, flag) = {}
  <2>1. Keys(csv) = <<>>
    BY <1>2 DEF LastList, Keys
  <2>2. ToSet(Keys(csv)) = {}
    BY <2>1 DEF ToSet
  <2> QED
    BY <1>1, <1>2, <2>2
<1>3. CASE Turns(u, flag) # {}
  <2>1. csv = u[Max(Turns(u, flag)) + 1]
    BY <1>3 DEF LastList
  <2>2. ToSet(Keys(csv)) = ToSet(Split(",", csv)) \ {<<>>}
    BY KeysAre
  <2> QED
    BY <1>1, <1>3, <2>1, <2>2
<1> QED
  BY <1>2, <1>3
LEMMA LookupEnds ==
  ASSUME VaultInv, NEW keys
  PROVE  /\ Lookup(keys) # OK => Lookup(keys) >= 120
         /\ Lookup(keys) = OK => Load = OK /\ ToSet(keys) \subseteq Found(vault)
<1>1. V!OK = OK /\ V!KeyNotFound = KeyNotFound /\ VaultNotFound # OK /\ Generic # OK /\ KeyNotFound # OK
      /\ KeyNotFound >= 120 /\ VaultNotFound >= 120 /\ Generic >= 120
  BY DEF V!OK, V!KeyNotFound, OK, VaultNotFound, Generic, KeyNotFound
<1>2. CASE Load # OK
  <2>1. Load \in {VaultNotFound, Generic}
    BY <1>2 DEF Load
  <2> QED
    BY <1>1, <1>2, <2>1 DEF Lookup
<1>3. CASE Load = OK
  <2>1. Holding = Found(vault)
    BY <1>3, LoadedVault
  <2>2. V!Missing(vault, ToSet(keys)) = {} <=> ToSet(keys) \subseteq Found(vault)
    BY <2>1 DEF V!Missing, Holding, V!Has
  <2>3. Lookup(keys) = IF V!Missing(vault, ToSet(keys)) # {} THEN V!KeyNotFound ELSE V!OK
    BY <1>3 DEF Lookup, V!LookupSome
  <2> QED
    BY <1>1, <1>3, <2>2, <2>3
<1> QED
  BY <1>2, <1>3

Own(status) == [status |-> status, started |-> FALSE, env |-> <<>>]
Child(env) == [status |-> OK, started |-> TRUE, env |-> env]
Endings == {"ok", "denied", "missing", "EACCES", "ENOENT", "E2BIG"}

\* What run names to its child: all that is required, and what there is of the rest.
RunKeys(flags) == Keys(flags.only) \o Keep(Keys(flags.optional), Holding)

LEMMA RunEnds ==
  ASSUME VaultInv, NEW args, IsText(args), NEW inherited, NEW exec \in Endings,
         NEW r, r = RunOf(args, inherited, exec), NEW f, f = RunFlags(Flagged(args))
  PROVE  IF r.started
         THEN /\ RunnableFlags(f) /\ Lookup(Keys(f.only)) = OK /\ ChildValues(RunKeys(f))
              /\ r.status = OK /\ r.env = Overlay(Environ(inherited), RunKeys(f), vault)
         ELSE r.env = <<>> /\ (r.status >= 120 \/ f.stop = "help") /\ r.started = FALSE
<1>1. Ended(args) # 0 => Flagged(args) = Before(Ended(args), args)
  BY DEF Flagged
<1>2. PICK g : g = RunFlags(Before(Ended(args), args))
  OBVIOUS
<1>3. Ended(args) # 0 => g = f
  BY <1>1, <1>2
<1>4. PICK keys : keys = RunKeys(f)
  OBVIOUS
<1>5. r = IF Ended(args) = 0 \/ Ended(args) = Len(args) THEN Own(Generic)
          ELSE IF f.stop = "help" THEN Own(OK)
          ELSE IF ~RunnableFlags(f) THEN Own(Generic)
          ELSE IF Lookup(Keys(f.only)) # OK THEN Own(Lookup(Keys(f.only)))
          ELSE IF ~ChildValues(keys) THEN Own(Generic)
          ELSE CASE exec \in {"denied", "EACCES"} -> Own(NotExecutable)
                 [] exec \in {"missing", "ENOENT"} -> Own(NotFound)
                 [] exec = "E2BIG" -> Own(Generic)
                 [] exec = "ok" -> Child(Overlay(Environ(inherited), keys, vault))
  <2>1. r = IF Ended(args) = 0 \/ Ended(args) = Len(args) THEN Own(Generic)
            ELSE IF g.stop = "help" THEN Own(OK)
            ELSE IF ~RunnableFlags(g) THEN Own(Generic)
            ELSE IF Lookup(Keys(g.only)) # OK THEN Own(Lookup(Keys(g.only)))
            ELSE IF ~ChildValues(RunKeys(g)) THEN Own(Generic)
            ELSE CASE exec \in {"denied", "EACCES"} -> Own(NotExecutable)
                   [] exec \in {"missing", "ENOENT"} -> Own(NotFound)
                   [] exec = "E2BIG" -> Own(Generic)
                   [] exec = "ok" -> Child(Overlay(Environ(inherited), RunKeys(g), vault))
    BY <1>2 DEF RunOf, Ended, Own, Child, RunKeys, SelectInSeq
  <2> QED
    BY <1>3, <1>4, <2>1
<1>6. \A x : Own(x).started = FALSE /\ Own(x).status = x /\ Own(x).env = <<>>
  BY DEF Own
<1>7. \A x : Child(x).started = TRUE /\ Child(x).status = OK /\ Child(x).env = x
  BY DEF Child
<1>8. Generic >= 120 /\ NotExecutable >= 120 /\ NotFound >= 120
  BY DEF Generic, NotExecutable, NotFound
<1>9. Lookup(Keys(f.only)) # OK => Lookup(Keys(f.only)) >= 120
  BY LookupEnds
<1>10. CASE Ended(args) = 0 \/ Ended(args) = Len(args)
  BY <1>5, <1>6, <1>8, <1>10
<1>11. CASE ~(Ended(args) = 0 \/ Ended(args) = Len(args)) /\ (f.stop = "help" \/ ~RunnableFlags(f))
  BY <1>5, <1>6, <1>8, <1>11
<1>12. CASE /\ ~(Ended(args) = 0 \/ Ended(args) = Len(args)) /\ ~(f.stop = "help" \/ ~RunnableFlags(f))
            /\ Lookup(Keys(f.only)) # OK
  BY <1>5, <1>6, <1>9, <1>12
<1>13. CASE /\ ~(Ended(args) = 0 \/ Ended(args) = Len(args)) /\ ~(f.stop = "help" \/ ~RunnableFlags(f))
            /\ Lookup(Keys(f.only)) = OK /\ ~ChildValues(keys)
  BY <1>5, <1>6, <1>8, <1>13
<1>14. CASE /\ ~(Ended(args) = 0 \/ Ended(args) = Len(args)) /\ ~(f.stop = "help" \/ ~RunnableFlags(f))
            /\ Lookup(Keys(f.only)) = OK /\ ChildValues(keys)
  <2>1. r = CASE exec \in {"denied", "EACCES"} -> Own(NotExecutable)
              [] exec \in {"missing", "ENOENT"} -> Own(NotFound)
              [] exec = "E2BIG" -> Own(Generic)
              [] exec = "ok" -> Child(Overlay(Environ(inherited), keys, vault))
    BY <1>5, <1>14
  <2>2. \/ r = Own(NotExecutable) \/ r = Own(NotFound) \/ r = Own(Generic)
        \/ r = Child(Overlay(Environ(inherited), keys, vault))
    BY <2>1 DEF Endings
  <2> QED
    BY <1>4, <1>6, <1>7, <1>8, <1>14, <2>2
<1> QED
  BY <1>10, <1>11, <1>12, <1>13, <1>14

\* How run ends, whatever else is offered as a name, of bytes in S.
RunGives(S, args, inherited, r) ==
  LET required == Listed(Flagged(args), "--only")
      named == required \union (Listed(Flagged(args), "--optional") \intersect Found(vault))
  IN  IF r.started
      THEN /\ required \subseteq Found(vault) /\ r.env \in Seq(Seq(S))
           /\ \A k \in named : Getenv(r.env, k) = {vault[k]} /\ CheckValue(vault[k])
           /\ \A k \in Nameable(S) \ named : Getenv(r.env, k) = Getenv(inherited, k)
      ELSE r.env = <<>> /\ (r.status >= 120 \/ <<"-h">> \in ToSet(Flagged(args))) /\ r.started = FALSE

LEMMA RunIs ==
  ASSUME VaultInv, NEW args, IsText(args), \A a \in ToSet(args) : IsText(a),
         NEW inherited \in Seq(Seq(Bytes)), NEW exec \in Endings,
         NEW r, r = RunOf(args, inherited, exec), NEW S, Bytes \subseteq S
  PROVE  RunGives(S, args, inherited, r)
<1>0. PICK required, named :
        /\ required = Listed(Flagged(args), "--only")
        /\ named = required \union (Listed(Flagged(args), "--optional") \intersect Found(vault))
  OBVIOUS
<1>1. PICK B, u, f : B = ToSet(args) /\ u = Flagged(args) /\ f = RunFlags(u)
  OBVIOUS
<1>2. u \in Seq(B)
  <2>1. args \in Seq(B)
    BY <1>1 DEF IsText
  <2> QED
    BY <1>1, <2>1, EndedIs
<1>3. FlagsFor(B, u, f)
  BY <1>1, <1>2, RunFlagsAre
<1>4. IF r.started
      THEN /\ RunnableFlags(f) /\ Lookup(Keys(f.only)) = OK /\ ChildValues(RunKeys(f))
           /\ r.status = OK /\ r.env = Overlay(Environ(inherited), RunKeys(f), vault)
      ELSE r.env = <<>> /\ (r.status >= 120 \/ f.stop = "help") /\ r.started = FALSE
  BY <1>1, RunEnds
<1>5. CASE ~r.started
  BY <1>1, <1>3, <1>4, <1>5 DEF FlagsFor, RunGives
<1>6. CASE r.started
  <2>1. RunnableFlags(f) /\ Lookup(Keys(f.only)) = OK /\ ChildValues(RunKeys(f))
        /\ r.env = Overlay(Environ(inherited), RunKeys(f), vault)
    BY <1>4, <1>6
  <2>2. f.stop = "no" /\ GoodKeys(f.only) /\ GoodKeys(f.optional)
    BY <2>1 DEF RunnableFlags
  <2>3. LastList(u, "--only", f.only) /\ LastList(u, "--optional", f.optional)
    BY <1>3, <2>2 DEF FlagsFor
  <2>4. IsText(f.only) /\ IsText(f.optional)
    <3>1. f.only \in B \union {<<>>} /\ f.optional \in B \union {<<>>}
      BY <1>3 DEF FlagsFor, FlagStates
    <3>2. IsText(<<>>)
      BY EmptySeq DEF IsText
    <3> QED
      BY <1>1, <3>1, <3>2
  <2>5. PICK ro, op : ro = Keys(f.only) /\ op = Keys(f.optional)
    OBVIOUS
  <2>6. required = ToSet(ro) /\ named = ToSet(ro) \union (ToSet(op) \intersect Found(vault))
    BY <1>0, <1>1, <2>2, <2>3, <2>4, <2>5, ListedIs
  <2>7. Load = OK /\ required \subseteq Found(vault)
    BY <2>1, <2>5, <2>6, LookupEnds
  <2>8. Holding = Found(vault) /\ \A n \in Found(vault) : vault[n] \in Seq(Bytes)
    BY <2>7, LoadedVault
  <2>9. PICK C : C = Nameable(S)
    OBVIOUS
  <2>10. ro \in Seq(C) /\ op \in Seq(C)
    <3>1. Upper \union Digits \subseteq S
      BY DEF Bytes
    <3>2. ro \in Seq({k \in Nameable(S) : CheckKey(k)}) /\ op \in Seq({k \in Nameable(S) : CheckKey(k)})
      BY <2>2, <2>4, <2>5, <3>1, KeysAre
    <3>3. {k \in Nameable(S) : CheckKey(k)} \subseteq C
      BY <2>9
    <3> QED
      BY <3>2, <3>3, SeqMonotonic
  <2>11. PICK ko : ko = Keep(op, Holding)
    OBVIOUS
  <2>12. ko \in Seq(C) /\ ToSet(ko) = ToSet(op) \intersect Found(vault)
    BY <2>8, <2>10, <2>11, KeepSet
  <2>13. PICK keys : keys = ro \o ko
    OBVIOUS
  <2>14. keys \in Seq(C) /\ ToSet(keys) = named
    <3>1. ToSet(ro \o ko) = ToSet(ro) \union ToSet(ko)
      BY <2>10, <2>12, ConcatSet
    <3>2. ro \o ko \in Seq(C)
      BY <2>10, <2>12, ConcatIn
    <3> QED
      BY <2>6, <2>12, <2>13, <3>1, <3>2
  <2>15. RunKeys(f) = keys
    BY <2>5, <2>11, <2>13 DEF RunKeys
  <2>16. named \subseteq Found(vault) /\ named \subseteq C
    BY <2>6, <2>7, <2>14, TextElements
  <2>17. keys \in Seq(named)
    <3>1. IsText(keys)
      BY <2>14, TextIs
    <3> QED
      BY <2>14, <3>1 DEF IsText
  <2>18. Seq(Bytes) \subseteq Seq(S) /\ inherited \in Seq(Seq(S))
    BY SeqMonotonic
  <2>19. Puttable(S, named, vault)
    <3>1. "=" \in S
      BY DEF Bytes
    <3> QED
      BY <2>8, <2>9, <2>16, <2>18, <3>1 DEF Puttable
  <2>20. /\ r.env \in Seq(Seq(S))
         /\ \A k \in ToSet(keys) : Getenv(r.env, k) = {vault[k]}
         /\ \A k \in Nameable(S) \ ToSet(keys) : Getenv(r.env, k) = Getenv(inherited, k)
    <3>1. PICK e : e = r.env
      OBVIOUS
    <3>2. e = Overlay(Environ(inherited), keys, vault)
      BY <2>1, <2>15, <3>1
    <3> QED
      BY <2>17, <2>18, <2>19, <3>1, <3>2, OverlayShows
  <2>21. \A k \in ToSet(keys) : CheckValue(vault[k])
    BY <2>1, <2>15 DEF ChildValues, ToSet
  <2> QED
    BY <1>0, <1>6, <2>7, <2>14, <2>20, <2>21 DEF RunGives
<1> QED
  BY <1>5, <1>6
\* What run gives its child is taken from the vault, and nothing else is
\* changed; every other end of run is its own.
THEOREM RunAlwaysInjects == Spec => []RunInjectsExactly
<1>1. Init => RunInjectsExactly
  BY DEF Init, Nothing, RunInjectsExactly
<1>2. ASSUME VaultInv, RunInjectsExactly, [Next]_vars PROVE RunInjectsExactly'
  <2>1. CASE UNCHANGED vars
    BY <1>2, <2>1 DEF RunInjectsExactly, vars, Helped, Found
  <2>2. CASE last'.verb # "run"
    BY <2>2 DEF RunInjectsExactly
  <2>3. CASE DoRun
    <3>1. PICK c \in Invocations["run"], inherited \in Environments, exec \in Endings :
            last' = [Nothing EXCEPT !.verb = "run", !.args = c.args, !.inherited = inherited,
                       !.status = RunOf(c.args, inherited, exec).status,
                       !.started = RunOf(c.args, inherited, exec).started,
                       !.env = RunOf(c.args, inherited, exec).env]
      BY <2>3 DEF DoRun, Endings
    <3>2. PICK r, args : r = RunOf(c.args, inherited, exec) /\ args = c.args
      OBVIOUS
    <3>3. /\ last'.verb = "run" /\ last'.args = args /\ last'.inherited = inherited
          /\ last'.status = r.status /\ last'.started = r.started /\ last'.env = r.env
      BY <3>1, <3>2 DEF Nothing
    <3>4. IsText(args) /\ (\A a \in ToSet(args) : IsText(a)) /\ inherited \in Seq(Seq(Bytes))
      BY <3>2, TextsAssumption DEF Verbs
    <3>5. PICK required : required = Listed(Flagged(args), "--only")
      OBVIOUS
    <3>6. PICK named : named = required \union (Listed(Flagged(args), "--optional") \intersect Found(vault))
      OBVIOUS
    <3>7. PICK S : S = Bytes
      OBVIOUS
    <3>8. Names \subseteq Seq(S)
      BY <3>7, TextsAssumption
    <3>9. RunGives(S, args, inherited, r)
      <4>1. Bytes \subseteq S
        BY <3>7
      <4>2. VaultInv /\ r = RunOf(args, inherited, exec)
        BY <1>2, <3>2
      <4> QED
        BY <3>4, <4>1, <4>2, RunIs
    <3>10. \A k \in Names \ named : ~Occurs("=", k) => k \in Nameable(S) \ named
      BY <3>8 DEF Nameable
    <3>11. vault' = vault /\ Found(vault)' = Found(vault)
      BY <2>3 DEF DoRun, Found
    <3>12. CASE r.started
      BY <3>3, <3>5, <3>6, <3>9, <3>10, <3>11, <3>12 DEF RunInjectsExactly, RunGives
    <3>13. CASE ~r.started
      BY <3>3, <3>9, <3>13 DEF RunInjectsExactly, RunGives, Helped
    <3> QED
      BY <3>12, <3>13
  <2>4. CASE \E verb \in Verbs \ {"run"} : Do(verb)
    <3>1. PICK verb \in Verbs \ {"run"} : Do(verb)
      BY <2>4
    <3>2. last'.verb = verb
      BY <3>1 DEF Do, Nothing
    <3> QED
      BY <2>2, <3>1, <3>2
  <2> QED
    BY <1>2, <2>1, <2>3, <2>4 DEF Next, Verbs
<1> QED
  BY <1>1, <1>2, VaultIsKept, PTL DEF Spec
-----------------------------------------------------------------------------
(***************************************************************************)
(* What each command ends with, and that what it prints is text.           *)
(***************************************************************************)
Typed(e) == e.status \in Statuses /\ e.out \in Seq(Bytes)

LEMMA EffectTyped ==
  ASSUME NEW x \in Statuses, NEW v, NEW o \in Seq(Bytes)
  PROVE  Typed(Effect(x, v, o))
BY DEF Typed, Effect

LEMMA FailedTyped ==
  ASSUME NEW x \in Statuses
  PROVE  Typed(Failed(x))
<1>1. PICK o : o = <<>>
  OBVIOUS
<1>2. Typed(Effect(x, vault, o))
  BY <1>1, EmptySeq, EffectTyped
<1> QED
  BY <1>1, <1>2 DEF Failed

LEMMA PrintedTyped ==
  ASSUME NEW o \in Seq(Bytes)
  PROVE  Typed(Printed(o))
BY EffectTyped DEF Printed, Statuses

\* The statuses that the verbs have from their arguments.
LEMMA OwnStatuses ==
  /\ OK \in Statuses /\ Generic \in Statuses /\ NoTerminal \in Statuses /\ KeyNotFound \in Statuses
  /\ \A p : Stopped(p) \in Statuses
BY DEF Statuses, Stopped

LEMMA UpdateTyped ==
  ASSUME NEW r, r.verb \in Writers
  PROVE  Typed(Update(r))
<1>1. PICK m : m = V!Apply(r, Held)
  OBVIOUS
<1>2. Update(r) = IF ~V!Accepted(r) \/ ~Decodable(vault) THEN Failed(Generic)
                  ELSE IF m.err # OK THEN Failed(m.err)
                  ELSE Effect(OK, Saved(m.vault), <<>>)
  BY <1>1 DEF Update, Held, Saved
<1>3. m.err \in Statuses
  <2>1. V!OK \in Statuses /\ V!Generic \in Statuses /\ V!KeyNotFound \in Statuses
    BY DEF V!OK, V!Generic, V!KeyNotFound, Statuses, OK, Generic, KeyNotFound
  <2>2. \A x, v : V!Mutated(x, v).err = x
    BY DEF V!Mutated
  <2>3. CASE r.verb = "set"
    <3>1. m = V!Set(Held, r.key, r.secret)
      BY <1>1, <2>3 DEF V!Apply
    <3> QED
      BY <2>1, <2>2, <3>1 DEF V!Set
  <2>4. CASE r.verb = "delete"
    <3>1. m = V!Delete(Held, r.key)
      BY <1>1, <2>4 DEF V!Apply
    <3> QED
      BY <2>1, <2>2, <3>1 DEF V!Delete
  <2>5. CASE r.verb = "rename"
    <3>1. m = V!Rename(Held, r.old, r.new, r.force)
      BY <1>1, <2>5 DEF V!Apply
    <3> QED
      BY <2>1, <2>2, <3>1 DEF V!Rename
  <2>6. CASE r.verb = "import"
    <3>1. m = V!Import(Held, r.entries, r.policy)
      BY <1>1, <2>6 DEF V!Apply
    <3> QED
      BY <2>1, <2>2, <3>1 DEF V!Import
  <2> QED
    BY <2>3, <2>4, <2>5, <2>6 DEF Writers
<1>4. PICK o : o = <<>>
  OBVIOUS
<1>5. Typed(Effect(OK, Saved(m.vault), o))
  BY <1>4, EmptySeq, OwnStatuses, EffectTyped
<1> QED
  BY <1>2, <1>3, <1>4, <1>5, OwnStatuses, FailedTyped

LEMMA WritersTyped ==
  ASSUME NEW c
  PROVE  Typed(Set(c)) /\ Typed(Import(c)) /\ Typed(Delete(c)) /\ Typed(Rename(c))
<1>1. \A x \in Statuses : Typed(Failed(x))
  BY FailedTyped
<1>2. Typed(Set(c))
  <2>1. PICK p : p = ParseFlags(c.args, {<<"--stdin">>})
    OBVIOUS
  <2>2. PICK r : r = [verb |-> "set", key |-> p.rest[1], secret |-> c.input]
    OBVIOUS
  <2>3. \/ Set(c) = Failed(Stopped(p)) \/ Set(c) = Failed(Generic) \/ Set(c) = Update(r)
    BY <2>1, <2>2 DEF Set
  <2>4. Typed(Update(r))
    BY <2>2, UpdateTyped DEF Writers
  <2> QED
    BY <1>1, <2>3, <2>4, OwnStatuses
<1>3. Typed(Import(c))
  <2>1. PICK p : p = ParseFlags(c.args, ImportFlags)
    OBVIOUS
  <2>2. \A x, y : Typed(Update([verb |-> "import", policy |-> x, entries |-> y]))
    BY UpdateTyped DEF Writers
  <2>3. \/ Import(c) = Failed(Stopped(p)) \/ Import(c) = Failed(Generic)
        \/ \E x, y : Import(c) = Update([verb |-> "import", policy |-> x, entries |-> y])
    BY <2>1 DEF Import
  <2> QED
    BY <1>1, <2>2, <2>3, OwnStatuses
<1>4. Typed(Delete(c))
  <2>1. PICK p : p = ParseFlags(c.args, {})
    OBVIOUS
  <2>2. PICK r : r = [verb |-> "delete", key |-> p.rest[1]]
    OBVIOUS
  <2>3. \/ Delete(c) = Failed(Stopped(p)) \/ Delete(c) = Failed(Generic) \/ Delete(c) = Update(r)
    BY <2>1, <2>2 DEF Delete
  <2>4. Typed(Update(r))
    BY <2>2, UpdateTyped DEF Writers
  <2> QED
    BY <1>1, <2>3, <2>4, OwnStatuses
<1>5. Typed(Rename(c))
  <2>1. PICK p : p = ParseFlags(c.args, {<<"--force">>})
    OBVIOUS
  <2>2. PICK r : r = [verb |-> "rename", old |-> p.rest[1], new |-> p.rest[2], force |-> Has(p, "--force")]
    OBVIOUS
  <2>3. \/ Rename(c) = Failed(Stopped(p)) \/ Rename(c) = Failed(Generic) \/ Rename(c) = Update(r)
    BY <2>1, <2>2 DEF Rename
  <2>4. Typed(Update(r))
    BY <2>2, UpdateTyped DEF Writers
  <2> QED
    BY <1>1, <2>3, <2>4, OwnStatuses
<1> QED
  BY <1>2, <1>3, <1>4, <1>5

LEMMA LookupTyped ==
  ASSUME NEW keys
  PROVE  Load \in Statuses /\ Lookup(keys) \in Statuses
<1>1. Load \in Statuses
  BY DEF Load, Statuses
<1>2. V!OK \in Statuses /\ V!KeyNotFound \in Statuses
  BY DEF V!OK, V!KeyNotFound, Statuses, OK, KeyNotFound
<1> QED
  BY <1>1, <1>2 DEF Lookup, V!LookupSome

\* A piece of text for each of the names, one after the other.
LEMMA PiecesTyped ==
  ASSUME NEW keys, IsText(keys), NEW M, Maps(ToSet(keys), Seq(Bytes), M)
  PROVE  FlattenSeq([i \in DOMAIN keys |-> M[keys[i]]]) \in Seq(Bytes)
<1>1. keys \in Seq(ToSet(keys))
  BY DEF IsText
<1>2. Spelled(M, keys) \in Seq(Bytes)
  <2>1. PICK K : K = ToSet(keys)
    OBVIOUS
  <2> QED
    BY <1>1, <2>1, SpelledType
<1> QED
  BY <1>2 DEF Spelled, Mapped

LEMMA EmitTyped ==
  ASSUME NEW keys, IsText(keys), NEW val,
         \A k \in ToSet(keys) : k \in Seq(Bytes) /\ val[k] \in Seq(Bytes)
  PROVE  Emit(keys, val) \in Seq(Bytes) /\ EmitNUL(keys, val) \in Seq(Bytes)
<1> DEFINE name(k) == IF Len(keys) > 1 THEN k \o <<"=">> ELSE <<>>
           M == [k \in ToSet(keys) |-> name(k) \o val[k] \o <<"nl">>]
           N == [k \in ToSet(keys) |-> val[k] \o <<"nul">>]
<1>1. "=" \in Bytes /\ "nl" \in Bytes /\ "nul" \in Bytes
  BY DEF Bytes
<1>2. ASSUME NEW k \in ToSet(keys) PROVE name(k) \o val[k] \o <<"nl">> \in Seq(Bytes)
  <2>1. name(k) \in Seq(Bytes)
    BY <1>1, OneMore, EmptySeq
  <2>2. PICK x, v : x = name(k) /\ v = val[k]
    OBVIOUS
  <2>3. PICK y : y = x \o v
    OBVIOUS
  <2>4. y \in Seq(Bytes)
    BY <2>1, <2>2, <2>3, ConcatIn
  <2>5. y \o <<"nl">> \in Seq(Bytes)
    BY <1>1, <2>4, OneMore
  <2> QED
    BY <2>2, <2>3, <2>5
<1>3. ASSUME NEW k \in ToSet(keys) PROVE val[k] \o <<"nul">> \in Seq(Bytes)
  <2>1. PICK v : v = val[k]
    OBVIOUS
  <2> QED
    BY <1>1, <2>1, OneMore
<1>4. Maps(ToSet(keys), Seq(Bytes), M) /\ Maps(ToSet(keys), Seq(Bytes), N)
  BY <1>2, <1>3 DEF Maps
<1>5. \A i \in DOMAIN keys : keys[i] \in ToSet(keys)
  BY DEF ToSet
<1>6. Emit(keys, val) = FlattenSeq([i \in DOMAIN keys |-> M[keys[i]]])
  <2>1. [i \in DOMAIN keys |-> name(keys[i]) \o val[keys[i]] \o <<"nl">>] = [i \in DOMAIN keys |-> M[keys[i]]]
    BY <1>5
  <2> QED
    BY <2>1 DEF Emit
<1>7. EmitNUL(keys, val) = FlattenSeq([i \in DOMAIN keys |-> N[keys[i]]])
  <2>1. [i \in DOMAIN keys |-> val[keys[i]] \o <<"nul">>] = [i \in DOMAIN keys |-> N[keys[i]]]
    BY <1>5
  <2> QED
    BY <2>1 DEF EmitNUL
<1> HIDE DEF M, N
<1>8. FlattenSeq([i \in DOMAIN keys |-> M[keys[i]]]) \in Seq(Bytes)
  BY <1>4, PiecesTyped
<1>9. FlattenSeq([i \in DOMAIN keys |-> N[keys[i]]]) \in Seq(Bytes)
  BY <1>4, PiecesTyped
<1> QED
  BY <1>6, <1>7, <1>8, <1>9

\* The names a reading verb is given when all of them are in the vault.
LEMMA FoundKeys ==
  ASSUME VaultInv, NEW args, IsText(args), NEW known, known \subseteq FlagLike,
         NEW p, p = ParseFlags(args, known), p.stop = "no", Lookup(p.rest) = OK
  PROVE  IsText(p.rest) /\ \A k \in ToSet(p.rest) : k \in Seq(Bytes) /\ vault[k] \in Seq(Bytes)
<1>1. IsText(p.rest)
  <2>1. p.rest = Asked(args)
    BY FlagsAnywhere
  <2> QED
    BY <2>1, AskedIs
<1>2. Load = OK /\ ToSet(p.rest) \subseteq Found(vault)
  BY LookupEnds
<1>3. \A k \in Found(vault) : vault[k] \in Seq(Bytes)
  BY <1>2, LoadedVault
<1>4. Found(vault) \subseteq Seq(Bytes)
  BY TextsAssumption DEF Found
<1> QED
  BY <1>1, <1>2, <1>3, <1>4

LEMMA ReadersTyped ==
  ASSUME VaultInv, NEW c, IsText(c.args)
  PROVE  /\ Typed(Get(c)) /\ Typed(Reveal(c)) /\ Typed(HasKeys(c))
         /\ Typed(List(c)) /\ Typed(ExportAll(c)) /\ Typed(Usage(c))
<1>1. \A x \in Statuses : Typed(Failed(x))
  BY FailedTyped
<1>2. Load \in Statuses /\ \A keys : Lookup(keys) \in Statuses
  BY LookupTyped
<1>3. Load = OK => /\ \A n \in Found(vault) : n \in Seq(Bytes) /\ vault[n] \in Seq(Bytes)
                   /\ IsText(Stored) /\ ToSet(Stored) = Found(vault)
  BY LoadedVault, TextsAssumption DEF Found
<1>4. Typed(Get(c))
  <2>1. PICK p : p = ParseFlags(c.args, {})
    OBVIOUS
  <2>2. \/ Get(c) = Failed(Stopped(p)) \/ Get(c) = Failed(Generic) \/ Get(c) = Failed(NoTerminal)
        \/ Get(c) = Failed(Lookup(p.rest))
        \/ p.stop = "no" /\ Lookup(p.rest) = OK /\ Get(c) = Printed(Emit(p.rest, vault))
    BY <2>1 DEF Get
  <2>3. CASE p.stop = "no" /\ Lookup(p.rest) = OK /\ Get(c) = Printed(Emit(p.rest, vault))
    <3>1. IsText(p.rest) /\ \A k \in ToSet(p.rest) : k \in Seq(Bytes) /\ vault[k] \in Seq(Bytes)
      BY <2>1, <2>3, FoundKeys
    <3>2. Emit(p.rest, vault) \in Seq(Bytes)
      BY <3>1, EmitTyped
    <3> QED
      BY <2>3, <3>2, PrintedTyped
  <2> QED
    BY <1>1, <1>2, <2>2, <2>3, OwnStatuses
<1>5. Typed(Reveal(c))
  <2>1. PICK p : p = ParseFlags(c.args, {<<"-0">>})
    OBVIOUS
  <2>2. \/ Reveal(c) = Failed(Stopped(p)) \/ Reveal(c) = Failed(Generic) \/ Reveal(c) = Failed(Lookup(p.rest))
        \/ /\ p.stop = "no" /\ Lookup(p.rest) = OK
           /\ Reveal(c) = Printed(EmitNUL(p.rest, vault)) \/ Reveal(c) = Printed(Emit(p.rest, vault))
    BY <2>1 DEF Reveal
  <2>3. CASE /\ p.stop = "no" /\ Lookup(p.rest) = OK
             /\ Reveal(c) = Printed(EmitNUL(p.rest, vault)) \/ Reveal(c) = Printed(Emit(p.rest, vault))
    <3>1. {<<"-0">>} \subseteq FlagLike
      BY DEF FlagLike
    <3>2. IsText(p.rest) /\ \A k \in ToSet(p.rest) : k \in Seq(Bytes) /\ vault[k] \in Seq(Bytes)
      BY <2>1, <2>3, <3>1, FoundKeys
    <3>3. Emit(p.rest, vault) \in Seq(Bytes) /\ EmitNUL(p.rest, vault) \in Seq(Bytes)
      BY <3>2, EmitTyped
    <3> QED
      BY <2>3, <3>3, PrintedTyped
  <2> QED
    BY <1>1, <1>2, <2>2, <2>3, OwnStatuses
<1>6. Typed(HasKeys(c))
  <2>1. PICK p : p = ParseFlags(c.args, {})
    OBVIOUS
  <2>2. \/ HasKeys(c) = Failed(Stopped(p)) \/ HasKeys(c) = Failed(Generic)
        \/ HasKeys(c) = Failed(Lookup(p.rest))
    BY <2>1 DEF HasKeys
  <2> QED
    BY <1>1, <1>2, <2>2, OwnStatuses
<1>7. Typed(List(c))
  <2>1. PICK p, o : p = ParseFlags(c.args, {<<"--names">>})
                    /\ o = FlattenSeq([i \in DOMAIN Stored |-> Stored[i] \o <<"nl">>])
    OBVIOUS
  <2>2. \/ List(c) = Failed(Stopped(p)) \/ List(c) = Failed(Generic) \/ List(c) = Failed(Load)
        \/ Load = OK /\ List(c) = Printed(o)
    BY <2>1 DEF List
  <2>3. ASSUME Load = OK PROVE o \in Seq(Bytes)
    <3>1. PICK names : names = Stored
      OBVIOUS
    <3> DEFINE M == [n \in ToSet(names) |-> n \o <<"nl">>]
    <3>2. IsText(names) /\ \A n \in ToSet(names) : n \o <<"nl">> \in Seq(Bytes)
      <4>1. "nl" \in Bytes
        BY DEF Bytes
      <4> QED
        BY <1>3, <2>3, <3>1, <4>1, OneMore
    <3>3. [i \in DOMAIN names |-> names[i] \o <<"nl">>] = [i \in DOMAIN names |-> M[names[i]]]
      BY DEF ToSet
    <3>4. Maps(ToSet(names), Seq(Bytes), M)
      BY <3>2 DEF Maps
    <3> HIDE DEF M
    <3>5. FlattenSeq([i \in DOMAIN names |-> M[names[i]]]) \in Seq(Bytes)
      BY <3>2, <3>4, PiecesTyped
    <3> QED
      BY <2>1, <3>1, <3>3, <3>5
  <2> QED
    BY <1>1, <1>2, <2>2, <2>3, OwnStatuses, PrintedTyped
<1>8. Typed(ExportAll(c))
  <2>1. PICK p, printed : p = ParseFlags(c.args, {}) /\ printed = Export(Stored, vault)
    OBVIOUS
  <2>2. \/ ExportAll(c) = Failed(Stopped(p)) \/ ExportAll(c) = Failed(Generic) \/ ExportAll(c) = Failed(Load)
        \/ Load = OK /\ ExportAll(c) = Effect(OK, vault, printed.out)
        \/ Load = OK /\ ExportAll(c) = Effect(Generic, vault, printed.out)
    BY <2>1 DEF ExportAll
  <2>3. ASSUME Load = OK PROVE printed.out \in Seq(Bytes)
    <3>1. PICK N : N = ToSet(Stored)
      OBVIOUS
    <3>2. Stored \in Seq(N) /\ \A n \in N : n \in Seq(Bytes) /\ vault[n] \in Seq(Bytes)
      BY <1>3, <2>3, <3>1 DEF IsText
    <3> QED
      BY <2>1, <3>2, BytesAlphabet, ExportTyped
  <2> QED
    BY <1>1, <1>2, <2>2, <2>3, OwnStatuses, EffectTyped
<1>9. Typed(Usage(c))
  BY <1>1, OwnStatuses DEF Usage
<1> QED
  BY <1>4, <1>5, <1>6, <1>7, <1>8, <1>9

LEMMA RunStatus ==
  ASSUME NEW args, NEW inherited, NEW exec \in Endings, NEW r, r = RunOf(args, inherited, exec)
  PROVE  r.status \in Statuses /\ r.started \in BOOLEAN
<1>1. PICK g : g = RunFlags(Before(Ended(args), args))
  OBVIOUS
<1>2. \/ \E x \in {Generic, OK, Lookup(Keys(g.only)), NotExecutable, NotFound} : r = Own(x)
      \/ \E x : r = Child(x)
  <2>1. r = IF Ended(args) = 0 \/ Ended(args) = Len(args) THEN Own(Generic)
            ELSE IF g.stop = "help" THEN Own(OK)
            ELSE IF ~RunnableFlags(g) THEN Own(Generic)
            ELSE IF Lookup(Keys(g.only)) # OK THEN Own(Lookup(Keys(g.only)))
            ELSE IF ~ChildValues(RunKeys(g)) THEN Own(Generic)
            ELSE CASE exec \in {"denied", "EACCES"} -> Own(NotExecutable)
                   [] exec \in {"missing", "ENOENT"} -> Own(NotFound)
                   [] exec = "E2BIG" -> Own(Generic)
                   [] exec = "ok" -> Child(Overlay(Environ(inherited), RunKeys(g), vault))
    BY <1>1 DEF RunOf, Ended, Own, Child, RunKeys, SelectInSeq
  <2> QED
    BY <2>1 DEF Endings
<1>3. {Generic, OK, Lookup(Keys(g.only)), NotExecutable, NotFound} \subseteq Statuses
  BY LookupTyped DEF Statuses
<1>4. \A x : Own(x).status = x /\ Own(x).started = FALSE /\ Child(x).status = OK /\ Child(x).started = TRUE
  BY DEF Own, Child
<1> QED
  BY <1>2, <1>3, <1>4, OwnStatuses

LEMMA RunTyped ==
  ASSUME VaultInv, NEW args, IsText(args), \A a \in ToSet(args) : IsText(a),
         NEW inherited \in Seq(Seq(Bytes)), NEW exec \in Endings,
         NEW r, r = RunOf(args, inherited, exec)
  PROVE  r.status \in Statuses /\ r.started \in BOOLEAN /\ r.env \in Seq(Seq(Bytes))
<1>1. RunGives(Bytes, args, inherited, r)
  BY RunIs
<1>2. r.env \in Seq(Seq(Bytes)) /\ r.started \in BOOLEAN
  <2>1. CASE r.started
    <3>1. r.env \in Seq(Seq(Bytes))
      BY <1>1, <2>1 DEF RunGives
    <3>2. r.started = TRUE
      BY <2>1, RunStatus
    <3> QED
      BY <3>1, <3>2
  <2>2. CASE ~r.started
    <3>1. PICK e : e = <<>>
      OBVIOUS
    <3>2. r.env = e /\ r.started = FALSE
      BY <1>1, <2>2, <3>1 DEF RunGives
    <3> QED
      BY <3>1, <3>2, EmptySeq
  <2> QED
    BY <2>1, <2>2
<1> QED
  BY <1>2, RunStatus

(***************************************************************************)
(* Every variable of a session keeps its kind: each command ends with a    *)
(* status of errs.go, whatever it is given, and what it prints and hands   *)
(* to a child is text, also where it fails halfway.                        *)
(***************************************************************************)
THEOREM TypeCorrect == Spec => []TypeOK
<1> DEFINE Ends == /\ writes \in 0..MaxWrites
                   /\ last.status \in Statuses /\ last.out \in Seq(Bytes)
                   /\ last.started \in BOOLEAN /\ last.env \in Seq(Seq(Bytes))
<1>1. Init => Ends
  <2>1. SUFFICES ASSUME Init PROVE Ends
    OBVIOUS
  <2>2. PICK e : e = <<>>
    OBVIOUS
  <2>3. last.status = OK /\ last.out = e /\ last.started = FALSE /\ last.env = e /\ writes = 0
    BY <2>1, <2>2 DEF Init, Nothing
  <2>4. e \in Seq(Bytes) /\ e \in Seq(Seq(Bytes))
    BY <2>2, EmptySeq
  <2>5. 0 \in 0..MaxWrites
    BY MaxWritesAssumption
  <2> QED
    BY <2>3, <2>4, <2>5, OwnStatuses
<1>2. ASSUME VaultInv, Ends, [Next]_vars PROVE Ends'
  <2>1. CASE UNCHANGED vars
    BY <1>2, <2>1 DEF vars
  <2>2. CASE DoRun
    <3>1. PICK c \in Invocations["run"], inherited \in Environments, exec \in Endings :
            last' = [Nothing EXCEPT !.verb = "run", !.args = c.args, !.inherited = inherited,
                       !.status = RunOf(c.args, inherited, exec).status,
                       !.started = RunOf(c.args, inherited, exec).started,
                       !.env = RunOf(c.args, inherited, exec).env]
      BY <2>2 DEF DoRun, Endings
    <3>2. PICK r, args : r = RunOf(c.args, inherited, exec) /\ args = c.args
      OBVIOUS
    <3>3. last'.status = r.status /\ last'.started = r.started /\ last'.env = r.env /\ last'.out = <<>>
      BY <3>1, <3>2 DEF Nothing
    <3>4. IsText(args) /\ (\A a \in ToSet(args) : IsText(a)) /\ inherited \in Seq(Seq(Bytes))
      BY <3>2, TextsAssumption DEF Verbs
    <3>5. r = RunOf(args, inherited, exec)
      BY <3>2
    <3>6. r.status \in Statuses /\ r.started \in BOOLEAN /\ r.env \in Seq(Seq(Bytes))
      BY <1>2, <3>4, <3>5, RunTyped
    <3>7. <<>> \in Seq(Bytes) /\ writes' = writes
      BY <2>2, EmptySeq DEF DoRun
    <3> QED
      BY <1>2, <3>3, <3>6, <3>7
  <2>3. CASE \E verb \in Verbs \ {"run"} : Do(verb)
    <3>1. PICK verb \in Verbs \ {"run"} : Do(verb)
      BY <2>3
    <3>2. PICK c \in Invocations[verb] :
            last' = [Nothing EXCEPT !.verb = verb, !.args = c.args, !.input = c.input,
                       !.records = c.records, !.status = Perform(verb, c).status,
                       !.out = Perform(verb, c).out]
      BY <3>1 DEF Do
    <3>3. PICK e : e = Perform(verb, c)
      OBVIOUS
    <3>4. last'.status = e.status /\ last'.out = e.out /\ last'.started = FALSE /\ last'.env = <<>>
      BY <3>2, <3>3 DEF Nothing
    <3>5. Typed(e)
      <4>1. IsText(c.args)
        BY TextsAssumption
      <4>2. Typed(Set(c)) /\ Typed(Import(c)) /\ Typed(Delete(c)) /\ Typed(Rename(c))
        BY WritersTyped
      <4>3. /\ Typed(Get(c)) /\ Typed(Reveal(c)) /\ Typed(HasKeys(c))
            /\ Typed(List(c)) /\ Typed(ExportAll(c)) /\ Typed(Usage(c))
        BY <1>2, <4>1, ReadersTyped
      <4> QED
        BY <3>3, <4>2, <4>3 DEF Perform, Verbs
    <3>6. <<>> \in Seq(Seq(Bytes))
      BY EmptySeq
    <3>7. writes' \in 0..MaxWrites
      BY <1>2, <3>1, MaxWritesAssumption DEF Do
    <3> QED
      BY <3>4, <3>5, <3>6, <3>7 DEF Typed
  <2> QED
    BY <1>2, <2>1, <2>2, <2>3 DEF Next, Verbs
<1>3. VaultInv /\ Ends => TypeOK
  BY DEF VaultInv, TypeOK, V!Vaults
<1> QED
  BY <1>1, <1>2, <1>3, VaultIsKept, PTL DEF Spec
-----------------------------------------------------------------------------
(***************************************************************************)
(* What import reads, line by line and record by record, is what its input *)
(* means.  First a value: the texts that the parser of .env files reads    *)
(* are those that spell one.                                               *)
(***************************************************************************)
\* Between quotes, the value is what is there.
Between(q, v, w) == w = <<q>> \o v \o <<q>>

\* The parser reads it so, if the quote is not in it.
LEMMA QuotedRead ==
  ASSUME NEW v \in Seq(Bytes), NEW q \in Quotes, ~Occurs(q, v), NEW w, Between(q, v, w)
  PROVE  w \in Seq(Bytes) /\ ParseValue(w) = Parsed(<<v>>) /\ w # <<>> /\ w[Len(w)] = q
<1>1. q \in Bytes
  BY DEF Bytes
<1>2. PICK o, u, n : o = <<q>> /\ u = v \o o /\ n = Len(v)
  OBVIOUS
<1>3. o \in Seq(Bytes) /\ u = Append(v, q) /\ u \in Seq(Bytes)
  BY <1>1, <1>2, OneIs, OneMore
<1>4. w = o \o u
  <2>1. w = (o \o v) \o o
    BY <1>2 DEF Between
  <2>2. Regrouped(o, v, o)
    BY <1>3, ConcatRegroup
  <2> QED
    BY <1>2, <2>1, <2>2 DEF Regrouped
<1>5. n \in Nat /\ Len(u) = n + 1 /\ u[n + 1] = q /\ \A i \in 1..n : u[i] = v[i]
  BY <1>1, <1>2, <1>3, AppendElements
<1>6. w \in Seq(Bytes) /\ Len(w) = n + 2 /\ w[1] = q /\ \A i \in 1..n + 1 : w[i + 1] = u[i]
  <2>1. w \in Seq(Bytes) /\ Len(w) = Len(o) + Len(u)
        /\ \A i \in 1..Len(o) + Len(u) : w[i] = IF i <= Len(o) THEN o[i] ELSE u[i - Len(o)]
    BY <1>3, <1>4, ConcatProperties
  <2>2. Len(o) = 1 /\ o[1] = q
    BY <1>2
  <2>3. Len(w) = n + 2 /\ w[1] = q
    BY <1>5, <2>1, <2>2
  <2>4. ASSUME NEW i \in 1..n + 1 PROVE w[i + 1] = u[i]
    <3>1. i + 1 \in 1..1 + (n + 1) /\ ~(i + 1 <= 1) /\ (i + 1) - 1 = i
      BY <1>5
    <3> QED
      BY <1>5, <2>1, <2>2, <3>1
  <2> QED
    BY <2>1, <2>3, <2>4
<1>7. w # <<>> /\ Head(w) = q /\ Tail(w) = u
  <2>1. w # <<>>
    BY <1>5, <1>6, EmptySeq
  <2>2. Head(w) = q
    BY <1>6, <2>1, TextEnds
  <2>3. PICK t : t = Tail(w)
    OBVIOUS
  <2>4. t \in Seq(Bytes) /\ Len(t) = n + 1 /\ \A i \in 1..n + 1 : t[i] = w[i + 1]
    BY <1>5, <1>6, <2>1, <2>3, HeadTailProperties
  <2>5. t = u
    BY <1>3, <1>5, <1>6, <2>4, SeqEqual
  <2> QED
    BY <2>1, <2>2, <2>3, <2>5
<1>8. Index(q, u) = n + 1
  <2>1. \A j \in 1..(n + 1) - 1 : u[j] # q
    <3>1. (n + 1) - 1 = n /\ DOMAIN v = 1..n
      BY <1>2, <1>5, LenProperties
    <3> QED
      BY <1>5, <3>1 DEF Occurs
  <2>2. PICK e : e = n + 1
    OBVIOUS
  <2>3. e \in 1..Len(u) /\ u[e] = q /\ \A j \in 1..e - 1 : u[j] # q
    BY <1>5, <2>1, <2>2
  <2>4. Index(q, u) = e
    BY <1>3, <2>3, FirstIs
  <2> QED
    BY <2>2, <2>4
<1>9. After(n + 2, w) = <<>>
  <2>1. n + 2 \in 0..Len(w) /\ Len(w) - (n + 2) = 0
    BY <1>5, <1>6
  <2>2. After(n + 2, w) \in Seq(Bytes) /\ Len(After(n + 2, w)) = 0
    BY <1>6, <2>1, AfterIs
  <2> QED
    BY <2>2, EmptySeq
<1>10. SubSeq(w, 2, n + 1) = v
  <2>1. PICK t : t = SubSeq(w, 2, n + 1)
    OBVIOUS
  <2>2. \A i \in 1..n + 2 : w[i] \in Bytes
    BY <1>6, LenProperties
  <2>3. t \in Seq(Bytes) /\ Len(t) = n /\ \A i \in 1..n : t[i] = w[i + 1]
    <3>0. n \in Nat
      BY <1>5
    <3>1. \A i \in 2..n + 1 : w[i] \in Bytes
      <4>1. \A i \in 2..n + 1 : i \in 1..n + 2
        BY <3>0
      <4> QED
        BY <2>2, <4>1
    <3>2. /\ t \in Seq(Bytes) /\ Len(t) = IF 2 <= n + 1 THEN (n + 1) - 2 + 1 ELSE 0
          /\ \A i \in 1..(n + 1) - 2 + 1 : t[i] = w[2 + i - 1]
      <4>1. PICK e : e = n + 1
        OBVIOUS
      <4>2. e \in Int /\ \A i \in 2..e : w[i] \in Bytes
        BY <3>0, <3>1, <4>1
      <4>3. t = SubSeq(w, 2, e)
        BY <2>1, <4>1
      <4>4. /\ t \in Seq(Bytes) /\ Len(t) = IF 2 <= e THEN e - 2 + 1 ELSE 0
            /\ \A i \in 1..e - 2 + 1 : t[i] = w[2 + i - 1]
        BY <4>2, <4>3, SubSeqProperties
      <4> QED
        BY <4>1, <4>4
    <3>3. (n + 1) - 2 + 1 = n /\ \A i \in 1..n : 2 + i - 1 = i + 1
      BY <3>0
    <3>4. Len(t) = n
      BY <3>0, <3>2
    <3> QED
      BY <3>2, <3>3, <3>4
  <2>4. \A i \in 1..n : t[i] = v[i]
    BY <1>5, <1>6, <2>3
  <2>5. t = v
    BY <1>2, <2>3, <2>4, SeqEqual
  <2> QED
    BY <2>1, <2>5
<1>11. ParseValue(w) = Parsed(<<v>>)
  <2>1. n + 1 > 0 /\ (n + 1) + 1 = n + 2
    BY <1>5
  <2>2. PICK e : e = n + 1
    OBVIOUS
  <2>3. e > 0 /\ After(e + 1, w) = <<>> /\ SubSeq(w, 2, e) = v /\ Index(Head(w), Tail(w)) = e
    BY <1>7, <1>8, <1>9, <1>10, <2>1, <2>2
  <2>4. w # <<>> /\ Head(w) \in Quotes
    BY <1>7
  <2> QED
    BY <2>3, <2>4 DEF ParseValue
<1>12. w[Len(w)] = q
  <2>1. (n + 1) + 1 = n + 2 /\ n + 1 \in 1..n + 1
    BY <1>5
  <2> QED
    BY <1>5, <1>6, <2>1
<1> QED
  BY <1>6, <1>7, <1>11, <1>12

\* Without quotes, the value is itself if it has none and neither comment nor blanks around.
Plain(v) ==
  /\ \A c \in Quotes \union {"#"} : ~Occurs(c, v)
  /\ v = <<>> \/ (Head(v) \notin Blanks /\ Last(v) \notin Blanks)

\* The parser reads it so, and no other text that begins with no quote.
LEMMA PlainRead ==
  ASSUME NEW w \in Seq(Bytes), w = <<>> \/ Head(w) \notin Quotes
  PROVE  ParseValue(w) = IF Plain(w) THEN Parsed(<<w>>) ELSE Refused
<1>1. w = TrimLeft(TrimRight(w)) <=> w = <<>> \/ (Head(w) \notin Blanks /\ Last(w) \notin Blanks)
  BY EndsTrimmed, TextEnds
<1>2. PICK t : t = TrimLeft(TrimRight(w))
  OBVIOUS
<1>3. ParseValue(w) = IF (\E c \in Quotes \union {"#"} : Occurs(c, w)) \/ w # t
                      THEN Refused ELSE Parsed(<<w>>)
  BY <1>2, Zenon DEF ParseValue
<1> QED
  BY <1>1, <1>2, <1>3 DEF Plain

\* The values that the parser reads are those that a text spells.
LEMMA SpelledRead ==
  ASSUME NEW v \in Seq(Bytes), NEW w \in Seq(Bytes), Spells(w, v)
  PROVE  ParseValue(w) = Parsed(<<v>>) /\ (w = <<>> \/ w[Len(w)] # "\\")
<1>1. CASE \E q \in Quotes : w = <<q>> \o v \o <<q>> /\ ~Occurs(q, v)
  <2>1. PICK q \in Quotes : w = <<q>> \o v \o <<q>> /\ ~Occurs(q, v)
    BY <1>1
  <2>2. q # "\\"
    BY DEF Quotes
  <2> QED
    BY <2>1, <2>2, QuotedRead DEF Between
<1>2. CASE w = v /\ Plain(v) /\ (v = <<>> \/ Last(v) # "\\")
  <2>1. w = <<>> \/ Head(w) \notin Quotes
    <3>1. w # <<>> => \E i \in DOMAIN w : w[i] = Head(w)
      BY TextEnds DEF ToSet
    <3> QED
      BY <1>2, <3>1 DEF Plain, Occurs
  <2>2. ParseValue(w) = Parsed(<<w>>)
    BY <1>2, <2>1, PlainRead
  <2> QED
    BY <1>2, <2>2, TextEnds
<1> QED
  BY <1>1, <1>2 DEF Spells, Plain

\* What the parser reads, a text spells.
LEMMA ReadSpells ==
  ASSUME NEW w \in Seq(Bytes), ParseValue(w).ok, w = <<>> \/ w[Len(w)] # "\\"
  PROVE  \E v \in Seq(Bytes) : ParseValue(w) = Parsed(<<v>>) /\ Spells(w, v)
<1>1. CASE w = <<>> \/ Head(w) \notin Quotes
  <2>1. Plain(w)
    <3>1. ~Plain(w) => ParseValue(w) = Refused
      BY <1>1, PlainRead
    <3>2. ~Refused.ok
      BY DEF Refused
    <3> QED
      BY <3>1, <3>2
  <2>2. ParseValue(w) = Parsed(<<w>>)
    BY <1>1, <2>1, PlainRead
  <2>3. w = <<>> \/ Last(w) # "\\"
    BY TextEnds
  <2>4. Spells(w, w)
    BY <2>1, <2>3 DEF Spells, Plain
  <2> QED
    BY <2>2, <2>4
<1>2. CASE w # <<>> /\ Head(w) \in Quotes
  <2>1. PICK q, u : q = Head(w) /\ u = Tail(w)
    OBVIOUS
  <2>2. q \in Quotes /\ q \in Bytes /\ u \in Seq(Bytes) /\ w = <<q>> \o u
    <3>1. q \in Quotes /\ q \in Bytes
      BY <1>2, <2>1 DEF Bytes
    <3>2. PICK k, o, x : k = Len(u) /\ o = <<q>> /\ x = o \o u
      OBVIOUS
    <3>3. u \in Seq(Bytes) /\ k \in Nat /\ Len(w) = k + 1 /\ w[1] = q /\ \A i \in 1..k : w[i + 1] = u[i]
      BY <1>2, <2>1, <3>2, HeadTailProperties, LenProperties, TextEnds
    <3>4. o \in Seq(Bytes) /\ Len(o) = 1 /\ o[1] = q
      BY <3>1, <3>2
    <3>5. x \in Seq(Bytes) /\ Len(x) = k + 1 /\ \A i \in 1..k + 1 : x[i] = IF i <= 1 THEN q ELSE u[i - 1]
      <4>1. x \in Seq(Bytes) /\ Len(x) = 1 + k /\ \A i \in 1..1 + k : x[i] = IF i <= 1 THEN o[i] ELSE u[i - 1]
        BY <3>2, <3>3, <3>4, ConcatProperties
      <4> QED
        BY <3>3, <3>4, <4>1
    <3>6. ASSUME NEW i \in 1..k + 1 PROVE w[i] = x[i]
      <4>1. CASE i = 1
        BY <3>3, <3>5, <4>1
      <4>2. CASE i # 1
        <5>1. i - 1 \in 1..k /\ (i - 1) + 1 = i /\ ~(i <= 1)
          BY <3>3, <4>2
        <5>2. w[(i - 1) + 1] = u[i - 1]
          BY <3>3, <5>1
        <5> QED
          BY <3>5, <5>1, <5>2
      <4> QED
        BY <4>1, <4>2
    <3>7. w = x
      BY <3>3, <3>5, <3>6, SeqEqual
    <3> QED
      BY <3>1, <3>2, <3>3, <3>7
  <2>3. ParseValue(<<q>> \o u).ok
    BY <2>2
  <2>4. PICK z \in Seq(Bytes) : u = Append(z, q) /\ ~Occurs(q, z)
    BY <2>2, <2>3, QuotedValueIs
  <2>5. w = <<q>> \o z \o <<q>>
    <3>1. PICK o : o = <<q>>
      OBVIOUS
    <3>2. o \in Seq(Bytes) /\ u = z \o o
      BY <2>2, <2>4, <3>1, OneIs, OneMore
    <3>3. Regrouped(o, z, o)
      BY <3>2, ConcatRegroup
    <3> QED
      BY <2>2, <3>1, <3>2, <3>3 DEF Regrouped
  <2>6. ParseValue(w) = Parsed(<<z>>)
    BY <2>2, <2>4, <2>5, QuotedRead DEF Between
  <2>7. Spells(w, z)
    BY <2>2, <2>4, <2>5 DEF Spells
  <2> QED
    BY <2>6, <2>7
<1> QED
  BY <1>1, <1>2

\* A .env line in the words of the parser: what stands before the name, the
\* name, an equals sign, and what stands for the value.
Made(p, k, w, l) == l = p \o (k \o (<<"=">> \o w))
Assigns(l, k, v) ==
  \E p, w \in Seq(Bytes) : Made(p, k, w, l) /\ Lead(p) /\ CheckKey(k) /\ Spells(w, v)

ExportWord == <<"export", " ">>
Leads(b, c, p) == p = b \o (ExportWord \o c)

\* The word export and its space are two bytes.
LEMMA ExportWordIs == "export" \in Bytes /\ " " \in Bytes /\ ExportWord \in Seq(Bytes) /\ ExportWord # <<>> /\ Len(ExportWord) = 2
                      /\ ExportWord[1] = "export" /\ ExportWord[2] = " "
<1>1. "export" \in Bytes /\ " " \in Bytes
  <2>1. " " \in Blanks
    BY DEF Blanks
  <2> QED
    BY <2>1 DEF Bytes
<1>2. ExportWord \in Seq(Bytes)
  BY <1>1, TwoIn DEF ExportWord
<1>3. Len(ExportWord) = 2 /\ ExportWord[1] = "export" /\ ExportWord[2] = " "
  BY DEF ExportWord
<1>4. ExportWord # <<>>
  <2>1. PICK x : x = <<"export">>
    OBVIOUS
  <2>2. x \in Seq(Bytes)
    BY <1>1, <2>1, OneIs
  <2>3. ExportWord = Append(x, " ")
    BY <2>1, AppendTwo DEF ExportWord
  <2> QED
    BY <1>1, <2>2, <2>3, AppendProperties
<1> QED
  BY <1>1, <1>2, <1>3, <1>4

\* What stands before a name, when it is not all blank, is blanks, export, a space, blanks.
LEMMA LeadCut ==
  ASSUME NEW p \in Seq(Bytes), Lead(p), ~AllBlank(p)
  PROVE  \E b, c \in Seq(Bytes) : AllBlank(b) /\ AllBlank(c) /\ Leads(b, c, p)
<1>1. PICK n, i : /\ n = Len(p) /\ i \in DOMAIN p /\ p[i] = "export" /\ AllBlank(Before(i, p))
                  /\ AllBlank(After(i, p)) /\ i < Len(p) /\ p[i + 1] = " "
  BY DEF Lead
<1>2. n \in Nat /\ i \in 1..n /\ i + 1 \in 1..n
  <2>1. n \in Nat /\ DOMAIN p = 1..n /\ i \in DOMAIN p /\ i < n
    BY <1>1, LenProperties
  <2> QED
    BY <2>1
<1>3. PICK b, a : b = Before(i, p) /\ a = After(i, p)
  OBVIOUS
<1>4. b \in Seq(Bytes) /\ a \in Seq(Bytes) /\ Around(i, p)
  BY <1>1, <1>2, <1>3, CutAround
<1>5. Len(a) = n - i /\ a[1] = p[i + 1]
  <2>1. i \in 0..n /\ 1 \in 1..n - i
    BY <1>2
  <2> QED
    BY <1>1, <1>3, <2>1, AfterIs
<1>6. 1 \in 1..Len(a)
  BY <1>2, <1>5
<1>7. PICK c, e : c = After(1, a) /\ e = Before(1, a)
  OBVIOUS
<1>8. c \in Seq(Bytes) /\ Around(1, a) /\ e \in Seq(Bytes) /\ Len(e) = 0
  BY <1>4, <1>6, <1>7, CutAround
<1>9. e = <<>>
  BY <1>8, EmptySeq
<1>10. PICK x, y : x = <<"export">> /\ y = <<" ">>
  OBVIOUS
<1>11. x \in Seq(Bytes) /\ y \in Seq(Bytes) /\ ExportWord = x \o y
  <2>1. "export" \in Bytes /\ " " \in Bytes
    BY ExportWordIs
  <2> QED
    BY <1>10, <2>1, OneIs, TwoOnes DEF ExportWord
<1>12. a = y \o c
  <2>1. a = e \o (y \o c)
    BY <1>1, <1>5, <1>7, <1>8, <1>10 DEF Around
  <2> QED
    BY <1>8, <1>9, <1>11, <2>1, ConcatEmptySeq, ConcatIn
<1>13. p = b \o (x \o a)
  BY <1>1, <1>3, <1>4, <1>10 DEF Around
<1>14. x \o (y \o c) = (x \o y) \o c
  <2>1. Regrouped(x, y, c)
    BY <1>8, <1>11, ConcatRegroup
  <2> QED
    BY <2>1 DEF Regrouped
<1>15. Leads(b, c, p)
  BY <1>11, <1>12, <1>13, <1>14 DEF Leads
<1>16. AllBlank(c)
  <2>1. ToSet(y \o c) = ToSet(y) \union ToSet(c)
    BY <1>8, <1>11, ConcatSet
  <2> QED
    BY <1>1, <1>3, <1>12, <2>1 DEF AllBlank
<1> QED
  BY <1>1, <1>3, <1>4, <1>8, <1>15, <1>16

\* Blanks, export, a space and blanks may stand before a name.
LEMMA LeadMade ==
  ASSUME NEW b \in Seq(Bytes), AllBlank(b), NEW c \in Seq(Bytes), AllBlank(c), NEW p, Leads(b, c, p)
  PROVE  p \in Seq(Bytes) /\ Lead(p)
<1>1. PICK n, m, w : n = Len(b) /\ m = Len(c) /\ w = ExportWord \o c
  OBVIOUS
<1>2. /\ w \in Seq(Bytes) /\ n \in Nat /\ m \in Nat /\ Len(w) = 2 + m
      /\ \A i \in 1..2 + m : w[i] = IF i <= 2 THEN ExportWord[i] ELSE c[i - 2]
  <2>1. /\ w \in Seq(Bytes) /\ Len(w) = Len(ExportWord) + Len(c)
        /\ \A i \in 1..Len(ExportWord) + Len(c) : w[i] = IF i <= Len(ExportWord) THEN ExportWord[i] ELSE c[i - Len(ExportWord)]
    BY <1>1, ExportWordIs, ConcatProperties
  <2> QED
    BY <1>1, <2>1, ExportWordIs, LenProperties
<1>3. w[1] = "export" /\ w[2] = " "
  <2>1. 1 \in 1..2 + m /\ 2 \in 1..2 + m /\ 1 <= 2 /\ 2 <= 2
    BY <1>2
  <2>2. w[1] = ExportWord[1] /\ w[2] = ExportWord[2]
    BY <1>2, <2>1
  <2> QED
    BY <2>2, ExportWordIs
<1>4. p = b \o w
  BY <1>1 DEF Leads
<1>5. /\ p \in Seq(Bytes) /\ Len(p) = n + (2 + m)
      /\ \A i \in 1..n + (2 + m) : p[i] = IF i <= n THEN b[i] ELSE w[i - n]
  <2>1. n = Len(b) /\ w \in Seq(Bytes) /\ Len(w) = 2 + m
    BY <1>1, <1>2
  <2>2. PICK x : x = b \o w
    OBVIOUS
  <2>3. /\ x \in Seq(Bytes) /\ Len(x) = Len(b) + Len(w)
        /\ \A i \in 1..Len(b) + Len(w) : x[i] = IF i <= Len(b) THEN b[i] ELSE w[i - Len(b)]
    BY <2>1, <2>2, ConcatProperties
  <2> QED
    BY <1>4, <2>1, <2>2, <2>3
<1>6. PICK i : i = n + 1
  OBVIOUS
<1>7. i \in 1..Len(p) /\ i < Len(p) /\ p[i] = "export" /\ p[i + 1] = " "
  <2>1. n + 1 \in 1..n + (2 + m) /\ n + 2 \in 1..n + (2 + m) /\ (n + 1) - n = 1 /\ (n + 2) - n = 2
        /\ ~(n + 1 <= n) /\ ~(n + 2 <= n) /\ (n + 1) + 1 = n + 2
    BY <1>2
  <2>2. p[n + 1] = w[1] /\ p[n + 2] = w[2]
    BY <1>5, <2>1
  <2>3. i \in 1..n + (2 + m) /\ i < n + (2 + m) /\ i + 1 = n + 2
    BY <1>2, <1>6
  <2> QED
    BY <1>3, <1>5, <1>6, <2>2, <2>3
<1>8. AllBlank(Before(i, p))
  <2>1. PICK x : x = Before(i, p)
    OBVIOUS
  <2>2. x \in Seq(Bytes) /\ Len(x) = n /\ \A j \in 1..n : x[j] = p[j]
    <3>1. i - 1 = n
      BY <1>2, <1>6
    <3> QED
      BY <1>5, <1>7, <2>1, <3>1, CutAround
  <2>3. \A j \in 1..n : x[j] = b[j]
    BY <1>2, <1>5, <2>2
  <2>4. x = b
    BY <1>1, <2>2, <2>3, SeqEqual
  <2> QED
    BY <2>1, <2>4
<1>9. AllBlank(After(i, p))
  <2>1. PICK x : x = After(i, p)
    OBVIOUS
  <2>2. x \in Seq(Bytes) /\ Len(x) = m + 1 /\ \A j \in 1..m + 1 : x[j] = p[i + j]
    <3>1. i \in 0..Len(p) /\ Len(p) - i = m + 1
      <4>1. n + 1 \in 0..n + (2 + m) /\ (n + (2 + m)) - (n + 1) = m + 1
        BY <1>2
      <4> QED
        BY <1>5, <1>6, <4>1
    <3>2. x \in Seq(Bytes) /\ Len(x) = Len(p) - i /\ \A j \in 1..Len(p) - i : x[j] = p[i + j]
      BY <1>5, <2>1, <3>1, AfterIs
    <3> QED
      BY <3>1, <3>2
  <2>3. ASSUME NEW j \in 1..m + 1 PROVE x[j] \in Blanks
    <3>1. i + j \in 1..n + (2 + m) /\ ~(i + j <= n) /\ (i + j) - n = j + 1 /\ j + 1 \in 1..2 + m
      BY <1>2, <1>6
    <3>2. x[j] = w[j + 1]
      BY <1>5, <2>2, <3>1
    <3>3. CASE j = 1
      <4>1. " " \in Blanks /\ 1 + 1 = 2
        BY DEF Blanks
      <4> QED
        BY <1>3, <3>2, <3>3, <4>1
    <3>4. CASE j # 1
      <4>1. ~(j + 1 <= 2) /\ (j + 1) - 2 = j - 1 /\ j - 1 \in 1..m
        BY <1>2, <3>4
      <4>2. w[j + 1] = c[j - 1]
        BY <1>2, <3>1, <4>1
      <4>3. c[j - 1] \in ToSet(c)
        BY <1>1, <4>1, LenProperties DEF ToSet
      <4> QED
        BY <3>2, <4>2, <4>3 DEF AllBlank
    <3> QED
      BY <3>3, <3>4
  <2>4. DOMAIN x = 1..m + 1
    BY <2>2, LenProperties
  <2> QED
    BY <2>1, <2>3, <2>4 DEF AllBlank, ToSet
<1>10. i \in DOMAIN p
  BY <1>5, <1>7, LenProperties
<1> QED
  BY <1>5, <1>7, <1>8, <1>9, <1>10 DEF Lead

\* What parseDotenv takes for the assignment of a line, and what it cuts off.
AssignmentIn(l) == TrimLeft(TrimPrefix(ExportWord, TrimLeft(l)))
Parts(p, a, l) == l = p \o a

\* After what may stand before a name, the assignment is found.
LEMMA AssignmentInFound ==
  ASSUME NEW p \in Seq(Bytes), Lead(p), NEW a \in Seq(Bytes), a # <<>>, a[1] \notin Blanks \union {"export"},
         NEW l, Parts(p, a, l)
  PROVE  /\ AssignmentIn(l) = a
         /\ TrimLeft(l) # <<>> /\ Head(TrimLeft(l)) \in {"export", a[1]} /\ Last(TrimLeft(l)) = a[Len(a)]
<1>1. TrimLeft(a) = a
  BY NothingTrimmed
<1>2. CASE AllBlank(p)
  <2>1. TrimLeft(l) = a
    BY <1>2, LeftTrimmed DEF AllBlank, Parts
  <2>2. TrimPrefix(ExportWord, a) = a
    BY ExportWordIs, PrefixStays
  <2> QED
    BY <1>1, <2>1, <2>2, TextEnds DEF AssignmentIn
<1>3. CASE ~AllBlank(p)
  <2>1. PICK b \in Seq(Bytes), c \in Seq(Bytes) : AllBlank(b) /\ AllBlank(c) /\ Leads(b, c, p)
    BY <1>3, LeadCut
  <2>2. PICK u, t, e : u = c \o a /\ t = e \o u /\ e = ExportWord
    OBVIOUS
  <2>3. e \in Seq(Bytes) /\ e # <<>> /\ e[1] = "export"
    BY <2>2, ExportWordIs
  <2>4. u \in Seq(Bytes) /\ t \in Seq(Bytes)
    BY <2>2, <2>3, ConcatIn
  <2>5. l = b \o t
    <3>1. PICK d : d = e \o c
      OBVIOUS
    <3>2. d \in Seq(Bytes)
      BY <2>3, <3>1, ConcatIn
    <3>3. l = (b \o d) \o a
      BY <2>1, <2>2, <3>1 DEF Leads, Parts
    <3>4. Regrouped(b, d, a) /\ Regrouped(e, c, a)
      BY <2>3, <3>2, ConcatRegroup
    <3> QED
      BY <2>2, <3>1, <3>3, <3>4 DEF Regrouped
  <2>6. t # <<>> /\ t[1] = "export"
    BY <2>2, <2>3, <2>4, ConcatEnds
  <2>7. TrimLeft(l) = t
    <3>1. t[1] \notin Blanks
      BY <2>6 DEF Blanks
    <3> QED
      BY <2>1, <2>4, <2>5, <3>1, LeftTrimmed DEF AllBlank
  <2>8. TrimPrefix(e, t) = u
    BY <2>2, <2>3, <2>4, PrefixOff
  <2>9. TrimLeft(u) = a
    BY <2>1, <2>2, LeftTrimmed DEF AllBlank
  <2>10. t[Len(t)] = a[Len(a)]
    <3>1. u # <<>> /\ u[Len(u)] = a[Len(a)]
      BY <2>2, ConcatEnds
    <3> QED
      BY <2>2, <2>3, <2>4, <3>1, ConcatEnds
  <2> QED
    BY <2>2, <2>4, <2>6, <2>7, <2>8, <2>9, <2>10, TextEnds DEF AssignmentIn
<1> QED
  BY <1>2, <1>3

\* What is cut off a line to find its assignment may stand before a name.
LEMMA AssignmentInIs ==
  ASSUME NEW l \in Seq(Bytes), TrimLeft(l) # <<>>
  PROVE  /\ AssignmentIn(l) \in Seq(Bytes)
         /\ AssignmentIn(l) # <<>> => Last(TrimLeft(l)) = AssignmentIn(l)[Len(AssignmentIn(l))]
         /\ \E p \in Seq(Bytes) : Lead(p) /\ Parts(p, AssignmentIn(l), l)
<1>1. PICK t, u, a, e : t = TrimLeft(l) /\ u = TrimPrefix(e, t) /\ a = TrimLeft(u) /\ e = ExportWord
  OBVIOUS
<1>2. PICK b \in Seq(Bytes) : ToSet(b) \subseteq Blanks /\ l = b \o t
  BY <1>1, LeftTrims
<1>3. t \in Seq(Bytes) /\ t # <<>> /\ t[1] \notin Blanks
  BY <1>1, LeftTrims
<1>4. e \in Seq(Bytes) /\ e # <<>>
  BY <1>1, ExportWordIs
<1>5. u \in Seq(Bytes) /\ (u = t \/ t = e \o u)
  BY <1>1, <1>3, <1>4, PrefixCut
<1>6. PICK c \in Seq(Bytes) : ToSet(c) \subseteq Blanks /\ u = c \o a
  <2>1. \A x \in Seq(Bytes) : \E c \in Seq(Bytes) : ToSet(c) \subseteq Blanks /\ x = c \o TrimLeft(x)
    BY LeftTrims
  <2>2. u \in Seq(Bytes) /\ a = TrimLeft(u)
    BY <1>1, <1>5
  <2> QED
    BY <2>1, <2>2
<1>7. a \in Seq(Bytes)
  <2>1. \A x \in Seq(Bytes) : TrimLeft(x) \in Seq(Bytes)
    BY LeftTrims
  <2> QED
    BY <1>1, <1>5, <2>1
<1>8. CASE u = t
  <2>1. a = t
    BY <1>1, <1>3, <1>8, NothingTrimmed
  <2>2. Lead(b)
    BY <1>2 DEF Lead, AllBlank
  <2> QED
    BY <1>1, <1>2, <1>3, <1>7, <2>1, <2>2, TextEnds DEF AssignmentIn, Parts
<1>9. CASE t = e \o u
  <2>1. PICK d, p : d = e \o c /\ p = b \o d
    OBVIOUS
  <2>2. d \in Seq(Bytes)
    BY <1>4, <2>1, ConcatIn
  <2>3. Leads(b, c, p)
    BY <1>1, <2>1 DEF Leads
  <2>4. p \in Seq(Bytes) /\ Lead(p)
    BY <1>2, <1>6, <2>3, LeadMade DEF AllBlank
  <2>5. l = p \o a
    <3>1. l = b \o (e \o (c \o a))
      BY <1>2, <1>6, <1>9
    <3>2. Regrouped(e, c, a) /\ Regrouped(b, d, a)
      BY <1>4, <1>7, <2>2, ConcatRegroup
    <3> QED
      BY <2>1, <3>1, <3>2 DEF Regrouped
  <2>6. a # <<>> => Last(t) = a[Len(a)]
    <3>1. a # <<>> => u # <<>> /\ u[Len(u)] = a[Len(a)]
      BY <1>6, <1>7, ConcatEnds
    <3>2. u # <<>> => t[Len(t)] = u[Len(u)]
      BY <1>4, <1>5, <1>9, ConcatEnds
    <3> QED
      BY <1>3, <3>1, <3>2, TextEnds
  <2> QED
    BY <1>1, <1>7, <2>4, <2>5, <2>6 DEF AssignmentIn, Parts
<1>10. u = t \/ t = e \o u
  BY <1>5
<1> QED
  BY <1>8, <1>9, <1>10

\* The names that may be stored.
LEMMA NameIs ==
  ASSUME NEW k \in Seq(Bytes), CheckKey(k)
  PROVE  /\ k # <<>> /\ k[1] \notin Blanks \union {"export", "#"} /\ ~Occurs("=", k)
         /\ TrimRight(k) = k
<1>1. k # <<>> /\ Head(k) \in Upper /\ \A i \in DOMAIN k : k[i] \in Upper \union Digits
  BY DEF CheckKey
<1>2. \A b \in Upper \union Digits : b \notin Blanks \union {"export", "#", "="}
  BY DEF Upper, Digits, Blanks
<1>3. Len(k) \in Nat \ {0} /\ DOMAIN k = 1..Len(k)
  BY <1>1, EmptySeq, LenProperties
<1>4. k[1] \in Upper \union Digits /\ k[Len(k)] \in Upper \union Digits
  BY <1>1, <1>3
<1>5. TrimRight(k) = k
  BY <1>1, <1>2, <1>4, RightTrimmed
<1>6. ~Occurs("=", k)
  BY <1>1, <1>2 DEF Occurs
<1> QED
  BY <1>1, <1>2, <1>4, <1>5, <1>6

Clean(l) == ~Occurs("cr", l) /\ ~Occurs("nul", l)

\* A line that assigns a value to a name is read so, after others that do not
\* assign one to it.
LEMMA AssignsRead ==
  ASSUME NEW l \in Seq(Bytes), Clean(l), NEW k \in Seq(Bytes), NEW v \in Seq(Bytes), Assigns(l, k, v), NEW parsed
  PROVE  /\ TrimLeft(l) # <<>> /\ Head(TrimLeft(l)) # "#"
         /\ ParseLine(parsed, l) = IF Seen(parsed, k) THEN Refused ELSE Add(parsed, Entry(k, v))
<1>1. PICK p \in Seq(Bytes), w \in Seq(Bytes) : Made(p, k, w, l) /\ Lead(p) /\ CheckKey(k) /\ Spells(w, v)
  BY DEF Assigns
<1>2. PICK e, r, a : e = "=" /\ r = <<e>> \o w /\ a = k \o r
  OBVIOUS
<1>3. e \in Bytes
  BY <1>2 DEF Bytes
<1>4. PICK o : o = <<e>>
  OBVIOUS
<1>5. o \in Seq(Bytes) /\ o # <<>> /\ o[Len(o)] = e
  <2>1. o \in Seq(Bytes) /\ Len(o) = 1 /\ o[1] = e
    BY <1>3, <1>4
  <2>3. o # <<>>
    BY <1>4
  <2> QED
    BY <2>1, <2>3
<1>6. r = o \o w /\ r \in Seq(Bytes) /\ a \in Seq(Bytes)
  BY <1>2, <1>4, <1>5, ConcatIn
<1>7. /\ k # <<>> /\ k[1] \notin Blanks \union {"export", "#"} /\ ~Occurs("=", k) /\ TrimRight(k) = k
  BY <1>1, NameIs
<1>8. a # <<>> /\ a[1] = k[1]
  BY <1>2, <1>6, <1>7, ConcatEnds
<1>9. Parts(p, a, l)
  BY <1>1, <1>2 DEF Made, Parts
<1>10. /\ AssignmentIn(l) = a
       /\ TrimLeft(l) # <<>> /\ Head(TrimLeft(l)) \in {"export", a[1]} /\ Last(TrimLeft(l)) = a[Len(a)]
  BY <1>1, <1>6, <1>7, <1>8, <1>9, AssignmentInFound
<1>11. Before(Index(e, a), a) = k /\ After(Index(e, a), a) = w /\ Occurs(e, a)
  <2>1. Joined(k, e, w, a)
    <3>1. Regrouped(k, o, w)
      BY <1>5, ConcatRegroup
    <3> QED
      BY <1>2, <1>4, <1>6, <3>1 DEF Joined, Regrouped
  <2>2. ~Occurs(e, k)
    BY <1>2, <1>7
  <2> QED
    BY <1>3, <2>1, <2>2, CutAtFirst
<1>12. Index(e, a) # 0
  <2>1. Index(e, a) \in 1..Len(a)
    BY <1>6, <1>11, IndexIs
  <2> QED
    BY <2>1
<1>13. ParseValue(w) = Parsed(<<v>>) /\ (w = <<>> \/ w[Len(w)] # "\\")
  BY <1>1, SpelledRead
<1>14. Last(TrimLeft(l)) # "\\"
  <2>1. CASE w = <<>>
    <3>1. r = o
      BY <1>5, <1>6, <2>1, ConcatEmptySeq
    <3>2. a[Len(a)] = e
      BY <1>2, <1>5, <1>6, <3>1, ConcatEnds
    <3> QED
      BY <1>2, <1>10, <3>2
  <2>2. CASE w # <<>>
    <3>1. r # <<>> /\ r[Len(r)] = w[Len(w)]
      BY <1>5, <1>6, <2>2, ConcatEnds
    <3>2. a[Len(a)] = r[Len(r)]
      BY <1>2, <1>6, <3>1, ConcatEnds
    <3> QED
      BY <1>10, <1>13, <2>2, <3>1, <3>2
  <2> QED
    BY <2>1, <2>2
<1>15. Head(TrimLeft(l)) # "#"
  BY <1>7, <1>8, <1>10
<1>16. ParseValue(w).ok /\ ParseValue(w).entries[1] = v
  <2>1. PICK s : s = <<v>>
    OBVIOUS
  <2>2. s[1] = v
    BY <2>1
  <2> QED
    BY <1>13, <2>1, <2>2 DEF Parsed
<1>17. ParseLine(parsed, l) = IF Seen(parsed, k) THEN Refused ELSE Add(parsed, Entry(k, v))
  <2>1. PICK t, value, eq : t = TrimLeft(l) /\ value = ParseValue(w) /\ eq = Index(e, a)
    OBVIOUS
  <2>2. TrimLeft(TrimPrefix(<<"export", " ">>, t)) = a
    BY <1>10, <2>1 DEF AssignmentIn, ExportWord
  <2>3. /\ t = TrimLeft(l) /\ eq = Index("=", a) /\ Before(eq, a) = k /\ After(eq, a) = w
        /\ value = ParseValue(After(eq, a)) /\ value.ok /\ value.entries[1] = v /\ eq # 0
    BY <1>2, <1>11, <1>12, <1>16, <2>1
  <2>4. ~Occurs("nul", l) /\ ~Occurs("cr", l) /\ t # <<>> /\ Head(t) # "#" /\ Last(t) # "\\"
    BY <1>10, <1>14, <1>15, <2>1 DEF Clean
  <2>5. k = TrimRight(k) /\ CheckKey(k)
    BY <1>1, <1>7
  <2> QED
    BY <2>2, <2>3, <2>4, <2>5 DEF ParseLine
<1> QED
  BY <1>10, <1>15, <1>17

\* A line that is read and not empty assigns a value.
LEMMA ReadAssigns ==
  ASSUME NEW l \in Seq(Bytes), TrimLeft(l) # <<>>, Head(TrimLeft(l)) # "#", NEW parsed,
         ParseLine(parsed, l) # Refused
  PROVE  Clean(l) /\ \E k, v \in Seq(Bytes) : Assigns(l, k, v)
<1>1. PICK t, a, eq : t = TrimLeft(l) /\ a = AssignmentIn(l) /\ eq = Index("=", a)
  OBVIOUS
<1>2. PICK k, w, value : k = Before(eq, a) /\ w = After(eq, a) /\ value = ParseValue(w)
  OBVIOUS
<1>3. a = TrimLeft(TrimPrefix(<<"export", " ">>, TrimLeft(l)))
  BY <1>1 DEF AssignmentIn, ExportWord
<1>4. /\ ~Occurs("nul", l) /\ ~Occurs("cr", l)
      /\ Last(t) # "\\" /\ eq # 0 /\ CheckKey(k) /\ value.ok
  BY <1>1, <1>2, <1>3 DEF ParseLine
<1>15. /\ AssignmentIn(l) \in Seq(Bytes)
       /\ AssignmentIn(l) # <<>> => Last(TrimLeft(l)) = AssignmentIn(l)[Len(AssignmentIn(l))]
       /\ \E p \in Seq(Bytes) : Lead(p) /\ Parts(p, AssignmentIn(l), l)
  BY AssignmentInIs
<1>5. a \in Seq(Bytes) /\ (a # <<>> => Last(t) = a[Len(a)])
  BY <1>1, <1>15
<1>6. PICK p \in Seq(Bytes) : Lead(p) /\ Parts(p, a, l)
  BY <1>1, <1>15
<1>7. Occurs("=", a)
  <2>1. ~Occurs("=", a) => eq = 0
    BY <1>1, <1>5, NoneThere
  <2> QED
    BY <1>4, <2>1
<1>8. eq \in 1..Len(a) /\ a[eq] = "="
  BY <1>1, <1>5, <1>7, IndexIs
<1>9. k \in Seq(Bytes) /\ w \in Seq(Bytes) /\ Around(eq, a)
  BY <1>2, <1>5, <1>8, CutAround
<1>10. a = k \o (<<"=">> \o w)
  BY <1>2, <1>8, <1>9 DEF Around
<1>11. w = <<>> \/ w[Len(w)] # "\\"
  <2>1. SUFFICES ASSUME w # <<>> PROVE w[Len(w)] # "\\"
    OBVIOUS
  <2>2. PICK o, r : o = <<"=">> /\ r = o \o w
    OBVIOUS
  <2>3. o \in Seq(Bytes)
    <3>1. "=" \in Bytes
      BY DEF Bytes
    <3> QED
      BY <2>2, <3>1, OneIs
  <2>4. r \in Seq(Bytes) /\ a = k \o r
    BY <1>9, <1>10, <2>2, <2>3, ConcatIn
  <2>5. r # <<>> /\ r[Len(r)] = w[Len(w)]
    BY <1>9, <2>1, <2>2, <2>3, ConcatEnds
  <2>6. a # <<>> /\ a[Len(a)] = r[Len(r)]
    BY <1>9, <2>4, <2>5, ConcatEnds
  <2> QED
    BY <1>4, <1>5, <2>5, <2>6
<1>12. PICK v \in Seq(Bytes) : Spells(w, v)
  BY <1>2, <1>4, <1>9, <1>11, ReadSpells
<1>13. Made(p, k, w, l)
  BY <1>6, <1>10 DEF Made, Parts
<1>14. Assigns(l, k, v)
  BY <1>4, <1>6, <1>9, <1>12, <1>13 DEF Assigns
<1> QED
  BY <1>4, <1>9, <1>14 DEF Clean

\* Where the parts of an assignment are in its line.
LEMMA MadeAt ==
  ASSUME NEW p \in Seq(Bytes), NEW k \in Seq(Bytes), NEW w \in Seq(Bytes), NEW l, Made(p, k, w, l)
  PROVE  LET i == Len(p) + Len(k) + 1
             j == Len(p)
         IN  /\ l \in Seq(Bytes) /\ i \in 1..Len(l) /\ j \in 0..Len(l) - 1 /\ j < i
             /\ SubSeq(l, 1, j) = p /\ SubSeq(l, j + 1, i - 1) = k
             /\ l[i] = "=" /\ After(i, l) = w
<1>1. PICK n, m, o, y, pk : n = Len(p) /\ m = Len(k) /\ o = <<"=">> /\ y = o \o w /\ pk = p \o k
  OBVIOUS
<1>2. n \in Nat /\ m \in Nat /\ Len(w) \in Nat
  BY <1>1, LenProperties
<1>3. "=" \in Bytes
  BY DEF Bytes
<1>4. o \in Seq(Bytes) /\ Len(o) = 1 /\ o[1] = "="
  BY <1>1, <1>3
<1>5. y \in Seq(Bytes) /\ pk \in Seq(Bytes) /\ Len(y) = 1 + Len(w) /\ Len(pk) = n + m
  BY <1>1, <1>4, ConcatProperties
<1>6. Amid(p, k, y, l)
  BY <1>1 DEF Made, Amid
<1>7. /\ l \in Seq(Bytes) /\ Len(l) = n + (m + Len(y))
      /\ SubSeq(l, 1, n) = p /\ SubSeq(l, n + 1, n + m) = k
  <2>1. /\ l \in Seq(Bytes) /\ Len(l) = Len(p) + (Len(k) + Len(y))
        /\ SubSeq(l, 1, Len(p)) = p /\ SubSeq(l, Len(p) + 1, Len(p) + Len(k)) = k
    BY <1>5, <1>6, AmidAt, SMTT(20)
  <2> QED
    BY <1>1, <2>1
<1>8. Amid(pk, o, w, l)
  <2>1. Regrouped(p, k, y)
    BY <1>5, ConcatRegroup
  <2> QED
    BY <1>1, <1>6, <2>1 DEF Regrouped, Amid
<1>9. /\ Len(pk) + 1 \in 1..Len(l) /\ l[Len(pk) + 1] = "=" /\ After(Len(pk) + 1, l) = w
  BY <1>4, <1>5, <1>8, AmidOne DEF Single
<1>10. PICK i : i = n + m + 1
  OBVIOUS
<1>11. i \in 1..Len(l) /\ l[i] = "=" /\ After(i, l) = w
  BY <1>5, <1>9, <1>10
<1>12. n \in 0..Len(l) - 1 /\ n < i /\ i - 1 = n + m
  BY <1>2, <1>5, <1>7, <1>10
<1> QED
  BY <1>1, <1>7, <1>10, <1>11, <1>12

\* Cut at those places, a line is made of its parts.
LEMMA MadeOf ==
  ASSUME NEW l \in Seq(Bytes), NEW i \in 1..Len(l), NEW j \in 0..Len(l) - 1, j < i, l[i] = "="
  PROVE  /\ SubSeq(l, 1, j) \in Seq(Bytes) /\ SubSeq(l, j + 1, i - 1) \in Seq(Bytes)
         /\ After(i, l) \in Seq(Bytes)
         /\ Made(SubSeq(l, 1, j), SubSeq(l, j + 1, i - 1), After(i, l), l)
<1>1. PICK n, p, k, h, w, r : /\ n = Len(l) /\ p = SubSeq(l, 1, j) /\ h = i - 1 /\ k = SubSeq(l, j + 1, h)
                              /\ w = After(i, l) /\ r = SubSeq(l, i, n)
  OBVIOUS
<1>2. /\ n \in Nat /\ i \in 1..n /\ j \in 0..n /\ h \in j..n /\ h + 1 = i
      /\ j + 1 \in 1..n + 1 /\ (j + 1) - 1 = j /\ i \in 0..n /\ \A m \in 1..n : l[m] \in Bytes
  BY <1>1, LenProperties
<1>3. p \in Seq(Bytes) /\ p \o After(j, l) = l
  BY <1>1, <1>2, CutAt
<1>4. k \in Seq(Bytes)
  <2>1. \A m \in j + 1..h : l[m] \in Bytes
    BY <1>2
  <2> QED
    BY <1>1, <1>2, <2>1, SubSeqProperties
<1>5. w \in Seq(Bytes)
  BY <1>1, <1>2, AfterIs
<1>6. k \o r = After(j, l)
  <2>1. PICK m : m = j + 1
    OBVIOUS
  <2>2. m \in 1..Len(l) + 1 /\ h \in m - 1..Len(l) /\ n \in h..Len(l)
    BY <1>1, <1>2, <2>1
  <2>3. SubSeq(l, m, h) \o SubSeq(l, h + 1, n) = SubSeq(l, m, n)
    BY <2>2, ConcatAdjacentSubSeq
  <2> QED
    BY <1>1, <1>2, <2>1, <2>3 DEF After
<1>7. r = <<"=">> \o w
  <2>1. i \in 1..Len(l) /\ n \in i..Len(l)
    BY <1>1, <1>2
  <2>2. SubSeq(l, i, n) = <<l[i]>> \o SubSeq(l, i + 1, n)
    BY <2>1, SubSeqRecursiveFirst
  <2> QED
    BY <1>1, <2>2 DEF After
<1>8. Made(p, k, w, l)
  BY <1>3, <1>6, <1>7 DEF Made
<1> QED
  BY <1>1, <1>3, <1>4, <1>5, <1>8

\* A line denotes an entry when it assigns its value to its name.
LEMMA DenotesIs ==
  ASSUME NEW raw \in Seq(Bytes), NEW e
  PROVE  Denotes(raw, e) <=> /\ Clean(TrimSuffix("cr", raw)) /\ Fits(raw)
                             /\ Assigns(TrimSuffix("cr", raw), e.key, e.value)
                             /\ e.key \in Seq(Bytes)
<1>1. PICK l : l = TrimSuffix("cr", raw)
  OBVIOUS
<1>2. l \in Seq(Bytes)
  BY <1>1, TrimIs
<1>3. ASSUME Denotes(raw, e)
      PROVE  Clean(l) /\ Fits(raw) /\ Assigns(l, e.key, e.value) /\ e.key \in Seq(Bytes)
  <2>1. Clean(l) /\ Fits(raw)
    BY <1>1, <1>3 DEF Denotes, Clean
  <2>2. PICK i \in 1..Len(l), j \in 0..Len(l) - 1 :
          /\ j < i /\ Lead(SubSeq(l, 1, j))
          /\ SubSeq(l, j + 1, i - 1) = e.key /\ CheckKey(e.key)
          /\ l[i] = "=" /\ Spells(After(i, l), e.value)
    BY <1>1, <1>3, Zenon DEF Denotes
  <2>3. /\ SubSeq(l, 1, j) \in Seq(Bytes) /\ SubSeq(l, j + 1, i - 1) \in Seq(Bytes)
        /\ After(i, l) \in Seq(Bytes)
        /\ Made(SubSeq(l, 1, j), SubSeq(l, j + 1, i - 1), After(i, l), l)
    BY <1>2, <2>2, MadeOf
  <2>4. e.key \in Seq(Bytes) /\ Made(SubSeq(l, 1, j), e.key, After(i, l), l)
    BY <2>2, <2>3
  <2>5. Assigns(l, e.key, e.value)
    BY <2>2, <2>3, <2>4, Zenon DEF Assigns
  <2> QED
    BY <2>1, <2>4, <2>5
<1>4. ASSUME Clean(l), Fits(raw), Assigns(l, e.key, e.value), e.key \in Seq(Bytes)
      PROVE  Denotes(raw, e)
  <2>1. PICK p \in Seq(Bytes), w \in Seq(Bytes) :
          Made(p, e.key, w, l) /\ Lead(p) /\ CheckKey(e.key) /\ Spells(w, e.value)
    BY <1>4 DEF Assigns
  <2>2. PICK i, j : i = Len(p) + Len(e.key) + 1 /\ j = Len(p)
    OBVIOUS
  <2>3. /\ i \in 1..Len(l) /\ j \in 0..Len(l) - 1 /\ j < i
        /\ SubSeq(l, 1, j) = p /\ SubSeq(l, j + 1, i - 1) = e.key
        /\ l[i] = "=" /\ After(i, l) = w
    <3>1. PICK k : k = e.key
      OBVIOUS
    <3>2. k \in Seq(Bytes) /\ Made(p, k, w, l) /\ i = Len(p) + Len(k) + 1
      BY <1>4, <2>1, <2>2, <3>1
    <3>3. /\ i \in 1..Len(l) /\ j \in 0..Len(l) - 1 /\ j < i
          /\ SubSeq(l, 1, j) = p /\ SubSeq(l, j + 1, i - 1) = k
          /\ l[i] = "=" /\ After(i, l) = w
      BY <2>2, <3>2, MadeAt, SMTT(20)
    <3> QED
      BY <3>1, <3>3
  <2>4. Lead(SubSeq(l, 1, j)) /\ Spells(After(i, l), e.value)
    BY <2>1, <2>3
  <2>5. \E a \in 1..Len(l), b \in 0..Len(l) - 1 :
          /\ b < a /\ Lead(SubSeq(l, 1, b))
          /\ SubSeq(l, b + 1, a - 1) = e.key /\ CheckKey(e.key)
          /\ l[a] = "=" /\ Spells(After(a, l), e.value)
    BY <2>1, <2>3, <2>4, Zenon
  <2> QED
    BY <1>1, <1>4, <2>5, Zenon DEF Denotes, Clean
<1> QED
  BY <1>1, <1>3, <1>4

\* The entries that a line denotes, whatever their names.
Meant(raw) == {e \in [key : Seq(Bytes), value : Seq(Bytes)] : Denotes(raw, e)}

\* A line is void when nothing is left of it, or a comment, once trimmed.
LEMMA VoidIs ==
  ASSUME NEW raw \in Seq(Bytes)
  PROVE  Void(raw) <=> LET l == TrimSuffix("cr", raw)
                       IN  /\ Clean(l) /\ Fits(raw)
                           /\ TrimLeft(l) = <<>> \/ Head(TrimLeft(l)) = "#"
<1>1. PICK l, t : l = TrimSuffix("cr", raw) /\ t = TrimLeft(l)
  OBVIOUS
<1>2. l \in Seq(Bytes)
  BY <1>1, TrimIs
<1>3. PICK b \in Seq(Bytes) : ToSet(b) \subseteq Blanks /\ l = b \o t
  BY <1>1, <1>2, LeftTrims
<1>4. t \in Seq(Bytes) /\ (t = <<>> \/ t[1] \notin Blanks)
  BY <1>1, <1>2, LeftTrims
<1>5. AllBlank(l) <=> t = <<>>
  <2>1. ASSUME t = <<>> PROVE AllBlank(l)
    <3>1. l = b
      BY <1>3, <2>1, ConcatEmptySeq
    <3> QED
      BY <1>3, <3>1 DEF AllBlank
  <2>2. ASSUME AllBlank(l) PROVE t = <<>>
    <3>1. PICK e : e = <<>>
      OBVIOUS
    <3>2. e \in Seq(Bytes) /\ l = l \o e
      BY <1>2, <3>1, ConcatEmptySeq, EmptySeq
    <3>3. ToSet(l) \subseteq Blanks
      BY <2>2 DEF AllBlank
    <3>4. TrimLeft(l) = e
      BY <1>2, <3>1, <3>2, <3>3, LeftTrimmed
    <3> QED
      BY <1>1, <3>1, <3>4
  <2> QED
    BY <2>1, <2>2
<1>6. (\E i \in DOMAIN l : l[i] = "#" /\ AllBlank(Before(i, l))) <=> t # <<>> /\ t[1] = "#"
  <2>1. ASSUME NEW i \in DOMAIN l, l[i] = "#", AllBlank(Before(i, l)) PROVE t # <<>> /\ t[1] = "#"
    <3>1. i \in 1..Len(l)
      BY <1>2, LenProperties
    <3>2. PICK x, y, o, u : x = Before(i, l) /\ y = After(i, l) /\ o = <<l[i]>> /\ u = o \o y
      OBVIOUS
    <3>3. x \in Seq(Bytes) /\ y \in Seq(Bytes) /\ l[i] \in Bytes /\ Around(i, l)
      BY <1>2, <3>1, <3>2, CutAround
    <3>4. o \in Seq(Bytes) /\ o # <<>> /\ o[1] = "#"
      BY <2>1, <3>2, <3>3
    <3>5. u \in Seq(Bytes) /\ u # <<>> /\ u[1] = "#"
      BY <3>2, <3>3, <3>4, ConcatEnds, ConcatIn
    <3>6. l = x \o u
      BY <3>2, <3>3 DEF Around
    <3>7. ToSet(x) \subseteq Blanks /\ u[1] \notin Blanks
      BY <2>1, <3>2, <3>5 DEF AllBlank, Blanks
    <3>8. TrimLeft(l) = u
      BY <3>3, <3>5, <3>6, <3>7, LeftTrimmed
    <3> QED
      BY <1>1, <3>5, <3>8
  <2>2. ASSUME t # <<>>, t[1] = "#" PROVE \E i \in DOMAIN l : l[i] = "#" /\ AllBlank(Before(i, l))
    <3>1. PICK e, y, o : e = Before(1, t) /\ y = After(1, t) /\ o = <<t[1]>>
      OBVIOUS
    <3>2. 1 \in 1..Len(t)
      BY <1>4, <2>2, EmptySeq
    <3>3. /\ e \in Seq(Bytes) /\ Len(e) = 0 /\ y \in Seq(Bytes) /\ t[1] \in Bytes /\ Around(1, t)
      BY <1>4, <3>1, <3>2, CutAround
    <3>4. e = <<>>
      BY <3>3, EmptySeq
    <3>5. o \in Seq(Bytes) /\ Single(o) /\ o[1] = "#"
      BY <2>2, <3>1, <3>3 DEF Single
    <3>6. t = o \o y
      <4>1. t = e \o (o \o y)
        BY <3>1, <3>3 DEF Around
      <4> QED
        BY <3>3, <3>4, <3>5, <4>1, ConcatEmptySeq, ConcatIn
    <3>7. Amid(b, o, y, l)
      BY <1>3, <3>6 DEF Amid
    <3>8. Len(b) + 1 \in 1..Len(l) /\ l[Len(b) + 1] = "#" /\ Before(Len(b) + 1, l) = b
      BY <3>3, <3>5, <3>7, AmidOne
    <3>9. Len(b) + 1 \in DOMAIN l
      BY <1>2, <3>8, LenProperties
    <3> QED
      BY <1>3, <3>8, <3>9 DEF AllBlank
  <2> QED
    BY <2>1, <2>2
<1>7. t # <<>> => Head(t) = t[1]
  BY <1>4, TextEnds
<1>8. Void(raw) <=> /\ Clean(l) /\ Fits(raw)
                    /\ AllBlank(l) \/ \E i \in DOMAIN l : l[i] = "#" /\ AllBlank(Before(i, l))
  BY <1>1, Zenon DEF Void, Clean
<1> QED
  BY <1>1, <1>5, <1>6, <1>7, <1>8

\* What a line means to parseDotenv is what it denotes: one entry, nothing, or
\* no one thing, and then it is refused.
LEMMA LineMeans ==
  ASSUME NEW raw \in Seq(Bytes), Fits(raw), NEW parsed, NEW l, l = TrimSuffix("cr", raw)
  PROVE  /\ Void(raw) => Meant(raw) = {} /\ ParseLine(parsed, l) = parsed
         /\ \A e \in Meant(raw) :
              /\ ~Void(raw) /\ Meant(raw) = {e}
              /\ ParseLine(parsed, l) = IF Seen(parsed, e.key) THEN Refused ELSE Add(parsed, e)
         /\ ~Void(raw) /\ Meant(raw) = {} => ParseLine(parsed, l) = Refused
<1>1. PICK t : t = TrimLeft(l)
  OBVIOUS
<1>2. l \in Seq(Bytes)
  BY TrimIs
<1>3. Void(raw) <=> Clean(l) /\ (t = <<>> \/ Head(t) = "#")
  BY <1>1, VoidIs
<1>4. \A e \in Meant(raw) : /\ e \in [key : Seq(Bytes), value : Seq(Bytes)]
                            /\ Clean(l) /\ Assigns(l, e.key, e.value)
  BY DenotesIs DEF Meant
<1>5. ASSUME NEW e \in Meant(raw), NEW p
      PROVE  ~Void(raw) /\ ParseLine(p, l) = IF Seen(p, e.key) THEN Refused ELSE Add(p, e)
  <2>1. PICK k, v : k = e.key /\ v = e.value
    OBVIOUS
  <2>2. k \in Seq(Bytes) /\ v \in Seq(Bytes) /\ Clean(l) /\ Assigns(l, k, v)
    BY <1>4, <2>1
  <2>3. /\ t # <<>> /\ Head(t) # "#"
        /\ ParseLine(p, l) = IF Seen(p, k) THEN Refused ELSE Add(p, Entry(k, v))
    BY <1>1, <1>2, <2>2, AssignsRead
  <2>4. Entry(k, v) = e
    BY <1>4, <2>1 DEF Entry
  <2> QED
    BY <1>3, <2>1, <2>3, <2>4
<1>6. ASSUME NEW e \in Meant(raw), NEW f \in Meant(raw) PROVE e = f
  <2>1. PICK none : none = Parsed(<<>>)
    OBVIOUS
  <2>2. \A k : ~Seen(none, k)
    BY <2>1 DEF Seen, Parsed
  <2>3. Add(none, e) = Add(none, f)
    BY <1>5, <2>2
  <2>4. Append(<<>>, e) = Append(<<>>, f)
    BY <2>1, <2>3 DEF Add, Parsed
  <2>5. PICK E, s : E = {e, f} /\ s = <<>>
    OBVIOUS
  <2>6. e \in E /\ f \in E /\ s \in Seq(E)
    BY <2>5, EmptySeq
  <2> QED
    BY <2>4, <2>5, <2>6, AppendSame
<1>7. ASSUME Void(raw) PROVE Meant(raw) = {} /\ ParseLine(parsed, l) = parsed
  <2>1. ParseLine(parsed, l) = parsed
    BY <1>1, <1>3, <1>7 DEF ParseLine, Clean
  <2> QED
    BY <1>5, <1>7, <2>1
<1>8. ASSUME ~Void(raw), Meant(raw) = {} PROVE ParseLine(parsed, l) = Refused
  <2>1. CASE ~Clean(l)
    BY <2>1 DEF ParseLine, Clean
  <2>2. CASE Clean(l)
    <3>1. t # <<>> /\ Head(t) # "#"
      BY <1>3, <1>8, <2>2
    <3>2. SUFFICES ASSUME ParseLine(parsed, l) # Refused PROVE FALSE
      OBVIOUS
    <3>3. PICK k \in Seq(Bytes), v \in Seq(Bytes) : Assigns(l, k, v)
      BY <1>1, <1>2, <3>1, <3>2, ReadAssigns
    <3>4. PICK e : e = Entry(k, v)
      OBVIOUS
    <3>5. e \in [key : Seq(Bytes), value : Seq(Bytes)] /\ e.key = k /\ e.value = v
      BY <3>4 DEF Entry
    <3>6. Denotes(raw, e)
      BY <2>2, <3>3, <3>5, DenotesIs
    <3> QED
      BY <1>8, <3>5, <3>6 DEF Meant
  <2> QED
    BY <2>1, <2>2
<1> QED
  BY <1>5, <1>6, <1>7, <1>8

\* Where a line, and in it the name and the value of what it assigns, are.
LEMMA LineAmid ==
  ASSUME NEW raw \in Seq(Bytes), NEW l, l = TrimSuffix("cr", raw)
  PROVE  l \in Seq(Bytes) /\ \E z \in Seq(Bytes) : Amid(<<>>, l, z, raw)
<1>1. l \in Seq(Bytes) /\ (l = raw \/ Append(l, "cr") = raw)
  BY TrimIs
<1>2. PICK e, o : e = <<>> /\ o = <<"cr">>
  OBVIOUS
<1>3. "cr" \in Bytes
  BY DEF Bytes
<1>4. e \in Seq(Bytes) /\ o \in Seq(Bytes) /\ \A s \in Seq(Bytes) : e \o s = s /\ s \o e = s
  BY <1>2, <1>3, ConcatEmptySeq, EmptySeq
<1>5. CASE l = raw
  BY <1>1, <1>2, <1>4, <1>5, ZenonT(40) DEF Amid
<1>6. CASE Append(l, "cr") = raw
  <2>1. l \o o = raw
    BY <1>1, <1>2, <1>3, <1>6, OneMore
  <2>2. raw = e \o (l \o o)
    BY <1>4, <2>1
  <2> QED
    BY <1>1, <1>2, <1>4, <2>2 DEF Amid
<1> QED
  BY <1>1, <1>5, <1>6

\* A value is a part of what spells it.
LEMMA SpellsAmid ==
  ASSUME NEW w \in Seq(Bytes), NEW v \in Seq(Bytes), Spells(w, v)
  PROVE  \E b, c \in Seq(Bytes) : Amid(b, v, c, w)
<1>1. CASE w = v
  <2>1. PICK e : e = <<>>
    OBVIOUS
  <2>2. e \in Seq(Bytes) /\ v \o e = v /\ e \o v = v
    BY <2>1, ConcatEmptySeq, EmptySeq
  <2> QED
    BY <1>1, <2>2 DEF Amid
<1>2. ASSUME NEW q \in Quotes, w = <<q>> \o v \o <<q>> PROVE \E b, c \in Seq(Bytes) : Amid(b, v, c, w)
  <2>1. PICK o : o = <<q>>
    OBVIOUS
  <2>2. q \in Bytes
    BY DEF Bytes
  <2>3. o \in Seq(Bytes)
    BY <2>1, <2>2
  <2>4. Regrouped(o, v, o)
    BY <2>3, ConcatRegroup
  <2>5. w = o \o v \o o
    BY <1>2, <2>1
  <2> QED
    BY <2>3, <2>4, <2>5 DEF Amid, Regrouped
<1> QED
  BY <1>1, <1>2 DEF Spells

\* A name and a value are parts of their line, and "=" is after the name.
LEMMA MeantAmid ==
  ASSUME NEW raw \in Seq(Bytes), NEW e \in Meant(raw)
  PROVE  /\ \E x, y \in Seq(Bytes) : Amid(x, e.value, y, raw)
         /\ \E x, y \in Seq(Bytes) : Amid(x, e.key \o <<"=">>, y, raw)
<1>1. PICK l, k, v, o : l = TrimSuffix("cr", raw) /\ k = e.key /\ v = e.value /\ o = <<"=">>
  OBVIOUS
<1>2. Assigns(l, k, v)
  BY <1>1, DenotesIs DEF Meant
<1>3. PICK p \in Seq(Bytes), w \in Seq(Bytes) : Made(p, k, w, l) /\ Spells(w, v)
  BY <1>2 DEF Assigns
<1>4. k \in Seq(Bytes) /\ v \in Seq(Bytes)
  BY <1>1 DEF Meant
<1>5. PICK n, z : n = <<>> /\ z \in Seq(Bytes) /\ Amid(n, l, z, raw) /\ l \in Seq(Bytes)
  BY <1>1, LineAmid
<1>6. "=" \in Bytes
  BY DEF Bytes
<1>7. n \in Seq(Bytes) /\ o \in Seq(Bytes)
  BY <1>1, <1>5, <1>6, EmptySeq
<1>8. PICK ow, ko, x : ow = o \o w /\ ko = k \o o /\ x = p \o ko
  OBVIOUS
<1>9. ow \in Seq(Bytes) /\ ko \in Seq(Bytes) /\ x \in Seq(Bytes)
  BY <1>3, <1>4, <1>7, <1>8, ConcatIn
<1>10. l = p \o (k \o ow)
  BY <1>1, <1>3, <1>8 DEF Made
<1>11. k \o ow = ko \o w
  <2>1. Regrouped(k, o, w)
    BY <1>4, <1>7, ConcatRegroup
  <2> QED
    BY <1>8, <2>1 DEF Regrouped
<1>12. Amid(p, ko, w, l)
  BY <1>10, <1>11 DEF Amid
<1>13. \E a, b \in Seq(Bytes) : Amid(a, ko, b, raw)
  <2>1. (\E a, b \in Seq(Bytes) : Amid(a, l, b, raw)) /\ \E a, b \in Seq(Bytes) : Amid(a, ko, b, l)
    BY <1>3, <1>5, <1>7, <1>12, Zenon
  <2> QED
    BY <1>5, <1>9, <2>1, AmidWithin
<1>14. Amid(x, w, n, l)
  <2>1. Regrouped(p, ko, w)
    BY <1>9, ConcatRegroup
  <2>2. w \o n = w
    BY <1>5, ConcatEmptySeq
  <2> QED
    BY <1>8, <1>12, <2>1, <2>2 DEF Amid, Regrouped
<1>15. PICK b \in Seq(Bytes), c \in Seq(Bytes) : Amid(b, v, c, w)
  BY <1>3, <1>4, SpellsAmid
<1>16. PICK x1 \in Seq(Bytes), y1 \in Seq(Bytes) : Amid(x1, v, y1, l)
  BY <1>3, <1>4, <1>7, <1>9, <1>14, <1>15, AmidWithin
<1>17. \E a, d \in Seq(Bytes) : Amid(a, v, d, raw)
  <2>1. (\E a, d \in Seq(Bytes) : Amid(a, l, d, raw)) /\ \E a, d \in Seq(Bytes) : Amid(a, v, d, l)
    BY <1>5, <1>7, <1>16, Zenon
  <2> QED
    BY <1>4, <1>5, <2>1, AmidWithin
<1> QED
  BY <1>1, <1>8, <1>13, <1>17

\* The entries read from a line are those that it denotes under a name offered.
LEMMA ReadingsAre ==
  ASSUME NEW raw \in Seq(Bytes)
  PROVE  Readings(raw) = {e \in Meant(raw) : e.key \in Names}
<1> DEFINE P == UNION {{SubSeq(raw, i, j) : j \in i - 1..Len(raw)} : i \in 1..Len(raw)}
<1>1. P \subseteq Seq(Bytes)
  <2>1. ASSUME NEW i \in 1..Len(raw), NEW j \in i - 1..Len(raw) PROVE SubSeq(raw, i, j) \in Seq(Bytes)
    <3>1. PICK n : n = Len(raw)
      OBVIOUS
    <3>2. n \in Nat /\ i \in 1..n /\ j \in i - 1..n /\ \A k \in 1..n : raw[k] \in Bytes
      BY <3>1, LenProperties
    <3>3. \A k \in i..j : raw[k] \in Bytes
      BY <3>2
    <3> QED
      BY <3>2, <3>3, SubSeqProperties
  <2>2. ASSUME NEW i \in 1..Len(raw) PROVE {SubSeq(raw, i, j) : j \in i - 1..Len(raw)} \subseteq Seq(Bytes)
    BY <2>1
  <2>3. \A X \in {{SubSeq(raw, i, j) : j \in i - 1..Len(raw)} : i \in 1..Len(raw)} : X \subseteq Seq(Bytes)
    BY <2>2
  <2> QED
    BY <2>3, Zenon
<1>2. Names \subseteq Seq(Bytes)
  BY TextsAssumption
<1>3. ASSUME NEW e \in Meant(raw), e.key \in Names PROVE CheckKey(e.key) /\ e.value \in P
  <2>1. CheckKey(e.key)
    BY DEF Meant, Denotes
  <2>2. PICK x \in Seq(Bytes), y \in Seq(Bytes) : Amid(x, e.value, y, raw)
    BY MeantAmid
  <2>3. raw # <<>>
    <3>1. PICK k, o, z : k = e.key /\ o = <<"=">> /\ z = k \o o
      OBVIOUS
    <3>2. k \in Seq(Bytes) /\ "=" \in Bytes
      BY <3>1 DEF Meant, Bytes
    <3>3. z \in Seq(Bytes) /\ Len(z) = Len(k) + 1 /\ Len(k) \in Nat
      <4>1. z = Append(k, "=")
        BY <3>1, <3>2, OneMore
      <4> QED
        BY <3>2, <4>1, AppendElements
    <3>4. PICK a \in Seq(Bytes), b \in Seq(Bytes) : Amid(a, z, b, raw)
      BY <3>1, MeantAmid
    <3>5. Len(raw) = Len(a) + (Len(z) + Len(b))
      BY <3>3, <3>4, AmidAt
    <3>6. Len(raw) # 0
      BY <3>3, <3>5, LenProperties
    <3> QED
      BY <3>6, EmptySeq
  <2>4. e.value \in Seq(Bytes)
    BY DEF Meant
  <2> QED
    <3>0. PICK v \in Seq(Bytes) : v = e.value
      BY <2>4
    <3>1. \E i \in 1..Len(raw) : \E j \in i - 1..Len(raw) : v = SubSeq(raw, i, j)
      <4>1. Amid(x, v, y, raw)
        BY <2>2, <3>0
      <4> QED
        BY <2>3, <4>1, AmidPart
    <3>2. PICK i \in 1..Len(raw) : \E j \in i - 1..Len(raw) : e.value = SubSeq(raw, i, j)
      BY <3>0, <3>1
    <3>3. e.value \in {SubSeq(raw, i, j) : j \in i - 1..Len(raw)}
      BY <3>2
    <3> QED
      BY <2>1, <3>3
<1> HIDE DEF P
<1>4. Readings(raw) = {e \in [key : {n \in Names : CheckKey(n)}, value : P] : Denotes(raw, e)}
  BY DEF Readings, P
<1>5. ASSUME NEW e \in Readings(raw) PROVE e \in Meant(raw) /\ e.key \in Names
  BY <1>1, <1>2, <1>4 DEF Meant
<1>6. ASSUME NEW e \in Meant(raw), e.key \in Names PROVE e \in Readings(raw)
  <2>1. e \in [key : Seq(Bytes), value : Seq(Bytes)] /\ Denotes(raw, e)
    BY DEF Meant
  <2>2. e \in [key : {n \in Names : CheckKey(n)}, value : P]
    BY <1>3, <1>6, <2>1
  <2> QED
    BY <1>4, <2>1, <2>2
<1> QED
  BY <1>5, <1>6

(***************************************************************************)
(* The lines of a file, read one after the other.                          *)
(***************************************************************************)
\* What is read of lines, as they are in the file.
Stage(C) == Fold(LineStep(Seq(Bytes)), Parsed(<<>>), Mapped(Trims(Bytes), C))

\* One line more is read after those before it.
LEMMA StageNext ==
  ASSUME NEW C \in Seq(Seq(Bytes)), NEW l \in Seq(Bytes)
  PROVE  /\ Stage(C) \in Results(Seq(Bytes))
         /\ Stage(Append(C, l)) = Further(Stage(C), TrimSuffix("cr", l))
<1> DEFINE B == Seq(Bytes)
           F == LineStep(B)
           M == Trims(Bytes)
           a == Parsed(<<>>)
<1>1. Folds(Results(B), B, F, a)
  BY NothingRead, LinesFold
<1>2. Maps(B, B, M)
  BY TrimsMap
<1>3. M[l] = TrimSuffix("cr", l) /\ M[l] \in B
  BY TrimIs DEF Trims
<1>4. \A p \in Results(B), m \in B : F[<<p, m>>] = Further(p, m)
  BY DEF LineStep
<1> HIDE DEF F, M, B, a
<1>5. PICK D : D = Mapped(M, C)
  OBVIOUS
<1>6. D \in Seq(B) /\ Mapped(M, Append(C, l)) = Append(D, M[l])
  <2>1. C \in Seq(B) /\ l \in B
    BY DEF B
  <2> QED
    BY <1>2, <1>5, <2>1, MappedAppend
<1>7. Fold(F, a, D) \in Results(B) /\ Fold(F, a, Append(D, M[l])) = F[<<Fold(F, a, D), M[l]>>]
  BY <1>1, <1>3, <1>6, FoldAppend
<1>8. Stage(C) = Fold(F, a, D) /\ Stage(Append(C, l)) = Fold(F, a, Append(D, M[l]))
  BY <1>5, <1>6 DEF Stage, F, M, B, a
<1> QED
  BY <1>3, <1>4, <1>7, <1>8 DEF B

\* Of no lines, nothing is read.
LEMMA StageNone == Stage(<<>>) = Parsed(<<>>)
<1> DEFINE B == Seq(Bytes)
           F == LineStep(B)
           a == Parsed(<<>>)
<1>1. Folds(Results(B), B, F, a)
  BY NothingRead, LinesFold
<1>2. Mapped(Trims(Bytes), <<>>) = <<>>
  BY DEF Mapped
<1> HIDE DEF F, B, a
<1>3. Fold(F, a, <<>>) = a
  BY <1>1, FoldEmpty
<1> QED
  BY <1>2, <1>3 DEF Stage, F, B, a

\* What lines must be to be read, and what is read of them then.
InOne(C) == \A l \in ToSet(C) : Void(l) \/ Meant(l) # {}
Twice(C) == \E i, j \in DOMAIN C : i < j /\ \E e \in Meant(C[i]), f \in Meant(C[j]) : e.key = f.key
All(C) == UNION {Meant(l) : l \in ToSet(C)}
KeysDiffer(E) == \A e, f \in E : e.key = f.key => e = f

ReadAs(p, C) ==
  /\ p.ok <=> InOne(C) /\ ~Twice(C)
  /\ p.ok => ToSet(p.entries) = All(C) /\ KeysDiffer(All(C))

\* What one line more changes of what the lines are.
LEMMA LinesNext ==
  ASSUME NEW C \in Seq(Seq(Bytes)), NEW l \in Seq(Bytes), NEW D, D = Append(C, l)
  PROVE  /\ InOne(D) <=> InOne(C) /\ (Void(l) \/ Meant(l) # {})
         /\ All(D) = All(C) \union Meant(l)
         /\ Twice(D) <=> Twice(C) \/ \E e \in All(C), f \in Meant(l) : e.key = f.key
<1>1. ToSet(D) = ToSet(C) \union {l}
  BY AppendSet
<1>2. PICK n : n = Len(C)
  OBVIOUS
<1>3. /\ n \in Nat /\ DOMAIN C = 1..n /\ DOMAIN D = 1..n + 1
      /\ (\A i \in 1..n : D[i] = C[i]) /\ D[n + 1] = l
  BY <1>2, AppendElements
<1>4. ASSUME NEW i \in DOMAIN D, NEW j \in DOMAIN D, i < j,
             NEW e \in Meant(D[i]), NEW f \in Meant(D[j]), e.key = f.key
      PROVE  Twice(C) \/ \E a \in All(C), b \in Meant(l) : a.key = b.key
  <2>1. i \in 1..n /\ D[i] = C[i]
    BY <1>3, <1>4
  <2>2. CASE j \in 1..n
    <3>1. D[j] = C[j]
      BY <1>3, <2>2
    <3> QED
      BY <1>3, <1>4, <2>1, <2>2, <3>1 DEF Twice
  <2>3. CASE j = n + 1
    <3>1. D[j] = l
      BY <1>3, <2>3
    <3>2. C[i] \in ToSet(C)
      BY <1>3, <2>1 DEF ToSet
    <3>3. e \in All(C)
      BY <2>1, <3>2 DEF All
    <3> QED
      BY <1>4, <3>1, <3>3
  <2> QED
    BY <1>3, <2>2, <2>3
<1>5. ASSUME Twice(C) PROVE Twice(D)
  <2>1. PICK i \in DOMAIN C, j \in DOMAIN C : i < j /\ \E e \in Meant(C[i]), f \in Meant(C[j]) : e.key = f.key
    BY <1>5 DEF Twice
  <2>2. i \in DOMAIN D /\ j \in DOMAIN D /\ D[i] = C[i] /\ D[j] = C[j]
    BY <1>3
  <2> QED
    BY <2>1, <2>2 DEF Twice
<1>6. ASSUME NEW e \in All(C), NEW f \in Meant(l), e.key = f.key PROVE Twice(D)
  <2>1. PICK i \in DOMAIN C : e \in Meant(C[i])
    BY DEF All, ToSet
  <2>2. PICK j : j = n + 1
    OBVIOUS
  <2>3. i \in DOMAIN D /\ j \in DOMAIN D /\ D[i] = C[i] /\ D[j] = l /\ i < j
    BY <1>3, <2>2
  <2> QED
    BY <1>6, <2>1, <2>3 DEF Twice
<1>7. InOne(D) <=> InOne(C) /\ (Void(l) \/ Meant(l) # {})
  BY <1>1 DEF InOne
<1>8. All(D) = All(C) \union Meant(l)
  BY <1>1 DEF All
<1>9. Twice(D) => Twice(C) \/ \E e \in All(C), f \in Meant(l) : e.key = f.key
  <2>1. SUFFICES ASSUME Twice(D) PROVE Twice(C) \/ \E e \in All(C), f \in Meant(l) : e.key = f.key
    OBVIOUS
  <2>2. PICK i \in DOMAIN D, j \in DOMAIN D : i < j /\ \E e \in Meant(D[i]), f \in Meant(D[j]) : e.key = f.key
    BY <2>1 DEF Twice
  <2>3. PICK e \in Meant(D[i]), f \in Meant(D[j]) : e.key = f.key
    BY <2>2
  <2> QED
    BY <1>4, <2>2, <2>3
<1> QED
  BY <1>5, <1>6, <1>7, <1>8, <1>9

\* One line more is read as it should be, after others that are.
LEMMA ReadNext ==
  ASSUME NEW C \in Seq(Seq(Bytes)), NEW l \in Seq(Bytes), Fits(l), ReadAs(Stage(C), C), NEW D, D = Append(C, l)
  PROVE  ReadAs(Stage(D), D)
<1>1. PICK p, t : p = Stage(C) /\ t = TrimSuffix("cr", l)
  OBVIOUS
<1>2. p \in Results(Seq(Bytes)) /\ Stage(D) = Further(p, t)
  BY <1>1, StageNext
<1>3. /\ InOne(D) <=> InOne(C) /\ (Void(l) \/ Meant(l) # {})
      /\ All(D) = All(C) \union Meant(l)
      /\ Twice(D) <=> Twice(C) \/ \E e \in All(C), f \in Meant(l) : e.key = f.key
  BY LinesNext
<1>4. /\ Void(l) => Meant(l) = {} /\ ParseLine(p, t) = p
      /\ \A e \in Meant(l) :
           /\ ~Void(l) /\ Meant(l) = {e}
           /\ ParseLine(p, t) = IF Seen(p, e.key) THEN Refused ELSE Add(p, e)
      /\ ~Void(l) /\ Meant(l) = {} => ParseLine(p, t) = Refused
  BY <1>1, LineMeans
<1>5. ReadAs(p, C)
  BY <1>1
<1>6. CASE ~p.ok
  <2>1. Stage(D) = p /\ ~(InOne(C) /\ ~Twice(C))
    BY <1>2, <1>5, <1>6 DEF Further, ReadAs
  <2> QED
    BY <1>3, <1>6, <2>1 DEF ReadAs
<1>7. CASE p.ok
  <2>1. /\ Stage(D) = ParseLine(p, t) /\ InOne(C) /\ ~Twice(C)
        /\ ToSet(p.entries) = All(C) /\ KeysDiffer(All(C))
    BY <1>2, <1>5, <1>7 DEF Further, ReadAs
  <2>2. ~Refused.ok
    BY DEF Refused
  <2>3. CASE Void(l)
    BY <1>3, <1>4, <1>7, <2>1, <2>3 DEF ReadAs
  <2>4. CASE ~Void(l) /\ Meant(l) = {}
    BY <1>3, <1>4, <2>1, <2>2, <2>4 DEF ReadAs
  <2>5. ASSUME NEW e \in Meant(l) PROVE ReadAs(Stage(D), D)
    <3>1. Meant(l) = {e} /\ ~Void(l)
      BY <1>4
    <3>2. Seen(p, e.key) <=> \E f \in All(C) : f.key = e.key
      BY <2>1 DEF Seen, ToSet
    <3>3. CASE Seen(p, e.key)
      BY <1>3, <1>4, <2>1, <2>2, <3>1, <3>2, <3>3 DEF ReadAs
    <3>4. CASE ~Seen(p, e.key)
      <4>1. Stage(D) = Add(p, e)
        BY <1>4, <2>1, <3>4
      <4>2. PICK E, s : E = ToSet(p.entries) \union {e} /\ s = p.entries
        OBVIOUS
      <4>3. s \in Seq(E)
        <5>1. PICK B : s \in Seq(B)
          BY <1>2, <4>2 DEF Results
        <5>2. IsText(s)
          BY <5>1, TextIs
        <5> QED
          BY <4>2, <5>2, SeqMonotonic DEF IsText
      <4>4. ToSet(Append(s, e)) = ToSet(s) \union {e}
        BY <4>2, <4>3, AppendSet, SMTT(20)
      <4>5. Stage(D).ok /\ Stage(D).entries = Append(s, e)
        BY <4>1, <4>2 DEF Add, Parsed
      <4>6. ToSet(Stage(D).entries) = All(D)
        BY <1>3, <2>1, <3>1, <4>2, <4>4, <4>5
      <4>7. KeysDiffer(All(D))
        BY <1>3, <2>1, <3>1, <3>2, <3>4 DEF KeysDiffer
      <4>8. InOne(D) /\ ~Twice(D)
        BY <1>3, <2>1, <3>1, <3>2, <3>4
      <4> QED
        BY <4>5, <4>6, <4>7, <4>8 DEF ReadAs
    <3> QED
      BY <3>3, <3>4
  <2> QED
    BY <2>3, <2>4, <2>5
<1> QED
  BY <1>6, <1>7

\* No lines are read as they should be.
LEMMA ReadNone == ReadAs(Stage(<<>>), <<>>)
<1>1. ToSet(<<>>) = {} /\ DOMAIN <<>> = {}
  BY DEF ToSet
<1>2. Stage(<<>>).ok /\ Stage(<<>>).entries = <<>>
  BY StageNone DEF Parsed
<1>3. All(<<>>) = {} /\ InOne(<<>>) /\ ~Twice(<<>>)
  BY <1>1 DEF All, InOne, Twice
<1> QED
  BY <1>1, <1>2, <1>3 DEF ReadAs, KeysDiffer

\* All lines that fit are read as they should be.
LEMMA LinesAreRead ==
  ASSUME NEW C \in Seq({l \in Seq(Bytes) : Fits(l)})
  PROVE  C \in Seq(Seq(Bytes)) /\ ReadAs(Stage(C), C)
<1> DEFINE R == {l \in Seq(Bytes) : Fits(l)}
           T == {D \in Seq(R) : ReadAs(Stage(D), D)}
<1>1. Seq(R) \subseteq Seq(Seq(Bytes))
  BY SeqMonotonic
<1>2. <<>> \in T
  BY ReadNone, EmptySeq
<1>3. ASSUME NEW D \in Seq(R), NEW l \in R, D \in T PROVE Append(D, l) \in T
  <2>1. Append(D, l) \in Seq(R)
    BY AppendProperties
  <2>2. ReadAs(Stage(Append(D, l)), Append(D, l))
    BY <1>1, <1>3, ReadNext
  <2> QED
    BY <2>1, <2>2
<1> HIDE DEF T
<1>4. Seq(R) \subseteq T
  BY <1>2, <1>3, SequenceInduction
<1> QED
  BY <1>1, <1>4 DEF T

\* A file is read if each of its lines is, and no name comes twice.
LEMMA DotenvMeans ==
  ASSUME NEW text \in Seq(Bytes)
  PROVE  ReadAs(ParseDotenv(text), Split("nl", text))
<1>1. PICK C : C = Split("nl", text)
  OBVIOUS
<1>2. C \in Seq(Seq(Bytes)) /\ C # <<>>
  BY <1>1, SplitType DEF Pieces
<1>3. PICK n : n = Len(C)
  OBVIOUS
<1>4. n \in Nat \ {0} /\ DOMAIN C = 1..n /\ \A i \in 1..n : C[i] \in Seq(Bytes)
  BY <1>2, <1>3, EmptySeq, LenProperties
<1>5. CASE ~\A i \in DOMAIN C : Fits(C[i])
  <2>1. ParseDotenv(text) = Refused
    BY <1>1, <1>5 DEF ParseDotenv
  <2>2. PICK i \in DOMAIN C : ~Fits(C[i])
    BY <1>5
  <2>3. C[i] \in ToSet(C)
    BY DEF ToSet
  <2>4. ~Void(C[i]) /\ Meant(C[i]) = {}
    BY <2>2 DEF Void, Meant, Denotes
  <2> QED
    BY <1>1, <2>1, <2>3, <2>4 DEF ReadAs, InOne, Refused
<1>6. CASE \A i \in DOMAIN C : Fits(C[i])
  <2>1. C \in Seq({l \in Seq(Bytes) : Fits(l)})
    <3>1. C \in [1..n -> {l \in Seq(Bytes) : Fits(l)}]
      <4>1. C = [i \in 1..n |-> C[i]]
        BY <1>2, <1>3, LenProperties
      <4> QED
        BY <1>4, <1>6, <4>1
    <3> QED
      BY <1>4, <3>1, SeqDef
  <2>2. ReadAs(Stage(C), C)
    BY <2>1, LinesAreRead
  <2>3. ParseDotenv(text) = LinesRead(ScanLines(text))
    BY <1>1, <1>6 DEF ParseDotenv, LinesRead
  <2>4. ASSUME NEW D \in Seq(Seq(Bytes)), D = IF Last(C) = <<>> THEN Front(C) ELSE C
        PROVE  ParseDotenv(text) = Stage(D)
    <3>1. \A i \in DOMAIN D : D[i] \in Seq(Bytes)
      BY LenProperties
    <3>2. [i \in DOMAIN D |-> TrimSuffix("cr", D[i])] = Mapped(Trims(Bytes), D)
      BY <3>1 DEF Mapped, Trims
    <3>3. ScanLines(text) = Mapped(Trims(Bytes), D)
      BY <1>1, <2>4, <3>2 DEF ScanLines
    <3>4. Mapped(Trims(Bytes), D) \in Seq(Seq(Bytes))
      BY TrimsMap, MappedType
    <3> QED
      BY <2>3, <3>3, <3>4, LinesReadIs DEF Stage
  <2>5. CASE Last(C) # <<>>
    <3>1. ParseDotenv(text) = Stage(C)
      BY <1>2, <2>4, <2>5
    <3> QED
      BY <1>1, <2>2, <3>1
  <2>6. CASE Last(C) = <<>>
    <3>1. PICK D \in Seq(Seq(Bytes)), e \in Seq(Bytes) : C = Append(D, e)
      BY <1>2, SequenceEmptyOrAppend
    <3>2. Last(C) = e /\ Front(C) = D
      <4>1. Len(D) \in Nat /\ Len(C) = Len(D) + 1 /\ C[Len(C)] = e /\ \A i \in 1..Len(D) : C[i] = D[i]
        BY <3>1, AppendElements
      <4> QED
        BY <3>1, <4>1 DEF Last, Front
    <3>3. ParseDotenv(text) = Stage(D)
      BY <2>4, <2>6, <3>2
    <3>4. e = <<>> /\ Fits(e)
      BY <2>6, <3>2, MaxTokenAssumption DEF Fits
    <3>5. Void(e)
      BY <3>4, EmptySeq DEF Void, TrimSuffix, Occurs, AllBlank, ToSet
    <3>6. ParseLine(Stage(D), TrimSuffix("cr", e)) = Stage(D)
      BY <3>4, <3>5, LineMeans
    <3>7. Stage(C) = Stage(D)
      BY <3>1, <3>6, StageNext DEF Further
    <3> QED
      BY <1>1, <2>2, <3>3, <3>7
  <2> QED
    BY <2>5, <2>6
<1> QED
  BY <1>5, <1>6

\* Every name that a line of an input assigns is one of those offered.
LEMMA NamesOffered ==
  ASSUME NEW c \in Invocations["import"], NEW l \in ToSet(Split("nl", c.input)), NEW e \in Meant(l)
  PROVE  e.key \in Names
<1>1. PICK s, k, o, ko : s = c.input /\ k = e.key /\ o = <<"=">> /\ ko = k \o o
  OBVIOUS
<1>2. s \in Seq(Bytes)
  BY <1>1, TextsAssumption DEF Verbs
<1>3. k \in Seq(Bytes) /\ CheckKey(k) /\ "=" \in Bytes
  BY <1>1 DEF Meant, Denotes, Bytes
<1>4. o \in Seq(Bytes) /\ ko \in Seq(Bytes)
  BY <1>1, <1>3, OneIs, ConcatIn
<1>5. l \in Seq(Bytes) /\ \E x, y \in Seq(Bytes) : Amid(x, l, y, s)
  BY <1>1, <1>2, PiecesAmid
<1>6. \E x, y \in Seq(Bytes) : Amid(x, ko, y, l)
  BY <1>1, <1>5, MeantAmid
<1>7. PICK x \in Seq(Bytes), y \in Seq(Bytes) : Amid(x, ko, y, s)
  BY <1>4, <1>5, <1>6, AmidWithin
<1>8. Made(x, k, y, s)
  <2>1. Regrouped(k, o, y)
    BY <1>3, <1>4, ConcatRegroup
  <2> QED
    BY <1>1, <1>7, <2>1 DEF Amid, Made, Regrouped
<1>9. PICK i, j, n : i = Len(x) + 1 /\ j = Len(x) + Len(k) + 1 /\ n = Len(s)
  OBVIOUS
<1>10. j \in 1..n /\ s[j] = "=" /\ SubSeq(s, i, j - 1) = k
  <2>1. LET a == Len(x) + Len(k) + 1
            b == Len(x)
        IN  a \in 1..Len(s) /\ SubSeq(s, b + 1, a - 1) = k /\ s[a] = "="
    BY <1>3, <1>8, MadeAt
  <2> QED
    BY <1>9, <2>1
<1>11. k # <<>>
  BY <1>3 DEF CheckKey
<1>12. Len(x) \in Nat /\ Len(k) \in Nat \ {0} /\ n \in Nat /\ DOMAIN s = 1..n
  BY <1>2, <1>3, <1>9, <1>11, EmptySeq, LenProperties
<1>13. i < j /\ i \in 1..n
  BY <1>9, <1>10, <1>12
<1> QED
  BY <1>1, <1>3, <1>10, <1>12, <1>13, OfferedAssumption

\* A file is read exactly when its lines mean something together, and then as that.
LEMMA DotenvGives ==
  ASSUME NEW c \in Invocations["import"], NEW p, p = ParseDotenv(c.input)
  PROVE  /\ p.ok <=> Readable(c.input) /\ ~Repeats(c.input)
         /\ p.ok => ToSet(p.entries) = Meaning(c.input) /\ KeysDiffer(Meaning(c.input))
         /\ Meaning(c.input) \subseteq [key : Names, value : Seq(Bytes)]
         /\ \A e \in Meaning(c.input) : CheckKey(e.key)
<1>1. PICK s, C : s = c.input /\ C = Split("nl", s)
  OBVIOUS
<1>2. s \in Seq(Bytes)
  BY <1>1, TextsAssumption DEF Verbs
<1>3. C \in Seq(Seq(Bytes))
  BY <1>1, <1>2, SplitType DEF Pieces
<1>4. ToSet(C) \subseteq Seq(Bytes)
  BY <1>3, TextElements
<1>5. \A l \in ToSet(C) : Readings(l) = Meant(l)
  <2>1. \A l \in ToSet(C) : \A e \in Meant(l) : e.key \in Names
    BY <1>1, NamesOffered
  <2>2. \A l \in ToSet(C) : Readings(l) = {e \in Meant(l) : e.key \in Names}
    BY <1>4, ReadingsAre
  <2> QED
    BY <2>1, <2>2
<1>6. ReadAs(p, C)
  BY <1>1, <1>2, DotenvMeans
<1>7. Meaning(s) = All(C)
  BY <1>1, <1>5 DEF Meaning, All
<1>8. Readable(s) <=> InOne(C)
  BY <1>1, <1>5 DEF Readable, InOne
<1>9. Repeats(s) <=> Twice(C)
  <2>1. \A i \in DOMAIN C : Readings(C[i]) = Meant(C[i])
    BY <1>5 DEF ToSet
  <2> QED
    BY <1>1, <2>1 DEF Repeats, Twice
<1>10. ASSUME NEW e \in All(C) PROVE e \in [key : Names, value : Seq(Bytes)] /\ CheckKey(e.key)
  <2>1. PICK l \in ToSet(C) : e \in Meant(l)
    BY DEF All
  <2>2. e \in [key : Seq(Bytes), value : Seq(Bytes)] /\ CheckKey(e.key)
    BY <2>1 DEF Meant, Denotes
  <2>3. e.key \in Names
    BY <1>1, <2>1, NamesOffered
  <2> QED
    BY <2>2, <2>3
<1> QED
  BY <1>1, <1>6, <1>7, <1>8, <1>9, <1>10 DEF ReadAs
-----------------------------------------------------------------------------
(***************************************************************************)
(* The records of a program, one after the other.                          *)
(***************************************************************************)
RecordEntry(r) == Entry(Before(Index("=", r), r), After(Index("=", r), r))
RecordResults(B) == [ok : BOOLEAN, entries : Seq({RecordEntry(r) : r \in B})]
FurtherRecord(p, r) == IF p.ok THEN ParseRecord(p, r) ELSE p
RecordStep(B) == [x \in RecordResults(B) \X B |-> FurtherRecord(x[1], x[2])]

\* Reading a record makes a result of a result.
LEMMA RecordsFold == ASSUME NEW B PROVE Folds(RecordResults(B), B, RecordStep(B), Parsed(<<>>))
<1>1. PICK E : E = {RecordEntry(r) : r \in B}
  OBVIOUS
<1>2. Refused \in RecordResults(B) /\ Parsed(<<>>) \in RecordResults(B)
  <2>1. <<>> \in Seq(E)
    BY EmptySeq
  <2> QED
    BY <1>1, <2>1 DEF Refused, Parsed, RecordResults
<1>3. ASSUME NEW p \in RecordResults(B), NEW r \in B PROVE FurtherRecord(p, r) \in RecordResults(B)
  <2>1. PICK e : e = RecordEntry(r)
    OBVIOUS
  <2>2. e \in E /\ p.entries \in Seq(E)
    BY <1>1, <2>1 DEF RecordResults
  <2>3. Append(p.entries, e) \in Seq(E)
    BY <2>2, AppendProperties
  <2>4. Add(p, e) \in RecordResults(B)
    BY <1>1, <2>3 DEF Add, Parsed, RecordResults
  <2> QED
    BY <1>2, <2>1, <2>4 DEF FurtherRecord, ParseRecord, RecordEntry
<1> QED
  BY <1>2, <1>3 DEF Folds, RecordStep

RecordsRead(recs) ==
  FoldLeft(LAMBDA parsed, r : IF parsed.ok THEN ParseRecord(parsed, r) ELSE parsed, Parsed(<<>>), recs)

\* ParseNullRecords folds them so.
LEMMA RecordsReadIs ==
  ASSUME NEW B, NEW recs \in Seq(B)
  PROVE  RecordsRead(recs) = Fold(RecordStep(B), Parsed(<<>>), recs)
<1> DEFINE op(p, r) == IF p.ok THEN ParseRecord(p, r) ELSE p
           A == RecordResults(B)
           a == Parsed(<<>>)
           F == RecordStep(B)
           G(g) == g = [t \in SUBSET DOMAIN recs |->
                          IF t = {} THEN a ELSE op(g[t \ {Max(t)}], recs[Max(t)])]
           g == CHOOSE g : G(g)
<1>1. RecordsRead(recs) = g[DOMAIN recs]
  BY DEF RecordsRead, FoldLeft, MapThenFoldSet
<1>2. Folds(A, B, F, a)
  BY RecordsFold
<1>3. \A p \in A, r \in B : F[<<p, r>>] = op(p, r)
  BY DEF RecordStep, FurtherRecord
<1> HIDE DEF op, A, F, a
<1>4. PICK f : Table(A, B, F, a, recs, f)
  BY <1>2, TableExists
<1>5. G(f)
  BY <1>3, <1>4 DEF Table
<1>6. G(g)
  BY <1>5
<1> HIDE DEF g
<1>7. Unfolds(A, B, F, a, recs, g)
  BY <1>3, <1>6 DEF Unfolds
<1>8. g[DOMAIN recs] = Fold(F, a, recs)
  BY <1>2, <1>7, FoldIs
<1> QED
  BY <1>1, <1>8 DEF A, F, a

\* The entries there is room for in a record, and the record of each.
Writable ==
  {e \in [key : Names, value : Seq(Bytes)] :
     ~Occurs("nul", e.key) /\ ~Occurs("=", e.key) /\ ~Occurs("nul", e.value)}
Written == [e \in Writable |-> e.key \o <<"=">> \o e.value]

\* A record that is written is read as its entry.
LEMMA WrittenIs ==
  ASSUME NEW e \in Writable, NEW r, r = Written[e]
  PROVE  /\ r \in Seq(Bytes) /\ r # <<>> /\ ~Occurs("nul", r)
         /\ \A p : ParseRecord(p, r) = IF ~CheckKey(e.key) \/ Seen(p, e.key) THEN Refused ELSE Add(p, e)
<1>1. PICK k, v, c, o : k = e.key /\ v = e.value /\ c = "=" /\ o = <<c>>
  OBVIOUS
<1>2. /\ k \in Seq(Bytes) /\ v \in Seq(Bytes) /\ ~Occurs("nul", k) /\ ~Occurs(c, k) /\ ~Occurs("nul", v)
      /\ e = Entry(k, v) /\ c \in Bytes /\ "nul" \in Bytes
  BY <1>1, TextsAssumption DEF Writable, Entry, Bytes
<1>3. r = k \o o \o v
  BY <1>1 DEF Written
<1>4. o \in Seq(Bytes) /\ ToSet(o) = {c}
  BY <1>1, <1>2, OneIs DEF ToSet
<1>5. Joined(k, c, v, r)
  BY <1>1, <1>3 DEF Joined
<1>6. /\ r \in Seq(Bytes) /\ Occurs(c, r)
      /\ Before(Index(c, r), r) = k /\ After(Index(c, r), r) = v
  BY <1>2, <1>5, CutAtFirst
<1>7. Index(c, r) # 0
  <2>1. Index(c, r) \in 1..Len(r)
    BY <1>6, IndexIs
  <2> QED
    BY <2>1
<1>8. \A p : ParseRecord(p, r) = IF ~CheckKey(k) \/ Seen(p, k) THEN Refused ELSE Add(p, e)
  BY <1>1, <1>2, <1>6, <1>7 DEF ParseRecord
<1>9. ~Occurs("nul", r)
  <2>1. PICK ko : ko = k \o o
    OBVIOUS
  <2>2. ko \in Seq(Bytes) /\ ToSet(ko) = ToSet(k) \union ToSet(o)
    BY <1>2, <1>4, <2>1, ConcatIn, ConcatSet
  <2>3. ToSet(r) = ToSet(ko) \union ToSet(v)
    <3>1. r = ko \o v
      BY <1>3, <2>1
    <3>2. ko \in Seq(Bytes) /\ v \in Seq(Bytes)
      BY <1>2, <2>2
    <3>3. ToSet(ko \o v) = ToSet(ko) \union ToSet(v)
      BY <3>2, ConcatSet
    <3> QED
      BY <3>1, <3>3
  <2>4. \A s : Occurs("nul", s) <=> "nul" \in ToSet(s)
    BY DEF Occurs, ToSet
  <2> QED
    BY <1>1, <1>2, <1>4, <2>2, <2>3, <2>4
<1>10. r # <<>>
  BY <1>6 DEF Occurs
<1> QED
  BY <1>1, <1>6, <1>8, <1>9, <1>10

\* Every entry is written as some record.
LEMMA WrittenMap == Maps(Writable, Seq(Bytes), Written)
BY WrittenIs DEF Maps, Written

\* What is read of the records of a program.
RecordStage(rs) == Fold(RecordStep(Seq(Bytes)), Parsed(<<>>), Mapped(Written, rs))

KeysOnce(rs) == \A i, j \in DOMAIN rs : rs[i].key = rs[j].key => i = j
RecordsAs(p, rs) ==
  /\ p.ok <=> (\A e \in ToSet(rs) : CheckKey(e.key)) /\ KeysOnce(rs)
  /\ p.ok => p.entries = rs

\* One record more, and names come once if its name is new.
LEMMA KeysOnceNext ==
  ASSUME NEW S, NEW rs \in Seq(S), NEW e \in S
  PROVE  KeysOnce(Append(rs, e)) <=> KeysOnce(rs) /\ \A i \in DOMAIN rs : rs[i].key # e.key
<1>1. PICK n, t : n = Len(rs) /\ t = Append(rs, e)
  OBVIOUS
<1>2. /\ n \in Nat /\ DOMAIN rs = 1..n /\ DOMAIN t = 1..n + 1
      /\ (\A i \in 1..n : t[i] = rs[i]) /\ t[n + 1] = e
  BY <1>1, AppendElements
<1>3. ASSUME KeysOnce(t) PROVE KeysOnce(rs) /\ \A i \in DOMAIN rs : rs[i].key # e.key
  <2>1. n + 1 \in DOMAIN t /\ \A i \in 1..n : i \in DOMAIN t /\ i # n + 1
    BY <1>2
  <2> QED
    BY <1>2, <1>3, <2>1 DEF KeysOnce
<1>4. ASSUME KeysOnce(rs), \A i \in DOMAIN rs : rs[i].key # e.key PROVE KeysOnce(t)
  <2>1. ASSUME NEW i \in DOMAIN t, NEW j \in DOMAIN t, t[i].key = t[j].key PROVE i = j
    <3>1. (i \in 1..n \/ i = n + 1) /\ (j \in 1..n \/ j = n + 1)
      BY <1>2
    <3> QED
      BY <1>2, <1>4, <2>1, <3>1 DEF KeysOnce
  <2> QED
    BY <2>1 DEF KeysOnce
<1> QED
  BY <1>1, <1>3, <1>4

\* One record more is read as it is, after others that are.
LEMMA RecordStageNext ==
  ASSUME NEW rs \in Seq(Writable), NEW e \in Writable, RecordsAs(RecordStage(rs), rs)
  PROVE  RecordsAs(RecordStage(Append(rs, e)), Append(rs, e))
<1> DEFINE B == Seq(Bytes)
           F == RecordStep(B)
           a == Parsed(<<>>)
<1>1. Folds(RecordResults(B), B, F, a)
  BY RecordsFold
<1>2. \A p \in RecordResults(B), r \in B : F[<<p, r>>] = FurtherRecord(p, r)
  BY DEF RecordStep
<1>3. PICK r, D : r = Written[e] /\ D = Mapped(Written, rs)
  OBVIOUS
<1>4. r \in B /\ D \in Seq(B) /\ Mapped(Written, Append(rs, e)) = Append(D, r)
  <2>1. Mapped(Written, rs) \in Seq(Seq(Bytes))
        /\ Mapped(Written, Append(rs, e)) = Append(Mapped(Written, rs), Written[e])
    BY WrittenMap, MappedAppend
  <2>2. r \in Seq(Bytes)
    BY <1>3, WrittenIs
  <2> QED
    BY <1>3, <2>1, <2>2
<1> HIDE DEF F, B, a
<1>5. Fold(F, a, D) \in RecordResults(B) /\ Fold(F, a, Append(D, r)) = F[<<Fold(F, a, D), r>>]
  BY <1>1, <1>4, FoldAppend
<1>6. PICK p, q, t : p = Fold(F, a, D) /\ q = FurtherRecord(p, r) /\ t = Append(rs, e)
  OBVIOUS
<1>7. p = RecordStage(rs) /\ q = RecordStage(t)
  BY <1>2, <1>3, <1>4, <1>5, <1>6 DEF RecordStage, F, B, a
<1>8. /\ p.ok <=> (\A f \in ToSet(rs) : CheckKey(f.key)) /\ KeysOnce(rs)
      /\ p.ok => p.entries = rs
  BY <1>7 DEF RecordsAs
<1>9. ToSet(t) = ToSet(rs) \union {e}
  BY <1>6, AppendSet
<1>10. KeysOnce(t) <=> KeysOnce(rs) /\ \A i \in DOMAIN rs : rs[i].key # e.key
  BY <1>6, KeysOnceNext
<1>11. ParseRecord(p, r) = IF ~CheckKey(e.key) \/ Seen(p, e.key) THEN Refused ELSE Add(p, e)
  BY <1>3, WrittenIs
<1>14. (\A f \in ToSet(t) : CheckKey(f.key)) <=> (\A f \in ToSet(rs) : CheckKey(f.key)) /\ CheckKey(e.key)
  BY <1>9
<1>12. CASE ~p.ok
  <2>1. q = p /\ ~q.ok
    BY <1>6, <1>12 DEF FurtherRecord
  <2>2. ~((\A f \in ToSet(t) : CheckKey(f.key)) /\ KeysOnce(t))
    BY <1>8, <1>10, <1>12, <1>14
  <2> QED
    BY <1>6, <1>7, <2>1, <2>2 DEF RecordsAs
<1>13. CASE p.ok
  <2>1. Seen(p, e.key) <=> \E i \in DOMAIN rs : rs[i].key = e.key
    BY <1>8, <1>13 DEF Seen
  <2>2. q = IF ~CheckKey(e.key) \/ Seen(p, e.key) THEN Refused ELSE Parsed(t)
    BY <1>6, <1>8, <1>11, <1>13 DEF FurtherRecord, Add
  <2>3. q.ok <=> CheckKey(e.key) /\ ~Seen(p, e.key)
    BY <2>2 DEF Refused, Parsed
  <2>4. q.ok => q.entries = t
    BY <2>2 DEF Refused, Parsed
  <2>5. q.ok <=> (\A f \in ToSet(t) : CheckKey(f.key)) /\ KeysOnce(t)
    BY <1>8, <1>10, <1>13, <1>14, <2>1, <2>3
  <2> QED
    BY <1>6, <1>7, <2>4, <2>5 DEF RecordsAs
<1> QED
  BY <1>6, <1>7, <1>12, <1>13

\* All records are read as they are, when their names may be stored and come once.
LEMMA RecordsAreRead ==
  ASSUME NEW rs \in Seq(Writable)
  PROVE  RecordsAs(RecordStage(rs), rs)
<1> DEFINE T == {t \in Seq(Writable) : RecordsAs(RecordStage(t), t)}
<1>1. RecordsAs(RecordStage(<<>>), <<>>)
  <2>1. PICK e : e = <<>>
    OBVIOUS
  <2>2. Mapped(Written, e) = <<>>
    BY <2>1 DEF Mapped
  <2>3. PICK B : B = Seq(Bytes)
    OBVIOUS
  <2>4. Fold(RecordStep(B), Parsed(<<>>), <<>>) = Parsed(<<>>)
    BY RecordsFold, FoldEmpty
  <2>5. RecordStage(e).ok /\ RecordStage(e).entries = e
    BY <2>1, <2>2, <2>3, <2>4 DEF RecordStage, Parsed
  <2> QED
    BY <2>1, <2>5 DEF RecordsAs, KeysOnce, ToSet
<1>2. <<>> \in T
  BY <1>1, EmptySeq
<1>3. ASSUME NEW t \in Seq(Writable), NEW e \in Writable, t \in T PROVE Append(t, e) \in T
  BY <1>3, RecordStageNext, AppendProperties
<1> HIDE DEF T
<1>4. Seq(Writable) \subseteq T
  BY <1>2, <1>3, SequenceInduction
<1> QED
  BY <1>4 DEF T

\* Counted, names that come once are as many as their records.
CountsKeys(rs) ==
  LET K == {e.key : e \in ToSet(rs)} IN
  /\ IsFiniteSet(K) /\ Cardinality(K) \in 0..Len(rs)
  /\ Cardinality(K) = Len(rs) <=> KeysOnce(rs)

\* Counting tells whether they do.
LEMMA KeysCounted ==
  ASSUME NEW S, NEW rs \in Seq(S)
  PROVE  CountsKeys(rs)
<1> DEFINE T == {t \in Seq(S) : CountsKeys(t)}
<1>1. CountsKeys(<<>>)
  <2>1. {e.key : e \in ToSet(<<>>)} = {} /\ Len(<<>>) = 0
    BY DEF ToSet
  <2>2. KeysOnce(<<>>)
    BY DEF KeysOnce
  <2> QED
    <3>1. PICK K, n : K = {e.key : e \in ToSet(<<>>)} /\ n = Len(<<>>)
      OBVIOUS
    <3>2. IsFiniteSet(K) /\ Cardinality(K) = 0 /\ n = 0
      BY <2>1, <3>1, FS_EmptySet
    <3>3. Cardinality(K) \in 0..n /\ Cardinality(K) = n
      BY <3>2
    <3> QED
      BY <2>2, <3>1, <3>2, <3>3 DEF CountsKeys
<1>2. ASSUME NEW t \in Seq(S), NEW e \in S, CountsKeys(t) PROVE CountsKeys(Append(t, e))
  <2>1. PICK K, u, n : K = {f.key : f \in ToSet(t)} /\ u = Append(t, e) /\ n = Len(t)
    OBVIOUS
  <2>2. n \in Nat /\ Len(u) = n + 1 /\ ToSet(u) = ToSet(t) \union {e}
    BY <2>1, AppendElements, AppendSet
  <2>3. {f.key : f \in ToSet(u)} = K \union {e.key}
    BY <2>1, <2>2
  <2>4. IsFiniteSet(K) /\ Cardinality(K) \in 0..n /\ (Cardinality(K) = n <=> KeysOnce(t))
    BY <1>2, <2>1 DEF CountsKeys
  <2>5. /\ IsFiniteSet(K \union {e.key})
        /\ Cardinality(K \union {e.key}) = IF e.key \in K THEN Cardinality(K) ELSE Cardinality(K) + 1
    BY <2>4, FS_AddElement
  <2>6. e.key \in K <=> \E i \in DOMAIN t : t[i].key = e.key
    BY <2>1 DEF ToSet
  <2>7. KeysOnce(u) <=> KeysOnce(t) /\ e.key \notin K
    BY <2>1, <2>6, KeysOnceNext
  <2>8. Cardinality(K \union {e.key}) \in 0..n + 1 /\ (Cardinality(K \union {e.key}) = n + 1 <=> KeysOnce(u))
    BY <2>2, <2>4, <2>5, <2>7
  <2> QED
    BY <2>1, <2>2, <2>3, <2>5, <2>8 DEF CountsKeys
<1>3. <<>> \in T
  BY <1>1, EmptySeq
<1>4. ASSUME NEW t \in Seq(S), NEW e \in S, t \in T PROVE Append(t, e) \in T
  BY <1>2, <1>4, AppendProperties
<1> HIDE DEF T
<1>5. Seq(S) \subseteq T
  BY <1>3, <1>4, SequenceInduction
<1> QED
  BY <1>5 DEF T

\* What a program writes, with or without the last NUL, is cut into its records.
LEMMA RecordsCut ==
  ASSUME NEW rs \in Seq(Writable), NEW data,
         data = Generated(rs) \/ data = TrimSuffix("nul", Generated(rs))
  PROVE  Records(data) = Mapped(Written, rs)
<1>1. ToSet(rs) \subseteq Writable /\ IsText(rs)
  BY TextElements, TextIs
<1>2. \A i \in DOMAIN rs : rs[i] \in Writable
  BY <1>1 DEF ToSet
<1>3. Generated(rs) = EmitNUL(rs, Written)
  <2>1. \A i \in DOMAIN rs : Written[rs[i]] = rs[i].key \o <<"=">> \o rs[i].value
    BY <1>2 DEF Written
  <2>2. [i \in DOMAIN rs |-> rs[i].key \o <<"=">> \o rs[i].value \o <<"nul">>]
          = [i \in DOMAIN rs |-> Written[rs[i]] \o <<"nul">>]
    BY <2>1
  <2> QED
    BY <2>2 DEF Generated, EmitNUL
<1>4. [i \in DOMAIN rs |-> Written[rs[i]]] = Mapped(Written, rs)
  BY DEF Mapped
<1>5. CASE rs = <<>>
  <2>1. Generated(rs) = <<>>
    BY <1>5 DEF Generated, FlattenSeq
  <2>2. data = <<>>
    BY <2>1 DEF TrimSuffix
  <2>3. Mapped(Written, rs) = <<>>
    BY <1>5 DEF Mapped
  <2> QED
    BY <2>2, <2>3 DEF Records
<1>6. CASE rs # <<>>
  <2>1. "nul" \in Bytes /\ \A e \in ToSet(rs) : Written[e] \in Seq(Bytes) /\ ~Occurs("nul", Written[e])
    BY <1>1, WrittenIs DEF Bytes
  <2>2. PICK y \in Seq(Bytes) : EmitNUL(rs, Written) = y \o <<"nul">> /\ Split("nul", y) = Mapped(Written, rs)
    <3>1. IsText(rs)
      BY <1>1, TextIs
    <3>2. \E y \in Seq(Bytes) : CutsInto(rs, Written, y)
      BY <1>6, <2>1, <3>1, NulsEmitted
    <3> QED
      BY <1>4, <3>2 DEF CutsInto
  <2>3. PICK o, m, n, c : o = Append(y, c) /\ m = Mapped(Written, rs) /\ n = Len(rs) /\ c = "nul"
    OBVIOUS
  <2>4. o = Generated(rs)
    BY <1>3, <2>1, <2>2, <2>3, OneMore
  <2>5. n \in Nat \ {0} /\ DOMAIN rs = 1..n
    BY <1>6, <2>3, EmptySeq, LenProperties
  <2>6. Len(m) = n /\ \A i \in 1..n : m[i] # <<>>
    <3>1. \A i \in 1..n : m[i] = Written[rs[i]] /\ rs[i] \in Writable
      BY <1>2, <2>3, <2>5 DEF Mapped
    <3>2. Len(m) = n
      BY <2>3, WrittenMap, MappedType
    <3> QED
      BY <3>1, <3>2, WrittenIs
  <2>7. y # <<>>
    <3>1. SUFFICES ASSUME y = <<>> PROVE FALSE
      OBVIOUS
    <3>2. PICK e : e = <<>>
      OBVIOUS
    <3>3. m = <<e>>
      BY <2>2, <2>3, <3>1, <3>2, SplitEmpty
    <3>4. m[1] = e
      BY <3>3
    <3> QED
      BY <2>5, <2>6, <3>2, <3>4
  <2>8. Last(y) # c
    <3>1. SUFFICES ASSUME Last(y) = c PROVE FALSE
      OBVIOUS
    <3>2. PICK z \in Seq(Bytes), b \in Bytes : y = Append(z, b)
      BY <2>7, SequenceEmptyOrAppend
    <3>3. b = c
      <4>1. Len(y) = Len(z) + 1 /\ y[Len(z) + 1] = b
        BY <3>2, AppendElements
      <4> QED
        BY <3>1, <4>1 DEF Last
    <3>4. PICK e, q : e = <<>> /\ q = Split(c, z)
      OBVIOUS
    <3>5. m = Append(q, e)
      <4>1. SplitsNext(c, z, b)
        BY SplitNext
      <4> QED
        BY <2>2, <2>3, <3>2, <3>3, <3>4, <4>1 DEF SplitsNext
    <3>6. q \in Seq(Seq(Bytes)) /\ e \in Seq(Bytes)
      BY <3>4, SplitType, EmptySeq DEF Pieces
    <3>7. Len(m) = Len(q) + 1 /\ m[Len(q) + 1] = e
      BY <3>5, <3>6, AppendElements
    <3> QED
      BY <2>5, <2>6, <3>4, <3>7
  <2>9. TrimSuffix(c, y) = y
    BY <2>8 DEF TrimSuffix
  <2>10. o # <<>> /\ Last(o) = c /\ Front(o) = y
    <3>1. Len(o) = Len(y) + 1 /\ o[Len(y) + 1] = c /\ Len(y) \in Nat /\ \A i \in 1..Len(y) : o[i] = y[i]
      BY <2>1, <2>3, AppendElements
    <3> QED
      BY <2>1, <2>3, <3>1, AppendProperties, EmptySeq DEF Last, Front
  <2>11. TrimSuffix(c, o) = y
    BY <2>10 DEF TrimSuffix
  <2>12. data \in {o, y}
    BY <2>3, <2>4, <2>11
  <2> QED
    BY <2>2, <2>3, <2>7, <2>9, <2>10, <2>11, <2>12 DEF Records
<1> QED
  BY <1>5, <1>6

\* The records of a program are read if they are in order, and then as they are.
LEMMA RecordsGive ==
  ASSUME NEW c \in Invocations["import"], <<"--null">> \in ToSet(Flagged(c.args)),
         NEW p, p = ParseNullRecords(c.input)
  PROVE  /\ p.ok <=> /\ Cardinality({e.key : e \in ToSet(c.records)}) = Len(c.records)
                     /\ \A e \in ToSet(c.records) : CheckKey(e.key)
         /\ p.ok => ToSet(p.entries) = ToSet(c.records) /\ KeysDiffer(ToSet(c.records))
         /\ ToSet(c.records) \subseteq [key : Names, value : Seq(Bytes)]
<1>1. PICK rs, data : rs = c.records /\ data = c.input
  OBVIOUS
<1>2. /\ data = Generated(rs) \/ data = TrimSuffix("nul", Generated(rs))
      /\ rs \in Seq([key : Names, value : Seq(Bytes)])
      /\ \A e \in ToSet(rs) : ~Occurs("nul", e.key) /\ ~Occurs("=", e.key) /\ ~Occurs("nul", e.value)
  BY <1>1, RecordsAssumption
<1>3. ToSet(rs) \subseteq [key : Names, value : Seq(Bytes)]
  BY <1>2, TextElements
<1>4. rs \in Seq(Writable)
  <2>1. ToSet(rs) \subseteq Writable
    BY <1>2, <1>3 DEF Writable
  <2>2. rs \in Seq(ToSet(rs))
    BY <1>2, TextIs DEF IsText
  <2> QED
    BY <2>1, <2>2, SeqMonotonic
<1>5. Records(data) = Mapped(Written, rs)
  BY <1>2, <1>4, RecordsCut
<1>6. Mapped(Written, rs) \in Seq(Seq(Bytes))
  BY <1>4, WrittenMap, MappedType
<1>7. p = RecordsRead(Records(data))
  BY <1>1 DEF ParseNullRecords, RecordsRead, Records
<1>8. p = RecordStage(rs)
  BY <1>5, <1>6, <1>7, RecordsReadIs DEF RecordStage
<1>9. RecordsAs(p, rs)
  BY <1>4, <1>8, RecordsAreRead
<1>10. Cardinality({e.key : e \in ToSet(rs)}) = Len(rs) <=> KeysOnce(rs)
  BY <1>4, KeysCounted DEF CountsKeys
<1>11. KeysOnce(rs) => KeysDiffer(ToSet(rs))
  BY DEF KeysOnce, KeysDiffer, ToSet
<1> QED
  BY <1>1, <1>3, <1>9, <1>10, <1>11 DEF RecordsAs

(***************************************************************************)
(* What import is given, a .env file or a program's records, is read       *)
(* exactly when it means one thing, each name once, and then as that:      *)
(* nothing is guessed, lost or added (import.go, 18-21 and 26-32).         *)
(***************************************************************************)
THEOREM ImportReads ==
  ASSUME NEW c \in Invocations["import"], NEW p,
         p = IF <<"--null">> \in ToSet(Flagged(c.args)) THEN ParseNullRecords(c.input) ELSE ParseDotenv(c.input)
  PROVE  /\ p.ok <=> InOrder(c) /\ \A e \in Given(c) : CheckKey(e.key)
         /\ p.ok => ToSet(p.entries) = Given(c) /\ KeysDiffer(Given(c))
         /\ Given(c) \subseteq [key : Names, value : Seq(Bytes)]
<1>1. CASE <<"--null">> \in ToSet(Flagged(c.args))
  <2>1. Given(c) = ToSet(c.records)
        /\ InOrder(c) = (Cardinality({e.key : e \in ToSet(c.records)}) = Len(c.records))
    BY <1>1 DEF Given, InOrder
  <2>2. p = ParseNullRecords(c.input)
    BY <1>1
  <2> QED
    BY <1>1, <2>1, <2>2, RecordsGive
<1>2. CASE <<"--null">> \notin ToSet(Flagged(c.args))
  <2>1. Given(c) = Meaning(c.input) /\ InOrder(c) = (Readable(c.input) /\ ~Repeats(c.input))
    BY <1>2 DEF Given, InOrder
  <2>2. p = ParseDotenv(c.input)
    BY <1>2
  <2> QED
    BY <2>1, <2>2, DotenvGives
<1> QED
  BY <1>1, <1>2

(***************************************************************************)
(* What set and import leave in the vault.                                 *)
(***************************************************************************)
LEMMA UpdateEnds ==
  ASSUME NEW r
  PROVE  /\ Update(r).status = OK <=> /\ V!Accepted(r) /\ Decodable(vault) /\ V!Apply(r, Held).err = OK
         /\ Update(r).status = OK => Update(r).vault = Saved(V!Apply(r, Held).vault)
<1>1. PICK m : m = V!Apply(r, Held)
  OBVIOUS
<1>2. Update(r) = IF ~V!Accepted(r) \/ ~Decodable(vault) THEN Failed(Generic)
                  ELSE IF m.err # OK THEN Failed(m.err)
                  ELSE Effect(OK, Saved(m.vault), <<>>)
  BY <1>1 DEF Update, Held, Saved
<1>3. \A x : Failed(x).status = x
  BY DEF Failed, Effect
<1>4. Generic # OK
  BY DEF Generic, OK
<1>5. Effect(OK, Saved(m.vault), <<>>).status = OK /\ Effect(OK, Saved(m.vault), <<>>).vault = Saved(m.vault)
  BY DEF Effect
<1> QED
  BY <1>1, <1>2, <1>3, <1>4, <1>5

\* The vault with the values of some names written over, and that vault saved.
Over(W, val) == [n \in Names |-> IF n \in W THEN val[n] ELSE Held[n]]
SavedOver(W, val) == [n \in Names |-> IF n \in W THEN Encode(val[n]) ELSE Held[n]]
Untouched(new, W) == \A n \in Found(vault) : n \notin W => new[n] = vault[n]
\* A vault so written over has what was written, and what it had.
LEMMA WritesOver ==
  ASSUME VaultInv, Decodable(vault), NEW W, W \subseteq Names, NEW val, \A n \in W : val[n] \in Seq(Bytes),
         NEW new, new = SavedOver(W, val)
  PROVE  /\ Found(new) = Found(vault) \union W
         /\ \A n \in W : Kept(new[n], val[n])
         /\ Untouched(new, W)
<1>1. \A n \in W : /\ Encode(val[n]) \in Seq(Bytes) /\ Encode(val[n]) # Absent
                   /\ ~Occurs("hi", val[n]) => Encode(val[n]) = val[n]
  BY EncodeOnce, MarksAssumption
<1>2. /\ Held \in V!Vaults
      /\ Found(vault) = {n \in Names : Held[n] # Absent}
      /\ \A n \in Names : Held[n] # Absent => Held[n] = vault[n]
  BY HeldVault
<1>8. new = [n \in Names |-> IF n \in W THEN Encode(val[n]) ELSE Held[n]]
  BY DEF SavedOver
<1>3. new \in V!Vaults
  BY <1>1, <1>2, <1>8 DEF V!Vaults
<1>4. Found(new) = {n \in Names : new[n] # Absent}
  BY <1>3, MarksAssumption DEF Found
<1>5. Found(new) = Found(vault) \union W
  BY <1>1, <1>2, <1>4, <1>8
<1>6. \A n \in W : Kept(new[n], val[n])
  BY <1>1, <1>8 DEF Kept
<1>7. Untouched(new, W)
  BY <1>2, <1>8 DEF Untouched
<1> QED
  BY <1>5, <1>6, <1>7

\* Saved, a vault that was written over is what it was but for what was written.
LEMMA SavesOver ==
  ASSUME VaultInv, Decodable(vault), NEW W, W \subseteq Names, NEW val, \A n \in W : val[n] \in Seq(Bytes),
         NEW v, v = Over(W, val)
  PROVE  Saved(v) = SavedOver(W, val)
<1>1. \A n \in Names : (IF Held[n] = Absent THEN Absent ELSE Encode(Held[n])) = Held[n]
  BY HeldVault
<1>2. \A n \in W : val[n] # Absent
  BY MarksAssumption
<1>3. \A n \in Names : (IF v[n] = Absent THEN Absent ELSE Encode(v[n])) = IF n \in W THEN Encode(val[n]) ELSE Held[n]
  BY <1>1, <1>2 DEF Over
<1> QED
  BY <1>3 DEF Saved, SavedOver

ImportRequest(entries, policy) == [verb |-> "import", policy |-> policy, entries |-> entries]
NamesIn(entries) == {n \in Names : entries[n] # Absent}
KeptUnder(policy) == IF policy = "skip" THEN Found(vault) ELSE {}
Taken(e, policy, entries, named) ==
  e.status = OK <=> /\ Decodable(vault) /\ named # {}
                    /\ \A n \in named : CheckKey(n) /\ CheckValue(entries[n])
                    /\ policy = "abort" => named \intersect Found(vault) = {}

\* What becomes of a vault when the entries of an import reach it.
LEMMA ImportEnds ==
  ASSUME VaultInv, NEW entries, NEW policy \in {"abort", "overwrite", "skip"}, NEW named,
         named = NamesIn(entries), \A n \in named : entries[n] \in Seq(Bytes),
         NEW e, e = Update(ImportRequest(entries, policy)),
         NEW kept, kept = KeptUnder(policy)
  PROVE  /\ Taken(e, policy, entries, named)
         /\ e.status = OK => e.vault = SavedOver(named \ kept, entries)
<1> DEFINE written == IF policy = "skip" THEN {n \in named : Held[n] = Absent} ELSE named
           colliding == {n \in named : Held[n] # Absent}
           merged == Over(written, entries)
<1>0. named = {n \in Names : entries[n] # Absent}
  BY DEF NamesIn
<1>20. kept = IF policy = "skip" THEN Found(vault) ELSE {}
  BY DEF KeptUnder
<1>11. PICK r : r = ImportRequest(entries, policy)
  OBVIOUS
<1>1. r = [verb |-> "import", policy |-> policy, entries |-> entries]
  BY <1>11 DEF ImportRequest
<1>2. \A n \in named : /\ V!CheckKey(n) <=> CheckKey(n)
                       /\ V!CheckValue(entries[n]) <=> CheckValue(entries[n])
  BY <1>0 DEF V!CheckKey, V!CheckValue
<1>3. V!Accepted(r) <=> named # {} /\ \A n \in named : CheckKey(n) /\ CheckValue(entries[n])
  <2>1. V!Accepted(r) <=> /\ \E n \in Names : entries[n] # Absent
                          /\ \A n \in Names : entries[n] # Absent => V!CheckKey(n) /\ V!CheckValue(entries[n])
    BY <1>1 DEF V!Accepted
  <2> QED
    BY <1>0, <1>2, <2>1
<1>4. ASSUME Decodable(vault), V!Accepted(r)
      PROVE  V!Apply(r, Held) = IF policy = "abort" /\ colliding # {} THEN V!Mutated(Generic, Held)
                                                                     ELSE V!Mutated(OK, merged)
  <2>1. V!Apply(r, Held) = V!Import(Held, entries, policy)
    BY <1>1 DEF V!Apply
  <2>2. V!Import(Held, entries, policy) =
          IF \/ colliding # {} /\ policy = "abort"
             \/ \E n \in IF policy = "skip" THEN named \ colliding ELSE named :
                  ~(V!CheckKey(n) /\ V!CheckValue(entries[n]))
          THEN V!Mutated(Generic, Held)
          ELSE V!Mutated(OK, [n \in Names |->
                 IF n \in IF policy = "skip" THEN named \ colliding ELSE named
                 THEN entries[n] ELSE Held[n]])
    BY <1>0 DEF V!Import, V!Has, V!OK, V!Generic, OK, Generic
  <2>5. merged = [n \in Names |-> IF n \in written THEN entries[n] ELSE Held[n]]
    BY DEF Over
  <2>3. written = IF policy = "skip" THEN named \ colliding ELSE named
    OBVIOUS
  <2>4. \A n \in written : V!CheckKey(n) /\ V!CheckValue(entries[n])
    BY <1>2, <1>3, <1>4
  <2> HIDE DEF written, colliding, merged
  <2> QED
    BY <2>1, <2>2, <2>3, <2>4, <2>5
<1>5. Decodable(vault) => /\ colliding = named \intersect Found(vault)
                          /\ written = named \ kept
  <2>1. Decodable(vault) => Found(vault) = {n \in Names : Held[n] # Absent}
    BY HeldVault
  <2> QED
    BY <1>0, <1>20, <2>1
<1> HIDE DEF colliding, written, merged
<1>6. Generic # OK /\ \A x, v : V!Mutated(x, v).err = x /\ V!Mutated(x, v).vault = v
  BY DEF Generic, OK, V!Mutated
<1>7. e.status = OK <=> V!Accepted(r) /\ Decodable(vault) /\ V!Apply(r, Held).err = OK
  BY <1>11, UpdateEnds
<1>8. e.status = OK => e.vault = Saved(V!Apply(r, Held).vault)
  BY <1>11, UpdateEnds
<1>9. e.status = OK <=> V!Accepted(r) /\ Decodable(vault) /\ ~(policy = "abort" /\ colliding # {})
  BY <1>4, <1>6, <1>7
<1>10. ASSUME e.status = OK
       PROVE  e.vault = SavedOver(named \ kept, entries)
  <2>1. Decodable(vault) /\ V!Apply(r, Held).vault = merged
    BY <1>4, <1>6, <1>9, <1>10
  <2>2. written \subseteq Names /\ \A n \in written : entries[n] \in Seq(Bytes)
    BY <1>0, <1>5, <2>1
  <2>3. Saved(merged) = SavedOver(written, entries)
    BY <2>1, <2>2, SavesOver DEF merged
  <2> QED
    BY <1>5, <1>8, <1>10, <2>1, <2>3
<1> QED
  BY <1>3, <1>5, <1>9, <1>10 DEF Taken

\* The entries of a request are those given.
LEMMA EntriesGiven ==
  ASSUME NEW c, NEW p, ToSet(p.entries) = Given(c), KeysDiffer(Given(c)),
         Given(c) \subseteq [key : Names, value : Seq(Bytes)],
         NEW entries, entries = [n \in Names |-> EntryOf(p, n)]
  PROVE  /\ {n \in Names : entries[n] # Absent} = {e.key : e \in Given(c)}
         /\ \A e \in Given(c) : e.key \in Names /\ e.value \in Seq(Bytes) /\ entries[e.key] = e.value
<1>1. \A n : Seen(p, n) <=> \E e \in Given(c) : e.key = n
  BY DEF Seen, ToSet
<1>2. ASSUME NEW e \in Given(c)
      PROVE  e.key \in Names /\ e.value \in Seq(Bytes) /\ entries[e.key] = e.value
  <2>1. PICK k : k = e.key
    OBVIOUS
  <2>2. k \in Names /\ e.value \in Seq(Bytes) /\ Seen(p, k)
    BY <1>1, <2>1
  <2>3. PICK f : f = CHOOSE g \in Given(c) : g.key = k
    OBVIOUS
  <2>4. f \in Given(c) /\ f.key = k
    BY <2>1, <2>3
  <2>5. f = e
    BY <2>1, <2>4 DEF KeysDiffer
  <2>6. EntryOf(p, k) = f.value
    BY <2>2, <2>3 DEF EntryOf
  <2> QED
    BY <2>1, <2>2, <2>5, <2>6
<1>3. ASSUME NEW n \in Names, entries[n] # Absent PROVE \E e \in Given(c) : e.key = n
  BY <1>1, <1>3 DEF EntryOf
<1>4. \A e \in Given(c) : entries[e.key] # Absent
  BY <1>2, MarksAssumption
<1> QED
  BY <1>2, <1>3, <1>4

\* What a writing command makes of the vault, old, when it leaves new: what it was
\* given is there, under names not kept, and the rest as it was.
Stores(old, new, given, kept) ==
  LET named == {e.key : e \in given}
  IN  /\ old # Unreadable
      /\ Found(new) = Found(old) \union named
      /\ \A e \in given : e.key \notin kept => Kept(new[e.key], e.value)
      /\ \A n \in Found(old) : n \notin named \ kept => new[n] = old[n]

\* When an import is accepted.
Verdict(c) ==
  /\ vault # Unreadable /\ InOrder(c) /\ Given(c) # {}
  /\ \A e \in Given(c) : CheckKey(e.key) /\ CheckValue(e.value)
  /\ Policies(c) # {} \/ {e.key : e \in Given(c)} \intersect Found(vault) = {}
  /\ Cardinality(Policies(c)) < 2 /\ Known(c.args, ImportFlags)
  /\ Len(Asked(c.args)) = IF <<"--stdin">> \in ToSet(Flagged(c.args)) THEN 0 ELSE 1

\* There are two policies or fewer.
LEMMA PoliciesCount ==
  ASSUME NEW c
  PROVE  Cardinality(Policies(c)) < 2 <=> ~(<<"--overwrite">> \in Policies(c) /\ <<"--skip-existing">> \in Policies(c))
<1> DEFINE a == <<"--overwrite">>
           b == <<"--skip-existing">>
<1>1. a # b
  OBVIOUS
<1> HIDE DEF a, b
<1>2. Policies(c) \in {{}, {a}, {b}, {a, b}}
  BY DEF Policies, a, b
<1>3. Cardinality({}) = 0 /\ IsFiniteSet({})
  BY FS_EmptySet
<1>4. \A x : Cardinality({x}) = 1 /\ IsFiniteSet({x})
  BY FS_Singleton
<1>5. Cardinality({a, b}) = 2
  <2>1. {a} \union {b} = {a, b}
    OBVIOUS
  <2>2. Cardinality({a} \union {b}) = Cardinality({a}) + 1
    BY <1>1, <1>4, FS_AddElement
  <2>3. Cardinality({a}) = 1
    BY <1>4
  <2>4. Cardinality({a} \union {b}) = 2
    BY <2>2, <2>3
  <2> QED
    BY <2>1, <2>4
<1>6. CASE Policies(c) = {}
  BY <1>3, <1>6
<1>7. CASE \E x \in {a, b} : Policies(c) = {x}
  <2>1. PICK x \in {a, b} : Policies(c) = {x}
    BY <1>7
  <2>2. Cardinality(Policies(c)) = 1
    BY <1>4, <2>1
  <2> QED
    BY <1>1, <2>1, <2>2 DEF a, b
<1>8. CASE Policies(c) = {a, b}
  <2>1. Cardinality(Policies(c)) = 2
    BY <1>5, <1>8
  <2> QED
    BY <1>8, <2>1 DEF a, b
<1> QED
  BY <1>2, <1>6, <1>7, <1>8

\* What becomes of the arguments of import.
LEMMA ImportArgs ==
  ASSUME NEW c \in Invocations["import"], ~Helped(c), NEW p, p = ParseFlags(c.args, ImportFlags)
  PROVE  /\ p.stop = "no" <=> Known(c.args, ImportFlags)
         /\ p.stop # "no" => Import(c).status = Generic
         /\ p.stop = "no" => /\ p.rest = Asked(c.args)
                             /\ \A f \in ImportFlags : f \in p.flags <=> f \in ToSet(Flagged(c.args))
<1>1. IsText(c.args)
  BY TextsAssumption DEF Verbs
<1>2. ImportFlags \subseteq FlagLike
  BY DEF ImportFlags, FlagLike
<1>3. <<"-h">> \notin ToSet(Flagged(c.args))
  BY DEF Helped
<1>4. /\ p.stop = "no" <=> <<"-h">> \notin ToSet(Flagged(c.args)) /\ Known(c.args, ImportFlags)
      /\ p.stop = "help" => <<"-h">> \in ToSet(Flagged(c.args))
      /\ p.stop = "no" => p.flags = ToSet(Flagged(c.args)) \intersect ImportFlags /\ p.rest = Asked(c.args)
  BY <1>1, <1>2, FlagsAnywhere
<1>5. p.stop # "no" => Import(c).status = Generic
  BY <1>3, <1>4 DEF Import, Stopped, Failed, Effect
<1> QED
  BY <1>3, <1>4, <1>5

\* An import does what its arguments and its input say, or nothing.
LEMMA ImportIs ==
  ASSUME VaultInv, NEW c \in Invocations["import"], ~Helped(c), NEW e, e = Import(c)
  PROVE  /\ e.status = OK <=> Verdict(c)
         /\ e.status = OK => Stores(vault, e.vault, Given(c),
                                    IF <<"--overwrite">> \in Policies(c) THEN {} ELSE Found(vault))
<1> DEFINE p == ParseFlags(c.args, ImportFlags)
           parsed == IF <<"--null">> \in ToSet(Flagged(c.args)) THEN ParseNullRecords(c.input) ELSE ParseDotenv(c.input)
           policy == IF <<"--overwrite">> \in Policies(c) THEN "overwrite"
                     ELSE IF <<"--skip-existing">> \in Policies(c) THEN "skip" ELSE "abort"
           entries == [n \in Names |-> EntryOf(parsed, n)]
           r == [verb |-> "import", policy |-> policy, entries |-> entries]
           G == Given(c)
           named == {f.key : f \in G}
           both == <<"--overwrite">> \in Policies(c) /\ <<"--skip-existing">> \in Policies(c)
           sources == Len(Asked(c.args)) = IF <<"--stdin">> \in ToSet(Flagged(c.args)) THEN 0 ELSE 1
           kept == IF policy = "skip" THEN Found(vault) ELSE {}
<1>1. Generic # OK
  BY DEF Generic, OK
<1>2. CASE ~Known(c.args, ImportFlags)
  <2>1. e.status = Generic
    BY <1>2, ImportArgs
  <2> QED
    BY <1>1, <1>2, <2>1 DEF Verdict
<1>3. CASE Known(c.args, ImportFlags)
  <2>1. /\ p.stop = "no" /\ p.rest = Asked(c.args)
        /\ \A f \in ImportFlags : f \in p.flags <=> f \in ToSet(Flagged(c.args))
    BY <1>3, ImportArgs
  <2>2. /\ Has(p, "--null") <=> <<"--null">> \in ToSet(Flagged(c.args))
        /\ Has(p, "--stdin") <=> <<"--stdin">> \in ToSet(Flagged(c.args))
        /\ Has(p, "--overwrite") <=> <<"--overwrite">> \in Policies(c)
        /\ Has(p, "--skip-existing") <=> <<"--skip-existing">> \in Policies(c)
    BY <2>1 DEF Has, ImportFlags, Policies
  <2>3. e = IF both \/ ~sources \/ ~parsed.ok THEN Failed(Generic) ELSE Update(r)
    <3> HIDE DEF p
    <3>1. Import(c) = IF p.stop # "no" THEN Failed(Stopped(p))
                      ELSE IF \/ Has(p, "--overwrite") /\ Has(p, "--skip-existing")
                              \/ Len(p.rest) # (IF Has(p, "--stdin") THEN 0 ELSE 1)
                              \/ ~(IF Has(p, "--null") THEN ParseNullRecords(c.input) ELSE ParseDotenv(c.input)).ok
                           THEN Failed(Generic)
                      ELSE Update([verb |-> "import",
                             policy |-> IF Has(p, "--overwrite") THEN "overwrite"
                                        ELSE IF Has(p, "--skip-existing") THEN "skip" ELSE "abort",
                             entries |-> [n \in Names |->
                               EntryOf(IF Has(p, "--null") THEN ParseNullRecords(c.input) ELSE ParseDotenv(c.input), n)]])
      BY DEF Import, p
    <3> QED
      BY <2>1, <2>2, <3>1
  <2>4. /\ parsed.ok <=> InOrder(c) /\ \A f \in G : CheckKey(f.key)
        /\ parsed.ok => ToSet(parsed.entries) = G /\ KeysDiffer(G)
        /\ G \subseteq [key : Names, value : Seq(Bytes)]
    BY ImportReads
  <2>5. Cardinality(Policies(c)) < 2 <=> ~both
    BY PoliciesCount
  <2>6. Policies(c) # {} <=> policy # "abort"
    BY DEF Policies
  <2> HIDE DEF p, parsed, policy
  <2>7. CASE both \/ ~sources \/ ~parsed.ok
    <3>1. e.status = Generic
      BY <2>3, <2>7 DEF Failed, Effect
    <3> QED
      BY <1>1, <2>4, <2>5, <2>7, <3>1 DEF Verdict
  <2>8. CASE ~both /\ sources /\ parsed.ok
    <3>1. e = Update(r)
      BY <2>3, <2>8
    <3>2. /\ {n \in Names : entries[n] # Absent} = named
          /\ \A f \in G : f.key \in Names /\ f.value \in Seq(Bytes) /\ entries[f.key] = f.value
      BY <2>4, <2>8, EntriesGiven
    <3> HIDE DEF entries
    <3>3. named \subseteq Names /\ \A n \in named : entries[n] \in Seq(Bytes)
      BY <3>2
    <3>4. policy \in {"abort", "overwrite", "skip"}
      BY DEF policy
    <3>5. /\ e.status = OK <=> /\ Decodable(vault) /\ named # {}
                               /\ \A n \in named : CheckKey(n) /\ CheckValue(entries[n])
                               /\ policy = "abort" => named \intersect Found(vault) = {}
          /\ e.status = OK => e.vault = SavedOver(named \ kept, entries)
      <4> HIDE DEF named, kept
      <4>1. kept = KeptUnder(policy)
        BY DEF kept, KeptUnder
      <4> QED
        <5>1. named = NamesIn(entries)
          BY <3>2 DEF NamesIn
        <5>2. e = Update(ImportRequest(entries, policy))
          BY <3>1 DEF ImportRequest
        <5> HIDE DEF r
        <5> QED
          <6>1. Taken(e, policy, entries, named)
            BY <3>3, <3>4, <4>1, <5>1, <5>2, ImportEnds
          <6>2. e.status = OK => e.vault = SavedOver(named \ kept, entries)
            BY <3>3, <3>4, <4>1, <5>1, <5>2, ImportEnds
          <6> QED
            BY <6>1, <6>2 DEF Taken
    <3>6. e.status = OK <=> Verdict(c)
      <4>1. \A f \in G : CheckKey(f.key) /\ CheckValue(f.value) <=> CheckKey(f.key) /\ CheckValue(entries[f.key])
        BY <3>2
      <4>2. (\A n \in named : CheckKey(n) /\ CheckValue(entries[n]))
              <=> \A f \in G : CheckKey(f.key) /\ CheckValue(f.value)
        BY <4>1
      <4>3. named # {} <=> G # {}
        OBVIOUS
      <4>4. Verdict(c) <=> /\ Decodable(vault) /\ G # {}
                           /\ \A f \in G : CheckKey(f.key) /\ CheckValue(f.value)
                           /\ policy = "abort" => named \intersect Found(vault) = {}
        BY <1>3, <2>4, <2>5, <2>6, <2>8 DEF Verdict, Decodable
      <4> QED
        BY <3>5, <4>2, <4>3, <4>4
    <3>7. ASSUME e.status = OK
          PROVE  Stores(vault, e.vault, G, IF <<"--overwrite">> \in Policies(c) THEN {} ELSE Found(vault))
      <4>1. PICK W, new, K : /\ W = named \ kept /\ new = e.vault
                             /\ K = IF <<"--overwrite">> \in Policies(c) THEN {} ELSE Found(vault)
        OBVIOUS
      <4>2. Decodable(vault) /\ new = SavedOver(W, entries)
        BY <3>5, <3>7, <4>1
      <4>3. W \subseteq Names /\ \A n \in W : entries[n] \in Seq(Bytes)
        BY <3>3, <4>1
      <4>4. /\ Found(new) = Found(vault) \union W
            /\ \A n \in W : Kept(new[n], entries[n])
            /\ \A n \in Found(vault) : n \notin W => new[n] = vault[n]
        <5> HIDE DEF named, kept, r
        <5>1. Found(new) = Found(vault) \union W
          BY <4>2, <4>3, WritesOver
        <5>2. \A n \in W : Kept(new[n], entries[n])
          BY <4>2, <4>3, WritesOver
        <5>3. Untouched(new, W)
          BY <4>2, <4>3, WritesOver
        <5> QED
          BY <5>1, <5>2, <5>3 DEF Untouched
      <4>5. named \ K = W /\ Found(vault) \union W = Found(vault) \union named
        <5>1. policy = "abort" => named \intersect Found(vault) = {}
          BY <3>5, <3>7
        <5>2. CASE policy = "overwrite"
          BY <4>1, <5>2 DEF policy
        <5>3. CASE policy = "skip"
          BY <4>1, <5>3 DEF policy
        <5>4. CASE policy = "abort"
          BY <4>1, <5>1, <5>4 DEF policy
        <5> QED
          BY <3>4, <5>2, <5>3, <5>4
      <4>6. \A f \in G : f.key \notin K => Kept(new[f.key], f.value)
        BY <3>2, <4>4, <4>5
      <4>7. \A n \in Found(vault) : n \notin named \ K => new[n] = vault[n]
        BY <4>4, <4>5
      <4> QED
        BY <4>1, <4>2, <4>4, <4>5, <4>6, <4>7 DEF Stores, Decodable
    <3> QED
      BY <3>6, <3>7
  <2> QED
    BY <2>7, <2>8
<1> QED
  BY <1>2, <1>3

\* What is stored by set is there afterwards, and nothing else changes.
LEMMA SetEnds ==
  ASSUME VaultInv, NEW k, NEW s, NEW e, e = Update([verb |-> "set", key |-> k, secret |-> s]), e.status = OK
  PROVE  Stores(vault, e.vault, {[key |-> k, value |-> s]}, {})
<1> DEFINE r == [verb |-> "set", key |-> k, secret |-> s]
           put == [Held EXCEPT ![k] = s]
           new == [Held EXCEPT ![k] = Encode(s)]
           G == {[key |-> k, value |-> s]}
           named == {f.key : f \in G}
<1>1. Decodable(vault) /\ V!Accepted(r) /\ V!Apply(r, Held).err = OK /\ e.vault = Saved(V!Apply(r, Held).vault)
  BY UpdateEnds
<1>2. V!CheckKey(k) /\ V!CheckValue(s)
  BY <1>1 DEF V!Accepted
<1>3. k \in Names /\ s \in Seq(Bytes)
  BY <1>2 DEF V!CheckKey, V!CheckValue
<1>4. e.vault = new
  <2>1. V!Apply(r, Held) = V!Set(Held, k, s)
    BY DEF V!Apply
  <2>2. V!Apply(r, Held) = [err |-> V!OK, vault |-> put]
    BY <1>2, <2>1 DEF V!Set, V!Mutated
  <2>3. s # Absent
    BY <1>3, MarksAssumption
  <2>4. Saved(put) = new
    BY <1>1, <1>3, <2>3, SavedHeld
  <2> HIDE DEF put, new, r
  <2> QED
    BY <1>1, <2>2, <2>4
<1>5. Encode(s) \in Seq(Bytes) /\ Kept(Encode(s), s)
  BY <1>3, EncodeOnce DEF Kept
<1>6. new \in V!Vaults /\ Found(new) = Found(vault) \union {k}
  <2>1. Held \in V!Vaults /\ Found(vault) = {n \in Names : Held[n] # Absent}
    BY <1>1, HeldVault
  <2>2. new \in V!Vaults
    BY <1>5, <2>1 DEF V!Vaults
  <2>3. Found(new) = {n \in Names : new[n] # Absent}
    BY <2>2, MarksAssumption DEF Found
  <2>4. DOMAIN Held = Names /\ Encode(s) # Absent
    BY <1>5, <2>1, MarksAssumption DEF V!Vaults
  <2>5. \A n \in Names : new[n] = IF n = k THEN Encode(s) ELSE Held[n]
    BY <2>4
  <2> HIDE DEF new
  <2> QED
    BY <1>3, <2>1, <2>2, <2>3, <2>4, <2>5
<1>7. new[k] = Encode(s) /\ \A n \in Found(vault) : n # k => new[n] = vault[n]
  BY <1>1, <1>3, HeldVault DEF V!Vaults
<1>8. named = {k} /\ \A f \in G : f.key = k /\ f.value = s
  OBVIOUS
<1> HIDE DEF new, G
<1>9. Stores(vault, new, G, {})
  BY <1>1, <1>5, <1>6, <1>7, <1>8 DEF Stores, Decodable
<1> QED
  BY <1>4, <1>9 DEF G

\* A set that succeeds stores its input under the name asked for.
LEMMA SetIs ==
  ASSUME VaultInv, NEW c \in Invocations["set"], ~Helped(c), NEW e, e = Set(c), e.status = OK
  PROVE  Stores(vault, e.vault, {[key |-> Asked(c.args)[1], value |-> c.input]}, {})
<1> DEFINE known == {<<"--stdin">>}
           p == ParseFlags(c.args, known)
           k == p.rest[1]
<1>1. IsText(c.args)
  BY TextsAssumption DEF Verbs
<1>2. known \subseteq FlagLike
  BY DEF FlagLike
<1> HIDE DEF known
<1>3. p.stop = "no" => p.rest = Asked(c.args)
  BY <1>1, <1>2, FlagsAnywhere
<1>4. p.stop = "help" => <<"-h">> \in ToSet(Flagged(c.args))
  BY <1>1, <1>2, FlagsAnywhere
<1>5. p.stop # "help"
  BY <1>4 DEF Helped
<1>6. Generic # OK
  BY DEF Generic, OK
<1> HIDE DEF p
<1>7. Set(c) = IF p.stop # "no" THEN Failed(Stopped(p))
               ELSE IF Len(p.rest) # 1 \/ ~(Has(p, "--stdin") \/ c.tty) THEN Failed(Generic)
               ELSE Update([verb |-> "set", key |-> k, secret |-> c.input])
  BY DEF Set, p, known
<1>8. p.stop = "no" /\ e = Update([verb |-> "set", key |-> k, secret |-> c.input])
  BY <1>5, <1>6, <1>7 DEF Stopped, Failed, Effect
<1>9. Stores(vault, e.vault, {[key |-> k, value |-> c.input]}, {})
  BY <1>8, SetEnds
<1> QED
  BY <1>3, <1>8, <1>9

\* Commands given the same are given the same.
LEMMA GivenSame ==
  ASSUME NEW c, NEW d, d.args = c.args, d.input = c.input, d.records = c.records
  PROVE  /\ Given(d) = Given(c) /\ Policies(d) = Policies(c)
         /\ InOrder(d) <=> InOrder(c)
         /\ Helped(d) <=> Helped(c)
BY DEF Given, Policies, InOrder, Helped

\* Every step of a session stores what is meant.
LEMMA StoresAsMeant == ASSUME VaultInv, [Next]_vars PROVE [StoredAsMeantStep]_vars
<1> DEFINE Writes(c) == Stores(vault, vault', IF c.verb = "set" THEN {[key |-> Asked(c.args)[1], value |-> c.input]}
                                              ELSE Given(c),
                               IF c.verb = "set" \/ <<"--overwrite">> \in Policies(c) THEN {} ELSE Found(vault))
<1>1. SUFFICES ASSUME NEW verb \in {"set", "import"}, NEW c \in Invocations[verb],
                      LastIs(verb, c, Perform(verb, c)), last'.status = OK, ~Helped(last')
               PROVE  Writes(last')
  <2>1. CASE UNCHANGED vars
    BY <2>1
  <2>2. CASE vault' = vault /\ last'.verb = "run"
    BY <2>2 DEF StoredAsMeantStep
  <2>3. ASSUME NEW verb \in Verbs \ {"run"}, NEW c \in Invocations[verb], LastIs(verb, c, Perform(verb, c))
        PROVE  StoredAsMeantStep
    <3>1. last'.verb = verb
      BY <2>3 DEF LastIs
    <3>2. ASSUME last'.verb \in {"set", "import"}, last'.status = OK, ~Helped(last') PROVE Writes(last')
      BY <1>1, <2>3, <3>1, <3>2
    <3> QED
      BY <3>2, Zenon DEF StoredAsMeantStep, Stores
  <2> QED
    BY <2>1, <2>2, <2>3, LastGiven
<1>2. PICK e, d : e = Perform(verb, c) /\ d = last'
  OBVIOUS
<1>3. /\ d.verb = verb /\ d.args = c.args /\ d.input = c.input /\ d.records = c.records
      /\ d.status = e.status /\ vault' = e.vault
  BY <1>1, <1>2 DEF LastIs
<1>4. ~Helped(c) /\ Given(d) = Given(c) /\ Policies(d) = Policies(c)
  BY <1>1, <1>2, <1>3, GivenSame
<1>5. CASE verb = "set"
  <2>1. e = Set(c)
    BY <1>2, <1>5 DEF Perform
  <2>2. Stores(vault, e.vault, {[key |-> Asked(c.args)[1], value |-> c.input]}, {})
    BY <1>1, <1>2, <1>3, <1>4, <1>5, <2>1, SetIs
  <2> QED
    BY <1>2, <1>3, <1>5, <2>2
<1>6. CASE verb = "import"
  <2>1. e = Import(c)
    BY <1>2, <1>6 DEF Perform
  <2>2. Stores(vault, e.vault, Given(c), IF <<"--overwrite">> \in Policies(c) THEN {} ELSE Found(vault))
    BY <1>1, <1>2, <1>3, <1>4, <1>6, <2>1, ImportIs
  <2> QED
    BY <1>2, <1>3, <1>4, <1>6, <2>2
<1> QED
  BY <1>5, <1>6

\* Every step of a session that imports is judged by its input.
LEMMA VerdictGiven == ASSUME VaultInv, [Next]_vars PROVE [ImportVerdictStep]_vars
<1>1. SUFFICES ASSUME NEW c \in Invocations["import"], LastIs("import", c, Perform("import", c)), ~Helped(last')
               PROVE  last'.status = OK <=> Verdict(last')
  <2>1. CASE UNCHANGED vars
    BY <2>1
  <2>2. CASE vault' = vault /\ last'.verb = "run"
    BY <2>2 DEF ImportVerdictStep
  <2>3. ASSUME NEW verb \in Verbs \ {"run"}, NEW c \in Invocations[verb], LastIs(verb, c, Perform(verb, c))
        PROVE  ImportVerdictStep
    <3>1. last'.verb = verb
      BY <2>3 DEF LastIs
    <3>2. ASSUME last'.verb = "import", ~Helped(last') PROVE last'.status = OK <=> Verdict(last')
      BY <1>1, <2>3, <3>1, <3>2
    <3> QED
      BY <3>2, Zenon DEF ImportVerdictStep, Verdict
  <2> QED
    BY <2>1, <2>2, <2>3, LastGiven
<1>2. PICK e, d : e = Import(c) /\ d = last'
  OBVIOUS
<1>3. d.args = c.args /\ d.input = c.input /\ d.records = c.records /\ d.status = e.status
  BY <1>1, <1>2 DEF LastIs, Perform
<1>4. /\ ~Helped(c) /\ Given(d) = Given(c) /\ Policies(d) = Policies(c)
      /\ InOrder(d) <=> InOrder(c)
  BY <1>1, <1>2, <1>3, GivenSame
<1>5. e.status = OK <=> Verdict(c)
  BY <1>2, <1>4, ImportIs
<1>6. Verdict(d) <=> Verdict(c)
  BY <1>3, <1>4 DEF Verdict
<1> QED
  BY <1>2, <1>3, <1>5, <1>6

-----------------------------------------------------------------------------
(***************************************************************************)
(* A set or an import that succeeds leaves in the vault what it was given, *)
(* the whole of set's input, or what the lines or records of import mean,  *)
(* but for names it was to skip, and everything else as it was (set.go,    *)
(* 22; import.go, 18-21, 29 and 33-39).                                    *)
(***************************************************************************)
THEOREM GivenIsStored == Spec => StoredAsMeant
<1>1. VaultInv /\ [Next]_vars => [StoredAsMeantStep]_vars
  BY StoresAsMeant
<1> QED
  BY <1>1, VaultIsKept, PTL DEF Spec, StoredAsMeant

(***************************************************************************)
(* An import succeeds exactly when its input means one thing, with names   *)
(* and values that may be stored, its flags say what to do with names      *)
(* already there, and the vault can be read (import.go, 18-21 and 33-39).  *)
(***************************************************************************)
THEOREM ImportIsJudged == Spec => ImportVerdict
<1>1. VaultInv /\ [Next]_vars => [ImportVerdictStep]_vars
  BY VerdictGiven
<1> QED
  BY <1>1, VaultIsKept, PTL DEF Spec, ImportVerdict
=============================================================================
