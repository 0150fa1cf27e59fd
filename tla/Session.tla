------------------------------ MODULE Session ------------------------------
(***************************************************************************)
(* Commands given to kleidos one after the other, from their arguments and *)
(* what they read to what they print or hand to a child: dispatch of       *)
(* main.go, parseFlags of cmd/cmd.go, and the verbs of cmd around them.    *)
(* The verbs' work on the vault is that of Vault, with names and secrets   *)
(* that are texts; the store between them neither fails nor is shared      *)
(* here, which is VaultStore's subject.  copy is CopyHandoff's.            *)
(*                                                                         *)
(* A command is [args, input, records, tty]: the arguments after the verb, *)
(* the bytes of standard input, of the named file or typed at the prompt,  *)
(* the records those bytes stand for when a program wrote them, and        *)
(* whether there is a terminal.                                            *)
(***************************************************************************)
EXTENDS ImportFormats, OutputFormats, RunVerb, Errs

CONSTANTS
  SortedNames,    \* every text offered as a key name, in byte order
  Absent,         \* the mark of a name that holds nothing, and of no vault
  Unreadable,     \* a plaintext that is no vault of this version
  InitialVaults,  \* what a session may find, vaults of older versions included
  Invocations,    \* the commands of each verb
  Environments,   \* what a child would inherit
  MaxWrites       \* bound: commands in a row that may change the vault

Names == ToSet(SortedNames)
\* A flag is one byte here, because no verb looks into one; -0 may be asked for
\* as a name too.
Bytes == Upper \union Digits \union Blanks \union Quotes \union
         {"x", "=", ",", "#", "\\", "cr", "nl", "nul", "hi", "U+FFFD", "export", "-0"}

V == INSTANCE Vault WITH
       ValidNames <- {n \in Names : CheckKey(n)},
       Secrets <- Seq(Bytes),
       ValidSecrets <- {s \in Seq(Bytes) : CheckValue(s)}

\* No text and no vault is one of the marks, and a vault that is found was
\* decoded from JSON: its strings are valid UTF-8.
ASSUME MarksAssumption ==
  /\ Absent \notin Seq(Bytes) /\ Absent # Unreadable
  /\ Absent \notin V!Vaults /\ Unreadable \notin V!Vaults
ASSUME InitialVaultsAssumption ==
  \A v \in InitialVaults \ {Absent, Unreadable} :
    v \in V!Vaults /\ \A n \in Names : v[n] # Absent => ~Occurs("hi", v[n])

\* What the program is given are texts: the operating system has no other.
Verbs == {"set", "import", "delete", "rename", "get", "reveal", "has", "list", "export", "usage", "run"}
ASSUME TextsAssumption ==
  /\ IsText(SortedNames) /\ Names \subseteq Seq(Bytes)
  /\ \A verb \in Verbs : \A c \in Invocations[verb] : IsText(c.args) /\ c.input \in Seq(Bytes)
  /\ \A c \in Invocations["run"] : \A a \in ToSet(c.args) : IsText(a)
  /\ Environments \subseteq Seq(Seq(Bytes))

ASSUME MaxWritesAssumption == MaxWrites \in Nat

VARIABLES
  vault,   \* the plaintext of the vault, Unreadable or Absent
  last,    \* the last command and how it ended
  writes   \* commands so far that may have changed the vault

vars == <<vault, last, writes>>

Nothing == [verb |-> "none", args |-> <<>>, input |-> <<>>, records |-> <<>>, status |-> OK,
            out |-> <<>>, inherited |-> <<>>, started |-> FALSE, env |-> <<>>]

Init == vault \in InitialVaults /\ last = Nothing /\ writes = 0
-----------------------------------------------------------------------------
(***************************************************************************)
(* Arguments.                                                              *)
(***************************************************************************)
FlagLike == {<<f>> : f \in {"-0", "--stdin", "--null", "--overwrite", "--skip-existing",
                            "--names", "--force", "--bogus"}}

\* Mutant of ParseFlags: as the flag package does by itself, no flags are looked
\* for after the first key.
ParseFlagsFirst(args, known) ==
  LET end == SelectInSeq(args, LAMBDA a : a = <<"--">>)
      parsed == FoldLeft(LAMBDA p, a :
          IF p.stop # "no" THEN p
          ELSE IF p.rest = <<>> /\ a \in known THEN [p EXCEPT !.flags = @ \union {a}]
          ELSE IF p.rest = <<>> /\ a = <<"-h">> THEN [p EXCEPT !.stop = "help"]
          ELSE IF p.rest = <<>> /\ a \in FlagLike THEN [p EXCEPT !.stop = "error"]
          ELSE [p EXCEPT !.rest = Append(@, a)],
        [stop |-> "no", flags |-> {}, rest |-> <<>>],
        IF end = 0 THEN args ELSE Before(end, args))
  IN  IF end = 0 THEN parsed ELSE [parsed EXCEPT !.rest = @ \o After(end, args)]

\* Flags and positional arguments in any order up to a "--", which makes all
\* that follow positional.
ParseFlags(args, known) ==
  LET end == SelectInSeq(args, LAMBDA a : a = <<"--">>)
      parsed == FoldLeft(LAMBDA p, a :
          IF p.stop # "no" THEN p
          ELSE IF a \in known THEN [p EXCEPT !.flags = @ \union {a}]
          ELSE IF a = <<"-h">> THEN [p EXCEPT !.stop = "help"]
          ELSE IF a \in FlagLike THEN [p EXCEPT !.stop = "error"]
          ELSE [p EXCEPT !.rest = Append(@, a)],
        [stop |-> "no", flags |-> {}, rest |-> <<>>],
        IF end = 0 THEN args ELSE Before(end, args))
  IN  IF end = 0 THEN parsed ELSE [parsed EXCEPT !.rest = @ \o After(end, args)]

Has(p, flag) == <<flag>> \in p.flags

\* How dispatch ends a verb whose arguments do not get past the parser.
Stopped(p) == IF p.stop = "help" THEN OK ELSE Generic
-----------------------------------------------------------------------------
(***************************************************************************)
(* What a command does: its status, the vault it leaves, what it prints.   *)
(***************************************************************************)
Effect(status, v, out) == [status |-> status, vault |-> v, out |-> out]
Failed(status) == Effect(status, vault, <<>>)
Printed(out) == Effect(OK, vault, out)

\* Decode refuses, rather than guesses at, what is not JSON, what another
\* version of kleidos wrote, and what has no fingerprint key.
Decodable(v) == v # Unreadable

\* Store.Update: the vault is encoded when it is saved.
Update(request) ==
  LET m == V!Apply(request, IF vault = Absent THEN V!New ELSE vault)
  IN  IF ~V!Accepted(request) \/ ~Decodable(vault) THEN Failed(Generic)
      ELSE IF m.err # OK THEN Failed(m.err)
      ELSE Effect(OK, [n \in Names |-> IF m.vault[n] = Absent THEN Absent
                                                               ELSE Encode(m.vault[n])], <<>>)

\* Mutant of Set: a newline at the end of the input is not part of the value.
SetTrimming(c) ==
  LET p == ParseFlags(c.args, {<<"--stdin">>})
  IN  IF p.stop # "no" THEN Failed(Stopped(p))
      ELSE IF Len(p.rest) # 1 \/ ~(Has(p, "--stdin") \/ c.tty) THEN Failed(Generic)
      ELSE Update([verb |-> "set", key |-> p.rest[1], secret |-> TrimSuffix("nl", c.input)])

\* The value is all of the input, or a line typed at the terminal.
Set(c) ==
  LET p == ParseFlags(c.args, {<<"--stdin">>})
  IN  IF p.stop # "no" THEN Failed(Stopped(p))
      ELSE IF Len(p.rest) # 1 \/ ~(Has(p, "--stdin") \/ c.tty) THEN Failed(Generic)
      ELSE Update([verb |-> "set", key |-> p.rest[1], secret |-> c.input])

ImportFlags == {<<"--stdin">>, <<"--null">>, <<"--overwrite">>, <<"--skip-existing">>}

EntryOf(parsed, n) ==
  IF Seen(parsed, n)
  THEN (CHOOSE e \in ToSet(parsed.entries) : e.key = n).value
  ELSE Absent

Import(c) ==
  LET p == ParseFlags(c.args, ImportFlags)
      parsed == IF Has(p, "--null") THEN ParseNullRecords(c.input) ELSE ParseDotenv(c.input)
      policy == IF Has(p, "--overwrite") THEN "overwrite"
                ELSE IF Has(p, "--skip-existing") THEN "skip" ELSE "abort"
  IN  IF p.stop # "no" THEN Failed(Stopped(p))
      ELSE IF \/ Has(p, "--overwrite") /\ Has(p, "--skip-existing")
              \/ Len(p.rest) # (IF Has(p, "--stdin") THEN 0 ELSE 1)
              \/ ~parsed.ok
           THEN Failed(Generic)
      ELSE Update([verb |-> "import", policy |-> policy,
                   entries |-> [n \in Names |-> EntryOf(parsed, n)]])

Delete(c) ==
  LET p == ParseFlags(c.args, {})
  IN  IF p.stop # "no" THEN Failed(Stopped(p))
      ELSE IF Len(p.rest) # 1 THEN Failed(Generic)
      ELSE Update([verb |-> "delete", key |-> p.rest[1]])

Rename(c) ==
  LET p == ParseFlags(c.args, {<<"--force">>})
  IN  IF p.stop # "no" THEN Failed(Stopped(p))
      ELSE IF Len(p.rest) # 2 THEN Failed(Generic)
      ELSE Update([verb |-> "rename", old |-> p.rest[1], new |-> p.rest[2],
                   force |-> Has(p, "--force")])
-----------------------------------------------------------------------------
\* Store.Load, for the verbs that read: the status it ends with.
Load == IF vault = Absent THEN VaultNotFound ELSE IF Decodable(vault) THEN OK ELSE Generic

\* lookup: the status of a read of required keys.
Lookup(keys) ==
  IF Load # OK THEN Load
  ELSE V!LookupSome([required |-> ToSet(keys), optional |-> {}], vault)

Holding == {n \in Names : V!Has(vault, n)}
Stored == IF Load # OK THEN <<>> ELSE Keep(SortedNames, Holding)

Get(c) ==
  LET p == ParseFlags(c.args, {})
  IN  IF p.stop # "no" THEN Failed(Stopped(p))
      ELSE IF p.rest = <<>> THEN Failed(Generic)
      ELSE IF ~c.tty THEN Failed(NoTerminal)
      ELSE IF Lookup(p.rest) # OK THEN Failed(Lookup(p.rest))
      ELSE Printed(Emit(p.rest, vault))

Reveal(c) ==
  LET p == ParseFlags(c.args, {<<"-0">>})
  IN  IF p.stop # "no" THEN Failed(Stopped(p))
      ELSE IF p.rest = <<>> THEN Failed(Generic)
      ELSE IF Lookup(p.rest) # OK THEN Failed(Lookup(p.rest))
      ELSE Printed(IF Has(p, "-0") THEN EmitNUL(p.rest, vault) ELSE Emit(p.rest, vault))

HasKeys(c) ==
  LET p == ParseFlags(c.args, {})
  IN  IF p.stop # "no" THEN Failed(Stopped(p))
      ELSE IF p.rest = <<>> \/ (\E i \in DOMAIN p.rest : ~CheckKey(p.rest[i])) THEN Failed(Generic)
      ELSE Failed(Lookup(p.rest))

\* The table shows the same names, with times and fingerprints.
List(c) ==
  LET p == ParseFlags(c.args, {<<"--names">>})
  IN  IF p.stop # "no" THEN Failed(Stopped(p))
      ELSE IF p.rest # <<>> THEN Failed(Generic)
      ELSE IF Load # OK THEN Failed(Load)
      ELSE Printed(FlattenSeq([i \in DOMAIN Stored |-> Stored[i] \o <<"nl">>]))

ExportAll(c) ==
  LET p == ParseFlags(c.args, {})
      printed == Export(Stored, vault)
  IN  IF p.stop # "no" THEN Failed(Stopped(p))
      ELSE IF p.rest # <<>> THEN Failed(Generic)
      ELSE IF Load # OK THEN Failed(Load)
      ELSE Effect(IF printed.ok THEN OK ELSE Generic, vault, printed.out)

\* Mutant of Usage: the status that many programs have for wrong usage.
UsageTwo(c) == Failed(IF c.args = <<<<"help">>>> THEN OK ELSE 2)

\* No verb, help, or one that does not exist.
Usage(c) == Failed(IF c.args = <<<<"help">>>> THEN OK ELSE Generic)
-----------------------------------------------------------------------------
(***************************************************************************)
(* run ends as one of these: an error of its own, or the child, whose      *)
(* status is then the child's affair.                                      *)
(***************************************************************************)
\* Mutant of ChildValues: what is stored is taken to be usable.
ChildValuesUnchecked(keys) == TRUE

\* childEnv refuses what no write would store today.
ChildValues(keys) == \A i \in DOMAIN keys : CheckValue(vault[keys[i]])

\* exec is what becomes of the command: LookPath is denied it or misses it, or
\* execve returns an error, or it runs.
RunOf(args, inherited, exec) ==
  LET end == SelectInSeq(args, LAMBDA a : a = <<"--">>)
      flags == RunFlags(Before(end, args))
      keys == Keys(flags.only) \o Keep(Keys(flags.optional), Holding)
      own(status) == [status |-> status, started |-> FALSE, env |-> <<>>]
  IN  IF end = 0 \/ end = Len(args) THEN own(Generic)
      ELSE IF flags.stop = "help" THEN own(OK)
      ELSE IF ~RunnableFlags(flags) THEN own(Generic)
      ELSE IF Lookup(Keys(flags.only)) # OK THEN own(Lookup(Keys(flags.only)))
      ELSE IF ~ChildValues(keys) THEN own(Generic)
      ELSE CASE exec \in {"denied", "EACCES"} -> own(NotExecutable)
             [] exec \in {"missing", "ENOENT"} -> own(NotFound)
             [] exec = "E2BIG" -> own(Generic)
             [] exec = "ok" -> [status |-> OK, started |-> TRUE,
                                env |-> Overlay(Environ(inherited), keys, vault)]
-----------------------------------------------------------------------------
(***************************************************************************)
(* Commands are given at the start and after one that changed the vault:   *)
(* after any other the vault is what it was.                               *)
(***************************************************************************)
Writers == {"set", "import", "delete", "rename"}
Prompting == last.verb = "none" \/ (last.verb \in Writers /\ last.status = OK)

\* The switch of dispatch.
Perform(verb, c) ==
  CASE verb = "set" -> Set(c) [] verb = "import" -> Import(c)
    [] verb = "delete" -> Delete(c) [] verb = "rename" -> Rename(c)
    [] verb = "get" -> Get(c) [] verb = "reveal" -> Reveal(c)
    [] verb = "has" -> HasKeys(c) [] verb = "list" -> List(c)
    [] verb = "export" -> ExportAll(c) [] verb = "usage" -> Usage(c)

Do(verb) ==
  /\ Prompting /\ (verb \in Writers => writes < MaxWrites)
  /\ \E c \in Invocations[verb] :
       LET e == Perform(verb, c) IN
       /\ vault' = e.vault
       /\ last' = [Nothing EXCEPT !.verb = verb, !.args = c.args, !.input = c.input,
                     !.records = c.records, !.status = e.status, !.out = e.out]
       /\ writes' = IF verb \in Writers THEN writes + 1 ELSE writes

DoRun ==
  /\ Prompting
  /\ \E c \in Invocations["run"], inherited \in Environments,
        exec \in {"ok", "denied", "missing", "EACCES", "ENOENT", "E2BIG"} :
       LET r == RunOf(c.args, inherited, exec) IN
       last' = [Nothing EXCEPT !.verb = "run", !.args = c.args, !.inherited = inherited,
                  !.status = r.status, !.started = r.started, !.env = r.env]
  /\ UNCHANGED <<vault, writes>>

Next ==
  \/ Do("set") \/ Do("import") \/ Do("delete") \/ Do("rename")
  \/ Do("get") \/ Do("reveal") \/ Do("has") \/ Do("list")
  \/ Do("export") \/ Do("usage") \/ DoRun

Spec == Init /\ [][Next]_vars
=============================================================================
