---------------------------- MODULE SessionProps ----------------------------
(***************************************************************************)
(* What a value must survive on its way from the input of one command of   *)
(* Session to the output of another, and what the inputs mean, defined     *)
(* without the parsers.                                                    *)
(***************************************************************************)
EXTENDS Session

\* Every variable holds a value of its kind, and no status is one that a child
\* of run might have returned.
TypeOK ==
  /\ vault \in [Names -> Seq(Bytes) \union {Absent}] \union {Absent, Unreadable}
  /\ writes \in 0..MaxWrites
  /\ last.status \in Statuses /\ last.out \in Seq(Bytes)
  /\ last.started \in BOOLEAN /\ last.env \in Seq(Seq(Bytes))

Found(v) == IF v \in {Absent, Unreadable} THEN {} ELSE {n \in Names : v[n] # Absent}

\* A value given is stored if these are its bytes, as far as JSON can hold them.
Kept(stored, given) == ~Occurs("hi", given) => stored = given
-----------------------------------------------------------------------------
(***************************************************************************)
(* What the arguments ask for: the positional ones are those that are no   *)
(* flag, wherever they stand, and all that follow the first "--".          *)
(***************************************************************************)
Ended(args) == SelectInSeq(args, LAMBDA a : a = <<"--">>)
Flagged(args) == IF Ended(args) = 0 THEN args ELSE Before(Ended(args), args)
Asked(args) ==
  Keep(Flagged(args), ToSet(args) \ FlagLike)
    \o (IF Ended(args) = 0 THEN <<>> ELSE After(Ended(args), args))
Known(args, flags) == ToSet(Flagged(args)) \intersect FlagLike \subseteq flags
Helped(c) == <<"-h">> \in ToSet(Flagged(c.args))
-----------------------------------------------------------------------------
(***************************************************************************)
(* What the inputs of import mean.                                         *)
(***************************************************************************)
\* A generator's output: each record ended by a NUL, the last one perhaps not.
Generated(records) ==
  FlattenSeq([i \in DOMAIN records |->
    records[i].key \o <<"=">> \o records[i].value \o <<"nul">>])

AllBlank(s) == ToSet(s) \subseteq Blanks

\* What may stand before the name: blanks, and export followed by a space.
Lead(s) ==
  \/ AllBlank(s)
  \/ \E i \in DOMAIN s : /\ s[i] = "export" /\ AllBlank(Before(i, s)) /\ AllBlank(After(i, s))
                         /\ i < Len(s) /\ s[i + 1] = " "

\* What may stand for a value: itself between quotes that it has none of, or
\* itself if nothing in it or at its ends could mean something else.
Spells(s, v) ==
  \/ /\ s = v /\ \A c \in Quotes \union {"#"} : ~Occurs(c, v)
     /\ v = <<>> \/ (Head(v) \notin Blanks /\ Last(v) \notin Blanks)
     /\ v = <<>> \/ Last(v) # "\\"
  \/ \E q \in Quotes : s = <<q>> \o v \o <<q>> /\ ~Occurs(q, v)

\* A line as it is in the file may end in one carriage return, and no other.
Denotes(raw, e) ==
  LET line == TrimSuffix("cr", raw) IN
  /\ ~Occurs("cr", line) /\ ~Occurs("nul", line) /\ Fits(raw)
  /\ \E i \in 1..Len(line), j \in 0..Len(line) - 1 :
       /\ j < i /\ Lead(SubSeq(line, 1, j))
       /\ SubSeq(line, j + 1, i - 1) = e.key /\ CheckKey(e.key)
       /\ line[i] = "=" /\ Spells(After(i, line), e.value)

Void(raw) ==
  LET line == TrimSuffix("cr", raw) IN
  /\ ~Occurs("cr", line) /\ ~Occurs("nul", line) /\ Fits(raw)
  /\ AllBlank(line) \/ \E i \in DOMAIN line : line[i] = "#" /\ AllBlank(Before(i, line))

\* The entries a line denotes: names and values are parts of the line.
Readings(raw) ==
  {e \in [key : {n \in Names : CheckKey(n)},
          value : UNION {{SubSeq(raw, i, j) : j \in i - 1..Len(raw)} : i \in 1..Len(raw)}] :
     Denotes(raw, e)}

Meaning(text) == UNION {Readings(l) : l \in ToSet(Split("nl", text))}
Readable(text) ==
  \A l \in ToSet(Split("nl", text)) : Void(l) \/ Readings(l) # {}
Repeats(text) ==
  LET lines == Split("nl", text) IN
  \E i, j \in DOMAIN lines : i < j /\ \E e \in Readings(lines[i]), f \in Readings(lines[j]) : e.key = f.key

\* Names holds every name an input of import assigns, and a program that writes
\* records has no other bytes in a name or value than the format has room for.
ASSUME OfferedAssumption ==
  \A c \in Invocations["import"] : \A i, j \in DOMAIN c.input :
    i < j /\ c.input[j] = "=" /\ CheckKey(SubSeq(c.input, i, j - 1)) => SubSeq(c.input, i, j - 1) \in Names
ASSUME RecordsAssumption ==
  \A c \in Invocations["import"] : <<"--null">> \in ToSet(Flagged(c.args)) =>
    /\ c.input \in {Generated(c.records), TrimSuffix("nul", Generated(c.records))}
    /\ c.records \in Seq([key : Names, value : Seq(Bytes)])
    /\ \A e \in ToSet(c.records) : ~Occurs("nul", e.key) /\ ~Occurs("=", e.key) /\ ~Occurs("nul", e.value)

\* The entries a command of import was given, and whether they are in order.
Given(c) == IF <<"--null">> \in ToSet(Flagged(c.args)) THEN ToSet(c.records) ELSE Meaning(c.input)
InOrder(c) ==
  IF <<"--null">> \in ToSet(Flagged(c.args))
  THEN Cardinality({e.key : e \in ToSet(c.records)}) = Len(c.records)
  ELSE Readable(c.input) /\ ~Repeats(c.input)
Policies(c) == ToSet(Flagged(c.args)) \intersect {<<"--overwrite">>, <<"--skip-existing">>}
-----------------------------------------------------------------------------
(***************************************************************************)
(* A value is stored as it was given: all of set's input, everything after *)
(* the first = of a record, and of a .env line what it spells, with the    *)
(* policy for names already there (set.go, 22: "verbatim"; dotenv.go, 26:  *)
(* "a silently mis-parsed value stored as a secret is discovered at the    *)
(* worst possible moment").  Bytes that are not UTF-8 are StoredExactly's. *)
(* A vault that this version cannot read is never written over (format.go, *)
(* 173: "refusing an unrecognized version rather than guessing").          *)
(***************************************************************************)
StoredAsMeantStep ==
  LET c == last'
      given == IF c.verb = "set" THEN {[key |-> Asked(c.args)[1], value |-> c.input]} ELSE Given(c)
      kept == IF c.verb = "set" \/ <<"--overwrite">> \in Policies(c) THEN {} ELSE Found(vault)
      named == {e.key : e \in given}
  IN  c.verb \in {"set", "import"} /\ c.status = OK /\ ~Helped(c) =>
        /\ vault # Unreadable
        /\ Found(vault') = Found(vault) \union named
        /\ \A e \in given : e.key \notin kept => Kept(vault'[e.key], e.value)
        /\ \A n \in Found(vault) : n \notin named \ kept => vault'[n] = vault[n]
StoredAsMeant == [][StoredAsMeantStep]_vars

(***************************************************************************)
(* An import is refused exactly when there is a reason to: input that has  *)
(* no one meaning, a name or value that may not be stored, a collision     *)
(* nobody decided, a vault it cannot read.  Generated records give no      *)
(* other (nullrec.go, 14-20: a program "must not have its import refused").*)
(***************************************************************************)
ImportVerdictStep ==
  LET c == last' IN
  c.verb = "import" /\ ~Helped(c) =>
    (c.status = OK <=>
       /\ vault # Unreadable /\ InOrder(c) /\ Given(c) # {}
       /\ \A e \in Given(c) : CheckKey(e.key) /\ CheckValue(e.value)
       /\ Policies(c) # {} \/ {e.key : e \in Given(c)} \intersect Found(vault) = {}
       /\ Cardinality(Policies(c)) < 2 /\ Known(c.args, ImportFlags)
       /\ Len(Asked(c.args)) = IF <<"--stdin">> \in ToSet(Flagged(c.args)) THEN 0 ELSE 1)
ImportVerdict == [][ImportVerdictStep]_vars

Contents == {[key |-> n, value |-> vault[n]] : n \in Found(vault)}

(***************************************************************************)
(* eval "$(kleidos export)" gives the shell every name with exactly its    *)
(* value, quotes, newlines at the end and all, and nothing else, whatever  *)
(* older versions stored; or the export fails (export.go, 48-52).          *)
(***************************************************************************)
EvalRestores ==
  last.verb = "export" /\ last.status = OK /\ ~Helped(last) => Evaluated(last.out) = Contents

(***************************************************************************)
(* reveal -0, with its arguments in any order, prints the values asked for *)
(* so that cutting at NULs gives them back in that order, or, when one is  *)
(* missing or there is a flag it does not know, nothing (read.go, 14-19;   *)
(* cmd.go, 24-27).                                                         *)
(***************************************************************************)
RevealRestores ==
  LET asked == Asked(last.args) IN
  last.verb = "reveal" /\ <<"-0">> \in ToSet(Flagged(last.args)) /\ ~Helped(last) =>
    IF asked # <<>> /\ ToSet(asked) \subseteq Found(vault) /\ Known(last.args, {<<"-0">>})
    THEN /\ last.status = OK
         /\ (\A n \in ToSet(asked) : ~Occurs("nul", vault[n])) =>
               Records(last.out) = [i \in DOMAIN asked |-> vault[asked[i]]]
    ELSE last.status # OK /\ last.out = <<>>

\* The names listed after a flag of run, the last time it is given: flags and
\* lists take turns.
Listed(args, flag) ==
  LET given == {i \in 1..Len(args) - 1 : i % 2 = 1 /\ args[i] = <<flag>>}
  IN  IF given = {} THEN {} ELSE ToSet(Split(",", args[Max(given) + 1])) \ {<<>>}

(***************************************************************************)
(* A child that runs sees, under every name required and every optional    *)
(* one there is, the stored value, none empty or cut short by a NUL, and   *)
(* of the rest of the environment, whose names have no "=", what it        *)
(* inherits; and a status below 120 is the child's (run.go, 35-39;         *)
(* errs.go, 6-8).                                                          *)
(***************************************************************************)
RunInjectsExactly ==
  LET required == Listed(Flagged(last.args), "--only")
      named == required \union (Listed(Flagged(last.args), "--optional") \intersect Found(vault))
  IN  last.verb = "run" =>
        IF last.started
        THEN /\ required \subseteq Found(vault)
             /\ \A k \in named : Getenv(last.env, k) = {vault[k]} /\ CheckValue(vault[k])
             /\ \A k \in Names \ named : ~Occurs("=", k) => Getenv(last.env, k) = Getenv(last.inherited, k)
        ELSE last.status >= 120 \/ Helped(last)

(***************************************************************************)
(* An export that is read again by import, as a .env file, is read as the  *)
(* vault it was or refused: the two formats overlap and never disagree.    *)
(***************************************************************************)
ExportReimports ==
  LET parsed == ParseDotenv(last.out) IN
  last.verb = "export" /\ last.status = OK /\ ~Helped(last) /\ parsed.ok =>
    ToSet(parsed.entries) = Contents

(***************************************************************************)
(* set --stdin "stores exactly the bytes read" (README.md, 113), whatever  *)
(* bytes they are.                                                         *)
(***************************************************************************)
StoredExactlyStep ==
  last'.verb = "set" /\ last'.status = OK /\ ~Helped(last') =>
    vault'[Asked(last'.args)[1]] = last'.input
StoredExactly == [][StoredExactlyStep]_vars
=============================================================================
