------------------------------ MODULE RunVerb ------------------------------
(***************************************************************************)
(* cmd/run.go: the arguments of kleidos run, and the environment that its  *)
(* child gets.                                                             *)
(***************************************************************************)
EXTENDS Text

\* What the flag package reads before the "--": the lists, as given, and
\* whether it stopped at an error or at a request for help.
RunFlags(args) ==
  FoldLeft(LAMBDA f, a :
      IF f.stop # "no" THEN f
      ELSE IF f.want # "none" THEN [f EXCEPT ![f.want] = a, !.want = "none"]
      ELSE IF a \in {<<"--only">>, <<"--optional">>}
           THEN [f EXCEPT !.want = IF a = <<"--only">> THEN "only" ELSE "optional"]
      ELSE [f EXCEPT !.stop = IF a = <<"-h">> THEN "help" ELSE "error"],
    [only |-> <<>>, optional |-> <<>>, want |-> "none", stop |-> "no"], args)

\* keyList: the names of a list, all of which must be names that can be stored.
Keys(csv) == IF csv = <<>> THEN <<>> ELSE Split(",", csv)
GoodKeys(csv) == \A i \in DOMAIN Keys(csv) : CheckKey(Keys(csv)[i])

\* What Run refuses of its arguments before it looks at the vault.
RunnableFlags(f) ==
  /\ f.stop = "no" /\ f.want = "none"
  /\ f.only # <<>> \/ f.optional # <<>>
  /\ GoodKeys(f.only) /\ GoodKeys(f.optional)
  /\ ToSet(Keys(f.only)) \intersect ToSet(Keys(f.optional)) = {}
-----------------------------------------------------------------------------
\* A variable as it stands in an environment: its name, "=", its value.
Named(k, entry) == IsPrefix(k \o <<"=">>, entry)

\* os.Environ: of two variables of one name the first is kept.
Environ(inherited) ==
  LET name(e) == Before(Index("=", e), e)
      repeats(e, f) == Occurs("=", e) /\ Occurs("=", f) /\ name(e) = name(f)
  IN  FoldLeft(LAMBDA env, e : IF \E i \in DOMAIN env : repeats(e, env[i]) THEN env ELSE Append(env, e),
               <<>>, inherited)

\* Mutant of Overlay: the values come after what is inherited.
OverlayAppending(env, keys, value) ==
  env \o [i \in DOMAIN keys |-> keys[i] \o <<"=">> \o value[keys[i]]]

\* childEnv, once the values are checked: each key replaces the inherited entry
\* of its name, the last one if there were several, or is appended.
Overlay(env, keys, value) ==
  LET at(k) == SelectLastInSeq(env, LAMBDA e : Named(k, e))
      entry(k) == k \o <<"=">> \o value[k]
  IN  FoldLeft(LAMBDA out, k : IF at(k) > 0 THEN [out EXCEPT ![at(k)] = entry(k)]
                                            ELSE Append(out, entry(k)),
               env, keys)

\* getenv in the child: the first entry of that name, if there is one.
Getenv(env, k) ==
  LET i == SelectInSeq(env, LAMBDA e : Named(k, e))
  IN  IF i = 0 THEN {} ELSE {After(Len(k) + 1, env[i])}
=============================================================================
