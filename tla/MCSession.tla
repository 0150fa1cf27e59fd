----------------------------- MODULE MCSession -----------------------------
(***************************************************************************)
(* Small inputs for Session: every short text for each place a text goes,  *)
(* and chosen ones where two lines or two records meet.                    *)
(***************************************************************************)
EXTENDS SessionProps

A == <<"A">>
B == <<"B">>
AA == <<"A", "A">>
Bad == <<"x">>
Arg(f) == <<f>>
MCNames == <<Arg("-0"), A, AA, <<"A", "A", "A">>, B, Bad>>

With(pairs) == [n \in ToSet(MCNames) |->
  IF \E p \in pairs : p[1] = n THEN (CHOOSE p \in pairs : p[1] = n)[2] ELSE Absent]

\* No vault; one of a later version; and such as older versions or other programs can have written,
\* with an empty value, a NUL, a name that is no identifier.
MCVaults ==
  {Absent, Unreadable, With({<<A, <<>>>>, <<B, <<"'", "nl">>>>}),
   With({<<A, <<"x", "x", "x">>>>, <<AA, <<"x", "'", "x">>>>, <<B, <<"x", "nul">>>>, <<Bad, <<"x">>>>})}

Cmd(args, input, tty) == [args |-> args, input |-> input, records |-> <<>>, tty |-> tty]

\* Values: every sequence of up to three bytes that some reader treats specially.
Values == BoundedSeq({"x", "'", "\\", "nl", " "}, 3) \union BoundedSeq({"x", "\"", "nul", "#", "hi"}, 2)
SetCommands ==
  {Cmd(<<A, Arg("--stdin")>>, v, FALSE) : v \in Values} \union
  {Cmd(a, <<"x", "nl">>, t) : t \in BOOLEAN, a \in
     {<<Arg("--stdin"), B>>, <<B>>, <<Arg("--stdin"), Bad>>, <<A, B>>, <<Arg("--bogus"), A>>,
      <<Arg("-h")>>, <<Arg("--stdin"), Arg("--"), A>>, <<A, Arg("--"), Arg("--stdin")>>}}

\* Files: every short text, every short value after a name, and pairs of lines.
Quoted(k, n) == k \o <<"=", "'">> \o [i \in 1..n |-> "x"] \o <<"'">>
Line(text) == text \o <<"nl">>
Lines == {<<"A", "=", "x">>, <<"B", "=", "\"", "x", "\"">>, <<"A", "=", "x", "cr">>,
          <<"export", " ", "A", "=", "x">>, <<" ", "#", "=", "'">>, <<"A", "=", "'">>, <<"cr">>,
          Quoted(B, 7), Quoted(B, 8)}
Files ==
  BoundedSeq({"A", "=", "#", " ", "cr", "nl", "export"}, 4) \union
  {<<"A", "=">> \o v : v \in BoundedSeq({"x", "'", "\"", "#", " ", "\\", "cr"}, 4) \union BoundedSeq({"=", "tab", "nul"}, 2)} \union
  {l \o m : l \in {Line(l) : l \in Lines}, m \in {Line(l) : l \in Lines} \union Lines}

Entries(keys, values) == {Entry(k, v) : k \in keys, v \in values}
RecordLists ==
  {<<>>} \union {<<e>> : e \in Entries({A, Bad}, BoundedSeq({"x", "=", "'", "nl"}, 3))} \union
  {<<e, f>> : e, f \in Entries({A, B}, BoundedSeq({"x", "="}, 2))}
Program(args, records, ended) ==
  [args |-> args, records |-> records, tty |-> FALSE,
   input |-> IF ended THEN Generated(records) ELSE TrimSuffix("nul", Generated(records))]

ImportArgs ==
  {<<Arg("--overwrite")>>, <<Arg("--skip-existing")>>, <<>>, <<Arg("--overwrite"), Arg("--skip-existing")>>,
   <<Arg("-h")>>, <<Arg("--bogus")>>}
ImportCommands ==
  {Cmd(<<Arg("file")>>, f, FALSE) : f \in Files} \union
  {Cmd(<<Arg("file")>> \o a, f, FALSE) : a \in ImportArgs, f \in {l \o m : l, m \in {Line(l) : l \in Lines}}} \union
  {Cmd(a, <<"A", "=", "x">>, FALSE) : a \in {<<>>, <<Arg("--stdin"), Arg("file")>>, <<Arg("--stdin")>>}} \union
  {Program(<<Arg("--stdin"), Arg("--null")>>, r, e) : r \in RecordLists, e \in BOOLEAN} \union
  {Cmd(<<Arg("--overwrite"), Arg("--"), f>>, <<"A", "=", "x">>, FALSE) : f \in {Arg("--null"), Arg("--skip-existing")}} \union
  {Cmd(<<Arg("file"), Arg("--force")>>, <<"A", "=", "x">>, FALSE)} \union
  {Program(<<Arg("--null")>> \o a \o <<Arg("file")>>, <<Entry(A, <<"x">>), f>>, TRUE) :
     a \in ImportArgs, f \in Entries({A, B}, {<<"x">>, <<"=">>})}

KeyLists == {<<>>, <<A>>, <<B, A>>, <<AA>>, <<A, AA>>, <<Bad>>, <<A, B, A>>}
ReadArgs == KeyLists \union {<<Arg("-h")>>, <<Arg("--bogus"), A>>}
RunArgs ==
  {<<Arg("--only"), k, Arg("--"), Arg("cmd")>> : k \in {A, B, Bad, <<"A", ",", "B">>, <<"A", ",">>}} \union
  {<<Arg("--optional"), k, Arg("--only"), l, Arg("--"), Arg("cmd")>> :
     k \in {A, AA, <<"B", ",", "A", "A">>}, l \in {A, B, <<>>}} \union
  {<<Arg("--optional"), AA, Arg("--"), Arg("cmd")>>, <<Arg("--only"), A, Arg("cmd")>>,
   <<Arg("--only"), A, Arg("--")>>, <<Arg("--only"), Arg("--"), A>>, <<Arg("-h"), Arg("--"), A>>,
   <<A, Arg("--"), A>>, <<Arg("--bogus"), Arg("--"), A>>, <<Arg("--"), A>>}

\* What a child may inherit: other values under the same names, one name
\* twice, an entry that is no assignment and one that names nothing.
MCEnvironments ==
  {<<A \o <<"=", "0">>, <<"=">> \o A, <<"x", "=">>>>,
   <<AA \o <<"=">>, B \o <<"=", "0">>, A, A \o <<"=", "x">>, A \o <<"=", "0">>>>}

MCInvocations ==
  [set |-> SetCommands, import |-> ImportCommands,
   delete |-> {Cmd(a, <<>>, FALSE) : a \in ReadArgs},
   rename |-> {Cmd(a, <<>>, FALSE) : a \in {<<A, AA>>, <<A, B>>, <<B, A, Arg("--force")>>, <<A, A>>, <<A, Bad>>, <<A>>, <<Arg("-h")>>}},
   get |-> {Cmd(a, <<>>, t) : a \in ReadArgs, t \in BOOLEAN},
   reveal |-> {Cmd(a, <<>>, FALSE) : a \in ReadArgs \union
      {<<Arg("-0")>> \o k : k \in KeyLists} \union {<<A, Arg("-0"), B>>, <<B, A, Arg("-0")>>, <<A, Arg("--"), Arg("-0")>>, <<Arg("-0"), Arg("--"), B>>,
       <<Arg("-0"), Arg("--bogus"), A>>}},
   has |-> {Cmd(a, <<>>, FALSE) : a \in ReadArgs},
   list |-> {Cmd(a, <<>>, FALSE) : a \in {<<>>, <<Arg("--names")>>, <<A>>, <<Arg("-h")>>}},
   export |-> {Cmd(a, <<>>, FALSE) : a \in {<<>>, <<A>>, <<Arg("-h")>>}},
   usage |-> {Cmd(a, <<>>, FALSE) : a \in {<<>>, <<Arg("help")>>, <<Arg("nonsense")>>}},
   run |-> {Cmd(a, <<>>, FALSE) : a \in RunArgs}]
=============================================================================
