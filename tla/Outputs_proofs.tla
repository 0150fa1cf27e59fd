--------------------------- MODULE Outputs_proofs ---------------------------
(***************************************************************************)
(* Proofs about what kleidos puts out: that a shell which evals what       *)
(* export writes, and a program that cuts what reveal -0 writes, have      *)
(* every value as it was, for all names and values and any size of the     *)
(* buffer between; and that a child which run starts has the variables     *)
(* asked for with their values and the rest as it was.  S is the set of    *)
(* all bytes.                                                              *)
(***************************************************************************)
EXTENDS OutputFormats, ImportFormats, RunVerb, Text_proofs

Alphabet(S) ==
  Upper \union Digits \union {"export", " ", "=", "'", "\\", "nl"} \subseteq S
-----------------------------------------------------------------------------
(***************************************************************************)
(* The shell, byte by byte.                                                *)
(***************************************************************************)
Modes == {"gap", "word", "'", "\"", "\"\\", "\\", "#"}
Shells(S) == [mode : Modes, word : Seq(S), words : Seq(Seq(S)), commands : Seq(Seq(Seq(S)))]
ShellStep(S) == [x \in Shells(S) \X S |-> ShellByte(x[1], x[2])]

LEMMA EndWordType ==
  ASSUME NEW S, NEW s \in Shells(S)
  PROVE  EndWord(s) \in Shells(S)
<1>1. Append(s.words, s.word) \in Seq(Seq(S)) /\ <<>> \in Seq(S)
  BY DEF Shells
<1> QED
  BY <1>1 DEF EndWord, Shells, Modes

LEMMA EndCommandType ==
  ASSUME NEW S, NEW s \in Shells(S)
  PROVE  EndCommand(s) \in Shells(S)
<1> DEFINE t == EndWord(s)
<1>1. t \in Shells(S)
  BY EndWordType
<1> HIDE DEF t
<1>2. Append(t.commands, t.words) \in Seq(Seq(Seq(S))) /\ <<>> \in Seq(Seq(S))
  BY <1>1 DEF Shells
<1>3. [t EXCEPT !.commands = Append(@, t.words), !.words = <<>>, !.mode = "gap"] \in Shells(S)
  BY <1>1, <1>2 DEF Shells, Modes
<1> QED
  BY <1>3 DEF EndCommand, t

LEMMA ShellByteType ==
  ASSUME NEW S, Alphabet(S), NEW s \in Shells(S), NEW b \in S
  PROVE  ShellByte(s, b) \in Shells(S)
<1>1. \A m \in Modes : [s EXCEPT !.mode = m] \in Shells(S)
  BY DEF Shells
<1>2. \A w \in Seq(S), m \in Modes :
        [s EXCEPT !.word = w] \in Shells(S) /\ [s EXCEPT !.mode = m, !.word = w] \in Shells(S)
        /\ [s EXCEPT !.word = w, !.mode = m] \in Shells(S)
  BY DEF Shells
<1>3. Append(s.word, b) \in Seq(S) /\ s.word \o <<"\\", b>> \in Seq(S) /\ s.word \in Seq(S)
  <2>1. s.word \in Seq(S) /\ "\\" \in S
    BY DEF Shells, Alphabet
  <2>2. <<"\\", b>> \in Seq(S)
    BY <2>1
  <2> QED
    BY <2>1, <2>2, AppendProperties, ConcatProperties
<1>4. s.mode \in Modes
  BY DEF Shells
<1>5. CASE s.mode = "'"
  BY <1>1, <1>2, <1>3, <1>5 DEF ShellByte, Modes
<1>6. CASE s.mode = "\""
  BY <1>1, <1>2, <1>3, <1>6 DEF ShellByte, Modes
<1>7. CASE s.mode = "\"\\"
  <2>1. [s EXCEPT !.mode = "\"",
                  !.word = CASE b = "nl" -> @
                             [] b \in {"\"", "\\"} -> Append(@, b)
                             [] OTHER -> @ \o <<"\\", b>>] \in Shells(S)
    BY <1>2, <1>3 DEF Modes
  <2> QED
    BY <1>7, <2>1 DEF ShellByte
<1>8. CASE s.mode = "\\"
  BY <1>1, <1>2, <1>3, <1>8 DEF ShellByte, Modes, AddByte
<1>9. CASE s.mode = "#"
  <2>1. [s EXCEPT !.mode = "gap"] \in Shells(S)
    BY <1>1 DEF Modes
  <2>2. EndCommand([s EXCEPT !.mode = "gap"]) \in Shells(S)
    BY <2>1, EndCommandType
  <2> QED
    BY <1>9, <2>2 DEF ShellByte
<1>10. CASE s.mode \in {"gap", "word"}
  <2>1. EndWord(s) \in Shells(S) /\ EndCommand(s) \in Shells(S)
    BY EndWordType, EndCommandType
  <2>2. AddByte(s, b) \in Shells(S)
    BY <1>2, <1>3 DEF AddByte, Modes
  <2>3. b \in Quotes \union {"\\"} => b \in Modes
    BY DEF Quotes, Modes
  <2>4. b \in Quotes \union {"\\"} => [s EXCEPT !.mode = b] \in Shells(S)
    BY <1>1, <2>3
  <2>5. [s EXCEPT !.mode = "#"] \in Shells(S)
    BY <1>1 DEF Modes
  <2> HIDE DEF Quotes
  <2> QED
    BY <1>10, <2>1, <2>2, <2>4, <2>5 DEF ShellByte
<1> QED
  BY <1>4, <1>5, <1>6, <1>7, <1>8, <1>9, <1>10 DEF Modes

LEMMA ShellFolds ==
  ASSUME NEW S, Alphabet(S), NEW s \in Shells(S)
  PROVE  Folds(Shells(S), S, ShellStep(S), s)
BY ShellByteType DEF Folds, ShellStep

\* The state in which the shell is once it has read the text t.
Reads(S, s, t) == Fold(ShellStep(S), s, t)

LEMMA ReadsNothing ==
  ASSUME NEW S, Alphabet(S), NEW s \in Shells(S)
  PROVE  Reads(S, s, <<>>) = s
BY ShellFolds, FoldEmpty DEF Reads

LEMMA ReadsByte ==
  ASSUME NEW S, Alphabet(S), NEW s \in Shells(S), NEW b \in S
  PROVE  Reads(S, s, <<b>>) = ShellByte(s, b)
<1>1. Folds(Shells(S), S, ShellStep(S), s)
  BY ShellFolds
<1>2. Fold(ShellStep(S), s, <<b>>) = ShellStep(S)[<<s, b>>]
  BY <1>1, FoldOne
<1> QED
  BY <1>2 DEF Reads, ShellStep

LEMMA ReadsMore ==
  ASSUME NEW S, Alphabet(S), NEW s \in Shells(S), NEW t \in Seq(S), NEW b \in S
  PROVE  /\ Reads(S, s, t) \in Shells(S)
         /\ Reads(S, s, Append(t, b)) = ShellByte(Reads(S, s, t), b)
<1>1. Folds(Shells(S), S, ShellStep(S), s)
  BY ShellFolds
<1>2. /\ Fold(ShellStep(S), s, t) \in Shells(S)
      /\ Fold(ShellStep(S), s, Append(t, b)) = ShellStep(S)[<<Fold(ShellStep(S), s, t), b>>]
  BY <1>1, FoldAppend
<1> QED
  BY <1>2 DEF Reads, ShellStep

LEMMA ReadsOn ==
  ASSUME NEW S, Alphabet(S), NEW s \in Shells(S), NEW t \in Seq(S), NEW u \in Seq(S)
  PROVE  /\ Reads(S, s, t) \in Shells(S)
         /\ Reads(S, s, t \o u) = Reads(S, Reads(S, s, t), u)
<1>1. Folds(Shells(S), S, ShellStep(S), s)
  BY ShellFolds
<1>2. Fold(ShellStep(S), s, t) \in Shells(S)
  BY <1>1, FoldType
<1>3. Fold(ShellStep(S), s, t \o u) = Fold(ShellStep(S), Fold(ShellStep(S), s, t), u)
  BY <1>1, FoldConcat
<1> QED
  BY <1>2, <1>3 DEF Reads

LEMMA ReadsOneMore ==
  ASSUME NEW S, Alphabet(S), NEW s \in Shells(S), NEW t \in Seq(S), NEW b \in S
  PROVE  /\ t \o <<b>> \in Seq(S)
         /\ Reads(S, s, t \o <<b>>) = ShellByte(Reads(S, s, t), b)
<1>1. t \o <<b>> = Append(t, b) /\ t \o <<b>> \in Seq(S)
  BY OneMore
<1>2. Reads(S, s, Append(t, b)) = ShellByte(Reads(S, s, t), b)
  BY ReadsMore
<1> QED
  BY <1>1, <1>2

\* The bytes that assignments are made of.
Shell(m, w, ws, cs) == [mode |-> m, word |-> w, words |-> ws, commands |-> cs]

LEMMA ShellState ==
  ASSUME NEW S, NEW m \in Modes, NEW w \in Seq(S), NEW ws \in Seq(Seq(S)), NEW cs \in Seq(Seq(Seq(S)))
  PROVE  Shell(m, w, ws, cs) \in Shells(S)
BY DEF Shell, Shells

LEMMA ByteQuoted ==
  ASSUME NEW w, NEW ws, NEW cs, NEW b, b # "'"
  PROVE  ShellByte(Shell("'", w, ws, cs), b) = Shell("'", Append(w, b), ws, cs)
BY DEF ShellByte, Shell

LEMMA QuoteEnds ==
  ASSUME NEW w, NEW ws, NEW cs
  PROVE  ShellByte(Shell("'", w, ws, cs), "'") = Shell("word", w, ws, cs)
BY DEF ShellByte, Shell

LEMMA QuoteOpens ==
  ASSUME NEW w, NEW ws, NEW cs, NEW b \in {"'", "\\"}
  PROVE  ShellByte(Shell("word", w, ws, cs), b) = Shell(b, w, ws, cs)
<1>1. b \in Quotes \union {"\\"} /\ b # "#" /\ b \notin Blanks /\ b # "nl"
  BY DEF Quotes, Blanks
<1>2. ShellByte(Shell("word", w, ws, cs), b) = [Shell("word", w, ws, cs) EXCEPT !.mode = b]
  BY <1>1 DEF ShellByte, Shell
<1> QED
  BY <1>2 DEF Shell

LEMMA QuoteEscaped ==
  ASSUME NEW w, NEW ws, NEW cs
  PROVE  ShellByte(Shell("\\", w, ws, cs), "'") = Shell("word", Append(w, "'"), ws, cs)
BY DEF ShellByte, Shell, AddByte

LEMMA BlankEnds ==
  ASSUME NEW w, NEW ws, NEW cs
  PROVE  ShellByte(Shell("word", w, ws, cs), " ") = Shell("gap", <<>>, Append(ws, w), cs)
<1>1. EndWord(Shell("word", w, ws, cs)) = Shell("gap", <<>>, Append(ws, w), cs)
  BY DEF EndWord, Shell
<1>2. ShellByte(Shell("word", w, ws, cs), " ") = EndWord(Shell("word", w, ws, cs))
  BY DEF ShellByte, Shell, Quotes, Blanks
<1> QED
  BY <1>1, <1>2

LEMMA LineEnds ==
  ASSUME NEW w, NEW ws, NEW cs
  PROVE  /\ ShellByte(Shell("word", w, ws, cs), "nl") = EndCommand(Shell("word", w, ws, cs))
         /\ EndCommand(Shell("word", w, ws, cs)) = Shell("gap", <<>>, <<>>, Append(cs, Append(ws, w)))
<1>1. ShellByte(Shell("word", w, ws, cs), "nl") = EndCommand(Shell("word", w, ws, cs))
  BY DEF ShellByte, Shell, Quotes, Blanks
<1>2. PICK t : t = EndWord(Shell("word", w, ws, cs))
  OBVIOUS
<1>3. EndCommand(Shell("word", w, ws, cs)) =
        [t EXCEPT !.commands = Append(@, t.words), !.words = <<>>, !.mode = "gap"]
  BY <1>2 DEF EndCommand
<1>4. t = [mode |-> "gap", word |-> <<>>, words |-> Append(ws, w), commands |-> cs]
  BY <1>2 DEF EndWord, Shell
<1> QED
  BY <1>1, <1>3, <1>4 DEF Shell

LEMMA ByteOfWord ==
  ASSUME NEW w, NEW ws, NEW cs, NEW m \in {"gap", "word"},
         NEW b \in Upper \union Digits \union {"export", "="}
  PROVE  ShellByte(Shell(m, w, ws, cs), b) = Shell("word", Append(w, b), ws, cs)
<1>1. b \notin Quotes \union {"\\"} /\ b # "#" /\ b \notin Blanks /\ b # "nl"
  BY DEF Upper, Digits, Quotes, Blanks
<1>2. ShellByte(Shell(m, w, ws, cs), b) = AddByte(Shell(m, w, ws, cs), b)
  BY <1>1 DEF ShellByte, Shell
<1> QED
  BY <1>2 DEF AddByte, Shell

\* A name is read as one word, or as more of one.
LEMMA ReadsName ==
  ASSUME NEW S, Alphabet(S), NEW m \in {"gap", "word"}, NEW w \in Seq(S),
         NEW ws \in Seq(Seq(S)), NEW cs \in Seq(Seq(Seq(S))),
         NEW n \in Seq(Upper \union Digits), n # <<>>
  PROVE  Reads(S, Shell(m, w, ws, cs), n) = Shell("word", w \o n, ws, cs)
<1> DEFINE N == Upper \union Digits
           s == Shell(m, w, ws, cs)
           To(u) == Shell(IF u = <<>> THEN m ELSE "word", w \o u, ws, cs)
           Good(u) == Reads(S, s, u) = To(u)
           T == {u \in Seq(N) : Good(u)}
<1>0. \A u \in Seq(S), b \in S : Append(w \o u, b) = w \o Append(u, b)
  <2>1. SUFFICES ASSUME NEW u \in Seq(S), NEW b \in S
                 PROVE  Append(w \o u, b) = w \o Append(u, b)
    OBVIOUS
  <2>2. Longer(w, u, b)
    BY ConcatAppend
  <2> QED
    BY <2>2 DEF Longer
<1>1. s \in Shells(S)
  BY ShellState DEF Modes
<1>2. N \subseteq S
  BY DEF Alphabet
<1>3. Good(<<>>)
  <2>1. w \o <<>> = w
    BY ConcatEmptySeq
  <2>2. To(<<>>) = s
    BY <2>1
  <2> HIDE DEF s, To
  <2> QED
    BY <1>1, <2>2, ReadsNothing
<1>4. ASSUME NEW u \in Seq(N), NEW b \in N, Good(u) PROVE Good(Append(u, b))
  <2>1. u \in Seq(S) /\ b \in S
    BY <1>2
  <2>2. Reads(S, s, Append(u, b)) = ShellByte(Reads(S, s, u), b)
    <3> HIDE DEF s
    <3> QED
      BY <1>1, <2>1, ReadsMore
  <2>3. (IF u = <<>> THEN m ELSE "word") \in {"gap", "word"}
    OBVIOUS
  <2>4. ShellByte(To(u), b) = Shell("word", Append(w \o u, b), ws, cs)
    BY <2>3, ByteOfWord
  <2>5. Append(w \o u, b) = w \o Append(u, b) /\ Append(u, b) # <<>>
    <3>1. Append(u, b) # <<>>
      BY <2>1, AppendProperties
    <3>2. u \in Seq(S)
      BY <2>1
    <3>3. b \in S
      BY <2>1
    <3> HIDE DEF N
    <3>4. Append(w \o u, b) = w \o Append(u, b)
      BY <1>0, <3>2, <3>3
    <3> QED
      BY <3>1, <3>4
  <2>6. To(Append(u, b)) = Shell("word", w \o Append(u, b), ws, cs)
    BY <2>5
  <2> HIDE DEF s, To
  <2> QED
    BY <1>4, <2>2, <2>4, <2>5, <2>6
<1>5. Seq(N) \subseteq T
  <2> HIDE DEF Good
  <2>1. <<>> \in T
    BY <1>3, EmptySeq
  <2>2. \A u \in Seq(N), b \in N : Append(u, b) \in Seq(N)
    BY AppendProperties
  <2> HIDE DEF N
  <2>3. \A u \in Seq(N), b \in N : u \in T => Append(u, b) \in T
    BY <1>4, <2>2
  <2> HIDE DEF T
  <2> QED
    BY <2>1, <2>3, SequenceInduction
<1>6. Good(n)
  <2> HIDE DEF Good
  <2> QED
    BY <1>5
<1> QED
  BY <1>6

QuotedBytes(S) == [b \in S |-> QuotedByte(b)]

LEMMA QuotedType ==
  ASSUME NEW S, Alphabet(S)
  PROVE  Maps(S, Seq(S), QuotedBytes(S))
<1>1. "'" \in S /\ "\\" \in S
  BY DEF Alphabet
<1> QED
  BY <1>1 DEF Maps, QuotedBytes, QuotedByte

\* Inside quotes, what a byte is quoted as is read as the byte.
LEMMA ReadsQuoted ==
  ASSUME NEW S, Alphabet(S), NEW w \in Seq(S), NEW ws \in Seq(Seq(S)), NEW cs \in Seq(Seq(Seq(S))),
         NEW b \in S
  PROVE  Reads(S, Shell("'", w, ws, cs), QuotedByte(b)) = Shell("'", Append(w, b), ws, cs)
<1> DEFINE s == Shell("'", w, ws, cs)
<1>1. s \in Shells(S)
  BY ShellState DEF Modes
<1>2. CASE b # "'"
  <2>1. QuotedByte(b) = <<b>>
    BY <1>2 DEF QuotedByte
  <2>2. Reads(S, s, <<b>>) = ShellByte(s, b)
    <3> HIDE DEF s
    <3> QED
      BY <1>1, ReadsByte
  <2>3. ShellByte(s, b) = Shell("'", Append(w, b), ws, cs)
    BY <1>2, ByteQuoted
  <2>4. Reads(S, s, QuotedByte(b)) = Reads(S, s, <<b>>)
    BY <2>1
  <2> HIDE DEF s
  <2> QED
    BY <2>2, <2>3, <2>4 DEF s
<1>3. CASE b = "'"
  <2> DEFINE one == <<"'">>
             two == <<"'", "\\">>
             three == <<"'", "\\", "'">>
  <2>0. "'" \in S /\ "\\" \in S
    BY DEF Alphabet
  <2>1. one \in Seq(S) /\ two \in Seq(S) /\ three \in Seq(S)
    BY <2>0
  <2>2. two = Append(one, "\\") /\ three = Append(two, "'") /\ QuotedByte(b) = Append(three, "'")
    BY <1>3 DEF QuotedByte
  <2>3. Reads(S, s, one) = Shell("word", w, ws, cs)
    <3>1. Reads(S, s, one) = ShellByte(s, "'")
      <4> HIDE DEF s
      <4> QED
        BY <1>1, <2>0, ReadsByte
    <3> QED
      BY <3>1, QuoteEnds
  <2> HIDE DEF one, two, three
  <2>4. /\ Reads(S, s, two) = ShellByte(Reads(S, s, one), "\\")
        /\ Reads(S, s, three) = ShellByte(Reads(S, s, two), "'")
        /\ Reads(S, s, QuotedByte(b)) = ShellByte(Reads(S, s, three), "'")
    <3> HIDE DEF s
    <3>1. Reads(S, s, Append(one, "\\")) = ShellByte(Reads(S, s, one), "\\")
      BY <1>1, <2>0, <2>1, ReadsMore
    <3>2. Reads(S, s, Append(two, "'")) = ShellByte(Reads(S, s, two), "'")
      BY <1>1, <2>0, <2>1, ReadsMore
    <3>3. Reads(S, s, Append(three, "'")) = ShellByte(Reads(S, s, three), "'")
      BY <1>1, <2>0, <2>1, ReadsMore
    <3> QED
      BY <2>2, <3>1, <3>2, <3>3
  <2>5. Reads(S, s, three) = Shell("word", Append(w, "'"), ws, cs)
    BY <2>3, <2>4, QuoteOpens, QuoteEscaped
  <2> QED
    BY <1>3, <2>4, <2>5, QuoteOpens
<1> QED
  BY <1>2, <1>3

LEMMA ReadsValue ==
  ASSUME NEW S, Alphabet(S), NEW w \in Seq(S), NEW ws \in Seq(Seq(S)), NEW cs \in Seq(Seq(Seq(S))),
         NEW v \in Seq(S)
  PROVE  Reads(S, Shell("'", w, ws, cs), Spelled(QuotedBytes(S), v)) = Shell("'", w \o v, ws, cs)
<1> DEFINE Q == QuotedBytes(S)
           s == Shell("'", w, ws, cs)
           Good(u) == Reads(S, s, Spelled(Q, u)) = Shell("'", w \o u, ws, cs)
           T == {u \in Seq(S) : Good(u)}
<1>1. s \in Shells(S) /\ Maps(S, Seq(S), Q)
  BY ShellState, QuotedType DEF Modes
<1>2. Good(<<>>)
  <2>1. w \o <<>> = w
    BY ConcatEmptySeq
  <2>2. Spelled(Q, <<>>) = <<>>
    BY SpelledEmpty
  <2>3. Reads(S, s, <<>>) = s
    <3> HIDE DEF s
    <3> QED
      BY <1>1, ReadsNothing
  <2> QED
    BY <2>1, <2>2, <2>3
<1>3. ASSUME NEW u \in Seq(S), NEW b \in S, Good(u) PROVE Good(Append(u, b))
  <2>1. Q[b] \in Seq(S) /\ Q[b] = QuotedByte(b)
    BY <1>1 DEF Maps, QuotedBytes
  <2> HIDE DEF Q, s
  <2>2. Spelled(Q, u) \in Seq(S) /\ Spelled(Q, Append(u, b)) = Spelled(Q, u) \o Q[b]
    BY <1>1, SpelledAppend
  <2>3. Reads(S, s, Spelled(Q, u) \o Q[b]) = Reads(S, Reads(S, s, Spelled(Q, u)), Q[b])
    <3>1. PICK x, y : x = Spelled(Q, u) /\ y = Q[b]
      OBVIOUS
    <3>2. x \in Seq(S) /\ y \in Seq(S)
      BY <2>1, <2>2, <3>1
    <3> QED
      BY <1>1, <3>1, <3>2, ReadsOn
  <2>4. PICK x : x = w \o u
    OBVIOUS
  <2>5. x \in Seq(S) /\ Append(x, b) = w \o Append(u, b)
    BY <2>4
  <2>6. Reads(S, Shell("'", x, ws, cs), QuotedByte(b)) = Shell("'", Append(x, b), ws, cs)
    BY <2>5, ReadsQuoted, ZenonT(40)
  <2> QED
    BY <1>3, <2>1, <2>2, <2>3, <2>4, <2>5, <2>6
<1>4. Seq(S) \subseteq T
  <2> HIDE DEF Good
  <2>1. <<>> \in T /\ \A u \in Seq(S), b \in S : u \in T => Append(u, b) \in T
    BY <1>2, <1>3, EmptySeq
  <2> HIDE DEF T
  <2> QED
    BY <2>1, SequenceInduction
<1>5. Good(v)
  <2> HIDE DEF Good
  <2> QED
    BY <1>4
<1> QED
  BY <1>5
-----------------------------------------------------------------------------
(***************************************************************************)
(* An assignment, and a list of them.                                      *)
(***************************************************************************)
\* The shell between two commands.
Ready(cs) == Shell("gap", <<>>, <<>>, cs)

\* The command that assigns v to the name n, and the text of it up to its end.
Command(n, v) == << <<"export">>, n \o <<"=">> \o v >>
Body(n, v) == <<"export", " ">> \o n \o <<"=">> \o ShellQuote(v)

LEMMA SpelledType ==
  ASSUME NEW S, NEW R, NEW M, Maps(S, Seq(R), M), NEW s \in Seq(S)
  PROVE  Spelled(M, s) \in Seq(R)
<1>1. CASE s = <<>>
  <2>1. <<>> \in Seq(R)
    BY EmptySeq
  <2> QED
    BY <1>1, <2>1, SpelledEmpty
<1>2. CASE s # <<>>
  <2>1. PICK t \in Seq(S), b \in S : s = Append(t, b)
    BY <1>2, SequenceEmptyOrAppend
  <2>2. Spelled(M, t) \in Seq(R) /\ Spelled(M, Append(t, b)) = Spelled(M, t) \o M[b]
    BY SpelledAppend
  <2>3. M[b] \in Seq(R)
    BY DEF Maps
  <2>4. Spelled(M, t) \o M[b] \in Seq(R)
    BY <2>2, <2>3, ConcatIn
  <2> QED
    BY <2>1, <2>2, <2>4
<1> QED
  BY <1>1, <1>2

LEMMA QuoteIs ==
  ASSUME NEW S, Alphabet(S), NEW v \in Seq(S)
  PROVE  /\ Spelled(QuotedBytes(S), v) \in Seq(S)
         /\ ShellQuote(v) = <<"'">> \o Spelled(QuotedBytes(S), v) \o <<"'">>
<1>1. Mapped(QuotedBytes(S), v) = [i \in DOMAIN v |-> QuotedByte(v[i])]
  <2>1. \A i \in DOMAIN v : v[i] \in S
    BY LenProperties
  <2> QED
    BY <2>1 DEF Mapped, QuotedBytes
<1>2. Maps(S, Seq(S), QuotedBytes(S))
  BY QuotedType
<1>3. Spelled(QuotedBytes(S), v) \in Seq(S)
  BY <1>2, SpelledType
<1> QED
  BY <1>1, <1>3 DEF ShellQuote, Spelled

LEMMA ReadsBody ==
  ASSUME NEW S, Alphabet(S), NEW cs \in Seq(Seq(Seq(S))),
         NEW n \in Seq(Upper \union Digits), n # <<>>, NEW v \in Seq(S)
  PROVE  /\ Body(n, v) \in Seq(S)
         /\ Reads(S, Ready(cs), Body(n, v)) = Shell("word", n \o <<"=">> \o v, << <<"export">> >>, cs)
<1>0. "export" \in S /\ " " \in S /\ "=" \in S /\ "'" \in S
  BY DEF Alphabet
<1>1. n \in Seq(S)
  BY SeqMonotonic DEF Alphabet
<1>2. PICK x : x = Spelled(QuotedBytes(S), v)
  OBVIOUS
<1>3. x \in Seq(S) /\ ShellQuote(v) = <<"'">> \o x \o <<"'">>
  BY <1>2, QuoteIs
<1>4. PICK w : w = n \o <<"=">>
  OBVIOUS
<1>5. w \in Seq(S) /\ w = Append(n, "=")
  BY <1>0, <1>1, <1>4, OneMore
<1>6. w \o v \in Seq(S)
  BY <1>5
<1>7. PICK ws : ws = << <<"export">> >>
  OBVIOUS
<1>8. PICK e : e = <<>>
  OBVIOUS
<1>9. e \in Seq(S) /\ e \in Seq(Seq(S))
  BY <1>8, EmptySeq
<1>10. ws \in Seq(Seq(S))
  <2>1. <<"export">> \in Seq(S)
    BY <1>0, <1>1, OneIs
  <2> QED
    BY <1>7, <2>1, OneIs
<1>11. PICK s : s = Ready(cs)
  OBVIOUS
<1>12. s = Shell("gap", e, e, cs)
  BY <1>8, <1>11 DEF Ready
<1>13. s \in Shells(S)
  <2>1. "gap" \in Modes
    BY DEF Modes
  <2> QED
    BY <1>9, <1>12, <2>1, ShellState
<1>14. PICK y0 : y0 = <<"export">>
  OBVIOUS
<1>15. y0 \in Seq(S) /\ y0 = Append(e, "export") /\ ws = Append(e, y0)
  <2>1. y0 \in Seq(S)
    BY <1>0, <1>14, OneIs
  <2>2. y0 = Append(e, "export")
    BY <1>8, <1>14
  <2>3. ws = Append(e, y0)
    BY <1>7, <1>8, <1>14
  <2> QED
    BY <2>1, <2>2, <2>3
<1>16. Reads(S, s, y0) = Shell("word", y0, e, cs)
  <2>1. Reads(S, s, <<"export">>) = ShellByte(s, "export")
    BY <1>0, <1>1, <1>13, ReadsByte
  <2>2. ShellByte(Shell("gap", e, e, cs), "export") = Shell("word", Append(e, "export"), e, cs)
    BY ByteOfWord
  <2> QED
    BY <1>12, <1>14, <1>15, <2>1, <2>2
<1>17. PICK y1 : y1 = y0 \o <<" ">>
  OBVIOUS
<1>18. y1 \in Seq(S) /\ Reads(S, s, y1) = Shell("gap", e, ws, cs)
  <2>1. y1 \in Seq(S) /\ Reads(S, s, y1) = ShellByte(Reads(S, s, y0), " ")
    BY <1>0, <1>1, <1>13, <1>15, <1>17, ReadsOneMore
  <2>2. ShellByte(Shell("word", y0, e, cs), " ") = Shell("gap", e, Append(e, y0), cs)
    BY <1>8, BlankEnds
  <2> QED
    BY <1>15, <1>16, <2>1, <2>2
<1>19. PICK y2 : y2 = y1 \o n
  OBVIOUS
<1>20. y2 \in Seq(S)
  <2>1. y1 \in Seq(S)
    BY <1>18
  <2> QED
    BY <1>1, <1>19, <2>1, ConcatIn
<1>21. Reads(S, s, y2) = Shell("word", n, ws, cs)
  <2>1. Reads(S, s, y1 \o n) = Reads(S, Reads(S, s, y1), n)
    BY <1>0, <1>1, <1>13, <1>18, ReadsOn
  <2>2. Reads(S, Shell("gap", e, ws, cs), n) = Shell("word", e \o n, ws, cs)
    BY <1>9, <1>10, ReadsName
  <2>3. e \o n = n
    BY <1>0, <1>1, <1>8, ConcatEmptySeq
  <2> QED
    BY <1>18, <1>19, <2>1, <2>2, <2>3
<1>22. PICK y3 : y3 = y2 \o <<"=">>
  OBVIOUS
<1>23. y3 \in Seq(S) /\ Reads(S, s, y3) = Shell("word", w, ws, cs)
  <2>1. y3 \in Seq(S) /\ Reads(S, s, y3) = ShellByte(Reads(S, s, y2), "=")
    BY <1>0, <1>1, <1>13, <1>20, <1>22, ReadsOneMore
  <2>2. ShellByte(Shell("word", n, ws, cs), "=") = Shell("word", Append(n, "="), ws, cs)
    BY ByteOfWord
  <2> QED
    BY <1>5, <1>21, <2>1, <2>2
<1>24. PICK y4 : y4 = y3 \o <<"'">>
  OBVIOUS
<1>25. y4 \in Seq(S) /\ Reads(S, s, y4) = Shell("'", w, ws, cs)
  <2>1. y4 \in Seq(S) /\ Reads(S, s, y4) = ShellByte(Reads(S, s, y3), "'")
    BY <1>0, <1>1, <1>13, <1>23, <1>24, ReadsOneMore
  <2> QED
    BY <1>23, <2>1, QuoteOpens
<1>26. PICK y5 : y5 = y4 \o x
  OBVIOUS
<1>27. y5 \in Seq(S)
  BY <1>3, <1>25, <1>26
<1>28. Reads(S, s, y5) = Shell("'", w \o v, ws, cs)
  <2>1. Reads(S, s, y4 \o x) = Reads(S, Reads(S, s, y4), x)
    BY <1>3, <1>13, <1>25, ReadsOn
  <2>2. Reads(S, Shell("'", w, ws, cs), x) = Shell("'", w \o v, ws, cs)
    <3>1. w \in Seq(S)
      BY <1>5
    <3> QED
      BY <1>2, <1>10, <3>1, ReadsValue
  <2> QED
    BY <1>25, <1>26, <2>1, <2>2
<1>29. PICK y6 : y6 = y5 \o <<"'">>
  OBVIOUS
<1>30. y6 \in Seq(S) /\ Reads(S, s, y6) = Shell("word", w \o v, ws, cs)
  <2>1. y6 \in Seq(S) /\ Reads(S, s, y6) = ShellByte(Reads(S, s, y5), "'")
    BY <1>0, <1>1, <1>13, <1>27, <1>29, ReadsOneMore
  <2> QED
    BY <1>28, <2>1, QuoteEnds
<1>31. Body(n, v) = y6
  <2>1. <<"export", " ">> = y1
    BY <1>14, <1>17, TwoOnes
  <2>2. Body(n, v) = y3 \o ShellQuote(v)
    BY <1>19, <1>22, <2>1 DEF Body
  <2>3. PICK q : q = <<"'">>
    OBVIOUS
  <2>4. q \in Seq(S)
    BY <1>0, <1>1, <2>3, OneIs
  <2>5. Regrouped(y3, q, x) /\ q \o x \in Seq(S)
    BY <1>3, <1>23, <2>4, ConcatRegroup, ConcatIn
  <2>6. PICK z : z = q \o x
    OBVIOUS
  <2>7. Regrouped(y3, z, q)
    BY <1>23, <2>4, <2>5, <2>6, ConcatRegroup
  <2>8. y3 \o (q \o x) = (y3 \o q) \o x /\ y3 \o (z \o q) = (y3 \o z) \o q
    BY <2>5, <2>7 DEF Regrouped
  <2> QED
    BY <1>3, <1>24, <1>26, <1>29, <2>2, <2>3, <2>5, <2>6, <2>8
<1> QED
  BY <1>4, <1>7, <1>11, <1>30, <1>31

\* The whole assignment is read as the command, and the shell is ready again.
LEMMA ReadsAssignment ==
  ASSUME NEW S, Alphabet(S), NEW cs \in Seq(Seq(Seq(S))),
         NEW n \in Seq(Upper \union Digits), n # <<>>, NEW v \in Seq(S)
  PROVE  /\ Assignment(n, v) = Body(n, v) \o <<"nl">>
         /\ Assignment(n, v) \in Seq(S)
         /\ Command(n, v) \in Seq(Seq(S))
         /\ Reads(S, Ready(cs), Assignment(n, v)) = Ready(Append(cs, Command(n, v)))
<1>1. PICK b : b = Body(n, v)
  OBVIOUS
<1>2. b \in Seq(S) /\ Reads(S, Ready(cs), b) = Shell("word", n \o <<"=">> \o v, << <<"export">> >>, cs)
  BY <1>1, ReadsBody
<1>3. Assignment(n, v) = b \o <<"nl">>
  <2>1. "nl" \in S /\ "export" \in S /\ " " \in S /\ "=" \in S
    BY DEF Alphabet
  <2>2. n \in Seq(S)
    BY SeqMonotonic DEF Alphabet
  <2> QED
    BY <1>1 DEF Assignment, Body
<1>4. "nl" \in S /\ "export" \in S /\ "=" \in S
  BY DEF Alphabet
<1>5. Ready(cs) \in Shells(S)
  <2>1. PICK e : e = <<>>
    OBVIOUS
  <2>2. e \in Seq(S) /\ e \in Seq(Seq(S)) /\ "gap" \in Modes
    BY <2>1, EmptySeq DEF Modes
  <2>3. Shell("gap", e, e, cs) \in Shells(S)
    BY <2>2, ShellState
  <2> QED
    BY <2>1, <2>3 DEF Ready
<1>6. b \o <<"nl">> \in Seq(S) /\ Reads(S, Ready(cs), b \o <<"nl">>) = ShellByte(Reads(S, Ready(cs), b), "nl")
  <2>1. PICK s : s = Ready(cs)
    OBVIOUS
  <2> QED
    BY <1>2, <1>4, <1>5, <2>1, ReadsOneMore
<1>7. Command(n, v) = Append(<< <<"export">> >>, n \o <<"=">> \o v)
  <2>1. PICK x, y : x = <<"export">> /\ y = n \o <<"=">> \o v
    OBVIOUS
  <2>2. Append(<<x>>, y) = <<x, y>>
    BY AppendTwo
  <2> QED
    BY <2>1, <2>2 DEF Command
<1>8. ShellByte(Shell("word", n \o <<"=">> \o v, << <<"export">> >>, cs), "nl")
        = Shell("gap", <<>>, <<>>, Append(cs, Command(n, v)))
  <2>1. PICK x, y : x = << <<"export">> >> /\ y = n \o <<"=">> \o v
    OBVIOUS
  <2>2. ShellByte(Shell("word", y, x, cs), "nl") = Shell("gap", <<>>, <<>>, Append(cs, Append(x, y)))
    BY LineEnds
  <2> QED
    BY <1>7, <2>1, <2>2
<1>9. Command(n, v) \in Seq(Seq(S))
  <2>1. n \in Seq(S)
    BY SeqMonotonic DEF Alphabet
  <2>2. PICK w : w = n \o <<"=">>
    OBVIOUS
  <2>3. w \in Seq(S)
    BY <1>4, <2>1, <2>2, OneMore
  <2>4. PICK x, y : x = <<"export">> /\ y = w \o v
    OBVIOUS
  <2>5. x \in Seq(S)
    BY <1>4, <2>4, OneIs
  <2>6. y \in Seq(S)
    BY <2>3, <2>4, ConcatIn
  <2>7. <<x, y>> \in Seq(Seq(S))
    BY <2>5, <2>6
  <2> QED
    BY <2>2, <2>4, <2>7 DEF Command
<1> QED
  BY <1>1, <1>2, <1>3, <1>6, <1>8, <1>9 DEF Ready

\* What export writes for each name of N, and the commands read from that.
Assignments(N, val) == [n \in N |-> Assignment(n, val[n])]
CommandsOf(N, val) == [n \in N |-> Command(n, val[n])]

Entries(S, N, val) == \A n \in N : n \in Seq(Upper \union Digits) /\ n # <<>> /\ val[n] \in Seq(S)

LEMMA EntriesMap ==
  ASSUME NEW S, Alphabet(S), NEW N, NEW val, Entries(S, N, val)
  PROVE  Maps(N, Seq(S), Assignments(N, val)) /\ Maps(N, Seq(Seq(S)), CommandsOf(N, val))
<1>1. SUFFICES ASSUME NEW n \in N
               PROVE  Assignment(n, val[n]) \in Seq(S) /\ Command(n, val[n]) \in Seq(Seq(S))
  BY DEF Maps, Assignments, CommandsOf
<1>2. n \in Seq(Upper \union Digits) /\ n # <<>> /\ val[n] \in Seq(S)
  BY DEF Entries
<1>3. PICK v : v = val[n]
  OBVIOUS
<1>4. PICK cs : cs = <<>>
  OBVIOUS
<1>5. cs \in Seq(Seq(Seq(S)))
  BY <1>4, EmptySeq
<1> QED
  BY <1>2, <1>3, <1>5, ReadsAssignment

LEMMA ReadyIs ==
  ASSUME NEW S, NEW cs \in Seq(Seq(Seq(S)))
  PROVE  Ready(cs) \in Shells(S)
<1>1. PICK e : e = <<>>
  OBVIOUS
<1>2. e \in Seq(S) /\ e \in Seq(Seq(S)) /\ "gap" \in Modes
  BY <1>1, EmptySeq DEF Modes
<1>3. Shell("gap", e, e, cs) \in Shells(S)
  BY <1>2, ShellState
<1> QED
  BY <1>1, <1>3 DEF Ready

ReadsAs(S, N, val, ns) ==
  Reads(S, Ready(<<>>), Spelled(Assignments(N, val), ns)) = Ready(Mapped(CommandsOf(N, val), ns))

LEMMA ReadsAll ==
  ASSUME NEW S, Alphabet(S), NEW N, NEW val, Entries(S, N, val), NEW ns \in Seq(N)
  PROVE  ReadsAs(S, N, val, ns)
<1> DEFINE M == Assignments(N, val)
           C == CommandsOf(N, val)
           T == {u \in Seq(N) : ReadsAs(S, N, val, u)}
<1>1. Maps(N, Seq(S), M) /\ Maps(N, Seq(Seq(S)), C)
  BY EntriesMap
<1>2. PICK s : s = Ready(<<>>)
  OBVIOUS
<1>3. s \in Shells(S)
  <2>1. PICK e : e = <<>>
    OBVIOUS
  <2>2. e \in Seq(Seq(Seq(S)))
    BY <2>1, EmptySeq
  <2> QED
    BY <1>2, <2>1, <2>2, ReadyIs
<1>4. \A n \in N : M[n] = Assignment(n, val[n]) /\ C[n] = Command(n, val[n])
  BY DEF Assignments, CommandsOf
<1>5. ReadsAs(S, N, val, <<>>)
  <2>1. Spelled(M, <<>>) = <<>> /\ Mapped(C, <<>>) = <<>>
    BY SpelledEmpty DEF Mapped
  <2>2. Reads(S, s, <<>>) = s
    BY <1>3, ReadsNothing
  <2> QED
    BY <1>2, <2>1, <2>2 DEF ReadsAs
<1> HIDE DEF M, C
<1>6. ASSUME NEW u \in Seq(N), NEW n \in N, ReadsAs(S, N, val, u)
      PROVE  ReadsAs(S, N, val, Append(u, n))
  <2>1. PICK x : x = Spelled(M, u)
    OBVIOUS
  <2>2. x \in Seq(S) /\ Spelled(M, Append(u, n)) = x \o M[n]
    <3>1. Spelled(M, u) \in Seq(S) /\ Spelled(M, Append(u, n)) = Spelled(M, u) \o M[n]
      BY <1>1, SpelledAppend
    <3> QED
      BY <2>1, <3>1
  <2>3. PICK R : R = Seq(Seq(S))
    OBVIOUS
  <2>4. PICK cs : cs = Mapped(C, u)
    OBVIOUS
  <2>5. cs \in Seq(R) /\ Mapped(C, Append(u, n)) = Append(cs, C[n])
    BY <1>1, <2>3, <2>4, MappedAppend, SMTT(20)
  <2>6. PICK v : v = val[n]
    OBVIOUS
  <2>7. n \in Seq(Upper \union Digits) /\ n # <<>> /\ v \in Seq(S)
    BY <2>6 DEF Entries
  <2>8. cs \in Seq(Seq(Seq(S)))
    BY <2>3, <2>5
  <2>9. PICK a : a = Assignment(n, v)
    OBVIOUS
  <2>10. a \in Seq(S) /\ Reads(S, Ready(cs), a) = Ready(Append(cs, Command(n, v)))
    BY <2>7, <2>8, <2>9, ReadsAssignment, ZenonT(40)
  <2>11. Reads(S, s, x \o a) = Reads(S, Reads(S, s, x), a)
    BY <1>3, <2>2, <2>10, ReadsOn
  <2>12. Reads(S, s, x) = Ready(cs)
    BY <1>2, <1>6, <2>1, <2>4 DEF ReadsAs, M, C
  <2>13. Reads(S, s, Spelled(M, Append(u, n))) = Ready(Mapped(C, Append(u, n)))
    BY <1>4, <2>2, <2>5, <2>6, <2>9, <2>10, <2>11, <2>12
  <2> QED
    BY <1>2, <2>13 DEF ReadsAs, M, C
<1>7. Seq(N) \subseteq T
  <2>1. <<>> \in T
    BY <1>5, EmptySeq
  <2>2. \A u \in Seq(N), n \in N : u \in T => Append(u, n) \in T
    BY <1>6
  <2> HIDE DEF T
  <2> QED
    BY <2>1, <2>2, SequenceInduction
<1> QED
  BY <1>7

\* A command substitution takes the newline at the end away, and no other byte.
LEMMA SubstituteIs ==
  ASSUME NEW S, "nl" \in S, "nul" \notin S, NEW t \in Seq(S), NEW b \in S, b # "nl",
         NEW p, p = Append(t, b), NEW s, s = Append(p, "nl")
  PROVE  Substitute(s) = p
<1>1. p \in Seq(S)
  OBVIOUS
<1>2. s \in Seq(S)
  BY <1>1
<1>3. PICK n : n = Len(p)
  OBVIOUS
<1>4. n \in Nat /\ n >= 1 /\ p[n] = b
  BY <1>1, <1>3, AppendElements
<1>5. Len(s) = n + 1 /\ s[n + 1] = "nl" /\ \A i \in 1..n : s[i] = p[i]
  BY <1>1, <1>2, <1>3, AppendElements
<1>6. Keep(s, ToSet(s) \ {"nul"}) = s
  <2>1. "nul" \notin ToSet(s)
    BY <1>2, LenProperties DEF ToSet
  <2>2. ToSet(s) \subseteq ToSet(s) \ {"nul"}
    BY <2>1
  <2> QED
    BY <1>2, <2>2, KeepAll
<1> DEFINE I == {i \in 1..Len(s) : s[i] # "nl"}
<1>7. SelectLastInSeq(s, LAMBDA c : c # "nl") = IF I # {} THEN Max(I) ELSE 0
  BY DEF SelectLastInSeq
<1>8. n \in I /\ n + 1 \notin I /\ I \subseteq 1..n /\ I \in SUBSET (1..Len(s)) /\ Len(s) \in Nat
  BY <1>4, <1>5
<1> HIDE DEF I
<1>9. Max(I) \in I /\ \A k \in I : k <= Max(I)
  BY <1>8, MaxIn
<1>10. Max(I) = n
  <2>1. PICK m : m = Max(I)
    OBVIOUS
  <2>2. m \in 1..n /\ n <= m
    BY <1>8, <1>9, <2>1
  <2>3. m = n
    BY <1>4, <2>2
  <2> QED
    BY <2>1, <2>3
<1>11. StripNewlines(s) = SubSeq(s, 1, n)
  BY <1>7, <1>8, <1>10 DEF StripNewlines
<1>12. SubSeq(s, 1, n) = p
  BY <1>1, <1>2, <1>3, <1>4, <1>5
<1> QED
  BY <1>1, <1>2, <1>6, <1>11, <1>12 DEF Substitute

LEMMA CommandsRead ==
  ASSUME NEW S, Alphabet(S), NEW s \in Seq(S)
  PROVE  FoldLeft(ShellByte, ShellStart, s) = Reads(S, Ready(<<>>), s)
<1> DEFINE A == Shells(S)
           a == ShellStart
           F == ShellStep(S)
           G(g) == g = [t \in SUBSET DOMAIN s |->
                          IF t = {} THEN a ELSE ShellByte(g[t \ {Max(t)}], s[Max(t)])]
           g == CHOOSE g : G(g)
<1>1. FoldLeft(ShellByte, ShellStart, s) = g[DOMAIN s]
  BY DEF FoldLeft, MapThenFoldSet
<1>2. a = Ready(<<>>)
  BY DEF Ready, Shell, ShellStart
<1>3. Folds(A, S, F, a)
  <2>1. PICK e : e = <<>>
    OBVIOUS
  <2>2. e \in Seq(Seq(Seq(S)))
    BY <2>1, EmptySeq
  <2>3. Ready(e) \in Shells(S)
    BY <2>2, ReadyIs
  <2> HIDE DEF a
  <2> QED
    BY <1>2, <2>1, <2>3, ShellFolds
<1>4. \A p \in A, b \in S : F[<<p, b>>] = ShellByte(p, b)
  BY DEF ShellStep
<1> HIDE DEF A, F, a
<1>5. PICK f : Table(A, S, F, a, s, f)
  BY <1>3, TableExists
<1>6. G(f)
  BY <1>4, <1>5 DEF Table
<1>7. G(g)
  BY <1>6
<1> HIDE DEF g
<1>8. Unfolds(A, S, F, a, s, g)
  BY <1>4, <1>7 DEF Unfolds
<1>9. g[DOMAIN s] = Fold(F, a, s)
  BY <1>3, <1>8, FoldIs
<1> QED
  BY <1>1, <1>2, <1>9 DEF F, Reads

\* A text and an assignment without its newline end with a quote.
LEMMA EndsQuoted ==
  ASSUME NEW S, Alphabet(S), NEW x \in Seq(S),
         NEW n \in Seq(Upper \union Digits), n # <<>>, NEW v \in Seq(S)
  PROVE  \E t \in Seq(S), b \in S : x \o Body(n, v) = t \o <<b>> /\ b # "nl"
<1>1. "'" \in S /\ "export" \in S /\ " " \in S /\ "=" \in S
  BY DEF Alphabet
<1>2. n \in Seq(S)
  BY SeqMonotonic DEF Alphabet
<1>3. PICK y : y = Spelled(QuotedBytes(S), v)
  OBVIOUS
<1>4. PICK q : q = <<"'">>
  OBVIOUS
<1>5. q \in Seq(S)
  BY <1>1, <1>4, OneIs
<1>6. y \in Seq(S) /\ ShellQuote(v) = q \o y \o q
  BY <1>3, <1>4, QuoteIs
<1>7. PICK g, h : g = <<"export", " ">> /\ h = <<"=">>
  OBVIOUS
<1>8. g \in Seq(S)
  <2>1. <<"export", " ">> \in Seq(S)
    BY <1>1, TwoIn
  <2> QED
    BY <1>7, <2>1
<1>9. h \in Seq(S)
  BY <1>1, <1>7, OneIs
<1>10. PICK a : a = g \o n \o h
  OBVIOUS
<1>11. a \in Seq(S)
  BY <1>2, <1>8, <1>9, <1>10
<1>12. PICK z : z = q \o y
  OBVIOUS
<1>13. z \in Seq(S)
  BY <1>5, <1>6, <1>12, ConcatIn
<1>14. Body(n, v) = a \o (z \o q)
  BY <1>6, <1>7, <1>10, <1>12 DEF Body
<1>15. PICK c : c = a \o z
  OBVIOUS
<1>16. c \in Seq(S)
  BY <1>11, <1>13, <1>15, ConcatIn
<1>17. a \o (z \o q) = c \o q
  <2>1. Regrouped(a, z, q)
    BY <1>5, <1>11, <1>13, ConcatRegroup
  <2> QED
    BY <1>15, <2>1 DEF Regrouped
<1>18. x \o (c \o q) = (x \o c) \o q
  BY <1>5, <1>16
<1>19. x \o c \in Seq(S)
  BY <1>16, ConcatIn
<1> QED
  BY <1>1, <1>4, <1>14, <1>17, <1>18, <1>19

\* What the shell makes of all of it, the last newline gone.
LEMMA CommandsAll ==
  ASSUME NEW S, Alphabet(S), "nul" \notin S, NEW N, NEW val, Entries(S, N, val),
         NEW ns \in Seq(N), ns # <<>>
  PROVE  Commands(Substitute(Spelled(Assignments(N, val), ns))) = Mapped(CommandsOf(N, val), ns)
<1> DEFINE M == Assignments(N, val)
           C == CommandsOf(N, val)
<1>1. Maps(N, Seq(S), M) /\ Maps(N, Seq(Seq(S)), C)
  BY EntriesMap
<1>2. \A m \in N : M[m] = Assignment(m, val[m]) /\ C[m] = Command(m, val[m])
  BY DEF Assignments, CommandsOf
<1> HIDE DEF M, C
<1>0. PICK u \in Seq(N), n \in N : ns = Append(u, n)
  BY SequenceEmptyOrAppend
<1>3. PICK x : x = Spelled(M, u)
  OBVIOUS
<1>4. x \in Seq(S) /\ Spelled(M, ns) = x \o M[n]
  <2>1. Spelled(M, u) \in Seq(S) /\ Spelled(M, Append(u, n)) = Spelled(M, u) \o M[n]
    BY <1>1, SpelledAppend
  <2> QED
    BY <1>0, <1>3, <2>1
<1>5. PICK R : R = Seq(Seq(S))
  OBVIOUS
<1>6. PICK cs : cs = Mapped(C, u)
  OBVIOUS
<1>7. cs \in Seq(R) /\ Mapped(C, ns) = Append(cs, C[n])
  <2>1. Mapped(C, u) \in Seq(R) /\ Mapped(C, Append(u, n)) = Append(Mapped(C, u), C[n])
    BY <1>1, <1>5, MappedAppend
  <2> QED
    BY <1>0, <1>6, <2>1
<1>8. cs \in Seq(Seq(Seq(S)))
  BY <1>5, <1>7
<1>9. PICK v : v = val[n]
  OBVIOUS
<1>10. n \in Seq(Upper \union Digits) /\ n # <<>> /\ v \in Seq(S)
  BY <1>9 DEF Entries
<1>11. PICK y, ws, w : y = Body(n, v) /\ ws = << <<"export">> >> /\ w = n \o <<"=">> \o v
  OBVIOUS
<1>12. y \in Seq(S) /\ Reads(S, Ready(cs), y) = Shell("word", w, ws, cs)
  BY <1>8, <1>10, <1>11, ReadsBody
<1>13. M[n] = y \o <<"nl">>
  <2>1. Assignment(n, v) = Body(n, v) \o <<"nl">>
    BY <1>8, <1>10, ReadsAssignment
  <2> QED
    BY <1>2, <1>9, <1>11, <2>1
<1>14. Append(ws, w) = C[n]
  <2>1. PICK e : e = <<"export">>
    OBVIOUS
  <2>2. Append(<<e>>, w) = <<e, w>>
    BY AppendTwo
  <2> QED
    BY <1>2, <1>9, <1>11, <2>1, <2>2 DEF Command
<1>15. PICK p : p = x \o y
  OBVIOUS
<1>16. p \in Seq(S)
  BY <1>4, <1>12, <1>15, ConcatIn
<1>17. Spelled(M, ns) = p \o <<"nl">>
  <2>1. PICK q : q = <<"nl">>
    OBVIOUS
  <2>2. q \in Seq(S)
    BY <2>1, OneIs DEF Alphabet
  <2>3. x \o (y \o q) = (x \o y) \o q
    <3>1. x \in Seq(S)
      BY <1>4
    <3>2. y \in Seq(S)
      BY <1>12
    <3> QED
      <4>1. Regrouped(x, y, q)
        BY <2>2, <3>1, <3>2, ConcatRegroup
      <4> QED
        BY <4>1 DEF Regrouped
  <2> QED
    BY <1>4, <1>13, <1>15, <2>1, <2>3
<1>18. PICK t \in Seq(S), b \in S : p = t \o <<b>> /\ b # "nl"
  <2>1. \E t \in Seq(S), b \in S : x \o Body(n, v) = t \o <<b>> /\ b # "nl"
    BY <1>4, <1>10, EndsQuoted
  <2> QED
    BY <1>11, <1>15, <2>1
<1>19. Substitute(Spelled(M, ns)) = p
  <2>1. "nl" \in S
    BY DEF Alphabet
  <2>2. PICK s : s = Spelled(M, ns)
    OBVIOUS
  <2>3. s = p \o <<"nl">>
    BY <1>17, <2>2
  <2>4. p = Append(t, b) /\ p \in Seq(S)
    BY <1>18, OneMore
  <2>5. s = Append(p, "nl")
    BY <2>1, <2>3, <2>4, OneMore
  <2>6. Substitute(s) = p
    BY <1>18, <2>1, <2>4, <2>5, SubstituteIs
  <2> QED
    BY <2>2, <2>6
<1>20. PICK s : s = Ready(<<>>)
  OBVIOUS
<1>21. s \in Shells(S)
  <2>1. PICK e : e = <<>>
    OBVIOUS
  <2>2. e \in Seq(Seq(Seq(S)))
    BY <2>1, EmptySeq
  <2> QED
    BY <1>20, <2>1, <2>2, ReadyIs
<1>22. Reads(S, s, x) = Ready(cs)
  <2>1. ReadsAs(S, N, val, u)
    BY ReadsAll
  <2> QED
    BY <1>3, <1>6, <1>20, <2>1 DEF ReadsAs, M, C
<1>23. Reads(S, s, p) = Shell("word", w, ws, cs)
  <2>1. Reads(S, s, x \o y) = Reads(S, Reads(S, s, x), y)
    BY <1>4, <1>12, <1>21, ReadsOn
  <2> QED
    BY <1>12, <1>15, <1>22, <2>1
<1>24. FoldLeft(ShellByte, ShellStart, p) = Shell("word", w, ws, cs)
  BY <1>16, <1>20, <1>23, CommandsRead
<1>25. EndCommand(Shell("word", w, ws, cs)) = Shell("gap", <<>>, <<>>, Append(cs, Append(ws, w)))
  BY LineEnds
<1>26. Commands(p) = Append(cs, C[n])
  <2>1. PICK z : z = Shell("word", w, ws, cs)
    OBVIOUS
  <2>2. z.mode = "word"
    BY <2>1 DEF Shell
  <2>3. z.mode \notin Quotes \union {"\"\\"}
    BY <2>2 DEF Quotes
  <2>4. Commands(p) = EndCommand(z).commands
    BY <1>24, <2>1, <2>3 DEF Commands
  <2> QED
    BY <1>14, <1>25, <2>1, <2>4 DEF Shell
<1> QED
  BY <1>7, <1>19, <1>26 DEF M, C

\* A command that assigns is one: what follows export, cut at its first "=".
LEMMA CommandAssigns ==
  ASSUME NEW S, Alphabet(S), NEW n \in Seq(Upper \union Digits), n # <<>>, NEW v \in Seq(S)
  PROVE  /\ Command(n, v) # <<>> /\ Head(Command(n, v)) = <<"export">>
         /\ ToSet(Tail(Command(n, v))) = {n \o <<"=">> \o v}
         /\ Occurs("=", n \o <<"=">> \o v)
         /\ Before(Index("=", n \o <<"=">> \o v), n \o <<"=">> \o v) = n
         /\ After(Index("=", n \o <<"=">> \o v), n \o <<"=">> \o v) = v
<1>1. PICK w : w = n \o <<"=">> \o v
  OBVIOUS
<1>2. PICK e : e = <<"export">>
  OBVIOUS
<1>3. PICK c : c = <<e, w>>
  OBVIOUS
<1>4. Command(n, v) = c
  BY <1>1, <1>2, <1>3 DEF Command
<1>5. c # <<>> /\ Head(c) = e /\ Tail(c) = <<w>>
  BY <1>3
<1>6. ToSet(<<w>>) = {w}
  BY DEF ToSet
<1>7. n \in Seq(S) /\ "=" \in S
  BY SeqMonotonic DEF Alphabet
<1>8. ~Occurs("=", n)
  <2>1. "=" \notin Upper \union Digits
    BY DEF Upper, Digits
  <2>2. \A i \in DOMAIN n : n[i] \in Upper \union Digits
    BY LenProperties
  <2> QED
    BY <2>1, <2>2 DEF Occurs
<1>9. Occurs("=", w) /\ Before(Index("=", w), w) = n /\ After(Index("=", w), w) = v
  <2>1. PICK c0 : c0 = "="
    OBVIOUS
  <2>2. Joined(n, c0, v, w) /\ c0 \in S /\ ~Occurs(c0, n)
    BY <1>1, <1>7, <1>8, <2>1 DEF Joined
  <2>3. Occurs(c0, w) /\ Before(Index(c0, w), w) = n /\ After(Index(c0, w), w) = v
    BY <1>7, <2>2, CutAtFirst
  <2> QED
    BY <2>1, <2>3
<1> QED
  BY <1>1, <1>2, <1>4, <1>5, <1>6, <1>9

\* No name, no assignment.
LEMMA EvaluatedNothing == Evaluated(<<>>) = {}
<1>1. PICK e : e = <<>>
  OBVIOUS
<1>2. PICK S : S = Upper \union Digits \union {"export", " ", "=", "'", "\\", "nl"}
  OBVIOUS
<1>3. Alphabet(S) /\ e \in Seq(S)
  BY <1>1, <1>2, EmptySeq DEF Alphabet
<1>4. Substitute(e) = e
  <2>1. Keep(e, ToSet(e) \ {"nul"}) = e
    BY <1>1, KeepEmpty
  <2> DEFINE I == {i \in 1..Len(e) : e[i] # "nl"}
  <2>2. SelectLastInSeq(e, LAMBDA c : c # "nl") = IF I # {} THEN Max(I) ELSE 0
    BY DEF SelectLastInSeq
  <2>3. I = {}
    BY <1>1, EmptySeq
  <2>4. StripNewlines(e) = SubSeq(e, 1, 0)
    BY <2>2, <2>3 DEF StripNewlines
  <2>5. SubSeq(e, 1, 0) = e
    BY <1>1
  <2> QED
    BY <2>1, <2>4, <2>5 DEF Substitute
<1>5. FoldLeft(ShellByte, ShellStart, e) = Ready(<<>>)
  <2>1. e \in Seq(Seq(Seq(S)))
    BY <1>1, EmptySeq
  <2>2. Ready(e) \in Shells(S)
    BY <2>1, ReadyIs
  <2>3. Reads(S, Ready(e), <<>>) = Ready(e)
    BY <1>3, <2>2, ReadsNothing
  <2> QED
    BY <1>1, <1>3, <2>3, CommandsRead
<1>6. Commands(e) = << <<>> >>
  <2>1. PICK z : z = Ready(<<>>)
    OBVIOUS
  <2>2. z = [mode |-> "gap", word |-> <<>>, words |-> <<>>, commands |-> <<>>]
    BY <2>1 DEF Ready, Shell
  <2>3. z.mode \notin Quotes \union {"\"\\"}
    BY <2>2 DEF Quotes
  <2>4. Commands(e) = EndCommand(z).commands
    BY <1>5, <2>1, <2>3 DEF Commands
  <2>5. EndWord(z) = z
    BY <2>2 DEF EndWord
  <2>6. EndCommand(z) = [z EXCEPT !.commands = Append(@, z.words), !.words = <<>>, !.mode = "gap"]
    BY <2>5 DEF EndCommand
  <2>7. EndCommand(z).commands = Append(<<>>, <<>>)
    BY <2>2, <2>6
  <2> QED
    BY <2>4, <2>7
<1> DEFINE c == << <<>> >>
<1>7. \A i \in DOMAIN c : c[i] = <<>>
  OBVIOUS
<1> HIDE DEF c
<1>8. Commands(Substitute(e)) = c
  BY <1>4, <1>6 DEF c
<1> QED
  BY <1>1, <1>7, <1>8 DEF Evaluated

Assigned(val, names) == {[key |-> n, value |-> val[n]] : n \in names}

LEMMA EvaluatedIs ==
  ASSUME NEW S, Alphabet(S), "nul" \notin S, NEW N, NEW val, Entries(S, N, val), NEW ns \in Seq(N)
  PROVE  Evaluated(Spelled(Assignments(N, val), ns)) = Assigned(val, ToSet(ns))
<1>1. CASE ns = <<>>
  <2>1. Spelled(Assignments(N, val), ns) = <<>>
    BY <1>1, SpelledEmpty
  <2>2. ToSet(ns) = {}
    BY <1>1 DEF ToSet
  <2> QED
    BY <2>1, <2>2, EvaluatedNothing DEF Assigned
<1>2. CASE ns # <<>>
  <2>1. PICK o : o = Spelled(Assignments(N, val), ns)
    OBVIOUS
  <2>2. PICK c : c = Commands(Substitute(o))
    OBVIOUS
  <2>3. c = Mapped(CommandsOf(N, val), ns)
    <3>1. Commands(Substitute(Spelled(Assignments(N, val), ns))) = Mapped(CommandsOf(N, val), ns)
      BY <1>2, CommandsAll
    <3> QED
      BY <2>1, <2>2, <3>1
  <2>4. \A i \in DOMAIN ns : ns[i] \in N
    BY LenProperties
  <2>5. DOMAIN c = DOMAIN ns /\ \A i \in DOMAIN ns : c[i] = Command(ns[i], val[ns[i]])
    BY <2>3, <2>4 DEF Mapped, CommandsOf
  <2> DEFINE Word(n) == n \o <<"=">> \o val[n]
             X == {i \in DOMAIN c : c[i] # <<>> /\ Head(c[i]) = <<"export">>}
             W == {w \in UNION {ToSet(Tail(c[i])) : i \in X} : Occurs("=", w)}
  <2>6. ASSUME NEW n \in N
        PROVE  /\ Command(n, val[n]) # <<>> /\ Head(Command(n, val[n])) = <<"export">>
               /\ ToSet(Tail(Command(n, val[n]))) = {Word(n)}
               /\ Occurs("=", Word(n))
               /\ Before(Index("=", Word(n)), Word(n)) = n
               /\ After(Index("=", Word(n)), Word(n)) = val[n]
    <3>1. PICK v : v = val[n]
      OBVIOUS
    <3>2. n \in Seq(Upper \union Digits) /\ n # <<>> /\ v \in Seq(S)
      BY <3>1 DEF Entries
    <3> QED
      BY <3>1, <3>2, CommandAssigns
  <2> HIDE DEF Word
  <2>7. X = DOMAIN ns
    <3>1. \A i \in DOMAIN ns : c[i] # <<>> /\ Head(c[i]) = <<"export">>
      <4>1. SUFFICES ASSUME NEW i \in DOMAIN ns PROVE c[i] # <<>> /\ Head(c[i]) = <<"export">>
        OBVIOUS
      <4>2. PICK n : n = ns[i]
        OBVIOUS
      <4>3. Command(n, val[n]) # <<>> /\ Head(Command(n, val[n])) = <<"export">>
        BY <2>4, <2>6, <4>2
      <4> QED
        BY <2>5, <4>2, <4>3
    <3> QED
      BY <2>5, <3>1
  <2>8. \A i \in X : ToSet(Tail(c[i])) = {Word(ns[i])}
    BY <2>4, <2>5, <2>6, <2>7
  <2>9. W = {Word(ns[i]) : i \in DOMAIN ns}
    <3>1. UNION {ToSet(Tail(c[i])) : i \in X} = {Word(ns[i]) : i \in DOMAIN ns}
      <4> HIDE DEF X
      <4>1. \A w : w \in UNION {ToSet(Tail(c[i])) : i \in X} <=> \E i \in X : w \in ToSet(Tail(c[i]))
        OBVIOUS
      <4>2. \A w : (\E i \in X : w \in ToSet(Tail(c[i]))) <=> \E i \in DOMAIN ns : w = Word(ns[i])
        BY <2>7, <2>8
      <4> QED
        BY <4>1, <4>2
    <3> QED
      BY <2>4, <2>6, <3>1
  <2>10. Evaluated(o) = {[key |-> Before(Index("=", w), w), value |-> After(Index("=", w), w)] : w \in W}
    BY <2>2 DEF Evaluated
  <2> HIDE DEF W, X
  <2>11. Evaluated(o) = {[key |-> Before(Index("=", Word(ns[i])), Word(ns[i])),
                          value |-> After(Index("=", Word(ns[i])), Word(ns[i]))] : i \in DOMAIN ns}
    BY <2>9, <2>10
  <2>12. Evaluated(o) = {[key |-> ns[i], value |-> val[ns[i]]] : i \in DOMAIN ns}
    BY <2>4, <2>6, <2>11
  <2> QED
    BY <2>1, <2>12 DEF Assigned, ToSet
<1> QED
  BY <1>1, <1>2
-----------------------------------------------------------------------------
(***************************************************************************)
(* The buffered writer: what it has passed on and what waits are together  *)
(* all that was written to it.                                             *)
(***************************************************************************)
WriterStates(S) == {w \in [sent : Seq(S), waiting : Seq(S)] : Len(w.waiting) <= BufSize}
Passed(w) == w.sent \o w.waiting

LEMMA WriterIs ==
  ASSUME NEW S, NEW x \in Seq(S), NEW y \in Seq(S), Len(y) <= BufSize
  PROVE  Writer(x, y) \in WriterStates(S) /\ Passed(Writer(x, y)) = x \o y
BY DEF WriterStates, Writer, Passed

LEMMA WriteKeeps ==
  ASSUME NEW S, NEW w \in WriterStates(S), NEW t \in Seq(S)
  PROVE  Write(w, t) \in WriterStates(S) /\ Passed(Write(w, t)) = Passed(w) \o t
<1>1. PICK x, y : x = w.sent /\ y = w.waiting
  OBVIOUS
<1>2. x \in Seq(S)
  BY <1>1 DEF WriterStates
<1>3. y \in Seq(S)
  BY <1>1 DEF WriterStates
<1>4. Len(y) \in Nat /\ Len(t) \in Nat /\ BufSize \in Nat
  BY <1>3, LenProperties, BufSizeAssumption
<1>5. PICK room : room = BufSize - Len(y)
  OBVIOUS
<1>6. room \in Nat /\ Len(y) + room = BufSize
  <2>1. Len(y) <= BufSize
    BY <1>1 DEF WriterStates
  <2> QED
    BY <1>4, <1>5, <2>1
<1>7. PICK a, b : a = SubSeq(t, 1, room) /\ b = After(room, t)
  OBVIOUS
<1>8. Write(w, t) = IF Len(t) <= room THEN Writer(x, y \o t)
                    ELSE IF y = <<>> \/ Len(b) > BufSize THEN Writer(x \o y \o t, <<>>)
                    ELSE Writer(x \o (y \o a), b)
  BY <1>1, <1>5, <1>7 DEF Write
<1>9. Regrouped(x, y, t)
  BY <1>2, <1>3, ConcatRegroup
<1>10. CASE Len(t) <= room
  <2>1. PICK z : z = y \o t
    OBVIOUS
  <2>2. z \in Seq(S) /\ Len(z) <= BufSize
    BY <1>3, <1>4, <1>6, <1>10, <2>1, ConcatProperties
  <2>3. Writer(x, z) \in WriterStates(S) /\ Passed(Writer(x, z)) = x \o z
    BY <1>2, <2>2, WriterIs
  <2>4. x \o z = (x \o y) \o t
    BY <1>9, <2>1 DEF Regrouped
  <2> QED
    BY <1>1, <1>8, <1>10, <2>1, <2>3, <2>4 DEF Passed
<1>11. CASE ~(Len(t) <= room) /\ (y = <<>> \/ Len(b) > BufSize)
  <2>1. PICK z : z = x \o y \o t
    OBVIOUS
  <2>2. PICK e : e = <<>>
    OBVIOUS
  <2>3. z \in Seq(S)
    BY <1>2, <1>3, <2>1
  <2>4. e \in Seq(S) /\ Len(e) <= BufSize
    BY <1>4, <2>2, EmptySeq
  <2>5. Writer(z, e) \in WriterStates(S) /\ Passed(Writer(z, e)) = z \o e
    BY <2>3, <2>4, WriterIs
  <2>6. z \o e = z
    BY <2>2, <2>3, ConcatEmptySeq
  <2> QED
    BY <1>1, <1>8, <1>11, <2>1, <2>2, <2>5, <2>6 DEF Passed
<1>12. CASE ~(Len(t) <= room) /\ ~(y = <<>> \/ Len(b) > BufSize)
  <2>1. room \in 0..Len(t)
    BY <1>4, <1>6, <1>12
  <2>2. a \in Seq(S) /\ b \in Seq(S) /\ a \o b = t
    BY <1>7, <2>1, CutAt
  <2>3. Len(b) \in Nat /\ Len(b) <= BufSize
    BY <1>4, <1>12, <2>2, LenProperties
  <2>4. PICK z : z = x \o (y \o a)
    OBVIOUS
  <2>5. PICK p : p = x \o y
    OBVIOUS
  <2>6. p \in Seq(S)
    BY <1>2, <1>3, <2>5, ConcatIn
  <2>7. z = p \o a
    <3>1. a \in Seq(S)
      BY <2>2
    <3>2. Regrouped(x, y, a)
      BY <1>2, <1>3, <3>1, ConcatRegroup
    <3> QED
      BY <2>4, <2>5, <3>2 DEF Regrouped
  <2>8. z \in Seq(S)
    <3>1. a \in Seq(S)
      BY <2>2
    <3> QED
      BY <2>6, <2>7, <3>1, ConcatIn
  <2>9. Writer(z, b) \in WriterStates(S) /\ Passed(Writer(z, b)) = z \o b
    BY <2>2, <2>3, <2>8, WriterIs
  <2>10. z \o b = p \o t
    <3>1. a \in Seq(S)
      BY <2>2
    <3>2. b \in Seq(S)
      BY <2>2
    <3>3. Regrouped(p, a, b)
      BY <2>6, <3>1, <3>2, ConcatRegroup
    <3>4. p \o (a \o b) = (p \o a) \o b
      BY <3>3 DEF Regrouped
    <3> QED
      BY <2>2, <2>7, <3>4
  <2> QED
    BY <1>1, <1>8, <1>12, <2>4, <2>5, <2>9, <2>10 DEF Passed
<1> QED
  BY <1>10, <1>11, <1>12

ExportStep(S, N, val) == [x \in WriterStates(S) \X N |-> Write(x[1], Assignment(x[2], val[x[2]]))]

\* Entries whose assignments are texts, whether or not they can be exported.
Spellable(S, N, val) == \A n \in N : Assignment(n, val[n]) \in Seq(S)

LEMMA ExportFolds ==
  ASSUME NEW S, NEW N, NEW val, Spellable(S, N, val)
  PROVE  Folds(WriterStates(S), N, ExportStep(S, N, val), NewWriter)
<1>1. NewWriter \in WriterStates(S)
  <2>1. PICK e : e = <<>>
    OBVIOUS
  <2>2. e \in Seq(S) /\ Len(e) <= BufSize
    BY <2>1, EmptySeq, BufSizeAssumption
  <2>3. Writer(e, e) \in WriterStates(S)
    BY <2>2, WriterIs
  <2> QED
    BY <2>1, <2>3 DEF NewWriter
<1>2. ASSUME NEW w \in WriterStates(S), NEW n \in N
      PROVE  Write(w, Assignment(n, val[n])) \in WriterStates(S)
  <2>1. Assignment(n, val[n]) \in Seq(S)
    BY DEF Spellable
  <2> QED
    BY <2>1, WriteKeeps
<1> QED
  BY <1>1, <1>2 DEF Folds, ExportStep

LEMMA EntriesSpell ==
  ASSUME NEW S, Alphabet(S), NEW N, NEW val, Entries(S, N, val)
  PROVE  Spellable(S, N, val)
BY EntriesMap DEF Maps, Assignments, Spellable

LEMMA ExportWrites ==
  ASSUME NEW S, Alphabet(S), NEW N, NEW val, Entries(S, N, val), NEW ns \in Seq(N)
  PROVE  Passed(Fold(ExportStep(S, N, val), NewWriter, ns)) = Spelled(Assignments(N, val), ns)
<1> DEFINE F == ExportStep(S, N, val)
           M == Assignments(N, val)
           Good(u) == Passed(Fold(F, NewWriter, u)) = Spelled(M, u)
           T == {u \in Seq(N) : Good(u)}
<1>1. Folds(WriterStates(S), N, F, NewWriter)
  BY EntriesSpell, ExportFolds
<1>2. Maps(N, Seq(S), M)
  BY EntriesMap
<1>3. \A w \in WriterStates(S), n \in N : F[<<w, n>>] = Write(w, M[n])
  BY DEF ExportStep, Assignments
<1> HIDE DEF F, M
<1>4. Good(<<>>)
  <2>1. Fold(F, NewWriter, <<>>) = NewWriter
    BY <1>1, FoldEmpty
  <2>2. Passed(NewWriter) = <<>>
    BY DEF Passed, NewWriter, Writer
  <2> QED
    BY <2>1, <2>2, SpelledEmpty
<1>5. ASSUME NEW u \in Seq(N), NEW n \in N, Good(u) PROVE Good(Append(u, n))
  <2>1. Fold(F, NewWriter, u) \in WriterStates(S)
        /\ Fold(F, NewWriter, Append(u, n)) = F[<<Fold(F, NewWriter, u), n>>]
    BY <1>1, FoldAppend
  <2>2. Spelled(M, Append(u, n)) = Spelled(M, u) \o M[n]
    BY <1>2, SpelledAppend
  <2>3. M[n] \in Seq(S)
    BY <1>2 DEF Maps
  <2>4. Passed(Write(Fold(F, NewWriter, u), M[n])) = Passed(Fold(F, NewWriter, u)) \o M[n]
    BY <2>1, <2>3, WriteKeeps
  <2> QED
    BY <1>3, <1>5, <2>1, <2>2, <2>4
<1>6. Seq(N) \subseteq T
  <2> HIDE DEF Good
  <2>1. <<>> \in T /\ \A u \in Seq(N), n \in N : u \in T => Append(u, n) \in T
    BY <1>4, <1>5, EmptySeq
  <2> HIDE DEF T
  <2> QED
    BY <2>1, SequenceInduction
<1> QED
  BY <1>6 DEF F, M

\* Export succeeds only if every name and every value can be exported.
LEMMA ExportChecks ==
  ASSUME NEW S, NEW names \in Seq(S), NEW val, Export(names, val).ok
  PROVE  /\ \A n \in ToSet(names) : Exportable(n, val[n])
         /\ Export(names, val).out =
              Flush(FoldLeft(LAMBDA w, n : Write(w, Assignment(n, val[n])), NewWriter, names)).sent
<1> DEFINE I == {i \in 1..Len(names) : ~Exportable(names[i], val[names[i]])}
           bad == SelectInSeq(names, LAMBDA n : ~Exportable(n, val[n]))
           Result(ns) == FoldLeft(LAMBDA w, n : Write(w, Assignment(n, val[n])), NewWriter, ns)
           R == Result(IF bad = 0 THEN names ELSE Before(bad, names))
<1>1. bad = IF I # {} THEN Min(I) ELSE 0
  BY DEF SelectInSeq
<1>2. Export(names, val) = IF bad = 0 THEN [ok |-> TRUE, out |-> Flush(R).sent]
                           ELSE [ok |-> FALSE, out |-> R.sent]
  BY DEF Export
<1> HIDE DEF bad, Result
<1>3. bad = 0
  BY <1>2
<1>4. Export(names, val).out = Flush(Result(names)).sent
  BY <1>2, <1>3
<1>5. Len(names) \in Nat /\ I \subseteq Nat /\ 0 \notin I
  BY LenProperties
<1> HIDE DEF I
<1>6. I = {}
  <2>1. SUFFICES ASSUME I # {} PROVE FALSE
    OBVIOUS
  <2>2. PICK m \in I : \A k \in I : m <= k
    BY <1>5, <2>1, Least
  <2>3. \A x \in I : (\A y \in I : x <= y) => x = m
    BY <1>5, <2>2
  <2>4. Min(I) = m
    BY <2>2, <2>3, Zenon DEF Min
  <2> QED
    BY <1>1, <1>3, <1>5, <2>1, <2>2, <2>4
<1>7. \A n \in ToSet(names) : Exportable(n, val[n])
  BY <1>6, LenProperties DEF I, ToSet
<1> QED
  BY <1>4, <1>7 DEF Result

\* What the writer has after the assignments of ns.
Exported(ns, val) == FoldLeft(LAMBDA w, n : Write(w, Assignment(n, val[n])), NewWriter, ns)

LEMMA ExportedIs ==
  ASSUME NEW S, NEW N, NEW val, Spellable(S, N, val), NEW names \in Seq(N)
  PROVE  /\ Exported(names, val) = Fold(ExportStep(S, N, val), NewWriter, names)
         /\ Exported(names, val) \in WriterStates(S)
<1> DEFINE op(w, n) == Write(w, Assignment(n, val[n]))
           A == WriterStates(S)
           a == NewWriter
           F == ExportStep(S, N, val)
           G(g) == g = [t \in SUBSET DOMAIN names |->
                          IF t = {} THEN a ELSE op(g[t \ {Max(t)}], names[Max(t)])]
           g == CHOOSE g : G(g)
<1>1. Exported(names, val) = g[DOMAIN names]
  BY DEF Exported, FoldLeft, MapThenFoldSet
<1>2. Folds(A, N, F, a)
  BY ExportFolds
<1>3. \A p \in A, n \in N : F[<<p, n>>] = op(p, n)
  BY DEF ExportStep
<1> HIDE DEF op, A, F, a
<1>4. PICK f : Table(A, N, F, a, names, f)
  BY <1>2, TableExists
<1>5. G(f)
  BY <1>3, <1>4 DEF Table
<1>6. G(g)
  BY <1>5
<1> HIDE DEF g
<1>7. Unfolds(A, N, F, a, names, g)
  BY <1>3, <1>6 DEF Unfolds
<1>8. g[DOMAIN names] = Fold(F, a, names)
  BY <1>2, <1>7, FoldIs
<1>9. Fold(F, a, names) \in A
  BY <1>2, FoldType
<1> QED
  BY <1>1, <1>8, <1>9 DEF A, F, a

LEMMA ExportIs ==
  ASSUME NEW S, Alphabet(S), NEW N, NEW val, Entries(S, N, val), NEW names \in Seq(N),
         Export(names, val).ok
  PROVE  Export(names, val).out = Spelled(Assignments(N, val), names)
<1>1. Export(names, val).out = Flush(Exported(names, val)).sent
  BY ExportChecks DEF Exported
<1>2. Exported(names, val) = Fold(ExportStep(S, N, val), NewWriter, names)
  BY EntriesSpell, ExportedIs
<1>3. Passed(Fold(ExportStep(S, N, val), NewWriter, names)) = Spelled(Assignments(N, val), names)
  BY ExportWrites
<1> QED
  BY <1>1, <1>2, <1>3 DEF Flush, Writer, Passed

\* What export prints is text, also when it fails.
LEMMA ExportTyped ==
  ASSUME NEW S, Alphabet(S), NEW N, NEW val, NEW names \in Seq(N),
         \A n \in N : n \in Seq(S) /\ val[n] \in Seq(S)
  PROVE  Export(names, val).out \in Seq(S)
<1> DEFINE I == {i \in 1..Len(names) : ~Exportable(names[i], val[names[i]])}
           bad == SelectInSeq(names, LAMBDA n : ~Exportable(n, val[n]))
           ns == IF bad = 0 THEN names ELSE Before(bad, names)
<1>1. bad = IF I # {} THEN Min(I) ELSE 0
  BY DEF SelectInSeq
<1>2. Export(names, val) = IF bad = 0 THEN [ok |-> TRUE, out |-> Flush(Exported(ns, val)).sent]
                           ELSE [ok |-> FALSE, out |-> Exported(ns, val).sent]
  BY DEF Export, Exported
<1>3. Len(names) \in Nat /\ I \subseteq Nat /\ I \subseteq 1..Len(names)
  BY LenProperties
<1> HIDE DEF I
<1>4. bad \in 0..Len(names)
  <2> HIDE DEF ns
  <2>1. I # {} => Min(I) \in I
    BY <1>3, MinIn
  <2>2. PICK m : m = Min(I)
    OBVIOUS
  <2>3. bad = IF I # {} THEN m ELSE 0
    BY <1>1, <2>2
  <2> HIDE DEF bad
  <2>4. I # {} => m \in 1..Len(names)
    BY <1>3, <2>1, <2>2
  <2>5. PICK l : l = Len(names)
    OBVIOUS
  <2>6. l \in Nat /\ (I # {} => m \in 1..l)
    BY <1>3, <2>4, <2>5
  <2> QED
    BY <2>3, <2>5, <2>6
<1> HIDE DEF bad
<1>5. ns \in Seq(N)
  BY <1>3, <1>4 DEF Before
<1> HIDE DEF ns
<1>6. Spellable(S, N, val)
  <2>1. SUFFICES ASSUME NEW n \in N PROVE Assignment(n, val[n]) \in Seq(S)
    BY DEF Spellable
  <2>2. PICK v, q : v = val[n] /\ q = ShellQuote(v)
    OBVIOUS
  <2>3. v \in Seq(S) /\ n \in Seq(S)
    BY <2>2
  <2>4. Spelled(QuotedBytes(S), v) \in Seq(S) /\ q = <<"'">> \o Spelled(QuotedBytes(S), v) \o <<"'">>
    BY <2>2, <2>3, QuoteIs
  <2>5. "'" \in S /\ "export" \in S /\ " " \in S /\ "=" \in S /\ "nl" \in S
    BY DEF Alphabet
  <2>6. q \in Seq(S)
    <3>1. PICK s, a : s = Spelled(QuotedBytes(S), v) /\ a = <<"'">> \o s
      OBVIOUS
    <3>2. s \in Seq(S) /\ <<"'">> \in Seq(S)
      BY <2>4, <2>5, <3>1, OneIs
    <3>3. a \in Seq(S)
      BY <3>1, <3>2, ConcatIn
    <3>4. a \o <<"'">> \in Seq(S)
      BY <2>5, <3>3, OneMore
    <3> QED
      BY <2>4, <3>1, <3>4
  <2>7. PICK a, b : a = <<"export", " ">> \o n /\ b = a \o <<"=">>
    OBVIOUS
  <2>8. a \in Seq(S) /\ b \in Seq(S)
    <3>1. <<"export", " ">> \in Seq(S)
      BY <2>5, TwoIn
    <3>2. a \in Seq(S)
      BY <2>3, <2>7, <3>1, ConcatIn
    <3> QED
      BY <2>5, <2>7, <3>2, OneMore
  <2>9. PICK c : c = b \o q
    OBVIOUS
  <2>10. c \in Seq(S)
    BY <2>6, <2>8, <2>9, ConcatIn
  <2>11. c \o <<"nl">> \in Seq(S)
    BY <2>5, <2>10, OneMore
  <2> QED
    BY <2>2, <2>7, <2>9, <2>11 DEF Assignment
<1>7. Exported(ns, val) \in WriterStates(S)
  BY <1>5, <1>6, ExportedIs
<1>8. PICK x, y : x = Exported(ns, val).sent /\ y = Exported(ns, val).waiting
  OBVIOUS
<1>9. x \in Seq(S) /\ y \in Seq(S)
  BY <1>7, <1>8 DEF WriterStates
<1>10. x \o y \in Seq(S)
  BY <1>9, ConcatIn
<1> QED
  BY <1>2, <1>8, <1>9, <1>10 DEF Flush, Writer

\* A sequence that has no c is one of other elements.
LEMMA Without ==
  ASSUME NEW S, NEW c, NEW s \in Seq(S), ~Occurs(c, s)
  PROVE  s \in Seq(S \ {c})
<1>1. Len(s) \in Nat /\ s \in [1..Len(s) -> S] /\ DOMAIN s = 1..Len(s)
  BY LenProperties
<1>2. s \in [1..Len(s) -> S \ {c}]
  BY <1>1 DEF Occurs
<1> QED
  BY <1>1, <1>2, SeqDef

\* A name that can be exported is one of letters and digits.
LEMMA KeyIs ==
  ASSUME NEW n, IsText(n), CheckKey(n)
  PROVE  n \in Seq(Upper \union Digits) /\ n # <<>>
<1>1. n \in Seq(ToSet(n))
  BY DEF IsText
<1>2. Len(n) \in Nat /\ DOMAIN n = 1..Len(n) /\ n \in [1..Len(n) -> ToSet(n)]
  BY <1>1, LenProperties
<1>3. n \in [1..Len(n) -> Upper \union Digits]
  BY <1>2 DEF CheckKey
<1>4. n \in Seq(Upper \union Digits)
  BY <1>2, <1>3, SeqDef
<1> QED
  BY <1>4 DEF CheckKey

\* What a shell that evals the output of export then has is each name that was
\* to be exported with its value, byte for byte: export.go, with the quoting of
\* shellquote.go, for any names, any values and any size of the buffer.
THEOREM ExportEvaluates ==
  ASSUME NEW S, Alphabet(S), NEW names, IsText(names), NEW val,
         \A n \in ToSet(names) : IsText(n) /\ val[n] \in Seq(S),
         Export(names, val).ok
  PROVE  Evaluated(Export(names, val).out) = Assigned(val, ToSet(names))
<1> DEFINE N == ToSet(names)
           R == S \ {"nul"}
<1>1. names \in Seq(N)
  BY DEF IsText
<1>2. Alphabet(R) /\ "nul" \notin R
  BY DEF Alphabet, Upper, Digits
<1>3. \A n \in N : Exportable(n, val[n])
  <2> HIDE DEF N
  <2> QED
    BY <1>1, ExportChecks DEF N
<1>4. Entries(R, N, val)
  <2>1. SUFFICES ASSUME NEW n \in N
                 PROVE  n \in Seq(Upper \union Digits) /\ n # <<>> /\ val[n] \in Seq(R)
    BY DEF Entries
  <2>2. CheckKey(n) /\ ~Occurs("nul", val[n])
    BY <1>3 DEF Exportable
  <2>3. n \in Seq(Upper \union Digits) /\ n # <<>>
    BY <2>2, KeyIs
  <2>7. val[n] \in Seq(R)
    <3>1. PICK v : v = val[n]
      OBVIOUS
    <3> QED
      BY <2>2, <3>1, Without
  <2> QED
    BY <2>3, <2>7
<1> HIDE DEF N, R
<1>5. Export(names, val).out = Spelled(Assignments(N, val), names)
  BY <1>1, <1>2, <1>4, ExportIs
<1>6. Evaluated(Spelled(Assignments(N, val), names)) = Assigned(val, ToSet(names))
  BY <1>1, <1>2, <1>4, EvaluatedIs
<1> QED
  BY <1>5, <1>6
-----------------------------------------------------------------------------
(***************************************************************************)
(* The parser of .env lines, line by line.                                 *)
(***************************************************************************)
\* The entry of a line that has one, if nothing is wrong with it.
LineEntry(l) ==
  LET assignment == TrimLeft(TrimPrefix(<<"export", " ">>, TrimLeft(l)))
      eq == Index("=", assignment)
  IN  Entry(Before(eq, assignment), ParseValue(After(eq, assignment)).entries[1])

Results(B) == [ok : BOOLEAN, entries : Seq({LineEntry(l) : l \in B})]
Further(p, l) == IF p.ok THEN ParseLine(p, l) ELSE p
LineStep(B) == [x \in Results(B) \X B |-> Further(x[1], x[2])]

LEMMA LineTyped ==
  ASSUME NEW B, NEW p \in Results(B), NEW l \in B
  PROVE  Further(p, l) \in Results(B)
<1>1. ParseLine(p, l) \in {Refused, p, Add(p, LineEntry(l))}
  BY DEF ParseLine, LineEntry
<1>2. LineEntry(l) \in {LineEntry(m) : m \in B}
  OBVIOUS
<1>3. PICK E : E = {LineEntry(m) : m \in B}
  OBVIOUS
<1>4. PICK e : e = LineEntry(l)
  OBVIOUS
<1>5. e \in E /\ p.entries \in Seq(E)
  BY <1>2, <1>3, <1>4 DEF Results
<1>6. Append(p.entries, e) \in Seq(E) /\ <<>> \in Seq(E)
  BY <1>5, AppendProperties, EmptySeq
<1>7. Refused \in Results(B) /\ Add(p, e) \in Results(B)
  BY <1>3, <1>6 DEF Refused, Add, Parsed, Results
<1> QED
  BY <1>1, <1>4, <1>7 DEF Further

LEMMA LinesFold ==
  ASSUME NEW B, NEW p \in Results(B)
  PROVE  Folds(Results(B), B, LineStep(B), p)
BY LineTyped DEF Folds, LineStep

LEMMA NothingRead == ASSUME NEW B PROVE Parsed(<<>>) \in Results(B)
<1>1. PICK E : E = {LineEntry(l) : l \in B}
  OBVIOUS
<1>2. <<>> \in Seq(E)
  BY EmptySeq
<1> QED
  BY <1>1, <1>2 DEF Parsed, Results

\* What is read of lines.
LinesRead(lines) ==
  FoldLeft(LAMBDA parsed, l : IF parsed.ok THEN ParseLine(parsed, l) ELSE parsed, Parsed(<<>>), lines)

LEMMA LinesReadIs ==
  ASSUME NEW B, NEW lines \in Seq(B)
  PROVE  LinesRead(lines) = Fold(LineStep(B), Parsed(<<>>), lines)
<1> DEFINE op(p, l) == IF p.ok THEN ParseLine(p, l) ELSE p
           A == Results(B)
           a == Parsed(<<>>)
           F == LineStep(B)
           G(g) == g = [t \in SUBSET DOMAIN lines |->
                          IF t = {} THEN a ELSE op(g[t \ {Max(t)}], lines[Max(t)])]
           g == CHOOSE g : G(g)
<1>1. LinesRead(lines) = g[DOMAIN lines]
  BY DEF LinesRead, FoldLeft, MapThenFoldSet
<1>2. Folds(A, B, F, a)
  BY NothingRead, LinesFold
<1>3. \A p \in A, l \in B : F[<<p, l>>] = op(p, l)
  BY DEF LineStep, Further
<1> HIDE DEF op, A, F, a
<1>4. PICK f : Table(A, B, F, a, lines, f)
  BY <1>2, TableExists
<1>5. G(f)
  BY <1>3, <1>4 DEF Table
<1>6. G(g)
  BY <1>5
<1> HIDE DEF g
<1>7. Unfolds(A, B, F, a, lines, g)
  BY <1>3, <1>6 DEF Unfolds
<1>8. g[DOMAIN lines] = Fold(F, a, lines)
  BY <1>2, <1>7, FoldIs
<1> QED
  BY <1>1, <1>8 DEF A, F, a

\* Lines read after one that was refused change nothing.
LEMMA StaysRefused ==
  ASSUME NEW B, NEW p \in Results(B), ~p.ok, NEW lines \in Seq(B)
  PROVE  Fold(LineStep(B), p, lines) = p
<1> DEFINE F == LineStep(B)
           T == {u \in Seq(B) : Fold(F, p, u) = p}
<1>1. Folds(Results(B), B, F, p)
  BY LinesFold
<1>2. \A l \in B : F[<<p, l>>] = p
  BY DEF LineStep, Further
<1> HIDE DEF F
<1>3. <<>> \in T
  BY <1>1, FoldEmpty, EmptySeq
<1>4. ASSUME NEW u \in Seq(B), NEW l \in B, u \in T PROVE Append(u, l) \in T
  <2>1. Fold(F, p, Append(u, l)) = F[<<Fold(F, p, u), l>>]
    BY <1>1, FoldAppend
  <2>2. Append(u, l) \in Seq(B)
    BY AppendProperties
  <2> QED
    BY <1>2, <1>4, <2>1, <2>2
<1> HIDE DEF T
<1>5. Seq(B) \subseteq T
  BY <1>3, <1>4, SequenceInduction
<1> QED
  BY <1>5 DEF T, F

\* The pieces of a text as lines: each without a carriage return at its end.
Trims(S) == [l \in Seq(S) |-> TrimSuffix("cr", l)]

LEMMA TrimsMap == ASSUME NEW S PROVE Maps(Seq(S), Seq(S), Trims(S))
BY TrimIs DEF Maps, Trims

\* A text that ends with a newline is all lines.
LEMMA DotenvIs ==
  ASSUME NEW S, NEW t \in Seq(S), NEW C \in Seq(Seq(S)), Split("nl", t) = Append(C, <<>>),
         ParseDotenv(t).ok
  PROVE  ParseDotenv(t) = Fold(LineStep(Seq(S)), Parsed(<<>>), Mapped(Trims(S), C))
<1>1. PICK e, p : e = <<>> /\ p = Append(C, e)
  OBVIOUS
<1>2. e \in Seq(S)
  BY <1>1, EmptySeq
<1>3. Len(C) \in Nat /\ Len(p) = Len(C) + 1 /\ p[Len(p)] = e /\ \A i \in 1..Len(C) : p[i] = C[i]
  BY <1>1, <1>2, AppendElements
<1>4. Last(p) = <<>> /\ Front(p) = C
  BY <1>1, <1>3 DEF Last, Front
<1>5. ScanLines(t) = Mapped(Trims(S), C)
  <2>1. \A i \in DOMAIN C : C[i] \in Seq(S)
    BY LenProperties
  <2>2. [i \in DOMAIN C |-> TrimSuffix("cr", C[i])] = Mapped(Trims(S), C)
    BY <2>1 DEF Mapped, Trims
  <2> QED
    BY <1>1, <1>4, <2>2 DEF ScanLines
<1>6. ParseDotenv(t) = LinesRead(ScanLines(t))
  BY DEF ParseDotenv, Refused, LinesRead
<1>7. Mapped(Trims(S), C) \in Seq(Seq(S))
  BY TrimsMap, MappedType
<1> QED
  BY <1>5, <1>6, <1>7, LinesReadIs

\* A quoted value that parses has its closing quote at the end of the line.
LEMMA QuotedValueIs ==
  ASSUME NEW S, NEW q \in S, q \in Quotes, NEW w \in Seq(S), ParseValue(<<q>> \o w).ok
  PROVE  \E z \in Seq(S) : /\ w = Append(z, q) /\ ~Occurs(q, z)
                           /\ ParseValue(<<q>> \o w).entries[1] = z
<1>1. PICK r, n, end : r = <<q>> \o w /\ n = Len(w) /\ end = Index(q, w)
  OBVIOUS
<1>2. /\ r \in Seq(S) /\ n \in Nat /\ Len(r) = n + 1 /\ r[1] = q
      /\ \A i \in 1..n : r[i + 1] = w[i]
  BY <1>1
<1>3. r # <<>> /\ Head(r) = q /\ Tail(r) = w
  BY <1>1, <1>2
<1>4. q \in Quotes
  OBVIOUS
<1>5. ParseValue(r) = IF end > 0 /\ After(end + 1, r) = <<>>
                      THEN Parsed(<<SubSeq(r, 2, end)>>) ELSE Refused
  BY <1>1, <1>3, <1>4 DEF ParseValue
<1>6. ParseValue(r).ok
  BY <1>1
<1>7. end > 0 /\ After(end + 1, r) = <<>> /\ ParseValue(r) = Parsed(<<SubSeq(r, 2, end)>>)
  BY <1>5, <1>6 DEF Refused
<1>8. Occurs(q, w)
  <2>1. ~Occurs(q, w) => end = 0
    BY <1>1, NoneThere
  <2> QED
    BY <1>7, <2>1
<1>9. end \in 1..n /\ w[end] = q /\ \A j \in 1..end - 1 : w[j] # q
  BY <1>1, <1>8, IndexIs
<1>10. end = n
  <2>1. Len(After(end + 1, r)) = n - end
    <3>1. \A i \in 1..n + 1 : r[i] \in S
      BY <1>2, LenProperties
    <3> QED
      BY <1>2, <1>9, <3>1 DEF After
  <2>2. Len(After(end + 1, r)) = 0
    BY <1>7
  <2> QED
    BY <1>2, <1>9, <2>1, <2>2
<1>11. PICK z : z = SubSeq(r, 2, end)
  OBVIOUS
<1>12. z \in Seq(S) /\ Len(z) = n - 1 /\ \A i \in 1..n - 1 : z[i] = w[i]
  <2>1. \A i \in 1..n + 1 : r[i] \in S
    BY <1>2, LenProperties
  <2>2. z \in Seq(S) /\ Len(z) = n - 1 /\ \A i \in 1..n - 1 : z[i] = r[i + 1]
    BY <1>2, <1>9, <1>10, <1>11, <2>1
  <2> QED
    BY <1>2, <2>2
<1>13. w = Append(z, q)
  <2>1. PICK x : x = Append(z, q)
    OBVIOUS
  <2>2. q \in S /\ n - 1 \in Nat
    BY <1>1, <1>2, <1>9
  <2>3. x \in Seq(S) /\ Len(x) = n /\ x[n] = q /\ \A i \in 1..n - 1 : x[i] = z[i]
    <3>1. x \in Seq(S) /\ Len(x) = (n - 1) + 1 /\ x[(n - 1) + 1] = q /\ \A i \in 1..n - 1 : x[i] = z[i]
      BY <1>12, <2>1, <2>2, AppendElements
    <3>2. (n - 1) + 1 = n
      BY <1>2
    <3> QED
      BY <3>1, <3>2
  <2>4. \A i \in 1..n : x[i] = w[i]
    BY <1>2, <1>9, <1>10, <1>12, <2>3
  <2>5. x = w
    BY <1>1, <2>3, <2>4, SeqEqual
  <2> QED
    BY <2>1, <2>5
<1>14. ~Occurs(q, z)
  <2>1. DOMAIN z = 1..n - 1
    BY <1>12, LenProperties
  <2>2. \A i \in 1..n - 1 : z[i] # q
    BY <1>9, <1>10, <1>12
  <2> QED
    BY <2>1, <2>2 DEF Occurs
<1>15. ParseValue(r).entries[1] = z
  <2>1. ParseValue(r) = Parsed(<<z>>)
    BY <1>7, <1>11
  <2>2. Parsed(<<z>>).entries = <<z>>
    BY DEF Parsed
  <2>3. <<z>>[1] = z
    OBVIOUS
  <2> QED
    BY <2>1, <2>2, <2>3
<1> QED
  BY <1>1, <1>12, <1>13, <1>14, <1>15

\* What stands before the quoted value of the name n.
Opened(n) == <<"export", " ">> \o (n \o (<<"=">> \o <<"'">>))

\* The line l is an assignment to n of w but for the closing quote at its end.
Closes(S, n, w, p, l) ==
  \E z \in Seq(S) : /\ w = Append(z, "'") /\ ~Occurs("'", z)
                    /\ ParseLine(p, l) = Add(p, Entry(n, z))

LEMMA OpenedLine ==
  ASSUME NEW S, Alphabet(S), NEW n \in Seq(Upper \union Digits), n # <<>>, NEW w \in Seq(S), NEW p,
         NEW l, l = Opened(n) \o w, ParseLine(p, l).ok
  PROVE  Closes(S, n, w, p, l)
<1>1. PICK E, e, q : E = <<"export", " ">> /\ e = "=" /\ q = "'"
  OBVIOUS
<1>2. "export" \in S /\ " " \in S /\ e \in S /\ q \in S
  BY <1>1 DEF Alphabet
<1>3. E \in Seq(S) /\ <<e>> \in Seq(S) /\ <<q>> \in Seq(S) /\ E[1] = "export" /\ Len(E) = 2
  <2>1. E \in Seq(S)
    BY <1>1, <1>2, TwoIn
  <2>2. E[1] = "export" /\ Len(E) = 2
    BY <1>1
  <2> QED
    BY <1>2, <2>1, <2>2, OneIs
<1>4. n \in Seq(S) /\ ~Occurs(e, n) /\ n[1] \in Upper \union Digits /\ Len(n) \in Nat /\ Len(n) >= 1
  <2>1. Upper \union Digits \subseteq S
    BY DEF Alphabet
  <2>2. n \in Seq(S)
    BY <2>1, SeqMonotonic
  <2>3. Len(n) \in Nat /\ Len(n) # 0 /\ DOMAIN n = 1..Len(n) /\ \A i \in 1..Len(n) : n[i] \in Upper \union Digits
    BY LenProperties, EmptySeq
  <2>4. e \notin Upper \union Digits
    BY <1>1 DEF Upper, Digits
  <2> QED
    BY <2>2, <2>3, <2>4 DEF Occurs
<1>5. PICK r, a : r = <<q>> \o w /\ a = n \o (<<e>> \o r)
  OBVIOUS
<1>6. r \in Seq(S) /\ <<e>> \o r \in Seq(S) /\ a \in Seq(S)
  BY <1>3, <1>4, <1>5, ConcatIn
<1>7. l = E \o a
  <2>1. PICK E2, Q : E2 = <<e>> /\ Q = <<q>>
    OBVIOUS
  <2>2. E2 \in Seq(S) /\ Q \in Seq(S)
    BY <1>3, <2>1
  <2>3. PICK x, y : x = E2 \o Q /\ y = n \o x
    OBVIOUS
  <2>4. x \in Seq(S) /\ y \in Seq(S)
    BY <1>4, <2>2, <2>3, ConcatIn
  <2>5. Regrouped(E, y, w) /\ Regrouped(n, x, w) /\ Regrouped(E2, Q, w)
    BY <1>3, <1>4, <2>2, <2>4, ConcatRegroup
  <2> QED
    BY <1>1, <1>5, <2>1, <2>3, <2>5 DEF Opened, Regrouped
<1>18. l \in Seq(S)
  BY <1>3, <1>6, <1>7, ConcatIn
<1>8. l # <<>> /\ l[1] = "export" /\ Head(l) = "export"
  <2>1. Len(l) = 2 + Len(a) /\ Len(a) \in Nat /\ l[1] = E[1]
    <3>1. Len(a) \in Nat
      BY <1>6, LenProperties
    <3>2. Len(l) = Len(E) + Len(a) /\ \A i \in 1..Len(E) + Len(a) : l[i] = IF i <= Len(E) THEN E[i] ELSE a[i - Len(E)]
      <4>1. E \in Seq(S) /\ a \in Seq(S)
        BY <1>3, <1>6
      <4> QED
        BY <1>7, <4>1, ConcatProperties
    <3> QED
      BY <1>3, <3>1, <3>2
  <2>2. l # <<>>
    BY <2>1, EmptySeq
  <2> QED
    BY <1>3, <1>18, <2>1, <2>2
<1>9. TrimLeft(l) = l
  <2>1. l[1] \notin Blanks
    BY <1>8 DEF Blanks
  <2> QED
    BY <1>8, <1>18, <2>1, NothingTrimmed
<1>10. TrimPrefix(E, l) = a
  BY <1>3, <1>6, <1>7, PrefixOff
<1>11. TrimLeft(a) = a
  <2>1. Len(a) = Len(n) + Len(<<e>> \o r) /\ Len(<<e>> \o r) \in Nat /\ a[1] = n[1]
    BY <1>4, <1>5, <1>6, ConcatProperties, LenProperties
  <2>2. a # <<>>
    BY <1>4, <2>1, EmptySeq
  <2>3. a[1] \notin Blanks
    BY <1>4, <2>1 DEF Upper, Digits, Blanks
  <2> QED
    BY <1>6, <2>2, <2>3, NothingTrimmed
<1>12. Before(Index(e, a), a) = n /\ After(Index(e, a), a) = r
  <2>1. Joined(n, e, r, a)
    <3>1. PICK E2 : E2 = <<e>>
      OBVIOUS
    <3>2. Regrouped(n, E2, r)
      BY <1>3, <1>4, <1>6, <3>1, ConcatRegroup
    <3> QED
      BY <1>5, <3>1, <3>2 DEF Joined, Regrouped
  <2> QED
    <3>1. e \in S /\ n \in Seq(S) /\ r \in Seq(S) /\ ~Occurs(e, n)
      BY <1>2, <1>4, <1>6
    <3> QED
      BY <2>1, <3>1, CutAtFirst
<1>13. Head(l) # "#"
  BY <1>8
<1>14. PICK value : value = ParseValue(r)
  OBVIOUS
<1>15. ParseLine(p, l) = Refused
       \/ (value.ok /\ ParseLine(p, l) = Add(p, Entry(n, value.entries[1])))
  BY <1>1, <1>8, <1>9, <1>10, <1>11, <1>12, <1>13, <1>14 DEF ParseLine
<1>16. value.ok /\ ParseLine(p, l) = Add(p, Entry(n, value.entries[1]))
  BY <1>15 DEF Refused
<1>17. PICK z \in Seq(S) : w = Append(z, q) /\ ~Occurs(q, z) /\ value.entries[1] = z
  <2>1. q \in Quotes
    BY <1>1 DEF Quotes
  <2>2. PICK u : u = <<q>> \o w
    OBVIOUS
  <2>3. q \in S /\ value = ParseValue(u) /\ value.ok
    BY <1>1, <1>2, <1>5, <1>14, <1>16, <2>2
  <2>4. ParseValue(<<q>> \o w).ok
    BY <2>2, <2>3
  <2>5. \E z \in Seq(S) : /\ w = Append(z, q) /\ ~Occurs(q, z)
                           /\ ParseValue(<<q>> \o w).entries[1] = z
    BY <2>1, <2>3, <2>4, QuotedValueIs
  <2> QED
    BY <2>2, <2>3, <2>5
<1> QED
  BY <1>1, <1>16, <1>17 DEF Closes

\* The first quote of a text is at k, and something other than the end of the
\* line comes after it.
QuoteAt(s, k) ==
  k \in 1..Len(s) - 1 /\ s[k] = "'" /\ s[k + 1] = "\\" /\ \A j \in 1..k - 1 : s[j] # "'"

LEMMA QuoteStays ==
  ASSUME NEW S, NEW s \in Seq(S), NEW t \in Seq(S), NEW k, QuoteAt(s, k)
  PROVE  QuoteAt(s \o t, k)
<1>1. PICK w : w = s \o t
  OBVIOUS
<1>2. /\ w \in Seq(S) /\ Len(s) \in Nat /\ Len(t) \in Nat /\ Len(w) = Len(s) + Len(t)
      /\ \A i \in 1..Len(s) + Len(t) : w[i] = IF i <= Len(s) THEN s[i] ELSE t[i - Len(s)]
  BY <1>1, ConcatProperties, LenProperties
<1>3. \A i \in 1..Len(s) : w[i] = s[i]
  BY <1>2
<1> QED
  BY <1>1, <1>2, <1>3 DEF QuoteAt

LEMMA FirstQuote ==
  ASSUME NEW S, Alphabet(S), NEW v \in Seq(S)
  PROVE  \/ ~Occurs("'", v) /\ Spelled(QuotedBytes(S), v) = v
         \/ \E k : QuoteAt(Spelled(QuotedBytes(S), v), k)
<1> DEFINE M == QuotedBytes(S)
           Good(u) == \/ ~Occurs("'", u) /\ Spelled(M, u) = u
                      \/ \E k : QuoteAt(Spelled(M, u), k)
           T == {u \in Seq(S) : Good(u)}
<1>1. Maps(S, Seq(S), M)
  BY QuotedType
<1>2. \A b \in S : M[b] = QuotedByte(b)
  BY DEF QuotedBytes
<1> HIDE DEF M
<1>3. Good(<<>>)
  BY SpelledEmpty DEF Occurs
<1>4. ASSUME NEW u \in Seq(S), NEW b \in S, Good(u) PROVE Good(Append(u, b))
  <2>1. PICK x, y, m : x = Spelled(M, u) /\ y = Spelled(M, Append(u, b)) /\ m = M[b]
    OBVIOUS
  <2>2. x \in Seq(S) /\ m \in Seq(S) /\ y = x \o m
    <3>1. Spelled(M, u) \in Seq(S) /\ Spelled(M, Append(u, b)) = Spelled(M, u) \o M[b]
      BY <1>1, SpelledAppend
    <3> QED
      BY <1>1, <2>1, <3>1 DEF Maps
  <2>3. CASE \E k : QuoteAt(x, k)
    BY <2>1, <2>2, <2>3, QuoteStays
  <2>4. CASE ~Occurs("'", u) /\ x = u
    <3>1. Len(u) \in Nat /\ DOMAIN u = 1..Len(u)
      BY LenProperties
    <3>2. CASE b = "'"
      <4>1. m = <<"'", "\\", "'", "'">>
        BY <1>2, <2>1, <3>2 DEF QuotedByte
      <4>2. Len(m) = 4 /\ m[1] = "'" /\ m[2] = "\\"
        BY <4>1
      <4>3. /\ y \in Seq(S) /\ Len(y) = Len(u) + 4
            /\ \A i \in 1..Len(u) + 4 : y[i] = IF i <= Len(u) THEN u[i] ELSE m[i - Len(u)]
        <5>1. y \in Seq(S) /\ Len(y) = Len(x) + Len(m)
              /\ \A i \in 1..Len(x) + Len(m) : y[i] = IF i <= Len(x) THEN x[i] ELSE m[i - Len(x)]
          BY <2>2, ConcatProperties
        <5> QED
          BY <2>4, <4>2, <5>1
      <4>4. y[Len(u) + 1] = "'" /\ y[(Len(u) + 1) + 1] = "\\"
        <5>1. PICK i, j : i = Len(u) + 1 /\ j = i + 1
          OBVIOUS
        <5>2. /\ i \in 1..Len(u) + 4 /\ ~(i <= Len(u)) /\ i - Len(u) = 1
              /\ j \in 1..Len(u) + 4 /\ ~(j <= Len(u)) /\ j - Len(u) = 2
          BY <3>1, <5>1
        <5>3. y[i] = m[1] /\ y[j] = m[2]
          BY <4>3, <5>2
        <5> QED
          BY <4>2, <5>1, <5>3
      <4>5. \A j \in 1..Len(u) : y[j] # "'"
        BY <2>4, <3>1, <4>3 DEF Occurs
      <4>6. QuoteAt(y, Len(u) + 1)
        BY <3>1, <4>3, <4>4, <4>5 DEF QuoteAt
      <4> QED
        BY <2>1, <4>6
    <3>3. CASE b # "'"
      <4>1. m = <<b>>
        BY <1>2, <2>1, <3>3 DEF QuotedByte
      <4>2. y = Append(u, b)
        BY <2>2, <2>4, <4>1, OneMore
      <4>3. ~Occurs("'", Append(u, b))
        BY <2>4, <3>1, <3>3, AppendElements DEF Occurs
      <4> QED
        BY <2>1, <4>2, <4>3
    <3> QED
      BY <3>2, <3>3
  <2> QED
    BY <1>4, <2>1, <2>3, <2>4
<1>5. Seq(S) \subseteq T
  <2> HIDE DEF Good
  <2>1. <<>> \in T /\ \A u \in Seq(S), b \in S : u \in T => Append(u, b) \in T
    BY <1>3, <1>4, EmptySeq
  <2> HIDE DEF T
  <2> QED
    BY <2>1, SequenceInduction
<1> QED
  BY <1>5 DEF M

\* w is s, or s without a carriage return at its end.
Trimmed(w, s) == w = s \/ Append(w, "cr") = s

\* After a closing quote that ends the line there is no backslash.
LEMMA ClosedBy ==
  ASSUME NEW S, "'" \in S, "cr" \in S, NEW z \in Seq(S), ~Occurs("'", z), NEW s \in Seq(S),
         Trimmed(Append(z, "'"), s), NEW k
  PROVE  ~QuoteAt(s, k)
<1>1. SUFFICES ASSUME QuoteAt(s, k) PROVE FALSE
  OBVIOUS
<1>2. PICK w, n : w = Append(z, "'") /\ n = Len(z)
  OBVIOUS
<1>3. n \in Nat /\ DOMAIN z = 1..n /\ w \in Seq(S) /\ Len(w) = n + 1 /\ w[n + 1] = "'"
      /\ \A i \in 1..n : w[i] = z[i]
  BY <1>2, AppendElements
<1>4. \A i \in 1..n : w[i] # "'"
  BY <1>3 DEF Occurs
<1>5. CASE w = s
  BY <1>1, <1>3, <1>4, <1>5 DEF QuoteAt
<1>6. CASE Append(w, "cr") = s
  <2>1. Len(s) = n + 2 /\ s[n + 2] = "cr" /\ \A i \in 1..n + 1 : s[i] = w[i]
    <3>1. Len(s) = (n + 1) + 1 /\ s[(n + 1) + 1] = "cr" /\ \A i \in 1..n + 1 : s[i] = w[i]
      BY <1>3, <1>6, AppendElements
    <3>2. (n + 1) + 1 = n + 2
      BY <1>3
    <3> QED
      BY <3>1, <3>2
  <2>2. k \in 1..n + 1 /\ s[k] = "'" /\ s[k + 1] = "\\" 
    BY <1>1, <1>3, <2>1 DEF QuoteAt
  <2>3. k = n + 1
    BY <1>3, <1>4, <2>1, <2>2
  <2>4. s[n + 2] = "\\"
    <3>1. (n + 1) + 1 = n + 2
      BY <1>3
    <3> QED
      BY <2>2, <2>3, <3>1
  <2> QED
    BY <2>1, <2>4
<1> QED
  BY <1>2, <1>5, <1>6 DEF Trimmed

\* What an assignment's first line has after the opening quote, and what the
\* other lines of it are, if its value has newlines.
LEMMA NewlineIn ==
  ASSUME NEW S, Alphabet(S), NEW v \in Seq(S)
  PROVE  \/ Spelled(QuotedBytes(S), v) \in Seq(S \ {"nl"})
         \/ \E x \in Seq(S), r \in Seq(S) :
              /\ Spelled(QuotedBytes(S), x) \in Seq(S \ {"nl"})
              /\ Spelled(QuotedBytes(S), v) = Append(Spelled(QuotedBytes(S), x), "nl") \o r
<1> DEFINE M == QuotedBytes(S)
           R == S \ {"nl"}
           Cut(u, x, r) == Spelled(M, x) \in Seq(R) /\ Spelled(M, u) = Append(Spelled(M, x), "nl") \o r
           Good(u) == Spelled(M, u) \in Seq(R) \/ \E x \in Seq(S), r \in Seq(S) : Cut(u, x, r)
           T == {u \in Seq(S) : Good(u)}
<1>1. Maps(S, Seq(S), M)
  BY QuotedType
<1>2. \A b \in S : M[b] = QuotedByte(b)
  BY DEF QuotedBytes
<1>3. "nl" \in S /\ "'" \in R /\ "\\" \in R
  BY DEF Alphabet
<1> HIDE DEF M, R
<1>4. Good(<<>>)
  BY SpelledEmpty, EmptySeq
<1>5. ASSUME NEW u \in Seq(S), NEW b \in S, Good(u) PROVE Good(Append(u, b))
  <2>1. PICK x, y, m : x = Spelled(M, u) /\ y = Spelled(M, Append(u, b)) /\ m = M[b]
    OBVIOUS
  <2>2. x \in Seq(S) /\ m \in Seq(S) /\ y = x \o m
    <3>1. Spelled(M, u) \in Seq(S) /\ Spelled(M, Append(u, b)) = Spelled(M, u) \o M[b]
      BY <1>1, SpelledAppend
    <3> QED
      BY <1>1, <2>1, <3>1 DEF Maps
  <2>3. ASSUME NEW z \in Seq(S), NEW r \in Seq(S), Cut(u, z, r) PROVE Good(Append(u, b))
    <3>1. PICK a, t : a = Append(Spelled(M, z), "nl") /\ t = r \o m
      OBVIOUS
    <3>2. a \in Seq(S) /\ t \in Seq(S)
      <4>1. Spelled(M, z) \in Seq(S)
        BY <1>1, SpelledType
      <4> QED
        BY <1>3, <2>2, <3>1, <4>1, AppendProperties, ConcatIn
    <3>3. x = a \o r
      BY <2>1, <2>3, <3>1
    <3>4. y = a \o t
      <4>1. Regrouped(a, r, m)
        BY <2>2, <3>2, ConcatRegroup
      <4> QED
        BY <2>2, <3>1, <3>3, <4>1 DEF Regrouped
    <3>5. Cut(Append(u, b), z, t)
      BY <2>1, <2>3, <3>1, <3>4
    <3> QED
      BY <3>2, <3>5
  <2>4. CASE x \in Seq(R) /\ b = "nl"
    <3>1. m = <<"nl">>
      BY <1>2, <2>1, <2>4 DEF QuotedByte
    <3>2. y = Append(x, "nl")
      BY <1>3, <2>2, <3>1, OneMore
    <3>3. PICK e, a : e = <<>> /\ a = Append(x, "nl")
      OBVIOUS
    <3>4. e \in Seq(S) /\ a \o e = a
      BY <1>3, <2>2, <3>3, EmptySeq, ConcatEmptySeq, AppendProperties
    <3>5. Cut(Append(u, b), u, e)
      BY <2>1, <2>4, <3>2, <3>3, <3>4
    <3> QED
      BY <3>4, <3>5
  <2>5. CASE x \in Seq(R) /\ b # "nl"
    <3>1. m \in Seq(R)
      <4>1. b \in R
        BY <2>5 DEF R
      <4>2. <<b>> \in Seq(R) /\ <<"'", "\\", "'", "'">> \in Seq(R)
        BY <1>3, <4>1
      <4> QED
        BY <1>2, <2>1, <4>2 DEF QuotedByte
    <3>2. y \in Seq(R)
      BY <2>2, <2>5, <3>1, ConcatIn
    <3> QED
      BY <2>1, <3>2
  <2> QED
    BY <1>5, <2>1, <2>3, <2>4, <2>5
<1>6. Seq(S) \subseteq T
  <2> HIDE DEF Good
  <2>1. <<>> \in T /\ \A u \in Seq(S), b \in S : u \in T => Append(u, b) \in T
    BY <1>4, <1>5, EmptySeq
  <2> HIDE DEF T
  <2> QED
    BY <2>1, SequenceInduction
<1>7. Good(v)
  <2> HIDE DEF Good
  <2> QED
    BY <1>6
<1> QED
  BY <1>7 DEF M, R

\* An assignment as lines: its first one, and the others if its value has
\* newlines.
LinesOf(S, n, v, s, D) ==
  /\ Split("nl", Assignment(n, v)) = Append(<<Opened(n) \o s>> \o D, <<>>)
  /\ \/ s = Append(Spelled(QuotedBytes(S), v), "'") /\ D = <<>>
     \/ \E x \in Seq(S) : s = Spelled(QuotedBytes(S), x)

LEMMA OpenedIs ==
  ASSUME NEW S, Alphabet(S), NEW n \in Seq(Upper \union Digits)
  PROVE  /\ Opened(n) \in Seq(S \ {"nl"}) /\ Opened(n) \in Seq(S)
         /\ \E a \in Seq(S) : Opened(n) = Append(a, "'")
<1>1. PICK R, E, e, q : R = S \ {"nl"} /\ E = <<"export", " ">> /\ e = <<"=">> /\ q = "'"
  OBVIOUS
<1>2. "export" \in R /\ " " \in R /\ "=" \in R /\ q \in R /\ Upper \union Digits \subseteq R
  BY <1>1 DEF Alphabet, Upper, Digits
<1>3. E \in Seq(R) /\ e \in Seq(R)
  BY <1>1, <1>2, OneIs, TwoIn
<1>4. n \in Seq(R)
  BY <1>2, SeqMonotonic
<1>5. PICK x, a : x = n \o e /\ a = E \o x
  OBVIOUS
<1>6. x \in Seq(R) /\ a \in Seq(R)
  BY <1>3, <1>4, <1>5, ConcatIn
<1>7. Longer(n, e, q) /\ Longer(E, x, q) /\ e \o <<q>> = Append(e, q)
  BY <1>2, <1>3, <1>4, <1>6, ConcatAppend, OneMore
<1>8. Opened(n) = Append(a, q)
  BY <1>1, <1>5, <1>7 DEF Opened, Longer
<1>9. Append(a, q) \in Seq(R)
  BY <1>2, <1>6, AppendProperties
<1>10. Seq(R) \subseteq Seq(S)
  BY <1>1, SeqMonotonic
<1> QED
  BY <1>1, <1>6, <1>8, <1>9, <1>10

LEMMA AssignmentIs ==
  ASSUME NEW S, Alphabet(S), NEW n \in Seq(Upper \union Digits), NEW v \in Seq(S)
  PROVE  Assignment(n, v) = Append(Opened(n) \o Append(Spelled(QuotedBytes(S), v), "'"), "nl")
<1>1. PICK E, e, q, l, p : /\ E = <<"export", " ">> /\ e = <<"=">> /\ q = <<"'">> /\ l = <<"nl">>
                           /\ p = Spelled(QuotedBytes(S), v)
  OBVIOUS
<1>2. "export" \in S /\ " " \in S /\ "=" \in S /\ "'" \in S /\ "nl" \in S
  BY DEF Alphabet
<1>3. E \in Seq(S) /\ e \in Seq(S) /\ q \in Seq(S) /\ p \in Seq(S)
  BY <1>1, <1>2, OneIs, TwoIn, QuoteIs
<1>4. n \in Seq(S)
  <2>1. Upper \union Digits \subseteq S
    BY DEF Alphabet
  <2> QED
    BY <2>1, SeqMonotonic
<1>5. PICK c : c = p \o q
  OBVIOUS
<1>6. c \in Seq(S) /\ c = Append(p, "'")
  BY <1>1, <1>2, <1>3, <1>5, OneMore
<1>7. ShellQuote(v) = q \o c
  <2>1. Regrouped(q, p, q)
    BY <1>3, ConcatRegroup
  <2>2. ShellQuote(v) = (q \o p) \o q
    BY <1>1, QuoteIs
  <2> QED
    BY <1>5, <2>1, <2>2 DEF Regrouped
<1>8. PICK x, y, o : x = e \o q /\ y = n \o x /\ o = E \o y
  OBVIOUS
<1>9. x \in Seq(S) /\ y \in Seq(S) /\ o \in Seq(S)
  BY <1>3, <1>4, <1>8, ConcatIn
<1>10. o = Opened(n)
  BY <1>1, <1>8 DEF Opened
<1>11. PICK a, b : a = E \o n /\ b = a \o e
  OBVIOUS
<1>12. a \in Seq(S) /\ b \in Seq(S) /\ q \o c \in Seq(S)
  BY <1>3, <1>4, <1>6, <1>11, ConcatIn
<1>13. b \o (q \o c) = o \o c
  <2>1. Regrouped(b, q, c) /\ Regrouped(a, e, q) /\ Regrouped(E, n, x)
    BY <1>3, <1>4, <1>6, <1>9, <1>12, ConcatRegroup
  <2>2. b \o (q \o c) = (b \o q) \o c /\ (a \o e) \o q = a \o x /\ (E \o n) \o x = o
    BY <1>8, <2>1, Zenon DEF Regrouped
  <2> QED
    BY <1>11, <2>2
<1>14. PICK f : f = o \o c
  OBVIOUS
<1>15. f \in Seq(S)
  BY <1>6, <1>9, <1>14, ConcatIn
<1>16. Assignment(n, v) = f \o l
  BY <1>1, <1>7, <1>11, <1>13, <1>14 DEF Assignment
<1>17. f \o l = Append(f, "nl")
  BY <1>1, <1>2, <1>15, OneMore
<1> QED
  BY <1>1, <1>6, <1>10, <1>14, <1>16, <1>17

LEMMA AssignmentLines ==
  ASSUME NEW S, Alphabet(S), NEW n \in Seq(Upper \union Digits), NEW v \in Seq(S)
  PROVE  \E s \in Seq(S), D \in Seq(Seq(S)) : LinesOf(S, n, v, s, D)
<1>1. PICK o, p, u, c : /\ o = Opened(n) /\ p = Spelled(QuotedBytes(S), v)
                        /\ u = Assignment(n, v) /\ c = "nl"
  OBVIOUS
<1>2. PICK R : R = S \ {c}
  OBVIOUS
<1>3. c \in S /\ "'" \in S /\ "'" \in R
  BY <1>1, <1>2 DEF Alphabet
<1>4. o \in Seq(R) /\ o \in Seq(S) /\ p \in Seq(S)
  BY <1>1, <1>2, OpenedIs, QuoteIs
<1>5. u = Append(o \o Append(p, "'"), c)
  BY <1>1, AssignmentIs
<1>6. CASE p \in Seq(R)
  <2>1. PICK s, l, D : s = Append(p, "'") /\ l = o \o s /\ D = <<>>
    OBVIOUS
  <2>2. s \in Seq(R) /\ s \in Seq(S) /\ D \in Seq(Seq(S))
    BY <1>3, <1>4, <1>6, <2>1, AppendProperties, EmptySeq
  <2>3. l \in Seq(R)
    BY <1>4, <2>1, <2>2, ConcatIn
  <2>4. Split(c, Append(l, c)) = Append(<<l>>, <<>>)
    BY <1>2, <1>3, <2>3, SplitLine
  <2>5. <<l>> \o D = <<l>>
    <3>1. <<l>> \in Seq(Seq(R))
      BY <2>3, OneIs
    <3> QED
      BY <2>1, <3>1, ConcatEmptySeq
  <2>6. LinesOf(S, n, v, s, D)
    BY <1>1, <1>5, <2>1, <2>4, <2>5 DEF LinesOf
  <2> QED
    BY <2>2, <2>6
<1>7. CASE p \notin Seq(R)
  <2>1. PICK x \in Seq(S), r \in Seq(S) :
          /\ Spelled(QuotedBytes(S), x) \in Seq(R) /\ p = Append(Spelled(QuotedBytes(S), x), c) \o r
    <3>1. Spelled(QuotedBytes(S), v) \notin Seq(S \ {"nl"})
      BY <1>1, <1>2, <1>7
    <3>2. PICK x \in Seq(S), r \in Seq(S) :
            /\ Spelled(QuotedBytes(S), x) \in Seq(S \ {"nl"})
            /\ Spelled(QuotedBytes(S), v) = Append(Spelled(QuotedBytes(S), x), "nl") \o r
      BY <3>1, NewlineIn
    <3> QED
      BY <1>1, <1>2, <3>2
  <2>2. PICK s, l, g, t : /\ s = Spelled(QuotedBytes(S), x) /\ l = o \o s /\ g = Append(l, c)
                          /\ t = Append(r, "'")
    OBVIOUS
  <2>3. s \in Seq(R) /\ l \in Seq(R) /\ s \in Seq(S) /\ l \in Seq(S) /\ g \in Seq(S) /\ t \in Seq(S)
    <3>1. Seq(R) \subseteq Seq(S)
      BY <1>2, SeqMonotonic
    <3>2. s \in Seq(R) /\ l \in Seq(R)
      BY <1>4, <2>1, <2>2, ConcatIn
    <3>3. l \in Seq(S) /\ s \in Seq(S)
      BY <3>1, <3>2
    <3> QED
      BY <1>3, <2>2, <3>2, <3>3, AppendProperties
  <2>4. u = g \o Append(t, c)
    <3>1. PICK h : h = Append(s, c)
      OBVIOUS
    <3>2. h \in Seq(S) /\ h \o r \in Seq(S) /\ h \o t \in Seq(S)
      BY <1>3, <2>3, <3>1, AppendProperties, ConcatIn
    <3>3. Longer(h, r, "'") /\ Longer(o, s, c)
      BY <1>3, <1>4, <2>3, <3>2, ConcatAppend
    <3>4. Append(p, "'") = h \o t /\ g = o \o h
      BY <2>1, <2>2, <3>1, <3>3 DEF Longer
    <3>5. Regrouped(o, h, t) /\ Longer(g, t, c)
      BY <1>3, <1>4, <2>3, <3>2, ConcatRegroup, ConcatAppend
    <3>6. o \o (h \o t) = g \o t
      BY <3>4, <3>5 DEF Regrouped
    <3> QED
      BY <1>5, <3>4, <3>5, <3>6 DEF Longer
  <2>5. PICK D : D = Split(c, t)
    OBVIOUS
  <2>6. D \in Seq(Seq(S))
    BY <2>3, <2>5, SplitType DEF Pieces
  <2>7. Split(c, g) = Append(<<l>>, <<>>)
    BY <1>2, <1>3, <2>2, <2>3, SplitLine
  <2>8. PICK L : L = <<l>>
    OBVIOUS
  <2>9. L \in Seq(Seq(S))
    BY <2>3, <2>8, OneIs
  <2>10. PICK z : z = Append(t, c)
    OBVIOUS
  <2>11. z \in Seq(S)
    BY <1>3, <2>3, <2>10, AppendProperties
  <2>12. Split(c, g \o z) = L \o Split(c, z)
    <3>1. g \in Seq(S) /\ Stops(c, g, L)
      BY <2>3, <2>7, <2>8 DEF Stops
    <3>2. StopsBefore(c, g, L, z)
      BY <2>9, <2>11, <3>1, SplitAfter
    <3> QED
      BY <3>2 DEF StopsBefore
  <2>13. Split(c, z) = Append(D, <<>>)
    <3>1. SplitsNext(c, t, c)
      BY <1>3, <2>3, SplitNext
    <3> QED
      BY <2>5, <2>10, <3>1 DEF SplitsNext
  <2>14. L \o Append(D, <<>>) = Append(L \o D, <<>>)
    <3>1. PICK e : e = <<>>
      OBVIOUS
    <3>2. e \in Seq(S)
      BY <3>1, EmptySeq
    <3>3. Longer(L, D, e)
      BY <2>6, <2>9, <3>2, ConcatAppend
    <3> QED
      BY <3>1, <3>3 DEF Longer
  <2>15. LinesOf(S, n, v, s, D)
    BY <1>1, <2>2, <2>4, <2>8, <2>10, <2>12, <2>13, <2>14 DEF LinesOf
  <2> QED
    BY <2>3, <2>6, <2>15
<1> QED
  BY <1>6, <1>7

\* The first line of an assignment, without a carriage return at its end.
LEMMA OpenedTrimmed ==
  ASSUME NEW S, Alphabet(S), "cr" \in S, NEW n \in Seq(Upper \union Digits), NEW s \in Seq(S)
  PROVE  \E w \in Seq(S) : TrimSuffix("cr", Opened(n) \o s) = Opened(n) \o w /\ Trimmed(w, s)
<1>1. PICK o, l, t, c : o = Opened(n) /\ l = o \o s /\ t = TrimSuffix(c, l) /\ c = "cr"
  OBVIOUS
<1>2. o \in Seq(S) /\ "'" \in S /\ c \in S
  BY <1>1, OpenedIs DEF Alphabet
<1>3. l \in Seq(S)
  BY <1>1, <1>2, ConcatIn
<1>4. t \in Seq(S) /\ (t = l \/ Append(t, c) = l)
  BY <1>1, <1>3, TrimIs
<1>5. CASE t = l
  BY <1>1, <1>5 DEF Trimmed
<1>6. CASE Append(t, c) = l /\ s = <<>>
  <2>1. PICK a \in Seq(S) : o = Append(a, "'")
    BY <1>1, OpenedIs
  <2>2. l = o
    BY <1>1, <1>2, <1>6, ConcatEmptySeq
  <2>3. Append(t, c) = Append(a, "'")
    BY <1>6, <2>1, <2>2
  <2>4. c = "'"
    BY <1>2, <1>4, <2>3, AppendSame
  <2> QED
    BY <1>1, <2>4
<1>7. CASE Append(t, c) = l /\ s # <<>>
  <2>1. PICK w \in Seq(S), b \in S : s = Append(w, b)
    BY <1>7, SequenceEmptyOrAppend
  <2>2. PICK x : x = o \o w
    OBVIOUS
  <2>3. x \in Seq(S) /\ Append(x, b) = l
    <3>1. Longer(o, w, b)
      BY <1>2, ConcatAppend
    <3> QED
      BY <1>1, <1>2, <2>1, <2>2, <3>1, ConcatIn DEF Longer
  <2>4. t = x /\ c = b
    <3>1. Append(t, c) = Append(x, b)
      BY <1>7, <2>3
    <3> QED
      <4>1. t \in Seq(S) /\ x \in Seq(S) /\ c \in S
        BY <1>2, <1>4, <2>3
      <4> QED
        BY <3>1, <4>1, AppendSame
  <2> QED
    BY <1>1, <2>1, <2>2, <2>4 DEF Trimmed
<1> QED
  BY <1>4, <1>5, <1>6, <1>7

\* A line that begins an assignment is all of it if it parses, and then the
\* value is the one assigned.
Whole(n, v, D, p, l) == D = <<>> /\ ParseLine(p, l) = Add(p, Entry(n, v))

LEMMA FirstLine ==
  ASSUME NEW S, Alphabet(S), "cr" \in S, NEW n \in Seq(Upper \union Digits), n # <<>>,
         NEW v \in Seq(S), NEW s \in Seq(S), NEW D \in Seq(Seq(S)), LinesOf(S, n, v, s, D), NEW p,
         NEW l, l = TrimSuffix("cr", Opened(n) \o s), ParseLine(p, l).ok
  PROVE  Whole(n, v, D, p, l)
<1>1. PICK w \in Seq(S) : l = Opened(n) \o w /\ Trimmed(w, s)
  BY OpenedTrimmed
<1>2. Closes(S, n, w, p, l)
  BY <1>1, OpenedLine
<1>3. PICK z \in Seq(S) : w = Append(z, "'") /\ ~Occurs("'", z) /\ ParseLine(p, l) = Add(p, Entry(n, z))
  BY <1>2 DEF Closes
<1>4. "'" \in S /\ "\\" \in S
  BY DEF Alphabet
<1>5. \A k : ~QuoteAt(s, k)
  BY <1>1, <1>3, <1>4, ClosedBy
<1>6. ASSUME NEW x \in Seq(S), s = Spelled(QuotedBytes(S), x) PROVE FALSE
  <2>1. ~Occurs("'", x) /\ s = x
    BY <1>5, <1>6, FirstQuote
  <2>2. s[Len(z) + 1] = "'" /\ Len(z) + 1 \in DOMAIN s
    <3>1. /\ w \in Seq(S) /\ Len(z) \in Nat /\ Len(w) = Len(z) + 1 /\ w[Len(z) + 1] = "'"
          /\ DOMAIN w = 1..Len(z) + 1
      BY <1>3, <1>4, AppendElements
    <3>2. CASE w = s
      BY <3>1, <3>2
    <3>3. CASE Append(w, "cr") = s
      <4>1. DOMAIN Append(w, "cr") = 1..Len(w) + 1 /\ \A i \in 1..Len(w) : Append(w, "cr")[i] = w[i]
        BY <3>1, AppendElements
      <4>2. Len(z) + 1 \in 1..Len(w) /\ Len(z) + 1 \in 1..Len(w) + 1
        BY <3>1
      <4> QED
        BY <3>1, <3>3, <4>1, <4>2
    <3> QED
      BY <1>1, <3>2, <3>3 DEF Trimmed
  <2> QED
    BY <2>1, <2>2 DEF Occurs
<1>7. s = Append(Spelled(QuotedBytes(S), v), "'") /\ D = <<>>
  BY <1>6 DEF LinesOf
<1>8. PICK x : x = Spelled(QuotedBytes(S), v)
  OBVIOUS
<1>9. x \in Seq(S) /\ s = Append(x, "'")
  BY <1>7, <1>8, QuoteIs
<1>10. \A k : ~QuoteAt(x, k)
  <2>1. SUFFICES ASSUME NEW k, QuoteAt(x, k) PROVE FALSE
    OBVIOUS
  <2>2. PICK q : q = <<"'">>
    OBVIOUS
  <2>3. q \in Seq(S) /\ x \o q = s
    BY <1>4, <1>9, <2>2, OneIs, OneMore
  <2> QED
    BY <1>5, <1>9, <2>1, <2>3, QuoteStays
<1>11. x = v
  BY <1>8, <1>10, FirstQuote
<1>12. z = v
  <2>1. CASE w = s
    BY <1>3, <1>4, <1>9, <1>11, <2>1, AppendSame
  <2>2. CASE Append(w, "cr") = s
    <3>1. Append(w, "cr") = Append(v, "'")
      BY <1>9, <1>11, <2>2
    <3>2. "cr" = "'"
      BY <1>4, <3>1, AppendSame
    <3> QED
      BY <3>2
  <2> QED
    BY <1>1, <2>1, <2>2 DEF Trimmed
<1> QED
  BY <1>3, <1>7, <1>12 DEF Whole

\* An assignment that export writes adds its entry to those read before, or is
\* refused.
LEMMA AssignmentRead ==
  ASSUME NEW S, Alphabet(S), "cr" \in S, NEW n \in Seq(Upper \union Digits), n # <<>>,
         NEW v \in Seq(S)
  PROVE  \E C \in Seq(Seq(S)) :
           /\ Split("nl", Assignment(n, v)) = Append(C, <<>>)
           /\ \A p \in Results(Seq(S)) :
                LET q == Fold(LineStep(Seq(S)), p, Mapped(Trims(S), C))
                IN  q.ok => p.ok /\ q = Add(p, Entry(n, v))
<1>1. PICK s \in Seq(S), D \in Seq(Seq(S)) : LinesOf(S, n, v, s, D)
  BY AssignmentLines
<1>2. PICK o, l, t, L, C, B : /\ o = Opened(n) /\ l = o \o s /\ t = TrimSuffix("cr", l) /\ L = <<l>>
                              /\ C = L \o D /\ B = Seq(S)
  OBVIOUS
<1>3. o \in Seq(S) /\ l \in B /\ t \in B /\ L \in Seq(B) /\ C \in Seq(B) /\ D \in Seq(B)
  <2>1. o \in Seq(S)
    BY <1>2, OpenedIs
  <2>2. l \in B
    BY <1>2, <2>1, ConcatIn
  <2>3. t \in B
    BY <1>2, <2>2, TrimIs
  <2>4. L \in Seq(B) /\ D \in Seq(B)
    BY <1>2, <2>2, OneIs
  <2> QED
    BY <1>2, <2>1, <2>2, <2>3, <2>4, ConcatIn
<1>4. Split("nl", Assignment(n, v)) = Append(C, <<>>)
  BY <1>1, <1>2 DEF LinesOf
<1>5. ASSUME NEW p \in Results(B), Fold(LineStep(B), p, Mapped(Trims(S), C)).ok
      PROVE  p.ok /\ Fold(LineStep(B), p, Mapped(Trims(S), C)) = Add(p, Entry(n, v))
  <2>1. PICK T, E, F : T = <<t>> /\ E = Mapped(Trims(S), D) /\ F = LineStep(B)
    OBVIOUS
  <2>2. Maps(B, B, Trims(S))
    BY <1>2, TrimsMap
  <2>3. T \in Seq(B) /\ E \in Seq(B) /\ Mapped(Trims(S), C) = T \o E
    <3>1. E \in Seq(B)
      BY <1>3, <2>1, <2>2, MappedType
    <3>2. Mapped(Trims(S), C) = Mapped(Trims(S), L) \o E
      <4>1. L \in Seq(B) /\ D \in Seq(B)
        BY <1>3
      <4>2. Mapped(Trims(S), L \o D) = Mapped(Trims(S), L) \o Mapped(Trims(S), D)
        BY <2>2, <4>1, MappedConcat
      <4> QED
        BY <1>2, <2>1, <4>2
    <3>3. Mapped(Trims(S), L) = T
      <4>1. Trims(S)[l] = t
        BY <1>2, <1>3 DEF Trims
      <4>2. PICK X : X = Mapped(Trims(S), L)
        OBVIOUS
      <4>3. X \in Seq(B) /\ Len(X) = Len(L)
        BY <1>3, <2>2, <4>2, MappedType
      <4>4. Len(L) = 1 /\ L[1] = l /\ DOMAIN L = 1..1 /\ Len(T) = 1 /\ T[1] = t
        BY <1>2, <2>1
      <4>5. X[1] = t
        BY <4>1, <4>2, <4>4 DEF Mapped
      <4>6. T \in Seq(B)
        BY <1>3, <2>1, OneIs
      <4>7. \A i \in 1..Len(X) : X[i] = T[i]
        BY <4>3, <4>4, <4>5
      <4>8. Len(X) = Len(T)
        BY <4>3, <4>4
      <4>9. X = T
        BY <4>3, <4>6, <4>7, <4>8, SeqEqual
      <4> QED
        BY <4>2, <4>9
    <3> QED
      BY <1>3, <2>1, <3>1, <3>2, <3>3, OneIs
  <2>4. PICK q : q = Further(p, t)
    OBVIOUS
  <2>5. q \in Results(B) /\ Fold(F, p, T) = q
    <3>1. Folds(Results(B), B, F, p) 
      BY <2>1, LinesFold
    <3>2. Fold(F, p, T) = F[<<p, t>>]
      BY <1>3, <2>1, <3>1, FoldOne
    <3>3. F[<<p, t>>] = q
      BY <1>3, <2>1, <2>4 DEF LineStep
    <3> QED
      BY <1>3, <2>4, <3>2, <3>3, LineTyped
  <2>6. Fold(F, p, Mapped(Trims(S), C)) = Fold(F, q, E)
    <3>1. Folds(Results(B), B, F, p) 
      BY <2>1, LinesFold
    <3>2. Fold(F, p, T \o E) = Fold(F, Fold(F, p, T), E)
      BY <2>3, <3>1, FoldConcat
    <3> QED
      BY <2>3, <2>5, <3>2
  <2>7. q.ok
    <3>1. ~q.ok => Fold(F, q, E) = q
      BY <2>1, <2>3, <2>5, StaysRefused
    <3> QED
      BY <1>5, <2>1, <2>6, <3>1
  <2>8. p.ok /\ q = ParseLine(p, t)
    BY <2>4, <2>7 DEF Further
  <2>9. D = <<>> /\ q = Add(p, Entry(n, v))
    <3>1. t = TrimSuffix("cr", Opened(n) \o s) /\ ParseLine(p, t).ok
      BY <1>2, <2>7, <2>8
    <3>2. Whole(n, v, D, p, t)
      BY <1>1, <3>1, FirstLine
    <3> QED
      BY <2>8, <3>2 DEF Whole
  <2>10. E = <<>>
    BY <2>1, <2>9 DEF Mapped
  <2>11. Fold(F, q, E) = q
    <3>1. Folds(Results(B), B, F, q)
      BY <2>1, <2>5, LinesFold
    <3> QED
      BY <2>10, <3>1, FoldEmpty
  <2> QED
    BY <2>1, <2>6, <2>8, <2>9, <2>11
<1> QED
  BY <1>2, <1>3, <1>4, <1>5

\* What there is of the names ns, read again.
ReadAgain(S, N, val, ns) ==
  \E C \in Seq(Seq(S)) :
    /\ Split("nl", Spelled(Assignments(N, val), ns)) = Append(C, <<>>)
    /\ LET q == Fold(LineStep(Seq(S)), Parsed(<<>>), Mapped(Trims(S), C))
       IN  q.ok => ToSet(q.entries) = Assigned(val, ToSet(ns))

LEMMA ReadAgainAll ==
  ASSUME NEW S, Alphabet(S), "cr" \in S, NEW N, NEW val, Entries(S, N, val), NEW ns \in Seq(N)
  PROVE  ReadAgain(S, N, val, ns)
<1> DEFINE M == Assignments(N, val)
           F == LineStep(Seq(S))
           Lines(C) == Mapped(Trims(S), C)
           T == {u \in Seq(N) : ReadAgain(S, N, val, u)}
<1>1. Maps(N, Seq(S), M)
  BY EntriesMap
<1>2. PICK B, a : B = Seq(S) /\ a = Parsed(<<>>)
  OBVIOUS
<1>3. a \in Results(B) /\ Folds(Results(B), B, F, a) /\ Maps(B, B, Trims(S))
  BY <1>2, NothingRead, LinesFold, TrimsMap
<1>4. ReadAgain(S, N, val, <<>>)
  <2>1. PICK e : e = <<>>
    OBVIOUS
  <2>2. e \in Seq(Seq(S)) /\ Spelled(M, <<>>) = <<>>
    BY <2>1, EmptySeq, SpelledEmpty
  <2>3. Split("nl", <<>>) = Append(e, <<>>)
    BY <2>1, SplitEmpty
  <2>4. Fold(F, a, Lines(e)) = a
    <3>1. Lines(e) = <<>>
      BY <2>1 DEF Mapped
    <3> QED
      BY <1>3, <3>1, FoldEmpty
  <2>5. ToSet(a.entries) = {} /\ Assigned(val, ToSet(<<>>)) = {}
    BY <1>2 DEF Parsed, ToSet, Assigned
  <2> QED
    BY <1>2, <2>2, <2>3, <2>4, <2>5 DEF ReadAgain
<1>5. ASSUME NEW u \in Seq(N), NEW n \in N, ReadAgain(S, N, val, u)
      PROVE  ReadAgain(S, N, val, Append(u, n))
  <2>1. PICK C \in Seq(Seq(S)) :
          /\ Split("nl", Spelled(M, u)) = Append(C, <<>>)
          /\ Fold(F, a, Lines(C)).ok => ToSet(Fold(F, a, Lines(C)).entries) = Assigned(val, ToSet(u))
    BY <1>2, <1>5 DEF ReadAgain
  <2>2. PICK v, d, x : v = val[n] /\ d = Assignment(n, v) /\ x = Spelled(M, u)
    OBVIOUS
  <2>3. n \in Seq(Upper \union Digits) /\ n # <<>> /\ v \in Seq(S)
    BY <2>2 DEF Entries
  <2>4. x \in Seq(S) /\ d \in Seq(S) /\ Spelled(M, Append(u, n)) = x \o d
    <3>1. Spelled(M, u) \in Seq(S) /\ Spelled(M, Append(u, n)) = Spelled(M, u) \o M[n]
      BY <1>1, SpelledAppend
    <3>2. M[n] = d /\ M[n] \in Seq(S)
      BY <1>1, <2>2 DEF Maps, Assignments
    <3> QED
      BY <2>2, <3>1, <3>2
  <2>5. PICK D \in Seq(Seq(S)) :
          /\ Split("nl", d) = Append(D, <<>>)
          /\ \A p \in Results(Seq(S)) :
               Fold(F, p, Lines(D)).ok => p.ok /\ Fold(F, p, Lines(D)) = Add(p, Entry(n, v))
    BY <2>2, <2>3, AssignmentRead
  <2>6. PICK G : G = C \o D
    OBVIOUS
  <2>7. C \in Seq(B) /\ D \in Seq(B) /\ G \in Seq(B)
    BY <1>2, <2>6, ConcatIn
  <2>8. Split("nl", x \o d) = Append(G, <<>>)
    <3>1. Split("nl", x \o d) = C \o Split("nl", d)
      <4>1. Stops("nl", x, C)
        BY <2>1, <2>2 DEF Stops
      <4>2. StopsBefore("nl", x, C, d)
        BY <2>4, <4>1, SplitAfter
      <4> QED
        BY <4>2 DEF StopsBefore
    <3>2. PICK e : e = <<>>
      OBVIOUS
    <3>3. e \in B
      BY <1>2, <3>2, EmptySeq
    <3>4. Longer(C, D, e)
      BY <2>7, <3>3, ConcatAppend
    <3> QED
      BY <2>5, <2>6, <3>1, <3>2, <3>4 DEF Longer
  <2>9. PICK p, q : p = Fold(F, a, Lines(C)) /\ q = Fold(F, a, Lines(G))
    OBVIOUS
  <2>10. p \in Results(B) /\ q = Fold(F, p, Lines(D))
    <3>1. Lines(C) \in Seq(B) /\ Lines(D) \in Seq(B)
      BY <1>3, <2>7, MappedType
    <3>2. Lines(G) = Lines(C) \o Lines(D)
      BY <1>3, <2>6, <2>7, MappedConcat
    <3> HIDE DEF Lines
    <3>3. p \in Results(B) /\ Fold(F, a, Lines(C) \o Lines(D)) = Fold(F, p, Lines(D))
      BY <1>3, <2>9, <3>1, FoldType, FoldConcat
    <3> QED
      BY <2>9, <3>2, <3>3
  <2>11. ASSUME q.ok PROVE ToSet(q.entries) = Assigned(val, ToSet(Append(u, n)))
    <3>1. p.ok /\ q = Add(p, Entry(n, v))
      BY <1>2, <2>5, <2>10, <2>11
    <3>2. ToSet(p.entries) = Assigned(val, ToSet(u))
      BY <2>1, <2>9, <3>1
    <3>3. PICK e, E : e = Entry(n, v) /\ E = {LineEntry(l) : l \in B} \union {e}
      OBVIOUS
    <3>4. p.entries \in Seq(E) /\ e \in E
      <4>1. PICK H : H = {LineEntry(l) : l \in B}
        OBVIOUS
      <4>2. p.entries \in Seq(H)
        BY <2>10, <4>1 DEF Results
      <4>3. Seq(H) \subseteq Seq(E)
        <5>1. H \subseteq E
          BY <3>3, <4>1
        <5> QED
          BY <5>1, SeqMonotonic
      <4> QED
        BY <3>3, <4>2, <4>3
    <3>5. ToSet(Append(p.entries, e)) = ToSet(p.entries) \union {e}
      BY <3>4, AppendSet
    <3>6. q.entries = Append(p.entries, e)
      BY <3>1, <3>3 DEF Add, Parsed
    <3>7. ToSet(Append(u, n)) = ToSet(u) \union {n}
      BY AppendSet
    <3>8. e = [key |-> n, value |-> val[n]]
      BY <2>2, <3>3 DEF Entry
    <3>9. Assigned(val, ToSet(u) \union {n}) = Assigned(val, ToSet(u)) \union {[key |-> n, value |-> val[n]]}
      BY DEF Assigned
    <3> QED
      BY <3>2, <3>5, <3>6, <3>7, <3>8, <3>9
  <2> QED
    BY <1>2, <2>4, <2>7, <2>8, <2>9, <2>11 DEF ReadAgain
<1>6. Seq(N) \subseteq T
  <2>1. <<>> \in T
    BY <1>4, EmptySeq
  <2>2. \A u \in Seq(N), n \in N : u \in T => Append(u, n) \in T
    BY <1>5
  <2> HIDE DEF T
  <2> QED
    BY <2>1, <2>2, SequenceInduction
<1> QED
  BY <1>6

\* An export that succeeds, read again as a .env file, is refused or has the
\* entries that were exported: the quoting of shellquote.go, for a shell, and
\* the parser of dotenv.go never disagree, for any names and values, any buffer
\* and any limit to a line.
THEOREM ExportReadsBack ==
  ASSUME NEW S, Alphabet(S), "cr" \in S, NEW names, IsText(names), NEW val,
         \A n \in ToSet(names) : IsText(n) /\ val[n] \in Seq(S),
         Export(names, val).ok, ParseDotenv(Export(names, val).out).ok
  PROVE  ToSet(ParseDotenv(Export(names, val).out).entries) = Assigned(val, ToSet(names))
<1> DEFINE N == ToSet(names)
<1>1. names \in Seq(N)
  BY DEF IsText
<1>2. Entries(S, N, val)
  <2>1. \A n \in N : Exportable(n, val[n])
    <3> HIDE DEF N
    <3> QED
      BY <1>1, ExportChecks DEF N
  <2> QED
    BY <2>1, KeyIs DEF Entries, Exportable
<1>3. PICK t : t = Spelled(Assignments(N, val), names)
  OBVIOUS
<1>4. t = Export(names, val).out /\ t \in Seq(S)
  <2> HIDE DEF N
  <2>1. Export(names, val).out = Spelled(Assignments(N, val), names)
    BY <1>1, <1>2, ExportIs
  <2>2. Maps(N, Seq(S), Assignments(N, val))
    BY <1>2, EntriesMap
  <2>3. Spelled(Assignments(N, val), names) \in Seq(S)
    BY <1>1, <2>2, SpelledType
  <2> QED
    BY <1>3, <2>1, <2>3
<1>5. ReadAgain(S, N, val, names)
  <2> HIDE DEF N
  <2> QED
    BY <1>1, <1>2, ReadAgainAll
<1>6. PICK C \in Seq(Seq(S)) :
        /\ Split("nl", t) = Append(C, <<>>)
        /\ LET q == Fold(LineStep(Seq(S)), Parsed(<<>>), Mapped(Trims(S), C))
           IN  q.ok => ToSet(q.entries) = Assigned(val, ToSet(names))
  BY <1>3, <1>5 DEF ReadAgain
<1>7. ParseDotenv(t).ok
  BY <1>4
<1>8. ParseDotenv(t) = Fold(LineStep(Seq(S)), Parsed(<<>>), Mapped(Trims(S), C))
  BY <1>4, <1>6, <1>7, DotenvIs
<1> QED
  BY <1>4, <1>6, <1>7, <1>8
-----------------------------------------------------------------------------
(***************************************************************************)
(* Values each followed by a NUL, and what cutting at NULs gives.          *)
(***************************************************************************)
NulEnded(K, val) == [k \in K |-> val[k] \o <<"nul">>]
ValuesOf(K, val) == [k \in K |-> val[k]]

\* Free of NULs, as every value is that can be cut out again.
NulFree(S, K, val) == "nul" \in S /\ \A k \in K : val[k] \in Seq(S \ {"nul"})

\* What the values of ks, each with its NUL, are cut into; and what they are but
\* for the last NUL.
CutsEnded(K, val, ks) ==
  Split("nul", Spelled(NulEnded(K, val), ks)) = Append(Mapped(ValuesOf(K, val), ks), <<>>)
EndsNul(S, K, val, ks) ==
  \E y \in Seq(S) : /\ Spelled(NulEnded(K, val), ks) = y \o <<"nul">>
                    /\ Split("nul", y) = Mapped(ValuesOf(K, val), ks)

LEMMA NulEndedMap ==
  ASSUME NEW S, NEW K, NEW val, NulFree(S, K, val)
  PROVE  Maps(K, Seq(S), NulEnded(K, val)) /\ Maps(K, Seq(S), ValuesOf(K, val))
<1>1. SUFFICES ASSUME NEW k \in K PROVE val[k] \o <<"nul">> \in Seq(S) /\ val[k] \in Seq(S)
  BY DEF Maps, NulEnded, ValuesOf
<1>2. val[k] \in Seq(S)
  BY SeqMonotonic DEF NulFree
<1>3. PICK v : v = val[k]
  OBVIOUS
<1>4. v \o <<"nul">> \in Seq(S)
  BY <1>2, <1>3, OneMore DEF NulFree
<1> QED
  BY <1>2, <1>3, <1>4

\* One value more: what comes before its NUL, and where that is cut.
LEMMA NulEndedAppend ==
  ASSUME NEW S, NEW K, NEW val, NulFree(S, K, val), NEW ks \in Seq(K), NEW k \in K,
         CutsEnded(K, val, ks), NEW kk, kk = Append(ks, k)
  PROVE  EndsNul(S, K, val, kk)
<1> DEFINE M == NulEnded(K, val)
           W == ValuesOf(K, val)
<1>1. Maps(K, Seq(S), M) /\ Maps(K, Seq(S), W)
  BY NulEndedMap
<1>2. M[k] = val[k] \o <<"nul">> /\ W[k] = val[k]
  BY DEF NulEnded, ValuesOf
<1> HIDE DEF M, W
<1>3. Spelled(M, ks) \in Seq(S) /\ Spelled(M, Append(ks, k)) = Spelled(M, ks) \o M[k]
  BY <1>1, SpelledAppend
<1>4. PICK R : R = Seq(S)
  OBVIOUS
<1>5. Mapped(W, ks) \in Seq(R) /\ Mapped(W, Append(ks, k)) = Append(Mapped(W, ks), W[k])
  BY <1>1, <1>4, MappedAppend
<1>6. PICK x, m, v : x = Spelled(M, ks) /\ m = Mapped(W, ks) /\ v = val[k]
  OBVIOUS
<1>7. x \in Seq(S)
  BY <1>3, <1>6
<1>8. v \in Seq(S \ {"nul"})
  BY <1>6 DEF NulFree
<1>9. v \in Seq(S)
  BY <1>8, SeqMonotonic
<1>10. m \in Seq(Seq(S))
  BY <1>4, <1>5, <1>6
<1>11. PICK y : y = x \o v
  OBVIOUS
<1>12. y \in Seq(S)
  BY <1>7, <1>9, <1>11, ConcatIn
<1>13. Spelled(M, Append(ks, k)) = y \o <<"nul">>
  <2>1. PICK q : q = <<"nul">>
    OBVIOUS
  <2>2. q \in Seq(S)
    BY <2>1, OneIs DEF NulFree
  <2>3. Regrouped(x, v, q)
    BY <1>7, <1>9, <2>2, ConcatRegroup
  <2> QED
    BY <1>2, <1>3, <1>6, <1>11, <2>1, <2>3 DEF Regrouped
<1>14. Split("nul", y) = Grown(Append(m, <<>>), v)
  <2>1. PICK c : c = "nul"
    OBVIOUS
  <2>2. v \in Seq(S \ {c})
    BY <1>8, <2>1
  <2>3. Split(c, x \o v) = Grown(Split(c, x), v)
    BY <1>7, <2>2, SplitOn
  <2> QED
    BY <1>6, <1>11, <2>1, <2>3 DEF M, W, CutsEnded
<1>15. Grown(Append(m, <<>>), v) = Append(m, v)
  BY <1>9, <1>10, GrownLast
<1> QED
  BY <1>2, <1>5, <1>6, <1>12, <1>13, <1>14, <1>15 DEF M, W, EndsNul

LEMMA SplitNulEnded ==
  ASSUME NEW S, NEW K, NEW val, NulFree(S, K, val), NEW ks \in Seq(K)
  PROVE  CutsEnded(K, val, ks)
<1> DEFINE M == NulEnded(K, val)
           W == ValuesOf(K, val)
           Good(u) == CutsEnded(K, val, u)
           T == {u \in Seq(K) : Good(u)}
<1>1. Good(<<>>)
  <2>1. Spelled(M, <<>>) = <<>> /\ Mapped(W, <<>>) = <<>>
    BY SpelledEmpty DEF Mapped
  <2>2. Split("nul", <<>>) = << <<>> >>
    BY SplitEmpty
  <2>3. Append(<<>>, <<>>) = << <<>> >>
    OBVIOUS
  <2> QED
    BY <2>1, <2>2, <2>3 DEF CutsEnded
<1>2. ASSUME NEW u \in Seq(K), NEW k \in K, Good(u) PROVE Good(Append(u, k))
  <2>6. PICK uk : uk = Append(u, k)
    OBVIOUS
  <2>7. EndsNul(S, K, val, uk)
    BY <1>2, <2>6, NulEndedAppend
  <2>1. PICK y \in Seq(S) : Spelled(M, uk) = y \o <<"nul">> /\ Split("nul", y) = Mapped(W, uk)
    BY <2>7 DEF EndsNul
  <2>2. PICK c : c = "nul"
    OBVIOUS
  <2>3. c \in S
    BY <2>2 DEF NulFree
  <2>4. SplitsNext(c, y, c) /\ y \o <<c>> = Append(y, c)
    BY <2>3, SplitNext, OneMore
  <2>5. Split(c, y \o <<c>>) = Append(Split(c, y), <<>>)
    BY <2>4 DEF SplitsNext
  <2> QED
    BY <2>1, <2>2, <2>5, <2>6 DEF CutsEnded
<1>3. Seq(K) \subseteq T
  <2> HIDE DEF Good
  <2>1. <<>> \in T /\ \A u \in Seq(K), k \in K : u \in T => Append(u, k) \in T
    BY <1>1, <1>2, EmptySeq
  <2> HIDE DEF T
  <2> QED
    BY <2>1, SequenceInduction
<1> QED
  BY <1>3

LEMMA EmitsNul ==
  ASSUME NEW keys, NEW val
  PROVE  EmitNUL(keys, val) = Spelled(NulEnded(ToSet(keys), val), keys)
         /\ [i \in DOMAIN keys |-> val[keys[i]]] = Mapped(ValuesOf(ToSet(keys), val), keys)
<1>1. \A i \in DOMAIN keys : keys[i] \in ToSet(keys)
  BY DEF ToSet
<1>2. [i \in DOMAIN keys |-> val[keys[i]] \o <<"nul">>] = Mapped(NulEnded(ToSet(keys), val), keys)
  BY <1>1 DEF Mapped, NulEnded
<1>3. [i \in DOMAIN keys |-> val[keys[i]]] = Mapped(ValuesOf(ToSet(keys), val), keys)
  BY <1>1 DEF Mapped, ValuesOf
<1> QED
  BY <1>2, <1>3 DEF EmitNUL, Spelled

\* What reveal -0 prints is a text and a NUL, and the text is cut at NULs into the values.
CutsInto(keys, val, y) ==
  EmitNUL(keys, val) = y \o <<"nul">> /\ Split("nul", y) = [i \in DOMAIN keys |-> val[keys[i]]]

\* There is such a text, if no value has a NUL.

LEMMA NulsEmitted ==
  ASSUME NEW S, "nul" \in S, NEW keys, IsText(keys), keys # <<>>, NEW val,
         \A k \in ToSet(keys) : val[k] \in Seq(S) /\ ~Occurs("nul", val[k])
  PROVE  \E y \in Seq(S) : CutsInto(keys, val, y)
<1> DEFINE K == ToSet(keys)
           M == NulEnded(K, val)
           W == ValuesOf(K, val)
<1>1. EmitNUL(keys, val) = Spelled(M, keys) /\ [i \in DOMAIN keys |-> val[keys[i]]] = Mapped(W, keys)
  BY EmitsNul
<1>2. NulFree(S, K, val)
  <2>1. ASSUME NEW k \in K PROVE val[k] \in Seq(S \ {"nul"})
    <3>1. PICK v, c : v = val[k] /\ c = "nul"
      OBVIOUS
    <3>2. v \in Seq(S) /\ ~Occurs(c, v)
      BY <3>1
    <3>3. v \in Seq(S \ {c})
      BY <3>2, Without
    <3> QED
      BY <3>1, <3>3
  <2> QED
    BY <2>1 DEF NulFree
<1>3. keys \in Seq(K)
  BY DEF IsText
<1> HIDE DEF K
<1>4. PICK ks \in Seq(K), k \in K : keys = Append(ks, k)
  BY <1>3, SequenceEmptyOrAppend
<1>5. CutsEnded(K, val, ks)
  BY <1>2, SplitNulEnded
<1>6. EndsNul(S, K, val, keys)
  BY <1>2, <1>4, <1>5, NulEndedAppend
<1> QED
  BY <1>1, <1>6 DEF EndsNul, CutsInto

\* Cutting what reveal -0 prints at its NULs gives the values, in the order of
\* the names, if none has a NUL itself (read.go, 14-19).
THEOREM NulsDelimit ==
  ASSUME NEW S, "nul" \in S, NEW keys, IsText(keys), keys # <<>>, NEW val,
         \A k \in ToSet(keys) : val[k] \in Seq(S) /\ ~Occurs("nul", val[k])
  PROVE  Records(EmitNUL(keys, val)) = [i \in DOMAIN keys |-> val[keys[i]]]
<1>1. PICK y \in Seq(S) : /\ EmitNUL(keys, val) = y \o <<"nul">>
                          /\ Split("nul", y) = [i \in DOMAIN keys |-> val[keys[i]]]
  BY NulsEmitted DEF CutsInto
<1>2. PICK o : o = y \o <<"nul">>
  OBVIOUS
<1>3. o \in Seq(S) /\ Len(o) = Len(y) + 1 /\ o[Len(y) + 1] = "nul" /\ Len(y) \in Nat
      /\ \A i \in 1..Len(y) : o[i] = y[i]
  BY <1>2
<1>4. o # <<>> /\ Last(o) = "nul"
  BY <1>3, EmptySeq DEF Last
<1>5. Front(o) = y
  BY <1>3 DEF Front
<1>6. Records(o) = Split("nul", y)
  BY <1>4, <1>5 DEF Records, TrimSuffix
<1> QED
  BY <1>1, <1>2, <1>6
-----------------------------------------------------------------------------
(***************************************************************************)
(* The variables of an environment.                                        *)
(***************************************************************************)
\* A name that an environment variable can have, of bytes in S.
Nameable(S) == {k \in Seq(S) : ~Occurs("=", k)}

LEMMA NamedAt ==
  ASSUME NEW S, "=" \in S, NEW k \in Seq(S), NEW e \in Seq(S)
  PROVE  Named(k, e) <=> /\ Len(k) + 1 <= Len(e) /\ e[Len(k) + 1] = "="
                         /\ \A j \in 1..Len(k) : k[j] = e[j]
<1>1. PICK p : p = k \o <<"=">>
  OBVIOUS
<1>2. p \in Seq(S) /\ Len(p) = Len(k) + 1 /\ p[Len(k) + 1] = "=" /\ Len(k) \in Nat
      /\ \A j \in 1..Len(k) : p[j] = k[j]
  BY <1>1
<1>3. IsPrefix(p, e) <=> Len(p) <= Len(e) /\ \A j \in 1..Len(p) : p[j] = e[j]
  BY <1>2, PrefixIs
<1>4. (\A j \in 1..Len(p) : p[j] = e[j]) <=> e[Len(k) + 1] = "=" /\ \A j \in 1..Len(k) : k[j] = e[j]
  BY <1>2
<1> QED
  BY <1>1, <1>2, <1>3, <1>4 DEF Named

\* An entry is that of the name before its first "=".
LEMMA NamedIs ==
  ASSUME NEW S, "=" \in S, NEW k \in Nameable(S), NEW e \in Seq(S)
  PROVE  Named(k, e) <=> Occurs("=", e) /\ Before(Index("=", e), e) = k
<1>1. k \in Seq(S) /\ Len(k) \in Nat /\ DOMAIN k = 1..Len(k) /\ Len(e) \in Nat /\ DOMAIN e = 1..Len(e)
  BY LenProperties DEF Nameable
<1>2. \A j \in 1..Len(k) : k[j] # "="
  BY <1>1 DEF Nameable, Occurs
<1>3. Named(k, e) <=> /\ Len(k) + 1 <= Len(e) /\ e[Len(k) + 1] = "="
                      /\ \A j \in 1..Len(k) : k[j] = e[j]
  BY <1>1, NamedAt
<1>4. ASSUME Named(k, e) PROVE Occurs("=", e) /\ Before(Index("=", e), e) = k
  <2>1. PICK n : n = Len(k) + 1
    OBVIOUS
  <2>2. n \in 1..Len(e) /\ e[n] = "=" /\ \A j \in 1..n - 1 : e[j] # "="
    BY <1>1, <1>2, <1>3, <1>4, <2>1
  <2>3. Index("=", e) = n
    BY <2>2, FirstIs
  <2>4. Occurs("=", e)
    BY <1>1, <2>2 DEF Occurs
  <2>5. n - 1 = Len(k) /\ Len(k) <= Len(e)
    BY <1>1, <2>1, <2>2
  <2>6. PICK q : q = SubSeq(e, 1, Len(k))
    OBVIOUS
  <2>7. q \in Seq(S) /\ Len(q) = Len(k) /\ \A j \in 1..Len(k) : q[j] = e[j]
    BY <1>1, <2>5, <2>6
  <2>8. q = k
    BY <1>1, <1>3, <1>4, <2>7, SeqEqual
  <2> QED
    BY <2>3, <2>4, <2>5, <2>6, <2>8 DEF Before
<1>5. ASSUME Occurs("=", e), Before(Index("=", e), e) = k PROVE Named(k, e)
  <2>1. PICK i : i = Index("=", e)
    OBVIOUS
  <2>2. i \in 1..Len(e) /\ e[i] = "="
    BY <1>5, <2>1, IndexIs
  <2>3. k = SubSeq(e, 1, i - 1)
    BY <1>5, <2>1 DEF Before
  <2>4. Len(k) = i - 1 /\ \A j \in 1..i - 1 : k[j] = e[j]
    BY <1>1, <2>2, <2>3
  <2> QED
    BY <1>1, <1>3, <2>2, <2>4
<1> QED
  BY <1>4, <1>5

\* What was put together under a name is that of the name, and of no other.
LEMMA EntryNamed ==
  ASSUME NEW S, "=" \in S, NEW k \in Nameable(S), NEW v \in Seq(S), NEW e, Joined(k, "=", v, e)
  PROVE  /\ e \in Seq(S) /\ Named(k, e) /\ After(Len(k) + 1, e) = v
         /\ \A l \in Nameable(S) : Named(l, e) => l = k
<1>1. k \in Seq(S) /\ ~Occurs("=", k)
  BY DEF Nameable
<1>2. PICK c : c = "="
  OBVIOUS
<1>3. Joined(k, c, v, e) /\ ~Occurs(c, k) /\ c \in S
  BY <1>1, <1>2
<1>4. e \in Seq(S) /\ Occurs(c, e) /\ Before(Index(c, e), e) = k /\ After(Index(c, e), e) = v
  BY <1>1, <1>3, CutAtFirst
<1>5. \A l \in Nameable(S) : Named(l, e) <=> l = k
  BY <1>2, <1>4, NamedIs
<1>6. Index(c, e) = Len(k) + 1
  <2>1. PICK i : i = Index(c, e)
    OBVIOUS
  <2>2. i \in 1..Len(e)
    BY <1>4, <2>1, IndexIs
  <2>3. k = SubSeq(e, 1, i - 1) /\ Len(e) \in Nat
    BY <1>4, <2>1, LenProperties DEF Before
  <2>4. Len(k) = i - 1
    BY <1>4, <2>2, <2>3
  <2> QED
    BY <2>1, <2>2, <2>4
<1> QED
  BY <1>4, <1>5, <1>6

\* Where an environment names k.
Naming(env, k) == {i \in 1..Len(env) : Named(k, env[i])}

LEMMA GetenvFirst ==
  ASSUME NEW S, NEW env \in Seq(Seq(S)), NEW k, NEW I, I = Naming(env, k)
  PROVE  /\ I \subseteq 1..Len(env) /\ I \subseteq Nat
         /\ Getenv(env, k) = IF I = {} THEN {} ELSE {After(Len(k) + 1, env[Min(I)])}
<1>1. Len(env) \in Nat
  BY LenProperties
<1>2. I \subseteq 1..Len(env)
  BY DEF Naming
<1>3. I \subseteq Nat
  BY <1>1, <1>2
<1>4. I # {} => Min(I) # 0
  <2>1. SUFFICES ASSUME I # {} PROVE Min(I) # 0
    OBVIOUS
  <2>2. Min(I) \in I
    BY <1>3, <2>1, MinIn
  <2>3. 0 \notin I
    BY <1>1, <1>2
  <2> QED
    BY <2>2, <2>3
<1>5. Getenv(env, k) = LET i == IF I # {} THEN Min(I) ELSE 0
                       IN  IF i = 0 THEN {} ELSE {After(Len(k) + 1, env[i])}
  BY DEF Getenv, SelectInSeq, Naming
<1> QED
  BY <1>2, <1>3, <1>4, <1>5

LEMMA GetenvNone ==
  ASSUME NEW S, NEW env \in Seq(Seq(S)), NEW k
  PROVE  Getenv(env, k) = {} <=> Naming(env, k) = {}
<1>1. PICK I : I = Naming(env, k)
  OBVIOUS
<1>2. Getenv(env, k) = IF I = {} THEN {} ELSE {After(Len(k) + 1, env[Min(I)])}
  BY <1>1, GetenvFirst
<1> QED
  BY <1>1, <1>2

\* Two environments that have the same entries where one of them names k.
LEMMA GetenvSame ==
  ASSUME NEW S, NEW env \in Seq(Seq(S)), NEW out \in Seq(Seq(S)), NEW k,
         Naming(env, k) = Naming(out, k), \A i \in Naming(env, k) : env[i] = out[i]
  PROVE  Getenv(env, k) = Getenv(out, k)
<1>1. PICK I : I = Naming(env, k)
  OBVIOUS
<1>2. I \subseteq Nat
  BY <1>1, GetenvFirst
<1>3. I # {} => env[Min(I)] = out[Min(I)]
  BY <1>1, <1>2, MinIn
<1>4. Getenv(env, k) = IF I = {} THEN {} ELSE {After(Len(k) + 1, env[Min(I)])}
  BY <1>1, GetenvFirst
<1>5. Getenv(out, k) = IF I = {} THEN {} ELSE {After(Len(k) + 1, out[Min(I)])}
  BY <1>1, GetenvFirst
<1> QED
  BY <1>3, <1>4, <1>5

\* Wherever it names k, it has the same entry.
LEMMA GetenvOne ==
  ASSUME NEW S, NEW env \in Seq(Seq(S)), NEW k, NEW x,
         Naming(env, k) # {}, \A i \in Naming(env, k) : env[i] = x
  PROVE  Getenv(env, k) = {After(Len(k) + 1, x)}
<1>1. PICK I : I = Naming(env, k)
  OBVIOUS
<1>2. I \subseteq Nat /\ I # {}
  BY <1>1, GetenvFirst
<1>3. env[Min(I)] = x
  BY <1>1, <1>2, MinIn
<1>4. Getenv(env, k) = IF I = {} THEN {} ELSE {After(Len(k) + 1, env[Min(I)])}
  BY <1>1, GetenvFirst
<1> QED
  BY <1>2, <1>3, <1>4

LEMMA GetenvAppend ==
  ASSUME NEW S, NEW env \in Seq(Seq(S)), NEW k, NEW e \in Seq(S), NEW out, out = Append(env, e)
  PROVE  /\ Naming(out, k) = IF Named(k, e) THEN Naming(env, k) \union {Len(env) + 1} ELSE Naming(env, k)
         /\ Getenv(out, k) = IF Naming(env, k) # {} THEN Getenv(env, k)
                             ELSE IF Named(k, e) THEN {After(Len(k) + 1, e)} ELSE {}
<1>0. PICK E : E = Seq(S)
  OBVIOUS
<1>1. /\ out \in Seq(E) /\ Len(env) \in Nat /\ Len(out) = Len(env) + 1
      /\ \A i \in 1..Len(env) : out[i] = env[i]
      /\ out[Len(env) + 1] = e
  BY <1>0, AppendElements
<1>2. PICK n : n = Len(env)
  OBVIOUS
<1>3. PICK I : I = Naming(env, k)
  OBVIOUS
<1>4. PICK J : J = Naming(out, k)
  OBVIOUS
<1>5. J = IF Named(k, e) THEN I \union {n + 1} ELSE I
  BY <1>1, <1>2, <1>3, <1>4 DEF Naming
<1>6. I \subseteq 1..n /\ I \subseteq Nat /\ n \in Nat
  BY <1>1, <1>2, <1>3, GetenvFirst
<1>7. Getenv(env, k) = IF I = {} THEN {} ELSE {After(Len(k) + 1, env[Min(I)])}
  BY <1>3, GetenvFirst
<1>8. J \subseteq Nat /\ Getenv(out, k) = IF J = {} THEN {} ELSE {After(Len(k) + 1, out[Min(J)])}
  BY <1>0, <1>1, <1>4, GetenvFirst
<1>9. CASE I # {}
  <2>1. Min(I) \in I /\ \A j \in I : Min(I) <= j
    BY <1>6, <1>9, MinIn
  <2>2. Min(J) \in J /\ \A j \in J : Min(J) <= j
    BY <1>5, <1>8, <1>9, MinIn
  <2>3. PICK a, b : a = Min(I) /\ b = Min(J)
    OBVIOUS
  <2>4. a = b /\ a \in 1..n
    <3>1. a \in I /\ a \in 1..n /\ b \in J /\ (\A j \in I : a <= j) /\ \A j \in J : b <= j
      BY <1>6, <2>1, <2>2, <2>3
    <3>2. b \in I \/ b = n + 1
      BY <1>5, <3>1
    <3>3. a \in J
      BY <1>5, <3>1
    <3>4. b <= a /\ b \in Nat
      BY <1>8, <3>1, <3>3
    <3>5. b \in I
      BY <1>6, <3>1, <3>2, <3>4
    <3> QED
      BY <1>6, <3>1, <3>4, <3>5
  <2>5. out[b] = env[a]
    BY <1>1, <1>2, <2>4
  <2> QED
    BY <1>2, <1>3, <1>4, <1>5, <1>7, <1>8, <1>9, <2>3, <2>5
<1>10. CASE I = {} /\ Named(k, e)
  <2>1. J = {n + 1}
    BY <1>5, <1>10
  <2>2. Min(J) = n + 1
    BY <1>8, <2>1, MinIn
  <2> QED
    BY <1>1, <1>2, <1>3, <1>4, <1>5, <1>8, <1>10, <2>1, <2>2
<1>11. CASE I = {} /\ ~Named(k, e)
  BY <1>2, <1>3, <1>4, <1>5, <1>8, <1>11
<1> QED
  BY <1>9, <1>10, <1>11
-----------------------------------------------------------------------------
(***************************************************************************)
(* os.Environ.                                                             *)
(***************************************************************************)
SameName(e, f) ==
  Occurs("=", e) /\ Occurs("=", f) /\ Before(Index("=", e), e) = Before(Index("=", f), f)
Once(env, e) == IF \E i \in DOMAIN env : SameName(e, env[i]) THEN env ELSE Append(env, e)
EnvironStep(S) == [x \in Seq(Seq(S)) \X Seq(S) |-> Once(x[1], x[2])]

\* No name stands twice in an environment.
Sole(S, env) == \A k \in Nameable(S) : \A i, j \in Naming(env, k) : i = j

\* Every name has the same value in both.
Agree(S, env, u) == \A k \in Nameable(S) : Getenv(env, k) = Getenv(u, k)

LEMMA EnvironNext ==
  ASSUME NEW S, "=" \in S, NEW env \in Seq(Seq(S)), NEW u \in Seq(Seq(S)),
         Sole(S, env), Agree(S, env, u), NEW e \in Seq(S),
         NEW out, out = Once(env, e), NEW w, w = Append(u, e)
  PROVE  Sole(S, out) /\ Agree(S, out, w)
<1>1. \A k \in Nameable(S) : Naming(env, k) = {} <=> Naming(u, k) = {}
  <2>1. \A k : Getenv(env, k) = {} <=> Naming(env, k) = {}
    BY GetenvNone
  <2>2. \A k : Getenv(u, k) = {} <=> Naming(u, k) = {}
    BY GetenvNone
  <2> QED
    BY <2>1, <2>2 DEF Agree
<1>2. \A k \in Nameable(S) : Getenv(w, k) = IF Naming(env, k) # {} THEN Getenv(env, k)
                                            ELSE IF Named(k, e) THEN {After(Len(k) + 1, e)} ELSE {}
  <2>1. \A k : Getenv(w, k) = IF Naming(u, k) # {} THEN Getenv(u, k)
                              ELSE IF Named(k, e) THEN {After(Len(k) + 1, e)} ELSE {}
    BY GetenvAppend
  <2> QED
    BY <1>1, <2>1 DEF Agree
<1>3. DOMAIN env = 1..Len(env) /\ \A i \in 1..Len(env) : env[i] \in Seq(S)
  BY LenProperties
<1>4. ASSUME NEW k \in Nameable(S), Named(k, e), NEW i \in 1..Len(env)
      PROVE  SameName(e, env[i]) <=> i \in Naming(env, k)
  <2>1. Occurs("=", e) /\ Before(Index("=", e), e) = k
    BY <1>4, NamedIs
  <2>2. Named(k, env[i]) <=> Occurs("=", env[i]) /\ Before(Index("=", env[i]), env[i]) = k
    BY <1>3, NamedIs
  <2> QED
    BY <2>1, <2>2 DEF SameName, Naming
<1>5. CASE \E i \in DOMAIN env : SameName(e, env[i])
  <2>1. out = env
    BY <1>5 DEF Once
  <2>2. \A k \in Nameable(S) : Named(k, e) => Naming(env, k) # {}
    BY <1>3, <1>4, <1>5
  <2>3. \A k : Naming(env, k) = {} => Getenv(env, k) = {}
    BY GetenvNone
  <2> QED
    BY <1>2, <2>1, <2>2, <2>3 DEF Agree
<1>6. CASE ~\E i \in DOMAIN env : SameName(e, env[i])
  <2>1. out = Append(env, e)
    BY <1>6 DEF Once
  <2>2. \A k \in Nameable(S) : Named(k, e) => Naming(env, k) = {}
    <3>1. \A k : Naming(env, k) \subseteq 1..Len(env)
      BY DEF Naming
    <3> QED
      BY <1>3, <1>4, <1>6, <3>1
  <2>3. \A k : /\ Naming(out, k) = IF Named(k, e) THEN Naming(env, k) \union {Len(env) + 1} ELSE Naming(env, k)
               /\ Getenv(out, k) = IF Naming(env, k) # {} THEN Getenv(env, k)
                                   ELSE IF Named(k, e) THEN {After(Len(k) + 1, e)} ELSE {}
    BY <2>1, GetenvAppend
  <2>4. Agree(S, out, w)
    BY <1>2, <2>3 DEF Agree
  <2>5. Sole(S, out)
    <3>1. ASSUME NEW k \in Nameable(S), NEW i \in Naming(out, k), NEW j \in Naming(out, k) PROVE i = j
      <4>0. Naming(out, k) = IF Named(k, e) THEN Naming(env, k) \union {Len(env) + 1} ELSE Naming(env, k)
        BY <2>3
      <4>1. CASE Named(k, e)
        <5>1. Naming(env, k) = {}
          BY <2>2, <4>1
        <5> QED
          BY <3>1, <4>0, <4>1, <5>1
      <4>2. CASE ~Named(k, e)
        BY <3>1, <4>0, <4>2 DEF Sole
      <4> QED
        BY <4>1, <4>2
    <3> QED
      BY <3>1 DEF Sole
  <2> QED
    BY <2>4, <2>5
<1> QED
  BY <1>5, <1>6

EnvironOf(S, u, env) == env \in Seq(Seq(S)) /\ Sole(S, env) /\ Agree(S, env, u)

\* The environment has every name once, with the value it had first.
LEMMA EnvironIs ==
  ASSUME NEW S, "=" \in S, NEW u \in Seq(Seq(S))
  PROVE  EnvironOf(S, u, Environ(u))
<1> DEFINE A == Seq(Seq(S))
           B == Seq(S)
           F == EnvironStep(S)
           a == <<>>
           s == u
           G(g) == g = [t \in SUBSET DOMAIN s |->
                          IF t = {} THEN a ELSE Once(g[t \ {Max(t)}], s[Max(t)])]
           g == CHOOSE g : G(g)
           Good(w) == EnvironOf(S, w, Fold(F, a, w))
           T == {w \in Seq(B) : Good(w)}
<1>1. Environ(u) = g[DOMAIN s]
  BY DEF Environ, FoldLeft, MapThenFoldSet, Once, SameName
<1>2. Folds(A, B, F, a)
  <2>1. ASSUME NEW env \in A, NEW e \in B PROVE Once(env, e) \in A
    <3>1. Append(env, e) \in A
      OBVIOUS
    <3> QED
      BY <3>1 DEF Once
  <2> QED
    BY <2>1, EmptySeq DEF Folds, EnvironStep
<1>3. \A env \in A, e \in B : F[<<env, e>>] = Once(env, e)
  BY DEF EnvironStep
<1>4. A = Seq(B)
  OBVIOUS
<1> HIDE DEF F
<1>5. Good(<<>>)
  <2>0. PICK n : n = <<>>
    OBVIOUS
  <2>1. Fold(F, a, n) = n
    BY <1>2, <2>0, FoldEmpty
  <2>2. n \in A /\ Len(n) = 0
    BY <2>0, EmptySeq
  <2>3. \A k : Naming(n, k) = {}
    BY <2>2 DEF Naming
  <2> QED
    BY <2>0, <2>1, <2>2, <2>3 DEF EnvironOf, Sole, Agree
<1>6. ASSUME NEW w \in Seq(B), NEW e \in B, Good(w) PROVE Good(Append(w, e))
  <2>1. PICK env : env = Fold(F, a, w)
    OBVIOUS
  <2>2. PICK ww : ww = Append(w, e)
    OBVIOUS
  <2>3. PICK out : out = Once(env, e)
    OBVIOUS
  <2>4. env \in A /\ Sole(S, env) /\ Agree(S, env, w)
    BY <1>6, <2>1 DEF EnvironOf
  <2>5. Fold(F, a, ww) = out
    <3>1. Fold(F, a, Append(w, e)) = F[<<Fold(F, a, w), e>>]
      BY <1>2, FoldAppend
    <3> QED
      BY <1>3, <2>1, <2>2, <2>3, <2>4, <3>1
  <2>6. Sole(S, out) /\ Agree(S, out, ww)
    BY <2>2, <2>3, <2>4, EnvironNext
  <2>7. ww \in Seq(B)
    BY <2>2, AppendProperties
  <2>8. out \in A
    BY <1>2, <2>5, <2>7, FoldType
  <2> QED
    BY <2>2, <2>5, <2>6, <2>8 DEF EnvironOf
<1>7. Seq(B) \subseteq T
  <2> HIDE DEF Good
  <2>1. <<>> \in T /\ \A w \in Seq(B), e \in B : w \in T => Append(w, e) \in T
    BY <1>5, <1>6, EmptySeq
  <2> HIDE DEF T, B
  <2> QED
    BY <2>1, SequenceInduction
<1>8. EnvironOf(S, u, Fold(F, a, u))
  BY <1>7
<1>9. s \in Seq(B)
  OBVIOUS
<1> HIDE DEF A, a, s, B
<1>10. PICK f : Table(A, B, F, a, s, f)
  BY <1>2, <1>9, TableExists
<1>11. G(f)
  BY <1>3, <1>10 DEF Table
<1>12. G(g)
  BY <1>11
<1> HIDE DEF g
<1>13. Unfolds(A, B, F, a, s, g)
  BY <1>3, <1>12 DEF Unfolds
<1>14. g[DOMAIN s] = Fold(F, a, s)
  BY <1>2, <1>9, <1>13, FoldIs
<1> QED
  BY <1>1, <1>8, <1>14 DEF s
-----------------------------------------------------------------------------
(***************************************************************************)
(* childEnv.                                                               *)
(***************************************************************************)
Place(env, k) == SelectLastInSeq(env, LAMBDA e : Named(k, e))
Put(val, k) == k \o <<"=">> \o val[k]
PutIn(env, val, out, k) ==
  IF Place(env, k) > 0 THEN [out EXCEPT ![Place(env, k)] = Put(val, k)] ELSE Append(out, Put(val, k))

\* Names with values that can be put into an environment.
Puttable(S, K, val) == "=" \in S /\ K \subseteq Nameable(S) /\ \A k \in K : val[k] \in Seq(S)

LEMMA PlaceIs ==
  ASSUME NEW S, NEW env \in Seq(Seq(S)), Sole(S, env), NEW k \in Nameable(S)
  PROVE  /\ Place(env, k) \in 0..Len(env)
         /\ Naming(env, k) = IF Place(env, k) = 0 THEN {} ELSE {Place(env, k)}
<1>1. PICK I : I = Naming(env, k)
  OBVIOUS
<1>2. I \subseteq 1..Len(env) /\ Len(env) \in Nat /\ \A i, j \in I : i = j
  BY <1>1, LenProperties DEF Naming, Sole
<1>3. Place(env, k) = IF I # {} THEN Max(I) ELSE 0
  BY <1>1 DEF Place, SelectLastInSeq, Naming
<1>4. I # {} => Max(I) \in I
  BY <1>2, MaxIn
<1>5. PICK p : p = Place(env, k)
  OBVIOUS
<1>6. CASE I = {}
  BY <1>1, <1>2, <1>3, <1>6
<1>7. CASE I # {}
  <2>1. p \in I
    BY <1>3, <1>4, <1>5, <1>7
  <2>2. p \in 1..Len(env) /\ I = {p}
    BY <1>2, <2>1
  <2> QED
    BY <1>1, <1>2, <1>5, <2>2
<1> QED
  BY <1>6, <1>7

LEMMA PutNamed ==
  ASSUME NEW S, NEW K, NEW val, Puttable(S, K, val), NEW k \in K, NEW e, e = Put(val, k)
  PROVE  /\ e \in Seq(S) /\ Named(k, e) /\ After(Len(k) + 1, e) = val[k]
         /\ \A l \in Nameable(S) : Named(l, e) => l = k
<1>1. k \in Nameable(S) /\ val[k] \in Seq(S) /\ "=" \in S
  BY DEF Puttable
<1>2. PICK v : v = val[k]
  OBVIOUS
<1>3. Joined(k, "=", v, e)
  BY <1>2 DEF Joined, Put
<1> QED
  BY <1>1, <1>2, <1>3, EntryNamed

\* Where a name seen is put: at its place, or after all that was there.
At(env, k, i) == Place(env, k) = IF i <= Len(env) THEN i ELSE 0

\* What is there is a name seen with its value, at its place, or was there and
\* is of no name seen; and all names seen are there.
Overlaid(env, val, seen, out) ==
  /\ \A i \in 1..Len(out) :
       \/ \E k \in seen : out[i] = Put(val, k) /\ At(env, k, i)
       \/ i <= Len(env) /\ out[i] = env[i] /\ \A k \in seen : Place(env, k) # i
  /\ \A k \in seen : \E i \in 1..Len(out) : out[i] = Put(val, k) /\ At(env, k, i)

Wider(S, env) == {out \in Seq(Seq(S)) : Len(env) <= Len(out)}

LEMMA PutInTyped ==
  ASSUME NEW S, NEW env \in Seq(Seq(S)), Sole(S, env), NEW K, NEW val, Puttable(S, K, val),
         NEW k \in K, NEW out \in Wider(S, env), NEW new, new = PutIn(env, val, out, k),
         NEW p, p = Place(env, k), NEW e, e = Put(val, k), NEW n, n = Len(out)
  PROVE  /\ new \in Wider(S, env) /\ n \in Nat /\ p \in 0..Len(env) /\ Len(env) <= n
         /\ p > 0 => Len(new) = n /\ \A i \in 1..n : new[i] = IF i = p THEN e ELSE out[i]
         /\ p = 0 => Len(new) = n + 1 /\ new[n + 1] = e /\ \A i \in 1..n : new[i] = out[i]
<1>0. PICK E : E = Seq(S)
  OBVIOUS
<1>1. k \in Nameable(S)
  BY DEF Puttable
<1>2. p \in 0..Len(env)
  BY <1>1, PlaceIs
<1>3. e \in E
  BY <1>0, PutNamed
<1>4. out \in Seq(E) /\ n \in Nat /\ Len(env) <= n /\ Len(env) \in Nat
  BY <1>0, LenProperties DEF Wider
<1>5. new = IF p > 0 THEN [out EXCEPT ![p] = e] ELSE Append(out, e)
  BY DEF PutIn
<1>6. CASE p > 0
  <2>1. p \in 1..n
    BY <1>2, <1>4, <1>6
  <2>2. new = [out EXCEPT ![p] = e]
    BY <1>5, <1>6
  <2>3. new \in Seq(E) /\ Len(new) = n /\ \A i \in 1..n : new[i] = IF i = p THEN e ELSE out[i]
    BY <1>3, <1>4, <2>1, <2>2, ExceptSeq
  <2> QED
    BY <1>0, <1>2, <1>4, <1>6, <2>3 DEF Wider
<1>7. CASE p = 0
  <2>1. new = Append(out, e)
    BY <1>5, <1>7
  <2>2. new \in Seq(E) /\ Len(new) = n + 1 /\ new[n + 1] = e /\ \A i \in 1..n : new[i] = out[i]
    BY <1>3, <1>4, <2>1, AppendElements
  <2> QED
    BY <1>0, <1>2, <1>4, <1>7, <2>2 DEF Wider
<1> QED
  BY <1>2, <1>6, <1>7

LEMMA PutInWider ==
  ASSUME NEW S, NEW env \in Seq(Seq(S)), Sole(S, env), NEW K, NEW val, Puttable(S, K, val),
         NEW k \in K, NEW out \in Wider(S, env)
  PROVE  PutIn(env, val, out, k) \in Wider(S, env)
<1>1. PICK new : new = PutIn(env, val, out, k)
  OBVIOUS
<1>2. PICK p : p = Place(env, k)
  OBVIOUS
<1>3. PICK e : e = Put(val, k)
  OBVIOUS
<1>4. PICK n : n = Len(out)
  OBVIOUS
<1>5. /\ new \in Wider(S, env) /\ n \in Nat /\ p \in 0..Len(env) /\ Len(env) <= n
      /\ p > 0 => Len(new) = n /\ \A i \in 1..n : new[i] = IF i = p THEN e ELSE out[i]
      /\ p = 0 => Len(new) = n + 1 /\ new[n + 1] = e /\ \A i \in 1..n : new[i] = out[i]
  BY <1>1, <1>2, <1>3, <1>4, PutInTyped
<1> QED
  BY <1>1, <1>5

LEMMA OverlayNext ==
  ASSUME NEW S, NEW env \in Seq(Seq(S)), Sole(S, env), NEW K, NEW val, Puttable(S, K, val),
         NEW k \in K, NEW seen \in SUBSET K, NEW out \in Wider(S, env), Overlaid(env, val, seen, out),
         NEW new, new = PutIn(env, val, out, k)
  PROVE  Overlaid(env, val, seen \union {k}, new)
<1>1. PICK p, e, n, m : p = Place(env, k) /\ e = Put(val, k) /\ n = Len(out) /\ m = Len(env)
  OBVIOUS
<1>2. /\ n \in Nat /\ p \in 0..m /\ m <= n
      /\ p > 0 => Len(new) = n /\ \A i \in 1..n : new[i] = IF i = p THEN e ELSE out[i]
      /\ p = 0 => Len(new) = n + 1 /\ new[n + 1] = e /\ \A i \in 1..n : new[i] = out[i]
  BY <1>1, PutInTyped
<1>3. m \in Nat
  BY <1>1, LenProperties
<1>4. /\ \A i \in 1..n : \/ \E l \in seen : out[i] = Put(val, l) /\ At(env, l, i)
                         \/ i <= m /\ out[i] = env[i] /\ \A l \in seen : Place(env, l) # i
      /\ \A l \in seen : \E i \in 1..n : out[i] = Put(val, l) /\ At(env, l, i)
  BY <1>1 DEF Overlaid
<1>5. \A i : At(env, k, i) <=> p = IF i <= m THEN i ELSE 0
  BY <1>1 DEF At
\* Only k is placed where k is.
<1>6. ASSUME p > 0, NEW l \in seen, At(env, l, p) PROVE l = k
  <2>1. l \in Nameable(S) /\ k \in Nameable(S)
    BY DEF Puttable
  <2>2. Place(env, l) = p
    BY <1>1, <1>2, <1>6 DEF At
  <2>3. p \in Naming(env, l) /\ p \in Naming(env, k)
    BY <1>1, <1>6, <2>1, <2>2, PlaceIs
  <2>4. env[p] \in Seq(S) /\ Named(l, env[p]) /\ Named(k, env[p])
    BY <1>1, <2>3, LenProperties DEF Naming
  <2> QED
    BY <2>1, <2>4, NamedIs DEF Puttable
<1>7. PICK s : s = seen \union {k}
  OBVIOUS
<1>8. CASE p > 0
  <2>1. Len(new) = n /\ p \in 1..n /\ p <= m /\ new[p] = e /\ At(env, k, p)
    BY <1>2, <1>3, <1>5, <1>8
  <2>2. \A i \in 1..n : i # p => new[i] = out[i]
    BY <1>2, <1>8
  <2>3. ASSUME NEW i \in 1..n
        PROVE  \/ \E l \in s : new[i] = Put(val, l) /\ At(env, l, i)
               \/ i <= m /\ new[i] = env[i] /\ \A l \in s : Place(env, l) # i
    <3>1. CASE i = p
      BY <1>1, <1>7, <2>1, <3>1
    <3>2. CASE i # p
      BY <1>1, <1>4, <1>7, <2>2, <3>2
    <3> QED
      BY <3>1, <3>2
  <2>4. ASSUME NEW l \in s PROVE \E i \in 1..n : new[i] = Put(val, l) /\ At(env, l, i)
    <3>1. CASE l = k
      BY <1>1, <2>1, <3>1
    <3>2. CASE l # k
      <4>1. l \in seen
        BY <1>7, <3>2
      <4>2. PICK i \in 1..n : out[i] = Put(val, l) /\ At(env, l, i)
        BY <1>4, <4>1
      <4>3. i # p
        BY <1>6, <1>8, <3>2, <4>1, <4>2
      <4> QED
        BY <2>2, <4>2, <4>3
    <3> QED
      BY <3>1, <3>2
  <2> QED
    BY <1>1, <1>7, <2>1, <2>3, <2>4 DEF Overlaid
<1>9. CASE p = 0
  <2>1. Len(new) = n + 1 /\ new[n + 1] = e /\ At(env, k, n + 1)
    BY <1>2, <1>3, <1>5, <1>9
  <2>2. \A i \in 1..n : new[i] = out[i]
    BY <1>2, <1>9
  <2>3. ASSUME NEW i \in 1..n + 1
        PROVE  \/ \E l \in s : new[i] = Put(val, l) /\ At(env, l, i)
               \/ i <= m /\ new[i] = env[i] /\ \A l \in s : Place(env, l) # i
    <3>1. CASE i = n + 1
      BY <1>1, <1>7, <2>1, <3>1
    <3>2. CASE i # n + 1
      <4>1. i \in 1..n /\ i # 0 /\ new[i] = out[i]
        BY <1>2, <2>2, <3>2
      <4> QED
        BY <1>1, <1>4, <1>7, <1>9, <4>1
    <3> QED
      BY <3>1, <3>2
  <2>4. ASSUME NEW l \in s PROVE \E i \in 1..n + 1 : new[i] = Put(val, l) /\ At(env, l, i)
    <3>1. CASE l = k
      BY <1>1, <1>2, <2>1, <3>1
    <3>2. CASE l # k
      <4>1. PICK i \in 1..n : out[i] = Put(val, l) /\ At(env, l, i)
        BY <1>4, <1>7, <3>2
      <4>2. i \in 1..n + 1
        BY <1>2
      <4> QED
        BY <2>2, <4>1, <4>2
    <3> QED
      BY <3>1, <3>2
  <2> QED
    BY <1>1, <1>7, <2>1, <2>3, <2>4 DEF Overlaid
<1> QED
  BY <1>2, <1>3, <1>8, <1>9
OverlayStep(S, K, env, val) == [x \in Wider(S, env) \X K |-> PutIn(env, val, x[1], x[2])]

LEMMA OverlayIs ==
  ASSUME NEW S, NEW env \in Seq(Seq(S)), Sole(S, env), NEW K, NEW val, Puttable(S, K, val),
         NEW keys \in Seq(K)
  PROVE  Overlay(env, keys, val) \in Wider(S, env)
         /\ Overlaid(env, val, ToSet(keys), Overlay(env, keys, val))
<1> DEFINE A == Wider(S, env)
           F == OverlayStep(S, K, env, val)
           a == env
           s == keys
           G(g) == g = [t \in SUBSET DOMAIN s |->
                          IF t = {} THEN a ELSE PutIn(env, val, g[t \ {Max(t)}], s[Max(t)])]
           g == CHOOSE g : G(g)
           Good(w) == Overlaid(env, val, ToSet(w), Fold(F, a, w))
           T == {w \in Seq(K) : Good(w)}
<1>1. Overlay(env, keys, val) = g[DOMAIN s]
  BY DEF Overlay, FoldLeft, MapThenFoldSet, PutIn, Put, Place
<1>2. Folds(A, K, F, a)
  <2>1. \A out \in A, k \in K : PutIn(env, val, out, k) \in A
    BY PutInWider
  <2>2. env \in A
    BY LenProperties DEF Wider
  <2> HIDE DEF A
  <2> QED
    BY <2>1, <2>2 DEF Folds, OverlayStep, A
<1>3. \A out \in A, k \in K : F[<<out, k>>] = PutIn(env, val, out, k)
  BY DEF OverlayStep
<1> HIDE DEF F
<1>4. Good(<<>>)
  <2>0. PICK n : n = <<>>
    OBVIOUS
  <2>1. Fold(F, a, n) = env
    BY <1>2, <2>0, FoldEmpty
  <2>2. ToSet(n) = {}
    BY <2>0 DEF ToSet
  <2>3. Overlaid(env, val, {}, env)
    BY DEF Overlaid
  <2> QED
    BY <2>0, <2>1, <2>2, <2>3
<1>5. ASSUME NEW w \in Seq(K), NEW k \in K, Good(w) PROVE Good(Append(w, k))
  <2>1. PICK out : out = Fold(F, a, w)
    OBVIOUS
  <2>2. PICK ww : ww = Append(w, k)
    OBVIOUS
  <2>3. PICK new : new = PutIn(env, val, out, k)
    OBVIOUS
  <2>4. PICK seen : seen = ToSet(w)
    OBVIOUS
  <2>5. out \in A
    BY <1>2, <2>1, FoldType
  <2>6. Overlaid(env, val, seen, out)
    BY <1>5, <2>1, <2>4
  <2>7. Fold(F, a, ww) = new
    <3>1. Fold(F, a, Append(w, k)) = F[<<Fold(F, a, w), k>>]
      BY <1>2, FoldAppend
    <3> QED
      BY <1>3, <2>1, <2>2, <2>3, <2>5, <3>1
  <2>8. seen \subseteq K
    BY <2>4, TextElements
  <2>9. Overlaid(env, val, seen \union {k}, new)
    BY <2>3, <2>5, <2>6, <2>8, OverlayNext
  <2>10. ToSet(ww) = seen \union {k}
    <3>1. ToSet(Append(w, k)) = ToSet(w) \union {k}
      BY AppendSet
    <3> QED
      BY <2>2, <2>4, <3>1
  <2> QED
    BY <2>2, <2>7, <2>9, <2>10
<1>6. Seq(K) \subseteq T
  <2> HIDE DEF Good
  <2>1. <<>> \in T /\ \A w \in Seq(K), k \in K : w \in T => Append(w, k) \in T
    BY <1>4, <1>5, EmptySeq
  <2> HIDE DEF T
  <2> QED
    BY <2>1, SequenceInduction
<1>7. Overlaid(env, val, ToSet(keys), Fold(F, a, keys))
  BY <1>6
<1>8. Fold(F, a, keys) \in A
  BY <1>2, FoldType
<1> HIDE DEF A, a, s
<1>9. s \in Seq(K)
  BY DEF s
<1>10. PICK f : Table(A, K, F, a, s, f)
  BY <1>2, <1>9, TableExists
<1>11. G(f)
  BY <1>3, <1>10 DEF Table
<1>12. G(g)
  BY <1>11
<1> HIDE DEF g
<1>13. Unfolds(A, K, F, a, s, g)
  BY <1>3, <1>12 DEF Unfolds
<1>14. g[DOMAIN s] = Fold(F, a, s)
  BY <1>2, <1>9, <1>13, FoldIs
<1>15. Overlay(env, keys, val) = Fold(F, a, keys)
  BY <1>1, <1>14 DEF s
<1> QED
  BY <1>7, <1>8, <1>15 DEF A

\* The environment of a child: each name put into it has its value there, and
\* every other name the value it was inherited with (run.go, 35-39).
THEOREM OverlayShows ==
  ASSUME NEW S, NEW K, NEW val, Puttable(S, K, val), NEW keys \in Seq(K),
         NEW inherited \in Seq(Seq(S)), NEW out, out = Overlay(Environ(inherited), keys, val)
  PROVE  /\ out \in Seq(Seq(S))
         /\ \A k \in ToSet(keys) : Getenv(out, k) = {val[k]}
         /\ \A k \in Nameable(S) \ ToSet(keys) : Getenv(out, k) = Getenv(inherited, k)
<1>1. PICK env : env = Environ(inherited)
  OBVIOUS
<1>2. PICK seen : seen = ToSet(keys)
  OBVIOUS
<1>3. "=" \in S /\ K \subseteq Nameable(S) /\ seen \subseteq K
  BY <1>2, TextElements DEF Puttable
<1>4. env \in Seq(Seq(S)) /\ Sole(S, env) /\ Agree(S, env, inherited)
  BY <1>1, <1>3, EnvironIs DEF EnvironOf
<1>5. out \in Wider(S, env) /\ Overlaid(env, val, seen, out)
  BY <1>1, <1>2, <1>4, OverlayIs
<1>6. out \in Seq(Seq(S)) /\ Len(env) <= Len(out) /\ Len(env) \in Nat /\ Len(out) \in Nat
  BY <1>4, <1>5, LenProperties DEF Wider
<1>7. \A i \in 1..Len(out) : \/ \E k \in seen : out[i] = Put(val, k) /\ At(env, k, i)
                             \/ i <= Len(env) /\ out[i] = env[i] /\ \A k \in seen : Place(env, k) # i
  BY <1>5 DEF Overlaid
<1>8. \A k \in seen : \E i \in 1..Len(out) : out[i] = Put(val, k)
  BY <1>5 DEF Overlaid
<1>9. \A k \in K : /\ Put(val, k) \in Seq(S) /\ Named(k, Put(val, k))
                   /\ After(Len(k) + 1, Put(val, k)) = val[k]
                   /\ \A l \in Nameable(S) : Named(l, Put(val, k)) => l = k
  BY PutNamed
<1>10. ASSUME NEW k \in seen PROVE Getenv(out, k) = {val[k]}
  <2>1. k \in Nameable(S) /\ k \in K
    BY <1>3
  <2>2. PICK e : e = Put(val, k)
    OBVIOUS
  <2>3. ASSUME NEW i \in Naming(out, k) PROVE out[i] = e
    <3>1. i \in 1..Len(out) /\ Named(k, out[i])
      BY DEF Naming
    <3>2. CASE \E l \in seen : out[i] = Put(val, l)
      BY <1>3, <1>9, <2>1, <2>2, <3>1, <3>2
    <3>3. CASE i <= Len(env) /\ out[i] = env[i] /\ Place(env, k) # i
      <4>1. i \in Naming(env, k)
        BY <1>6, <3>1, <3>3 DEF Naming
      <4> QED
        BY <1>4, <2>1, <3>3, <4>1, PlaceIs
    <3> QED
      BY <1>7, <3>1, <3>2, <3>3
  <2>4. Naming(out, k) # {}
    <3>1. PICK i \in 1..Len(out) : out[i] = Put(val, k)
      BY <1>8
    <3>2. Named(k, out[i])
      BY <1>9, <2>1, <3>1
    <3> QED
      BY <3>2 DEF Naming
  <2>5. Getenv(out, k) = {After(Len(k) + 1, e)}
    BY <1>6, <2>3, <2>4, GetenvOne
  <2> QED
    BY <1>9, <2>1, <2>2, <2>5
<1>11. ASSUME NEW k \in Nameable(S) \ seen PROVE Getenv(out, k) = Getenv(inherited, k)
  <2>1. \A l \in seen : ~Named(k, Put(val, l))
    BY <1>3, <1>9
  <2>2. ASSUME NEW i \in Naming(out, k) PROVE i \in Naming(env, k) /\ env[i] = out[i]
    <3>1. i \in 1..Len(out) /\ Named(k, out[i])
      BY DEF Naming
    <3>2. i <= Len(env) /\ out[i] = env[i]
      BY <1>7, <2>1, <3>1
    <3> QED
      BY <1>6, <3>1, <3>2 DEF Naming
  <2>3. ASSUME NEW i \in Naming(env, k) PROVE i \in Naming(out, k)
    <3>1. i \in 1..Len(env) /\ i \in 1..Len(out) /\ Named(k, env[i]) /\ i # 0
      BY <1>6 DEF Naming
    <3>2. ASSUME NEW l \in seen, Place(env, l) = i PROVE FALSE
      <4>1. l \in Nameable(S)
        BY <1>3
      <4>2. Place(env, l) \in 0..Len(env)
            /\ Naming(env, l) = IF Place(env, l) = 0 THEN {} ELSE {Place(env, l)}
        BY <1>4, <4>1, PlaceIs
      <4>3. i \in Naming(env, l)
        BY <3>1, <3>2, <4>2
      <4>4. env[i] \in Seq(S) /\ Named(l, env[i])
        BY <1>4, <3>1, <4>3, LenProperties DEF Naming
      <4>5. l = k
        BY <1>3, <3>1, <4>1, <4>4, NamedIs
      <4> QED
        BY <4>5
    <3>3. out[i] = env[i]
      BY <1>7, <3>1, <3>2 DEF At
    <3> QED
      BY <3>1, <3>3 DEF Naming
  <2>4. Naming(env, k) = Naming(out, k) /\ \A i \in Naming(env, k) : env[i] = out[i]
    BY <2>2, <2>3
  <2>5. Getenv(env, k) = Getenv(out, k)
    BY <1>4, <1>6, <2>4, GetenvSame
  <2> QED
    BY <1>4, <2>5 DEF Agree
<1> QED
  BY <1>2, <1>6, <1>10, <1>11
-----------------------------------------------------------------------------
(***************************************************************************)
(* The flags of run.                                                       *)
(***************************************************************************)
NoFlags == [only |-> <<>>, optional |-> <<>>, want |-> "none", stop |-> "no"]
Flag(f, a) ==
  IF f.stop # "no" THEN f
  ELSE IF f.want # "none" THEN [f EXCEPT ![f.want] = a, !.want = "none"]
  ELSE IF a \in {<<"--only">>, <<"--optional">>}
       THEN [f EXCEPT !.want = IF a = <<"--only">> THEN "only" ELSE "optional"]
  ELSE [f EXCEPT !.stop = IF a = <<"-h">> THEN "help" ELSE "error"]
FlagStates(B) == [only : B \union {<<>>}, optional : B \union {<<>>},
                  want : {"none", "only", "optional"}, stop : {"no", "help", "error"}]
FlagStep(B) == [x \in FlagStates(B) \X B |-> Flag(x[1], x[2])]

\* The turns at which a flag is given, before the last argument.
Turns(u, flag) == {i \in 1..Len(u) - 1 : i % 2 = 1 /\ u[i] = <<flag>>}

\* The list given for it the last time.
LastList(u, flag, csv) ==
  IF Turns(u, flag) = {} THEN csv = <<>> ELSE csv = u[Max(Turns(u, flag)) + 1]

Wants(u, flag) == Len(u) % 2 = 1 /\ u[Len(u)] = <<flag>>

LEMMA TurnsNext ==
  ASSUME NEW B, NEW u \in Seq(B), NEW a \in B, NEW w, w = Append(u, a), NEW flag, NEW csv,
         LastList(u, flag, csv)
  PROVE  LastList(w, flag, IF Wants(u, flag) THEN a ELSE csv)
<1>1. /\ w \in Seq(B) /\ Len(u) \in Nat /\ Len(w) = Len(u) + 1
      /\ \A i \in 1..Len(u) : w[i] = u[i]
      /\ w[Len(u) + 1] = a
  BY AppendElements
<1>2. PICK n : n = Len(u)
  OBVIOUS
<1>3. PICK I : I = Turns(u, flag)
  OBVIOUS
<1>4. PICK J : J = Turns(w, flag)
  OBVIOUS
<1>5. n \in Nat /\ I \subseteq 1..n - 1 /\ J \subseteq 1..n /\ I \subseteq Nat /\ J \subseteq Nat
  BY <1>1, <1>2, <1>3, <1>4 DEF Turns
<1>6. \A i \in 1..n - 1 : i \in J <=> i \in I
  BY <1>1, <1>2, <1>3, <1>4 DEF Turns
<1>7. n \in J <=> Wants(u, flag)
  <2>1. CASE n = 0
    BY <1>2, <1>5, <2>1 DEF Wants
  <2>2. CASE n # 0
    BY <1>1, <1>2, <1>4, <2>2 DEF Turns, Wants
  <2> QED
    BY <2>1, <2>2
<1>8. CASE Wants(u, flag)
  <2>1. J # {} /\ n \in J
    BY <1>7, <1>8
  <2>2. Max(J) \in J /\ n <= Max(J)
    BY <1>5, <2>1, MaxIn
  <2>3. Max(J) = n
    <3>1. PICK m : m = Max(J)
      OBVIOUS
    <3>2. m \in 1..n /\ n <= m
      BY <1>5, <2>2, <3>1
    <3>3. m = n
      BY <1>5, <3>2
    <3> QED
      BY <3>1, <3>3
  <2> QED
    BY <1>1, <1>2, <1>4, <1>8, <2>1, <2>3 DEF LastList
<1>9. CASE ~Wants(u, flag)
  <2>1. J = I
    <3>1. \A i \in J : i \in 1..n /\ i # n
      BY <1>5, <1>7, <1>9
    <3>2. \A i \in J : i \in 1..n - 1
      BY <1>5, <3>1
    <3> QED
      BY <1>5, <1>6, <3>2
  <2>2. I # {} => Max(I) \in I
    <3>1. I \in SUBSET (1..n)
      BY <1>5
    <3> QED
      BY <1>5, <3>1, MaxIn
  <2>3. I # {} => w[Max(I) + 1] = u[Max(I) + 1]
    <3>1. SUFFICES ASSUME I # {} PROVE w[Max(I) + 1] = u[Max(I) + 1]
      OBVIOUS
    <3>2. Max(I) \in 1..n - 1
      BY <1>5, <2>2, <3>1
    <3>3. Max(I) + 1 \in 1..n
      BY <1>5, <3>2
    <3> QED
      BY <1>1, <1>2, <3>3
  <2> QED
    BY <1>3, <1>4, <1>9, <2>1, <2>3 DEF LastList
<1> QED
  BY <1>8, <1>9

\* What the arguments u are parsed to: f.
FlagsFor(B, u, f) ==
  /\ f \in FlagStates(B)
  /\ f.stop = "help" => <<"-h">> \in ToSet(u)
  /\ f.stop = "no" =>
       /\ LastList(u, "--only", f.only) /\ LastList(u, "--optional", f.optional)
       /\ IF f.want = "none" THEN Len(u) % 2 = 0
          ELSE Wants(u, IF f.want = "only" THEN "--only" ELSE "--optional")

LEMMA FlagTyped ==
  ASSUME NEW B, NEW f \in FlagStates(B), NEW a \in B
  PROVE  Flag(f, a) \in FlagStates(B)
<1>1. CASE f.stop = "no" /\ f.want = "only"
  BY <1>1 DEF Flag, FlagStates
<1>2. CASE f.stop = "no" /\ f.want = "optional"
  BY <1>2 DEF Flag, FlagStates
<1>3. CASE f.stop # "no" \/ f.want = "none"
  BY <1>3 DEF Flag, FlagStates
<1> QED
  BY <1>1, <1>2, <1>3 DEF FlagStates

LEMMA FlagNext ==
  ASSUME NEW B, NEW u \in Seq(B), NEW f, FlagsFor(B, u, f), NEW a \in B, NEW w, w = Append(u, a),
         NEW g, g = Flag(f, a)
  PROVE  FlagsFor(B, w, g)
<1>1. f \in FlagStates(B) /\ g \in FlagStates(B)
  BY FlagTyped DEF FlagsFor
<1>2. /\ Len(u) \in Nat /\ Len(w) = Len(u) + 1 /\ w[Len(u) + 1] = a
  BY AppendElements
<1>3. ToSet(w) = ToSet(u) \union {a}
  <2>1. ToSet(Append(u, a)) = ToSet(u) \union {a}
    BY AppendSet
  <2> QED
    BY <2>1
<1>4. /\ f.stop = "help" => <<"-h">> \in ToSet(u)
      /\ f.stop = "no" =>
           /\ LastList(u, "--only", f.only) /\ LastList(u, "--optional", f.optional)
           /\ IF f.want = "none" THEN Len(u) % 2 = 0
              ELSE Wants(u, IF f.want = "only" THEN "--only" ELSE "--optional")
  BY DEF FlagsFor
<1>5. \A flag, csv : LastList(u, flag, csv) => LastList(w, flag, IF Wants(u, flag) THEN a ELSE csv)
  BY TurnsNext
<1>6. Len(u) % 2 = 0 <=> Len(w) % 2 # 0
  BY <1>2
<1>7. \A flag : Wants(u, flag) => Len(w) % 2 = 0
  BY <1>2 DEF Wants
<1>8. \A flag : Len(u) % 2 = 0 => ~Wants(u, flag) /\ (a = <<flag>> => Wants(w, flag))
  BY <1>2 DEF Wants
<1>9. <<"--only">> # <<"--optional">>
  OBVIOUS
<1>10. ~(Wants(u, "--only") /\ Wants(u, "--optional"))
  BY <1>9 DEF Wants
<1>11. CASE f.stop # "no"
  BY <1>1, <1>3, <1>4, <1>11 DEF Flag, FlagsFor
<1>12. CASE f.stop = "no" /\ f.want = "only"
  <2>1. g = [f EXCEPT !.only = a, !.want = "none"]
    BY <1>12 DEF Flag
  <2>2. g.only = a /\ g.optional = f.optional /\ g.want = "none" /\ g.stop = "no"
    BY <1>1, <1>12, <2>1 DEF FlagStates
  <2>3. Wants(u, "--only") /\ ~Wants(u, "--optional")
    BY <1>4, <1>10, <1>12
  <2>4. LastList(w, "--only", a) /\ LastList(w, "--optional", f.optional)
    BY <1>4, <1>5, <1>12, <2>3
  <2> QED
    BY <1>1, <1>7, <2>2, <2>3, <2>4 DEF FlagsFor
<1>13. CASE f.stop = "no" /\ f.want = "optional"
  <2>1. g = [f EXCEPT !.optional = a, !.want = "none"]
    BY <1>13 DEF Flag
  <2>2. g.optional = a /\ g.only = f.only /\ g.want = "none" /\ g.stop = "no"
    BY <1>1, <1>13, <2>1 DEF FlagStates
  <2>3. Wants(u, "--optional") /\ ~Wants(u, "--only")
    BY <1>4, <1>10, <1>13
  <2>4. LastList(w, "--optional", a) /\ LastList(w, "--only", f.only)
    BY <1>4, <1>5, <1>13, <2>3
  <2> QED
    BY <1>1, <1>7, <2>2, <2>3, <2>4 DEF FlagsFor
<1>14. CASE f.stop = "no" /\ f.want = "none"
  <2>1. LastList(w, "--only", f.only) /\ LastList(w, "--optional", f.optional)
    BY <1>4, <1>5, <1>8, <1>14
  <2>2. g.only = f.only /\ g.optional = f.optional
    BY <1>1, <1>14 DEF Flag, FlagStates
  <2>3. CASE a \in {<<"--only">>, <<"--optional">>}
    <3>1. g.stop = "no" /\ g.want = IF a = <<"--only">> THEN "only" ELSE "optional"
      BY <1>1, <1>14, <2>3 DEF Flag, FlagStates
    <3>2. Wants(w, IF a = <<"--only">> THEN "--only" ELSE "--optional")
      BY <1>4, <1>8, <1>14, <2>3
    <3>3. Wants(w, IF g.want = "only" THEN "--only" ELSE "--optional") /\ g.want # "none"
      BY <3>1, <3>2
    <3> QED
      BY <1>1, <2>1, <2>2, <3>1, <3>3 DEF FlagsFor
  <2>4. CASE a \notin {<<"--only">>, <<"--optional">>}
    <3>1. g.stop = IF a = <<"-h">> THEN "help" ELSE "error"
      BY <1>1, <1>14, <2>4 DEF Flag, FlagStates
    <3> QED
      BY <1>1, <1>3, <3>1 DEF FlagsFor
  <2> QED
    BY <2>3, <2>4
<1> QED
  BY <1>1, <1>11, <1>12, <1>13, <1>14 DEF FlagStates

\* The lists that run goes by are those given last, and help is asked for if it
\* is what the parser stops at (parseRunFlags).
LEMMA RunFlagsAre ==
  ASSUME NEW B, NEW u \in Seq(B)
  PROVE  FlagsFor(B, u, RunFlags(u))
<1> DEFINE A == FlagStates(B)
           F == FlagStep(B)
           a == NoFlags
           s == u
           G(g) == g = [t \in SUBSET DOMAIN s |->
                          IF t = {} THEN a ELSE Flag(g[t \ {Max(t)}], s[Max(t)])]
           g == CHOOSE g : G(g)
           Good(w) == FlagsFor(B, w, Fold(F, a, w))
           T == {w \in Seq(B) : Good(w)}
<1>1. RunFlags(u) = g[DOMAIN s]
  BY DEF RunFlags, FoldLeft, MapThenFoldSet, Flag, NoFlags
<1>2. Folds(A, B, F, a)
  <2>1. \A f \in A, b \in B : Flag(f, b) \in A
    BY FlagTyped
  <2>2. a \in A
    BY DEF NoFlags, FlagStates
  <2> HIDE DEF A, a
  <2> QED
    BY <2>1, <2>2 DEF Folds, FlagStep, A
<1>3. \A f \in A, b \in B : F[<<f, b>>] = Flag(f, b)
  BY DEF FlagStep
<1> HIDE DEF F
<1>4. Good(<<>>)
  <2>0. PICK n : n = <<>>
    OBVIOUS
  <2>1. Fold(F, a, n) = a
    BY <1>2, <2>0, FoldEmpty
  <2>2. Len(n) = 0
    BY <2>0, EmptySeq
  <2>3. \A flag : Turns(n, flag) = {}
    BY <2>2 DEF Turns
  <2>4. a.only = <<>> /\ a.optional = <<>> /\ a.want = "none" /\ a.stop = "no" /\ a \in A
    BY DEF NoFlags, FlagStates
  <2>5. Len(n) % 2 = 0
    BY <2>2
  <2>6. LastList(n, "--only", <<>>) /\ LastList(n, "--optional", <<>>)
    BY <2>3 DEF LastList
  <2> HIDE DEF a
  <2> QED
    BY <2>0, <2>1, <2>4, <2>5, <2>6 DEF FlagsFor
<1> HIDE DEF a
<1>5. ASSUME NEW w \in Seq(B), NEW b \in B, Good(w) PROVE Good(Append(w, b))
  <2>1. PICK f : f = Fold(F, a, w)
    OBVIOUS
  <2>2. PICK ww : ww = Append(w, b)
    OBVIOUS
  <2>3. PICK h : h = Flag(f, b)
    OBVIOUS
  <2>4. f \in A
    BY <1>2, <2>1, FoldType
  <2>5. Fold(F, a, ww) = h
    <3>1. Fold(F, a, Append(w, b)) = F[<<Fold(F, a, w), b>>]
      BY <1>2, FoldAppend
    <3> QED
      BY <1>3, <2>1, <2>2, <2>3, <2>4, <3>1
  <2>6. FlagsFor(B, ww, h)
    BY <1>5, <2>1, <2>2, <2>3, FlagNext
  <2> QED
    BY <2>2, <2>5, <2>6
<1>6. Seq(B) \subseteq T
  <2> HIDE DEF Good
  <2>1. <<>> \in T /\ \A w \in Seq(B), b \in B : w \in T => Append(w, b) \in T
    BY <1>4, <1>5, EmptySeq
  <2> HIDE DEF T
  <2> QED
    BY <2>1, SequenceInduction
<1>7. FlagsFor(B, u, Fold(F, a, u))
  BY <1>6
<1> HIDE DEF A, s
<1>8. s \in Seq(B)
  BY DEF s
<1>9. PICK f : Table(A, B, F, a, s, f)
  BY <1>2, <1>8, TableExists
<1>10. G(f)
  BY <1>3, <1>9 DEF Table
<1>11. G(g)
  BY <1>10
<1> HIDE DEF g
<1>12. Unfolds(A, B, F, a, s, g)
  BY <1>3, <1>11 DEF Unfolds
<1>13. g[DOMAIN s] = Fold(F, a, s)
  BY <1>2, <1>8, <1>12, FoldIs
<1> QED
  BY <1>1, <1>7, <1>13 DEF s
=============================================================================
