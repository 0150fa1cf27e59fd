--------------------------- MODULE OutputFormats ---------------------------
(***************************************************************************)
(* What the reading verbs print: cmd/shellquote.go, the loop of            *)
(* cmd/export.go, and the two formats of cmd/read.go; and, external, the   *)
(* programs that read it back: a shell that evals the assignments, and one *)
(* that cuts at NULs.                                                      *)
(*                                                                         *)
(* A vault is shown as the sequence of its names and a function to values. *)
(***************************************************************************)
EXTENDS Text

CONSTANT BufSize  \* the buffer of a bufio.Writer, 4096 bytes in the code

ASSUME BufSizeAssumption == BufSize \in Nat \ {0}

\* bufio.Writer: what has reached the descriptor, and what waits.  A write that
\* does not fit passes on the buffer filled up with its first bytes, or, when
\* nothing waits, itself; the rest waits if it fits.
Writer(sent, waiting) == [sent |-> sent, waiting |-> waiting]
NewWriter == Writer(<<>>, <<>>)

Write(w, text) ==
  LET room == BufSize - Len(w.waiting)
      full == w.waiting \o SubSeq(text, 1, room)
      rest == After(room, text)
  IN  IF Len(text) <= room THEN Writer(w.sent, w.waiting \o text)
      ELSE IF w.waiting = <<>> \/ Len(rest) > BufSize
      THEN Writer(w.sent \o w.waiting \o text, <<>>)
      ELSE Writer(w.sent \o full, rest)

Flush(w) == Writer(w.sent \o w.waiting, <<>>)
-----------------------------------------------------------------------------
\* Mutant of QuotedByte: a backslash is enough to keep a quote.
QuotedByteEscaped(b) == IF b = "'" THEN <<"\\", "'">> ELSE <<b>>

\* A quote ends the quoted text, stands escaped by itself, and begins another.
QuotedByte(b) == IF b = "'" THEN <<"'", "\\", "'", "'">> ELSE <<b>>

ShellQuote(v) == <<"'">> \o FlattenSeq([i \in DOMAIN v |-> QuotedByte(v[i])]) \o <<"'">>

Assignment(n, v) == <<"export", " ">> \o n \o <<"=">> \o ShellQuote(v) \o <<"nl">>

Exportable(n, v) == CheckKey(n) /\ ~Occurs("nul", v)

\* Mutant of Export: an entry that cannot be exported is passed over.
ExportSkipping(names, value) ==
  [ok |-> TRUE,
   out |-> FlattenSeq([i \in DOMAIN SelectSeq(names, LAMBDA n : Exportable(n, value[n])) |->
             Assignment(SelectSeq(names, LAMBDA n : Exportable(n, value[n]))[i],
                        value[SelectSeq(names, LAMBDA n : Exportable(n, value[n]))[i]])])]

\* The first entry that cannot be exported ends it, and what waits in the
\* writer then is never written.
Export(names, value) ==
  LET bad == SelectInSeq(names, LAMBDA n : ~Exportable(n, value[n]))
      written == FoldLeft(LAMBDA w, n : Write(w, Assignment(n, value[n])), NewWriter,
                          IF bad = 0 THEN names ELSE Before(bad, names))
  IN  IF bad = 0 THEN [ok |-> TRUE, out |-> Flush(written).sent]
                 ELSE [ok |-> FALSE, out |-> written.sent]

\* For people: the value and a newline, after the name when there are several.
Emit(keys, value) ==
  FlattenSeq([i \in DOMAIN keys |->
    (IF Len(keys) > 1 THEN keys[i] \o <<"=">> ELSE <<>>) \o value[keys[i]] \o <<"nl">>])

EmitNUL(keys, value) == FlattenSeq([i \in DOMAIN keys |-> value[keys[i]] \o <<"nul">>])
-----------------------------------------------------------------------------
(***************************************************************************)
(* The shell, external: how eval "$(kleidos export)" reads what it gets.   *)
(* The substitution drops NULs and the newlines at the end; eval splits    *)
(* the rest into commands and words, and export assigns.                   *)
(***************************************************************************)
StripNewlines(s) == SubSeq(s, 1, SelectLastInSeq(s, LAMBDA b : b # "nl"))
Substitute(s) == StripNewlines(Keep(s, ToSet(s) \ {"nul"}))

\* mode: between words, in a word, or inside quotes of a word, in a comment, or
\* after a backslash (with the mode to go back to).
ShellStart == [mode |-> "gap", word |-> <<>>, words |-> <<>>, commands |-> <<>>]

EndWord(s) ==
  IF s.mode = "word" THEN [s EXCEPT !.words = Append(@, s.word), !.word = <<>>, !.mode = "gap"]
                     ELSE s
EndCommand(s) ==
  LET t == EndWord(s) IN [t EXCEPT !.commands = Append(@, t.words), !.words = <<>>, !.mode = "gap"]
AddByte(s, b) == [s EXCEPT !.word = Append(@, b), !.mode = "word"]

ShellByte(s, b) ==
  CASE s.mode = "'" -> IF b = "'" THEN [s EXCEPT !.mode = "word"] ELSE [s EXCEPT !.word = Append(@, b)]
    [] s.mode = "\"" ->
         CASE b = "\"" -> [s EXCEPT !.mode = "word"]
           [] b = "\\" -> [s EXCEPT !.mode = "\"\\"]
           [] OTHER -> [s EXCEPT !.word = Append(@, b)]
    [] s.mode = "\"\\" ->
         [s EXCEPT !.mode = "\"",
                   !.word = CASE b = "nl" -> @
                              [] b \in {"\"", "\\"} -> Append(@, b)
                              [] OTHER -> @ \o <<"\\", b>>]
    [] s.mode = "\\" -> IF b = "nl" THEN [s EXCEPT !.mode = IF s.word = <<>> THEN "gap" ELSE "word"]
                                    ELSE AddByte(s, b)
    [] s.mode = "#" -> IF b = "nl" THEN EndCommand([s EXCEPT !.mode = "gap"]) ELSE s
    [] s.mode \in {"gap", "word"} ->
         CASE b \in Quotes \union {"\\"} -> [s EXCEPT !.mode = b]
           [] b = "#" /\ s.mode = "gap" -> [s EXCEPT !.mode = "#"]
           [] b \in Blanks -> EndWord(s)
           [] b = "nl" -> EndCommand(s)
           [] OTHER -> AddByte(s, b)

\* The commands of a text; one left open inside quotes is a syntax error.
Commands(text) ==
  LET end == FoldLeft(ShellByte, ShellStart, text)
  IN  IF end.mode \in Quotes \union {"\"\\"} THEN end.commands ELSE EndCommand(end).commands

\* The assignments made by eval, as a set of entries.
Evaluated(out) ==
  LET commands == Commands(Substitute(out))
      exports == {i \in DOMAIN commands : commands[i] # <<>> /\ Head(commands[i]) = <<"export">>}
  IN  {[key |-> Before(Index("=", w), w), value |-> After(Index("=", w), w)] :
         w \in {w \in UNION {ToSet(Tail(commands[i])) : i \in exports} : Occurs("=", w)}}

\* The records of a text cut at the NUL that ends each.
Records(out) == IF out = <<>> THEN <<>> ELSE Split("nul", TrimSuffix("nul", out))
=============================================================================
