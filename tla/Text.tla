-------------------------------- MODULE Text --------------------------------
(***************************************************************************)
(* Texts: sequences of bytes, with the functions of Go's strings package   *)
(* that kleidos calls, and what vault/format.go says of the texts that are *)
(* key names and values.                                                   *)
(*                                                                         *)
(* A byte is named by the class that the code tells apart.  "A" and "B"    *)
(* are upper-case letters, "0" a digit, "x" any byte that means nothing to *)
(* anyone; "hi" is a byte that is no valid UTF-8, and "U+FFFD" the three   *)
(* bytes that encode the replacement character.  The word export, which a  *)
(* .env line and the shell know, and a command-line flag are one element   *)
(* each: nothing in the code cuts one in two.                              *)
(***************************************************************************)
EXTENDS Integers, SequencesExt

Upper == {"A", "B"}
Digits == {"0"}
Blanks == {" ", "tab"}
Quotes == {"'", "\""}

Occurs(c, s) == \E i \in DOMAIN s : s[i] = c

\* strings.IndexByte, from 1; 0 when there is none.
Index(c, s) == SelectInSeq(s, LAMBDA b : b = c)

\* A text is a sequence, of whatever there is in it.
IsText(s) == s \in Seq(ToSet(s))

\* The loops that keep some of the elements: those in T, in their order.
Keep(s, T) == FoldLeft(LAMBDA kept, b : IF b \in T THEN Append(kept, b) ELSE kept, <<>>, s)

Before(i, s) == SubSeq(s, 1, i - 1)
After(i, s) == SubSeq(s, i + 1, Len(s))

TrimLeft(s) ==
  LET solid == SelectInSeq(s, LAMBDA b : b \notin Blanks)
  IN  IF solid = 0 THEN <<>> ELSE After(solid - 1, s)
TrimRight(s) == SubSeq(s, 1, SelectLastInSeq(s, LAMBDA b : b \notin Blanks))
TrimPrefix(p, s) == IF IsPrefix(p, s) THEN After(Len(p), s) ELSE s
TrimSuffix(c, s) == IF s # <<>> /\ Last(s) = c THEN Front(s) ELSE s

\* strings.Split: the pieces between the occurrences of c, one at least.
Split(c, s) ==
  FoldLeft(LAMBDA pieces, b :
             IF b = c THEN Append(pieces, <<>>)
                      ELSE [pieces EXCEPT ![Len(pieces)] = Append(@, b)],
           <<(<<>>)>>, s)

\* bufio.ScanLines: a line ends at a newline or with the input, and loses one
\* carriage return at its end.
ScanLines(s) ==
  LET pieces == Split("nl", s)
      lines == IF Last(pieces) = <<>> THEN Front(pieces) ELSE pieces
  IN  [i \in DOMAIN lines |-> TrimSuffix("cr", lines[i])]
-----------------------------------------------------------------------------
(***************************************************************************)
(* format.go: the names and values that may be stored, and what reading    *)
(* back what was written makes of a value.                                 *)
(***************************************************************************)
CheckKey(k) ==
  /\ k # <<>> /\ Head(k) \in Upper
  /\ \A i \in DOMAIN k : k[i] \in Upper \union Digits

CheckValue(v) == v # <<>> /\ ~Occurs("nul", v)

\* encoding/json writes a string as valid UTF-8: a byte that is not becomes
\* U+FFFD, and no decoder can tell what it was.
Encode(v) == [i \in DOMAIN v |-> IF v[i] = "hi" THEN "U+FFFD" ELSE v[i]]
=============================================================================
