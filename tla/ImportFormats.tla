--------------------------- MODULE ImportFormats ---------------------------
(***************************************************************************)
(* The two input formats of kleidos import: cmd/dotenv.go, for files that  *)
(* people write, and cmd/nullrec.go, for what programs write.  A parser    *)
(* returns every assignment of its input in order, or refuses all of it.   *)
(***************************************************************************)
EXTENDS Text

CONSTANT MaxToken  \* the buffer a line and its end must fit in, 1 MiB in the code

ASSUME MaxTokenAssumption == MaxToken \in Nat \ {0}

Entry(k, v) == [key |-> k, value |-> v]
Parsed(entries) == [ok |-> TRUE, entries |-> entries]
Refused == [ok |-> FALSE, entries |-> <<>>]

Add(parsed, e) == Parsed(Append(parsed.entries, e))
Seen(parsed, k) == \E i \in DOMAIN parsed.entries : parsed.entries[i].key = k
-----------------------------------------------------------------------------
(***************************************************************************)
(* parseDotenv.                                                            *)
(***************************************************************************)
\* Mutant of ParseValue: the text after the closing quote is dropped.
ParseValueDroppingTail(rest) ==
  IF rest # <<>> /\ Head(rest) \in Quotes
  THEN LET end == Index(Head(rest), Tail(rest))
       IN  IF end > 0 THEN Parsed(<<SubSeq(rest, 2, end)>>) ELSE Refused
  ELSE Parsed(<<rest>>)

\* The right-hand side of an assignment: the value alone, or refused.
ParseValue(rest) ==
  IF rest # <<>> /\ Head(rest) \in Quotes
  THEN LET end == Index(Head(rest), Tail(rest))
       IN  IF end > 0 /\ After(end + 1, rest) = <<>>
           THEN Parsed(<<SubSeq(rest, 2, end)>>)
           ELSE Refused
  ELSE IF (\E c \in Quotes \union {"#"} : Occurs(c, rest)) \/ rest # TrimLeft(TrimRight(rest))
       THEN Refused
       ELSE Parsed(<<rest>>)

\* One line, after those already parsed.
ParseLine(parsed, raw) ==
  LET trimmed == TrimLeft(raw)
      assignment == TrimLeft(TrimPrefix(<<"export", " ">>, trimmed))
      eq == Index("=", assignment)
      key == Before(eq, assignment)
      value == ParseValue(After(eq, assignment))
  IN  IF Occurs("nul", raw) \/ Occurs("cr", raw) THEN Refused
      ELSE IF trimmed = <<>> \/ Head(trimmed) = "#" THEN parsed
      ELSE IF \/ Last(trimmed) = "\\" \/ eq = 0 \/ key # TrimRight(key)
              \/ ~CheckKey(key) \/ Seen(parsed, key) \/ ~value.ok
           THEN Refused
           ELSE Add(parsed, Entry(key, value.entries[1]))

\* A line fits if it leaves room in the scanner's buffer: a full buffer without
\* a newline in it is an error, be it the last line.
Fits(line) == Len(line) < MaxToken

\* Mutant of ParseDotenv: the scanner's error is not asked for, so that a line
\* too long ends the input.
ParseDotenvUpTo(text) ==
  LET lines == ScanLines(text)
      long == SelectInSeq(Split("nl", text), LAMBDA l : ~Fits(l))
      read == IF long = 0 THEN lines ELSE Before(long, lines)
  IN  FoldLeft(LAMBDA parsed, l : IF parsed.ok THEN ParseLine(parsed, l) ELSE parsed,
               Parsed(<<>>), read)

ParseDotenv(text) ==
  IF \A i \in DOMAIN Split("nl", text) : Fits(Split("nl", text)[i])
  THEN FoldLeft(LAMBDA parsed, l : IF parsed.ok THEN ParseLine(parsed, l) ELSE parsed,
                Parsed(<<>>), ScanLines(text))
  ELSE Refused
-----------------------------------------------------------------------------
(***************************************************************************)
(* parseNullRecords.                                                       *)
(***************************************************************************)
ParseRecord(parsed, rec) ==
  LET eq == Index("=", rec)
  IN  IF eq = 0 \/ ~CheckKey(Before(eq, rec)) \/ Seen(parsed, Before(eq, rec))
      THEN Refused
      ELSE Add(parsed, Entry(Before(eq, rec), After(eq, rec)))

\* Mutant of ParseNullRecords: the delimiter at the end opens one more record.
ParseNullRecordsUnended(data) ==
  FoldLeft(LAMBDA parsed, r : IF parsed.ok THEN ParseRecord(parsed, r) ELSE parsed,
           Parsed(<<>>), IF data = <<>> THEN <<>> ELSE Split("nul", data))

\* An empty record has no "=" and is refused with the others that have none.
ParseNullRecords(data) ==
  FoldLeft(LAMBDA parsed, r : IF parsed.ok THEN ParseRecord(parsed, r) ELSE parsed,
           Parsed(<<>>), IF data = <<>> THEN <<>> ELSE Split("nul", TrimSuffix("nul", data)))
=============================================================================
