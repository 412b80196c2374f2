--------------------------- MODULE EncodingProofs ---------------------------
(***************************************************************************)
(* Every text of every format is read back as it was written, for every     *)
(* alphabet, every length and every number of columns.                     *)
(***************************************************************************)
EXTENDS Encoding, SequenceTheorems, TLAPS

\* No reader has backslash escapes on: neither a target nor a reader of CSV files.
Consumable ==
    (\A t \in Targets : t.dialect = "pg" \/ t.preamble) /\ \A o \in CsvOptions : ~o.backslash

AllKinds == Kinds \cup {"name"}

\* What the formats have in common that the reader relies on.
FormatOK(f) ==
    /\ Len(f.cols) \in Nat \ {0}
    /\ \A i \in 1..Len(f.cols) : f.cols[i] \in AllKinds
    /\ f.sep # f.end
    /\ ~f.backslash
    /\ \A i \in 1..Len(f.cols) :
          /\ f.cols[i] = "string" =>
                /\ f.esc \in {"escapeSQL", "escapeCSV", "QuoteIdent", "escapeStringLiteral"}
                /\ f.quote \notin {f.sep, f.end, f.null}
                /\ f.esc \in {"escapeSQL", "escapeStringLiteral"} => f.quote = "sq"
          /\ f.cols[i] = "bytes" => f.bytes # f.null /\ f.quote \notin Digits
          /\ f.cols[i] = "number" => NumChars \cap {f.sep, f.end, f.null} = {}
          /\ f.cols[i] = "name" => f.esc \in {"fn", "urlEscape"} /\ f.null = "none"
    /\ f.esc = "fn" => f.sep = "." /\ f.end = "end" /\ f.null = "none" /\ Len(f.cols) = 3
                       /\ f.cols[1] = "name" /\ f.cols[2] = "name" /\ f.cols[3] = "number"
    /\ f.esc = "urlEscape" => f.sep = ":" /\ f.end = "@"

LEMMA FormatsOK == ASSUME Consumable, NEW f \in Formats PROVE FormatOK(f)
<1>1. CASE \E t \in Targets, cols \in Columns : f = SqlRow(t, cols)
  <2>1. PICK t \in Targets, cols \in Columns : f = SqlRow(t, cols)
    BY <1>1
  <2>2. cols \in Seq(Kinds) /\ Len(cols) > 0
    BY RowAssumption DEF RowAssumption
  <2>3. /\ f.cols = cols /\ f.esc = "escapeSQL" /\ f.quote = "sq" /\ f.sep = "," /\ f.end = ")"
        /\ f.null = "NULL" /\ f.bytes \in {"hexq", "xq"}
    BY <2>1 DEF SqlRow, Format
  <2>4. ~f.backslash
    BY <2>1 DEF SqlRow, Format, Consumable
  <2>5. "sq" \notin Digits
    BY CharsAssumption DEF CharsAssumption
  <2>6. NumChars \cap {",", ")", "NULL"} = {}
    BY RowAssumption DEF RowAssumption
  <2>7. \A i \in 1..Len(cols) : cols[i] \in Kinds
    BY <2>2
  <2>8. Len(f.cols) \in Nat \ {0}
    <3>1. f.cols = cols
      BY <2>3
    <3>2. Len(cols) \in Nat /\ Len(cols) # 0
      BY <2>2
    <3> QED
      BY <3>1, <3>2
  <2>9. \A i \in 1..Len(f.cols) : f.cols[i] \in {"string", "bytes", "number"}
    BY <2>3, <2>7 DEF Kinds
  <2>10. /\ f.sep # f.end /\ f.esc \notin {"fn", "urlEscape"} /\ f.bytes # f.null
         /\ f.quote \notin {f.sep, f.end, f.null} /\ f.quote = "sq" /\ f.quote \notin Digits
         /\ NumChars \cap {f.sep, f.end, f.null} = {}
    BY <2>3, <2>5, <2>6
  <2> QED
    BY <2>2, <2>3, <2>4, <2>8, <2>9, <2>10 DEF FormatOK, AllKinds, Kinds
<1>2. CASE \E o \in CsvOptions, cols \in Columns : f = CsvRow(o, cols) \/ f = CsvHeader(o, cols)
  <2>1. PICK o \in CsvOptions, cols \in Columns : f = CsvRow(o, cols) \/ f = CsvHeader(o, cols)
    BY <1>2
  <2>2. cols \in Seq(Kinds) /\ Len(cols) > 0
    BY RowAssumption DEF RowAssumption
  <2>3. /\ {o.delimiter, o.separator, o.lineTerminator, o.nullValue} \cap NumChars = {}
        /\ o.separator # o.lineTerminator
        /\ o.delimiter \notin {o.separator, o.lineTerminator, o.nullValue, "none"} \cup Digits
    BY RowAssumption DEF RowAssumption
  <2>4. "none" \notin NumChars
    BY RowAssumption DEF RowAssumption
  <2>5. /\ f.cols \in Seq(Kinds) /\ Len(f.cols) = Len(cols)
    <3>1. CASE f = CsvRow(o, cols)
      <4>1. f.cols = [i \in 1..Len(cols) |->
                        IF cols[i] = "bytes" /\ ~o.hex THEN "string" ELSE cols[i]]
        BY <3>1 DEF CsvRow, Format
      <4> QED
        BY <4>1, <2>2 DEF Kinds
    <3>2. CASE f = CsvHeader(o, cols)
      <4>1. f.cols = [i \in 1..Len(cols) |-> "string"]
        BY <3>2 DEF CsvHeader, Format
      <4> QED
        BY <4>1, <2>2 DEF Kinds
    <3> QED
      BY <2>1, <3>1, <3>2
  <2>6. /\ f.esc = "escapeCSV" /\ f.quote = o.delimiter /\ f.sep = o.separator
        /\ f.end = o.lineTerminator /\ f.bytes = o.delimiter /\ ~f.backslash
        /\ f.null = o.nullValue \/ f.null = "none"
    <3>1. CASE f = CsvRow(o, cols)
      BY <3>1 DEF CsvRow, Format, Consumable
    <3>2. CASE f = CsvHeader(o, cols)
      BY <3>2 DEF CsvHeader, Format, Consumable
    <3> QED
      BY <2>1, <3>1, <3>2
  <2>9. \A i \in 1..Len(f.cols) : f.cols[i] \in {"string", "bytes", "number"}
    BY <2>5 DEF Kinds
  <2>10. /\ f.sep # f.end /\ f.esc \notin {"fn", "urlEscape"} /\ f.bytes # f.null
         /\ f.quote \notin {f.sep, f.end, f.null} /\ f.quote \notin Digits
         /\ NumChars \cap {f.sep, f.end, f.null} = {}
    BY <2>3, <2>4, <2>6
  <2> QED
    BY <2>2, <2>5, <2>6, <2>9, <2>10 DEF FormatOK, AllKinds, Kinds
<1>3. CASE f \in {QName("dq"), QName("bq"), SnapshotLiteral}
  <2>1. /\ f.cols = <<"string", "string">> \/ f.cols = <<"string">>
        /\ f.esc \in {"QuoteIdent", "escapeStringLiteral"}
        /\ f.esc = "escapeStringLiteral" => f.quote = "sq"
        /\ f.quote \in {"dq", "bq", "sq"} /\ f.sep \in {".", ","} /\ f.end = "end"
        /\ f.null = "none" /\ ~f.backslash
    <3>1. CASE f = QName("dq")
      BY <3>1 DEF QName, Format
    <3>2. CASE f = QName("bq")
      BY <3>2 DEF QName, Format
    <3>3. CASE f = SnapshotLiteral
      BY <3>3 DEF SnapshotLiteral, Format
    <3> QED
      BY <1>3, <3>1, <3>2, <3>3
  <2>3. (Len(f.cols) = 1 \/ Len(f.cols) = 2) /\ \A i \in 1..Len(f.cols) : f.cols[i] = "string"
    <3>1. CASE f.cols = <<"string", "string">>
      BY <3>1
    <3>2. CASE f.cols = <<"string">>
      BY <3>2
    <3> QED
      BY <2>1, <3>1, <3>2
  <2>4. f.sep # f.end /\ f.quote \notin {f.sep, f.end, f.null} /\ f.esc \notin {"fn", "urlEscape"}
    BY <2>1
  <2>5. f.esc = "escapeSQL" => f.quote = "sq"
    BY <2>1
  <2>6. Len(f.cols) \in Nat \ {0}
    BY <2>3
  <2> QED
    BY <2>1, <2>3, <2>4, <2>5, <2>6 DEF FormatOK, AllKinds, Kinds
<1>4. CASE f = FileName
  <2>1. NumChars \cap {".", "end", "none"} = {}
    BY RowAssumption DEF RowAssumption
  <2>2. /\ f.cols = <<"name", "name", "number">> /\ f.esc = "fn" /\ f.sep = "." /\ f.end = "end"
        /\ f.null = "none"
    BY <1>4 DEF FileName, Format
  <2>3. ~f.backslash
    BY <1>4 DEF FileName, Format
  <2>4. Len(f.cols) = 3 /\ f.cols[1] = "name" /\ f.cols[2] = "name" /\ f.cols[3] = "number"
    BY <2>2
  <2> QED
    BY <2>1, <2>2, <2>3, <2>4 DEF FormatOK, AllKinds, Kinds
<1>5. CASE f = UserPass
  <2>2. /\ f.cols = <<"name", "name">> /\ f.esc = "urlEscape" /\ f.sep = ":" /\ f.end = "@"
        /\ f.null = "none"
    BY <1>5 DEF UserPass, Format
  <2>3. ~f.backslash
    BY <1>5 DEF UserPass, Format
  <2>4. Len(f.cols) = 2 /\ f.cols[1] = "name" /\ f.cols[2] = "name"
    BY <2>2
  <2> QED
    BY <2>2, <2>3, <2>4 DEF FormatOK, AllKinds, Kinds
<1> QED
  <2>1. \/ \E t \in Targets, cols \in Columns : f = SqlRow(t, cols)
        \/ \E o \in CsvOptions, cols \in Columns : f = CsvRow(o, cols)
        \/ \E o \in CsvOptions, cols \in Columns : f = CsvHeader(o, cols)
        \/ f \in {QName("dq"), QName("bq"), SnapshotLiteral, FileName, UserPass}
    BY SMT DEF Formats
  <2> QED
    BY <1>1, <1>2, <1>3, <1>4, <1>5, <2>1

----------------------------------------------------------------------------
(* Reading a text symbol by symbol *)

LEMMA FeedNil == ASSUME NEW f, NEW r PROVE Feed(f, r, <<>>) = r
BY DEF Feed

LEMMA FeedOne == ASSUME NEW f, NEW r, NEW a PROVE Feed(f, r, <<a>>) = Step(f, r, a)
<1>1. Len(<<a>>) = 1 /\ <<a>>[1] = a
  OBVIOUS
<1> QED
  BY <1>1 DEF Feed

LEMMA FeedTwo ==
    ASSUME NEW f, NEW r, NEW a, NEW b
    PROVE Feed(f, r, <<a, b>>) = Step(f, Step(f, r, a), b)
<1>1. Len(<<a, b>>) = 2 /\ <<a, b>>[1] = a /\ <<a, b>>[2] = b
  OBVIOUS
<1> QED
  BY <1>1 DEF Feed

LEMMA FeedThree ==
    ASSUME NEW f, NEW r, NEW a, NEW b, NEW c
    PROVE Feed(f, r, <<a, b, c>>) = Step(f, Step(f, Step(f, r, a), b), c)
<1>1. Len(<<a, b, c>>) = 3 /\ <<a, b, c>>[1] = a /\ <<a, b, c>>[2] = b /\ <<a, b, c>>[3] = c
  OBVIOUS
<1> QED
  BY <1>1 DEF Feed

LEMMA FeedFour ==
    ASSUME NEW f, NEW r, NEW a, NEW b, NEW c, NEW d
    PROVE Feed(f, r, <<a, b, c, d>>) = Step(f, Step(f, Step(f, Step(f, r, a), b), c), d)
<1>1. /\ Len(<<a, b, c, d>>) = 4 /\ <<a, b, c, d>>[1] = a /\ <<a, b, c, d>>[2] = b
      /\ <<a, b, c, d>>[3] = c /\ <<a, b, c, d>>[4] = d
  OBVIOUS
<1> QED
  BY <1>1 DEF Feed

\* One symbol read: the rest of the text, u, leads to the same reader.
LEMMA FeedShift ==
    ASSUME NEW f, NEW r, NEW t, NEW u, Len(t) \in 1..4, Len(u) = Len(t) - 1,
           \A i \in 1..(Len(t) - 1) : u[i] = t[i + 1]
    PROVE Feed(f, Step(f, r, t[1]), u) = Feed(f, r, t)
<1>1. CASE Len(t) = 1
  BY <1>1 DEF Feed
<1>2. CASE Len(t) = 2
  <2>1. Len(u) = 1 /\ u[1] = t[2]
    BY <1>2
  <2> QED
    BY <1>2, <2>1 DEF Feed
<1>3. CASE Len(t) = 3
  <2>1. Len(u) = 2 /\ u[1] = t[2] /\ u[2] = t[3]
    BY <1>3
  <2> QED
    BY <1>3, <2>1 DEF Feed
<1>4. CASE Len(t) = 4
  <2>1. Len(u) = 3 /\ u[1] = t[2] /\ u[2] = t[3] /\ u[3] = t[4]
    BY <1>4
  <2> QED
    BY <1>4, <2>1 DEF Feed
<1> QED
  BY <1>1, <1>2, <1>3, <1>4

LEMMA FeedTail ==
    ASSUME NEW f, NEW r, NEW t \in Seq(Symbols), Len(t) \in 1..4
    PROVE Feed(f, Step(f, r, Head(t)), Tail(t)) = Feed(f, r, t)
<1>0. t # <<>>
  OBVIOUS
<1>1. Len(Tail(t)) = Len(t) - 1
  BY <1>0
<1>a. \A i \in 1..(Len(t) - 1) : Tail(t)[i] = t[i + 1]
  OBVIOUS
<1>2. Feed(f, Step(f, r, t[1]), Tail(t)) = Feed(f, r, t)
  BY <1>1, <1>a, FeedShift
<1>3. Head(t) = t[1]
  OBVIOUS
<1> QED
  BY <1>2, <1>3

\* A reader that met text it could not take never recovers.
LEMMA ErrorStays ==
    ASSUME NEW f, NEW r \in Reader, r.st = "error", NEW t \in Seq(Symbols)
    PROVE Feed(f, r, t).st = "error"
<1>1. \A q \in Reader : \A s : q.st = "error" => Step(f, q, s) = q
  <2> SUFFICES ASSUME NEW q \in Reader, NEW s, q.st = "error" PROVE Step(f, q, s) = q
    OBVIOUS
  <2>1. Step(f, q, s) = Goto(q, "error")
    BY DEF Step
  <2> QED
    BY <2>1 DEF Reader, Goto
<1>2. Feed(f, r, t) = r
  BY <1>1 DEF Feed
<1> QED
  BY <1>2

LEMMA StepType ==
    ASSUME NEW f, NEW r \in Reader, NEW s \in Symbols
    PROVE Step(f, r, s) \in Reader
<1>1. \A q \in Reader, st \in ReaderStates : Goto(q, st) \in Reader
  BY DEF Goto, Reader
<1>2. \A q \in Reader, st \in ReaderStates, c \in Symbols : Take(q, st, c) \in Reader
  <2> SUFFICES ASSUME NEW q \in Reader, NEW st \in ReaderStates, NEW c \in Symbols
               PROVE Take(q, st, c) \in Reader
    OBVIOUS
  <2>1. Append(q.text, c) \in Seq(Symbols)
    BY DEF Reader
  <2> QED
    BY <2>1 DEF Take, Reader
<1>3. \A q \in Reader : Got(q) \in ReadFields
  BY DEF Got, Reader, ReadFields
<1>4. \A q \in Reader : Finish(q) \in Reader
  <2> SUFFICES ASSUME NEW q \in Reader PROVE Finish(q) \in Reader
    OBVIOUS
  <2>1. Got(q) \in ReadFields /\ <<>> \in Seq(Symbols)
    BY <1>3
  <2> QED
    BY <2>1 DEF Finish, Reader, ReaderStates
<1>5. \A q \in Reader : Fresh(f, Got(q)) \in Reader
  <2>1. "none" \in Symbols /\ <<>> \in Seq(Symbols)
    BY DEF Symbols
  <2> QED
    BY <1>3, <2>1 DEF Fresh, Reader, ReaderStates
<1>6. \A q \in Reader : AfterField(f, q, s) \in Reader
  BY <1>1, <1>4, <1>5 DEF AfterField, ReaderStates
<1>7. \A q \in Reader, st \in ReaderStates : Decode(q, st, s) \in Reader
  <2> SUFFICES ASSUME NEW q \in Reader, NEW st \in ReaderStates PROVE Decode(q, st, s) \in Reader
    OBVIOUS
  <2>1. CASE \E c \in Chars : Hex[c] = <<q.digit, s>>
    <3>1. (CHOOSE c \in Chars : Hex[c] = <<q.digit, s>>) \in Symbols
      BY <2>1 DEF Symbols
    <3> QED
      BY <2>1, <3>1, <1>2 DEF Decode
  <2> QED
    BY <2>1, <1>1 DEF Decode, ReaderStates
<1>8. \A q \in Reader : InName(f, q, s) \in Reader
  BY <1>1, <1>2, <1>6 DEF InName, ReaderStates
<1>9. FirstOfField(f, r, s) \in Reader
  <2>1. [r EXCEPT !.st = "after", !.null = TRUE] \in Reader
    BY DEF Reader, ReaderStates
  <2> QED
    BY <2>1, <1>1, <1>2 DEF FirstOfField, ReaderStates
<1>10. \A st \in ReaderStates : Digit(r, st, s) \in Reader
  BY DEF Reader, Digit
<1>11. AfterDash(f, r, s) \in Reader
  <2>1. Take(r, "name", "-") \in Reader
    BY <1>2, CharsAssumption DEF CharsAssumption, Symbols, ReaderStates
  <2> QED
    BY <2>1, <1>4, <1>8 DEF AfterDash
<1>12. /\ InString(f, r, s) \in Reader /\ AfterQuote(f, r, s) \in Reader
       /\ InBytes(f, r, s) \in Reader /\ InNumber(f, r, s) \in Reader
  BY <1>1, <1>2, <1>6, <1>10 DEF InString, AfterQuote, InBytes, InNumber, ReaderStates
<1>13. CASE r.st \in {"name", "high", "low", "dash"}
  <2>1. NameStep(f, r, s) \in Reader
    BY <1>7, <1>8, <1>10, <1>11, <1>13 DEF NameStep, ReaderStates
  <2> QED
    BY <1>13, <2>1 DEF Step
<1>14. CASE r.st \in {"done", "error"}
  BY <1>1, <1>14 DEF Step, ReaderStates
<1>15. CASE r.st \in {"field", "quoted", "escape", "quote"}
  <2>1. FieldStep(f, r, s) \in Reader
    BY <1>2, <1>9, <1>12, <1>15 DEF FieldStep, ReaderStates
  <2> QED
    BY <1>15, <2>1 DEF Step
<1>16. CASE r.st \in {"bytes", "byte", "number", "after"}
  <2>1. FieldStep(f, r, s) \in Reader
    BY <1>6, <1>7, <1>12, <1>16 DEF FieldStep, ReaderStates
  <2> QED
    BY <1>16, <2>1 DEF Step
<1> QED
  BY <1>13, <1>14, <1>15, <1>16 DEF Reader, ReaderStates

----------------------------------------------------------------------------
(* What one write call does to a reader that has caught up *)

LEMMA StepOf ==
    ASSUME NEW f, NEW r, NEW s
    PROVE /\ r.st = "field" => Step(f, r, s) = FirstOfField(f, r, s)
          /\ r.st = "quoted" => Step(f, r, s) = InString(f, r, s)
          /\ r.st = "quote" => Step(f, r, s) = AfterQuote(f, r, s)
          /\ r.st = "bytes" => Step(f, r, s) = InBytes(f, r, s)
          /\ r.st = "byte" => Step(f, r, s) = Decode(r, "bytes", s)
          /\ r.st = "number" => Step(f, r, s) = InNumber(f, r, s)
          /\ r.st = "after" => Step(f, r, s) = AfterField(f, r, s)
          /\ r.st = "name" => Step(f, r, s) = InName(f, r, s)
          /\ r.st = "high" => Step(f, r, s) = Digit(r, "low", s)
          /\ r.st = "low" => Step(f, r, s) = Decode(r, "name", s)
          /\ r.st = "dash" => Step(f, r, s) = AfterDash(f, r, s)
<1>1. r.st \in {"name", "high", "low", "dash"} => Step(f, r, s) = NameStep(f, r, s)
  BY DEF Step
<1>2. r.st \in {"field", "quoted", "quote", "bytes"} => Step(f, r, s) = FieldStep(f, r, s)
  BY DEF Step
<1>3. r.st \in {"byte", "number", "after"} => Step(f, r, s) = FieldStep(f, r, s)
  BY DEF Step
<1>4. /\ r.st = "name" => NameStep(f, r, s) = InName(f, r, s)
      /\ r.st = "high" => NameStep(f, r, s) = Digit(r, "low", s)
      /\ r.st = "low" => NameStep(f, r, s) = Decode(r, "name", s)
      /\ r.st = "dash" => NameStep(f, r, s) = AfterDash(f, r, s)
  BY DEF NameStep
<1>5. /\ r.st = "field" => FieldStep(f, r, s) = FirstOfField(f, r, s)
      /\ r.st = "quoted" => FieldStep(f, r, s) = InString(f, r, s)
      /\ r.st = "quote" => FieldStep(f, r, s) = AfterQuote(f, r, s)
      /\ r.st = "bytes" => FieldStep(f, r, s) = InBytes(f, r, s)
  BY DEF FieldStep
<1>6. /\ r.st = "byte" => FieldStep(f, r, s) = Decode(r, "bytes", s)
      /\ r.st = "number" => FieldStep(f, r, s) = InNumber(f, r, s)
      /\ r.st = "after" => FieldStep(f, r, s) = AfterField(f, r, s)
  BY DEF FieldStep
<1> QED
  BY <1>1, <1>2, <1>3, <1>4, <1>5, <1>6

LEMMA GotoFields ==
    ASSUME NEW r \in Reader, NEW st
    PROVE /\ Goto(r, st).st = st /\ Goto(r, st).got = r.got /\ Goto(r, st).text = r.text
          /\ Goto(r, st).null = r.null /\ Goto(r, st).digit = r.digit
BY DEF Goto, Reader

LEMMA TakeFields ==
    ASSUME NEW r \in Reader, NEW st, NEW c
    PROVE /\ Take(r, st, c).st = st /\ Take(r, st, c).got = r.got
          /\ Take(r, st, c).text = Append(r.text, c) /\ Take(r, st, c).null = r.null
          /\ Take(r, st, c).digit = r.digit
BY DEF Take, Reader

LEMMA DigitFields ==
    ASSUME NEW r \in Reader, NEW st, NEW c
    PROVE /\ Digit(r, st, c).st = st /\ Digit(r, st, c).got = r.got
          /\ Digit(r, st, c).text = r.text /\ Digit(r, st, c).null = r.null
          /\ Digit(r, st, c).digit = c
BY DEF Digit, Reader

LEMMA FinishFields ==
    ASSUME NEW r \in Reader
    PROVE /\ Finish(r).st = "done"
          /\ Finish(r).got = Append(r.got, [null |-> r.null, text |-> r.text])
BY DEF Finish, Reader, Got

\* Two digits lead back to the symbol they stand for.
LEMMA DecodeHex ==
    ASSUME NEW r \in Reader, NEW c \in Chars, NEW st, r.digit = Hex[c][1]
    PROVE Decode(r, st, Hex[c][2]) = Take(r, st, c)
<1>1. Hex[c] = <<Hex[c][1], Hex[c][2]>>
  BY CharsAssumption DEF CharsAssumption
<1>2. \A d \in Chars : Hex[d] = Hex[c] => d = c
  BY CharsAssumption DEF CharsAssumption
<1>3. (CHOOSE d \in Chars : Hex[d] = <<r.digit, Hex[c][2]>>) = c
  BY <1>1, <1>2
<1> QED
  BY <1>1, <1>3 DEF Decode

\* Inside a name the reader is, or after any symbol but "schema" would be, at
\* a reader that has all of its text.
LEMMA NameBase ==
    ASSUME NEW f, NEW v \in Value, NEW r \in Reader, Inside(f, v, r, "name")
    PROVE \E q \in Reader :
             /\ q.st = "name" /\ q.text = v.text /\ q.got = r.got /\ ~q.null /\ ~v.null
             /\ \A s : s # "schema" \/ r.st = "name" => Step(f, r, s) = InName(f, q, s)
             /\ r.st = "dash" => f.esc = "fn" /\ EndsWith(v.text, "-")
             /\ r.st = "name" \/ r.st = "dash"
<1>0. ~r.null /\ ~v.null
  BY DEF Inside
<1>1. CASE r.st = "name"
  <2>1. r.text = v.text
    BY <1>1 DEF Inside
  <2>2. \A s : Step(f, r, s) = InName(f, r, s)
    BY <1>1, StepOf
  <2> QED
    BY <1>0, <1>1, <2>1, <2>2
<1>2. CASE r.st = "dash"
  <2>1. f.esc = "fn" /\ Append(r.text, "-") = v.text
    BY <1>2 DEF Inside
  <2> DEFINE q == Take(r, "name", "-")
  <2>2. q.st = "name" /\ q.text = Append(r.text, "-") /\ q.got = r.got /\ q.null = r.null
    BY TakeFields
  <2>3. q \in Reader
    <3>1. Append(r.text, "-") \in Seq(Symbols)
      BY CharsAssumption DEF CharsAssumption, Symbols, Reader
    <3> QED
      BY <3>1 DEF Take, Reader, ReaderStates
  <2>4. \A s : s # "schema" => Step(f, r, s) = InName(f, q, s)
    BY <1>2, StepOf DEF AfterDash
  <2>5. EndsWith(v.text, "-")
    <3>1. r.text \in Seq(Symbols)
      BY DEF Reader
    <3>2. Append(r.text, "-") # <<>> /\ Append(r.text, "-")[Len(Append(r.text, "-"))] = "-"
      BY <3>1
    <3> QED
      BY <2>1, <3>2 DEF EndsWith
  <2> HIDE DEF q
  <2>6. /\ q.st = "name" /\ q.text = v.text /\ q.got = r.got /\ ~q.null /\ ~v.null
        /\ \A s : s # "schema" \/ r.st = "name" => Step(f, r, s) = InName(f, q, s)
        /\ r.st = "dash" => f.esc = "fn" /\ EndsWith(v.text, "-")
        /\ r.st = "name" \/ r.st = "dash"
    BY <1>0, <1>2, <2>1, <2>2, <2>4, <2>5
  <2> QED
    BY <2>3, <2>6
<1> QED
  BY <1>1, <1>2 DEF Inside

\* "%" and the two digits of c, read inside a name.
LEMMA PercentRead ==
    ASSUME NEW f, NEW q \in Reader, q.st = "name", NEW c \in Chars
    PROVE Step(f, Step(f, InName(f, q, "%"), Hex[c][1]), Hex[c][2]) =
            Take(Digit(Goto(q, "high"), "low", Hex[c][1]), "name", c)
<1>1. InName(f, q, "%") = Goto(q, "high")
  BY DEF InName
<1> DEFINE p == Goto(q, "high")
<1>2. p \in Reader /\ p.st = "high"
  BY GotoFields DEF Goto, Reader, ReaderStates
<1> HIDE DEF p
<1>3. Step(f, p, Hex[c][1]) = Digit(p, "low", Hex[c][1])
  BY <1>2, StepOf
<1> DEFINE o == Digit(p, "low", Hex[c][1])
<1>4. Hex[c][1] \in Symbols
  BY CharsAssumption DEF CharsAssumption, Symbols
<1>5. o \in Reader /\ o.st = "low" /\ o.digit = Hex[c][1]
  <2>1. o.st = "low" /\ o.digit = Hex[c][1]
    BY <1>2, DigitFields
  <2>2. o \in Reader
    BY <1>2, <1>4 DEF Digit, Reader, ReaderStates
  <2> QED
    BY <2>1, <2>2
<1> HIDE DEF o
<1>6. Step(f, o, Hex[c][2]) = Take(o, "name", c)
  BY <1>5, StepOf, DecodeHex
<1> QED
  BY <1>1, <1>3, <1>6 DEF p, o

LEMMA PercentFields ==
    ASSUME NEW q \in Reader, NEW c \in Chars, NEW p,
           p = Take(Digit(Goto(q, "high"), "low", Hex[c][1]), "name", c)
    PROVE p \in Reader /\ p.st = "name" /\ p.text = Append(q.text, c) /\ p.null = q.null /\ p.got = q.got
<1>1. Goto(q, "high") \in Reader
  BY DEF Goto, Reader, ReaderStates
<1>2. Hex[c][1] \in Symbols /\ c \in Symbols
  BY CharsAssumption DEF CharsAssumption, Symbols
<1>3. Digit(Goto(q, "high"), "low", Hex[c][1]) \in Reader
  BY <1>1, <1>2 DEF Digit, Reader, ReaderStates
<1>4. p.st = "name" /\ p.text = Append(q.text, c) /\ p.null = q.null /\ p.got = q.got
  BY <1>1, <1>3, GotoFields, DigitFields, TakeFields
<1>5. p \in Reader
  <2> DEFINE o == Digit(Goto(q, "high"), "low", Hex[c][1])
  <2> HIDE DEF o
  <2>1. o \in Reader /\ p = Take(o, "name", c)
    BY <1>3 DEF o
  <2>2. Append(o.text, c) \in Seq(Symbols)
    BY <2>1, <1>2 DEF Reader
  <2> QED
    BY <2>1, <2>2 DEF Take, Reader, ReaderStates
<1> QED
  BY <1>4, <1>5

LEMMA NameChar ==
    ASSUME NEW f, FormatOK(f), f.esc \in {"fn", "urlEscape"}, NEW v \in Value, NEW r \in Reader,
           NEW c \in Chars, Inside(f, v, r, "name"),
           f.esc = "fn" /\ EndsWith(v.text, "-") => c # "schema"
    PROVE LET u == [v EXCEPT !.text = Append(@, c)]
              q == Feed(f, r, Written(f, "name", c))
          IN Inside(f, u, q, "name") /\ q.got = r.got
<1> DEFINE u == [v EXCEPT !.text = Append(@, c)]
<1> DEFINE e == Feed(f, r, Written(f, "name", c))
<1>1. u.null = v.null /\ u.text = Append(v.text, c)
  BY DEF Value
<1>2. PICK q \in Reader :
             /\ q.st = "name" /\ q.text = v.text /\ q.got = r.got /\ ~q.null /\ ~v.null
             /\ \A s : s # "schema" \/ r.st = "name" => Step(f, r, s) = InName(f, q, s)
             /\ r.st = "dash" => f.esc = "fn" /\ EndsWith(v.text, "-")
             /\ r.st = "name" \/ r.st = "dash"
  BY NameBase
<1>3. CASE Written(f, "name", c) = Percent(c)
  <2>1. e = Step(f, Step(f, Step(f, r, "%"), Hex[c][1]), Hex[c][2])
    BY <1>3, FeedThree DEF Percent
  <2>2. Step(f, r, "%") = InName(f, q, "%")
    BY <1>2
  <2>3. e = Take(Digit(Goto(q, "high"), "low", Hex[c][1]), "name", c)
    BY <1>2, <2>1, <2>2, PercentRead
  <2>4. e.st = "name" /\ e.text = Append(q.text, c) /\ e.null = q.null /\ e.got = q.got
    BY <2>3, PercentFields
  <2> QED
    BY <1>1, <1>2, <2>4 DEF Inside
<1>4. CASE /\ Written(f, "name", c) = <<c>>
           /\ c \notin {"%", f.sep, f.end}
  <2>1. e = Step(f, r, c)
    BY <1>4, FeedOne
  <2>2. e = InName(f, q, c)
    BY <1>2, <2>1
  <2>3. CASE f.esc = "fn" /\ c = "-"
    <3>1. e = Goto(q, "dash")
      BY <1>4, <2>2, <2>3 DEF InName
    <3>2. e.st = "dash" /\ e.text = q.text /\ e.null = q.null /\ e.got = q.got
      BY <3>1, GotoFields
    <3> QED
      BY <1>1, <1>2, <2>3, <3>2 DEF Inside
  <2>4. CASE ~(f.esc = "fn" /\ c = "-")
    <3>1. e = Take(q, "name", c)
      BY <1>4, <2>2, <2>4 DEF InName
    <3>2. e.st = "name" /\ e.text = Append(q.text, c) /\ e.null = q.null /\ e.got = q.got
      BY <3>1, TakeFields
    <3> QED
      BY <1>1, <1>2, <3>2 DEF Inside
  <2> QED
    BY <2>3, <2>4
<1>5. CASE f.esc = "fn"
  <2>1. Written(f, "name", c) = fn(c)
    BY <1>5 DEF Written
  <2>2. CASE c \in Unsafe
    BY <1>3, <2>1, <2>2 DEF fn
  <2>3. CASE c \notin Unsafe
    <3>1. c \notin {"%", ".", "end"}
      BY <2>3, CharsAssumption DEF Unsafe, CharsAssumption
    <3>2. f.sep = "." /\ f.end = "end"
      BY <1>5 DEF FormatOK
    <3> QED
      BY <1>4, <2>1, <2>3, <3>1, <3>2 DEF fn
  <2> QED
    BY <2>2, <2>3
<1>6. CASE f.esc = "urlEscape"
  <2>1. Written(f, "name", c) = urlEscape(c)
    BY <1>6 DEF Written
  <2>2. CASE c \notin UrlSafe
    BY <1>3, <2>1, <2>2 DEF urlEscape
  <2>3. CASE c \in UrlSafe
    <3>1. Digits \cap {"%", ":", "@"} = {}
      BY CharsAssumption DEF CharsAssumption, Unsafe
    <3>2. c \notin {"%", ":", "@"}
      BY <2>3, <3>1 DEF UrlSafe
    <3>3. f.sep = ":" /\ f.end = "@"
      BY <1>6 DEF FormatOK
    <3> QED
      BY <1>4, <2>1, <2>3, <3>2, <3>3 DEF urlEscape
  <2> QED
    BY <2>2, <2>3
<1> QED
  BY <1>5, <1>6

\* "-schema" in a file name.
LEMMA MarkInside ==
    ASSUME NEW f, FormatOK(f), f.esc = "fn", NEW v \in Value, NEW r \in Reader,
           Inside(f, v, r, "name")
    PROVE LET u == [v EXCEPT !.text = @ \o <<"-", "schema">>]
              q == Feed(f, r, fnMark)
          IN Inside(f, u, q, "name") /\ q.got = r.got
<1> DEFINE u == [v EXCEPT !.text = @ \o <<"-", "schema">>]
<1> DEFINE e == Feed(f, r, fnMark)
<1>0. "-" \in Chars /\ "schema" \in Chars
  BY CharsAssumption DEF CharsAssumption
<1>1. u.null = v.null /\ u.text = v.text \o <<"-", "schema">> /\ v.text \in Seq(Chars)
  BY DEF Value
<1>2. PICK q \in Reader :
             /\ q.st = "name" /\ q.text = v.text /\ q.got = r.got /\ ~q.null /\ ~v.null
             /\ \A s : s # "schema" \/ r.st = "name" => Step(f, r, s) = InName(f, q, s)
             /\ r.st = "dash" => f.esc = "fn" /\ EndsWith(v.text, "-")
             /\ r.st = "name" \/ r.st = "dash"
  BY NameBase
<1>3. fnMark = <<"%", Hex["-"][1], Hex["-"][2], "schema">>
  BY DEF fnMark
<1>4. e = Step(f, Step(f, Step(f, Step(f, r, "%"), Hex["-"][1]), Hex["-"][2]), "schema")
  BY <1>3, FeedFour
<1> DEFINE p == Take(Digit(Goto(q, "high"), "low", Hex["-"][1]), "name", "-")
<1>5. Step(f, Step(f, Step(f, r, "%"), Hex["-"][1]), Hex["-"][2]) = p
  BY <1>0, <1>2, PercentRead
<1>6. p \in Reader /\ p.st = "name" /\ p.text = Append(q.text, "-") /\ p.null = q.null
      /\ p.got = q.got
  BY <1>0, PercentFields
<1> HIDE DEF p
<1>7. Step(f, p, "schema") = Take(p, "name", "schema")
  <2>1. f.sep = "." /\ f.end = "end"
    BY DEF FormatOK
  <2>2. Step(f, p, "schema") = InName(f, p, "schema")
    BY <1>6, StepOf
  <2> QED
    BY <2>1, <2>2 DEF InName
<1>8. e.st = "name" /\ e.text = Append(p.text, "schema") /\ e.null = p.null /\ e.got = p.got
  BY <1>4, <1>5, <1>6, <1>7, TakeFields
<1>9. Append(Append(v.text, "-"), "schema") = v.text \o <<"-", "schema">>
  BY <1>0, <1>1
<1> QED
  BY <1>1, <1>2, <1>6, <1>8, <1>9 DEF Inside

\* One symbol of a value keeps the reader inside the field.
LEMMA CharInside ==
    ASSUME NEW f, FormatOK(f), NEW n \in 1..Len(f.cols), NEW v \in Value, NEW r \in Reader,
           NEW c \in Chars, NEW kind, kind = f.cols[n], Kind(f, Len(r.got)) = kind,
           Inside(f, v, r, kind),
           kind = "number" => c \in NumChars,
           f.esc = "fn" /\ EndsWith(v.text, "-") => c # "schema"
    PROVE LET u == [v EXCEPT !.text = Append(@, c)]
              q == Feed(f, r, Written(f, kind, c))
          IN Inside(f, u, q, kind) /\ q.got = r.got
<1> DEFINE u == [v EXCEPT !.text = Append(@, c)]
<1> DEFINE q == Feed(f, r, Written(f, kind, c))
<1>1. u.null = v.null /\ u.text = Append(v.text, c) /\ v.text \in Seq(Chars) /\ v.null \in BOOLEAN
  BY DEF Value
<1>2. r.text \in Seq(Symbols) /\ r.null \in BOOLEAN
  BY DEF Reader
<1>3. kind \in {"string", "bytes", "number", "name"}
  BY DEF FormatOK, AllKinds, Kinds
<1>t. \A p \in Reader, st \in ReaderStates : Goto(p, st) \in Reader
  BY DEF Goto, Reader
<1>d. \A p \in Reader, st \in ReaderStates, s \in Symbols : Digit(p, st, s) \in Reader
  BY DEF Digit, Reader
<1>h. Hex[c][1] \in Chars /\ Hex[c][2] \in Chars /\ c \in Symbols /\ Hex[c][1] \in Symbols
  BY CharsAssumption DEF CharsAssumption, Symbols
<1>4. CASE kind = "string"
  <2>1. r.st = "quoted" /\ r.text = v.text /\ ~r.null /\ ~v.null
    BY <1>4 DEF Inside
  <2>2. Written(f, kind, c) = Doubled(f.quote, c)
    <3>1. f.esc \in {"escapeSQL", "escapeCSV", "QuoteIdent", "escapeStringLiteral"}
      BY <1>4 DEF FormatOK
    <3>2. f.esc \in {"escapeSQL", "escapeStringLiteral"} => f.quote = "sq"
      BY <1>4 DEF FormatOK
    <3>3. Written(f, kind, c) = EscapeText(f, c)
      BY <1>4 DEF Written
    <3> QED
      BY <3>1, <3>2, <3>3 DEF EscapeText, escapeSQL, escapeCSV, QuoteIdent, escapeStringLiteral
  <2>3. CASE c = f.quote
    <3>1. q = Step(f, Step(f, r, c), c)
      BY <2>2, <2>3, FeedTwo DEF Doubled
    <3>2. Step(f, r, c) = Goto(r, "quote")
      BY <2>1, <2>3, StepOf DEF InString
    <3>3. Step(f, Goto(r, "quote"), c) = Take(Goto(r, "quote"), "quoted", c)
      BY <2>3, StepOf, GotoFields DEF AfterQuote
    <3>4. q = Take(Goto(r, "quote"), "quoted", c)
      BY <3>1, <3>2, <3>3
    <3>5. Goto(r, "quote") \in Reader
      BY <1>t DEF ReaderStates
    <3>6. q.st = "quoted" /\ q.text = Append(r.text, c) /\ q.null = r.null /\ q.got = r.got
      BY <3>4, <3>5, GotoFields, TakeFields
    <3> QED
      BY <3>6, <2>1, <1>1, <1>4 DEF Inside
  <2>4. CASE c # f.quote
    <3>1. q = Step(f, r, c)
      BY <2>2, <2>4, FeedOne DEF Doubled
    <3>2. q = Take(r, "quoted", c)
      <4>1. ~f.backslash
        BY DEF FormatOK
      <4> QED
        BY <2>1, <2>4, <3>1, <4>1, StepOf DEF InString
    <3>6. q.st = "quoted" /\ q.text = Append(r.text, c) /\ q.null = r.null /\ q.got = r.got
      BY <3>2, TakeFields
    <3> QED
      BY <3>6, <2>1, <1>1, <1>4 DEF Inside
  <2> QED
    BY <2>3, <2>4
<1>5. CASE kind = "bytes"
  <2>1. r.st = "bytes" /\ r.text = v.text /\ ~r.null /\ ~v.null
    BY <1>5 DEF Inside
  <2>2. q = Step(f, Step(f, r, Hex[c][1]), Hex[c][2])
    BY <1>5, FeedTwo DEF Written
  <2>3. Hex[c][1] # f.quote
    <3>1. f.quote \notin Digits
      BY <1>5 DEF FormatOK
    <3> QED
      BY <3>1 DEF Digits
  <2>4. Step(f, r, Hex[c][1]) = Digit(r, "byte", Hex[c][1])
    BY <2>1, <2>3, StepOf DEF InBytes
  <2> DEFINE p == Digit(r, "byte", Hex[c][1])
  <2>5. p \in Reader /\ p.st = "byte" /\ p.digit = Hex[c][1] /\ p.text = r.text /\ p.null = r.null
        /\ p.got = r.got
    <3>1. p \in Reader
      BY <1>d, <1>h DEF ReaderStates
    <3> QED
      BY <3>1, DigitFields
  <2> HIDE DEF p
  <2>6. Step(f, p, Hex[c][2]) = Take(p, "bytes", c)
    BY <2>5, StepOf, DecodeHex
  <2>7. q.st = "bytes" /\ q.text = Append(r.text, c) /\ q.null = r.null /\ q.got = r.got
    BY <2>2, <2>4, <2>5, <2>6, TakeFields DEF p
  <2> QED
    BY <2>7, <2>1, <1>1, <1>5 DEF Inside
<1>6. CASE kind = "number"
  <2>1. q = Step(f, r, c)
    BY <1>6, FeedOne DEF Written
  <2>2. r.text = v.text /\ ~r.null /\ ~v.null /\ r.st \in {"number", "field"}
    BY <1>6 DEF Inside
  <2>3. c \in NumChars /\ c # f.null
    BY <1>6 DEF FormatOK
  <2>4. q = Take(r, "number", c)
    <3>1. CASE r.st = "number"
      BY <2>1, <2>3, <3>1, StepOf DEF InNumber
    <3>2. CASE r.st = "field"
      <4>1. q = FirstOfField(f, r, c)
        BY <2>1, <3>2, StepOf
      <4> QED
        BY <1>6, <2>3, <4>1 DEF FirstOfField
    <3> QED
      BY <2>2, <3>1, <3>2
  <2>5. q.st = "number" /\ q.text = Append(r.text, c) /\ q.null = r.null /\ q.got = r.got
    BY <2>4, TakeFields
  <2> QED
    BY <2>5, <2>2, <1>1, <1>6 DEF Inside
<1>7. CASE kind = "name"
  <2>1. f.esc \in {"fn", "urlEscape"}
    BY <1>7 DEF FormatOK
  <2> QED
    BY <1>7, <2>1, NameChar
<1> QED
  BY <1>3, <1>4, <1>5, <1>6, <1>7

\* NULL, and the text that opens a field.
LEMMA NullBehind ==
    ASSUME NEW f, FormatOK(f), NEW n \in 1..Len(f.cols), NEW r \in Reader, r.st = "field",
           r.text = <<>>, ~r.null, f.null # "none"
    PROVE LET v == [null |-> TRUE, text |-> <<>>]
              q == Feed(f, r, <<f.null>>)
          IN Behind(f, v, q, f.cols[n]) /\ q.got = r.got
<1> DEFINE q == Feed(f, r, <<f.null>>)
<1>1. q = FirstOfField(f, r, f.null)
  BY FeedOne, StepOf
<1>2. q = [r EXCEPT !.st = "after", !.null = TRUE]
  BY <1>1 DEF FirstOfField
<1>3. q.st = "after" /\ q.null /\ q.text = r.text /\ q.got = r.got
  BY <1>2 DEF Reader
<1> QED
  BY <1>3 DEF Behind

Opening(f, kind) ==
    IF kind = "string" THEN <<f.quote>> ELSE IF kind = "bytes" THEN <<f.bytes>> ELSE <<>>

LEMMA OpenInside ==
    ASSUME NEW f, FormatOK(f), NEW n \in 1..Len(f.cols), NEW r \in Reader, NEW kind,
           kind = f.cols[n], Kind(f, Len(r.got)) = kind,
           r.st = IF kind = "name" THEN "name" ELSE "field", r.text = <<>>, ~r.null
    PROVE LET q == Feed(f, r, Opening(f, kind))
          IN Inside(f, Empty, q, kind) /\ q.got = r.got
<1> DEFINE q == Feed(f, r, Opening(f, kind))
<1>1. kind \in {"string", "bytes", "number", "name"}
  BY DEF FormatOK, AllKinds, Kinds
<1>2. CASE kind \in {"number", "name"}
  <2>1. q = r
    BY <1>2, FeedNil DEF Opening
  <2> QED
    BY <1>2, <2>1 DEF Inside, Empty
<1>3. CASE kind = "string"
  <2>1. q = FirstOfField(f, r, f.quote)
    BY <1>3, FeedOne, StepOf DEF Opening
  <2>2. f.quote # f.null
    BY <1>3 DEF FormatOK
  <2>3. q = Goto(r, "quoted")
    BY <1>3, <2>1, <2>2 DEF FirstOfField
  <2>4. q.st = "quoted" /\ q.text = r.text /\ q.null = r.null /\ q.got = r.got
    BY <2>3, GotoFields
  <2> QED
    BY <1>3, <2>4 DEF Inside, Empty
<1>4. CASE kind = "bytes"
  <2>1. q = FirstOfField(f, r, f.bytes)
    BY <1>4, FeedOne, StepOf DEF Opening
  <2>2. f.bytes # f.null
    BY <1>4 DEF FormatOK
  <2>3. q = Goto(r, "bytes")
    BY <1>4, <2>1, <2>2 DEF FirstOfField
  <2>4. q.st = "bytes" /\ q.text = r.text /\ q.null = r.null /\ q.got = r.got
    BY <2>3, GotoFields
  <2> QED
    BY <1>4, <2>4 DEF Inside, Empty
<1> QED
  BY <1>1, <1>2, <1>3, <1>4

\* The text that closes a field.
Closing(f, kind) == IF kind \in {"string", "bytes"} THEN <<f.quote>> ELSE <<>>

LEMMA CloseBehind ==
    ASSUME NEW f, FormatOK(f), NEW n \in 1..Len(f.cols), NEW v \in Value, NEW r \in Reader,
           NEW kind, kind = f.cols[n], Inside(f, v, r, kind),
           kind = "number" => v.text # <<>>
    PROVE LET q == Feed(f, r, Closing(f, kind))
          IN Behind(f, v, q, kind) /\ q.got = r.got
<1> DEFINE q == Feed(f, r, Closing(f, kind))
<1>1. kind \in {"string", "bytes", "number", "name"}
  BY DEF FormatOK, AllKinds, Kinds
<1>2. CASE kind \in {"number", "name"}
  <2>1. q = r
    BY <1>2, FeedNil DEF Closing
  <2> QED
    BY <1>2, <2>1 DEF Behind
<1>3. CASE kind = "string"
  <2>0. r.st = "quoted" /\ r.text = v.text /\ ~r.null /\ ~v.null
    BY <1>3 DEF Inside
  <2>1. q = InString(f, r, f.quote)
    BY <1>3, <2>0, FeedOne, StepOf DEF Closing
  <2>3. q = Goto(r, "quote")
    BY <2>1 DEF InString
  <2>4. q.st = "quote" /\ q.text = r.text /\ q.null = r.null /\ q.got = r.got
    BY <2>3, GotoFields
  <2> QED
    BY <1>3, <2>0, <2>4 DEF Behind
<1>4. CASE kind = "bytes"
  <2>0. r.st = "bytes" /\ r.text = v.text /\ ~r.null /\ ~v.null
    BY <1>4 DEF Inside
  <2>1. q = InBytes(f, r, f.quote)
    BY <1>4, <2>0, FeedOne, StepOf DEF Closing
  <2>3. q = Goto(r, "after")
    BY <2>1 DEF InBytes
  <2>4. q.st = "after" /\ q.text = r.text /\ q.null = r.null /\ q.got = r.got
    BY <2>3, GotoFields
  <2> QED
    BY <1>4, <2>0, <2>4 DEF Behind
<1> QED
  BY <1>1, <1>2, <1>3, <1>4

\* A separator or the end after a field: the reader takes exactly the field.
LEMMA FieldRead ==
    ASSUME NEW f, FormatOK(f), NEW n \in 1..Len(f.cols), NEW v \in Value, NEW r \in Reader,
           NEW kind, kind = f.cols[n], Behind(f, v, r, kind), NEW s \in {f.sep, f.end}
    PROVE \E q \in Reader :
             /\ q.got = r.got /\ q.text = v.text /\ q.null = v.null
             /\ Step(f, r, s) = AfterField(f, q, s)
<1>0. r.null \in BOOLEAN /\ v.null \in BOOLEAN
  BY DEF Reader, Value
<1>1. CASE r.null /\ v.null /\ r.st = "after" /\ r.text = v.text
  <2>1. Step(f, r, s) = AfterField(f, r, s)
    BY <1>1, StepOf
  <2>2. r.null = v.null
    BY <1>0, <1>1
  <2> QED
    BY <1>1, <2>1, <2>2
<1>2. CASE ~r.null /\ ~v.null /\ r.text = v.text /\ kind = "string" /\ r.st = "quote"
  <2>1. s # f.quote
    BY <1>2 DEF FormatOK
  <2>2. Step(f, r, s) = AfterField(f, r, s)
    BY <1>2, <2>1, StepOf DEF AfterQuote
  <2>3. r.null = v.null
    BY <1>0, <1>2
  <2> QED
    BY <1>2, <2>2, <2>3
<1>3. CASE ~r.null /\ ~v.null /\ r.text = v.text /\ kind = "bytes" /\ r.st = "after"
  <2>1. Step(f, r, s) = AfterField(f, r, s)
    BY <1>3, StepOf
  <2>2. r.null = v.null
    BY <1>0, <1>3
  <2> QED
    BY <1>3, <2>1, <2>2
<1>4. CASE kind = "number" /\ v.text # <<>> /\ Inside(f, v, r, kind)
  <2>0. ~r.null /\ ~v.null /\ r.text = v.text /\ r.st = "number"
    BY <1>4 DEF Inside
  <2>1. s \notin NumChars
    BY <1>4 DEF FormatOK
  <2>2. Step(f, r, s) = AfterField(f, r, s)
    BY <2>0, <2>1, StepOf DEF InNumber
  <2>3. r.null = v.null
    BY <1>0, <2>0
  <2> QED
    BY <2>0, <2>2, <2>3
<1>5. CASE kind = "name" /\ Inside(f, v, r, kind)
  <2>1. PICK q \in Reader :
             /\ q.st = "name" /\ q.text = v.text /\ q.got = r.got /\ ~q.null /\ ~v.null
             /\ \A c : c # "schema" \/ r.st = "name" => Step(f, r, c) = InName(f, q, c)
    BY <1>5, NameBase
  <2>2. s # "%" /\ s # "schema"
    BY <1>5 DEF FormatOK
  <2>3. Step(f, r, s) = AfterField(f, q, s)
    BY <2>1, <2>2 DEF InName
  <2>4. q.null = v.null
    BY <1>0, <2>1 DEF Reader
  <2> QED
    BY <2>1, <2>3, <2>4
<1> QED
  BY <1>1, <1>2, <1>3, <1>4, <1>5 DEF Behind

\* The end of a file name that is not a data file's.
LEMMA MarkRead ==
    ASSUME NEW f, FormatOK(f), f.esc = "fn", NEW v \in Value, NEW r \in Reader,
           Inside(f, v, r, "name")
    PROVE /\ Feed(f, r, <<"-", "schema">>).st = "done"
          /\ Feed(f, r, <<"-", "schema">>).got = Append(r.got, v)
<1>1. PICK q \in Reader :
             /\ q.st = "name" /\ q.text = v.text /\ q.got = r.got /\ ~q.null /\ ~v.null
             /\ \A c : c # "schema" \/ r.st = "name" => Step(f, r, c) = InName(f, q, c)
  BY NameBase
<1>2. Step(f, r, "-") = Goto(q, "dash")
  <2>1. f.sep = "." /\ f.end = "end"
    BY DEF FormatOK
  <2> QED
    BY <1>1, <2>1 DEF InName
<1> DEFINE p == Goto(q, "dash")
<1>3. p \in Reader /\ p.st = "dash" /\ p.text = q.text /\ p.null = q.null /\ p.got = q.got
  <2>1. p \in Reader
    BY DEF Goto, Reader, ReaderStates
  <2> QED
    BY <2>1, GotoFields
<1> HIDE DEF p
<1>4. Step(f, p, "schema") = Finish(p)
  BY <1>3, StepOf DEF AfterDash
<1>5. Feed(f, r, <<"-", "schema">>) = Finish(p)
  BY <1>2, <1>4, FeedTwo DEF p
<1>6. [null |-> p.null, text |-> p.text] = v
  BY <1>1, <1>3 DEF Value, Reader
<1> QED
  BY <1>1, <1>3, <1>5, <1>6, FinishFields
----------------------------------------------------------------------------
(* The inductive invariant *)

LEMMA FormatSymbols ==
    ASSUME NEW f \in Formats
    PROVE /\ f.quote \in Symbols /\ f.bytes \in Symbols /\ f.sep \in Symbols
          /\ f.end \in Symbols /\ f.null \in Symbols
BY DEF Symbols

LEMMA CharSymbols ==
    /\ Chars \subseteq Symbols
    /\ "%" \in Symbols /\ "-" \in Symbols /\ "schema" \in Symbols
    /\ \A c \in Chars : Hex[c][1] \in Symbols /\ Hex[c][2] \in Symbols
BY CharsAssumption DEF CharsAssumption, Symbols

LEMMA WrittenType ==
    ASSUME NEW f \in Formats, FormatOK(f), NEW n \in 1..Len(f.cols), NEW kind, kind = f.cols[n],
           NEW c \in Chars
    PROVE Written(f, kind, c) \in Seq(Symbols) /\ Len(Written(f, kind, c)) <= 4
<1>1. kind \in {"string", "bytes", "number", "name"}
  BY DEF FormatOK, AllKinds, Kinds
<1>2. c \in Symbols /\ Hex[c][1] \in Symbols /\ Hex[c][2] \in Symbols /\ "%" \in Symbols
  BY CharSymbols
<1>3. /\ <<c>> \in Seq(Symbols) /\ Len(<<c>>) <= 4
      /\ <<c, c>> \in Seq(Symbols) /\ Len(<<c, c>>) <= 4
      /\ <<Hex[c][1], Hex[c][2]>> \in Seq(Symbols) /\ Len(<<Hex[c][1], Hex[c][2]>>) <= 4
  BY <1>2
<1>4. Percent(c) \in Seq(Symbols) /\ Len(Percent(c)) <= 4
  BY <1>2 DEF Percent
<1>5. CASE kind = "string"
  <2>1. f.esc \in {"escapeSQL", "escapeCSV", "QuoteIdent", "escapeStringLiteral"}
    BY <1>5 DEF FormatOK
  <2>2. Written(f, kind, c) = EscapeText(f, c)
    BY <1>5 DEF Written
  <2>3. Written(f, kind, c) = <<c, c>> \/ Written(f, kind, c) = <<c>>
    BY <2>1, <2>2
       DEF EscapeText, escapeSQL, escapeCSV, QuoteIdent, escapeStringLiteral, Doubled
  <2> QED
    BY <2>3, <1>3
<1>6. CASE kind = "bytes" \/ kind = "number"
  <2>1. Written(f, kind, c) = <<Hex[c][1], Hex[c][2]>> \/ Written(f, kind, c) = <<c>>
    BY <1>6 DEF Written
  <2> QED
    BY <2>1, <1>3
<1>7. CASE kind = "name"
  <2>1. Written(f, kind, c) = Percent(c) \/ Written(f, kind, c) = <<c>>
    BY <1>7 DEF Written, fn, urlEscape
  <2> QED
    BY <2>1, <1>3, <1>4
<1> QED
  BY <1>1, <1>5, <1>6, <1>7

\* A write call: what it must leave for the invariant to hold after it.
LEMMA Writes ==
    ASSUME IInv, NEW ws \in {"field", "body", "sep", "done"}, NEW fs \in Seq(Value),
           NEW v \in Value, NEW t \in Seq(Symbols), Len(t) <= 4,
           InSync(fmt, ws, fs, v, Feed(fmt, rd, t)),
           fmt' = fmt, rd' = rd, w' = ws, fields' = fs, cur' = v, wire' = t
    PROVE IInv'
<1>1. TypeOK'
  BY DEF IInv, TypeOK
<1>2. InSync(fmt, w, fields, cur, Feed(fmt, rd, wire))'
  OBVIOUS
<1> QED
  BY <1>1, <1>2 DEF IInv

\* Before a write call the reader has caught up.
LEMMA CaughtUp ==
    ASSUME Consumable, IInv, wire = <<>>
    PROVE /\ FormatOK(fmt) /\ rd \in Reader /\ fmt \in Formats
          /\ fields \in Seq(Value) /\ cur \in Value
          /\ InSync(fmt, w, fields, cur, rd)
          /\ rd.got = fields
          /\ w # "done" => Len(fields) + 1 \in 1..Len(fmt.cols) /\ Len(fields) < Len(fmt.cols)
<1>1. /\ fmt \in Formats /\ rd \in Reader /\ fields \in Seq(Value) /\ cur \in Value
      /\ InSync(fmt, w, fields, cur, Feed(fmt, rd, wire))
  BY DEF IInv, TypeOK
<1>2. Feed(fmt, rd, wire) = rd
  BY FeedNil
<1>3. InSync(fmt, w, fields, cur, rd)
  BY <1>1, <1>2
<1>4. FormatOK(fmt)
  BY <1>1, FormatsOK
<1>5. rd.got = fields /\ (w # "done" => Len(fields) < Len(fmt.cols))
  BY <1>3 DEF InSync
<1>6. Len(fields) \in Nat
  BY <1>1
<1>7. Len(fmt.cols) \in Nat
  BY <1>4 DEF FormatOK
<1> QED
  BY <1>1, <1>3, <1>4, <1>5, <1>6, <1>7

LEMMA WriteNullStep == ASSUME Consumable, IInv, WriteNull PROVE IInv'
<1> DEFINE v == [null |-> TRUE, text |-> <<>>]
<1> DEFINE t == <<fmt.null>>
<1>1. wire = <<>> /\ w = "field" /\ fmt.null # "none"
  BY DEF WriteNull
<1>2. /\ FormatOK(fmt) /\ rd \in Reader /\ fmt \in Formats /\ fields \in Seq(Value)
      /\ InSync(fmt, w, fields, cur, rd) /\ rd.got = fields
      /\ Len(fields) + 1 \in 1..Len(fmt.cols) /\ Len(fields) < Len(fmt.cols)
  BY <1>1, CaughtUp
<1>3. rd.st = Fresh(fmt, fields).st /\ rd.text = <<>> /\ ~rd.null
  BY <1>1, <1>2 DEF InSync
<1>4. rd.st = "field"
  <2>1. Kind(fmt, Len(fields)) # "name"
    BY <1>1, <1>2 DEF FormatOK, Kind
  <2> QED
    BY <1>3, <2>1 DEF Fresh
<1>5. Behind(fmt, v, Feed(fmt, rd, t), fmt.cols[Len(fields) + 1]) /\ Feed(fmt, rd, t).got = rd.got
  BY <1>1, <1>2, <1>3, <1>4, NullBehind
<1>6. InSync(fmt, "sep", fields, v, Feed(fmt, rd, t))
  BY <1>2, <1>5 DEF InSync, Kind
<1>7. t \in Seq(Symbols) /\ Len(t) <= 4
  BY <1>2, FormatSymbols
<1>8. v \in Value
  BY DEF Value
<1>9. fmt' = fmt /\ rd' = rd /\ w' = "sep" /\ fields' = fields /\ cur' = v /\ wire' = t
  BY DEF WriteNull
<1> HIDE DEF v, t
<1> QED
  BY <1>2, <1>6, <1>7, <1>8, <1>9, Writes

LEMMA BeginFieldStep == ASSUME Consumable, IInv, BeginField PROVE IInv'
<1> DEFINE kind == Kind(fmt, Len(fields))
<1> DEFINE t == Opening(fmt, kind)
<1>1. wire = <<>> /\ w = "field"
  BY DEF BeginField
<1>2. /\ FormatOK(fmt) /\ rd \in Reader /\ fmt \in Formats /\ fields \in Seq(Value)
      /\ InSync(fmt, w, fields, cur, rd) /\ rd.got = fields
      /\ Len(fields) + 1 \in 1..Len(fmt.cols) /\ Len(fields) < Len(fmt.cols)
  BY <1>1, CaughtUp
<1>3. rd.st = Fresh(fmt, fields).st /\ rd.text = <<>> /\ ~rd.null
  BY <1>1, <1>2 DEF InSync
<1>4. rd.st = IF kind = "name" THEN "name" ELSE "field"
  BY <1>3 DEF Fresh
<1>5. kind = fmt.cols[Len(fields) + 1] /\ Kind(fmt, Len(rd.got)) = kind
  BY <1>2 DEF Kind
<1>6. fmt' = fmt /\ rd' = rd /\ w' = "body" /\ fields' = fields /\ cur' = Empty /\ wire' = t
  BY DEF BeginField, Opening
<1>7. t \in Seq(Symbols) /\ Len(t) <= 4
  <2>1. t = <<fmt.quote>> \/ t = <<fmt.bytes>> \/ t = <<>>
    BY DEF Opening
  <2>2. fmt.quote \in Symbols /\ fmt.bytes \in Symbols
    BY <1>2, FormatSymbols
  <2>3. /\ <<fmt.quote>> \in Seq(Symbols) /\ Len(<<fmt.quote>>) <= 4
        /\ <<fmt.bytes>> \in Seq(Symbols) /\ Len(<<fmt.bytes>>) <= 4
    BY <2>2
  <2>4. <<>> \in Seq(Symbols) /\ Len(<<>>) <= 4
    OBVIOUS
  <2> HIDE DEF t
  <2> QED
    BY <2>1, <2>3, <2>4
<1> HIDE DEF kind
<1>8. Inside(fmt, Empty, Feed(fmt, rd, t), kind) /\ Feed(fmt, rd, t).got = rd.got
  BY <1>2, <1>3, <1>4, <1>5, OpenInside
<1>9. InSync(fmt, "body", fields, Empty, Feed(fmt, rd, t))
  BY <1>2, <1>8 DEF InSync, kind
<1>10. Empty \in Value
  BY DEF Value, Empty
<1> HIDE DEF t
<1> QED
  BY <1>2, <1>6, <1>7, <1>9, <1>10, Writes

LEMMA WriteCharStep == ASSUME Consumable, IInv, NEW c \in Chars, WriteChar(c) PROVE IInv'
<1> DEFINE kind == Kind(fmt, Len(fields))
<1> DEFINE t == Written(fmt, kind, c)
<1> DEFINE v == [cur EXCEPT !.text = Append(@, c)]
<1>1. /\ wire = <<>> /\ w = "body" /\ (kind = "number" => c \in NumChars)
      /\ (fmt.esc = "fn" /\ EndsWith(cur.text, "-") => c # "schema")
  BY DEF WriteChar
<1>2. /\ FormatOK(fmt) /\ rd \in Reader /\ fmt \in Formats /\ fields \in Seq(Value)
      /\ InSync(fmt, w, fields, cur, rd) /\ rd.got = fields /\ cur \in Value
      /\ Len(fields) + 1 \in 1..Len(fmt.cols) /\ Len(fields) < Len(fmt.cols)
  BY <1>1, CaughtUp
<1>3. Inside(fmt, cur, rd, kind)
  BY <1>1, <1>2 DEF InSync
<1>5. kind = fmt.cols[Len(fields) + 1] /\ Kind(fmt, Len(rd.got)) = kind
  BY <1>2 DEF Kind
<1>6. fmt' = fmt /\ rd' = rd /\ w' = "body" /\ fields' = fields /\ cur' = v /\ wire' = t
  BY DEF WriteChar
<1> HIDE DEF kind
<1>7. t \in Seq(Symbols) /\ Len(t) <= 4
  BY <1>2, <1>5, WrittenType
<1>8. Inside(fmt, v, Feed(fmt, rd, t), kind) /\ Feed(fmt, rd, t).got = rd.got
  BY <1>1, <1>2, <1>3, <1>5, CharInside
<1>9. InSync(fmt, "body", fields, v, Feed(fmt, rd, t))
  BY <1>2, <1>8 DEF InSync, kind
<1>10. v \in Value
  <2>1. Append(cur.text, c) \in Seq(Chars)
    BY <1>2 DEF Value
  <2> QED
    BY <1>2, <2>1 DEF Value
<1> HIDE DEF t, v
<1> QED
  BY <1>2, <1>6, <1>7, <1>9, <1>10, Writes

LEMMA WriteMarkStep == ASSUME Consumable, IInv, WriteMark PROVE IInv'
<1> DEFINE v == [cur EXCEPT !.text = @ \o <<"-", "schema">>]
<1>1. wire = <<>> /\ w = "body" /\ fmt.esc = "fn" /\ Kind(fmt, Len(fields)) = "name"
  BY DEF WriteMark
<1>2. /\ FormatOK(fmt) /\ rd \in Reader /\ fmt \in Formats /\ fields \in Seq(Value)
      /\ InSync(fmt, w, fields, cur, rd) /\ rd.got = fields /\ cur \in Value
      /\ Len(fields) + 1 \in 1..Len(fmt.cols) /\ Len(fields) < Len(fmt.cols)
  BY <1>1, CaughtUp
<1>3. Inside(fmt, cur, rd, "name")
  BY <1>1, <1>2 DEF InSync
<1>6. fmt' = fmt /\ rd' = rd /\ w' = "body" /\ fields' = fields /\ cur' = v /\ wire' = fnMark
  BY DEF WriteMark
<1>7. fnMark \in Seq(Symbols) /\ Len(fnMark) <= 4
  <2>1. "-" \in Chars
    BY CharsAssumption DEF CharsAssumption
  <2> QED
    BY <2>1, CharSymbols DEF fnMark
<1>8. Inside(fmt, v, Feed(fmt, rd, fnMark), "name") /\ Feed(fmt, rd, fnMark).got = rd.got
  BY <1>1, <1>2, <1>3, MarkInside
<1>9. InSync(fmt, "body", fields, v, Feed(fmt, rd, fnMark))
  BY <1>1, <1>2, <1>8 DEF InSync
<1>10. v \in Value
  <2>1. "-" \in Chars /\ "schema" \in Chars
    BY CharsAssumption DEF CharsAssumption
  <2>2. cur.text \o <<"-", "schema">> \in Seq(Chars)
    BY <1>2, <2>1 DEF Value
  <2> QED
    BY <1>2, <2>2 DEF Value
<1> HIDE DEF v
<1> QED
  BY <1>2, <1>6, <1>7, <1>9, <1>10, Writes

LEMMA EndFieldStep == ASSUME Consumable, IInv, EndField PROVE IInv'
<1> DEFINE kind == Kind(fmt, Len(fields))
<1> DEFINE t == Closing(fmt, kind)
<1>1. wire = <<>> /\ w = "body" /\ (kind = "number" => cur.text # <<>>)
  BY DEF EndField
<1>2. /\ FormatOK(fmt) /\ rd \in Reader /\ fmt \in Formats /\ fields \in Seq(Value)
      /\ InSync(fmt, w, fields, cur, rd) /\ rd.got = fields /\ cur \in Value
      /\ Len(fields) + 1 \in 1..Len(fmt.cols) /\ Len(fields) < Len(fmt.cols)
  BY <1>1, CaughtUp
<1>3. Inside(fmt, cur, rd, kind)
  BY <1>1, <1>2 DEF InSync
<1>5. kind = fmt.cols[Len(fields) + 1]
  BY DEF Kind
<1>6. fmt' = fmt /\ rd' = rd /\ w' = "sep" /\ fields' = fields /\ cur' = cur /\ wire' = t
  BY DEF EndField, Closing
<1>7. t \in Seq(Symbols) /\ Len(t) <= 4
  <2>1. t = <<fmt.quote>> \/ t = <<>>
    BY DEF Closing
  <2>2. fmt.quote \in Symbols
    BY <1>2, FormatSymbols
  <2>3. <<fmt.quote>> \in Seq(Symbols) /\ Len(<<fmt.quote>>) <= 4
    BY <2>2
  <2>4. <<>> \in Seq(Symbols) /\ Len(<<>>) <= 4
    OBVIOUS
  <2> HIDE DEF t
  <2> QED
    BY <2>1, <2>3, <2>4
<1> HIDE DEF kind
<1>8. Behind(fmt, cur, Feed(fmt, rd, t), kind) /\ Feed(fmt, rd, t).got = rd.got
  BY <1>1, <1>2, <1>3, <1>5, CloseBehind
<1>9. InSync(fmt, "sep", fields, cur, Feed(fmt, rd, t))
  BY <1>2, <1>8 DEF InSync, kind
<1> HIDE DEF t
<1> QED
  BY <1>2, <1>6, <1>7, <1>9, Writes
\* The separator: the reader has the field and waits for the next one.
LEMMA SeparatorRead ==
    ASSUME NEW f, FormatOK(f), NEW fs \in Seq(Value), NEW v \in Value, NEW r \in Reader,
           r.got = fs, Len(fs) + 1 < Len(f.cols), Behind(f, v, r, Kind(f, Len(fs)))
    PROVE LET q == Feed(f, r, <<f.sep>>)
          IN /\ q.got = Append(fs, v) /\ q.text = <<>> /\ ~q.null
             /\ q.st = Fresh(f, Append(fs, v)).st
<1> DEFINE n == Len(fs) + 1
<1> DEFINE q == Feed(f, r, <<f.sep>>)
<1>1. Len(fs) \in Nat /\ Len(f.cols) \in Nat
  BY DEF FormatOK
<1>2. n \in 1..Len(f.cols)
  BY <1>1
<1>3. Behind(f, v, r, f.cols[n])
  BY DEF Kind
<1>4. PICK p \in Reader :
             /\ p.got = r.got /\ p.text = v.text /\ p.null = v.null
             /\ Step(f, r, f.sep) = AfterField(f, p, f.sep)
  BY <1>2, <1>3, FieldRead
<1>5. q = Fresh(f, Got(p))
  BY <1>4, FeedOne DEF AfterField
<1>6. Got(p) = Append(fs, v)
  <2>1. [null |-> p.null, text |-> p.text] = v
    BY <1>4 DEF Value
  <2> QED
    BY <1>4, <2>1 DEF Got
<1>7. q = Fresh(f, Append(fs, v))
  BY <1>5, <1>6
<1> QED
  BY <1>7 DEF Fresh

\* The end: the reader has the field and is done.
LEMMA EndRead ==
    ASSUME NEW f, FormatOK(f), NEW fs \in Seq(Value), NEW v \in Value, NEW r \in Reader,
           r.got = fs, Len(fs) < Len(f.cols), Behind(f, v, r, Kind(f, Len(fs)))
    PROVE LET q == Feed(f, r, <<f.end>>)
          IN q.got = Append(fs, v) /\ q.st = "done"
<1> DEFINE n == Len(fs) + 1
<1> DEFINE q == Feed(f, r, <<f.end>>)
<1>1. Len(fs) \in Nat /\ Len(f.cols) \in Nat
  BY DEF FormatOK
<1>2. n \in 1..Len(f.cols)
  BY <1>1
<1>3. Behind(f, v, r, f.cols[n])
  BY DEF Kind
<1>4. PICK p \in Reader :
             /\ p.got = r.got /\ p.text = v.text /\ p.null = v.null
             /\ Step(f, r, f.end) = AfterField(f, p, f.end)
  BY <1>2, <1>3, FieldRead
<1>5. q = Finish(p)
  <2>1. f.end # f.sep
    BY DEF FormatOK
  <2> QED
    BY <1>4, <2>1, FeedOne DEF AfterField
<1>6. [null |-> p.null, text |-> p.text] = v
  BY <1>4 DEF Value
<1> QED
  BY <1>4, <1>5, <1>6, FinishFields

LEMMA SeparateStep == ASSUME Consumable, IInv, Separate PROVE IInv'
<1> DEFINE fs == Append(fields, cur)
<1>1. wire = <<>> /\ w = "sep"
  BY DEF Separate
<1>2. /\ FormatOK(fmt) /\ rd \in Reader /\ fmt \in Formats /\ fields \in Seq(Value)
      /\ InSync(fmt, w, fields, cur, rd) /\ rd.got = fields /\ cur \in Value
      /\ Len(fields) + 1 \in 1..Len(fmt.cols) /\ Len(fields) < Len(fmt.cols)
  BY <1>1, CaughtUp
<1>3. Behind(fmt, cur, rd, Kind(fmt, Len(fields)))
  BY <1>1, <1>2 DEF InSync
<1>4. fmt' = fmt /\ rd' = rd /\ fields' = fs /\ cur' = cur
  BY DEF Separate
<1>5. fs \in Seq(Value) /\ Len(fs) = Len(fields) + 1
  BY <1>2
<1>6. CASE Len(fields) + 1 < Len(fmt.cols) /\ wire' = <<fmt.sep>> /\ w' = "field"
  <2> DEFINE t == <<fmt.sep>>
  <2>1. LET q == Feed(fmt, rd, t)
        IN q.got = fs /\ q.text = <<>> /\ ~q.null /\ q.st = Fresh(fmt, fs).st
    BY <1>2, <1>3, <1>6, SeparatorRead
  <2>2. InSync(fmt, "field", fs, cur, Feed(fmt, rd, t))
    BY <2>1, <1>5, <1>6 DEF InSync
  <2>3. t \in Seq(Symbols) /\ Len(t) <= 4
    BY <1>2, FormatSymbols
  <2> HIDE DEF fs, t
  <2>4. wire' = t
    BY <1>6 DEF t
  <2> QED
    BY <1>2, <1>4, <1>5, <1>6, <2>2, <2>3, <2>4, Writes
<1>7. CASE wire' = <<fmt.end>> /\ w' = "done"
  <2> DEFINE t == <<fmt.end>>
  <2>1. Feed(fmt, rd, t).got = fs /\ Feed(fmt, rd, t).st = "done"
    BY <1>2, <1>3, EndRead
  <2>2. InSync(fmt, "done", fs, cur, Feed(fmt, rd, t))
    BY <2>1 DEF InSync
  <2>3. t \in Seq(Symbols) /\ Len(t) <= 4
    BY <1>2, FormatSymbols
  <2> HIDE DEF fs, t
  <2>4. wire' = t
    BY <1>7 DEF t
  <2> QED
    BY <1>2, <1>4, <1>5, <1>7, <2>2, <2>3, <2>4, Writes
<1>8. CASE /\ fmt.esc = "fn" /\ Len(fields) + 1 < Len(fmt.cols)
           /\ wire' = <<"-", "schema">> /\ w' = "done"
  <2> DEFINE t == <<"-", "schema">>
  <2>a. Len(fmt.cols) = 3 /\ fmt.cols[1] = "name" /\ fmt.cols[2] = "name" /\ fmt.null = "none"
    BY <1>2, <1>8 DEF FormatOK
  <2>b. Len(fields) \in Nat
    BY <1>2
  <2>c. Len(fields) + 1 = 1 \/ Len(fields) + 1 = 2
    BY <1>8, <2>a, <2>b
  <2>d. Kind(fmt, Len(fields)) = "name"
    BY <2>a, <2>c DEF Kind
  <2>e. Inside(fmt, cur, rd, "name")
    BY <1>3, <2>a, <2>d DEF Behind
  <2>1. Feed(fmt, rd, t).got = fs /\ Feed(fmt, rd, t).st = "done"
    BY <1>2, <1>8, <2>e, MarkRead
  <2>2. InSync(fmt, "done", fs, cur, Feed(fmt, rd, t))
    BY <2>1 DEF InSync
  <2>3. t \in Seq(Symbols) /\ Len(t) <= 4
    BY CharSymbols
  <2> HIDE DEF fs, t
  <2>4. wire' = t
    BY <1>8 DEF t
  <2> QED
    BY <1>2, <1>4, <1>5, <1>8, <2>2, <2>3, <2>4, Writes
<1> QED
  BY <1>6, <1>7, <1>8 DEF Separate

LEMMA ReadStep == ASSUME IInv, Read PROVE IInv'
<1>1. /\ fmt \in Formats /\ rd \in Reader /\ fields \in Seq(Value) /\ cur \in Value
      /\ w \in {"field", "body", "sep", "done"} /\ wire \in Seq(Symbols) /\ Len(wire) <= 4
      /\ InSync(fmt, w, fields, cur, Feed(fmt, rd, wire))
  BY DEF IInv, TypeOK
<1>2. /\ wire # <<>> /\ rd' = Step(fmt, rd, Head(wire)) /\ wire' = Tail(wire)
      /\ fmt' = fmt /\ w' = w /\ fields' = fields /\ cur' = cur
  BY DEF Read
<1>3. Len(wire) \in Nat /\ Len(wire) # 0
  BY <1>1, <1>2, EmptySeq, Zenon
<1>4. Len(wire) \in 1..4
  <2>1. \A n \in Nat : n # 0 /\ n <= 4 => n \in 1..4
    OBVIOUS
  <2> QED
    BY <1>1, <1>3, <2>1, Zenon
<1>5. Head(wire) \in Symbols /\ Tail(wire) \in Seq(Symbols) /\ Len(Tail(wire)) <= 4
  BY <1>1, <1>2, <1>4
<1>6. Step(fmt, rd, Head(wire)) \in Reader
  BY <1>1, <1>5, StepType
<1>7. Feed(fmt, Step(fmt, rd, Head(wire)), Tail(wire)) = Feed(fmt, rd, wire)
  BY <1>1, <1>4, FeedTail
<1>8. TypeOK'
  BY <1>1, <1>2, <1>5, <1>6 DEF TypeOK
<1>9. Feed(fmt, rd, wire)' = Feed(fmt, rd, wire)
  BY <1>2, <1>7
<1>10. InSync(fmt, w, fields, cur, Feed(fmt, rd, wire))'
  BY <1>1, <1>2, <1>9
<1> QED
  BY <1>8, <1>10 DEF IInv

LEMMA InitInv == ASSUME Consumable, Init PROVE IInv
<1>1. /\ fmt \in Formats /\ w = "field" /\ fields = <<>> /\ cur = Empty /\ wire = <<>>
      /\ rd = Fresh(fmt, <<>>)
  BY DEF Init
<1>2. <<>> \in Seq(Symbols) /\ <<>> \in ReadFields /\ "none" \in Symbols
  BY DEF ReadFields, Symbols
<1>3. rd \in Reader
  BY <1>1, <1>2 DEF Fresh, Reader, ReaderStates
<1>4. Empty \in Value
  BY DEF Empty, Value
<1>5. TypeOK
  BY <1>1, <1>2, <1>3, <1>4 DEF TypeOK
<1>6. Feed(fmt, rd, wire) = rd
  BY <1>1, FeedNil
<1>7. Len(fmt.cols) \in Nat \ {0}
  BY <1>1, FormatsOK DEF FormatOK
<1>8. InSync(fmt, "field", <<>>, cur, rd)
  BY <1>1, <1>7 DEF InSync, Fresh
<1> QED
  BY <1>1, <1>5, <1>6, <1>8 DEF IInv

LEMMA InvRoundTrip == ASSUME IInv PROVE RoundTrip
<1> DEFINE r == Feed(fmt, rd, wire)
<1>1. /\ rd \in Reader /\ wire \in Seq(Symbols) /\ InSync(fmt, w, fields, cur, r)
      /\ w \in {"field", "body", "sep", "done"}
  BY DEF IInv, TypeOK
<1>2. r.st # "error"
  BY <1>1 DEF InSync, Inside, Behind, Fresh
<1>3. rd.st # "error"
  BY <1>1, <1>2, ErrorStays
<1>4. ASSUME w = "done", wire = <<>> PROVE rd.st = "done" /\ rd.got = fields
  <2>1. r = rd
    BY <1>4, FeedNil
  <2> QED
    BY <1>1, <1>4, <2>1 DEF InSync
<1> QED
  BY <1>3, <1>4 DEF RoundTrip

LEMMA NextInv == ASSUME Consumable, IInv, [Next]_vars PROVE IInv'
<1>1. CASE \E c \in Chars : WriteChar(c)
  BY <1>1, WriteCharStep
<1>2. CASE UNCHANGED vars
  <2>1. /\ fmt' = fmt /\ rd' = rd /\ w' = w /\ fields' = fields /\ cur' = cur /\ wire' = wire
    BY <1>2 DEF vars
  <2>2. TypeOK'
    BY <2>1 DEF IInv, TypeOK
  <2>3. InSync(fmt, w, fields, cur, Feed(fmt, rd, wire))'
    BY <2>1 DEF IInv
  <2> QED
    BY <2>2, <2>3 DEF IInv
<1> QED
  BY <1>1, <1>2, WriteNullStep, BeginFieldStep, WriteMarkStep, EndFieldStep, SeparateStep, ReadStep
     DEF Next

\* The reader that has caught up is always where the writer is, in every format
\* and for every alphabet, number of columns and length of a field.
THEOREM Invariant == ASSUME Consumable PROVE Spec => []IInv
<1>1. Init => IInv
  BY InitInv
<1>2. IInv /\ [Next]_vars => IInv'
  BY NextInv
<1> QED
  BY <1>1, <1>2, PTL DEF Spec

\* The type invariant: no write call puts more than four symbols on the wire.
THEOREM TypeCorrect == ASSUME Consumable PROVE Spec => []TypeOK
<1>1. IInv => TypeOK
  BY DEF IInv
<1> QED
  BY <1>1, Invariant, PTL

\* What the escaping functions write (escapeSQL, escapeCSV, QuoteIdent,
\* escapeStringLiteral, the file name templates' fn, urlEscape) is read back as the
\* fields that were written, by every reader that has no backslash escapes: not by one
\* of a target without the preamble, nor by LOAD DATA without ESCAPED BY ''.
THEOREM TextRoundTrips == ASSUME Consumable PROVE Spec => []RoundTrip
<1>1. IInv => RoundTrip
  BY InvRoundTrip
<1> QED
  BY <1>1, Invariant, PTL
=============================================================================
