------------------------------ MODULE Encoding ------------------------------
(***************************************************************************)
(* The text the dumper writes and what its reader makes of it: rows of     *)
(* INSERT statements and of CSV files, quoted names, the literals of       *)
(* session statements, file names and the user part of the DSN             *)
(* (sql_type.go, dialect.go, sql.go, consistency.go, prepare.go,           *)
(* config.go).                                                             *)
(*                                                                         *)
(* The writer chooses the fields symbol by symbol and puts the text of one *)
(* write call on the wire; the reader takes it off one symbol at a time.   *)
(* A symbol is a character, or a fixed piece of text that the reader takes *)
(* as one: the word NULL, a line terminator, the opening of a byte         *)
(* literal.  Reading what was written so far before more is written loses  *)
(* nothing: the reader is a function of the text it has consumed.          *)
(* Symbols without a name of their own here: "sq", "dq" and "bq" are the   *)
(* single, double and back quote, "bs" the backslash, "lf" the line feed,  *)
(* "hexq" and "xq" the openings of a byte literal of PostgreSQL and MySQL. *)
(***************************************************************************)
EXTENDS Naturals, Sequences

CONSTANTS
    Chars,      \* the symbols that a value may hold
    NumChars,   \* the symbols that the text of a number may hold
    Hex,        \* the two hexadecimal digits of a symbol
    CsvOptions, \* csvOption, and backslash, whether the reader takes it for an escape:
                \* [delimiter, separator, lineTerminator, nullValue, hex, backslash]
    Targets,    \* --target and --no-preamble: [dialect, preamble]
    Columns,    \* the column kinds of a row
    MaxText     \* bound: the symbols of one field

Digits == {Hex[c][1] : c \in Chars} \cup {Hex[c][2] : c \in Chars}
Kinds == {"string", "bytes", "number"}

\* The symbols that filenameEscapeRegexp matches on their own, as far as the
\* properties tell them apart, and the ones that urlEscape finds safe.
Unsafe == {"%", ".", "dq", "bs", ":", "lf"}
UrlSafe == Digits \cup {"-", "schema", "."}

ASSUME CharsAssumption ==
    /\ MaxText \in Nat
    /\ {"-", "schema", "%"} \subseteq Chars /\ "end" \notin Chars
    /\ Hex \in [Chars -> Chars \X Chars]
    /\ \A c, d \in Chars : Hex[c] = Hex[d] => c = d
    /\ Digits \cap (Unsafe \cup {"-", "schema", "sq", "@"}) = {}

ASSUME RowAssumption ==
    /\ NumChars \subseteq Chars
    /\ NumChars \cap {",", ")", "NULL", ".", "end", "none"} = {}
    /\ \A o \in CsvOptions :
          /\ o.hex \in BOOLEAN /\ o.backslash \in BOOLEAN
          /\ {o.delimiter, o.separator, o.lineTerminator, o.nullValue} \cap NumChars = {}
          /\ o.separator # o.lineTerminator
          /\ o.delimiter \notin {o.separator, o.lineTerminator, o.nullValue, "none"} \cup Digits
    /\ \A cols \in Columns : cols \in Seq(Kinds) /\ Len(cols) > 0
    /\ Targets \subseteq [dialect : {"pg", "mysql", "tidb"}, preamble : BOOLEAN]

----------------------------------------------------------------------------
(* The formats.  A field is quoted ("string"), two digits a symbol between  *)
(* quotes ("bytes"), bare ("number") or percent-escaped ("name"); min is    *)
(* the least number of fields, esc the function that escapes them.          *)

Format(esc, cols, min, quote, sep, end) ==
    [esc |-> esc, cols |-> cols, min |-> min, quote |-> quote, bytes |-> quote,
     sep |-> sep, end |-> end, null |-> "none", backslash |-> FALSE]

\* RowReceiverArr.WriteToBuffer, after the "(".  Without the preamble's
\* NO_BACKSLASH_ESCAPES a MySQL reader takes a backslash for an escape.
SqlRow(t, cols) ==
    [Format("escapeSQL", cols, Len(cols), "sq", ",", ")")
        EXCEPT !.bytes = IF t.dialect = "pg" THEN "hexq" ELSE "xq",
               !.null = "NULL",
               !.backslash = t.dialect # "pg" /\ ~t.preamble]

\* RowReceiverArr.WriteToBufferInCsv; without a hexadecimal dialect escapeCSV
\* writes bytes too.  LOAD DATA takes a backslash for an escape unless ESCAPED BY
\* says otherwise; escapeCSV leaves it as it is.
CsvRow(o, cols) ==
    [Format("escapeCSV",
            [i \in 1..Len(cols) |-> IF cols[i] = "bytes" /\ ~o.hex THEN "string" ELSE cols[i]],
            Len(cols), o.delimiter, o.separator, o.lineTerminator)
        EXCEPT !.null = o.nullValue, !.backslash = o.backslash]

\* The header line of a CSV file.
CsvHeader(o, cols) ==
    [Format("escapeCSV", [i \in 1..Len(cols) |-> "string"], Len(cols), o.delimiter,
            o.separator, o.lineTerminator) EXCEPT !.backslash = o.backslash]

\* pgQuoteQName, and QuoteQName of the two dialects: without a schema the name alone.
QName(quote) == Format("QuoteIdent", <<"string", "string">>, 1, quote, ".", "end")

\* The snapshot id in SET TRANSACTION SNAPSHOT.
SnapshotLiteral == Format("escapeStringLiteral", <<"string">>, 1, "sq", ",", "end")

\* The templates "schema" (one field), "table", "view" and "sequence" (two)
\* and "data" (three).
FileName == Format("fn", <<"name", "name", "number">>, 1, "none", ".", "end")

\* urlUserPass: without a password the user alone.  An empty schema, or an
\* empty password, that is written all the same is read back too.
UserPass == Format("urlEscape", <<"name", "name">>, 1, "none", ":", "@")

Formats ==
    {SqlRow(t, cols) : t \in Targets, cols \in Columns}
    \cup {CsvRow(o, cols) : o \in CsvOptions, cols \in Columns}
    \cup {CsvHeader(o, cols) : o \in CsvOptions, cols \in Columns}
    \cup {QName("dq"), QName("bq"), SnapshotLiteral, FileName, UserPass}

----------------------------------------------------------------------------
VARIABLES
    fmt,      \* the format in use
    w,        \* the writer: "field", "body", "sep", "done"
    fields,   \* the fields written: [null, text]
    cur,      \* the field being written
    wire,     \* text written and not yet read
    rd        \* the reader: [st, got, text, null, digit]

vars == <<fmt, w, fields, cur, wire, rd>>

Value == [null : BOOLEAN, text : Seq(Chars)]
Empty == [null |-> FALSE, text |-> <<>>]

Kind(f, n) == f.cols[n + 1]
\* The reader before a field.
Fresh(f, got) ==
    [st |-> IF Kind(f, Len(got)) = "name" THEN "name" ELSE "field",
     got |-> got, text |-> <<>>, null |-> FALSE, digit |-> "none"]

Init ==
    /\ fmt \in Formats
    /\ w = "field" /\ fields = <<>> /\ cur = Empty /\ wire = <<>>
    /\ rd = Fresh(fmt, <<>>)

----------------------------------------------------------------------------
(* The writer *)

Doubled(quote, c) == IF c = quote THEN <<c, c>> ELSE <<c>>

\* Mutants of escapeSQL and escapeCSV: the quote is not doubled; the default
\* delimiter is doubled, not the one in use.
escapeNothing(c) == <<c>>
escapeDefaultDelimiter(delimiter, c) == Doubled("dq", c)

\* One symbol of a text.
escapeSQL(c) == Doubled("sq", c)
escapeCSV(delimiter, c) == Doubled(delimiter, c)
QuoteIdent(quote, c) == Doubled(quote, c)
escapeStringLiteral(c) == Doubled("sq", c)

\* "%02X"
Percent(c) == <<"%", Hex[c][1], Hex[c][2]>>

\* A symbol that the regexp matches alone, or not at all; below "-schema", of
\* which only the first symbol changes.
fn(c) == IF c \in Unsafe THEN Percent(c) ELSE <<c>>
fnMark == <<"%", Hex["-"][1], Hex["-"][2], "schema">>
urlEscape(c) == IF c \in UrlSafe THEN <<c>> ELSE Percent(c)

EscapeText(f, c) ==
    CASE f.esc = "escapeSQL" -> escapeSQL(c)
      [] f.esc = "escapeCSV" -> escapeCSV(f.quote, c)
      [] f.esc = "QuoteIdent" -> QuoteIdent(f.quote, c)
      [] f.esc = "escapeStringLiteral" -> escapeStringLiteral(c)

\* What is written for one symbol of a field of this kind: BytesLiteral and
\* "%x" for bytes, the text itself for a number.
Written(f, kind, c) ==
    CASE kind = "string" -> EscapeText(f, c)
      [] kind = "bytes" -> <<Hex[c][1], Hex[c][2]>>
      [] kind = "number" -> <<c>>
      [] kind = "name" -> IF f.esc = "fn" THEN fn(c) ELSE urlEscape(c)

\* nullValue for a nil RawBytes.
WriteNull ==
    /\ wire = <<>> /\ w = "field" /\ fmt.null # "none"
    /\ cur' = [null |-> TRUE, text |-> <<>>]
    /\ wire' = <<fmt.null>>
    /\ w' = "sep"
    /\ UNCHANGED <<fmt, fields, rd>>

BeginField ==
    /\ wire = <<>> /\ w = "field"
    /\ cur' = Empty
    /\ wire' = CASE Kind(fmt, Len(fields)) = "string" -> <<fmt.quote>>
                 [] Kind(fmt, Len(fields)) = "bytes" -> <<fmt.bytes>>
                 [] OTHER -> <<>>
    /\ w' = "body"
    /\ UNCHANGED <<fmt, fields, rd>>

EndsWith(text, c) == text # <<>> /\ text[Len(text)] = c

\* A symbol that the regexp matches alone, or not at all.
WriteChar(c) ==
    /\ wire = <<>> /\ w = "body" /\ Len(cur.text) < MaxText
    /\ Kind(fmt, Len(fields)) = "number" => c \in NumChars
    /\ fmt.esc = "fn" /\ EndsWith(cur.text, "-") => c # "schema"
    /\ cur' = [cur EXCEPT !.text = Append(@, c)]
    /\ wire' = Written(fmt, Kind(fmt, Len(fields)), c)
    /\ UNCHANGED <<fmt, w, fields, rd>>

\* "-schema" in a name, whatever its case.
WriteMark ==
    /\ wire = <<>> /\ w = "body" /\ Len(cur.text) + 1 < MaxText
    /\ fmt.esc = "fn" /\ Kind(fmt, Len(fields)) = "name"
    /\ cur' = [cur EXCEPT !.text = @ \o <<"-", "schema">>]
    /\ wire' = fnMark
    /\ UNCHANGED <<fmt, w, fields, rd>>

EndField ==
    /\ wire = <<>> /\ w = "body"
    /\ Kind(fmt, Len(fields)) = "number" => cur.text # <<>>
    /\ wire' = IF Kind(fmt, Len(fields)) \in {"string", "bytes"} THEN <<fmt.quote>> ELSE <<>>
    /\ w' = "sep"
    /\ UNCHANGED <<fmt, fields, cur, rd>>

\* The separator before another field, or the end of the text.
Separate ==
    /\ wire = <<>> /\ w = "sep"
    /\ fields' = Append(fields, cur)
    /\ \/ /\ Len(fields) + 1 < Len(fmt.cols)
          /\ wire' = <<fmt.sep>> /\ w' = "field"
       \/ /\ Len(fields) + 1 >= fmt.min
          /\ wire' = IF fmt.esc = "fn" /\ Len(fields) + 1 < Len(fmt.cols)
                     THEN <<"-", "schema">> ELSE <<fmt.end>>
          /\ w' = "done"
    /\ UNCHANGED <<fmt, cur, rd>>

----------------------------------------------------------------------------
(* The reader: a SQL parser, a CSV parser, a loader that takes file names   *)
(* apart at the first "-schema", a URL parser.                             *)

Goto(r, st) == [r EXCEPT !.st = st]
Take(r, st, c) == [r EXCEPT !.st = st, !.text = Append(@, c)]
Digit(r, st, c) == [r EXCEPT !.st = st, !.digit = c]
Got(r) == Append(r.got, [null |-> r.null, text |-> r.text])
Finish(r) == [r EXCEPT !.st = "done", !.got = Got(r), !.text = <<>>, !.null = FALSE]
Decode(r, st, s) ==
    IF \E c \in Chars : Hex[c] = <<r.digit, s>>
    THEN Take(r, st, CHOOSE c \in Chars : Hex[c] = <<r.digit, s>>)
    ELSE Goto(r, "error")

\* After a complete field: the separator or the end.
AfterField(f, r, s) ==
    IF s = f.sep /\ Len(r.got) + 1 < Len(f.cols) THEN Fresh(f, Got(r))
    ELSE IF s = f.end THEN Finish(r) ELSE Goto(r, "error")

FirstOfField(f, r, s) ==
    LET kind == Kind(f, Len(r.got)) IN
    IF s = f.null THEN [r EXCEPT !.st = "after", !.null = TRUE]
    ELSE IF kind = "string" /\ s = f.quote THEN Goto(r, "quoted")
    ELSE IF kind = "bytes" /\ s = f.bytes THEN Goto(r, "bytes")
    ELSE IF kind = "number" /\ s \in NumChars THEN Take(r, "number", s)
    ELSE Goto(r, "error")

InString(f, r, s) ==
    IF s = f.quote THEN Goto(r, "quote")
    ELSE IF f.backslash /\ s = "bs" THEN Goto(r, "escape")
    ELSE Take(r, "quoted", s)

AfterQuote(f, r, s) == IF s = f.quote THEN Take(r, "quoted", s) ELSE AfterField(f, r, s)

InBytes(f, r, s) == IF s = f.quote THEN Goto(r, "after") ELSE Digit(r, "byte", s)

InNumber(f, r, s) == IF s \in NumChars THEN Take(r, "number", s) ELSE AfterField(f, r, s)

InName(f, r, s) ==
    IF s = "%" THEN Goto(r, "high")
    ELSE IF s \in {f.sep, f.end} THEN AfterField(f, r, s)
    ELSE IF f.esc = "fn" /\ s = "-" THEN Goto(r, "dash")
    ELSE Take(r, "name", s)

AfterDash(f, r, s) == IF s = "schema" THEN Finish(r) ELSE InName(f, Take(r, "name", "-"), s)

FieldStep(f, r, s) ==
    CASE r.st = "field" -> FirstOfField(f, r, s)
      [] r.st = "quoted" -> InString(f, r, s)
      [] r.st = "escape" -> Take(r, "quoted", s)
      [] r.st = "quote" -> AfterQuote(f, r, s)
      [] r.st = "bytes" -> InBytes(f, r, s)
      [] r.st = "byte" -> Decode(r, "bytes", s)
      [] r.st = "number" -> InNumber(f, r, s)
      [] r.st = "after" -> AfterField(f, r, s)

NameStep(f, r, s) ==
    CASE r.st = "name" -> InName(f, r, s)
      [] r.st = "high" -> Digit(r, "low", s)
      [] r.st = "low" -> Decode(r, "name", s)
      [] r.st = "dash" -> AfterDash(f, r, s)

Step(f, r, s) ==
    CASE r.st \in {"name", "high", "low", "dash"} -> NameStep(f, r, s)
      [] r.st \in {"done", "error"} -> Goto(r, "error")
      [] OTHER -> FieldStep(f, r, s)

Read ==
    /\ wire # <<>>
    /\ rd' = Step(fmt, rd, Head(wire))
    /\ wire' = Tail(wire)
    /\ UNCHANGED <<fmt, w, fields, cur>>

Next ==
    \/ WriteNull \/ BeginField \/ WriteMark \/ EndField \/ Separate \/ Read
    \/ \E c \in Chars : WriteChar(c)

Spec == Init /\ [][Next]_vars

----------------------------------------------------------------------------
ReaderStates ==
    {"field", "quoted", "escape", "quote", "bytes", "byte", "number", "after",
     "name", "high", "low", "dash", "done", "error"}

Symbols ==
    Chars \cup {"none"} \cup UNION {{f.quote, f.bytes, f.sep, f.end, f.null} : f \in Formats}

ReadFields == Seq([null : BOOLEAN, text : Seq(Symbols)])
Reader ==
    [st : ReaderStates, got : ReadFields, text : Seq(Symbols), null : BOOLEAN, digit : Symbols]

TypeOK ==
    /\ fmt \in Formats
    /\ w \in {"field", "body", "sep", "done"}
    /\ fields \in Seq(Value)
    /\ cur \in Value
    /\ wire \in Seq(Symbols) /\ Len(wire) <= 4
    /\ rd \in Reader

\* What is read is what was written (escapeSQL, escapeCSV, QuoteIdent, urlEscape): after
\* the end of the text the reader holds the fields of the writer, NULL, empty and quoted
\* ones told apart, and meets no text it cannot take. It holds for readers that have no
\* backslash escapes, and fails for the others, in SQL and in CSV.
RoundTrip ==
    /\ rd.st # "error"
    /\ w = "done" /\ wire = <<>> => rd.st = "done" /\ rd.got = fields

\* The reader after it has read t, at most four symbols.
Feed(f, r, t) ==
    LET r1 == IF Len(t) >= 1 THEN Step(f, r, t[1]) ELSE r
        r2 == IF Len(t) >= 2 THEN Step(f, r1, t[2]) ELSE r1
        r3 == IF Len(t) >= 3 THEN Step(f, r2, t[3]) ELSE r2
    IN IF Len(t) >= 4 THEN Step(f, r3, t[4]) ELSE r3

\* The reader r is inside the field that the writer is in, with the text of v;
\* an unescaped "-" of a file name is not taken before the next symbol is known.
Inside(f, v, r, kind) ==
    /\ ~r.null /\ ~v.null
    /\ \/ kind = "string" /\ r.st = "quoted" /\ r.text = v.text
       \/ kind = "bytes" /\ r.st = "bytes" /\ r.text = v.text
       \/ kind = "number" /\ r.st = "number" /\ r.text = v.text
       \/ kind = "number" /\ r.st = "field" /\ r.text = <<>> /\ v.text = <<>>
       \/ kind = "name" /\ r.st = "name" /\ r.text = v.text
       \/ kind = "name" /\ r.st = "dash" /\ f.esc = "fn" /\ Append(r.text, "-") = v.text

\* The reader has all of the field v and waits for a separator or the end.
Behind(f, v, r, kind) ==
    \/ f.null # "none" /\ r.null /\ v.null /\ r.st = "after" /\ r.text = v.text
    \/ kind = "number" /\ v.text # <<>> /\ Inside(f, v, r, kind)
    \/ kind = "name" /\ Inside(f, v, r, kind)
    \/ /\ ~r.null /\ ~v.null /\ r.text = v.text
       /\ \/ kind = "string" /\ r.st = "quote"
          \/ kind = "bytes" /\ r.st = "after"

InSync(f, ws, fs, v, r) ==
    /\ r.got = fs
    /\ ws # "done" => Len(fs) < Len(f.cols)
    /\ ws = "field" => r.st = Fresh(f, fs).st /\ r.text = <<>> /\ ~r.null
    /\ ws = "body" => Inside(f, v, r, Kind(f, Len(fs)))
    /\ ws = "sep" => Behind(f, v, r, Kind(f, Len(fs)))
    /\ ws = "done" => r.st = "done"

\* The reader that has caught up is where the writer is: the inductive invariant.
IInv == TypeOK /\ InSync(fmt, w, fields, cur, Feed(fmt, rd, wire))
=============================================================================
