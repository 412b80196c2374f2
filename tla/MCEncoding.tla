----------------------------- MODULE MCEncoding -----------------------------
(* A small instance of Encoding for TLC. *)
EXTENDS Encoding, SequencesExt

\* The symbols the formats treat specially, and plain ones: with four digits
\* in place of sixteen they have a code of two digits each.
Plain == <<"0", "1", "2", "3">>
Special == <<"sq", "dq", "bq", "bs", ",", ".", "%", "-", "schema", "lf", ":">>
MCChars == ToSet(Plain \o Special)
MCNumChars == {"1"}
MCHex ==
    [c \in MCChars |-> LET i == (CHOOSE j \in 1..15 : (Special \o Plain)[j] = c) - 1 IN
                        <<Plain[(i \div 4) + 1], Plain[(i % 4) + 1]>>]

\* Readers without backslash escapes: LOAD DATA with ESCAPED BY '', or a parser that
\* knows the quote only.
MCCsvOptions ==
    {[delimiter |-> "dq", separator |-> ",", lineTerminator |-> "lf", nullValue |-> "bs",
      hex |-> TRUE, backslash |-> FALSE],
     [delimiter |-> "sq", separator |-> ".", lineTerminator |-> "lf", nullValue |-> "NULL",
      hex |-> FALSE, backslash |-> FALSE]}
\* The default options, read by LOAD DATA with its default escape character.
MCLoadData == {[o EXCEPT !.backslash = TRUE] : o \in {p \in MCCsvOptions : p.delimiter = "dq"}}
MCColumns == {<<"string", "string">>, <<"number", "bytes">>}

\* Readers without backslash escapes, and TiDB's default, which leaves them on.
MCTargets == {[dialect |-> d, preamble |-> TRUE] : d \in {"pg", "mysql"}}
             \cup {[dialect |-> "pg", preamble |-> FALSE]}
MCTidb == {[dialect |-> "tidb", preamble |-> FALSE]}
=============================================================================
