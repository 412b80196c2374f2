-------------------------- MODULE MCTableSelection --------------------------
(* Small instances of TableSelection for TLC. *)
EXTENDS TableSelection

\* Two names that differ in case only, another one, and a system schema.
MCNames == {"a", "A", "b", "sys"}
MCLower == [n \in MCNames |-> IF n = "A" THEN "a" ELSE n]
MCSystem == {"sys"}

Star == [true |-> TRUE, plain |-> MCNames, folded |-> MCNames]
Literal(n) == [true |-> FALSE, plain |-> {n}, folded |-> {MCLower[n]}]
\* The regexp /./, which matches every name of one letter.
OneLetter == [true |-> FALSE, plain |-> {"a", "A", "b"}, folded |-> {"a", "b"}]

MCRules ==
    [schema : {Star, Literal("A")}, table : {Star, Literal("A"), OneLetter}, positive : BOOLEAN]

RuleLists == UNION {[1..n -> MCRules] : n \in 0..2}

Rel(s, n, k) == [schema |-> s, name |-> n, kind |-> k]
MCCatalogs ==
    {[schemas |-> {"A", "b", "sys"},
      relations |-> {Rel("A", "A", "r"), Rel("A", "b", "v"), Rel("b", "A", "m"),
                     Rel("b", "b", "p"), Rel("sys", "A", "r"), Rel("A", "a", "S")}],
     [schemas |-> {"a", "A", "sys"},
      relations |-> {Rel("a", "a", "p"), Rel("A", "b", "i"), Rel("sys", "a", "r")}],
     [schemas |-> {"b", "sys"}, relations |-> {Rel("b", "a", "v")}]}

MCInputs ==
    [rules : RuleLists, default : {FALSE}, specified : {<<>>}, caseSensitive : BOOLEAN,
     repeatable : BOOLEAN, NoViews : BOOLEAN, NoSequences : BOOLEAN,
     DumpEmptyDatabase : BOOLEAN]
    \cup
    [rules : {<<[schema |-> Star, table |-> Star, positive |-> TRUE]>>}, default : BOOLEAN,
     specified : {<<<<"A", "A">>>>, <<<<"b", "A">>, <<"A", "A">>, <<"b", "b">>, <<"b", "A">>>>},
     caseSensitive : {FALSE}, repeatable : BOOLEAN, NoViews : {TRUE}, NoSequences : {TRUE},
     DumpEmptyDatabase : {TRUE}]
=============================================================================
