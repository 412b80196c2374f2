------------------------------ MODULE MCDumper ------------------------------
(* Small instances of Dumper for TLC. *)
EXTENDS Dumper, TLC

\* The defaults of DefineFlags.
Default ==
    [threads |-> 1, csvSeparator |-> "comma", tablesList |-> "empty", filter |-> "unset", fileSize |-> "empty",
     sql |-> FALSE, where |-> FALSE, fileType |-> "empty", compress |-> "empty", csvDialect |-> "empty",
     target |-> "empty", cdcSlot |-> "empty", noPreamble |-> "unset", params |-> FALSE,
     consistency |-> "auto", snapshot |-> "empty", cert |-> FALSE, key |-> FALSE,
     statusAddr |-> TRUE, noData |-> TRUE]

\* Every value of every flag, alone.
Single ==
    {[Default EXCEPT !.threads = 0], [Default EXCEPT !.csvSeparator = "empty"]}
    \cup {[Default EXCEPT !.tablesList = x] : x \in {"tables", "bad"}}
    \cup {[Default EXCEPT !.filter = x] : x \in {"rules", "bad"}}
    \cup {[Default EXCEPT !.fileSize = x] : x \in {"size", "bad"}}
    \cup {[Default EXCEPT !.compress = x] : x \in {"gzip", "bad"}}
    \cup {[Default EXCEPT !.target = x] : x \in {"pg", "mysql", "tidb", "bad"}}
    \cup {[Default EXCEPT !.params = TRUE]}
    \cup {[Default EXCEPT !.cdcSlot = x] : x \in {"slot", "bad"}}
    \cup {[Default EXCEPT !.cert = x, !.key = y, !.statusAddr = FALSE] : x, y \in BOOLEAN}

\* Flags that depend on each other.
Together ==
    {[Default EXCEPT !.sql = s, !.where = w, !.fileType = t] :
        s, w \in BOOLEAN, t \in {"empty", "sql", "csv", "CSV", "bad"}}
    \cup {[Default EXCEPT !.fileType = t, !.csvDialect = d] :
            t \in {"empty", "sql", "csv", "CSV", "bad"}, d \in {"snowflake", "bad"}}
    \cup {[Default EXCEPT !.consistency = c, !.snapshot = s] :
            c \in {"snapshot", "none", "bad"}, s \in {"empty", "token"}}
    \cup {[Default EXCEPT !.target = "tidb", !.noPreamble = "FALSE"],
          [Default EXCEPT !.tablesList = "tables", !.filter = "rules"]}

\* The dump with data is the one of the properties about GetStatus.
MCOptions == Single \cup Together \cup {[Default EXCEPT !.noData = FALSE]}

\* Bound: the third attempt is left to the first dumper.
FewerLater == life > 1 => attempts <= 2

MCSymmetry == Permutations(Writers)
=============================================================================
