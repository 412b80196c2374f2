------------------------------- MODULE MCDump -------------------------------
(* Small instances of Dump for TLC. *)
EXTENDS Dump

MCTableNames == {"t", "v"}

Base(name, n, ctid) == [name |-> name, type |-> "base", chunks |-> n, ctid |-> ctid]
View(name) == [name |-> name, type |-> "view", chunks |-> 1, ctid |-> FALSE]

\* A table of two chunks.
MCSchemas == {"s"}
MCTablesOf == [s \in MCSchemas |-> <<Base("t", 2, FALSE)>>]

\* A view, and a table split by ctid.
MCTablesOf3 == [s \in MCSchemas |-> <<View("v"), Base("t", 2, TRUE)>>]

Default == [Consistency |-> "snapshot", Snapshot |-> "unset", TransactionalConsistency |-> TRUE,
            CDCSlot |-> FALSE, CDCCleanupOnFailure |-> TRUE, NoSchemas |-> FALSE,
            NoData |-> FALSE, SQL |-> FALSE]
Cdc == [Default EXCEPT !.CDCSlot = TRUE]

\* The consistency and CDC options, all combinations.
ConsistencyConfigs ==
    {[Default EXCEPT !.Consistency = c, !.Snapshot = s, !.TransactionalConsistency = t,
                     !.CDCSlot = d, !.CDCCleanupOnFailure = d] :
        c \in {"snapshot", "none"}, s \in {"unset", "user"}, t \in BOOLEAN, d \in BOOLEAN}
FaultConfigs == ConsistencyConfigs \cup
    {[Default EXCEPT !.Consistency = c, !.TransactionalConsistency = FALSE, !.NoSchemas = TRUE,
                     !.SQL = x] : c \in {"snapshot", "none"}, x \in BOOLEAN}
CdcConfigs == {Cdc}

DefaultDataOnly == {[Default EXCEPT !.NoSchemas = TRUE]}

\* What is dumped; with connections that cannot be rebuilt, and in the last that can.
ModeConfigs ==
    {Cdc, [Cdc EXCEPT !.NoSchemas = TRUE], [Cdc EXCEPT !.NoData = TRUE], [Cdc EXCEPT !.SQL = TRUE],
     [Default EXCEPT !.NoSchemas = TRUE, !.TransactionalConsistency = FALSE]}
=============================================================================
