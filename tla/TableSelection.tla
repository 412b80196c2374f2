--------------------------- MODULE TableSelection ---------------------------
(***************************************************************************)
(* How the tables to dump are chosen: the rules of --filter are parsed and *)
(* folded (ParseTableFilter, table-filter), and prepareTableListToDump     *)
(* asks the catalogue for the schemas and then for the relations, while    *)
(* other sessions may be changing it.                                      *)
(*                                                                         *)
(* A matcher is modelled by the names it matches, as written and after     *)
(* toLower; the syntax of patterns and the regexp engine are left out.     *)
(***************************************************************************)
EXTENDS Integers, SequencesExt

CONSTANTS
    Names,        \* names a schema or a relation may have
    Lower,        \* strings.ToLower on Names
    System,       \* the schemas ShowDatabases leaves out
    Catalogs,     \* what pg_namespace and pg_class may hold
    Inputs        \* the options a behaviour may start with

\* true: the * pattern, the only matcher for which matchAllStrings holds.
\* folded: the lower-case names the matcher accepts once toLower is applied.
Matcher == [true : BOOLEAN, plain : SUBSET Names, folded : SUBSET Names]

Rule == [schema : Matcher, table : Matcher, positive : BOOLEAN]

Kinds == {"r", "p", "v", "m", "S", "i"}
Types == {"base", "view", "sequence"}
Relation == [schema : Names, name : Names, kind : Kinds]

\* entry: which item of --tables-list the entry of conf.Tables comes from, 0 if it was
\* found in the catalogue. A table that is named twice has two entries.
TableInfo == [schema : Names, name : Names, type : Types, entry : Nat]
Catalog == [schemas : SUBSET Names, relations : SUBSET Relation]

\* rules: --filter in the order given, default when it is not. specified: --tables-list.
\* repeatable: the meta connection reads one snapshot.
Input == [rules : Seq(Rule), default : BOOLEAN, specified : Seq(Names \X Names),
          caseSensitive : BOOLEAN, repeatable : BOOLEAN, NoViews : BOOLEAN,
          NoSequences : BOOLEAN, DumpEmptyDatabase : BOOLEAN]

\* Within one schema the name of a relation is unique, and its schema exists.
ASSUME SelectionAssumption ==
    /\ Lower \in [Names -> Names]
    /\ System \subseteq Names
    /\ Catalogs \subseteq Catalog
    /\ \A c \in Catalogs : \A x \in c.relations :
          /\ x.schema \in c.schemas
          /\ \A y \in c.relations : x.schema = y.schema /\ x.name = y.name => x = y
    /\ Inputs \subseteq Input
    /\ \A i \in Inputs : \A k \in DOMAIN i.rules :
          \A m \in {i.rules[k].schema, i.rules[k].table} :
              m.true => m.plain = Names /\ m.folded = Names

VARIABLES
    in,           \* the options, fixed by the first state
    catalog,      \* the catalogue as committed now
    snapshot,     \* the catalogue as of the snapshot of the meta connection
    pc,           \* next step
    filter,       \* conf.TableFilter: the rules, last one first
    databases,    \* the schemas prepareDumpingDatabases returns
    keys,         \* the schemas conf.Tables has an entry for
    tables,       \* the entries of conf.Tables
    result        \* what the call returns

vars == <<in, catalog, snapshot, pc, filter, databases, keys, tables, result>>
-----------------------------------------------------------------------------
(* internal/table-filter *)

matchString(m, n) ==
    IF in.caseSensitive THEN n \in m.plain ELSE Lower[n] \in m.folded

\* The verdict of the first rule among those at the positions hits.
FirstPositive(f, hits) == \E i \in hits : f[i].positive /\ \A j \in hits : i <= j

TableHits(f, s, t) ==
    {i \in DOMAIN f : matchString(f[i].schema, s) /\ matchString(f[i].table, t)}

MatchTable(f, s, t) == FirstPositive(f, TableHits(f, s, t))

\* A rule that denies only some tables does not decide about the schema.
SchemaHits(f, s) ==
    {i \in DOMAIN f : matchString(f[i].schema, s) /\ (f[i].positive \/ f[i].table.true)}

\* Mutant of MatchSchema: every rule for the schema decides about it.
MatchSchemaAnyRule(f, s) ==
    FirstPositive(f, {i \in DOMAIN f : matchString(f[i].schema, s)})

MatchSchema(f, s) == FirstPositive(f, SchemaHits(f, s))

\* Mutant of FilterOrder: the rules are tried in the order given.
FilterAsGiven(rules) == rules

FilterOrder(rules) == Reverse(rules)
-----------------------------------------------------------------------------
(* What the catalogue queries return. *)

Sees == IF in.repeatable THEN snapshot ELSE catalog

TypeOf(kind) ==
    CASE kind \in {"v", "m"} -> "view"
      [] kind = "S" -> "sequence"
      [] OTHER -> "base"

Info(x) == [schema |-> x.schema, name |-> x.name, type |-> TypeOf(x.kind), entry |-> 0]

tableTypes ==
    {"base"} \cup (IF in.NoViews THEN {} ELSE {"view"})
             \cup (IF in.NoSequences THEN {} ELSE {"sequence"})

\* The relations of the schemas dbs that are tables or views.
ListedIn(c, dbs) ==
    {Info(x) : x \in {r \in c.relations : r.schema \in dbs /\ r.kind \in {"r", "p", "v", "m"}}}

\* The entry of conf.Tables for item i of --tables-list.
Named(i, type) ==
    [schema |-> in.specified[i][1], name |-> in.specified[i][2], type |-> type, entry |-> i]

\* GetConfTables: every item is appended, as a base table.
ConfTables == {Named(i, "base") : i \in DOMAIN in.specified}

\* The relations of that schema and name: at most one.
Found(p) == {x \in Sees.relations : x.schema = p[1] /\ x.name = p[2]}

\* Mutant of SpecifiedType: a relation of the same name in another schema decides the type.
SpecifiedTypeByName(p) ==
    LET found == {x \in Sees.relations : x.name = p[2]}
    IN IF found = {} THEN "base" ELSE TypeOf((CHOOSE x \in found : TRUE).kind)

\* A table that is not in the catalogue stays a base table.
SpecifiedType(p) == IF Found(p) = {} THEN "base" ELSE TypeOf((CHOOSE x \in Found(p) : TRUE).kind)

Specified == {Named(i, SpecifiedType(in.specified[i])) : i \in DOMAIN in.specified}

Return(e) == pc' = "done" /\ result' = e
-----------------------------------------------------------------------------
Init ==
    /\ in \in Inputs
    /\ catalog \in Catalogs
    /\ snapshot = catalog
    /\ pc = "parse" /\ filter = <<>> /\ databases = {} /\ keys = {} /\ tables = {}
    /\ result = "nil"

\* GetConfTables and ParseTableFilter; --tables-list excludes --filter.
ParseTableFilter ==
    /\ pc = "parse"
    /\ IF in.specified = <<>>
       THEN filter' = FilterOrder(in.rules) /\ pc' = "schemas" /\ UNCHANGED <<keys, tables, result>>
       ELSE IF in.default
       THEN /\ keys' = {t.schema : t \in ConfTables}
            /\ tables' = ConfTables
            /\ pc' = "specified"
            /\ UNCHANGED <<filter, result>>
       ELSE Return("fail") /\ UNCHANGED <<filter, keys, tables>>
    /\ UNCHANGED <<in, catalog, snapshot, databases>>

\* updateSpecifiedTablesMeta.
UpdateSpecifiedTablesMeta ==
    /\ pc = "specified"
    /\ tables' = Specified
    /\ Return("nil")
    /\ UNCHANGED <<in, catalog, snapshot, filter, databases, keys>>

\* Mutant of ShownSchemas: the system schemas are left to the rules.
ShownSchemasAll == Sees.schemas

\* ShowDatabases.
ShownSchemas == Sees.schemas \ System

\* prepareDumpingDatabases: ShowDatabases, then filterDatabases.
PrepareDumpingDatabases ==
    /\ pc = "schemas"
    /\ databases' = {s \in ShownSchemas : MatchSchema(filter, s)}
    /\ pc' = "list"
    /\ UNCHANGED <<in, catalog, snapshot, filter, keys, tables, result>>

\* ListAllDatabasesTables.
ListAllDatabasesTables ==
    /\ pc = "list"
    /\ keys' = databases
    /\ tables' = {t \in ListedIn(Sees, databases) : t.type \in tableTypes}
    /\ pc' = "filter"
    /\ UNCHANGED <<in, catalog, snapshot, filter, databases, result>>

\* The tables filterTablesFunc keeps, and the entries its map ends with.
Kept == {t \in tables : MatchTable(filter, t.schema, t.name)}

\* Mutant of KeptKeys: only schemas with a table get an entry.
KeptKeysOfTables == {t.schema : t \in Kept}

KeptKeys ==
    {t.schema : t \in Kept}
    \cup (IF in.DumpEmptyDatabase THEN {s \in keys : MatchSchema(filter, s)} ELSE {})

FilterTables ==
    /\ pc = "filter"
    /\ tables' = Kept
    /\ keys' = KeptKeys
    /\ Return("nil")
    /\ UNCHANGED <<in, catalog, snapshot, filter, databases>>

\* Each of the three catalogue queries may fail.
QueryFails ==
    /\ pc \in {"specified", "schemas", "list"}
    /\ Return("fail")
    /\ UNCHANGED <<in, catalog, snapshot, filter, databases, keys, tables>>

\* Another session commits a change of the catalogue.
OtherDDL ==
    /\ pc # "done"
    /\ catalog' \in Catalogs
    /\ UNCHANGED <<in, snapshot, pc, filter, databases, keys, tables, result>>

Next ==
    \/ ParseTableFilter \/ UpdateSpecifiedTablesMeta \/ PrepareDumpingDatabases
    \/ ListAllDatabasesTables \/ FilterTables \/ QueryFails \/ OtherDDL

Spec == Init /\ [][Next]_vars
-----------------------------------------------------------------------------
\* The state variables have their types.
TypeOK ==
    /\ in \in Inputs
    /\ catalog \in Catalogs /\ snapshot \in Catalogs
    /\ pc \in {"parse", "specified", "schemas", "list", "filter", "done"}
    /\ filter \in Seq(Rule)
    /\ databases \subseteq Names /\ keys \subseteq Names
    /\ tables \subseteq TableInfo
    /\ result \in {"nil", "fail"}

Succeeded == pc = "done" /\ result = "nil"

\* What the user asks for: the last rule given that matches s.t accepts it.
Accepts(s, t) ==
    \E i \in DOMAIN in.rules :
        /\ in.rules[i].positive
        /\ matchString(in.rules[i].schema, s) /\ matchString(in.rules[i].table, t)
        /\ \A j \in DOMAIN in.rules :
              matchString(in.rules[j].schema, s) /\ matchString(in.rules[j].table, t) => j <= i

Asked(t) == t.type \in tableTypes /\ Accepts(t.schema, t.name)

\* The kinds of relation that the flags name: tables, and unless --no-views or
\* --no-sequences is on, views and sequences.
WantedKinds ==
    {"r", "p"} \cup (IF in.NoViews THEN {} ELSE {"v", "m"})
               \cup (IF in.NoSequences THEN {} ELSE {"S"})

\* The relations of the snapshot that --filter and the type flags ask for.
Wanted ==
    {x \in snapshot.relations :
        x.schema \notin System /\ x.kind \in WantedKinds /\ Accepts(x.schema, x.name)}

\* On a snapshot, filterDatabases and filterTables together select exactly the
\* tables and views the last matching rule accepts: leaving out a schema by
\* MatchSchema never loses a table MatchTable would have kept. Sequences are wanted
\* with --no-sequences=false and never selected (ListAllDatabasesTables, sql.go:248),
\* so the claim is about the other relations, and that there is no sequence.
SelectionExact ==
    Succeeded /\ in.specified = <<>> /\ in.repeatable =>
        tables = {Info(x) : x \in {y \in Wanted : y.kind # "S"}}

\* With or without a snapshot, whatever other sessions do to the catalogue between
\* the two queries, filterTables leaves no table the user did not ask for, nor one
\* of a system schema, and its schema has an entry in conf.Tables.
NothingUnasked ==
    Succeeded /\ in.specified = <<>> =>
        \A t \in tables : Asked(t) /\ t.schema \notin System /\ t.schema \in keys

\* --dump-empty-database: on a snapshot, every schema for which some name of a
\* table would be accepted gets its CREATE SCHEMA, though it hold no table; without the
\* flag (filterTablesFunc) only the schemas of selected tables do.
EmptySchemasDumped ==
    Succeeded /\ in.specified = <<>> /\ in.repeatable =>
        IF in.DumpEmptyDatabase
        THEN \A s \in snapshot.schemas \ System : (\E t \in Names : Accepts(s, t)) => s \in keys
        ELSE keys = {t.schema : t \in tables}

\* --tables-list: conf.Tables has one entry for every item of the list, a second one for a
\* table that is named twice, each as what it is in its own schema whatever a relation of
\* the same name is elsewhere; a name that does not exist is dumped as a base table
\* (updateSpecifiedTablesMeta), to fail later.
SpecifiedExact ==
    Succeeded /\ in.specified # <<>> /\ in.repeatable =>
        /\ {<<t.entry, t.schema, t.name>> : t \in tables}
               = {<<i, in.specified[i][1], in.specified[i][2]>> : i \in DOMAIN in.specified}
        /\ \A t \in tables : \A x \in snapshot.relations :
              x.schema = t.schema /\ x.name = t.name => t.type = TypeOf(x.kind)
        /\ \A t \in tables :
              t.type # "base" => \E x \in snapshot.relations : x.schema = t.schema /\ x.name = t.name

\* The inductive invariant behind the properties above. The first four parts
\* say what each step of prepareTableListToDump hands to the next one.
Parsed ==
    /\ pc \in {"schemas", "list", "filter"} =>
          in.specified = <<>> /\ filter = FilterOrder(in.rules)
    /\ pc = "specified" => in.specified # <<>>

SchemasFiltered ==
    pc \in {"list", "filter"} =>
        /\ databases \cap System = {}
        /\ in.repeatable =>
              databases = {s \in snapshot.schemas \ System : MatchSchema(filter, s)}

ListComplete ==
    pc = "filter" =>
        /\ keys = databases
        /\ \A t \in tables : t.schema \in databases /\ t.type \in tableTypes
        /\ in.repeatable =>
              tables = {t \in ListedIn(snapshot, databases) : t.type \in tableTypes}

\* Inductive: each step of prepareTableListToDump hands exactly what was asked for to the next.
IInv ==
    /\ TypeOK /\ Parsed /\ SchemasFiltered /\ ListComplete
    /\ SelectionExact /\ NothingUnasked /\ EmptySchemasDumped /\ SpecifiedExact
=============================================================================
