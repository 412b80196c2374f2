------------------------ MODULE TableSelectionProofs ------------------------
(* Proofs about TableSelection, for every list of rules and every catalogue. *)
EXTENDS TableSelection, WellFoundedInduction, TLAPS

\* A nonempty set of natural numbers has a least element.
LEMMA LeastElement ==
    ASSUME NEW S \in SUBSET Nat, S # {}
    PROVE  \E i \in S : \A j \in S : i <= j
  <1>1. PICK i \in S : \A j \in S : ~ (<<j, i>> \in OpToRel(<, Nat))
    BY NatLessThanWellFounded, WFMin, Zenon
  <1>2. ASSUME NEW j \in S PROVE i <= j
    <2>1. ~ (<<j, i>> \in OpToRel(<, Nat))  BY <1>1, Zenon
    <2>2. i \in Nat /\ j \in Nat  OBVIOUS
    <2>3. ~ (j < i)  BY <2>1, <2>2, Zenon DEF OpToRel
    <2> QED BY <2>2, <2>3
  <1> QED BY <1>2

\* The condition on matchers, carried by a rule list: * matches every name.
StarMatchesAll(f) == \A i \in DOMAIN f : f[i].table.true =>
                        f[i].table.plain = Names /\ f[i].table.folded = Names

\* filterDatabases loses nothing: a schema with a table MatchTable accepts is
\* itself accepted by MatchSchema.
LEMMA SchemaOfMatchingTable ==
    ASSUME SelectionAssumption, NEW f \in Seq(Rule), StarMatchesAll(f),
           NEW s \in Names, NEW t \in Names, MatchTable(f, s, t)
    PROVE  MatchSchema(f, s)
  <1>1. PICK i \in TableHits(f, s, t) : f[i].positive /\ \A j \in TableHits(f, s, t) : i <= j
    BY DEF MatchTable, FirstPositive
  <1>2. i \in SchemaHits(f, s)  BY <1>1 DEF TableHits, SchemaHits
  <1>3. SchemaHits(f, s) \in SUBSET Nat  BY DEF SchemaHits
  <1>4. PICK k \in SchemaHits(f, s) : \A j \in SchemaHits(f, s) : k <= j
    BY <1>2, <1>3, LeastElement
  <1>5. f[k].positive
    <2>1. CASE ~f[k].positive
      <3>1. f[k].table.true /\ k \in DOMAIN f /\ matchString(f[k].schema, s)
        BY <2>1 DEF SchemaHits
      <3>2. matchString(f[k].table, t)
        BY <3>1 DEF StarMatchesAll, matchString, SelectionAssumption
      <3>3. i <= k  BY <1>1, <3>1, <3>2 DEF TableHits
      <3>4. k <= i  BY <1>2, <1>4
      <3>5. i = k  BY <1>2, <1>3, <3>3, <3>4
      <3> QED BY <1>1, <2>1, <3>5
    <2> QED BY <2>1
  <1> QED BY <1>4, <1>5 DEF MatchSchema, FirstPositive

\* Trying the reversed rules first to last is letting the last rule given decide.
LEMMA LastRuleDecides ==
    ASSUME NEW s, NEW t, in.rules \in Seq(Rule)
    PROVE  MatchTable(FilterOrder(in.rules), s, t) <=> Accepts(s, t)
  <1> DEFINE n == Len(in.rules)
             f == FilterOrder(in.rules)
             Hit(r) == matchString(r.schema, s) /\ matchString(r.table, t)
  <1>1. n \in Nat /\ DOMAIN in.rules = 1..n  OBVIOUS
  <1>2. DOMAIN f = 1..n /\ \A i \in 1..n : f[i] = in.rules[(n - i) + 1]
    BY <1>1 DEF FilterOrder, Reverse
  <1> HIDE DEF f, n, Hit
  <1>3. \A i \in 1..n : (n - i) + 1 \in 1..n /\ (n - ((n - i) + 1)) + 1 = i  BY <1>1
  <1>4. ASSUME MatchTable(f, s, t) PROVE Accepts(s, t)
    <2>1. PICK i \in 1..n : f[i].positive /\ Hit(f[i]) /\ \A j \in 1..n : Hit(f[j]) => i <= j
      BY <1>2, <1>4 DEF MatchTable, FirstPositive, TableHits, Hit
    <2>2. PICK k \in 1..n : k = (n - i) + 1  BY <1>3
    <2>3. in.rules[k].positive /\ Hit(in.rules[k])  BY <1>2, <2>1, <2>2
    <2>4. ASSUME NEW j \in 1..n, Hit(in.rules[j]) PROVE j <= k
      <3>1. PICK l \in 1..n : l = (n - j) + 1  BY <1>3
      <3>2. f[l] = in.rules[j]  BY <1>2, <1>3, <3>1
      <3>3. i <= l  BY <2>1, <2>4, <3>2
      <3> QED BY <1>1, <2>2, <3>1, <3>3
    <2> QED BY <1>1, <2>3, <2>4 DEF Accepts, Hit
  <1>5. ASSUME Accepts(s, t) PROVE MatchTable(f, s, t)
    <2>1. PICK i \in 1..n : /\ in.rules[i].positive /\ Hit(in.rules[i])
                            /\ \A j \in 1..n : Hit(in.rules[j]) => j <= i
      BY <1>1, <1>5 DEF Accepts, Hit
    <2>2. PICK k \in 1..n : k = (n - i) + 1  BY <1>3
    <2>3. f[k].positive /\ Hit(f[k])  BY <1>2, <1>3, <2>1, <2>2
    <2>4. ASSUME NEW j \in 1..n, Hit(f[j]) PROVE k <= j
      <3>1. PICK l \in 1..n : l = (n - j) + 1  BY <1>3
      <3>2. f[j] = in.rules[l]  BY <1>2, <3>1
      <3>3. l <= i  BY <2>1, <2>4, <3>2
      <3> QED BY <1>1, <2>2, <3>1, <3>3
    <2> QED BY <1>2, <2>3, <2>4 DEF MatchTable, FirstPositive, TableHits, Hit
  <1> QED BY <1>4, <1>5 DEF f
-----------------------------------------------------------------------------
(* The steps of prepareTableListToDump. *)

\* What the assumption says of the rule list in use, and of the catalogue.
LEMMA FilterFacts ==
    ASSUME SelectionAssumption, in \in Inputs
    PROVE  /\ in.rules \in Seq(Rule) /\ FilterOrder(in.rules) \in Seq(Rule)
           /\ StarMatchesAll(FilterOrder(in.rules))
  <1>1. in \in Input  BY DEF SelectionAssumption
  <1>2. in.rules \in Seq(Rule)  BY <1>1 DEF Input
  <1> DEFINE n == Len(in.rules)
             f == FilterOrder(in.rules)
  <1>3. n \in Nat /\ DOMAIN in.rules = 1..n /\ \A i \in 1..n : in.rules[i] \in Rule
    BY <1>2
  <1>4. f = [i \in 1..n |-> in.rules[(n - i) + 1]]  BY DEF FilterOrder, Reverse
  <1>5. \A i \in 1..n : (n - i) + 1 \in 1..n  BY <1>3
  <1>6. f \in Seq(Rule)  BY <1>3, <1>4, <1>5
  <1>7. StarMatchesAll(f)
    BY <1>3, <1>4, <1>5 DEF StarMatchesAll, SelectionAssumption
  <1> QED BY <1>2, <1>6, <1>7

\* The type of a relation, and what a query of the catalogue returns.
LEMMA ListedTypes ==
    ASSUME NEW c \in Catalog, NEW dbs
    PROVE  /\ ListedIn(c, dbs) \subseteq TableInfo
           /\ \A t \in ListedIn(c, dbs) : t.schema \in dbs
  BY DEF ListedIn, Info, TableInfo, Catalog, Relation, TypeOf, Types, Kinds

\* The filtered list is what was asked for, when it was read from the snapshot.
LEMMA FilteredIsWanted ==
    ASSUME SelectionAssumption, IInv, pc = "filter", in.repeatable
    PROVE  Kept = {Info(x) : x \in {y \in Wanted : y.kind # "S"}}
  <1>1. /\ in.rules \in Seq(Rule) /\ filter = FilterOrder(in.rules) /\ filter \in Seq(Rule)
        /\ StarMatchesAll(filter) /\ snapshot \in Catalog
    BY FilterFacts DEF IInv, TypeOK, Parsed, SelectionAssumption
  <1> DEFINE All == snapshot.schemas \ System
  <1>2. /\ databases = {s \in All : MatchSchema(filter, s)}
        /\ tables = {t \in ListedIn(snapshot, databases) : t.type \in tableTypes}
    BY DEF IInv, SchemasFiltered, ListComplete
  <1>3. \A x \in snapshot.relations :
            /\ x.schema \in snapshot.schemas /\ x.schema \in Names /\ x.name \in Names /\ x.kind \in Kinds
            /\ Info(x).schema = x.schema /\ Info(x).name = x.name
            /\ x.kind \in WantedKinds /\ x.kind # "S" <=>
                   x.kind \in {"r", "p", "v", "m"} /\ Info(x).type \in tableTypes
    <2>1. \A k \in Kinds : k \in WantedKinds /\ k # "S" <=>
              k \in {"r", "p", "v", "m"} /\ TypeOf(k) \in tableTypes
      BY DEF WantedKinds, tableTypes, TypeOf, Kinds
    <2>2. \A x : Info(x).schema = x.schema /\ Info(x).name = x.name /\ Info(x).type = TypeOf(x.kind)
      BY DEF Info
    <2>3. \A x \in snapshot.relations :
              x.schema \in snapshot.schemas /\ x.schema \in Names /\ x.name \in Names /\ x.kind \in Kinds
      BY <1>1 DEF Catalog, Relation, IInv, TypeOK, SelectionAssumption
    <2> QED BY <2>1, <2>2, <2>3
  <1>4. ASSUME NEW x \in Wanted, x.kind # "S" PROVE Info(x) \in Kept
    <2>1. /\ x \in snapshot.relations /\ x.schema \in All /\ x.kind \in {"r", "p", "v", "m"}
          /\ Info(x).type \in tableTypes /\ Accepts(x.schema, x.name)
      BY <1>3, <1>4 DEF Wanted
    <2>2. MatchTable(filter, x.schema, x.name)  BY <1>1, <2>1, LastRuleDecides
    <2>3. MatchSchema(filter, x.schema)
      BY <1>1, <1>3, <2>1, <2>2, SchemaOfMatchingTable
    <2>4. Info(x) \in ListedIn(snapshot, databases)
      BY <1>2, <2>1, <2>3 DEF ListedIn
    <2> QED BY <1>2, <1>3, <2>1, <2>2, <2>4 DEF Kept
  <1>5. ASSUME NEW t \in Kept PROVE \E x \in Wanted : x.kind # "S" /\ t = Info(x)
    <2>1. t \in ListedIn(snapshot, databases) /\ t.type \in tableTypes
      BY <1>2 DEF Kept
    <2>2. PICK x \in snapshot.relations :
              x.schema \in databases /\ x.kind \in {"r", "p", "v", "m"} /\ t = Info(x)
      BY <2>1 DEF ListedIn
    <2>3. Accepts(t.schema, t.name)
      BY <1>1, LastRuleDecides DEF Kept
    <2>4. x.kind \in WantedKinds /\ x.kind # "S" /\ Accepts(x.schema, x.name)
      BY <1>3, <2>1, <2>2, <2>3
    <2>5. x.schema \notin System  BY <1>2, <2>2
    <2> QED BY <2>2, <2>4, <2>5 DEF Wanted
  <1> QED BY <1>4, <1>5

\* An entry of --tables-list has the fields it is made of.
LEMMA NamedFields ==
    \A i, y : /\ Named(i, y).schema = in.specified[i][1] /\ Named(i, y).name = in.specified[i][2]
              /\ Named(i, y).type = y /\ Named(i, y).entry = i
  BY DEF Named

\* The named tables with their types, on a snapshot.
LEMMA SpecifiedIsExact ==
    ASSUME SelectionAssumption, in \in Inputs, snapshot \in Catalogs, in.repeatable
    PROVE  /\ {<<t.entry, t.schema, t.name>> : t \in Specified}
                  = {<<i, in.specified[i][1], in.specified[i][2]>> : i \in DOMAIN in.specified}
           /\ \A t \in Specified : \A x \in snapshot.relations :
                 x.schema = t.schema /\ x.name = t.name => t.type = TypeOf(x.kind)
           /\ \A t \in Specified : t.type # "base" =>
                 \E x \in snapshot.relations : x.schema = t.schema /\ x.name = t.name
  <1> DEFINE T(i) == Named(i, SpecifiedType(in.specified[i]))
  <1>1. Specified = {T(i) : i \in DOMAIN in.specified}  BY DEF Specified
  <1>2. \A p : Found(p) = {x \in snapshot.relations : x.schema = p[1] /\ x.name = p[2]}
    BY DEF Found, Sees
  <1>3. ASSUME NEW p, NEW x \in snapshot.relations, x.schema = p[1], x.name = p[2]
        PROVE  SpecifiedType(p) = TypeOf(x.kind)
    <2>1. x \in Found(p)  BY <1>2, <1>3
    <2>2. PICK y : y = CHOOSE z \in Found(p) : TRUE  OBVIOUS
    <2>3. y \in Found(p)  BY <2>1, <2>2
    <2>4. y \in snapshot.relations /\ y.schema = p[1] /\ y.name = p[2]  BY <1>2, <2>3
    <2>5. x = y  BY <1>3, <2>4 DEF SelectionAssumption
    <2> QED BY <2>1, <2>2, <2>5 DEF SpecifiedType
  <1>4. ASSUME NEW p, SpecifiedType(p) # "base"
        PROVE  \E x \in snapshot.relations : x.schema = p[1] /\ x.name = p[2]
    <2>1. Found(p) # {}  BY <1>4 DEF SpecifiedType
    <2> QED BY <1>2, <2>1
  <1>5. \A i : /\ T(i).schema = in.specified[i][1] /\ T(i).name = in.specified[i][2]
               /\ T(i).type = SpecifiedType(in.specified[i]) /\ T(i).entry = i
    BY NamedFields
  <1> HIDE DEF T
  <1>6. {<<t.entry, t.schema, t.name>> : t \in Specified}
            = {<<i, in.specified[i][1], in.specified[i][2]>> : i \in DOMAIN in.specified}
    BY <1>1, <1>5
  <1>7. ASSUME NEW t \in Specified
        PROVE  /\ \A x \in snapshot.relations :
                     x.schema = t.schema /\ x.name = t.name => t.type = TypeOf(x.kind)
               /\ t.type # "base" =>
                     \E x \in snapshot.relations : x.schema = t.schema /\ x.name = t.name
    <2>1. PICK i \in DOMAIN in.specified : t = T(i)  BY <1>1
    <2>2. PICK p : p = in.specified[i]  OBVIOUS
    <2>3. t.schema = p[1] /\ t.name = p[2] /\ t.type = SpecifiedType(p)  BY <1>5, <2>1, <2>2
    <2> QED BY <1>3, <1>4, <2>3
  <1> QED BY <1>6, <1>7

\* The type a specified table gets is one of the types.
LEMMA SpecifiedTypes ==
    ASSUME SelectionAssumption, in \in Inputs
    PROVE  Specified \subseteq TableInfo /\ ConfTables \subseteq TableInfo
  <1>1. in.specified \in Seq(Names \X Names)  BY DEF SelectionAssumption, Input
  <1>2. \A i \in DOMAIN in.specified :
            i \in Nat /\ in.specified[i][1] \in Names /\ in.specified[i][2] \in Names
    BY <1>1
  <1>3. \A p : SpecifiedType(p) \in Types  BY DEF SpecifiedType, TypeOf, Types
  <1>4. \A i \in DOMAIN in.specified : \A y \in Types : Named(i, y) \in TableInfo
    BY <1>2 DEF Named, TableInfo
  <1>5. "base" \in Types  BY DEF Types
  <1> QED BY <1>3, <1>4, <1>5 DEF Specified, ConfTables
-----------------------------------------------------------------------------
\* What the options and the snapshot decide does not change from step to step.
LEMMA FixedOperators ==
    ASSUME in' = in, snapshot' = snapshot
    PROVE  /\ tableTypes' = tableTypes /\ Wanted' = Wanted
           /\ \A s, t : Accepts(s, t)' <=> Accepts(s, t)
           /\ \A t : Asked(t)' <=> Asked(t)
           /\ \A f, s : MatchSchema(f, s)' <=> MatchSchema(f, s)
  BY DEF tableTypes, Wanted, WantedKinds, Asked, Accepts, matchString,
         MatchSchema, FirstPositive, SchemaHits

\* The initial states.
LEMMA InitIInv ==
    ASSUME SelectionAssumption, Init PROVE IInv
  <1>1. TypeOK  BY DEF Init, TypeOK
  <1>2. pc = "parse"  BY DEF Init
  <1> QED BY <1>1, <1>2 DEF IInv, Parsed, SchemasFiltered, ListComplete, SelectionExact,
             NothingUnasked, EmptySchemasDumped, SpecifiedExact, Succeeded

\* Every step keeps the types.
LEMMA TypeStep ==
    ASSUME SelectionAssumption, IInv, Next PROVE TypeOK'
  <1>1. in \in Inputs /\ snapshot \in Catalog /\ catalog \in Catalog
    BY DEF IInv, TypeOK, SelectionAssumption
  <1>2. Sees \in Catalog /\ Sees.schemas \subseteq Names  BY <1>1 DEF Sees, Catalog
  <1>3. CASE ParseTableFilter
    <2>1. filter' \in Seq(Rule)
      BY <1>1, <1>3, FilterFacts DEF ParseTableFilter, IInv, TypeOK
    <2>2. ConfTables \subseteq TableInfo /\ {t.schema : t \in ConfTables} \subseteq Names
      <3>1. ConfTables \subseteq TableInfo  BY <1>1, SpecifiedTypes
      <3> QED BY <3>1 DEF TableInfo
    <2>3. keys' \subseteq Names /\ tables' \subseteq TableInfo
      BY <1>3, <2>2 DEF ParseTableFilter, IInv, TypeOK
    <2> QED BY <1>3, <2>1, <2>3 DEF ParseTableFilter, Return, IInv, TypeOK
  <1>4. CASE UpdateSpecifiedTablesMeta
    BY <1>1, <1>4, SpecifiedTypes DEF UpdateSpecifiedTablesMeta, Return, IInv, TypeOK
  <1>5. CASE PrepareDumpingDatabases
    BY <1>2, <1>5 DEF PrepareDumpingDatabases, ShownSchemas, IInv, TypeOK
  <1>6. CASE ListAllDatabasesTables
    <2>1. tables' \subseteq TableInfo
      BY <1>2, <1>6, ListedTypes DEF ListAllDatabasesTables
    <2> QED BY <1>6, <2>1 DEF ListAllDatabasesTables, IInv, TypeOK
  <1>7. CASE FilterTables
    <2>1. Kept \subseteq TableInfo  BY DEF Kept, IInv, TypeOK
    <2>2. KeptKeys \subseteq Names  BY <2>1 DEF KeptKeys, IInv, TypeOK, TableInfo
    <2> QED BY <1>7, <2>1, <2>2 DEF FilterTables, Return, IInv, TypeOK
  <1>8. CASE QueryFails  BY <1>8 DEF QueryFails, Return, IInv, TypeOK
  <1>9. CASE OtherDDL  BY <1>9 DEF OtherDDL, IInv, TypeOK
  <1> QED BY <1>3, <1>4, <1>5, <1>6, <1>7, <1>8, <1>9 DEF Next

\* Every step hands on what the next one relies on.
LEMMA HandOverStep ==
    ASSUME SelectionAssumption, IInv, Next
    PROVE  Parsed' /\ SchemasFiltered' /\ ListComplete'
  <1>1. in' = in /\ snapshot' = snapshot
    BY DEF Next, ParseTableFilter, UpdateSpecifiedTablesMeta, PrepareDumpingDatabases,
           ListAllDatabasesTables, FilterTables, QueryFails, OtherDDL
  <1>2. /\ tableTypes' = tableTypes
        /\ \A f, s : MatchSchema(f, s)' <=> MatchSchema(f, s)
    BY <1>1, FixedOperators
  <1>3. in \in Inputs /\ snapshot \in Catalog /\ Sees \in Catalog
    BY DEF IInv, TypeOK, SelectionAssumption, Sees
  <1>4. CASE ParseTableFilter
    BY <1>1, <1>4 DEF ParseTableFilter, Return, Parsed, SchemasFiltered, ListComplete, FilterOrder
  <1>5. CASE UpdateSpecifiedTablesMeta
    BY <1>5 DEF UpdateSpecifiedTablesMeta, Return, Parsed, SchemasFiltered, ListComplete
  <1>6. CASE PrepareDumpingDatabases
    <2>1. Parsed'
      BY <1>1, <1>6 DEF PrepareDumpingDatabases, Parsed, IInv
    <2>2. SchemasFiltered'
      BY <1>1, <1>6 DEF PrepareDumpingDatabases, SchemasFiltered, ShownSchemas, Sees,
             MatchSchema, FirstPositive, SchemaHits, matchString
    <2> QED BY <1>6, <2>1, <2>2 DEF PrepareDumpingDatabases, ListComplete
  <1>7. CASE ListAllDatabasesTables
    <2>1. Parsed'
      BY <1>1, <1>7 DEF ListAllDatabasesTables, Parsed, IInv
    <2>2. SchemasFiltered'
      BY <1>1, <1>7 DEF ListAllDatabasesTables, SchemasFiltered, IInv,
             MatchSchema, FirstPositive, SchemaHits, matchString
    <2>3. ListComplete'
      <3>1. \A t \in tables' : t.schema \in databases /\ t.type \in tableTypes
        BY <1>3, <1>7, ListedTypes DEF ListAllDatabasesTables
      <3>2. in.repeatable =>
                tables' = {t \in ListedIn(snapshot, databases) : t.type \in tableTypes}
        BY <1>7 DEF ListAllDatabasesTables, Sees
      <3>3. keys' = databases /\ databases' = databases  BY <1>7 DEF ListAllDatabasesTables
      <3> QED BY <1>1, <1>2, <3>1, <3>2, <3>3 DEF ListComplete, ListedIn, Info, TypeOf
    <2> QED BY <2>1, <2>2, <2>3
  <1>8. CASE FilterTables
    BY <1>8 DEF FilterTables, Return, Parsed, SchemasFiltered, ListComplete
  <1>9. CASE QueryFails
    BY <1>9 DEF QueryFails, Return, Parsed, SchemasFiltered, ListComplete
  <1>10. CASE OtherDDL
    <2>1. UNCHANGED <<in, snapshot, pc, filter, databases, keys, tables>>
      BY <1>10 DEF OtherDDL
    <2>2. Parsed'  BY <2>1 DEF Parsed, IInv, FilterOrder
    <2>3. SchemasFiltered'
      BY <2>1 DEF SchemasFiltered, IInv, MatchSchema, FirstPositive, SchemaHits, matchString
    <2>4. ListComplete'
      BY <2>1, <1>2 DEF ListComplete, IInv, ListedIn, Info, TypeOf
    <2> QED BY <2>2, <2>3, <2>4
  <1> QED BY <1>4, <1>5, <1>6, <1>7, <1>8, <1>9, <1>10 DEF Next

\* What filterTables leaves is exact.
LEMMA FilterStep ==
    ASSUME SelectionAssumption, IInv, FilterTables
    PROVE  (SelectionExact /\ NothingUnasked /\ EmptySchemasDumped /\ SpecifiedExact)'
  <1>1. /\ pc = "filter" /\ in' = in /\ snapshot' = snapshot /\ tables' = Kept
        /\ keys' = KeptKeys
    BY DEF FilterTables
  <1>2. /\ in.rules \in Seq(Rule) /\ filter = FilterOrder(in.rules) /\ filter \in Seq(Rule)
        /\ StarMatchesAll(filter) /\ in.specified = <<>> /\ snapshot \in Catalog
    BY <1>1, FilterFacts DEF IInv, TypeOK, Parsed, SelectionAssumption
  <1>3. /\ Wanted' = Wanted
        /\ \A s, t : Accepts(s, t)' <=> Accepts(s, t)
        /\ \A t : Asked(t)' <=> Asked(t)
    BY <1>1, FixedOperators
  <1>4. SelectionExact'
    <2>1. in.repeatable => Kept = {Info(x) : x \in {y \in Wanted : y.kind # "S"}}
      BY <1>1, FilteredIsWanted
    <2> QED BY <1>1, <1>3, <2>1 DEF SelectionExact, Info, TypeOf
  <1>5. NothingUnasked'
    <2>1. ASSUME NEW t \in Kept
          PROVE  Asked(t) /\ t.schema \notin System /\ t.schema \in KeptKeys
      <3>1. Accepts(t.schema, t.name)  BY <1>2, LastRuleDecides DEF Kept
      <3>2. t.schema \in databases /\ t.type \in tableTypes
        BY <1>1 DEF Kept, IInv, ListComplete
      <3>3. t.schema \notin System  BY <1>1, <3>2 DEF IInv, SchemasFiltered
      <3> QED BY <3>1, <3>2, <3>3 DEF Asked, KeptKeys
    <2> QED BY <1>1, <1>3, <2>1 DEF NothingUnasked
  <1>6. EmptySchemasDumped'
    <2>1. ASSUME in.repeatable, in.DumpEmptyDatabase,
                 NEW s \in snapshot.schemas \ System, NEW t \in Names, Accepts(s, t)
          PROVE  s \in KeptKeys
      <3>1. s \in Names  BY <1>2 DEF Catalog
      <3>2. MatchTable(filter, s, t)  BY <1>2, <2>1, LastRuleDecides
      <3>3. MatchSchema(filter, s)  BY <1>2, <3>1, <3>2, SchemaOfMatchingTable
      <3>4. s \in keys  BY <1>1, <2>1, <3>3 DEF IInv, SchemasFiltered, ListComplete
      <3> QED BY <2>1, <3>3, <3>4 DEF KeptKeys
    <2>2. ~in.DumpEmptyDatabase => KeptKeys = {t.schema : t \in Kept}  BY DEF KeptKeys
    <2> QED BY <1>1, <1>3, <2>1, <2>2 DEF EmptySchemasDumped
  <1>7. SpecifiedExact'  BY <1>1, <1>2 DEF SpecifiedExact
  <1> QED BY <1>4, <1>5, <1>6, <1>7

\* updateSpecifiedTablesMeta gives every named table its type.
LEMMA SpecifiedStep ==
    ASSUME SelectionAssumption, IInv, UpdateSpecifiedTablesMeta
    PROVE  (SelectionExact /\ NothingUnasked /\ EmptySchemasDumped /\ SpecifiedExact)'
  <1>1. in' = in /\ snapshot' = snapshot /\ tables' = Specified /\ in.specified # <<>>
    BY DEF UpdateSpecifiedTablesMeta, IInv, Parsed
  <1>2. SpecifiedExact'
    BY <1>1, SpecifiedIsExact DEF SpecifiedExact, IInv, TypeOK, TypeOf
  <1> QED BY <1>1, <1>2 DEF SelectionExact, NothingUnasked, EmptySchemasDumped

\* The other steps do not return nil.
LEMMA OtherSteps ==
    ASSUME IInv, ParseTableFilter \/ PrepareDumpingDatabases \/ ListAllDatabasesTables
                 \/ QueryFails \/ OtherDDL
    PROVE  (SelectionExact /\ NothingUnasked /\ EmptySchemasDumped /\ SpecifiedExact)'
  <1>1. ~Succeeded'
    BY DEF ParseTableFilter, PrepareDumpingDatabases, ListAllDatabasesTables, QueryFails,
           OtherDDL, Return, Succeeded
  <1> QED BY <1>1 DEF SelectionExact, NothingUnasked, EmptySchemasDumped, SpecifiedExact

\* A stuttering step changes nothing.
LEMMA StutterIInv ==
    ASSUME IInv, UNCHANGED vars PROVE IInv'
  <1>1. UNCHANGED <<in, catalog, snapshot, pc, filter, databases, keys, tables, result>>
    BY DEF vars
  <1>2. TypeOK' /\ Parsed'  BY <1>1 DEF IInv, TypeOK, Parsed, FilterOrder
  <1>3. SchemasFiltered'
    BY <1>1 DEF IInv, SchemasFiltered, MatchSchema, FirstPositive, SchemaHits, matchString
  <1>4. ListComplete'
    BY <1>1, FixedOperators DEF IInv, ListComplete, ListedIn, Info, TypeOf
  <1>5. (SelectionExact /\ NothingUnasked /\ EmptySchemasDumped /\ SpecifiedExact)'
    BY <1>1, FixedOperators DEF IInv, SelectionExact, NothingUnasked, EmptySchemasDumped,
           SpecifiedExact, Succeeded, TypeOf
  <1> QED BY <1>2, <1>3, <1>4, <1>5 DEF IInv

\* The invariant is inductive.
THEOREM SelectionInvariant == Spec => []IInv
  <1>1. Init => IInv  BY InitIInv, SelectionAssumption
  <1>2. ASSUME IInv, [Next]_vars PROVE IInv'
    <2>1. CASE Next
      <3>1. TypeOK'  BY <1>2, <2>1, TypeStep, SelectionAssumption
      <3>2. Parsed' /\ SchemasFiltered' /\ ListComplete'
        BY <1>2, <2>1, HandOverStep, SelectionAssumption
      <3>3. (SelectionExact /\ NothingUnasked /\ EmptySchemasDumped /\ SpecifiedExact)'
        BY <1>2, <2>1, FilterStep, SpecifiedStep, OtherSteps, SelectionAssumption DEF Next
      <3> QED BY <3>1, <3>2, <3>3 DEF IInv
    <2> QED BY <1>2, <2>1, StutterIInv
  <1> QED BY <1>1, <1>2, PTL DEF Spec

\* On a snapshot, exactly the tables and views the rules ask for are selected
\* (prepareTableListToDump), for every list of rules and every catalogue.
THEOREM SelectionIsExact == Spec => []SelectionExact
  <1>1. IInv => SelectionExact  BY DEF IInv
  <1> QED BY <1>1, SelectionInvariant, PTL

\* Without a snapshot too, filterTables keeps no table the user did not ask for.
THEOREM NothingElseSelected == Spec => []NothingUnasked
  <1>1. IInv => NothingUnasked  BY DEF IInv
  <1> QED BY <1>1, SelectionInvariant, PTL

\* --dump-empty-database decides which schemas without a table are dumped.
THEOREM EmptySchemas == Spec => []EmptySchemasDumped
  <1>1. IInv => EmptySchemasDumped  BY DEF IInv
  <1> QED BY <1>1, SelectionInvariant, PTL

\* --tables-list dumps the named tables, each as what it is in its schema.
THEOREM SpecifiedTables == Spec => []SpecifiedExact
  <1>1. IInv => SpecifiedExact  BY DEF IInv
  <1> QED BY <1>1, SelectionInvariant, PTL
=============================================================================
