------------------------------- MODULE Dumper -------------------------------
(***************************************************************************)
(* The life of a Dumper, from the flags to Close (main.go, config.go,      *)
(* dump.go): options that are checked and completed on the way, steps that *)
(* may fail one by one, and the state of the process that the dumpers of   *)
(* one library user share, one after the other: the metrics registry, the  *)
(* snapshot token, the environment of pg_dump and the status address.      *)
(* Dump itself is the abstract one of Status; its detail is module Dump.   *)
(***************************************************************************)
EXTENDS Status

CONSTANTS
    Options,    \* what the command line may say
    MaxLives    \* bound: the dumpers made one after the other

\* Flags as they are given; "empty" is the empty string and "unset" a flag that is not
\* given, "bad" a value the parser of the flag refuses.  "own" is a snapshot that an earlier
\* dump with the same Config left in it.
Option ==
    [threads : Nat, csvSeparator : {"empty", "comma"}, tablesList : {"empty", "tables", "bad"},
     filter : {"unset", "rules", "bad"}, fileSize : {"empty", "size", "bad"}, sql : BOOLEAN,
     where : BOOLEAN, fileType : {"empty", "sql", "csv", "CSV", "bad"},
     compress : {"empty", "gzip", "bad"}, csvDialect : {"empty", "snowflake", "bad"},
     target : {"empty", "pg", "mysql", "tidb", "bad"}, cdcSlot : {"empty", "slot", "bad"},
     noPreamble : {"unset", "TRUE", "FALSE"}, params : BOOLEAN,
     consistency : {"auto", "snapshot", "none", "bad"},
     snapshot : {"empty", "token", "own"}, cert : BOOLEAN, key : BOOLEAN, statusAddr : BOOLEAN,
     noData : BOOLEAN]

ASSUME OptionsAssumption ==
    Options \subseteq Option /\ (\A o \in Options : o.snapshot # "own") /\ MaxLives \in Nat

VARIABLES
    life,       \* the dumpers made so far
    pc,         \* the next step
    conf,       \* Config of the current dumper
    made,       \* what NewDumper returned: "none", "nil" (no Dumper), "error", "ok"
    registry,   \* the lives whose collectors are registered
    http,       \* the status address: "free", "taken"
    open,       \* the pools that are open: [life, nth]
    handle,     \* dbHandle: 0 is nil
    env,        \* pgDumpEnv: the life that set it
    token,      \* pgSnapshotToken: the life whose snapshot it names
    bound,      \* the snapshot that the connections of the dump adopted
    owner,      \* the life whose snapshot conf names when it is "own"
    left        \* the lives that left the replication connection of their slot open

lifeVars ==
    <<life, pc, conf, made, registry, http, open, handle, env, token, bound, owner, left>>
vars == <<life, pc, conf, made, registry, http, open, handle, env, token, bound, owner, left,
          statusVars>>

Pool(n) == [life |-> life, nth |-> n]
Target(o) == IF o.target = "empty" THEN "mysql" ELSE o.target

Init ==
    /\ StatusInit
    /\ life = 0 /\ pc = "idle" /\ conf \in Options /\ made = "none" /\ registry = {} /\ http = "free"
    /\ open = {} /\ handle = 0 /\ env = 0 /\ token = 0 /\ bound = 0 /\ owner = 0 /\ left = {}
----------------------------------------------------------------------------
(* The command line *)

ParseTableFilter(o) ==
    /\ o.tablesList # "bad" /\ o.filter # "bad"
    /\ o.tablesList = "tables" => o.filter = "unset"

\* The parsers of single flags.
ParseFileSize(o) == o.fileSize # "bad"
ParseCompressType(o) == o.compress # "bad"
ParseOutputDialect(o) == o.csvDialect # "bad"
ParseSQLTarget(o) == o.target # "bad"
ValidateCDCName(o) == o.cdcSlot # "bad"

\* Mutant of ParseFromFlags: a CSV dialect is taken whatever the file type.
ParseAnyDialect(o) ==
    /\ o.threads > 0 /\ o.csvSeparator # "empty" /\ ParseTableFilter(o)
    /\ ParseFileSize(o) /\ ParseCompressType(o) /\ ParseOutputDialect(o)
    /\ ParseSQLTarget(o) /\ ValidateCDCName(o)

\* The flags are accepted.  The file type is compared as it was given.
ParseFromFlags(o) ==
    /\ o.threads > 0 /\ o.csvSeparator # "empty" /\ ParseTableFilter(o)
    /\ ParseFileSize(o) /\ ParseCompressType(o)
    /\ o.csvDialect # "empty" => o.fileType = "csv"
    /\ ParseOutputDialect(o) /\ ParseSQLTarget(o) /\ ValidateCDCName(o)

\* What ParseFromFlags completes: the target, and its default for --no-preamble.
Parsed(o) ==
    [o EXCEPT !.target = Target(o),
              !.noPreamble = IF o.noPreamble # "unset" THEN o.noPreamble
                             ELSE IF Target(o) = "tidb" THEN "TRUE" ELSE "FALSE"]

\* A caller that is done with one dumper makes another, with metrics of its own.
NewLife ==
    /\ life' = life + 1 /\ pc' = "register" /\ made' = "none" /\ bound' = 0 /\ handle' = 0
    /\ StatusReset

Done == pc = "idle" /\ life < MaxLives /\ \A r \in Readers : call[r] = Idle

Start(o) ==
    /\ Done
    /\ IF ParseFromFlags(o) THEN NewLife /\ conf' = Parsed(o) /\ owner' = 0
       ELSE UNCHANGED <<life, pc, conf, made, bound, handle, owner, statusVars>>
    /\ UNCHANGED <<registry, http, open, env, token, left>>

\* The same Config again, as the last dumper left it.
StartAgain ==
    /\ Done /\ life > 0
    /\ NewLife
    /\ UNCHANGED <<conf, registry, http, open, env, token, owner, left>>
----------------------------------------------------------------------------
(* NewDumper *)

\* registerTo: MustRegister panics when the same collectors are there already.
RegisterTo ==
    /\ pc = "register"
    /\ IF registry # {} THEN pc' = "panic" /\ UNCHANGED registry
       ELSE pc' = "adjust" /\ registry' = registry \cup {life}
    /\ UNCHANGED <<life, conf, made, http, open, handle, env, token, bound, owner, left,
                   statusVars>>

\* unregisterFrom: equal collectors are equal whoever registered them.
UnregisterFrom == registry' = {}

\* Mutant of Fail: NewDumper returns without its deferred call.
FailWithoutDefer(d) == made' = d /\ pc' = "failed" /\ UNCHANGED registry

\* NewDumper returns an error; its deferred call takes the metrics back.
Fail(d) == made' = d /\ pc' = "failed" /\ UnregisterFrom

FileTypeOf(o) ==
    CASE o.fileType = "empty" -> IF o.sql THEN "csv" ELSE "sql"
      [] o.fileType = "CSV" -> "csv"
      [] OTHER -> o.fileType

BuildTLSConfig(o) == o.cert = o.key
ValidateSpecifiedSQL(o) == ~(o.sql /\ o.where)
AdjustFileFormat(o) == FileTypeOf(o) # "bad" /\ (o.sql => FileTypeOf(o) = "csv")

\* The certificates may be unreadable.
AdjustConfig ==
    /\ pc = "adjust"
    /\ LET fits == BuildTLSConfig(conf) /\ ValidateSpecifiedSQL(conf) /\ AdjustFileFormat(conf) IN
       \/ /\ fits
          /\ conf' = [conf EXCEPT !.fileType = FileTypeOf(conf)]
          /\ pc' = "logger" /\ UNCHANGED <<made, registry>>
       \/ /\ ~fits \/ conf.cert
          /\ Fail("nil") /\ UNCHANGED conf
    /\ UNCHANGED <<life, http, open, handle, env, token, bound, owner, left, statusVars>>

\* initLogger and createExternalStore: the log file or the storage may not open.
InitLoggerAndStore ==
    /\ pc = "logger"
    /\ \/ pc' = "http" /\ UNCHANGED <<made, registry>>
       \/ Fail("error")
    /\ UNCHANGED <<life, conf, http, open, handle, env, token, bound, owner, left, statusVars>>

\* startHTTPService: its goroutine logs an error of the listener, as it gets it when an
\* earlier dumper has the address, and never closes it.
StartHTTPService ==
    /\ pc = "http"
    /\ http' = IF conf.statusAddr THEN "taken" ELSE http
    /\ pc' = "open"
    /\ UNCHANGED <<life, conf, made, registry, open, handle, env, token, bound, owner, left,
                   statusVars>>

\* openSQLDB: the DSN may be refused.
OpenSQLDB ==
    /\ pc = "open"
    /\ \/ /\ open' = open \cup {Pool(1)} /\ handle' = 1 /\ pc' = "env"
          /\ UNCHANGED <<made, registry>>
       \/ Fail("error") /\ UNCHANGED <<open, handle>>
    /\ UNCHANGED <<life, conf, http, env, token, bound, owner, left, statusVars>>

SetupPgDumpEnv ==
    /\ pc = "env"
    /\ env' = life
    /\ pc' = "auto"
    /\ UNCHANGED <<life, conf, made, registry, http, open, handle, token, bound, owner, left,
                   statusVars>>

\* resolveAutoConsistency and validateResolveAutoConsistency.
ResolveAutoConsistency ==
    /\ pc = "auto"
    /\ LET c == IF conf.consistency = "auto" THEN "snapshot" ELSE conf.consistency IN
       /\ conf' = [conf EXCEPT !.consistency = c]
       /\ IF c # "snapshot" /\ conf.snapshot # "empty" THEN Fail("error")
          ELSE pc' = "session" /\ UNCHANGED <<made, registry>>
    /\ UNCHANGED <<life, http, open, handle, env, token, bound, owner, left, statusVars>>

\* Mutant of SetSessionParam: the old pool is not closed.
SetSessionParamLeak ==
    /\ pc = "session"
    /\ open' = open \cup {Pool(2)} /\ handle' = 2
    /\ made' = "ok" /\ pc' = "made"
    /\ UNCHANGED <<life, conf, registry, http, env, token, bound, owner, left, statusVars>>

\* setSessionParam: SET SESSION on the pool, then another pool of the same DSN
\* in its place.  An error of SET leaves dbHandle nil and the pool open; an
\* error of the ping closes the new pool and is not returned.
SetSessionParam ==
    /\ pc = "session"
    /\ \/ /\ open' \in {(open \ {Pool(1)}) \cup {Pool(2)}, open \ {Pool(1)}}
          /\ handle' = 2
          /\ made' = "ok" /\ pc' = "made" /\ UNCHANGED registry
       \/ /\ conf.params
          /\ handle' = 0
          /\ Fail("error")
          /\ UNCHANGED open
    /\ UNCHANGED <<life, conf, http, env, token, bound, owner, left, statusVars>>
----------------------------------------------------------------------------
(* Dump *)

\* NewConsistencyController and Setup.  A pool that is closed has no
\* connections; the slot is created unless a snapshot is given.  Setup keeps its
\* snapshot in the Config, which may outlive the dumper; PostgreSQL refuses it
\* once the session that exported it has ended.  When Setup fails behind
\* createCDCSlot the Config has the snapshot of the slot, and Dump returns before it
\* defers TearDown: the replication connection stays open and the snapshot good.
SetupConsistency ==
    /\ pc = "made"
    /\ LET own == conf.snapshot = "empty"
           Kept == [conf EXCEPT !.snapshot = IF own THEN "own" ELSE @] IN
       \/ /\ Pool(handle) \in open /\ conf.consistency = "snapshot"
          /\ conf.snapshot = "own" => owner \in left
          /\ token' = IF conf.snapshot = "own" THEN owner ELSE life
          /\ conf' = Kept /\ owner' = IF own THEN life ELSE owner
          /\ pc' = "connect" /\ UNCHANGED <<left, phase>>
       \/ /\ Pool(handle) \in open /\ conf.consistency = "none"
          /\ pc' = "connect" /\ UNCHANGED <<token, conf, owner, left, phase>>
       \/ /\ phase' = "failed" /\ pc' = "dumped" /\ UNCHANGED token
          /\ \/ UNCHANGED <<conf, owner, left>>
             \/ /\ Pool(handle) \in open /\ conf.consistency = "snapshot"
                /\ conf.cdcSlot # "empty" /\ own
                /\ conf' = Kept /\ owner' = life /\ left' = left \cup {life}
    /\ UNCHANGED <<life, made, registry, http, open, handle, env, bound,
                   cancelled, queue, held, attempts, files, m, speed, call, extra, peak, shown>>

\* Mutant of CreateConns: a token that is set is adopted whatever the consistency.
CreateConnsAnyToken ==
    /\ pc = "connect"
    /\ bound' = token /\ phase' = "sending" /\ pc' = "dumping"
    /\ UNCHANGED <<life, conf, made, registry, http, open, handle, env, token, owner, left,
                   cancelled, queue, held, attempts, files, m, speed, call, extra, peak, shown>>

\* createConnWithConsistency for the connections of the dump and its writers.
CreateConns ==
    /\ pc = "connect"
    /\ \/ /\ bound' = IF conf.consistency # "none" THEN token ELSE 0
          /\ phase' = "sending" /\ pc' = "dumping"
       \/ phase' = "failed" /\ pc' = "dumped" /\ UNCHANGED bound
    /\ UNCHANGED <<life, conf, made, registry, http, open, handle, env, token, owner, left,
                   cancelled, queue, held, attempts, files, m, speed, call, extra, peak, shown>>

\* The data tasks: one with --sql, none with --no-data.
NewTask ==
    /\ IF conf.sql THEN m.totalChunks = 0 ELSE ~conf.noData
    /\ newTaskTableData
    /\ UNCHANGED lifeVars

\* The dump runs, and GetStatus is called, until Close and later.
StatusStep == StatusNext /\ UNCHANGED lifeVars

DumpReturns ==
    /\ pc = "dumping" /\ phase \in {"ok", "failed"}
    /\ pc' = "dumped"
    /\ UNCHANGED <<life, conf, made, registry, http, open, handle, env, token, bound,
                   owner, left, statusVars>>

\* Close, by main after Dump, by another goroutine to stop a dump, or on the
\* Dumper that comes with an error.
Close ==
    /\ pc \in {"made", "dumping", "dumped"} \/ (pc = "failed" /\ made = "error")
    /\ cancelled' = IF phase \in {"sending", "waiting"} /\ cancelled = "no" THEN "user" ELSE cancelled
    /\ UnregisterFrom
    /\ open' = open \ {Pool(handle)}
    /\ pc' = IF pc = "dumping" THEN pc ELSE "idle"
    /\ UNCHANGED <<life, conf, made, http, handle, env, token, bound, owner, left,
                   phase, queue, held, attempts, files, m, speed, call, extra, peak, shown>>

\* main exits when NewDumper fails; another caller goes on without Close.
GiveUp ==
    /\ pc = "failed"
    /\ pc' = "idle"
    /\ UNCHANGED <<life, conf, made, registry, http, open, handle, env, token, bound,
                   owner, left, statusVars>>

Next ==
    \/ \E o \in Options : Start(o)
    \/ StartAgain
    \/ RegisterTo \/ AdjustConfig \/ InitLoggerAndStore \/ StartHTTPService \/ OpenSQLDB
    \/ SetupPgDumpEnv \/ ResolveAutoConsistency \/ SetSessionParam \/ SetupConsistency
    \/ CreateConns \/ NewTask \/ StatusStep \/ DumpReturns \/ Close \/ GiveUp

Spec == Init /\ [][Next]_vars
----------------------------------------------------------------------------
(* Properties *)

TypeOK ==
    /\ StatusTypeOK
    /\ life \in 0..MaxLives /\ conf \in Option
    /\ pc \in {"idle", "register", "panic", "adjust", "logger", "http", "open", "env", "auto",
               "session", "made", "connect", "dumping", "dumped", "failed"}
    /\ made \in {"none", "nil", "error", "ok"}
    /\ registry \subseteq 1..MaxLives /\ http \in {"free", "taken"}
    /\ open \subseteq [life : 1..MaxLives, nth : {1, 2}]
    /\ handle \in 0..2 /\ env \in 0..MaxLives /\ token \in 0..MaxLives /\ bound \in 0..MaxLives
    /\ owner \in 0..MaxLives /\ left \subseteq 1..MaxLives

\* The options that a dump runs with fit together, though they are checked and
\* completed in several places: --sql writes CSV and has no --where, a CSV dialect goes
\* with CSV, a given snapshot with consistency snapshot, and the preamble is settled.
OptionsFit ==
    pc = "dumping" =>
        /\ conf.fileType \in {"sql", "csv"} /\ conf.threads > 0
        /\ conf.sql => conf.fileType = "csv" /\ ~conf.where
        /\ conf.csvDialect # "empty" => conf.fileType = "csv"
        /\ conf.snapshot # "empty" => conf.consistency = "snapshot"
        /\ conf.consistency \in {"snapshot", "none"}
        /\ conf.noPreamble \in {"TRUE", "FALSE"} /\ conf.cert = conf.key

\* A process that is done with one dumper, whether NewDumper failed at any step or
\* the dumper was closed, can make the next one on the same registry: MustRegister
\* never panics.
RegistryFree == pc # "panic" /\ (pc = "idle" => registry = {})

\* A dumper that NewDumper made without an error leaves no pool open behind Close.
PoolsReleased == pc = "idle" /\ made = "ok" => \A p \in open : p.life # life

\* The state that dumpers share through package variables and a reused Config is the
\* current dumper's when it is used: pg_dump runs with this dumper's connection
\* parameters, and the connections adopt no snapshot, or the one that this dump set up,
\* or one that its Config names and that is still exported, which only happens when the
\* Setup of an earlier dumper with that Config created its slot and failed afterwards.
OwnState ==
    pc = "dumping" =>
        /\ env = life
        /\ IF conf.consistency = "none" THEN bound = 0
           ELSE bound = life \/ (bound = owner /\ conf.snapshot = "own" /\ owner \in left)

\* What GetStatus says of the progress of one dumper never goes down, however its
\* loads and the writers interleave, also when the dump fails or is cancelled.
ProgressNeverFalls == [][life' = life => ProgressGrows]_vars
----------------------------------------------------------------------------
(* What the properties rest on *)

NotDumping == {"register", "adjust", "logger", "http", "open", "env", "auto", "session", "made",
               "connect"}
Running == {"made", "connect", "dumping", "dumped"}

\* How far a dumper has come, and whether its metrics are registered.
LifeInv ==
    /\ pc # "idle" => life > 0
    /\ pc \in NotDumping => phase = "off"
    /\ pc # "panic" /\ (pc \in {"idle", "register", "failed"} => registry = {})
    /\ pc \in Running => made = "ok" /\ handle = 2
    /\ made = "ok" => pc \in Running \cup {"idle"}

\* Which pools a dumper may have open at each step; those of earlier ones may be left.
PoolsInv ==
    \A p \in open :
        /\ p.life <= life
        /\ p.life = life =>
             /\ pc \notin {"register", "adjust", "logger", "http", "open"}
             /\ pc \in {"env", "auto", "session"} => p.nth = 1
             /\ pc \in Running => p.nth = 2
             /\ ~(pc = "idle" /\ made = "ok")

\* What the options have been through, also those of an earlier dumper.
OptionsInv ==
    /\ life > 0 => conf.threads > 0 /\ conf.noPreamble \in {"TRUE", "FALSE"}
                   /\ (conf.csvDialect # "empty" => conf.fileType = "csv")
    /\ pc \in {"logger", "http", "open", "env", "auto", "session"} \cup Running =>
         /\ conf.fileType \in {"sql", "csv"} /\ conf.cert = conf.key
         /\ conf.sql => conf.fileType = "csv" /\ ~conf.where
    /\ pc \in {"session"} \cup Running => (conf.snapshot # "empty" => conf.consistency = "snapshot")
    /\ pc \in {"connect", "dumping"} => conf.consistency \in {"snapshot", "none"}

\* Snapshots that are exported while the current dump runs.
Exported(x) == x = life \/ (x = owner /\ conf.snapshot = "own" /\ owner \in left)

\* Whose environment and snapshot are set.
SharedInv ==
    /\ pc \in {"auto", "session"} \cup Running => env = life
    /\ pc = "connect" /\ conf.consistency = "snapshot" => Exported(token)
    /\ pc = "dumping" => IF conf.consistency = "snapshot" THEN Exported(bound) ELSE bound = 0

\* The inductive invariant: the steps of a dumper, its options, the state it shares with
\* the dumpers before it, and the counts that its writers and readers see.
IInv == TypeOK /\ StatusInv /\ LifeInv /\ PoolsInv /\ OptionsInv /\ SharedInv
=============================================================================
