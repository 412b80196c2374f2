-------------------------------- MODULE Dump --------------------------------
(***************************************************************************)
(* One call of Dumper.Dump: the main goroutine (set-up, producer, deferred *)
(* clean-up), the unbounded task channel, the writer goroutines of the     *)
(* errgroup, the consistency controller with its optional CDC slot, and as *)
(* much of the PostgreSQL server as decides what a connection may read.    *)
(*                                                                         *)
(* Data is abstracted to versions: the server moves from version n to      *)
(* n + 1 whenever some other session commits, and a file is described by   *)
(* the version its content was read at.                                    *)
(***************************************************************************)
EXTENDS Integers, SequencesExt

CONSTANTS
    Schemas,      \* the databases (PostgreSQL schemas) selected for the dump
    TableNames,   \* names a table may have
    TablesOf,     \* TablesOf[s]: the sequence of tables listed for schema s
    Threads,      \* conf.Threads, the number of writers
    Configs,      \* the configurations a behaviour may start with
    MayCancel,    \* whether the caller may cancel the context during Dump
    MaxVersion,   \* bound: commits of other sessions during the dump
    MaxFaults,    \* bound: injected database or storage errors
    MaxAttempts   \* dumpChunkRetryTime, calls of fn in one WithRetry

Writers == 1..Threads
Versions == 0..MaxVersion

Absent == -1      \* no file, no slot
Torn == -2        \* a file some failed attempt left incomplete
Closed == -1      \* a connection that is not open
Live == -2        \* a connection outside any snapshot: each query reads the current version

TableInfo == [name : TableNames, type : {"base", "view", "sequence"},
              chunks : Nat \ {0}, ctid : BOOLEAN]

Config == [Consistency : {"snapshot", "none"}, Snapshot : {"unset", "user"},
           TransactionalConsistency : BOOLEAN, CDCSlot : BOOLEAN,
           CDCCleanupOnFailure : BOOLEAN, NoSchemas : BOOLEAN,
           NoData : BOOLEAN, SQL : BOOLEAN]

ASSUME ConstantsAssumption ==
    /\ TablesOf \in [Schemas -> Seq(TableInfo)]
    /\ \A s \in Schemas : \A i, j \in 1..Len(TablesOf[s]) :
           TablesOf[s][i].name = TablesOf[s][j].name => i = j
    /\ Threads \in Nat \ {0}
    /\ Configs \subseteq Config
    /\ MayCancel \in BOOLEAN
    /\ MaxVersion \in Nat
    /\ MaxFaults \in Nat
    /\ MaxAttempts \in Nat \ {0}

VARIABLES
    conf,         \* the configuration, fixed by the first state
    \* --- PostgreSQL and the surrounding sessions
    version,      \* newest committed version
    slot,         \* consistent point of the CDC slot, or Absent
    userAlive,    \* the session that exported --snapshot is still open
    \* --- consistency controller
    ctlConn,      \* c.conn # nil: the transaction holding the snapshot is open
    cdcConn,      \* c.cdcConn # nil
    madeSlot,     \* c.cdcSlot # nil
    token,        \* pgSnapshotToken: who exported it and the version it shows
    \* --- main goroutine
    pc,           \* next statement of Dump
    err,          \* the local err that the deferred clean-up reads
    dumpErr,      \* the named result
    closing,      \* next writer whose connection tearDownWriters closes
    mbuf,         \* lines in the metadata buffer
    \* --- producer (dumpDatabases, dumpSQL)
    todo,         \* schemas the range loop has not reached
    tables,       \* <<schema, table>> pairs left of the current schema
    cur,          \* the table whose data is dumped next, as a sequence of 0 or 1 pairs
    work,         \* tasks ready to be sent, with the version of their text
    mconn,        \* view of the metadata connection
    mtries,       \* failed attempts of the query in progress
    whole,        \* tables sent in one piece because they could not be split
    \* --- task channel
    q,            \* queue of infiniteChan, tasks with the version their DDL text shows
    inClosed,     \* close(taskIn) has run
    \* --- contexts
    cancelled,    \* tctx is done
    groupErr,     \* a writer returned an error: wg.Wait fails and writingCtx is done
    \* --- writers
    wst,          \* state of each writer goroutine
    wmsg,         \* the task it handles
    wtries,       \* attempts begun for that task
    wconn,        \* view of its connection
    wread,        \* version of the result set being read
    \* --- output
    file,         \* version each file was read at, or Absent, or Torn
    metadata,     \* lines of the metadata file, {} when there is none
    faults        \* injected errors so far

server == <<version, slot, userAlive>>
controller == <<ctlConn, cdcConn, madeSlot, token>>
producer == <<todo, tables, cur, work, mconn, mtries, whole>>
channel == <<q, inClosed>>
writers == <<wst, wmsg, wtries, wconn, wread>>
main == <<pc, err, dumpErr, closing, mbuf>>
vars == <<conf, server, controller, main, producer, channel, cancelled,
          groupErr, writers, file, metadata, faults>>
-----------------------------------------------------------------------------
(* Tasks (task.go) and the files they produce (writer.go). *)

Task(kind, s, t, i) == [kind |-> kind, sch |-> s, tbl |-> t, chunk |-> i]

MetaKind(t) == IF t.type = "base" THEN "table" ELSE t.type

SchemaTasks(c, s) == IF c.NoSchemas THEN <<>> ELSE <<Task("schema", s, "-", 0)>>

TableMetaTasks(c, p) ==
    IF c.NoSchemas THEN <<>> ELSE <<Task(MetaKind(p[2]), p[1], p[2].name, 0)>>

\* Mutant of DataTasks: every chunk of a table has the index 0.
DataTasksOfOneIndex(p) == [i \in 1..p[2].chunks |-> Task("data", p[1], p[2].name, 0)]

DataTasks(p) ==
    [i \in 1..p[2].chunks |-> Task("data", p[1], p[2].name, i - 1)]

SqlTask == Task("data", "-", "-", 0)

WholeTask(t) == [t EXCEPT !.kind = "whole", !.chunk = 0]

\* The whole-table task of the ctid fall-back has the file name of chunk 0.
FileOf(t) == IF t.kind = "whole" THEN [t EXCEPT !.kind = "data"] ELSE t

HasData(c, t) == t.type = "base" /\ ~c.NoData

Pairs(s) == [i \in 1..Len(TablesOf[s]) |-> <<s, TablesOf[s][i]>>]

TableTasks(c, p) ==
    ToSet(TableMetaTasks(c, p)) \cup (IF HasData(c, p[2]) THEN ToSet(DataTasks(p)) ELSE {})

\* Everything the dump of schema s has to write.
TasksOfSchema(c, s) ==
    ToSet(SchemaTasks(c, s)) \cup UNION {TableTasks(c, p) : p \in ToSet(Pairs(s))}

\* Everything a complete dump under configuration c consists of.
Plan(c) == IF c.SQL THEN {SqlTask} ELSE UNION {TasksOfSchema(c, s) : s \in Schemas}

AllTasks == {SqlTask} \cup
    UNION {TasksOfSchema([NoSchemas |-> FALSE, NoData |-> FALSE], s) : s \in Schemas}

\* What travels on the channel: a task, and for DDL the version its text shows.
Msg(t, v) == [task |-> t, at |-> v]
NoMsg == Msg(SqlTask, Absent)

IsData(t) == t.kind \in {"data", "whole"}

CtidTable(t) ==
    \E p \in ToSet(Pairs(t.sch)) : p[2].name = t.tbl /\ p[2].ctid
-----------------------------------------------------------------------------
(* Contexts, connections and injected errors. *)

\* writingCtx: cancelled with its parent or by the first failing writer.
CtxDone == cancelled \/ groupErr

\* The exported snapshot can be adopted only while its exporter lives.
TokenAlive ==
    CASE token.src = "export" -> ctlConn
      [] token.src = "cdc"    -> cdcConn
      [] token.src = "user"   -> userAlive
      [] OTHER                -> FALSE

Repeatable == conf.Consistency = "snapshot"

\* createConnWithConsistency, on the context of the whole dump.
CanConnect == ~cancelled /\ (Repeatable => TokenAlive)

\* Mutant of NewConn: the transaction takes a snapshot of its own.
OwnSnapshotConn == IF Repeatable THEN version ELSE Live

NewConn == IF Repeatable THEN token.at ELSE Live

ReadView(c) == IF c = Live THEN version ELSE c

\* An operation fails because its own precondition is gone, or by an injected error.
Fails(ok) == IF ok THEN faults < MaxFaults /\ faults' = faults + 1
                   ELSE UNCHANGED faults

\* return e: the named result is set and the deferred calls run from label d.
Return(e, d) == dumpErr' = e /\ pc' = d
-----------------------------------------------------------------------------
Init ==
    /\ conf \in Configs
    /\ version = 0 /\ slot = Absent /\ userAlive = TRUE
    /\ ctlConn = FALSE /\ cdcConn = FALSE /\ madeSlot = FALSE
    /\ token = [src |-> "none", at |-> 0]
    /\ pc = "new" /\ err = "nil" /\ dumpErr = "nil" /\ closing = 1 /\ mbuf = {}
    /\ todo = {} /\ tables = <<>> /\ cur = <<>> /\ work = <<>>
    /\ mconn = Closed /\ mtries = 0 /\ whole = {}
    /\ q = <<>> /\ inClosed = FALSE
    /\ cancelled = FALSE /\ groupErr = FALSE
    /\ wst = [w \in Writers |-> "unstarted"]
    /\ wmsg = [w \in Writers |-> NoMsg]
    /\ wtries = [w \in Writers |-> 0]
    /\ wconn = [w \in Writers |-> Closed]
    /\ wread = [w \in Writers |-> Absent]
    /\ file = [t \in AllTasks |-> Absent]
    /\ metadata = {}
    /\ faults = 0
-----------------------------------------------------------------------------
(* Dump up to the start of the writers. *)

\* NewConsistencyController: a dedicated connection for the snapshot.
NewConsistencyController ==
    /\ pc = "new"
    /\ \/ /\ ~cancelled
          /\ ctlConn' = Repeatable
          /\ pc' = IF ~Repeatable THEN "metaConn"
                   ELSE IF conf.CDCSlot /\ conf.Snapshot = "unset" THEN "slot" ELSE "begin"
          /\ UNCHANGED <<err, dumpErr, faults>>
       \/ /\ Fails(~cancelled)
          /\ err' = "fail" /\ Return("fail", "dMetadata")
          /\ UNCHANGED ctlConn
    /\ UNCHANGED <<conf, server, cdcConn, madeSlot, token, closing, mbuf, producer,
                   channel, cancelled, groupErr, writers, file, metadata>>

\* Mutant of CreateCDCSlot: the replication connection is closed at once.
CreateCDCSlotAndDisconnect ==
    /\ pc = "slot"
    /\ \/ /\ ~cancelled
          /\ slot' = version /\ madeSlot' = TRUE
          /\ pc' = "begin"
          /\ UNCHANGED <<err, dumpErr, faults>>
       \/ /\ Fails(~cancelled)
          /\ err' = "fail" /\ Return("fail", "dMetadata")
          /\ UNCHANGED <<slot, madeSlot>>
    /\ UNCHANGED <<conf, version, userAlive, ctlConn, cdcConn, token, closing, mbuf, producer,
                   channel, cancelled, groupErr, writers, file, metadata>>

\* Setup, first part: CREATE_REPLICATION_SLOT ... EXPORT_SNAPSHOT. It may also
\* fail after the server has created the slot.
CreateCDCSlot ==
    /\ pc = "slot"
    /\ \/ /\ ~cancelled
          /\ slot' = version /\ madeSlot' = TRUE /\ cdcConn' = TRUE
          /\ pc' = "begin"
          /\ UNCHANGED <<err, dumpErr, faults>>
       \/ /\ Fails(~cancelled)
          /\ \/ ~cancelled /\ slot' = version
             \/ UNCHANGED slot
          /\ err' = "fail" /\ Return("fail", "dMetadata")
          /\ UNCHANGED <<madeSlot, cdcConn>>
    /\ UNCHANGED <<conf, version, userAlive, ctlConn, token, closing, mbuf, producer,
                   channel, cancelled, groupErr, writers, file, metadata>>

\* Mutant of SnapshotToken: the snapshot is exported by the transaction, not by the slot.
FreshSnapshotToken ==
    [src |-> IF madeSlot THEN "cdc" ELSE "export", at |-> version]

SnapshotToken ==
    IF madeSlot THEN [src |-> "cdc", at |-> slot]
    ELSE IF conf.Snapshot = "user" THEN [src |-> "user", at |-> 0]
    ELSE [src |-> "export", at |-> version]

\* Setup, second part: BEGIN, then adopt or export the snapshot and publish
\* its token. A failure returns before the clean-up is deferred.
BeginSnapshot ==
    LET ok == ~cancelled /\ (~madeSlot /\ conf.Snapshot = "user" => userAlive)
    IN /\ pc = "begin"
       /\ \/ /\ ok
             /\ token' = SnapshotToken
             /\ pc' = "metaConn"
             /\ UNCHANGED <<err, dumpErr, faults>>
          \/ /\ Fails(ok)
             /\ err' = "fail" /\ Return("fail", "dMetadata")
             /\ UNCHANGED token
       /\ UNCHANGED <<conf, server, ctlConn, cdcConn, madeSlot, closing, mbuf, producer,
                      channel, cancelled, groupErr, writers, file, metadata>>

\* The metadata connection; then start time and CDC lines go to the buffer.
OpenMetaConn ==
    /\ pc = "metaConn"
    /\ \/ /\ CanConnect
          /\ mconn' = NewConn
          /\ mbuf' = {"start"} \cup (IF madeSlot THEN {"cdc"} ELSE {})
          /\ pc' = "prepare"
          /\ UNCHANGED <<err, dumpErr, faults>>
       \/ /\ Fails(CanConnect)
          /\ err' = "fail" /\ Return("fail", "dConsistency")
          /\ UNCHANGED <<mconn, mbuf>>
    /\ UNCHANGED <<conf, server, controller, closing, todo, tables, cur, work, mtries,
                   channel, whole, cancelled, groupErr, writers, file, metadata>>

\* prepareTableListToDump: with --sql there is nothing to list.
PrepareTableList ==
    /\ pc = "prepare"
    /\ \/ /\ conf.SQL \/ ~cancelled
          /\ todo' = IF conf.SQL THEN {} ELSE Schemas
          /\ work' = IF conf.SQL THEN <<Msg(SqlTask, Absent)>> ELSE <<>>
          /\ pc' = "start"
          /\ UNCHANGED <<err, dumpErr, faults>>
       \/ /\ ~conf.SQL
          /\ Fails(~cancelled)
          /\ err' = "fail" /\ Return("fail", "dConsistency")
          /\ UNCHANGED <<todo, work>>
    /\ UNCHANGED <<conf, server, controller, closing, mbuf, tables, cur, mconn, mtries,
                   channel, whole, cancelled, groupErr, writers, file, metadata>>

\* One turn of the loop of startWriters: writer w gets its connection and its
\* goroutine. A failure leaves the writers already started as they are.
StartWriter(w) ==
    /\ pc = "start"
    /\ wst[w] = "unstarted" /\ \A v \in 1..(w - 1) : wst[v] # "unstarted"
    /\ \/ /\ CanConnect
          /\ wst' = [wst EXCEPT ![w] = "idle"]
          /\ wconn' = [wconn EXCEPT ![w] = NewConn]
          /\ pc' = IF w < Threads THEN "start"
                   ELSE IF conf.TransactionalConsistency THEN "release" ELSE "produce"
          /\ UNCHANGED <<err, dumpErr, faults>>
       \/ /\ Fails(CanConnect)
          /\ err' = "fail" /\ Return("fail", "dConsistency")
          /\ UNCHANGED <<wst, wconn>>
    /\ UNCHANGED <<conf, server, controller, closing, mbuf, producer, channel, cancelled,
                   groupErr, wmsg, wtries, wread, file, metadata>>

\* TearDown as soon as every writer holds the snapshot: the connections are
\* gone whatever COMMIT answers.
ReleaseSnapshot ==
    /\ pc = "release"
    /\ ctlConn' = FALSE /\ cdcConn' = FALSE
    /\ \/ /\ ctlConn => ~cancelled
          /\ pc' = "produce"
          /\ UNCHANGED <<err, dumpErr, faults>>
       \/ /\ ctlConn
          /\ Fails(~cancelled)
          /\ err' = "fail" /\ Return("fail", "dWriters")
    /\ UNCHANGED <<conf, server, madeSlot, token, closing, mbuf, producer, channel,
                   cancelled, groupErr, writers, file, metadata>>
-----------------------------------------------------------------------------
(* The producer: dumpDatabases, dumpTableData and dumpSQL. *)

\* BaseConn.QuerySQL: an attempt after a failed one runs on a rebuilt
\* connection. The context of the queries is the writers' context.
QuerySucceeds ==
    /\ ~CtxDone
    /\ mtries > 0 => CanConnect
    /\ mconn' = IF mtries > 0 THEN NewConn ELSE mconn
    /\ mtries' = 0
    /\ UNCHANGED faults

\* dumpTableMeta and buildOrderByClause run queries; a schema needs none.
QueryDue == work = <<>> /\ (cur # <<>> \/ tables # <<>>)

\* An error that is exactly context.Canceled does not end Dump: the channel
\* is closed and the writers are waited for. Any other error returns at once.
ProducerStops(e) ==
    /\ err' = e
    /\ \/ e = "canceled" /\ pc' = "close" /\ UNCHANGED dumpErr
       \/ e = "fail" /\ Return("fail", "dWriters")

\* What an error looks like once the context is done: the driver and os/exec
\* return context.Canceled or an error of their own.
CtxErrors == {"fail"} \cup (IF CtxDone THEN {"canceled"} ELSE {})

\* A metadata query fails: after the last attempt, or once the context is
\* done, the error ends the producer.
QueryFails ==
    /\ pc = "produce" /\ QueryDue
    /\ Fails(~CtxDone /\ (mtries > 0 => CanConnect))
    /\ \/ /\ mtries + 1 < MaxAttempts /\ ~CtxDone
          /\ mtries' = mtries + 1
          /\ UNCHANGED <<pc, err, dumpErr>>
       \/ /\ mtries + 1 = MaxAttempts \/ CtxDone
          /\ mtries' = 0
          /\ \E e \in CtxErrors : ProducerStops(e)
    /\ UNCHANGED <<conf, server, controller, closing, mbuf, todo, tables, cur, work, mconn,
                   channel, whole, cancelled, groupErr, writers, file, metadata>>

\* The pg_dump child process of ShowCreateTable or ShowCreateView fails: no retry.
PgDumpFails ==
    /\ pc = "produce" /\ work = <<>> /\ cur = <<>> /\ tables # <<>> /\ ~conf.NoSchemas
    /\ mtries > 0 => CanConnect
    /\ Fails(~CtxDone)
    /\ mtries' = 0
    /\ \E e \in CtxErrors : ProducerStops(e)
    /\ UNCHANGED <<conf, server, controller, closing, mbuf, todo, tables, cur, work, mconn,
                   channel, whole, cancelled, groupErr, writers, file, metadata>>

\* The tasks ts as they are handed to the channel, their text read now.
Messages(ts) == [i \in 1..Len(ts) |-> Msg(ts[i], version)]

\* range allTables: the next schema, in the random order of a Go map.
DumpSchema(s) ==
    /\ pc = "produce" /\ work = <<>> /\ cur = <<>> /\ tables = <<>> /\ s \in todo
    /\ todo' = todo \ {s}
    /\ tables' = Pairs(s)
    /\ work' = Messages(SchemaTasks(conf, s))
    /\ UNCHANGED <<conf, server, controller, main, cur, mconn, mtries, channel, whole, cancelled,
                   groupErr, writers, file, metadata, faults>>

\* dumpTableMeta for the next table. The DDL comes from pg_dump, a session of
\* its own that knows nothing of the exported snapshot.
DumpTableMeta ==
    /\ pc = "produce" /\ work = <<>> /\ cur = <<>> /\ tables # <<>>
    /\ QuerySucceeds
    /\ tables' = Tail(tables)
    /\ work' = Messages(TableMetaTasks(conf, Head(tables)))
    /\ cur' = IF HasData(conf, Head(tables)[2]) THEN <<Head(tables)>> ELSE <<>>
    /\ UNCHANGED <<conf, server, controller, main, todo, channel, whole, cancelled, groupErr,
                   writers, file, metadata>>

\* dumpTableData: the chunks of the table whose meta task has been sent.
DumpTableData ==
    /\ pc = "produce" /\ work = <<>> /\ cur # <<>>
    /\ QuerySucceeds
    /\ work' = Messages(DataTasks(cur[1]))
    /\ cur' = <<>>
    /\ UNCHANGED <<conf, server, controller, main, todo, tables, channel, whole, cancelled,
                   groupErr, writers, file, metadata>>

\* concurrentDumpTable: a query that finds the chunking field, the row count,
\* the bounds or the pages fails for good, and the table is sent in one piece,
\* as its chunk 0.
FallBackToWhole ==
    /\ pc = "produce" /\ work = <<>> /\ cur # <<>>
    /\ mtries + 1 = MaxAttempts \/ CtxDone
    /\ Fails(~CtxDone /\ (mtries > 0 => CanConnect))
    /\ mtries' = 0
    /\ work' = Messages(<<DataTasks(cur[1])[1]>>)
    /\ whole' = whole \cup {<<cur[1][1], cur[1][2].name>>}
    /\ cur' = <<>>
    /\ UNCHANGED <<conf, server, controller, main, todo, tables, mconn, channel, cancelled,
                   groupErr, writers, file, metadata>>

\* Mutant of SendTask: the task is taken by infiniteChan and forgotten.
SendTaskLost ==
    /\ pc = "produce" /\ work # <<>>
    /\ work' = Tail(work)
    /\ UNCHANGED <<conf, server, controller, main, todo, tables, cur, mconn, mtries, channel,
                   whole, cancelled, groupErr, writers, file, metadata, faults>>

\* sendTaskToChan, the send is chosen (also when the context is done as well).
SendTask ==
    /\ pc = "produce" /\ work # <<>>
    /\ q' = Append(q, Head(work))
    /\ work' = Tail(work)
    /\ UNCHANGED <<conf, server, controller, main, todo, tables, cur, mconn, mtries, inClosed,
                   whole, cancelled, groupErr, writers, file, metadata, faults>>

\* sendTaskToChan, ctx.Done is chosen: --sql ignores it, a chunk of a ctid
\* table is replaced by the whole table, any other task ends the producer.
SendAborted ==
    LET t == Head(work).task
    IN /\ pc = "produce" /\ work # <<>> /\ CtxDone
       /\ \/ /\ conf.SQL
             /\ work' = <<>>
             /\ UNCHANGED <<pc, err, dumpErr>>
          \/ /\ ~conf.SQL /\ t.kind = "data" /\ CtidTable(t)
             /\ work' = <<Msg(WholeTask(t), version)>>
             /\ UNCHANGED <<pc, err, dumpErr>>
          \/ /\ ~conf.SQL /\ ~(t.kind = "data" /\ CtidTable(t))
             /\ ProducerStops("canceled")
             /\ UNCHANGED work
       /\ UNCHANGED <<conf, server, controller, closing, mbuf, todo, tables, cur, mconn,
                      mtries, channel, whole, cancelled, groupErr, writers, file, metadata, faults>>

\* The producer returns nil.
ProducerDone ==
    /\ pc = "produce" /\ work = <<>> /\ cur = <<>> /\ tables = <<>> /\ todo = {}
    /\ err' = "nil" /\ pc' = "close"
    /\ UNCHANGED <<conf, server, controller, dumpErr, closing, mbuf, producer, channel,
                   cancelled, groupErr, writers, file, metadata, faults>>
-----------------------------------------------------------------------------
(* The end of Dump and its deferred calls, last registered first. *)

CloseTaskIn ==
    /\ pc = "close"
    /\ inClosed' = TRUE /\ mconn' = Closed /\ pc' = "wait"
    /\ UNCHANGED <<conf, server, controller, err, dumpErr, closing, mbuf, todo, tables, cur,
                   work, mtries, q, whole, cancelled, groupErr, writers, file, metadata, faults>>

\* wg.Wait. Its error lives in a variable of its own: err keeps what the
\* producer left there.
WaitWriters ==
    /\ pc = "wait"
    /\ \A w \in Writers : wst[w] = "exited"
    /\ \/ groupErr /\ Return("fail", "dWriters") /\ UNCHANGED mbuf
       \/ ~groupErr /\ Return("nil", "dWriters") /\ mbuf' = mbuf \cup {"finish"}
    /\ UNCHANGED <<conf, server, controller, err, closing, producer, channel, cancelled,
                   groupErr, writers, file, metadata, faults>>

\* tearDownWriters: closing a connection waits for the rows being read on it.
TearDownWriters ==
    /\ pc = "dWriters"
    /\ \/ /\ closing <= Threads /\ wst[closing] # "read"
          /\ wconn' = [wconn EXCEPT ![closing] = Closed]
          /\ closing' = closing + 1
          /\ UNCHANGED pc
       \/ /\ closing > Threads
          /\ pc' = "dConsistency"
          /\ UNCHANGED <<wconn, closing>>
    /\ UNCHANGED <<conf, server, controller, err, dumpErr, mbuf, producer, channel, cancelled,
                   groupErr, wst, wmsg, wtries, wread, file, metadata, faults>>

\* Mutant of DeferTearDown: OnFailure is not called.
DeferTearDownOnly ==
    /\ pc = "dConsistency"
    /\ ctlConn' = FALSE /\ cdcConn' = FALSE /\ mconn' = Closed
    /\ pc' = "dMetadata"
    /\ UNCHANGED <<conf, server, madeSlot, token, err, dumpErr, closing, mbuf, todo, tables,
                   cur, work, mtries, channel, whole, cancelled, groupErr, writers, file, metadata, faults>>

\* The deferred TearDown (its error is only logged); OnFailure follows when err is set.
DeferTearDown ==
    /\ pc = "dConsistency"
    /\ ctlConn' = FALSE /\ cdcConn' = FALSE /\ mconn' = Closed
    /\ pc' = IF err # "nil" THEN "dOnFailure" ELSE "dMetadata"
    /\ UNCHANGED <<conf, server, madeSlot, token, err, dumpErr, closing, mbuf, todo, tables,
                   cur, work, mtries, channel, whole, cancelled, groupErr, writers, file, metadata, faults>>

\* Mutant of OnFailure: the slot is dropped under a context that cannot be cancelled.
OnFailureUncancelled ==
    /\ pc = "dOnFailure"
    /\ slot' = IF madeSlot /\ conf.CDCCleanupOnFailure THEN Absent ELSE slot
    /\ pc' = "dMetadata"
    /\ UNCHANGED <<conf, version, userAlive, controller, err, dumpErr, closing, mbuf, producer,
                   channel, cancelled, groupErr, writers, file, metadata, faults>>

\* OnFailure: DROP_REPLICATION_SLOT from a fresh connection, after closing the
\* one that created the slot. Its error is only logged.
OnFailure ==
    /\ pc = "dOnFailure"
    /\ \/ /\ ~(madeSlot /\ conf.CDCCleanupOnFailure)
          /\ UNCHANGED <<slot, cdcConn, faults>>
       \/ /\ madeSlot /\ conf.CDCCleanupOnFailure
          /\ cdcConn' = FALSE
          /\ \/ ~cancelled /\ slot' = Absent /\ UNCHANGED faults
             \/ Fails(~cancelled) /\ UNCHANGED slot
    /\ pc' = "dMetadata"
    /\ UNCHANGED <<conf, version, userAlive, ctlConn, madeSlot, token, err, dumpErr, closing,
                   mbuf, producer, channel, cancelled, groupErr, writers, file, metadata>>

\* Mutant of WriteMetadata: the deferred call does not look at the result.
WriteMetadataAnyway ==
    /\ pc = "dMetadata"
    /\ metadata' = mbuf \cup {"finish"}
    /\ pc' = "done"
    /\ UNCHANGED <<conf, server, controller, err, dumpErr, closing, mbuf, producer, channel,
                   cancelled, groupErr, writers, file, faults>>

\* writeGlobalMetaData for a nil result; its error is dropped.
WriteMetadata ==
    /\ pc = "dMetadata"
    /\ \/ dumpErr # "nil" /\ UNCHANGED <<metadata, faults>>
       \/ dumpErr = "nil" /\ metadata' = mbuf /\ UNCHANGED faults
       \/ dumpErr = "nil" /\ Fails(~cancelled) /\ metadata' \in {{}, {"torn"}}
    /\ pc' = "done"
    /\ UNCHANGED <<conf, server, controller, err, dumpErr, closing, mbuf, producer, channel,
                   cancelled, groupErr, writers, file>>
-----------------------------------------------------------------------------
(* Writer goroutines: run, handleTask, WriteTableData. *)

\* run receives a task (also when its context is done as well).
TakeTask(w) ==
    /\ wst[w] = "idle" /\ q # <<>>
    /\ q' = Tail(q)
    /\ wmsg' = [wmsg EXCEPT ![w] = Head(q)]
    /\ wtries' = [wtries EXCEPT ![w] = 1]
    /\ wst' = [wst EXCEPT ![w] = IF IsData(Head(q).task) THEN "query" ELSE "meta"]
    /\ UNCHANGED <<conf, server, controller, main, producer, inClosed, cancelled, groupErr,
                   wconn, wread, file, metadata, faults>>

\* Mutant of ExitNil: run does not notice that the channel is closed.
ExitNilOnContext(w) ==
    /\ wst[w] = "idle" /\ CtxDone
    /\ wst' = [wst EXCEPT ![w] = "exited"]
    /\ UNCHANGED <<conf, server, controller, main, producer, channel, cancelled, groupErr,
                   wmsg, wtries, wconn, wread, file, metadata, faults>>

\* Mutant of ExitNil: run does not notice that its context is done.
ExitNilOnClose(w) ==
    /\ wst[w] = "idle" /\ inClosed /\ q = <<>>
    /\ wst' = [wst EXCEPT ![w] = "exited"]
    /\ UNCHANGED <<conf, server, controller, main, producer, channel, cancelled, groupErr,
                   wmsg, wtries, wconn, wread, file, metadata, faults>>

\* run returns nil: its context is done, or the channel is closed and drained.
ExitNil(w) ==
    /\ wst[w] = "idle"
    /\ CtxDone \/ (inClosed /\ q = <<>>)
    /\ wst' = [wst EXCEPT ![w] = "exited"]
    /\ UNCHANGED <<conf, server, controller, main, producer, channel, cancelled, groupErr,
                   wmsg, wtries, wconn, wread, file, metadata, faults>>

\* The task is finished; the callbacks only count.
FinishTask(w, v) ==
    /\ file' = [file EXCEPT ![FileOf(wmsg[w].task)] = v]
    /\ wst' = [wst EXCEPT ![w] = "idle"]
    /\ wmsg' = [wmsg EXCEPT ![w] = NoMsg]
    /\ wtries' = [wtries EXCEPT ![w] = 0]
    /\ wread' = [wread EXCEPT ![w] = Absent]
    /\ UNCHANGED <<groupErr, wconn>>

\* Mutant of ExitWithError: run logs the error and returns nil.
ExitWithoutError(w) ==
    /\ wst' = [wst EXCEPT ![w] = "exited"]
    /\ wmsg' = [wmsg EXCEPT ![w] = NoMsg]
    /\ wtries' = [wtries EXCEPT ![w] = 0]
    /\ wread' = [wread EXCEPT ![w] = Absent]
    /\ UNCHANGED <<groupErr, wconn>>

\* handleTask fails: run returns the error and the errgroup cancels its context.
ExitWithError(w) ==
    /\ groupErr' = TRUE
    /\ wst' = [wst EXCEPT ![w] = "exited"]
    /\ wmsg' = [wmsg EXCEPT ![w] = NoMsg]
    /\ wtries' = [wtries EXCEPT ![w] = 0]
    /\ wread' = [wread EXCEPT ![w] = Absent]
    /\ UNCHANGED wconn

\* A failed write leaves the file as it was, or incomplete.
SpoilFile(w) ==
    \E v \in {file[FileOf(wmsg[w].task)], Torn} :
        file' = [file EXCEPT ![FileOf(wmsg[w].task)] = v]

\* WriteDatabaseMeta, WriteTableMeta, WriteViewMeta, WriteSequenceMeta: no retry.
WriteMeta(w) ==
    /\ wst[w] = "meta"
    /\ \/ FinishTask(w, wmsg[w].at) /\ UNCHANGED faults
       \/ Fails(~CtxDone) /\ SpoilFile(w) /\ ExitWithError(w)
    /\ UNCHANGED <<conf, server, controller, main, producer, channel, cancelled, metadata>>

\* Mutant of AttemptFailed: the first error is final.
AttemptFailedNoRetry(w) == ExitWithError(w)

\* WithRetry after a failed attempt: the error is final when no attempt is
\* left or the context is done; otherwise the writer backs off.
AttemptFailed(w) ==
    \/ /\ wtries[w] = MaxAttempts \/ CtxDone
       /\ ExitWithError(w)
    \/ /\ wtries[w] < MaxAttempts
       /\ wst' = [wst EXCEPT ![w] = "backoff"]
       /\ wread' = [wread EXCEPT ![w] = Absent]
       /\ UNCHANGED <<groupErr, wmsg, wtries, wconn>>

\* ir.Start: the chunk's query on the writer's connection and context.
StartQuery(w) ==
    LET ok == ~CtxDone /\ wconn[w] # Closed
    IN /\ wst[w] = "query"
       /\ \/ /\ ok
             /\ wst' = [wst EXCEPT ![w] = "read"]
             /\ wread' = [wread EXCEPT ![w] = ReadView(wconn[w])]
             /\ UNCHANGED <<groupErr, wmsg, wtries, wconn, faults>>
          \/ Fails(ok) /\ AttemptFailed(w)
       /\ UNCHANGED <<conf, server, controller, main, producer, channel, cancelled, file, metadata>>

\* tryToWriteTableData: all rows reach the file, or reading or writing fails.
WriteRows(w) ==
    /\ wst[w] = "read"
    /\ \/ FinishTask(w, wread[w]) /\ UNCHANGED faults
       \/ Fails(~CtxDone) /\ SpoilFile(w) /\ AttemptFailed(w)
    /\ UNCHANGED <<conf, server, controller, main, producer, channel, cancelled, metadata>>

\* The back-off ends with the next attempt, or with the context.
EndBackoff(w) ==
    /\ wst[w] = "backoff"
    /\ \/ /\ wst' = [wst EXCEPT ![w] = "rebuild"]
          /\ wtries' = [wtries EXCEPT ![w] = @ + 1]
          /\ UNCHANGED <<groupErr, wmsg, wconn, wread>>
       \/ CtxDone /\ ExitWithError(w)
    /\ UNCHANGED <<conf, server, controller, main, producer, channel, cancelled, file,
                   metadata, faults>>

\* rebuildConn: the controller must still hold its connection, then the bad
\* connection is replaced by a new one on the same snapshot.
RebuildConn(w) ==
    LET ok == (Repeatable => ctlConn) /\ CanConnect
    IN /\ wst[w] = "rebuild"
       /\ \/ /\ ok
             /\ wconn' = [wconn EXCEPT ![w] = NewConn]
             /\ wst' = [wst EXCEPT ![w] = "query"]
             /\ UNCHANGED <<groupErr, wmsg, wtries, wread, faults>>
          \/ Fails(ok) /\ AttemptFailed(w)
       /\ UNCHANGED <<conf, server, controller, main, producer, channel, cancelled, file, metadata>>
-----------------------------------------------------------------------------
(* The environment. *)

\* Some other session commits.
OtherCommit ==
    /\ version < MaxVersion
    /\ version' = version + 1
    /\ UNCHANGED <<conf, slot, userAlive, controller, main, producer, channel, cancelled,
                   groupErr, writers, file, metadata, faults>>

\* The session behind --snapshot ends.
UserSessionEnds ==
    /\ conf.Snapshot = "user" /\ userAlive
    /\ userAlive' = FALSE
    /\ UNCHANGED <<conf, version, slot, controller, main, producer, channel, cancelled,
                   groupErr, writers, file, metadata, faults>>

\* The caller cancels the context, or calls Close: during Dump if it may, and
\* always after Dump has returned.
Close ==
    /\ ~cancelled
    /\ MayCancel \/ pc = "done"
    /\ cancelled' = TRUE
    /\ UNCHANGED <<conf, server, controller, main, producer, channel, groupErr, writers,
                   file, metadata, faults>>

MainStep ==
    \/ NewConsistencyController \/ CreateCDCSlot \/ BeginSnapshot \/ OpenMetaConn
    \/ PrepareTableList \/ (\E w \in Writers : StartWriter(w)) \/ ReleaseSnapshot
    \/ QueryFails \/ PgDumpFails \/ (\E s \in Schemas : DumpSchema(s))
    \/ DumpTableMeta \/ DumpTableData \/ FallBackToWhole \/ SendTask \/ SendAborted
    \/ ProducerDone \/ CloseTaskIn \/ WaitWriters
    \/ TearDownWriters \/ DeferTearDown \/ OnFailure \/ WriteMetadata

WriterStep(w) ==
    \/ TakeTask(w) \/ ExitNil(w) \/ WriteMeta(w) \/ StartQuery(w) \/ WriteRows(w)
    \/ EndBackoff(w) \/ RebuildConn(w)

Environment == OtherCommit \/ UserSessionEnds \/ Close

\* Dump has returned, the dumper is closed and no writer is left.
Terminated ==
    /\ pc = "done" /\ cancelled
    /\ \A w \in Writers : wst[w] \in {"unstarted", "exited"}
    /\ UNCHANGED vars

Next == MainStep \/ (\E w \in Writers : WriterStep(w)) \/ Environment \/ Terminated

Spec == Init /\ [][Next]_vars

\* Every goroutine keeps running, its calls return, and main calls Close.
FairSpec ==
    /\ Spec
    /\ WF_vars(MainStep)
    /\ \A w \in Writers : WF_vars(WriterStep(w))
    /\ WF_vars(pc = "done" /\ Close)
-----------------------------------------------------------------------------
(* Properties. *)

Labels == {"new", "slot", "begin", "metaConn", "prepare", "start", "release", "produce",
           "close", "wait", "dWriters", "dConsistency", "dOnFailure", "dMetadata", "done"}

Kinds == {"schema", "table", "view", "sequence", "data", "whole"}

Tasks == [kind : Kinds, sch : Schemas \cup {"-"}, tbl : TableNames \cup {"-"}, chunk : Nat]

Msgs == [task : Tasks, at : Versions \cup {Absent}]

Conns == Versions \cup {Closed, Live}

WriterStates == {"unstarted", "idle", "meta", "query", "read", "backoff", "rebuild", "exited"}

TypeServer ==
    /\ conf \in Configs
    /\ version \in Versions /\ slot \in Versions \cup {Absent} /\ userAlive \in BOOLEAN
    /\ ctlConn \in BOOLEAN /\ cdcConn \in BOOLEAN /\ madeSlot \in BOOLEAN
    /\ token \in [src : {"none", "export", "cdc", "user"}, at : Versions]

TypeMain ==
    /\ pc \in Labels /\ err \in {"nil", "canceled", "fail"} /\ dumpErr \in {"nil", "fail"}
    /\ closing \in 1..(Threads + 1) /\ mbuf \subseteq {"start", "cdc", "finish"}
    /\ cancelled \in BOOLEAN /\ groupErr \in BOOLEAN

TypeProducer ==
    /\ todo \subseteq Schemas
    /\ tables \in Seq(Schemas \X TableInfo)
    /\ cur \in Seq(Schemas \X TableInfo) /\ Len(cur) <= 1
    /\ work \in Seq(Msgs) /\ mconn \in Conns /\ mtries \in 0..MaxAttempts
    /\ whole \subseteq Schemas \X TableNames
    /\ q \in Seq(Msgs) /\ inClosed \in BOOLEAN

TypeWriters ==
    /\ wst \in [Writers -> WriterStates] /\ wmsg \in [Writers -> Msgs]
    /\ wtries \in [Writers -> 0..MaxAttempts] /\ wconn \in [Writers -> Conns]
    /\ wread \in [Writers -> Versions \cup {Absent}]
    /\ \A w \in Writers : wst[w] = "backoff" => wtries[w] < MaxAttempts

TypeOutput ==
    /\ file \in [AllTasks -> Versions \cup {Absent, Torn}]
    /\ metadata \subseteq {"start", "cdc", "finish", "torn"}
    /\ faults \in 0..MaxFaults

\* Type correctness of the whole state.
TypeOK == TypeServer /\ TypeMain /\ TypeProducer /\ TypeWriters /\ TypeOutput

\* The deferred calls have begun: the result of Dump is decided.
Returning == pc \in {"dWriters", "dConsistency", "dOnFailure", "dMetadata", "done"}

\* Chunks that do not exist because their table was sent in one piece.
Superseded(t) == IsData(t) /\ t.chunk # 0 /\ <<t.sch, t.tbl>> \in whole

Delivered == \A t \in Plan(conf) : Superseded(t) \/ file[t] \in Versions

\* A nil result of Dump means that every schema, table and chunk file was
\* written to its end and no writer is left running, unless the caller
\* cancelled the context (Dump, dump.go:241-262).
CompleteOnSuccess ==
    Returning /\ dumpErr = "nil" /\ ~cancelled =>
        Delivered /\ \A w \in Writers : wst[w] = "exited"

\* With --consistency snapshot every data file shows the one exported
\* snapshot: no retry, rebuilt connection or late writer reads another
\* version (createConnWithConsistency, rebuildConn).
OneSnapshot ==
    Repeatable => \A t \in AllTasks : IsData(t) /\ file[t] \in Versions => file[t] = token.at

\* Without any injected error, cancellation or end of the user's session the
\* dump succeeds: the snapshot outlives the last connection that adopts it
\* (Setup, startWriters, TearDown at dump.go:207).
NoSpuriousFailure ==
    Returning /\ faults = 0 /\ ~cancelled /\ userAlive => dumpErr = "nil"

\* A successful dump never loses the slot it created, also when the producer
\* was interrupted and the deferred clean-up ran (dump.go:124-133).
SlotKeptOnSuccess == Returning /\ dumpErr = "nil" /\ madeSlot => slot # Absent

\* What the metadata file says is true: it names a CDC slot iff one was
\* created, its consistent point is the snapshot of the data, and the files
\* of a dump it calls finished are all there (writeGlobalMetaData).
MetadataTrue ==
    "finish" \in metadata =>
        /\ dumpErr = "nil"
        /\ "cdc" \in metadata <=> madeSlot
        /\ madeSlot => slot = token.at
        /\ ~cancelled => Delivered

\* One error outside the writers, after Setup, fails the dump and drops the
\* slot (OnFailure, dump.go:128).
MainFailureDropsSlot ==
    pc = "done" /\ dumpErr = "fail" /\ faults = 1 /\ ~cancelled /\ ~groupErr
        /\ madeSlot /\ token.src # "none" /\ conf.CDCCleanupOnFailure => slot = Absent

\* No step touches a file that was written to its end: each task is handled
\* by one writer and retried only while it fails.
FinishedFileIsFinal ==
    [][\A t \in AllTasks : file[t] \in Versions => file'[t] = file[t]]_vars

\* Dump returns: the producer, wg.Wait and the deferred calls all end.
DumpReturns == <>(pc = "done")

\* Once the caller has closed the dumper (Close), every goroutine of startWriters ends.
WritersEnd == <>[](\A w \in Writers : wst[w] \in {"unstarted", "exited"})

\* The flag help of --cdc-cleanup-on-failure for an error in a writer.
WriterFailureDropsSlot ==
    pc = "done" /\ dumpErr = "fail" /\ faults = 1 /\ ~cancelled /\ groupErr
        /\ madeSlot /\ conf.CDCCleanupOnFailure => slot = Absent

\* A retry is worth something: where connections can be rebuilt, a writer
\* gives a chunk up only after MaxAttempts attempts failed for a reason of
\* their own (WithRetry, rebuildConn; --no-schemas leaves data tasks only).
GivesUpAfterRetries ==
    conf.NoSchemas /\ userAlive /\ ~cancelled /\ groupErr
        /\ pc \in {"produce", "close", "wait"}
        /\ (Repeatable => ~conf.TransactionalConsistency) => faults >= MaxAttempts

\* The same, promised by "with retry" for the default configuration as well.
RetriesByDefault ==
    conf.NoSchemas /\ ~cancelled /\ groupErr /\ pc \in {"produce", "close", "wait"}
        => faults >= MaxAttempts
-----------------------------------------------------------------------------
(* Dump implements DumpJob. *)

Phase == CASE ~Returning -> "running"
           [] Returning /\ dumpErr = "nil" -> "succeeded"
           [] OTHER -> "failed"

Planned == {t \in Plan(conf) : ~Superseded(t)}

Written == {t \in Planned : file[t] \in Versions}

Job == INSTANCE DumpJob WITH
    Everything <- AllTasks, plan <- Planned, phase <- Phase, written <- Written,
    held <- (slot # Absent), finished <- ("finish" \in metadata)

\* Every behaviour of Dump is a behaviour of the job it promises to be.
ImplementsJob == Job!Spec
-----------------------------------------------------------------------------
(* The inductive invariant behind CompleteOnSuccess, OneSnapshot and the *)
(* implementation of DumpJob.                                            *)

Early == pc \in {"new", "slot", "begin", "metaConn", "prepare"}
Producing == pc \in {"start", "release", "produce"}
Draining == pc \in {"close", "wait"}
Succeeded == Returning /\ dumpErr = "nil"

Busy(w) == wst[w] \in {"meta", "query", "read", "backoff", "rebuild"}

\* What the producer has still to send.
TasksReady == {work[i].task : i \in 1..Len(work)}
TasksOfCur == UNION {ToSet(DataTasks(p)) : p \in ToSet(cur)}
TasksOfTables == UNION {TableTasks(conf, p) : p \in ToSet(tables)}
TasksOfTodo == UNION {TasksOfSchema(conf, s) : s \in todo}
Remaining == TasksReady \cup TasksOfCur \cup TasksOfTables \cup TasksOfTodo

Queued(t) == \E i \in 1..Len(q) : q[i].task = t
InHand(t) == \E w \in Writers : Busy(w) /\ wmsg[w].task = t

\* No task of the plan is ever lost while the context is alive.
NothingLost ==
    (Producing \/ Draining \/ Succeeded) /\ ~CtxDone =>
        \A t \in Plan(conf) :
            \/ t \in Remaining \/ Queued(t) \/ InHand(t)
            \/ Superseded(t) \/ file[t] \in Versions

\* A producer that ended without an error has nothing left to send.
ProducerExhausted ==
    (Draining \/ Succeeded) /\ ~CtxDone =>
        work = <<>> /\ cur = <<>> /\ tables = <<>> /\ todo = {}

\* Why the main goroutine and the writers may have ended.
Endings ==
    /\ inClosed => pc = "wait" \/ Returning
    /\ \A w \in Writers : wst[w] = "exited" => CtxDone \/ (inClosed /\ q = <<>>)
    /\ Succeeded => ~groupErr /\ \A w \in Writers : wst[w] = "exited"
    /\ Draining => err = "nil" \/ CtxDone
    /\ Succeeded => err = "nil" \/ cancelled
    /\ pc = "dOnFailure" => err # "nil"
    /\ "finish" \in mbuf => Succeeded

\* DDL carries its text, and a whole table stands in for chunks only after
\* the context is done.
GoodMsg(m, done) == /\ IsData(m.task) \/ m.at \in Versions
                    /\ m.task.kind = "whole" => done

MessagesGood ==
    /\ \A i \in 1..Len(work) : GoodMsg(work[i], CtxDone)
    /\ \A i \in 1..Len(q) : GoodMsg(q[i], CtxDone)
    /\ \A w \in Writers : Busy(w) => GoodMsg(wmsg[w], CtxDone)
    /\ \A w \in Writers : wst[w] = "meta" => ~IsData(wmsg[w].task)
    /\ \A w \in Writers : wst[w] = "read" => wread[w] \in Versions

\* Every connection and every result set shows the exported snapshot.
SnapshotShared ==
    /\ Early => \A w \in Writers : wst[w] = "unstarted"
    /\ Early => \A t \in AllTasks : file[t] = Absent
    /\ Repeatable => \A w \in Writers :
           /\ wst[w] # "unstarted" => wconn[w] \in {Closed, token.at}
           /\ wst[w] = "read" => wread[w] = token.at

\* The slot of a dump that has not failed exists, at the point of the
\* snapshot, and the metadata buffer names it.
SlotTracked ==
    /\ ~Returning => dumpErr = "nil"
    /\ pc \in {"new", "slot"} => ~madeSlot /\ slot = Absent
    /\ pc \in {"new", "slot", "begin", "metaConn"} => mbuf = {}
    /\ metadata # {} => pc = "done" /\ dumpErr = "nil"
    /\ madeSlot /\ (~Returning \/ Succeeded) => slot \in Versions
    /\ madeSlot /\ dumpErr = "nil" /\ pc \notin {"new", "slot", "begin"} => token.at = slot
    /\ "cdc" \in mbuf => madeSlot
    /\ madeSlot /\ dumpErr = "nil" /\ pc \notin {"new", "slot", "begin", "metaConn"}
           => "cdc" \in mbuf
    /\ "finish" \in metadata => ("cdc" \in metadata <=> madeSlot)

\* The slot of a failed dump goes, unless the failure came before Setup had
\* ended, or a writer's error is the only one.
FailureCleansUp ==
    /\ pc \in {"new", "slot", "begin"} => token.src = "none"
    /\ madeSlot => conf.Snapshot # "user"
    /\ conf.Snapshot # "user" => userAlive
    /\ dumpErr = "fail" => err = "fail" \/ groupErr
    /\ pc \in {"dMetadata", "done"} /\ dumpErr = "fail" /\ ~cancelled /\ ~groupErr
           /\ madeSlot /\ token.src # "none" /\ conf.CDCCleanupOnFailure
           => slot = Absent \/ faults > 1

\* Somebody may still have to adopt the exported snapshot.
SnapshotNeeded ==
    \/ pc \in {"metaConn", "prepare", "start"}
    \/ pc \in {"produce", "close", "wait"} /\ ~conf.TransactionalConsistency

\* Whoever exported the snapshot stays as long as it is needed.
SnapshotHeld ==
    /\ pc \in {"slot", "begin"} => Repeatable /\ ctlConn
    /\ pc = "slot" => conf.Snapshot # "user"
    /\ pc = "begin" /\ madeSlot => cdcConn
    /\ pc = "release" => conf.TransactionalConsistency
    /\ SnapshotNeeded /\ Repeatable => ctlConn /\ (userAlive => TokenAlive)
    /\ ~Returning => \A w \in Writers : wst[w] # "unstarted" => wconn[w] # Closed

\* As long as nothing outside the program fails, nothing in it does.
NoneFailed ==
    faults = 0 /\ ~cancelled /\ userAlive =>
        /\ err = "nil" /\ dumpErr = "nil" /\ ~groupErr /\ mtries = 0
        /\ \A w \in Writers : wst[w] \notin {"backoff", "rebuild"}

\* With --no-schemas the writers see data only.
DataOnly ==
    conf.NoSchemas =>
        /\ \A i \in 1..Len(work) : IsData(work[i].task)
        /\ \A i \in 1..Len(q) : IsData(q[i].task)
        /\ \A w \in Writers : wst[w] # "meta"

\* Where connections can be rebuilt, every failed attempt has cost one error.
Retriable ==
    conf.NoSchemas /\ userAlive /\ ~cancelled /\ ~Returning
        /\ (Repeatable => ~conf.TransactionalConsistency)

AttemptsPaid ==
    Retriable =>
        /\ groupErr => faults >= MaxAttempts
        /\ \A w \in Writers : wst[w] \in {"query", "read", "rebuild"} => wtries[w] <= faults + 1
        /\ \A w \in Writers : wst[w] = "backoff" => wtries[w] <= faults

\* The tasks between the producer and the writers, in the order they will be taken.
Waiting == 1..(Len(q) + Len(work))
Pending(k) == IF k <= Len(q) THEN q[k].task ELSE work[k - Len(q)].task
IsPending(t) == \E k \in Waiting : Pending(k) = t

\* A task is in one place: waiting, in the hands of one writer, or in a
\* finished file.
OnePlace(t) ==
    /\ \A k, l \in Waiting : Pending(k) = t /\ Pending(l) = t => k = l
    /\ \A v, w \in Writers : Busy(v) /\ Busy(w) /\ wmsg[v].task = t /\ wmsg[w].task = t => v = w
    /\ IsPending(t) => ~InHand(t) /\ file[t] \notin Versions
    /\ InHand(t) => file[t] \notin Versions

Dealt(t) == IsPending(t) \/ InHand(t) \/ file[t] \in Versions

TableId(p) == <<p[1], p[2].name>>

\* The producer will still come to the schema or the table of t.
ToCome(t) ==
    \/ t.sch \in todo
    \/ \E i \in 1..Len(tables) : t.kind # "schema" /\ <<t.sch, t.tbl>> = TableId(tables[i])
    \/ \E i \in 1..Len(cur) : t.kind = "data" /\ <<t.sch, t.tbl>> = TableId(cur[i])

\* No task is handed out a second time while the first is waiting, in hand or done.
HandedOutOnce == \A t \in AllTasks : OnePlace(t) /\ (Dealt(t) => ~ToCome(t))

\* The loops of dumpDatabases come to each table once.
LoopsOnce ==
    /\ Early => work = <<>> /\ q = <<>> /\ tables = <<>> /\ cur = <<>>
    /\ \A i, j \in 1..Len(tables) : TableId(tables[i]) = TableId(tables[j]) => i = j
    /\ \A i \in 1..Len(tables) : tables[i][1] \notin todo
    /\ \A i \in 1..Len(cur) :
           /\ cur[i][1] \notin todo
           /\ \A j \in 1..Len(tables) : TableId(cur[i]) # TableId(tables[j])
    /\ \A w \in Writers : wst[w] = "read" => wmsg[w].task.kind # "whole"

\* The inductive invariant of Dump: no task is lost between dumpDatabases, the task
\* channel and the writers, none is handled twice, every connection shows the exported
\* snapshot, and every failure has a cause outside the program.
IInv ==
    /\ TypeOK /\ SlotTracked
    /\ NothingLost /\ ProducerExhausted /\ Endings /\ MessagesGood
    /\ SnapshotShared /\ OneSnapshot
    /\ FailureCleansUp /\ SnapshotHeld /\ NoneFailed /\ DataOnly /\ AttemptsPaid
    /\ LoopsOnce /\ HandedOutOnce
=============================================================================
