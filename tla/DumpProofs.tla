----------------------------- MODULE DumpProofs -----------------------------
(* Proofs about Dump for every value of its constants. *)
EXTENDS Dump, TLAPS

LEMMA ConstFacts ==
    /\ Absent \in Versions \cup {Absent}
    /\ 0 \in Versions
    /\ Closed \in Conns
    /\ Live \in Conns
    /\ Versions \subseteq Conns
    /\ Threads \in Nat /\ Threads > 0
    /\ MaxAttempts \in Nat /\ MaxFaults \in Nat /\ MaxVersion \in Nat
    /\ Absent \notin Versions /\ Torn \notin Versions
  BY ConstantsAssumption DEF ConstantsAssumption, Versions, Absent, Conns, Torn

LEMMA SqlTaskType == SqlTask \in Tasks
  BY DEF SqlTask, Task, Tasks, Kinds

LEMMA NoMsgType == NoMsg \in Msgs
  BY SqlTaskType, ConstFacts DEF NoMsg, Msg, Msgs

\* A connection opened now shows a version or is outside any snapshot.
LEMMA NewConnType == ASSUME TypeServer PROVE NewConn \in Conns
  BY ConstFacts DEF TypeServer, NewConn

LEMMA ReadViewType ==
    ASSUME TypeServer, NEW c \in Conns, c # Closed PROVE ReadView(c) \in Versions
  BY ConstFacts DEF TypeServer, ReadView, Conns

\* The tasks the producer builds are well formed.
LEMMA SchemaTasksType ==
    ASSUME NEW c, NEW s \in Schemas PROVE SchemaTasks(c, s) \in Seq(Tasks)
<1>1. Task("schema", s, "-", 0) \in Tasks
  BY DEF Task, Tasks, Kinds
<1>2. QED BY <1>1 DEF SchemaTasks

LEMMA TableMetaTasksType ==
    ASSUME NEW c, NEW p \in Schemas \X TableInfo PROVE TableMetaTasks(c, p) \in Seq(Tasks)
<1>1. MetaKind(p[2]) \in Kinds /\ p[1] \in Schemas /\ p[2].name \in TableNames
  BY DEF MetaKind, Kinds, TableInfo
<1>2. Task(MetaKind(p[2]), p[1], p[2].name, 0) \in Tasks
  BY <1>1 DEF Task, Tasks
<1>3. QED BY <1>2 DEF TableMetaTasks

LEMMA DataTasksType ==
    ASSUME NEW p \in Schemas \X TableInfo PROVE DataTasks(p) \in Seq(Tasks)
<1>1. p[1] \in Schemas /\ p[2].name \in TableNames /\ p[2].chunks \in Nat
  BY DEF TableInfo
<1>2. \A i \in 1..p[2].chunks : Task("data", p[1], p[2].name, i - 1) \in Tasks
  BY <1>1 DEF Task, Tasks, Kinds
<1>3. QED BY <1>1, <1>2 DEF DataTasks

LEMMA FirstChunk ==
    ASSUME NEW p \in Schemas \X TableInfo
    PROVE  /\ DataTasks(p)[1] \in Tasks
           /\ DataTasks(p)[1] = Task("data", p[1], p[2].name, 0)
<1>1. p[2].chunks \in Nat \ {0}
  BY DEF TableInfo
<1>2. 1 \in 1..p[2].chunks
  BY <1>1
<1>3. DataTasks(p)[1] = Task("data", p[1], p[2].name, 1 - 1)
  BY <1>2 DEF DataTasks
<1>4. Len(DataTasks(p)) = p[2].chunks
  BY <1>1 DEF DataTasks
<1>5. DataTasks(p)[1] \in Tasks
  BY <1>2, <1>4, DataTasksType
<1>6. QED BY <1>3, <1>5

LEMMA PairsType ==
    ASSUME NEW s \in Schemas PROVE Pairs(s) \in Seq(Schemas \X TableInfo)
<1>1. TablesOf[s] \in Seq(TableInfo)
  BY ConstantsAssumption DEF ConstantsAssumption
<1>2. Len(TablesOf[s]) \in Nat /\ \A i \in 1..Len(TablesOf[s]) : TablesOf[s][i] \in TableInfo
  BY <1>1
<1>3. QED BY <1>2 DEF Pairs

LEMMA MessagesType ==
    ASSUME TypeServer, NEW ts \in Seq(Tasks)
    PROVE  /\ Messages(ts) \in Seq(Msgs)
           /\ Len(Messages(ts)) = Len(ts)
           /\ \A i \in 1..Len(ts) : Messages(ts)[i] = Msg(ts[i], version)
<1>1. Len(ts) \in Nat /\ \A i \in 1..Len(ts) : ts[i] \in Tasks
  OBVIOUS
<1>2. \A i \in 1..Len(ts) : Msg(ts[i], version) \in Msgs
  BY <1>1 DEF Msg, Msgs, TypeServer
<1>3. QED BY <1>1, <1>2 DEF Messages

LEMMA TypeInit == Init => TypeOK
<1> SUFFICES ASSUME Init PROVE TypeOK OBVIOUS
<1> USE ConstFacts
<1>1. TypeServer
  BY DEF Init, TypeServer
<1>2. TypeMain
  <2>1. closing \in 1..(Threads + 1) BY DEF Init
  <2>2. QED BY <2>1 DEF Init, TypeMain, Labels
<1>3. TypeProducer
  <2>1. <<>> \in Seq(Msgs) /\ <<>> \in Seq(Schemas \X TableInfo) /\ Len(<<>>) <= 1
    OBVIOUS
  <2>2. mtries \in 0..MaxAttempts BY DEF Init
  <2>3. QED BY <2>1, <2>2 DEF Init, TypeProducer
<1>4. TypeWriters
  BY NoMsgType DEF Init, TypeWriters, WriterStates
<1>5. TypeOutput
  BY DEF Init, TypeOutput
<1> QED BY <1>1, <1>2, <1>3, <1>4, <1>5 DEF TypeOK
-----------------------------------------------------------------------------
(* Which actions change what. *)

LEMMA NextCases ==
    ASSUME [Next]_vars
    PROVE  \/ MainStep
           \/ \E w \in Writers : WriterStep(w)
           \/ OtherCommit \/ UserSessionEnds \/ Close
           \/ UNCHANGED vars
  BY DEF Next, Environment, Terminated

LEMMA ServerFrame ==
    ASSUME [Next]_vars
    PROVE  \/ NewConsistencyController \/ CreateCDCSlot \/ BeginSnapshot \/ ReleaseSnapshot
           \/ DeferTearDown \/ OnFailure \/ OtherCommit \/ UserSessionEnds
           \/ UNCHANGED <<conf, server, controller>>
  BY NextCases
  DEF MainStep, OpenMetaConn, PrepareTableList, StartWriter, QueryFails, PgDumpFails, DumpSchema,
      DumpTableMeta, DumpTableData, FallBackToWhole, SendTask, SendAborted, ProducerDone, CloseTaskIn,
      WaitWriters, TearDownWriters, WriteMetadata, WriterStep, TakeTask, ExitNil, WriteMeta,
      StartQuery, WriteRows, EndBackoff, RebuildConn, Close, vars

LEMMA ConfFixed == ASSUME [Next]_vars PROVE conf' = conf
  BY ServerFrame
  DEF NewConsistencyController, CreateCDCSlot, BeginSnapshot, ReleaseSnapshot, DeferTearDown,
      OnFailure, OtherCommit, UserSessionEnds

LEMMA ProducerFrame ==
    ASSUME [Next]_vars
    PROVE  \/ OpenMetaConn \/ PrepareTableList \/ QueryFails \/ PgDumpFails
           \/ (\E s \in Schemas : DumpSchema(s))
           \/ DumpTableMeta \/ DumpTableData \/ FallBackToWhole \/ SendTask \/ SendAborted \/ CloseTaskIn
           \/ DeferTearDown \/ (\E w \in Writers : TakeTask(w))
           \/ UNCHANGED <<producer, channel>>
  BY NextCases
  DEF MainStep, NewConsistencyController, CreateCDCSlot, BeginSnapshot, StartWriter,
      ReleaseSnapshot, ProducerDone, WaitWriters, TearDownWriters, OnFailure, WriteMetadata,
      WriterStep, ExitNil, WriteMeta, StartQuery, WriteRows, EndBackoff, RebuildConn,
      OtherCommit, UserSessionEnds, Close, vars

LEMMA WriterFrame ==
    ASSUME [Next]_vars
    PROVE  \/ (\E w \in Writers : StartWriter(w)) \/ TearDownWriters
           \/ (\E w \in Writers : WriterStep(w))
           \/ UNCHANGED <<writers, groupErr>>
  BY NextCases
  DEF MainStep, NewConsistencyController, CreateCDCSlot, BeginSnapshot, OpenMetaConn,
      PrepareTableList, ReleaseSnapshot, QueryFails, PgDumpFails, DumpSchema, DumpTableMeta,
      DumpTableData, FallBackToWhole, SendTask, SendAborted, ProducerDone, CloseTaskIn, WaitWriters,
      DeferTearDown, OnFailure, WriteMetadata, OtherCommit, UserSessionEnds, Close, vars

LEMMA MainFrame ==
    ASSUME [Next]_vars
    PROVE  MainStep \/ UNCHANGED main
  BY NextCases
  DEF WriterStep, TakeTask, ExitNil, WriteMeta, StartQuery, WriteRows, EndBackoff, RebuildConn,
      OtherCommit, UserSessionEnds, Close, vars

LEMMA FileFrame ==
    ASSUME [Next]_vars
    PROVE  \/ \E w \in Writers : WriteMeta(w) \/ WriteRows(w)
           \/ UNCHANGED file
  BY NextCases
  DEF MainStep, NewConsistencyController, CreateCDCSlot, BeginSnapshot, OpenMetaConn,
      PrepareTableList, StartWriter, ReleaseSnapshot, QueryFails, PgDumpFails, DumpSchema,
      DumpTableMeta, DumpTableData, FallBackToWhole, SendTask, SendAborted, ProducerDone, CloseTaskIn,
      WaitWriters, TearDownWriters, DeferTearDown, OnFailure, WriteMetadata, WriterStep,
      TakeTask, ExitNil, StartQuery, EndBackoff, RebuildConn, OtherCommit, UserSessionEnds,
      Close, vars

LEMMA CancelFrame ==
    ASSUME [Next]_vars
    PROVE  Close \/ UNCHANGED cancelled
  BY NextCases
  DEF MainStep, NewConsistencyController, CreateCDCSlot, BeginSnapshot, OpenMetaConn,
      PrepareTableList, StartWriter, ReleaseSnapshot, QueryFails, PgDumpFails, DumpSchema,
      DumpTableMeta, DumpTableData, FallBackToWhole, SendTask, SendAborted, ProducerDone, CloseTaskIn,
      WaitWriters, TearDownWriters, DeferTearDown, OnFailure, WriteMetadata, WriterStep,
      TakeTask, ExitNil, WriteMeta, StartQuery, WriteRows, EndBackoff, RebuildConn,
      OtherCommit, UserSessionEnds, vars
LEMMA MetadataFrame ==
    ASSUME [Next]_vars
    PROVE  WriteMetadata \/ UNCHANGED metadata
  BY NextCases
  DEF MainStep, NewConsistencyController, CreateCDCSlot, BeginSnapshot, OpenMetaConn,
      PrepareTableList, StartWriter, ReleaseSnapshot, QueryFails, PgDumpFails, DumpSchema,
      DumpTableMeta, DumpTableData, FallBackToWhole, SendTask, SendAborted, ProducerDone, CloseTaskIn,
      WaitWriters, TearDownWriters, DeferTearDown, OnFailure, WriterStep,
      TakeTask, ExitNil, WriteMeta, StartQuery, WriteRows, EndBackoff, RebuildConn,
      OtherCommit, UserSessionEnds, Close, vars
-----------------------------------------------------------------------------
(* Type correctness. *)

LEMMA TypeServerStep == ASSUME TypeOK, SlotTracked, [Next]_vars PROVE TypeServer'
<1> USE ConstFacts DEF TypeOK, TypeServer
<1>1. CASE NewConsistencyController
  BY <1>1 DEF NewConsistencyController, server, Repeatable
<1>2. CASE CreateCDCSlot
  BY <1>2 DEF CreateCDCSlot
<1>3. CASE BeginSnapshot
  <2>1. madeSlot => slot \in Versions
    BY <1>3 DEF BeginSnapshot, SlotTracked, Returning
  <2>2. SnapshotToken \in [src : {"none", "export", "cdc", "user"}, at : Versions]
    BY <2>1 DEF SnapshotToken
  <2>3. QED BY <1>3, <2>2 DEF BeginSnapshot, server
<1>4. CASE ReleaseSnapshot
  BY <1>4 DEF ReleaseSnapshot, server
<1>5. CASE DeferTearDown
  BY <1>5 DEF DeferTearDown, server
<1>6. CASE OnFailure
  BY <1>6 DEF OnFailure, controller
<1>7. CASE OtherCommit
  BY <1>7 DEF OtherCommit, controller, Versions
<1>8. CASE UserSessionEnds
  BY <1>8 DEF UserSessionEnds, controller
<1>9. CASE UNCHANGED <<conf, server, controller>>
  BY <1>9 DEF server, controller
<1> QED BY <1>1, <1>2, <1>3, <1>4, <1>5, <1>6, <1>7, <1>8, <1>9, ServerFrame

LEMMA TypeMainStep == ASSUME TypeOK, [Next]_vars PROVE TypeMain'
<1> USE ConstFacts DEF TypeOK, TypeMain, Labels
<1>1. cancelled' \in BOOLEAN
  BY CancelFrame DEF Close
<1>2. groupErr' \in BOOLEAN
  <2>1. ASSUME NEW w \in Writers, WriterStep(w) PROVE groupErr' \in BOOLEAN
    BY <2>1 DEF WriterStep, TakeTask, ExitNil, WriteMeta, StartQuery, WriteRows, EndBackoff,
                RebuildConn, FinishTask, ExitWithError, AttemptFailed
  <2>2. QED BY <2>1, WriterFrame DEF StartWriter, TearDownWriters
<1> DEFINE MainTyped ==
             /\ pc' \in Labels /\ err' \in {"nil", "canceled", "fail"}
             /\ dumpErr' \in {"nil", "fail"}
             /\ closing' \in 1..(Threads + 1) /\ mbuf' \subseteq {"start", "cdc", "finish"}
<1>3. ASSUME \/ NewConsistencyController \/ CreateCDCSlot \/ BeginSnapshot \/ OpenMetaConn
             \/ PrepareTableList \/ ReleaseSnapshot
      PROVE  MainTyped
  BY <1>3 DEF NewConsistencyController, CreateCDCSlot, BeginSnapshot, OpenMetaConn,
              PrepareTableList, ReleaseSnapshot, Return
<1>4. ASSUME NEW w \in Writers, StartWriter(w) PROVE MainTyped
  BY <1>4 DEF StartWriter, Return
<1>5. ASSUME QueryFails \/ PgDumpFails \/ SendAborted \/ ProducerDone PROVE MainTyped
  BY <1>5 DEF QueryFails, PgDumpFails, SendAborted, ProducerDone, CtxErrors, ProducerStops, Return
<1>6. ASSUME \/ (\E s \in Schemas : DumpSchema(s))
             \/ DumpTableMeta \/ DumpTableData \/ FallBackToWhole \/ SendTask
      PROVE  MainTyped
  BY <1>6 DEF DumpSchema, DumpTableMeta, DumpTableData, FallBackToWhole, SendTask, main
<1>7. ASSUME CloseTaskIn \/ WaitWriters \/ DeferTearDown \/ OnFailure \/ WriteMetadata
      PROVE  MainTyped
  BY <1>7 DEF CloseTaskIn, WaitWriters, DeferTearDown, OnFailure, WriteMetadata, Return
<1>8. ASSUME TearDownWriters PROVE MainTyped
  BY <1>8 DEF TearDownWriters
<1>9. CASE UNCHANGED main
  BY <1>1, <1>2, <1>9 DEF main
<1>10. MainStep => MainTyped
  BY <1>3, <1>4, <1>5, <1>6, <1>7, <1>8 DEF MainStep
<1> QED BY <1>1, <1>2, <1>9, <1>10, MainFrame

LEMMA TypeProducerStep == ASSUME TypeOK, [Next]_vars PROVE TypeProducer'
<1> USE ConstFacts DEF TypeOK, TypeProducer
<1>1. CASE OpenMetaConn
  BY <1>1, NewConnType DEF OpenMetaConn, channel
<1>2. CASE PrepareTableList
  <2>1. Msg(SqlTask, Absent) \in Msgs
    BY NoMsgType DEF NoMsg
  <2>2. work' \in Seq(Msgs)
    <3>1. <<Msg(SqlTask, Absent)>> \in Seq(Msgs) /\ <<>> \in Seq(Msgs)
      BY <2>1
    <3>2. work' = <<Msg(SqlTask, Absent)>> \/ work' = <<>> \/ work' = work
      BY <1>2 DEF PrepareTableList
    <3>3. QED BY <3>1, <3>2
  <2>3. QED BY <1>2, <2>2 DEF PrepareTableList, channel
<1>3. CASE QueryFails
  BY <1>3 DEF QueryFails, channel
<1>4. CASE PgDumpFails
  BY <1>4 DEF PgDumpFails, channel
<1>5. ASSUME NEW s \in Schemas, DumpSchema(s) PROVE TypeProducer'
  <2>1. work' \in Seq(Msgs)
    BY <1>5, SchemaTasksType, MessagesType DEF DumpSchema
  <2>2. tables' \in Seq(Schemas \X TableInfo)
    BY <1>5, PairsType DEF DumpSchema
  <2>3. QED BY <1>5, <2>1, <2>2 DEF DumpSchema, channel
<1>6. CASE DumpTableMeta
  <2>1. Head(tables) \in Schemas \X TableInfo /\ Tail(tables) \in Seq(Schemas \X TableInfo)
    BY <1>6 DEF DumpTableMeta
  <2>2. work' \in Seq(Msgs)
    BY <1>6, <2>1, TableMetaTasksType, MessagesType DEF DumpTableMeta
  <2>3. cur' \in Seq(Schemas \X TableInfo)
    <3>1. <<Head(tables)>> \in Seq(Schemas \X TableInfo) /\ <<>> \in Seq(Schemas \X TableInfo)
      BY <2>1
    <3>2. cur' = <<Head(tables)>> \/ cur' = <<>>
      BY <1>6 DEF DumpTableMeta
    <3>3. QED BY <3>1, <3>2
  <2>4. mconn' \in Conns /\ mtries' \in 0..MaxAttempts
    BY <1>6, NewConnType DEF DumpTableMeta, QuerySucceeds
  <2>5. QED BY <1>6, <2>1, <2>2, <2>3, <2>4 DEF DumpTableMeta, channel
<1>7. CASE DumpTableData
  <2>1. cur[1] \in Schemas \X TableInfo
    BY <1>7 DEF DumpTableData
  <2>2. work' \in Seq(Msgs)
    BY <1>7, <2>1, DataTasksType, MessagesType DEF DumpTableData
  <2>3. mconn' \in Conns /\ mtries' \in 0..MaxAttempts
    BY <1>7, NewConnType DEF DumpTableData, QuerySucceeds
  <2>4. QED BY <1>7, <2>2, <2>3 DEF DumpTableData, channel
<1>8. CASE SendTask
  BY <1>8 DEF SendTask
<1>14. CASE FallBackToWhole
  <2>1. cur[1] \in Schemas \X TableInfo
    BY <1>14 DEF FallBackToWhole
  <2>2. <<DataTasks(cur[1])[1]>> \in Seq(Tasks)
    BY <2>1, FirstChunk
  <2>3. work' \in Seq(Msgs)
    BY <1>14, <2>2, MessagesType DEF FallBackToWhole
  <2>4. whole' \subseteq Schemas \X TableNames
    BY <1>14, <2>1 DEF FallBackToWhole, TableInfo
  <2>5. QED BY <1>14, <2>3, <2>4 DEF FallBackToWhole, channel
<1>9. CASE SendAborted
  <2>1. Head(work) \in Msgs /\ Head(work).task \in Tasks
    <3>1. work # <<>>
      BY <1>9 DEF SendAborted
    <3>2. Head(work) \in Msgs
      BY <3>1
    <3>3. QED BY <3>2 DEF Msgs
  <2>2. WholeTask(Head(work).task) \in Tasks
    BY <2>1 DEF WholeTask, Tasks, Kinds
  <2>3. Msg(WholeTask(Head(work).task), version) \in Msgs
    BY <2>2 DEF Msg, Msgs, TypeServer
  <2>4. work' \in Seq(Msgs)
    <3>1. <<Msg(WholeTask(Head(work).task), version)>> \in Seq(Msgs) /\ <<>> \in Seq(Msgs)
      BY <2>3
    <3>2. \/ work' = <<Msg(WholeTask(Head(work).task), version)>>
          \/ work' = <<>> \/ work' = work
      BY <1>9 DEF SendAborted
    <3>3. QED BY <3>1, <3>2
  <2>5. QED BY <1>9, <2>4 DEF SendAborted, channel
<1>10. CASE CloseTaskIn
  BY <1>10 DEF CloseTaskIn
<1>11. CASE DeferTearDown
  BY <1>11 DEF DeferTearDown, channel
<1>12. ASSUME NEW w \in Writers, TakeTask(w) PROVE TypeProducer'
  BY <1>12 DEF TakeTask, producer
<1>13. CASE UNCHANGED <<producer, channel>>
  BY <1>13 DEF producer, channel
<1> QED BY <1>1, <1>2, <1>3, <1>4, <1>5, <1>6, <1>7, <1>8, <1>9, <1>10, <1>11, <1>12, <1>13,
           <1>14, ProducerFrame

LEMMA TypeWritersStep == ASSUME TypeOK, [Next]_vars PROVE TypeWriters'
<1> USE ConstFacts DEF TypeOK, TypeWriters, WriterStates
<1>1. ASSUME NEW w \in Writers, StartWriter(w) PROVE TypeWriters'
  BY <1>1, NewConnType DEF StartWriter
<1>2. CASE TearDownWriters
  BY <1>2 DEF TearDownWriters
<1>3. ASSUME NEW w \in Writers, ExitWithError(w) \/ AttemptFailed(w)
      PROVE  TypeWriters'
  BY <1>3, NoMsgType DEF ExitWithError, AttemptFailed
<1>4. ASSUME NEW w \in Writers, NEW v, FinishTask(w, v) PROVE TypeWriters'
  BY <1>4, NoMsgType DEF FinishTask
<1>5. ASSUME NEW w \in Writers, TakeTask(w) PROVE TypeWriters'
  <2>1. Head(q) \in Msgs
    <3>1. q # <<>> /\ q \in Seq(Msgs)
      BY <1>5 DEF TakeTask, TypeProducer
    <3>2. QED BY <3>1
  <2>2. 1 \in 0..MaxAttempts
    BY ConstantsAssumption DEF ConstantsAssumption
  <2>3. QED BY <1>5, <2>1, <2>2 DEF TakeTask
<1>6. ASSUME NEW w \in Writers, ExitNil(w) PROVE TypeWriters'
  BY <1>6 DEF ExitNil
<1>7. ASSUME NEW w \in Writers, WriteMeta(w) PROVE TypeWriters'
  BY <1>3, <1>4, <1>7 DEF WriteMeta
<1>8. ASSUME NEW w \in Writers, StartQuery(w) PROVE TypeWriters'
  <2>1. CASE wst' = [wst EXCEPT ![w] = "read"] /\ wconn[w] # Closed
             /\ wread' = [wread EXCEPT ![w] = ReadView(wconn[w])]
             /\ UNCHANGED <<groupErr, wmsg, wtries, wconn, faults>>
    <3>1. ReadView(wconn[w]) \in Versions
      BY <2>1, ReadViewType
    <3>2. QED BY <2>1, <3>1
  <2>2. QED BY <1>3, <1>8, <2>1 DEF StartQuery
<1>9. ASSUME NEW w \in Writers, WriteRows(w) PROVE TypeWriters'
  BY <1>3, <1>4, <1>9 DEF WriteRows
<1>10. ASSUME NEW w \in Writers, EndBackoff(w) PROVE TypeWriters'
  BY <1>3, <1>10 DEF EndBackoff
<1>11. ASSUME NEW w \in Writers, RebuildConn(w) PROVE TypeWriters'
  BY <1>3, <1>11, NewConnType DEF RebuildConn
<1>12. CASE UNCHANGED <<writers, groupErr>>
  BY <1>12 DEF writers
<1> QED BY <1>1, <1>2, <1>5, <1>6, <1>7, <1>8, <1>9, <1>10, <1>11, <1>12, WriterFrame
        DEF WriterStep

LEMMA FailsType ==
    ASSUME TypeOutput, NEW ok \in BOOLEAN, Fails(ok)
    PROVE  faults' \in 0..MaxFaults /\ faults' >= faults
  BY ConstFacts DEF TypeOutput, Fails

LEMMA FaultsStep == ASSUME TypeOK, [Next]_vars PROVE faults' \in 0..MaxFaults /\ faults' >= faults
<1> USE ConstFacts DEF TypeOK
<1> DEFINE Kept == faults' = faults \/ \E ok \in BOOLEAN : Fails(ok)
<1>1. ASSUME Kept PROVE faults' \in 0..MaxFaults /\ faults' >= faults
  BY <1>1, FailsType DEF TypeOutput
<1>2. CASE MainStep
  <2>1. ASSUME \/ NewConsistencyController \/ CreateCDCSlot \/ BeginSnapshot \/ OpenMetaConn
               \/ PrepareTableList \/ ReleaseSnapshot
        PROVE  Kept
    BY <2>1 DEF NewConsistencyController, CreateCDCSlot, BeginSnapshot, OpenMetaConn,
                PrepareTableList, ReleaseSnapshot, TypeMain, TypeServer, CanConnect
  <2>2. ASSUME NEW w \in Writers, StartWriter(w) PROVE Kept
    BY <2>2 DEF StartWriter, CanConnect
  <2>3. ASSUME QueryFails \/ PgDumpFails \/ SendAborted \/ ProducerDone PROVE Kept
    BY <2>3 DEF QueryFails, PgDumpFails, SendAborted, ProducerDone, CanConnect, CtxDone
  <2>4. ASSUME \/ (\E s \in Schemas : DumpSchema(s))
               \/ DumpTableMeta \/ DumpTableData \/ FallBackToWhole \/ SendTask
        PROVE  Kept
    BY <2>4 DEF DumpSchema, DumpTableMeta, DumpTableData, FallBackToWhole, SendTask, QuerySucceeds
  <2>5. ASSUME \/ CloseTaskIn \/ WaitWriters \/ DeferTearDown \/ OnFailure \/ WriteMetadata
               \/ TearDownWriters
        PROVE  Kept
    BY <2>5 DEF CloseTaskIn, WaitWriters, DeferTearDown, OnFailure, WriteMetadata,
                TearDownWriters, TypeMain, TypeServer
  <2> QED BY <1>1, <1>2, <2>1, <2>2, <2>3, <2>4, <2>5 DEF MainStep
<1>3. ASSUME NEW w \in Writers, WriterStep(w) PROVE faults' \in 0..MaxFaults /\ faults' >= faults
  <2>1. Kept
    BY <1>3 DEF WriterStep, TakeTask, ExitNil, WriteMeta, StartQuery, WriteRows, EndBackoff,
                RebuildConn, CtxDone, CanConnect
  <2> QED BY <1>1, <2>1
<1> QED BY <1>1, <1>2, <1>3, NextCases DEF OtherCommit, UserSessionEnds, Close, vars

LEMMA TypeOutputStep == ASSUME TypeOK, [Next]_vars PROVE TypeOutput'
<1> USE ConstFacts DEF TypeOK
<1>1. file' \in [AllTasks -> Versions \cup {Absent, Torn}]
  <2>1. ASSUME NEW w \in Writers, WriteMeta(w) \/ WriteRows(w)
        PROVE  file' \in [AllTasks -> Versions \cup {Absent, Torn}]
    <3>1. wmsg[w].at \in Versions \cup {Absent} /\ wread[w] \in Versions \cup {Absent}
      BY DEF TypeWriters, Msgs
    <3>2. ASSUME NEW v \in Versions \cup {Absent, Torn},
                 file' = [file EXCEPT ![FileOf(wmsg[w].task)] = v]
          PROVE  file' \in [AllTasks -> Versions \cup {Absent, Torn}]
      BY <3>2 DEF TypeOutput
    <3>3. SpoilFile(w) => file' \in [AllTasks -> Versions \cup {Absent, Torn}]
      BY DEF SpoilFile, TypeOutput
    <3> QED BY <2>1, <3>1, <3>2, <3>3 DEF WriteMeta, WriteRows, FinishTask
  <2> QED BY <2>1, FileFrame DEF TypeOutput
<1>2. metadata' \subseteq {"start", "cdc", "finish", "torn"}
  <2>1. CASE WriteMetadata
    BY <2>1 DEF WriteMetadata, TypeMain, TypeOutput
  <2> QED BY <2>1, MetadataFrame DEF TypeOutput
<1> QED BY <1>1, <1>2, FaultsStep DEF TypeOutput

LEMMA SlotTrackedStep == ASSUME TypeOK, SlotTracked, Endings, [Next]_vars PROVE SlotTracked'
<1> USE ConstFacts DEF TypeOK, SlotTracked, Returning, Succeeded
<1>1. ASSUME NewConsistencyController PROVE SlotTracked'
  BY <1>1 DEF NewConsistencyController, Return, server
<1>2. ASSUME CreateCDCSlot PROVE SlotTracked'
  BY <1>2 DEF CreateCDCSlot, Return, TypeServer
<1>3. ASSUME BeginSnapshot PROVE SlotTracked'
  BY <1>3 DEF BeginSnapshot, Return, server, SnapshotToken
<1>4. ASSUME OpenMetaConn PROVE SlotTracked'
  BY <1>4 DEF OpenMetaConn, Return, server, controller
<1>5. ASSUME PrepareTableList PROVE SlotTracked'
  BY <1>5 DEF PrepareTableList, Return, server, controller
<1>6. ASSUME NEW w \in Writers, StartWriter(w) PROVE SlotTracked'
  BY <1>6 DEF StartWriter, Return, server, controller
<1>7. ASSUME ReleaseSnapshot PROVE SlotTracked'
  BY <1>7 DEF ReleaseSnapshot, Return, server
<1>8. ASSUME QueryFails \/ PgDumpFails \/ SendAborted \/ ProducerDone PROVE SlotTracked'
  BY <1>8 DEF QueryFails, PgDumpFails, SendAborted, ProducerDone, ProducerStops, Return,
              server, controller
<1>9. ASSUME \/ (\E s \in Schemas : DumpSchema(s))
             \/ DumpTableMeta \/ DumpTableData \/ FallBackToWhole \/ SendTask
      PROVE  SlotTracked'
  BY <1>9 DEF DumpSchema, DumpTableMeta, DumpTableData, FallBackToWhole, SendTask, server, controller, main
<1>10. ASSUME CloseTaskIn \/ WaitWriters PROVE SlotTracked'
  BY <1>10 DEF CloseTaskIn, WaitWriters, Return, server, controller
<1>11. ASSUME TearDownWriters \/ DeferTearDown PROVE SlotTracked'
  BY <1>11 DEF TearDownWriters, DeferTearDown, server, controller
<1>12. ASSUME OnFailure PROVE SlotTracked'
  BY <1>12 DEF OnFailure, controller, Endings
<1>13. ASSUME WriteMetadata PROVE SlotTracked'
  BY <1>13 DEF WriteMetadata, server, controller
<1>14. ASSUME NEW w \in Writers, WriterStep(w) PROVE SlotTracked'
  BY <1>14 DEF WriterStep, TakeTask, ExitNil, WriteMeta, StartQuery, WriteRows, EndBackoff,
               RebuildConn, server, controller, main
<1>15. ASSUME OtherCommit \/ UserSessionEnds \/ Close \/ UNCHANGED vars PROVE SlotTracked'
  BY <1>15 DEF OtherCommit, UserSessionEnds, Close, vars, server, controller, main
<1> QED BY <1>1, <1>2, <1>3, <1>4, <1>5, <1>6, <1>7, <1>8, <1>9, <1>10, <1>11, <1>12, <1>13,
           <1>14, <1>15, NextCases DEF MainStep
-----------------------------------------------------------------------------
(* How the dump ends. *)

LEMMA EndingsStep ==
    ASSUME TypeOK, SlotTracked, Endings, [Next]_vars PROVE Endings'
<1> USE ConstFacts DEF Endings, Returning, Succeeded, Draining, CtxDone
<1>1. ASSUME \/ NewConsistencyController \/ CreateCDCSlot \/ BeginSnapshot \/ OpenMetaConn
             \/ PrepareTableList \/ ReleaseSnapshot
      PROVE  Endings'
  <2>1. CASE NewConsistencyController
    BY <2>1 DEF NewConsistencyController, Return, channel, writers
  <2>2. CASE CreateCDCSlot
    BY <2>2 DEF CreateCDCSlot, Return, channel, writers
  <2>3. CASE BeginSnapshot
    BY <2>3 DEF BeginSnapshot, Return, channel, writers
  <2>4. CASE OpenMetaConn
    BY <2>4 DEF OpenMetaConn, Return, channel, writers
  <2>5. CASE PrepareTableList
    BY <2>5 DEF PrepareTableList, Return, channel, writers
  <2>6. CASE ReleaseSnapshot
    BY <2>6 DEF ReleaseSnapshot, Return, channel, writers
  <2> QED BY <1>1, <2>1, <2>2, <2>3, <2>4, <2>5, <2>6
<1>2. ASSUME NEW w \in Writers, StartWriter(w) PROVE Endings'
  BY <1>2 DEF StartWriter, Return, channel, TypeOK, TypeWriters
<1>3. ASSUME QueryFails \/ PgDumpFails \/ SendAborted \/ ProducerDone PROVE Endings'
  BY <1>3 DEF QueryFails, PgDumpFails, SendAborted, ProducerDone, CtxErrors, ProducerStops,
              Return, channel, writers
<1>4. ASSUME \/ (\E s \in Schemas : DumpSchema(s))
             \/ DumpTableMeta \/ DumpTableData \/ FallBackToWhole \/ SendTask
      PROVE  Endings'
  BY <1>4 DEF DumpSchema, DumpTableMeta, DumpTableData, FallBackToWhole, SendTask, channel, writers, main
<1>5. ASSUME CloseTaskIn \/ WaitWriters \/ DeferTearDown \/ OnFailure \/ WriteMetadata
      PROVE  Endings'
  BY <1>5 DEF CloseTaskIn, WaitWriters, DeferTearDown, OnFailure, WriteMetadata, Return,
              channel, writers, TypeOK, TypeMain
<1>6. ASSUME TearDownWriters PROVE Endings'
  BY <1>6 DEF TearDownWriters, channel
<1>7. ASSUME NEW w \in Writers, wst[w] # "exited", ExitWithError(w),
             UNCHANGED <<main, channel, cancelled>>
      PROVE  Endings'
  BY <1>7 DEF ExitWithError, main, channel, TypeOK, TypeWriters
<1>8. ASSUME NEW w \in Writers, WriterStep(w) PROVE Endings'
  <2>1. ASSUME NEW st, st # "exited", wst[w] # "exited",
               wst' = [wst EXCEPT ![w] = st], \/ UNCHANGED q \/ q # <<>>,
               UNCHANGED <<main, inClosed, cancelled, groupErr>>
        PROVE  Endings'
    BY <2>1 DEF main, TypeOK, TypeWriters
  <2>2. CASE TakeTask(w)
    BY <2>1, <2>2 DEF TakeTask
  <2>3. CASE ExitNil(w)
    BY <2>3 DEF ExitNil, main, channel, TypeOK, TypeWriters
  <2>4. CASE WriteMeta(w)
    BY <1>7, <2>1, <2>4 DEF WriteMeta, FinishTask, channel
  <2>5. CASE StartQuery(w)
    BY <1>7, <2>1, <2>5 DEF StartQuery, AttemptFailed, channel
  <2>6. CASE WriteRows(w)
    BY <1>7, <2>1, <2>6 DEF WriteRows, FinishTask, AttemptFailed, channel
  <2>7. CASE EndBackoff(w)
    BY <1>7, <2>1, <2>7 DEF EndBackoff, channel
  <2>8. CASE RebuildConn(w)
    BY <1>7, <2>1, <2>8 DEF RebuildConn, AttemptFailed, channel
  <2> QED BY <1>8, <2>2, <2>3, <2>4, <2>5, <2>6, <2>7, <2>8 DEF WriterStep
<1>9. ASSUME OtherCommit \/ UserSessionEnds \/ Close \/ UNCHANGED vars PROVE Endings'
  BY <1>9 DEF OtherCommit, UserSessionEnds, Close, vars, channel, writers, main
<1> QED BY <1>1, <1>2, <1>3, <1>4, <1>5, <1>6, <1>8, <1>9, NextCases DEF MainStep
-----------------------------------------------------------------------------
(* What travels on the channel. *)

LEMMA CtxMonotone == ASSUME TypeOK, [Next]_vars, CtxDone PROVE CtxDone'
<1>1. cancelled => cancelled'
  BY CancelFrame DEF Close
<1>2. groupErr => groupErr'
  <2>1. ASSUME NEW w \in Writers, WriterStep(w), groupErr PROVE groupErr'
    BY <2>1 DEF WriterStep, TakeTask, ExitNil, WriteMeta, StartQuery, WriteRows, EndBackoff,
                RebuildConn, FinishTask, ExitWithError, AttemptFailed
  <2>2. QED BY <2>1, WriterFrame DEF StartWriter, TearDownWriters
<1>3. QED BY <1>1, <1>2 DEF CtxDone

LEMMA GoodMsgStable ==
    ASSUME TypeOK, [Next]_vars, NEW m, GoodMsg(m, CtxDone) PROVE GoodMsg(m, CtxDone')
  BY CtxMonotone DEF GoodMsg

\* A task the producer builds is never a whole-table task.
LEMMA SchemaTasksKind ==
    ASSUME NEW c, NEW s PROVE \A i \in 1..Len(SchemaTasks(c, s)) : SchemaTasks(c, s)[i].kind # "whole"
  BY DEF SchemaTasks, Task

LEMMA TableMetaTasksKind ==
    ASSUME NEW c, NEW p \in Schemas \X TableInfo
    PROVE  \A i \in 1..Len(TableMetaTasks(c, p)) : TableMetaTasks(c, p)[i].kind # "whole"
<1>1. MetaKind(p[2]) # "whole"
  BY DEF MetaKind, TableInfo
<1>2. QED BY <1>1 DEF TableMetaTasks, Task

LEMMA DataTasksKind ==
    ASSUME NEW p \in Schemas \X TableInfo
    PROVE  \A i \in 1..Len(DataTasks(p)) : DataTasks(p)[i].kind # "whole"
<1>1. p[2].chunks \in Nat
  BY DEF TableInfo
<1>2. QED BY <1>1 DEF DataTasks, Task

LEMMA MessagesAreGood ==
    ASSUME TypeOK, NEW ts \in Seq(Tasks), \A i \in 1..Len(ts) : ts[i].kind # "whole"
    PROVE  \A i \in 1..Len(Messages(ts)) : GoodMsg(Messages(ts)[i], CtxDone)
<1>1. Len(Messages(ts)) = Len(ts) /\ \A i \in 1..Len(ts) : Messages(ts)[i] = Msg(ts[i], version)
  BY MessagesType DEF TypeOK
<1>2. version \in Versions
  BY DEF TypeOK, TypeServer
<1>3. \A i \in 1..Len(ts) : GoodMsg(Msg(ts[i], version), CtxDone)
  BY <1>2 DEF GoodMsg, Msg
<1>4. QED BY <1>1, <1>3

LEMMA WorkGood ==
    ASSUME TypeOK, MessagesGood, [Next]_vars
    PROVE  (\A i \in 1..Len(work) : GoodMsg(work[i], CtxDone))'
<1> DEFINE Good(ms) == \A i \in 1..Len(ms) : GoodMsg(ms[i], CtxDone)
<1>1. ASSUME NEW ms, Good(ms), work' = ms PROVE (\A i \in 1..Len(work) : GoodMsg(work[i], CtxDone))'
  BY <1>1, GoodMsgStable
<1>2. Good(work) /\ Good(<<>>)
  BY DEF MessagesGood
<1> HIDE DEF Good
<1>3. CASE PrepareTableList
  <2>1. Good(<<Msg(SqlTask, Absent)>>)
    BY DEF Good, GoodMsg, Msg, SqlTask, Task, IsData
  <2>2. work' \in {<<Msg(SqlTask, Absent)>>, <<>>, work}
    BY <1>3 DEF PrepareTableList
  <2>3. QED BY <1>1, <1>2, <2>1, <2>2
<1>4. ASSUME NEW s \in Schemas, DumpSchema(s) PROVE Good(work')
  BY <1>4, SchemaTasksType, SchemaTasksKind, MessagesAreGood DEF DumpSchema, Good
<1>5. CASE DumpTableMeta
  <2>1. Head(tables) \in Schemas \X TableInfo
    BY <1>5 DEF DumpTableMeta, TypeOK, TypeProducer
  <2>2. Good(work')
    BY <1>5, <2>1, TableMetaTasksType, TableMetaTasksKind, MessagesAreGood DEF DumpTableMeta, Good
  <2>3. QED BY <1>1, <2>2
<1>6. CASE DumpTableData
  <2>1. cur[1] \in Schemas \X TableInfo
    BY <1>6 DEF DumpTableData, TypeOK, TypeProducer
  <2>2. Good(work')
    BY <1>6, <2>1, DataTasksType, DataTasksKind, MessagesAreGood DEF DumpTableData, Good
  <2>3. QED BY <1>1, <2>2
<1>10. CASE FallBackToWhole
  <2>1. cur[1] \in Schemas \X TableInfo
    BY <1>10 DEF FallBackToWhole, TypeOK, TypeProducer
  <2>2. DataTasks(cur[1])[1] \in Tasks /\ DataTasks(cur[1])[1].kind # "whole"
    <3>1. Task("data", cur[1][1], cur[1][2].name, 0).kind # "whole"
      BY DEF Task
    <3>2. QED BY <2>1, <3>1, FirstChunk
  <2>3. /\ <<DataTasks(cur[1])[1]>> \in Seq(Tasks)
        /\ \A i \in 1..Len(<<DataTasks(cur[1])[1]>>) : <<DataTasks(cur[1])[1]>>[i].kind # "whole"
    BY <2>2
  <2>4. Good(work')
    BY <1>10, <2>3, MessagesAreGood DEF FallBackToWhole, Good
  <2>5. QED BY <1>1, <2>4
<1>7. CASE SendTask
  <2>1. work' = Tail(work) /\ work # <<>> /\ work \in Seq(Msgs)
    BY <1>7 DEF SendTask, TypeOK, TypeProducer
  <2>2. Good(work')
    BY <1>2, <2>1 DEF Good
  <2>3. QED BY <1>1, <2>2
<1>8. CASE SendAborted
  <2>1. CtxDone /\ version \in Versions
    BY <1>8 DEF SendAborted, TypeOK, TypeServer
  <2>2. Good(<<Msg(WholeTask(Head(work).task), version)>>)
    BY <2>1 DEF Good, GoodMsg, Msg
  <2>3. work' \in {<<Msg(WholeTask(Head(work).task), version)>>, <<>>, work}
    BY <1>8 DEF SendAborted
  <2>4. QED BY <1>1, <1>2, <2>2, <2>3
<1>9. work' = work => (\A i \in 1..Len(work) : GoodMsg(work[i], CtxDone))'
  BY <1>1, <1>2
<1> QED BY <1>1, <1>3, <1>4, <1>5, <1>6, <1>7, <1>8, <1>9, <1>10, ProducerFrame
        DEF OpenMetaConn, QueryFails, PgDumpFails, CloseTaskIn, DeferTearDown, TakeTask, producer

LEMMA QueueGood ==
    ASSUME TypeOK, MessagesGood, [Next]_vars
    PROVE  (\A i \in 1..Len(q) : GoodMsg(q[i], CtxDone))'
<1>1. ASSUME NEW ms, \A i \in 1..Len(ms) : GoodMsg(ms[i], CtxDone), q' = ms
      PROVE  (\A i \in 1..Len(q) : GoodMsg(q[i], CtxDone))'
  BY <1>1, GoodMsgStable
<1>2. q \in Seq(Msgs) /\ work \in Seq(Msgs)
  BY DEF TypeOK, TypeProducer
<1>3. CASE SendTask
  <2>1. q' = Append(q, Head(work)) /\ work # <<>>
    BY <1>3 DEF SendTask
  <2>2. GoodMsg(Head(work), CtxDone)
    BY <1>2, <2>1 DEF MessagesGood
  <2>3. \A i \in 1..Len(q') : q'[i] = Head(work) \/ (i \in 1..Len(q) /\ q'[i] = q[i])
    BY <1>2, <2>1
  <2>4. \A i \in 1..Len(q') : GoodMsg(q'[i], CtxDone)
    BY <2>2, <2>3 DEF MessagesGood
  <2>5. QED BY <1>1, <2>4
<1>4. ASSUME NEW w \in Writers, TakeTask(w) PROVE \A i \in 1..Len(q') : GoodMsg(q'[i], CtxDone)
  <2>1. q' = Tail(q) /\ q # <<>>
    BY <1>4 DEF TakeTask
  <2>2. QED BY <1>2, <2>1 DEF MessagesGood
<1>5. q' = q => (\A i \in 1..Len(q) : GoodMsg(q[i], CtxDone))'
  BY <1>1 DEF MessagesGood
<1> QED BY <1>1, <1>3, <1>4, <1>5, ProducerFrame
        DEF OpenMetaConn, PrepareTableList, QueryFails, PgDumpFails, DumpSchema, DumpTableMeta,
            DumpTableData, FallBackToWhole, SendAborted, CloseTaskIn, DeferTearDown, channel

\* A step of writer w leaves the other writers alone.
LEMMA OtherWriters ==
    ASSUME TypeOK, NEW w \in Writers, WriterStep(w), NEW v \in Writers, v # w
    PROVE  /\ wst'[v] = wst[v] /\ wmsg'[v] = wmsg[v]
           /\ wconn'[v] = wconn[v] /\ wread'[v] = wread[v]
  BY DEF WriterStep, TakeTask, ExitNil, WriteMeta, StartQuery, WriteRows, EndBackoff, RebuildConn,
         FinishTask, ExitWithError, AttemptFailed, TypeOK, TypeWriters

\* What a step of writer w makes of w itself.
LEMMA OwnStep ==
    ASSUME TypeOK, MessagesGood, NEW w \in Writers, WriterStep(w)
    PROVE  /\ Busy(w)' => \/ Busy(w) /\ wmsg'[w] = wmsg[w]
                          \/ q # <<>> /\ wmsg'[w] = Head(q)
           /\ wst'[w] = "meta" => ~IsData(wmsg'[w].task)
           /\ wst'[w] = "read" =>
                  wst[w] = "query" /\ wconn[w] # Closed /\ wread'[w] = ReadView(wconn[w])
           /\ wst'[w] # "unstarted" /\ wst[w] # "unstarted"
           /\ wconn'[w] \in {wconn[w], NewConn}
<1> USE DEF TypeOK, TypeWriters, Busy
<1>1. CASE TakeTask(w)
  BY <1>1 DEF TakeTask
<1>2. CASE ExitNil(w)
  BY <1>2 DEF ExitNil
<1>3. CASE WriteMeta(w)
  BY <1>3 DEF WriteMeta, FinishTask, ExitWithError
<1>4. CASE StartQuery(w)
  BY <1>4 DEF StartQuery, ExitWithError, AttemptFailed
<1>5. CASE WriteRows(w)
  BY <1>5 DEF WriteRows, FinishTask, ExitWithError, AttemptFailed
<1>6. CASE EndBackoff(w)
  BY <1>6 DEF EndBackoff, ExitWithError
<1>7. CASE RebuildConn(w)
  BY <1>7 DEF RebuildConn, ExitWithError, AttemptFailed
<1> QED BY <1>1, <1>2, <1>3, <1>4, <1>5, <1>6, <1>7 DEF WriterStep

LEMMA MessagesGoodStep == ASSUME TypeOK, MessagesGood, [Next]_vars PROVE MessagesGood'
<1> DEFINE Good(w) == /\ Busy(w) => GoodMsg(wmsg[w], CtxDone)
                      /\ wst[w] = "meta" => ~IsData(wmsg[w].task)
                      /\ wst[w] = "read" => wread[w] \in Versions
<1>1. ASSUME NEW w \in Writers, wst'[w] = wst[w], wmsg'[w] = wmsg[w], wread'[w] = wread[w]
      PROVE  Good(w)'
  BY <1>1, GoodMsgStable DEF MessagesGood, Busy
<1>2. ASSUME NEW w \in Writers, WriterStep(w) PROVE Good(w)'
  <2>1. wst'[w] = "read" => wread'[w] \in Versions
    BY <1>2, OwnStep, ReadViewType DEF TypeOK, TypeWriters
  <2>2. q # <<>> => GoodMsg(Head(q), CtxDone)
    BY DEF MessagesGood, TypeOK, TypeProducer
  <2>3. Busy(w)' => GoodMsg(wmsg'[w], CtxDone)
    BY <1>2, <2>2, OwnStep DEF MessagesGood
  <2>4. QED BY <1>2, <2>1, <2>3, OwnStep, GoodMsgStable
<1>3. ASSUME NEW w \in Writers, WriterStep(w), NEW v \in Writers PROVE Good(v)'
  BY <1>1, <1>2, <1>3, OtherWriters
<1>4. ASSUME NEW w \in Writers, StartWriter(w), NEW v \in Writers PROVE Good(v)'
  <2>1. CASE wst'[v] = wst[v]
    BY <1>1, <1>4, <2>1 DEF StartWriter
  <2>2. CASE wst'[v] # wst[v]
    BY <1>4, <2>2 DEF StartWriter, TypeOK, TypeWriters, Busy
  <2>3. QED BY <2>1, <2>2
<1>5. ASSUME TearDownWriters \/ UNCHANGED <<writers, groupErr>>, NEW v \in Writers PROVE Good(v)'
  BY <1>1, <1>5 DEF TearDownWriters, writers
<1>6. \A v \in Writers : Good(v)'
  BY <1>3, <1>4, <1>5, WriterFrame
<1> QED BY <1>6, WorkGood, QueueGood DEF MessagesGood
-----------------------------------------------------------------------------
(* One snapshot. *)

LEMMA TokenFixed == ASSUME [Next]_vars PROVE token' = token \/ Early
  BY ServerFrame DEF NewConsistencyController, CreateCDCSlot, BeginSnapshot, ReleaseSnapshot,
                     DeferTearDown, OnFailure, OtherCommit, UserSessionEnds, controller, Early

LEMMA SnapshotSharedStep ==
    ASSUME TypeOK, MessagesGood, SnapshotShared, [Next]_vars PROVE SnapshotShared'
<1> USE ConstFacts
<1>1. Early' => Early \/ UNCHANGED main
  BY MainFrame DEF MainStep, NewConsistencyController, CreateCDCSlot, BeginSnapshot, OpenMetaConn,
      PrepareTableList, StartWriter, ReleaseSnapshot, QueryFails, PgDumpFails, DumpSchema,
      DumpTableMeta, DumpTableData, FallBackToWhole, SendTask, SendAborted, ProducerDone, CloseTaskIn,
      WaitWriters, TearDownWriters, DeferTearDown, OnFailure, WriteMetadata, Return,
      ProducerStops, Early, main
<1>2. Early' => Early
  BY <1>1 DEF Early, main
<1>3. Early => \A w \in Writers : ~WriterStep(w) /\ ~StartWriter(w)
  BY DEF Early, SnapshotShared, WriterStep, TakeTask, ExitNil, WriteMeta, StartQuery, WriteRows,
         EndBackoff, RebuildConn, StartWriter
<1>4. Early' => \A w \in Writers : wst'[w] = "unstarted"
  BY <1>2, <1>3, WriterFrame DEF SnapshotShared, TearDownWriters, writers
<1>5. Early' => \A t \in AllTasks : file'[t] = Absent
  BY <1>2, <1>3, FileFrame DEF SnapshotShared, WriterStep
<1>6. Repeatable' = Repeatable
  BY ConfFixed DEF Repeatable
<1>7. token' = token \/ Early
  BY TokenFixed
<1> DEFINE Shared(w) == /\ wst[w] # "unstarted" => wconn[w] \in {Closed, token.at}
                        /\ wst[w] = "read" => wread[w] = token.at
<1>8. ASSUME Early, NEW w \in Writers PROVE Shared(w)'
  BY <1>3, <1>8, WriterFrame DEF SnapshotShared, TearDownWriters, writers
<1>9. ASSUME ~Early, Repeatable, NEW w \in Writers PROVE Shared(w)'
  <2>1. token' = token /\ NewConn = token.at
    BY <1>7, <1>9 DEF NewConn
  <2>2. token.at # Live
    BY DEF TypeOK, TypeServer, Versions, Live
  <2>3. ASSUME WriterStep(w) PROVE Shared(w)'
    <3>1. wconn[w] \in {Closed, token.at}
      BY <1>9, <2>3, OwnStep DEF SnapshotShared
    <3>2. QED BY <2>1, <2>2, <2>3, <3>1, OwnStep DEF ReadView
  <2>4. ASSUME NEW v \in Writers, v # w, WriterStep(v) PROVE Shared(w)'
    BY <1>9, <2>1, <2>4, OtherWriters DEF SnapshotShared
  <2>5. ASSUME NEW v \in Writers, StartWriter(v) PROVE Shared(w)'
    BY <1>9, <2>1, <2>5 DEF StartWriter, SnapshotShared, TypeOK, TypeWriters
  <2>6. ASSUME TearDownWriters PROVE Shared(w)'
    BY <1>9, <2>1, <2>6 DEF TearDownWriters, SnapshotShared, TypeOK, TypeWriters
  <2>7. ASSUME UNCHANGED <<writers, groupErr>> PROVE Shared(w)'
    BY <1>9, <2>1, <2>7 DEF SnapshotShared, writers
  <2>8. QED BY <2>3, <2>4, <2>5, <2>6, <2>7, WriterFrame
<1> QED BY <1>4, <1>5, <1>6, <1>8, <1>9 DEF SnapshotShared

LEMMA OneSnapshotStep ==
    ASSUME TypeOK, MessagesGood, SnapshotShared, OneSnapshot, [Next]_vars PROVE OneSnapshot'
<1> USE ConstFacts
<1>1. Repeatable' = Repeatable
  BY ConfFixed DEF Repeatable
<1> SUFFICES ASSUME Repeatable, NEW t \in AllTasks, IsData(t), file'[t] \in Versions
             PROVE  file'[t] = token'.at
  BY <1>1 DEF OneSnapshot
<1>2. CASE UNCHANGED file
  <2>1. ~Early
    BY <1>2 DEF SnapshotShared
  <2>2. QED BY <1>2, <2>1, TokenFixed DEF OneSnapshot
<1>3. ASSUME NEW w \in Writers, WriteMeta(w) \/ WriteRows(w) PROVE file'[t] = token'.at
  <2>1. ~Early /\ token' = token
    BY <1>3, TokenFixed DEF SnapshotShared, WriteMeta, WriteRows
  <2>2. file'[t] = file[t] \/ (t = FileOf(wmsg[w].task) /\ FinishTask(w, wmsg[w].at) /\ wst[w] = "meta")
           \/ (FinishTask(w, wread[w]) /\ wst[w] = "read" /\ file'[t] = wread[w])
    <3>1. ASSUME SpoilFile(w) PROVE file'[t] \in {file[t], Torn}
      BY <3>1 DEF SpoilFile, TypeOK, TypeOutput
    <3>2. ASSUME NEW v, FinishTask(w, v)
          PROVE  file'[t] = file[t] \/ (t = FileOf(wmsg[w].task) /\ file'[t] = v)
      BY <3>2 DEF FinishTask, TypeOK, TypeOutput
    <3>3. QED BY <1>3, <3>1, <3>2 DEF WriteMeta, WriteRows
  <2>3. CASE file'[t] = file[t]
    BY <2>1, <2>3 DEF OneSnapshot
  <2>4. CASE t = FileOf(wmsg[w].task) /\ wst[w] = "meta"
    <3>1. ~IsData(wmsg[w].task)
      BY <2>4 DEF MessagesGood
    <3>2. QED BY <2>4, <3>1 DEF FileOf, IsData
  <2>5. CASE wst[w] = "read" /\ file'[t] = wread[w]
    BY <2>1, <2>5 DEF SnapshotShared
  <2>6. QED BY <2>2, <2>3, <2>4, <2>5
<1> QED BY <1>2, <1>3, FileFrame
-----------------------------------------------------------------------------
(* Nothing is lost. *)

LEMMA ProducerExhaustedStep ==
    ASSUME TypeOK, Endings, ProducerExhausted, [Next]_vars PROVE ProducerExhausted'
<1> SUFFICES ASSUME (Draining \/ Succeeded)', ~CtxDone'
             PROVE  (work = <<>> /\ cur = <<>> /\ tables = <<>> /\ todo = {})'
  BY DEF ProducerExhausted
<1>1. ~CtxDone
  BY CtxMonotone
<1> USE DEF Draining, Succeeded, Returning
<1>2. CASE Draining \/ Succeeded
  <2>1. work = <<>> /\ cur = <<>> /\ tables = <<>> /\ todo = {}
    BY <1>1, <1>2 DEF ProducerExhausted
  <2>2. UNCHANGED <<todo, tables, cur, work>>
    BY <1>2, <2>1, ProducerFrame
    DEF OpenMetaConn, PrepareTableList, QueryFails, PgDumpFails, DumpSchema, DumpTableMeta,
        DumpTableData, FallBackToWhole, SendTask, SendAborted, CloseTaskIn, DeferTearDown, TakeTask, producer
  <2>3. QED BY <2>1, <2>2
<1>3. CASE ~(Draining \/ Succeeded)
  <2>1. MainStep
    BY <1>3, MainFrame DEF main
  <2>2. ProducerDone
    <3>1. ~(\/ NewConsistencyController \/ CreateCDCSlot \/ BeginSnapshot \/ OpenMetaConn
            \/ PrepareTableList \/ ReleaseSnapshot)
      BY <1>3 DEF NewConsistencyController, CreateCDCSlot, BeginSnapshot, OpenMetaConn,
                  PrepareTableList, ReleaseSnapshot, Return
    <3>2. ~(\E w \in Writers : StartWriter(w))
      BY <1>3 DEF StartWriter, Return
    <3>3. ~(QueryFails \/ PgDumpFails \/ SendAborted)
      BY <1>1, <1>3 DEF QueryFails, PgDumpFails, SendAborted, CtxErrors, ProducerStops, Return
    <3>4. ~(\/ (\E s \in Schemas : DumpSchema(s))
            \/ DumpTableMeta \/ DumpTableData \/ FallBackToWhole \/ SendTask)
      BY <1>3 DEF DumpSchema, DumpTableMeta, DumpTableData, FallBackToWhole, SendTask, main
    <3>5. ~(\/ CloseTaskIn \/ WaitWriters \/ TearDownWriters \/ DeferTearDown \/ OnFailure
            \/ WriteMetadata)
      BY <1>3 DEF CloseTaskIn, WaitWriters, TearDownWriters, DeferTearDown, OnFailure,
                  WriteMetadata, Return
    <3>6. QED BY <2>1, <3>1, <3>2, <3>3, <3>4, <3>5 DEF MainStep
  <2>3. QED BY <2>2 DEF ProducerDone, producer
<1> QED BY <1>2, <1>3

LEMMA ToSetSeq ==
    ASSUME NEW S, NEW x \in Seq(S)
    PROVE  /\ ToSet(x) = {x[i] : i \in 1..Len(x)}
           /\ \A y : y \in ToSet(x) <=> \E i \in 1..Len(x) : y = x[i]
  BY DEF ToSet

\* No task but the fall-back of SendAborted is a whole-table task.
LEMMA TaskKinds == ASSUME NEW t \in AllTasks PROVE t.kind # "whole" /\ FileOf(t) = t
<1>1. SqlTask.kind # "whole"
  BY DEF SqlTask, Task
<1>2. ASSUME NEW s \in Schemas, NEW c, NEW u \in TasksOfSchema(c, s) PROVE u.kind # "whole"
  <2>1. CASE u \in ToSet(SchemaTasks(c, s))
    BY <2>1, SchemaTasksType, SchemaTasksKind, ToSetSeq
  <2>2. ASSUME NEW p \in ToSet(Pairs(s)), u \in TableTasks(c, p) PROVE u.kind # "whole"
    <3>1. p \in Schemas \X TableInfo
      BY PairsType, ToSetSeq
    <3>2. CASE u \in ToSet(TableMetaTasks(c, p))
      BY <3>1, <3>2, TableMetaTasksType, TableMetaTasksKind, ToSetSeq
    <3>3. CASE u \in ToSet(DataTasks(p))
      BY <3>1, <3>3, DataTasksType, DataTasksKind, ToSetSeq
    <3>4. QED BY <2>2, <3>2, <3>3 DEF TableTasks
  <2>3. QED BY <1>2, <2>1, <2>2 DEF TasksOfSchema
<1>3. t.kind # "whole"
  BY <1>1, <1>2 DEF AllTasks
<1>4. QED BY <1>3 DEF FileOf

\* Every planned task has a file of its own name and is not a whole-table task.
LEMMA PlanTasks ==
    ASSUME TypeOK, NEW t \in Plan(conf)
    PROVE  t \in AllTasks /\ t.kind # "whole" /\ FileOf(t) = t
<1> DEFINE full == [NoSchemas |-> FALSE, NoData |-> FALSE]
<1>1. ASSUME NEW c, NEW p PROVE TableTasks(c, p) \subseteq TableTasks(full, p)
  <2>1. ToSet(TableMetaTasks(c, p)) \subseteq ToSet(TableMetaTasks(full, p))
    BY DEF TableMetaTasks, ToSet
  <2>2. HasData(c, p[2]) => HasData(full, p[2])
    BY DEF HasData
  <2>3. QED BY <2>1, <2>2 DEF TableTasks
<1>2. ASSUME NEW c, NEW s PROVE TasksOfSchema(c, s) \subseteq TasksOfSchema(full, s)
  <2>1. ToSet(SchemaTasks(c, s)) \subseteq ToSet(SchemaTasks(full, s))
    BY DEF SchemaTasks, ToSet
  <2>2. QED BY <1>1, <2>1 DEF TasksOfSchema
<1>3. t \in AllTasks
  BY <1>2 DEF Plan, AllTasks
<1>4. QED BY <1>3, TaskKinds

\* What the producer takes out of Remaining it puts on the queue, or it is a
\* chunk of a table sent in one piece.
LEMMA RemainingStep ==
    ASSUME TypeOK, [Next]_vars, ~CtxDone, ~Early, NEW t, t \in Remaining
    PROVE  t \in Remaining' \/ Superseded(t)' \/ \E i \in 1..Len(q') : q'[i].task = t
<1> DEFINE InWork == \E i \in 1..Len(work) : t = work[i].task
           InCur == \E p \in ToSet(cur) : t \in ToSet(DataTasks(p))
           InTables == \E p \in ToSet(tables) : t \in TableTasks(conf, p)
           InTodo == \E s \in todo : t \in TasksOfSchema(conf, s)
<1>1. t \in Remaining <=> InWork \/ InCur \/ InTables \/ InTodo
  <2>1. Remaining = TasksReady \cup TasksOfCur \cup TasksOfTables \cup TasksOfTodo
    BY DEF Remaining
  <2>2. t \in TasksOfCur <=> InCur
    BY DEF TasksOfCur
  <2>3. t \in TasksOfTables <=> InTables
    BY DEF TasksOfTables
  <2>4. t \in TasksOfTodo <=> InTodo
    BY DEF TasksOfTodo
  <2>5. t \in TasksReady <=> InWork
    BY DEF TasksReady
  <2> HIDE DEF InWork, InCur, InTables, InTodo
  <2>6. QED BY <2>1, <2>2, <2>3, <2>4, <2>5
<1>2. (t \in Remaining <=> InWork \/ InCur \/ InTables \/ InTodo)'
  <2>1. (Remaining = TasksReady \cup TasksOfCur \cup TasksOfTables \cup TasksOfTodo)'
    BY DEF Remaining
  <2>2. (t \in TasksOfCur <=> InCur)'
    BY DEF TasksOfCur
  <2>3. (t \in TasksOfTables <=> InTables)'
    BY DEF TasksOfTables
  <2>4. (t \in TasksOfTodo <=> InTodo)'
    BY DEF TasksOfTodo
  <2>5. (t \in TasksReady <=> InWork)'
    BY DEF TasksReady
  <2> HIDE DEF InWork, InCur, InTables, InTodo
  <2>6. QED BY <2>1, <2>2, <2>3, <2>4, <2>5
<1>3. conf' = conf
  BY ConfFixed
<1>4. /\ work \in Seq(Msgs) /\ cur \in Seq(Schemas \X TableInfo)
      /\ tables \in Seq(Schemas \X TableInfo) /\ q \in Seq(Msgs)
  BY DEF TypeOK, TypeProducer
<1>5. CASE UNCHANGED <<todo, tables, cur, work>>
  BY <1>1, <1>2, <1>3, <1>5
\* The tasks ts, turned into messages, are what remains to be sent.
<1>6. ASSUME NEW ts \in Seq(Tasks), work' = Messages(ts), t \in ToSet(ts) PROVE InWork'
  <2>1. PICK i \in 1..Len(ts) : t = ts[i]
    BY <1>6, ToSetSeq
  <2>2. i \in 1..Len(work') /\ work'[i] = Msg(ts[i], version)
    BY <1>6, MessagesType DEF TypeOK
  <2>3. work'[i].task = t
    BY <2>1, <2>2 DEF Msg
  <2>4. QED BY <2>2, <2>3
<1>7. ASSUME NEW s \in Schemas, DumpSchema(s) PROVE t \in Remaining'
  <2>1. InTodo
    BY <1>1, <1>7 DEF DumpSchema, ToSet
  <2>2. PICK r \in todo : t \in TasksOfSchema(conf, r)
    BY <2>1
  <2>3. CASE r # s
    BY <1>2, <1>3, <1>7, <2>2, <2>3 DEF DumpSchema
  <2>4. CASE r = s
    <3>1. CASE t \in ToSet(SchemaTasks(conf, s))
      BY <1>2, <1>6, <1>7, <3>1, SchemaTasksType DEF DumpSchema
    <3>2. CASE \E p \in ToSet(Pairs(s)) : t \in TableTasks(conf, p)
      BY <1>2, <1>3, <1>7, <3>2 DEF DumpSchema
    <3>3. QED BY <2>2, <2>4, <3>1, <3>2 DEF TasksOfSchema
  <2>5. QED BY <2>3, <2>4
<1>8. CASE DumpTableMeta
  <2>1. work = <<>> /\ cur = <<>> /\ tables # <<>>
    BY <1>8 DEF DumpTableMeta
  <2>2. Head(tables) \in Schemas \X TableInfo
    BY <1>4, <2>1
  <2>3. ~InWork /\ ~InCur
    BY <2>1 DEF ToSet
  <2>4. CASE InTodo
    BY <1>2, <1>3, <1>8, <2>4 DEF DumpTableMeta
  <2>5. CASE InTables
    <3>1. PICK p \in ToSet(tables) : t \in TableTasks(conf, p)
      BY <2>5
    <3>2. p = Head(tables) \/ p \in ToSet(Tail(tables))
      <4>1. PICK i \in 1..Len(tables) : p = tables[i]
        BY <1>4, <3>1, ToSetSeq
      <4>2. CASE i = 1
        BY <1>4, <2>1, <4>1, <4>2
      <4>3. CASE i # 1
        <5>1. i - 1 \in 1..Len(Tail(tables)) /\ Tail(tables)[i - 1] = p
          BY <1>4, <2>1, <4>1, <4>3
        <5>2. Tail(tables) \in Seq(Schemas \X TableInfo)
          BY <1>4, <2>1
        <5>3. QED BY <5>1, <5>2, ToSetSeq
      <4>4. QED BY <4>2, <4>3
    <3>3. CASE p \in ToSet(Tail(tables))
      BY <1>2, <1>3, <1>8, <3>1, <3>3 DEF DumpTableMeta
    <3>4. CASE p = Head(tables) /\ t \in ToSet(TableMetaTasks(conf, p))
      BY <1>2, <1>6, <1>8, <2>2, <3>4, TableMetaTasksType DEF DumpTableMeta
    <3>5. CASE p = Head(tables) /\ HasData(conf, p[2]) /\ t \in ToSet(DataTasks(p))
      <4>1. cur' = <<p>>
        BY <1>8, <3>5 DEF DumpTableMeta
      <4>2. p \in ToSet(cur')
        BY <4>1 DEF ToSet
      <4>3. QED BY <1>2, <3>5, <4>2
    <3>6. QED BY <3>1, <3>2, <3>3, <3>4, <3>5 DEF TableTasks
  <2>6. QED BY <1>1, <2>3, <2>4, <2>5
<1>9. CASE DumpTableData
  <2>1. work = <<>> /\ cur # <<>> /\ work' = Messages(DataTasks(cur[1]))
        /\ UNCHANGED <<todo, tables>>
    BY <1>9 DEF DumpTableData
  <2>2. CASE InTodo \/ InTables
    BY <1>2, <1>3, <2>1, <2>2
  <2>3. CASE InCur
    <3>1. PICK p \in ToSet(cur) : t \in ToSet(DataTasks(p))
      BY <2>3
    <3>2. p = cur[1]
      <4>1. Len(cur) <= 1
        BY DEF TypeOK, TypeProducer
      <4>2. QED BY <1>4, <3>1, <4>1, ToSetSeq
    <3>3. p \in Schemas \X TableInfo
      BY <1>4, <3>1, ToSetSeq
    <3>4. QED BY <1>2, <1>6, <2>1, <3>1, <3>2, <3>3, DataTasksType
  <2>4. ~InWork
    BY <2>1
  <2>5. QED BY <1>1, <2>2, <2>3, <2>4
<1>11. CASE FallBackToWhole
  <2>1. work = <<>> /\ cur # <<>> /\ work' = Messages(<<DataTasks(cur[1])[1]>>)
        /\ UNCHANGED <<todo, tables>> /\ <<cur[1][1], cur[1][2].name>> \in whole'
    BY <1>11 DEF FallBackToWhole
  <2>2. CASE InTodo \/ InTables
    BY <1>2, <1>3, <2>1, <2>2
  <2>3. CASE InCur
    <3>1. PICK p \in ToSet(cur) : t \in ToSet(DataTasks(p))
      BY <2>3
    <3>2. p = cur[1]
      <4>1. Len(cur) <= 1
        BY DEF TypeOK, TypeProducer
      <4>2. QED BY <1>4, <3>1, <4>1, ToSetSeq
    <3>3. p \in Schemas \X TableInfo /\ p[2].chunks \in Nat
      <4>1. p \in Schemas \X TableInfo
        BY <1>4, <3>1, ToSetSeq
      <4>2. QED BY <4>1 DEF TableInfo
    <3>4. PICK i \in 1..p[2].chunks : t = Task("data", p[1], p[2].name, i - 1)
      BY <3>1, <3>3, ToSetSeq, DataTasksType DEF DataTasks
    <3>5. CASE i = 1
      <4>1. t = DataTasks(p)[1] /\ <<t>> \in Seq(Tasks) /\ t \in ToSet(<<t>>)
        BY <3>3, <3>4, <3>5, FirstChunk DEF ToSet
      <4>2. QED BY <1>2, <1>6, <2>1, <3>2, <4>1
    <3>6. CASE i # 1
      <4>1. t.chunk # 0 /\ t.kind = "data" /\ t.sch = p[1] /\ t.tbl = p[2].name
        BY <3>3, <3>4, <3>6 DEF Task
      <4>2. QED BY <2>1, <3>2, <4>1 DEF Superseded, IsData
    <3>7. QED BY <3>5, <3>6
  <2>4. ~InWork
    BY <2>1
  <2>5. QED BY <1>1, <2>2, <2>3, <2>4
<1>10. CASE SendTask
  <2>1. work # <<>> /\ work' = Tail(work) /\ q' = Append(q, Head(work))
        /\ UNCHANGED <<todo, tables, cur>>
    BY <1>10 DEF SendTask
  <2>2. CASE InCur \/ InTodo \/ InTables
    BY <1>2, <1>3, <2>1, <2>2
  <2>3. CASE InWork
    <3>1. PICK i \in 1..Len(work) : work[i].task = t
      BY <2>3
    <3>2. CASE i = 1
      <4>1. Len(q) + 1 \in 1..Len(q') /\ q'[Len(q) + 1] = work[1]
        BY <1>4, <2>1
      <4>2. QED BY <3>1, <3>2, <4>1
    <3>3. CASE i # 1
      <4>1. i - 1 \in 1..Len(work') /\ work'[i - 1] = work[i]
        BY <1>4, <2>1, <3>1, <3>3
      <4>2. QED BY <1>2, <3>1, <4>1
    <3>4. QED BY <3>2, <3>3
  <2>4. QED BY <1>1, <2>2, <2>3
<1> QED BY <1>5, <1>7, <1>8, <1>9, <1>10, <1>11, ProducerFrame
        DEF OpenMetaConn, PrepareTableList, QueryFails, PgDumpFails, SendAborted, CloseTaskIn,
            DeferTearDown, TakeTask, producer, Early

\* A queued task stays queued or is in the hands of the writer that took it.
LEMMA QueuedStep ==
    ASSUME TypeOK, [Next]_vars, NEW t, Queued(t) PROVE Queued(t)' \/ InHand(t)'
<1>1. PICK i \in 1..Len(q) : q[i].task = t
  BY DEF Queued
<1>2. q \in Seq(Msgs) /\ work \in Seq(Msgs)
  BY DEF TypeOK, TypeProducer
<1>3. CASE SendTask
  <2>1. q' = Append(q, Head(work))
    BY <1>3 DEF SendTask
  <2>2. i \in 1..Len(q') /\ q'[i] = q[i]
    BY <1>1, <1>2, <2>1
  <2>3. QED BY <1>1, <2>2 DEF Queued
<1>4. ASSUME NEW w \in Writers, TakeTask(w) PROVE Queued(t)' \/ InHand(t)'
  <2>1. q # <<>> /\ q' = Tail(q) /\ wmsg'[w] = Head(q) /\ wst'[w] \in {"query", "meta"}
    BY <1>4 DEF TakeTask, TypeOK, TypeWriters
  <2>2. CASE i = 1
    <3>1. wmsg'[w].task = t
      BY <1>1, <1>2, <2>1, <2>2
    <3>2. Busy(w)'
      BY <2>1 DEF Busy
    <3>3. QED BY <3>1, <3>2 DEF InHand
  <2>3. CASE i # 1
    <3>1. i - 1 \in 1..Len(q') /\ q'[i - 1] = q[i]
      BY <1>1, <1>2, <2>1, <2>3
    <3>2. QED BY <1>1, <3>1 DEF Queued
  <2>4. QED BY <2>2, <2>3
<1>5. q' = q => Queued(t)'
  BY DEF Queued
<1> QED BY <1>3, <1>4, <1>5, ProducerFrame
        DEF OpenMetaConn, PrepareTableList, QueryFails, PgDumpFails, DumpSchema, DumpTableMeta,
            DumpTableData, FallBackToWhole, SendAborted, CloseTaskIn, DeferTearDown, channel

\* A step of a busy writer finishes its task, keeps it, or ends the context.
LEMMA BusyStep ==
    ASSUME TypeOK, MessagesGood, NEW w \in Writers, WriterStep(w), Busy(w), ~CtxDone'
    PROVE  \/ Busy(w)' /\ wmsg'[w] = wmsg[w]
           \/ \E v \in Versions : file' = [file EXCEPT ![FileOf(wmsg[w].task)] = v]
<1> USE DEF TypeOK, TypeWriters, Busy, CtxDone
<1>1. ~(TakeTask(w) \/ ExitNil(w))
  BY DEF TakeTask, ExitNil
<1>2. CASE WriteMeta(w)
  <2>1. wmsg[w].at \in Versions
    BY <1>2 DEF WriteMeta, MessagesGood, GoodMsg
  <2>2. QED BY <1>2, <2>1 DEF WriteMeta, FinishTask, ExitWithError
<1>3. CASE StartQuery(w)
  BY <1>3 DEF StartQuery, ExitWithError, AttemptFailed
<1>4. CASE WriteRows(w)
  <2>1. wread[w] \in Versions
    BY <1>4 DEF WriteRows, MessagesGood
  <2>2. QED BY <1>4, <2>1 DEF WriteRows, FinishTask, ExitWithError, AttemptFailed
<1>5. CASE EndBackoff(w)
  BY <1>5 DEF EndBackoff, ExitWithError
<1>6. CASE RebuildConn(w)
  BY <1>6 DEF RebuildConn, ExitWithError, AttemptFailed
<1> QED BY <1>1, <1>2, <1>3, <1>4, <1>5, <1>6 DEF WriterStep

LEMMA InHandStep ==
    ASSUME TypeOK, MessagesGood, [Next]_vars, ~CtxDone', NEW t \in AllTasks, FileOf(t) = t, InHand(t)
    PROVE  InHand(t)' \/ file'[t] \in Versions
<1>1. PICK w \in Writers : Busy(w) /\ wmsg[w].task = t
  BY DEF InHand
<1>2. ASSUME wst'[w] = wst[w], wmsg'[w] = wmsg[w] PROVE InHand(t)'
  BY <1>1, <1>2 DEF InHand, Busy
<1>3. ASSUME WriterStep(w) PROVE InHand(t)' \/ file'[t] \in Versions
  <2>1. CASE Busy(w)' /\ wmsg'[w] = wmsg[w]
    BY <1>1, <2>1 DEF InHand
  <2>2. CASE \E v \in Versions : file' = [file EXCEPT ![FileOf(wmsg[w].task)] = v]
    BY <1>1, <2>2 DEF TypeOK, TypeOutput
  <2>3. QED BY <1>1, <1>3, <2>1, <2>2, BusyStep
<1>4. ASSUME NEW v \in Writers, v # w, WriterStep(v) PROVE InHand(t)'
  BY <1>2, <1>4, OtherWriters
<1>5. ASSUME NEW v \in Writers, StartWriter(v) PROVE InHand(t)'
  <2>1. w # v
    BY <1>1, <1>5 DEF StartWriter, Busy
  <2>2. QED BY <1>2, <1>5, <2>1 DEF StartWriter, TypeOK, TypeWriters
<1>6. TearDownWriters \/ UNCHANGED <<writers, groupErr>> => InHand(t)'
  BY <1>2 DEF TearDownWriters, writers
<1> QED BY <1>3, <1>4, <1>5, <1>6, WriterFrame

\* A written file stays written, or its task is being retried.
LEMMA WrittenStep ==
    ASSUME TypeOK, MessagesGood, [Next]_vars, ~CtxDone', NEW t \in AllTasks, file[t] \in Versions
    PROVE  InHand(t)' \/ file'[t] \in Versions
<1>1. ASSUME NEW w \in Writers, WriteMeta(w) \/ WriteRows(w), file'[t] \notin Versions
      PROVE  InHand(t)'
  <2>1. Busy(w) /\ WriterStep(w)
    BY <1>1 DEF WriteMeta, WriteRows, Busy, WriterStep
  <2>2. ~(\E v \in Versions : file' = [file EXCEPT ![FileOf(wmsg[w].task)] = v])
    BY <1>1 DEF TypeOK, TypeOutput
  <2>3. Busy(w)' /\ wmsg'[w] = wmsg[w]
    BY <2>1, <2>2, BusyStep
  <2>4. SpoilFile(w) /\ t = FileOf(wmsg[w].task)
    <3>1. SpoilFile(w)
      BY <1>1, <2>3 DEF WriteMeta, WriteRows, FinishTask, Busy, TypeOK, TypeWriters
    <3>2. QED BY <1>1, <3>1 DEF SpoilFile, TypeOK, TypeOutput
  <2>5. GoodMsg(wmsg[w], CtxDone)
    BY <2>1 DEF MessagesGood
  <2>6. ~CtxDone
    BY CtxMonotone
  <2>7. t = wmsg[w].task
    BY <2>4, <2>5, <2>6 DEF GoodMsg, FileOf
  <2>8. QED BY <2>3, <2>7 DEF InHand
<1> QED BY <1>1, FileFrame

LEMMA WholeFrame == ASSUME [Next]_vars PROVE FallBackToWhole \/ UNCHANGED whole
  BY ProducerFrame
  DEF OpenMetaConn, PrepareTableList, QueryFails, PgDumpFails, DumpSchema, DumpTableMeta,
      DumpTableData, SendTask, SendAborted, CloseTaskIn, DeferTearDown, TakeTask, producer

LEMMA WholeGrows == ASSUME [Next]_vars PROVE whole \subseteq whole'
  BY WholeFrame DEF FallBackToWhole

LEMMA NothingLostStep ==
    ASSUME TypeOK, SlotTracked, Endings, MessagesGood, NothingLost, [Next]_vars
    PROVE  NothingLost'
<1>1. Plan(conf)' = Plan(conf)
  BY ConfFixed
<1> SUFFICES ASSUME (Producing \/ Draining \/ Succeeded)', ~CtxDone', NEW t \in Plan(conf)
             PROVE  \/ t \in Remaining' \/ Queued(t)' \/ InHand(t)'
                    \/ Superseded(t)' \/ file'[t] \in Versions
  BY <1>1 DEF NothingLost
<1>2. ~CtxDone
  BY CtxMonotone
<1>3. t \in AllTasks /\ FileOf(t) = t
  BY PlanTasks
<1>4. CASE Producing \/ Draining \/ Succeeded
  <2>1. ~Early
    BY <1>4 DEF Producing, Draining, Succeeded, Returning, Early
  <2>2. t \in Remaining => t \in Remaining' \/ Superseded(t)' \/ Queued(t)'
    BY <1>2, <2>1, RemainingStep DEF Queued
  <2>3. Superseded(t) => Superseded(t)'
    BY WholeGrows DEF Superseded
  <2>4. QED BY <1>2, <1>3, <1>4, <2>2, <2>3, QueuedStep, InHandStep, WrittenStep DEF NothingLost
<1>5. CASE ~(Producing \/ Draining \/ Succeeded)
  <2> USE DEF Producing, Draining, Succeeded, Returning
  <2>1. MainStep
    BY <1>5, MainFrame DEF main
  <2>2. PrepareTableList
    <3>1. ~(\/ NewConsistencyController \/ CreateCDCSlot \/ BeginSnapshot \/ OpenMetaConn
            \/ ReleaseSnapshot)
      BY <1>5 DEF NewConsistencyController, CreateCDCSlot, BeginSnapshot, OpenMetaConn,
                  ReleaseSnapshot, Return
    <3>2. ~(\E w \in Writers : StartWriter(w))
      BY <1>5 DEF StartWriter, Return
    <3>3. ~(QueryFails \/ PgDumpFails \/ SendAborted \/ ProducerDone)
      BY <1>5 DEF QueryFails, PgDumpFails, SendAborted, ProducerDone
    <3>4. ~(\/ (\E s \in Schemas : DumpSchema(s))
            \/ DumpTableMeta \/ DumpTableData \/ FallBackToWhole \/ SendTask)
      BY <1>5 DEF DumpSchema, DumpTableMeta, DumpTableData, FallBackToWhole, SendTask
    <3>5. ~(\/ CloseTaskIn \/ WaitWriters \/ TearDownWriters \/ DeferTearDown \/ OnFailure
            \/ WriteMetadata)
      BY <1>5 DEF CloseTaskIn, WaitWriters, TearDownWriters, DeferTearDown, OnFailure,
                  WriteMetadata
    <3>6. QED BY <2>1, <3>1, <3>2, <3>3, <3>4, <3>5 DEF MainStep
  <2>3. todo' = (IF conf.SQL THEN {} ELSE Schemas)
        /\ work' = (IF conf.SQL THEN <<Msg(SqlTask, Absent)>> ELSE <<>>)
    BY <2>2 DEF PrepareTableList, Return
  <2>4. CASE conf.SQL
    <3>1. t = SqlTask /\ work' = <<Msg(SqlTask, Absent)>>
      BY <2>3, <2>4 DEF Plan
    <3>2. 1 \in 1..Len(work') /\ work'[1].task = t
      BY <3>1 DEF Msg
    <3>3. t \in TasksReady'
      BY <3>2 DEF TasksReady
    <3>4. QED BY <3>3 DEF Remaining
  <2>5. CASE ~conf.SQL
    <3>1. PICK s \in Schemas : t \in TasksOfSchema(conf, s)
      BY <2>5 DEF Plan
    <3>2. s \in todo' /\ conf' = conf
      BY <2>3, <2>5, ConfFixed
    <3>3. t \in TasksOfTodo'
      BY <3>1, <3>2 DEF TasksOfTodo
    <3>4. QED BY <3>3 DEF Remaining
  <2>6. QED BY <2>4, <2>5
<1> QED BY <1>4, <1>5
-----------------------------------------------------------------------------
(* What a failure leaves behind. *)

LEMMA Monotone ==
    ASSUME TypeOK, [Next]_vars
    PROVE  /\ faults' >= faults
           /\ userAlive' => userAlive
           /\ ~cancelled' => ~cancelled
           /\ ~groupErr' => ~groupErr
<1>1. userAlive' => userAlive
  BY ServerFrame DEF NewConsistencyController, CreateCDCSlot, BeginSnapshot, ReleaseSnapshot,
                     DeferTearDown, OnFailure, OtherCommit, UserSessionEnds, server
<1>2. ~cancelled' => ~cancelled
  BY CancelFrame DEF Close
<1>3. ~groupErr' => ~groupErr
  <2>1. ASSUME NEW w \in Writers, WriterStep(w), groupErr PROVE groupErr'
    BY <2>1 DEF WriterStep, TakeTask, ExitNil, WriteMeta, StartQuery, WriteRows, EndBackoff,
                RebuildConn, FinishTask, ExitWithError, AttemptFailed
  <2>2. QED BY <2>1, WriterFrame DEF StartWriter, TearDownWriters
<1> QED BY <1>1, <1>2, <1>3, FaultsStep

LEMMA FailureCleansUpStep ==
    ASSUME TypeOK, SlotTracked, Endings, NoneFailed, FailureCleansUp, SnapshotHeld, [Next]_vars
    PROVE  FailureCleansUp'
<1> USE ConstFacts DEF FailureCleansUp
<1>1. ASSUME NewConsistencyController PROVE FailureCleansUp'
  BY <1>1 DEF NewConsistencyController, Return, server, SlotTracked, Returning
<1>2. ASSUME CreateCDCSlot PROVE FailureCleansUp'
  BY <1>2 DEF CreateCDCSlot, Return, SnapshotHeld, SlotTracked, Returning
<1>3. ASSUME BeginSnapshot PROVE FailureCleansUp'
  BY <1>3 DEF BeginSnapshot, Return, server, SlotTracked, Returning
<1>4. ASSUME OpenMetaConn PROVE FailureCleansUp'
  BY <1>4 DEF OpenMetaConn, Return, server, controller, SlotTracked, Returning
<1>5. ASSUME PrepareTableList PROVE FailureCleansUp'
  BY <1>5 DEF PrepareTableList, Return, server, controller
<1>6. ASSUME NEW w \in Writers, StartWriter(w) PROVE FailureCleansUp'
  BY <1>6 DEF StartWriter, Return, server, controller
<1>7. ASSUME ReleaseSnapshot PROVE FailureCleansUp'
  BY <1>7 DEF ReleaseSnapshot, Return, server
<1>8. ASSUME QueryFails \/ PgDumpFails \/ SendAborted \/ ProducerDone PROVE FailureCleansUp'
  BY <1>8 DEF QueryFails, PgDumpFails, SendAborted, ProducerDone, ProducerStops, Return,
              server, controller, SlotTracked, Returning
<1>9. ASSUME \/ (\E s \in Schemas : DumpSchema(s))
             \/ DumpTableMeta \/ DumpTableData \/ FallBackToWhole \/ SendTask
      PROVE  FailureCleansUp'
  BY <1>9 DEF DumpSchema, DumpTableMeta, DumpTableData, FallBackToWhole, SendTask, server, controller, main
<1>10. ASSUME CloseTaskIn \/ WaitWriters PROVE FailureCleansUp'
  BY <1>10 DEF CloseTaskIn, WaitWriters, Return, server, controller
<1>11. ASSUME TearDownWriters \/ DeferTearDown PROVE FailureCleansUp'
  BY <1>11 DEF TearDownWriters, DeferTearDown, server, controller
<1>12. ASSUME OnFailure PROVE FailureCleansUp'
  <2>1. dumpErr = "fail" /\ madeSlot /\ ~cancelled => faults >= 1
    BY DEF NoneFailed, TypeOK, TypeOutput
  <2>2. faults \in Nat
    BY DEF TypeOK, TypeOutput
  <2>3. QED BY <1>12, <2>1, <2>2 DEF OnFailure, Fails
<1>13. ASSUME WriteMetadata PROVE FailureCleansUp'
  BY <1>13, Monotone, FaultsStep DEF WriteMetadata, server, controller, TypeOK, TypeOutput
<1>14. ASSUME NEW w \in Writers, WriterStep(w) PROVE FailureCleansUp'
  <2>1. UNCHANGED <<conf, server, controller, main, cancelled>>
    BY <1>14 DEF WriterStep, TakeTask, ExitNil, WriteMeta, StartQuery, WriteRows, EndBackoff,
                 RebuildConn
  <2>2. faults > 1 => faults' > 1
    BY FaultsStep DEF TypeOK, TypeOutput
  <2>3. QED BY <2>1, <2>2, Monotone DEF server, controller, main
<1>15. ASSUME OtherCommit \/ UserSessionEnds \/ Close \/ UNCHANGED vars PROVE FailureCleansUp'
  BY <1>15 DEF OtherCommit, UserSessionEnds, Close, vars, server, controller, main
<1> QED BY <1>1, <1>2, <1>3, <1>4, <1>5, <1>6, <1>7, <1>8, <1>9, <1>10, <1>11, <1>12, <1>13,
           <1>14, <1>15, NextCases DEF MainStep

\* A token that is held stays held while its exporter does.
LEMMA TokenStaysAlive ==
    ASSUME TypeOK, [Next]_vars, token' = token, ctlConn' = ctlConn, cdcConn' = cdcConn,
           userAlive => TokenAlive
    PROVE  userAlive' => TokenAlive'
<1>1. userAlive' => userAlive
  BY Monotone
<1>2. QED BY <1>1 DEF TokenAlive

LEMMA NewConnOpen == ASSUME TypeOK PROVE NewConn # Closed
  BY ConstFacts DEF TypeOK, TypeServer, NewConn, Closed, Live, Versions

LEMMA StillRunning == ASSUME [Next]_vars, ~Returning' PROVE ~Returning
  BY MainFrame DEF MainStep, NewConsistencyController, CreateCDCSlot, BeginSnapshot, OpenMetaConn,
      PrepareTableList, StartWriter, ReleaseSnapshot, QueryFails, PgDumpFails, DumpSchema,
      DumpTableMeta, DumpTableData, FallBackToWhole, SendTask, SendAborted, ProducerDone, CloseTaskIn,
      WaitWriters, TearDownWriters, DeferTearDown, OnFailure, WriteMetadata, Return,
      ProducerStops, Returning, main

LEMMA SnapshotHeldStep ==
    ASSUME TypeOK, SlotTracked, Endings, FailureCleansUp, SnapshotShared, SnapshotHeld, [Next]_vars
    PROVE  SnapshotHeld'
<1> USE ConstFacts DEF SnapshotHeld
<1> DEFINE Held == SnapshotNeeded /\ Repeatable => ctlConn /\ (userAlive => TokenAlive)
           Rest == /\ pc \in {"slot", "begin"} => Repeatable /\ ctlConn
                   /\ pc = "slot" => conf.Snapshot # "user"
                   /\ pc = "begin" /\ madeSlot => cdcConn
                   /\ pc = "release" => conf.TransactionalConsistency
           Open == ~Returning => \A w \in Writers : wst[w] # "unstarted" => wconn[w] # Closed
<1> USE ConfFixed DEF Repeatable, SnapshotNeeded
<1>1. ASSUME NewConsistencyController PROVE Held' /\ Rest'
  <2>1. Held'
    BY <1>1 DEF NewConsistencyController, Return
  <2>2. Rest'
    BY <1>1 DEF NewConsistencyController, Return, SlotTracked, TypeOK, TypeServer, ConstantsAssumption
  <2>3. QED BY <2>1, <2>2
<1>2. ASSUME CreateCDCSlot PROVE Held' /\ Rest'
  BY <1>2 DEF CreateCDCSlot, Return
<1>3. ASSUME BeginSnapshot PROVE Held' /\ Rest'
  <2>1. CASE token' = SnapshotToken /\ pc' = "metaConn" /\ pc = "begin" /\
             UNCHANGED <<server, ctlConn, cdcConn, madeSlot>>
    <3>1. ctlConn
      BY <2>1
    <3>2. CASE madeSlot
      BY <2>1, <3>1, <3>2 DEF SnapshotToken, TokenAlive
    <3>3. CASE ~madeSlot
      BY <2>1, <3>1, <3>3 DEF SnapshotToken, TokenAlive
    <3>4. QED BY <3>2, <3>3
  <2>2. QED BY <1>3, <2>1 DEF BeginSnapshot, Return
<1>4. ASSUME UNCHANGED <<controller, server>>, pc' = pc PROVE Held' /\ Rest'
  BY <1>4, TokenStaysAlive DEF controller, server
<1>5. ASSUME OpenMetaConn PROVE Held' /\ Rest'
  <2>1. UNCHANGED <<controller, server>> /\ pc = "metaConn" /\ pc' \in {"prepare", "dConsistency"}
    BY <1>5 DEF OpenMetaConn, Return
  <2>2. QED BY <2>1, TokenStaysAlive DEF controller, server
<1>6. ASSUME PrepareTableList PROVE Held' /\ Rest'
  <2>1. UNCHANGED <<controller, server>> /\ pc = "prepare" /\ pc' \in {"start", "dConsistency"}
    BY <1>6 DEF PrepareTableList, Return
  <2>2. QED BY <2>1, TokenStaysAlive DEF controller, server
<1>7. ASSUME NEW w \in Writers, StartWriter(w) PROVE Held' /\ Rest'
  <2>1. /\ UNCHANGED <<controller, server>> /\ pc = "start"
        /\ pc' \in {"start", "dConsistency", IF conf.TransactionalConsistency THEN "release" ELSE "produce"}
    BY <1>7 DEF StartWriter, Return
  <2>2. QED BY <2>1, TokenStaysAlive DEF controller, server
<1>8. ASSUME ReleaseSnapshot PROVE Held' /\ Rest'
  BY <1>8 DEF ReleaseSnapshot, Return
<1>9. ASSUME \/ QueryFails \/ PgDumpFails \/ SendAborted \/ ProducerDone
             \/ CloseTaskIn \/ WaitWriters
      PROVE Held' /\ Rest'
  <2>1. /\ UNCHANGED <<controller, server>>
        /\ pc \in {"produce", "close", "wait"} /\ pc' \in {"produce", "close", "wait", "dWriters"}
    BY <1>9 DEF QueryFails, PgDumpFails, SendAborted, ProducerDone, ProducerStops, Return,
                CloseTaskIn, WaitWriters
  <2>2. QED BY <2>1, TokenStaysAlive DEF controller, server
<1>10. ASSUME \/ (\E s \in Schemas : DumpSchema(s))
              \/ DumpTableMeta \/ DumpTableData \/ FallBackToWhole \/ SendTask
       PROVE  Held' /\ Rest'
  BY <1>4, <1>10 DEF DumpSchema, DumpTableMeta, DumpTableData, FallBackToWhole, SendTask, main
<1>11. ASSUME TearDownWriters \/ DeferTearDown \/ OnFailure \/ WriteMetadata PROVE Held' /\ Rest'
  BY <1>11 DEF TearDownWriters, DeferTearDown, OnFailure, WriteMetadata
<1>12. ASSUME NEW w \in Writers, WriterStep(w) PROVE Held' /\ Rest'
  <2>1. UNCHANGED <<server, controller, main>>
    BY <1>12 DEF WriterStep, TakeTask, ExitNil, WriteMeta, StartQuery, WriteRows, EndBackoff,
                 RebuildConn
  <2>2. QED BY <1>4, <2>1 DEF main
<1>13. ASSUME OtherCommit \/ UserSessionEnds \/ Close \/ UNCHANGED vars PROVE Held' /\ Rest'
  <2>1. UNCHANGED <<controller, main>>
    BY <1>13 DEF OtherCommit, UserSessionEnds, Close, vars
  <2>2. QED BY <2>1, TokenStaysAlive DEF controller, main
<1>14. Held' /\ Rest'
  BY <1>1, <1>2, <1>3, <1>5, <1>6, <1>7, <1>8, <1>9, <1>10, <1>11, <1>12, <1>13, NextCases
  DEF MainStep
<1>15. ~Returning' => ~Returning
  BY StillRunning
<1>16. ASSUME ~Returning, NEW w \in Writers PROVE (wst[w] # "unstarted" => wconn[w] # Closed)'
  <2>1. ASSUME NEW v \in Writers, WriterStep(v) PROVE (wst[w] # "unstarted" => wconn[w] # Closed)'
    <3>1. wst[v] # "unstarted" /\ wconn'[v] \in {wconn[v], NewConn}
      BY <2>1 DEF WriterStep, TakeTask, ExitNil, WriteMeta, StartQuery, WriteRows, EndBackoff,
         RebuildConn, FinishTask, ExitWithError, AttemptFailed, TypeOK, TypeWriters
    <3>2. QED BY <1>16, <2>1, <3>1, NewConnOpen, OtherWriters
  <2>2. ASSUME NEW v \in Writers, StartWriter(v) PROVE (wst[w] # "unstarted" => wconn[w] # Closed)'
    BY <1>16, <2>2, NewConnOpen DEF StartWriter, TypeOK, TypeWriters
  <2>3. QED BY <1>16, <2>1, <2>2, WriterFrame DEF TearDownWriters, Returning, writers
<1>17. Open'
  BY <1>15, <1>16
<1> QED BY <1>14, <1>17

LEMMA NoneFailedStep ==
    ASSUME TypeOK, SlotTracked, Endings, SnapshotHeld, NoneFailed, [Next]_vars
    PROVE  NoneFailed'
<1> SUFFICES ASSUME faults' = 0, ~cancelled', userAlive'
             PROVE  /\ err' = "nil" /\ dumpErr' = "nil" /\ ~groupErr' /\ mtries' = 0
                    /\ \A w \in Writers : wst'[w] \notin {"backoff", "rebuild"}
  BY DEF NoneFailed
<1>1. faults = 0 /\ ~cancelled /\ userAlive
  BY Monotone DEF TypeOK, TypeOutput
<1>2. /\ err = "nil" /\ dumpErr = "nil" /\ ~groupErr /\ mtries = 0
      /\ \A w \in Writers : wst[w] \notin {"backoff", "rebuild"}
  BY <1>1 DEF NoneFailed
<1>3. ASSUME NEW ok \in BOOLEAN, Fails(ok) PROVE ~ok
  BY <1>1, <1>3 DEF Fails
<1>4. ~CtxDone
  BY <1>1, <1>2 DEF CtxDone
<1>5. pc \in {"metaConn", "prepare", "start"} => CanConnect
  BY <1>1 DEF SnapshotHeld, SnapshotNeeded, CanConnect
<1>6. CanConnect \in BOOLEAN
  BY DEF CanConnect
<1>7. MainStep => err' = "nil" /\ dumpErr' = "nil" /\ mtries' = 0
  <2>1. ASSUME NewConsistencyController PROVE err' = "nil" /\ dumpErr' = "nil" /\ mtries' = 0
    <3>1. ~Fails(~cancelled)
      BY <1>1, <1>3
    <3>2. QED BY <1>2, <2>1, <3>1 DEF NewConsistencyController, producer
  <2>2. ASSUME CreateCDCSlot PROVE err' = "nil" /\ dumpErr' = "nil" /\ mtries' = 0
    <3>1. ~Fails(~cancelled)
      BY <1>1, <1>3
    <3>2. QED BY <1>2, <2>2, <3>1 DEF CreateCDCSlot, producer
  <2>3. ASSUME BeginSnapshot PROVE err' = "nil" /\ dumpErr' = "nil" /\ mtries' = 0
    <3>1. ~Fails(~cancelled /\ (~madeSlot /\ conf.Snapshot = "user" => userAlive))
      BY <1>1, <1>3
    <3>2. QED BY <1>2, <2>3, <3>1 DEF BeginSnapshot, producer
  <2>4. ASSUME OpenMetaConn PROVE err' = "nil" /\ dumpErr' = "nil" /\ mtries' = 0
    <3>1. ~Fails(CanConnect)
      BY <1>3, <1>5, <1>6, <2>4 DEF OpenMetaConn
    <3>2. QED BY <1>2, <2>4, <3>1 DEF OpenMetaConn
  <2>5. ASSUME PrepareTableList PROVE err' = "nil" /\ dumpErr' = "nil" /\ mtries' = 0
    <3>1. ~Fails(~cancelled)
      BY <1>1, <1>3
    <3>2. QED BY <1>2, <2>5, <3>1 DEF PrepareTableList
  <2>6. ASSUME NEW w \in Writers, StartWriter(w) PROVE err' = "nil" /\ dumpErr' = "nil" /\ mtries' = 0
    <3>1. ~Fails(CanConnect)
      BY <1>3, <1>5, <1>6, <2>6 DEF StartWriter
    <3>2. QED BY <1>2, <2>6, <3>1 DEF StartWriter, producer
  <2>7. ASSUME ReleaseSnapshot PROVE err' = "nil" /\ dumpErr' = "nil" /\ mtries' = 0
    <3>1. ~Fails(~cancelled)
      BY <1>1, <1>3
    <3>2. QED BY <1>2, <2>7, <3>1 DEF ReleaseSnapshot, producer
  <2>8. ~(QueryFails \/ PgDumpFails \/ FallBackToWhole \/ SendAborted)
    <3>1. ~(mtries > 0)
      BY <1>2
    <3>2. ~Fails(~CtxDone)
      BY <1>3, <1>4
    <3>3. ~Fails(~CtxDone /\ (mtries > 0 => CanConnect))
      BY <1>3, <1>4, <3>1
    <3>4. QED BY <1>4, <3>2, <3>3 DEF QueryFails, PgDumpFails, FallBackToWhole, SendAborted
  <2>9. ASSUME ProducerDone \/ (\E s \in Schemas : DumpSchema(s)) \/ DumpTableMeta \/ DumpTableData
               \/ SendTask
        PROVE  err' = "nil" /\ dumpErr' = "nil" /\ mtries' = 0
    BY <1>2, <2>9 DEF ProducerDone, DumpSchema, DumpTableMeta, DumpTableData, SendTask, QuerySucceeds,
                      main, producer
  <2>10. ASSUME \/ CloseTaskIn \/ WaitWriters \/ TearDownWriters \/ DeferTearDown \/ OnFailure
                \/ WriteMetadata
         PROVE  err' = "nil" /\ dumpErr' = "nil" /\ mtries' = 0
    BY <1>2, <2>10 DEF CloseTaskIn, WaitWriters, TearDownWriters, DeferTearDown, OnFailure,
                       WriteMetadata, Return, producer
  <2> QED BY <2>1, <2>2, <2>3, <2>4, <2>5, <2>6, <2>7, <2>8, <2>9, <2>10 DEF MainStep
<1>8. ASSUME NEW w \in Writers, WriterStep(w)
      PROVE  ~groupErr' /\ wst'[w] \notin {"backoff", "rebuild"}
  <2> USE DEF TypeOK, TypeWriters
  <2>1. ~Fails(~CtxDone)
    BY <1>3, <1>4 DEF CtxDone
  <2>2. CASE TakeTask(w) \/ ExitNil(w)
    BY <1>2, <2>2 DEF TakeTask, ExitNil
  <2>3. CASE WriteMeta(w) \/ WriteRows(w)
    BY <1>2, <2>1, <2>3 DEF WriteMeta, WriteRows, FinishTask
  <2>4. CASE StartQuery(w)
    <3>1. wst[w] = "query" /\ ~Returning
      BY <1>2, <2>4 DEF StartQuery, Endings, Succeeded, Returning
    <3>2. ~CtxDone /\ wconn[w] # Closed
      BY <1>4, <3>1 DEF SnapshotHeld
    <3>3. ~Fails(~CtxDone /\ wconn[w] # Closed)
      BY <1>3, <3>2 DEF CtxDone
    <3>4. QED BY <1>2, <2>4, <3>3 DEF StartQuery
  <2>5. ~EndBackoff(w) /\ ~RebuildConn(w)
    BY <1>2 DEF EndBackoff, RebuildConn
  <2>6. QED BY <1>8, <2>2, <2>3, <2>4, <2>5 DEF WriterStep
<1>9. ~groupErr' /\ \A w \in Writers : wst'[w] \notin {"backoff", "rebuild"}
  <2>1. ASSUME NEW w \in Writers, StartWriter(w), NEW v \in Writers
        PROVE  ~groupErr' /\ wst'[v] \notin {"backoff", "rebuild"}
    BY <1>2, <2>1 DEF StartWriter, TypeOK, TypeWriters
  <2>2. ASSUME NEW w \in Writers, WriterStep(w), NEW v \in Writers
        PROVE  ~groupErr' /\ wst'[v] \notin {"backoff", "rebuild"}
    BY <1>2, <1>8, <2>2, OtherWriters
  <2>3. 1 \in Writers
    BY ConstFacts DEF Writers
  <2>4. QED BY <1>2, <2>1, <2>2, <2>3, WriterFrame DEF TearDownWriters, writers
<1>10. err' = "nil" /\ dumpErr' = "nil" /\ mtries' = 0
  <2>1. ASSUME NEW w \in Writers, WriterStep(w) PROVE UNCHANGED <<main, producer>>
    BY <2>1 DEF WriterStep, TakeTask, ExitNil, WriteMeta, StartQuery, WriteRows, EndBackoff,
                RebuildConn
  <2>2. MainStep \/ UNCHANGED <<main, producer>>
    BY <2>1, NextCases DEF OtherCommit, UserSessionEnds, Close, vars
  <2>3. QED BY <1>2, <1>7, <2>2 DEF main, producer
<1> QED BY <1>9, <1>10

LEMMA DataOnlyStep ==
    ASSUME TypeOK, MessagesGood, DataOnly, [Next]_vars PROVE DataOnly'
<1> SUFFICES ASSUME conf.NoSchemas
             PROVE  /\ \A i \in 1..Len(work') : IsData(work'[i].task)
                    /\ \A i \in 1..Len(q') : IsData(q'[i].task)
                    /\ \A w \in Writers : wst'[w] # "meta"
  BY ConfFixed DEF DataOnly
<1> DEFINE Data(ms) == \A i \in 1..Len(ms) : IsData(ms[i].task)
<1>1. Data(work) /\ Data(q) /\ Data(<<>>) /\ work \in Seq(Msgs) /\ q \in Seq(Msgs)
  BY DEF DataOnly, TypeOK, TypeProducer
<1>2. ASSUME NEW p \in Schemas \X TableInfo
      PROVE  Data(Messages(DataTasks(p))) /\ Data(Messages(<<DataTasks(p)[1]>>))
  <2>1. \A i \in 1..Len(DataTasks(p)) : DataTasks(p)[i].kind = "data"
    <3>1. p[2].chunks \in Nat
      BY DEF TableInfo
    <3>2. QED BY <3>1 DEF DataTasks, Task
  <2>2. Data(Messages(DataTasks(p)))
    <3>1. \A t \in Tasks : t.kind = "data" => IsData(Msg(t, version).task)
      BY DEF IsData, Msg
    <3>2. DataTasks(p) \in Seq(Tasks)
      BY DataTasksType
    <3>3. /\ Len(Messages(DataTasks(p))) = Len(DataTasks(p))
          /\ \A i \in 1..Len(DataTasks(p)) : Messages(DataTasks(p))[i] = Msg(DataTasks(p)[i], version)
      BY <3>2, MessagesType DEF TypeOK
    <3>4. \A i \in 1..Len(DataTasks(p)) : DataTasks(p)[i] \in Tasks
      BY <3>2
    <3>5. QED BY <2>1, <3>1, <3>3, <3>4
  <2>3. <<DataTasks(p)[1]>> \in Seq(Tasks) /\ DataTasks(p)[1].kind = "data"
    <3>1. DataTasks(p)[1] \in Tasks /\ DataTasks(p)[1] = Task("data", p[1], p[2].name, 0)
      BY FirstChunk
    <3>2. DataTasks(p)[1].kind = "data"
      BY <3>1 DEF Task
    <3>3. QED BY <3>1, <3>2
  <2>4. Data(Messages(<<DataTasks(p)[1]>>))
    BY <2>3 DEF Messages, IsData, Msg
  <2>5. QED BY <2>2, <2>4
<1>3. Data(work')
  <2>1. CASE PrepareTableList
    <3>1. Data(<<Msg(SqlTask, Absent)>>)
      BY DEF Msg, SqlTask, Task, IsData
    <3>2. work' \in {<<Msg(SqlTask, Absent)>>, <<>>, work}
      BY <2>1 DEF PrepareTableList
    <3>3. QED BY <1>1, <3>1, <3>2
  <2>2. ASSUME NEW s \in Schemas, DumpSchema(s) PROVE Data(work')
    BY <2>2 DEF DumpSchema, SchemaTasks, Messages
  <2>3. CASE DumpTableMeta
    BY <2>3 DEF DumpTableMeta, TableMetaTasks, Messages
  <2>4. CASE DumpTableData \/ FallBackToWhole
    <3>1. cur[1] \in Schemas \X TableInfo
      BY <2>4 DEF DumpTableData, FallBackToWhole, TypeOK, TypeProducer
    <3>2. work' \in {Messages(DataTasks(cur[1])), Messages(<<DataTasks(cur[1])[1]>>)}
      BY <2>4 DEF DumpTableData, FallBackToWhole
    <3>3. QED BY <1>2, <3>1, <3>2
  <2>5. CASE SendTask
    BY <1>1, <2>5 DEF SendTask
  <2>6. CASE SendAborted
    <3>1. work # <<>> /\ Head(work) \in Msgs
      BY <1>1, <2>6 DEF SendAborted
    <3>2. WholeTask(Head(work).task).kind = "whole"
      BY <3>1 DEF WholeTask, Msgs, Tasks
    <3>3. Data(<<Msg(WholeTask(Head(work).task), version)>>)
      BY <3>2 DEF Msg, IsData
    <3>4. work' \in {<<Msg(WholeTask(Head(work).task), version)>>, <<>>, work}
      BY <2>6 DEF SendAborted
    <3>5. QED BY <1>1, <3>3, <3>4
  <2>7. CASE work' = work
    BY <1>1, <2>7
  <2> HIDE DEF Data
  <2>8. QED BY <2>1, <2>2, <2>3, <2>4, <2>5, <2>6, <2>7, ProducerFrame
        DEF OpenMetaConn, QueryFails, PgDumpFails, CloseTaskIn, DeferTearDown, TakeTask, producer
<1>4. Data(q')
  <2>1. CASE SendTask
    <3>1. q' = Append(q, Head(work)) /\ work # <<>>
      BY <2>1 DEF SendTask
    <3>2. IsData(Head(work).task)
      BY <1>1, <3>1
    <3>3. \A i \in 1..Len(q') : q'[i] = Head(work) \/ (i \in 1..Len(q) /\ q'[i] = q[i])
      BY <1>1, <3>1
    <3>4. QED BY <1>1, <3>2, <3>3
  <2>2. ASSUME NEW w \in Writers, TakeTask(w) PROVE Data(q')
    <3>1. q' = Tail(q) /\ q # <<>>
      BY <2>2 DEF TakeTask
    <3>2. QED BY <1>1, <3>1
  <2>3. CASE q' = q
    BY <1>1, <2>3
  <2> HIDE DEF Data
  <2>4. QED BY <2>1, <2>2, <2>3, ProducerFrame
        DEF OpenMetaConn, PrepareTableList, QueryFails, PgDumpFails, DumpSchema, DumpTableMeta,
            DumpTableData, FallBackToWhole, SendAborted, CloseTaskIn, DeferTearDown, channel
<1>5. \A w \in Writers : wst'[w] # "meta"
  <2>1. ASSUME NEW w \in Writers, WriterStep(w) PROVE wst'[w] # "meta"
    <3>1. CASE TakeTask(w)
      <4>1. q # <<>> /\ IsData(Head(q).task)
        BY <1>1, <3>1 DEF TakeTask
      <4>2. QED BY <3>1, <4>1 DEF TakeTask, TypeOK, TypeWriters
    <3>2. QED BY <2>1, <3>1 DEF WriterStep, ExitNil, WriteMeta, StartQuery, WriteRows, EndBackoff,
             RebuildConn, FinishTask, ExitWithError, AttemptFailed, TypeOK, TypeWriters
  <2>2. ASSUME NEW w \in Writers, WriterStep(w), NEW v \in Writers PROVE wst'[v] # "meta"
    BY <2>1, <2>2, OtherWriters DEF DataOnly
  <2>3. ASSUME NEW w \in Writers, StartWriter(w), NEW v \in Writers PROVE wst'[v] # "meta"
    BY <2>3 DEF StartWriter, DataOnly, TypeOK, TypeWriters
  <2>4. QED BY <2>2, <2>3, WriterFrame DEF DataOnly, TearDownWriters, writers
<1> QED BY <1>3, <1>4, <1>5

LEMMA AttemptsPaidStep ==
    ASSUME TypeOK, MessagesGood, SnapshotShared, SnapshotHeld, DataOnly, AttemptsPaid, [Next]_vars
    PROVE  AttemptsPaid'
<1> USE ConstFacts
<1> DEFINE Paid(w) == /\ wst[w] \in {"query", "read", "rebuild"} => wtries[w] <= faults + 1
                      /\ wst[w] = "backoff" => wtries[w] <= faults
           Given == groupErr => faults >= MaxAttempts
<1> SUFFICES ASSUME Retriable' PROVE Given' /\ \A w \in Writers : Paid(w)'
  BY DEF AttemptsPaid
<1>1. Retriable
  BY StillRunning, Monotone, ConfFixed DEF Retriable, Repeatable
<1>2. Given /\ \A w \in Writers : Paid(w)
  BY <1>1 DEF AttemptsPaid
<1>3. faults \in Nat /\ faults' \in Nat /\ faults' >= faults
  BY FaultsStep DEF TypeOK, TypeOutput
<1>4. \A w \in Writers : wtries[w] \in 0..MaxAttempts
  BY DEF TypeOK, TypeWriters
<1>5. ASSUME UNCHANGED groupErr PROVE Given'
  BY <1>2, <1>3, <1>5
<1>6. ASSUME NEW w \in Writers, wst'[w] = wst[w], wtries'[w] = wtries[w] PROVE Paid(w)'
  BY <1>2, <1>3, <1>4, <1>6
<1>7. ASSUME NEW w \in Writers, NEW ok \in BOOLEAN, ok \/ groupErr, Fails(ok), AttemptFailed(w),
             wst[w] \in {"query", "read", "rebuild"}
      PROVE  Given' /\ Paid(w)'
  <2>1. wtries[w] <= faults + 1
    BY <1>2, <1>7
  <2>2. CtxDone => groupErr
    BY <1>1 DEF Retriable, CtxDone
  <2>3. (ok /\ faults' = faults + 1) \/ (groupErr /\ faults' = faults)
    BY <1>7 DEF Fails
  <2>4. wtries[w] <= faults'
    BY <1>2, <1>3, <1>4, <2>1, <2>3
  <2>5. CASE (wtries[w] = MaxAttempts \/ CtxDone) /\ ExitWithError(w)
    <3>1. faults' >= MaxAttempts
      BY <1>2, <1>3, <2>2, <2>4, <2>5
    <3>2. wst'[w] = "exited"
      BY <2>5 DEF ExitWithError, TypeOK, TypeWriters
    <3>3. QED BY <3>1, <3>2
  <2>6. CASE wst' = [wst EXCEPT ![w] = "backoff"] /\ UNCHANGED <<groupErr, wtries>>
    <3>1. wst'[w] = "backoff"
      BY <2>6 DEF TypeOK, TypeWriters
    <3>2. QED BY <1>5, <2>4, <2>6, <3>1
  <2>7. QED BY <1>7, <2>5, <2>6 DEF AttemptFailed
<1>8. ASSUME NEW w \in Writers, WriterStep(w) PROVE Given' /\ Paid(w)'
  <2>1. wst[w] # "unstarted"
    BY <1>8, OwnStep
  <2>2. ~Early /\ ~Returning
    BY <1>1, <2>1 DEF SnapshotShared, Retriable
  <2>3. CASE TakeTask(w)
    <3>1. wtries'[w] = 1
      BY <2>3 DEF TakeTask, TypeOK, TypeWriters
    <3>2. wst'[w] # "backoff" /\ UNCHANGED groupErr
      BY <2>3 DEF TakeTask, TypeOK, TypeWriters
    <3>3. \A n \in Nat : 1 <= n + 1
      OBVIOUS
    <3>4. Paid(w)'
      BY <1>3, <3>1, <3>2, <3>3, Zenon
    <3>5. QED BY <1>5, <3>2, <3>4
  <2>4. CASE ExitNil(w)
    <3>1. wst'[w] = "exited" /\ UNCHANGED groupErr
      BY <2>4 DEF ExitNil, TypeOK, TypeWriters
    <3>2. QED BY <1>5, <3>1
  <2>5. ~WriteMeta(w)
    BY <1>1 DEF WriteMeta, DataOnly, Retriable
  <2>6. CASE StartQuery(w)
    <3>1. CASE wst' = [wst EXCEPT ![w] = "read"] /\ UNCHANGED <<groupErr, wtries>> /\ wst[w] = "query"
      <4>1. wst'[w] = "read"
        BY <3>1 DEF TypeOK, TypeWriters
      <4>2. QED BY <1>2, <1>3, <1>4, <1>5, <3>1, <4>1
    <3>2. CASE Fails(~CtxDone /\ wconn[w] # Closed) /\ AttemptFailed(w) /\ wst[w] = "query"
      <4>1. (~CtxDone /\ wconn[w] # Closed) \/ groupErr
        BY <1>1, <2>1, <2>2 DEF SnapshotHeld, CtxDone, Retriable
      <4>2. QED BY <1>7, <3>2, <4>1
    <3>3. QED BY <2>6, <3>1, <3>2 DEF StartQuery
  <2>7. CASE WriteRows(w)
    <3>1. CASE FinishTask(w, wread[w])
      <4>1. wst'[w] = "idle" /\ UNCHANGED groupErr
        BY <3>1 DEF FinishTask, TypeOK, TypeWriters
      <4>2. QED BY <1>5, <4>1
    <3>2. CASE Fails(~CtxDone) /\ AttemptFailed(w) /\ wst[w] = "read"
      <4>1. ~CtxDone \/ groupErr
        BY <1>1 DEF CtxDone, Retriable
      <4>2. QED BY <1>7, <3>2, <4>1
    <3>3. QED BY <2>7, <3>1, <3>2 DEF WriteRows
  <2>8. CASE EndBackoff(w)
    <3>1. CASE wst' = [wst EXCEPT ![w] = "rebuild"] /\ wtries' = [wtries EXCEPT ![w] = @ + 1]
               /\ UNCHANGED groupErr /\ wst[w] = "backoff"
      <4>1. wst'[w] = "rebuild" /\ wtries'[w] = wtries[w] + 1
        BY <3>1 DEF TypeOK, TypeWriters
      <4>2. QED BY <1>2, <1>3, <1>4, <1>5, <3>1, <4>1
    <3>2. CASE CtxDone /\ ExitWithError(w)
      <4>1. groupErr /\ wst'[w] = "exited"
        BY <1>1, <3>2 DEF Retriable, CtxDone, ExitWithError, TypeOK, TypeWriters
      <4>2. QED BY <1>2, <1>3, <4>1
    <3>3. QED BY <2>8, <3>1, <3>2 DEF EndBackoff
  <2>9. CASE RebuildConn(w)
    <3>1. Repeatable => ctlConn /\ TokenAlive
      BY <1>1, <2>2 DEF Retriable, SnapshotHeld, SnapshotNeeded, Early, Returning, TypeOK, TypeMain,
                        Labels
    <3>2. (Repeatable => ctlConn) /\ CanConnect
      BY <1>1, <3>1 DEF CanConnect, Retriable
    <3>3. CASE wst' = [wst EXCEPT ![w] = "query"] /\ UNCHANGED <<groupErr, wtries>> /\ wst[w] = "rebuild"
      <4>1. wst'[w] = "query"
        BY <3>3 DEF TypeOK, TypeWriters
      <4>2. QED BY <1>2, <1>3, <1>4, <1>5, <3>3, <4>1
    <3>4. CASE Fails((Repeatable => ctlConn) /\ CanConnect) /\ AttemptFailed(w) /\ wst[w] = "rebuild"
      BY <1>7, <3>2, <3>4
    <3>5. QED BY <2>9, <3>3, <3>4 DEF RebuildConn
  <2>10. QED BY <1>8, <2>3, <2>4, <2>5, <2>6, <2>7, <2>8, <2>9 DEF WriterStep
<1>9. ASSUME NEW w \in Writers, WriterStep(w), NEW v \in Writers PROVE Paid(v)'
  <2>1. CASE v = w
    BY <1>8, <1>9, <2>1
  <2>2. CASE v # w
    <3>1. wst'[v] = wst[v] /\ wtries'[v] = wtries[v]
      BY <1>9, <2>2 DEF WriterStep, TakeTask, ExitNil, WriteMeta, StartQuery, WriteRows, EndBackoff,
         RebuildConn, FinishTask, ExitWithError, AttemptFailed, TypeOK, TypeWriters
    <3>2. QED BY <1>6, <3>1
  <2>3. QED BY <2>1, <2>2
<1>10. ASSUME NEW w \in Writers, StartWriter(w), NEW v \in Writers PROVE Given' /\ Paid(v)'
  <2>1. UNCHANGED <<groupErr, wtries>> /\ wst'[v] \in {wst[v], "idle"}
    BY <1>10 DEF StartWriter, TypeOK, TypeWriters
  <2>2. QED BY <1>5, <1>6, <2>1
<1>11. ASSUME TearDownWriters \/ UNCHANGED <<writers, groupErr>>, NEW v \in Writers PROVE Given' /\ Paid(v)'
  <2>1. UNCHANGED <<groupErr, wtries>> /\ wst'[v] = wst[v]
    BY <1>11 DEF TearDownWriters, writers
  <2>2. QED BY <1>5, <1>6, <2>1
<1>12. 1 \in Writers
  BY DEF Writers
<1> HIDE DEF Paid, Given
<1> QED BY <1>8, <1>9, <1>10, <1>11, <1>12, WriterFrame

-----------------------------------------------------------------------------
(* No task is handed out twice. *)

\* The writer that finishes the file of t holds t, and lets go of it.
LEMMA FinishesOwn ==
    ASSUME TypeOK, MessagesGood, LoopsOnce, [Next]_vars, NEW t \in AllTasks, file'[t] # file[t]
    PROVE  \E w \in Writers : /\ Busy(w) /\ wmsg[w].task = t /\ WriterStep(w)
                              /\ file'[t] \in Versions => ~Busy(w)'
<1>1. PICK w \in Writers : WriteMeta(w) \/ WriteRows(w)
  BY FileFrame
<1>2. Busy(w) /\ WriterStep(w)
  BY <1>1 DEF WriteMeta, WriteRows, Busy, WriterStep
<1>3. wmsg[w].task.kind # "whole"
  <2>1. CASE WriteMeta(w)
    BY <2>1 DEF WriteMeta, MessagesGood, IsData
  <2>2. CASE WriteRows(w)
    BY <2>2 DEF WriteRows, LoopsOnce
  <2>3. QED BY <1>1, <2>1, <2>2
<1>4. FileOf(wmsg[w].task) = wmsg[w].task
  BY <1>3 DEF FileOf
<1>5. \/ \E v : FinishTask(w, v)
      \/ SpoilFile(w)
  BY <1>1 DEF WriteMeta, WriteRows
<1>6. wmsg[w].task = t
  BY <1>4, <1>5 DEF FinishTask, SpoilFile, TypeOK, TypeOutput
<1>7. ASSUME SpoilFile(w) PROVE file'[t] = Torn
  BY <1>4, <1>6, <1>7 DEF SpoilFile, TypeOK, TypeOutput
<1>8. ASSUME NEW v, FinishTask(w, v) PROVE ~Busy(w)'
  BY <1>8 DEF FinishTask, Busy, TypeOK, TypeWriters
<1>9. file'[t] \in Versions => ~Busy(w)'
  BY <1>5, <1>7, <1>8, ConstFacts
<1> QED BY <1>2, <1>6, <1>9

\* Only TakeTask puts a task into the hands of a writer.
LEMMA HandsStep ==
    ASSUME TypeOK, [Next]_vars, ~(\E w \in Writers : TakeTask(w)), NEW v \in Writers, Busy(v)'
    PROVE  Busy(v) /\ wmsg'[v] = wmsg[v]
<1>1. ASSUME WriterStep(v) PROVE Busy(v) /\ wmsg'[v] = wmsg[v]
  <2> USE DEF TypeOK, TypeWriters, Busy
  <2>1. ~ExitNil(v)
    BY DEF ExitNil
  <2>2. CASE WriteMeta(v)
    BY <2>2 DEF WriteMeta, FinishTask, ExitWithError
  <2>3. CASE StartQuery(v)
    BY <2>3 DEF StartQuery, AttemptFailed, ExitWithError
  <2>4. CASE WriteRows(v)
    BY <2>4 DEF WriteRows, FinishTask, AttemptFailed, ExitWithError
  <2>5. CASE EndBackoff(v)
    BY <2>5 DEF EndBackoff, ExitWithError
  <2>6. CASE RebuildConn(v)
    BY <2>6 DEF RebuildConn, AttemptFailed, ExitWithError
  <2> QED BY <1>1, <2>1, <2>2, <2>3, <2>4, <2>5, <2>6 DEF WriterStep
<1>2. ASSUME NEW w \in Writers, w # v, WriterStep(w) PROVE Busy(v) /\ wmsg'[v] = wmsg[v]
  BY <1>2, OtherWriters DEF Busy
<1>3. ASSUME NEW w \in Writers, StartWriter(w) PROVE Busy(v) /\ wmsg'[v] = wmsg[v]
  BY <1>3 DEF StartWriter, Busy, TypeOK, TypeWriters
<1>4. TearDownWriters \/ UNCHANGED <<writers, groupErr>> => Busy(v) /\ wmsg'[v] = wmsg[v]
  BY DEF TearDownWriters, writers, Busy
<1> QED BY <1>1, <1>2, <1>3, <1>4, WriterFrame

\* While the stream of tasks stands still, a task only moves from a hand to its file.
LEMMA StreamStands ==
    ASSUME TypeOK, NEW t \in AllTasks, OnePlace(t), UNCHANGED <<q, work>>,
           \A v \in Writers : Busy(v)' => Busy(v) /\ wmsg'[v] = wmsg[v],
           \/ file'[t] \notin Versions \/ file[t] \in Versions
           \/ \E w \in Writers : Busy(w) /\ wmsg[w].task = t /\ ~Busy(w)'
    PROVE  OnePlace(t)' /\ (Dealt(t)' => Dealt(t))
<1>1. InHand(t)' => InHand(t)
  BY DEF InHand
<1>2. IsPending(t)' <=> IsPending(t)
  BY DEF IsPending, Waiting, Pending
<1>3. file'[t] \in Versions => file[t] \in Versions \/ (InHand(t) /\ ~InHand(t)')
  <2>1. ASSUME NEW w \in Writers, Busy(w), wmsg[w].task = t, ~Busy(w)'
        PROVE  InHand(t) /\ ~InHand(t)'
    BY <2>1 DEF InHand, OnePlace
  <2>2. QED BY <2>1
<1>4. (\A k, l \in Waiting : Pending(k) = t /\ Pending(l) = t => k = l)'
  BY DEF OnePlace, Waiting, Pending
<1>5. (\A v, w \in Writers : Busy(v) /\ Busy(w) /\ wmsg[v].task = t /\ wmsg[w].task = t => v = w)'
  BY DEF OnePlace
<1>6. OnePlace(t)'
  BY <1>1, <1>2, <1>3, <1>4, <1>5 DEF OnePlace
<1>7. Dealt(t)' => Dealt(t)
  BY <1>1, <1>2, <1>3 DEF Dealt
<1> QED BY <1>6, <1>7

\* New tasks that are all different and not dealt yet may join the stream.
LEMMA StreamGrows ==
    ASSUME TypeOK, NEW t \in AllTasks, OnePlace(t), work = <<>>, UNCHANGED <<q, writers, file>>,
           NEW ts \in Seq(Tasks), work' = Messages(ts),
           \A i, j \in 1..Len(ts) : ts[i] = ts[j] => i = j,
           \A i \in 1..Len(ts) : ts[i] = t => ~Dealt(t)
    PROVE  OnePlace(t)' /\ (Dealt(t)' => Dealt(t) \/ \E i \in 1..Len(ts) : ts[i] = t)
<1>1. /\ Len(work') = Len(ts) /\ Len(ts) \in Nat /\ Len(q) \in Nat /\ Len(work) = 0
      /\ \A i \in 1..Len(ts) : work'[i].task = ts[i]
  <2>1. Len(work') = Len(ts) /\ \A i \in 1..Len(ts) : work'[i] = Msg(ts[i], version)
    BY MessagesType DEF TypeOK
  <2>2. \A i \in 1..Len(ts) : work'[i].task = ts[i]
    <3>1. \A x, v : Msg(x, v).task = x
      BY DEF Msg
    <3>2. QED BY <2>1, <3>1
  <2>3. q \in Seq(Msgs) /\ Len(q) \in Nat /\ Len(ts) \in Nat
    BY DEF TypeOK, TypeProducer
  <2>4. QED BY <2>1, <2>2, <2>3
<1>2. Waiting = 1..Len(q) /\ Waiting' = 1..(Len(q) + Len(ts))
  BY <1>1 DEF Waiting
<1>3. \A k \in 1..Len(q) : Pending(k) = q[k].task /\ Pending(k)' = q[k].task
  BY <1>1 DEF Pending
<1>4. ASSUME NEW k \in Waiting', ~(k \in 1..Len(q))
      PROVE  k - Len(q) \in 1..Len(ts) /\ Pending(k)' = ts[k - Len(q)]
  <2>1. k \in Nat /\ k > Len(q) /\ k - Len(q) \in 1..Len(ts)
    BY <1>1, <1>2, <1>4
  <2>2. QED BY <1>1, <2>1 DEF Pending
<1>5. IsPending(t)' <=> IsPending(t) \/ \E i \in 1..Len(ts) : ts[i] = t
  <2>1. ASSUME NEW i \in 1..Len(ts), ts[i] = t PROVE IsPending(t)'
    <3>1. Len(q) + i \in Waiting' /\ ~(Len(q) + i \in 1..Len(q)) /\ (Len(q) + i) - Len(q) = i
      BY <1>1, <1>2, <2>1
    <3>2. Pending(Len(q) + i)' = t
      BY <1>4, <2>1, <3>1
    <3>3. QED BY <3>1, <3>2 DEF IsPending
  <2>2. ASSUME NEW k \in Waiting, Pending(k) = t PROVE IsPending(t)'
    <3>1. k \in Waiting' /\ Pending(k)' = t
      BY <1>1, <1>2, <1>3, <2>2
    <3>2. QED BY <3>1 DEF IsPending
  <2>3. ASSUME NEW k \in Waiting', Pending(k)' = t PROVE IsPending(t) \/ \E i \in 1..Len(ts) : ts[i] = t
    BY <1>2, <1>3, <1>4, <2>3 DEF IsPending
  <2>4. QED BY <2>1, <2>2, <2>3 DEF IsPending
<1>6. InHand(t)' <=> InHand(t)
  BY DEF InHand, Busy, writers
<1>7. ASSUME NEW k \in Waiting', NEW l \in Waiting', Pending(k)' = t, Pending(l)' = t PROVE k = l
  <2>1. CASE k \in 1..Len(q) /\ l \in 1..Len(q)
    BY <1>2, <1>3, <1>7, <2>1 DEF OnePlace
  <2>2. CASE k \in 1..Len(q) /\ ~(l \in 1..Len(q))
    <3>1. IsPending(t)
      BY <1>2, <1>3, <1>7, <2>2 DEF IsPending
    <3>2. QED BY <1>4, <1>7, <2>2, <3>1 DEF Dealt
  <2>3. CASE ~(k \in 1..Len(q)) /\ l \in 1..Len(q)
    <3>1. IsPending(t)
      BY <1>2, <1>3, <1>7, <2>3 DEF IsPending
    <3>2. QED BY <1>4, <1>7, <2>3, <3>1 DEF Dealt
  <2>4. CASE ~(k \in 1..Len(q)) /\ ~(l \in 1..Len(q))
    <3>1. k - Len(q) = l - Len(q)
      BY <1>4, <1>7, <2>4
    <3>2. QED BY <1>1, <1>2, <3>1
  <2>5. QED BY <2>1, <2>2, <2>3, <2>4
<1>8. OnePlace(t)'
  <2>1. (\A k, l \in Waiting : Pending(k) = t /\ Pending(l) = t => k = l)'
    BY <1>7
  <2>2. (\A v, w \in Writers : Busy(v) /\ Busy(w) /\ wmsg[v].task = t /\ wmsg[w].task = t => v = w)'
    BY DEF OnePlace, Busy, writers
  <2>3. (IsPending(t) => ~InHand(t) /\ file[t] \notin Versions)'
    BY <1>5, <1>6 DEF OnePlace, Dealt
  <2>4. (InHand(t) => file[t] \notin Versions)'
    BY <1>6 DEF OnePlace
  <2>5. QED BY <2>1, <2>2, <2>3, <2>4 DEF OnePlace
<1>9. Dealt(t)' => Dealt(t) \/ \E i \in 1..Len(ts) : ts[i] = t
  BY <1>5, <1>6 DEF Dealt
<1> QED BY <1>8, <1>9

\* The receiving end of infiniteChan: sending moves no task in the stream.
LEMMA SendKeeps ==
    ASSUME TypeOK, SendTask, NEW t \in AllTasks, OnePlace(t)
    PROVE  OnePlace(t)' /\ (Dealt(t)' => Dealt(t))
<1>1. q \in Seq(Msgs) /\ work \in Seq(Msgs) /\ work # <<>>
  BY DEF SendTask, TypeOK, TypeProducer
<1>2. q' = Append(q, Head(work)) /\ work' = Tail(work)
  BY DEF SendTask
<1>3. /\ Len(q) \in Nat /\ Len(work) \in Nat /\ Len(work) > 0
      /\ Len(q') = Len(q) + 1 /\ Len(work') = Len(work) - 1
      /\ \A k \in 1..Len(q) : q'[k] = q[k]
      /\ q'[Len(q) + 1] = work[1]
      /\ \A i \in 1..(Len(work) - 1) : work'[i] = work[i + 1]
  BY <1>1, <1>2
<1>4. Waiting' = Waiting
  BY <1>3 DEF Waiting
<1>5. \A k \in Waiting : Pending(k)' = Pending(k)
  <2>1. SUFFICES ASSUME NEW k \in Waiting PROVE Pending(k)' = Pending(k)
    OBVIOUS
  <2>2. k \in Nat /\ k >= 1 /\ k <= Len(q) + Len(work)
    BY <1>3 DEF Waiting
  <2>3. CASE k <= Len(q)
    BY <1>3, <2>2, <2>3 DEF Pending
  <2>4. CASE k = Len(q) + 1
    <3>1. k <= Len(q') /\ ~(k <= Len(q)) /\ k - Len(q) = 1
      BY <1>3, <2>2, <2>4
    <3>2. QED BY <1>3, <2>4, <3>1 DEF Pending
  <2>5. CASE k > Len(q) + 1
    <3>1. /\ ~(k <= Len(q')) /\ ~(k <= Len(q))
          /\ k - Len(q') \in 1..(Len(work) - 1) /\ (k - Len(q')) + 1 = k - Len(q)
      BY <1>3, <2>2, <2>5
    <3>2. QED BY <1>3, <3>1 DEF Pending
  <2>6. QED BY <1>3, <2>2, <2>3, <2>4, <2>5
<1>6. IsPending(t)' <=> IsPending(t)
  BY <1>4, <1>5 DEF IsPending
<1>7. InHand(t)' <=> InHand(t)
  BY DEF InHand, Busy, SendTask, writers
<1>8. UNCHANGED file /\ \A v \in Writers : Busy(v)' = Busy(v) /\ wmsg'[v] = wmsg[v]
  BY DEF Busy, SendTask, writers
<1>9. OnePlace(t)'
  <2>1. (\A k, l \in Waiting : Pending(k) = t /\ Pending(l) = t => k = l)'
    BY <1>4, <1>5 DEF OnePlace
  <2>2. (\A v, w \in Writers : Busy(v) /\ Busy(w) /\ wmsg[v].task = t /\ wmsg[w].task = t => v = w)'
    BY <1>8 DEF OnePlace
  <2>3. QED BY <1>6, <1>7, <1>8, <2>1, <2>2 DEF OnePlace
<1>10. Dealt(t)' => Dealt(t)
  BY <1>6, <1>7, <1>8 DEF Dealt
<1> QED BY <1>9, <1>10

\* A writer that takes a task takes it out of the stream.
LEMMA TakeKeeps ==
    ASSUME TypeOK, NEW w \in Writers, TakeTask(w), NEW t \in AllTasks, OnePlace(t)
    PROVE  OnePlace(t)' /\ (Dealt(t)' => Dealt(t))
<1>1. q \in Seq(Msgs) /\ work \in Seq(Msgs) /\ q # <<>> /\ work' = work
  BY DEF TakeTask, TypeOK, TypeProducer, producer
<1>2. q' = Tail(q) /\ wmsg' = [wmsg EXCEPT ![w] = Head(q)] /\ ~Busy(w) /\ UNCHANGED file
  BY DEF TakeTask, Busy
<1>3. /\ Len(q) \in Nat /\ Len(work) \in Nat /\ Len(q) > 0 /\ Len(q') = Len(q) - 1
      /\ \A k \in 1..(Len(q) - 1) : q'[k] = q[k + 1]
      /\ Head(q) = q[1]
  BY <1>1, <1>2
<1>4. \A k \in Waiting' : k + 1 \in Waiting /\ Pending(k)' = Pending(k + 1)
  <2>1. SUFFICES ASSUME NEW k \in Waiting' PROVE k + 1 \in Waiting /\ Pending(k)' = Pending(k + 1)
    OBVIOUS
  <2>2. k \in Nat /\ k >= 1 /\ k <= (Len(q) - 1) + Len(work)
    BY <1>1, <1>3 DEF Waiting
  <2>3. k + 1 \in Waiting
    BY <1>3, <2>2 DEF Waiting
  <2>4. CASE k <= Len(q')
    BY <1>3, <2>2, <2>3, <2>4 DEF Pending
  <2>5. CASE ~(k <= Len(q'))
    <3>1. ~(k + 1 <= Len(q)) /\ k - Len(q') = (k + 1) - Len(q)
      BY <1>3, <2>2, <2>5
    <3>2. QED BY <1>1, <2>3, <2>5, <3>1 DEF Pending
  <2>6. QED BY <2>3, <2>4, <2>5
<1>5. 1 \in Waiting /\ Pending(1) = Head(q).task
  BY <1>3 DEF Waiting, Pending
<1>6. ASSUME IsPending(t)' PROVE IsPending(t) /\ Head(q).task # t
  <2>1. PICK k \in Waiting' : Pending(k)' = t
    BY <1>6 DEF IsPending
  <2>2. k + 1 \in Waiting /\ Pending(k + 1) = t /\ k + 1 # 1
    <3>1. k \in Nat /\ k >= 1
      BY <1>1, <1>3 DEF Waiting
    <3>2. QED BY <1>4, <2>1, <3>1
  <2>3. QED BY <1>5, <2>2 DEF IsPending, OnePlace
<1>7. \A v \in Writers : v # w => (Busy(v)' = Busy(v)) /\ wmsg'[v] = wmsg[v]
  BY DEF TakeTask, Busy, TypeOK, TypeWriters
<1>8. wmsg'[w] = Head(q)
  BY <1>2 DEF TypeOK, TypeWriters
<1>9. InHand(t)' => InHand(t) \/ Head(q).task = t
  BY <1>7, <1>8 DEF InHand
<1>10. ASSUME Head(q).task = t PROVE IsPending(t) /\ ~InHand(t) /\ file[t] \notin Versions
  BY <1>5, <1>10 DEF IsPending, OnePlace
<1>11. (\A k, l \in Waiting : Pending(k) = t /\ Pending(l) = t => k = l)'
  <2>1. SUFFICES ASSUME NEW k \in Waiting', NEW l \in Waiting', Pending(k)' = t, Pending(l)' = t
                 PROVE  k = l
    OBVIOUS
  <2>2. k + 1 = l + 1
    <3>1. k + 1 \in Waiting /\ Pending(k + 1) = t
      BY <1>4, <2>1
    <3>2. l + 1 \in Waiting /\ Pending(l + 1) = t
      BY <1>4, <2>1
    <3>3. \A a, b \in Waiting : Pending(a) = t /\ Pending(b) = t => a = b
      BY DEF OnePlace
    <3>4. QED BY <3>1, <3>2, <3>3, Zenon
  <2>3. k \in Nat /\ l \in Nat
    BY <1>1, <1>3 DEF Waiting
  <2>4. QED BY <2>2, <2>3
<1>12. (\A v, u \in Writers : Busy(v) /\ Busy(u) /\ wmsg[v].task = t /\ wmsg[u].task = t => v = u)'
  <2>1. SUFFICES ASSUME NEW v \in Writers, NEW u \in Writers, Busy(v)', Busy(u)',
                        wmsg'[v].task = t, wmsg'[u].task = t
                 PROVE  v = u
    OBVIOUS
  <2>2. CASE v # w /\ u # w
    BY <1>7, <2>1, <2>2 DEF OnePlace
  <2>3. CASE v = w /\ u # w
    BY <1>7, <1>8, <1>10, <2>1, <2>3 DEF InHand
  <2>4. CASE v # w /\ u = w
    BY <1>7, <1>8, <1>10, <2>1, <2>4 DEF InHand
  <2>5. QED BY <2>2, <2>3, <2>4
<1>13. OnePlace(t)'
  <2>1. (IsPending(t) => ~InHand(t) /\ file[t] \notin Versions)'
    BY <1>2, <1>6, <1>9 DEF OnePlace
  <2>2. (InHand(t) => file[t] \notin Versions)'
    BY <1>2, <1>9, <1>10 DEF OnePlace
  <2>3. QED BY <1>11, <1>12, <2>1, <2>2 DEF OnePlace
<1>14. Dealt(t)' => Dealt(t)
  BY <1>2, <1>6, <1>9, <1>10 DEF Dealt
<1> QED BY <1>13, <1>14

\* A producer whose context is done gives the tasks up, or sends a whole-table task.
LEMMA AbortKeeps ==
    ASSUME TypeOK, SendAborted, NEW t \in AllTasks, OnePlace(t)
    PROVE  OnePlace(t)' /\ (Dealt(t)' => Dealt(t))
<1>1. q \in Seq(Msgs) /\ work \in Seq(Msgs) /\ work # <<>> /\ Head(work) \in Msgs
  <2>1. q \in Seq(Msgs) /\ work \in Seq(Msgs) /\ work # <<>>
    BY DEF SendAborted, TypeOK, TypeProducer
  <2>2. QED BY <2>1
<1> DEFINE m == Msg(WholeTask(Head(work).task), version)
<1>2. m.task # t
  <2>1. Head(work).task \in Tasks
    BY <1>1 DEF Msgs
  <2>2. WholeTask(Head(work).task).kind = "whole"
    BY <2>1 DEF WholeTask, Tasks
  <2>3. QED BY <2>2, TaskKinds DEF Msg
<1>3. UNCHANGED <<q, writers, file>> /\ work' \in {<<m>>, <<>>, work}
  BY DEF SendAborted, channel
<1>4. /\ Len(q) \in Nat /\ Len(work) \in Nat
      /\ Len(work') \in Nat
      /\ \A i \in 1..Len(work') : work'[i] = m \/ (i \in 1..Len(work) /\ work'[i] = work[i])
  <2> HIDE DEF m
  <2>1. QED BY <1>1, <1>3
<1> HIDE DEF m
<1>5. ASSUME NEW k \in Waiting', Pending(k)' = t PROVE k \in Waiting /\ Pending(k) = t
  <2>1. k \in Nat /\ k >= 1 /\ k <= Len(q) + Len(work')
    BY <1>3, <1>4 DEF Waiting
  <2>2. CASE k <= Len(q)
    BY <1>3, <1>4, <1>5, <2>1, <2>2 DEF Waiting, Pending
  <2>3. CASE ~(k <= Len(q))
    <3>1. k - Len(q) \in 1..Len(work') /\ work'[k - Len(q)].task = t
      BY <1>3, <1>4, <1>5, <2>1, <2>3 DEF Pending
    <3>2. k - Len(q) \in 1..Len(work) /\ work[k - Len(q)].task = t
      BY <1>2, <1>4, <3>1
    <3>3. k \in Waiting
      BY <1>4, <2>1, <3>2 DEF Waiting
    <3>4. QED BY <2>3, <3>2, <3>3 DEF Pending
  <2>4. QED BY <2>2, <2>3
<1>6. IsPending(t)' => IsPending(t)
  BY <1>5 DEF IsPending
<1>7. InHand(t)' <=> InHand(t)
  BY <1>3 DEF InHand, Busy, writers
<1>8. \A v \in Writers : Busy(v)' = Busy(v) /\ wmsg'[v] = wmsg[v]
  BY <1>3 DEF Busy, writers
<1>9. OnePlace(t)'
  <2>1. (\A k, l \in Waiting : Pending(k) = t /\ Pending(l) = t => k = l)'
    BY <1>5 DEF OnePlace
  <2>2. (\A v, w \in Writers : Busy(v) /\ Busy(w) /\ wmsg[v].task = t /\ wmsg[w].task = t => v = w)'
    BY <1>8 DEF OnePlace
  <2>3. QED BY <1>3, <1>6, <1>7, <2>1, <2>2 DEF OnePlace
<1>10. Dealt(t)' => Dealt(t)
  BY <1>3, <1>6, <1>7 DEF Dealt
<1> QED BY <1>9, <1>10

\* The loops: what the producer takes up next it has not taken up before.
LEMMA LoopsOnceStep ==
    ASSUME TypeOK, MessagesGood, SnapshotShared, LoopsOnce, [Next]_vars PROVE LoopsOnce'
<1> DEFINE Loops == /\ \A i, j \in 1..Len(tables) : TableId(tables[i]) = TableId(tables[j]) => i = j
                    /\ \A i \in 1..Len(tables) : tables[i][1] \notin todo
                    /\ \A i \in 1..Len(cur) :
                          /\ cur[i][1] \notin todo
                          /\ \A j \in 1..Len(tables) : TableId(cur[i]) # TableId(tables[j])
<1>1. Loops
  BY DEF LoopsOnce
<1>2. ASSUME UNCHANGED <<todo, tables, cur>> PROVE Loops'
  BY <1>1, <1>2
<1>3. ASSUME PrepareTableList PROVE Loops'
  <2>1. tables = <<>> /\ cur = <<>> /\ UNCHANGED <<tables, cur>>
    BY <1>3 DEF PrepareTableList, LoopsOnce, Early
  <2>2. QED BY <2>1
<1>4. ASSUME NEW s \in Schemas, DumpSchema(s) PROVE Loops'
  <2>1. todo' = todo \ {s} /\ tables' = Pairs(s) /\ cur = <<>> /\ cur' = cur
    BY <1>4 DEF DumpSchema
  <2>2. TablesOf[s] \in Seq(TableInfo)
    BY ConstantsAssumption DEF ConstantsAssumption
  <2>3. Len(Pairs(s)) = Len(TablesOf[s]) /\ \A i \in 1..Len(TablesOf[s]) : Pairs(s)[i] = <<s, TablesOf[s][i]>>
    BY <2>2 DEF Pairs
  <2>4. \A i, j \in 1..Len(TablesOf[s]) : TablesOf[s][i].name = TablesOf[s][j].name => i = j
    BY ConstantsAssumption DEF ConstantsAssumption
  <2>5. \A i \in 1..Len(TablesOf[s]) : TableId(Pairs(s)[i]) = <<s, TablesOf[s][i].name>>
    BY <2>3 DEF TableId
  <2>6. \A i, j \in 1..Len(tables') : TableId(tables'[i]) = TableId(tables'[j]) => i = j
    BY <2>1, <2>3, <2>4, <2>5
  <2>7. \A i \in 1..Len(tables') : tables'[i][1] \notin todo'
    BY <2>1, <2>3
  <2>8. QED BY <2>1, <2>6, <2>7 DEF TableId
<1>5. ASSUME DumpTableMeta PROVE Loops'
  <2>1. /\ tables \in Seq(Schemas \X TableInfo) /\ tables # <<>> /\ tables' = Tail(tables)
        /\ todo' = todo /\ (cur' = <<Head(tables)>> \/ cur' = <<>>)
    BY <1>5 DEF DumpTableMeta, TypeOK, TypeProducer
  <2>2. /\ Len(tables) \in Nat /\ Len(tables) > 0 /\ Len(tables') = Len(tables) - 1
        /\ \A i \in 1..(Len(tables) - 1) : tables'[i] = tables[i + 1]
        /\ Head(tables) = tables[1] /\ 1 \in 1..Len(tables)
    BY <2>1
  <2>3. \A i, j \in 1..Len(tables') : TableId(tables'[i]) = TableId(tables'[j]) => i = j
    <3>1. SUFFICES ASSUME NEW i \in 1..Len(tables'), NEW j \in 1..Len(tables'),
                          TableId(tables'[i]) = TableId(tables'[j])
                   PROVE  i = j
      OBVIOUS
    <3>2. i + 1 \in 1..Len(tables) /\ j + 1 \in 1..Len(tables)
      BY <2>2
    <3>3. TableId(tables[i + 1]) = TableId(tables[j + 1])
      BY <2>2, <3>1
    <3>4. i + 1 = j + 1
      BY <1>1, <3>2, <3>3
    <3>5. QED BY <2>2, <3>4
  <2>4. \A i \in 1..Len(tables') : tables'[i][1] \notin todo'
    <3>1. \A i \in 1..Len(tables') : i + 1 \in 1..Len(tables)
      BY <2>2
    <3>2. QED BY <1>1, <2>1, <2>2, <3>1
  <2>5. \A j \in 1..Len(tables') : TableId(tables[1]) # TableId(tables'[j])
    <3>1. SUFFICES ASSUME NEW j \in 1..Len(tables'), TableId(tables[1]) = TableId(tables'[j])
                   PROVE  FALSE
      OBVIOUS
    <3>2. j + 1 \in 1..Len(tables) /\ j + 1 # 1 /\ tables'[j] = tables[j + 1]
      BY <2>2
    <3>3. QED BY <1>1, <2>2, <3>1, <3>2
  <2>6. tables[1][1] \notin todo'
    BY <1>1, <2>1, <2>2
  <2>7. \A i \in 1..Len(cur') : cur'[i] = tables[1]
    BY <2>1, <2>2
  <2>8. QED BY <2>3, <2>4, <2>5, <2>6, <2>7
<1>6. ASSUME DumpTableData \/ FallBackToWhole PROVE Loops'
  <2>1. cur' = <<>> /\ UNCHANGED <<todo, tables>>
    BY <1>6 DEF DumpTableData, FallBackToWhole
  <2>2. QED BY <1>1, <2>1
<1>7. Loops'
  <2> HIDE DEF Loops
  <2> QED BY <1>2, <1>3, <1>4, <1>5, <1>6, ProducerFrame
          DEF OpenMetaConn, QueryFails, PgDumpFails, SendTask, SendAborted, CloseTaskIn,
              DeferTearDown, TakeTask, producer
<1>8. Early' => Early
  <2>1. Early' => Early \/ UNCHANGED main
    BY MainFrame DEF MainStep, NewConsistencyController, CreateCDCSlot, BeginSnapshot, OpenMetaConn,
      PrepareTableList, StartWriter, ReleaseSnapshot, QueryFails, PgDumpFails, DumpSchema,
      DumpTableMeta, DumpTableData, FallBackToWhole, SendTask, SendAborted, ProducerDone, CloseTaskIn,
      WaitWriters, TearDownWriters, DeferTearDown, OnFailure, WriteMetadata, Return,
      ProducerStops, Early, main
  <2>2. QED BY <2>1 DEF Early, main
<1>9. Early' => (work = <<>> /\ q = <<>> /\ tables = <<>> /\ cur = <<>>)'
  <2>1. ASSUME Early', ~UNCHANGED <<work, q, tables, cur>> PROVE FALSE
    <3>1. \A w \in Writers : ~TakeTask(w)
      BY <1>8, <2>1 DEF SnapshotShared, TakeTask
    <3>2. pc \in {"new", "slot", "begin", "metaConn", "prepare"}
      BY <1>8, <2>1 DEF Early
    <3>3. ~PrepareTableList
      BY <2>1 DEF PrepareTableList, Early, Return, channel
    <3>4. QED BY <2>1, <3>1, <3>2, <3>3, ProducerFrame
          DEF OpenMetaConn, QueryFails, PgDumpFails, DumpSchema, DumpTableMeta, DumpTableData,
              FallBackToWhole, SendTask, SendAborted, CloseTaskIn, DeferTearDown, producer, channel
  <2>2. QED BY <1>8, <2>1 DEF LoopsOnce
<1>10. ASSUME NEW v \in Writers, wst'[v] = "read" PROVE wmsg'[v].task.kind # "whole"
  <2>1. CASE wst[v] = "read" /\ wmsg'[v] = wmsg[v]
    BY <2>1 DEF LoopsOnce
  <2>2. ASSUME StartQuery(v) PROVE wmsg'[v].task.kind # "whole"
    <3>1. wst[v] = "query" /\ wmsg'[v] = wmsg[v] /\ ~CtxDone
      BY <1>10, <2>2 DEF StartQuery, AttemptFailed, ExitWithError, TypeOK, TypeWriters
    <3>2. QED BY <3>1 DEF MessagesGood, Busy, GoodMsg
  <2>3. ASSUME WriterStep(v), ~StartQuery(v) PROVE FALSE
    BY <1>10, <2>3 DEF WriterStep, TakeTask, ExitNil, WriteMeta, WriteRows, EndBackoff, RebuildConn,
             FinishTask, ExitWithError, AttemptFailed, TypeOK, TypeWriters
  <2>4. ASSUME NEW w \in Writers, w # v, WriterStep(w) PROVE wst[v] = "read" /\ wmsg'[v] = wmsg[v]
    BY <1>10, <2>4, OtherWriters
  <2>5. ASSUME NEW w \in Writers, StartWriter(w) PROVE wst[v] = "read" /\ wmsg'[v] = wmsg[v]
    BY <1>10, <2>5 DEF StartWriter, TypeOK, TypeWriters
  <2>6. TearDownWriters \/ UNCHANGED <<writers, groupErr>> => wst[v] = "read" /\ wmsg'[v] = wmsg[v]
    BY <1>10 DEF TearDownWriters, writers
  <2> QED BY <2>1, <2>2, <2>3, <2>4, <2>5, <2>6, WriterFrame
<1> QED BY <1>7, <1>9, <1>10 DEF LoopsOnce

\* The tasks the producer builds of one schema or table carry its name.
LEMMA SchemaTaskOf ==
    ASSUME NEW c, NEW s
    PROVE  /\ \A i, j \in 1..Len(SchemaTasks(c, s)) : i = j
           /\ \A i \in 1..Len(SchemaTasks(c, s)) :
                  SchemaTasks(c, s)[i].kind = "schema" /\ SchemaTasks(c, s)[i].sch = s
  BY DEF SchemaTasks, Task

LEMMA TableTaskOf ==
    ASSUME NEW c, NEW p \in Schemas \X TableInfo
    PROVE  /\ \A i, j \in 1..Len(TableMetaTasks(c, p)) : i = j
           /\ \A i \in 1..Len(TableMetaTasks(c, p)) :
                  LET t == TableMetaTasks(c, p)[i]
                  IN t.kind \notin {"schema", "data"} /\ t.sch = p[1] /\ t.tbl = p[2].name
<1>1. MetaKind(p[2]) \notin {"schema", "data"}
  BY DEF MetaKind, TableInfo
<1>2. QED BY <1>1 DEF TableMetaTasks, Task

LEMMA DataTaskOf ==
    ASSUME NEW p \in Schemas \X TableInfo
    PROVE  /\ \A i, j \in 1..Len(DataTasks(p)) : DataTasks(p)[i] = DataTasks(p)[j] => i = j
           /\ \A i \in 1..Len(DataTasks(p)) :
                  LET t == DataTasks(p)[i]
                  IN t.kind = "data" /\ t.sch = p[1] /\ t.tbl = p[2].name
<1>1. p[2].chunks \in Nat
  BY DEF TableInfo
<1>2. Len(DataTasks(p)) = p[2].chunks
  BY <1>1 DEF DataTasks
<1>3. \A i \in 1..p[2].chunks : DataTasks(p)[i] = Task("data", p[1], p[2].name, i - 1)
  BY DEF DataTasks
<1>4. \A i \in 1..p[2].chunks : /\ DataTasks(p)[i].kind = "data" /\ DataTasks(p)[i].sch = p[1]
                                /\ DataTasks(p)[i].tbl = p[2].name /\ DataTasks(p)[i].chunk = i - 1
  <2>1. \A k, a, b, n : /\ Task(k, a, b, n).kind = k /\ Task(k, a, b, n).sch = a
                        /\ Task(k, a, b, n).tbl = b /\ Task(k, a, b, n).chunk = n
    BY DEF Task
  <2>2. QED BY <1>3, <2>1
<1>5. \A i, j \in 1..p[2].chunks : i - 1 = j - 1 => i = j
  BY <1>1
<1>6. \A i, j \in 1..p[2].chunks : DataTasks(p)[i] = DataTasks(p)[j] => i = j
  BY <1>4, <1>5
<1>7. QED BY <1>2, <1>4, <1>6

LEMMA HandedOutOnceStep ==
    ASSUME TypeOK, MessagesGood, SnapshotShared, LoopsOnce, HandedOutOnce, [Next]_vars
    PROVE  HandedOutOnce'
<1> SUFFICES ASSUME NEW t \in AllTasks PROVE OnePlace(t)' /\ (Dealt(t)' => ~ToCome(t)')
  BY DEF HandedOutOnce
<1>1. OnePlace(t) /\ (Dealt(t) => ~ToCome(t))
  BY DEF HandedOutOnce
<1> DEFINE Goal == OnePlace(t)' /\ (Dealt(t)' => ~ToCome(t)')
<1>2. ASSUME OnePlace(t)', Dealt(t)' => Dealt(t), UNCHANGED <<todo, tables, cur>> PROVE Goal
  BY <1>1, <1>2 DEF ToCome
<1>3. ASSUME SendTask PROVE Goal
  BY <1>1, <1>2, <1>3, SendKeeps DEF SendTask
<1>4. ASSUME NEW w \in Writers, TakeTask(w) PROVE Goal
  BY <1>1, <1>2, <1>4, TakeKeeps DEF TakeTask, producer
<1>5. ASSUME SendAborted PROVE Goal
  BY <1>1, <1>2, <1>5, AbortKeeps DEF SendAborted
<1>6. ASSUME PrepareTableList PROVE Goal
  <2>1. /\ UNCHANGED <<q, writers, file, tables, cur>>
        /\ work = <<>> /\ q = <<>> /\ tables = <<>> /\ cur = <<>>
    BY <1>6 DEF PrepareTableList, LoopsOnce, Early, channel
  <2>2. ~InHand(t) /\ file[t] \notin Versions
    BY <1>6, ConstFacts DEF PrepareTableList, SnapshotShared, Early, InHand, Busy
  <2>3. CASE conf.SQL
    <3>1. todo' = {} \/ (todo' = todo /\ UNCHANGED work)
      BY <1>6, <2>3 DEF PrepareTableList
    <3>2. work' = <<Msg(SqlTask, Absent)>> \/ work' = work
      BY <1>6, <2>3 DEF PrepareTableList
    <3>3. Len(work') <= 1 /\ Len(work') \in Nat /\ q' = <<>> /\ Len(q') = 0
      <4>1. \A x : Len(<<x>>) = 1
        OBVIOUS
      <4>2. Len(work') = 1 \/ work' = <<>>
        BY <2>1, <3>2, <4>1
      <4>3. q' = <<>>
        BY <2>1
      <4>4. Len(work') \in {0, 1}
        BY <4>2
      <4>5. Len(q') = 0
        BY <4>3
      <4>6. Len(work') <= 1 /\ Len(work') \in Nat
        BY <4>4
      <4>7. QED BY <4>3, <4>5, <4>6
    <3>4. \A k, l \in Waiting' : k = l
      BY <3>3 DEF Waiting
    <3>5. ~InHand(t)' /\ file'[t] \notin Versions
      BY <2>1, <2>2 DEF InHand, Busy, writers
    <3>6. OnePlace(t)'
      <4>1. (\A k, l \in Waiting : Pending(k) = t /\ Pending(l) = t => k = l)'
        BY <3>4
      <4>2. (\A v, w \in Writers : Busy(v) /\ Busy(w) /\ wmsg[v].task = t /\ wmsg[w].task = t => v = w)'
        BY <3>5 DEF InHand
      <4>3. QED BY <3>5, <4>1, <4>2 DEF OnePlace
    <3>7. CASE todo' = {}
      BY <2>1, <3>6, <3>7 DEF ToCome
    <3>8. CASE todo' = todo /\ UNCHANGED work
      <4>1. Waiting' = {}
        BY <2>1, <3>8 DEF Waiting
      <4>2. ~Dealt(t)'
        BY <3>5, <4>1 DEF Dealt, IsPending
      <4>3. QED BY <3>6, <4>2
    <3>9. QED BY <3>1, <3>7, <3>8
  <2>4. CASE ~conf.SQL
    <3>1. work' = <<>> /\ q' = <<>>
      BY <1>6, <2>1, <2>4 DEF PrepareTableList
    <3>2. Waiting' = {}
      BY <3>1 DEF Waiting
    <3>3. ~InHand(t)' /\ file'[t] \notin Versions
      BY <2>1, <2>2 DEF InHand, Busy, writers
    <3>4. OnePlace(t)' /\ ~Dealt(t)'
      <4>1. (\A v, w \in Writers : Busy(v) /\ Busy(w) /\ wmsg[v].task = t /\ wmsg[w].task = t => v = w)'
        BY <3>3 DEF InHand
      <4>2. QED BY <3>2, <3>3, <4>1 DEF OnePlace, Dealt, IsPending
    <3>5. QED BY <3>4
  <2>5. QED BY <2>3, <2>4
<1>7. ASSUME NEW s \in Schemas, DumpSchema(s) PROVE Goal
  <2> DEFINE ts == SchemaTasks(conf, s)
  <2>1. /\ work = <<>> /\ cur = <<>> /\ tables = <<>> /\ s \in todo /\ work' = Messages(ts)
        /\ todo' = todo \ {s} /\ tables' = Pairs(s) /\ cur' = <<>> /\ UNCHANGED <<q, writers, file>>
    BY <1>7 DEF DumpSchema, channel
  <2>2. ts \in Seq(Tasks)
    BY SchemaTasksType
  <2>3. /\ \A i, j \in 1..Len(ts) : i = j
        /\ \A i \in 1..Len(ts) : ts[i].kind = "schema" /\ ts[i].sch = s
    BY SchemaTaskOf
  <2> HIDE DEF ts
  <2>4. \A i \in 1..Len(ts) : ts[i] = t => ~Dealt(t)
    BY <1>1, <2>1, <2>3 DEF ToCome
  <2>5. OnePlace(t)' /\ (Dealt(t)' => Dealt(t) \/ \E i \in 1..Len(ts) : ts[i] = t)
    BY <1>1, <2>1, <2>2, <2>3, <2>4, StreamGrows
  <2>6. \A i \in 1..Len(tables') : TableId(tables'[i])[1] = s
    <3>1. TablesOf[s] \in Seq(TableInfo)
      BY ConstantsAssumption DEF ConstantsAssumption
    <3>2. QED BY <2>1, <3>1 DEF Pairs, TableId
  <2>7. ASSUME Dealt(t), ToCome(t)' PROVE FALSE
    <3>1. t.sch \notin todo /\ t.sch # s
      BY <1>1, <2>1, <2>7 DEF ToCome
    <3>2. ~(\E i \in 1..Len(tables') : <<t.sch, t.tbl>> = TableId(tables'[i]))
      <4>1. ASSUME NEW i \in 1..Len(tables'), <<t.sch, t.tbl>> = TableId(tables'[i]) PROVE FALSE
        <5>1. <<t.sch, t.tbl>>[1] = s
          BY <2>6, <4>1
        <5>2. QED BY <3>1, <5>1
      <4>2. QED BY <4>1
    <3>3. QED BY <2>1, <2>7, <3>1, <3>2 DEF ToCome
  <2>8. ASSUME NEW i \in 1..Len(ts), ts[i] = t, ToCome(t)' PROVE FALSE
    BY <2>1, <2>3, <2>8 DEF ToCome
  <2>9. QED BY <2>5, <2>7, <2>8
<1>8. ASSUME DumpTableMeta PROVE Goal
  <2> DEFINE p == Head(tables)
             ts == TableMetaTasks(conf, p)
  <2>1. /\ work = <<>> /\ cur = <<>> /\ tables # <<>> /\ work' = Messages(ts)
        /\ todo' = todo /\ tables' = Tail(tables) /\ (cur' = <<p>> \/ cur' = <<>>)
        /\ UNCHANGED <<q, writers, file>>
    BY <1>8 DEF DumpTableMeta, channel
  <2>2. tables \in Seq(Schemas \X TableInfo)
    BY DEF TypeOK, TypeProducer
  <2>3. /\ p \in Schemas \X TableInfo /\ p = tables[1] /\ 1 \in 1..Len(tables) /\ Len(tables) \in Nat
        /\ Len(tables') = Len(tables) - 1
        /\ \A i \in 1..(Len(tables) - 1) : tables'[i] = tables[i + 1]
    BY <2>1, <2>2
  <2> HIDE DEF p
  <2>4. ts \in Seq(Tasks)
    BY <2>3, TableMetaTasksType
  <2>5. /\ \A i, j \in 1..Len(ts) : i = j
        /\ \A i \in 1..Len(ts) : ts[i].kind \notin {"schema", "data"} /\ ts[i].sch = p[1] /\ ts[i].tbl = p[2].name
    BY <2>3, TableTaskOf
  <2> HIDE DEF ts
  <2>6. \A i \in 1..Len(ts) : ts[i] = t => ~Dealt(t)
    <3>1. ASSUME NEW i \in 1..Len(ts), ts[i] = t PROVE ToCome(t)
      <4>1. t.kind # "schema" /\ <<t.sch, t.tbl>> = TableId(tables[1])
        BY <2>3, <2>5, <3>1 DEF TableId
      <4>2. QED BY <2>3, <4>1 DEF ToCome
    <3>2. QED BY <1>1, <3>1
  <2>7. OnePlace(t)' /\ (Dealt(t)' => Dealt(t) \/ \E i \in 1..Len(ts) : ts[i] = t)
    BY <1>1, <2>1, <2>4, <2>5, <2>6, StreamGrows
  <2>8. \A i \in 1..Len(tables') : i + 1 \in 1..Len(tables) /\ tables'[i] = tables[i + 1]
    BY <2>3
  <2>9. \A i \in 1..Len(cur') : cur'[i] = tables[1]
    BY <2>1, <2>3
  <2>10. ASSUME Dealt(t), ToCome(t)' PROVE FALSE
    <3>1. ~ToCome(t)
      BY <1>1, <2>10
    <3>2. t.sch \notin todo'
      BY <2>1, <3>1 DEF ToCome
    <3>3. ASSUME NEW i \in 1..Len(tables'), t.kind # "schema", <<t.sch, t.tbl>> = TableId(tables'[i]) PROVE FALSE
      BY <2>8, <3>1, <3>3 DEF ToCome
    <3>4. ASSUME NEW i \in 1..Len(cur'), t.kind = "data", <<t.sch, t.tbl>> = TableId(cur'[i]) PROVE FALSE
      BY <2>3, <2>9, <3>1, <3>4 DEF ToCome
    <3>5. QED BY <2>10, <3>2, <3>3, <3>4 DEF ToCome
  <2>11. ASSUME NEW n \in 1..Len(ts), ts[n] = t, ToCome(t)' PROVE FALSE
    <3>1. t.kind \notin {"schema", "data"} /\ <<t.sch, t.tbl>> = TableId(tables[1]) /\ t.sch = tables[1][1]
      BY <2>3, <2>5, <2>11 DEF TableId
    <3>2. t.sch \notin todo'
      BY <2>1, <2>3, <3>1 DEF LoopsOnce
    <3>3. ASSUME NEW i \in 1..Len(tables'), <<t.sch, t.tbl>> = TableId(tables'[i]) PROVE FALSE
      <4>1. i + 1 \in 1..Len(tables) /\ TableId(tables[i + 1]) = TableId(tables[1]) /\ i + 1 # 1
        BY <2>3, <2>8, <3>1, <3>3
      <4>2. QED BY <2>3, <4>1 DEF LoopsOnce
    <3>4. QED BY <2>11, <3>1, <3>2, <3>3 DEF ToCome
  <2>12. QED BY <2>7, <2>10, <2>11
<1>9. ASSUME NEW ts \in Seq(Tasks), work = <<>>, cur # <<>>, cur[1] \in Schemas \X TableInfo,
             work' = Messages(ts), cur' = <<>>, UNCHANGED <<q, writers, file, todo, tables>>,
             \A i, j \in 1..Len(ts) : ts[i] = ts[j] => i = j,
             \A i \in 1..Len(ts) : /\ ts[i].kind = "data" /\ ts[i].sch = cur[1][1]
                                   /\ ts[i].tbl = cur[1][2].name
      PROVE  Goal
  <2>1. 1 \in 1..Len(cur)
    BY <1>9 DEF TypeOK, TypeProducer
  <2>2. ASSUME NEW i \in 1..Len(ts), ts[i] = t
        PROVE  t.kind = "data" /\ <<t.sch, t.tbl>> = TableId(cur[1]) /\ t.sch = cur[1][1]
    BY <1>9, <2>2 DEF TableId
  <2>3. \A i \in 1..Len(ts) : ts[i] = t => ~Dealt(t)
    BY <1>1, <2>1, <2>2 DEF ToCome
  <2>4. OnePlace(t)' /\ (Dealt(t)' => Dealt(t) \/ \E i \in 1..Len(ts) : ts[i] = t)
    BY <1>1, <1>9, <2>3, StreamGrows
  <2>5. ASSUME Dealt(t) PROVE ~ToCome(t)'
    BY <1>1, <1>9, <2>5 DEF ToCome
  <2>6. ASSUME NEW n \in 1..Len(ts), ts[n] = t PROVE ~ToCome(t)'
    <3>1. t.kind = "data" /\ <<t.sch, t.tbl>> = TableId(cur[1]) /\ t.sch = cur[1][1]
      BY <2>2, <2>6
    <3>2. t.sch \notin todo /\ \A j \in 1..Len(tables) : TableId(cur[1]) # TableId(tables[j])
      BY <2>1, <3>1 DEF LoopsOnce
    <3>3. QED BY <1>9, <3>1, <3>2 DEF ToCome
  <2>7. QED BY <2>4, <2>5, <2>6
<1>10. ASSUME DumpTableData PROVE Goal
  <2>1. /\ work = <<>> /\ cur # <<>> /\ work' = Messages(DataTasks(cur[1])) /\ cur' = <<>>
        /\ UNCHANGED <<q, writers, file, todo, tables>>
    BY <1>10 DEF DumpTableData, channel
  <2>2. cur[1] \in Schemas \X TableInfo
    BY <2>1 DEF TypeOK, TypeProducer
  <2>3. DataTasks(cur[1]) \in Seq(Tasks)
    BY <2>2, DataTasksType
  <2>4. QED BY <1>9, <2>1, <2>2, <2>3, DataTaskOf
<1>11. ASSUME FallBackToWhole PROVE Goal
  <2> DEFINE x == DataTasks(cur[1])[1]
  <2>1. /\ work = <<>> /\ cur # <<>> /\ work' = Messages(<<x>>) /\ cur' = <<>>
        /\ UNCHANGED <<q, writers, file, todo, tables>>
    BY <1>11 DEF FallBackToWhole, channel
  <2>2. cur[1] \in Schemas \X TableInfo
    BY <2>1 DEF TypeOK, TypeProducer
  <2>3. x \in Tasks /\ x = Task("data", cur[1][1], cur[1][2].name, 0)
    BY <2>2, FirstChunk
  <2>4. x.kind = "data" /\ x.sch = cur[1][1] /\ x.tbl = cur[1][2].name
    BY <2>3 DEF Task
  <2> HIDE DEF x
  <2>5. /\ <<x>> \in Seq(Tasks) /\ Len(<<x>>) = 1 /\ <<x>>[1] = x
        /\ \A i \in 1..Len(<<x>>) : i = 1
    BY <2>3
  <2>6. \A i \in 1..Len(<<x>>) : /\ <<x>>[i].kind = "data" /\ <<x>>[i].sch = cur[1][1]
                                 /\ <<x>>[i].tbl = cur[1][2].name
    BY <2>4, <2>5
  <2>7. \A i, j \in 1..Len(<<x>>) : <<x>>[i] = <<x>>[j] => i = j
    BY <2>5
  <2>8. QED BY <1>9, <2>1, <2>2, <2>5, <2>6, <2>7
<1>12. ASSUME ~(\E w \in Writers : TakeTask(w)), UNCHANGED <<q, work, todo, tables, cur>> PROVE Goal
  <2>1. \A v \in Writers : Busy(v)' => Busy(v) /\ wmsg'[v] = wmsg[v]
    BY <1>12, HandsStep
  <2>2. \/ file'[t] \notin Versions \/ file[t] \in Versions
        \/ \E w \in Writers : Busy(w) /\ wmsg[w].task = t /\ ~Busy(w)'
    BY FinishesOwn
  <2>3. OnePlace(t)' /\ (Dealt(t)' => Dealt(t))
    BY <1>1, <1>12, <2>1, <2>2, StreamStands
  <2>4. QED BY <1>2, <1>12, <2>3
<1> HIDE DEF Goal
<1>13. Goal
  BY <1>3, <1>4, <1>5, <1>6, <1>7, <1>8, <1>10, <1>11, <1>12, ProducerFrame
  DEF OpenMetaConn, QueryFails, PgDumpFails, CloseTaskIn, DeferTearDown, producer, channel
<1> QED BY <1>13 DEF Goal

-----------------------------------------------------------------------------
(* The theorems. *)

LEMMA IInvInit == Init => IInv
<1> SUFFICES ASSUME Init PROVE IInv OBVIOUS
<1>1. TypeOK
  BY TypeInit
<1>2. SlotTracked /\ NothingLost /\ ProducerExhausted
  BY DEF Init, SlotTracked, NothingLost, ProducerExhausted, Producing, Draining, Succeeded, Returning
<1>3. Endings
  BY DEF Init, Endings, Draining, Succeeded, Returning
<1>4. MessagesGood
  BY DEF Init, MessagesGood, Busy
<1>5. SnapshotShared
  BY DEF Init, SnapshotShared
<1>6. OneSnapshot
  BY ConstFacts DEF Init, OneSnapshot
<1>7. FailureCleansUp /\ NoneFailed
  BY DEF Init, FailureCleansUp, NoneFailed
<1>8. SnapshotHeld
  BY DEF Init, SnapshotHeld, SnapshotNeeded
<1>9. DataOnly /\ AttemptsPaid
  <2>1. DataOnly
    BY DEF Init, DataOnly
  <2>2. AttemptsPaid
    BY DEF Init, AttemptsPaid
  <2>3. QED BY <2>1, <2>2
<1>10. LoopsOnce
  BY DEF Init, LoopsOnce
<1>11. HandedOutOnce
  <2>1. SUFFICES ASSUME NEW t \in AllTasks PROVE OnePlace(t) /\ ~Dealt(t)
    BY DEF HandedOutOnce
  <2>2. Waiting = {} /\ file[t] \notin Versions /\ \A w \in Writers : ~Busy(w)
    BY ConstFacts DEF Init, Waiting, Busy
  <2>3. QED BY <2>2 DEF OnePlace, Dealt, IsPending, InHand
<1> QED BY <1>1, <1>2, <1>3, <1>4, <1>5, <1>6, <1>7, <1>8, <1>9, <1>10, <1>11 DEF IInv

LEMMA IInvStep == IInv /\ [Next]_vars => IInv'
<1> SUFFICES ASSUME IInv, [Next]_vars PROVE IInv' OBVIOUS
<1> USE DEF IInv
<1>1. TypeOK'
  BY TypeServerStep, TypeMainStep, TypeProducerStep, TypeWritersStep, TypeOutputStep DEF TypeOK
<1> QED BY <1>1, SlotTrackedStep, EndingsStep, MessagesGoodStep, SnapshotSharedStep,
           OneSnapshotStep, ProducerExhaustedStep, NothingLostStep, FailureCleansUpStep,
           SnapshotHeldStep, NoneFailedStep, DataOnlyStep, AttemptsPaidStep, LoopsOnceStep,
           HandedOutOnceStep

\* The inductive invariant of Dump holds for any schemas, tables, chunks, number
\* of threads, errors and commits.
THEOREM Invariance == Spec => []IInv
  BY IInvInit, IInvStep, PTL DEF Spec

\* A dump that returned nil, and was not cancelled, has delivered its plan.
LEMMA SuccessDelivers ==
    ASSUME IInv, Succeeded, ~cancelled
    PROVE  Delivered /\ \A w \in Writers : wst[w] = "exited"
<1> USE DEF IInv
<1>1. ~CtxDone /\ \A w \in Writers : wst[w] = "exited"
  BY DEF Endings, CtxDone
<1>2. 1 \in Writers
  BY ConstFacts DEF Writers
<1>3. q = <<>>
  BY <1>1, <1>2 DEF Endings
<1>4. Remaining = {}
  <2>1. work = <<>> /\ cur = <<>> /\ tables = <<>> /\ todo = {}
    BY <1>1 DEF ProducerExhausted
  <2>2. TasksReady = {} /\ TasksOfTodo = {}
    BY <2>1 DEF TasksReady, TasksOfTodo
  <2>3. TasksOfCur = {} /\ TasksOfTables = {}
    BY <2>1 DEF TasksOfCur, TasksOfTables, ToSet
  <2>4. QED BY <2>2, <2>3 DEF Remaining
<1>5. \A t : ~Queued(t) /\ ~InHand(t)
  BY <1>1, <1>3 DEF Queued, InHand, Busy
<1> QED BY <1>1, <1>4, <1>5 DEF NothingLost, Delivered

\* Every variable always has a value of its type: the retry counters stay
\* within dumpChunkRetryTime and the injected errors within their bound.
THEOREM TypeCorrect == Spec => []TypeOK
<1>1. IInv => TypeOK
  BY DEF IInv
<1> QED BY <1>1, Invariance, PTL

\* For any schemas, tables, chunks, number of threads, errors and commits: when
\* Dump returns nil and nobody cancelled it, every planned file is complete.
THEOREM DumpComplete == Spec => []CompleteOnSuccess
<1>1. IInv => CompleteOnSuccess
  BY SuccessDelivers DEF CompleteOnSuccess, Succeeded
<1> QED BY <1>1, Invariance, PTL

\* All data files of a dump with --consistency snapshot show one version.
THEOREM DumpConsistent == Spec => []OneSnapshot
<1>1. IInv => OneSnapshot
  BY DEF IInv
<1> QED BY <1>1, Invariance, PTL

\* The slot that a successful dump created still exists when Dump returns.
THEOREM SlotKept == Spec => []SlotKeptOnSuccess
<1>1. IInv => SlotKeptOnSuccess
  BY ConstFacts DEF IInv, SlotTracked, SlotKeptOnSuccess, Succeeded
<1> QED BY <1>1, Invariance, PTL

\* A metadata file with a finish time tells the truth about the slot, its
\* consistent point and the files.
THEOREM MetadataIsTrue == Spec => []MetadataTrue
<1>1. ASSUME IInv, "finish" \in metadata PROVE Succeeded
  BY <1>1 DEF IInv, SlotTracked, Succeeded, Returning
<1>2. ASSUME IInv, "finish" \in metadata PROVE dumpErr = "nil" /\ ("cdc" \in metadata <=> madeSlot)
  BY <1>2 DEF IInv, SlotTracked
<1>3. ASSUME IInv, "finish" \in metadata, madeSlot PROVE slot = token.at
  BY <1>3 DEF IInv, SlotTracked
<1>4. IInv => MetadataTrue
  BY <1>1, <1>2, <1>3, SuccessDelivers DEF MetadataTrue
<1> QED BY <1>4, Invariance, PTL

\* For any dump: as long as no error comes from outside, nobody cancels it and
\* the user's session stays, Dump returns nil. No connection is opened on a
\* snapshot whose exporter is gone.
THEOREM FailsOnlyForACause == Spec => []NoSpuriousFailure
<1>1. IInv => NoSpuriousFailure
  BY DEF IInv, NoneFailed, NoSpuriousFailure
<1> QED BY <1>1, Invariance, PTL

\* A single error of the main goroutine after Setup fails the dump and drops
\* the slot that Dump had created.
THEOREM SlotDropped == Spec => []MainFailureDropsSlot
<1>1. IInv => MainFailureDropsSlot
  BY DEF IInv, FailureCleansUp, MainFailureDropsSlot
<1> QED BY <1>1, Invariance, PTL

\* Where connections can be rebuilt, a writer returns an error only after
\* dumpChunkRetryTime attempts have failed, for any number of them.
THEOREM RetriesExhausted == Spec => []GivesUpAfterRetries
<1>1. ASSUME IInv PROVE GivesUpAfterRetries
  <2>1. SUFFICES ASSUME conf.NoSchemas, userAlive, ~cancelled, groupErr,
                        pc \in {"produce", "close", "wait"},
                        Repeatable => ~conf.TransactionalConsistency
                 PROVE  faults >= MaxAttempts
    BY DEF GivesUpAfterRetries
  <2>2. Retriable
    BY <2>1 DEF Retriable, Returning
  <2>3. QED BY <1>1, <2>1, <2>2 DEF IInv, AttemptsPaid
<1> QED BY <1>1, Invariance, PTL

\* A file that was written to its end is never opened again: no two writers,
\* and no two attempts after a success, work on one file.
THEOREM FilesAreFinal == Spec => FinishedFileIsFinal
<1>1. ASSUME IInv, [Next]_vars
      PROVE  \A t \in AllTasks : file[t] \in Versions => file'[t] = file[t]
  <2>1. SUFFICES ASSUME NEW t \in AllTasks, file[t] \in Versions, file'[t] # file[t] PROVE FALSE
    OBVIOUS
  <2>2. InHand(t)
    BY <1>1, <2>1, FinishesOwn DEF IInv, InHand
  <2>3. OnePlace(t)
    BY <1>1 DEF IInv, HandedOutOnce
  <2>4. QED BY <2>1, <2>2, <2>3 DEF OnePlace
<1>2. IInv /\ [Next]_vars => [\A t \in AllTasks : file[t] \in Versions => file'[t] = file[t]]_vars
  BY <1>1
<1> QED BY <1>2, Invariance, PTL DEF Spec, FinishedFileIsFinal
-----------------------------------------------------------------------------
(* Dump implements DumpJob. *)

LEMMA JobInit == Init => Job!Init
<1> SUFFICES ASSUME Init PROVE Job!Init OBVIOUS
<1>1. TypeOK
  BY TypeInit
<1>2. Plan(conf) \subseteq AllTasks
  BY <1>1, PlanTasks
<1>3. Phase = "running"
  BY DEF Init, Phase, Returning
<1>4. Written = {} /\ Planned \subseteq AllTasks
  BY <1>2, ConstFacts DEF Init, Written, Planned
<1> QED BY <1>2, <1>3, <1>4 DEF Init, Job!Init

\* A step of a writer, or one that neither decides the result, touches the
\* slot, a file or the metadata file nor cancels, is a Write or a stutter.
LEMMA JobWrite ==
    ASSUME IInv, [Next]_vars, Phase' = Phase,
           UNCHANGED <<slot, metadata, cancelled, whole>>,
           Succeeded => UNCHANGED file
    PROVE  [Job!Next]_(Job!jobVars)
<1>1. conf' = conf
  BY ConfFixed
<1>2. Planned' = Planned
  BY <1>1 DEF Planned, Superseded
<1>3. Written' \subseteq Planned
  BY <1>2 DEF Written
<1>4. CASE Succeeded
  <2>1. Written' = Written
    BY <1>2, <1>4 DEF Written
  <2>2. QED BY <1>2, <2>1 DEF Job!jobVars
<1>5. CASE ~Succeeded
  <2>1. Phase # "succeeded"
    BY <1>5 DEF Phase, Succeeded
  <2>2. Job!Write
    BY <1>2, <1>3, <2>1 DEF Job!Write
  <2>3. QED BY <2>2 DEF Job!Next
<1> QED BY <1>4, <1>5

\* The result is decided: an error.
LEMMA JobFail ==
    ASSUME IInv, [Next]_vars, ~Returning, Returning', dumpErr' = "fail",
           UNCHANGED <<file, metadata, cancelled, whole>>, slot # Absent => slot' # Absent
    PROVE  Job!Next
<1>1. conf' = conf
  BY ConfFixed
<1>2. Planned' = Planned /\ Written' = Written
  BY <1>1 DEF Written, Planned, Superseded
<1>3. Phase = "running" /\ Phase' = "failed"
  BY DEF Phase
<1>4. (slot' # Absent) \in {slot # Absent, TRUE}
  OBVIOUS
<1>5. Job!Fail
  BY <1>2, <1>3, <1>4 DEF Job!Fail
<1> QED BY <1>5 DEF Job!Next

LEMMA JobReplan == ASSUME FallBackToWhole PROVE Job!Next
<1>1. Phase = "running" /\ Phase' = "running"
  BY DEF FallBackToWhole, Phase, Returning, main
<1>2. \A t : Superseded(t) => Superseded(t)'
  BY DEF FallBackToWhole, Superseded
<1>3. Planned' \subseteq Planned
  BY <1>2 DEF FallBackToWhole, Planned
<1>4. Written' = Written \cap Planned'
  BY <1>3 DEF FallBackToWhole, Written
<1>5. Job!Replan
  BY <1>1, <1>3, <1>4 DEF Job!Replan, FallBackToWhole, server
<1> QED BY <1>5 DEF Job!Next

LEMMA JobMainStep ==
    ASSUME IInv, MainStep, ~FallBackToWhole, [Next]_vars PROVE [Job!Next]_(Job!jobVars)
<1>1. conf' = conf
  BY ConfFixed
<1>2. UNCHANGED whole /\ Planned' = Planned /\ (UNCHANGED file => Written' = Written)
  BY <1>1, WholeFrame DEF Written, Planned, Superseded
<1>3. IInv'
  BY IInvStep
<1> DEFINE Quiet == UNCHANGED <<file, slot, metadata, cancelled>>
           Fails1 == ~Returning /\ Returning' /\ dumpErr' = "fail"
           Same == UNCHANGED dumpErr /\ (Returning' <=> Returning)
<1>4. Quiet /\ (Fails1 \/ Same) => [Job!Next]_(Job!jobVars)
  <2>1. Same => Phase' = Phase
    BY DEF Phase
  <2>2. QED BY <1>2, <2>1, JobFail, JobWrite
<1> USE DEF Returning
<1>5. ASSUME \/ NewConsistencyController \/ BeginSnapshot \/ OpenMetaConn
             \/ PrepareTableList \/ ReleaseSnapshot
      PROVE  Quiet /\ (Fails1 \/ Same)
  BY <1>5 DEF NewConsistencyController, BeginSnapshot, OpenMetaConn,
              PrepareTableList, ReleaseSnapshot, Return, server
<1>6. ASSUME NEW w \in Writers, StartWriter(w) PROVE Quiet /\ (Fails1 \/ Same)
  BY <1>6 DEF StartWriter, Return, server
<1>7. ASSUME QueryFails \/ PgDumpFails \/ SendAborted \/ ProducerDone
      PROVE  Quiet /\ (Fails1 \/ Same)
  BY <1>7 DEF QueryFails, PgDumpFails, SendAborted, ProducerDone, ProducerStops, Return, server
<1>8. ASSUME \/ (\E s \in Schemas : DumpSchema(s))
             \/ DumpTableMeta \/ DumpTableData \/ SendTask
             \/ CloseTaskIn \/ TearDownWriters \/ DeferTearDown
      PROVE  Quiet /\ Same
  BY <1>8 DEF DumpSchema, DumpTableMeta, DumpTableData, SendTask, CloseTaskIn, TearDownWriters,
              DeferTearDown, server, main
<1>9. CASE CreateCDCSlot
  <2>1. slot = Absent /\ dumpErr = "nil"
    BY <1>9 DEF CreateCDCSlot, IInv, SlotTracked
  <2>2. CASE Fails1
    BY <1>2, <1>9, <2>1, <2>2, JobFail DEF CreateCDCSlot
  <2>3. CASE ~Fails1
    <3>1. slot' = version /\ pc = "slot" /\ pc' = "begin" /\ UNCHANGED <<dumpErr, file, metadata, cancelled>>
      BY <1>9, <2>3 DEF CreateCDCSlot, Return
    <3>2. slot' # Absent
      BY <3>1, ConstFacts DEF IInv, TypeOK, TypeServer
    <3>3. Phase = "running" /\ Phase' = "running"
      BY <3>1 DEF Phase
    <3>4. Job!Reserve
      BY <1>2, <2>1, <3>1, <3>2, <3>3 DEF Job!Reserve
    <3>5. QED BY <3>4 DEF Job!Next
  <2>4. QED BY <2>2, <2>3
<1>10. CASE WaitWriters
  <2>1. Quiet /\ pc = "wait" /\ pc' = "dWriters"
    BY <1>10 DEF WaitWriters, Return, server
  <2>2. CASE dumpErr' = "fail"
    BY <1>4, <2>1, <2>2
  <2>3. CASE dumpErr' # "fail"
    <3>1. dumpErr' = "nil"
      BY <1>10, <2>3 DEF WaitWriters, Return
    <3>2. Phase = "running" /\ Phase' = "succeeded"
      BY <2>1, <3>1 DEF Phase
    <3>3. Succeeded'
      BY <2>1, <3>1 DEF Succeeded
    <3>4. ~cancelled' => Delivered'
      <4>1. IInv' /\ Succeeded' /\ ~cancelled' => Delivered'
        BY SuccessDelivers, PTL
      <4>2. QED BY <1>3, <3>3, <4>1
    <3>5. cancelled \/ Written = Planned
      BY <1>2, <2>1, <3>4 DEF Delivered, Written, Planned
    <3>6. Job!Succeed
      BY <1>2, <2>1, <3>2, <3>5 DEF Job!Succeed
    <3>7. QED BY <3>6 DEF Job!Next
  <2>4. QED BY <2>2, <2>3
<1>11. CASE OnFailure
  <2>1. Same /\ UNCHANGED <<file, metadata, cancelled, madeSlot>> /\ pc = "dOnFailure"
    BY <1>11 DEF OnFailure, controller
  <2>2. CASE slot' = slot
    BY <1>4, <2>1, <2>2
  <2>3. CASE slot' # slot
    <3>1. slot' = Absent /\ madeSlot
      BY <1>11, <2>3 DEF OnFailure
    <3>2. dumpErr # "nil"
      BY <1>3, <2>1, <3>1, ConstFacts DEF IInv, SlotTracked, Succeeded
    <3>3. Phase = "failed" /\ Phase' = "failed"
      BY <2>1, <3>2 DEF Phase
    <3>4. Job!GiveBack
      BY <1>2, <2>1, <2>3, <3>1, <3>3 DEF Job!GiveBack
    <3>5. QED BY <3>4 DEF Job!Next
  <2>4. QED BY <2>2, <2>3
<1>12. CASE WriteMetadata
  <2>1. Same /\ UNCHANGED <<file, slot, cancelled>> /\ pc = "dMetadata"
    BY <1>12 DEF WriteMetadata, server
  <2>2. "finish" \notin metadata
    BY <2>1 DEF IInv, SlotTracked
  <2>3. CASE "finish" \in metadata'
    <3>1. dumpErr = "nil"
      BY <1>12, <2>2, <2>3 DEF WriteMetadata
    <3>2. Phase = "succeeded" /\ Phase' = "succeeded"
      BY <2>1, <3>1 DEF Phase
    <3>3. Job!Publish
      BY <1>2, <2>1, <2>2, <2>3, <3>2 DEF Job!Publish
    <3>4. QED BY <3>3 DEF Job!Next
  <2>4. CASE "finish" \notin metadata'
    <3>1. Phase' = Phase
      BY <2>1 DEF Phase
    <3>2. QED BY <1>2, <2>1, <2>2, <2>4, <3>1 DEF Job!jobVars
  <2>5. QED BY <2>3, <2>4
<1> QED BY <1>4, <1>5, <1>6, <1>7, <1>8, <1>9, <1>10, <1>11, <1>12 DEF MainStep

\* Every behaviour of Dump, seen through its result, its complete files, its
\* slot and its finish time, is a behaviour of the job it promises to be.
THEOREM DumpImplementsJob == Spec => ImplementsJob
<1>1. IInv /\ [Next]_vars => [Job!Next]_(Job!jobVars)
  <2> SUFFICES ASSUME IInv, [Next]_vars PROVE [Job!Next]_(Job!jobVars) OBVIOUS
  <2>1. ASSUME NEW w \in Writers, WriterStep(w) PROVE [Job!Next]_(Job!jobVars)
    <3>1. UNCHANGED <<main, slot, metadata, cancelled, whole>>
      BY <2>1 DEF WriterStep, TakeTask, ExitNil, WriteMeta, StartQuery, WriteRows, EndBackoff,
                  RebuildConn, server, producer
    <3>2. Phase' = Phase
      BY <3>1 DEF Phase, Returning, main
    <3>3. ~Succeeded
      BY <2>1 DEF IInv, Endings, WriterStep, TakeTask, ExitNil, WriteMeta, StartQuery, WriteRows,
                  EndBackoff, RebuildConn
    <3>4. QED BY <3>1, <3>2, <3>3, JobWrite
  <2>2. ASSUME OtherCommit \/ UserSessionEnds \/ UNCHANGED vars PROVE [Job!Next]_(Job!jobVars)
    <3>1. UNCHANGED <<main, slot, metadata, cancelled, file, whole>>
      BY <2>2 DEF OtherCommit, UserSessionEnds, vars, server, producer
    <3>2. Phase' = Phase
      BY <3>1 DEF Phase, Returning, main
    <3>3. QED BY <3>1, <3>2, JobWrite
  <2>3. ASSUME Close PROVE [Job!Next]_(Job!jobVars)
    <3>1. UNCHANGED <<main, slot, metadata, file, conf, whole>> /\ ~cancelled /\ cancelled' = TRUE
      BY <2>3 DEF Close, server, producer
    <3>2. Phase' = Phase /\ Planned' = Planned /\ Written' = Written
      BY <3>1 DEF Phase, Returning, main, Written, Planned, Superseded
    <3>3. Job!Cancel
      BY <3>1, <3>2 DEF Job!Cancel
    <3>4. QED BY <3>3 DEF Job!Next
  <2> QED BY <2>1, <2>2, <2>3, JobReplan, JobMainStep, NextCases
<1> QED BY <1>1, JobInit, Invariance, PTL DEF Spec, ImplementsJob, Job!Spec
=============================================================================
