---------------------------- MODULE ChunkWriter ----------------------------
(***************************************************************************)
(* One call of WriteTableData: the rows of a chunk travel from the result  *)
(* set through a buffer and the channel of the writer pipe, a goroutine of *)
(* its own, into one or several files, in as many attempts as it takes.    *)
(*                                                                         *)
(* What is written is a sequence of pieces, all of size 1: the head of a   *)
(* file, the beginning of a statement, a row with what ends it.            *)
(***************************************************************************)
EXTENDS Integers, SequencesExt

CONSTANTS
    Result,       \* the rows of the chunk, in the order the query returns them
    Configs,      \* the configurations a behaviour may start with
    BufLimit,     \* lengthLimit
    PipeCap,      \* capacity of the pipe's input channel
    MaxAttempts,  \* dumpChunkRetryTime
    MaxFaults,    \* bound: injected errors
    MayCancel     \* whether the context may end during the call

\* FileSize and StatementSize are 0 when unspecified.
Config == [format : {"sql", "csv"}, FileSize : Nat, StatementSize : Nat]

ASSUME ConstantsAssumption ==
    /\ Result \in Seq(Nat \ {0})
    /\ Configs \subseteq Config
    /\ BufLimit \in Nat \ {0} /\ PipeCap \in Nat \ {0} /\ MaxAttempts \in Nat \ {0}
    /\ MaxFaults \in Nat /\ MayCancel \in BOOLEAN

VARIABLES
    conf, ctxDone, faults,
    \* --- the calling goroutine
    pc, err, tries,
    pos, rowsErr,      \* the row iterator: next row, rows.Err() # nil
    idx, opened,       \* current file, and whether this WriteInsert created it
    bf, fileSize, statementSize,
    counter, lastCounter,
    \* --- the pipe: goroutine, channels, context
    pst, pbuf, input, inClosed, stopped, errOccurs, errCh, finishedSize,
    \* --- output and metrics
    files, rowsGauge, sizeGauge

env == <<conf, ctxDone, faults>>
call == <<pc, err, tries, pos, rowsErr, idx>>
buffer == <<bf, fileSize, statementSize, counter, lastCounter>>
pipe == <<pst, pbuf, input, inClosed, stopped, errOccurs, errCh, finishedSize>>
output == <<opened, files, rowsGauge, sizeGauge>>
vars == <<env, call, buffer, pipe, output>>
-----------------------------------------------------------------------------
Piece(what, row) == [what |-> what, row |-> row]
FileHead == Piece("head", 0)
InsertPrefix == Piece("insert", 0)

\* A row in the buffer of a statement that may go on, or end, or of a CSV file.
RowPiece(row, what) == Piece(what, row)

Fault == faults < MaxFaults /\ faults' = faults + 1

\* An operation fails because its own precondition is gone, or by an injected error.
Fails(ok) == IF ok THEN Fault ELSE UNCHANGED faults

HasNext == pos <= Len(Result) /\ ~rowsErr

\* Mutant of ShouldSwitchFile: the limit itself is not enough.
ShouldSwitchFileAbove == conf.FileSize # 0 /\ fileSize > conf.FileSize

ShouldSwitchFile == conf.FileSize # 0 /\ fileSize >= conf.FileSize

\* Mutant of ShouldSwitchStatement: the end of the file is not the end of its statement.
ShouldSwitchStatementOnly == conf.StatementSize # 0 /\ statementSize >= conf.StatementSize

ShouldSwitchStatement ==
    ShouldSwitchFile \/ (conf.StatementSize # 0 /\ statementSize >= conf.StatementSize)

BufferFull == Len(bf) >= BufLimit

\* Where the loops over the rows go on after a row.
Continue(hasNext) ==
    IF ShouldSwitchFile \/ ~hasNext THEN "flush"
    ELSE IF conf.format = "sql" /\ ShouldSwitchStatement THEN "statement" ELSE "row"

Init ==
    /\ conf \in Configs /\ ctxDone = FALSE /\ faults = 0
    /\ pc = "query" /\ err = "nil" /\ tries = 1
    /\ pos = 1 /\ rowsErr = FALSE /\ idx = 1 /\ opened = FALSE
    /\ bf = <<>> /\ fileSize = 0 /\ statementSize = 0 /\ counter = 0 /\ lastCounter = 0
    /\ pst = "none" /\ pbuf = <<>> /\ input = <<>> /\ inClosed = FALSE /\ stopped = FALSE
    /\ errOccurs = FALSE /\ errCh = <<>> /\ finishedSize = 0
    /\ files = <<>> /\ rowsGauge = 0 /\ sizeGauge = 0
-----------------------------------------------------------------------------
(* WriteTableData and tryToWriteTableData. *)

\* ir.Start: the query of the chunk; its rows are read from the first on.
StartQuery ==
    /\ pc = "query"
    /\ pos' = 1 /\ rowsErr' = FALSE /\ idx' = 1
    /\ \/ ~ctxDone /\ pc' = "open" /\ err' = "nil" /\ UNCHANGED faults
       \/ Fails(~ctxDone) /\ pc' = "failed" /\ err' = "query"
    /\ UNCHANGED <<conf, ctxDone, tries, buffer, pipe, output>>

\* WriteInsert and WriteInsertInCsv begin: nothing to do without a row, else
\* the pipe starts and the head of the file goes to the buffer.
OpenFile ==
    /\ pc = "open"
    /\ opened' = FALSE
    /\ \/ /\ ~HasNext
          /\ pc' = "close" /\ err' = IF rowsErr THEN "rows" ELSE "nil"
          /\ UNCHANGED <<buffer, pipe>>
       \/ /\ HasNext
          /\ pc' = IF conf.format = "sql" THEN "statement" ELSE "row"
          /\ bf' = <<FileHead>> /\ fileSize' = 1 /\ statementSize' = 0
          /\ counter' = 0 /\ lastCounter' = 0
          /\ pst' = "receive" /\ pbuf' = <<>> /\ input' = <<>> /\ inClosed' = FALSE
          /\ stopped' = FALSE /\ errOccurs' = FALSE /\ errCh' = <<>> /\ finishedSize' = 0
          /\ UNCHANGED err
    /\ UNCHANGED <<env, tries, pos, rowsErr, idx, files, rowsGauge, sizeGauge>>

\* The outer loop of WriteInsert.
BeginStatement ==
    /\ pc = "statement"
    /\ bf' = Append(bf, InsertPrefix)
    /\ fileSize' = fileSize + 1 /\ statementSize' = 1
    /\ pc' = "row"
    /\ UNCHANGED <<env, err, tries, pos, rowsErr, idx, counter, lastCounter, pipe, output>>

\* Decode a row and put it into the buffer.
EncodeRow ==
    /\ pc = "row"
    /\ \/ /\ bf' = Append(bf, RowPiece(Result[pos], "line"))
          /\ counter' = counter + 1
          /\ fileSize' = fileSize + 1
          /\ statementSize' = IF conf.format = "sql" THEN statementSize + 1 ELSE 0
          /\ pc' = IF conf.format = "csv" /\ Len(bf) + 1 >= BufLimit THEN "send" ELSE "next"
          /\ UNCHANGED <<err, faults>>
       \/ /\ Fault
          /\ err' = "decode" /\ pc' = "revert"
          /\ UNCHANGED buffer
    /\ UNCHANGED <<conf, ctxDone, tries, pos, rowsErr, idx, lastCounter, pipe, output>>

\* fileRowIter.Next; in a statement the row is then ended by a comma or a semicolon.
NextRow ==
    /\ pc = "next"
    /\ pos' = pos + 1
    /\ \/ UNCHANGED <<rowsErr, faults>>
       \/ Fault /\ rowsErr' = TRUE
    /\ \/ /\ conf.format = "csv"
          /\ pc' = Continue(HasNext') /\ UNCHANGED bf
       \/ /\ conf.format = "sql"
          /\ bf' = [bf EXCEPT ![Len(bf)].what =
                        IF HasNext' /\ ~ShouldSwitchStatement THEN "comma" ELSE "semicolon"]
          /\ pc' = IF BufferFull THEN "send" ELSE Continue(HasNext')
    /\ UNCHANGED <<conf, ctxDone, err, tries, idx, fileSize, statementSize, counter,
                   lastCounter, pipe, output>>

AfterSend == IF conf.format = "csv" THEN "next" ELSE Continue(HasNext)

\* The select that hands a full buffer to the pipe.
SendBuffer ==
    /\ pc = "send"
    /\ \/ /\ Len(input) < PipeCap
          /\ input' = Append(input, bf) /\ bf' = <<>>
          /\ rowsGauge' = rowsGauge + counter - lastCounter /\ lastCounter' = counter
          /\ pc' = AfterSend
          /\ UNCHANGED <<err, errCh>>
       \/ /\ errCh # <<>>
          /\ err' = Head(errCh) /\ errCh' = Tail(errCh)
          /\ pc' = "revert"
          /\ UNCHANGED <<input, bf, rowsGauge, lastCounter>>
       \/ /\ ctxDone
          /\ err' = "canceled" /\ pc' = "revert"
          /\ UNCHANGED <<input, bf, rowsGauge, lastCounter, errCh>>
    /\ UNCHANGED <<env, tries, pos, rowsErr, idx, fileSize, statementSize, counter, pst, pbuf,
                   inClosed, stopped, errOccurs, finishedSize, opened, files, sizeGauge>>

\* The rest of the buffer, sent without a select, and close(wp.input).
FlushBuffer ==
    /\ pc = "flush"
    /\ \/ bf # <<>> /\ Len(input) < PipeCap /\ input' = Append(input, bf)
       \/ bf = <<>> /\ UNCHANGED input
    /\ bf' = <<>>
    /\ inClosed' = TRUE
    /\ pc' = "drain"
    /\ UNCHANGED <<env, err, tries, pos, rowsErr, idx, fileSize, statementSize, counter,
                   lastCounter, pst, pbuf, stopped, errOccurs, errCh, finishedSize, output>>

\* Mutant of DrainPipe: the rows of the last buffer are not counted.
DrainPipeUncounted ==
    /\ pc = "drain" /\ pst = "exited"
    /\ err' = IF rowsErr THEN "rows" ELSE IF errCh # <<>> THEN Head(errCh) ELSE "nil"
    /\ pc' = IF err' = "nil" THEN "stop" ELSE "revert"
    /\ UNCHANGED <<env, tries, pos, rowsErr, idx, bf, fileSize, statementSize, counter,
                   lastCounter, pipe, output>>

\* <-wp.closed, then the error of the rows or of the pipe.
DrainPipe ==
    /\ pc = "drain" /\ pst = "exited"
    /\ rowsGauge' = rowsGauge + counter - lastCounter /\ lastCounter' = counter
    /\ err' = IF rowsErr THEN "rows" ELSE IF errCh # <<>> THEN Head(errCh) ELSE "nil"
    /\ pc' = IF err' = "nil" THEN "stop" ELSE "revert"
    /\ UNCHANGED <<env, tries, pos, rowsErr, idx, bf, fileSize, statementSize, counter, pipe,
                   opened, files, sizeGauge>>

\* Mutant of RevertMetrics: rows that were never counted are taken back.
RevertMetricsAll ==
    /\ pc = "revert"
    /\ rowsGauge' = rowsGauge - counter
    /\ sizeGauge' = sizeGauge - finishedSize
    /\ pc' = "stop"
    /\ UNCHANGED <<env, err, tries, pos, rowsErr, idx, buffer, pipe, opened, files>>

\* The deferred function that takes back what the attempt has counted.
RevertMetrics ==
    /\ pc = "revert"
    /\ rowsGauge' = rowsGauge - lastCounter
    /\ sizeGauge' = sizeGauge - finishedSize
    /\ pc' = "stop"
    /\ UNCHANGED <<env, err, tries, pos, rowsErr, idx, buffer, pipe, opened, files>>

\* The deferred function registered before it: cancel and wg.Wait.
StopPipe ==
    /\ pc = "stop"
    /\ stopped' = TRUE
    /\ pc' = "join"
    /\ UNCHANGED <<env, err, tries, pos, rowsErr, idx, buffer, pst, pbuf, input, inClosed,
                   errOccurs, errCh, finishedSize, output>>

\* Mutant of JoinPipe: no wg.Wait.
JoinPipeNoWait ==
    /\ pc = "join"
    /\ pc' = "close"
    /\ UNCHANGED <<env, err, tries, pos, rowsErr, idx, buffer, pipe, output>>

JoinPipe ==
    /\ pc = "join" /\ pst = "exited"
    /\ pc' = "close"
    /\ UNCHANGED <<env, err, tries, pos, rowsErr, idx, buffer, pipe, output>>

\* tearDown closes the file; tryToWriteTableData then returns or goes on with
\* the next file.
CloseFile ==
    /\ pc = "close"
    /\ \/ err' = err /\ UNCHANGED faults
       \/ opened /\ Fault /\ err' = IF err = "nil" THEN "close" ELSE err
    /\ pc' = IF err' # "nil" THEN "failed"
             ELSE IF pst = "none" \/ conf.FileSize = 0 THEN "done" ELSE "open"
    /\ idx' = IF pc' = "open" THEN idx + 1 ELSE idx
    /\ pst' = "none"
    /\ UNCHANGED <<conf, ctxDone, tries, pos, rowsErr, buffer, pbuf, input, inClosed, stopped,
                   errOccurs, errCh, finishedSize, output>>

\* Mutant of Retry: the attempts are not counted down.
RetryForever ==
    /\ pc = "failed"
    /\ tries' = tries + 1 /\ pc' = "query"
    /\ UNCHANGED <<env, err, pos, rowsErr, idx, buffer, pipe, output>>

\* WithRetry after a failed attempt.
Retry ==
    /\ pc = "failed"
    /\ \/ tries < MaxAttempts /\ tries' = tries + 1 /\ pc' = "query"
       \/ (tries = MaxAttempts \/ ctxDone) /\ pc' = "done" /\ UNCHANGED tries
    /\ UNCHANGED <<env, err, pos, rowsErr, idx, buffer, pipe, output>>
-----------------------------------------------------------------------------
(* writerPipe.Run. *)

\* Mutant of PipeReceive: after an error the pipe receives no more.
PipeReceiveUntilError ==
    /\ pst = "receive" /\ input # <<>> /\ ~errOccurs
    /\ input' = Tail(input)
    /\ pst' = "write" /\ pbuf' = Head(input)
    /\ UNCHANGED <<env, call, buffer, inClosed, stopped, errOccurs, errCh, finishedSize, output>>

\* After an error the pipe only empties its input.
PipeReceive ==
    /\ pst = "receive" /\ input # <<>>
    /\ input' = Tail(input)
    /\ \/ errOccurs /\ UNCHANGED <<pst, pbuf>>
       \/ ~errOccurs /\ pst' = "write" /\ pbuf' = Head(input)
    /\ UNCHANGED <<env, call, buffer, inClosed, stopped, errOccurs, errCh, finishedSize, output>>

PipeExit ==
    /\ pst = "receive"
    /\ (inClosed /\ input = <<>>) \/ stopped
    /\ pst' = "exited"
    /\ UNCHANGED <<env, call, buffer, pbuf, input, inClosed, stopped, errOccurs, errCh,
                   finishedSize, output>>

\* Mutant of Before: files are opened for appending.
BeforeAppending == IF idx <= Len(files) THEN files[idx] ELSE <<>>

\* The file as the next write finds it: the first write of a WriteInsert creates it.
Before == IF opened THEN files[idx] ELSE <<>>

SetFile(content) ==
    files' = IF idx <= Len(files) THEN [files EXCEPT ![idx] = content]
             ELSE Append(files, content)

\* InterceptFileWriter.Write: creating the file or writing to it may fail, the
\* latter with part of the buffer written.
PipeWrite ==
    /\ pst = "write"
    /\ \/ /\ SetFile(Before \o pbuf) /\ opened' = TRUE
          /\ pst' = "gauge" /\ UNCHANGED <<errOccurs, faults>>
       \/ /\ Fault
          /\ \/ SetFile(Before) /\ opened' = TRUE
             \/ UNCHANGED <<files, opened>>
          /\ pst' = "gauge" /\ errOccurs' = TRUE
    /\ UNCHANGED <<conf, ctxDone, call, buffer, pbuf, input, inClosed, stopped, errCh,
                   finishedSize, rowsGauge, sizeGauge>>

PipeAddGauge ==
    /\ pst = "gauge"
    /\ sizeGauge' = sizeGauge + Len(pbuf)
    /\ pst' = "count"
    /\ UNCHANGED <<env, call, buffer, pbuf, input, inClosed, stopped, errOccurs, errCh,
                   finishedSize, opened, files, rowsGauge>>

\* finishedFileSize is updated without a lock; then the error is reported.
PipeCount ==
    /\ pst = "count"
    /\ finishedSize' = finishedSize + Len(pbuf)
    /\ errCh' = IF errOccurs THEN <<"write">> ELSE errCh
    /\ pst' = "receive" /\ pbuf' = <<>>
    /\ UNCHANGED <<env, call, buffer, input, inClosed, stopped, errOccurs, output>>

Cancel ==
    /\ MayCancel /\ ~ctxDone /\ pc # "done"
    /\ ctxDone' = TRUE
    /\ UNCHANGED <<conf, faults, call, buffer, pipe, output>>

CallStep ==
    \/ StartQuery \/ OpenFile \/ BeginStatement \/ EncodeRow \/ NextRow \/ SendBuffer
    \/ FlushBuffer \/ DrainPipe \/ RevertMetrics \/ StopPipe \/ JoinPipe \/ CloseFile \/ Retry

PipeStep == PipeReceive \/ PipeExit \/ PipeWrite \/ PipeAddGauge \/ PipeCount

Next == CallStep \/ PipeStep \/ Cancel

Spec == Init /\ [][Next]_vars

\* Both goroutines keep running; storage and database answer.
FairSpec == Spec /\ WF_vars(CallStep) /\ WF_vars(PipeStep)
-----------------------------------------------------------------------------
(* Properties. *)

Pieces == [what : {"head", "insert", "line", "comma", "semicolon"}, row : Nat]

Content == Seq(Pieces)

Errors == {"nil", "query", "rows", "decode", "write", "canceled", "close"}

CallType ==
    /\ conf \in Configs /\ ctxDone \in BOOLEAN /\ faults \in 0..MaxFaults
    /\ pc \in {"query", "open", "statement", "row", "next", "send", "flush", "drain", "revert",
               "stop", "join", "close", "failed", "done"}
    /\ err \in Errors /\ tries \in 1..MaxAttempts
    /\ pos \in Nat \ {0} /\ rowsErr \in BOOLEAN /\ idx \in Nat \ {0}

BufferType ==
    /\ bf \in Content /\ fileSize \in Nat /\ statementSize \in Nat
    /\ counter \in Nat /\ lastCounter \in 0..counter

PipeType ==
    /\ pst \in {"none", "receive", "write", "gauge", "count", "exited"}
    /\ pbuf \in Content /\ input \in Seq(Content) /\ Len(input) <= PipeCap
    /\ inClosed \in BOOLEAN /\ stopped \in BOOLEAN /\ errOccurs \in BOOLEAN
    /\ errCh \in {<<>>, <<"write">>} /\ finishedSize \in Nat

OutputType ==
    opened \in BOOLEAN /\ files \in Seq(Content) /\ rowsGauge \in Int /\ sizeGauge \in Int

\* The state variables have their types; the attempts, the channels and the row
\* counters of WriteInsert stay within their bounds.
TypeOK == CallType /\ BufferType /\ PipeType /\ OutputType

Succeeded == pc = "done" /\ err = "nil"

RowOf(piece) == IF piece.row = 0 THEN <<>> ELSE <<piece.row>>

RowsIn(content) == FlattenSeq([i \in DOMAIN content |-> RowOf(content[i])])

\* When WriteTableData returns nil, its files hold the rows of the chunk,
\* each one once and in order, and no file of a failed attempt is left
\* (tryToWriteTableData, WriteInsert, writerPipe.Run).
FilesHoldTheRows == Succeeded => RowsIn(FlattenSeq(files)) = Result

\* A statement goes on with a row after its prefix and after a comma, and
\* ends, or the file does, after a semicolon.
MayFollow(what, next) ==
    \/ what = "head" /\ next \in {"insert", "line"}
    \/ what \in {"insert", "comma"} /\ next \in {"comma", "semicolon"}
    \/ what = "semicolon" /\ next \in {"insert", "eof"}
    \/ what = "line" /\ next \in {"line", "eof"}

\* The beginning of a file: its head, and each piece where it may be.
WellFormed(content) ==
    /\ content # <<>> /\ content[1] = FileHead
    /\ \A i \in 1..(Len(content) - 1) : MayFollow(content[i].what, content[i + 1].what)

LastOf(content) == content[Len(content)].what

Loadable(content) == WellFormed(content) /\ MayFollow(LastOf(content), "eof")

\* Each file of a finished chunk can be loaded by itself: it begins with the
\* head and consists of complete statements, wherever the buffers were cut
\* and the file was switched (WriteInsert).
FilesLoadable == Succeeded => \A k \in 1..Len(files) : Loadable(files[k])

\* -F is respected: every file but the last reaches the limit, and, when the
\* limit is larger than the head of a file, none exceeds it by more than the
\* beginning of one more statement.
FilesOfTheRightSize ==
    Succeeded /\ conf.FileSize # 0 =>
        /\ \A k \in 1..(Len(files) - 1) : Len(files[k]) >= conf.FileSize
        /\ conf.FileSize > 1 => \A k \in 1..Len(files) : Len(files[k]) <= conf.FileSize + 1

\* The pipe writes only while the call that owns the file waits for it or
\* feeds it: no write to a file that is being closed (wg.Wait before tearDown).
PipeStopsFirst ==
    pc \in {"query", "open", "close", "failed", "done"} => pst \in {"none", "exited"}

\* A failed attempt at a chunk of one file leaves no row counted, unless it
\* failed when its file was closed (lastCounter, SubGauge).
FailedAttemptUncounted ==
    pc = "failed" /\ tries = 1 /\ conf.FileSize = 0 /\ err # "close" => rowsGauge = 0

\* WriteTableData returns: no send, receive or wait blocks for ever.
CallReturns == <>(pc = "done")

\* The finished_rows and finished_size gauges end up as what is in the files when
\* the first attempt succeeds, whatever was counted by the caller and what by the pipe
\* (WriteInsert, writerPipe.Run).
CountedOnce ==
    Succeeded /\ tries = 1 =>
        rowsGauge = Len(Result) /\ sizeGauge = Len(FlattenSeq(files))
-----------------------------------------------------------------------------
(* What the properties rest on. *)

Feeding == {"statement", "row", "next", "send", "flush", "drain"}

\* The rows that were put into a buffer, and how many of them before this file.
Taken == IF pc = "next" \/ (pc = "send" /\ conf.format = "csv") THEN pos ELSE pos - 1
TakenBefore == IF pst = "none" THEN Taken ELSE Taken - counter

\* A file is being written, and nothing of it was lost; or no file is being written.
Intact == err = "nil" /\ pst # "none" /\ ~errOccurs
Between == err = "nil" /\ pst = "none" /\ pc # "done"

\* What the finished files hold, and what the current one will hold when all that
\* is on its way is written: the buffer of the pipe, its channel, the open buffer.
DoneContent == FlattenSeq(SubSeq(files, 1, idx - 1))
Writing == IF pst = "write" THEN pbuf ELSE <<>>
Stream == (Before \o Writing) \o (FlattenSeq(input) \o bf)

\* The sizes of file and statement with one more row after n rows of the file.
SizeStep(c, n, file, statement) ==
    IF c.format = "csv" THEN <<file + 1, 0>>
    ELSE IF n = 0 \/ (c.StatementSize # 0 /\ statement >= c.StatementSize)
         THEN <<file + 2, 2>> ELSE <<file + 1, statement + 1>>

SizesAfter(c, rows) ==
    LET sizes[n \in Nat] ==
            IF n = 0 THEN <<1, 0>>
            ELSE SizeStep(c, n - 1, sizes[n - 1][1], sizes[n - 1][2])
    IN sizes[rows]

\* Every attempt switches files after the same rows.
FullAfter(c, rows) == c.FileSize # 0 /\ SizesAfter(c, rows)[1] >= c.FileSize

RowsPerFile(c) ==
    LET full == {n \in 1..Len(Result) : FullAfter(c, n)}
    IN IF full = {} THEN Len(Result) + 1 ELSE Min(full)

\* Who is where: the pipe lives from OpenFile to CloseFile, and its error reaches the
\* call before the file counts as written.
ControlInv ==
    /\ pc \in {"query", "open", "failed", "done"} => pst = "none"
    /\ pc = "close" => pst \in {"none", "exited"}
    /\ pc \in Feeding \cup {"revert", "stop", "join"} => pst # "none"
    /\ pc \in Feeding =>
         /\ err = "nil" /\ ~stopped
         /\ inClosed <=> pc = "drain"
         /\ pst = "exited" => inClosed /\ input = <<>>
         /\ errOccurs /\ pst \in {"receive", "exited"} => errCh # <<>>
    /\ pc = "drain" => bf = <<>>
    /\ pc = "open" => err = "nil"
    /\ pc \in {"revert", "failed"} => err # "nil"
    /\ pc \in {"stop", "join", "close"} /\ err = "nil" /\ pst # "none" =>
         pst = "exited" /\ input = <<>> /\ bf = <<>> /\ ~errOccurs
    /\ idx <= Len(files) + 1
    /\ opened /\ pst # "none" => idx <= Len(files)
    /\ conf.FileSize = 0 => idx = 1

\* In a statement the row that was read last has no end yet.
Pending == conf.format = "sql" /\ pc = "next"

\* The iterator: where there is a row, and that a file ends only when it is full or
\* the rows are at their end.
IteratorInv ==
    /\ pos <= Len(Result) + 1
    /\ pc \in {"statement", "row", "next"} => HasNext
    /\ pc = "send" /\ conf.format = "csv" => HasNext
    /\ pc = "statement" => conf.format = "sql"
    /\ err = "nil" /\ pc \notin {"send", "flush", "drain"} => ~rowsErr
    /\ pc \in {"next", "send"} => counter > 0
    /\ Pending => bf # <<>> /\ LastOf(bf) = "line"
    /\ err = "nil" /\ pst # "none" /\ pc \in {"flush", "drain", "stop", "join", "close"} =>
         counter > 0 /\ (ShouldSwitchFile \/ ~HasNext)
    /\ pc = "close" /\ Between => ~HasNext

\* The sizes the call counts are those of SizesAfter.
SizeInv ==
    err = "nil" /\ pst # "none" =>
        /\ pc = "row" =>
             SizesAfter(conf, counter + 1) =
                 <<fileSize + 1, IF conf.format = "sql" THEN statementSize + 1 ELSE 0>>
        /\ pc # "row" => SizesAfter(conf, counter) = <<fileSize, statementSize>>
        /\ pc = "statement" =>
             counter = 0 \/ (conf.StatementSize # 0 /\ statementSize >= conf.StatementSize)

\* Which rows belong to the current file; no attempt has more files than the rows fill.
PlaceInv ==
    /\ \A k \in 1..Len(files) : (k - 1) * RowsPerFile(conf) < Len(Result)
    /\ pst # "none" => (idx - 1) * RowsPerFile(conf) < Len(Result)
    /\ err = "nil" /\ pst # "none" =>
         /\ TakenBefore = (idx - 1) * RowsPerFile(conf)
         /\ counter <= RowsPerFile(conf)
         /\ pc \in {"statement", "row"} => counter < RowsPerFile(conf)
    /\ Between =>
         IF HasNext THEN TakenBefore = (idx - 1) * RowsPerFile(conf)
         ELSE Len(Result) <= (idx - 1) * RowsPerFile(conf)

\* What a file may end with at each place of the loops.
Ends ==
    IF conf.format = "csv" THEN IF pc = "row" THEN {"head", "line"} ELSE {"line"}
    ELSE IF pc = "statement" THEN {"head", "semicolon"}
    ELSE IF pc \in {"row", "next"} THEN {"insert", "comma"}
    ELSE IF pc = "send" /\ HasNext /\ ~ShouldSwitchStatement THEN {"comma"}
    ELSE {"semicolon"}

\* The current file is well formed, of the size the call counts, and continues the
\* finished ones.
StreamInv ==
    Intact =>
        /\ Len(Stream) = fileSize
        /\ LET settled == IF Pending THEN Front(Stream) ELSE Stream
           IN WellFormed(settled) /\ LastOf(settled) \in Ends
        /\ RowsIn(DoneContent \o Stream) = SubSeq(Result, 1, Taken)

DoneInv ==
    /\ Between => RowsIn(DoneContent) = SubSeq(Result, 1, Taken)
    /\ err = "nil" => \A k \in 1..(idx - 1) : Loadable(files[k])

\* The limit of a file.
LimitInv ==
    err = "nil" =>
        /\ \A k \in 1..(idx - 1) :
             \/ Len(files[k]) >= conf.FileSize
             \/ k = idx - 1 /\ pst = "none" /\ ~HasNext
        /\ conf.FileSize > 1 =>
             /\ \A k \in 1..(idx - 1) : Len(files[k]) <= conf.FileSize + 1
             /\ pst # "none" =>
                  /\ fileSize <= conf.FileSize + 1
                  /\ pc = "row" => fileSize <= conf.FileSize
                  /\ pc = "statement" => fileSize < conf.FileSize

\* The gauges in the first attempt: the rows of the buffers that were sent, the
\* pieces that were written.
RowsCounted ==
    /\ pc = "query" => rowsGauge = 0
    /\ err = "nil" => rowsGauge = TakenBefore + (IF pst = "none" THEN 0 ELSE lastCounter)
    /\ pc \in {"stop", "join", "close"} /\ err = "nil" /\ pst # "none" => lastCounter = counter
    /\ conf.FileSize = 0 /\ pc = "revert" => rowsGauge = lastCounter
    /\ conf.FileSize = 0 /\ pc \in {"stop", "join", "close", "failed"}
         /\ err \notin {"nil", "close"} => rowsGauge = 0

SizeCounted ==
    /\ pc = "query" => sizeGauge = 0
    /\ Between => sizeGauge = Len(DoneContent)
    /\ Intact =>
         sizeGauge = Len(DoneContent) + Len(Before) - (IF pst = "gauge" THEN Len(pbuf) ELSE 0)

GaugeInv == tries = 1 => RowsCounted /\ SizeCounted

\* The inductive invariant of the call: how its position in the rows, the sizes it counts,
\* the buffers under way and the files of this and of earlier attempts fit together.
IInv ==
    /\ TypeOK /\ ControlInv /\ IteratorInv /\ SizeInv /\ PlaceInv
    /\ StreamInv /\ DoneInv /\ LimitInv /\ GaugeInv
    /\ FilesHoldTheRows /\ FilesLoadable /\ FilesOfTheRightSize /\ CountedOnce
=============================================================================
