------------------------------- MODULE Status -------------------------------
(***************************************************************************)
(* What GetStatus tells about a dump while it runs: the counters and gauges *)
(* of metrics, which the dump's goroutine and the writers change, and the   *)
(* calls that read them one by one, from the progress log and from users of *)
(* the library (status.go, metrics.go).                                     *)
(***************************************************************************)
EXTENDS Integers, FiniteSets

CONSTANTS
    Writers,     \* the writers
    Readers,     \* the goroutines that call GetStatus
    MaxChunks,   \* bound: the data tasks of a dump
    MaxAttempts, \* bound: the attempts of all writers together
    MaxFiles     \* bound: the files of an attempt that are followed by another

ASSUME StatusAssumption ==
    IsFiniteSet(Writers) /\ MaxChunks \in Nat /\ MaxAttempts \in Nat /\ MaxFiles \in Nat

VARIABLES
    phase,       \* Dump: "off", "sending", "waiting", "ok", "failed"
    cancelled,   \* why the writers' context is done: "no", "user", "error"
    queue,       \* data tasks sent and not yet taken
    held,        \* per writer its attempt at a task, and the current file of it: "idle", "begun",
                 \* "written", and "reverted" when it has failed
    attempts,    \* attempts so far
    files,       \* per writer the files that its attempt has finished
    m,           \* the metrics
    speed,       \* the SpeedRecorder, and the bytes its speeds account for
    call,        \* per reader the call of GetStatus under way
    extra,       \* history: what failed attempts have left in finishedSize
    peak,        \* history: the largest finishedSize so far, the extra not counted
    shown        \* history: per reader the last progress shown

statusVars ==
    <<phase, cancelled, queue, held, attempts, files, m, speed, call, extra, peak, shown>>

Idle == [pc |-> "idle", bytes |-> 0, completed |-> 0]
None == [completed |-> 0, total |-> 1]
All == [completed |-> 1, total |-> 1]

\* newMetrics and NewSpeedRecorder.
newMetrics == [totalChunks |-> 0, completedChunks |-> 0, progressReady |-> FALSE, finishedSize |-> 0]
NewSpeedRecorder == [lastFinished |-> 0, credited |-> 0]

StatusInit ==
    /\ phase = "off" /\ cancelled = "no" /\ queue = 0 /\ attempts = 0
    /\ held = [w \in Writers |-> "idle"]
    /\ m = newMetrics
    /\ speed = NewSpeedRecorder
    /\ call = [r \in Readers |-> Idle]
    /\ files = [w \in Writers |-> 0]
    /\ extra = 0 /\ peak = 0 /\ shown = [r \in Readers |-> None]

\* A Dumper of its own has metrics and a SpeedRecorder of its own.
StatusReset ==
    /\ phase' = "off" /\ cancelled' = "no" /\ queue' = 0 /\ attempts' = 0
    /\ held' = [w \in Writers |-> "idle"]
    /\ m' = newMetrics /\ speed' = NewSpeedRecorder
    /\ call' = [r \in Readers |-> Idle]
    /\ files' = [w \in Writers |-> 0]
    /\ extra' = 0 /\ peak' = 0 /\ shown' = [r \in Readers |-> None]
----------------------------------------------------------------------------
(* The dump, as far as the metrics go *)

\* Mutant of newTaskTableData: a chunk is counted only when it is sent, behind the send.
countLater ==
    /\ phase = "sending" /\ m.totalChunks + queue < MaxChunks
    /\ \/ queue' = queue + 1 /\ UNCHANGED m
       \/ queue > 0 /\ m' = [m EXCEPT !.totalChunks = @ + 1] /\ UNCHANGED queue
    /\ UNCHANGED <<phase, cancelled, held, attempts, files, speed, call, extra, peak, shown>>

\* The chunk is counted when its task is made, before sendTaskToChan.
newTaskTableData ==
    /\ phase = "sending" /\ m.totalChunks < MaxChunks
    /\ m' = [m EXCEPT !.totalChunks = @ + 1]
    /\ \/ queue' = queue + 1
       \/ cancelled # "no" /\ UNCHANGED queue
    /\ UNCHANGED <<phase, cancelled, held, attempts, files, speed, call, extra, peak, shown>>

\* Mutant of ProgressReady: the flag is set before the last tasks are made.
ReadyEarly ==
    /\ phase = "sending" /\ ~m.progressReady
    /\ m' = [m EXCEPT !.progressReady = TRUE]
    /\ UNCHANGED <<phase, cancelled, queue, held, attempts, files, speed, call, extra, peak, shown>>

\* dumpDatabases or dumpSQL has returned, with no error or a cancellation.
ProgressReady ==
    /\ phase = "sending"
    /\ m' = [m EXCEPT !.progressReady = TRUE]
    /\ phase' = "waiting"
    /\ UNCHANGED <<cancelled, queue, held, attempts, files, speed, call, extra, peak, shown>>

\* Any other error of dumpDatabases ends the dump.
SendingFails ==
    /\ phase = "sending"
    /\ phase' = "failed"
    /\ UNCHANGED <<cancelled, queue, held, attempts, files, m, speed, call, extra, peak, shown>>

\* A writer takes a task and begins its first attempt.
TakeTask(w) ==
    /\ queue > 0 /\ held[w] = "idle" /\ attempts < MaxAttempts
    /\ queue' = queue - 1
    /\ held' = [held EXCEPT ![w] = "begun"]
    /\ attempts' = attempts + 1
    /\ UNCHANGED <<phase, cancelled, files, m, speed, call, extra, peak, shown>>

\* The pipe has written a buffer.
WriteBuffer(w) ==
    /\ held[w] = "begun"
    /\ held' = [held EXCEPT ![w] = "written"]
    /\ m' = [m EXCEPT !.finishedSize = @ + 1]
    /\ peak' = IF m.finishedSize + 1 - extra > peak THEN m.finishedSize + 1 - extra ELSE peak
    /\ UNCHANGED <<phase, cancelled, queue, attempts, files, speed, call, extra, shown>>

\* WriteInsert has filled a file and the attempt goes on with the next one; each call of
\* WriteInsert can take back its own bytes only.
FinishFile(w) ==
    /\ held[w] = "written" /\ files[w] < MaxFiles
    /\ held' = [held EXCEPT ![w] = "begun"]
    /\ files' = [files EXCEPT ![w] = @ + 1]
    /\ UNCHANGED <<phase, cancelled, queue, attempts, m, speed, call, extra, peak, shown>>

\* What the current file of a writer has in the gauge.
Current(w) == IF held[w] = "written" THEN 1 ELSE 0

\* A failed attempt is followed by another, or the task is given up and the context
\* cancelled.
Retry(w) ==
    \/ /\ attempts < MaxAttempts /\ attempts' = attempts + 1
       /\ held' = [held EXCEPT ![w] = "begun"]
       /\ UNCHANGED cancelled
    \/ /\ held' = [held EXCEPT ![w] = "idle"]
       /\ cancelled' = "error"
       /\ UNCHANGED attempts

\* The connection, the query, or the closing of a file fails: no pipe runs, and nothing
\* that the attempt wrote is taken back.
AttemptFails(w) ==
    /\ held[w] \in {"begun", "written"}
    /\ extra' = extra + files[w] + Current(w)
    /\ files' = [files EXCEPT ![w] = 0]
    /\ Retry(w)
    /\ UNCHANGED <<phase, queue, m, speed, call, peak, shown>>

\* Mutant of WriteInsertFails: the size is taken back also where none was written.
WriteInsertFailsBlindly(w) ==
    /\ held[w] \in {"begun", "written"}
    /\ m' = [m EXCEPT !.finishedSize = @ - 1]
    /\ held' = [held EXCEPT ![w] = "reverted"]
    /\ UNCHANGED <<phase, cancelled, queue, attempts, files, speed, call, extra, peak, shown>>

\* WriteInsert fails and its deferred call takes back what it finds the pipe has
\* counted, while the pipe may still run.  The files that the attempt had finished stay.
WriteInsertFails(w) ==
    /\ held[w] \in {"begun", "written"}
    /\ \E back \in 0..Current(w) :
         /\ m' = [m EXCEPT !.finishedSize = @ - back]
         /\ extra' = extra + files[w] + (Current(w) - back)
    /\ held' = [held EXCEPT ![w] = "reverted"]
    /\ files' = [files EXCEPT ![w] = 0]
    /\ UNCHANGED <<phase, cancelled, queue, attempts, speed, call, peak, shown>>

\* WriteInsert stops its pipe, which may count a last buffer before it ends, and returns.
PipeStops(w) ==
    /\ held[w] = "reverted"
    /\ \E late \in {0, 1} : m' = [m EXCEPT !.finishedSize = @ + late] /\ extra' = extra + late
    /\ Retry(w)
    /\ UNCHANGED <<phase, queue, files, speed, call, peak, shown>>

\* Writer.run after a data task.
finishTaskCallBack(w) ==
    /\ held[w] \in {"begun", "written"}
    /\ held' = [held EXCEPT ![w] = "idle"]
    /\ files' = [files EXCEPT ![w] = 0]
    /\ m' = [m EXCEPT !.completedChunks = @ + 1]
    /\ UNCHANGED <<phase, cancelled, queue, attempts, speed, call, extra, peak, shown>>

\* wg.Wait: the channel is closed and drained, or the context is done; a writer
\* that finds the context done returns nil.
DumpEnds ==
    /\ phase = "waiting" /\ \A w \in Writers : held[w] = "idle"
    /\ queue = 0 \/ cancelled # "no"
    /\ phase' = IF cancelled = "error" THEN "failed" ELSE "ok"
    /\ UNCHANGED <<cancelled, queue, held, attempts, files, m, speed, call, extra, peak, shown>>

\* The user's context ends.
CancelDump ==
    /\ phase \in {"sending", "waiting"} /\ cancelled = "no"
    /\ cancelled' = "user"
    /\ UNCHANGED <<phase, queue, held, attempts, files, m, speed, call, extra, peak, shown>>
----------------------------------------------------------------------------
(* GetStatus, one load at a time *)

ReadSize(r) ==
    /\ call[r].pc = "idle" /\ phase # "off"
    /\ call' = [call EXCEPT ![r].pc = "speed", ![r].bytes = m.finishedSize]
    /\ UNCHANGED <<phase, cancelled, queue, held, attempts, files, m, speed, extra, peak, shown>>

\* Mutant of GetSpeed: the last value follows the gauge down too.
GetSpeedFollowing(r) ==
    /\ call[r].pc = "speed"
    /\ speed' = [lastFinished |-> call[r].bytes,
                 credited |-> IF call[r].bytes > speed.lastFinished
                              THEN speed.credited + call[r].bytes - speed.lastFinished
                              ELSE speed.credited]
    /\ call' = [call EXCEPT ![r].pc = "ready", ![r].bytes = 0]
    /\ UNCHANGED <<phase, cancelled, queue, held, attempts, files, m, extra, peak, shown>>

\* GetSpeed holds its lock: the speed is (finished - lastFinished) / elapsed,
\* and stands for finished - lastFinished bytes.  The old speed is given where the size
\* has not grown, and where no time has passed since the last update.
GetSpeed(r) ==
    /\ call[r].pc = "speed"
    /\ \/ UNCHANGED speed
       \/ /\ call[r].bytes > speed.lastFinished
          /\ speed' = [lastFinished |-> call[r].bytes,
                       credited |-> speed.credited + (call[r].bytes - speed.lastFinished)]
    /\ call' = [call EXCEPT ![r].pc = "ready", ![r].bytes = 0]
    /\ UNCHANGED <<phase, cancelled, queue, held, attempts, files, m, extra, peak, shown>>

\* progressReady, and the first load of totalChunks.
ReadReady(r) ==
    /\ call[r].pc = "ready"
    /\ call' = IF m.progressReady THEN [call EXCEPT ![r].pc = "empty"] ELSE [call EXCEPT ![r] = Idle]
    /\ UNCHANGED <<phase, cancelled, queue, held, attempts, files, m, speed, extra, peak, shown>>

ReadEmpty(r) ==
    /\ call[r].pc = "empty"
    /\ IF m.totalChunks = 0
       THEN shown' = [shown EXCEPT ![r] = All] /\ call' = [call EXCEPT ![r] = Idle]
       ELSE call' = [call EXCEPT ![r].pc = "completed"] /\ UNCHANGED shown
    /\ UNCHANGED <<phase, cancelled, queue, held, attempts, files, m, speed, extra, peak>>

ReadCompleted(r) ==
    /\ call[r].pc = "completed"
    /\ call' = [call EXCEPT ![r].pc = "total", ![r].completed = m.completedChunks]
    /\ UNCHANGED <<phase, cancelled, queue, held, attempts, files, m, speed, extra, peak, shown>>

\* The second load of totalChunks, and the quotient, at most 1.
ReadTotal(r) ==
    /\ call[r].pc = "total"
    /\ shown' = [shown EXCEPT ![r] = IF call[r].completed > m.totalChunks THEN All
                                     ELSE [completed |-> call[r].completed, total |-> m.totalChunks]]
    /\ call' = [call EXCEPT ![r] = Idle]
    /\ UNCHANGED <<phase, cancelled, queue, held, attempts, files, m, speed, extra, peak>>

StatusNext ==
    \/ ProgressReady \/ SendingFails \/ DumpEnds \/ CancelDump
    \/ \E w \in Writers :
          \/ TakeTask(w) \/ WriteBuffer(w) \/ FinishFile(w) \/ AttemptFails(w)
          \/ WriteInsertFails(w) \/ PipeStops(w) \/ finishTaskCallBack(w)
    \/ \E r \in Readers :
          \/ ReadSize(r) \/ GetSpeed(r) \/ ReadReady(r) \/ ReadEmpty(r) \/ ReadCompleted(r)
          \/ ReadTotal(r)
----------------------------------------------------------------------------
StatusTypeOK ==
    /\ phase \in {"off", "sending", "waiting", "ok", "failed"} /\ cancelled \in {"no", "user", "error"}
    /\ queue \in 0..MaxChunks /\ attempts \in 0..MaxAttempts
    /\ held \in [Writers -> {"idle", "begun", "written", "reverted"}]
    /\ files \in [Writers -> 0..MaxFiles]
    /\ m \in [totalChunks : 0..MaxChunks, completedChunks : 0..MaxChunks,
              progressReady : BOOLEAN, finishedSize : Nat]
    /\ speed \in [lastFinished : Nat, credited : Nat]
    /\ call \in [Readers -> [pc : {"idle", "speed", "ready", "empty", "completed", "total"},
                             bytes : Nat, completed : 0..MaxChunks]]
    /\ extra \in Nat /\ peak \in Nat
    /\ shown \in [Readers -> [completed : 0..MaxChunks \cup {1}, total : 1..MaxChunks \cup {1}]]

\* A call never finds more chunks completed than there are, however its loads and the
\* writers interleave: the warning of GetStatus is dead code.
NeverTooManyChunks ==
    \A r \in Readers : call[r].pc = "total" => call[r].completed <= m.totalChunks

\* The progress a reader is shown does not go down.
ProgressGrows ==
    \A r \in Readers :
        shown'[r].completed * shown[r].total >= shown[r].completed * shown'[r].total

\* The speeds shown account once for the bytes that a failed attempt took back and
\* another writes again, though the gauge goes down and up: all that they count twice is
\* what failed attempts left in the gauge, in the files they had finished and in what
\* the pipe counted too late to be taken back.
RevertedBytesCountOnce == speed.credited <= peak + extra
----------------------------------------------------------------------------
(* What the properties rest on *)

Busy == {w \in Writers : held[w] # "idle"}
Written == {w \in Writers : held[w] = "written"}

\* A chunk that was counted is queued, held by a writer, completed or given up.
ChunksInv == queue + Cardinality(Busy) + m.completedChunks <= m.totalChunks

\* A writer can take back what it wrote; no speed accounts for bytes that were taken
\* back twice.
SizesInv ==
    /\ Cardinality(Written) <= m.finishedSize /\ m.finishedSize <= peak + extra
    /\ speed.credited = speed.lastFinished /\ speed.lastFinished <= peak + extra
    /\ \A r \in Readers : call[r].pc = "speed" => call[r].bytes <= peak + extra

\* No task is made once the progress is ready, so what a reader was shown, and what it
\* will be shown, are parts of the same total.
ShownInv ==
    /\ phase \in {"off", "sending"} => ~m.progressReady
    /\ \A r \in Readers :
         /\ call[r].pc \in {"empty", "completed", "total"} => m.progressReady
         /\ call[r].pc \in {"completed", "total"} => m.totalChunks > 0
         /\ call[r].pc = "total" =>
              shown[r].completed <= call[r].completed /\ call[r].completed <= m.completedChunks
         /\ \/ shown[r] = None
            \/ m.progressReady /\ m.totalChunks = 0 /\ shown[r] = All
            \/ m.progressReady /\ m.totalChunks > 0 /\ shown[r].total = m.totalChunks
                 /\ shown[r].completed <= m.completedChunks

StatusInv == StatusTypeOK /\ ChunksInv /\ SizesInv /\ ShownInv
=============================================================================
