---------------------------- MODULE DumperProofs ----------------------------
(***************************************************************************)
(* The dumpers of a process, one after the other: for every set of options *)
(* and writers and readers, the options fit, nothing of an earlier dumper  *)
(* is used or left open, and what GetStatus shows is right.                *)
(***************************************************************************)
EXTENDS Dumper, FiniteSetTheorems, TLAPS

-----------------------------------------------------------------------------
(* The counts of the writers. *)

LEMMA Bounds == MaxChunks \in Nat /\ MaxAttempts \in Nat /\ MaxFiles \in Nat /\ MaxLives \in Nat
  BY StatusAssumption, OptionsAssumption

LEMMA Finite ==
    /\ IsFiniteSet(Busy) /\ IsFiniteSet(Written) /\ IsFiniteSet(Busy') /\ IsFiniteSet(Written')
    /\ Cardinality(Busy) \in Nat /\ Cardinality(Written) \in Nat
<1>1. Busy \subseteq Writers /\ Written \subseteq Writers /\ Busy' \subseteq Writers /\ Written' \subseteq Writers
  BY DEF Busy, Written
<1>2. IsFiniteSet(Busy) /\ IsFiniteSet(Written) /\ IsFiniteSet(Busy') /\ IsFiniteSet(Written')
  BY <1>1, StatusAssumption, FS_Subset
<1> QED BY <1>2, FS_CardinalityType

\* What one step of writer w does to a set of writers.
LEMMA OneMore ==
    ASSUME NEW S, IsFiniteSet(S), NEW T, NEW w, w \notin S, T = S \cup {w}
    PROVE  Cardinality(T) = Cardinality(S) + 1
  BY FS_AddElement

LEMMA OneLess ==
    ASSUME NEW S, IsFiniteSet(S), NEW T, NEW w, w \in S, T = S \ {w}
    PROVE  Cardinality(T) = Cardinality(S) - 1 /\ Cardinality(S) >= 1
<1>1. Cardinality(T) = Cardinality(S) - 1 /\ IsFiniteSet(T)
  BY FS_RemoveElement
<1>2. Cardinality(T) \in Nat /\ Cardinality(S) \in Nat
  BY <1>1, FS_CardinalityType
<1> QED BY <1>1, <1>2

StatusAction == StatusNext \/ newTaskTableData

\* The steps of a writer that neither take a task nor finish it.
AttemptStep(w) ==
    WriteBuffer(w) \/ FinishFile(w) \/ AttemptFails(w) \/ WriteInsertFails(w) \/ PipeStops(w)

LEMMA CountsOfSets ==
    ASSUME StatusTypeOK, NEW w \in Writers, NEW x \in {"idle", "begun", "written", "reverted"},
           held' = [held EXCEPT ![w] = x]
    PROVE  /\ held[w] = "idle" /\ x # "idle" => Cardinality(Busy') = Cardinality(Busy) + 1
           /\ held[w] # "idle" /\ x = "idle" =>
                Cardinality(Busy') = Cardinality(Busy) - 1 /\ Cardinality(Busy) >= 1
           /\ (held[w] = "idle" <=> x = "idle") => Busy' = Busy
           /\ held[w] # "written" /\ x = "written" => Cardinality(Written') = Cardinality(Written) + 1
           /\ held[w] = "written" /\ x # "written" =>
                Cardinality(Written') = Cardinality(Written) - 1 /\ Cardinality(Written) >= 1
           /\ (held[w] = "written" <=> x = "written") => Written' = Written
<1>1. held \in [Writers -> {"idle", "begun", "written", "reverted"}]
  BY DEF StatusTypeOK
<1>2. \A v \in Writers : held'[v] = IF v = w THEN x ELSE held[v]
  BY <1>1
<1>3. ASSUME held[w] = "idle", x # "idle" PROVE Cardinality(Busy') = Cardinality(Busy) + 1
  <2>1. Busy' = Busy \cup {w} /\ w \notin Busy
    BY <1>2, <1>3 DEF Busy
  <2> QED BY <2>1, Finite, OneMore
<1>4. ASSUME held[w] # "idle", x = "idle"
      PROVE  Cardinality(Busy') = Cardinality(Busy) - 1 /\ Cardinality(Busy) >= 1
  <2>1. Busy' = Busy \ {w} /\ w \in Busy
    BY <1>2, <1>4 DEF Busy
  <2> QED BY <2>1, Finite, OneLess
<1>5. (held[w] = "idle" <=> x = "idle") => Busy' = Busy
  BY <1>2 DEF Busy
<1>6. ASSUME held[w] # "written", x = "written" PROVE Cardinality(Written') = Cardinality(Written) + 1
  <2>1. Written' = Written \cup {w} /\ w \notin Written
    BY <1>2, <1>6 DEF Written
  <2> QED BY <2>1, Finite, OneMore
<1>7. ASSUME held[w] = "written", x # "written"
      PROVE  Cardinality(Written') = Cardinality(Written) - 1 /\ Cardinality(Written) >= 1
  <2>1. Written' = Written \ {w} /\ w \in Written
    BY <1>2, <1>7 DEF Written
  <2> QED BY <2>1, Finite, OneLess
<1>8. (held[w] = "written" <=> x = "written") => Written' = Written
  BY <1>2 DEF Written
<1> QED BY <1>3, <1>4, <1>5, <1>6, <1>7, <1>8

LEMMA MetricsType ==
    ASSUME StatusTypeOK
    PROVE  /\ m.totalChunks \in 0..MaxChunks /\ m.completedChunks \in 0..MaxChunks
           /\ m.progressReady \in BOOLEAN /\ m.finishedSize \in Nat /\ peak \in Nat
           /\ extra \in Nat /\ files \in [Writers -> 0..MaxFiles] /\ queue \in 0..MaxChunks /\ attempts \in 0..MaxAttempts
           /\ held \in [Writers -> {"idle", "begun", "written", "reverted"}]
  BY DEF StatusTypeOK

LEMMA ChunksStep == ASSUME StatusTypeOK, ChunksInv, StatusAction PROVE ChunksInv'
<1>1. /\ m.totalChunks \in Nat /\ m.completedChunks \in Nat /\ queue \in Nat
      /\ Cardinality(Busy) \in Nat
  BY MetricsType, Bounds, Finite
<1>2. m \in [totalChunks : 0..MaxChunks, completedChunks : 0..MaxChunks,
             progressReady : BOOLEAN, finishedSize : Nat]
  BY DEF StatusTypeOK
<1>3. CASE newTaskTableData
  <2>1. /\ m'.totalChunks = m.totalChunks + 1 /\ m'.completedChunks = m.completedChunks
        /\ queue' \in {queue, queue + 1} /\ held' = held
    BY <1>2, <1>3 DEF newTaskTableData
  <2>2. Busy' = Busy
    BY <2>1 DEF Busy
  <2> QED BY <1>1, <2>1, <2>2 DEF ChunksInv
<1>4. CASE UNCHANGED <<queue, held>> /\ m'.totalChunks = m.totalChunks
           /\ m'.completedChunks = m.completedChunks
  <2>1. Busy' = Busy
    BY <1>4 DEF Busy
  <2> QED BY <1>4, <2>1 DEF ChunksInv
<1>5. ASSUME NEW w \in Writers, TakeTask(w) PROVE ChunksInv'
  <2>1. Cardinality(Busy') = Cardinality(Busy) + 1 /\ queue' = queue - 1 /\ m' = m
    BY <1>5, CountsOfSets DEF TakeTask
  <2> QED BY <1>1, <2>1 DEF ChunksInv
<1>6. ASSUME NEW w \in Writers, AttemptStep(w) PROVE ChunksInv'
  <2>1. Cardinality(Busy') <= Cardinality(Busy) /\ Cardinality(Busy') \in Int
    <3>1. held[w] # "idle" /\ \E x \in {"idle", "begun", "written", "reverted"} : held' = [held EXCEPT ![w] = x]
      BY <1>6 DEF AttemptStep, WriteBuffer, FinishFile, AttemptFails, WriteInsertFails, PipeStops, Retry
    <3>2. PICK x \in {"idle", "begun", "written", "reverted"} : held' = [held EXCEPT ![w] = x]
      BY <3>1
    <3>3. CASE x = "idle"
      <4>1. Cardinality(Busy') = Cardinality(Busy) - 1
        BY <3>1, <3>2, <3>3, CountsOfSets
      <4> QED BY <1>1, <4>1
    <3>4. CASE x # "idle"
      <4>1. Busy' = Busy
        BY <3>1, <3>2, <3>4, CountsOfSets
      <4> QED BY <1>1, <4>1
    <3> QED BY <3>3, <3>4
  <2>2. m'.totalChunks = m.totalChunks /\ m'.completedChunks = m.completedChunks /\ queue' = queue
    BY <1>2, <1>6 DEF AttemptStep, WriteBuffer, FinishFile, AttemptFails, WriteInsertFails, PipeStops
  <2> QED BY <1>1, <2>1, <2>2 DEF ChunksInv
<1>8. ASSUME NEW w \in Writers, finishTaskCallBack(w) PROVE ChunksInv'
  <2>1. Cardinality(Busy') = Cardinality(Busy) - 1 /\ queue' = queue
    BY <1>8, CountsOfSets DEF finishTaskCallBack
  <2>2. m'.totalChunks = m.totalChunks /\ m'.completedChunks = m.completedChunks + 1
    BY <1>2, <1>8 DEF finishTaskCallBack
  <2> QED BY <1>1, <2>1, <2>2 DEF ChunksInv
<1>9. ASSUME ProgressReady \/ SendingFails \/ DumpEnds \/ CancelDump
             \/ \E r \in Readers : ReadSize(r) \/ GetSpeed(r) \/ ReadReady(r) \/ ReadEmpty(r)
                                   \/ ReadCompleted(r) \/ ReadTotal(r)
      PROVE  UNCHANGED <<queue, held>> /\ m'.totalChunks = m.totalChunks
             /\ m'.completedChunks = m.completedChunks
  BY <1>2, <1>9 DEF ProgressReady, SendingFails, DumpEnds, CancelDump, ReadSize, GetSpeed, ReadReady,
                    ReadEmpty, ReadCompleted, ReadTotal
<1> QED BY <1>3, <1>4, <1>5, <1>6, <1>8, <1>9 DEF StatusAction, StatusNext, AttemptStep

LEMMA SizesStep == ASSUME StatusTypeOK, SizesInv, StatusAction PROVE SizesInv'
<1>1. /\ m.finishedSize \in Nat /\ peak \in Nat /\ extra \in Nat /\ Cardinality(Written) \in Nat
      /\ held \in [Writers -> {"idle", "begun", "written", "reverted"}]
      /\ \A w \in Writers : files[w] \in Nat
  BY MetricsType, Finite, Bounds
<1>2. /\ m \in [totalChunks : 0..MaxChunks, completedChunks : 0..MaxChunks,
                progressReady : BOOLEAN, finishedSize : Nat]
      /\ speed \in [lastFinished : Nat, credited : Nat]
      /\ call \in [Readers -> [pc : {"idle", "speed", "ready", "empty", "completed", "total"},
                               bytes : Nat, completed : 0..MaxChunks]]
  BY DEF StatusTypeOK
<1>3. ASSUME newTaskTableData \/ ProgressReady \/ SendingFails \/ DumpEnds \/ CancelDump
      PROVE  UNCHANGED <<held, extra, peak, speed, call>> /\ m'.finishedSize = m.finishedSize
  BY <1>2, <1>3 DEF newTaskTableData, ProgressReady, SendingFails, DumpEnds, CancelDump
<1>4. CASE UNCHANGED <<held, extra, peak, speed, call>> /\ m'.finishedSize = m.finishedSize
  <2>1. Written' = Written
    BY <1>4 DEF Written
  <2> QED BY <1>4, <2>1 DEF SizesInv
<1>5. ASSUME Cardinality(Written') <= m'.finishedSize, m'.finishedSize <= peak' + extra',
             peak' \in Nat, extra' \in Nat, peak <= peak', extra <= extra', UNCHANGED <<speed, call>>
      PROVE  SizesInv'
  BY <1>1, <1>2, <1>5 DEF SizesInv
<1>6. ASSUME NEW w \in Writers, NEW x \in {"idle", "begun", "written", "reverted"},
             held' = [held EXCEPT ![w] = x]
      PROVE  /\ x # "written" => /\ Cardinality(Written') = Cardinality(Written) - Current(w)
                                 /\ Current(w) <= Cardinality(Written)
             /\ x = "written" /\ held[w] # "written" => Cardinality(Written') = Cardinality(Written) + 1
             /\ Current(w) \in {0, 1}
  <2>1. CASE held[w] = "written"
    BY <1>1, <1>6, <2>1, CountsOfSets DEF Current
  <2>2. CASE held[w] # "written"
    <3>1. x # "written" => Written' = Written
      BY <1>6, <2>2, CountsOfSets
    <3>2. x = "written" => Cardinality(Written') = Cardinality(Written) + 1
      BY <1>6, <2>2, CountsOfSets
    <3> QED BY <1>1, <2>2, <3>1, <3>2 DEF Current
  <2> QED BY <2>1, <2>2
<1>7. ASSUME NEW w \in Writers, TakeTask(w) PROVE SizesInv'
  <2>1. Written' = Written /\ UNCHANGED <<extra, peak, speed, call, m>>
    BY <1>7, CountsOfSets DEF TakeTask
  <2> QED BY <2>1 DEF SizesInv
<1>8. ASSUME NEW w \in Writers, WriteBuffer(w) PROVE SizesInv'
  <2>1. Cardinality(Written') = Cardinality(Written) + 1 /\ UNCHANGED <<extra, speed, call>>
    BY <1>6, <1>8 DEF WriteBuffer
  <2>2. m'.finishedSize = m.finishedSize + 1
    BY <1>2, <1>8 DEF WriteBuffer
  <2>3. peak' \in Nat /\ peak <= peak' /\ m'.finishedSize <= peak' + extra
    BY <1>1, <1>8, <2>2 DEF WriteBuffer
  <2> QED BY <1>1, <1>5, <2>1, <2>2, <2>3 DEF SizesInv
<1>9. ASSUME NEW w \in Writers, FinishFile(w) \/ finishTaskCallBack(w) PROVE SizesInv'
  <2>1. \E x \in {"idle", "begun"} : held' = [held EXCEPT ![w] = x]
    BY <1>9 DEF FinishFile, finishTaskCallBack
  <2>2. Cardinality(Written') = Cardinality(Written) - Current(w) /\ Current(w) \in {0, 1}
    BY <1>6, <2>1
  <2>3. m'.finishedSize = m.finishedSize /\ UNCHANGED <<extra, peak, speed, call>>
    BY <1>2, <1>9 DEF FinishFile, finishTaskCallBack
  <2> QED BY <1>1, <1>5, <2>2, <2>3 DEF SizesInv
<1>10. ASSUME NEW w \in Writers, AttemptFails(w) \/ WriteInsertFails(w) PROVE SizesInv'
  <2>1. \E x \in {"idle", "begun", "reverted"} : held' = [held EXCEPT ![w] = x]
    BY <1>10 DEF AttemptFails, WriteInsertFails, Retry
  <2>2. /\ Cardinality(Written') = Cardinality(Written) - Current(w)
        /\ Current(w) \in {0, 1} /\ Current(w) <= Cardinality(Written)
    BY <1>6, <2>1
  <2>3. PICK back \in 0..Current(w) :
          m'.finishedSize = m.finishedSize - back /\ extra' = extra + files[w] + (Current(w) - back)
    <3>1. CASE AttemptFails(w)
      <4>1. m'.finishedSize = m.finishedSize - 0 /\ extra' = extra + files[w] + (Current(w) - 0)
        BY <1>1, <2>2, <3>1 DEF AttemptFails
      <4>2. 0 \in 0..Current(w)
        BY <2>2
      <4> QED BY <4>1, <4>2
    <3>2. CASE WriteInsertFails(w)
      <4>1. PICK back \in 0..Current(w) :
              m' = [m EXCEPT !.finishedSize = @ - back] /\ extra' = extra + files[w] + (Current(w) - back)
        BY <3>2 DEF WriteInsertFails
      <4>2. m'.finishedSize = m.finishedSize - back
        BY <1>2, <4>1
      <4> QED BY <4>1, <4>2
    <3> QED BY <1>10, <3>1, <3>2
  <2>4. UNCHANGED <<peak, speed, call>>
    BY <1>10 DEF AttemptFails, WriteInsertFails
  <2>5. files[w] \in Nat
    BY <1>1
  <2> QED BY <1>1, <1>5, <2>2, <2>3, <2>4, <2>5 DEF SizesInv
<1>11. ASSUME NEW w \in Writers, PipeStops(w) PROVE SizesInv'
  <2>1. \E x \in {"idle", "begun"} : held' = [held EXCEPT ![w] = x]
    BY <1>11 DEF PipeStops, Retry
  <2>2. Cardinality(Written') = Cardinality(Written) - Current(w) /\ Current(w) \in {0, 1}
    BY <1>6, <2>1
  <2>3. PICK late \in {0, 1} : m' = [m EXCEPT !.finishedSize = @ + late] /\ extra' = extra + late
    BY <1>11 DEF PipeStops
  <2>4. m'.finishedSize = m.finishedSize + late
    BY <1>2, <2>3
  <2>5. UNCHANGED <<peak, speed, call>>
    BY <1>11 DEF PipeStops
  <2> QED BY <1>1, <1>5, <2>2, <2>3, <2>4, <2>5 DEF SizesInv
<1>12. ASSUME NEW r \in Readers,
              ReadSize(r) \/ GetSpeed(r) \/ ReadReady(r) \/ ReadEmpty(r) \/ ReadCompleted(r) \/ ReadTotal(r)
       PROVE  SizesInv'
  <2>1. UNCHANGED <<held, extra, peak, m>>
    BY <1>12 DEF ReadSize, GetSpeed, ReadReady, ReadEmpty, ReadCompleted, ReadTotal
  <2>2. Written' = Written
    BY <2>1 DEF Written
  <2>3. \A q \in Readers : call'[q].pc = "speed" => call'[q].bytes <= peak + extra
    BY <1>2, <1>12 DEF SizesInv, ReadSize, GetSpeed, ReadReady, ReadEmpty, ReadCompleted, ReadTotal, Idle
  <2>4. speed'.credited = speed'.lastFinished /\ speed'.lastFinished <= peak + extra
    <3>1. CASE GetSpeed(r)
      <4>1. call[r].pc = "speed" /\ call[r].bytes \in Nat /\ call[r].bytes <= peak + extra
        BY <1>2, <3>1 DEF GetSpeed, SizesInv
      <4> QED BY <1>2, <3>1, <4>1 DEF GetSpeed, SizesInv
    <3>2. CASE ~GetSpeed(r)
      BY <1>12, <3>2 DEF SizesInv, ReadSize, ReadReady, ReadEmpty, ReadCompleted, ReadTotal
    <3> QED BY <3>1, <3>2
  <2> QED BY <2>1, <2>2, <2>3, <2>4 DEF SizesInv
<1> QED BY <1>3, <1>4, <1>7, <1>8, <1>9, <1>10, <1>11, <1>12 DEF StatusAction, StatusNext

LEMMA StatusTypeStep ==
    ASSUME StatusTypeOK, ChunksInv, SizesInv, ShownInv, StatusAction PROVE StatusTypeOK'
<1>1. /\ m.totalChunks \in Nat /\ m.completedChunks \in Nat /\ queue \in Nat /\ m.finishedSize \in Nat
      /\ Cardinality(Busy) \in Nat /\ Cardinality(Written) \in Nat /\ MaxChunks \in Nat
      /\ m.totalChunks <= MaxChunks /\ MaxAttempts \in Nat /\ MaxFiles \in Nat
  BY MetricsType, Bounds, Finite
<1>2. /\ m \in [totalChunks : 0..MaxChunks, completedChunks : 0..MaxChunks,
                progressReady : BOOLEAN, finishedSize : Nat]
      /\ speed \in [lastFinished : Nat, credited : Nat]
      /\ call \in [Readers -> [pc : {"idle", "speed", "ready", "empty", "completed", "total"},
                               bytes : Nat, completed : 0..MaxChunks]]
      /\ shown \in [Readers -> [completed : 0..MaxChunks \cup {1}, total : 1..MaxChunks \cup {1}]]
      /\ held \in [Writers -> {"idle", "begun", "written", "reverted"}]
  BY DEF StatusTypeOK
<1>3. CASE newTaskTableData
  <2>1. m.totalChunks + 1 \in 0..MaxChunks
    BY <1>1, <1>3 DEF newTaskTableData
  <2>2. m' \in [totalChunks : 0..MaxChunks, completedChunks : 0..MaxChunks,
                progressReady : BOOLEAN, finishedSize : Nat]
    BY <1>2, <1>3, <2>1 DEF newTaskTableData
  <2>3. queue' \in 0..MaxChunks
    <3>1. queue <= m.totalChunks
      BY <1>1 DEF ChunksInv
    <3> QED BY <1>1, <1>3, <2>1, <3>1 DEF newTaskTableData
  <2> QED BY <1>3, <2>2, <2>3 DEF StatusTypeOK, newTaskTableData
<1>4. CASE ProgressReady \/ SendingFails \/ DumpEnds \/ CancelDump
  <2>1. m' \in [totalChunks : 0..MaxChunks, completedChunks : 0..MaxChunks,
                progressReady : BOOLEAN, finishedSize : Nat]
    BY <1>2, <1>4 DEF ProgressReady, SendingFails, DumpEnds, CancelDump
  <2> QED BY <1>1, <1>4, <2>1 DEF StatusTypeOK, ProgressReady, SendingFails, DumpEnds, CancelDump
<1>5. ASSUME NEW w \in Writers, TakeTask(w) \/ AttemptStep(w) \/ finishTaskCallBack(w)
      PROVE  StatusTypeOK'
  <2>0. /\ extra \in Nat /\ peak \in Nat /\ files \in [Writers -> 0..MaxFiles]
        /\ files[w] \in Nat /\ Current(w) \in {0, 1} /\ attempts \in 0..MaxAttempts
    BY <1>1 DEF StatusTypeOK, Current
  <2>1. held' \in [Writers -> {"idle", "begun", "written", "reverted"}]
    <3>1. \E x \in {"idle", "begun", "written", "reverted"} : held' = [held EXCEPT ![w] = x]
      BY <1>5 DEF TakeTask, AttemptStep, WriteBuffer, FinishFile, AttemptFails, WriteInsertFails,
                  PipeStops, Retry, finishTaskCallBack
    <3> QED BY <1>2, <3>1
  <2>2. m' \in [totalChunks : 0..MaxChunks, completedChunks : 0..MaxChunks,
                progressReady : BOOLEAN, finishedSize : Nat]
    <3>1. CASE TakeTask(w) \/ FinishFile(w) \/ AttemptFails(w)
      BY <1>2, <3>1 DEF TakeTask, FinishFile, AttemptFails
    <3>2. CASE WriteBuffer(w)
      BY <1>2, <3>2 DEF WriteBuffer
    <3>3. CASE WriteInsertFails(w)
      <4>1. PICK back \in 0..Current(w) : m' = [m EXCEPT !.finishedSize = @ - back]
        BY <3>3 DEF WriteInsertFails
      <4>2. Current(w) <= Cardinality(Written)
        <5>1. ASSUME held[w] = "written" PROVE Cardinality(Written) >= 1
          BY <3>3, <5>1, CountsOfSets DEF WriteInsertFails
        <5> QED BY <1>1, <5>1 DEF Current
      <4>3. m.finishedSize - back \in Nat
        BY <1>1, <2>0, <4>2 DEF SizesInv
      <4> QED BY <1>2, <4>1, <4>3
    <3>4. CASE PipeStops(w)
      <4>1. PICK late \in {0, 1} : m' = [m EXCEPT !.finishedSize = @ + late]
        BY <3>4 DEF PipeStops
      <4>2. m.finishedSize + late \in Nat
        BY <1>1
      <4> QED BY <1>2, <4>1, <4>2
    <3>5. CASE finishTaskCallBack(w)
      <4>1. Cardinality(Busy) >= 1
        BY <3>5, CountsOfSets DEF finishTaskCallBack
      <4>2. m.completedChunks + 1 \in 0..MaxChunks
        BY <1>1, <4>1 DEF ChunksInv
      <4> QED BY <1>2, <3>5, <4>2 DEF finishTaskCallBack
    <3> QED BY <1>5, <3>1, <3>2, <3>3, <3>4, <3>5 DEF AttemptStep
  <2>3. queue' \in 0..MaxChunks /\ attempts' \in 0..MaxAttempts /\ cancelled' \in {"no", "user", "error"}
    <3>1. CASE TakeTask(w)
      BY <1>1, <2>0, <3>1 DEF StatusTypeOK, TakeTask
    <3>2. CASE ~TakeTask(w)
      <4>1. /\ queue' = queue /\ (cancelled' = cancelled \/ cancelled' = "error")
            /\ attempts' = attempts \/ (attempts < MaxAttempts /\ attempts' = attempts + 1)
        BY <1>5, <3>2 DEF AttemptStep, WriteBuffer, FinishFile, AttemptFails, WriteInsertFails,
                          PipeStops, Retry, finishTaskCallBack
      <4> QED BY <1>1, <2>0, <4>1 DEF StatusTypeOK
    <3> QED BY <3>1, <3>2
  <2>4. peak' \in Nat /\ extra' \in Nat
    <3>1. CASE WriteBuffer(w)
      BY <1>1, <2>0, <3>1 DEF WriteBuffer
    <3>2. CASE AttemptFails(w)
      BY <2>0, <3>2 DEF AttemptFails
    <3>3. CASE WriteInsertFails(w)
      <4>1. PICK back \in 0..Current(w) : extra' = extra + files[w] + (Current(w) - back)
        BY <3>3 DEF WriteInsertFails
      <4> QED BY <2>0, <3>3, <4>1 DEF WriteInsertFails
    <3>4. CASE PipeStops(w)
      BY <2>0, <3>4 DEF PipeStops
    <3>5. CASE TakeTask(w) \/ FinishFile(w) \/ finishTaskCallBack(w)
      BY <2>0, <3>5 DEF TakeTask, FinishFile, finishTaskCallBack
    <3> QED BY <1>5, <3>1, <3>2, <3>3, <3>4, <3>5 DEF AttemptStep
  <2>5. files' \in [Writers -> 0..MaxFiles]
    <3>1. files' = files \/ (\E n \in 0..MaxFiles : files' = [files EXCEPT ![w] = n])
      <4>1. CASE FinishFile(w)
        <5>1. files[w] + 1 \in 0..MaxFiles
          BY <1>1, <2>0, <4>1 DEF FinishFile
        <5> QED BY <4>1, <5>1 DEF FinishFile
      <4>2. CASE ~FinishFile(w)
        <5>1. files' = files \/ files' = [files EXCEPT ![w] = 0]
          BY <1>5, <4>2 DEF TakeTask, AttemptStep, WriteBuffer, AttemptFails, WriteInsertFails,
                            PipeStops, finishTaskCallBack
        <5> QED BY <1>1, <5>1
      <4> QED BY <4>1, <4>2
    <3> QED BY <2>0, <3>1
  <2>6. UNCHANGED <<phase, speed, call, shown>>
    BY <1>5 DEF TakeTask, AttemptStep, WriteBuffer, FinishFile, AttemptFails, WriteInsertFails,
                PipeStops, finishTaskCallBack
  <2> QED BY <2>1, <2>2, <2>3, <2>4, <2>5, <2>6 DEF StatusTypeOK
<1>6. ASSUME NEW r \in Readers,
             ReadSize(r) \/ GetSpeed(r) \/ ReadReady(r) \/ ReadEmpty(r) \/ ReadCompleted(r) \/ ReadTotal(r)
      PROVE  StatusTypeOK'
  <2>1. Idle \in [pc : {"idle", "speed", "ready", "empty", "completed", "total"},
                  bytes : Nat, completed : 0..MaxChunks]
    BY <1>1 DEF Idle
  <2>2. call' \in [Readers -> [pc : {"idle", "speed", "ready", "empty", "completed", "total"},
                               bytes : Nat, completed : 0..MaxChunks]]
    BY <1>2, <1>6, <2>1 DEF ReadSize, GetSpeed, ReadReady, ReadEmpty, ReadCompleted, ReadTotal
  <2>3. shown' \in [Readers -> [completed : 0..MaxChunks \cup {1}, total : 1..MaxChunks \cup {1}]]
    <3>1. CASE ReadTotal(r)
      <4>1. call[r].completed \in 0..MaxChunks /\ m.totalChunks \in 1..MaxChunks
        BY <1>1, <1>2, <3>1 DEF ShownInv, ReadTotal
      <4> QED BY <1>2, <3>1, <4>1 DEF ReadTotal, All
    <3>2. CASE ~ReadTotal(r)
      BY <1>2, <1>6, <3>2 DEF ReadSize, GetSpeed, ReadReady, ReadEmpty, ReadCompleted, All
    <3> QED BY <3>1, <3>2
  <2>4. speed' \in [lastFinished : Nat, credited : Nat]
    <3>1. CASE GetSpeed(r)
      <4>1. call[r].bytes \in Nat
        BY <1>2 DEF StatusTypeOK
      <4> QED BY <1>2, <3>1, <4>1 DEF GetSpeed
    <3>2. CASE ~GetSpeed(r)
      BY <1>2, <1>6, <3>2 DEF ReadSize, ReadReady, ReadEmpty, ReadCompleted, ReadTotal
    <3> QED BY <3>1, <3>2
  <2> QED BY <1>6, <2>2, <2>3, <2>4
          DEF StatusTypeOK, ReadSize, GetSpeed, ReadReady, ReadEmpty, ReadCompleted, ReadTotal
<1> QED BY <1>3, <1>4, <1>5, <1>6 DEF StatusAction, StatusNext, AttemptStep

LEMMA ShownStep ==
    ASSUME StatusTypeOK, ChunksInv, ShownInv, StatusAction PROVE ShownInv' /\ ProgressGrows
<1>1. /\ m.totalChunks \in Nat /\ m.completedChunks \in Nat /\ m.completedChunks <= m.totalChunks
      /\ m.progressReady \in BOOLEAN
  <2>1. /\ m.totalChunks \in Nat /\ m.completedChunks \in Nat /\ queue \in Nat
        /\ Cardinality(Busy) \in Nat
    BY MetricsType, Bounds, Finite
  <2> QED BY <2>1, MetricsType DEF ChunksInv
<1>2. /\ m \in [totalChunks : 0..MaxChunks, completedChunks : 0..MaxChunks,
                progressReady : BOOLEAN, finishedSize : Nat]
      /\ call \in [Readers -> [pc : {"idle", "speed", "ready", "empty", "completed", "total"},
                               bytes : Nat, completed : 0..MaxChunks]]
      /\ shown \in [Readers -> [completed : 0..MaxChunks \cup {1}, total : 1..MaxChunks \cup {1}]]
  BY DEF StatusTypeOK
<1>3. \A r \in Readers : shown[r].completed \in Nat /\ shown[r].total \in Nat
  BY <1>2, Bounds
<1>4. ASSUME UNCHANGED shown PROVE ProgressGrows
  BY <1>3, <1>4 DEF ProgressGrows
<1>5. CASE newTaskTableData
  <2>1. /\ phase = "sending" /\ ~m.progressReady /\ UNCHANGED <<phase, call, shown>>
    BY <1>5 DEF newTaskTableData, ShownInv
  <2>2. m'.progressReady = m.progressReady
    BY <1>2, <1>5 DEF newTaskTableData
  <2> QED BY <1>4, <2>1, <2>2 DEF ShownInv
<1>6. CASE ProgressReady
  <2>1. /\ UNCHANGED <<call, shown>> /\ phase' = "waiting"
    BY <1>6 DEF ProgressReady
  <2>2. m'.progressReady /\ m'.totalChunks = m.totalChunks /\ m'.completedChunks = m.completedChunks
    BY <1>2, <1>6 DEF ProgressReady
  <2> QED BY <1>4, <2>1, <2>2 DEF ShownInv
<1>7. CASE SendingFails \/ DumpEnds \/ CancelDump
  <2>1. /\ UNCHANGED <<call, shown, m>> /\ (phase' = phase \/ phase' \in {"ok", "failed"})
    BY <1>7 DEF SendingFails, DumpEnds, CancelDump
  <2> QED BY <1>4, <2>1 DEF ShownInv
<1>8. ASSUME NEW w \in Writers, TakeTask(w) \/ AttemptStep(w) \/ finishTaskCallBack(w)
      PROVE  ShownInv' /\ ProgressGrows
  <2>1. UNCHANGED <<phase, call, shown>>
    BY <1>8 DEF TakeTask, AttemptStep, WriteBuffer, FinishFile, AttemptFails, WriteInsertFails,
                PipeStops, finishTaskCallBack
  <2>2. /\ m'.progressReady = m.progressReady /\ m'.totalChunks = m.totalChunks
        /\ m'.completedChunks \in {m.completedChunks, m.completedChunks + 1}
    BY <1>2, <1>8 DEF TakeTask, AttemptStep, WriteBuffer, FinishFile, AttemptFails, WriteInsertFails,
                      PipeStops, finishTaskCallBack
  <2>3. ASSUME NEW x \in Nat, x <= m.completedChunks PROVE x <= m'.completedChunks
    BY <1>1, <2>2, <2>3
  <2>4. ASSUME NEW r \in Readers
        PROVE  /\ call'[r].pc \in {"empty", "completed", "total"} => m'.progressReady
               /\ call'[r].pc \in {"completed", "total"} => m'.totalChunks > 0
               /\ call'[r].pc = "total" =>
                    shown'[r].completed <= call'[r].completed /\ call'[r].completed <= m'.completedChunks
               /\ \/ shown'[r] = None
                  \/ m'.progressReady /\ m'.totalChunks = 0 /\ shown'[r] = All
                  \/ m'.progressReady /\ m'.totalChunks > 0 /\ shown'[r].total = m'.totalChunks
                       /\ shown'[r].completed <= m'.completedChunks
    <3>1. call[r].completed \in Nat /\ shown[r].completed \in Nat
      BY <1>2, <1>3, Bounds
    <3> QED BY <2>1, <2>2, <2>3, <3>1 DEF ShownInv
  <2>5. phase' \in {"off", "sending"} => ~m'.progressReady
    BY <2>1, <2>2 DEF ShownInv
  <2> QED BY <1>4, <2>1, <2>4, <2>5 DEF ShownInv
<1>9. ASSUME NEW r \in Readers,
             ReadSize(r) \/ GetSpeed(r) \/ ReadReady(r) \/ ReadCompleted(r)
             \/ (ReadEmpty(r) /\ m.totalChunks # 0)
      PROVE  ShownInv' /\ ProgressGrows
  <2>1. UNCHANGED <<phase, m, shown>>
    BY <1>9 DEF ReadSize, GetSpeed, ReadReady, ReadEmpty, ReadCompleted
  <2>2. ASSUME NEW q \in Readers
        PROVE  /\ call'[q].pc \in {"empty", "completed", "total"} => m.progressReady
               /\ call'[q].pc \in {"completed", "total"} => m.totalChunks > 0
               /\ call'[q].pc = "total" =>
                    shown[q].completed <= call'[q].completed /\ call'[q].completed <= m.completedChunks
    <3>1. CASE q # r
      <4>1. call'[q] = call[q]
        BY <1>2, <1>9, <3>1 DEF ReadSize, GetSpeed, ReadReady, ReadEmpty, ReadCompleted
      <4> QED BY <4>1 DEF ShownInv
    <3>2. CASE q = r
      <4>1. CASE ReadSize(r) \/ GetSpeed(r) \/ ReadReady(r)
        BY <1>2, <3>2, <4>1 DEF ReadSize, GetSpeed, ReadReady, Idle
      <4>2. CASE ReadEmpty(r) /\ m.totalChunks # 0
        <5>1. call'[r].pc = "completed" /\ m.progressReady
          BY <1>2, <4>2 DEF ReadEmpty, ShownInv
        <5> QED BY <1>1, <3>2, <4>2, <5>1
      <4>3. CASE ReadCompleted(r)
        <5>1. /\ call'[r].pc = "total" /\ call'[r].completed = m.completedChunks /\ m.progressReady
              /\ m.totalChunks > 0
          BY <1>2, <4>3 DEF ReadCompleted, ShownInv
        <5>2. shown[r].completed <= m.completedChunks
          BY <1>1, <5>1 DEF ShownInv, None
        <5> QED BY <1>1, <3>2, <5>1, <5>2
      <4> QED BY <1>9, <4>1, <4>2, <4>3
    <3> QED BY <3>1, <3>2
  <2> QED BY <1>4, <2>1, <2>2 DEF ShownInv
<1>10. ASSUME NEW r \in Readers, (ReadEmpty(r) /\ m.totalChunks = 0) \/ ReadTotal(r)
       PROVE  ShownInv' /\ ProgressGrows
  <2>1. /\ UNCHANGED <<phase, m>> /\ call' = [call EXCEPT ![r] = Idle] /\ m.progressReady
        /\ \A q \in Readers : q # r => shown'[q] = shown[q]
    BY <1>2, <1>10 DEF ReadEmpty, ReadTotal, ShownInv
  <2>2. \A q \in Readers : call'[q] = IF q = r THEN Idle ELSE call[q]
    BY <1>2, <2>1
  <2>3. CASE ReadEmpty(r) /\ m.totalChunks = 0
    <3>1. shown'[r] = All
      BY <1>2, <2>3 DEF ReadEmpty
    <3>2. shown[r] = None \/ shown[r] = All
      BY <2>3 DEF ShownInv
    <3>3. ShownInv'
      BY <2>1, <2>2, <2>3, <3>1 DEF ShownInv, Idle
    <3>4. ProgressGrows
      BY <1>3, <2>1, <3>1, <3>2 DEF ProgressGrows, None, All
    <3> QED BY <3>3, <3>4
  <2>4. CASE ReadTotal(r)
    <3>1. /\ m.totalChunks > 0 /\ call[r].completed <= m.completedChunks /\ call[r].completed \in Nat
          /\ shown[r].completed <= call[r].completed
      BY <1>2, <2>4, Bounds DEF ReadTotal, ShownInv
    <3>2. shown'[r] = [completed |-> call[r].completed, total |-> m.totalChunks]
      BY <1>1, <1>2, <2>4, <3>1 DEF ReadTotal
    <3>3. shown'[r].completed = call[r].completed /\ shown'[r].total = m.totalChunks
      BY <3>2
    <3>4. ShownInv'
      BY <2>1, <2>2, <3>1, <3>3 DEF ShownInv, Idle
    <3>5. shown[r] = None \/ shown[r].total = m.totalChunks
      BY <3>1 DEF ShownInv
    <3>6. shown'[r].completed * shown[r].total >= shown[r].completed * shown'[r].total
      <4>1. CASE shown[r] = None
        BY <1>1, <3>1, <3>3, <4>1 DEF None
      <4>2. CASE shown[r].total = m.totalChunks
        <5>1. \A a, b, c \in Nat : a <= b => b * c >= a * c
          OBVIOUS
        <5> QED BY <1>1, <1>3, <3>1, <3>3, <4>2, <5>1
      <4> QED BY <3>5, <4>1, <4>2
    <3>7. ProgressGrows
      BY <1>3, <2>1, <3>6 DEF ProgressGrows
    <3> QED BY <3>4, <3>7
  <2> QED BY <1>10, <2>3, <2>4
<1> QED BY <1>5, <1>6, <1>7, <1>8, <1>9, <1>10 DEF StatusAction, StatusNext, AttemptStep
-----------------------------------------------------------------------------
(* The status under the steps of the dumper. *)

LEMMA FreshType ==
    /\ newMetrics \in [totalChunks : 0..MaxChunks, completedChunks : 0..MaxChunks,
                       progressReady : BOOLEAN, finishedSize : Nat]
    /\ [r \in Readers |-> Idle] \in
         [Readers -> [pc : {"idle", "speed", "ready", "empty", "completed", "total"},
                      bytes : Nat, completed : 0..MaxChunks]]
    /\ [r \in Readers |-> None] \in
         [Readers -> [completed : 0..MaxChunks \cup {1}, total : 1..MaxChunks \cup {1}]]
    /\ 0 \in 0..MaxChunks /\ 0 \in 0..MaxAttempts
    /\ [w \in Writers |-> 0] \in [Writers -> 0..MaxFiles]
  BY Bounds DEF newMetrics, Idle, None

LEMMA StatusInitInv == ASSUME StatusInit PROVE StatusInv
<1>1. StatusTypeOK
  BY FreshType DEF StatusInit, StatusTypeOK, NewSpeedRecorder
<1>2. Busy = {} /\ Written = {}
  BY DEF StatusInit, Busy, Written
<1>3. ChunksInv /\ SizesInv
  BY <1>2, FS_EmptySet DEF ChunksInv, SizesInv, StatusInit, newMetrics, NewSpeedRecorder, Idle
<1>4. ShownInv
  BY DEF ShownInv, StatusInit, newMetrics, Idle
<1> QED BY <1>1, <1>3, <1>4 DEF StatusInv

LEMMA StatusResetInv == ASSUME StatusTypeOK, StatusReset PROVE StatusInv'
<1>1. StatusTypeOK'
  BY FreshType DEF StatusReset, StatusTypeOK, NewSpeedRecorder
<1>2. Busy' = {} /\ Written' = {}
  BY DEF StatusReset, Busy, Written
<1>3. ChunksInv' /\ SizesInv'
  BY <1>2, FS_EmptySet DEF ChunksInv, SizesInv, StatusReset, newMetrics, NewSpeedRecorder, Idle
<1>4. ShownInv'
  BY DEF ShownInv, StatusReset, newMetrics, Idle
<1> QED BY <1>1, <1>3, <1>4 DEF StatusInv

\* The steps of the dumper that change nothing but the phase.
LEMMA PhaseInv ==
    ASSUME StatusInv, UNCHANGED <<queue, held, attempts, files, m, speed, call, extra, peak, shown>>,
           phase' \in {"off", "sending", "waiting", "ok", "failed"}, cancelled' \in {"no", "user", "error"},
           phase' = phase \/ phase = "off"
    PROVE  StatusInv'
<1>1. StatusTypeOK'
  BY DEF StatusInv, StatusTypeOK
<1>2. Busy' = Busy /\ Written' = Written
  BY DEF Busy, Written
<1>3. ChunksInv' /\ SizesInv'
  BY <1>2 DEF StatusInv, ChunksInv, SizesInv
<1>4. ShownInv'
  BY DEF StatusInv, ShownInv
<1> QED BY <1>1, <1>3, <1>4 DEF StatusInv

LEMMA StatusStepInv ==
    ASSUME StatusInv, LifeInv, [Next]_vars PROVE StatusInv' /\ (life' = life => ProgressGrows)
<1>1. StatusTypeOK /\ ChunksInv /\ SizesInv /\ ShownInv
  BY DEF StatusInv
<1>2. \A r \in Readers : shown[r].completed \in Nat /\ shown[r].total \in Nat
  BY <1>1, Bounds DEF StatusTypeOK
<1>3. ASSUME UNCHANGED shown PROVE ProgressGrows
  BY <1>2, <1>3 DEF ProgressGrows
<1>4. CASE NewTask \/ StatusStep
  <2>1. StatusAction
    BY <1>4 DEF NewTask, StatusStep, StatusAction
  <2>2. StatusTypeOK'
    BY <1>1, <2>1, StatusTypeStep
  <2>3. ChunksInv' /\ SizesInv'
    BY <1>1, <2>1, ChunksStep, SizesStep
  <2>4. ShownInv' /\ ProgressGrows
    BY <1>1, <2>1, ShownStep
  <2> QED BY <2>2, <2>3, <2>4 DEF StatusInv
<1>5. CASE UNCHANGED statusVars
  BY <1>1, <1>3, <1>5, PhaseInv DEF statusVars, StatusTypeOK
<1>6. CASE NewLife
  <2>1. life' # life
    BY <1>6 DEF NewLife
  <2> QED BY <1>1, <1>6, <2>1, StatusResetInv DEF NewLife
<1>7. CASE SetupConsistency \/ CreateConns
  <2>1. phase = "off" /\ phase' \in {"off", "sending", "failed"}
    BY <1>7 DEF SetupConsistency, CreateConns, LifeInv, NotDumping
  <2>2. UNCHANGED <<cancelled, queue, held, attempts, files, m, speed, call, extra, peak, shown>>
    BY <1>7 DEF SetupConsistency, CreateConns
  <2> QED BY <1>1, <1>3, <2>1, <2>2, PhaseInv DEF StatusTypeOK
<1>8. CASE Close
  BY <1>1, <1>3, <1>8, PhaseInv DEF Close, StatusTypeOK
<1>9. ASSUME NEW o \in Options, Start(o) PROVE NewLife \/ UNCHANGED statusVars
  BY <1>9 DEF Start
<1>10. ASSUME RegisterTo \/ AdjustConfig \/ InitLoggerAndStore \/ StartHTTPService \/ OpenSQLDB
              \/ SetupPgDumpEnv \/ ResolveAutoConsistency \/ SetSessionParam \/ DumpReturns \/ GiveUp
       PROVE  UNCHANGED statusVars
  BY <1>10 DEF RegisterTo, AdjustConfig, InitLoggerAndStore, StartHTTPService, OpenSQLDB, SetupPgDumpEnv,
               ResolveAutoConsistency, SetSessionParam, DumpReturns, GiveUp
<1>11. ASSUME StartAgain PROVE NewLife
  BY <1>11 DEF StartAgain
<1>12. ASSUME UNCHANGED vars PROVE UNCHANGED statusVars
  BY <1>12 DEF vars
<1> QED BY <1>4, <1>5, <1>6, <1>7, <1>8, <1>9, <1>10, <1>11, <1>12 DEF Next
-----------------------------------------------------------------------------
(* The life of a dumper. *)

LEMMA ConfStep ==
    ASSUME TypeOK, OptionsInv, [Next]_vars PROVE conf' \in Option /\ OptionsInv'
<1>1. conf \in Option /\ life \in Nat
  BY DEF TypeOK
<1>2. CASE \E o \in Options : Start(o)
  <2>1. PICK o \in Options : Start(o)
    BY <1>2
  <2>2. CASE ~ParseFromFlags(o)
    <3>1. UNCHANGED <<life, pc, conf>>
      BY <2>1, <2>2 DEF Start
    <3> QED BY <1>1, <3>1 DEF OptionsInv
  <2>3. CASE ParseFromFlags(o)
    <3>1. conf' = Parsed(o) /\ pc' = "register" /\ o \in Option
      BY <2>1, <2>3, OptionsAssumption DEF Start, NewLife
    <3>2. /\ conf' \in Option /\ conf'.threads = o.threads /\ conf'.csvDialect = o.csvDialect
          /\ conf'.fileType = o.fileType /\ conf'.noPreamble \in {"TRUE", "FALSE"}
      <4>1. PICK t \in {"pg", "mysql", "tidb"} : t = Target(o)
        BY <2>3, <3>1 DEF ParseFromFlags, ParseSQLTarget, Target, Option
      <4>2. PICK p \in {"TRUE", "FALSE"} :
              p = IF o.noPreamble # "unset" THEN o.noPreamble ELSE IF t = "tidb" THEN "TRUE" ELSE "FALSE"
        BY <3>1 DEF Option
      <4>3. conf' = [o EXCEPT !.target = t, !.noPreamble = p]
        BY <3>1, <4>1, <4>2 DEF Parsed
      <4>4. conf' \in Option
        <5>1. [o EXCEPT !.target = t] \in Option
          BY <3>1 DEF Option
        <5>2. PICK u \in Option : u = [o EXCEPT !.target = t]
          BY <5>1, Zenon
        <5>3. [u EXCEPT !.noPreamble = p] \in Option
          BY DEF Option
        <5> QED BY <4>3, <5>2, <5>3, Zenon
      <4>5. /\ conf'.threads = o.threads /\ conf'.csvDialect = o.csvDialect
            /\ conf'.fileType = o.fileType /\ conf'.noPreamble = p
        BY <3>1, <4>3 DEF Option
      <4> QED BY <4>2, <4>4, <4>5
    <3>3. o.threads > 0 /\ (o.csvDialect # "empty" => o.fileType = "csv")
      BY <2>3 DEF ParseFromFlags
    <3> QED BY <3>1, <3>2, <3>3 DEF OptionsInv, Running
  <2> QED BY <2>2, <2>3
<1>3. CASE StartAgain
  <2>1. pc' = "register" /\ conf' = conf /\ life > 0
    BY <1>3 DEF StartAgain, NewLife
  <2> QED BY <1>1, <2>1 DEF OptionsInv, Running
<1>4. CASE AdjustConfig
  <2>1. pc = "adjust" /\ UNCHANGED life
    BY <1>4 DEF AdjustConfig
  <2>2. CASE pc' = "failed" /\ conf' = conf
    BY <1>1, <2>1, <2>2 DEF OptionsInv, Running
  <2>3. CASE /\ BuildTLSConfig(conf) /\ ValidateSpecifiedSQL(conf) /\ AdjustFileFormat(conf)
             /\ conf' = [conf EXCEPT !.fileType = FileTypeOf(conf)] /\ pc' = "logger"
    <3>1. FileTypeOf(conf) \in {"sql", "csv"} /\ (conf.fileType = "csv" => FileTypeOf(conf) = "csv")
      BY <1>1, <2>3 DEF AdjustFileFormat, FileTypeOf, Option
    <3>2. /\ conf' \in Option /\ conf'.fileType = FileTypeOf(conf) /\ conf'.threads = conf.threads
          /\ conf'.noPreamble = conf.noPreamble /\ conf'.csvDialect = conf.csvDialect
          /\ conf'.cert = conf.cert /\ conf'.key = conf.key /\ conf'.sql = conf.sql
          /\ conf'.where = conf.where
      BY <1>1, <2>3, <3>1 DEF Option
    <3> QED BY <2>1, <2>3, <3>1, <3>2
            DEF OptionsInv, Running, BuildTLSConfig, ValidateSpecifiedSQL, AdjustFileFormat
  <2> QED BY <1>4, <2>2, <2>3 DEF AdjustConfig, Fail
<1>5. CASE ResolveAutoConsistency
  <2>1. /\ pc = "auto" /\ UNCHANGED life /\ pc' \in {"failed", "session"}
        /\ conf' = [conf EXCEPT !.consistency =
                       IF conf.consistency = "auto" THEN "snapshot" ELSE conf.consistency]
    BY <1>5 DEF ResolveAutoConsistency, Fail
  <2>2. /\ conf' \in Option /\ conf'.fileType = conf.fileType /\ conf'.threads = conf.threads
        /\ conf'.noPreamble = conf.noPreamble /\ conf'.csvDialect = conf.csvDialect
        /\ conf'.cert = conf.cert /\ conf'.key = conf.key /\ conf'.sql = conf.sql
        /\ conf'.where = conf.where /\ conf'.snapshot = conf.snapshot
        /\ conf'.consistency = IF conf.consistency = "auto" THEN "snapshot" ELSE conf.consistency
    <3>1. PICK c \in {"snapshot", "none", "bad"} :
            c = IF conf.consistency = "auto" THEN "snapshot" ELSE conf.consistency
      BY <1>1 DEF Option
    <3>2. conf' = [conf EXCEPT !.consistency = c]
      BY <2>1, <3>1
    <3>3. conf' \in Option
      BY <1>1, <3>2 DEF Option
    <3>4. /\ conf'.fileType = conf.fileType /\ conf'.threads = conf.threads
          /\ conf'.noPreamble = conf.noPreamble /\ conf'.csvDialect = conf.csvDialect
          /\ conf'.cert = conf.cert /\ conf'.key = conf.key /\ conf'.sql = conf.sql
          /\ conf'.where = conf.where /\ conf'.snapshot = conf.snapshot /\ conf'.consistency = c
      BY <1>1, <3>2 DEF Option
    <3> QED BY <3>1, <3>3, <3>4
  <2>3. pc' = "session" => conf'.consistency = "snapshot" \/ conf.snapshot = "empty"
    BY <1>5, <2>2 DEF ResolveAutoConsistency, Fail
  <2> QED BY <2>1, <2>2, <2>3 DEF OptionsInv, Running
<1>6. CASE SetupConsistency
  <2>1. pc = "made" /\ UNCHANGED life /\ pc' \in {"connect", "dumped"}
    BY <1>6 DEF SetupConsistency
  <2>2. \/ conf' = conf
        \/ /\ conf.consistency = "snapshot"
           /\ conf' = [conf EXCEPT !.snapshot = IF conf.snapshot = "empty" THEN "own" ELSE @]
    BY <1>6 DEF SetupConsistency
  <2>3. /\ conf' \in Option /\ conf'.fileType = conf.fileType /\ conf'.threads = conf.threads
        /\ conf'.noPreamble = conf.noPreamble /\ conf'.csvDialect = conf.csvDialect
        /\ conf'.cert = conf.cert /\ conf'.key = conf.key /\ conf'.sql = conf.sql
        /\ conf'.where = conf.where /\ conf'.consistency = conf.consistency
        /\ conf'.snapshot = conf.snapshot \/ conf.consistency = "snapshot"
    <3>1. CASE conf' = conf
      BY <1>1, <3>1
    <3>2. CASE /\ conf.consistency = "snapshot"
               /\ conf' = [conf EXCEPT !.snapshot = IF conf.snapshot = "empty" THEN "own" ELSE @]
      <4>1. PICK s \in {"token", "own"} : s = IF conf.snapshot = "empty" THEN "own" ELSE conf.snapshot
        BY <1>1 DEF Option
      <4>2. conf' = [conf EXCEPT !.snapshot = s]
        BY <3>2, <4>1
      <4>3. conf' \in Option
        BY <1>1, <4>2 DEF Option
      <4>4. /\ conf'.fileType = conf.fileType /\ conf'.threads = conf.threads
            /\ conf'.noPreamble = conf.noPreamble /\ conf'.csvDialect = conf.csvDialect
            /\ conf'.cert = conf.cert /\ conf'.key = conf.key /\ conf'.sql = conf.sql
            /\ conf'.where = conf.where /\ conf'.consistency = conf.consistency
        BY <1>1, <4>2 DEF Option
      <4> QED BY <3>2, <4>3, <4>4
    <3> QED BY <2>2, <3>1, <3>2
  <2>4. pc' = "connect" => conf.consistency \in {"snapshot", "none"}
    BY <1>6 DEF SetupConsistency
  <2> QED BY <2>1, <2>3, <2>4 DEF OptionsInv, Running
<1>7. CASE RegisterTo \/ InitLoggerAndStore \/ StartHTTPService \/ OpenSQLDB \/ SetupPgDumpEnv
           \/ SetSessionParam \/ CreateConns \/ NewTask \/ StatusStep \/ DumpReturns \/ Close \/ GiveUp
           \/ UNCHANGED vars
  <2>1. UNCHANGED <<conf, life>>
    BY <1>7 DEF RegisterTo, InitLoggerAndStore, StartHTTPService, OpenSQLDB, SetupPgDumpEnv,
                SetSessionParam, CreateConns, NewTask, StatusStep, DumpReturns, Close, GiveUp, vars, lifeVars
  <2>2. \/ pc' \in {"panic", "adjust", "failed", "idle", pc}
        \/ <<pc, pc'>> \in {<<"logger", "http">>, <<"http", "open">>, <<"open", "env">>, <<"env", "auto">>,
                             <<"session", "made">>, <<"connect", "dumping">>, <<"connect", "dumped">>,
                             <<"dumping", "dumped">>}
    <3>1. CASE RegisterTo \/ InitLoggerAndStore \/ OpenSQLDB
      BY <3>1 DEF RegisterTo, InitLoggerAndStore, OpenSQLDB, Fail
    <3>4. CASE StartHTTPService
      BY <3>4 DEF StartHTTPService
    <3>5. CASE SetupPgDumpEnv
      BY <3>5 DEF SetupPgDumpEnv
    <3>6. CASE SetSessionParam
      BY <3>6 DEF SetSessionParam, Fail
    <3>7. CASE CreateConns
      BY <3>7 DEF CreateConns
    <3>2. CASE DumpReturns \/ Close \/ GiveUp
      BY <3>2 DEF DumpReturns, Close, GiveUp
    <3>3. CASE NewTask \/ StatusStep \/ UNCHANGED vars
      BY <3>3 DEF NewTask, StatusStep, vars, lifeVars
    <3> QED BY <1>7, <3>1, <3>2, <3>3, <3>4, <3>5, <3>6, <3>7
  <2> QED BY <1>1, <2>1, <2>2 DEF OptionsInv, Running
<1> QED BY <1>2, <1>3, <1>4, <1>5, <1>6, <1>7 DEF Next

LEMMA LifeTypeStep ==
    ASSUME TypeOK, LifeInv, [Next]_vars
    PROVE  /\ life' \in 0..MaxLives
           /\ pc' \in {"idle", "register", "panic", "adjust", "logger", "http", "open", "env", "auto",
                       "session", "made", "connect", "dumping", "dumped", "failed"}
           /\ made' \in {"none", "nil", "error", "ok"}
           /\ registry' \subseteq 1..MaxLives /\ http' \in {"free", "taken"}
           /\ open' \subseteq [life : 1..MaxLives, nth : {1, 2}]
           /\ handle' \in 0..2 /\ env' \in 0..MaxLives /\ token' \in 0..MaxLives /\ bound' \in 0..MaxLives
           /\ owner' \in 0..MaxLives /\ left' \subseteq 1..MaxLives
<1>1. life \in 0..MaxLives /\ MaxLives \in Nat /\ (pc # "idle" => life \in 1..MaxLives)
  BY Bounds DEF TypeOK, LifeInv
<1>2. ASSUME NewLife, Done PROVE life' = life + 1 /\ life' \in 0..MaxLives /\ pc' = "register"
                                  /\ made' = "none" /\ bound' = 0 /\ handle' = 0
  BY <1>1, <1>2 DEF NewLife, Done
<1>3. CASE \E o \in Options : Start(o)
  <2>1. /\ (Done /\ NewLife) \/ UNCHANGED <<life, pc, made, bound, handle>>
        /\ owner' \in {owner, 0} /\ UNCHANGED <<registry, http, open, env, token, left>>
    BY <1>3 DEF Start
  <2> QED BY <1>1, <1>2, <2>1 DEF TypeOK
<1>4. CASE StartAgain
  <2>1. /\ life' = life + 1 /\ life < MaxLives /\ pc' = "register" /\ made' = "none" /\ bound' = 0
        /\ handle' = 0 /\ UNCHANGED <<registry, http, open, env, token, owner, left>>
    BY <1>4 DEF StartAgain, NewLife, Done
  <2> QED BY <1>1, <2>1 DEF TypeOK
<1>5. CASE RegisterTo \/ AdjustConfig \/ InitLoggerAndStore \/ StartHTTPService
  BY <1>1, <1>5 DEF TypeOK, RegisterTo, AdjustConfig, InitLoggerAndStore, StartHTTPService, Fail,
                    UnregisterFrom
<1>6. CASE OpenSQLDB \/ SetSessionParam \/ Close
  <2>1. pc # "idle"
    BY <1>6 DEF OpenSQLDB, SetSessionParam, Close
  <2>2. Pool(1) \in [life : 1..MaxLives, nth : {1, 2}] /\ Pool(2) \in [life : 1..MaxLives, nth : {1, 2}]
    BY <1>1, <2>1 DEF Pool
  <2>3. open' \subseteq open \cup {Pool(1), Pool(2)}
    BY <1>6 DEF OpenSQLDB, SetSessionParam, Close
  <2>4. open' \subseteq [life : 1..MaxLives, nth : {1, 2}]
    BY <2>2, <2>3 DEF TypeOK
  <2>5. /\ registry' \in {registry, {}} /\ handle' \in {handle, 0, 1, 2} /\ made' \in {made, "error", "ok"}
        /\ pc' \in {"env", "failed", "made", "dumping", "idle"}
        /\ UNCHANGED <<life, http, env, token, bound, owner, left>>
    <3>1. CASE OpenSQLDB
      BY <3>1 DEF OpenSQLDB, Fail, UnregisterFrom
    <3>2. CASE SetSessionParam
      BY <3>2 DEF SetSessionParam, Fail, UnregisterFrom
    <3>3. CASE Close
      BY <3>3 DEF Close, UnregisterFrom
    <3> QED BY <1>6, <3>1, <3>2, <3>3
  <2>6. registry' \subseteq 1..MaxLives /\ handle' \in 0..2 /\ made' \in {"none", "nil", "error", "ok"}
    BY <2>5 DEF TypeOK
  <2> QED BY <1>1, <2>4, <2>5, <2>6 DEF TypeOK
<1>7. CASE SetupPgDumpEnv \/ ResolveAutoConsistency \/ DumpReturns \/ GiveUp
  BY <1>1, <1>7 DEF TypeOK, SetupPgDumpEnv, ResolveAutoConsistency, DumpReturns, GiveUp, Fail,
                    UnregisterFrom
<1>8. CASE SetupConsistency
  <2>1. /\ life \in 1..MaxLives /\ left' \subseteq left \cup {life}
        /\ token' \in {token, owner, life} /\ owner' \in {owner, life}
        /\ pc' \in {"connect", "dumped"} /\ UNCHANGED <<life, made, registry, http, open, handle, env, bound>>
    BY <1>1, <1>8 DEF SetupConsistency
  <2> QED BY <1>1, <2>1 DEF TypeOK
<1>9. CASE CreateConns
  BY <1>1, <1>9 DEF TypeOK, CreateConns
<1>10. CASE NewTask \/ StatusStep \/ UNCHANGED vars
  BY <1>1, <1>10 DEF TypeOK, NewTask, StatusStep, vars, lifeVars
<1> QED BY <1>3, <1>4, <1>5, <1>6, <1>7, <1>8, <1>9, <1>10 DEF Next

LEMMA LifeStep ==
    ASSUME TypeOK, LifeInv, [Next]_vars PROVE LifeInv'
<1>1. life \in Nat
  BY DEF TypeOK
<1>2. CASE \E o \in Options : Start(o)
  <2>1. \/ NewLife /\ pc = "idle" /\ UNCHANGED registry
        \/ UNCHANGED <<life, pc, made, handle, registry, phase>>
    BY <1>2 DEF Start, Done, statusVars
  <2> QED BY <1>1, <2>1 DEF LifeInv, NewLife, StatusReset, Running, NotDumping
<1>3. CASE StartAgain
  BY <1>1, <1>3 DEF StartAgain, NewLife, Done, StatusReset, LifeInv, Running, NotDumping
<1>4. CASE RegisterTo \/ AdjustConfig \/ InitLoggerAndStore
  <2>1. /\ UNCHANGED <<life, handle, phase>> /\ pc \in {"register", "adjust", "logger"}
        /\ \/ pc = "register" /\ registry # {}
           \/ pc' \in {"adjust", "logger", "http"} /\ UNCHANGED made
           \/ pc' = "failed" /\ made' \in {"nil", "error"} /\ registry' = {}
    BY <1>4 DEF RegisterTo, AdjustConfig, InitLoggerAndStore, Fail, UnregisterFrom, statusVars
  <2> QED BY <2>1 DEF LifeInv, Running, NotDumping
<1>5. CASE StartHTTPService \/ SetupPgDumpEnv \/ DumpReturns \/ GiveUp
  BY <1>5 DEF StartHTTPService, SetupPgDumpEnv, DumpReturns, GiveUp, LifeInv, Running, NotDumping, statusVars
<1>6. CASE OpenSQLDB \/ ResolveAutoConsistency
  <2>1. /\ UNCHANGED <<life, phase>> /\ pc \in {"open", "auto"}
        /\ \/ pc' \in {"env", "session"} /\ UNCHANGED made
           \/ pc' = "failed" /\ made' = "error" /\ registry' = {}
    BY <1>6 DEF OpenSQLDB, ResolveAutoConsistency, Fail, UnregisterFrom, statusVars
  <2> QED BY <2>1 DEF LifeInv, Running, NotDumping
<1>7. CASE SetSessionParam
  <2>1. /\ UNCHANGED <<life, phase>> /\ pc = "session"
        /\ \/ pc' = "made" /\ made' = "ok" /\ handle' = 2
           \/ pc' = "failed" /\ made' = "error" /\ registry' = {}
    BY <1>7 DEF SetSessionParam, Fail, UnregisterFrom, statusVars
  <2> QED BY <2>1 DEF LifeInv, Running, NotDumping
<1>8. CASE SetupConsistency \/ CreateConns
  <2>1. /\ UNCHANGED <<life, made, handle>> /\ pc \in {"made", "connect"}
        /\ pc' \in {"connect", "dumping", "dumped"} /\ (pc' = "connect" => UNCHANGED phase)
    BY <1>8 DEF SetupConsistency, CreateConns
  <2> QED BY <2>1 DEF LifeInv, Running, NotDumping
<1>9. CASE NewTask \/ StatusStep
  <2>1. UNCHANGED <<life, pc, made, handle, registry>> /\ (phase = "off" => phase' = "off")
    BY <1>9 DEF NewTask, StatusStep, lifeVars, newTaskTableData, StatusNext, ProgressReady, SendingFails,
                DumpEnds, CancelDump, TakeTask, WriteBuffer, FinishFile, AttemptFails, WriteInsertFails,
                PipeStops, finishTaskCallBack, ReadSize,
                GetSpeed, ReadReady, ReadEmpty, ReadCompleted, ReadTotal
  <2> QED BY <2>1 DEF LifeInv
<1>10. CASE Close
  <2>1. /\ UNCHANGED <<life, made, handle, phase>> /\ registry' = {}
        /\ (pc = "dumping" /\ pc' = pc) \/ pc' = "idle"
    BY <1>10 DEF Close, UnregisterFrom
  <2> QED BY <2>1 DEF LifeInv, Running, NotDumping
<1>11. CASE UNCHANGED vars
  BY <1>11 DEF vars, statusVars, LifeInv
<1> QED BY <1>2, <1>3, <1>4, <1>5, <1>6, <1>7, <1>8, <1>9, <1>10, <1>11 DEF Next

\* A step that opens no pool.
LEMMA PoolsKept ==
    ASSUME PoolsInv, open' \subseteq open, UNCHANGED life,
           \/ UNCHANGED <<pc, made>>
           \/ pc \in {"register", "adjust", "logger", "http", "open"}
           \/ pc \in {"env", "auto", "session"} /\ pc' \in {"env", "auto", "session", "failed"}
           \/ pc \in Running /\ pc' \in Running
           \/ pc' = "idle" /\ made' # "ok"
    PROVE  PoolsInv'
  BY DEF PoolsInv, Running

LEMMA PoolsStep ==
    ASSUME TypeOK, LifeInv, PoolsInv, [Next]_vars PROVE PoolsInv'
<1>1. life \in Nat /\ \A p \in open : p.life \in Nat /\ p.nth \in {1, 2} /\ p = [life |-> p.life, nth |-> p.nth]
  BY Bounds DEF TypeOK
<1>2. ASSUME NewLife, UNCHANGED open PROVE PoolsInv'
  BY <1>1, <1>2 DEF NewLife, PoolsInv
<1>3. CASE (\E o \in Options : Start(o)) \/ StartAgain
  <2>1. UNCHANGED open /\ (NewLife \/ UNCHANGED <<life, pc, made>>)
    BY <1>3 DEF Start, StartAgain
  <2> QED BY <1>2, <2>1, PoolsKept
<1>4. CASE RegisterTo \/ AdjustConfig \/ InitLoggerAndStore \/ StartHTTPService
  <2>1. UNCHANGED <<life, open>> /\ pc \in {"register", "adjust", "logger", "http"}
    BY <1>4 DEF RegisterTo, AdjustConfig, InitLoggerAndStore, StartHTTPService
  <2> QED BY <2>1, PoolsKept
<1>5. CASE SetupPgDumpEnv \/ ResolveAutoConsistency
  <2>1. UNCHANGED <<life, open>> /\ pc \in {"env", "auto"} /\ pc' \in {"auto", "session", "failed"}
    BY <1>5 DEF SetupPgDumpEnv, ResolveAutoConsistency, Fail
  <2> QED BY <2>1, PoolsKept
<1>6. CASE SetupConsistency \/ CreateConns \/ DumpReturns
  <2>1. UNCHANGED <<life, open>> /\ pc \in Running /\ pc' \in Running
    BY <1>6 DEF SetupConsistency, CreateConns, DumpReturns, Running
  <2> QED BY <2>1, PoolsKept
<1>7. CASE NewTask \/ StatusStep \/ UNCHANGED vars
  BY <1>7, PoolsKept DEF NewTask, StatusStep, lifeVars, vars
<1>8. CASE GiveUp
  BY <1>8, PoolsKept DEF GiveUp, LifeInv, Running
<1>9. CASE OpenSQLDB
  <2>1. CASE open' = open
    BY <1>9, <2>1, PoolsKept DEF OpenSQLDB
  <2>2. CASE open' = open \cup {Pool(1)} /\ pc' = "env"
    <3>1. pc = "open" /\ UNCHANGED life
      BY <1>9 DEF OpenSQLDB
    <3>2. Pool(1).life = life /\ Pool(1).nth = 1
      BY DEF Pool
    <3>3. \A p \in open : p.life <= life /\ p.life # life
      BY <3>1 DEF PoolsInv
    <3> QED BY <1>1, <2>2, <3>1, <3>2, <3>3 DEF PoolsInv, Running
  <2> QED BY <1>9, <2>1, <2>2 DEF OpenSQLDB
<1>10. CASE SetSessionParam
  <2>1. CASE open' = open /\ pc' = "failed"
    BY <1>10, <2>1, PoolsKept DEF SetSessionParam
  <2>2. CASE open' \subseteq (open \ {Pool(1)}) \cup {Pool(2)} /\ pc' = "made"
    <3>1. pc = "session" /\ UNCHANGED life
      BY <1>10 DEF SetSessionParam
    <3>2. Pool(2).life = life /\ Pool(2).nth = 2
      BY DEF Pool
    <3>3. ASSUME NEW p \in open, p # Pool(1) PROVE p.life <= life /\ p.life # life
      BY <1>1, <3>1, <3>3 DEF PoolsInv, Pool
    <3> QED BY <1>1, <2>2, <3>1, <3>2, <3>3 DEF PoolsInv, Running
  <2>3. \/ open' = open /\ pc' = "failed"
        \/ open' \subseteq (open \ {Pool(1)}) \cup {Pool(2)} /\ pc' = "made"
    BY <1>10 DEF SetSessionParam, Fail
  <2> QED BY <2>1, <2>2, <2>3
<1>11. CASE Close
  <2>1. UNCHANGED <<life, made>> /\ open' = open \ {Pool(handle)}
    BY <1>11 DEF Close
  <2>2. CASE pc = "dumping"
    BY <1>11, <2>1, <2>2, PoolsKept DEF Close
  <2>3. CASE pc = "failed"
    BY <1>11, <2>1, <2>3, PoolsKept DEF Close, LifeInv, Running
  <2>4. CASE pc \in {"made", "dumped"}
    <3>1. pc' = "idle" /\ handle = 2
      BY <1>11, <2>4 DEF Close, LifeInv, Running
    <3>2. ASSUME NEW p \in open, p # Pool(2) PROVE p.life <= life /\ p.life # life
      BY <1>1, <2>4, <3>2 DEF PoolsInv, Pool, Running
    <3> QED BY <1>1, <2>1, <3>1, <3>2 DEF PoolsInv, Running
  <2> QED BY <1>11, <2>2, <2>3, <2>4 DEF Close
<1> QED BY <1>3, <1>4, <1>5, <1>6, <1>7, <1>8, <1>9, <1>10, <1>11 DEF Next

LEMMA SharedStep ==
    ASSUME TypeOK, OptionsInv, SharedInv, [Next]_vars PROVE SharedInv'
<1>1. CASE (\E o \in Options : Start(o)) \/ StartAgain
  <2>1. pc' = "register" \/ UNCHANGED <<life, pc, conf, bound, env, token, owner, left>>
    BY <1>1 DEF Start, StartAgain, NewLife
  <2> QED BY <2>1 DEF SharedInv, Exported, Running
<1>2. CASE RegisterTo \/ AdjustConfig \/ InitLoggerAndStore \/ StartHTTPService \/ OpenSQLDB
  <2>1. pc' \in {"panic", "adjust", "logger", "http", "open", "env", "failed"}
    BY <1>2 DEF RegisterTo, AdjustConfig, InitLoggerAndStore, StartHTTPService, OpenSQLDB, Fail
  <2> QED BY <2>1 DEF SharedInv, Exported, Running
<1>3. CASE SetupPgDumpEnv
  BY <1>3 DEF SetupPgDumpEnv, SharedInv
<1>4. CASE ResolveAutoConsistency \/ SetSessionParam
  <2>1. pc \in {"auto", "session"} /\ pc' \in {"session", "made", "failed"} /\ UNCHANGED <<life, env>>
    BY <1>4 DEF ResolveAutoConsistency, SetSessionParam, Fail
  <2> QED BY <2>1 DEF SharedInv, Exported
<1>5. CASE SetupConsistency
  <2>1. pc = "made" /\ pc' \in {"connect", "dumped"} /\ UNCHANGED <<life, env>>
    BY <1>5 DEF SetupConsistency
  <2>2. pc' = "connect" =>
          \/ token' = life
          \/ conf' = conf /\ conf.consistency = "none"
          \/ conf.snapshot = "own" /\ conf' = [conf EXCEPT !.snapshot = @] /\ token' = owner /\ owner \in left
               /\ UNCHANGED <<owner, left>>
    BY <1>5 DEF SetupConsistency
  <2>3. conf' = [conf EXCEPT !.snapshot = @] => conf' = conf
    BY DEF TypeOK, Option
  <2> QED BY <2>1, <2>2, <2>3 DEF SharedInv, Exported, Running
<1>6. CASE CreateConns
  <2>1. pc = "connect" /\ pc' \in {"dumping", "dumped"} /\ UNCHANGED <<life, env, conf, owner, left>>
    BY <1>6 DEF CreateConns
  <2>2. pc' = "dumping" => bound' = IF conf.consistency # "none" THEN token ELSE 0
    BY <1>6 DEF CreateConns
  <2>3. conf.consistency \in {"snapshot", "none"}
    BY <2>1 DEF OptionsInv
  <2> QED BY <2>1, <2>2, <2>3 DEF SharedInv, Exported, Running
<1>7. CASE NewTask \/ StatusStep \/ UNCHANGED vars
  <2>1. UNCHANGED <<life, pc, conf, bound, env, token, owner, left>>
    BY <1>7 DEF NewTask, StatusStep, lifeVars, vars
  <2> QED BY <2>1 DEF SharedInv, Exported
<1>8. CASE DumpReturns \/ Close \/ GiveUp
  <2>1. /\ UNCHANGED <<life, conf, bound, env, token, owner, left>>
        /\ pc' = "idle" \/ (pc = "dumping" /\ pc' \in {"dumping", "dumped"})
    BY <1>8 DEF DumpReturns, Close, GiveUp
  <2> QED BY <2>1 DEF SharedInv, Exported, Running
<1> QED BY <1>1, <1>2, <1>3, <1>4, <1>5, <1>6, <1>7, <1>8 DEF Next
-----------------------------------------------------------------------------
(* The theorems. *)

LEMMA InitIInv == ASSUME Init PROVE IInv
<1>1. StatusInv
  BY StatusInitInv DEF Init
<1>2. TypeOK
  BY <1>1, Bounds, OptionsAssumption DEF Init, TypeOK, StatusInv
<1>3. LifeInv /\ PoolsInv /\ OptionsInv /\ SharedInv
  BY DEF Init, LifeInv, PoolsInv, OptionsInv, SharedInv, Running, NotDumping
<1> QED BY <1>1, <1>2, <1>3 DEF IInv

LEMMA NextIInv == ASSUME IInv, [Next]_vars PROVE IInv'
<1>1. TypeOK /\ StatusInv /\ LifeInv /\ PoolsInv /\ OptionsInv /\ SharedInv
  BY DEF IInv
<1>2. StatusInv'
  BY <1>1, StatusStepInv
<1>3. conf' \in Option /\ OptionsInv'
  BY <1>1, ConfStep
<1>4. TypeOK'
  <2>1. StatusTypeOK'
    BY <1>2 DEF StatusInv
  <2>2. /\ life' \in 0..MaxLives
        /\ pc' \in {"idle", "register", "panic", "adjust", "logger", "http", "open", "env", "auto",
                    "session", "made", "connect", "dumping", "dumped", "failed"}
        /\ made' \in {"none", "nil", "error", "ok"}
        /\ registry' \subseteq 1..MaxLives /\ http' \in {"free", "taken"}
        /\ open' \subseteq [life : 1..MaxLives, nth : {1, 2}]
        /\ handle' \in 0..2 /\ env' \in 0..MaxLives /\ token' \in 0..MaxLives /\ bound' \in 0..MaxLives
        /\ owner' \in 0..MaxLives /\ left' \subseteq 1..MaxLives
    BY <1>1, LifeTypeStep
  <2> QED BY <1>3, <2>1, <2>2 DEF TypeOK
<1>5. LifeInv' /\ PoolsInv'
  BY <1>1, LifeStep, PoolsStep
<1>6. SharedInv'
  BY <1>1, SharedStep
<1> QED BY <1>2, <1>3, <1>4, <1>5, <1>6 DEF IInv

\* The steps of the dumpers of a process, the options, the state that they share and the
\* counts behind GetStatus fit together in every reachable state (NewDumper, Dump, Close).
THEOREM DumperInvariant == Spec => []IInv
<1>1. Init => IInv
  BY InitIInv
<1>2. IInv /\ [Next]_vars => IInv'
  BY NextIInv
<1> QED BY <1>1, <1>2, PTL DEF Spec

\* No dump runs with options that do not fit together, whatever the flags and whether
\* the Config is new or was used before.
THEOREM OptionsAreChecked == Spec => []OptionsFit
<1>1. ASSUME IInv PROVE OptionsFit
  <2>1. OptionsInv /\ LifeInv
    BY <1>1 DEF IInv
  <2> QED BY <2>1 DEF OptionsInv, LifeInv, OptionsFit, Running
<1> QED BY <1>1, DumperInvariant, PTL

\* MustRegister never panics, at whichever step NewDumper failed before.
THEOREM NoPanicOnRegister == Spec => []RegistryFree
<1>1. IInv => RegistryFree
  BY DEF IInv, LifeInv, RegistryFree
<1> QED BY <1>1, DumperInvariant, PTL

\* Close leaves no pool of its dumper open.
THEOREM CloseReleasesPools == Spec => []PoolsReleased
<1>1. IInv => PoolsReleased
  BY DEF IInv, PoolsInv, PoolsReleased
<1> QED BY <1>1, DumperInvariant, PTL

\* A dump uses the environment that its own dumper set up, and no snapshot but its own
\* or, with a Config used before, the one of a slot whose Setup failed behind its creation
\* and left its connection open.
THEOREM NothingOfAnEarlierDumper == Spec => []OwnState
<1>1. ASSUME IInv PROVE OwnState
  <2>1. SharedInv /\ OptionsInv
    BY <1>1 DEF IInv
  <2> QED BY <2>1 DEF SharedInv, OwnState, Exported, OptionsInv, Running
<1> QED BY <1>1, DumperInvariant, PTL

\* The warning of GetStatus about too many completed chunks is dead code.
THEOREM WarningIsDead == Spec => []NeverTooManyChunks
<1>1. ASSUME IInv PROVE NeverTooManyChunks
  <2>1. StatusTypeOK /\ ChunksInv /\ ShownInv
    BY <1>1 DEF IInv, StatusInv
  <2>2. /\ m.totalChunks \in Nat /\ m.completedChunks \in Nat /\ queue \in Nat
        /\ Cardinality(Busy) \in Nat
    BY <2>1, MetricsType, Bounds, Finite
  <2>3. m.completedChunks <= m.totalChunks
    BY <2>1, <2>2 DEF ChunksInv
  <2>4. \A r \in Readers : call[r].completed \in Nat
    BY <2>1, Bounds DEF StatusTypeOK
  <2> QED BY <2>1, <2>2, <2>3, <2>4 DEF ShownInv, NeverTooManyChunks
<1> QED BY <1>1, DumperInvariant, PTL

\* The speeds count once what a failed attempt took back and another wrote again, for
\* every number of writers, files and attempts; they count twice only what failed
\* attempts left in the gauge.
THEOREM RevertedBytesOnce == Spec => []RevertedBytesCountOnce
<1>1. ASSUME IInv PROVE RevertedBytesCountOnce
  <2>1. SizesInv
    BY <1>1 DEF IInv, StatusInv
  <2> QED BY <2>1 DEF SizesInv, RevertedBytesCountOnce
<1> QED BY <1>1, DumperInvariant, PTL

\* The progress that a reader of GetStatus sees never goes down during a dump.
THEOREM ProgressIsMonotone == Spec => ProgressNeverFalls
<1>1. ASSUME IInv, [Next]_vars PROVE [life' = life => ProgressGrows]_vars
  <2>1. StatusInv /\ LifeInv
    BY <1>1 DEF IInv
  <2>2. life' = life => ProgressGrows
    BY <1>1, <2>1, StatusStepInv
  <2> QED BY <2>2
<1> QED BY <1>1, DumperInvariant, PTL DEF Spec, ProgressNeverFalls
=============================================================================
