------------------------- MODULE ChunkWriterProofs -------------------------
(***************************************************************************)
(* The files of a chunk that was written hold its rows, can be loaded and  *)
(* have the right sizes, for every result, configuration, buffer, channel  *)
(* and number of attempts and errors.                                      *)
(***************************************************************************)
EXTENDS ChunkWriter, Induction

-----------------------------------------------------------------------------
(* Sequences of pieces. *)

LEMMA PieceType == FileHead \in Pieces /\ InsertPrefix \in Pieces
  BY DEF FileHead, InsertPrefix, Piece, Pieces

LEMMA RowOfType == ASSUME NEW p \in Pieces PROVE RowOf(p) \in Seq(Nat)
  BY DEF RowOf, Pieces

Rows(content) == [i \in DOMAIN content |-> RowOf(content[i])]

LEMMA RowsType == ASSUME NEW c \in Seq(Pieces) PROVE Rows(c) \in Seq(Seq(Nat)) /\ Len(Rows(c)) = Len(c)
<1>1. DOMAIN c = 1..Len(c) /\ Len(c) \in Nat
  OBVIOUS
<1>2. \A i \in 1..Len(c) : RowOf(c[i]) \in Seq(Nat)
  BY RowOfType, ElementOfSeq
<1>3. PICK T : T = Seq(Nat)
  OBVIOUS
<1>4. [i \in 1..Len(c) |-> RowOf(c[i])] \in Seq(T)
  BY <1>1, <1>2, <1>3, IsASeq
<1>5. Len([i \in 1..Len(c) |-> RowOf(c[i])]) = Len(c)
  BY <1>1
<1> QED BY <1>1, <1>3, <1>4, <1>5 DEF Rows

LEMMA RowsInType == ASSUME NEW c \in Seq(Pieces) PROVE RowsIn(c) \in Seq(Nat)
  BY RowsType, FlattenType, Zenon DEF RowsIn, Rows

LEMMA RowsInEmpty == RowsIn(<<>>) = <<>>
<1>1. Rows(<<>>) = <<>>
  BY DEF Rows
<1> QED BY <1>1, FlattenEmpty, Zenon DEF RowsIn, Rows

LEMMA RowsInAppend ==
    ASSUME NEW c \in Seq(Pieces), NEW p \in Pieces
    PROVE  RowsIn(Append(c, p)) = RowsIn(c) \o RowOf(p)
<1>1. Rows(Append(c, p)) = Append(Rows(c), RowOf(p))
  <2>1. PICK T : T = Seq(Nat)
    OBVIOUS
  <2>2. PICK d \in Seq(Pieces) : d = Append(c, p)
    BY AppendProperties, Zenon
  <2>3. PICK r \in T : r = RowOf(p)
    BY <2>1, RowOfType
  <2>4. PICK s \in Seq(T) : s = Rows(c) /\ Len(s) = Len(c)
    BY <2>1, RowsType, Zenon
  <2>5. Len(d) = Len(c) + 1 /\ d[Len(c) + 1] = p /\ \A i \in 1..Len(c) : d[i] = c[i]
    BY <2>2
  <2>6. PICK u \in Seq(T) : u = Rows(d) /\ Len(u) = Len(c) + 1
    BY <2>1, <2>5, RowsType, Zenon
  <2>7. PICK v \in Seq(T) : v = Append(s, r)
    BY AppendProperties, Zenon
  <2>8. Len(v) = Len(c) + 1 /\ v[Len(c) + 1] = r /\ \A i \in 1..Len(c) : v[i] = s[i]
    BY <2>4, <2>7, AppendProperties
  <2>9. ASSUME NEW i \in 1..Len(u) PROVE u[i] = v[i]
    <3>1. u[i] = RowOf(d[i])
      BY <2>5, <2>6 DEF Rows
    <3>2. CASE i = Len(c) + 1
      BY <2>3, <2>5, <2>8, <3>1, <3>2
    <3>3. CASE i # Len(c) + 1
      <4>1. i \in 1..Len(c)
        BY <2>6, <3>3
      <4>2. s[i] = RowOf(c[i])
        BY <2>4, <4>1 DEF Rows
      <4> QED BY <2>5, <2>8, <3>1, <4>1, <4>2
    <3> QED BY <3>2, <3>3
  <2>10. u = v
    BY <2>6, <2>8, <2>9, SeqEqual
  <2> QED BY <2>2, <2>3, <2>4, <2>6, <2>7, <2>10, Zenon
<1>2. FlattenSeq(Append(Rows(c), RowOf(p))) = FlattenSeq(Rows(c)) \o RowOf(p)
  BY RowsType, RowOfType, FlattenAppend, Zenon
<1> QED BY <1>1, <1>2, Zenon DEF RowsIn, Rows

\* A file goes on.
LEMMA WellFormedAppend ==
    ASSUME NEW c \in Seq(Pieces), NEW p \in Pieces, WellFormed(c), MayFollow(LastOf(c), p.what)
    PROVE  WellFormed(Append(c, p)) /\ LastOf(Append(c, p)) = p.what
<1>1. PICK d \in Seq(Pieces) : d = Append(c, p)
  BY AppendProperties, Zenon
<1>2. Len(d) = Len(c) + 1 /\ d[Len(d)] = p /\ d # <<>> /\ \A i \in 1..Len(c) : d[i] = c[i]
  BY <1>1
<1>3. Len(c) \in Nat /\ Len(c) >= 1
  BY DEF WellFormed
<1>4. d[1] = FileHead
  BY <1>2, <1>3 DEF WellFormed
<1>5. ASSUME NEW i \in 1..(Len(d) - 1) PROVE MayFollow(d[i].what, d[i + 1].what)
  <2>1. CASE i = Len(c)
    BY <1>2, <1>3, <2>1 DEF LastOf
  <2>2. CASE i # Len(c)
    <3>1. i \in 1..(Len(c) - 1) /\ i \in 1..Len(c) /\ i + 1 \in 1..Len(c)
      BY <1>2, <1>3, <2>2
    <3> QED BY <1>2, <3>1 DEF WellFormed
  <2> QED BY <2>1, <2>2
<1> QED BY <1>1, <1>2, <1>4, <1>5 DEF WellFormed, LastOf

LEMMA FrontAppend ==
    ASSUME NEW X, NEW c \in Seq(X), NEW p \in X PROVE Front(Append(c, p)) = c
  BY DEF Front

\* A sequence that is not empty ends with its last element.
LEMMA SplitLast ==
    ASSUME NEW X, NEW c \in Seq(X), c # <<>>
    PROVE  \E d \in Seq(X), p \in X : c = Append(d, p) /\ p = c[Len(c)]
<1>1. PICK d \in Seq(X), p \in X : c = Append(d, p)
  BY SequenceEmptyOrAppend
<1> QED BY <1>1
-----------------------------------------------------------------------------
(* The sizes of a file with its first rows, and the rows of a full file. *)

Sizes == Nat \X Nat

LEMMA SizeStepType ==
    ASSUME NEW c \in Config, NEW n \in Nat, NEW z \in Sizes PROVE SizeStep(c, n, z[1], z[2]) \in Sizes
  BY DEF SizeStep, Sizes

LEMMA SizesDef ==
    ASSUME NEW c \in Config
    PROVE  /\ SizesAfter(c, 0) = <<1, 0>>
           /\ \A n \in Nat :
                /\ SizesAfter(c, n) \in Sizes
                /\ SizesAfter(c, n + 1) =
                     SizeStep(c, n, SizesAfter(c, n)[1], SizesAfter(c, n)[2])
<1> DEFINE Defines(d) ==
               d = [n \in Nat |-> IF n = 0 THEN <<1, 0>>
                                  ELSE SizeStep(c, n - 1, d[n - 1][1], d[n - 1][2])]
           s == CHOOSE d : Defines(d)
<1>1. \E d : Defines(d)
  <2>1. PICK a \in Sizes : a = <<1, 0>>
    BY DEF Sizes
  <2>2. PICK g \in [Nat -> [Sizes -> Sizes]] :
            \A n \in Nat : \A z \in Sizes : g[n][z] = SizeStep(c, n, z[1], z[2])
    <3>1. [n \in Nat |-> [z \in Sizes |-> SizeStep(c, n, z[1], z[2])]] \in [Nat -> [Sizes -> Sizes]]
      BY SizeStepType, Zenon
    <3> QED BY <3>1
  <2>3. PICK e \in [Nat -> Sizes] : Recurses(e, a, g)
    BY Recursion, Zenon
  <2>4. ASSUME NEW n \in Nat
        PROVE  e[n] = IF n = 0 THEN <<1, 0>> ELSE SizeStep(c, n - 1, e[n - 1][1], e[n - 1][2])
    <3>1. CASE n = 0
      BY <2>1, <2>3, <3>1 DEF Recurses
    <3>2. CASE n # 0
      <4>1. n - 1 \in Nat /\ (n - 1) + 1 = n /\ e[n - 1] \in Sizes
        BY <3>2
      <4>2. e[(n - 1) + 1] = g[n - 1][e[n - 1]]
        BY <2>3, <4>1 DEF Recurses
      <4> QED BY <2>2, <3>2, <4>1, <4>2
    <3> QED BY <3>1, <3>2
  <2>5. e = [n \in Nat |-> e[n]]
    OBVIOUS
  <2>6. Defines(e)
    BY <2>4, <2>5
  <2> QED BY <2>6
<1>2. Defines(s)
  <2> HIDE DEF Defines
  <2> QED BY <1>1
<1>3. \A n \in Nat : SizesAfter(c, n) = s[n]
  BY DEF SizesAfter
<1> HIDE DEF s
<1>4. s[0] = <<1, 0>>
  BY <1>2
<1>5. ASSUME NEW n \in Nat PROVE s[n + 1] = SizeStep(c, n, s[n][1], s[n][2])
  <2>1. n + 1 \in Nat /\ n + 1 # 0 /\ (n + 1) - 1 = n
    OBVIOUS
  <2>2. s[n + 1] = IF n + 1 = 0 THEN <<1, 0>>
                   ELSE SizeStep(c, (n + 1) - 1, s[(n + 1) - 1][1], s[(n + 1) - 1][2])
    BY <1>2, <2>1
  <2> QED BY <2>1, <2>2
<1> DEFINE E == {n \in Nat : s[n] \in Sizes}
<1>6. \A n \in Nat : n \in E
  <2>1. 0 \in E
    BY <1>4 DEF Sizes
  <2>2. ASSUME NEW n \in Nat, n \in E PROVE n + 1 \in E
    <3>1. SizeStep(c, n, s[n][1], s[n][2]) \in Sizes
      BY <2>2, SizeStepType
    <3> QED BY <1>5, <3>1
  <2> HIDE DEF E
  <2> QED BY <2>1, <2>2, SetInduction
<1>7. \A n \in Nat : s[n] \in Sizes
  BY <1>6
<1>8. SizesAfter(c, 0) = <<1, 0>>
  BY <1>3, <1>4
<1>9. ASSUME NEW n \in Nat
      PROVE  /\ SizesAfter(c, n) \in Sizes
             /\ SizesAfter(c, n + 1) =
                  SizeStep(c, n, SizesAfter(c, n)[1], SizesAfter(c, n)[2])
  <2>1. n + 1 \in Nat
    OBVIOUS
  <2>2. SizesAfter(c, n) = s[n] /\ SizesAfter(c, n + 1) = s[n + 1]
    BY <1>3, <2>1
  <2> QED BY <1>5, <1>7, <2>2
<1> QED BY <1>8, <1>9

\* A file is full after RowsPerFile rows and not before.
LEMMA RowsPerFileProperties ==
    ASSUME NEW c \in Config
    PROVE  /\ RowsPerFile(c) \in Nat \ {0}
           /\ \A n \in 1..Len(Result) :
                /\ n < RowsPerFile(c) => ~FullAfter(c, n)
                /\ n = RowsPerFile(c) => FullAfter(c, n)
           /\ c.FileSize = 0 => RowsPerFile(c) = Len(Result) + 1
<1> DEFINE full == {n \in 1..Len(Result) : FullAfter(c, n)}
<1>1. Len(Result) \in Nat
  BY ConstantsAssumption
<1>2. RowsPerFile(c) = IF full = {} THEN Len(Result) + 1 ELSE Min(full)
  BY DEF RowsPerFile
<1>3. c.FileSize = 0 => full = {}
  BY DEF FullAfter
<1>4. CASE full = {}
  BY <1>1, <1>2, <1>4
<1>5. CASE full # {}
  <2>1. full \in SUBSET Nat
    OBVIOUS
  <2>2. PICK m \in full : \A k \in full : m <= k
    <3> HIDE DEF full
    <3> QED BY <1>5, <2>1, LeastElement
  <2>3. Min(full) \in full /\ \A k \in full : Min(full) <= k
    <3> HIDE DEF full
    <3> QED BY <2>2 DEF Min
  <2>4. RowsPerFile(c) \in full /\ \A k \in full : RowsPerFile(c) <= k
    BY <1>2, <1>5, <2>3
  <2> QED BY <1>1, <1>3, <1>5, <2>4
<1> QED BY <1>4, <1>5
-----------------------------------------------------------------------------
(* Types. *)

LEMMA Results == Len(Result) \in Nat /\ \A i \in 1..Len(Result) : Result[i] \in Nat \ {0}
  BY ConstantsAssumption

LEMMA ConfType ==
    ASSUME TypeOK
    PROVE  /\ conf \in Config /\ conf.format \in {"sql", "csv"}
           /\ conf.FileSize \in Nat /\ conf.StatementSize \in Nat
  BY ConstantsAssumption DEF TypeOK, CallType, Config

LEMMA ContentType ==
    /\ <<>> \in Content
    /\ \A p \in Pieces : <<p>> \in Content
    /\ \A c \in Content, p \in Pieces : Append(c, p) \in Content
    /\ \A c \in Content, d \in Content : c \o d \in Content
    /\ \A c \in Content : Len(c) \in Nat
  BY DEF Content

LEMMA SetFileProperties ==
    ASSUME files \in Seq(Content), idx \in Nat \ {0}, idx <= Len(files) + 1,
           NEW c \in Content, SetFile(c)
    PROVE  /\ files' \in Seq(Content)
           /\ Len(files') = (IF idx <= Len(files) THEN Len(files) ELSE idx)
           /\ files'[idx] = c /\ \A k \in 1..Len(files) : k # idx => files'[k] = files[k]
<1>1. CASE idx <= Len(files)
  <2>1. idx \in 1..Len(files) /\ files' = [files EXCEPT ![idx] = c]
    BY <1>1 DEF SetFile
  <2>2. /\ files' \in Seq(Content) /\ Len(files') = Len(files)
        /\ \A k \in 1..Len(files) : files'[k] = IF k = idx THEN c ELSE files[k]
    BY <2>1, ExceptSeq
  <2> QED BY <1>1, <2>1, <2>2
<1>2. CASE ~(idx <= Len(files))
  <2>1. Len(files) \in Nat /\ idx = Len(files) + 1 /\ files' = Append(files, c)
    BY <1>2 DEF SetFile
  <2>2. /\ files' \in Seq(Content) /\ Len(files') = Len(files) + 1 /\ files'[Len(files) + 1] = c
        /\ \A k \in 1..Len(files) : files'[k] = files[k]
    BY <2>1, AppendProperties
  <2> QED BY <1>2, <2>1, <2>2
<1> QED BY <1>1, <1>2

LEMMA BeforeType ==
    ASSUME TypeOK, opened => idx <= Len(files) PROVE Before \in Content
<1>1. CASE opened
  <2>1. idx \in 1..Len(files) /\ files \in Seq(Content)
    BY <1>1 DEF TypeOK, CallType, OutputType
  <2>2. files[idx] \in Content
    BY <2>1, ElementOfSeq
  <2> QED BY <1>1, <2>2 DEF Before
<1>2. CASE ~opened
  BY <1>2, ContentType DEF Before
<1> QED BY <1>1, <1>2

LEMMA Bounds ==
    /\ PipeCap \in Nat \ {0} /\ MaxAttempts \in Nat \ {0} /\ BufLimit \in Nat \ {0}
    /\ MaxFaults \in Nat
  BY ConstantsAssumption

\* A write of the pipe creates or extends the current file, and leaves the others alone.
LEMMA PipeWriteFiles ==
    ASSUME TypeOK, ControlInv, PipeWrite
    PROVE  /\ files' \in Seq(Content)
           /\ idx <= Len(files) => Len(files') = Len(files)
           /\ idx > Len(files) => Len(files') \in {Len(files), idx}
           /\ opened' => idx <= Len(files')
           /\ \A k \in 1..Len(files) : k # idx => files'[k] = files[k]
           /\ ~errOccurs' => opened' /\ files'[idx] = Before \o pbuf
<1>1. opened => idx <= Len(files)
  BY DEF PipeWrite, ControlInv
<1>2. Before \in Content /\ Before \o pbuf \in Content
  BY <1>1, BeforeType, ContentType DEF TypeOK, PipeType
<1>3. files \in Seq(Content) /\ idx \in Nat \ {0} /\ idx <= Len(files) + 1 /\ Len(files) \in Nat
  BY DEF TypeOK, OutputType, CallType, ControlInv
<1>4. ASSUME NEW c \in Content, SetFile(c)
      PROVE  /\ files' \in Seq(Content)
             /\ idx <= Len(files) => Len(files') = Len(files)
             /\ idx > Len(files) => Len(files') \in {Len(files), idx}
             /\ idx <= Len(files')
             /\ \A k \in 1..Len(files) : k # idx => files'[k] = files[k]
             /\ files'[idx] = c
  <2>1. /\ files' \in Seq(Content)
        /\ Len(files') = (IF idx <= Len(files) THEN Len(files) ELSE idx)
        /\ files'[idx] = c /\ \A k \in 1..Len(files) : k # idx => files'[k] = files[k]
    BY <1>3, <1>4, SetFileProperties, Zenon
  <2> QED BY <1>3, <2>1
<1>5. CASE SetFile(Before \o pbuf) /\ opened'
  <2>1. PICK c \in Content : c = Before \o pbuf
    BY <1>2
  <2> QED BY <1>4, <1>5, <2>1, Zenon
<1>6. CASE SetFile(Before) /\ errOccurs' = TRUE
  BY <1>2, <1>4, <1>6, Zenon
<1>7. CASE UNCHANGED <<files, opened>> /\ errOccurs' = TRUE
  BY <1>1, <1>3, <1>7
<1> QED BY <1>5, <1>6, <1>7, Zenon DEF PipeWrite

LEMMA FaultType == ASSUME faults \in 0..MaxFaults, Fault PROVE faults' \in 0..MaxFaults
  BY Bounds DEF Fault

\* The end of the last row of the buffer.
LEMMA EndRowType ==
    ASSUME bf \in Content, NEW w \in {"comma", "semicolon"}
    PROVE  [bf EXCEPT ![Len(bf)].what = w] \in Content
<1>1. CASE bf = <<>>
  <2>1. [bf EXCEPT ![Len(bf)].what = w] = <<>>
    BY <1>1
  <2> QED BY <2>1, ContentType
<1>2. CASE bf # <<>>
  <2>1. bf \in Seq(Pieces) /\ Len(bf) \in 1..Len(bf)
    BY <1>2 DEF Content
  <2>2. bf[Len(bf)] \in Pieces
    BY <2>1, ElementOfSeq
  <2>3. [bf[Len(bf)] EXCEPT !.what = w] \in Pieces
    BY <2>2 DEF Pieces
  <2>4. PICK q \in Pieces : q = [bf[Len(bf)] EXCEPT !.what = w]
    BY <2>3
  <2>5. [bf EXCEPT ![Len(bf)] = q] \in Seq(Pieces)
    BY <2>1, ExceptSeq
  <2> QED BY <2>4, <2>5 DEF Content
<1> QED BY <1>1, <1>2

LEMMA CallTypeStep ==
    ASSUME TypeOK, [Next]_vars PROVE CallType'
<1> USE DEF TypeOK, CallType
<1>1. CASE StartQuery
  <2>1. faults' \in 0..MaxFaults
    BY <1>1, FaultType, Zenon DEF StartQuery, Fails
  <2>2. pc' \in {"open", "failed"} /\ err' \in {"nil", "query"}
    BY <1>1, Zenon DEF StartQuery
  <2>3. pos' = 1 /\ rowsErr' \in BOOLEAN /\ idx' = 1 /\ UNCHANGED <<conf, ctxDone, tries>>
    BY <1>1, Zenon DEF StartQuery
  <2> QED BY <2>1, <2>2, <2>3 DEF Errors
<1>2. CASE OpenFile
  BY <1>2 DEF OpenFile, Errors, env
<1>3. CASE BeginStatement
  BY <1>3 DEF BeginStatement, env
<1>4. CASE EncodeRow
  BY <1>4, FaultType DEF EncodeRow, Errors
<1>5. CASE NextRow
  <2>1. faults' \in 0..MaxFaults /\ rowsErr' \in BOOLEAN
    BY <1>5, FaultType, Zenon DEF NextRow
  <2>2. pc' \in {"send", "flush", "statement", "row"}
    BY <1>5, Zenon DEF NextRow, Continue
  <2>3. pos' \in Nat \ {0} /\ UNCHANGED <<conf, ctxDone, err, tries, idx>>
    BY <1>5 DEF NextRow
  <2> QED BY <2>1, <2>2, <2>3
<1>6. CASE SendBuffer
  BY <1>6 DEF SendBuffer, AfterSend, Continue, env, Errors, PipeType
<1>7. CASE FlushBuffer
  BY <1>7 DEF FlushBuffer, env
<1>8. CASE DrainPipe
  BY <1>8 DEF DrainPipe, env, Errors, PipeType
<1>9. CASE RevertMetrics
  BY <1>9 DEF RevertMetrics, env
<1>10. CASE StopPipe
  BY <1>10 DEF StopPipe, env
<1>11. CASE JoinPipe
  BY <1>11 DEF JoinPipe, env
<1>12. CASE CloseFile
  BY <1>12, FaultType DEF CloseFile, Errors
<1>13. CASE Retry
  BY <1>13, Bounds DEF Retry, env
<1>14. CASE PipeReceive \/ PipeExit \/ PipeAddGauge \/ PipeCount
  BY <1>14 DEF PipeReceive, PipeExit, PipeAddGauge, PipeCount, env, call
<1>15. CASE PipeWrite
  BY <1>15, FaultType DEF PipeWrite, call
<1>16. CASE Cancel
  BY <1>16 DEF Cancel, call
<1>17. CASE UNCHANGED vars
  BY <1>17 DEF vars, env, call
<1> QED BY <1>1, <1>2, <1>3, <1>4, <1>5, <1>6, <1>7, <1>8, <1>9, <1>10, <1>11, <1>12, <1>13,
           <1>14, <1>15, <1>16, <1>17 DEF Next, CallStep, PipeStep

LEMMA BufferTypeStep ==
    ASSUME TypeOK, IteratorInv, [Next]_vars PROVE BufferType'
<1> USE DEF BufferType
<1>0. BufferType
  BY DEF TypeOK
<1>1. CASE OpenFile
  <2>1. <<FileHead>> \in Content
    BY PieceType, ContentType
  <2> QED BY <1>0, <1>1, <2>1 DEF OpenFile, buffer
<1>2. CASE BeginStatement
  BY <1>0, <1>2, PieceType, ContentType DEF BeginStatement
<1>3. CASE EncodeRow
  <2>1. pos \in 1..Len(Result)
    BY <1>3, Results DEF EncodeRow, IteratorInv, HasNext, TypeOK, CallType
  <2>2. RowPiece(Result[pos], "line") \in Pieces
    BY <2>1, Results DEF RowPiece, Piece, Pieces
  <2>3. Append(bf, RowPiece(Result[pos], "line")) \in Content
    BY <1>0, <2>2, ContentType
  <2>4. CASE bf' = Append(bf, RowPiece(Result[pos], "line")) /\ counter' = counter + 1
    <3>1. bf' \in Content /\ counter' \in Nat /\ counter' = counter + 1 /\ UNCHANGED lastCounter
      BY <1>0, <1>3, <2>3, <2>4 DEF EncodeRow
    <3>2. fileSize' \in Nat /\ statementSize' \in Nat
      BY <1>0, <1>3 DEF EncodeRow, buffer
    <3> QED BY <1>0, <3>1, <3>2
  <2>5. CASE UNCHANGED buffer
    BY <1>0, <2>5 DEF buffer
  <2> QED BY <1>3, <2>4, <2>5 DEF EncodeRow
<1>4. CASE NextRow
  BY <1>0, <1>4, EndRowType DEF NextRow
<1>5. CASE SendBuffer
  BY <1>0, <1>5, ContentType DEF SendBuffer
<1>6. CASE FlushBuffer
  BY <1>0, <1>6, ContentType DEF FlushBuffer
<1>7. CASE DrainPipe
  BY <1>0, <1>7 DEF DrainPipe
<1>8. CASE StartQuery \/ RevertMetrics \/ StopPipe \/ JoinPipe \/ CloseFile \/ Retry
  BY <1>0, <1>8 DEF StartQuery, RevertMetrics, StopPipe, JoinPipe, CloseFile, Retry, buffer
<1>9. CASE PipeStep \/ Cancel \/ UNCHANGED vars
  BY <1>0, <1>9 DEF PipeStep, PipeReceive, PipeExit, PipeWrite, PipeAddGauge, PipeCount, Cancel,
                    vars, buffer
<1> QED BY <1>1, <1>2, <1>3, <1>4, <1>5, <1>6, <1>7, <1>8, <1>9 DEF Next, CallStep

LEMMA PipeTypeStep ==
    ASSUME TypeOK, [Next]_vars PROVE PipeType'
<1>0. PipeType /\ BufferType
  BY DEF TypeOK
<1>1. CASE OpenFile
  <2>1. <<>> \in Seq(Content) /\ Len(<<>>) <= PipeCap
    BY Bounds
  <2> QED BY <1>0, <1>1, <2>1, ContentType DEF OpenFile, pipe, PipeType
<1>2. CASE SendBuffer \/ FlushBuffer
  <2>1. input' \in Seq(Content) /\ Len(input') <= PipeCap
    <3>1. CASE input' = Append(input, bf) /\ Len(input) < PipeCap
      <4>1. input \in Seq(Content) /\ bf \in Content
        BY <1>0 DEF PipeType, BufferType
      <4>2. Append(input, bf) \in Seq(Content) /\ Len(Append(input, bf)) = Len(input) + 1
        BY <4>1, AppendProperties
      <4> QED BY <3>1, <4>1, <4>2, Bounds
    <3>2. CASE UNCHANGED input
      BY <1>0, <3>2 DEF PipeType
    <3> QED BY <1>2, <3>1, <3>2 DEF SendBuffer, FlushBuffer
  <2>2. errCh' \in {<<>>, <<"write">>}
    <3>1. CASE UNCHANGED errCh
      BY <1>0, <3>1 DEF PipeType
    <3>2. CASE errCh # <<>> /\ errCh' = Tail(errCh)
      <4>1. errCh = <<"write">>
        BY <1>0, <3>2 DEF PipeType
      <4>2. Tail(<<"write">>) = <<>>
        OBVIOUS
      <4> QED BY <3>2, <4>1, <4>2
    <3> QED BY <1>2, <3>1, <3>2 DEF SendBuffer, FlushBuffer
  <2> QED BY <1>0, <1>2, <2>1, <2>2 DEF SendBuffer, FlushBuffer, PipeType
<1>3. CASE StopPipe
  BY <1>0, <1>3 DEF StopPipe, PipeType
<1>4. CASE CloseFile
  BY <1>0, <1>4 DEF CloseFile, PipeType
<1>5. CASE PipeReceive
  <2>1. input \in Seq(Content) /\ input # <<>> /\ input' = Tail(input) /\ Len(input) <= PipeCap
    BY <1>0, <1>5 DEF PipeReceive, PipeType
  <2>2. Head(input) \in Content /\ Tail(input) \in Seq(Content) /\ Len(Tail(input)) = Len(input) - 1
    BY <2>1, HeadTailProperties
  <2>3. input' \in Seq(Content) /\ Len(input') <= PipeCap
    BY <2>1, <2>2, Bounds
  <2> QED BY <1>0, <1>5, <2>2, <2>3 DEF PipeReceive, PipeType
<1>6. CASE PipeExit
  BY <1>0, <1>6 DEF PipeExit, PipeType
<1>7. CASE PipeWrite
  BY <1>0, <1>7 DEF PipeWrite, PipeType
<1>8. CASE PipeAddGauge
  BY <1>0, <1>8 DEF PipeAddGauge, PipeType
<1>9. CASE PipeCount
  BY <1>0, <1>9, ContentType DEF PipeCount, PipeType
<1>10. CASE \/ StartQuery \/ BeginStatement \/ EncodeRow \/ NextRow \/ DrainPipe \/ RevertMetrics
            \/ JoinPipe \/ Retry \/ Cancel \/ UNCHANGED vars
  BY <1>0, <1>10 DEF StartQuery, BeginStatement, EncodeRow, NextRow, DrainPipe, RevertMetrics,
                     JoinPipe, Retry, Cancel, vars, pipe, PipeType
<1> QED BY <1>1, <1>2, <1>3, <1>4, <1>5, <1>6, <1>7, <1>8, <1>9, <1>10
        DEF Next, CallStep, PipeStep

LEMMA OutputTypeStep ==
    ASSUME TypeOK, ControlInv, [Next]_vars PROVE OutputType'
<1>0. OutputType
  BY DEF TypeOK
<1>1. CASE OpenFile
  BY <1>0, <1>1 DEF OpenFile, OutputType
<1>2. CASE SendBuffer \/ DrainPipe \/ RevertMetrics
  BY <1>0, <1>2 DEF SendBuffer, DrainPipe, RevertMetrics, OutputType, TypeOK, BufferType, PipeType
<1>3. CASE PipeWrite
  <2>1. files' \in Seq(Content)
    BY <1>3, PipeWriteFiles
  <2> QED BY <1>0, <1>3, <2>1 DEF PipeWrite, OutputType
<1>4. CASE PipeAddGauge
  BY <1>0, <1>4, ContentType DEF PipeAddGauge, OutputType, TypeOK, PipeType
<1>5. CASE \/ StartQuery \/ BeginStatement \/ EncodeRow \/ NextRow \/ FlushBuffer \/ StopPipe
           \/ JoinPipe \/ CloseFile \/ Retry \/ PipeReceive \/ PipeExit \/ PipeCount
           \/ Cancel \/ UNCHANGED vars
  BY <1>0, <1>5 DEF StartQuery, BeginStatement, EncodeRow, NextRow, FlushBuffer, StopPipe, JoinPipe,
                    CloseFile, Retry, PipeReceive, PipeExit, PipeCount, Cancel, vars, output,
                    OutputType
<1> QED BY <1>1, <1>2, <1>3, <1>4, <1>5 DEF Next, CallStep, PipeStep

LEMMA TypeStep ==
    ASSUME TypeOK, ControlInv, IteratorInv, [Next]_vars PROVE TypeOK'
  BY CallTypeStep, BufferTypeStep, PipeTypeStep, OutputTypeStep, Zenon DEF TypeOK
-----------------------------------------------------------------------------
(* Control, iterator, sizes and places. *)

\* A file that counts as written holds all that was sent to it.
LEMMA FileWritten ==
    ASSUME TypeOK, ControlInv, StreamInv, pc \in {"stop", "join", "close"}, err = "nil", pst # "none"
    PROVE  /\ opened /\ idx \in 1..Len(files) /\ Loadable(files[idx]) /\ Len(files[idx]) = fileSize
           /\ RowsIn(DoneContent \o files[idx]) = SubSeq(Result, 1, Taken)
<1>1. Intact /\ pst = "exited" /\ input = <<>> /\ bf = <<>>
  BY DEF ControlInv, Intact
<1>2. opened => idx <= Len(files)
  BY DEF ControlInv
<1>3. Before \in Content
  BY <1>2, BeforeType
<1>4. Stream = Before
  <2>1. Writing = <<>> /\ FlattenSeq(input) = <<>>
    BY <1>1, FlattenEmpty DEF Writing
  <2>2. (Before \o <<>>) \o (<<>> \o <<>>) = Before
    BY <1>3 DEF Content
  <2> QED BY <1>1, <2>1, <2>2, Zenon DEF Stream
<1>5. ~Pending
  BY DEF Pending
<1>6. /\ Len(Before) = fileSize /\ WellFormed(Before) /\ LastOf(Before) \in Ends
      /\ RowsIn(DoneContent \o Before) = SubSeq(Result, 1, Taken)
  BY <1>1, <1>4, <1>5, Zenon DEF StreamInv
<1>7. opened /\ Before = files[idx]
  <2>1. Before # <<>>
    BY <1>6, Zenon DEF WellFormed
  <2> QED BY <2>1, Zenon DEF Before
<1>8. Ends = {"line"} \/ Ends = {"semicolon"}
  BY DEF Ends
<1>9. Loadable(Before)
  BY <1>6, <1>8 DEF Loadable, MayFollow
<1>10. idx \in 1..Len(files)
  BY <1>2, <1>7 DEF TypeOK, CallType, OutputType
<1> QED BY <1>6, <1>7, <1>9, <1>10

LEMMA ControlStep ==
    ASSUME TypeOK, ControlInv, StreamInv, [Next]_vars PROVE ControlInv'
<1>0. /\ idx \in Nat \ {0} /\ errCh \in {<<>>, <<"write">>} /\ Len(files) \in Nat
      /\ conf.FileSize \in Nat
  BY ConfType DEF TypeOK, CallType, PipeType, OutputType
<1>1. CASE StartQuery
  BY <1>0, <1>1 DEF StartQuery, ControlInv, Feeding, buffer, pipe, output
<1>2. CASE OpenFile
  BY <1>0, <1>2 DEF OpenFile, ControlInv, Feeding, buffer, pipe, env
<1>3. CASE BeginStatement
  BY <1>0, <1>3 DEF BeginStatement, ControlInv, Feeding, env, pipe, output
<1>4. CASE EncodeRow
  BY <1>0, <1>4 DEF EncodeRow, ControlInv, Feeding, pipe, output, buffer
<1>5. CASE NextRow
  BY <1>0, <1>5 DEF NextRow, Continue, ControlInv, Feeding, pipe, output
<1>6. CASE SendBuffer
  BY <1>0, <1>6 DEF SendBuffer, AfterSend, Continue, ControlInv, Feeding, env
<1>7. CASE FlushBuffer
  BY <1>0, <1>7 DEF FlushBuffer, ControlInv, Feeding, env, output
<1>8. CASE DrainPipe
  BY <1>0, <1>8 DEF DrainPipe, ControlInv, Feeding, env, pipe
<1>9. CASE RevertMetrics
  BY <1>0, <1>9 DEF RevertMetrics, ControlInv, Feeding, env, buffer, pipe
<1>10. CASE StopPipe
  BY <1>0, <1>10 DEF StopPipe, ControlInv, Feeding, env, buffer, output
<1>11. CASE JoinPipe
  BY <1>0, <1>11 DEF JoinPipe, ControlInv, Feeding, env, buffer, pipe, output
<1>12. CASE CloseFile
  <2>1. ASSUME pc' = "open" PROVE idx <= Len(files)
    <3>1. pc = "close" /\ err = "nil" /\ pst # "none"
      <4>1. pc' = IF err' # "nil" THEN "failed"
                  ELSE IF pst = "none" \/ conf.FileSize = 0 THEN "done" ELSE "open"
        BY <1>12 DEF CloseFile
      <4>2. err' = "nil" /\ pst # "none"
        BY <2>1, <4>1
      <4>3. err = "nil"
        BY <1>12, <4>2, Zenon DEF CloseFile
      <4> QED BY <1>12, <4>2, <4>3 DEF CloseFile
    <3> QED BY <3>1, FileWritten
  <2> QED BY <1>0, <1>12, <2>1 DEF CloseFile, ControlInv, Feeding, buffer, output
<1>13. CASE Retry
  BY <1>0, <1>13 DEF Retry, ControlInv, Feeding, env, buffer, pipe, output
<1>14. CASE PipeReceive
  BY <1>0, <1>14 DEF PipeReceive, ControlInv, Feeding, env, call, buffer, output
<1>15. CASE PipeExit
  BY <1>0, <1>15 DEF PipeExit, ControlInv, Feeding, env, call, buffer, output
<1>16. CASE PipeWrite
  <2>1. idx <= Len(files') + 1 /\ (opened' => idx <= Len(files'))
    <3>1. idx <= Len(files) + 1
      BY DEF ControlInv
    <3> QED BY <1>0, <1>16, <3>1, PipeWriteFiles
  <2> QED BY <1>0, <1>16, <2>1 DEF PipeWrite, ControlInv, Feeding, call, buffer
<1>17. CASE PipeAddGauge
  BY <1>0, <1>17 DEF PipeAddGauge, ControlInv, Feeding, env, call, buffer
<1>18. CASE PipeCount
  BY <1>0, <1>18 DEF PipeCount, ControlInv, Feeding, env, call, buffer, output
<1>19. CASE Cancel
  BY <1>0, <1>19 DEF Cancel, ControlInv, Feeding, call, buffer, pipe, output
<1>20. CASE UNCHANGED vars
  BY <1>20 DEF vars, env, call, buffer, pipe, output, ControlInv, Feeding
<1> QED BY <1>1, <1>2, <1>3, <1>4, <1>5, <1>6, <1>7, <1>8, <1>9, <1>10, <1>11, <1>12, <1>13,
           <1>14, <1>15, <1>16, <1>17, <1>18, <1>19, <1>20 DEF Next, CallStep, PipeStep

LEMMA IteratorStep ==
    ASSUME TypeOK, ControlInv, IteratorInv, [Next]_vars PROVE IteratorInv'
<1> USE DEF IteratorInv, HasNext, Pending, ShouldSwitchFile, Between
<1>0. /\ pos \in Nat \ {0} /\ Len(Result) \in Nat /\ counter \in Nat /\ bf \in Seq(Pieces)
      /\ conf.format \in {"sql", "csv"}
  BY Results, ConfType DEF TypeOK, CallType, BufferType, Content
<1>1. CASE StartQuery
  BY <1>0, <1>1 DEF StartQuery, ControlInv, Feeding, buffer, pipe, output
<1>2. CASE OpenFile
  BY <1>0, <1>2 DEF OpenFile, ControlInv, Feeding, buffer, pipe, env
<1>3. CASE BeginStatement
  BY <1>0, <1>3 DEF BeginStatement, ControlInv, Feeding, env, pipe, output
<1>4. CASE EncodeRow
  <2>1. PICK b : b = Append(bf, RowPiece(Result[pos], "line"))
    OBVIOUS
  <2>2. b # <<>> /\ LastOf(b) = "line"
    BY <1>0, <2>1 DEF LastOf, RowPiece, Piece
  <2>3. pc = "row" /\ UNCHANGED <<conf, pos, rowsErr, pst>> /\ pos <= Len(Result) /\ ~rowsErr
    BY <1>4 DEF EncodeRow, pipe
  <2>4. CASE err' = "decode" /\ pc' = "revert"
    BY <1>0, <2>3, <2>4
  <2>5. CASE pc' \in {"next", "send"} /\ bf' = b /\ counter' = counter + 1
             /\ (pc' = "send" => conf.format = "csv")
    BY <1>0, <2>2, <2>3, <2>5
  <2> QED BY <1>4, <2>1, <2>4, <2>5 DEF EncodeRow
<1>5. CASE NextRow
  BY <1>0, <1>5 DEF NextRow, Continue, ControlInv, Feeding, pipe, output
<1>6. CASE SendBuffer
  <2>1. pc = "send" /\ UNCHANGED <<conf, pos, rowsErr, counter, fileSize, pst>> /\ pst # "none"
    BY <1>6 DEF SendBuffer, env, ControlInv, Feeding
  <2>2. CASE pc' = "revert" /\ err' # "nil"
    BY <1>0, <2>1, <2>2
  <2>3. CASE pc' = AfterSend /\ conf.format = "csv"
    BY <1>0, <2>1, <2>3 DEF AfterSend
  <2>4. CASE pc' = AfterSend /\ conf.format = "sql"
    BY <1>0, <2>1, <2>4 DEF AfterSend, Continue, ShouldSwitchStatement
  <2> QED BY <1>0, <1>6, <2>2, <2>3, <2>4 DEF SendBuffer, TypeOK, PipeType
<1>7. CASE FlushBuffer
  BY <1>0, <1>7 DEF FlushBuffer, ControlInv, Feeding, env, output
<1>8. CASE DrainPipe
  BY <1>0, <1>8 DEF DrainPipe, ControlInv, Feeding, env, pipe, TypeOK, PipeType
<1>9. CASE RevertMetrics
  BY <1>0, <1>9 DEF RevertMetrics, ControlInv, Feeding, env, buffer, pipe
<1>10. CASE StopPipe
  BY <1>0, <1>10 DEF StopPipe, ControlInv, Feeding, env, buffer, output
<1>11. CASE JoinPipe
  BY <1>0, <1>11 DEF JoinPipe, ControlInv, Feeding, env, buffer, pipe, output
<1>12. CASE CloseFile
  BY <1>0, <1>12 DEF CloseFile, ControlInv, Feeding, buffer, output
<1>13. CASE Retry
  BY <1>0, <1>13 DEF Retry, ControlInv, Feeding, env, buffer, pipe, output
<1>14. CASE PipeStep
  <2>1. UNCHANGED <<conf, pc, err, pos, rowsErr, buffer>> /\ (pst' # "none" <=> pst # "none")
    BY <1>14 DEF PipeStep, PipeReceive, PipeExit, PipeWrite, PipeAddGauge, PipeCount, env, call
  <2> QED BY <1>0, <2>1 DEF buffer
<1>15. CASE Cancel
  BY <1>0, <1>15 DEF Cancel, call, buffer, pipe, output
<1>16. CASE UNCHANGED vars
  BY <1>16 DEF vars, env, call, buffer, pipe, output
<1> QED BY <1>1, <1>2, <1>3, <1>4, <1>5, <1>6, <1>7, <1>8, <1>9, <1>10, <1>11, <1>12, <1>13,
           <1>14, <1>15, <1>16 DEF Next, CallStep

LEMMA NextSizes ==
    ASSUME TypeOK, SizesAfter(conf, counter) = <<fileSize, statementSize>>
    PROVE  SizesAfter(conf, counter + 1) = SizeStep(conf, counter, fileSize, statementSize)
<1>1. conf \in Config /\ counter \in Nat
  BY ConfType DEF TypeOK, BufferType
<1>2. SizesAfter(conf, counter + 1) =
          SizeStep(conf, counter, SizesAfter(conf, counter)[1], SizesAfter(conf, counter)[2])
  BY <1>1, SizesDef
<1> QED BY <1>2

\* The loops over the rows go on with the sizes of one more row.
LEMMA ContinueSizes ==
    ASSUME TypeOK, SizesAfter(conf, counter) = <<fileSize, statementSize>>, counter > 0, NEW h
    PROVE  /\ Continue(h) = "row" =>
                SizesAfter(conf, counter + 1) =
                    <<fileSize + 1, IF conf.format = "sql" THEN statementSize + 1 ELSE 0>>
           /\ Continue(h) = "statement" =>
                conf.StatementSize # 0 /\ statementSize >= conf.StatementSize
           /\ Continue(h) \in {"flush", "row", "statement"}
<1>1. conf.format \in {"sql", "csv"}
  BY ConfType
<1>2. SizesAfter(conf, counter + 1) = SizeStep(conf, counter, fileSize, statementSize)
  BY NextSizes
<1>3. counter # 0
  BY DEF TypeOK, BufferType
<1> QED BY <1>1, <1>2, <1>3 DEF Continue, SizeStep, ShouldSwitchStatement

LEMMA SizeStepInv ==
    ASSUME TypeOK, ControlInv, IteratorInv, SizeInv, [Next]_vars PROVE SizeInv'
<1>0. conf \in Config /\ conf.format \in {"sql", "csv"} /\ counter \in Nat /\ fileSize \in Nat
  BY ConfType DEF TypeOK, BufferType
<1>1. CASE OpenFile
  <2>1. CASE pst' = "none"
    BY <2>1 DEF SizeInv
  <2>2. CASE pst' # "none"
    <3>1. /\ conf' = conf /\ fileSize' = 1 /\ statementSize' = 0 /\ counter' = 0
          /\ pc' = IF conf.format = "sql" THEN "statement" ELSE "row"
      BY <1>1, <2>2 DEF OpenFile, env, pipe, ControlInv
    <3>2. SizesAfter(conf, 0) = <<1, 0>> /\ SizesAfter(conf, 0 + 1) = SizeStep(conf, 0, 1, 0)
      BY <1>0, SizesDef
    <3>3. conf.format = "csv" => SizeStep(conf, 0, 1, 0) = <<2, 0>>
      BY DEF SizeStep
    <3> QED BY <1>0, <3>1, <3>2, <3>3 DEF SizeInv
  <2> QED BY <2>1, <2>2
<1>2. CASE BeginStatement
  <2>1. /\ pc = "statement" /\ err = "nil" /\ pst # "none" /\ conf.format = "sql" /\ pc' = "row"
        /\ fileSize' = fileSize + 1 /\ statementSize' = 1 /\ UNCHANGED <<conf, counter>>
    BY <1>2 DEF BeginStatement, env, ControlInv, IteratorInv, Feeding
  <2>2. /\ SizesAfter(conf, counter) = <<fileSize, statementSize>>
        /\ counter = 0 \/ (conf.StatementSize # 0 /\ statementSize >= conf.StatementSize)
    BY <2>1 DEF SizeInv
  <2>3. SizesAfter(conf, counter + 1) = <<fileSize + 2, 2>>
    BY <2>1, <2>2, NextSizes DEF SizeStep
  <2> QED BY <1>0, <2>1, <2>3 DEF SizeInv
<1>3. CASE EncodeRow
  <2>1. pc = "row" /\ err = "nil" /\ pst # "none" /\ UNCHANGED <<conf, pst>>
    BY <1>3 DEF EncodeRow, ControlInv, Feeding, pipe
  <2>2. SizesAfter(conf, counter + 1) =
            <<fileSize + 1, IF conf.format = "sql" THEN statementSize + 1 ELSE 0>>
    BY <2>1 DEF SizeInv
  <2>3. CASE err' = "decode"
    BY <2>3 DEF SizeInv
  <2>4. CASE /\ counter' = counter + 1 /\ fileSize' = fileSize + 1
             /\ statementSize' = (IF conf.format = "sql" THEN statementSize + 1 ELSE 0)
             /\ pc' \in {"send", "next"}
    BY <2>1, <2>2, <2>4 DEF SizeInv
  <2> QED BY <1>3, <2>3, <2>4 DEF EncodeRow
<1>4. CASE NextRow
  <2>1. pc = "next" /\ err = "nil" /\ pst # "none" /\ counter > 0
    BY <1>4 DEF NextRow, ControlInv, IteratorInv, Feeding
  <2>2. SizesAfter(conf, counter) = <<fileSize, statementSize>>
    BY <2>1 DEF SizeInv
  <2>3. UNCHANGED <<conf, counter, fileSize, statementSize>> /\ pc' \in {"send", Continue(HasNext')}
    BY <1>4 DEF NextRow
  <2> QED BY <2>1, <2>2, <2>3, ContinueSizes DEF SizeInv
<1>5. CASE SendBuffer
  <2>1. pc = "send" /\ err = "nil" /\ pst # "none" /\ counter > 0
    BY <1>5 DEF SendBuffer, ControlInv, IteratorInv, Feeding
  <2>2. SizesAfter(conf, counter) = <<fileSize, statementSize>>
    BY <2>1 DEF SizeInv
  <2>3. /\ UNCHANGED <<conf, counter, fileSize, statementSize>>
        /\ pc' \in {"revert", "next", Continue(HasNext)}
    BY <1>5 DEF SendBuffer, AfterSend, env
  <2> QED BY <2>1, <2>2, <2>3, ContinueSizes DEF SizeInv
<1>6. CASE FlushBuffer \/ DrainPipe \/ RevertMetrics \/ StopPipe \/ JoinPipe
  <2>1. /\ UNCHANGED <<conf, counter, fileSize, statementSize, pst>>
        /\ pc \notin {"row", "statement"} /\ pc' \notin {"row", "statement"}
        /\ err' = "nil" => err = "nil"
    BY <1>6 DEF FlushBuffer, DrainPipe, RevertMetrics, StopPipe, JoinPipe, env, buffer, pipe,
                ControlInv, Feeding
  <2> QED BY <2>1 DEF SizeInv
<1>7. CASE StartQuery \/ CloseFile \/ Retry
  <2>1. pst' = "none"
    BY <1>7 DEF StartQuery, CloseFile, Retry, pipe, ControlInv
  <2> QED BY <2>1 DEF SizeInv
<1>8. CASE PipeStep \/ Cancel \/ UNCHANGED vars
  <2>1. UNCHANGED <<conf, pc, err, buffer>> /\ (pst' # "none" <=> pst # "none")
    BY <1>8 DEF PipeStep, PipeReceive, PipeExit, PipeWrite, PipeAddGauge, PipeCount, Cancel, vars,
                env, call, pipe
  <2> QED BY <2>1 DEF SizeInv, buffer
<1> QED BY <1>1, <1>2, <1>3, <1>4, <1>5, <1>6, <1>7, <1>8 DEF Next, CallStep

LEMMA ConfUnchanged == ASSUME [Next]_vars PROVE conf' = conf
  BY DEF Next, CallStep, PipeStep, StartQuery, OpenFile, BeginStatement, EncodeRow, NextRow, SendBuffer,
         FlushBuffer, DrainPipe, RevertMetrics, StopPipe, JoinPipe, CloseFile, Retry, PipeReceive,
         PipeExit, PipeWrite, PipeAddGauge, PipeCount, Cancel, vars, env

\* The current file is full exactly when it has the rows of a full file.
LEMMA FullFile ==
    ASSUME TypeOK, IteratorInv, PlaceInv, err = "nil", pst # "none", counter > 0,
           SizesAfter(conf, counter) = <<fileSize, statementSize>>
    PROVE  ShouldSwitchFile <=> counter = RowsPerFile(conf)
<1>1. conf \in Config /\ counter \in Nat /\ Len(Result) \in Nat /\ pos \in Nat /\ idx \in Nat \ {0}
  BY ConfType, Results DEF TypeOK, BufferType, CallType
<1>2. PICK R \in Nat \ {0} : R = RowsPerFile(conf)
  BY <1>1, RowsPerFileProperties
<1>3. FullAfter(conf, counter) <=> ShouldSwitchFile
  BY DEF FullAfter, ShouldSwitchFile
<1>4. counter <= R
  BY <1>2 DEF PlaceInv
<1>5. counter <= Len(Result)
  <2>1. TakenBefore = Taken - counter /\ TakenBefore = (idx - 1) * R
    BY <1>2 DEF PlaceInv, TakenBefore
  <2>2. (idx - 1) * R >= 0
    BY <1>1, <1>2
  <2>3. Taken <= Len(Result)
    BY <1>1 DEF Taken, IteratorInv, HasNext
  <2>4. Taken \in Int
    BY <1>1 DEF Taken
  <2> QED BY <1>1, <1>2, <2>1, <2>2, <2>3, <2>4
<1>6. counter \in 1..Len(Result)
  BY <1>1, <1>5
<1> QED BY <1>1, <1>2, <1>3, <1>4, <1>6, RowsPerFileProperties

LEMMA PlaceStep ==
    ASSUME TypeOK, ControlInv, IteratorInv, SizeInv, PlaceInv, StreamInv, [Next]_vars PROVE PlaceInv'
<1>0. /\ conf \in Config /\ counter \in Nat /\ pos \in Nat \ {0} /\ idx \in Nat \ {0}
      /\ conf.format \in {"sql", "csv"} /\ Len(Result) \in Nat /\ Len(files) \in Nat
  BY ConfType, Results DEF TypeOK, CallType, BufferType, OutputType
<1>1. PICK R \in Nat \ {0} : R = RowsPerFile(conf) /\ R = RowsPerFile(conf')
  BY <1>0, ConfUnchanged, RowsPerFileProperties
<1>2. PICK m \in Nat : m = (idx - 1) * R
  BY <1>0
<1>3. ASSUME idx' = idx + 1 PROVE (idx' - 1) * R = m + R
  <2>1. idx' - 1 = idx /\ idx * R = (idx - 1) * R + R
    BY <1>0, <1>3
  <2> QED BY <1>2, <2>1
<1>4. /\ \A k \in 1..Len(files) : (k - 1) * R < Len(Result)
      /\ pst # "none" => m < Len(Result)
      /\ err = "nil" /\ pst # "none" =>
           /\ Taken - counter = m /\ counter <= R
           /\ pc \in {"statement", "row"} => counter < R
      /\ Between => IF HasNext THEN Taken = m ELSE Len(Result) <= m
  BY <1>1, <1>2 DEF PlaceInv, TakenBefore, Between
<1>5. \A k \in 1..Len(files') : (k - 1) * R < Len(Result)
  <2>1. CASE PipeWrite
    <3>1. /\ Len(files') \in Nat /\ idx <= Len(files) + 1 /\ pst # "none"
          /\ idx <= Len(files) => Len(files') = Len(files)
          /\ idx > Len(files) => Len(files') \in {Len(files), idx}
      <4>1. idx <= Len(files) + 1 /\ pst # "none"
        BY <2>1 DEF ControlInv, PipeWrite
      <4> QED BY <2>1, <4>1, PipeWriteFiles
    <3>2. ASSUME NEW k \in 1..Len(files') PROVE k \in 1..Len(files) \/ k = idx
      <4>1. CASE idx <= Len(files)
        BY <1>0, <3>1, <4>1
      <4>2. CASE idx > Len(files)
        BY <1>0, <3>1, <4>2
      <4> QED BY <1>0, <4>1, <4>2
    <3> QED BY <1>2, <1>4, <3>1, <3>2
  <2>2. CASE ~PipeWrite
    <3>1. UNCHANGED files
      BY <2>2 DEF Next, CallStep, PipeStep, StartQuery, OpenFile, BeginStatement, EncodeRow, NextRow,
            SendBuffer, FlushBuffer, DrainPipe, RevertMetrics, StopPipe, JoinPipe, CloseFile, Retry,
            PipeReceive, PipeExit, PipeAddGauge, PipeCount, Cancel, vars, output
    <3> QED BY <1>4, <3>1
  <2> QED BY <2>1, <2>2
<1>6. SUFFICES /\ pst' # "none" => (idx' - 1) * R < Len(Result)
               /\ err' = "nil" /\ pst' # "none" =>
                    /\ Taken' - counter' = (idx' - 1) * R /\ counter' <= R
                    /\ pc' \in {"statement", "row"} => counter' < R
               /\ Between' => IF HasNext' THEN Taken' = (idx' - 1) * R
                              ELSE Len(Result) <= (idx' - 1) * R
  BY <1>1, <1>5 DEF PlaceInv, TakenBefore, Between
<1>7. CASE StartQuery
  <2>1. pst' = "none" /\ pos' = 1 /\ rowsErr' = FALSE /\ idx' = 1 /\ pc' \in {"open", "failed"}
    BY <1>7 DEF StartQuery, pipe, ControlInv
  <2>2. Taken' = 0
    BY <2>1 DEF Taken
  <2>3. (idx' - 1) * R = 0
    BY <2>1
  <2> QED BY <1>0, <2>1, <2>2, <2>3 DEF HasNext
<1>8. CASE OpenFile
  <2>1. Between /\ pst = "none" /\ Taken = pos - 1
    BY <1>8 DEF OpenFile, ControlInv, Between, Taken
  <2>2. CASE HasNext
    <3>1. /\ pc' \in {"statement", "row"} /\ counter' = 0 /\ pst' # "none"
          /\ UNCHANGED <<conf, pos, idx>>
      BY <1>8, <2>2 DEF OpenFile, env
    <3>2. Taken' = pos - 1
      BY <3>1 DEF Taken
    <3> QED BY <1>0, <1>2, <1>4, <2>1, <2>2, <3>1, <3>2 DEF HasNext, Between
  <2>3. CASE ~HasNext
    <3>1. pc' = "close" /\ pst' = "none" /\ UNCHANGED <<conf, pos, idx, rowsErr>>
      BY <1>8, <2>1, <2>3 DEF OpenFile, env, pipe
    <3> QED BY <1>2, <1>4, <2>1, <2>3, <3>1 DEF HasNext
  <2> QED BY <2>2, <2>3
<1>9. CASE BeginStatement
  <2>1. /\ pc = "statement" /\ pc' = "row" /\ err = "nil" /\ pst # "none"
        /\ UNCHANGED <<conf, pos, idx, counter, pst, err>>
    BY <1>9 DEF BeginStatement, env, pipe, ControlInv, Feeding
  <2>2. Taken' = Taken
    BY <2>1 DEF Taken
  <2> QED BY <1>2, <1>4, <2>1, <2>2 DEF Between
<1>10. CASE EncodeRow
  <2>1. pc = "row" /\ err = "nil" /\ pst # "none" /\ UNCHANGED <<conf, pos, idx, pst>>
    BY <1>10 DEF EncodeRow, pipe, ControlInv, Feeding
  <2>2. CASE err' = "decode"
    BY <1>2, <1>4, <2>1, <2>2 DEF Between
  <2>3. CASE /\ counter' = counter + 1 /\ pc' \in {"send", "next"}
             /\ pc' = "send" => conf.format = "csv"
    <3>1. Taken' = Taken + 1
      BY <1>0, <2>1, <2>3 DEF Taken
    <3>2. Taken \in Int
      BY <1>0 DEF Taken
    <3> QED BY <1>0, <1>2, <1>4, <2>1, <2>3, <3>1, <3>2 DEF Between
  <2> QED BY <1>10, <2>2, <2>3 DEF EncodeRow
<1>11. CASE NextRow
  <2>1. pc = "next" /\ err = "nil" /\ pst # "none" /\ UNCHANGED <<conf, idx, counter, pst>> /\ counter > 0
    BY <1>11 DEF NextRow, pipe, ControlInv, IteratorInv, Feeding
  <2>2. Taken' = Taken /\ pc' # "next"
    BY <1>0, <1>11 DEF NextRow, Taken, Continue
  <2>3. pc' \in {"statement", "row"} => ~ShouldSwitchFile
    BY <1>11 DEF NextRow, Continue
  <2>4. ShouldSwitchFile <=> counter = R
    BY <1>1, <2>1, FullFile DEF SizeInv
  <2> QED BY <1>0, <1>2, <1>4, <2>1, <2>2, <2>3, <2>4 DEF Between
<1>12. CASE SendBuffer
  <2>1. pc = "send" /\ err = "nil" /\ pst # "none" /\ UNCHANGED <<conf, pos, idx, counter, pst>> /\ counter > 0
    BY <1>12 DEF SendBuffer, env, ControlInv, IteratorInv, Feeding
  <2>2. CASE pc' = "revert" /\ err' # "nil"
    BY <1>2, <1>4, <2>1, <2>2 DEF Between
  <2>3. CASE pc' = AfterSend
    <3>1. Taken' = Taken
      BY <1>0, <2>1, <2>3 DEF Taken, AfterSend, Continue
    <3>2. pc' \in {"statement", "row"} => ~ShouldSwitchFile
      BY <2>3 DEF AfterSend, Continue
    <3>3. ShouldSwitchFile <=> counter = R
      BY <1>1, <2>1, FullFile DEF SizeInv
    <3> QED BY <1>0, <1>2, <1>4, <2>1, <3>1, <3>2, <3>3 DEF Between
  <2> QED BY <1>12, <2>2, <2>3 DEF SendBuffer, TypeOK, PipeType
<1>13. CASE FlushBuffer \/ DrainPipe \/ RevertMetrics \/ StopPipe \/ JoinPipe
  <2>1. /\ UNCHANGED <<conf, pos, idx, counter, pst>> /\ pst # "none"
        /\ pc \in {"flush", "drain", "revert", "stop", "join"}
        /\ pc' \in {"drain", "revert", "stop", "join", "close"}
        /\ err' = "nil" => err = "nil"
    BY <1>13 DEF FlushBuffer, DrainPipe, RevertMetrics, StopPipe, JoinPipe, env, buffer, pipe,
                 ControlInv, Feeding
  <2>2. Taken' = Taken
    BY <2>1 DEF Taken
  <2> QED BY <1>2, <1>4, <2>1, <2>2 DEF Between
<1>14. CASE CloseFile
  <2>1. pc = "close" /\ pst' = "none" /\ UNCHANGED <<conf, pos, rowsErr, counter>>
    BY <1>14 DEF CloseFile, buffer
  <2>2. CASE ~Between'
    BY <2>1, <2>2
  <2>3. CASE Between'
    <3>1. pc' = "open" /\ err' = "nil" /\ pst # "none" /\ idx' = idx + 1
      BY <1>14, <2>3 DEF CloseFile, Between
    <3>2. err = "nil"
      BY <1>14, <3>1, Zenon DEF CloseFile
    <3>3. counter > 0 /\ (ShouldSwitchFile \/ ~HasNext) /\ ~rowsErr
      BY <2>1, <3>1, <3>2 DEF IteratorInv
    <3>4. ShouldSwitchFile <=> counter = R
      BY <1>1, <2>1, <3>1, <3>2, <3>3, FullFile DEF SizeInv
    <3>5. Taken = pos - 1 /\ Taken' = pos - 1
      BY <2>1, <3>1 DEF Taken
    <3>6. HasNext' <=> HasNext
      BY <2>1 DEF HasNext
    <3>7. ~HasNext => pos - 1 = Len(Result)
      BY <1>0, <3>3 DEF HasNext, IteratorInv
    <3>8. (idx' - 1) * R = m + R
      BY <1>3, <3>1, Zenon
    <3>9. pos - 1 = m + counter /\ counter <= R
      BY <1>0, <1>4, <3>1, <3>2, <3>5
    <3> QED BY <1>0, <2>1, <3>3, <3>4, <3>5, <3>6, <3>7, <3>8, <3>9
  <2> QED BY <2>2, <2>3
<1>15. CASE Retry
  <2>1. pst' = "none" /\ err' # "nil"
    BY <1>15 DEF Retry, pipe, ControlInv
  <2> QED BY <2>1 DEF Between
<1>16. CASE PipeStep
  <2>1. /\ UNCHANGED <<conf, pc, err, pos, idx, counter>> /\ pst # "none" /\ pst' # "none"
    BY <1>16 DEF PipeStep, PipeReceive, PipeExit, PipeWrite, PipeAddGauge, PipeCount, env, call, buffer
  <2>2. Taken' = Taken
    BY <2>1 DEF Taken
  <2> QED BY <1>2, <1>4, <2>1, <2>2 DEF Between
<1>17. CASE Cancel \/ UNCHANGED vars
  <2>1. UNCHANGED <<conf, pc, err, pos, idx, counter, pst, rowsErr>>
    BY <1>17 DEF Cancel, vars, env, call, buffer, pipe
  <2>2. Taken' = Taken /\ HasNext' = HasNext /\ Between' = Between
    BY <2>1 DEF Taken, HasNext, Between
  <2> QED BY <1>2, <1>4, <2>1, <2>2
<1> QED BY <1>7, <1>8, <1>9, <1>10, <1>11, <1>12, <1>13, <1>14, <1>15, <1>16, <1>17
        DEF Next, CallStep
-----------------------------------------------------------------------------
(* What is on its way to the current file. *)

LEMMA DoneContentType ==
    ASSUME TypeOK, ControlInv
    PROVE  SubSeq(files, 1, idx - 1) \in Seq(Content) /\ DoneContent \in Content
<1>1. files \in Seq(Content) /\ 1 \in 1..(Len(files) + 1) /\ idx - 1 \in 0..Len(files)
  BY DEF TypeOK, CallType, OutputType, ControlInv
<1>2. SubSeq(files, 1, idx - 1) \in Seq(Content)
  BY <1>1, SubSeqProperties
<1> QED BY <1>2, FlattenType, Zenon DEF DoneContent, Content

LEMMA StreamType ==
    ASSUME TypeOK, ControlInv, pst # "none"
    PROVE  /\ Before \in Content /\ Writing \in Content /\ FlattenSeq(input) \in Content
           /\ (Before \o Writing) \in Content /\ Stream \in Content /\ DoneContent \in Content
<1>1. Before \in Content
  <2>1. opened => idx <= Len(files)
    BY DEF ControlInv
  <2> QED BY <2>1, BeforeType
<1>2. Writing \in Content
  BY ContentType DEF Writing, TypeOK, PipeType
<1>3. FlattenSeq(input) \in Content
  BY FlattenType, Zenon DEF TypeOK, PipeType, Content
<1>4. DoneContent \in Content
  BY DoneContentType
<1>5. bf \in Content
  BY DEF TypeOK, BufferType
<1>6. (Before \o Writing) \in Content /\ (FlattenSeq(input) \o bf) \in Content
  BY <1>1, <1>2, <1>3, <1>5, ContentType
<1>7. Stream \in Content
  BY <1>6, ContentType DEF Stream
<1> QED BY <1>1, <1>2, <1>3, <1>4, <1>6, <1>7

LEMMA StreamSame ==
    ASSUME UNCHANGED <<idx, opened, files, pst, pbuf, input, bf>> PROVE Stream' = Stream
  BY DEF Stream, Before, Writing

\* One more piece.
LEMMA StreamAppend ==
    ASSUME TypeOK, ControlInv, pst # "none", NEW p \in Pieces,
           bf' = Append(bf, p), UNCHANGED <<idx, opened, files, pst, pbuf, input>>
    PROVE  Stream' = Append(Stream, p)
<1>1. /\ (Before \o Writing) \in Seq(Pieces) /\ FlattenSeq(input) \in Seq(Pieces) /\ bf \in Seq(Pieces)
  BY StreamType DEF TypeOK, BufferType, Content
<1>2. Stream' = (Before \o Writing) \o (FlattenSeq(input) \o Append(bf, p))
  BY DEF Stream, Before, Writing
<1>3. PICK a \in Seq(Pieces), c \in Seq(Pieces), b \in Seq(Pieces) :
          a = Before \o Writing /\ c = FlattenSeq(input) /\ b = bf
  BY <1>1, Zenon
<1>4. a \o (c \o Append(b, p)) = Append(a \o (c \o b), p)
  OBVIOUS
<1> QED BY <1>2, <1>3, <1>4, Zenon DEF Stream

\* The open buffer goes to the channel.
LEMMA StreamSend ==
    ASSUME TypeOK, ControlInv, pst # "none", input' = Append(input, bf), bf' = <<>>,
           UNCHANGED <<idx, opened, files, pst, pbuf>>
    PROVE  Stream' = Stream
<1>1. input \in Seq(Seq(Pieces)) /\ bf \in Seq(Pieces)
  BY DEF TypeOK, PipeType, BufferType, Content
<1>2. FlattenSeq(Append(input, bf)) = FlattenSeq(input) \o bf
  BY <1>1, FlattenAppend, Zenon
<1>3. (FlattenSeq(input) \o bf) \in Seq(Pieces)
  BY StreamType, ContentType DEF TypeOK, BufferType, Content
<1>4. (FlattenSeq(input) \o bf) \o <<>> = FlattenSeq(input) \o bf
  BY <1>3, ConcatEmptySeq, Zenon
<1>5. FlattenSeq(input)' = FlattenSeq(input')
  OBVIOUS
<1>6. Before' = Before /\ Writing' = Writing
  BY DEF Before, Writing
<1> QED BY <1>2, <1>4, <1>6 DEF Stream

\* The pipe takes a buffer from the channel.
LEMMA StreamReceive ==
    ASSUME TypeOK, ControlInv, pst = "receive", input # <<>>, input' = Tail(input),
           pst' = "write", pbuf' = Head(input), UNCHANGED <<idx, opened, files, bf>>
    PROVE  Stream' = Stream
<1>1. input \in Seq(Seq(Pieces)) /\ bf \in Seq(Pieces) /\ input \in Seq(Content)
  BY DEF TypeOK, PipeType, BufferType, Content
<1>2. Head(input) \in Content /\ Tail(input) \in Seq(Content)
  BY <1>1, HeadTailProperties
<1>3. FlattenSeq(input) = Head(input) \o FlattenSeq(Tail(input))
  BY <1>1, FlattenHead, Zenon
<1>4. Before \in Seq(Pieces)
  <2>1. Before \in Content
    BY StreamType
  <2> QED BY <2>1 DEF Content
<1>5. FlattenSeq(Tail(input)) \in Seq(Pieces) /\ Head(input) \in Seq(Pieces)
  BY <1>2, FlattenType, Zenon DEF Content
<1>6. PICK a \in Seq(Pieces), h \in Seq(Pieces), c \in Seq(Pieces), b \in Seq(Pieces) :
          a = Before /\ h = Head(input) /\ c = FlattenSeq(Tail(input)) /\ b = bf
  BY <1>1, <1>4, <1>5, Zenon
<1>7. (a \o <<>>) \o ((h \o c) \o b) = (a \o h) \o (c \o b)
  OBVIOUS
<1>8. Before' = Before /\ Writing' = Head(input) /\ Writing = <<>>
  BY DEF Before, Writing
<1> QED BY <1>3, <1>6, <1>7, <1>8, Zenon DEF Stream

\* The pipe writes its buffer to the file.
LEMMA StreamWrite ==
    ASSUME TypeOK, ControlInv, PipeWrite, ~errOccurs' PROVE Stream' = Stream /\ Before' = Before \o pbuf
<1>1. opened' /\ files'[idx] = Before \o pbuf
  BY PipeWriteFiles
<1>2. pst = "write" /\ pst' = "gauge" /\ UNCHANGED <<idx, input, bf>>
  BY DEF PipeWrite, call, buffer
<1>3. Before' = Before \o pbuf /\ Writing' = <<>> /\ Writing = pbuf
  BY <1>1, <1>2 DEF Before, Writing
<1>4. (Before \o pbuf) \in Seq(Pieces)
  BY <1>2, <1>3, StreamType DEF Content
<1>5. (Before \o pbuf) \o <<>> = Before \o pbuf
  BY <1>4, ConcatEmptySeq, Zenon
<1> QED BY <1>2, <1>3, <1>5, Zenon DEF Stream

\* Nothing of the finished files changes while a file is written.
LEMMA DoneSame ==
    ASSUME TypeOK, ControlInv, TypeOK', idx' = idx, files' = files \/ PipeWrite
    PROVE  DoneContent' = DoneContent /\ \A k \in 1..(idx - 1) : files'[k] = files[k]
<1>1. idx \in Nat \ {0} /\ idx <= Len(files) + 1 /\ Len(files) \in Nat
  BY DEF TypeOK, CallType, OutputType, ControlInv
<1>2. CASE files' = files
  BY <1>2 DEF DoneContent
<1>3. CASE PipeWrite
  <2>1. /\ files' \in Seq(Content) /\ files \in Seq(Content)
        /\ idx <= Len(files) => Len(files') = Len(files)
        /\ idx > Len(files) => Len(files') \in {Len(files), idx}
        /\ \A k \in 1..Len(files) : k # idx => files'[k] = files[k]
    BY <1>3, PipeWriteFiles DEF TypeOK, OutputType
  <2>2. ASSUME NEW k \in 1..(idx - 1) PROVE files'[k] = files[k]
    BY <1>1, <2>1
  <2>3. SubSeq(files', 1, idx - 1) = SubSeq(files, 1, idx - 1)
    BY <1>1, <2>1, <2>2
  <2> QED BY <2>2, <2>3 DEF DoneContent
<1> QED BY <1>2, <1>3

LEMMA RowsInExtended ==
    ASSUME NEW c \in Content, NEW d \in Content, NEW p \in Pieces
    PROVE  RowsIn(c \o Append(d, p)) = RowsIn(c \o d) \o RowOf(p)
<1>1. c \in Seq(Pieces) /\ d \in Seq(Pieces) /\ c \o d \in Seq(Pieces)
  BY ContentType DEF Content
<1>2. c \o Append(d, p) = Append(c \o d, p)
  BY <1>1
<1>3. PICK e \in Seq(Pieces) : e = c \o d
  BY <1>1, Zenon
<1>4. RowsIn(Append(e, p)) = RowsIn(e) \o RowOf(p)
  BY RowsInAppend
<1> QED BY <1>2, <1>3, <1>4, Zenon

\* A piece that is not a row.
LEMMA NoRow ==
    ASSUME NEW c \in Content, NEW d \in Content, NEW p \in Pieces, p.row = 0
    PROVE  RowsIn(c \o Append(d, p)) = RowsIn(c \o d)
<1>1. RowsIn(c \o Append(d, p)) = RowsIn(c \o d) \o <<>>
  BY RowsInExtended DEF RowOf
<1>2. PICK e \in Content : e = c \o d
  BY ContentType
<1>3. RowsIn(e) \in Seq(Nat)
  BY RowsInType DEF Content
<1>4. RowsIn(e) \o <<>> = RowsIn(e)
  BY <1>3, ConcatEmptySeq, Zenon
<1> QED BY <1>1, <1>2, <1>4, Zenon

\* A step that leaves the stream as it is.
LEMMA StreamCarried ==
    ASSUME StreamInv, Intact, Stream' = Stream, DoneContent' = DoneContent, fileSize' = fileSize,
           Pending' <=> Pending, Taken' = Taken, \A e \in Ends : e \in Ends'
    PROVE  StreamInv'
<1>1. /\ Len(Stream) = fileSize
      /\ LET settled == IF Pending THEN Front(Stream) ELSE Stream
         IN WellFormed(settled) /\ LastOf(settled) \in Ends
      /\ RowsIn(DoneContent \o Stream) = SubSeq(Result, 1, Taken)
  BY Zenon DEF StreamInv
<1>2. CASE Pending
  <2>1. WellFormed(Front(Stream)) /\ LastOf(Front(Stream)) \in Ends /\ Pending'
    BY <1>1, <1>2, Zenon
  <2>2. WellFormed(Front(Stream)) /\ LastOf(Front(Stream)) \in Ends'
    BY <2>1, Zenon
  <2> QED BY <1>1, <2>1, <2>2, Zenon DEF StreamInv
<1>3. CASE ~Pending
  <2>1. WellFormed(Stream) /\ LastOf(Stream) \in Ends /\ ~Pending'
    BY <1>1, <1>3, Zenon
  <2>2. WellFormed(Stream) /\ LastOf(Stream) \in Ends'
    BY <2>1, Zenon
  <2> QED BY <1>1, <2>1, <2>2, Zenon DEF StreamInv
<1> QED BY <1>2, <1>3

LEMMA StreamOpen ==
    ASSUME TypeOK, TypeOK', ControlInv, DoneInv, OpenFile PROVE StreamInv'
<1>1. CASE ~HasNext
  <2>1. pst' = "none"
    BY <1>1 DEF OpenFile, ControlInv, pipe
  <2> QED BY <2>1 DEF StreamInv, Intact
<1>2. CASE HasNext
  <2>1. /\ pc = "open" /\ opened' = FALSE /\ bf' = <<FileHead>> /\ fileSize' = 1 /\ pst' = "receive"
        /\ input' = <<>> /\ pc' = (IF conf.format = "sql" THEN "statement" ELSE "row")
        /\ UNCHANGED <<conf, pos, idx, files>>
    BY <1>2 DEF OpenFile, env
  <2>2. Between /\ conf.format \in {"sql", "csv"}
    BY <2>1, ConfType DEF ControlInv, Between
  <2>3. Stream' = <<FileHead>>
    <3>1. Before' = <<>> /\ Writing' = <<>> /\ FlattenSeq(input') = <<>>
      <4>1. Before' = <<>>
        BY <2>1, Zenon DEF Before
      <4>2. Writing' = <<>>
        BY <2>1 DEF Writing
      <4>3. FlattenSeq(input') = <<>>
        BY <2>1, FlattenEmpty, Zenon
      <4> QED BY <4>1, <4>2, <4>3
    <3>2. PICK b \in Seq(Pieces) : b = <<FileHead>>
      <4>1. <<FileHead>> \in Content
        BY PieceType, ContentType
      <4> QED BY <4>1, Zenon DEF Content
    <3>3. (<<>> \o <<>>) \o (<<>> \o b) = b
      OBVIOUS
    <3> QED BY <2>1, <3>1, <3>2, <3>3, Zenon DEF Stream
  <2>4. DoneContent' = DoneContent /\ DoneContent \in Content
    BY <2>1, DoneContentType DEF DoneContent
  <2>5. WellFormed(<<FileHead>>) /\ LastOf(<<FileHead>>) = "head" /\ Len(<<FileHead>>) = 1
    BY DEF WellFormed, LastOf, FileHead, Piece
  <2>6. ~Pending' /\ "head" \in Ends'
    BY <2>1, <2>2 DEF Pending, Ends
  <2>7. Taken' = Taken
    BY <2>1 DEF Taken
  <2>8. RowsIn(DoneContent \o <<FileHead>>) = RowsIn(DoneContent)
    <3>1. FileHead.row = 0 /\ FileHead \in Pieces /\ <<>> \in Content
      BY PieceType, ContentType DEF FileHead, Piece
    <3>2. Append(<<>>, FileHead) = <<FileHead>> /\ DoneContent \o <<>> = DoneContent
      BY <2>4 DEF Content
    <3>3. RowsIn(DoneContent \o Append(<<>>, FileHead)) = RowsIn(DoneContent \o <<>>)
      BY <2>4, <3>1, NoRow
    <3> QED BY <3>2, <3>3, Zenon
  <2>9. RowsIn(DoneContent) = SubSeq(Result, 1, Taken)
    BY <2>2 DEF DoneInv
  <2>10. Len(Stream') = fileSize' /\ WellFormed(Stream') /\ LastOf(Stream') \in Ends'
    BY <2>1, <2>3, <2>5, <2>6
  <2>11. RowsIn(DoneContent' \o Stream') = SubSeq(Result, 1, Taken')
    BY <2>3, <2>4, <2>7, <2>8, <2>9, Zenon
  <2> QED BY <2>6, <2>10, <2>11, Zenon DEF StreamInv
<1> QED BY <1>1, <1>2

LEMMA StreamBegin ==
    ASSUME TypeOK, TypeOK', ControlInv, IteratorInv, StreamInv, BeginStatement PROVE StreamInv'
<1>1. /\ pc = "statement" /\ pc' = "row" /\ conf.format = "sql" /\ err = "nil" /\ pst # "none"
      /\ bf' = Append(bf, InsertPrefix) /\ fileSize' = fileSize + 1
      /\ UNCHANGED <<conf, pos, idx, opened, files, pst, pbuf, input, err, errOccurs>>
  BY DEF BeginStatement, env, pipe, output, ControlInv, IteratorInv, Feeding
<1>2. SUFFICES ASSUME Intact PROVE StreamInv'
  BY <1>1 DEF StreamInv, Intact
<1>3. Stream \in Content /\ DoneContent \in Content /\ InsertPrefix \in Pieces
  BY <1>1, StreamType, PieceType
<1>4. Stream' = Append(Stream, InsertPrefix)
  BY <1>1, <1>3, StreamAppend
<1>5. DoneContent' = DoneContent
  BY <1>1, DoneSame
<1>6. ~Pending /\ ~Pending' /\ Ends = {"head", "semicolon"} /\ Ends' = {"insert", "comma"} /\ Taken' = Taken
  BY <1>1 DEF Pending, Ends, Taken
<1>7. /\ Len(Stream) = fileSize /\ WellFormed(Stream) /\ LastOf(Stream) \in {"head", "semicolon"}
      /\ RowsIn(DoneContent \o Stream) = SubSeq(Result, 1, Taken)
  BY <1>2, <1>6, Zenon DEF StreamInv
<1>8. InsertPrefix.what = "insert" /\ InsertPrefix.row = 0
  BY DEF InsertPrefix, Piece
<1>9. WellFormed(Stream') /\ LastOf(Stream') = "insert"
  <2>1. MayFollow(LastOf(Stream), InsertPrefix.what)
    BY <1>7, <1>8 DEF MayFollow
  <2>2. WellFormed(Append(Stream, InsertPrefix)) /\ LastOf(Append(Stream, InsertPrefix)) = InsertPrefix.what
    BY <1>3, <1>7, <2>1, WellFormedAppend, Zenon DEF Content
  <2> QED BY <1>4, <1>8, <2>2
<1>10. Len(Stream') = fileSize'
  BY <1>1, <1>3, <1>4, <1>7 DEF Content
<1>11. RowsIn(DoneContent' \o Stream') = SubSeq(Result, 1, Taken')
  <2>1. RowsIn(DoneContent \o Append(Stream, InsertPrefix)) = RowsIn(DoneContent \o Stream)
    BY <1>3, <1>8, NoRow, Zenon
  <2> QED BY <1>4, <1>5, <1>6, <1>7, <2>1, Zenon
<1>12. LastOf(Stream') \in Ends'
  BY <1>6, <1>9
<1> QED BY <1>6, <1>9, <1>10, <1>11, <1>12, Zenon DEF StreamInv

LEMMA StreamEncode ==
    ASSUME TypeOK, TypeOK', ControlInv, IteratorInv, StreamInv, EncodeRow PROVE StreamInv'
<1>1. pc = "row" /\ err = "nil" /\ pst # "none" /\ HasNext /\ pos \in 1..Len(Result)
      /\ conf.format \in {"sql", "csv"}
      /\ UNCHANGED <<conf, pos, idx, opened, files, pst, pbuf, input, errOccurs>>
  BY ConfType, Results DEF EncodeRow, pipe, output, ControlInv, IteratorInv, HasNext, Feeding, TypeOK,
                           CallType
<1>2. CASE err' = "decode"
  BY <1>2 DEF StreamInv, Intact
<1>3. CASE err' # "decode"
  <2>1. /\ bf' = Append(bf, RowPiece(Result[pos], "line")) /\ fileSize' = fileSize + 1
        /\ pc' \in {"send", "next"} /\ (pc' = "send" => conf.format = "csv") /\ err' = err
    BY <1>3 DEF EncodeRow
  <2>2. SUFFICES ASSUME Intact PROVE StreamInv'
    BY <1>1, <2>1 DEF StreamInv, Intact
  <2>3. PICK p \in Pieces : p = RowPiece(Result[pos], "line")
    BY <1>1, Results DEF RowPiece, Piece, Pieces
  <2>4. p.what = "line" /\ p.row = Result[pos] /\ p.row # 0
    BY <1>1, <2>3, Results DEF RowPiece, Piece
  <2>5. Stream \in Content /\ DoneContent \in Content
    BY <1>1, StreamType
  <2>6. Stream' = Append(Stream, p)
    BY <1>1, <2>1, <2>3, StreamAppend
  <2>7. DoneContent' = DoneContent
    BY <1>1, DoneSame
  <2>8. ~Pending /\ Taken = pos - 1 /\ Taken' = pos
    BY <1>1, <2>1 DEF Pending, Taken
  <2>9. /\ Len(Stream) = fileSize /\ WellFormed(Stream) /\ LastOf(Stream) \in Ends
        /\ RowsIn(DoneContent \o Stream) = SubSeq(Result, 1, pos - 1)
    BY <2>2, <2>8, Zenon DEF StreamInv
  <2>10. Len(Stream') = fileSize'
    BY <2>1, <2>5, <2>6, <2>9 DEF Content
  <2>11. RowsIn(DoneContent' \o Stream') = SubSeq(Result, 1, Taken')
    <3>1. RowsIn(DoneContent \o Append(Stream, p)) = RowsIn(DoneContent \o Stream) \o RowOf(p)
      BY <2>5, RowsInExtended, Zenon
    <3>2. RowOf(p) = <<Result[pos]>>
      BY <2>4 DEF RowOf
    <3>3. SubSeq(Result, 1, pos - 1) \o <<Result[pos]>> = SubSeq(Result, 1, pos)
      BY <1>1, ConstantsAssumption
    <3> QED BY <2>6, <2>7, <2>8, <2>9, <3>1, <3>2, <3>3, Zenon
  <2>12. CASE conf.format = "csv"
    <3>1. ~Pending' /\ Ends = {"head", "line"} /\ Ends' = {"line"}
      BY <1>1, <2>1, <2>12 DEF Pending, Ends
    <3>2. MayFollow(LastOf(Stream), p.what)
      BY <2>4, <2>9, <3>1 DEF MayFollow
    <3>3. WellFormed(Append(Stream, p)) /\ LastOf(Append(Stream, p)) = p.what
      BY <2>5, <2>9, <3>2, WellFormedAppend, Zenon DEF Content
    <3>4. WellFormed(Stream') /\ LastOf(Stream') \in Ends'
      BY <2>4, <2>6, <3>1, <3>3
    <3> QED BY <2>10, <2>11, <3>1, <3>4, Zenon DEF StreamInv
  <2>13. CASE conf.format = "sql"
    <3>1. Pending' /\ Ends = {"insert", "comma"} /\ Ends' = {"insert", "comma"}
      BY <1>1, <2>1, <2>13 DEF Pending, Ends
    <3>2. Front(Stream') = Stream
      BY <2>5, <2>6, FrontAppend DEF Content
    <3>3. WellFormed(Front(Stream')) /\ LastOf(Front(Stream')) \in Ends'
      BY <2>9, <3>1, <3>2
    <3> QED BY <2>10, <2>11, <3>1, <3>3, Zenon DEF StreamInv
  <2> QED BY <1>1, <2>12, <2>13
<1> QED BY <1>2, <1>3

\* The row that was read last gets its end.
LEMMA EndRow ==
    ASSUME TypeOK, ControlInv, pst # "none", bf # <<>>, NEW w \in {"comma", "semicolon"},
           bf' = [bf EXCEPT ![Len(bf)].what = w], UNCHANGED <<idx, opened, files, pst, pbuf, input>>
    PROVE  \E s \in Content, p, q \in Pieces :
              Stream = Append(s, p) /\ Stream' = Append(s, q) /\ q.what = w /\ q.row = p.row
<1>1. bf \in Seq(Pieces)
  BY DEF TypeOK, BufferType, Content
<1>2. PICK b \in Seq(Pieces), p \in Pieces : bf = Append(b, p)
  BY <1>1, SplitLast
<1>3. PICK q \in Pieces : q = [p EXCEPT !.what = w] /\ q.what = w /\ q.row = p.row
  <2>1. /\ [p EXCEPT !.what = w] \in Pieces /\ [p EXCEPT !.what = w].what = w
        /\ [p EXCEPT !.what = w].row = p.row
    BY DEF Pieces
  <2> QED BY <2>1, Zenon
<1>4. Len(bf) = Len(b) + 1 /\ Len(b) \in Nat /\ bf[Len(bf)] = p
  BY <1>2
<1>5. bf' = Append(b, q)
  <2>1. bf' = [bf EXCEPT ![Len(bf)] = [bf[Len(bf)] EXCEPT !.what = w]]
    OBVIOUS
  <2>2. bf' = [bf EXCEPT ![Len(bf)] = q]
    BY <1>3, <1>4, <2>1
  <2>3. PICK d \in Seq(Pieces) : d = bf' /\ d = [bf EXCEPT ![Len(bf)] = q]
    <3>1. [bf EXCEPT ![Len(bf)] = q] \in Seq(Pieces)
      BY <1>1, <1>4, ExceptSeq
    <3> QED BY <2>2, <3>1, Zenon
  <2>4. Len(d) = Len(b) + 1 /\ \A i \in 1..Len(d) : d[i] = IF i = Len(b) + 1 THEN q ELSE b[i]
    <3>1. Len(d) = Len(bf) /\ \A i \in 1..Len(bf) : d[i] = IF i = Len(bf) THEN q ELSE bf[i]
      BY <1>1, <1>4, <2>3, ExceptSeq
    <3>2. \A i \in 1..Len(b) : bf[i] = b[i]
      BY <1>2
    <3> QED BY <1>4, <3>1, <3>2
  <2>5. d = Append(b, q)
    <3>0. Append(b, q) \in Seq(Pieces)
      OBVIOUS
    <3>1. PICK e \in Seq(Pieces) : e = Append(b, q)
      BY <3>0, Zenon
    <3>2. Len(e) = Len(d) /\ \A i \in 1..Len(d) : d[i] = e[i]
      BY <1>4, <2>4, <3>1
    <3> QED BY <3>1, <3>2, SeqEqual
  <2> QED BY <2>3, <2>5, Zenon
<1>6. (Before \o Writing) \in Seq(Pieces) /\ FlattenSeq(input) \in Seq(Pieces)
  BY StreamType DEF Content
<1>7. PICK a \in Seq(Pieces), c \in Seq(Pieces) : a = Before \o Writing /\ c = FlattenSeq(input)
  BY <1>6, Zenon
<1>8. /\ a \o (c \o Append(b, p)) = Append(a \o (c \o b), p)
      /\ a \o (c \o Append(b, q)) = Append(a \o (c \o b), q)
      /\ a \o (c \o b) \in Seq(Pieces)
  <2>1. a \o (c \o Append(b, p)) = Append(a \o (c \o b), p)
    OBVIOUS
  <2>2. a \o (c \o Append(b, q)) = Append(a \o (c \o b), q)
    OBVIOUS
  <2>3. a \o (c \o b) \in Seq(Pieces)
    OBVIOUS
  <2> QED BY <2>1, <2>2, <2>3
<1>9. Stream = a \o (c \o Append(b, p)) /\ Stream' = a \o (c \o Append(b, q))
  <2>1. Stream' = (Before \o Writing) \o (FlattenSeq(input) \o bf')
    BY DEF Stream, Before, Writing
  <2> QED BY <1>2, <1>5, <1>7, <2>1, Zenon DEF Stream
<1>10. PICK s \in Content : s = a \o (c \o b)
  BY <1>8, Zenon DEF Content
<1>11. Stream = Append(s, p) /\ Stream' = Append(s, q)
  BY <1>8, <1>9, <1>10, Zenon
<1> QED BY <1>3, <1>11, Zenon

LEMMA StreamNext ==
    ASSUME TypeOK, TypeOK', ControlInv, IteratorInv, StreamInv, NextRow PROVE StreamInv'
<1>1. pc = "next" /\ err = "nil" /\ pst # "none" /\ conf.format \in {"sql", "csv"} /\ pos' = pos + 1
      /\ UNCHANGED <<conf, idx, opened, files, pst, pbuf, input, err, errOccurs, fileSize, statementSize>>
  BY ConfType DEF NextRow, pipe, output, ControlInv, Feeding
<1>2. SUFFICES ASSUME Intact PROVE StreamInv'
  BY <1>1 DEF StreamInv, Intact
<1>3. pc' \in {"send", "flush", "statement", "row"} /\ (pc' = "send" => conf.format = "sql")
  BY <1>1 DEF NextRow, Continue
<1>4. Taken' = Taken
  <2>1. pos \in Nat
    BY DEF TypeOK, CallType
  <2>2. pos' - 1 = pos
    BY <1>1, <2>1
  <2> QED BY <1>1, <1>3, <2>2 DEF Taken
<1>5. DoneContent' = DoneContent
  BY <1>1, DoneSame
<1>6. CASE conf.format = "csv"
  <2>1. UNCHANGED bf
    BY <1>6 DEF NextRow
  <2>2. Stream' = Stream
    BY <1>1, <2>1, StreamSame
  <2>3. ~Pending /\ ~Pending' /\ Ends = {"line"} /\ "line" \in Ends'
    BY <1>1, <1>3, <1>6 DEF Pending, Ends
  <2> QED BY <1>1, <1>2, <1>4, <1>5, <2>2, <2>3, StreamCarried
<1>7. CASE conf.format = "sql"
  <2>1. Pending /\ bf # <<>> /\ ~Pending' /\ Ends = {"insert", "comma"}
    BY <1>1, <1>3, <1>7 DEF Pending, IteratorInv, Ends
  <2>2. PICK w : w = IF HasNext' /\ ~ShouldSwitchStatement THEN "comma" ELSE "semicolon"
    OBVIOUS
  <2>3. w \in {"comma", "semicolon"} /\ bf' = [bf EXCEPT ![Len(bf)].what = w]
    BY <1>7, <2>2 DEF NextRow
  <2>4. w \in Ends'
    <3>1. ShouldSwitchStatement' <=> ShouldSwitchStatement
      BY <1>1 DEF ShouldSwitchStatement, ShouldSwitchFile
    <3>2. pc' = "row" => HasNext' /\ ~ShouldSwitchStatement
      BY <1>7 DEF NextRow, Continue
    <3>3. pc' \in {"flush", "statement"} => ~HasNext' \/ ShouldSwitchStatement
      BY <1>7 DEF NextRow, Continue, ShouldSwitchStatement
    <3> QED BY <1>1, <1>3, <1>7, <2>2, <3>1, <3>2, <3>3 DEF Ends
  <2>5. PICK s \in Content, p \in Pieces, q \in Pieces :
            Stream = Append(s, p) /\ Stream' = Append(s, q) /\ q.what = w /\ q.row = p.row
    BY <1>1, <2>1, <2>3, EndRow
  <2>6. Front(Stream) = s
    BY <2>5, FrontAppend DEF Content
  <2>7. /\ Len(Stream) = fileSize /\ WellFormed(s) /\ LastOf(s) \in {"insert", "comma"}
        /\ RowsIn(DoneContent \o Stream) = SubSeq(Result, 1, Taken)
    BY <1>2, <2>1, <2>6, Zenon DEF StreamInv
  <2>8. WellFormed(Stream') /\ LastOf(Stream') = w
    <3>1. MayFollow(LastOf(s), q.what)
      BY <2>3, <2>5, <2>7 DEF MayFollow
    <3>2. WellFormed(Append(s, q)) /\ LastOf(Append(s, q)) = q.what
      BY <2>7, <3>1, WellFormedAppend, Zenon DEF Content
    <3> QED BY <2>5, <3>2
  <2>9. Len(Stream') = fileSize'
    BY <1>1, <2>5, <2>7 DEF Content
  <2>10. RowsIn(DoneContent' \o Stream') = SubSeq(Result, 1, Taken')
    <3>1. DoneContent \in Content
      BY <1>1, StreamType
    <3>2. RowsIn(DoneContent \o Append(s, q)) = RowsIn(DoneContent \o s) \o RowOf(q)
      BY <3>1, RowsInExtended, Zenon
    <3>3. RowsIn(DoneContent \o Append(s, p)) = RowsIn(DoneContent \o s) \o RowOf(p)
      BY <3>1, RowsInExtended, Zenon
    <3>4. RowOf(p) = RowOf(q)
      BY <2>5 DEF RowOf
    <3> QED BY <1>4, <1>5, <2>5, <2>7, <3>2, <3>3, <3>4, Zenon
  <2>11. LastOf(Stream') \in Ends'
    BY <2>4, <2>8
  <2> QED BY <2>1, <2>8, <2>9, <2>10, <2>11, Zenon DEF StreamInv
<1> QED BY <1>1, <1>6, <1>7

LEMMA StreamStep ==
    ASSUME TypeOK, TypeOK', ControlInv, IteratorInv, StreamInv, DoneInv, [Next]_vars PROVE StreamInv'
<1>1. CASE StartQuery \/ CloseFile \/ Retry
  <2>1. pst' = "none"
    BY <1>1 DEF StartQuery, CloseFile, Retry, pipe, ControlInv
  <2> QED BY <2>1 DEF StreamInv, Intact
<1>2. CASE OpenFile
  BY <1>2, StreamOpen
<1>3. CASE BeginStatement
  BY <1>3, StreamBegin
<1>4. CASE EncodeRow
  BY <1>4, StreamEncode
<1>5. CASE NextRow
  BY <1>5, StreamNext
<1>6. CASE SendBuffer
  <2>1. pc = "send" /\ err = "nil" /\ pst # "none" /\ conf.format \in {"sql", "csv"}
        /\ UNCHANGED <<conf, pos, idx, opened, files, pst, pbuf, errOccurs, fileSize, rowsErr>>
    BY <1>6, ConfType DEF SendBuffer, env, ControlInv, Feeding
  <2>2. CASE err' # "nil"
    BY <2>2 DEF StreamInv, Intact
  <2>3. CASE err' = "nil"
    <3>1. SUFFICES ASSUME Intact PROVE StreamInv'
      BY <2>1 DEF StreamInv, Intact
    <3>2. input' = Append(input, bf) /\ bf' = <<>> /\ pc' = AfterSend
      BY <1>6, <2>3 DEF SendBuffer, TypeOK, PipeType
    <3>3. Stream' = Stream
      BY <2>1, <3>2, StreamSend
    <3>4. DoneContent' = DoneContent
      BY <2>1, DoneSame
    <3>5. ~Pending /\ ~Pending' /\ Taken' = Taken
      BY <2>1, <3>2 DEF Pending, Taken, AfterSend, Continue
    <3>6. \A e \in Ends : e \in Ends'
      <4>1. CASE conf.format = "csv"
        BY <2>1, <3>2, <4>1 DEF Ends, AfterSend
      <4>2. CASE conf.format = "sql"
        BY <2>1, <3>2, <4>2 DEF Ends, AfterSend, Continue, ShouldSwitchStatement
      <4> QED BY <2>1, <4>1, <4>2
    <3> QED BY <2>1, <3>1, <3>3, <3>4, <3>5, <3>6, StreamCarried
  <2> QED BY <2>2, <2>3
<1>7. CASE FlushBuffer
  <2>1. pc = "flush" /\ pc' = "drain" /\ pst # "none" /\ conf.format \in {"sql", "csv"}
        /\ UNCHANGED <<conf, pos, idx, opened, files, pst, pbuf, err, errOccurs, fileSize>>
    BY <1>7, ConfType DEF FlushBuffer, env, output, ControlInv, Feeding
  <2>2. SUFFICES ASSUME Intact PROVE StreamInv'
    BY <2>1 DEF StreamInv, Intact
  <2>3. Stream' = Stream
    <3>1. CASE bf # <<>>
      BY <1>7, <2>1, <3>1, StreamSend DEF FlushBuffer
    <3>2. CASE bf = <<>>
      BY <1>7, <2>1, <3>2, StreamSame DEF FlushBuffer
    <3> QED BY <3>1, <3>2
  <2>4. DoneContent' = DoneContent
    BY <2>1, DoneSame
  <2>5. ~Pending /\ ~Pending' /\ Taken' = Taken /\ Ends' = Ends
    BY <2>1 DEF Pending, Taken, Ends
  <2> QED BY <2>1, <2>2, <2>3, <2>4, <2>5, StreamCarried
<1>8. CASE DrainPipe \/ RevertMetrics \/ StopPipe \/ JoinPipe
  <2>1. /\ pc \in {"drain", "revert", "stop", "join"} /\ pc' \in {"revert", "stop", "join", "close"}
        /\ UNCHANGED <<conf, pos, idx, opened, files, pst, pbuf, input, bf, errOccurs, fileSize>>
        /\ err' = "nil" => err = "nil"
    BY <1>8 DEF DrainPipe, RevertMetrics, StopPipe, JoinPipe, env, buffer, pipe, output, ControlInv,
                Feeding
  <2>2. SUFFICES ASSUME Intact PROVE StreamInv'
    BY <2>1 DEF StreamInv, Intact
  <2>3. Stream' = Stream /\ DoneContent' = DoneContent
    BY <2>1, StreamSame, DoneSame
  <2>4. ~Pending /\ ~Pending' /\ Taken' = Taken /\ Ends' = Ends
    BY <2>1 DEF Pending, Taken, Ends
  <2> QED BY <2>1, <2>2, <2>3, <2>4, StreamCarried
<1>9. CASE PipeStep
  <2>1. /\ UNCHANGED <<conf, pc, err, pos, idx, rowsErr, bf, fileSize, statementSize>>
        /\ pst # "none" /\ (files' = files \/ PipeWrite)
    BY <1>9 DEF PipeStep, PipeReceive, PipeExit, PipeWrite, PipeAddGauge, PipeCount, env, call,
                buffer, output
  <2>2. SUFFICES ASSUME Intact' PROVE StreamInv'
    BY DEF StreamInv
  <2>3. Intact
    BY <1>9, <2>1, <2>2 DEF Intact, PipeStep, PipeReceive, PipeExit, PipeWrite, PipeAddGauge, PipeCount
  <2>4. (Pending' <=> Pending) /\ Taken' = Taken /\ Ends' = Ends
    BY <2>1 DEF Pending, Taken, Ends, HasNext, ShouldSwitchStatement, ShouldSwitchFile
  <2>5. DoneContent' = DoneContent
    BY <2>1, DoneSame
  <2>6. Stream' = Stream
    <3>1. CASE PipeReceive
      BY <2>1, <2>2, <3>1, StreamReceive DEF PipeReceive, Intact, output
    <3>2. CASE PipeWrite
      BY <2>2, <3>2, StreamWrite DEF Intact
    <3>3. CASE PipeExit \/ PipeAddGauge \/ PipeCount
      <4>1. /\ UNCHANGED <<idx, opened, files, input, bf>> /\ pst # "write" /\ pst' # "write"
        BY <3>3 DEF PipeExit, PipeAddGauge, PipeCount, output, call, buffer
      <4> QED BY <4>1 DEF Stream, Before, Writing
    <3> QED BY <1>9, <3>1, <3>2, <3>3 DEF PipeStep
  <2> QED BY <2>1, <2>3, <2>4, <2>5, <2>6, StreamCarried
<1>10. CASE Cancel \/ UNCHANGED vars
  <2>1. UNCHANGED <<conf, call, buffer, pipe, output>>
    BY <1>10 DEF Cancel, vars, env
  <2>2. UNCHANGED <<conf, pc, err, pos, idx, rowsErr, opened, files, pst, pbuf, input, bf, errOccurs,
                    fileSize, statementSize>>
    BY <2>1 DEF call, buffer, pipe, output
  <2>3. SUFFICES ASSUME Intact PROVE StreamInv'
    BY <2>2 DEF StreamInv, Intact
  <2>4. Stream' = Stream /\ DoneContent' = DoneContent
    BY <2>2, StreamSame, DoneSame
  <2>5. (Pending' <=> Pending) /\ Taken' = Taken /\ Ends' = Ends
    BY <2>2 DEF Pending, Taken, Ends, HasNext, ShouldSwitchStatement, ShouldSwitchFile
  <2> QED BY <2>2, <2>3, <2>4, <2>5, StreamCarried
<1> QED BY <1>1, <1>2, <1>3, <1>4, <1>5, <1>6, <1>7, <1>8, <1>9, <1>10 DEF Next, CallStep
-----------------------------------------------------------------------------
(* The finished files. *)

\* The step of a file: neither the first nor the last of an attempt or a file.
LEMMA SameFile ==
    ASSUME TypeOK, ControlInv, [Next]_vars, ~StartQuery, ~CloseFile
    PROVE  /\ idx' = idx /\ (files' = files \/ PipeWrite) /\ (err' = "nil" => err = "nil")
           /\ Between' => Between
           /\ err' = "nil" /\ pst' = "none" => pst = "none" /\ UNCHANGED <<files, sizeGauge>>
           /\ err' = "nil" /\ pst' = "none" => Taken' = Taken /\ HasNext' = HasNext
<1>1. CASE OpenFile
  <2>1. pc = "open" /\ err = "nil" /\ UNCHANGED <<idx, files, pos, rowsErr, sizeGauge, conf>> /\ Between
    BY <1>1 DEF OpenFile, ControlInv, Between, env
  <2>2. CASE HasNext
    BY <1>1, <2>1, <2>2 DEF OpenFile, Between
  <2>3. CASE ~HasNext
    <3>1. pc' = "close" /\ UNCHANGED pst
      BY <1>1, <2>3 DEF OpenFile, pipe
    <3> QED BY <2>1, <3>1 DEF Taken, HasNext, Between
  <2> QED BY <2>2, <2>3
<1>2. CASE Retry
  BY <1>2 DEF Retry, ControlInv, Between, output
<1>3. CASE BeginStatement \/ EncodeRow \/ NextRow \/ SendBuffer \/ FlushBuffer \/ DrainPipe
           \/ RevertMetrics \/ StopPipe \/ JoinPipe
  <2>1. pst # "none" /\ UNCHANGED <<idx, files, pst>> /\ (err' = "nil" => err = "nil")
    BY <1>3 DEF BeginStatement, EncodeRow, NextRow, SendBuffer, FlushBuffer, DrainPipe, RevertMetrics,
                StopPipe, JoinPipe, pipe, output, ControlInv, Feeding
  <2> QED BY <2>1 DEF Between
<1>4. CASE PipeStep
  <2>1. /\ UNCHANGED <<idx, err>> /\ pst' # "none" /\ (files' = files \/ PipeWrite)
    BY <1>4 DEF PipeStep, PipeReceive, PipeExit, PipeWrite, PipeAddGauge, PipeCount, call, output
  <2> QED BY <2>1 DEF Between
<1>5. CASE Cancel \/ UNCHANGED vars
  <2>1. UNCHANGED <<conf, pc, err, pos, idx, pst, rowsErr, files, sizeGauge>>
    BY <1>5 DEF Cancel, vars, env, call, pipe, output
  <2> QED BY <2>1 DEF Taken, HasNext, Between
<1> QED BY <1>1, <1>2, <1>3, <1>4, <1>5 DEF Next, CallStep

\* The current file becomes one of the finished ones.
LEMMA FileAdded ==
    ASSUME TypeOK, ControlInv, idx \in 1..Len(files)
    PROVE  FlattenSeq(SubSeq(files, 1, idx)) = DoneContent \o files[idx]
<1>1. PICK s \in Seq(Content), c \in Content : s = SubSeq(files, 1, idx - 1) /\ c = files[idx]
  <2>1. files[idx] \in Content
    BY ElementOfSeq DEF TypeOK, OutputType
  <2> QED BY <2>1, DoneContentType, Zenon
<1>2. SubSeq(files, 1, idx) = Append(s, c)
  BY <1>1 DEF TypeOK, OutputType
<1>3. FlattenSeq(Append(s, c)) = FlattenSeq(s) \o c
  BY FlattenAppend, Zenon DEF Content
<1> QED BY <1>1, <1>2, <1>3, Zenon DEF DoneContent

LEMMA DoneStep ==
    ASSUME TypeOK, TypeOK', ControlInv, StreamInv, DoneInv, [Next]_vars PROVE DoneInv'
<1>1. CASE StartQuery
  <2>1. idx' = 1 /\ pos' = 1 /\ pc' \in {"open", "failed"}
    BY <1>1 DEF StartQuery
  <2>2. Taken' = 0
    BY <2>1 DEF Taken
  <2>3. SubSeq(Result, 1, 0) = <<>> /\ SubSeq(files', 1, 0) = <<>>
    BY ConstantsAssumption DEF TypeOK, OutputType
  <2>4. DoneContent' = <<>>
    <3>1. idx' - 1 = 0
      BY <2>1
    <3> QED BY <2>3, <3>1, FlattenEmpty, Zenon DEF DoneContent
  <2>5. RowsIn(DoneContent') = SubSeq(Result, 1, Taken')
    BY <2>2, <2>3, <2>4, RowsInEmpty, Zenon
  <2>6. \A k \in 1..(idx' - 1) : Loadable(files'[k])
    BY <2>1
  <2> QED BY <2>5, <2>6 DEF DoneInv
<1>2. CASE CloseFile
  <2>1. pc = "close" /\ pst' = "none" /\ UNCHANGED <<pos, files>>
    BY <1>2 DEF CloseFile, output
  <2>2. CASE err' # "nil"
    BY <2>2 DEF DoneInv, Between
  <2>3. CASE err' = "nil" /\ pc' # "open"
    <3>1. err = "nil" /\ pc' = "done" /\ idx' = idx
      BY <1>2, <2>3 DEF CloseFile
    <3> QED BY <2>1, <3>1 DEF DoneInv, Between
  <2>4. CASE err' = "nil" /\ pc' = "open"
    <3>1. err = "nil" /\ pst # "none" /\ idx' = idx + 1
      BY <1>2, <2>4 DEF CloseFile
    <3>2. /\ idx \in 1..Len(files) /\ Loadable(files[idx])
          /\ RowsIn(DoneContent \o files[idx]) = SubSeq(Result, 1, Taken)
      BY <2>1, <3>1, FileWritten
    <3>3. DoneContent' = DoneContent \o files[idx]
      <4>1. idx' - 1 = idx
        BY <3>1, <3>2
      <4>2. FlattenSeq(SubSeq(files, 1, idx)) = DoneContent \o files[idx]
        BY <3>2, FileAdded
      <4> QED BY <2>1, <4>1, <4>2, Zenon DEF DoneContent
    <3>4. Taken' = Taken
      BY <2>1, <2>4 DEF Taken
    <3>5. RowsIn(DoneContent') = SubSeq(Result, 1, Taken')
      BY <3>2, <3>3, <3>4, Zenon
    <3>6. \A k \in 1..(idx' - 1) : Loadable(files'[k])
      BY <2>1, <3>1, <3>2 DEF DoneInv
    <3> QED BY <3>5, <3>6 DEF DoneInv
  <2> QED BY <2>2, <2>3, <2>4
<1>3. CASE ~StartQuery /\ ~CloseFile
  <2>1. /\ idx' = idx /\ (files' = files \/ PipeWrite) /\ (err' = "nil" => err = "nil")
        /\ Between' => Between /\ Taken' = Taken
    BY <1>3, SameFile DEF Between
  <2>2. DoneContent' = DoneContent /\ \A k \in 1..(idx - 1) : files'[k] = files[k]
    BY <2>1, DoneSame
  <2>3. ASSUME Between' PROVE RowsIn(DoneContent') = SubSeq(Result, 1, Taken')
    BY <2>1, <2>2, <2>3, Zenon DEF DoneInv
  <2>4. ASSUME err' = "nil" PROVE \A k \in 1..(idx' - 1) : Loadable(files'[k])
    BY <2>1, <2>2, <2>4 DEF DoneInv
  <2> QED BY <2>3, <2>4 DEF DoneInv
<1> QED BY <1>1, <1>2, <1>3

LEMMA LimitStep ==
    ASSUME TypeOK, TypeOK', ControlInv, IteratorInv, StreamInv, LimitInv, [Next]_vars PROVE LimitInv'
<1>1. conf' = conf /\ conf.FileSize \in Nat /\ idx \in Nat \ {0} /\ fileSize \in Nat /\ Len(files) \in Nat
  BY ConfType, ConfUnchanged DEF TypeOK, CallType, BufferType, OutputType
<1>2. SUFFICES ASSUME err' = "nil" PROVE LimitInv'
  BY DEF LimitInv
<1>3. CASE StartQuery
  <2>1. idx' = 1 /\ pst' = "none"
    BY <1>3 DEF StartQuery, pipe, ControlInv
  <2> QED BY <2>1 DEF LimitInv
<1>4. CASE CloseFile
  <2>1. pc = "close" /\ err = "nil" /\ pst' = "none" /\ UNCHANGED <<pos, rowsErr, files, fileSize>>
    BY <1>2, <1>4 DEF CloseFile, output, buffer
  <2>2. HasNext' = HasNext
    BY <2>1 DEF HasNext
  <2>3. CASE pst = "none"
    <3>1. idx' = idx
      BY <1>2, <1>4, <2>3 DEF CloseFile
    <3> QED BY <1>1, <2>1, <2>2, <2>3, <3>1 DEF LimitInv
  <2>4. CASE pst # "none"
    <3>1. idx \in 1..Len(files) /\ Len(files[idx]) = fileSize
      BY <2>1, <2>4, FileWritten
    <3>2. \A k \in 1..(idx - 1) : Len(files[k]) >= conf.FileSize
      BY <2>1, <2>4 DEF LimitInv
    <3>3. conf.FileSize > 1 =>
            fileSize <= conf.FileSize + 1 /\ \A k \in 1..(idx - 1) : Len(files[k]) <= conf.FileSize + 1
      BY <2>1, <2>4 DEF LimitInv
    <3>4. fileSize >= conf.FileSize \/ ~HasNext
      BY <1>1, <2>1, <2>4 DEF IteratorInv, ShouldSwitchFile
    <3>5. idx' \in {idx, idx + 1}
      BY <1>4 DEF CloseFile
    <3>6. ASSUME NEW k \in 1..(idx' - 1) PROVE k \in 1..(idx - 1) \/ (k = idx /\ k = idx' - 1)
      <4>1. CASE idx' = idx
        BY <1>1, <4>1
      <4>2. CASE idx' = idx + 1
        BY <1>1, <4>2
      <4> QED BY <3>5, <4>1, <4>2
    <3>7. \A k \in 1..(idx' - 1) :
            Len(files'[k]) >= conf.FileSize \/ (k = idx' - 1 /\ pst' = "none" /\ ~HasNext')
      BY <2>1, <2>2, <3>1, <3>2, <3>4, <3>6
    <3>8. conf.FileSize > 1 => \A k \in 1..(idx' - 1) : Len(files'[k]) <= conf.FileSize + 1
      BY <2>1, <3>1, <3>3, <3>6
    <3> QED BY <1>1, <2>1, <3>7, <3>8 DEF LimitInv
  <2> QED BY <2>3, <2>4
<1>5. CASE ~StartQuery /\ ~CloseFile
  <2>1. /\ idx' = idx /\ (files' = files \/ PipeWrite) /\ err = "nil"
        /\ pst' = "none" => pst = "none" /\ HasNext' = HasNext
    BY <1>2, <1>5, SameFile
  <2>2. \A k \in 1..(idx - 1) : files'[k] = files[k]
    BY <2>1, DoneSame
  <2>3. pst = "none" /\ pst' # "none" => HasNext
    BY <1>5 DEF Next, CallStep, PipeStep, StartQuery, OpenFile, BeginStatement, EncodeRow, NextRow,
          SendBuffer, FlushBuffer, DrainPipe, RevertMetrics, StopPipe, JoinPipe, Retry,
          PipeReceive, PipeExit, PipeWrite, PipeAddGauge, PipeCount, Cancel, vars, pipe
  <2>4. \A k \in 1..(idx' - 1) :
          Len(files'[k]) >= conf'.FileSize \/ (k = idx' - 1 /\ pst' = "none" /\ ~HasNext')
    BY <1>1, <2>1, <2>2, <2>3 DEF LimitInv
  <2>5. conf'.FileSize > 1 => \A k \in 1..(idx' - 1) : Len(files'[k]) <= conf'.FileSize + 1
    BY <1>1, <2>1, <2>2 DEF LimitInv
  <2>6. ASSUME conf.FileSize > 1, pst' # "none"
        PROVE  /\ fileSize' <= conf.FileSize + 1
               /\ pc' = "row" => fileSize' <= conf.FileSize
               /\ pc' = "statement" => fileSize' < conf.FileSize
    <3>1. CASE OpenFile
      <4>1. pst = "none" /\ HasNext
        BY <2>6, <3>1 DEF OpenFile, ControlInv, pipe
      <4>2. fileSize' = 1
        BY <3>1, <4>1 DEF OpenFile
      <4> QED BY <1>1, <2>6, <4>2
    <3>2. CASE ~OpenFile
      <4>1. pst # "none"
        BY <1>5, <2>6, <3>2 DEF Next, CallStep, PipeStep, StartQuery, BeginStatement, EncodeRow, NextRow,
          SendBuffer, FlushBuffer, DrainPipe, RevertMetrics, StopPipe, JoinPipe, Retry,
          PipeReceive, PipeExit, PipeWrite, PipeAddGauge, PipeCount, Cancel, vars, pipe
      <4>2. /\ fileSize <= conf.FileSize + 1
            /\ pc = "row" => fileSize <= conf.FileSize
            /\ pc = "statement" => fileSize < conf.FileSize
        BY <2>1, <2>6, <4>1 DEF LimitInv
      <4>3. CASE BeginStatement \/ EncodeRow
        BY <1>1, <1>2, <4>2, <4>3 DEF BeginStatement, EncodeRow
      <4>4. CASE NextRow
        <5>1. UNCHANGED fileSize /\ (pc' \in {"row", "statement"} => ~ShouldSwitchFile)
          BY <4>4 DEF NextRow, Continue
        <5> QED BY <1>1, <2>6, <4>2, <5>1 DEF ShouldSwitchFile
      <4>5. CASE SendBuffer
        <5>1. UNCHANGED fileSize /\ (pc' \in {"row", "statement"} => ~ShouldSwitchFile)
          BY <4>5 DEF SendBuffer, AfterSend, Continue
        <5> QED BY <1>1, <2>6, <4>2, <5>1 DEF ShouldSwitchFile
      <4>6. CASE FlushBuffer \/ DrainPipe \/ RevertMetrics \/ StopPipe \/ JoinPipe \/ Retry
        BY <1>2, <4>2, <4>6 DEF FlushBuffer, DrainPipe, RevertMetrics, StopPipe, JoinPipe, Retry, buffer
      <4>7. CASE PipeStep \/ Cancel \/ UNCHANGED vars
        BY <4>2, <4>7 DEF PipeStep, PipeReceive, PipeExit, PipeWrite, PipeAddGauge, PipeCount, Cancel,
                          vars, call, buffer
      <4> QED BY <1>5, <3>2, <4>3, <4>4, <4>5, <4>6, <4>7 DEF Next, CallStep
    <3> QED BY <3>1, <3>2
  <2> QED BY <1>1, <2>4, <2>5, <2>6 DEF LimitInv
<1> QED BY <1>3, <1>4, <1>5
-----------------------------------------------------------------------------
(* The gauges. *)

LEMMA RowsCountedStep ==
    ASSUME TypeOK, TypeOK', ControlInv, IteratorInv, PlaceInv, RowsCounted, tries = 1, tries' = 1,
           [Next]_vars
    PROVE  RowsCounted'
<1>1. /\ conf' = conf /\ conf.format \in {"sql", "csv"} /\ pos \in Nat \ {0} /\ counter \in Nat
      /\ lastCounter \in Nat /\ rowsGauge \in Int
  BY ConfType, ConfUnchanged DEF TypeOK, CallType, BufferType, OutputType
<1>2. conf.FileSize = 0 /\ err = "nil" /\ pst # "none" => TakenBefore = 0
  <2>1. ASSUME conf.FileSize = 0 PROVE (idx - 1) * RowsPerFile(conf) = 0
    <3>1. idx - 1 = 0
      BY <2>1 DEF ControlInv
    <3>2. RowsPerFile(conf) \in Nat
      BY ConfType, RowsPerFileProperties
    <3> QED BY <3>1, <3>2
  <2> QED BY <2>1 DEF PlaceInv
<1>3. Taken \in Int /\ TakenBefore \in Int
  BY <1>1 DEF Taken, TakenBefore
<1>4. CASE StartQuery
  <2>1. /\ rowsGauge = 0 /\ pos' = 1 /\ pst' = "none" /\ pc' \in {"open", "failed"} /\ UNCHANGED rowsGauge
    BY <1>4 DEF StartQuery, RowsCounted, ControlInv, pipe, output
  <2>2. TakenBefore' = 0
    BY <2>1 DEF TakenBefore, Taken
  <2> QED BY <2>1, <2>2 DEF RowsCounted
<1>5. CASE OpenFile
  <2>1. /\ pc = "open" /\ err = "nil" /\ pst = "none" /\ ~rowsErr /\ UNCHANGED <<pos, rowsGauge>>
        /\ TakenBefore = pos - 1
    BY <1>5 DEF OpenFile, ControlInv, IteratorInv, TakenBefore, Taken
  <2>2. rowsGauge = pos - 1
    BY <1>1, <2>1 DEF RowsCounted
  <2>3. CASE HasNext
    <3>1. pc' \in {"statement", "row"} /\ counter' = 0 /\ lastCounter' = 0 /\ pst' = "receive" /\ err' = "nil"
      BY <1>5, <2>1, <2>3 DEF OpenFile
    <3>2. TakenBefore' = pos - 1
      BY <1>1, <2>1, <3>1 DEF TakenBefore, Taken
    <3> QED BY <1>1, <2>1, <2>2, <3>1, <3>2 DEF RowsCounted
  <2>4. CASE ~HasNext
    <3>1. pc' = "close" /\ pst' = "none" /\ err' = "nil"
      BY <1>5, <2>1, <2>4 DEF OpenFile, pipe
    <3>2. TakenBefore' = pos - 1
      BY <2>1, <3>1 DEF TakenBefore, Taken
    <3> QED BY <1>1, <2>1, <2>2, <3>1, <3>2 DEF RowsCounted
  <2> QED BY <2>3, <2>4
<1>6. CASE BeginStatement \/ NextRow \/ FlushBuffer
  <2>1. /\ pc \in {"statement", "next", "flush"} /\ err = "nil" /\ pst # "none"
        /\ UNCHANGED <<err, pst, counter, lastCounter, rowsGauge>>
        /\ pc' \in {"row", "send", "statement", "flush", "drain"}
    BY <1>6 DEF BeginStatement, NextRow, FlushBuffer, Continue, ControlInv, Feeding, pipe, output
  <2>2. Taken' = Taken
    BY <1>1, <1>6 DEF BeginStatement, NextRow, FlushBuffer, Continue, Taken
  <2>3. TakenBefore' = TakenBefore
    BY <2>1, <2>2 DEF TakenBefore
  <2> QED BY <2>1, <2>3 DEF RowsCounted
<1>7. CASE EncodeRow
  <2>1. pc = "row" /\ err = "nil" /\ pst # "none" /\ UNCHANGED <<pst, pos, lastCounter, rowsGauge>>
    BY <1>7 DEF EncodeRow, ControlInv, Feeding, pipe, output
  <2>2. rowsGauge = TakenBefore + lastCounter
    BY <2>1 DEF RowsCounted
  <2>3. CASE err' = "decode" /\ pc' = "revert"
    BY <1>1, <1>2, <2>1, <2>2, <2>3 DEF RowsCounted
  <2>4. CASE /\ counter' = counter + 1 /\ UNCHANGED err /\ pc' \in {"send", "next"}
             /\ pc' = "send" => conf.format = "csv"
    <3>1. Taken' = Taken + 1
      BY <1>1, <2>1, <2>4 DEF Taken
    <3>2. TakenBefore' = TakenBefore
      BY <1>1, <1>3, <2>1, <2>4, <3>1 DEF TakenBefore
    <3> QED BY <2>1, <2>2, <2>4, <3>2 DEF RowsCounted
  <2> QED BY <1>7, <2>3, <2>4 DEF EncodeRow
<1>8. CASE SendBuffer
  <2>1. pc = "send" /\ err = "nil" /\ pst # "none" /\ UNCHANGED <<pst, pos, counter>>
    BY <1>8 DEF SendBuffer, ControlInv, Feeding
  <2>2. rowsGauge = TakenBefore + lastCounter
    BY <2>1 DEF RowsCounted
  <2>3. CASE err' # "nil" /\ pc' = "revert" /\ UNCHANGED <<rowsGauge, lastCounter>>
    BY <1>1, <1>2, <2>1, <2>2, <2>3 DEF RowsCounted
  <2>4. CASE /\ UNCHANGED err /\ pc' = AfterSend
             /\ rowsGauge' = rowsGauge + counter - lastCounter /\ lastCounter' = counter
    <3>1. Taken' = Taken /\ pc' \in {"next", "flush", "statement", "row"}
      BY <1>1, <2>1, <2>4 DEF Taken, AfterSend, Continue
    <3>2. TakenBefore' = TakenBefore
      BY <2>1, <3>1 DEF TakenBefore
    <3>3. rowsGauge' = TakenBefore + lastCounter'
      BY <1>1, <1>3, <2>2, <2>4
    <3> QED BY <2>1, <3>1, <3>2, <3>3 DEF RowsCounted
  <2> QED BY <1>8, <2>3, <2>4 DEF SendBuffer, TypeOK, PipeType
<1>9. CASE DrainPipe
  <2>1. /\ pc = "drain" /\ err = "nil" /\ pst # "none" /\ UNCHANGED <<pst, pos, counter>>
        /\ rowsGauge' = rowsGauge + counter - lastCounter /\ lastCounter' = counter
        /\ pc' = IF err' = "nil" THEN "stop" ELSE "revert"
    BY <1>9 DEF DrainPipe, ControlInv, Feeding, pipe
  <2>2. rowsGauge = TakenBefore + lastCounter
    BY <2>1 DEF RowsCounted
  <2>3. Taken' = Taken
    BY <2>1 DEF Taken
  <2>4. TakenBefore' = TakenBefore
    BY <2>1, <2>3 DEF TakenBefore
  <2>5. rowsGauge' = TakenBefore + lastCounter'
    BY <1>1, <1>3, <2>1, <2>2
  <2> QED BY <1>1, <1>2, <2>1, <2>4, <2>5 DEF RowsCounted
<1>10. CASE RevertMetrics
  <2>1. /\ pc = "revert" /\ err # "nil" /\ UNCHANGED err /\ pc' = "stop"
        /\ rowsGauge' = rowsGauge - lastCounter
    BY <1>10 DEF RevertMetrics, ControlInv
  <2>2. conf.FileSize = 0 => rowsGauge' = 0
    BY <1>1, <2>1 DEF RowsCounted
  <2> QED BY <1>1, <2>1, <2>2 DEF RowsCounted
<1>11. CASE StopPipe \/ JoinPipe
  <2>1. /\ pc \in {"stop", "join"} /\ pc' \in {"join", "close"}
        /\ UNCHANGED <<err, pst, pos, counter, lastCounter, rowsGauge>>
    BY <1>11 DEF StopPipe, JoinPipe, buffer, pipe, output
  <2>2. Taken' = Taken
    BY <2>1 DEF Taken
  <2>3. TakenBefore' = TakenBefore
    BY <2>1, <2>2 DEF TakenBefore
  <2> QED BY <1>1, <2>1, <2>3 DEF RowsCounted
<1>12. CASE CloseFile
  <2>1. /\ pc = "close" /\ pst' = "none" /\ UNCHANGED <<pos, counter, lastCounter, rowsGauge>>
        /\ pc' \in {"failed", "done", "open"} /\ (pc' = "failed" <=> err' # "nil")
        /\ err' \in {err, "close"} /\ (err # "nil" => err' = err) /\ (err' = "nil" => err = "nil")
    BY <1>12 DEF CloseFile, buffer, output
  <2>2. CASE err' # "nil"
    BY <1>1, <2>1, <2>2 DEF RowsCounted
  <2>3. CASE err' = "nil"
    <3>1. Taken = pos - 1 /\ TakenBefore' = pos - 1
      BY <2>1, <2>3 DEF Taken, TakenBefore
    <3>2. rowsGauge = pos - 1
      <4>1. CASE pst = "none"
        BY <1>1, <2>1, <2>3, <3>1, <4>1 DEF RowsCounted, TakenBefore
      <4>2. CASE pst # "none"
        BY <1>1, <2>1, <2>3, <3>1, <4>2 DEF RowsCounted, TakenBefore
      <4> QED BY <4>1, <4>2
    <3> QED BY <1>1, <2>1, <2>3, <3>1, <3>2 DEF RowsCounted
  <2> QED BY <2>2, <2>3
<1>13. CASE Retry
  <2>1. pc' = "done" /\ err' # "nil"
    BY <1>13 DEF Retry, ControlInv
  <2> QED BY <2>1 DEF RowsCounted
<1>14. CASE PipeStep \/ Cancel \/ UNCHANGED vars
  <2>1. /\ UNCHANGED <<conf, pc, err, pos, counter, lastCounter, rowsGauge>>
        /\ pst' = "none" <=> pst = "none"
    BY <1>14 DEF PipeStep, PipeReceive, PipeExit, PipeWrite, PipeAddGauge, PipeCount, Cancel, vars, env,
                 call, buffer, pipe, output
  <2>2. Taken' = Taken
    BY <2>1 DEF Taken
  <2>3. TakenBefore' = TakenBefore
    BY <2>1, <2>2 DEF TakenBefore
  <2> QED BY <2>1, <2>3 DEF RowsCounted
<1> QED BY <1>4, <1>5, <1>6, <1>7, <1>8, <1>9, <1>10, <1>11, <1>12, <1>13, <1>14 DEF Next, CallStep

LEMMA SizeCountedStep ==
    ASSUME TypeOK, TypeOK', ControlInv, ControlInv', StreamInv, SizeCounted, tries' = 1, [Next]_vars
    PROVE  SizeCounted'
<1>1. sizeGauge \in Int /\ Len(DoneContent) \in Nat /\ Len(pbuf) \in Nat
  BY DoneContentType, ContentType DEF TypeOK, PipeType, OutputType
<1>2. CASE StartQuery
  <2>1. sizeGauge' = 0 /\ idx' = 1 /\ pst' = "none" /\ pc' \in {"open", "failed"}
    BY <1>2 DEF StartQuery, SizeCounted, ControlInv, pipe, output
  <2>2. SubSeq(files', 1, 0) = <<>> /\ idx' - 1 = 0
    BY <2>1 DEF TypeOK, OutputType
  <2>3. DoneContent' = <<>>
    BY <2>2, FlattenEmpty, Zenon DEF DoneContent
  <2> QED BY <2>1, <2>3 DEF SizeCounted, Intact
<1>3. CASE CloseFile
  <2>1. /\ pc = "close" /\ pst' = "none" /\ pc' \in {"failed", "done", "open"}
        /\ UNCHANGED <<files, sizeGauge>>
    BY <1>3 DEF CloseFile, output
  <2>2. CASE ~Between'
    BY <2>1, <2>2 DEF SizeCounted, Intact
  <2>3. CASE Between'
    <3>1. pc' = "open" /\ err = "nil" /\ pst # "none" /\ idx' = idx + 1
      BY <1>3, <2>1, <2>3 DEF CloseFile, Between
    <3>2. opened /\ idx \in 1..Len(files)
      BY <2>1, <3>1, FileWritten
    <3>3. DoneContent' = DoneContent \o files[idx]
      <4>1. idx' - 1 = idx
        BY <3>1, <3>2
      <4>2. FlattenSeq(SubSeq(files, 1, idx)) = DoneContent \o files[idx]
        BY <3>2, FileAdded
      <4> QED BY <2>1, <4>1, <4>2, Zenon DEF DoneContent
    <3>4. Before = files[idx] /\ Before \in Content /\ DoneContent \in Content
      <4>1. Before = files[idx]
        BY <3>2, Zenon DEF Before
      <4> QED BY <3>1, <4>1, StreamType
    <3>5. Len(DoneContent') = Len(DoneContent) + Len(Before)
      BY <3>3, <3>4 DEF Content
    <3>6. Intact /\ pst = "exited"
      BY <2>1, <3>1 DEF ControlInv, Intact
    <3>7. sizeGauge = Len(DoneContent) + Len(Before)
      BY <1>1, <3>4, <3>6, ContentType DEF SizeCounted
    <3> QED BY <2>1, <3>1, <3>5, <3>7 DEF SizeCounted, Intact
  <2> QED BY <2>2, <2>3
<1>4. CASE OpenFile
  <2>1. Between /\ UNCHANGED <<idx, files, sizeGauge>> /\ opened' = FALSE /\ pc' # "query"
    BY <1>4 DEF OpenFile, ControlInv, Between
  <2>2. DoneContent' = DoneContent
    BY <2>1 DEF DoneContent
  <2>3. Before' = <<>> /\ pst' # "gauge"
    <3>1. Before' = <<>>
      BY <2>1, Zenon DEF Before
    <3>2. pst' # "gauge"
      BY <1>4, <2>1 DEF OpenFile, Between, pipe
    <3> QED BY <3>1, <3>2
  <2>4. sizeGauge = Len(DoneContent)
    BY <2>1 DEF SizeCounted
  <2>5. Len(Before') = 0
    BY <2>3
  <2> QED BY <1>1, <2>1, <2>2, <2>3, <2>4, <2>5 DEF SizeCounted
<1>5. CASE Retry
  <2>1. pc' = "done" /\ err' # "nil"
    BY <1>5 DEF Retry, ControlInv, TypeOK, CallType
  <2> QED BY <2>1 DEF SizeCounted, Between, Intact
<1>6. CASE ~StartQuery /\ ~CloseFile /\ ~OpenFile /\ ~Retry
  <2>1. idx' = idx /\ (files' = files \/ PipeWrite) /\ (err' = "nil" => err = "nil") /\ (Between' => Between)
    BY <1>6, SameFile
  <2>2. DoneContent' = DoneContent
    BY <2>1, DoneSame
  <2>3. pc' = "query" => pc = "query" /\ UNCHANGED sizeGauge
    <3>1. CASE PipeStep \/ Cancel \/ UNCHANGED vars
      BY <3>1 DEF PipeStep, PipeReceive, PipeExit, PipeWrite, PipeAddGauge, PipeCount, Cancel, vars, call,
                  output, ControlInv
    <3>2. CASE CallStep
      BY <1>6, <3>2 DEF CallStep, BeginStatement, EncodeRow, NextRow, SendBuffer, FlushBuffer, DrainPipe,
                  RevertMetrics, StopPipe, JoinPipe, AfterSend, Continue
    <3> QED BY <3>1, <3>2 DEF Next
  <2>4. ASSUME Between' PROVE sizeGauge' = Len(DoneContent')
    <3>1. UNCHANGED sizeGauge
      BY <1>6, <2>4, SameFile DEF Between
    <3> QED BY <2>1, <2>2, <2>4, <3>1 DEF SizeCounted
  <2>5. ASSUME Intact'
        PROVE  sizeGauge' = Len(DoneContent') + Len(Before') - (IF pst' = "gauge" THEN Len(pbuf') ELSE 0)
    <3>1. CASE PipeWrite
      <4>1. Before' = Before \o pbuf /\ pst' = "gauge" /\ pst = "write" /\ UNCHANGED <<pbuf, sizeGauge>> /\ Intact
        <5>1. ~errOccurs'
          BY <2>5 DEF Intact
        <5>2. Before' = Before \o pbuf
          BY <3>1, <5>1, StreamWrite, Zenon
        <5>3. pst' = "gauge" /\ pst = "write" /\ UNCHANGED <<pbuf, sizeGauge>> /\ Intact
          BY <2>5, <3>1 DEF PipeWrite, Intact, call
        <5> QED BY <5>2, <5>3
      <4>2. Before \in Content /\ pbuf \in Content
        BY <4>1, StreamType DEF TypeOK, PipeType
      <4>3. Len(Before') = Len(Before) + Len(pbuf) /\ Len(Before) \in Nat
        BY <4>1, <4>2 DEF Content
      <4>4. sizeGauge = Len(DoneContent) + Len(Before)
        BY <1>1, <4>1, <4>3 DEF SizeCounted
      <4> QED BY <1>1, <2>2, <4>1, <4>3, <4>4
    <3>2. CASE PipeAddGauge
      <4>1. /\ pst = "gauge" /\ pst' = "count" /\ sizeGauge' = sizeGauge + Len(pbuf) /\ Intact
            /\ UNCHANGED <<opened, files, idx>>
        BY <2>5, <3>2 DEF PipeAddGauge, Intact, call
      <4>2. Before' = Before
        BY <4>1 DEF Before
      <4>3. Len(Before) \in Nat
        BY <4>1, StreamType, ContentType
      <4>4. sizeGauge = Len(DoneContent) + Len(Before) - Len(pbuf)
        BY <4>1 DEF SizeCounted
      <4> QED BY <1>1, <2>2, <4>1, <4>2, <4>3, <4>4
    <3>3. CASE ~PipeWrite /\ ~PipeAddGauge
      <4>1. /\ UNCHANGED <<opened, files, idx>> /\ Intact
            /\ UNCHANGED sizeGauge /\ (pst' = "gauge" <=> pst = "gauge") /\ (pst = "gauge" => UNCHANGED pbuf)
        <5>1. CASE CallStep
          BY <1>6, <2>1, <2>5, <3>3, <5>1 DEF CallStep, BeginStatement, EncodeRow, NextRow, SendBuffer,
             FlushBuffer, DrainPipe, RevertMetrics, StopPipe, JoinPipe, pipe, output, Intact, ControlInv
        <5>2. CASE PipeStep \/ Cancel \/ UNCHANGED vars
          BY <2>5, <3>3, <5>2 DEF PipeStep, PipeReceive, PipeExit, PipeCount, Cancel, vars, call, pipe,
             output, Intact
        <5> QED BY <5>1, <5>2 DEF Next
      <4>2. Before' = Before
        BY <4>1 DEF Before
      <4> QED BY <2>2, <4>1, <4>2 DEF SizeCounted
    <3> QED BY <3>1, <3>2, <3>3
  <2> QED BY <2>3, <2>4, <2>5 DEF SizeCounted
<1> QED BY <1>2, <1>3, <1>4, <1>5, <1>6

LEMMA GaugeStep ==
    ASSUME TypeOK, TypeOK', ControlInv, ControlInv', IteratorInv, PlaceInv, StreamInv, GaugeInv, [Next]_vars
    PROVE  GaugeInv'
<1>1. SUFFICES ASSUME tries' = 1 PROVE RowsCounted' /\ SizeCounted'
  BY DEF GaugeInv
<1>2. tries = 1
  <2>1. tries \in Nat /\ tries >= 1
    BY Bounds DEF TypeOK, CallType
  <2>2. tries' \in {tries, tries + 1}
    BY DEF Next, CallStep, PipeStep, StartQuery, OpenFile, BeginStatement, EncodeRow, NextRow,
           SendBuffer, FlushBuffer, DrainPipe, RevertMetrics, StopPipe, JoinPipe, CloseFile, Retry,
           PipeReceive, PipeExit, PipeWrite, PipeAddGauge, PipeCount, Cancel, vars, call
  <2> QED BY <1>1, <2>1, <2>2
<1>3. RowsCounted /\ SizeCounted
  BY <1>2 DEF GaugeInv
<1> QED BY <1>1, <1>2, <1>3, RowsCountedStep, SizeCountedStep
-----------------------------------------------------------------------------
(* What a successful call leaves behind. *)

\* The last file of a call that succeeds is closed: all files together are those of
\* this attempt.
LEMMA CallSucceeds ==
    ASSUME TypeOK, ControlInv, IteratorInv, PlaceInv, StreamInv, DoneInv, CloseFile, err' = "nil", pc' = "done"
    PROVE  /\ pc = "close" /\ err = "nil" /\ files' = files
           /\ Taken = Len(Result) /\ RowsIn(FlattenSeq(files)) = Result
           /\ \/ pst = "none" /\ Len(files) = idx - 1 /\ FlattenSeq(files) = DoneContent /\ ~HasNext
              \/ /\ pst # "none" /\ conf.FileSize = 0 /\ idx = 1 /\ Len(files) = 1
                 /\ FlattenSeq(files) = DoneContent \o files[1]
<1>1. /\ pc = "close" /\ err = "nil" /\ files' = files
      /\ pst = "none" \/ conf.FileSize = 0
  BY DEF CloseFile, output
<1>2. /\ files \in Seq(Content) /\ idx \in Nat \ {0} /\ pos \in Nat \ {0} /\ Len(Result) \in Nat
      /\ idx <= Len(files) + 1 /\ Len(files) \in Nat /\ conf \in Config /\ pos <= Len(Result) + 1
  BY Results, ConfType DEF TypeOK, CallType, OutputType, ControlInv, IteratorInv
<1>3. PICK R \in Nat \ {0} : R = RowsPerFile(conf)
  BY <1>2, RowsPerFileProperties
<1>4. \A k \in 1..Len(files) : (k - 1) * R < Len(Result)
  BY <1>3 DEF PlaceInv
<1>5. ~rowsErr /\ Taken = pos - 1
  BY <1>1 DEF IteratorInv, Taken
<1>6. SubSeq(files, 1, Len(files)) = files
  BY <1>2
<1>7. SubSeq(Result, 1, Len(Result)) = Result
  BY ConstantsAssumption
<1>8. CASE pst = "none"
  <2>1. Between /\ ~HasNext
    BY <1>1, <1>8 DEF Between, IteratorInv
  <2>2. Taken = Len(Result)
    BY <1>2, <1>5, <2>1 DEF HasNext
  <2>3. Len(Result) <= (idx - 1) * R
    BY <1>3, <2>1 DEF PlaceInv
  <2>4. Len(files) = idx - 1
    <3>1. idx \notin 1..Len(files)
      <4>1. PICK m \in Nat : m = (idx - 1) * R
        BY <1>2
      <4> QED BY <1>2, <1>4, <2>3, <4>1
    <3> QED BY <1>2, <3>1
  <2>5. FlattenSeq(files) = DoneContent
    BY <1>6, <2>4, Zenon DEF DoneContent
  <2>6. RowsIn(DoneContent) = SubSeq(Result, 1, Taken)
    BY <2>1 DEF DoneInv
  <2>7. RowsIn(FlattenSeq(files)) = Result
    BY <1>7, <2>2, <2>5, <2>6, Zenon
  <2> QED BY <1>1, <1>8, <2>1, <2>2, <2>4, <2>5, <2>7
<1>9. CASE pst # "none"
  <2>1. conf.FileSize = 0 /\ idx = 1 /\ R = Len(Result) + 1
    BY <1>1, <1>2, <1>3, <1>9, RowsPerFileProperties DEF ControlInv
  <2>2. idx \in 1..Len(files) /\ RowsIn(DoneContent \o files[idx]) = SubSeq(Result, 1, Taken)
    BY <1>1, <1>9, FileWritten
  <2>3. ~HasNext
    BY <1>1, <1>9, <2>1 DEF IteratorInv, ShouldSwitchFile
  <2>4. Taken = Len(Result)
    BY <1>2, <1>5, <2>3 DEF HasNext
  <2>5. Len(files) = 1
    <3>1. (2 - 1) * R = R
      OBVIOUS
    <3>2. 2 \notin 1..Len(files)
      BY <1>2, <1>4, <2>1, <3>1
    <3> QED BY <1>2, <2>1, <2>2, <3>2
  <2>6. FlattenSeq(SubSeq(files, 1, idx)) = DoneContent \o files[idx]
    BY <2>2, FileAdded
  <2>7. FlattenSeq(files) = DoneContent \o files[1]
    BY <1>6, <2>1, <2>5, <2>6, Zenon
  <2>8. RowsIn(FlattenSeq(files)) = Result
    BY <1>7, <2>1, <2>2, <2>4, <2>7, Zenon
  <2> QED BY <1>1, <1>9, <2>1, <2>4, <2>5, <2>7, <2>8
<1> QED BY <1>8, <1>9

\* Nothing happens after the call has succeeded.
LEMMA SuccessIsFinal ==
    ASSUME ControlInv, [Next]_vars, ~CloseFile, Succeeded'
    PROVE  Succeeded /\ UNCHANGED <<conf, tries, files, rowsGauge, sizeGauge>>
<1>1. CASE CallStep
  <2>1. pc' # "done" \/ Retry
    BY <1>1 DEF CallStep, StartQuery, OpenFile, BeginStatement, EncodeRow, NextRow, SendBuffer,
           FlushBuffer, DrainPipe, RevertMetrics, StopPipe, JoinPipe, AfterSend, Continue
  <2>2. ~Retry
    BY DEF Retry, ControlInv, Succeeded
  <2> QED BY <2>1, <2>2 DEF Succeeded
<1>2. CASE PipeStep
  BY <1>2 DEF PipeStep, PipeReceive, PipeExit, PipeWrite, PipeAddGauge, PipeCount, call, Succeeded,
              ControlInv
<1>3. CASE Cancel \/ UNCHANGED vars
  BY <1>3 DEF Cancel, vars, env, call, output, Succeeded
<1> QED BY <1>1, <1>2, <1>3 DEF Next

LEMMA FinalStep ==
    ASSUME TypeOK, ControlInv, IteratorInv, PlaceInv, StreamInv, DoneInv, LimitInv, GaugeInv,
           FilesHoldTheRows, FilesLoadable, FilesOfTheRightSize, CountedOnce, [Next]_vars
    PROVE  FilesHoldTheRows' /\ FilesLoadable' /\ FilesOfTheRightSize' /\ CountedOnce'
<1>1. SUFFICES ASSUME Succeeded'
               PROVE  FilesHoldTheRows' /\ FilesLoadable' /\ FilesOfTheRightSize' /\ CountedOnce'
  BY DEF FilesHoldTheRows, FilesLoadable, FilesOfTheRightSize, CountedOnce
<1>2. CASE ~CloseFile
  <2>1. Succeeded /\ UNCHANGED <<conf, tries, files, rowsGauge, sizeGauge>>
    BY <1>1, <1>2, SuccessIsFinal
  <2>2. FilesHoldTheRows'
    BY <2>1 DEF FilesHoldTheRows
  <2>3. FilesLoadable'
    BY <2>1 DEF FilesLoadable
  <2>4. FilesOfTheRightSize'
    BY <2>1 DEF FilesOfTheRightSize
  <2>5. CountedOnce'
    BY <2>1 DEF CountedOnce
  <2> QED BY <2>2, <2>3, <2>4, <2>5
<1>3. CASE CloseFile
  <2>1. err' = "nil" /\ pc' = "done"
    BY <1>1 DEF Succeeded
  <2>2. /\ pc = "close" /\ err = "nil" /\ files' = files
        /\ Taken = Len(Result) /\ RowsIn(FlattenSeq(files)) = Result
        /\ \/ pst = "none" /\ Len(files) = idx - 1 /\ FlattenSeq(files) = DoneContent /\ ~HasNext
           \/ /\ pst # "none" /\ conf.FileSize = 0 /\ idx = 1 /\ Len(files) = 1
              /\ FlattenSeq(files) = DoneContent \o files[1]
    BY <1>3, <2>1, CallSucceeds
  <2>3. UNCHANGED <<conf, tries, files, rowsGauge, sizeGauge>>
    BY <1>3 DEF CloseFile, output
  <2>4. FilesHoldTheRows'
    BY <2>2, Zenon DEF FilesHoldTheRows
  <2>5. FilesLoadable'
    <3>1. CASE pst = "none"
      BY <2>2, <3>1 DEF DoneInv, FilesLoadable
    <3>2. CASE pst # "none"
      <4>1. Loadable(files[1]) /\ Len(files) = 1
        BY <2>2, <3>2, FileWritten
      <4> QED BY <2>2, <4>1 DEF FilesLoadable
    <3> QED BY <3>1, <3>2
  <2>6. FilesOfTheRightSize'
    <3>1. CASE pst = "none"
      <4>1. Len(files) = idx - 1 /\ idx \in Nat
        BY <2>2, <3>1 DEF TypeOK, CallType
      <4>2. \A k \in 1..(idx - 1) : k # idx - 1 => Len(files[k]) >= conf.FileSize
        BY <2>2 DEF LimitInv
      <4>3. conf.FileSize > 1 => \A k \in 1..(idx - 1) : Len(files[k]) <= conf.FileSize + 1
        BY <2>2 DEF LimitInv
      <4> QED BY <2>3, <4>1, <4>2, <4>3 DEF FilesOfTheRightSize
    <3>2. CASE pst # "none"
      BY <2>2, <2>3, <3>2 DEF FilesOfTheRightSize
    <3> QED BY <3>1, <3>2
  <2>7. CountedOnce'
    <3>1. SUFFICES ASSUME tries = 1 PROVE rowsGauge = Len(Result) /\ sizeGauge = Len(FlattenSeq(files))
      BY <2>3 DEF CountedOnce
    <3>2. RowsCounted /\ SizeCounted
      BY <3>1 DEF GaugeInv
    <3>3. /\ Len(Result) \in Nat /\ counter \in Nat /\ DoneContent \in Content /\ Len(DoneContent) \in Nat
      BY Results, DoneContentType, ContentType DEF TypeOK, BufferType
    <3>4. CASE pst = "none"
      BY <2>2, <3>2, <3>3, <3>4 DEF RowsCounted, SizeCounted, TakenBefore, Between
    <3>5. CASE pst # "none"
      <4>1. rowsGauge = Len(Result)
        BY <2>2, <3>2, <3>3, <3>5 DEF RowsCounted, TakenBefore
      <4>2. Intact /\ pst = "exited"
        BY <2>2, <3>5 DEF ControlInv, Intact
      <4>3. opened
        BY <2>2, <3>5, FileWritten
      <4>4. Before = files[1] /\ Before \in Content
        <5>1. Before = files[idx]
          BY <4>3, Zenon DEF Before
        <5> QED BY <2>2, <3>5, <5>1, StreamType
      <4>5. sizeGauge = Len(DoneContent) + Len(Before)
        BY <3>2, <3>3, <4>2, <4>4, ContentType DEF SizeCounted
      <4>6. Len(DoneContent \o Before) = Len(DoneContent) + Len(Before)
        BY <3>3, <4>4 DEF Content
      <4> QED BY <2>2, <3>5, <4>1, <4>4, <4>5, <4>6
    <3> QED BY <3>4, <3>5
  <2> QED BY <2>4, <2>5, <2>6, <2>7
<1> QED BY <1>2, <1>3
-----------------------------------------------------------------------------
(* The theorems. *)

LEMMA InitIInv == ASSUME Init PROVE IInv
<1>1. TypeOK
  <2>1. CallType
    <3>1. 0 \in 0..MaxFaults /\ 1 \in 1..MaxAttempts
      BY Bounds
    <3>2. ctxDone \in BOOLEAN /\ rowsErr \in BOOLEAN
      BY Zenon DEF Init
    <3> QED BY <3>1, <3>2 DEF Init, CallType, Errors
  <2>2. BufferType
    BY ContentType DEF Init, BufferType
  <2>3. PipeType
    <3>1. pbuf \in Content /\ input \in Seq(Content) /\ Len(input) <= PipeCap
      BY Bounds, ContentType DEF Init
    <3> QED BY <3>1 DEF Init, PipeType
  <2>4. OutputType
    <3>1. files \in Seq(Content)
      BY DEF Init
    <3>2. opened \in BOOLEAN
      BY Zenon DEF Init
    <3> QED BY <3>1, <3>2 DEF Init, OutputType
  <2> QED BY <2>1, <2>2, <2>3, <2>4 DEF TypeOK
<1>2. /\ pc = "query" /\ err = "nil" /\ pst = "none" /\ pos = 1 /\ ~rowsErr /\ idx = 1 /\ files = <<>>
      /\ rowsGauge = 0 /\ sizeGauge = 0 /\ Len(files) = 0 /\ Len(Result) \in Nat
  BY Results DEF Init
<1>3. ControlInv /\ IteratorInv /\ SizeInv
  BY <1>2, Results DEF ControlInv, IteratorInv, SizeInv, Feeding, Pending
<1>4. PlaceInv
  <2>1. RowsPerFile(conf) \in Nat
    BY <1>1, ConfType, RowsPerFileProperties
  <2>2. (idx - 1) * RowsPerFile(conf) = 0 /\ Taken = 0
    BY <1>2, <2>1 DEF Taken
  <2> QED BY <1>2, <2>2 DEF PlaceInv, TakenBefore, HasNext
<1>5. DoneContent = <<>> /\ Taken = 0
  <2>1. idx - 1 = 0 /\ SubSeq(files, 1, 0) = <<>>
    BY <1>1, <1>2 DEF TypeOK, OutputType
  <2>2. DoneContent = <<>>
    BY <2>1, FlattenEmpty, Zenon DEF DoneContent
  <2> QED BY <1>2, <2>2 DEF Taken
<1>6. StreamInv
  BY <1>2 DEF StreamInv, Intact
<1>7. DoneInv
  <2>1. SubSeq(Result, 1, 0) = <<>>
    BY ConstantsAssumption
  <2>2. RowsIn(DoneContent) = SubSeq(Result, 1, Taken)
    BY <1>5, <2>1, RowsInEmpty, Zenon
  <2> QED BY <1>2, <2>2 DEF DoneInv
<1>8. LimitInv
  BY <1>2 DEF LimitInv
<1>9. GaugeInv
  BY <1>2, <1>5 DEF GaugeInv, RowsCounted, SizeCounted, TakenBefore, Intact
<1>10. FilesHoldTheRows /\ FilesLoadable /\ FilesOfTheRightSize /\ CountedOnce
  BY <1>2 DEF FilesHoldTheRows, FilesLoadable, FilesOfTheRightSize, CountedOnce, Succeeded
<1> QED BY <1>1, <1>3, <1>4, <1>6, <1>7, <1>8, <1>9, <1>10 DEF IInv

LEMMA NextIInv == ASSUME IInv, [Next]_vars PROVE IInv'
<1>1. /\ TypeOK /\ ControlInv /\ IteratorInv /\ SizeInv /\ PlaceInv
      /\ StreamInv /\ DoneInv /\ LimitInv /\ GaugeInv
      /\ FilesHoldTheRows /\ FilesLoadable /\ FilesOfTheRightSize /\ CountedOnce
  BY DEF IInv
<1>2. TypeOK'
  BY <1>1, TypeStep
<1>3. ControlInv' /\ IteratorInv'
  BY <1>1, ControlStep, IteratorStep
<1>4. SizeInv' /\ PlaceInv'
  BY <1>1, SizeStepInv, PlaceStep
<1>5. StreamInv' /\ DoneInv'
  BY <1>1, <1>2, StreamStep, DoneStep
<1>6. LimitInv' /\ GaugeInv'
  BY <1>1, <1>2, <1>3, LimitStep, GaugeStep
<1>7. FilesHoldTheRows' /\ FilesLoadable' /\ FilesOfTheRightSize' /\ CountedOnce'
  BY <1>1, FinalStep
<1> QED BY <1>2, <1>3, <1>4, <1>5, <1>6, <1>7 DEF IInv

\* However the call, its pipe, the faults and the retries interleave, the state of
\* the call keeps its types and all parts fit together (WriteTableData).
THEOREM CallInvariant == Spec => []IInv
<1>1. Init => IInv
  BY InitIInv
<1>2. IInv /\ [Next]_vars => IInv'
  BY NextIInv
<1> QED BY <1>1, <1>2, PTL DEF Spec

\* A chunk that was written successfully is complete: whatever the limits of files,
\* statements and buffers, and however many attempts failed before, the files hold
\* each row once and in order, and nothing else.
THEOREM NoRowLostOrDoubled == Spec => []FilesHoldTheRows
<1>1. IInv => FilesHoldTheRows
  BY DEF IInv
<1> QED BY <1>1, CallInvariant, PTL

\* Each file of a successful call consists of complete statements.
THEOREM EachFileLoads == Spec => []FilesLoadable
<1>1. IInv => FilesLoadable
  BY DEF IInv
<1> QED BY <1>1, CallInvariant, PTL

\* Files are switched at the limit of -F.
THEOREM FileLimit == Spec => []FilesOfTheRightSize
<1>1. IInv => FilesOfTheRightSize
  BY DEF IInv
<1> QED BY <1>1, CallInvariant, PTL

\* A file is closed only after its pipe has stopped.
THEOREM NoWriteAfterClose == Spec => []PipeStopsFirst
<1>1. IInv => PipeStopsFirst
  BY DEF IInv, ControlInv, PipeStopsFirst
<1> QED BY <1>1, CallInvariant, PTL

\* The first attempt at a chunk takes back the rows it has counted when it fails.
THEOREM FailureTakesBackRows == Spec => []FailedAttemptUncounted
<1>1. ASSUME IInv PROVE FailedAttemptUncounted
  <2>1. ControlInv /\ GaugeInv
    BY <1>1 DEF IInv
  <2> QED BY <2>1 DEF GaugeInv, RowsCounted, ControlInv, FailedAttemptUncounted
<1> QED BY <1>1, CallInvariant, PTL

\* A first attempt that succeeds counts each row and each piece once.
THEOREM CountsMatchTheFiles == Spec => []CountedOnce
<1>1. IInv => CountedOnce
  BY DEF IInv
<1> QED BY <1>1, CallInvariant, PTL
=============================================================================
