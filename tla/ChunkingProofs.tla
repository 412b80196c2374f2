--------------------------- MODULE ChunkingProofs ---------------------------
(* Proofs about Chunking, for every table, option and word size. *)
EXTENDS Chunking, Induction

USE DEF Max2, Task, Send, Return

\* Integer division of a larger by a smaller positive number is positive.
LEMMA DivPositive ==
    ASSUME NEW a \in Nat, NEW b \in Nat, b > 0, a >= b
    PROVE  a \div b \in Nat /\ a \div b >= 1
  OBVIOUS

\* The remainder and the quotient used for the step of the key ranges.
LEMMA StepIsNat ==
    ASSUME InputsAssumption, NEW w \in Int, NEW c \in Nat, c >= 1
    PROVE  (w % Word) \in Nat /\ ((w % Word) \div c + 1) % Word \in Nat
  <1>1. (w % Word) \in Nat  BY DEF InputsAssumption
  <1>2. (w % Word) \div c \in Int  BY <1>1
  <1> QED BY <1>1, <1>2 DEF InputsAssumption

\* A ctid chunk has at least one page, and the number of chunks is an integer.
LEMMA CtidStepIsPos ==
    ASSUME NEW p \in Nat, NEW c \in Nat, p > 0,
           NEW s, s = Max2(p \div Max2(c, 1), 1)
    PROVE  /\ s \in Nat /\ s >= 1
           /\ \A d \in Nat : d >= 1 => (p + d - 1) \div d \in Int
  <1>1. p \div Max2(c, 1) \in Int  OBVIOUS
  <1> QED BY <1>1

\* A number lies below the next multiple of a divisor.
LEMMA DivBound ==
    ASSUME NEW a \in Nat, NEW b \in Nat, b >= 1
    PROVE  a \div b \in Nat /\ a < b * (a \div b + 1)
  OBVIOUS

\* A smaller number of steps goes less far.
LEMMA TimesMonotone ==
    ASSUME NEW m \in Int, NEW n \in Int, NEW s \in Nat, n <= m
    PROVE  n * s <= m * s
  OBVIOUS

\* One step more.
LEMMA TimesNext ==
    ASSUME NEW n \in Int, NEW s \in Int
    PROVE  (n + 1) * s = n * s + s
  OBVIOUS

\* The number of steps that p pages take is their quotient, rounded up.
LEMMA CeilUnique ==
    ASSUME NEW n \in Int, NEW p \in Nat, NEW s \in Nat, s >= 1, (n - 1) * s < p, p <= n * s
    PROVE  (p + s - 1) \div s = n
  <1> DEFINE q == (p + s - 1) \div s
  <1>1. q \in Int /\ q * s <= p + s - 1 /\ p + s - 1 < q * s + s  OBVIOUS
  <1> HIDE DEF q
  <1>2. (n - 1) * s = n * s - s  OBVIOUS
  <1>3. CASE q <= n - 1
    <2>1. q * s <= (n - 1) * s  BY <1>1, <1>3, TimesMonotone
    <2> QED BY <1>1, <1>2, <2>1
  <1>4. CASE q >= n + 1
    <2>1. (n + 1) * s <= q * s  BY <1>1, <1>4, TimesMonotone
    <2>2. (n + 1) * s = n * s + s  BY TimesNext
    <2> QED BY <1>1, <1>2, <2>1, <2>2
  <1>5. q = n  BY <1>1, <1>3, <1>4
  <1> QED BY <1>5 DEF q
-----------------------------------------------------------------------------
(* Sending one more task. *)

TaskType == [clause : Clause, index : Nat, total : Int]

\* What a sent task does to the rows it selects and to the others.
LEMMA SendEffect ==
    ASSUME sent \in Seq(TaskType), NEW m \in TaskType, sent' = Append(sent, m), NEW r
    PROVE  /\ TakenOnce(r) /\ ~Selects(m.clause, r) => TakenOnce(r)'
           /\ NotTaken(r) /\ Selects(m.clause, r) => TakenOnce(r)'
           /\ NotTaken(r) /\ ~Selects(m.clause, r) => NotTaken(r)'
  <1>1. /\ Len(sent) \in Nat /\ Len(sent') = Len(sent) + 1
        /\ \A i \in 1..Len(sent) : sent'[i] = sent[i]
        /\ sent'[Len(sent) + 1] = m
    OBVIOUS
  <1>2. ASSUME TakenOnce(r), ~Selects(m.clause, r) PROVE TakenOnce(r)'
    <2>1. PICK i \in 1..Len(sent) : TakenOnceBy(i, r)  BY <1>2 DEF TakenOnce
    <2>2. TakenOnceBy(i, r)'
      <3>1. Selects(sent'[i].clause, r)  BY <1>1, <2>1 DEF TakenOnceBy
      <3>2. ASSUME NEW j \in 1..Len(sent'), Selects(sent'[j].clause, r) PROVE j = i
        BY <1>1, <1>2, <2>1, <3>2 DEF TakenOnceBy
      <3> QED BY <3>1, <3>2 DEF TakenOnceBy, Selects
    <2> QED BY <1>1, <2>2 DEF TakenOnce
  <1>3. ASSUME NotTaken(r), Selects(m.clause, r) PROVE TakenOnce(r)'
    <2>1. PICK n \in Nat : n = Len(sent) + 1  BY <1>1
    <2>2. TakenOnceBy(n, r)'
      <3>1. Selects(sent'[n].clause, r)  BY <1>1, <1>3, <2>1
      <3>2. ASSUME NEW j \in 1..Len(sent'), Selects(sent'[j].clause, r) PROVE j = n
        BY <1>1, <1>3, <2>1, <3>2 DEF NotTaken
      <3> QED BY <3>1, <3>2 DEF TakenOnceBy, Selects
    <2>3. n \in 1..Len(sent')  BY <1>1, <2>1
    <2> QED BY <2>2, <2>3 DEF TakenOnce
  <1>4. ASSUME NotTaken(r), ~Selects(m.clause, r) PROVE NotTaken(r)'
    BY <1>1, <1>4 DEF NotTaken, Selects
  <1> QED BY <1>2, <1>3, <1>4
-----------------------------------------------------------------------------
(* The inductive invariant. *)

LEMMA InputTypes ==
    ASSUME InputsAssumption, in \in Inputs
    PROVE  /\ in.rows \in Nat /\ in.where \in BOOLEAN /\ in.count \in Nat /\ in.pages \in Nat
           /\ in.min \in Int /\ in.max \in Int /\ in.min <= in.max /\ in.max - in.min < Word
  BY DEF InputsAssumption, Input

LEMMA RowTypes ==
    ASSUME InputsAssumption, NEW r \in Rows
    PROVE  r.null \in BOOLEAN /\ r.key \in Int /\ r.block \in Nat
  BY DEF InputsAssumption, Row

\* A step that sends nothing leaves every row where it was.
LEMMA SameSent ==
    ASSUME UNCHANGED sent, NEW r
    PROVE  (TakenOnce(r)' <=> TakenOnce(r)) /\ (NotTaken(r)' <=> NotTaken(r))
  BY DEF TakenOnce, TakenOnceBy, NotTaken, Selects

\* Before the first task no row is taken.
LEMMA NoneTaken ==
    ASSUME sent = <<>>, NEW r
    PROVE  NotTaken(r)
  BY DEF NotTaken

LEMMA TypeStep ==
    ASSUME InputsAssumption, TypeOK, WorthSplitting, [Next]_vars
    PROVE  TypeOK'
  <1>0. sent \in Seq(TaskType)  BY DEF TypeOK, TaskType
  <1>1. /\ in.rows \in Nat /\ in.count \in Nat /\ in.pages \in Nat /\ in.min \in Int /\ in.max \in Int
    BY InputTypes DEF TypeOK
  <1>2. ASSUME pc \in {"bounds", "pages"} PROVE EstimatedChunks \in Nat /\ EstimatedChunks >= 1
    BY <1>1, <1>2, DivPositive DEF TypeOK, WorthSplitting, EstimatedChunks
  <1>3. ASSUME SelectMinAndMax PROVE TypeOK'
    <2>1. EstimatedStep \in Nat /\ (Width + 1) % Word \in Int
      <3>1. in.max - in.min \in Int  BY <1>1
      <3>2. Width \in Nat  BY <3>1 DEF Width, InputsAssumption
      <3> QED BY <1>2, <1>3, <3>1, <3>2, StepIsNat DEF EstimatedStep, Width, SelectMinAndMax, InputsAssumption
    <2>2. nulls' \in BOOLEAN  BY <1>3 DEF TypeOK, SelectMinAndMax
    <2>3. step' \in Nat /\ cutoff' \in Int /\ total' \in Int
      BY <1>1, <1>2, <1>3, <2>1 DEF TypeOK, SelectMinAndMax
    <2> QED BY <1>3, <2>2, <2>3 DEF TypeOK, SelectMinAndMax
  <1>4. ASSUME CountPages PROVE TypeOK'
    <2>1. CASE in.pages > 0
      <3>1. CtidStep \in Nat /\ CtidChunks \in Int
        BY <1>1, <1>2, <1>4, <2>1, CtidStepIsPos DEF CtidStep, CtidChunks, CountPages
      <3> QED BY <1>4, <3>1 DEF TypeOK, CountPages
    <2>2. CASE ~(in.pages > 0)  BY <1>4, <2>2 DEF TypeOK, CountPages
    <2> QED BY <2>1, <2>2
  <1>5. ASSUME SendRange PROVE TypeOK'
    <2>1. /\ cutoff + step \in Int
          /\ Task(KeyRange(cutoff, cutoff + step, nulls), Len(sent), total) \in TaskType
      BY DEF TypeOK, KeyRange, Clause, TaskType
    <2>2. sent' \in Seq(TaskType)  BY <1>0, <1>5, <2>1 DEF SendRange
    <2> QED BY <1>5, <2>1, <2>2 DEF TypeOK, SendRange, TaskType
  <1>6. ASSUME SendBlocks PROVE TypeOK'
    <2>1. /\ cutoff + step \in Int
          /\ Task(Blocks(cutoff, cutoff + step, cutoff + step >= in.pages), Len(sent), total)
                 \in TaskType
      BY <1>1 DEF TypeOK, Blocks, Clause, TaskType
    <2>2. sent' \in Seq(TaskType)  BY <1>0, <1>6, <2>1 DEF SendBlocks
    <2> QED BY <1>6, <2>1, <2>2 DEF TypeOK, SendBlocks, TaskType
  <1>7. ASSUME SendWhole PROVE TypeOK'
    <2>1. Task(Whole, 0, 1) \in TaskType  BY DEF Whole, Clause, TaskType
    <2>2. sent' \in Seq(TaskType)  BY <1>0, <1>7, <2>1 DEF SendWhole
    <2> QED BY <1>7, <2>2 DEF TypeOK, SendWhole, TaskType
  <1>8. CASE Start \/ PickField \/ EstimateCount
    BY <1>1, <1>8 DEF TypeOK, Start, PickField, EstimateCount
  <1>9. CASE RangeAborted \/ RangeDone \/ BlocksAborted \/ BlocksDone \/ Cancel
    BY <1>9 DEF TypeOK, RangeAborted, RangeDone, BlocksAborted, BlocksDone, Cancel
  <1>10. CASE UNCHANGED vars  BY <1>10 DEF TypeOK, vars
  <1> QED BY <1>3, <1>4, <1>5, <1>6, <1>7, <1>8, <1>9, <1>10 DEF Next, Step

\* The parts of the invariant about the control of the call.
LEMMA ControlStep ==
    ASSUME InputsAssumption, TypeOK, NothingSentYet, WorthSplitting, [Next]_vars
    PROVE  (NothingSentYet /\ WorthSplitting)'
  <1>1. in.rows \in Nat /\ sent \in Seq(TaskType)  BY InputTypes DEF TypeOK, TaskType
  <1>2. CASE Start  BY <1>1, <1>2 DEF NothingSentYet, WorthSplitting, Start, AllSent
  <1>5. CASE PickField  BY <1>1, <1>5 DEF NothingSentYet, WorthSplitting, PickField, AllSent
  <1>6. CASE EstimateCount
    <2>1. count' \in Nat  BY <1>6, InputTypes DEF EstimateCount, TypeOK
    <2> QED BY <1>1, <1>6, <2>1 DEF NothingSentYet, WorthSplitting, EstimateCount, AllSent
  <1>7. CASE SelectMinAndMax \/ CountPages
    BY <1>7 DEF NothingSentYet, WorthSplitting, SelectMinAndMax, CountPages, AllSent
  <1>8. CASE Cancel  BY <1>8 DEF NothingSentYet, WorthSplitting, Cancel, AllSent
  <1>3. CASE SendRange \/ RangeAborted \/ RangeDone \/ SendBlocks \/ BlocksAborted \/ BlocksDone
    <2>1. pc' # "whole" \/ cancelled'
      BY <1>3 DEF SendRange, RangeAborted, RangeDone, SendBlocks, BlocksAborted, BlocksDone
    <2>2. in.rows > 0 /\ in' = in /\ pc' \notin {"start", "field", "estimate", "bounds", "pages"}
      BY <1>3 DEF WorthSplitting, SendRange, RangeAborted, RangeDone, SendBlocks, BlocksAborted,
                  BlocksDone
    <2> QED BY <1>1, <2>1, <2>2 DEF NothingSentYet, WorthSplitting
  <1>9. CASE SendWhole
    <2>1. pc' = "done" /\ (AllSent' => sent = <<>> /\ sent' = Append(sent, Task(Whole, 0, 1)))
      BY <1>9 DEF SendWhole, AllSent, NothingSentYet
    <2>2. AllSent' => Len(sent') = 1
      <3>1. Len(Append(<<>>, Task(Whole, 0, 1))) = 1  OBVIOUS
      <3> QED BY <2>1, <3>1
    <2> QED BY <2>1, <2>2 DEF NothingSentYet, WorthSplitting
  <1>4. CASE UNCHANGED vars  BY <1>4 DEF NothingSentYet, WorthSplitting, vars, AllSent
  <1> QED BY <1>2, <1>3, <1>4, <1>5, <1>6, <1>7, <1>8, <1>9 DEF Next, Step

\* The key ranges: each turn of the loop takes the keys of one step.
LEMMA RangeStep ==
    ASSUME InputsAssumption, IInv, [Next]_vars
    PROVE  RangeCover'
  <1>0. /\ in.min \in Int /\ in.max \in Int /\ in.where \in BOOLEAN /\ nulls \in BOOLEAN
        /\ cutoff \in Int /\ step \in Nat /\ sent \in Seq(TaskType)
    BY InputTypes DEF IInv, TypeOK, TaskType
  <1>1. ASSUME SelectMinAndMax, pc' = "range" PROVE RangeCover'
    <2>1. sent' = <<>> /\ cutoff' = in.min /\ nulls' = ~in.where /\ in' = in
      BY <1>1 DEF SelectMinAndMax, IInv, NothingSentYet
    <2>2. \A r \in Rows : NotTaken(r)'  BY <2>1 DEF NotTaken
    <2>3. (nulls' \/ in'.where) /\ (nulls' => ~in'.where /\ cutoff' = in'.min)  BY <1>0, <2>1
    <2>4. \A r \in Rows : r.key \in Int  BY RowTypes
    <2> QED BY <1>0, <2>1, <2>2, <2>3, <2>4 DEF RangeCover
  <1>2. ASSUME SendRange PROVE RangeCover'
    <2> DEFINE c == KeyRange(cutoff, cutoff + step, nulls)
               m == Task(c, Len(sent), total)
    <2>1. m \in TaskType  BY DEF IInv, TypeOK, KeyRange, Clause, TaskType
    <2>2. /\ sent' = Append(sent, m) /\ m.clause = c /\ in' = in /\ nulls' = FALSE
          /\ cutoff' = cutoff + step /\ pc' = "range"
      BY <1>2 DEF SendRange
    <2>3. \A r \in Rows : Selects(c, r) <=>
              IF r.null THEN nulls ELSE cutoff <= r.key /\ r.key < cutoff + step
      BY DEF Selects, KeyRange
    <2>4. in.min <= cutoff  BY <1>2 DEF SendRange, IInv, RangeCover
    <2> HIDE DEF m, c
    <2>5. ASSUME NEW r \in Rows
          PROVE  /\ TakenOnce(r) /\ ~Selects(c, r) => TakenOnce(r)'
                 /\ NotTaken(r) /\ Selects(c, r) => TakenOnce(r)'
                 /\ NotTaken(r) /\ ~Selects(c, r) => NotTaken(r)'
      BY <1>0, <2>1, <2>2, SendEffect
    <2>6. ASSUME NEW r \in Rows, ~r.null, in.min <= r.key
          PROVE  IF r.key < cutoff + step THEN TakenOnce(r)' ELSE NotTaken(r)'
      <3>1. r.key \in Int  BY RowTypes
      <3>2. IF r.key < cutoff THEN TakenOnce(r) ELSE NotTaken(r)
        BY <1>2, <2>6 DEF SendRange, IInv, RangeCover
      <3>3. CASE r.key < cutoff
        BY <1>0, <2>3, <2>5, <2>6, <3>1, <3>2, <3>3
      <3>4. CASE cutoff <= r.key /\ r.key < cutoff + step
        BY <1>0, <2>3, <2>5, <2>6, <3>1, <3>2, <3>4
      <3>5. CASE cutoff + step <= r.key
        BY <1>0, <2>3, <2>5, <2>6, <3>1, <3>2, <3>5
      <3> QED BY <1>0, <3>1, <3>3, <3>4, <3>5
    <2>7. ASSUME NEW r \in Rows, r.null
          PROVE  IF in.where THEN NotTaken(r)' ELSE TakenOnce(r)'
      <3>1. (nulls => ~in.where) /\ IF nulls \/ in.where THEN NotTaken(r) ELSE TakenOnce(r)
        BY <1>2, <2>7 DEF SendRange, IInv, RangeCover
      <3>2. Selects(c, r) <=> nulls  BY <2>3, <2>7
      <3> QED BY <2>5, <3>1, <3>2
    <2>8. in.min <= cutoff + step  BY <1>0, <2>4
    <2> QED BY <2>2, <2>6, <2>7, <2>8 DEF RangeCover
  <1>3. ASSUME Cancel \/ UNCHANGED vars PROVE RangeCover'
    <2>1. UNCHANGED <<pc, in, cutoff, nulls, sent>>  BY <1>3 DEF Cancel, vars
    <2>2. \A r \in Rows : (TakenOnce(r)' <=> TakenOnce(r)) /\ (NotTaken(r)' <=> NotTaken(r))
      BY <2>1, SameSent
    <2> QED BY <2>1, <2>2 DEF IInv, RangeCover
  <1>4. CASE pc' # "range"  BY <1>4 DEF RangeCover
  <1> QED
    BY <1>1, <1>2, <1>3, <1>4 DEF Next, Step, Start, PickField, EstimateCount, RangeAborted,
       RangeDone, CountPages, SendBlocks, BlocksAborted, BlocksDone, SendWhole
\* The ctid ranges: each turn takes one step of blocks, the last turn all the rest.
LEMMA CtidLoopStep ==
    ASSUME InputsAssumption, IInv, [Next]_vars
    PROVE  CtidCover'
  <1>0. in.pages \in Nat /\ cutoff \in Int /\ step \in Nat /\ sent \in Seq(TaskType)
    BY InputTypes DEF IInv, TypeOK, TaskType
  <1>1. ASSUME CountPages, pc' = "ctid" PROVE CtidCover'
    <2>1. sent' = <<>> /\ cutoff' = 0 /\ in.pages > 0 /\ in' = in
      BY <1>1 DEF CountPages, IInv, NothingSentYet
    <2>2. \A r \in Rows : NotTaken(r)' /\ r.block \in Nat  BY <2>1, RowTypes DEF NotTaken
    <2> QED BY <1>0, <2>1, <2>2 DEF CtidCover
  <1>2. ASSUME SendBlocks PROVE CtidCover'
    <2> DEFINE c == Blocks(cutoff, cutoff + step, cutoff + step >= in.pages)
               m == Task(c, Len(sent), total)
    <2>1. m \in TaskType  BY <1>0 DEF IInv, TypeOK, Blocks, Clause, TaskType
    <2>2. /\ sent' = Append(sent, m) /\ m.clause = c /\ in' = in
          /\ cutoff' = cutoff + step /\ pc' = "ctid" /\ cutoff < in.pages
      BY <1>2 DEF SendBlocks
    <2>3. \A r \in Rows : Selects(c, r) <=>
              cutoff <= r.block /\ (cutoff + step >= in.pages \/ r.block < cutoff + step)
      BY DEF Selects, Blocks
    <2> HIDE DEF m, c
    <2>4. ASSUME NEW r \in Rows
          PROVE  IF r.block < cutoff + step \/ in.pages <= cutoff + step
                 THEN TakenOnce(r)' ELSE NotTaken(r)'
      <3>1. r.block \in Nat  BY RowTypes
      <3>2. IF r.block < cutoff THEN TakenOnce(r) ELSE NotTaken(r)
        BY <1>0, <1>2, <2>2, <3>1 DEF SendBlocks, IInv, CtidCover
      <3>3. /\ TakenOnce(r) /\ ~Selects(c, r) => TakenOnce(r)'
            /\ NotTaken(r) /\ Selects(c, r) => TakenOnce(r)'
            /\ NotTaken(r) /\ ~Selects(c, r) => NotTaken(r)'
        BY <1>0, <2>1, <2>2, SendEffect
      <3>4. CASE r.block < cutoff  BY <1>0, <2>3, <3>1, <3>2, <3>3, <3>4
      <3>5. CASE r.block >= cutoff  BY <1>0, <2>3, <3>1, <3>2, <3>3, <3>5
      <3> QED BY <1>0, <3>1, <3>4, <3>5
    <2> QED BY <2>2, <2>4 DEF CtidCover
  <1>3. ASSUME Cancel \/ UNCHANGED vars PROVE CtidCover'
    <2>1. UNCHANGED <<pc, in, cutoff, sent>>  BY <1>3 DEF Cancel, vars
    <2>2. \A r \in Rows : (TakenOnce(r)' <=> TakenOnce(r)) /\ (NotTaken(r)' <=> NotTaken(r))
      BY <2>1, SameSent
    <2> QED BY <2>1, <2>2 DEF IInv, CtidCover
  <1>4. CASE pc' # "ctid"  BY <1>4 DEF CtidCover
  <1> QED
    BY <1>1, <1>2, <1>3, <1>4 DEF Next, Step, Start, PickField, EstimateCount, SelectMinAndMax,
       SendRange, RangeAborted, RangeDone, BlocksAborted, BlocksDone, SendWhole

\* The call ends well in three ways, and each one has taken every row.
LEMMA ReturnStep ==
    ASSUME InputsAssumption, IInv, [Next]_vars
    PROVE  ExactlyOnce'
  <1>0. /\ in.min \in Int /\ in.max \in Int /\ in.where \in BOOLEAN /\ in.pages \in Nat
        /\ cutoff \in Int /\ sent \in Seq(TaskType)
    BY InputTypes DEF IInv, TypeOK, TaskType
  <1> SUFFICES ASSUME AllSent', NEW r \in Rows, Possible(r)', r.null => ~in'.where
               PROVE  TakenOnce(r)'
    BY DEF ExactlyOnce
  <1>1. /\ r.null \in BOOLEAN /\ r.key \in Int /\ r.block \in Nat  BY RowTypes
  <1>2. CASE RangeDone
    <2>1. pc = "range" /\ in.max < cutoff /\ UNCHANGED <<in, sent, nulls, cancelled>>
      BY <1>2 DEF RangeDone
    <2>2. CASE r.null
      <3>1. ~in.where  BY <2>1, <2>2
      <3>2. CASE ~nulls
        <4>1. TakenOnce(r)  BY <2>1, <2>2, <3>1, <3>2 DEF IInv, RangeCover
        <4> QED BY <2>1, <4>1, SameSent
      <3>3. CASE nulls
        <4>1. in.min <= in.max  BY InputTypes DEF IInv, TypeOK
        <4> QED BY <2>1, <3>3, <4>1, <1>0 DEF IInv, RangeCover
      <3> QED BY <3>2, <3>3
    <2>3. CASE ~r.null
      <3>1. in.min <= r.key /\ r.key < cutoff  BY <1>0, <1>1, <2>1, <2>3 DEF Possible
      <3>2. TakenOnce(r)  BY <2>1, <2>3, <3>1 DEF IInv, RangeCover
      <3> QED BY <2>1, <3>2, SameSent
    <2> QED BY <2>2, <2>3
  <1>3. CASE BlocksDone
    <2>1. pc = "ctid" /\ cutoff >= in.pages /\ UNCHANGED sent  BY <1>3 DEF BlocksDone
    <2>2. TakenOnce(r)  BY <1>0, <2>1 DEF IInv, CtidCover
    <2> QED BY <2>1, <2>2, SameSent
  <1>4. CASE SendWhole
    <2>1. ~cancelled /\ pc = "whole" /\ result' = "nil"  BY <1>4 DEF SendWhole, AllSent
    <2>2. sent = <<>> /\ sent' = Append(sent, Task(Whole, 0, 1))
      BY <1>4, <2>1 DEF SendWhole, AllSent, IInv, NothingSentYet
    <2>3. Task(Whole, 0, 1) \in TaskType  BY DEF Whole, Clause, TaskType
    <2>4. Selects(Task(Whole, 0, 1).clause, r)  BY DEF Selects, Whole
    <2>5. NotTaken(r)  BY <2>2, NoneTaken
    <2> QED BY <1>0, <2>2, <2>3, <2>4, <2>5, SendEffect
  <1>5. CASE pc = "done" \/ UNCHANGED vars
    <2>1. UNCHANGED <<pc, in, sent, result>> /\ (~cancelled' => ~cancelled)
      BY <1>5 DEF Next, Step, Start, PickField, EstimateCount, SelectMinAndMax, SendRange,
         RangeAborted, RangeDone, CountPages, SendBlocks, BlocksAborted, BlocksDone, SendWhole,
         Cancel, vars
    <2>2. TakenOnce(r)  BY <2>1 DEF IInv, ExactlyOnce, AllSent, Possible
    <2> QED BY <2>1, <2>2, SameSent
  <1> QED
    BY <1>2, <1>3, <1>4, <1>5 DEF Next, Step, Start, PickField, EstimateCount, SelectMinAndMax,
       SendRange, RangeAborted, CountPages, SendBlocks, BlocksAborted, Cancel, AllSent
-----------------------------------------------------------------------------
(* The numbers of the chunks. *)

\* A task sent has the next number; the tasks before it stay.
LEMMA SendNumbers ==
    ASSUME sent \in Seq(TaskType), NEW m \in TaskType, sent' = Append(sent, m)
    PROVE  /\ Len(sent) \in Nat /\ Len(sent') = Len(sent) + 1
           /\ \A i \in 1..Len(sent') : i \in 1..Len(sent) \/ i = Len(sent) + 1
           /\ \A i \in 1..Len(sent) : sent'[i] = sent[i]
           /\ sent'[Len(sent) + 1] = m
  OBVIOUS

\* One more chunk of a split table.
LEMMA OneMore ==
    ASSUME InputsAssumption, IInv, SendRange \/ SendBlocks
    PROVE  /\ Len(sent) \in Nat /\ Len(sent') = Len(sent) + 1
           /\ \A i \in 1..Len(sent') : i \in 1..Len(sent) \/ i = Len(sent) + 1
           /\ \A i \in 1..Len(sent) : sent'[i] = sent[i]
           /\ sent'[Len(sent) + 1].index = Len(sent)
           /\ sent'[Len(sent) + 1].total = total
           /\ SendRange => sent'[Len(sent) + 1].clause.kind = "range"
  <1>0. /\ sent \in Seq(TaskType) /\ cutoff \in Int /\ step \in Nat /\ total \in Int
        /\ nulls \in BOOLEAN /\ in.pages \in Nat
    BY InputTypes DEF IInv, TypeOK, TaskType
  <1>1. CASE SendRange
    <2> DEFINE m == Task(KeyRange(cutoff, cutoff + step, nulls), Len(sent), total)
    <2>1. m \in TaskType  BY <1>0 DEF KeyRange, Clause, TaskType
    <2>2. sent' = Append(sent, m)  BY <1>1 DEF SendRange
    <2>3. m.index = Len(sent) /\ m.total = total /\ m.clause.kind = "range"  BY DEF KeyRange
    <2> HIDE DEF m
    <2> QED BY <1>0, <2>1, <2>2, <2>3, SendNumbers
  <1>2. CASE SendBlocks
    <2> DEFINE m == Task(Blocks(cutoff, cutoff + step, cutoff + step >= in.pages), Len(sent), total)
    <2>1. m \in TaskType  BY <1>0 DEF Blocks, Clause, TaskType
    <2>2. sent' = Append(sent, m) /\ ~SendRange  BY <1>2 DEF SendBlocks, SendRange
    <2>3. m.index = Len(sent) /\ m.total = total  OBVIOUS
    <2> HIDE DEF m
    <2> QED BY <1>0, <2>1, <2>2, <2>3, SendNumbers
  <1> QED BY <1>1, <1>2

\* The steps that send nothing and end no loop.
Quiet ==
    \/ Start \/ PickField \/ EstimateCount \/ SelectMinAndMax \/ RangeAborted \/ CountPages
    \/ BlocksAborted \/ Cancel \/ UNCHANGED vars

LEMMA QuietStep ==
    ASSUME IInv, Quiet
    PROVE  /\ in' = in /\ sent' = sent /\ (AllSent' => AllSent)
           /\ pc' = "range" => SelectMinAndMax \/ UNCHANGED <<pc, step, total, cutoff>>
           /\ pc' = "ctid" => CountPages \/ UNCHANGED <<pc, step, total, cutoff>>
           /\ SelectMinAndMax \/ CountPages => sent' = <<>>
  BY DEF Quiet, Start, PickField, EstimateCount, SelectMinAndMax, RangeAborted, CountPages,
     BlocksAborted, Cancel, vars, AllSent, IInv, NothingSentYet

\* The only task of a table dumped whole.
LEMMA WholeStep ==
    ASSUME IInv, SendWhole, AllSent'
    PROVE  /\ Len(sent') = 1 /\ sent'[1].index = 0 /\ sent'[1].total = 1
  <1>1. sent = <<>> /\ sent' = Append(sent, Task(Whole, 0, 1))
    BY DEF SendWhole, AllSent, IInv, NothingSentYet
  <1> QED BY <1>1

LEMMA NumberedStep ==
    ASSUME InputsAssumption, IInv, [Next]_vars
    PROVE  Numbered'
  <1>0. Numbered /\ Len(sent) \in Nat  BY DEF IInv, TypeOK
  <1>1. CASE Quiet
    <2>1. CASE SelectMinAndMax \/ CountPages
      <3>1. sent' = <<>>  BY <1>1, <2>1, QuietStep
      <3> QED BY <3>1 DEF Numbered
    <2>2. CASE ~(SelectMinAndMax \/ CountPages)
      <3>1. sent' = sent /\ (pc' \in {"range", "ctid"} \/ AllSent' => pc \in {"range", "ctid"} \/ AllSent)
        BY <1>1, <2>2, QuietStep
      <3> QED BY <1>0, <3>1 DEF Numbered
    <2> QED BY <2>1, <2>2
  <1>2. CASE SendRange \/ SendBlocks
    <2>1. pc \in {"range", "ctid"}  BY <1>2 DEF SendRange, SendBlocks
    <2>2. \A i \in 1..Len(sent) : sent[i].index = i - 1  BY <1>0, <2>1 DEF Numbered
    <2>3. PICK n \in Nat : n = Len(sent)  BY <1>0
    <2>4. /\ \A i \in 1..Len(sent') : i \in 1..n \/ i = n + 1
          /\ \A i \in 1..n : sent'[i] = sent[i]
          /\ sent'[n + 1].index = n
      BY <1>2, <2>3, OneMore
    <2>5. \A i \in 1..Len(sent') : sent'[i].index = i - 1  BY <2>2, <2>3, <2>4
    <2> QED BY <2>5 DEF Numbered
  <1>3. CASE RangeDone \/ BlocksDone
    <2>1. pc \in {"range", "ctid"} /\ sent' = sent  BY <1>3 DEF RangeDone, BlocksDone
    <2> QED BY <1>0, <2>1 DEF Numbered
  <1>4. CASE SendWhole
    <2>1. pc' = "done"  BY <1>4 DEF SendWhole
    <2>2. ASSUME AllSent' PROVE \A i \in 1..Len(sent') : sent'[i].index = i - 1
      <3>1. Len(sent') = 1 /\ sent'[1].index = 0  BY <1>4, <2>2, WholeStep
      <3>2. \A i \in 1..Len(sent') : i = 1  BY <3>1
      <3> QED BY <3>1, <3>2
    <2> QED BY <2>1, <2>2 DEF Numbered
  <1> QED BY <1>1, <1>2, <1>3, <1>4 DEF Next, Step, Quiet

LEMMA RangeCountStep ==
    ASSUME InputsAssumption, IInv, [Next]_vars
    PROVE  RangeCount'
  <1>0. /\ in.min \in Int /\ in.max \in Int /\ in.min <= in.max /\ in.max - in.min < Word
        /\ in.rows \in Nat /\ cutoff \in Int /\ step \in Nat /\ total \in Int /\ count \in Nat
        /\ Len(sent) \in Nat /\ RangeCount /\ Word \in Nat /\ Word > 0
    BY InputTypes DEF IInv, TypeOK, InputsAssumption
  <1>1. CASE Quiet /\ ~SelectMinAndMax
    <2>1. in' = in /\ sent' = sent /\ (pc' = "range" => pc = "range" /\ UNCHANGED <<step, total, cutoff>>)
      BY <1>1, QuietStep
    <2> QED BY <1>0, <2>1 DEF RangeCount
  <1>2. ASSUME SelectMinAndMax, pc' = "range" PROVE RangeCount'
    <2>0. Quiet  BY <1>2 DEF Quiet
    <2>1. sent' = <<>> /\ in' = in  BY <1>2, <2>0, QuietStep
    <2>2. /\ cutoff' = in.min /\ step' = EstimatedStep
          /\ total' = IF EstimatedStep = 1 THEN (Width + 1) % Word ELSE EstimatedChunks
      BY <1>2 DEF SelectMinAndMax
    <2>3. EstimatedChunks \in Nat /\ EstimatedChunks >= 1
      BY <1>0, <1>2, DivPositive DEF IInv, WorthSplitting, SelectMinAndMax, EstimatedChunks
    <2>4. PICK w \in Nat : w = in.max - in.min /\ w < Word  BY <1>0
    <2>5. Width = w  BY <1>0, <2>4 DEF Width
    <2>6. PICK c \in Nat : c = EstimatedChunks /\ c >= 1  BY <2>3
    <2>7. PICK q \in Nat : q = w \div c /\ w < c * (q + 1)  BY <2>6, DivBound
    <2>8. q < Word
      <3>1. q <= w  BY <2>6, <2>7
      <3> QED BY <1>0, <2>4, <3>1
    <2>9. EstimatedStep = IF q + 1 = Word THEN 0 ELSE q + 1
      BY <1>0, <2>5, <2>6, <2>7, <2>8 DEF EstimatedStep
    <2>10. step' = 0 \/ total' = 0 \/ (0 <= total' /\ w < total' * step')
      <3>1. CASE EstimatedStep = 1
        <4>1. total' = (w + 1) % Word /\ step' = 1  BY <2>2, <2>5, <3>1
        <4>2. CASE w + 1 = Word
          <5>1. Word % Word = 0  BY <1>0
          <5> QED BY <4>1, <4>2, <5>1
        <4>3. CASE w + 1 < Word
          <5>1. (w + 1) % Word = w + 1  BY <1>0, <4>3
          <5>2. total' = w + 1  BY <4>1, <5>1
          <5> QED BY <4>1, <5>2
        <4> QED BY <1>0, <2>4, <4>2, <4>3
      <3>2. CASE EstimatedStep # 1 /\ EstimatedStep # 0
        <4>1. total' = c /\ step' = q + 1  BY <2>2, <2>6, <2>9, <3>2
        <4> QED BY <2>6, <2>7, <4>1
      <3> QED BY <2>2, <3>1, <3>2
    <2>11. Len(sent') = 0 /\ step' \in Nat  BY <2>1, <2>2, <2>7, <2>9
    <2>12. cutoff' = in'.min + Len(sent') * step'  BY <1>0, <2>1, <2>2, <2>11
    <2> QED BY <2>1, <2>4, <2>10, <2>11, <2>12 DEF RangeCount
  <1>3. CASE SendRange
    <2>1. /\ pc = "range" /\ in' = in /\ step' = step /\ total' = total /\ in.max >= cutoff
          /\ cutoff' = cutoff + step
      BY <1>3 DEF SendRange
    <2>2. PICK n \in Nat : n = Len(sent)  BY <1>0
    <2>3. Len(sent') = n + 1  BY <1>3, <2>2, OneMore
    <2>4. \A i \in 1..Len(sent) : sent[i].clause.kind = "range" /\ sent[i].total = total
      BY <1>0, <2>1 DEF RangeCount
    <2>5. \A i \in 1..Len(sent') : sent'[i].clause.kind = "range" /\ sent'[i].total = total'
      BY <1>3, <2>1, <2>4, OneMore
    <2>6. cutoff = in.min + n * step  BY <1>0, <2>1, <2>2 DEF RangeCount
    <2>7. (n + 1) * step = n * step + step  BY <1>0, TimesNext
    <2>8. n * step \in Int  BY <1>0
    <2>9. cutoff' = in'.min + Len(sent') * step'  BY <1>0, <2>1, <2>3, <2>6, <2>7, <2>8
    <2>10. ASSUME step # 0, total # 0 PROVE n + 1 <= total /\ in.max - in.min < total * step
      <3>1. in.max - in.min < total * step  BY <1>0, <2>1, <2>10 DEF RangeCount
      <3>2. n * step <= in.max - in.min  BY <1>0, <2>1, <2>6, <2>8
      <3>3. CASE total <= n
        <4>1. total * step <= n * step  BY <1>0, <3>3, TimesMonotone
        <4>2. total * step \in Int  BY <1>0
        <4> QED BY <1>0, <2>8, <3>1, <3>2, <4>1, <4>2
      <3> QED BY <1>0, <3>1, <3>3
    <2> QED BY <2>1, <2>3, <2>5, <2>9, <2>10 DEF RangeCount
  <1>4. CASE pc' # "range"  BY <1>4 DEF RangeCount
  <1> QED BY <1>1, <1>2, <1>3, <1>4 DEF Next, Step, Quiet, RangeDone, SendBlocks, BlocksDone, SendWhole

LEMMA CtidCountStep ==
    ASSUME InputsAssumption, IInv, [Next]_vars
    PROVE  CtidCount'
  <1>0. /\ in.pages \in Nat /\ in.rows \in Nat /\ cutoff \in Int /\ step \in Nat /\ total \in Int
        /\ count \in Nat /\ Len(sent) \in Nat /\ CtidCount
    BY InputTypes DEF IInv, TypeOK
  <1>1. CASE Quiet /\ ~CountPages
    <2>1. in' = in /\ sent' = sent /\ (pc' = "ctid" => pc = "ctid" /\ UNCHANGED <<step, total, cutoff>>)
      BY <1>1, QuietStep
    <2> QED BY <1>0, <2>1 DEF CtidCount
  <1>2. ASSUME CountPages, pc' = "ctid" PROVE CtidCount'
    <2>0. Quiet  BY <1>2 DEF Quiet
    <2>1. sent' = <<>> /\ in' = in  BY <1>2, <2>0, QuietStep
    <2>2. in.pages > 0 /\ cutoff' = 0 /\ step' = CtidStep /\ total' = CtidChunks
      BY <1>2 DEF CountPages
    <2>3. EstimatedChunks \in Nat
      BY <1>0, <1>2, DivPositive DEF IInv, WorthSplitting, CountPages, EstimatedChunks
    <2>4. CtidStep \in Nat /\ CtidStep >= 1  BY <1>0, <2>2, <2>3, CtidStepIsPos DEF CtidStep
    <2>5. cutoff' = Len(sent') * step'  BY <2>1, <2>2, <2>4
    <2> QED BY <2>1, <2>2, <2>4, <2>5 DEF CtidCount, CtidChunks
  <1>3. CASE SendBlocks
    <2>1. /\ pc = "ctid" /\ in' = in /\ step' = step /\ total' = total /\ cutoff < in.pages
          /\ cutoff' = cutoff + step
      BY <1>3 DEF SendBlocks
    <2>2. PICK n \in Nat : n = Len(sent)  BY <1>0
    <2>3. Len(sent') = n + 1  BY <1>3, <2>2, OneMore
    <2>4. \A i \in 1..Len(sent') : sent'[i].total = total'
      BY <1>0, <1>3, <2>1, OneMore DEF CtidCount
    <2>5. cutoff = n * step  BY <1>0, <2>1, <2>2 DEF CtidCount
    <2>6. (n + 1) * step = n * step + step  BY <1>0, TimesNext
    <2>7. cutoff' = Len(sent') * step'  BY <2>1, <2>3, <2>5, <2>6
    <2>8. (Len(sent') - 1) * step' < in'.pages
      <3>1. Len(sent') - 1 = n  BY <2>3
      <3> QED BY <2>1, <2>5, <3>1
    <2> QED BY <1>0, <2>1, <2>4, <2>7, <2>8 DEF CtidCount
  <1>4. CASE pc' # "ctid"  BY <1>4 DEF CtidCount
  <1> QED BY <1>1, <1>2, <1>3, <1>4 DEF Next, Step, Quiet, SendRange, RangeDone, BlocksDone, SendWhole

\* The loop over the key ranges has sent at least one and at most the announced
\* chunks, the loop over the blocks exactly these.
LEMMA FinishedStep ==
    ASSUME InputsAssumption, IInv, [Next]_vars
    PROVE  CountedFinished'
  <1>0. /\ in.min \in Int /\ in.max \in Int /\ in.min <= in.max /\ in.pages \in Nat
        /\ cutoff \in Int /\ step \in Nat /\ total \in Int /\ Len(sent) \in Nat
        /\ RangeCount /\ CtidCount /\ Numbered /\ CountedFinished
    BY InputTypes DEF IInv, TypeOK
  <1>1. CASE Quiet
    <2>1. sent' = sent /\ (AllSent' => AllSent)  BY <1>1, QuietStep
    <2> QED BY <1>0, <2>1 DEF CountedFinished
  <1>2. CASE RangeDone
    <2>1. pc = "range" /\ sent' = sent /\ in.max < cutoff  BY <1>2 DEF RangeDone
    <2>2. PICK n \in Nat : n = Len(sent)  BY <1>0
    <2>3. /\ \A i \in 1..n : sent[i].index = i - 1 /\ sent[i].clause.kind = "range" /\ sent[i].total = total
          /\ cutoff = in.min + n * step
          /\ step = 0 \/ total = 0 \/ n <= total
      BY <1>0, <2>1, <2>2 DEF RangeCount, Numbered
    <2>4. step # 0 /\ n >= 1
      <3>1. CASE step = 0 \/ n = 0
        <4>1. n * step = 0  BY <1>0, <3>1
        <4> QED BY <1>0, <2>1, <2>3, <4>1
      <3> QED BY <3>1
    <2>5. \A i \in 1..n : sent[i].index + 1 = sent[i].total => i = n  BY <1>0, <2>3, <2>4
    <2>6. ~\A i \in 1..n : sent[i].clause.kind # "range"  BY <2>3, <2>4
    <2> QED BY <2>1, <2>2, <2>5, <2>6 DEF CountedFinished
  <1>3. CASE BlocksDone
    <2>1. pc = "ctid" /\ sent' = sent /\ cutoff >= in.pages  BY <1>3 DEF BlocksDone
    <2>2. PICK n \in Nat : n = Len(sent)  BY <1>0
    <2>3. /\ \A i \in 1..n : sent[i].index = i - 1 /\ sent[i].total = total
          /\ cutoff = n * step /\ step >= 1 /\ total = (in.pages + step - 1) \div step /\ in.pages > 0
      BY <1>0, <2>1, <2>2 DEF CtidCount, Numbered
    <2>4. n >= 1
      <3>1. CASE n = 0
        <4>1. n * step = 0  BY <1>0, <3>1
        <4> QED BY <1>0, <2>1, <2>3, <4>1
      <3> QED BY <3>1
    <2>5. (n - 1) * step < in.pages
      <3>1. sent # <<>>  BY <2>2, <2>4
      <3> QED BY <1>0, <2>1, <2>2, <3>1 DEF CtidCount
    <2>6. total = n  BY <1>0, <2>1, <2>3, <2>5, CeilUnique
    <2>7. \A i \in 1..n : sent[i].index + 1 = sent[i].total => i = n  BY <2>3, <2>6
    <2>8. n \in 1..n /\ sent[n].index + 1 = sent[n].total  BY <2>3, <2>4, <2>6
    <2> QED BY <2>1, <2>2, <2>7, <2>8 DEF CountedFinished
  <1>4. CASE SendWhole
    <2>1. ASSUME AllSent'
          PROVE  \A i \in 1..Len(sent') : i = 1 /\ i = Len(sent') /\ sent'[i].index + 1 = sent'[i].total
      <3>1. Len(sent') = 1 /\ sent'[1].index = 0 /\ sent'[1].total = 1  BY <1>4, <2>1, WholeStep
      <3>2. \A i \in 1..Len(sent') : i = 1  BY <3>1
      <3> QED BY <3>1, <3>2
    <2>2. AllSent' => 1 \in 1..Len(sent')  BY <1>4, WholeStep
    <2> QED BY <2>1, <2>2 DEF CountedFinished
  <1>5. CASE SendRange \/ SendBlocks
    <2>1. ~AllSent'  BY <1>5 DEF SendRange, SendBlocks, AllSent
    <2> QED BY <2>1 DEF CountedFinished
  <1> QED BY <1>1, <1>2, <1>3, <1>4, <1>5 DEF Next, Step, Quiet
-----------------------------------------------------------------------------
(* The digits of the numbers in a file name. *)

LEMMA BaseType == Base \in Nat /\ Base >= 2
  BY InputsAssumption DEF InputsAssumption

\* The powers of the base exist, follow their recursion.
LEMMA PowerDef ==
    /\ Power \in [Nat -> Nat]
    /\ Power[0] = 1
    /\ \A k \in Nat : Power[k + 1] = Base * Power[k]
  <1> DEFINE Defines(d) == d = [k \in Nat |-> IF k = 0 THEN 1 ELSE Base * d[k - 1]]
             g == [i \in Nat |-> [c \in Nat |-> Base * c]]
  <1>1. g \in [Nat -> [Nat -> Nat]]
    <2>1. \A c \in Nat : Base * c \in Nat  BY BaseType
    <2> QED BY <2>1
  <1>2. PICK e \in [Nat -> Nat] : e[0] = 1 /\ \A i \in Nat : e[i + 1] = g[i][e[i]]
    <2>1. PICK a \in Nat, r \in [Nat -> [Nat -> Nat]] : a = 1 /\ r = g
      <3> HIDE DEF g
      <3> QED BY <1>1
    <2>2. \E f \in [Nat -> Nat] : Recurses(f, a, r)  BY Recursion, Zenon
    <2> HIDE DEF g
    <2> QED BY <2>1, <2>2, Zenon DEF Recurses
  <1>3. \A i \in Nat : e[i + 1] = Base * e[i]  BY <1>2
  <1> HIDE DEF g
  <1>4. Defines(e)
    <2>1. ASSUME NEW k \in Nat PROVE e[k] = IF k = 0 THEN 1 ELSE Base * e[k - 1]
      <3>1. CASE k = 0  BY <1>2, <3>1
      <3>2. CASE k # 0
        <4>1. k - 1 \in Nat /\ (k - 1) + 1 = k  BY <3>2
        <4>2. e[(k - 1) + 1] = Base * e[k - 1]  BY <1>3, <4>1
        <4> QED BY <3>2, <4>1, <4>2
      <3> QED BY <3>1, <3>2
    <2> QED BY <2>1
  <1> DEFINE c == CHOOSE d : Defines(d)
  <1>5. Defines(c)
    <2> HIDE DEF Defines
    <2> QED BY <1>4
  <1>6. Power = c  BY DEF Power
  <1> HIDE DEF c
  <1>7. Power = [k \in Nat |-> IF k = 0 THEN 1 ELSE Base * Power[k - 1]]  BY <1>5, <1>6
  <1>8. Power[0] = 1  BY <1>7
  <1>9. ASSUME NEW k \in Nat PROVE Power[k + 1] = Base * Power[k]
    <2>1. k + 1 \in Nat /\ k + 1 # 0 /\ (k + 1) - 1 = k  OBVIOUS
    <2>2. Power[k + 1] = IF k + 1 = 0 THEN 1 ELSE Base * Power[(k + 1) - 1]  BY <1>7, <2>1
    <2> QED BY <2>1, <2>2
  <1>10. \A k \in Nat : Power[k] \in Nat
    <2> DEFINE S == {k \in Nat : Power[k] \in Nat}
    <2>1. 0 \in S  BY <1>8
    <2>2. ASSUME NEW k \in Nat, k \in S PROVE k + 1 \in S
      <3>1. Power[k] \in Nat /\ Base * Power[k] \in Nat  BY <2>2, BaseType
      <3> QED BY <1>9, <3>1
    <2>3. \A k \in Nat : k \in S
      <3> HIDE DEF S
      <3> QED BY <2>1, <2>2, SetInduction
    <2> QED BY <2>3
  <1>11. Power \in [Nat -> Nat]
    <2>1. Power = [k \in Nat |-> Power[k]]  BY <1>7
    <2> QED BY <1>10, <2>1
  <1> QED BY <1>8, <1>9, <1>11

\* A quotient by the base is smaller, and below any bound that the number is below times the base.
LEMMA BaseDiv ==
    ASSUME NEW n \in Nat, n >= Base
    PROVE  /\ n \div Base \in Nat /\ n \div Base < n
           /\ \A p \in Nat : n \div Base < p <=> n < Base * p
  <1>0. Base \in Nat /\ Base >= 2  BY BaseType
  <1>1. PICK q \in Int : q = n \div Base /\ q * Base <= n /\ n < q * Base + Base  BY <1>0
  <1>2. q >= 1
    <2>1. CASE q <= 0
      <3>1. q * Base <= 0 * Base  BY <1>0, <2>1, TimesMonotone
      <3> QED BY <1>0, <1>1, <3>1
    <2> QED BY <1>1, <2>1
  <1>3. q < n
    <2>1. 2 * q <= Base * q  BY <1>0, <1>2, TimesMonotone
    <2>2. Base * q = q * Base /\ q * Base \in Int  BY <1>0
    <2> QED BY <1>1, <1>2, <2>1, <2>2
  <1>4. ASSUME NEW p \in Nat PROVE q < p <=> n < Base * p
    <2>1. p * Base = Base * p /\ p * Base \in Int /\ q * Base \in Int  BY <1>0
    <2>2. ASSUME q < p PROVE n < Base * p
      <3>1. (q + 1) * Base <= p * Base  BY <1>0, <2>2, TimesMonotone
      <3>2. (q + 1) * Base = q * Base + Base  BY <1>0, TimesNext
      <3> QED BY <1>0, <1>1, <2>1, <3>1, <3>2
    <2>3. ASSUME p <= q PROVE ~(n < Base * p)
      <3>1. p * Base <= q * Base  BY <1>0, <2>3, TimesMonotone
      <3> QED BY <1>0, <1>1, <2>1, <3>1
    <2> QED BY <1>1, <2>2, <2>3
  <1> QED BY <1>1, <1>2, <1>3, <1>4

\* The number of digits exists and follows its recursion.
LEMMA DigitsDef ==
    /\ Digits \in [Nat -> Nat]
    /\ \A n \in Nat : Digits[n] = IF n < Base THEN 1 ELSE 1 + Digits[n \div Base]
  <1> DEFINE Defines(d) == d = [n \in Nat |-> IF n < Base THEN 1 ELSE 1 + d[n \div Base]]
             T == [Nat -> Nat]
             one == [n \in Nat |-> 1]
             Round(h) == [n \in Nat |-> IF n < Base THEN 1 ELSE 1 + h[n \div Base]]
             g == [i \in Nat |-> [h \in T |-> Round(h)]]
  <1>0. Base \in Nat /\ Base >= 2  BY BaseType
  <1>1. \A h \in T : Round(h) \in T
    <2>1. ASSUME NEW h \in T, NEW n \in Nat
          PROVE  (IF n < Base THEN 1 ELSE 1 + h[n \div Base]) \in Nat
      <3>1. CASE n < Base  BY <3>1
      <3>2. CASE n >= Base
        <4>1. n \div Base \in Nat  BY <3>2, BaseDiv
        <4> QED BY <1>0, <3>2, <4>1
      <3> QED BY <1>0, <3>1, <3>2
    <2> QED BY <2>1
  <1>2. g \in [Nat -> [T -> T]]
    <2> HIDE DEF T, Round
    <2> QED BY <1>1
  <1>3. one \in T  OBVIOUS
  <1>4. PICK e \in [Nat -> T] : e[0] = one /\ \A i \in Nat : e[i + 1] = g[i][e[i]]
    <2>0. PICK X : X = T  OBVIOUS
    <2>1. PICK a \in X, r \in [Nat -> [X -> X]] : a = one /\ r = g
      <3> HIDE DEF T, one, g
      <3> QED BY <1>2, <1>3, <2>0, Zenon
    <2>2. \E f \in [Nat -> X] : Recurses(f, a, r)  BY Recursion, Zenon
    <2> HIDE DEF T, one, g
    <2> QED BY <2>0, <2>1, <2>2, Zenon DEF Recurses
  <1>5. \A i \in Nat : e[i] \in T /\ e[i + 1] = Round(e[i])
    <2> HIDE DEF T, one, Round
    <2> QED BY <1>4
  <1>6. \A i, n \in Nat : e[i + 1][n] = IF n < Base THEN 1 ELSE 1 + e[i][n \div Base]
    <2> HIDE DEF g, T, one
    <2> QED BY <1>5
  <1>7. e[0][0] = 1 /\ \A n \in Nat : e[n] \in [Nat -> Nat]
    <2> HIDE DEF g
    <2> QED BY <1>4, <1>5
  <1> HIDE DEF g, T, one, Round
  <1> DEFINE Settled(i) == \A j \in Nat : j >= i => \A n \in 0..i : e[j][n] = e[i][n]
             S == {i \in Nat : Settled(i)}
  <1>8. \A i \in Nat : i \in S
    <2>1. 0 \in S
      <3>1. ASSUME NEW j \in Nat PROVE e[j][0] = 1
        <4>1. CASE j = 0  BY <1>7, <4>1
        <4>2. CASE j # 0
          <5>1. j - 1 \in Nat /\ (j - 1) + 1 = j /\ 0 < Base  BY <1>0, <4>2
          <5>2. e[(j - 1) + 1][0] = 1  BY <1>6, <5>1
          <5> QED BY <5>1, <5>2
        <4> QED BY <4>1, <4>2
      <3>2. \A n \in 0..0 : n = 0  OBVIOUS
      <3> QED BY <3>1, <3>2
    <2>2. ASSUME NEW i \in Nat, i \in S PROVE i + 1 \in S
      <3>1. ASSUME NEW j \in Nat, j >= i + 1, NEW n \in 0..(i + 1) PROVE e[j][n] = e[i + 1][n]
        <4>1. PICK k \in Nat : k + 1 = j /\ k >= i
          <5>1. j - 1 \in Nat /\ (j - 1) + 1 = j /\ j - 1 >= i  BY <3>1
          <5> QED BY <5>1
        <4>2. n \in Nat  OBVIOUS
        <4>3. e[k + 1][n] = IF n < Base THEN 1 ELSE 1 + e[k][n \div Base]  BY <1>6, <4>2
        <4>4. e[i + 1][n] = IF n < Base THEN 1 ELSE 1 + e[i][n \div Base]  BY <1>6, <4>2
        <4>5. CASE n < Base  BY <4>1, <4>3, <4>4, <4>5
        <4>6. CASE ~(n < Base)
          <5>1. n >= Base  BY <1>0, <4>2, <4>6
          <5>2. n \div Base \in Nat /\ n \div Base < n  BY <4>2, <5>1, BaseDiv
          <5>3. n \div Base \in 0..i  BY <3>1, <5>2
          <5>4. e[k][n \div Base] = e[i][n \div Base]  BY <2>2, <4>1, <5>3
          <5> QED BY <4>1, <4>3, <4>4, <4>6, <5>4
        <4> QED BY <4>5, <4>6
      <3> QED BY <3>1
    <2> HIDE DEF S
    <2> QED BY <2>1, <2>2, SetInduction
  <1> DEFINE d == [n \in Nat |-> e[n][n]]
  <1>9. ASSUME NEW n \in Nat
        PROVE  e[n][n] = IF n < Base THEN 1 ELSE 1 + e[n \div Base][n \div Base]
    <2>1. CASE n = 0
      <3>1. n < Base  BY <1>0, <2>1
      <3>2. e[n][n] = 1  BY <1>7, <2>1
      <3> QED BY <3>1, <3>2
    <2>2. CASE n # 0
      <3>1. PICK i \in Nat : i + 1 = n
        <4>1. n - 1 \in Nat /\ (n - 1) + 1 = n  BY <2>2
        <4> QED BY <4>1
      <3>2. e[i + 1][n] = IF n < Base THEN 1 ELSE 1 + e[i][n \div Base]  BY <1>6
      <3>3. CASE n < Base  BY <3>1, <3>2, <3>3
      <3>4. CASE ~(n < Base)
        <4>1. n >= Base  BY <1>0, <3>4
        <4>2. PICK m \in Nat : m = n \div Base /\ m < n  BY <4>1, BaseDiv
        <4>3. i >= m /\ m \in 0..m  BY <3>1, <4>2
        <4>4. e[i][m] = e[m][m]  BY <1>8, <4>2, <4>3
        <4> QED BY <3>1, <3>2, <3>4, <4>2, <4>4
      <3> QED BY <3>3, <3>4
    <2> QED BY <2>1, <2>2
  <1>10. d \in [Nat -> Nat]  BY <1>7
  <1>11. Defines(d)
    <2>1. ASSUME NEW n \in Nat PROVE d[n] = IF n < Base THEN 1 ELSE 1 + d[n \div Base]
      <3>1. CASE n < Base  BY <1>9, <3>1
      <3>2. CASE ~(n < Base)
        <4>1. n >= Base  BY <1>0, <3>2
        <4>2. n \div Base \in Nat  BY <4>1, BaseDiv
        <4> QED BY <1>9, <3>2, <4>2
      <3> QED BY <3>1, <3>2
    <2> QED BY <2>1
  <1> DEFINE c == CHOOSE x : Defines(x)
  <1> HIDE DEF S, d
  <1>12. Defines(c)
    <2> HIDE DEF Defines
    <2> QED BY <1>11
  <1>13. Digits = c  BY DEF Digits
  <1> HIDE DEF c
  <1>14. Digits = [n \in Nat |-> IF n < Base THEN 1 ELSE 1 + Digits[n \div Base]]  BY <1>12, <1>13
  <1>15. \A n \in Nat : Digits[n] = IF n < Base THEN 1 ELSE 1 + Digits[n \div Base]  BY <1>14
  <1> DEFINE R == {i \in Nat : \A n \in 0..i : Digits[n] \in Nat}
  <1>16. \A i \in Nat : i \in R
    <2>1. 0 \in R
      <3>1. \A n \in 0..0 : n = 0  OBVIOUS
      <3>2. Digits[0] = 1  BY <1>0, <1>15
      <3> QED BY <3>1, <3>2
    <2>2. ASSUME NEW i \in Nat, i \in R PROVE i + 1 \in R
      <3>1. ASSUME NEW n \in 0..(i + 1) PROVE Digits[n] \in Nat
        <4>1. n \in Nat  OBVIOUS
        <4>2. CASE n < Base  BY <1>15, <4>1, <4>2
        <4>3. CASE ~(n < Base)
          <5>1. n >= Base  BY <1>0, <4>1, <4>3
          <5>2. n \div Base \in Nat /\ n \div Base < n  BY <4>1, <5>1, BaseDiv
          <5>3. n \div Base \in 0..i  BY <3>1, <5>2
          <5>4. Digits[n \div Base] \in Nat  BY <2>2, <5>3
          <5> QED BY <1>15, <4>1, <4>3, <5>4
        <4> QED BY <4>2, <4>3
      <3> QED BY <3>1
    <2> HIDE DEF R
    <2> QED BY <2>1, <2>2, SetInduction
  <1>17. \A n \in Nat : Digits[n] \in Nat
    <2>1. \A n \in Nat : n \in 0..n  OBVIOUS
    <2> QED BY <1>16, <2>1
  <1>18. Digits \in [Nat -> Nat]
    <2>1. Digits = [n \in Nat |-> Digits[n]]  BY <1>14
    <2> QED BY <1>17, <2>1
  <1> QED BY <1>15, <1>18

\* k digits are enough exactly for the numbers below the k-th power of the base.
LEMMA DigitsOfPower ==
    ASSUME NEW k \in Nat, k >= 1, NEW n \in Nat
    PROVE  Digits[n] <= k <=> n < Power[k]
  <1> DEFINE Good(i) == \A m \in Nat : Digits[m] <= i + 1 <=> m < Power[i + 1]
             S == {i \in Nat : Good(i)}
  <1>0. Base \in Nat /\ Base >= 2 /\ \A m \in Nat : Digits[m] \in Nat /\ Power[m] \in Nat
    BY BaseType, DigitsDef, PowerDef
  <1>1. ASSUME NEW i \in Nat PROVE Power[i] >= 1
    <2> DEFINE P == {j \in Nat : Power[j] >= 1}
    <2>1. 0 \in P  BY PowerDef
    <2>2. ASSUME NEW j \in Nat, j \in P PROVE j + 1 \in P
      <3>1. PICK p \in Nat : p = Power[j] /\ p >= 1 /\ Power[j + 1] = Base * p
        BY <1>0, <2>2, PowerDef
      <3>2. 1 * Base <= p * Base /\ p * Base = Base * p  BY <1>0, <3>1, TimesMonotone
      <3>3. Base * p >= 1  BY <1>0, <3>1, <3>2
      <3> QED BY <3>1, <3>3
    <2>3. \A j \in Nat : j \in P
      <3> HIDE DEF P
      <3> QED BY <2>1, <2>2, SetInduction
    <2> QED BY <2>3
  <1>2. ASSUME NEW m \in Nat PROVE Digits[m] >= 1
    <2>1. CASE m < Base  BY <2>1, DigitsDef
    <2>2. CASE ~(m < Base)
      <3>1. m \div Base \in Nat  BY <1>0, <2>2, BaseDiv
      <3>2. Digits[m] = 1 + Digits[m \div Base] /\ Digits[m \div Base] \in Nat  BY <1>0, <2>2, <3>1, DigitsDef
      <3> QED BY <3>2
    <2> QED BY <2>1, <2>2
  <1>3. 0 \in S
    <2>1. Power[1] = Base
      <3>1. Power[0 + 1] = Base * Power[0] /\ Power[0] = 1  BY PowerDef
      <3> QED BY <1>0, <3>1
    <2>2. ASSUME NEW m \in Nat PROVE Digits[m] <= 1 <=> m < Base
      <3>1. CASE m < Base  BY <3>1, DigitsDef
      <3>2. CASE ~(m < Base)
        <4>1. PICK q \in Nat : q = m \div Base  BY <1>0, <3>2, BaseDiv
        <4>2. Digits[m] = 1 + Digits[q] /\ Digits[q] \in Nat /\ Digits[q] >= 1
          BY <1>0, <1>2, <3>2, <4>1, DigitsDef
        <4> QED BY <3>2, <4>2
      <3> QED BY <3>1, <3>2
    <2> QED BY <2>1, <2>2
  <1>4. ASSUME NEW i \in Nat, i \in S PROVE i + 1 \in S
    <2>1. PICK p \in Nat : p = Power[i + 1] /\ Power[(i + 1) + 1] = Base * p /\ p >= 1
      BY <1>0, <1>1, PowerDef
    <2>2. ASSUME NEW m \in Nat PROVE Digits[m] <= (i + 1) + 1 <=> m < Base * p
      <3>1. CASE m < Base
        <4>1. Digits[m] = 1  BY <3>1, DigitsDef
        <4>2. 1 * Base <= p * Base /\ p * Base = Base * p  BY <1>0, <2>1, TimesMonotone
        <4>3. m < Base * p  BY <1>0, <3>1, <4>2
        <4> QED BY <4>1, <4>3
      <3>2. CASE ~(m < Base)
        <4>0. m >= Base  BY <1>0, <3>2
        <4>1. PICK q \in Nat : q = m \div Base /\ (q < p <=> m < Base * p)  BY <2>1, <4>0, BaseDiv
        <4>2. Digits[m] = 1 + Digits[q] /\ Digits[q] \in Nat  BY <1>0, <3>2, <4>1, DigitsDef
        <4>3. Digits[q] <= i + 1 <=> q < p  BY <1>4, <2>1, <4>1
        <4> QED BY <4>1, <4>2, <4>3
      <3> QED BY <3>1, <3>2
    <2> QED BY <2>1, <2>2
  <1>5. \A i \in Nat : i \in S
    <2> HIDE DEF S
    <2> QED BY <1>3, <1>4, SetInduction
  <1>6. k - 1 \in Nat /\ (k - 1) + 1 = k  OBVIOUS
  <1>7. Good(k - 1)  BY <1>5, <1>6
  <1> QED BY <1>6, <1>7

\* A quotient and a remainder below p tell a number.
LEMMA PairsDistinct ==
    ASSUME NEW a \in Nat, NEW b \in Nat, NEW x \in Nat, NEW y \in Nat, NEW p \in Nat,
           x < p, y < p, a * p + x = b * p + y
    PROVE  a = b /\ x = y
  <1>0. a * p \in Int /\ b * p \in Int  OBVIOUS
  <1>1. CASE a + 1 <= b
    <2>1. (a + 1) * p <= b * p /\ (a + 1) * p = a * p + p  BY <1>1, TimesMonotone, TimesNext
    <2> QED BY <1>0, <2>1
  <1>2. CASE b + 1 <= a
    <2>1. (b + 1) * p <= a * p /\ (b + 1) * p = b * p + p  BY <1>2, TimesMonotone, TimesNext
    <2> QED BY <1>0, <2>1
  <1>3. a = b  BY <1>1, <1>2
  <1> QED BY <1>0, <1>3

\* Up to Power[ChunkDigits] chunks, no two pairs of a chunk and a file have the same
\* name with --rows and --filesize: the digits of the chunks do not vary, and those of
\* the files end the name.
LEMMA JoinedDistinct ==
    ASSUME NEW a \in Nat, NEW b \in Nat, NEW m \in Nat, NEW n \in Nat,
           a < Power[ChunkDigits], b < Power[ChunkDigits],
           Index(TRUE, TRUE, a, m) = Index(TRUE, TRUE, b, n)
    PROVE  a = b /\ m = n
  <1>0. /\ ChunkDigits \in Nat /\ ChunkDigits >= 1 /\ FileDigits \in Nat
        /\ \A i \in Nat : Digits[i] \in Nat /\ Power[i] \in Nat
    BY InputsAssumption, DigitsDef, PowerDef DEF InputsAssumption
  <1>1. PICK k \in Nat : k = Max2(FileDigits, Digits[m]) /\ Digits[m] <= k  BY <1>0
  <1>2. PICK l \in Nat : l = Max2(FileDigits, Digits[n]) /\ Digits[n] <= l  BY <1>0
  <1>3. Digits[a] <= ChunkDigits /\ Digits[b] <= ChunkDigits  BY <1>0, DigitsOfPower
  <1>4. Max2(ChunkDigits, Digits[a]) = ChunkDigits /\ Max2(ChunkDigits, Digits[b]) = ChunkDigits
    BY <1>0, <1>3
  <1>5. /\ Index(TRUE, TRUE, a, m) = [len |-> ChunkDigits + k, value |-> a * Power[k] + m]
        /\ Index(TRUE, TRUE, b, n) = [len |-> ChunkDigits + l, value |-> b * Power[l] + n]
    BY <1>1, <1>2, <1>4 DEF Index, Joined, Padded
  <1>6. ChunkDigits + k = ChunkDigits + l /\ a * Power[k] + m = b * Power[l] + n
    <2>1. \A v, x, y : v = [len |-> x, value |-> y] => v.len = x /\ v.value = y  OBVIOUS
    <2>2. PICK v : v = Index(TRUE, TRUE, a, m)  OBVIOUS
    <2>3. v.len = ChunkDigits + k /\ v.value = a * Power[k] + m  BY <1>5, <2>1, <2>2, Zenon
    <2>4. v = [len |-> ChunkDigits + l, value |-> b * Power[l] + n]  BY <1>5, <2>2, Zenon
    <2>5. v.len = ChunkDigits + l /\ v.value = b * Power[l] + n  BY <2>1, <2>4, Zenon
    <2> QED BY <2>3, <2>5
  <1>7. k = l  BY <1>0, <1>6
  <1>8. k >= 1
    <2>1. Digits[m] >= 1
      <3>1. CASE m < Base  BY <3>1, DigitsDef
      <3>2. CASE ~(m < Base)
        <4>1. m \div Base \in Nat  BY <3>2, BaseType, BaseDiv
        <4> QED BY <1>0, <3>2, <4>1, DigitsDef
      <3> QED BY <3>1, <3>2
    <2> QED BY <1>0, <1>1, <2>1
  <1>9. m < Power[k] /\ n < Power[k]  BY <1>1, <1>2, <1>7, <1>8, DigitsOfPower
  <1>10. PICK p \in Nat : p = Power[k]  BY <1>0
  <1> QED BY <1>6, <1>7, <1>9, <1>10, PairsDistinct
-----------------------------------------------------------------------------
(* The theorems. *)

\* Between any two steps of dumpTableData the chunks sent so far take exactly the
\* rows below the cutoff, and there are never more of them than announced.
THEOREM ChunkingInvariant == Spec => []IInv
  <1>1. ASSUME Init PROVE IInv
    <2>1. sent \in Seq([clause : Clause, index : Nat, total : Int])  BY <1>1 DEF Init
    <2>5. pc = "start" /\ result = "nil" /\ in \in Inputs  BY <1>1 DEF Init
    <2>6. cancelled \in BOOLEAN /\ nulls \in BOOLEAN  BY <1>1 DEF Init
    <2>7. count \in Nat /\ step \in Nat /\ cutoff \in Int /\ total \in Int  BY <1>1 DEF Init
    <2>2. TypeOK  BY <2>1, <2>5, <2>6, <2>7 DEF TypeOK
    <2>3. NothingSentYet /\ WorthSplitting
      BY <1>1 DEF Init, NothingSentYet, WorthSplitting, AllSent
    <2>4. RangeCover /\ CtidCover /\ ExactlyOnce
      BY <1>1 DEF Init, RangeCover, CtidCover, ExactlyOnce, AllSent
    <2>8. Numbered /\ RangeCount /\ CtidCount /\ CountedFinished
      BY <1>1 DEF Init, Numbered, RangeCount, CtidCount, CountedFinished, AllSent
    <2> QED BY <2>2, <2>3, <2>4, <2>8 DEF IInv
  <1>2. ASSUME IInv, [Next]_vars PROVE IInv'
    <2>1. TypeOK' /\ NothingSentYet' /\ WorthSplitting'
      BY <1>2, InputsAssumption, TypeStep, ControlStep DEF IInv
    <2>2. RangeCover' /\ CtidCover' /\ ExactlyOnce'
      BY <1>2, InputsAssumption, RangeStep, CtidLoopStep, ReturnStep
    <2>3. Numbered' /\ RangeCount' /\ CtidCount' /\ CountedFinished'
      BY <1>2, InputsAssumption, NumberedStep, RangeCountStep, CtidCountStep, FinishedStep
    <2> QED BY <2>1, <2>2, <2>3 DEF IInv
  <1> QED BY <1>1, <1>2, PTL DEF Spec

\* The state of a call of dumpTableData keeps its types: no step divides by
\* zero or leaves the integers, whatever the estimate, the key range and the
\* number of pages are.
THEOREM ChunkingTypeCorrect == Spec => []TypeOK
  <1>1. IInv => TypeOK  BY DEF IInv
  <1> QED BY <1>1, ChunkingInvariant, PTL

\* Whatever the table, the estimate and the options, the chunks that a call of
\* dumpTableData sends hold each row exactly once.
THEOREM ChunksPartitionTheTable == Spec => []ExactlyOnce
  <1>1. IInv => ExactlyOnce  BY DEF IInv
  <1> QED BY <1>1, ChunkingInvariant, PTL

\* Whatever the key range, the estimate and the pages, at most the last chunk sent
\* bears the mark by which handleTask counts a table as finished, and the last one
\* of a table dumped whole or by ctid ranges does.
THEOREM FinishedAtMostOnce == Spec => []CountedFinished
  <1>1. IInv => CountedFinished  BY DEF IInv
  <1> QED BY <1>1, ChunkingInvariant, PTL

\* No two files of a table have the same name, however many files its chunks are
\* split into, as long as the chunk indexes fit the digits that outputFileNamer has
\* for them: nine of them, so that a table may have 10^9 chunks.
THEOREM FileNamesDistinct == Spec => [](Len(sent) <= Power[ChunkDigits] => NamesDistinct)
  <1>1. ASSUME IInv, Len(sent) <= Power[ChunkDigits], AllSent,
               NEW fileSize \in BOOLEAN,
               NEW i \in 1..Len(sent), NEW j \in 1..Len(sent), NEW m \in Nat, NEW n \in Nat,
               ~fileSize => m = 0 /\ n = 0,
               Index(in.rows > 0, fileSize, sent[i].index, m)
                   = Index(in.rows > 0, fileSize, sent[j].index, n)
        PROVE  i = j /\ m = n
    <2>0. /\ Len(sent) \in Nat /\ in.rows \in Nat /\ Power[ChunkDigits] \in Nat
      <3>1. Len(sent) \in Nat /\ in \in Inputs  BY <1>1 DEF IInv, TypeOK
      <3>2. in.rows \in Nat  BY <3>1, InputTypes, InputsAssumption
      <3>3. Power[ChunkDigits] \in Nat  BY InputsAssumption, PowerDef DEF InputsAssumption
      <3> QED BY <3>1, <3>2, <3>3
    <2>1. PICK a \in Nat, b \in Nat :
              /\ a = sent[i].index /\ b = sent[j].index /\ a = i - 1 /\ b = j - 1
              /\ a < Power[ChunkDigits] /\ b < Power[ChunkDigits]
      <3>1. sent[i].index = i - 1 /\ sent[j].index = j - 1  BY <1>1 DEF IInv, Numbered
      <3>2. i - 1 \in Nat /\ j - 1 \in Nat /\ i - 1 < Power[ChunkDigits] /\ j - 1 < Power[ChunkDigits]
        BY <1>1, <2>0
      <3> QED BY <3>1, <3>2
    <2>2. Index(in.rows > 0, fileSize, a, m) = Index(in.rows > 0, fileSize, b, n)  BY <1>1, <2>1
    <2>3. CASE in.rows > 0 /\ fileSize
      <3>1. Index(TRUE, TRUE, a, m) = Index(TRUE, TRUE, b, n)  BY <2>2, <2>3 DEF Index
      <3>2. a = b /\ m = n  BY <2>1, <3>1, JoinedDistinct
      <3> QED BY <2>1, <3>2
    <2>4. CASE ~(in.rows > 0) /\ fileSize
      <3>1. m = n  BY <2>2, <2>4 DEF Index, Padded
      <3>2. in.rows = 0  BY <2>0, <2>4
      <3>3. Len(sent) = 1  BY <1>1, <3>2 DEF IInv, WorthSplitting
      <3> QED BY <3>1, <3>3
    <2>5. CASE ~fileSize
      <3>1. a = b  BY <2>2, <2>5 DEF Index, Padded
      <3> QED BY <1>1, <2>1, <2>5, <3>1
    <2> QED BY <2>3, <2>4, <2>5
  <1>2. ASSUME IInv PROVE Len(sent) <= Power[ChunkDigits] => NamesDistinct
    <2>1. Files \subseteq Nat  BY InputsAssumption DEF InputsAssumption
    <2>2. SUFFICES ASSUME Len(sent) <= Power[ChunkDigits], AllSent, NEW fileSize \in BOOLEAN,
                          NEW i \in 1..Len(sent), NEW j \in 1..Len(sent),
                          NEW m \in IF fileSize THEN Files ELSE {0},
                          NEW n \in IF fileSize THEN Files ELSE {0},
                          Index(in.rows > 0, fileSize, sent[i].index, m)
                              = Index(in.rows > 0, fileSize, sent[j].index, n)
                   PROVE  i = j /\ m = n
      BY Zenon DEF NamesDistinct
    <2>3. m \in Nat /\ n \in Nat /\ (~fileSize => m = 0 /\ n = 0)  BY <2>1
    <2> QED BY <1>1, <1>2, <2>2, <2>3
  <1> QED BY <1>2, ChunkingInvariant, PTL
=============================================================================
