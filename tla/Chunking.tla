------------------------------ MODULE Chunking ------------------------------
(***************************************************************************)
(* One call of dumpTableData: how the rows of a table are divided among    *)
(* the chunk tasks sent to the writers, by ranges of an integer key, by    *)
(* ranges of ctid blocks, or not at all.                                   *)
(*                                                                         *)
(* A chunk is modelled by the WHERE clause of its query, and a row by what *)
(* these clauses can tell about it: its key, which may be NULL, and the    *)
(* block it is stored in.                                                  *)
(***************************************************************************)
EXTENDS Integers, Sequences

CONSTANTS
    Word,         \* 2^64, the modulus of uint64
    Base,         \* 10, the base the indexes in a file name are written in
    ChunkDigits,  \* 9, the least digits of a chunk index
    FileDigits,   \* 4, the least digits of a file index behind a chunk index
    Files,        \* the indexes of the files one chunk may be split into
    Inputs,       \* the tables and options a behaviour may start with
    MaxTurns,     \* bound on the turns of a loop whose step is 0
    Rows          \* the rows a table may hold

\* rows: conf.Rows, 0 when unspecified. where: --where is given. count: what
\* reltuples says. field: there is a unique integer index; nullable: its
\* column may hold NULL. empty: no selected row has a key; else min..max are
\* the keys of the selected rows. pages: the size of the relation.
Input == [rows : Nat, where : BOOLEAN, count : Nat, field : BOOLEAN, nullable : BOOLEAN,
          empty : BOOLEAN, min : Int, max : Int, pages : Nat]

Row == [null : BOOLEAN, key : Int, block : Nat]

\* The keys are integers of at most 64 bits (getNumericIndex): the distance of
\* two of them is below Word.
ASSUME InputsAssumption ==
    /\ Word \in Nat \ {0}
    /\ Inputs \subseteq Input
    /\ \A x \in Inputs : x.min <= x.max /\ x.max - x.min < Word
    /\ Rows \subseteq Row
    /\ Base \in Nat \ {0, 1} /\ ChunkDigits \in Nat \ {0} /\ FileDigits \in Nat
    /\ Files \subseteq Nat /\ MaxTurns \in Nat \ {0}

VARIABLES
    in,           \* the input, fixed by the first state
    pc,           \* next step of the call
    cancelled,    \* the writers' context is done
    count,        \* the estimate the call works with
    step,         \* estimatedStep, or the pages of a ctid chunk
    cutoff,       \* first key, or block, of the next chunk
    total,        \* totalChunks
    nulls,        \* the next range also takes the rows whose key is NULL
    sent,         \* the tasks sent so far
    result        \* what the call returns

vars == <<in, pc, cancelled, count, step, cutoff, total, nulls, sent, result>>
-----------------------------------------------------------------------------
\* What the WHERE clauses of the chunks say.
Whole == [kind |-> "whole", lo |-> 0, hi |-> 0, open |-> TRUE]

\* Mutant of KeyRange: the ranges include their upper end.
ClosedKeyRange(lo, hi, n) == [kind |-> "range", lo |-> lo, hi |-> hi + 1, open |-> n]
KeyRange(lo, hi, n) == [kind |-> "range", lo |-> lo, hi |-> hi, open |-> n]

\* Mutant of Blocks: the last range ends with the pages counted.
ClosedBlocks(lo, hi, last) == [kind |-> "ctid", lo |-> lo, hi |-> hi, open |-> FALSE]
Blocks(lo, hi, last) == [kind |-> "ctid", lo |-> lo, hi |-> hi, open |-> last]

\* PostgreSQL evaluates the clause c on row r: a comparison with NULL selects nothing.
Selects(c, r) ==
    \/ c.kind = "whole"
    \/ c.kind = "range" /\ IF r.null THEN c.open ELSE c.lo <= r.key /\ r.key < c.hi
    \/ c.kind = "ctid" /\ c.lo <= r.block /\ (c.open \/ r.block < c.hi)

Task(c, i, n) == [clause |-> c, index |-> i, total |-> n]

Send(c, n) == sent' = Append(sent, Task(c, Len(sent), n))

Max2(a, b) == IF a < b THEN b ELSE a

Return(e) == pc' = "done" /\ result' = e
-----------------------------------------------------------------------------
Init ==
    /\ in \in Inputs
    /\ pc = "start" /\ cancelled = FALSE /\ count = 0 /\ step = 0 /\ cutoff = 0 /\ total = 0
    /\ nulls = FALSE /\ sent = <<>> /\ result = "nil"

\* dumpTableData chooses; buildOrderByClause comes first and may fail.
Start ==
    /\ pc = "start"
    /\ \/ pc' = (IF in.rows = 0 THEN "whole" ELSE "field") /\ UNCHANGED result
       \/ Return("fail")
    /\ UNCHANGED <<in, cancelled, count, step, cutoff, total, nulls, sent>>

\* pickupPossibleField.
PickField ==
    /\ pc = "field"
    /\ pc' \in {"estimate", "whole"}
    /\ UNCHANGED <<in, cancelled, count, step, cutoff, total, nulls, sent, result>>

\* estimateCount: an error counts as no rows.
EstimateCount ==
    /\ pc = "estimate"
    /\ count' \in {in.count, 0}
    /\ pc' = IF count' < in.rows THEN "whole" ELSE IF in.field THEN "bounds" ELSE "pages"
    /\ UNCHANGED <<in, cancelled, step, cutoff, total, nulls, sent, result>>

\* The width of the key range, and the step in uint64 arithmetic.
Width == (in.max - in.min) % Word
EstimatedChunks == count \div in.rows

EstimatedStep == (Width \div EstimatedChunks + 1) % Word

\* selectMinAndMaxIntValue; without any key, or on an error, no splitting.
SelectMinAndMax ==
    /\ pc = "bounds"
    /\ \/ /\ ~in.empty
          /\ step' = EstimatedStep
          /\ cutoff' = in.min
          /\ total' = IF EstimatedStep = 1 THEN (Width + 1) % Word ELSE EstimatedChunks
          /\ nulls' = ~in.where
          /\ pc' = "range"
       \/ pc' = "whole" /\ UNCHANGED <<step, cutoff, total, nulls>>
    /\ UNCHANGED <<in, cancelled, count, sent, result>>

\* One turn of the loop over the key ranges. With step 0 every turn sends the empty range
\* cutoff..cutoff again, without end; beyond MaxTurns of them the tasks are no longer
\* recorded, and a turn that only adds such a task is a stuttering step.
SendRange ==
    /\ pc = "range" /\ in.max >= cutoff
    /\ step = 0 => Len(sent) < MaxTurns
    /\ Send(KeyRange(cutoff, cutoff + step, nulls), total)
    /\ nulls' = FALSE
    /\ cutoff' = cutoff + step
    /\ UNCHANGED <<in, pc, cancelled, count, step, total, result>>

RangeAborted ==
    /\ pc = "range" /\ in.max >= cutoff /\ cancelled
    /\ Return("canceled")
    /\ UNCHANGED <<in, cancelled, count, step, cutoff, total, nulls, sent>>

RangeDone ==
    /\ pc = "range" /\ in.max < cutoff
    /\ Return("nil")
    /\ UNCHANGED <<in, cancelled, count, step, cutoff, total, nulls, sent>>

\* The pages of one chunk, at least one and at most all of them.
CtidStep ==
    LET s == Max2(in.pages \div Max2(EstimatedChunks, 1), 1)
    IN IF s > in.pages THEN in.pages ELSE s

\* Mutant of CtidChunks: the quotient is rounded down.
CtidChunksFloor == in.pages \div CtidStep

CtidChunks == (in.pages + CtidStep - 1) \div CtidStep

\* The page count of concurrentDumpTableByCtid; without pages no splitting.
CountPages ==
    /\ pc = "pages"
    /\ \/ /\ in.pages > 0
          /\ step' = CtidStep
          /\ cutoff' = 0
          /\ total' = CtidChunks
          /\ pc' = "ctid"
       \/ pc' = "whole" /\ UNCHANGED <<step, cutoff, total>>
    /\ UNCHANGED <<in, cancelled, count, nulls, sent, result>>

\* One turn of the loop over the blocks; the last range is open.
SendBlocks ==
    /\ pc = "ctid" /\ cutoff < in.pages
    /\ Send(Blocks(cutoff, cutoff + step, cutoff + step >= in.pages), total)
    /\ cutoff' = cutoff + step
    /\ UNCHANGED <<in, pc, cancelled, count, step, total, nulls, result>>

\* The error of an aborted send counts as a failed split: the whole table follows.
BlocksAborted ==
    /\ pc = "ctid" /\ cutoff < in.pages /\ cancelled
    /\ pc' = "whole"
    /\ UNCHANGED <<in, cancelled, count, step, cutoff, total, nulls, sent, result>>

\* Mutant of BlocksDone: the loop ends beyond the last page only.
BlocksDoneLate ==
    /\ pc = "ctid" /\ cutoff > in.pages
    /\ Return("nil")
    /\ UNCHANGED <<in, cancelled, count, step, cutoff, total, nulls, sent>>

BlocksDone ==
    /\ pc = "ctid" /\ cutoff >= in.pages
    /\ Return("nil")
    /\ UNCHANGED <<in, cancelled, count, step, cutoff, total, nulls, sent>>

\* dumpWholeTableDirectly.
SendWhole ==
    /\ pc = "whole"
    /\ \/ sent' = Append(sent, Task(Whole, 0, 1)) /\ Return("nil")
       \/ cancelled /\ Return("canceled") /\ UNCHANGED sent
    /\ UNCHANGED <<in, cancelled, count, step, cutoff, total, nulls>>

\* The context ends while the call runs.
Cancel ==
    /\ ~cancelled /\ pc # "done"
    /\ cancelled' = TRUE
    /\ UNCHANGED <<in, pc, count, step, cutoff, total, nulls, sent, result>>

Step ==
    \/ Start \/ PickField \/ EstimateCount \/ SelectMinAndMax \/ SendRange \/ RangeAborted
    \/ RangeDone \/ CountPages \/ SendBlocks \/ BlocksAborted \/ BlocksDone \/ SendWhole

Next == Step \/ Cancel

Spec == Init /\ [][Next]_vars

\* The call keeps running; its queries and sends return.
FairSpec == Spec /\ WF_vars(Step)
-----------------------------------------------------------------------------
(* The file names of a table's chunks: outputFileNamer.Index. *)

Digits[n \in Nat] == IF n < Base THEN 1 ELSE 1 + Digits[n \div Base]

Power[k \in Nat] == IF k = 0 THEN 1 ELSE Base * Power[k - 1]

\* A number padded with zeros to at least the given digits, or two such
\* numbers in a row: a text of digits is told by its length and its value.
Padded(n, digits) == [len |-> Max2(digits, Digits[n]), value |-> n]
Joined(a, b) == [len |-> a.len + b.len, value |-> a.value * Power[b.len] + b.value]

\* Mutant of Index: the format for --filesize alone, whether or not --rows is given.
IndexWithoutChunk(rows, fileSize, chunk, file) ==
    IF fileSize THEN Padded(file, ChunkDigits) ELSE Padded(chunk, ChunkDigits)

Index(rows, fileSize, chunk, file) ==
    IF rows /\ fileSize THEN Joined(Padded(chunk, ChunkDigits), Padded(file, FileDigits))
    ELSE IF fileSize THEN Padded(file, ChunkDigits)
    ELSE Padded(chunk, ChunkDigits)
-----------------------------------------------------------------------------
(* Properties. *)

Clause == [kind : {"whole", "range", "ctid"}, lo : Int, hi : Int, open : BOOLEAN]

\* The state variables have their types; step and the chunk indexes never go below 0.
TypeOK ==
    /\ in \in Inputs
    /\ pc \in {"start", "field", "estimate", "bounds", "range", "pages", "ctid", "whole", "done"}
    /\ cancelled \in BOOLEAN /\ count \in Nat /\ step \in Nat /\ cutoff \in Int /\ total \in Int
    /\ nulls \in BOOLEAN
    /\ sent \in Seq([clause : Clause, index : Nat, total : Int])
    /\ result \in {"nil", "fail", "canceled"}

\* Row r can be one of the selected rows: its key, if it has one, lies
\* within the bounds just read.
Possible(r) == IF r.null THEN in.nullable ELSE in.min <= r.key /\ r.key <= in.max

\* The call has sent all chunks of the table.
AllSent == pc = "done" /\ result = "nil" /\ ~cancelled

\* Task i and no other takes row r.
TakenOnceBy(i, r) ==
    Selects(sent[i].clause, r) /\ \A j \in 1..Len(sent) : Selects(sent[j].clause, r) => j = i

TakenOnce(r) == \E i \in 1..Len(sent) : TakenOnceBy(i, r)

\* Every row is in exactly one chunk, also where ranges meet and beyond the
\* last page that was counted; with --where, every row that has a key
\* (concurrentDumpTable, concurrentDumpTableByCtid).
ExactlyOnce ==
    AllSent => \A r \in Rows : Possible(r) /\ (r.null => ~in.where) => TakenOnce(r)

\* No two files of a table have the same name, with --rows, --filesize, both or
\* neither, also when a chunk needs more files than the format has digits for
\* (newOutputFileNamer). Without --filesize a chunk is one file.
NamesDistinct ==
    AllSent =>
        \A fileSize \in BOOLEAN : LET files == IF fileSize THEN Files ELSE {0} IN
            \A i, j \in 1..Len(sent) : \A m, n \in files :
                Index(in.rows > 0, fileSize, sent[i].index, m)
                    = Index(in.rows > 0, fileSize, sent[j].index, n)
                => i = j /\ m = n

\* dumpTableData returns: its loops over ranges and blocks end (concurrentDumpTable).
Returns == <>(pc = "done")

\* It does so, whatever the remainders of width and pages, if uint64 arithmetic has not
\* made the step of the key ranges 0 (concurrentDumpTable, concurrentDumpTableByCtid).
LoopsEnd == [](pc = "range" => step # 0) => Returns

\* Index + 1 = total marks the chunk whose writer counts the table as finished
\* (handleTask). Only the last chunk sent may bear the mark, and that of a table dumped
\* whole or by ctid ranges does; by key ranges fewer chunks may be sent than announced.
CountedFinished ==
    AllSent =>
        /\ \A i \in 1..Len(sent) : sent[i].index + 1 = sent[i].total => i = Len(sent)
        /\ (\A i \in 1..Len(sent) : sent[i].clause.kind # "range") =>
               \E i \in 1..Len(sent) : sent[i].index + 1 = sent[i].total

\* Every selected row is dumped, also those without a key.
NullRowsDumped == AllSent => \A r \in Rows : Possible(r) => TakenOnce(r)
-----------------------------------------------------------------------------
(* The inductive invariant behind ExactlyOnce and CountedFinished. *)

NotTaken(r) == \A i \in 1..Len(sent) : ~Selects(sent[i].clause, r)

\* Until the way of splitting is settled nothing is sent; the whole table
\* follows other tasks only after a cancellation.
NothingSentYet ==
    /\ pc \in {"start", "field", "estimate", "bounds", "pages"} => sent = <<>>
    /\ pc = "whole" /\ ~cancelled => sent = <<>>

\* The table is split only with --rows, and when it has more rows than a chunk.
WorthSplitting ==
    /\ pc \in {"field", "estimate", "bounds", "pages", "range", "ctid"} => in.rows > 0
    /\ pc \in {"bounds", "pages"} => count >= in.rows
    /\ AllSent /\ in.rows = 0 => Len(sent) = 1

\* The keys below cutoff are dealt with and no other one is; the NULL keys go
\* with the first range, unless --where is given.
RangeCover ==
    pc = "range" =>
        /\ in.min <= cutoff /\ (nulls => ~in.where /\ cutoff = in.min)
        /\ \A r \in Rows : ~r.null /\ in.min <= r.key =>
               IF r.key < cutoff THEN TakenOnce(r) ELSE NotTaken(r)
        /\ \A r \in Rows : r.null =>
               IF nulls \/ in.where THEN NotTaken(r) ELSE TakenOnce(r)

\* The blocks below cutoff are dealt with, and all blocks once the open range is sent.
CtidCover ==
    pc = "ctid" =>
        \A r \in Rows :
            IF r.block < cutoff \/ in.pages <= cutoff THEN TakenOnce(r) ELSE NotTaken(r)

\* The chunks are numbered in the order they are sent.
Numbered ==
    pc \in {"range", "ctid"} \/ AllSent => \A i \in 1..Len(sent) : sent[i].index = i - 1

\* Each chunk sent took one step from in.min, and the chunks announced reach in.max.
RangeCount ==
    pc = "range" =>
        /\ \A i \in 1..Len(sent) : sent[i].clause.kind = "range" /\ sent[i].total = total
        /\ cutoff = in.min + Len(sent) * step
        /\ step = 0 \/ total = 0 \/ (Len(sent) <= total /\ in.max - in.min < total * step)

\* Each chunk sent took one step from block 0, and began before the last page.
CtidCount ==
    pc = "ctid" =>
        /\ step >= 1 /\ total = (in.pages + step - 1) \div step /\ in.pages > 0
        /\ \A i \in 1..Len(sent) : sent[i].total = total
        /\ cutoff = Len(sent) * step
        /\ sent # <<>> => (Len(sent) - 1) * step < in.pages

\* At every step of concurrentDumpTable the rows below cutoff are in exactly one
\* chunk and the others in none, and the chunks sent are never more than announced.
IInv ==
    /\ TypeOK /\ NothingSentYet /\ WorthSplitting /\ RangeCover /\ CtidCover /\ ExactlyOnce
    /\ Numbered /\ RangeCount /\ CtidCount /\ CountedFinished
=============================================================================
