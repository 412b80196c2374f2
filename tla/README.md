# A TLA+ verification of pg-dumpling

pg-dumpling dumps a PostgreSQL database to SQL or CSV files with several
connections at once, all of them reading one exported snapshot, and can create
a logical replication slot at the very point of that snapshot. This directory
holds TLA+ modules for its core, TLC configurations that check them on small
instances, and TLAPS proofs for arbitrary ones. `src/export/` below means the
Go package that contains the program.

## The system

| component | state | operations | interacts with |
|---|---|---|---|
| orchestration (`dump.go`, `task.go`, `util.go`) | local `err`, named result `dumpErr`, task channel, errgroup | `Dump`, `dumpDatabases`, `dumpSQL`, `startWriters`, `Close`, deferred calls | all others |
| writers (`writer.go`) | current task, connection | `run`, `handleTask`, `WriteTableData`, DDL writers | task channel, errgroup context, storage |
| consistency and CDC (`consistency.go`, `cdc.go`) | snapshot transaction, replication connection, slot, global snapshot token | `Setup`, `TearDown`, `OnFailure`, `PingContext` | server, `Dump`, `rebuildConn` |
| retry, connections (`retry.go`, `conn.go`) | attempts left | `WithRetry`, `QuerySQL`, rebuild of a connection | writers, producer |
| chunking (`dump.go`, `sql.go`) | step, cutoff, chunk index | `dumpTableData`, `concurrentDumpTable`, `concurrentDumpTableByCtid` | server, task channel |
| chunk writing (`writer_util.go`, `ir_impl.go`) | buffer, pipe channel, counters, gauges | `WriteInsert`, `WriteInsertInCsv`, `writerPipe.Run` | storage, result set, metrics |
| table selection (`prepare.go`, `block_allow_list.go`, `internal/table-filter`) | rules, `conf.Tables` | `Parse`, `MatchTable`, `MatchSchema`, `prepareTableListToDump` | catalogue |
| metadata file (`metadata.go`) | buffer | `recordStartTime`, `recordFinishTime`, `writeGlobalMetaData` | `Dump`, storage |
| text output (`sql_type.go`, `dialect.go`, `prepare.go`, `config.go`) | none | escaping and quoting of rows, names, literals, file names, DSN | the programs that read it |
| metrics and status (`metrics.go`, `status.go`) | counters, gauges, last speed | `GetStatus`, `GetSpeed`, `registerTo` | producer, writers, registry |
| life cycle and options (`dump.go`, `config.go`, `cmd/pg-dumpling/main.go`, `http_handler.go`) | `Config`, pool, package variables, status address | `ParseFromFlags`, `NewDumper` and its steps, `Close` | registry, server, all dumpers of the process |

What is hard: the producer and the writers run concurrently, share a context
that either the caller or the first failing writer ends, and each of them may
be interrupted anywhere; `Dump` decides its result first and cleans up
afterwards in deferred calls; connections are rebuilt in the middle of the dump
and must come back in the same snapshot; and the snapshot lives only as long as
the session which exported it. The properties that make the system correct are:
a nil result means a complete dump; all data files show one version; the slot
survives exactly a dump that succeeds and the metadata tells the truth; the
chunks of a table partition its rows; the files of a chunk hold its rows once;
the tables selected are the ones asked for; what is written is read back; a
dumper leaves the process fit for the next one; the progress shown is true; and
every call returns.

## Modules

| module | models |
|---|---|
| `Dump` | one call of `Dumper.Dump`: main goroutine, producer, channel, writers, consistency controller, slot, metadata file, and the part of the server that decides what a connection reads |
| `DumpJob` | the abstract job a dump promises to be |
| `Chunking` | one call of `dumpTableData` |
| `ChunkWriter` | one call of `WriteTableData` with the goroutine of `writerPipe` |
| `TableSelection` | `--filter`, `--tables-list` and `prepareTableListToDump` |
| `Encoding` | the text the dumper writes, and the programs that read it |
| `Status` | the metrics of one dump and the calls of `GetStatus` |
| `Dumper` | the life of a dumper from the flags to `Close`, one after the other in one process; extends `Status` |
| `MCDump`, `MCChunking`, `MCChunkWriter`, `MCTableSelection`, `MCEncoding`, `MCDumper` | instances for TLC |
| `DumpProofs`, `ChunkingProofs`, `ChunkWriterProofs`, `TableSelectionProofs`, `EncodingProofs`, `DumperProofs` | theorems |
| `Induction` | lemmas: induction and recursion on natural numbers, and what they say of the community modules' `FlattenSeq` |

`Dump` treats a table as a number of chunks and a chunk as one file with the
version it was read at; `Chunking` says which rows those chunks hold, and
`ChunkWriter` what happens between the query of a chunk and its files.
`TableSelection` yields the table list that `Dump` has as the constant
`TablesOf`. `Encoding` is about the bytes of which `ChunkWriter` knows the size
only. `Dumper` surrounds a dump, of which it has what `Status` knows; what it
says of the snapshot token and of the slot agrees with `Dump`.

### Dump

`pc` follows the statements of `Dump`: `new`, `slot` and `begin` are
`NewConsistencyController` and the two halves of `Setup`; then the meta
connection, the table list, one step for each writer started, `TearDown` under
`--transactional-consistency`, the producer, `close(taskIn)`, `wg.Wait`, and the
deferred calls in the order Go runs them (`dWriters`, `dConsistency`,
`dOnFailure`, `dMetadata`). `err` is the local variable that the deferred
clean-up reads and `dumpErr` the named result: they are two variables because
in the code they are. A writer is `idle`, or is writing DDL, or starts a query,
reads its result, sleeps before a retry or rebuilds its connection. The channel
is the queue `q`, which is what the goroutine of `infiniteChan` amounts to.

Data is a version number: `OtherCommit` lets another session commit, a
connection shows the version of its snapshot (or the current one), and a file
is `Absent`, `Torn` or a version. Faults of database and storage are injected
at every call that returns an error, `MaxFaults` in all; operations whose
precondition is gone (cancelled context, closed connection, dead snapshot) fail
without using up a fault. External, and modelled from their use only, are the
snapshot rules of PostgreSQL and the commits of other sessions.

### DumpJob

A job runs, writes files, reserves the slot, then succeeds or fails once; it
succeeds only with everything written or cancelled; the finish time appears
after success, and the slot is given back after failure only. The refinement
mapping is at the end of `Dump`: the phase is read off `pc` and `dumpErr`, the
plan is every task except the chunks superseded by a whole-table fallback.

### Chunking

A chunk is its WHERE clause, a row the key (or NULL) and block that clauses see.
The step of the key ranges is computed modulo `Word` (2^64 in the code), the
rest in unbounded integers as `big.Int` does. The step may wrap to 0; then the loop
sends an empty range at every turn for ever, of which the first `MaxTurns` are
recorded. Every fallback to the whole table
is there, and cancellation between any two sends. The names of the files are
there as the number that their digits spell and the count of those digits
(`Index`), so that two names are equal exactly if those are.

### ChunkWriter

The caller encodes rows into `bf`, hands full buffers to the pipe through a
channel of capacity `PipeCap`, and switches statements and files by the counted
sizes; the pipe goroutine writes them and updates the gauges step by step, as
the code does without a lock. Deferred functions run in Go's order: the revert
of the metrics first, then cancel and wait. All pieces have size 1.

### TableSelection

A pattern is the set of names it matches, as written and after `toLower`
(`plain`, `folded`); `true` marks the `*` pattern, the one for which
`matchAllStrings` holds. `--tables-list` is a sequence: each of its entries becomes
an entry of `conf.Tables` (`entry` is its place), also when it names a table again.
What the flags ask for (`WantedKinds`) is written down independently of the
relkinds that the query lists (`ListedIn`). The two catalogue queries are separate steps, and
without a snapshot other sessions may change the catalogue between them.

### Encoding

A format says how the fields of a text are escaped, separated and ended; there
is one for a row of an INSERT statement, a row and a header of a CSV file, a
qualified name in both dialects, a string literal, a file name and the user part
of a DSN. The writer chooses any fields and writes them symbol by symbol; a
reader takes the symbols off the wire. The reader is external: a SQL parser, a CSV
parser, a loader that splits file names at `.` and `-schema`, a URL parser, each
a function of the symbols so far. Whether it takes a backslash for an escape is a
parameter: in SQL it does unless the dialect is PostgreSQL's or the preamble is
written, in CSV if `backslash` says so, as it is for LOAD DATA without ESCAPED BY
(`.github/workflows/ci.yml:246`). Symbols stand for characters, or for pieces of
text that are read as one (`NULL`, a line terminator, `schema` in a file name);
the two digits of a symbol stand for its hexadecimal code.

### Status and Dumper

`Status` has the counters from which progress and speed are computed, the
attempts of the writers that change them, and `GetStatus` as one step for each
atomic load. An attempt writes one file after the other, each of size 1. It fails in
`WriteInsert`, whose deferred call takes back what it finds counted of the current
file while the pipe still runs and may count a buffer afterwards (`PipeStops`); or
outside, when the connection, the query or the closing of a file fails, and then
nothing is taken back; files that it finished stay counted in either case. Time is
left out: whether any has passed between two calls is a choice of `GetSpeed`.
`credited`, `extra`, `peak` and `shown` are history variables: the bytes the
speeds shown account for, what failed attempts left in the gauge, the largest
size without it, the last progress.

`Dumper` has one step for each step of `NewDumper`, any of which may fail where
its code returns an error. `life` counts the dumpers of the process; what they
share is the registry (equal collectors are equal whoever made them, so
that a second registration panics), the status address, the package variables
`pgSnapshotToken` and `pgDumpEnv`, and the caller's `Config`, which `StartAgain`
hands to the next dumper in the state the last one left it in. The snapshot of a
`Config` is then `"own"` and `owner` its dumper. The server refuses it once
the exporting session is gone; the sessions in `left` are not, since `Setup`
failed behind `createCDCSlot` and nobody closes the replication connection. A flag has its
values as far as the code tells them apart; a value that its parser refuses is
`"bad"`.

## Runs

| run | shows |
|---|---|
| `dump_faults` | all 16 combinations of the consistency and CDC options and four data-only ones, two writers, a table of two chunks, two faults anywhere, one commit of another session: completeness, one snapshot, no failure without a cause, slot dropped after failures of the main goroutine; with rebuildable connections a chunk gives up only after all its attempts failed |
| `dump_cancel` | a view and a table split by ctid, CDC slot, full, data-only, schema-only and `--sql` dumps, one fault and a cancellation at any moment: the inductive invariant, slot, metadata, that no step touches a finished file, that `Dump` implements `DumpJob`, that it returns and that its writers end |
| `chunking` | word size 16: every key range of width 0 to 15, the full one, against estimates 0 to 6 and chunk sizes 0 to 2, every table of 0 to 7 pages; rows beyond the counted pages; names of the files of every chunk at widths that are just enough; the loops end unless the step wraps to 0 |
| `writer` | four rows, buffers of two pieces, a channel of one buffer, several file and statement limits, SQL and CSV, two faults, two attempts, cancellation |
| `selection` | all lists of up to two rules from twelve, case-sensitive or not, over three catalogues exchanged at any moment; `--tables-list` with names that exist in several schemas or in none, and with one named twice |
| `encoding` | fifteen symbols, among them every one that a format treats specially; fields of up to two symbols, rows of two columns of each kind, two CSV options, both dialects, read without backslash escapes |
| `dumper` | two dumpers one after the other with any two of 60 option sets or one `Config` for both, every step failing, `Close` at any moment; two writers, two chunks, three attempts of up to two files with whole, partial and late reverts, one reader of `GetStatus` beside them |

Every passing run but `dump_faults`, which shares the module of `dump_cancel`,
checks the inductive invariant `IInv` of its module, of which the type invariant
is a part.

The runs that expect a violation each check one sentence of the repository that
the code does not keep:

| run | the code |
|---|---|
| `dump_writer_failure` | keeps the slot when a writer fails last: a shadowed `err` (`dump.go:254`) |
| `dump_default_retry` | cannot rebuild a connection under the default options (`consistency.go:177`) |
| `chunking_null_keys` | leaves out NULL keys with `--where` (`dump.go:542`) |
| `chunking_full_range` | computes the step of the key ranges in uint64: with the full range of bigint in one estimated chunk it is 0 and the loop never ends (`dump.go:529`) |
| `encoding_backslash` | escapes no backslash, neither in SQL for TiDB, where by default there is no preamble to turn on the `NO_BACKSLASH_ESCAPES` that the escaping relies on (`dialect.go:111`), nor in CSV for LOAD DATA with its default escape character (`sql_type.go:70`) |

Where a property is restricted to a case, the restriction marks behaviour of the
code to know about: `LoopsEnd` excludes the step 0 of `chunking_full_range`;
`CountedFinished`
does not promise that a table split by key ranges is counted at all, since fewer
chunks may be sent than announced (`dump.go:528`); `FailedAttemptUncounted` is
about chunks of one file that fail before the file is closed, since rows of
finished files stay counted (`writer_util.go:200`), and about rows, since the
pipe may still add to the size after it was reverted (`writer_util.go:201`).
For the same reasons `RevertedBytesCountOnce` does not say that the speed counts
every byte once: bytes that a failed attempt leaves in the gauge are counted again
with the retry, which the property allows for by `extra`, and claims no more than that
a gauge that goes down and up again does not add to it.
`SelectionExact` is about tables and views: sequences are wanted with
`--no-sequences=false` and never listed (`sql.go:248`), so that the flag has no
effect although `README.md:257` documents it. `SpecifiedExact` states what happens
to a table that `--tables-list` names twice: it is dumped twice, by two tasks with the
same file (`config.go:729`); `Dump` assumes distinct names and does not cover such
a list. `RoundTrip` is checked and proved for readers without backslash escapes; for the
others it fails (`encoding_backslash`). A failed write of the metadata file goes unnoticed
(`dump.go:111`). `MainFailureDropsSlot` is about failures after `Setup`: when
`Setup` itself fails after creating the slot, `Dump` returns before the clean-up
is deferred (`dump.go:119`). `CompleteOnSuccess` excludes cancellation: a
cancelled dump returns nil and records a finish time (`dump.go:241`).
`OneSnapshot` is about data: pg_dump reads the newest DDL (`sql.go:35`).
`NamesDistinct` holds for chunk indexes of up to nine digits, however many files
a chunk has.
`PoolsReleased` is about dumpers made without an error: after a failed
`NewDumper` the pool is open until the caller closes the dumper it got with the
error, and if the session parameters failed nobody can, since `dbHandle` is nil
(`dump.go:936`). `OwnState` is about one dumper after the other: two at a time
share `pgSnapshotToken`. It leaves one snapshot of an earlier dumper in: when
`Setup` fails behind `createCDCSlot`, `Dump` returns before `TearDown` is deferred
(`dump.go:119`), the replication connection stays open, and a dumper made with the same
`Config` finds `conf.Snapshot` set and good (`consistency.go:106`): it succeeds on the
snapshot of the earlier slot, which its metadata then names.

More that the modelling brought up: session parameters are set on a pool
that is closed at once (`sql.go:579`), and with a bind parameter, which
PostgreSQL does not take in SET, so that `--params` makes `NewDumper` fail; a
failed ping of the new pool is not returned (`sql.go:589`); a `Config` that
served one snapshot dump keeps its snapshot and lets the next dump fail
(`consistency.go:106`); `--cdc-slot` with `--snapshot` or `--consistency none` is
accepted and makes no slot (`consistency.go:98`), against `config.go:384`; an unknown `--consistency` is noticed by `Dump` only;
`--csv-output-dialect` compares the file type before it is lowered, so that
`CSV` is refused (`config.go:617`); the database name is not escaped in the DSN
(`config.go:276`); the listener of the status address is never closed.

### Bounds

Two writers are enough for every race between writers, since they share nothing
but the queue and the context, and one of them failing while the other works is
the hard case. One fault reaches every error path; `dump_faults` has two, so that
a writer can exhaust its attempts, which it sets to two (the code has three). One commit suffices to tell snapshots
apart. In `chunking` the word is so small that every remainder of the step
computation occurs and a range of width 15 is the full one; three turns (`MaxTurns`)
of the loop with step 0 show that it is where it was. The sizes of
`writer` are such that a buffer is cut inside a statement, the channel fills up
and a file ends between two statements. Two rules are the least with which the
order of rules matters. Two symbols in a field are enough for a quote beside
a quote, an escape before the end of a field and a mark of two symbols; the proof
covers any length. Two lives show every trace that one dumper leaves to the next. The
dump of several chunks is one of the option sets, the others dump the result of
`--sql` or schemas only: what the
options decide does not depend on the chunks. One reader suffices for what
a call of `GetStatus` computes. Three attempts, which may finish one file before the
last (`MaxFiles`), let a gauge go down and up twice, with and without a rest; the second dumper has two
attempts (`FewerLater`). Writers are symmetric.

### Fairness

`dump_cancel` assumes weak fairness of the main goroutine and of each writer:
the Go scheduler runs every goroutine that can run, and calls to database and
storage return, with a result or an error, which the code leaves to timeouts
of the driver. It also assumes that `main` calls `Close` when `Dump` has
returned. It assumes nothing of the environment: no fault and no commit need
happen. `chunking`, `chunking_full_range` and `writer` assume the same of their
goroutines.
Deadlock is checked where a final state has an explicit stuttering step
(`Terminated` of `Dump`, in `dump_faults`) and is off where a call just ends; in
`dump_cancel` a stuck state violates `DumpReturns` or `WritersEnd`.

## Proofs

The theorems hold for every value of the constants that satisfies the ASSUME of
the module: any schemas, tables, options, number of writers, bounds; any word
size, table and rows; any result set, buffer, channel capacity, file and statement
limit; any names, rules and catalogues; any alphabet, columns, CSV options and
length of text; any number of dumpers, finite set of writers and set of readers.
Each invariant that a passing run checks is a theorem (`NamesDistinct` up to a
number of chunks, those of `Encoding` for readers without backslash escapes), and so
are the action properties and the refinement. Beside types the assumptions say: a schema has no
two relations of one name (PostgreSQL's catalogue; a `--tables-list` that names a
table twice is thereby excluded), in `Dump`; no flag yields a snapshot marked as a
dumper's own, in `Dumper`; two keys differ by
less than `Word` (keys have at most 64 bits, `getNumericIndex`), in `Chunking`;
and those on symbols named below, in `Encoding`.

A component's `IInv` is stated at the end of its module, as a conjunction of named
parts, and its proof module has a lemma for each part and each action that can
disturb it.

- `DumpProofs`: `Invariance`, `TypeCorrect`, `DumpComplete`, `DumpConsistent`,
  `SlotKept`, `MetadataIsTrue`, `FailsOnlyForACause`, `SlotDropped`,
  `RetriesExhausted`, `FilesAreFinal`, `DumpImplementsJob`. `CompleteOnSuccess` is not inductive: one
  has to say where a task is while it is under way. `NothingLost` does (still
  to be sent, queued, in the hands of a writer, superseded or written),
  `ProducerExhausted` says that the producer ends with nothing left unless the
  context is done, and `Endings` says why writer and main goroutines may have
  ended; at `wg.Wait` with no error and no cancellation only "written" is left.
  `SnapshotShared` carries the version of every connection and result set for
  `OneSnapshot`; `SlotTracked` follows slot, token and metadata buffer for
  slot and metadata. `NoSpuriousFailure` needs `SnapshotHeld`, that whoever
  exported the snapshot stays connected for as long as somebody may still adopt it.
  `GivesUpAfterRetries` needs `AttemptsPaid`: each attempt of a writer has cost one
  fault, so that a writer that gives up has met as many as there are attempts.
  `FinishedFileIsFinal` rests on the counterpart of `NothingLost`: a task waits once,
  or is in the hands of one writer, or its file is finished (`HandedOutOnce`). For
  this the producer must come to each table once (`LoopsOnce`), which is where
  the names of the relations must be distinct. The refinement maps each action to a step of `DumpJob` or to
  a stuttering one, with the same invariant.
- `ChunkingProofs`: `ChunkingInvariant`, `ChunkingTypeCorrect`,
  `ChunksPartitionTheTable`, `FinishedAtMostOnce`, `FileNamesDistinct`. In the loops the
  rows below `cutoff` are taken exactly once and the others not at all
  (`RangeCover`, `CtidCover`); when the loop ends nothing lies above.
  The theorem covers the wrapped step as well: with step 0 the loop never ends,
  so that the claim about its end holds trivially there. For `CountedFinished`
  the loops have taken as many steps as chunks were sent (`RangeCount`,
  `CtidCount`): the announced chunks reach the last key, since a quotient is rounded
  down and then one is added, and as many of them as the rounded-up quotient reach the
  last page. `NamesDistinct` is proved for up to `Power[ChunkDigits]` chunks (10^9):
  then all chunk indexes have the same number of digits, two names of one length
  have file indexes of one width, and a file index lies below the power of its
  width, which is proved from the recursion of `Digits` and `Power` by induction.
  Beyond that, a chunk index of ten digits before a padded file index may spell the
  same name as one of nine digits before a file index of five.
- `ChunkWriterProofs`: `CallInvariant`, `NoRowLostOrDoubled`, `EachFileLoads`,
  `FileLimit`, `NoWriteAfterClose`, `FailureTakesBackRows`, `CountsMatchTheFiles`.
  What a file will hold is spread over the file, the buffer of the pipe, the channel
  and the open buffer; their concatenation (`Stream`) is well formed, has the size
  that the call has counted, and continues the finished files with the rows taken
  so far (`StreamInv`, `DoneInv`). `ControlInv` says that an error of the pipe
  reaches the call before the file counts as written. A retry writes over the files
  of the attempt before, so that one has to know that it switches files after the
  same rows: the counted sizes are a function of the rows of the file (`SizeInv`),
  every file but the last has `RowsPerFile` rows (`PlaceInv`), and an attempt that
  succeeds therefore has as many files as any attempt can have begun. `GaugeInv`
  relates the gauges to the rows sent and the pieces written.
- `DumperProofs`: `DumperInvariant`, `OptionsAreChecked`, `NoPanicOnRegister`,
  `CloseReleasesPools`, `NothingOfAnEarlierDumper`, `WarningIsDead`,
  `RevertedBytesOnce`, `ProgressIsMonotone`. `LifeInv`, `PoolsInv`, `OptionsInv` and
  `SharedInv` say what holds at which step of `NewDumper`, also for a `Config` that
  an earlier dumper has used, whose snapshot is good only if it is one of `left`. For
  `GetStatus`: a chunk that is queued or held is
  counted in the total and not completed (`ChunksInv`, by the cardinality of the set
  of busy writers); a writer can take back only what it added, and the gauge less what
failed attempts left in it never exceeds `peak` (`SizesInv`); and no
  task is made after `progressReady`, so that all that a reader is shown are parts of
  one total (`ShownInv`).
- `TableSelectionProofs`: `SelectionIsExact`, `NothingElseSelected`,
  `EmptySchemas`, `SpecifiedTables`. The core is `SchemaOfMatchingTable`: if
  `MatchTable` accepts a table, the first rule that `MatchSchema` looks at for
  its schema is an accepting one, since a denying one would have to match all
  tables and would have denied the table. It needs the least element of a set of
  positions, from the well-foundedness of `<`. `LastRuleDecides` relates the
  reversed list to the order the user gave. The invariant says what each of the
  steps hands to the next.
- `EncodingProofs`: `TypeCorrect`, `Invariant`, `TextRoundTrips`, all under
  `Consumable`, that a MySQL reader has the preamble and a CSV reader no backslash
  escapes. The reader lags behind the
  writer, so the invariant `IInv` speaks of the reader that it will be once it has
  read what is on the wire (`Feed`): that one is inside the same field with the
  same text (`Inside`), behind it (`Behind`) or done. A step of the reader leaves
  that reader the same, and a step of the writer, taken with nothing on the wire,
  moves it by at most four symbols, format by format. The assumptions on the
  symbols say what the code takes for granted: codes are distinct and made of
  digits, numbers hold no separator, the CSV delimiter is none of the other marks.

`Induction` proves induction over sets of natural numbers from the well-foundedness
of `<`, the existence of functions defined by recursion, and from both what
`FlattenSeq` does to an appended and to a first element; the library's theorems
take an operator as a parameter, which the provers do not instantiate.

Only model-checked: liveness (`DumpReturns`, `WritersEnd`, `LoopsEnd`,
`CallReturns`), which needs fairness and ENABLED and is beyond the prover; and
`NamesDistinct` beyond `Power[ChunkDigits]` chunks is not claimed at all.

## Not modelled

- Text: patterns of the filter and DDL, which others parse; the casts of
  `pgMigrationCast`, which the server carries out; base64, whose groups of three
  bytes need more symbols than a run can have; an empty CSV delimiter, with which
  no text can be read back; the numbers whose text is no SQL number (NaN,
  Infinity, money, tid), which are written without quotes all the same; templates
  of the user for file names.
- `buildConcatTask`, `multiQueriesChunkIter` and `buildWhereClauses` with its
  helpers, which only tests reach; the column filter and the legacy rules of the
  vendored filter, which nothing calls.
- The HTTP handlers, logging and version output, which only read.
- Sleeping times of retries.
- The duplicate rows of partitioned tables, which are listed together with their
  partitions: no document says what is intended.
- Two dumpers at a time in one process.

## Plan

Done: `Dump` with `DumpJob`, `Chunking`, `ChunkWriter`, `TableSelection`,
`Encoding`, `Status` and `Dumper`, in this order, with the theorems above.

1. Proofs: the safety half of the liveness properties, that in a state where no
   goroutine can step the dump has returned (`DumpReturns`, `CallReturns`).
2. The types that the casts yield, with the text their receivers may write.
