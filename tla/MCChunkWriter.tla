--------------------------- MODULE MCChunkWriter ---------------------------
(* Small instances of ChunkWriter for TLC. *)
EXTENDS ChunkWriter

\* More rows than a buffer, and than the pipe and its channel together, hold.
MCResult == <<1, 2, 3, 4>>

\* Files of one or two statements, statements of one or two rows, CSV files.
MCConfigs ==
    [format : {"sql"}, FileSize : {0, 3, 5}, StatementSize : {0, 2}]
    \cup [format : {"csv"}, FileSize : {0, 3}, StatementSize : {0}]

=============================================================================
