----------------------------- MODULE MCChunking -----------------------------
(* Small instances of Chunking for TLC: 16 in place of 2^64. *)
EXTENDS Chunking

MCWord == 16

\* Four binary digits are enough for the chunks; one is not for the files.
MCFiles == 0..5

\* Every width from 0 to 15, the full range of the word, against every estimate, with
\* and without an index.
MCInputs ==
    [rows : {0, 1, 2}, where : BOOLEAN, count : 0..6, field : {TRUE}, nullable : BOOLEAN,
     empty : BOOLEAN, min : {-3}, max : -3..12, pages : {0}]
    \cup
    [rows : {0, 1, 2}, where : BOOLEAN, count : 0..6, field : {FALSE}, nullable : {FALSE},
     empty : {FALSE}, min : {0}, max : {0}, pages : 0..7]

\* Blocks beyond the pages counted: rows added since.
MCRows == [null : BOOLEAN, key : -3..12, block : 0..9]
=============================================================================
