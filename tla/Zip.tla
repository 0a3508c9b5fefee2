-------------------------------- MODULE Zip --------------------------------
(***************************************************************************)
(* compression/zip.cpp: the two loops that feed zlib's inflate() with      *)
(* blocks of 1024 bytes and collect what it gives.                         *)
(*                                                                         *)
(* zlib is external: each call takes input until there is no more, the     *)
(* block for the output is full, or the stream ends; how much output an    *)
(* amount of input gives is arbitrary.  The input is what compress() made, *)
(* or such data that was damaged or cut short.  Byte k of the output is    *)
(* the number k, and 0 is what a block or a vector is filled with.         *)
(***************************************************************************)
EXTENDS Integers, Sequences

CONSTANTS
    BufferSize,     \* buffer_size
    MaxInput,       \* bound: bytes of compressed data
    MaxOutput,      \* bound: bytes of decompressed data
    MemoryLimit     \* number of bytes a vector can hold

ASSUME ZipAssumption ==
    BufferSize \in Nat \ {0} /\ MaxInput \in Nat /\ MaxOutput \in Nat /\ MemoryLimit \in Nat

VARIABLES
    size,       \* number of bytes to decompress
    total,      \* number of bytes they were made of
    totalIn,    \* stream.total_in
    totalOut,   \* stream.total_out
    available,  \* stream.avail_in
    out,        \* the block inflate() writes to
    data,       \* what has been collected
    inflating   \* where inflate stands

zipVars == <<size, total, totalIn, totalOut, available, out, data, inflating>>

ZipInit ==
    /\ size = 0 /\ total = 0
    /\ totalIn = 0 /\ totalOut = 0
    /\ available = 0
    /\ out = [i \in 1..BufferSize |-> 0]
    /\ data = <<>>
    /\ inflating = "not yet"

-----------------------------------------------------------------------------
(* decompress: nothing at all is made of nothing.                          *)
Decompressing ==
    /\ inflating = "not yet"
    /\ size' \in 0..MaxInput
    /\ total' \in IF size' = 0 THEN {0} ELSE 1..MaxOutput
    /\ inflating' = IF size' = 0 THEN "returned" ELSE "outer"
    /\ UNCHANGED <<totalIn, totalOut, available, out, data>>

(* The next block of the input.                                            *)
NextBlock ==
    /\ inflating = "outer"
    /\ available' = IF size - totalIn < BufferSize THEN size - totalIn ELSE BufferSize
    /\ inflating' = "inner"
    /\ UNCHANGED <<size, total, totalIn, totalOut, out, data>>

(* inflate() takes `taken` bytes and gives `given`; the whole block is     *)
(* inserted, whatever was given.  The inner loop goes on while the block   *)
(* is full, the outer until the end of the stream.                         *)
Calls(taken, given) ==
    /\ inflating = "inner"
    /\ totalOut + given <= total
    /\ given = BufferSize \/ taken = available
    /\ (totalIn + taken = size /\ given < BufferSize) => totalOut + given = total
    /\ totalIn' = totalIn + taken /\ totalOut' = totalOut + given
    /\ available' = available - taken
    /\ out' = [i \in 1..BufferSize |-> IF i <= given THEN totalOut + i ELSE out[i]]
    /\ data' = data \o out'
    /\ UNCHANGED <<size, total>>
AfterCall(given) ==
    inflating' = IF given = BufferSize THEN "inner"
                 ELSE IF totalIn' = size /\ totalOut' = total THEN "ended" ELSE "outer"
InflateOnce ==    \* mutant: a block that was full is not asked for more
    \E taken \in 0..available, given \in 0..BufferSize :
        /\ Calls(taken, given)
        /\ inflating' = IF totalIn' = size THEN "ended" ELSE "outer"
Inflate ==
    \E taken \in 0..available, given \in 0..BufferSize :
        Calls(taken, given) /\ AfterCall(given)

(* data.resize(stream.total_out)                                           *)
Resize ==
    /\ inflating = "ended"
    /\ data' = [i \in 1..totalOut |-> IF i <= Len(data) THEN data[i] ELSE 0]
    /\ inflating' = "returned"
    /\ UNCHANGED <<size, total, totalIn, totalOut, available, out>>

(* inflate() finds the data damaged, or wants more than there is: it gives *)
(* nothing from now on, and the end of the stream never comes.             *)
FindsDamage ==
    /\ inflating = "inner"
    /\ inflating' = "damaged"
    /\ UNCHANGED <<size, total, totalIn, totalOut, available, out, data>>

(* Both loops go round, and insert a block each time, until no vector is   *)
(* that long.                                                              *)
InsertGiven ==    \* mutant: only what inflate() gave is inserted
    /\ inflating = "damaged"
    /\ UNCHANGED zipVars
InsertForEver ==
    /\ inflating = "damaged"
    /\ IF Len(data) + BufferSize > MemoryLimit
         THEN inflating' = "thrown" /\ UNCHANGED data
         ELSE data' = data \o out /\ UNCHANGED inflating
    /\ UNCHANGED <<size, total, totalIn, totalOut, available, out>>

ZipNext == Decompressing \/ NextBlock \/ Inflate \/ Resize \/ FindsDamage \/ InsertForEver

(* It is a loop of one thread.                                             *)
ZipSpec == ZipInit /\ [][ZipNext]_zipVars
ZipFairness == WF_zipVars(NextBlock \/ Inflate \/ Resize \/ InsertForEver)

-----------------------------------------------------------------------------
(* What was compressed comes back as long as the compressed data fits one  *)
(* block of input: blocks of output that are not full are inserted too,    *)
(* and only the last one is cut off.  Of more data the length is right.    *)
WhatWentInComesOut ==
    inflating = "returned" =>
        /\ Len(data) = total
        /\ size <= BufferSize => data = [i \in 1..total |-> i]

(* decompress ends: damaged data ends it by an exception of the vector.    *)
DecompressEnds == inflating = "outer" ~> inflating \in {"returned", "thrown"}

=============================================================================
