------------------------------ MODULE TestfsData ------------------------------
(***************************************************************************)
(* The bytes of one file of testfs: testfs_read_data and testfs_write_data *)
(* cut a range of bytes into pieces, one per block, with a first piece, a  *)
(* loop over full blocks and a last piece.  The repository holds two       *)
(* versions of the file, src/read_write.c and src/fs/read_write.c.         *)
(*                                                                         *)
(* Every block costs one block of space here; index blocks are the matter  *)
(* of TestfsBlocks.  Byte j of what is written is j modulo 3, plus 1;      *)
(* zero is a hole.                                                         *)
(***************************************************************************)
EXTENDS Integers, Sequences, FiniteSets

CONSTANTS BS,          \* BLOCK_SIZE
          NB,          \* blocks of the largest file
          Space,       \* blocks that can be allocated
          MaxBytes     \* bound: bytes of one write

ASSUME DataAssumption ==
    BS \in Nat \ {0} /\ NB \in Nat \ {0} /\ Space \in Nat /\ MaxBytes \in Nat

MaxSize == NB * BS     \* 34376597504 in the code
Offsets == 0..MaxSize - 1
Junk    == -1          \* what a fresh buffer holds
Byte(j) == 1 + (j % 3)

VARIABLES have,        \* the blocks of the file that exist
          bytes,       \* their contents
          fsize,       \* i_size
          model,       \* history: the bytes as the callers wrote them
          short        \* history: some write did not get all its blocks

dataVars == <<have, bytes, fsize, model, short>>

DataInit ==
    /\ have = {} /\ fsize = 0 /\ short = FALSE
    /\ bytes = [p \in Offsets |-> 0] /\ model = [p \in Offsets |-> 0]

\* Mutant
FromStart(start, k) == (k - 1) * BS

\* How often the loop over full blocks runs: while more than a block is left.
FullBlocks(rest) == IF rest > BS THEN (rest - 1) \div BS ELSE 0

Piece(l, at, len) == [l |-> l, at |-> at, len |-> len]

\* The pieces of a range, in the order of the code; with skips, a last one that
\* is a full block is left out.
Pieces(start, size, skips) ==
    LET l    == start \div BS
        ix   == start % BS
        rest == size - (BS - ix)
        i    == FullBlocks(rest)
        last == rest - i * BS
    IN IF ix + size <= BS THEN <<Piece(l, ix, size)>>
       ELSE <<Piece(l, ix, BS - ix)>> \o [k \in 1..i |-> Piece(l + k, 0, BS)]
            \o (IF skips /\ last % BS = 0 THEN <<>> ELSE <<Piece(l + i + 1, 0, last)>>)

WritePieces(start, size) == Pieces(start, size, FALSE)

\* testfs_read_data of src/fs/read_write.c
ReadPieces(start, size) == Pieces(start, size, TRUE)

\* The loop of testfs_read_data in src/read_write.c, with rest bytes to go
\* behind block l.
TopLoop(l, rest) ==
    LET Loop[r \in 0..rest] ==      \* tempSize = r before the test of the while
            LET at == l + 1 + (rest - r) \div BS IN
            IF r > BS THEN <<Piece(at, 0, BS)>> \o Loop[r - BS]
            ELSE IF r % BS # 0 THEN <<Piece(at, 0, r % BS)>> ELSE <<>>
    IN Loop[rest]

\* testfs_read_data of src/read_write.c
TopReadPieces(start, size) ==
    LET l  == start \div BS
        ix == start % BS
    IN IF ix + size > BS THEN <<Piece(l, ix, BS - ix)>> \o TopLoop(l, size - (BS - ix))
                         ELSE <<Piece(l, ix, size)>>

\* Where buf points to when piece k of a range is copied.
BufAt(start, k) == IF k = 1 THEN 0 ELSE (BS - (start % BS)) + (k - 2) * BS

-----------------------------------------------------------------------------
\* A write that reaches beyond the largest file is cut, if it crosses a block.
Cut(start, size) ==
    IF (start % BS) + size > BS /\ start <= MaxSize /\ size > MaxSize - start
    THEN MaxSize - start ELSE size

\* testfs_allocate_block gives pieces 1 .. n of c their blocks.
Allocated(c, n) ==
    LET need == {c[k].l : k \in 1..n}
    IN need \subseteq 0..NB - 1 /\ Cardinality(need \cup have) <= Space
Done(c) == CHOOSE n \in 0..Len(c) :
              /\ Allocated(c, n)
              /\ n < Len(c) => ~Allocated(c, n + 1)

\* The write fails in its second and last piece: it goes on to out.
EndsAsWritten(c) == Done(c) = Len(c) \/ (Len(c) = 2 /\ Done(c) = 1)

\* testfs_write_data of src/read_write.c
WriteData(start, len) ==
    LET size == Cut(start, len)
        c    == WritePieces(start, size)
        n    == Done(c)
        In(p, k) == p \div BS = c[k].l
                    /\ p % BS \in c[k].at..c[k].at + c[k].len - 1
        done == IF n = Len(c) THEN size ELSE IF n = 0 THEN 0 ELSE BufAt(start, n + 1)
    IN /\ have' = have \cup {c[k].l : k \in 1..n}
       /\ bytes' = [p \in Offsets |->
             IF \E k \in 1..n : In(p, k)
             THEN LET k == CHOOSE k \in 1..n : In(p, k)
                  IN Byte(BufAt(start, k) + (p % BS) - c[k].at)
             ELSE bytes[p]]
       /\ fsize' = IF EndsAsWritten(c) /\ size > 0 /\ start + size > fsize
                   THEN start + size ELSE fsize
       /\ model' = [p \in Offsets |-> IF p \in start..start + done - 1
                                      THEN Byte(p - start) ELSE model[p]]
       /\ short' = (short \/ n < Len(c))

DataNext == \E start \in 0..MaxSize, len \in 1..MaxBytes : WriteData(start, len)

DataSpec == DataInit /\ [][DataNext]_dataVars

\* testfs_read_block: the byte at p of the file, zero in a hole.
ReadByte(p) == IF p \div BS \in have THEN bytes[p] ELSE 0

\* What is in the buffer after a read of size bytes from pieces c.
Copied(start, size, c) ==
    [m \in 0..size - 1 |->
        IF \E k \in 1..Len(c) : m - BufAt(start, k) \in 0..c[k].len - 1
        THEN LET k == CHOOSE k \in 1..Len(c) : m - BufAt(start, k) \in 0..c[k].len - 1
             IN ReadByte(c[k].l * BS + c[k].at + m - BufAt(start, k))
        ELSE Junk]

-----------------------------------------------------------------------------
(* Properties.                                                             *)

\* A read that crosses a block and ends with one.
EndsWithBlock(start, size) == (start % BS) + size > BS /\ (start + size) % BS = 0

\* The two versions of testfs_read_data copy the same pieces.
VersionsAgree ==
    \A start, size \in 0..MaxSize :
        start + size <= MaxSize => ReadPieces(start, size) = TopReadPieces(start, size)

\* Every byte is where its writer put it, whatever the alignment of the range
\* and also when space runs out on the way.  A read within the file returns
\* these bytes, except that the last block is missing from one that crosses a
\* block and ends with one.  Both versions of testfs_read_data agree.  As long
\* as no write fell short, nothing written lies beyond the size.
DataSound ==
    /\ bytes = model
    /\ \A start \in 0..fsize, size \in 0..MaxSize :
          start + size <= fsize =>
              LET r == Copied(start, size, ReadPieces(start, size))
              IN \A m \in 0..size - 1 :
                    r[m] = IF EndsWithBlock(start, size) /\ m >= size - BS
                           THEN Junk ELSE model[start + m]
    /\ VersionsAgree
    /\ ~short => \A p \in Offsets : model[p] # 0 => p < fsize
===============================================================================
