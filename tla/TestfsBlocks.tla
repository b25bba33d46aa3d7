---------------------------- MODULE TestfsBlocks ----------------------------
(***************************************************************************)
(* The blocks of the files of testfs: fs/read_write.c over the free map of *)
(* fs/super.c and fs/bitmap.c and the inodes of fs/inode.c.  A file maps   *)
(* logical blocks through direct, indirect and double indirect blocks;     *)
(* a write allocates what is missing one block at a time, and may run out  *)
(* of space anywhere on the way.                                           *)
(*                                                                         *)
(* Sizes are counted in blocks.  Each command ends with the inode written  *)
(* back, so the inode in memory is the one on disk between commands.  Two  *)
(* faults (AllocDangles, AllocStrays) leave a map that names blocks of     *)
(* others; the model records them in bad and stops there.                  *)
(***************************************************************************)
EXTENDS Integers, FiniteSets

CONSTANTS Files,          \* the inodes in use
          ND,             \* NR_DIRECT_BLOCKS
          NI,             \* NR_INDIRECT_BLOCKS
          MaxFsBlocks,    \* sb.max_fs_blocks
          NoFile,         \* not a file
          MaxWrite        \* bound: blocks covered by one write

ASSUME GeometryAssumption ==
    /\ ND \in Nat \ {0} /\ NI \in Nat \ {0} /\ MaxFsBlocks \in Nat
    /\ NoFile \notin Files /\ MaxWrite \in Nat

NoBlock   == 0
Blocks    == 1..MaxFsBlocks              \* from data_blocks_start on
Direct    == 0..ND-1
Entries   == 0..NI-1                     \* the numbers in an index block
LogBlocks == 0..ND + NI + NI * NI - 1
Zeroed    == [e \in Entries |-> NoBlock]

VARIABLES freemap,           \* the blocks marked in sb->block_freemap
          used_block_count,
          index,             \* the numbers in each block, if it is an index block
          data,              \* history: whose logical block was written there last
          i_block_nr, i_indirect, i_dindirect, block_count, i_size,   \* dinode
          job,               \* the write that is going on
          failed,            \* history: some write ran out of space
          bad                \* "no", or what went wrong for good

disk  == <<freemap, used_block_count, index, data>>
dinode == <<i_block_nr, i_indirect, i_dindirect, block_count, i_size>>
vars  == <<disk, dinode, job, failed, bad>>

NoJob == [file |-> NoFile, first |-> 0, next |-> 0, last |-> 0]

Init ==
    /\ freemap = {} /\ used_block_count = 0
    /\ index = [b \in Blocks |-> Zeroed]
    /\ data = [b \in Blocks |-> <<>>]
    /\ i_block_nr = [f \in Files |-> [d \in Direct |-> NoBlock]]
    /\ i_indirect = [f \in Files |-> NoBlock]
    /\ i_dindirect = [f \in Files |-> NoBlock]
    /\ block_count = [f \in Files |-> 0]
    /\ i_size = [f \in Files |-> 0]
    /\ job = NoJob /\ failed = FALSE /\ bad = "no"

-----------------------------------------------------------------------------
(* The map of a file.  A definition under "Mutants" is what a slip in one  *)
(* that follows it would look like; no action uses it.                     *)

\* Mutants
AnyBlock         == Blocks
FirstSlot(l)     == 0
SizeKept(f, n)   == i_size[f]
SizeAdded(f, n)  == i_size[f] + n
NotCounted(f, n) == block_count[f]

\* Where logical block l >= ND + NI is found.
Level2(l) == (l - ND - NI) \div NI
Slot(l)   == (l - ND - NI) % NI

\* The number in entry e of index block b, if there is such a block.
Within(b, e) == IF b = NoBlock THEN NoBlock ELSE index[b][e]

\* The index block that holds the number of logical block l, if there is one.
Second(f, l) == Within(i_dindirect[f], Level2(l))

\* testfs_read_block: the physical block of logical block l, or NoBlock.
Phys(f, l) ==
    IF l < ND THEN i_block_nr[f][l]
    ELSE IF l < ND + NI THEN Within(i_indirect[f], l - ND)
    ELSE Within(Second(f, l), Slot(l))

\* Without a double indirect block, but with an indirect one, testfs_read_block
\* looks up such an l in the indirect block, past its end.
ReadsPastEnd(f, l) ==
    l >= ND + NI /\ i_dindirect[f] = NoBlock /\ i_indirect[f] # NoBlock

\* bitmap_alloc takes the lowest free bit: the n-th block taken in a row is the
\* free one with n - 1 free ones below it.
FreeBlocks == Blocks \ freemap
Fresh(n)   == CHOOSE b \in FreeBlocks :
                  Cardinality({c \in FreeBlocks : c < b}) = n - 1
Room       == MaxFsBlocks - used_block_count

\* How many blocks testfs_allocate_block needs for a missing block l: itself
\* and the index blocks on the way to it.
Needed(f, l) ==
    IF l < ND THEN 1
    ELSE IF l < ND + NI THEN IF i_indirect[f] = NoBlock THEN 2 ELSE 1
    ELSE IF i_dindirect[f] = NoBlock THEN 3
    ELSE IF Second(f, l) = NoBlock THEN 2 ELSE 1

Counted(f, n) == block_count[f] + n

\* testfs_alloc_block_for_inode, n times.
Take(f, n) ==
    /\ freemap' = freemap \cup {Fresh(i) : i \in 1..n}
    /\ used_block_count' = used_block_count + n
    /\ block_count' = [block_count EXCEPT ![f] = Counted(f, n)]

\* The new i_size after a write that ends before block n.
Grown(f, n) == IF n > i_size[f] THEN n ELSE i_size[f]

-----------------------------------------------------------------------------
(* testfs_write_data                                                       *)

Idle == job.file = NoFile /\ bad = "no"

\* A write of blocks first .. last.  What lies beyond the largest file is cut
\* off (check = 1).
BeginWrite(f, first, last) ==
    /\ Idle
    /\ job' = [file |-> f, first |-> first, next |-> first,
               last |-> IF last \in LogBlocks THEN last
                                              ELSE ND + NI + NI * NI - 1]
    /\ UNCHANGED <<disk, dinode, failed, bad>>

\* The block just allocated or found is written, and the loop goes on.
Written(f, b, l) ==
    /\ data' = [data EXCEPT ![b] = <<f, l>>]
    /\ job' = [job EXCEPT !.next = l + 1]
    /\ UNCHANGED <<i_size, failed, bad>>

Overwrite(f, l) ==
    /\ Phys(f, l) # NoBlock
    /\ Written(f, Phys(f, l), l)
    /\ UNCHANGED <<freemap, used_block_count, index, i_block_nr, i_indirect,
                   i_dindirect, block_count>>

AllocDirect(f, l) ==
    /\ l < ND /\ Phys(f, l) = NoBlock /\ Needed(f, l) <= Room
    /\ Take(f, 1)
    /\ i_block_nr' = [i_block_nr EXCEPT ![f][l] = Fresh(1)]
    /\ Written(f, Fresh(1), l)
    /\ UNCHANGED <<index, i_indirect, i_dindirect>>

AllocIndirect(f, l) ==
    /\ l \in ND..ND + NI - 1 /\ Phys(f, l) = NoBlock /\ Needed(f, l) <= Room
    /\ LET n == Needed(f, l)
           s == IF n = 2 THEN Fresh(1) ELSE i_indirect[f]
       IN /\ Take(f, n)
          /\ i_indirect' = [i_indirect EXCEPT ![f] = s]
          /\ index' = [index EXCEPT ![s][l - ND] = Fresh(n)]
          /\ Written(f, Fresh(n), l)
    /\ UNCHANGED <<i_block_nr, i_dindirect>>

AllocDouble(f, l) ==
    /\ l >= ND + NI /\ Phys(f, l) = NoBlock /\ Needed(f, l) <= Room
    /\ LET n == Needed(f, l)
           d == IF n = 3 THEN Fresh(1) ELSE i_dindirect[f]
           s == IF n > 1 THEN Fresh(n - 1) ELSE Second(f, l)
       IN /\ Take(f, n)
          /\ i_dindirect' = [i_dindirect EXCEPT ![f] = d]
          /\ index' = [index EXCEPT ![d][Level2(l)] = s, ![s][Slot(l)] = Fresh(n)]
          /\ Written(f, Fresh(n), l)
    /\ UNCHANGED <<i_block_nr, i_indirect>>

\* Not enough room.  The index blocks allocated on the way are freed again.
\* A write that fails in its second of two blocks ends as if it had succeeded;
\* every other one returns without touching i_size.
AllocFails(f, l) ==
    /\ Phys(f, l) = NoBlock /\ Needed(f, l) > Room
    /\ ~(Needed(f, l) = 2 /\ Room = 1 /\ l >= ND + NI)
    /\ i_size' = [i_size EXCEPT ![f] =
                     IF l = job.first + 1 /\ l = job.last THEN Grown(f, l + 1) ELSE @]
    /\ job' = NoJob
    /\ failed' = TRUE
    /\ UNCHANGED <<disk, i_block_nr, i_indirect, i_dindirect, block_count, bad>>

\* The same with room for the second level index block only: it is freed, but
\* its number stays in the double indirect block that was written before.
AllocDangles(f, l) ==
    /\ Phys(f, l) = NoBlock /\ l >= ND + NI
    /\ Needed(f, l) = 2 /\ Room = 1
    /\ index' = [index EXCEPT ![i_dindirect[f]][Level2(l)] = Fresh(1)]
    /\ bad' = "dangling"
    /\ failed' = TRUE
    /\ job' = NoJob
    /\ UNCHANGED <<freemap, used_block_count, data, dinode>>

\* The number read past the end happens not to be zero: it is taken for the
\* number of the block.  Nothing is said about the disk from there on.
AllocStrays(f, l) ==
    /\ ReadsPastEnd(f, l)
    /\ bad' = "stray"
    /\ UNCHANGED <<disk, dinode, job, failed>>

WriteBlock ==
    /\ bad = "no" /\ job.file # NoFile /\ job.next <= job.last
    /\ \/ Overwrite(job.file, job.next)
       \/ AllocDirect(job.file, job.next)
       \/ AllocIndirect(job.file, job.next)
       \/ AllocDouble(job.file, job.next)
       \/ AllocFails(job.file, job.next)
       \/ AllocDangles(job.file, job.next)
       \/ AllocStrays(job.file, job.next)

EndWrite ==
    /\ bad = "no" /\ job.file # NoFile /\ job.next > job.last
    /\ i_size' = [i_size EXCEPT ![job.file] = Grown(job.file, job.next)]
    /\ job' = NoJob
    /\ UNCHANGED <<disk, i_block_nr, i_indirect, i_dindirect, block_count,
                   failed, bad>>

-----------------------------------------------------------------------------
(* testfs_remove_inode and testfs_free_blocks                              *)

\* e_block_nr
LastBlock(f) == i_size[f]

\* The second level index blocks that the loop visits, and how many existing
\* ones it has seen before entry i: the counter k moves only at those.
Existing(f, i) ==
    Cardinality({e \in Entries : e < i /\ index[i_dindirect[f]][e] # NoBlock})
Visited(f) ==
    {i \in Entries : /\ index[i_dindirect[f]][i] # NoBlock
                     /\ Existing(f, i) * NI < LastBlock(f) - ND - NI}

\* What testfs_free_blocks frees, by the part of the map it walks.
FreedDirect(f) == {i_block_nr[f][d] : d \in {d \in Direct : d < LastBlock(f)}}
FreedIndirect(f) ==
    IF i_indirect[f] = NoBlock THEN {}
    ELSE {i_indirect[f]} \cup
         {index[i_indirect[f]][e] : e \in {e \in Entries : e < LastBlock(f) - ND}}
FreedDouble(f) ==
    IF i_dindirect[f] = NoBlock \/ LastBlock(f) <= ND + NI THEN {}
    ELSE LET second(i) == index[i_dindirect[f]][i] IN
         {i_dindirect[f]} \cup {second(i) : i \in Visited(f)} \cup
         UNION {{index[second(i)][e] : e \in {e \in Entries :
                    Existing(f, i) * NI + e < LastBlock(f) - ND - NI}} :
                i \in Visited(f)}
Freed(f) == (FreedDirect(f) \cup FreedIndirect(f) \cup FreedDouble(f)) \ {NoBlock}

\* testfs_free_blocks of src/read_write.c, the other version of this file: it
\* gives back every entry of each second level index block that it visits.
FreedTop(f) ==
    (FreedDirect(f) \cup FreedIndirect(f) \cup
     (IF i_dindirect[f] = NoBlock \/ LastBlock(f) <= ND + NI THEN {}
      ELSE {i_dindirect[f]} \cup
           UNION {{index[i_dindirect[f]][i]} \cup
                  {index[index[i_dindirect[f]][i]][e] : e \in Entries} : i \in Visited(f)}))
    \ {NoBlock}

\* The assertions on the way: the file reaches past the direct blocks if it
\* has an indirect block, and no block is left over.
Consistent(f) ==
    /\ i_indirect[f] # NoBlock => LastBlock(f) > ND
    /\ block_count[f] = Cardinality(Freed(f))

\* The inode is zeroed; creating the file again starts from there.
RemoveInode(f) ==
    /\ Idle /\ Consistent(f)
    /\ freemap' = freemap \ Freed(f)
    /\ used_block_count' = used_block_count - Cardinality(Freed(f))
    /\ index' = [b \in Blocks |-> IF b \in Freed(f) THEN Zeroed ELSE index[b]]
    /\ data' = [b \in Blocks |-> IF b \in Freed(f) THEN <<>> ELSE data[b]]
    /\ i_block_nr' = [i_block_nr EXCEPT ![f] = [d \in Direct |-> NoBlock]]
    /\ i_indirect' = [i_indirect EXCEPT ![f] = NoBlock]
    /\ i_dindirect' = [i_dindirect EXCEPT ![f] = NoBlock]
    /\ block_count' = [block_count EXCEPT ![f] = 0]
    /\ i_size' = [i_size EXCEPT ![f] = 0]
    /\ UNCHANGED <<job, failed, bad>>

RemoveAborts(f) ==
    /\ Idle /\ ~Consistent(f)
    /\ bad' = "assert"
    /\ UNCHANGED <<disk, dinode, job, failed>>

Stopped == bad # "no" /\ UNCHANGED vars

Next ==
    \/ \E f \in Files, first \in LogBlocks, n \in 1..MaxWrite :
            BeginWrite(f, first, first + n - 1)
    \/ WriteBlock \/ EndWrite
    \/ \E f \in Files : RemoveInode(f) \/ RemoveAborts(f)
    \/ Stopped

Spec == Init /\ [][Next]_vars

-----------------------------------------------------------------------------
(* Properties.                                                             *)

\* Every variable has its type.
TypeOK ==
    /\ freemap \subseteq Blocks
    /\ used_block_count \in 0..MaxFsBlocks
    /\ index \in [Blocks -> [Entries -> Blocks \cup {NoBlock}]]
    /\ data \in [Blocks -> {<<>>} \cup (Files \X LogBlocks)]
    /\ i_block_nr \in [Files -> [Direct -> Blocks \cup {NoBlock}]]
    /\ i_indirect \in [Files -> Blocks \cup {NoBlock}]
    /\ i_dindirect \in [Files -> Blocks \cup {NoBlock}]
    /\ block_count \in [Files -> 0..MaxFsBlocks]
    /\ i_size \in [Files -> 0..ND + NI + NI * NI]
    /\ job \in [file : Files \cup {NoFile}, first : Nat, next : Nat, last : Nat]
    /\ failed \in BOOLEAN
    /\ bad \in {"no", "dangling", "stray", "assert"}

\* The places of a file that hold a block number, and the number in each.
Places ==
    ({"data"} \X LogBlocks) \cup ({"indirect", "dindirect"} \X {0}) \cup
    ({"second"} \X Entries)
At(f, p) ==
    CASE p[1] = "data"      -> Phys(f, p[2])
      [] p[1] = "indirect"  -> i_indirect[f]
      [] p[1] = "dindirect" -> i_dindirect[f]
      [] p[1] = "second"    -> Within(i_dindirect[f], p[2])

\* Every block that is marked in the free map belongs to one place of one
\* file, and every other block to none: no block is shared, none is leaked,
\* through any sequence of writes, failures and removals; and block_count and
\* used_block_count say how many there are.
OwnedOnce ==
    bad = "no" =>
        /\ \A b \in Blocks :
             Cardinality({r \in Files \X Places : At(r[1], r[2]) = b}) =
                 IF b \in freemap THEN 1 ELSE 0
        /\ used_block_count = Cardinality(freemap)
        /\ \A f \in Files :
             block_count[f] = Cardinality({p \in Places : At(f, p) # NoBlock})

\* A logical block that has a physical one holds what was last written to
\* that logical block of that file.
ReadsBack ==
    bad = "no" =>
        \A f \in Files, l \in LogBlocks :
            Phys(f, l) # NoBlock => data[Phys(f, l)] = <<f, l>>

\* As long as no write has run out of space, a file has no block beyond its
\* size, except the ones of a write that is going on, and so
\* testfs_remove_inode can give every block back, in either version of
\* testfs_free_blocks.
SizeCoversBlocks ==
    ~failed => /\ bad # "assert"
               /\ job = NoJob => \A f \in Files : Freed(f) = FreedTop(f)
               /\ \A f \in Files, l \in LogBlocks :
                    Phys(f, l) # NoBlock =>
                        l < i_size[f] \/ (f = job.file /\ l \in job.first..job.next-1)

\* testfs_remove_inode: assert(in->in.block_count == 0).
RemoveNeverAborts == bad # "assert"

=============================================================================
