------------------------------ MODULE TestfsDir ------------------------------
(***************************************************************************)
(* The directories of testfs: the commands of fs/testfs.c, with fs/dir.c,  *)
(* fs/file.c, the inode cache of fs/inode.c, the super block and the free  *)
(* maps of fs/super.c and fs/bitmap.c, on a disk made by fs/mktestfs.c.    *)
(*                                                                         *)
(* One process carries out one command at a time.  What a command does to  *)
(* the process's memory is one step; the blocks it writes go to the log in *)
(* the order of the code, and reach the disk one by one.  The process may  *)
(* be killed between any two writes; the next one starts from the disk.    *)
(*                                                                         *)
(* A directory is a sequence of entries of some size.  Which data blocks a *)
(* file has is the matter of TestfsBlocks; here they are only counted.  A  *)
(* command that is refused without effect is a stuttering step.            *)
(***************************************************************************)
EXTENDS Integers, Sequences, FiniteSets, FiniteSetsExt, SequencesExt

CONSTANTS NrInodes,       \* NR_INODE_BLOCKS * INODES_PER_BLOCK
          NrBits,         \* bits of the inode free map
          MaxFsBlocks,    \* sb.max_fs_blocks
          BlockSize,      \* BLOCK_SIZE
          ND,             \* NR_DIRECT_BLOCKS
          Names,          \* the names users give
          EntrySize,      \* bytes of an entry, by its name
          NrAt, NrEnd,    \* where d_inode_nr begins and ends in an entry
          MaxBlocks,      \* bound: blocks of a file
          MaxLeaks,       \* bound: references lost by ls, and crashes before
          MaxCrashes      \* bound: commands cut short

Dot    == "."
DotDot == ".."

\* "." and ".." are no names of the user: create and mkdir find them there, and
\* rm refuses them.
ASSUME SizeAssumption ==
    /\ Names \cap {Dot, DotDot} = {}
    /\ NrInodes \in Nat \ {0} /\ NrBits \in Nat /\ NrBits >= NrInodes
    /\ MaxFsBlocks \in Nat \ {0} /\ ND \in Nat \ {0}
    /\ EntrySize \in [Names \cup {Dot, DotDot} -> 1..BlockSize]
    /\ EntrySize[Dot] + EntrySize[DotDot] <= BlockSize
    /\ NrAt \in Nat /\ NrEnd \in Nat /\ NrAt < NrEnd
    /\ MaxBlocks \in Nat /\ MaxLeaks \in Nat /\ MaxCrashes \in Nat

Inodes == 0..NrInodes - 1
Root   == 0
Gone   == -1                              \* INVALID_INODE_NR

\* The number of an entry of which the disk has one half only.  It may be any
\* number, or the entry's own under a name that is half another.
Mixed  == -2

\* struct dinode: entries, blocks of its size, and block_count
Zero   == [type |-> "none", n |-> 0, b |-> 0, c |-> 0]
Absent == [count |-> 0, dirty |-> FALSE, node |-> Zero]
Entry(nm, i) == [name |-> nm, nr |-> i]

VARIABLES disk,      \* what the disk holds
          sb,        \* super block and free maps in memory; log: writes to come
          core,      \* the inodes in inode_hash_table
          cwd,       \* c.cur_dir
          mode,      \* of the process: run, down, aborted; or damaged
          lost,      \* history: references that ls has not given back
          crashed,   \* history: how often a command was cut short
          before, after   \* history: the names before and after this command

vars == <<disk, sb, core, cwd, mode, lost, crashed, before, after>>

-----------------------------------------------------------------------------
(* Directories.                                                            *)

\* testfs_get_inode finds the inode in the hash table or reads it.
ReadInode(i) == disk.dinode[i]
Node(i) == IF core[i].count > 0 THEN core[i].node ELSE ReadInode(i)

\* testfs_next_dirent, from offset 0 to the end of the directory.
Entries(i) == SubSeq(disk.ents[i], 1, Node(i).n)
SlotsOf(i, nm) ==
    {k \in 1..Node(i).n : Entries(i)[k].name = nm /\ Entries(i)[k].nr # Gone}

\* testfs_dir_name_to_inode_nr
Lookup(i, nm) ==
    IF SlotsOf(i, nm) = {} THEN Gone ELSE Entries(i)[Min(SlotsOf(i, nm))].nr

Named(i) == {Entries(i)[k].nr : k \in 1..Node(i).n} \ {Gone}
Children(i) ==
    {Lookup(i, nm) : nm \in {nm \in Names : SlotsOf(i, nm) # {}}}

SizeOf(s) == FoldSeq(LAMBDA e, sum : sum + EntrySize[e.name], 0, s)

\* testfs_add_dirent: an entry deleted before is used again if the name has
\* the same length, else the entry goes to the end.
SlotFor(s, nm) ==
    LET fit == {k \in 1..Len(s) : s[k].nr = Gone
                                  /\ EntrySize[s[k].name] = EntrySize[nm]}
    IN IF fit = {} THEN Len(s) + 1 ELSE Min(fit)

-----------------------------------------------------------------------------
(* Memory, and the writes that follow it.  s is the super block in memory  *)
(* with the log of writes.  A definition under "Mutants" is what a slip in *)
(* one that follows it would look like; no action uses it.                 *)

\* Mutants
NoIndexBlock(b) == b
AnyDirectory(i) == TRUE
Unlimited(s)    == MaxFsBlocks

Put(s, w) == [s EXCEPT !.log = Append(@, w)]
Super(s)  == Put(s, [at |-> "super", v |-> <<s.icount, s.used>>])

\* testfs_get_inode_freemap and testfs_put_inode_freemap: the map is written,
\* then the super block.
WriteFreemap(s, map) == [Put(s, [at |-> "imap", v |-> map]) EXCEPT !.imap = map]
MarkInode(s, i)   == Super([WriteFreemap(s, s.imap \cup {i}) EXCEPT !.icount = @ + 1])
Unmarked(map, i)  == map \ {i}
UnmarkInode(s, i) ==
    Super([WriteFreemap(s, Unmarked(s.imap, i)) EXCEPT !.icount = @ - 1])

\* testfs_sync_inode of an inode that is dirty
SyncInode(s, i, node) == Put(s, [at |-> "dinode", i |-> i, v |-> node])

Room(s) == MaxFsBlocks - s.used

\* testfs_allocate_block: logical block l needs an index block if it is the
\* first one that is not direct.
Needed(l)   == IF l = ND THEN 2 ELSE 1
BlocksOf(b) == IF b > ND THEN b + 1 ELSE b

\* n times testfs_alloc_block: the block map is written, then the super block.
AllocBlocks(s, n) ==
    [s EXCEPT !.bits = @ + n, !.used = @ + n,
              !.log = @ \o [j \in 1..2 * n |->
                  IF j % 2 = 1 THEN [at |-> "bmap", v |-> s.bits + (j + 1) \div 2]
                  ELSE [at |-> "super", v |-> <<s.icount, s.used + j \div 2>>]]]

\* n times testfs_free_block: zero_blocks comes first.  No name leads to the
\* inode whose block it is, so that the zeros hide nothing.
FreeBlocks(s, n) ==
    [s EXCEPT !.bits = @ - n, !.used = @ - n,
              !.log = @ \o [j \in 1..3 * n |->
                  CASE j % 3 = 1 -> [at |-> "zero"]
                    [] j % 3 = 2 -> [at |-> "bmap", v |-> s.bits - (j + 1) \div 3]
                    [] j % 3 = 0 -> [at |-> "super", v |-> <<s.icount, s.used - j \div 3>>]]]

\* testfs_allocate_block of logical block l of inode i, for which m blocks are
\* missing.  The index block that leads to l is written at once, the inode
\* much later.
Allocate(s, i, l, m) ==
    IF m = 0 \/ l < ND THEN AllocBlocks(s, m)
    ELSE Put(AllocBlocks(s, m), [at |-> "index", i |-> i, v |-> l + 1])

\* testfs_read_block: how many blocks of inode i are there.  Its index block
\* may lead to one that its size does not take in.
Mapped(i) == IF Node(i).b > ND THEN Max({Node(i).b, disk.index[i]}) ELSE Node(i).b

\* The last block that testfs_write_dirent writes for a new entry nm of a
\* directory with entries s, and how many blocks it has to allocate if the
\* directory has h.
LastOf(s, nm) == (SizeOf(s) + EntrySize[nm] - 1) \div BlockSize
Missing(s, nm, h) ==
    IF SlotFor(s, nm) <= Len(s) \/ LastOf(s, nm) < h THEN 0
    ELSE Needed(LastOf(s, nm))

\* The entry begins in a block that is there and ends in one that cannot be
\* allocated: testfs_write_data reports success.
Torn(s, nm, h, r) == Missing(s, nm, h) > r /\ SizeOf(s) < h * BlockSize

\* The directory after testfs_add_dirent.
Grown(node, s, nm, h) ==
    [node EXCEPT !.n = IF SlotFor(s, nm) > @ THEN @ + 1 ELSE @,
                 !.b = IF Missing(s, nm, @) > 0 THEN @ + 1 ELSE @,
                 !.c = @ + Missing(s, nm, h)]

\* Entry k of a directory with entries s, if nm is its name, begins in one
\* block and ends in the next; Cut bytes of it are in the first.
Cut(s, k)        == BlockSize - (SizeOf(SubSeq(s, 1, k - 1)) % BlockSize)
Across(s, k, nm) == Cut(s, k) < EntrySize[nm]

\* What can be read once the first of its blocks is written and the second is
\* not: the entry that was there, if nothing of it changed or its number is
\* negative still; the new one, if the rest agrees; else a mixture.
Half(s, k, e) ==
    IF k <= Len(s) /\ (Cut(s, k) <= NrAt \/ (Cut(s, k) < NrEnd /\ s[k].nr = Gone))
    THEN s[k]
    ELSE IF k <= Len(s) /\ Cut(s, k) >= NrEnd /\ s[k].name = e.name THEN e
    ELSE Entry(e.name, Mixed)

\* testfs_write_data of entry e at place k of directory i with entries s, for
\* which m blocks are missing.  Of an entry across two blocks the first half is
\* written before the second block is looked for.
WriteSlot(s, i, k, e) == Put(s, [at |-> "slot", i |-> i, k |-> k, v |-> e])
FirstHalf(sp, i, s, k, e) ==
    IF Across(s, k, e.name) THEN WriteSlot(sp, i, k, Half(s, k, e)) ELSE sp
WriteEntry(sp, i, s, k, e, m) ==
    WriteSlot(Allocate(FirstHalf(sp, i, s, k, e), i, LastOf(s, e.name), m), i, k, e)

\* Mutant
PutTwice(c, i) == [c EXCEPT ![i] = Absent]

\* An inode that was changed and written back; it stays in the hash table as
\* long as someone holds it.
Kept(c, i, node) ==
    IF c[i].count > 0 THEN [c EXCEPT ![i].node = node, ![i].dirty = FALSE] ELSE c

Get(c, i) ==
    IF c[i].count > 0 THEN [c EXCEPT ![i].count = @ + 1]
    ELSE [c EXCEPT ![i] = [count |-> 1, dirty |-> FALSE, node |-> ReadInode(i)]]
Release(c, i) ==
    IF c[i].count = 1 THEN [c EXCEPT ![i] = Absent] ELSE [c EXCEPT ![i].count = @ - 1]

-----------------------------------------------------------------------------
(* Commands.                                                               *)

Idle == mode = "run" /\ sb.log = <<>>

\* The name space as disk d has it: directory, name, inode.
UserNames(d) ==
    UNION {{<<i, e.name, e.nr>> : e \in
               {x \in ToSet(SubSeq(d.ents[i], 1, d.dinode[i].n)) :
                   x.nr # Gone /\ x.name \in Names}} :
           i \in {j \in Inodes : d.dinode[j].type = "dir"}}

\* An assertion fails.  The memory is gone.
Abort ==
    /\ mode' = "aborted"
    /\ sb' = [sb EXCEPT !.log = <<>>]
    /\ core' = [i \in Inodes |-> Absent]
    /\ lost' = [i \in Inodes |-> 0]
    /\ UNCHANGED <<disk, cwd, crashed, before, after>>

FreeBits == (0..NrBits - 1) \ sb.imap

\* The end of a command that changes the name space.
Does(s, c, names) ==
    /\ sb' = s /\ core' = c
    /\ before' = UserNames(disk) /\ after' = names
    /\ UNCHANGED <<disk, cwd, mode, lost, crashed>>

\* testfs_create_file_or_dir for a name that is not there: cmd_create and
\* cmd_mkdir.  The new inode is the first free one.
Fresh == Min(FreeBits)
NewNode(type) == [type |-> type, n |-> IF type = "dir" THEN 2 ELSE 0,
                  b |-> IF type = "dir" THEN 1 ELSE 0,
                  c |-> IF type = "dir" THEN 1 ELSE 0]

\* The inode is marked and, for a directory, gets a block with "." and "..".
Made(type) ==
    LET s1 == MarkInode(sb, Fresh)
        e1 == Entry(Dot, Fresh)
        s2 == WriteEntry(s1, Fresh, <<>>, 1, e1, 1)
    IN IF type = "dir" THEN WriteEntry(s2, Fresh, <<e1>>, 2, Entry(DotDot, cwd), 0) ELSE s1

CanCreate(nm) ==
    /\ Idle /\ Lookup(cwd, nm) = Gone
    /\ FreeBits # {}

CreateOk(type, nm) ==
    /\ CanCreate(nm) /\ Fresh \in Inodes
    /\ Node(Fresh).n = 0 /\ Node(Fresh).b = 0
    /\ LET s  == Entries(cwd)
           p  == core[cwd].node
           m  == Missing(s, nm, Mapped(cwd))
           p2 == Grown(p, s, nm, Mapped(cwd))
           s1 == Made(type)
           s2 == WriteEntry(s1, cwd, s, SlotFor(s, nm), Entry(nm, Fresh), m)
           s3 == SyncInode(SyncInode(s2, cwd, p2), Fresh, NewNode(type))
       IN /\ type = "dir" => Room(sb) > 0
          /\ m <= Room(s1)
          /\ Does(s3, Kept(Kept(core, cwd, p2), Fresh, NewNode(type)),
                  UserNames(disk) \cup {<<cwd, nm, Fresh>>})

\* testfs_remove_inode
RemoveInode(s, i, node) ==
    SyncInode(UnmarkInode(FreeBlocks(s, BlocksOf(node.b)), i), i, Zero)

\* No room for the new directory's block or for the entry: the new inode is
\* removed again.  A failure that allocated and freed an index block leaves
\* the parent dirty.
CreateNoSpace(type, nm) ==
    /\ CanCreate(nm) /\ Fresh \in Inodes
    /\ Node(Fresh).n = 0 /\ Node(Fresh).b = 0
    /\ LET s  == Entries(cwd)
           m  == Missing(s, nm, Mapped(cwd))
           s1 == Made(type)
           half == m = 2 /\ Room(s1) = 1
           s2 == IF half THEN FreeBlocks(AllocBlocks(s1, 1), 1) ELSE s1
       IN \/ /\ type = "dir" /\ Room(sb) = 0
             /\ Does(RemoveInode(MarkInode(sb, Fresh), Fresh, Zero),
                     Kept(core, Fresh, Zero), UserNames(disk))
          \/ /\ type = "dir" => Room(sb) > 0
             /\ m > Room(s1)
             /\ ~Torn(s, nm, Mapped(cwd), Room(s1))
             /\ Does(RemoveInode(s2, Fresh, NewNode(type)),
                     [Kept(core, Fresh, Zero) EXCEPT ![cwd].dirty = @ \/ half],
                     UserNames(disk))

\* What is said about the disk ends here: half an entry was written, or the
\* new inode starts with the size and the blocks of one that was removed.
CreateDamages(type, nm) ==
    /\ CanCreate(nm) /\ Fresh \in Inodes
    /\ \/ Node(Fresh).n # 0 \/ Node(Fresh).b # 0
       \/ /\ type = "dir" => Room(sb) > 0
          /\ Torn(Entries(cwd), nm, Mapped(cwd), Room(Made(type)))
    /\ mode' = "damaged"
    /\ UNCHANGED <<disk, sb, core, cwd, lost, crashed, before, after>>

\* testfs_create_inode: the bit is beyond the last inode.
CreateNoInode(nm) ==
    /\ CanCreate(nm) /\ Fresh \notin Inodes
    /\ Does(UnmarkInode(MarkInode(sb, Fresh), Fresh), core, UserNames(disk))

\* testfs_remove_dirent_allowed
Empty(i) == Children(i) = {}

\* testfs_remove_dirent
Unnamed(s, k, nm) == WriteEntry(s, cwd, Entries(cwd), k, Entry(nm, Gone), 0)

\* Mutant
InodeFirst(i, k, nm) == Unnamed(RemoveInode(sb, i, Node(i)), k, nm)

\* cmd_rm: the entry goes first, then the inode.
Removed(i, k, nm) == RemoveInode(Unnamed(sb, k, nm), i, Node(i))
CanRm(nm) ==
    LET i == Lookup(cwd, nm) IN
    /\ Idle /\ i # Gone
    /\ Node(i).type = "dir" => Empty(i)

\* The blocks to be freed are as many as block_count has.
Counted(i) == Node(i).c = BlocksOf(Node(i).b)

Rm(nm) ==
    LET i == Lookup(cwd, nm) IN
    /\ CanRm(nm) /\ Counted(i)
    /\ Does(SyncInode(Removed(i, Min(SlotsOf(cwd, nm)), nm), cwd, core[cwd].node),
            Kept(Kept(core, i, Zero), cwd, core[cwd].node),
            UserNames(disk) \ {<<cwd, nm, i>>})

\* They are not: the assertion of testfs_remove_inode, once they are free.
RmAborts(nm) ==
    LET i == Lookup(cwd, nm) IN
    /\ CanRm(nm) /\ ~Counted(i)
    /\ Does(Put(FreeBlocks(Unnamed(sb, Min(SlotsOf(cwd, nm)), nm), BlocksOf(Node(i).b)),
                [at |-> "abort"]),
            core, UserNames(disk) \ {<<cwd, nm, i>>})

\* cmd_write of one more block of a file, cmd_read being a stuttering step.
Write(nm) ==
    LET i == Lookup(cwd, nm)
        l == Node(i).b
        m == IF l < Mapped(i) THEN 0 ELSE Needed(l)
        node == [Node(i) EXCEPT !.b = @ + 1, !.c = @ + m]
    IN /\ Idle /\ i # Gone /\ Node(i).type # "dir"
       /\ l < MaxBlocks /\ m <= Room(sb)
       /\ Does(SyncInode(Allocate(sb, i, l, m), i, node),
               Kept(core, i, node), UserNames(disk))

\* cmd_cd
Cd(nm) ==
    LET i == Lookup(cwd, nm) IN
    /\ Idle /\ i # Gone /\ Node(i).type = "dir"
    /\ IF core[cwd].dirty THEN Abort
       ELSE /\ core' = Release(Get(core, i), cwd)
            /\ cwd' = i
            /\ UNCHANGED <<disk, sb, mode, lost, crashed, before, after>>

\* cmd_ls_internal of something that is not a directory.
LsNotDir(nm) ==
    LET i == Lookup(cwd, nm) IN
    /\ Idle /\ i # Gone /\ Node(i).type # "dir" /\ lost[i] + crashed < MaxLeaks
    /\ core' = Get(core, i)
    /\ lost' = [lost EXCEPT ![i] = @ + 1]
    /\ UNCHANGED <<disk, sb, cwd, mode, crashed, before, after>>

\* The inodes that ls, lsr and stat of i get and put.
Within(i) ==
    LET R[d \in 0..NrInodes] ==
            IF d = 0 THEN {i} ELSE R[d - 1] \cup UNION {Children(j) : j \in R[d - 1]}
    IN R[NrInodes]
Stat(i) == {i}
Looked(cmd, i) ==
    CASE cmd = "stat" -> Stat(i)
      [] cmd = "ls"   -> {i} \cup Named(i)
      [] cmd = "lsr"  -> UNION {{j} \cup Named(j) : j \in Within(i)}

\* testfs_pwd finds every directory on the way in its parent.
PwdFails ==
    LET up(j) == Lookup(j, DotDot)
        R[d \in 0..NrInodes] == IF d = 0 THEN cwd ELSE up(R[d - 1])
    IN \E d \in 0..NrInodes - 1 : R[d] # up(R[d]) /\ R[d] \notin Named(up(R[d]))

\* A command that only looks: it puts back every inode it got, which aborts
\* if the inode is dirty.
LookAborts ==
    /\ Idle
    /\ \/ PwdFails
       \/ \E j \in Inodes :
            /\ core[j].dirty
            /\ \E nm \in Names \cup {Dot, DotDot}, cmd \in {"stat", "ls", "lsr"} :
                  LET i == Lookup(cwd, nm) IN
                  /\ i # Gone /\ (cmd = "stat" \/ Node(i).type = "dir")
                  /\ j \in Looked(cmd, i)
    /\ Abort

\* cmd_quit or the end of the input, and testfs_close_super_block.
Quit ==
    /\ Idle
    /\ IF core[cwd].dirty \/ \E i \in Inodes : Release(core, cwd)[i].count > 0
       THEN Abort
       ELSE /\ mode' = "down"
            /\ core' = [i \in Inodes |-> Absent]
            /\ UNCHANGED <<disk, sb, cwd, lost, crashed, before, after>>

-----------------------------------------------------------------------------
(* The disk.                                                               *)

\* write_blocks.  Entries beyond the size of a directory are not part of it,
\* and an index block counts once the inode leads to it.
IndexOf(node, x) == IF node.b > ND THEN x ELSE 0
Written(d, w) ==
    CASE w.at = "imap"   -> [d EXCEPT !.imap = w.v]
      [] w.at = "bmap"   -> [d EXCEPT !.bits = w.v]
      [] w.at = "super"  -> [d EXCEPT !.icount = w.v[1], !.used = w.v[2]]
      [] w.at = "zero"   -> d
      [] w.at = "index"  -> [d EXCEPT !.index[w.i] = w.v]
      [] w.at = "slot"   -> [d EXCEPT !.ents[w.i] =
                                SubSeq(@, 1, w.k - 1) \o <<w.v>> \o SubSeq(@, w.k + 1, Len(@))]
      [] w.at = "dinode" -> [d EXCEPT !.dinode[w.i] = w.v,
                                      !.ents[w.i] = SubSeq(@, 1, w.v.n),
                                      !.index[w.i] = IndexOf(w.v, @)]

WriteBlocks ==
    /\ mode = "run" /\ sb.log # <<>> /\ Head(sb.log).at # "abort"
    /\ disk' = Written(disk, Head(sb.log))
    /\ sb' = [sb EXCEPT !.log = Tail(@)]
    /\ before' = IF Tail(sb.log) = <<>> THEN after ELSE before
    /\ UNCHANGED <<core, cwd, mode, lost, crashed, after>>

\* The command comes to its failing assertion.
AssertFails == mode = "run" /\ sb.log # <<>> /\ Head(sb.log).at = "abort" /\ Abort

Crash ==
    /\ mode = "run"
    /\ mode' = "down"
    /\ core' = [i \in Inodes |-> Absent]
    /\ lost' = [i \in Inodes |-> 0]
    /\ crashed' = IF sb.log = <<>> THEN crashed ELSE crashed + 1
    /\ crashed' <= MaxCrashes
    /\ disk' = [disk EXCEPT
          !.ents  = [i \in Inodes |-> SubSeq(@[i], 1, disk.dinode[i].n)],
          !.index = [i \in Inodes |-> IndexOf(disk.dinode[i], @[i])]]
    /\ sb' = [sb EXCEPT !.log = <<>>]
    /\ UNCHANGED <<cwd, before, after>>

\* testfs_init_super_block and the start of main.  What a process does on a
\* disk with half an entry is not said.
Loaded(d) == [imap |-> d.imap, icount |-> d.icount, bits |-> d.bits,
              used |-> d.used, log |-> <<>>]
Spoiled == \E t \in UserNames(disk) : t[3] = Mixed
Start ==
    /\ mode \in {"down", "aborted"}
    /\ mode' = IF Spoiled THEN "damaged" ELSE "run"
    /\ sb' = Loaded(disk)
    /\ core' = [i \in Inodes |-> IF i = Root
                 THEN [count |-> 1, dirty |-> FALSE, node |-> ReadInode(Root)]
                 ELSE Absent]
    /\ cwd' = Root
    /\ before' = UserNames(disk) /\ after' = UserNames(disk)
    /\ UNCHANGED <<disk, lost, crashed>>

\* mktestfs: empty free maps, and testfs_make_root_dir.
MadeDisk ==
    [imap |-> {Root}, icount |-> 1, bits |-> 1, used |-> 1,
     dinode |-> [i \in Inodes |-> IF i = Root THEN NewNode("dir") ELSE Zero],
     index |-> [i \in Inodes |-> 0],
     ents |-> [i \in Inodes |-> IF i = Root
                THEN <<Entry(Dot, Root), Entry(DotDot, Root)>> ELSE <<>>]]

Init ==
    /\ disk = MadeDisk /\ sb = Loaded(MadeDisk)
    /\ core = [i \in Inodes |-> Absent]
    /\ cwd = Root /\ mode = "down"
    /\ lost = [i \in Inodes |-> 0] /\ crashed = 0
    /\ before = {} /\ after = {}

Stopped == mode = "damaged" /\ UNCHANGED vars

Next ==
    \/ \E type \in {"file", "dir"}, nm \in Names :
          CreateOk(type, nm) \/ CreateNoSpace(type, nm) \/ CreateDamages(type, nm)
    \/ \E nm \in Names :
          CreateNoInode(nm) \/ Rm(nm) \/ RmAborts(nm) \/ Write(nm) \/ LsNotDir(nm)
    \/ \E nm \in Names \cup {Dot, DotDot} : Cd(nm)
    \/ LookAborts \/ Quit \/ WriteBlocks \/ AssertFails \/ Crash \/ Start \/ Stopped

Spec == Init /\ [][Next]_vars

-----------------------------------------------------------------------------
(* Properties.                                                             *)

Dinode == [type : {"none", "file", "dir"}, n : Nat, b : Nat, c : Nat]

\* Every variable has its type.
TypeOK ==
    /\ disk.imap \subseteq 0..NrBits - 1 /\ sb.imap \subseteq 0..NrBits - 1
    /\ disk.icount \in 0..NrBits + MaxCrashes /\ sb.icount \in 0..NrBits + MaxCrashes
    /\ disk.used \in 0..MaxFsBlocks /\ sb.used \in 0..MaxFsBlocks
    /\ disk.dinode \in [Inodes -> Dinode] /\ disk.index \in [Inodes -> Nat]
    /\ core \in [Inodes -> [count : Nat, dirty : BOOLEAN, node : Dinode]]
    /\ cwd \in Inodes /\ crashed \in 0..MaxCrashes
    /\ mode \in {"run", "down", "aborted", "damaged"}

\* Between commands, as long as none was cut short, the directories are a
\* tree: every inode that is marked is named once, from a directory that
\* names itself and its parent, the root reaches all of them, and pwd finds
\* its way up.
TreeSound ==
    Idle /\ crashed = 0 =>
        /\ Within(Root) = sb.imap
        /\ \A i \in sb.imap \ {Root} :
              Cardinality({t \in UserNames(disk) : t[3] = i}) = 1
        /\ \A t \in UserNames(disk) :
              /\ Node(t[3]).type # "none"
              /\ Node(t[3]).type = "dir" =>
                    Lookup(t[3], Dot) = t[3] /\ Lookup(t[3], DotDot) = t[1]
              /\ Cardinality(SlotsOf(t[1], t[2])) = 1
        /\ ~PwdFails

\* One entry has been written by half, and it is the one that the command
\* adds or deletes.
HalfWritten ==
    \E t \in (before \cup after) \ (before \cap after) :
        UserNames(disk) = (before \cap after) \cup {<<t[1], t[2], Mixed>>}

\* Whenever the process is killed, the disk has the names from before the
\* command or those from after it, or all that they have in common and half of
\* one entry, which then lies across two blocks; once a command has ended its
\* effect is on the disk; and no whole entry leads to a free inode.
NamesSurvive ==
    mode # "damaged" =>
        LET names == UserNames(disk) IN
        /\ names \in {before, after} \/ HalfWritten
        /\ \A i \in Inodes : \A k \in 1..disk.dinode[i].n :
              disk.ents[i][k].nr = Mixed => Across(disk.ents[i], k, disk.ents[i][k].name)
        /\ Idle => names = after
        /\ \A t \in names : t[3] \in disk.imap \cup {Mixed}

\* The blocks of some inodes.
Held(I) == FoldSet(LAMBDA i, sum : sum + BlocksOf(disk.dinode[i].b), 0, I)

\* Between commands the references are those of cur_dir and those lost by ls,
\* an inode in memory is the one on disk, and the counts are exact, so that no
\* rm fails on one; after a crash blocks may be lost and a block_count be short,
\* but no block in use is free.
Accounts ==
    Idle =>
        /\ \A i \in Inodes : core[i].count = lost[i] + IF i = cwd THEN 1 ELSE 0
        /\ \A i \in Inodes : core[i].count > 0 => core[i].node = disk.dinode[i]
        /\ disk = [disk EXCEPT !.imap = sb.imap, !.icount = sb.icount,
                                !.bits = sb.bits, !.used = sb.used]
        /\ sb.bits >= Held({Root} \cup {t[3] : t \in UserNames(disk)})
        /\ \A i \in Inodes : Node(i).c <= BlocksOf(Node(i).b)
        /\ crashed = 0 => /\ sb.icount = Cardinality(sb.imap)
                          /\ sb.bits = sb.used /\ sb.used = Held(Inodes)
                          /\ \A i \in Inodes : Counted(i)

=============================================================================
