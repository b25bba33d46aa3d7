# TLA+ models of the ECE 344 laboratories: threads, web server, file system

The repository holds the four laboratories of an operating systems course: a
user-level thread library (`src/threads`), a multi-threaded web server with a
file cache (`src/webserver`), a small file system (`src/fs`) and warm-up
exercises (`src/warmup`). `src/os-167/fs` and `src/marker/os-167/fs` are byte for
byte `src/fs`. `src/webserver/os-167` is the server before it had a cache, with
the same queue; `src/read_write.c` is another version of `src/fs/read_write.c`,
and `TestfsData` compares the two.

## Inventory

| Part | State | Operations | What is hard | What makes it correct |
|---|---|---|---|---|
| Request queue (`webserver/server_thread.c`, `server.c`) | ring `rq` with `rq_start`, `rq_end`, `request_counter`; mutex `lock`, condition variables `full`, `empty`; `exiting` | `server_init`, `server_request`, `start_thread`, `server_exit`, the poll loop of `main` | one producer and many consumers, broadcasts sent only at the two limits, spurious wakeups, shutdown racing requests | mutual exclusion, no lost wakeup, FIFO order, nothing dropped, requests are taken, shutdown ends |
| File cache (`webserver/server_thread.c`) | hash table `ht`, LRU list `lq`, `refCount`, `currentSize` | `do_server_request` with `cache_lookup`, `cache_insert`, `cache_evict` | lookups made before, and used after, the mutex is let go; eviction of what is being sent | size exact and limited, both lists agree, what is sent is what was asked for, no file cached twice for a stale lookup |
| Scheduler (`threads/thread.c`) | `TotalList`, `ReadyList`, wait queues, `currentThread` | `thread_create`, `thread_yield`, `thread_exit`, `thread_sleep`, `thread_wakeup`, `thread_wait` | preemption by the timer, reuse of identifiers and stacks, waits and exits in any order | each thread in one place, none lost, stacks live as long as threads, fair turns |
| Timer (`threads/interrupt.c`) | signal mask of each context | `interrupt_handler`, `interrupts_set` | fires wherever interrupts are on | part of the scheduler model |
| Locks, condition variables (`threads/thread.c`) | `avaliable`, `acquiredID`, their wait queues | `lock_acquire`, `lock_release`, `cv_wait`, `cv_signal`, `cv_broadcast` | a woken thread may find the lock taken; calls without the lock | one holder, no lost wakeup, no endless loop |
| `thread_kill` (`threads/thread.c`) | the `exist` flag of a thread that stays in a list | `thread_kill` | later calls meet a thread that is gone | the lists stay sound, the killed thread never runs |
| HTTP (`webserver/request.c`, `common.c`, clients) | the buffer of a `rio`, the line being read, what is left to write; `file_buf`, `file_size` | `request_init`, `request_readfile`, `request_sendfile`, the `rio` functions, `client_send`, `client_print` | short and interrupted reads and writes, lines cut anywhere, clients that go away, files that change or go, error pages of any length | answers arrive complete with the right length and checksum; the server ends only for reasons that can be named; requests end |
| Block maps (`fs/read_write.c`, `read_write.c`) | direct, indirect and double indirect blocks, `i_size`, `block_count` | `testfs_read_data`, `testfs_write_data`, `testfs_free_blocks` | failure half way through an allocation, ranges that begin and end anywhere in a block, sparse files | every block owned once, bytes read back, nothing leaked |
| Inodes, free maps, directories (`fs/dir.c`, `inode.c`, `super.c`, `testfs.c`) | free maps and counts, the inode cache with references and dirty flags, directory entries; the disk | the commands of `testfs`, `mktestfs` | order of the writes and a crash between any two of them, entries that lie across two blocks, reference counts on error paths, reuse of entries and inodes | the directories are a tree, names survive a crash (but for half an entry), counts and references exact |
| Warm-up (`warmup/*.c`) | sorted list of points, hash table of words | insert, remove, count, destroy | boundary cases of lists, collisions, what is freed | sorted, nothing lost or counted twice |

The parts interact as follows. The main thread of the server puts connections
in the ring; the workers take them out and run `do_server_request`, which uses
the same mutex for the cache. In the thread library everything rests on the
scheduler: a lock is a flag and a wait queue, a condition variable a wait queue,
and the timer interrupt is a `thread_yield` that the program did not write.

## Modules

| Module | Models |
|---|---|
| `BoundedFifo` | what a request queue promises: a bounded first-in first-out queue |
| `RequestQueue` | the ring, the mutex and the condition variables, `main` and the workers; implements `BoundedFifo` |
| `RequestQueueProofs` | TLAPS proofs about `RequestQueue` |
| `FileCache` | `do_server_request` and the cache |
| `FileCacheProofs` | proofs about `FileCache` |
| `ThreadSched` | the scheduler and the timer |
| `ThreadLocks` | locks and condition variables, composed with `ThreadSched` |
| `ThreadKill` | `thread_kill`, composed with `ThreadSched` |
| `ThreadProofs` | proofs about `ThreadSched`, `ThreadLocks` and `ThreadKill`; the step lemmas of the first serve all three |
| `TestfsBlocks` | the block maps of the files of `testfs`, allocation, failure and removal |
| `TestfsData` | a file of `testfs` in bytes: how ranges are cut into blocks, read and written |
| `ReadWriteProofs` | proofs about both |
| `TestfsDir` | the commands of `testfs`: directories, inodes in memory, free maps, the disk and crashes |
| `TestfsDirProofs` | proofs about `TestfsDir` |
| `WebIO` | one request between client and server over the `rio` functions |
| `WebIOProofs` | proofs about `WebIO` |
| `SortedPoints`, `WordCount` | the two warm-up data structures |
| `WarmupProofs` | proofs about both |
| `ListLemmas` | lemmas that the proof modules share: least elements, and what appending, joining and removing do to the elements of a list without repetitions |
| `MCApart` | `WebIO`, `TestfsData`, `SortedPoints` and `WordCount` side by side: they share no state, and a behaviour exercises one of them |
| other `MC*` | the instances for TLC |

Some definitions are marked as mutants. They show what a slip in the code would
look like, are used by no action, and serve to confirm that the properties
notice such a slip (`PROJECT.json` lists which mutant breaks which property).

### RequestQueue

`pc` says where each thread is in its loop. A step ends wherever another thread
could interfere if the mutex were not there, so the reading of a slot and the
moving of the index are two steps and mutual exclusion is a result. The mutex
and the condition variables are modelled from how POSIX defines them: a waiter
gives the mutex up and goes to sleep in one step, a broadcast makes every
waiter compete for the mutex, and a wait may return by itself
(`SpuriousWakeup`). `queued` and `taken` are history variables. A connection is
the number of its `accept`. The pool is not empty: with `nr_threads = 0`,
`server_request` calls `do_server_request` directly and the queue is not used.

### FileCache

A critical section is one step, since `RequestQueue` shows that the mutex
excludes. Reading and sending are steps outside it. An element stands for the
`struct wordsElement` and its `LRUNode`; the identity of a chain in the hash
table is `Bucket`, a constant. `cache_lookup` is modelled as it is written: the
loop compares the name with the head of the chain in every round; `FoundAgain`
is the second lookup, made once the file was read, because the first is stale
by then. `CachedOnce` says what it is for: a file that is alone in its bucket is
cached once however many threads missed it together. For files that share a
bucket this is false (`cache_twice`). What
`currentSize` should be is the number of `CachedBytes`, the pairs of a cached
element and a byte of its file.

### ThreadSched

One processor, so a library call that runs with interrupts off is one step up to
the context switch. What the thread does when it is resumed is its next step:
`Resume`, `YieldResume`, `YieldReturn`, `IrqReturn`. `thread_yield` restores the
interrupts before it reads its result, so that is a step of its own. Threads
call anything in any order within `Calls`. `nextThreadID` is forgotten
(`NoTid`) once no code can read it any more, and the two calls that fail by
returning an error code without any effect are not steps.

### ThreadLocks

Each lock and condition variable owns one wait queue of `ThreadSched`. `hold` is
the set of locks whose acquisition has returned to a thread. Threads release,
wait and signal with or without the lock; `misused` remembers whether somebody
did it without. Between these calls the threads make every call of the
scheduler: they sleep in and wake queues of their own (`OwnQueue` in the
instance; the queue inside a lock cannot be named from outside) and wait for
each other with `thread_wait`, with or without a lock in their hands. They do
not acquire a lock they hold and do not exit with one: each of these is a
deadlock made by the program. `AcquireNeverSpins` names the conditions under
which the loop of `lock_acquire` has somebody to switch to: nobody misused a
lock, and no holder sleeps in `thread_wait` or `thread_sleep` (`HoldersAwake`).
It holds for one lock only: with two, a thread may hold one while it sleeps on
the other, and the thread that wants the first then turns its loop.

### ThreadKill

`kill_ready` is the kill that the lists can bear. `kill_off_the_end` is the
search that follows a null pointer, `kill_marked` the kill that only clears
`exist`, and `endless_exit` the recursion of `thread_yield` and `thread_exit`
when such a thread heads the ready list. `unsafe` remembers whether a kill other
than the first kind was made. What follows when the slot of a marked thread is
given to a new thread is not modelled.

### TestfsBlocks

Sizes are counted in whole blocks, and the geometry (`ND` direct blocks, `NI`
numbers in an index block) is a constant, so that the double indirect range is
reached with a handful of blocks. `index` holds the numbers in the index blocks,
`data` remembers whose logical block was last written to each physical one. The
loop of `testfs_write_data` is one `WriteBlock` step per logical block:
`AllocDirect`, `AllocIndirect` and `AllocDouble` allocate the block together with
the index blocks that are missing (`Needed`), lowest free number first. When
fewer are free, `AllocFails` has given back the ones it got and ends the write;
the three returns of the code leave `i_size` alone, the `goto out` of a write of
two blocks does not. `Freed` is what the walk of `testfs_free_blocks` reaches:
it stops at `i_size`, and counts a second level index block only if it exists.
`Consistent` collects the two assertions that removal meets. Two faults leave
maps that name blocks of others: the number of a freed second level index block
that stays in the double indirect block (`AllocDangles`,
`read_write.c:246`), and a number read past the end of the indirect block
(`AllocStrays`, `read_write.c:71`). The model records them in `bad` and ends
there; `OwnedOnce` (which includes the exactness of `block_count` and
`used_block_count`) and `ReadsBack` speak of the states before. Writes begin
inside the largest file. `FreedTop` is the walk of `src/read_write.c`.

### TestfsData

`Pieces` is the cutting of a range of bytes: a first piece up to the end of its
block, full blocks while more than a block is left, a last piece. The read of
`src/fs/read_write.c` leaves a last piece out when it is a full block
(`ReadPieces`); `TopReadPieces` is the loop of `src/read_write.c`, and the two
are equal for every range. `BufAt` is where the buffer pointer stands at each
piece. A write that runs out of blocks, or beyond the largest file, keeps the
pieces it has done (`Done`); `EndsAsWritten` is the case of two pieces in which
the code goes on to its regular end. `model` is what the callers wrote.

### TestfsDir

A command changes the memory of the process in one step, since there is one
process and it takes one command at a time; its writes to the disk go to `sb.log`
in the order of the code and reach the disk one by one (`WriteBlocks`), the next
command waits for them (`Idle`). `Crash` drops the rest of the log and the memory,
at most `MaxCrashes` times within a command and any number of times between
commands; `Start` is the start of `testfs`, which reads what is there: there is no
recovery code. Each `write_blocks` is a write of its own: a map, the super block,
the zeros of a freed block (`FreeBlocks`), the index block that leads to a new
block (`Allocate`), an entry, an inode. An entry that lies across two blocks is
two writes, with the allocation of the second block in between (`FirstHalf`,
`WriteEntry`). `Half` is what can be read after the first: the old entry, if
nothing of it changed or it stays deleted; the new one, if the rest agrees; else
an entry with the number `Mixed`, which stands for any number and any name. `NrAt`
and `NrEnd` place the inode number in the entry, so that the cut may fall before,
within or behind it. A process that starts on a disk with such an entry
(`Spoiled`) is not followed: `mode` becomes "damaged". Since the index block is on
the disk before the inode, a crash may leave a block that the next process finds
there and does not count (`Mapped`): `block_count` is then one short, and a later
`rm` frees the blocks and fails its assertion (`Counted`, `RmAborts`,
`AssertFails`; `inode.c:224`, or one of the walk before it), its name gone and its
inode still marked. `core` is the hash table of inodes with `i_count` and the
dirty flag. `Get` and `Release` stand for `testfs_get_inode` and
`testfs_put_inode`; a command that gets and puts the same inode leaves `core` as
it was. Directories are sequences of entries of some size, `SlotFor` is the reuse
of a deleted entry of the same length. `CreateOk`, `CreateNoSpace`,
`CreateNoInode` and `CreateDamages` are the ways `testfs_create_file_or_dir` ends.
Of the other assertions that fail (`Abort`) one is in `Quit`, when a reference was
lost by `ls` of a file (`LsNotDir`), the others in `Cd`, `Quit` and the commands
that only look, when an inode is dirty. `CreateDamages` ends the behaviour: half
an entry was written (`read_write.c:333`), or the new inode has the remains of one
whose removal a crash cut short (`inode.c:228`). The names that a user gives are
taken to be other than "." and ".." (`SizeAssumption`).

### WebIO

What is sent is a sequence of symbols; a line is its text and its end, a body is
bytes, so a read can cut a line in two and an answer anywhere. `Write`, `Refill`
and `TakeChars` are the loops of `rio_write`, `rio_readb` and `rio_readlineb`, for
both ends; each may be interrupted (`Interrupted`). The worker goes through
`request_init`, `request_read_headers`, `request_stat`, `request_readfile`,
`request_sendfile`, `request_destroy`, the client through `client_send`,
`client_head`, `client_body`, `client_check`. A client may go away at any moment
(`ClientDies`), which makes reads and writes of the server fail, and a file may
shrink (`FileShrinks`) or go (`FileGoes`). A file that is gone before `stat` is
refused with a page; one that is gone, or may not be read, when `request_readfile`
opens it ends the process, since `SYS` exits (`request.c:194`): all workers with
it, and no client has gone away. At the end of the input `rio_readlineb` does not
write the buffer, whose old contents then decide: `Spin` is the endless loop of
`request_read_headers`. The page of `request_error` echoes the name or the method
with `sprintf` into `body[MAXBUF]` and may be longer than that (`TooLong`). What
lies behind `body` is overwritten, and the model takes any of three outcomes: the
page goes out whole, it is cut at the end of `body`, or the process ends when
`request_error` returns. `WebAssumption` says that there is a file set and that
the buffers hold at least a line of a header, as those of the code do; the pages
may have any length. Failures of `malloc` and of the calls at `request.c:198` and
`200` on a file that is open are not modelled.

### SortedPoints, WordCount

A list is a sequence; memory is a count of what is allocated; `held` counts for
each point how often it was added and not removed. Distances are
compared by their squares. `ReturnPrev` begins behind the head, as `returnPrev`
does. In `WordCount` a text is its runs of letters, so that empty runs, texts
without a space at the end (`wc_init_end`) and collisions all happen; the hash is
a constant.

## Runs

Passing runs:

| Run | Instance | Shows |
|---|---|---|
| `queue` | 3 workers, ring of 2, 4 connections | `TypeOK`, `MutualExclusion`, `NoLostWakeup`, `FifoOrder`, `NothingDropped`; the ring implements `BoundedFifo` (`FifoSpec`); `QueuedIsTaken`, `MainResumes`, `WokenWorkersExit` under weak fairness |
| `sched` | 3 threads, 1 wait queue, every call | `TypeOK`, `NobodyLost`, `StackLifetime`, `NoOrphanWaiter`, `WokenWaiterSawExit`, `NeverOvertaken`, and `ReadyRuns` under fairness |
| `locks` | 3 threads, 1 lock, 1 condition variable, 1 queue of the threads' own, every call | `LockExclusive`, `NobodySleepsOnFreeLock`, `AcquireNeverSpins` |
| `kill_safe` | 3 threads, 2 kills, every call | `SafeKillsDoNoHarm` |
| `cache_safety` | 3 threads (symmetric), 3 files of sizes 1, 2, 2, the first two in one bucket, cache of 4 | `TypeOK`, `SizeWithinLimit`, `ListsAgree`, `ServesItsFile`, `RefCountExact`, `CachedOnce` |
| `fs_blocks` | 2 files (symmetric), 1 direct block, 2 numbers per index block, 5 blocks, writes of up to 3 blocks | `TypeOK`, `OwnedOnce`, `ReadsBack`, `SizeCoversBlocks` |
| `fs_dirs` | 3 inodes (the map has 4 bits), 5 blocks of 17 bytes, 1 direct block, files of up to 3 blocks, 3 names (two symmetric) with entries of 4 and 6 bytes, 1 lost reference per inode before the first crash inside a command, 1 such crash | `TypeOK`, `TreeSound`, `NamesSurvive`, `Accounts` |
| `apart` | web: 2 files and a name that is missing, 2 requests, buffers of 2 and 3 symbols, 1 interrupt; data: 4 blocks of 2 bytes, 3 of them to be had, writes of up to 6 bytes; points: 9 points, lists of 3; words: 3 words in 2 buckets, texts of 5 runs | `AnswersExact`, `OnlyHangupsHurt`, `RequestsEnd`; `DataSound`; `PointsSound`; `WordsSound` |

The bounds are chosen so that the cases at the limits happen. Four connections go
round a ring of two slots twice, and fill it while every worker is busy; three
workers include one that is asleep, one woken and one serving. Three threads are
the fewest with one running, one ready and one waiting, and reuse identifiers; in
`locks` they let one hold the lock while one sleeps on it and one on the condition
variable or elsewhere. A cache of 4 holds any two files, also the one that is
alone in its bucket twice, but not all three, so that insertions fit, evict and
are refused. Five blocks are the fewest for a file with two second level index
blocks, and for a file of the double indirect range beside another with one block
left; writes of one, two and three blocks are the three paths of
`testfs_write_data`. In `fs_dirs` three inodes are a root, a directory in it and a
file in that; the fourth bit of the map is the one beyond the last inode; two
lengths of names let an entry be reused or not; five blocks run out while a
directory grows over its direct block. The entries of "a" and "b" fill the first
block to its end, so that the next one may fail for its index block; an entry for
"cc" behind that of "a" is cut within its name, one for "a" behind that of "cc"
within its number. `NrAt = 1` and `NrEnd = 3` make the number two bytes, the
fewest that can be cut. A name over half of another in a reused entry does not
happen here; the proofs include it. A crash clears the references that `ls` lost,
and the run loses none after it (the guard with `MaxLeaks`); `AgreementSafe` is
proved for any number of both. In `apart` every buffer is smaller than a page
and as long as the longest line of a header, one file is empty and one has a line
that fills the buffer, one error page fits and one does not, and two requests show
that nothing is left over from the first. Three points are the fewest with a head,
a middle and an end. `CHECK_DEADLOCK FALSE` is there because these programs end.

Runs that end in a counterexample, each for a sentence of the repository that
the code does not keep:

| Run | Sentence | What happens |
|---|---|---|
| `queue_shutdown` | "use sv->exiting to indicate to these threads that the server is exiting" (`server_thread.c:476`) | a worker busy during the broadcast waits on `empty` afterwards, and `pthread_join` never returns |
| `kill_runs` | "When a thread is killed, it should not run any further" (`thread.h:77`) | a thread killed while it waits for its killer is run by `thread_sleep` |
| `cache_twice` | "assume that it doesn't exist" (`server_thread.c:219`) | the second file of a bucket is never found and inserted again and again |
| `fs_abort` | "removes inode and all blocks associated with inode" (`inode.c:218`) with `assert(in->in.block_count == 0)` | a write that runs out of space leaves blocks beyond `i_size`, and removing the file fails the assertion |

The models contain further departures from the comments that have no run of their
own: a timer interrupt between lines 342 and 343 of `thread.c` replaces the result
of `thread_yield` ("return the identifier of the thread that ran", `thread.h:55`);
`thread_wait` returns at once when nobody is ready, although `thread.h:119` says
that it suspends until the thread exits; a failed `thread_create` leaves the
interrupts off, so that its thread goes on with nobody able to preempt it
(`LeftOff`, the one case that `ReadyRuns` excepts; a new thread turns the
interrupts on before it runs its own code); `lock_release` does not check its
caller and `acquiredID` is never reset (which is why `LockExclusive` speaks of
behaviours without misuse); `thread_kill` of a thread that is not in a non-empty
ready list follows a null pointer; `cache_evict` evicts one element at most; and
`max_requests = 0` with workers makes the ring full and empty at once, so that
`MainResumes` holds only for `MaxRequests > 0`. `ls` of a file keeps a reference,
and `testfs` then aborts when it quits (`dir.c:311`, `inode.c:43`). A read that
crosses a block and ends with one counts its last block without copying it
(`DataSound` says exactly this). The head of the sorted list is never compared, so
a point that belongs behind the head is put before it and the order of
`sorted_points.h` is lost (`PointsSound` excepts such a list); an index other than
0 into a list of one point follows a null pointer. `wc_destroy` leaves the head of
every bucket and the string of every repeated word allocated (`WordsSound` counts
them). A line as long as the buffer is terminated one byte beyond it
(`common.c:163`), and a client that goes away in the middle of a header leaves its
worker in an endless loop (`request.c:64`). A file that cannot be opened after
`stat` found it, and an error page longer than its buffer, may end the whole
server (`request.c:194`, `request.c:27`; `OnlyHangupsHurt` names both). A crash
between the two writes of an entry that lies across two blocks leaves half an
entry (`read_write.c:309` and `338`; `NamesSurvive` says which), and one between
an index block and its inode leaves `block_count` one short, at which a later `rm`
aborts (`inode.c:224`).

## Fairness

`RequestQueue`: weak fairness of each thread (the kernel runs every runnable
thread) and the assumption that waits do not return by themselves for ever.
Nothing is assumed of clients, of the exit event, or of who gets a mutex that
several threads want. `ThreadSched`: the processor does not stop (weak fairness
of `Continue`) and the timer fires again and again; a signal that becomes pending
while it is blocked is delivered when it is unblocked, which is strong fairness
of `Preempt`. No thread is assumed to make any call. `WebIO`: weak fairness of the
server's and of the client's steps: both processes are run, and a read or write
that can be done returns. Interrupts are finitely many; nothing is assumed of the
user who asks, of a client that goes away, or of the file.

## Proofs

`RequestQueueProofs` proves for every pool, ring size and number of connections:
`TypeCorrect`, `Exclusion`, `WakeupsReach`, `FirstInFirstOut`, `Kept`
(`NothingDropped`) and `ImplementsFifo` (`FifoSpec`). The assumptions are
`ThreadsAssumption` and `SizeAssumption`.

None of the invariants is inductive alone. `NoLostWakeup` needs to know that
between its broadcast and its unlock a thread has the other side awake
(`WakeInv`) and that the counter still is what the loop test saw (`CounterInv`);
both rest on `MutualExclusion`. `FifoOrder` needs the window of the ring between
`rq_end` and `rq_start` to hold the connections that are queued and not yet
taken (`RingInv`), and the thread in between two steps to hold the right one
(`HandInv`). `IInv` is the conjunction; `InductiveStep` has one step per action
and one per group of conjuncts. Moving an index is a remainder in the code and a
subtraction in the invariant (`Wrap`); `NextSlotWraps` connects the two.

`ImplementsFifo` rests on `WaitingIsPending`: under `IInv` the window of the ring
is the stretch of `queued` that is not yet in `taken`. `WorkerAdvance` then is a
`Get` and `MainAdvance` a `Put` of `BoundedFifo`, and every other step leaves
`queued`, `taken` and the counter alone. `Kept` needs that the connections
queued so far are all those accepted but for the one in hand, and that `exiting`
is set only after main has left its loop (`DropInv`).

`FileCacheProofs` proves `TypeCorrect`, `SizeSafe` (`SizeWithinLimit`),
`ListsSafe` (`ListsAgree`), `ServiceSafe` (`ServesItsFile`), `RefCountSafe`
(`RefCountExact`) and `OnceSafe` (`CachedOnce`) for any files, sizes, buckets and
cache limit, and any finite set of threads (`FilesAssumption`,
`ThreadsAssumption`). The threads have to be finite because `refCount` is compared
with the number of threads that hold an element. They depend on each other.
Eviction needs an exact count to know that nobody holds what it removes, the count
needs to know who holds what (`HoldInv`: a thread has an element only while it
sends or is about to release it), and the size is exact only if the list has no
element twice. `IInv` joins them with `CacheOK`, the agreement of list, table,
names and size. `CacheOK` is stated of arbitrary values, so that insertion,
eviction and a move in the LRU order are lemmas about values and each critical
section is a chain of them.

Of the scheduler, `ThreadProofs` proves `TypeCorrect`, `NobodyLostSafe`, `StackSafe`
(`StackLifetime`), `WaitQueueSafe` (`NoOrphanWaiter`), `WaitSafe`
(`WokenWaiterSawExit`) and the action property `OrderKept` (`NeverOvertaken`) for
any number of threads, any wait queues and any subset of the calls
(`MaxThreadsAssumption`, `UserQueuesAssumption`: a wait queue of the program is
not the one inside a thread). The centre of `IInv` is `Placed`: the thread that
runs, the ready list and the wait queues hold every thread that has not exited,
once, with the right status. To keep it, `thread_wakeup` and `thread_exit` must
not bring back a thread that is gone (`AliveExist`, `StackLifetime`), and
`thread_exit` must know whom the queue of a thread holds (`WaitersPlaced`, which
also gives `WokenSawExit`). There is one lemma per way a thread moves between
places (`YieldPlaces`, `CreatePlaces`, `LeavePlaces`, `SleepPlaces`, `WakePlaces`,
`WakeAllPlaces`), again about values, and one step per action that applies them.

Of the locks it proves `LockExclusiveSafe`, `NoLostWakeup`
(`NobodySleepsOnFreeLock`), `NobodyLostUnderLocks` (`NobodyLost`) and `AcquireSafe`
(`AcquireNeverSpins`) for any number of threads, locks and condition variables
(`QueuesAssumption`) and any subset of the calls. `AcquireSafe` has one hypothesis,
that there is one lock; the property itself speaks of the states in which nobody
misused a lock and no holder sleeps in `thread_wait` or in `thread_sleep`,
and without any of the three it is false. `LInv`
adds to the invariant of the scheduler: holders are known to their lock as long
as nobody misuses it (`HoldersKnown`), a lock that is not available is in somebody's
hands (`LockIsHeld`), holders have not exited (`HoldersAlive`), and a thread in the
queue of a lock or condition variable is in the call that put it there, with the
lock it is to take (`SleepersPlaced`, `ToAcquire`).

Of kills it proves `KillSafe` (`SafeKillsDoNoHarm`) for any number of
threads and kills (`MaxKillsAssumption`). `KInv` says that until a kill was unsafe
nothing has crashed and the invariant of the scheduler holds; the step that is
new is `KillPlaces`, the removal of a thread from the middle of the ready list.
A thread that is killed in the ready list may have been put there by the timer;
the mark of that in the model (`irq`) has to go with it, since a thread created
later under its identifier starts with a context of its own.

Of the block maps, `ReadWriteProofs` proves `BlocksTypeCorrect`, `OwnershipSafe`
(`OwnedOnce`), `ReadBackSafe` (`ReadsBack`) and `SizeSafe` (`SizeCoversBlocks`)
for any files, any number of direct blocks and of entries in an index block, and
any size of the disk (`GeometryAssumption`). `Ledger` states the ownership of
blocks of a map from places to blocks, whatever the map is made of; `LedgerTakes`
and `LedgerClears` show that taking fresh blocks for free places and giving back
all the blocks of a file keep it. `MapOf` is the map of a file as its fields and
the index blocks give it. `DirectGrows`, `IndirectGrows` and `DoubleGrows` show
that the assignments of the three kinds of allocation change this map in the new
places only. For that the fresh block must be zeroed (`FreeIsZeroed`), or it would
bring the entries of its former owner along, and no other file may refer to it,
which is `Ledger` again. A removal frees what the walk reaches. It reaches blocks
of the file only (`FreedAreOwned`); if the assertions hold it frees as many as
`block_count` says, hence all of them. That the walk reaches all of them while no
write has failed (`FreedIsAll`, for both versions of the walk) needs `Covered`, no
blocks beyond `i_size`, and `NoEmptyIndex`, no index block without an entry,
because the walk finds index blocks on the way to data. After a failed write
`Covered` is lost, which is the counterexample of `fs_abort`; the ledger is kept
even then.

Of the bytes of a file it proves `DataSafe` (`DataSound`) for any size of a block,
of the largest file and of the disk (`DataAssumption`). `Tiles` says that the
pieces of a range lie one behind the other, one per block, and where they end
(`CutEnd`: without the last block where the read leaves it out); `PiecesTile`
shows it of the first piece, the loop and the last piece of the code. That the
pieces cover each byte of the range once, at the right place of the buffer,
follows from it alone (`TileCover`, `TileByte`). Products with the block size are
hidden behind `Begin`, where a block begins, so that the rest is linear. `DataInv`
adds that bytes which are not zero lie in blocks that exist, since a read takes
the others for holes. `TopLoopIs` gives what the `while` loop of
`src/read_write.c` computes: the closed form `RestOf` satisfies its equation, and
by the least place where they differ there is only one solution.

`TestfsDirProofs` proves `NamesSafe` (`NamesSurvive`) and `AgreementSafe` for any
number of inodes, blocks, names and crashes, any sizes of entries, and wherever
the number stands in an entry (`SizeAssumption`). The first is the
promise of the order of the writes: after a crash at any of them, the names on the
disk are those before or those after the command, or what both have in common and
half of the one entry that the command adds or deletes, which then lies across two
blocks; and no whole entry leads to a free inode. The second says what a command
finds when it begins: the references are those of the current directory and those
that `ls` lost, inodes in memory and the inode map are those of the disk, and no
inode has two names or is named in itself. Crashes are included, except that no
command begins on a spoiled disk, where the statement is false: half a number may
be the number of another inode. These are the parts of `Accounts` that
count nothing up. As in `NamesSurvive`, states after `CreateDamages` are excepted.

`IInv` says that the writes still in `sb.log` lead from the disk to the image that
the process believes in (`Leads`), over images of inode map, inodes and entries
each of which is either whole, `Sound` and with the names before or after
(`Clean`), or `Halved`: it has one entry `Mixed`, and what it shows besides
(`Shows`) is what both have in common. `Sound` is what the next command needs:
every name leads to a marked inode, no two to the same, none to the root or its
own directory; names stand in directories that are themselves named, and these
name themselves and their parent. Without it, a new inode could already have names
in it, `rm` could take away the current directory, and `cd ..` could leave the
tree. There is one lemma per kind of write about the entries that lookups can see
(`HiddenSlot`, `NamedSlot`, `GoneSlot`, `DeadSlot`, `SameNode`, `GrownNode`,
`NewNodeDir`, `EmptyNode`); `DeadSlot` is the first half of a reused entry while
its number is still negative, and `SlotTorn` the first half of one that becomes
`Mixed`. `Goes` and `Reach` add a write to the end of a log, and there is one
lemma per command that follows its writes in their order. After `RmAborts` the
process is gone and `Start` begins from the disk like after any crash.

`WebIOProofs` proves `AnswersSafe` (`AnswersExact`) and `HangupsSafe`
(`OnlyHangupsHurt`) for any set of files and contents, any error pages, any sizes
of buffers and of the wire, and any number of requests and interrupts
(`WebAssumption`). The second says for which reasons the server ends: a client
went away in the middle of a request, a file cannot be opened, or an error page
does not fit; it spins only for the first. `Flow` says
that the line being read, the buffer of the `rio`, the wire and what is left to
write are, one after the other, the rest of a fixed sequence, from the place up to
which the reader has consumed it; a step moves symbols from one part to the next
whatever the number is that a `read` or `write` returns (`Split`). `RequestInv` and
`ReplyInv` state this of the request and of the answer, with what each end has
learnt up to its place (`Learnt`, `Serves`). `Stages` orders the two ends, since
both directions share nothing but that order: the answer is made when the request
has been read. `Overruns` ties the byte beyond the buffer to files with a long
line.

`WarmupProofs` proves `PointsSafe` (`PointsSound`) for any set of coordinates and
`WordsSafe` (`WordsSound`) for any words, buckets, hash function and texts
(`PointsAssumption`, `WordsAssumption`). `PointInv` needs the multiset of the list
to be `held`, which insertion and removal change by one occurrence each (by
bijections between occurrences), and the order of the list as long as no point was
misplaced; `ReturnPrev` is the least place of those where the search can stop, and
removal of duplicates keeps one of each because equal points stand side by side in
a list that is in order. `WordInv` describes the table after any number of runs
(`Table`) and memory by the runs and different words so far. What `wc_destroy`
leaves is counted by bijections: nodes with words, heads with buckets in use,
first runs with words.

Only model-checked:

- liveness under fairness (`QueuedIsTaken`, `MainResumes`, `WokenWorkersExit`,
  `ReadyRuns`, `RequestsEnd`), which is out of reach of the prover;
- `TreeSound`, and of `Accounts` what `AgreementSafe` does not say, in `TestfsDir`.
  `Within` and `PwdFails` follow names through at most `NrInodes` levels, and that
  this is enough is a count over paths; `Held` is a fold over inodes, and what a fold
  computes is induction with an operator as its parameter, which the prover cannot
  instantiate. `TypeOK` there bounds the blocks in use and needs the same sum.

## Not modelled

Texts of messages, options, timing and the random distributions of the clients and
of the generator of the file set; several clients at once in `WebIO` (the queue
has them); destruction of wait queues, locks and condition variables, after which
any use is the caller's mistake; a stack that is freed by the thread that still
runs on it, reads one element past `TotalList` and negative hash values, whose
effect depends on the memory layout; leaks of `struct file_data`; allocation
failures outside `thread_create`. `list.h` is the list of the Linux kernel and
appears as the finite map it implements. What `testfs` does with a disk on which
half an entry was written, or two files share blocks, is not followed. Failures of
`close`, `read` and `malloc` in the server are not modelled. The tests and
examples of `src/threads` were read as the statement of what the library promises.

## Plan

1. Request queue, scheduler, locks, kill, cache, block maps; proofs about the
   request queue (done).
2. File system in bytes, directories, inodes and crashes; requests over the web;
   the warm-up data structures (done).
3. Proofs about the cache, the scheduler, locks, kills and block maps (done).
4. Proofs about requests over the web, the warm-up data structures, the bytes of
   files, and the names and references of `testfs` (done).
5. Left: `TypeOK`, `TreeSound` and the counts of `TestfsDir`, for every size and not
   only those of the run.
