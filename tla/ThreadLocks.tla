----------------------------- MODULE ThreadLocks -----------------------------
(***************************************************************************)
(* The locks and condition variables of threads/thread.c, composed with    *)
(* the scheduler they are built on (ThreadSched).  A lock and a condition  *)
(* variable each own a wait queue, which nobody else can name; the threads *)
(* may sleep in other queues, and wake them, as they like.                 *)
(***************************************************************************)
EXTENDS ThreadSched

CONSTANTS Locks, CVs, NoLock

ASSUME QueuesAssumption ==
    /\ Locks \cap CVs = {} /\ NoLock \notin Locks
    /\ Locks \cup CVs \subseteq UserQueues

VARIABLES avaliable, acquiredID,    \* struct lock
          onLock,                   \* the lock a thread is to acquire on resuming
          hold,                     \* history: locks whose acquire has returned
                                    \* to t and that t has not released
          misused                   \* history: a call was made without the lock

lockVars  == <<avaliable, acquiredID, onLock, hold, misused>>
allVars   == <<vars, lockVars>>

\* lock_create
LInit ==
    /\ Init
    /\ avaliable = [l \in Locks |-> TRUE]
    /\ acquiredID = [l \in Locks |-> NoTid]
    /\ onLock = [t \in Tids |-> NoLock]
    /\ hold = [t \in Tids |-> {}]
    /\ misused = FALSE

-----------------------------------------------------------------------------
(* lock_acquire: while not available, sleep; then take it.  When nobody is *)
(* ready thread_sleep returns at once and the loop turns for ever with the *)
(* interrupts off, which is the last alternative.                          *)

\* Mutants
BlockedAtFirst(l)    == ~avaliable[l] /\ pc[cur] = "user"
NotReleased(l)       == avaliable
NobodyWokenBy(l)     == <<>>

\* The condition of the loop.
Blocked(l) == ~avaliable[l]

\* What lock_acquire leaves in acquiredID.
Acquirer == cur

TryAcquire(l) ==
    \/ /\ ~Blocked(l)
       /\ avaliable' = [avaliable EXCEPT ![l] = FALSE]
       /\ acquiredID' = [acquiredID EXCEPT ![l] = Acquirer]
       /\ hold' = [hold EXCEPT ![cur] = @ \cup {l}]
       /\ onLock' = [onLock EXCEPT ![cur] = NoLock]
       /\ pc' = [pc EXCEPT ![cur] = "user"]
       /\ UNCHANGED <<currentThread, readyList, status, wq>>
    \/ /\ Blocked(l) /\ readyList # <<>>
       /\ SleepIn(l, "acquire")
       /\ onLock' = [onLock EXCEPT ![cur] = l]
       /\ UNCHANGED <<avaliable, acquiredID, hold>>
    \/ /\ Blocked(l) /\ readyList = <<>>
       /\ onLock' = [onLock EXCEPT ![cur] = l]
       /\ pc' = [pc EXCEPT ![cur] = "acquire"]
       /\ UNCHANGED <<currentThread, readyList, status, wq, avaliable,
                      acquiredID, hold>>

\* A thread acquires a lock it does not hold.
lock_acquire(l) ==
    /\ "lock" \in Calls /\ InUser
    /\ l \notin hold[cur]
    /\ TryAcquire(l)
    /\ UNCHANGED <<exist, nextThreadID, stack, hasWqt, arg, irq, enabled,
                   exitSeen, ended, misused>>

\* Back from thread_sleep, in lock_acquire or in cv_wait.
LockResume ==
    /\ ~ended /\ ~irq[cur]
    /\ pc[cur] \in {"acquire", "cvwait"}
    /\ TryAcquire(onLock[cur])
    /\ UNCHANGED <<exist, nextThreadID, stack, hasWqt, arg, irq, enabled,
                   exitSeen, ended, misused>>

\* The current thread calls release, wait, signal or broadcast.  The lock
\* should be in its hands; nothing in the code sees to that.
Uses(l) ==
    /\ "lock" \in Calls /\ InUser
    /\ misused' = (misused \/ l \notin hold[cur])

\* The threads that a release of l wakes.
WokenByRelease(l) == IF avaliable[l] THEN <<>> ELSE wq[l]

Released(l) == [avaliable EXCEPT ![l] = TRUE]

\* lock_release makes the lock available whoever calls it, and wakes everyone
\* in its queue.  acquiredID keeps its value.
lock_release(l) ==
    /\ Uses(l)
    /\ avaliable' = Released(l)
    /\ Wake(l, Len(WokenByRelease(l)))
    /\ hold' = [hold EXCEPT ![cur] = @ \ {l}]
    /\ UNCHANGED <<currentThread, exist, nextThreadID, stack, hasWqt, self,
                   ended, acquiredID, onLock>>

\* cv_wait by the last thread that acquired the lock: release it, wake its
\* waiters and sleep in the queue of the condition variable.
cv_wait_sleep(c, l) ==
    /\ Uses(l)
    /\ acquiredID[l] = cur
    /\ LET rl == readyList \o WokenByRelease(l) IN
       /\ rl # <<>>
       /\ readyList' = Tail(rl)
       /\ currentThread' = Head(rl)
       /\ status' = [t \in Tids |-> IF t = cur THEN Suspended
                                    ELSE IF t = Head(rl) THEN Running
                                    ELSE IF IsIn(t, WokenByRelease(l)) THEN Ready
                                    ELSE status[t]]
    /\ wq' = [wq EXCEPT ![l] = IF avaliable[l] THEN @ ELSE <<>>,
                      ![c] = Append(@, cur)]
    /\ avaliable' = Released(l)
    /\ hold' = [hold EXCEPT ![cur] = @ \ {l}]
    /\ onLock' = [onLock EXCEPT ![cur] = l]
    /\ pc' = [pc EXCEPT ![cur] = "cvwait"]
    /\ UNCHANGED <<exist, nextThreadID, stack, hasWqt, arg, irq, enabled,
                   exitSeen, ended, acquiredID>>

\* cv_wait by another thread, or with nobody to switch to: release the lock,
\* wake its waiters, and take it again at once.
cv_wait_return(c, l) ==
    /\ Uses(l)
    /\ acquiredID[l] # cur \/ readyList \o WokenByRelease(l) = <<>>
    /\ Wake(l, Len(WokenByRelease(l)))
    /\ avaliable' = [avaliable EXCEPT ![l] = FALSE]
    /\ acquiredID' = [acquiredID EXCEPT ![l] = Acquirer]
    /\ hold' = [hold EXCEPT ![cur] = @ \cup {l}]
    /\ UNCHANGED <<currentThread, exist, nextThreadID, stack, hasWqt, self,
                   ended, onLock>>

\* cv_signal and cv_broadcast: the check of acquiredID passes for the last
\* thread that acquired the lock, also when it has released it.
cv_signal(c, l, all) ==
    /\ Uses(l)
    /\ acquiredID[l] = cur
    /\ wq[c] # <<>>
    /\ Wake(c, IF all THEN Len(wq[c]) ELSE 1)
    /\ UNCHANGED <<currentThread, exist, nextThreadID, stack, hasWqt, self,
                   ended, avaliable, acquiredID, onLock, hold>>

-----------------------------------------------------------------------------
(* A thread exits only when it holds no lock.  The calls of thread_sleep    *)
(* and thread_wakeup outside this module are for other queues.             *)

SchedStep ==
    /\ UNCHANGED lockVars
    /\ \/ Continue \/ Preempt \/ Ended
       \/ Call /\ (pc'[cur] = "dead" => hold[cur] = {})
    /\ \A q \in Locks \cup CVs : wq'[q] = wq[q]

LNext ==
    \/ SchedStep
    \/ LockResume
    \/ \E l \in Locks : lock_acquire(l) \/ lock_release(l)
    \/ \E c \in CVs, l \in Locks : cv_wait_sleep(c, l) \/ cv_wait_return(c, l)
    \/ \E c \in CVs, l \in Locks, all \in BOOLEAN : cv_signal(c, l, all)

LSpec == LInit /\ [][LNext]_allVars

-----------------------------------------------------------------------------
(* Properties.                                                             *)

\* As long as only holders release, wait and signal, two threads never hold
\* the same lock, although every release wakes all the waiters and any thread
\* may take the lock before they run; and the lock knows its holder: whoever
\* has come back from lock_acquire or from cv_wait passes the check of cv_wait,
\* cv_signal and cv_broadcast.
LockExclusive ==
    ~misused =>
        /\ \A t, u \in Tids : t # u => hold[t] \cap hold[u] = {}
        /\ \A t \in Tids : \A l \in hold[t] : ~avaliable[l] /\ acquiredID[l] = t

\* No lost wakeup, whoever calls what: nobody sleeps in the queue of a lock
\* that is available.
NobodySleepsOnFreeLock ==
    \A l \in Locks : avaliable[l] => wq[l] = <<>>

\* No thread sleeps in thread_wait or in a queue of its own with a lock in
\* its hands.
HoldersAwake == \A t \in Tids : hold[t] # {} => pc[t] \notin {"sleep", "wait"}

\* With one lock, as long as only holders release and signal, and no holder
\* sleeps in thread_wait or thread_sleep, lock_acquire never turns its loop
\* with nobody else to run: the thread that holds the lock is always able to
\* run.  (Of two locks taken in opposite orders neither holder is.)
AcquireNeverSpins ==
    /\ ~misused /\ HoldersAwake
    /\ pc[cur] = "acquire" /\ ~irq[cur] /\ ~avaliable[onLock[cur]]
    => readyList # <<>>

=============================================================================
