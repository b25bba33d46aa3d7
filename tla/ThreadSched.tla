----------------------------- MODULE ThreadSched -----------------------------
(***************************************************************************)
(* The scheduler of the user-level thread library, threads/thread.c:       *)
(* thread_create, thread_yield, thread_exit, thread_sleep, thread_wakeup   *)
(* and thread_wait over the ready list and the wait queues, and the timer  *)
(* interrupt of threads/interrupt.c, which preempts by thread_yield(ANY).  *)
(*                                                                         *)
(* There is one processor.  A call runs with interrupts off until it       *)
(* returns or switches context, so it is one step up to that point; what   *)
(* it does once its thread is resumed is the next step of that thread.     *)
(* The threads may call anything in any order, within Calls.               *)
(***************************************************************************)
EXTENDS Integers, Sequences, SequencesExt

CONSTANTS MaxThreads,    \* THREAD_MAX_THREADS
          UserQueues,    \* wait queues made by wait_queue_create
          Calls          \* the calls the threads make in this instance

ASSUME MaxThreadsAssumption == MaxThreads \in Nat /\ MaxThreads >= 1

Tids   == 0..MaxThreads-1
NoTid  == -1
Queues == UserQueues \cup Tids   \* queue t is the one at TotalList[t].wqt

ASSUME UserQueuesAssumption == UserQueues \cap Tids = {}

\* struct thread.status
Ready     == 0
Running   == 1
Exited    == 2
Suspended == 3

VARIABLES currentThread,
          readyList,       \* ReadyList .. endOfReady, identifiers in order
          exist, status,   \* fields of TotalList
          nextThreadID,    \* the field, NoTid when no code can read it any more
          stack,           \* has TotalList[t].stack been malloced
          hasWqt,          \* TotalList[t].wqt # NULL
          wq,              \* the threads in each wait queue, in order
          pc,              \* where each thread is in its own code
          arg,             \* the thread its pending yield or wait is about
          irq,             \* is it suspended inside the interrupt handler
          enabled,         \* are interrupts on while it runs its own code
          exitSeen,        \* history: arg has exited since thread_wait began
          ended            \* exit(0) was called

tcb  == <<exist, status, nextThreadID, stack, hasWqt>>
self == <<pc, arg, irq, enabled, exitSeen>>
vars == <<currentThread, readyList, tcb, wq, self, ended>>

\* user: outside the library; start: created, not yet in thread_stub; yield,
\* sleep, wait: suspended in that call; ret: in thread_yield with interrupts
\* on again and the result not yet read; acquire, cvwait: suspended in
\* lock_acquire, in cv_wait (module ThreadLocks); dead: no thread.
PCs == {"user", "start", "yield", "ret", "sleep", "wait", "acquire", "cvwait",
        "dead"}

\* thread_init: thread 0 runs, on the stack of the process.
Init ==
    /\ currentThread = 0
    /\ readyList = <<>>
    /\ exist = [t \in Tids |-> t = 0]
    /\ status = [t \in Tids |-> IF t = 0 THEN Running ELSE Ready]
    /\ nextThreadID = [t \in Tids |-> NoTid]
    /\ stack = [t \in Tids |-> FALSE]
    /\ hasWqt = [t \in Tids |-> FALSE]
    /\ wq = [q \in Queues |-> <<>>]
    /\ pc = [t \in Tids |-> IF t = 0 THEN "user" ELSE "dead"]
    /\ arg = [t \in Tids |-> NoTid]
    /\ irq = [t \in Tids |-> FALSE]
    /\ enabled = [t \in Tids |-> t = 0]
    /\ exitSeen = [t \in Tids |-> FALSE]
    /\ ended = FALSE

-----------------------------------------------------------------------------
(* The ready list and the stacks.  A definition under "Mutants" is what a  *)
(* slip in one that follows it would look like; no action uses it.         *)

cur == currentThread

IsIn(t, s) == \E i \in DOMAIN s : s[i] = t

\* The current thread runs its own code, outside the library.
InUser == ~ended /\ pc[cur] = "user" /\ ~irq[cur]

\* Mutants
NothingReaped(stk, st, ex) == stk
AnyTid                     == Tids \ {0}
FrontOfLine(s)             == <<cur>> \o s
LastPlace                  == Len(readyList)
NobodyWoken                == <<>>
WaitsForAnyone(tid)        == tid # cur
SharedWaitQueue(tid)       == CHOOSE q \in UserQueues : TRUE
SelfCode                   == -2

\* thread_yield frees the stack of every thread that has exited, that of the
\* thread that is on its way out included.
Reaped(stk, st, ex) ==
    [t \in Tids |-> stk[t] /\ ~(st[t] = Exited /\ ~ex[t])]

\* The identifier thread_create gives: the lowest free one from 1 on.
FreeTids == {t \in Tids \ {0} : ~exist[t]}
LowestFree(t) == t \in FreeTids /\ \A u \in FreeTids : t <= u

\* THREAD_ANY is the head of the ready list.
AnyPlace == 1

\* Where the current thread joins the ready list s.  (thread_kill may have
\* marked it as gone, see ThreadKill: then it is not put back.)
BackInLine(s) == IF exist[cur] THEN Append(s, cur) ELSE s

\* thread_yield away from the current thread, to the thread at place i of the
\* ready list.
SwitchTo(i) ==
    LET n == readyList[i] IN
    /\ exist[n]
    /\ readyList' = BackInLine(RemoveAt(readyList, i))
    /\ nextThreadID' = [nextThreadID EXCEPT ![cur] = IF exist[cur] THEN n ELSE @]
    /\ status' = [status EXCEPT ![cur] = Ready, ![n] = Running]
    /\ stack' = Reaped(stack, status, exist)
    /\ currentThread' = n

-----------------------------------------------------------------------------
(* The calls, made by the current thread from its own code.                *)

thread_create ==
    /\ "create" \in Calls /\ InUser
    /\ \E t \in FreeTids :
        /\ LowestFree(t)
        /\ exist' = [exist EXCEPT ![t] = TRUE]
        /\ status' = [status EXCEPT ![t] = Ready]
        /\ nextThreadID' = [nextThreadID EXCEPT ![t] = NoTid]
        /\ hasWqt' = [hasWqt EXCEPT ![t] = FALSE]
        /\ wq' = [wq EXCEPT ![t] = <<>>]
        /\ stack' = [stack EXCEPT ![t] = TRUE]
        /\ readyList' = Append(readyList, t)
        /\ pc' = [pc EXCEPT ![t] = "start"]
    /\ UNCHANGED <<currentThread, arg, irq, enabled, exitSeen, ended>>

\* THREAD_NOMORE is returned without a call of interrupts_set(enabled).
thread_create_nomore ==
    /\ "create_when_full" \in Calls /\ InUser
    /\ FreeTids = {}
    /\ enabled' = [enabled EXCEPT ![cur] = FALSE]
    /\ UNCHANGED <<currentThread, readyList, tcb, wq, pc, arg, irq, exitSeen,
                   ended>>

\* malloc finds no room for the stack: THREAD_NOMEMORY is returned with the
\* slot marked in use and the interrupts off.
thread_create_nomemory ==
    /\ "create_without_memory" \in Calls /\ InUser
    /\ \E t \in FreeTids :
        /\ LowestFree(t)
        /\ exist' = [exist EXCEPT ![t] = TRUE]
        /\ status' = [status EXCEPT ![t] = Ready]
        /\ nextThreadID' = [nextThreadID EXCEPT ![t] = NoTid]
        /\ hasWqt' = [hasWqt EXCEPT ![t] = FALSE]
        /\ wq' = [wq EXCEPT ![t] = <<>>]
        /\ stack' = [stack EXCEPT ![t] = FALSE]
    /\ enabled' = [enabled EXCEPT ![cur] = FALSE]
    /\ UNCHANGED <<currentThread, readyList, pc, arg, irq, exitSeen, ended>>

\* thread_yield(tid), or thread_yield(THREAD_ANY) at AnyPlace.
thread_yield ==
    /\ "yield" \in Calls /\ InUser
    /\ \E i \in DOMAIN readyList :
        /\ SwitchTo(i)
        /\ arg' = [arg EXCEPT ![cur] = readyList[i]]
    /\ pc' = [pc EXCEPT ![cur] = "yield"]
    /\ UNCHANGED <<exist, hasWqt, wq, irq, enabled, exitSeen, ended>>

\* THREAD_SELF stands for the identifier of the caller.
SelfTid == cur

\* thread_yield(THREAD_SELF): onto the end of the ready list and off again.
thread_yield_self ==
    /\ "yield" \in Calls /\ InUser
    /\ exist[cur]
    /\ nextThreadID' = [nextThreadID EXCEPT ![cur] = SelfTid]
    /\ arg' = [arg EXCEPT ![cur] = cur]
    /\ stack' = Reaped(stack, status, exist)
    /\ pc' = [pc EXCEPT ![cur] = "ret"]
    /\ UNCHANGED <<currentThread, readyList, exist, status, hasWqt, wq, irq,
                   enabled, exitSeen, ended>>

\* The threads in the queue of the current one, which thread_exit wakes.
WokenByExit == IF hasWqt[cur] THEN wq[cur] ELSE <<>>

\* thread_exit, by thread_stub after thread_main or by thread 0: wake the
\* waiters, then give the processor to the head of the ready list for good.
thread_exit ==
    /\ "exit" \in Calls /\ InUser
    /\ LET rl == readyList \o WokenByExit
           st == [t \in Tids |-> IF t = cur THEN Exited
                                 ELSE IF IsIn(t, WokenByExit) THEN Ready
                                 ELSE status[t]]
           ex == [exist EXCEPT ![cur] = FALSE]
       IN /\ rl # <<>> /\ ex[Head(rl)]
          /\ readyList' = Tail(rl)
          /\ exist' = ex
          /\ status' = [st EXCEPT ![Head(rl)] = Running]
          /\ stack' = Reaped(stack, st, ex)
          /\ currentThread' = Head(rl)
    /\ hasWqt' = [hasWqt EXCEPT ![cur] = FALSE]
    /\ wq' = [wq EXCEPT ![cur] = <<>>]
    /\ exitSeen' = [t \in Tids |-> exitSeen[t] \/ (pc[t] = "wait" /\ arg[t] = cur)]
    /\ pc' = [pc EXCEPT ![cur] = "dead"]
    /\ enabled' = [enabled EXCEPT ![cur] = FALSE]
    /\ UNCHANGED <<nextThreadID, arg, irq, ended>>

\* Where thread_exit can return to when nobody is left: the caller's own code,
\* or thread_stub, which then ends the process.  Thread 0 has no thread_stub.
EndsProcess == {FALSE, cur # 0}

\* Nobody is left to run: thread_exit wakes nobody and returns THREAD_NONE.
thread_exit_last ==
    /\ "exit" \in Calls /\ InUser
    /\ readyList \o WokenByExit = <<>>
    /\ hasWqt' = [hasWqt EXCEPT ![cur] = FALSE]
    /\ wq' = [wq EXCEPT ![cur] = <<>>]
    /\ ended' \in EndsProcess
    /\ UNCHANGED <<currentThread, readyList, exist, status, nextThreadID, stack,
                   self>>

\* Suspend the current thread in queue q and run the head of the ready list.
SleepIn(q, label) ==
    /\ readyList # <<>>
    /\ wq' = [wq EXCEPT ![q] = Append(@, cur)]
    /\ status' = [status EXCEPT ![cur] = Suspended, ![Head(readyList)] = Running]
    /\ readyList' = Tail(readyList)
    /\ currentThread' = Head(readyList)
    /\ pc' = [pc EXCEPT ![cur] = label]

\* thread_sleep does nothing and returns THREAD_NONE when nobody is ready.
thread_sleep(q) ==
    /\ "sleep" \in Calls /\ InUser
    /\ SleepIn(q, "sleep")
    /\ UNCHANGED <<exist, nextThreadID, stack, hasWqt, arg, irq, enabled,
                   exitSeen, ended>>

\* Move the first n threads of queue q to the end of the ready list.
Wake(q, n) ==
    /\ readyList' = readyList \o SubSeq(wq[q], 1, n)
    /\ wq' = [wq EXCEPT ![q] = SubSeq(@, n + 1, Len(@))]
    /\ status' = [t \in Tids |->
                    IF IsIn(t, SubSeq(wq[q], 1, n)) THEN Ready ELSE status[t]]

\* thread_wakeup(q, all)
thread_wakeup(q, all) ==
    /\ "wakeup" \in Calls /\ InUser
    /\ wq[q] # <<>>
    /\ Wake(q, IF all THEN Len(wq[q]) ELSE 1)
    /\ UNCHANGED <<currentThread, exist, nextThreadID, stack, hasWqt, self, ended>>

\* thread_wait refuses the caller and what is no thread.
CanWaitFor(tid) == tid # cur /\ exist[tid]

\* TotalList[tid].wqt
WaitQueueOf(tid) == tid

\* thread_wait(tid): sleep in the queue of tid, which is made if needed.  The
\* result of thread_sleep is not looked at: when it is THREAD_NONE, the
\* caller goes on to return tid.
thread_wait(tid) ==
    /\ "wait" \in Calls /\ InUser
    /\ CanWaitFor(tid)
    /\ hasWqt' = [hasWqt EXCEPT ![tid] = TRUE]
    /\ arg' = [arg EXCEPT ![cur] = tid]
    /\ exitSeen' = [exitSeen EXCEPT ![cur] = FALSE]
    /\ IF readyList # <<>>
       THEN SleepIn(WaitQueueOf(tid), "wait")
       ELSE /\ pc' = [pc EXCEPT ![cur] = "wait"]
            /\ UNCHANGED <<wq, status, readyList, currentThread>>
    /\ UNCHANGED <<exist, nextThreadID, stack, irq, enabled, ended>>

-----------------------------------------------------------------------------
(* What a thread does when it is resumed.                                  *)

\* From here to "user" in one step: thread_stub turns interrupts on and calls
\* thread_main; thread_sleep and thread_wait restore them and return.
Resume ==
    /\ ~ended /\ ~irq[cur]
    /\ pc[cur] \in {"start", "sleep", "wait"}
    /\ pc' = [pc EXCEPT ![cur] = "user"]
    /\ enabled' = [enabled EXCEPT ![cur] = @ \/ pc[cur] = "start"]
    /\ arg' = [arg EXCEPT ![cur] = NoTid]
    /\ exitSeen' = [exitSeen EXCEPT ![cur] = FALSE]
    /\ UNCHANGED <<currentThread, readyList, tcb, wq, irq, ended>>

\* thread_yield restores the interrupts ...
YieldResume ==
    /\ ~ended /\ ~irq[cur]
    /\ pc[cur] = "yield"
    /\ pc' = [pc EXCEPT ![cur] = "ret"]
    /\ UNCHANGED <<currentThread, readyList, tcb, wq, arg, irq, enabled,
                   exitSeen, ended>>

\* ... and only then reads TotalList[currentThread].nextThreadID for its result.
YieldReturn ==
    /\ ~ended /\ ~irq[cur]
    /\ pc[cur] = "ret"
    /\ pc' = [pc EXCEPT ![cur] = "user"]
    /\ arg' = [arg EXCEPT ![cur] = NoTid]
    /\ nextThreadID' = [nextThreadID EXCEPT ![cur] = NoTid]
    /\ UNCHANGED <<currentThread, readyList, exist, status, stack, hasWqt, wq,
                   irq, enabled, exitSeen, ended>>

-----------------------------------------------------------------------------
(* The timer.                                                              *)

\* interrupt_handler calls thread_yield(THREAD_ANY) on top of the thread.
Preempt ==
    /\ ~ended /\ ~irq[cur]
    /\ pc[cur] \in {"user", "ret"} /\ enabled[cur]
    /\ readyList # <<>>
    /\ SwitchTo(AnyPlace)
    /\ irq' = [irq EXCEPT ![cur] = TRUE]
    /\ UNCHANGED <<exist, hasWqt, wq, pc, arg, enabled, exitSeen, ended>>

\* The handler of a resumed thread returns to the interrupted code.
IrqReturn ==
    /\ ~ended /\ irq[cur]
    /\ irq' = [irq EXCEPT ![cur] = FALSE]
    /\ nextThreadID' = [nextThreadID EXCEPT ![cur] =
                            IF pc[cur] = "ret" THEN @ ELSE NoTid]
    /\ UNCHANGED <<currentThread, readyList, exist, status, stack, hasWqt, wq,
                   pc, arg, enabled, exitSeen, ended>>

\* The process is gone.
Ended == ended /\ UNCHANGED vars

Call ==
    \/ thread_create \/ thread_create_nomore \/ thread_create_nomemory
    \/ thread_yield \/ thread_yield_self
    \/ thread_exit \/ thread_exit_last
    \/ \E q \in UserQueues : thread_sleep(q)
    \/ \E q \in UserQueues, all \in BOOLEAN : thread_wakeup(q, all)
    \/ \E tid \in Tids : thread_wait(tid)

Continue == Resume \/ YieldResume \/ YieldReturn \/ IrqReturn

Next == Call \/ Continue \/ Preempt \/ Ended

Spec == Init /\ [][Next]_vars

\* The processor does not stop, and a timer signal that becomes pending while
\* it is blocked is delivered when it is unblocked.  No thread has to make a
\* call.
Fairness == WF_vars(Continue) /\ SF_vars(Preempt)

FairSpec == Spec /\ Fairness

-----------------------------------------------------------------------------
(* Properties.                                                             *)

\* Every variable has its type.  In particular, when thread_yield comes to
\* read the field that it returns, after any preemption, it finds the
\* identifier of a thread there and no control code such as THREAD_ANY.
TypeOK ==
    /\ currentThread \in Tids
    /\ readyList \in Seq(Tids)
    /\ exist \in [Tids -> BOOLEAN]
    /\ status \in [Tids -> {Ready, Running, Exited, Suspended}]
    /\ nextThreadID \in [Tids -> Tids \cup {NoTid}]
    /\ \A t \in Tids : pc[t] = "ret" => nextThreadID[t] \in Tids
    /\ stack \in [Tids -> BOOLEAN]
    /\ hasWqt \in [Tids -> BOOLEAN]
    /\ wq \in [Queues -> Seq(Tids)]
    /\ pc \in [Tids -> PCs]
    /\ arg \in [Tids -> Tids \cup {NoTid}]
    /\ irq \in [Tids -> BOOLEAN]
    /\ enabled \in [Tids -> BOOLEAN]
    /\ exitSeen \in [Tids -> BOOLEAN]
    /\ ended \in BOOLEAN

\* A thread stands at most once in the ready list or in one wait queue,
\* whatever was created, woken, preempted and reused, and its status field
\* says which.
OnePlace ==
    /\ \A i, j \in DOMAIN readyList : readyList[i] = readyList[j] => i = j
    /\ \A q, r \in Queues : \A i \in DOMAIN wq[q], j \in DOMAIN wq[r] :
            wq[q][i] = wq[r][j] => q = r /\ i = j
    /\ status[cur] = Running
    /\ \A i \in DOMAIN readyList : status[readyList[i]] = Ready
    /\ \A q \in Queues : \A i \in DOMAIN wq[q] : status[wq[q][i]] = Suspended

\* No thread is lost or doubled: one that has been created and has not exited
\* runs, is ready, or is in a wait queue, so that something can still resume
\* it; only such threads are in those places, and each in one.
NobodyLost ==
    /\ OnePlace
    /\ \A t \in Tids :
          pc[t] # "dead" <=>
              t = cur \/ IsIn(t, readyList) \/ \E q \in Queues : IsIn(t, wq[q])

\* A thread that may still run has the stack that thread_create gave it, and
\* thread_yield's search for exited threads leaves none behind.
StackLifetime ==
    \A t \in Tids \ {0} : stack[t] <=> pc[t] # "dead"

\* Every thread in the queue of a thread waits for one that is still there:
\* thread_exit leaves nobody behind when it frees the queue.
NoOrphanWaiter ==
    \A t \in Tids : wq[t] # <<>> => exist[t] /\ hasWqt[t]

\* A thread that went to sleep in thread_wait becomes ready only after the
\* thread it waits for has exited.
WokenWaiterSawExit ==
    \A i \in DOMAIN readyList :
        pc[readyList[i]] = "wait" => exitSeen[readyList[i]]

\* A thread in the ready list is never overtaken by one that was behind it or
\* that joins later: its place only moves towards the head.
NeverOvertaken ==
    [][\A i \in DOMAIN readyList, j \in DOMAIN readyList' :
            readyList[i] = readyList'[j] => j <= i]_vars

\* A thread runs its own code with the interrupts off.  A new thread turns
\* them on before it gets there; a thread_create that failed leaves them off.
LeftOff == InUser /\ ~enabled[cur]

\* Every ready thread gets the processor, whatever the other threads call,
\* unless a thread whose thread_create failed goes on with the interrupts off.
ReadyRuns ==
    \A t \in Tids :
        IsIn(t, readyList) ~> (currentThread = t \/ ended \/ LeftOff)

=============================================================================
