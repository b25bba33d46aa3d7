----------------------------- MODULE ThreadKill -----------------------------
(***************************************************************************)
(* thread_kill of threads/thread.c, composed with the scheduler.  A kill   *)
(* that finds its target in the ready list and whose caller was never      *)
(* waited for takes the target out at once.  Every other kill goes wrong   *)
(* in one of the ways modelled here, at once or when a later call meets    *)
(* the thread that is marked as gone and still in a list.                  *)
(***************************************************************************)
EXTENDS ThreadSched

CONSTANT MaxKills      \* bound: calls of thread_kill in one behaviour

ASSUME MaxKillsAssumption == MaxKills \in Nat

VARIABLES crashed,     \* how the process died: "no", "null" or "recursion"
          killed,      \* history: threads whose kill returned their identifier
          kills,       \* number of kills so far
          unsafe       \* history: some kill was not as described above

killVars == <<crashed, killed, kills, unsafe>>
kVars    == <<vars, killVars>>

KInit == Init /\ crashed = "no" /\ killed = {} /\ kills = 0 /\ unsafe = FALSE

\* The one use of thread_kill that the lists can bear.
SafeKill(tid) == IsIn(tid, readyList) /\ ~hasWqt[cur] /\ ~hasWqt[tid]

MayKill == "kill" \in Calls /\ crashed = "no" /\ InUser /\ kills < MaxKills

\* Common to every kill that returns.
KillReturns(tid, victims) ==
    /\ crashed' = "no"
    /\ kills' = kills + 1
    /\ unsafe' = (unsafe \/ ~SafeKill(tid))
    /\ killed' = killed \cup victims
    /\ UNCHANGED <<currentThread, nextThreadID, hasWqt, wq, status, arg, enabled,
                   exitSeen, ended>>

\* The search tests ReadyList and not its own iterator: when the thread is
\* not in a list that is not empty it runs off the end.
kill_off_the_end(tid) ==
    /\ MayKill
    /\ readyList # <<>> /\ ~IsIn(tid, readyList)
    /\ crashed' = "null"
    /\ kills' = kills + 1
    /\ unsafe' = TRUE
    /\ UNCHANGED <<vars, killed>>

\* Mutant
LeftInList(i) == readyList

\* deleteNode
TakenOut(i) == RemoveAt(readyList, i)

\* Found, and nobody has waited for the caller: free its stack, with whatever
\* call or handler it was suspended in, and take it out.
kill_ready(tid) ==
    /\ MayKill /\ ~hasWqt[cur]
    /\ \E i \in DOMAIN readyList :
        /\ readyList[i] = tid
        /\ readyList' = TakenOut(i)
    /\ exist' = [exist EXCEPT ![tid] = FALSE]
    /\ stack' = [stack EXCEPT ![tid] = FALSE]
    /\ pc' = [pc EXCEPT ![tid] = "dead"]
    /\ irq' = [irq EXCEPT ![tid] = FALSE]
    /\ KillReturns(tid, {tid})

\* Somebody has waited for the caller: the thread is marked as gone, if it is
\* in the ready list or in the queue of the caller, and left where it is.  The
\* result is tid in the second case and THREAD_INVALID otherwise.
kill_marked(tid) ==
    /\ MayKill /\ hasWqt[cur]
    /\ readyList = <<>> \/ IsIn(tid, readyList)
    /\ IsIn(tid, readyList) \/ IsIn(tid, wq[cur])
    /\ exist' = [exist EXCEPT ![tid] = FALSE]
    /\ KillReturns(tid, IF IsIn(tid, wq[cur]) THEN {tid} ELSE {})
    /\ UNCHANGED <<readyList, stack, pc, irq>>

\* thread_yield(ANY), the timer or thread_exit come upon a head of the ready
\* list that is marked as gone: thread_yield calls thread_exit on its behalf,
\* which yields to the head of the list, the same thread again, and so on
\* without end.
endless_exit ==
    /\ crashed = "no" /\ ~ended /\ ~irq[cur]
    /\ \E rl \in {readyList} \cup (IF InUser THEN {readyList \o WokenByExit} ELSE {}) :
            rl # <<>> /\ ~exist[Head(rl)]
    /\ pc[cur] = "user" \/ (pc[cur] = "ret" /\ enabled[cur])
    /\ crashed' = "recursion"
    /\ UNCHANGED <<vars, killed, kills, unsafe>>

Listed(t) == t = cur \/ IsIn(t, readyList) \/ \E q \in Queues : IsIn(t, wq[q])

\* A step of the scheduler.  Not modelled: what becomes of a slot that is
\* given to a new thread while the marked one still runs or is in a list, and
\* a thread_yield that names a marked thread, itself included.
SchedulerStep ==
    /\ crashed = "no"
    /\ Next
    /\ \A t \in Tids : exist'[t] /\ ~exist[t] => ~Listed(t)
    /\ killed' = {t \in killed : ~exist'[t]}
    /\ UNCHANGED <<crashed, kills, unsafe>>

Crashed == crashed # "no" /\ UNCHANGED kVars

KNext ==
    \/ SchedulerStep \/ endless_exit \/ Crashed
    \/ \E tid \in Tids \cup {NoTid} : kill_off_the_end(tid)
    \/ \E tid \in Tids : kill_ready(tid) \/ kill_marked(tid)

KSpec == KInit /\ [][KNext]_kVars

-----------------------------------------------------------------------------
(* Properties.                                                             *)

\* As long as every kill finds its target in the ready list, and neither the
\* caller nor the target has been waited for, killing does no harm: nothing
\* crashes, the lists stay sound, no stack is lost or freed too early, and no
\* waiter is left behind.
SafeKillsDoNoHarm ==
    ~unsafe => /\ crashed = "no" /\ exist[cur]
               /\ NobodyLost /\ StackLifetime /\ NoOrphanWaiter

\* thread.h: a thread that was killed does not run any further.
KilledNeverRuns == currentThread \notin killed

=============================================================================
