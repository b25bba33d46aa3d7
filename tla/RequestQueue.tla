---------------------------- MODULE RequestQueue ----------------------------
(***************************************************************************)
(* The request queue and worker pool of webserver/server_thread.c, driven  *)
(* by the poll loop of webserver/server.c.  The main thread accepts        *)
(* connections and puts them in the ring sv->rq; the worker threads take   *)
(* them out and run do_server_request.  Both sides share one mutex (lock)  *)
(* and two condition variables (full, empty).                              *)
(*                                                                         *)
(* A step is what a thread does between two points where another thread    *)
(* can observe or disturb it, were the mutex not there: taking the mutex,  *)
(* testing the loop condition, touching the slot, moving the index.  That  *)
(* the critical sections exclude each other is a result, not an            *)
(* assumption.  do_server_request is one step here (see FileCache); with    *)
(* nr_threads = 0 server_request is a call of it and there is no queue.    *)
(***************************************************************************)
EXTENDS Integers, Sequences, FiniteSets

CONSTANTS Workers,       \* the nr_threads pool threads (the array sv->wq)
          Main,          \* the thread that runs main()
          None,          \* no thread
          MaxRequests,   \* sv->max_requests
          MaxConns       \* bound: connections accepted in one behaviour

ASSUME ThreadsAssumption == Main \notin Workers /\ None \notin Workers \cup {Main}
ASSUME PoolAssumption    == Workers # {}
ASSUME SizeAssumption    == MaxRequests \in Nat /\ MaxConns \in Nat

Threads == Workers \cup {Main}
Conns   == 1..MaxConns       \* connections, numbered as accept returns them
NoConn  == 0
Slots   == 0..MaxRequests-1

VARIABLES lock,              \* owner of the mutex, or None
          pc,                \* where each thread is
          rq,                \* sv->rq
          rq_start, rq_end, request_counter,
          exiting,           \* sv->exiting
          connfd,            \* main's connfd: the last connection accepted
          connfn,            \* each worker's connfn
          queued,            \* history: connections put in the ring, in order
          taken,             \* history: connections taken out, in order
          served             \* history: connections whose request was done

ring == <<rq, rq_start, rq_end, request_counter>>
hist == <<queued, taken, served>>
vars == <<lock, pc, ring, exiting, connfd, connfn, hist>>

WorkerPCs == {"none", "lock", "test", "wait", "woken", "check", "read",
              "advance", "serve", "done"}
MainPCs   == {"init", "poll", "lock", "test", "wait", "woken",
              "check", "put", "advance", "exit", "stop", "join", "done"}

\* Points at which the code of each side holds the mutex.
WorkerHolds == {"test", "check", "read", "advance"}
MainHolds   == {"init", "test", "check", "put", "advance", "stop"}

\* server_init: the ring is empty; main holds the mutex while it creates the
\* pool.  The contents of sv->rq are never read before they are written.
Init ==
    /\ lock = Main
    /\ pc = [t \in Threads |-> IF t = Main THEN "init" ELSE "none"]
    /\ rq = [i \in Slots |-> NoConn]
    /\ rq_start = 0 /\ rq_end = 0 /\ request_counter = 0
    /\ exiting = FALSE
    /\ connfd = NoConn
    /\ connfn = [w \in Workers |-> NoConn]
    /\ queued = <<>> /\ taken = <<>> /\ served = {}

-----------------------------------------------------------------------------
(* The conditions of the code.  A definition under "Mutants" is what a slip *)
(* in the definition that follows it would look like; no action uses it.   *)

Goto(t, label) == pc' = [pc EXCEPT ![t] = label]

\* Mutants
NoWaiters         == {}
LockGivenUp       ==
    /\ pc[Main] = "check"
    /\ Goto(Main, "poll") /\ lock' = None
    /\ UNCHANGED <<ring, exiting, connfd, connfn, hist>>
NextSlotOff(i)    == (i + 1) % (MaxRequests + 1)
FullOneTooLate    == request_counter = MaxRequests + 1
MutexIgnored      == TRUE
NeverExiting(w)   ==
    /\ pc[w] = "check"
    /\ Goto(w, "test")
    /\ UNCHANGED <<lock, ring, exiting, connfd, connfn, hist>>

\* The ring has no free slot, no request.
RingFull  == request_counter = MaxRequests
RingEmpty == request_counter = 0

\* Index i moved by one.
NextSlot(i) == (i + 1) % MaxRequests

\* Who pthread_cond_broadcast(&full) and (&empty) wake.  A worker broadcasts
\* before it counts down, main before it counts up.
FullBroadcast  == IF RingFull  THEN {Main}  ELSE {}
EmptyBroadcast == IF RingEmpty THEN Workers ELSE {}

AllJoined == \A w \in Workers : pc[w] = "done"

MutexFree == lock = None

-----------------------------------------------------------------------------
(* The mutex and the condition variables (pthreads).                       *)

\* Waiting threads of ts become runnable; each has to take the mutex again.
\* The waiters of empty are the workers at "wait", main is the one of full.
GotoAndWake(t, label, ts) ==
    pc' = [u \in Threads |-> IF u = t THEN label
                             ELSE IF u \in ts /\ pc[u] = "wait" THEN "woken"
                             ELSE pc[u]]

\* pthread_mutex_lock at the head of a critical section.
Acquire(t, from, to) ==
    /\ pc[t] = from
    /\ MutexFree
    /\ lock' = t
    /\ Goto(t, to)
    /\ UNCHANGED <<ring, exiting, connfd, connfn, hist>>

\* pthread_cond_wait may return although nobody signalled.
SpuriousWakeup(t) ==
    /\ pc[t] = "wait"
    /\ Goto(t, "woken")
    /\ UNCHANGED <<lock, ring, exiting, connfd, connfn, hist>>

-----------------------------------------------------------------------------
(* start_thread: the loop of a worker.                                     *)

WorkerLock(w)   == Acquire(w, "lock", "test")
WorkerRelock(w) == Acquire(w, "woken", "check")

\* while (request_counter == 0) pthread_cond_wait(&empty, &lock);
WorkerTest(w) ==
    /\ pc[w] = "test"
    /\ IF RingEmpty
       THEN Goto(w, "wait") /\ lock' = None
       ELSE Goto(w, "read") /\ UNCHANGED lock
    /\ UNCHANGED <<ring, exiting, connfd, connfn, hist>>

\* After every return of pthread_cond_wait, and only there, exiting is read.
WorkerCheckExit(w) ==
    /\ pc[w] = "check"
    /\ IF exiting
       THEN Goto(w, "done") /\ lock' = None
       ELSE Goto(w, "test") /\ UNCHANGED lock
    /\ UNCHANGED <<ring, exiting, connfd, connfn, hist>>

\* connfn = rq[rq_end]; if the ring is full, broadcast full.
WorkerRead(w) ==
    /\ pc[w] = "read"
    /\ connfn' = [connfn EXCEPT ![w] = rq[rq_end]]
    /\ GotoAndWake(w, "advance", FullBroadcast)
    /\ UNCHANGED <<lock, ring, exiting, connfd, hist>>

\* Move rq_end, count down, unlock.
WorkerAdvance(w) ==
    /\ pc[w] = "advance"
    /\ rq_end' = NextSlot(rq_end)
    /\ request_counter' = request_counter - 1
    /\ taken' = Append(taken, connfn[w])
    /\ lock' = None
    /\ Goto(w, "serve")
    /\ UNCHANGED <<rq, rq_start, exiting, connfd, connfn, queued, served>>

\* do_server_request(sv, connfn), outside the mutex.
WorkerServe(w) ==
    /\ pc[w] = "serve"
    /\ served' = served \cup {connfn[w]}
    /\ Goto(w, "lock")
    /\ UNCHANGED <<lock, ring, exiting, connfd, connfn, queued, taken>>

WorkerStep(w) ==
    \/ WorkerLock(w) \/ WorkerRelock(w) \/ WorkerTest(w) \/ WorkerCheckExit(w)
    \/ WorkerRead(w) \/ WorkerAdvance(w) \/ WorkerServe(w)

-----------------------------------------------------------------------------
(* main, server_init, server_request and server_exit.                      *)

\* One round of the pthread_create loop.  The new thread may run at once.
CreateWorker(w) ==
    /\ pc[Main] = "init"
    /\ pc[w] = "none"
    /\ Goto(w, "lock")
    /\ UNCHANGED <<lock, ring, exiting, connfd, connfn, hist>>

InitDone ==
    /\ pc[Main] = "init"
    /\ \A w \in Workers : pc[w] # "none"
    /\ lock' = None
    /\ Goto(Main, "poll")
    /\ UNCHANGED <<ring, exiting, connfd, connfn, hist>>

\* poll reports a connection: accept it and call server_request.
Accept ==
    /\ pc[Main] = "poll"
    /\ connfd < MaxConns
    /\ connfd' = connfd + 1
    /\ Goto(Main, "lock")
    /\ UNCHANGED <<lock, ring, exiting, connfn, hist>>

MainLock   == Acquire(Main, "lock", "test")
MainRelock == Acquire(Main, "woken", "check")

\* while (request_counter == sv->max_requests) pthread_cond_wait(&full, &lock);
MainTest ==
    /\ pc[Main] = "test"
    /\ IF RingFull
       THEN Goto(Main, "wait") /\ lock' = None
       ELSE Goto(Main, "put") /\ UNCHANGED lock
    /\ UNCHANGED <<ring, exiting, connfd, connfn, hist>>

MainCheckExit ==
    /\ pc[Main] = "check"
    /\ IF exiting
       THEN Goto(Main, "poll") /\ lock' = None
       ELSE Goto(Main, "test") /\ UNCHANGED lock
    /\ UNCHANGED <<ring, exiting, connfd, connfn, hist>>

\* rq[rq_start] = connfd; if the ring was empty, broadcast empty.
MainPut ==
    /\ pc[Main] = "put"
    /\ rq' = [rq EXCEPT ![rq_start] = connfd]
    /\ GotoAndWake(Main, "advance", EmptyBroadcast)
    /\ UNCHANGED <<lock, rq_start, rq_end, request_counter, exiting, connfd,
                   connfn, hist>>

\* Move rq_start, count up, unlock.
MainAdvance ==
    /\ pc[Main] = "advance"
    /\ rq_start' = NextSlot(rq_start)
    /\ request_counter' = request_counter + 1
    /\ queued' = Append(queued, connfd)
    /\ lock' = None
    /\ Goto(Main, "poll")
    /\ UNCHANGED <<rq, rq_end, exiting, connfd, connfn, taken, served>>

\* poll reports the exit event: main leaves the loop and calls server_exit.
ExitEvent ==
    /\ pc[Main] = "poll"
    /\ Goto(Main, "exit")
    /\ UNCHANGED <<lock, ring, exiting, connfd, connfn, hist>>

ExitLock == Acquire(Main, "exit", "stop")

\* exiting = 1; broadcast empty; unlock.
ExitStop ==
    /\ pc[Main] = "stop"
    /\ exiting' = TRUE
    /\ GotoAndWake(Main, "join", Workers)
    /\ lock' = None
    /\ UNCHANGED <<ring, connfd, connfn, hist>>

\* pthread_join every worker, then free wq, rq and sv.
ExitJoin ==
    /\ pc[Main] = "join"
    /\ AllJoined
    /\ Goto(Main, "done")
    /\ UNCHANGED <<lock, ring, exiting, connfd, connfn, hist>>

MainStep ==
    \/ (\E w \in Workers : CreateWorker(w)) \/ InitDone
    \/ MainLock \/ MainRelock \/ MainTest \/ MainCheckExit
    \/ MainPut \/ MainAdvance \/ ExitLock \/ ExitStop \/ ExitJoin

\* The environment: clients connect, the exit fifo is written, waits return
\* by themselves.
EnvStep == Accept \/ ExitEvent \/ \E t \in Threads : SpuriousWakeup(t)

\* The process has ended.
Terminated == pc[Main] = "done" /\ UNCHANGED vars

Next == MainStep \/ EnvStep \/ Terminated \/ \E w \in Workers : WorkerStep(w)

Spec == Init /\ [][Next]_vars

\* A thread that can run is eventually run, and waits do not return by
\* themselves for ever.  Nothing is assumed of clients, of the exit event, or
\* of who gets a free mutex when several threads want it.
Fairness ==
    /\ WF_vars(MainStep)
    /\ \A w \in Workers : WF_vars(WorkerStep(w))
    /\ <>[][\A t \in Threads : ~SpuriousWakeup(t)]_vars

FairSpec == Spec /\ Fairness

-----------------------------------------------------------------------------
(* Properties.                                                             *)

\* Every variable has its type: the counter and both indices stay inside the
\* ring whatever the interleaving.
TypeOK ==
    /\ lock \in Threads \cup {None}
    /\ pc \in [Threads -> WorkerPCs \cup MainPCs]
    /\ pc[Main] \in MainPCs /\ \A w \in Workers : pc[w] \in WorkerPCs
    /\ rq \in [Slots -> Conns \cup {NoConn}]
    /\ rq_start \in Nat /\ rq_end \in Nat
    /\ MaxRequests > 0 => rq_start \in Slots /\ rq_end \in Slots
    /\ request_counter \in 0..MaxRequests
    /\ exiting \in BOOLEAN
    /\ connfd \in Conns \cup {NoConn}
    /\ connfn \in [Workers -> Conns \cup {NoConn}]
    /\ queued \in Seq(Conns) /\ taken \in Seq(Conns)
    /\ served \subseteq Conns

\* A thread is inside a critical section exactly when it owns the mutex, so
\* no two threads are: the ring is never touched by two threads at once, even
\* though pthread_cond_wait gives the mutex up in the middle of both loops.
MutualExclusion ==
    \A t \in Threads :
        lock = t <=> pc[t] \in (IF t = Main THEN MainHolds ELSE WorkerHolds)

\* No wakeup is lost: a worker sleeps on empty only while the ring is empty,
\* and main sleeps on full only while it is full, although the broadcasts are
\* sent only when the counter is seen at 0 and at max_requests.
NoLostWakeup ==
    /\ \A w \in Workers : pc[w] = "wait" => request_counter = 0
    /\ pc[Main] = "wait" => request_counter = MaxRequests

\* Workers take the connections in the order in which server_request put
\* them in: none is overwritten in the ring, skipped, or taken twice, and the
\* counter is the number still waiting.
FifoOrder ==
    /\ Len(queued) = Len(taken) + request_counter
    /\ \A i \in 1..Len(taken) : taken[i] = queued[i]

\* No accepted connection is forgotten: it was put in the ring, or is still in
\* main's hands.  In particular the early return of server_request
\* on exiting, which would drop one, is never taken.
NothingDropped ==
    \A c \in 1..connfd :
        \/ \E i \in DOMAIN queued : queued[i] = c
        \/ c = connfd /\ pc[Main] \in {"lock", "test", "wait", "woken", "check", "put", "advance"}

\* The connections in the ring, oldest first.
Waiting == [i \in 1..request_counter |-> rq[(rq_end + i - 1) % MaxRequests]]

Fifo == INSTANCE BoundedFifo WITH Capacity <- MaxRequests,
                                  queue <- Waiting, delivered <- taken

\* The ring with its indices and counter implements a bounded FIFO queue.
FifoSpec == Fifo!Spec

\* While the server runs, a connection put in the ring is taken by a worker.
QueuedIsTaken ==
    \A c \in Conns : (\E i \in DOMAIN queued : queued[i] = c)
                        ~> (exiting \/ \E i \in DOMAIN taken : taken[i] = c)

\* Main, asleep in server_request on a full ring, gets to queue its request.
MainResumes == (pc[Main] = "wait") ~> (pc[Main] = "poll")

\* A worker that was asleep when server_exit broadcast returns.
WokenWorkersExit ==
    \A w \in Workers : (exiting /\ pc[w] = "woken") ~> (pc[w] = "done")

\* What server_exit is there for: after it has set exiting, every worker
\* exits and the joins return.
ShutdownCompletes == exiting ~> (pc[Main] = "done")

=============================================================================
