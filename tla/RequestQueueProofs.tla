------------------------- MODULE RequestQueueProofs -------------------------
(***************************************************************************)
(* The safety of the request queue for any pool, any ring size and any     *)
(* number of connections.                                                  *)
(***************************************************************************)
EXTENDS RequestQueue, SequenceTheorems, TLAPS

\* A slot number i places after slot b, for i no larger than the ring.
Wrap(x) == IF x < MaxRequests THEN x ELSE x - MaxRequests

\* Inside a critical section the counter still is what the loop test saw.
CounterInv ==
    /\ \A w \in Workers : pc[w] \in {"read", "advance"} => request_counter > 0
    /\ pc[Main] \in {"put", "advance"} => request_counter < MaxRequests

\* Between its broadcast and its unlock a thread has the other side awake.
WakeInv ==
    /\ \A w \in Workers : pc[w] = "advance" => pc[Main] # "wait"
    /\ pc[Main] = "advance" => \A w \in Workers : pc[w] # "wait"

\* What a thread holds between the two steps that touch the ring.
HandInv ==
    /\ \A w \in Workers : pc[w] = "advance" => connfn[w] = rq[rq_end]
    /\ \A w \in Workers : pc[w] = "serve" => connfn[w] \in Conns
    /\ pc[Main] = "advance" => rq[rq_start] = connfd
    /\ pc[Main] \in MainPCs \ {"init", "poll", "exit", "stop", "join", "done"}
           => connfd \in Conns

\* The window of request_counter slots from rq_end on holds, in order, the
\* connections that were queued and not yet taken, and rq_start follows it.
RingInv ==
    MaxRequests > 0 =>
      /\ rq_start = Wrap(rq_end + request_counter)
      /\ \A i \in 0..request_counter-1 :
            rq[Wrap(rq_end + i)] = queued[Len(taken) + 1 + i]

IInv == /\ TypeOK /\ MutualExclusion /\ NoLostWakeup
        /\ FifoOrder /\ CounterInv /\ WakeInv /\ HandInv /\ RingInv

\* The invariant holds initially, when main holds the mutex in server_init.
LEMMA InductiveInit == Init => IInv
<1> USE ThreadsAssumption, SizeAssumption
    DEF Threads, Slots, Conns, NoConn, WorkerPCs, MainPCs
<1> SUFFICES ASSUME Init PROVE IInv
  OBVIOUS
<1>1. TypeOK
  <2>1. pc \in [Threads -> WorkerPCs \cup MainPCs]
    BY DEF Init
  <2>2. pc[Main] \in MainPCs /\ \A w \in Workers : pc[w] \in WorkerPCs
    BY DEF Init
  <2>3. /\ rq \in [Slots -> Conns \cup {NoConn}]
        /\ connfn \in [Workers -> Conns \cup {NoConn}]
    BY DEF Init
  <2>4. /\ lock \in Threads \cup {None} /\ rq_start \in Nat /\ rq_end \in Nat
        /\ MaxRequests > 0 => rq_start \in Slots /\ rq_end \in Slots
        /\ request_counter \in 0..MaxRequests
        /\ connfd \in Conns \cup {NoConn}
    BY DEF Init
  <2>5. queued \in Seq(Conns) /\ taken \in Seq(Conns)
    BY DEF Init
  <2>6. exiting \in BOOLEAN /\ served \subseteq Conns
    BY Zenon DEF Init
  <2> QED BY <2>1, <2>2, <2>3, <2>4, <2>5, <2>6 DEF TypeOK
<1>2. MutualExclusion /\ NoLostWakeup
  BY DEF Init, MutualExclusion, NoLostWakeup, WorkerHolds,
         MainHolds
<1>3. FifoOrder /\ CounterInv /\ WakeInv /\ HandInv
  BY DEF Init, FifoOrder, CounterInv, WakeInv, HandInv
<1>4. RingInv
  BY DEF Init, RingInv, Wrap
<1> QED BY <1>1, <1>2, <1>3, <1>4 DEF IInv

\* Moving an index is one step round the ring.
LEMMA NextSlotWraps ==
  ASSUME MaxRequests > 0, NEW i \in Slots
  PROVE  NextSlot(i) = Wrap(i + 1) /\ NextSlot(i) \in Slots
BY SizeAssumption DEF NextSlot, Wrap, Slots

\* Every step of every thread preserves the invariant.
LEMMA InductiveStep == IInv /\ [Next]_vars => IInv'
<1> USE ThreadsAssumption, SizeAssumption
    DEF ring, hist, vars, Threads, Slots, Conns, NoConn, WorkerPCs, MainPCs,
        WorkerHolds, MainHolds
<1> SUFFICES ASSUME IInv, [Next]_vars PROVE IInv'
  OBVIOUS
<1>1. ASSUME NEW w \in Workers, WorkerLock(w) PROVE IInv'
  <2>1. TypeOK'
    BY <1>1 DEF WorkerLock, Acquire, MutexFree, Goto, IInv, TypeOK
  <2>2. MutualExclusion' /\ NoLostWakeup'
    BY <1>1 DEF WorkerLock, Acquire, MutexFree, Goto, IInv, TypeOK,
       MutualExclusion, NoLostWakeup
  <2>3. FifoOrder' /\ CounterInv' /\ WakeInv'
    BY <1>1 DEF WorkerLock, Acquire, MutexFree, Goto, IInv, TypeOK,
       MutualExclusion, NoLostWakeup, FifoOrder, CounterInv, WakeInv
  <2>4. HandInv' /\ RingInv'
    BY <1>1 DEF WorkerLock, Acquire, MutexFree, Goto, IInv, TypeOK,
       MutualExclusion, HandInv, RingInv, Wrap
  <2> QED BY <2>1, <2>2, <2>3, <2>4 DEF IInv
<1>2. ASSUME NEW w \in Workers, WorkerRelock(w) PROVE IInv'
  <2>1. TypeOK'
    BY <1>2 DEF WorkerRelock, Acquire, MutexFree, Goto, IInv, TypeOK
  <2>2. MutualExclusion' /\ NoLostWakeup'
    BY <1>2 DEF WorkerRelock, Acquire, MutexFree, Goto, IInv, TypeOK,
       MutualExclusion, NoLostWakeup
  <2>3. FifoOrder' /\ CounterInv' /\ WakeInv'
    BY <1>2 DEF WorkerRelock, Acquire, MutexFree, Goto, IInv, TypeOK,
       MutualExclusion, NoLostWakeup, FifoOrder, CounterInv, WakeInv
  <2>4. HandInv' /\ RingInv'
    BY <1>2 DEF WorkerRelock, Acquire, MutexFree, Goto, IInv, TypeOK,
       MutualExclusion, HandInv, RingInv, Wrap
  <2> QED BY <2>1, <2>2, <2>3, <2>4 DEF IInv
<1>3. ASSUME NEW w \in Workers, WorkerTest(w) PROVE IInv'
  <2>1. CASE RingEmpty
    <3>1. pc' = [pc EXCEPT ![w] = "wait"] /\ lock' = None
      BY <1>3, <2>1 DEF WorkerTest, RingEmpty, Goto
    <3>2. TypeOK'
      BY <1>3, <3>1 DEF WorkerTest, RingEmpty, IInv, TypeOK
    <3>3. MutualExclusion' /\ NoLostWakeup'
      BY <1>3, <2>1, <3>1 DEF WorkerTest, RingEmpty, IInv, TypeOK,
           MutualExclusion, NoLostWakeup
    <3>4. FifoOrder' /\ CounterInv' /\ WakeInv' /\ HandInv' /\ RingInv'
      BY <1>3, <3>1 DEF WorkerTest, RingEmpty, IInv, TypeOK, MutualExclusion,
           FifoOrder, CounterInv, WakeInv, HandInv, RingInv, Wrap
    <3> QED BY <3>2, <3>3, <3>4 DEF IInv
  <2>2. CASE ~RingEmpty
    <3>1. pc' = [pc EXCEPT ![w] = "read"] /\ lock' = lock
      BY <1>3, <2>2 DEF WorkerTest, RingEmpty, Goto
    <3>2. TypeOK'
      BY <1>3, <2>2, <3>1 DEF WorkerTest, RingEmpty, IInv, TypeOK
    <3>3. MutualExclusion' /\ NoLostWakeup'
      BY <1>3, <2>2, <3>1 DEF WorkerTest, RingEmpty, IInv, TypeOK,
         MutualExclusion, NoLostWakeup
    <3>4. FifoOrder' /\ CounterInv' /\ WakeInv'
      BY <1>3, <2>2, <3>1 DEF WorkerTest, RingEmpty, IInv, TypeOK,
         MutualExclusion, NoLostWakeup, FifoOrder, CounterInv, WakeInv
    <3>5. HandInv' /\ RingInv'
      BY <1>3, <2>2, <3>1 DEF WorkerTest, RingEmpty, IInv, TypeOK,
         MutualExclusion, HandInv, RingInv, Wrap
    <3> QED BY <3>2, <3>3, <3>4, <3>5 DEF IInv
  <2> QED BY <2>1, <2>2
<1>4. ASSUME NEW w \in Workers, WorkerCheckExit(w) PROVE IInv'
  <2>1. CASE exiting
    <3>1. pc' = [pc EXCEPT ![w] = "done"] /\ lock' = None
      BY <1>4, <2>1 DEF WorkerCheckExit, Goto
    <3>2. TypeOK'
      BY <1>4, <3>1 DEF WorkerCheckExit, IInv, TypeOK
    <3>3. MutualExclusion' /\ NoLostWakeup'
      BY <1>4, <2>1, <3>1 DEF WorkerCheckExit, IInv, TypeOK,
           MutualExclusion, NoLostWakeup
    <3>4. FifoOrder' /\ CounterInv' /\ WakeInv' /\ HandInv' /\ RingInv'
      BY <1>4, <3>1 DEF WorkerCheckExit, IInv, TypeOK, MutualExclusion,
           FifoOrder, CounterInv, WakeInv, HandInv, RingInv, Wrap
    <3> QED BY <3>2, <3>3, <3>4 DEF IInv
  <2>2. CASE ~exiting
    <3>1. pc' = [pc EXCEPT ![w] = "test"] /\ lock' = lock
      BY <1>4, <2>2 DEF WorkerCheckExit, Goto
    <3>2. TypeOK'
      BY <1>4, <2>2, <3>1 DEF WorkerCheckExit, IInv, TypeOK
    <3>3. MutualExclusion' /\ NoLostWakeup'
      BY <1>4, <2>2, <3>1 DEF WorkerCheckExit, IInv, TypeOK,
         MutualExclusion, NoLostWakeup
    <3>4. FifoOrder' /\ CounterInv' /\ WakeInv'
      BY <1>4, <2>2, <3>1 DEF WorkerCheckExit, IInv, TypeOK,
         MutualExclusion, NoLostWakeup, FifoOrder, CounterInv, WakeInv
    <3>5. HandInv' /\ RingInv'
      BY <1>4, <2>2, <3>1 DEF WorkerCheckExit, IInv, TypeOK,
         MutualExclusion, HandInv, RingInv, Wrap
    <3> QED BY <3>2, <3>3, <3>4, <3>5 DEF IInv
  <2> QED BY <2>1, <2>2
<1>5. ASSUME NEW w \in Workers, WorkerRead(w) PROVE IInv'
  <2>1. TypeOK'
    BY <1>5 DEF WorkerRead, GotoAndWake, FullBroadcast, RingFull, IInv, TypeOK,
         MutualExclusion, CounterInv, HandInv, RingInv, FifoOrder
  <2>2. MutualExclusion' /\ NoLostWakeup'
    BY <1>5 DEF WorkerRead, GotoAndWake, FullBroadcast, RingFull, IInv, TypeOK,
         MutualExclusion, NoLostWakeup
  <2>3. FifoOrder' /\ CounterInv' /\ WakeInv'
    BY <1>5 DEF WorkerRead, GotoAndWake, FullBroadcast, RingFull, IInv, TypeOK,
         MutualExclusion, NoLostWakeup, FifoOrder, CounterInv, WakeInv
  <2>4. HandInv'
    BY <1>5 DEF WorkerRead, GotoAndWake, FullBroadcast, RingFull, IInv, TypeOK,
         MutualExclusion, CounterInv, HandInv, RingInv, FifoOrder
  <2>5. RingInv'
    BY <1>5 DEF WorkerRead, GotoAndWake, FullBroadcast, RingFull, IInv, TypeOK,
         MutualExclusion, CounterInv, RingInv, Wrap
  <2> QED BY <2>1, <2>2, <2>3, <2>4, <2>5 DEF IInv
<1>6. ASSUME NEW w \in Workers, WorkerAdvance(w) PROVE IInv'
  <2>1. /\ lock = w /\ request_counter > 0 /\ MaxRequests > 0
        /\ \A t \in Workers : pc[t] \in WorkerHolds => t = w
        /\ pc[Main] \notin MainHolds /\ pc[Main] # "wait"
    BY <1>6 DEF WorkerAdvance, IInv, TypeOK, MutualExclusion, CounterInv,
         WakeInv
  <2>2. rq_end' = Wrap(rq_end + 1) /\ rq_end' \in Slots
    BY <1>6, <2>1, NextSlotWraps DEF WorkerAdvance, IInv, TypeOK
  <2>3. /\ connfn[w] = queued[Len(taken) + 1] /\ connfn[w] \in Conns
        /\ Len(taken) \in Nat
    <3>1. Wrap(rq_end + 0) = rq_end /\ 0 \in 0..request_counter-1
      BY <2>1 DEF IInv, TypeOK, Wrap
    <3>2. rq[Wrap(rq_end + 0)] = queued[Len(taken) + 1 + 0]
      BY <2>1, <3>1 DEF IInv, RingInv
    <3>3. connfn[w] = rq[rq_end]
      BY <1>6 DEF WorkerAdvance, IInv, HandInv
    <3>4. Len(taken) \in Nat /\ Len(taken) + 1 \in 1..Len(queued)
      BY <2>1 DEF IInv, TypeOK, FifoOrder
    <3> QED BY <3>1, <3>2, <3>3, <3>4 DEF IInv, TypeOK
  <2>4. /\ taken' \in Seq(Conns) /\ Len(taken') = Len(taken) + 1
        /\ taken'[Len(taken) + 1] = connfn[w]
        /\ \A i \in 1..Len(taken) : taken'[i] = taken[i]
    BY <1>6, <2>3 DEF WorkerAdvance, IInv, TypeOK
  <2>5. TypeOK'
    BY <1>6, <2>1, <2>2, <2>4 DEF WorkerAdvance, Goto, IInv, TypeOK
  <2>6. MutualExclusion'
    BY <1>6, <2>1 DEF WorkerAdvance, Goto, IInv, TypeOK, MutualExclusion
  <2>7. NoLostWakeup' /\ CounterInv' /\ WakeInv'
    BY <1>6, <2>1 DEF WorkerAdvance, Goto, IInv, TypeOK, NoLostWakeup,
         CounterInv, WakeInv
  <2>8. FifoOrder'
    <3>1. Len(queued') = Len(taken') + request_counter'
      <4>1. request_counter' = request_counter - 1 /\ queued' = queued
        BY <1>6 DEF WorkerAdvance
      <4>2. /\ Len(queued) = Len(taken) + request_counter
            /\ request_counter \in Nat
        BY DEF IInv, TypeOK, FifoOrder
      <4> QED BY <4>1, <4>2, <2>3, <2>4
    <3>2. \A i \in 1..Len(taken) : taken'[i] = queued'[i]
      BY <1>6, <2>4 DEF WorkerAdvance, IInv, FifoOrder
    <3>3. taken'[Len(taken) + 1] = queued'[Len(taken) + 1]
      BY <1>6, <2>3, <2>4 DEF WorkerAdvance
    <3>4. \A i \in 1..Len(taken') : i \in 1..Len(taken) \/ i = Len(taken) + 1
      BY <2>3, <2>4
    <3> QED BY <3>1, <3>2, <3>3, <3>4 DEF FifoOrder
  <2>9. HandInv'
    BY <1>6, <2>1, <2>3 DEF WorkerAdvance, Goto, IInv, TypeOK, HandInv
  <2>10. RingInv'
    <3>1. rq_start' = Wrap(rq_end' + request_counter')
      BY <1>6, <2>1, <2>2 DEF WorkerAdvance, IInv, TypeOK, RingInv, Wrap
    <3>2. ASSUME NEW i \in 0..request_counter'-1
          PROVE  rq'[Wrap(rq_end' + i)] = queued'[Len(taken') + 1 + i]
      <4>1. i + 1 \in 0..request_counter-1
        BY <1>6, <2>1 DEF WorkerAdvance, IInv, TypeOK
      <4>2. rq[Wrap(rq_end + (i + 1))] = queued[Len(taken) + 1 + (i + 1)]
        BY <4>1, <2>1 DEF IInv, RingInv
      <4>3. Wrap(rq_end' + i) = Wrap(rq_end + (i + 1))
        BY <4>1, <2>1, <2>2 DEF IInv, TypeOK, Wrap
      <4> QED BY <1>6, <4>2, <4>3, <2>3, <2>4 DEF WorkerAdvance
    <3> QED BY <3>1, <3>2 DEF RingInv, Wrap
  <2> QED BY <2>5, <2>6, <2>7, <2>8, <2>9, <2>10 DEF IInv
<1>7. ASSUME NEW w \in Workers, WorkerServe(w) PROVE IInv'
  <2>1. TypeOK'
    BY <1>7 DEF WorkerServe, Goto, IInv, TypeOK,
         MutualExclusion, CounterInv, HandInv, RingInv, FifoOrder
  <2>2. MutualExclusion' /\ NoLostWakeup'
    BY <1>7 DEF WorkerServe, Goto, IInv, TypeOK,
         MutualExclusion, NoLostWakeup
  <2>3. FifoOrder' /\ CounterInv' /\ WakeInv'
    BY <1>7 DEF WorkerServe, Goto, IInv, TypeOK,
         MutualExclusion, NoLostWakeup, FifoOrder, CounterInv, WakeInv
  <2>4. HandInv'
    BY <1>7 DEF WorkerServe, Goto, IInv, TypeOK,
         MutualExclusion, CounterInv, HandInv, RingInv, FifoOrder
  <2>5. RingInv'
    BY <1>7 DEF WorkerServe, Goto, IInv, TypeOK,
         MutualExclusion, CounterInv, RingInv, Wrap
  <2> QED BY <2>1, <2>2, <2>3, <2>4, <2>5 DEF IInv
<1>8. ASSUME NEW w \in Workers, CreateWorker(w) PROVE IInv'
  <2>1. TypeOK'
    BY <1>8 DEF CreateWorker, Goto, IInv, TypeOK
  <2>2. MutualExclusion' /\ NoLostWakeup'
    BY <1>8 DEF CreateWorker, Goto, IInv, TypeOK,
       MutualExclusion, NoLostWakeup
  <2>3. FifoOrder' /\ CounterInv' /\ WakeInv'
    BY <1>8 DEF CreateWorker, Goto, IInv, TypeOK,
       MutualExclusion, NoLostWakeup, FifoOrder, CounterInv, WakeInv
  <2>4. HandInv' /\ RingInv'
    BY <1>8 DEF CreateWorker, Goto, IInv, TypeOK,
       MutualExclusion, HandInv, RingInv, Wrap
  <2> QED BY <2>1, <2>2, <2>3, <2>4 DEF IInv
<1>9. ASSUME InitDone PROVE IInv'
  <2>1. TypeOK'
    BY <1>9 DEF InitDone, Goto, IInv, TypeOK
  <2>2. MutualExclusion' /\ NoLostWakeup'
    BY <1>9 DEF InitDone, Goto, IInv, TypeOK,
       MutualExclusion, NoLostWakeup
  <2>3. FifoOrder' /\ CounterInv' /\ WakeInv'
    BY <1>9 DEF InitDone, Goto, IInv, TypeOK,
       MutualExclusion, NoLostWakeup, FifoOrder, CounterInv, WakeInv
  <2>4. HandInv' /\ RingInv'
    BY <1>9 DEF InitDone, Goto, IInv, TypeOK,
       MutualExclusion, HandInv, RingInv, Wrap
  <2> QED BY <2>1, <2>2, <2>3, <2>4 DEF IInv
<1>10. ASSUME Accept PROVE IInv'
  <2>1. TypeOK'
    BY <1>10 DEF Accept, Goto, IInv, TypeOK,
         MutualExclusion, CounterInv, HandInv, RingInv, FifoOrder
  <2>2. MutualExclusion' /\ NoLostWakeup'
    BY <1>10 DEF Accept, Goto, IInv, TypeOK,
         MutualExclusion, NoLostWakeup
  <2>3. FifoOrder' /\ CounterInv' /\ WakeInv'
    BY <1>10 DEF Accept, Goto, IInv, TypeOK,
         MutualExclusion, NoLostWakeup, FifoOrder, CounterInv, WakeInv
  <2>4. HandInv'
    BY <1>10 DEF Accept, Goto, IInv, TypeOK,
         MutualExclusion, CounterInv, HandInv, RingInv, FifoOrder
  <2>5. RingInv'
    BY <1>10 DEF Accept, Goto, IInv, TypeOK,
         MutualExclusion, CounterInv, RingInv, Wrap
  <2> QED BY <2>1, <2>2, <2>3, <2>4, <2>5 DEF IInv
<1>11. ASSUME MainLock PROVE IInv'
  <2>1. TypeOK'
    BY <1>11 DEF MainLock, Acquire, MutexFree, Goto, IInv, TypeOK
  <2>2. MutualExclusion' /\ NoLostWakeup'
    BY <1>11 DEF MainLock, Acquire, MutexFree, Goto, IInv, TypeOK,
       MutualExclusion, NoLostWakeup
  <2>3. FifoOrder' /\ CounterInv' /\ WakeInv'
    BY <1>11 DEF MainLock, Acquire, MutexFree, Goto, IInv, TypeOK,
       MutualExclusion, NoLostWakeup, FifoOrder, CounterInv, WakeInv
  <2>4. HandInv' /\ RingInv'
    BY <1>11 DEF MainLock, Acquire, MutexFree, Goto, IInv, TypeOK,
       MutualExclusion, HandInv, RingInv, Wrap
  <2> QED BY <2>1, <2>2, <2>3, <2>4 DEF IInv
<1>12. ASSUME MainRelock PROVE IInv'
  <2>1. TypeOK'
    BY <1>12 DEF MainRelock, Acquire, MutexFree, Goto, IInv, TypeOK
  <2>2. MutualExclusion' /\ NoLostWakeup'
    BY <1>12 DEF MainRelock, Acquire, MutexFree, Goto, IInv, TypeOK,
       MutualExclusion, NoLostWakeup
  <2>3. FifoOrder' /\ CounterInv' /\ WakeInv'
    BY <1>12 DEF MainRelock, Acquire, MutexFree, Goto, IInv, TypeOK,
       MutualExclusion, NoLostWakeup, FifoOrder, CounterInv, WakeInv
  <2>4. HandInv' /\ RingInv'
    BY <1>12 DEF MainRelock, Acquire, MutexFree, Goto, IInv, TypeOK,
       MutualExclusion, HandInv, RingInv, Wrap
  <2> QED BY <2>1, <2>2, <2>3, <2>4 DEF IInv
<1>13. ASSUME MainTest PROVE IInv'
  <2>1. CASE RingFull
    <3>1. pc' = [pc EXCEPT ![Main] = "wait"] /\ lock' = None
      BY <1>13, <2>1 DEF MainTest, RingFull, Goto
    <3>2. TypeOK'
      BY <1>13, <2>1, <3>1 DEF MainTest, RingFull, IInv, TypeOK
    <3>3. MutualExclusion' /\ NoLostWakeup'
      BY <1>13, <2>1, <3>1 DEF MainTest, RingFull, IInv, TypeOK,
         MutualExclusion, NoLostWakeup
    <3>4. FifoOrder' /\ CounterInv' /\ WakeInv'
      BY <1>13, <2>1, <3>1 DEF MainTest, RingFull, IInv, TypeOK,
         MutualExclusion, NoLostWakeup, FifoOrder, CounterInv, WakeInv
    <3>5. HandInv' /\ RingInv'
      BY <1>13, <2>1, <3>1 DEF MainTest, RingFull, IInv, TypeOK,
         MutualExclusion, HandInv, RingInv, Wrap
    <3> QED BY <3>2, <3>3, <3>4, <3>5 DEF IInv
  <2>2. CASE ~RingFull
    <3>1. pc' = [pc EXCEPT ![Main] = "put"] /\ lock' = lock
      BY <1>13, <2>2 DEF MainTest, RingFull, Goto
    <3>2. TypeOK'
      BY <1>13, <2>2, <3>1 DEF MainTest, RingFull, IInv, TypeOK
    <3>3. MutualExclusion' /\ NoLostWakeup'
      BY <1>13, <2>2, <3>1 DEF MainTest, RingFull, IInv, TypeOK,
         MutualExclusion, NoLostWakeup
    <3>4. FifoOrder' /\ CounterInv' /\ WakeInv'
      BY <1>13, <2>2, <3>1 DEF MainTest, RingFull, IInv, TypeOK,
         MutualExclusion, NoLostWakeup, FifoOrder, CounterInv, WakeInv
    <3>5. HandInv' /\ RingInv'
      BY <1>13, <2>2, <3>1 DEF MainTest, RingFull, IInv, TypeOK,
         MutualExclusion, HandInv, RingInv, Wrap
    <3> QED BY <3>2, <3>3, <3>4, <3>5 DEF IInv
  <2> QED BY <2>1, <2>2
<1>14. ASSUME MainCheckExit PROVE IInv'
  <2>1. CASE exiting
    <3>1. pc' = [pc EXCEPT ![Main] = "poll"] /\ lock' = None
      BY <1>14, <2>1 DEF MainCheckExit, Goto
    <3>2. TypeOK'
      BY <1>14, <2>1, <3>1 DEF MainCheckExit, IInv, TypeOK
    <3>3. MutualExclusion' /\ NoLostWakeup'
      BY <1>14, <2>1, <3>1 DEF MainCheckExit, IInv, TypeOK,
         MutualExclusion, NoLostWakeup
    <3>4. FifoOrder' /\ CounterInv' /\ WakeInv'
      BY <1>14, <2>1, <3>1 DEF MainCheckExit, IInv, TypeOK,
         MutualExclusion, NoLostWakeup, FifoOrder, CounterInv, WakeInv
    <3>5. HandInv' /\ RingInv'
      BY <1>14, <2>1, <3>1 DEF MainCheckExit, IInv, TypeOK,
         MutualExclusion, HandInv, RingInv, Wrap
    <3> QED BY <3>2, <3>3, <3>4, <3>5 DEF IInv
  <2>2. CASE ~exiting
    <3>1. pc' = [pc EXCEPT ![Main] = "test"] /\ lock' = lock
      BY <1>14, <2>2 DEF MainCheckExit, Goto
    <3>2. TypeOK'
      BY <1>14, <2>2, <3>1 DEF MainCheckExit, IInv, TypeOK
    <3>3. MutualExclusion' /\ NoLostWakeup'
      BY <1>14, <2>2, <3>1 DEF MainCheckExit, IInv, TypeOK,
         MutualExclusion, NoLostWakeup
    <3>4. FifoOrder' /\ CounterInv' /\ WakeInv'
      BY <1>14, <2>2, <3>1 DEF MainCheckExit, IInv, TypeOK,
         MutualExclusion, NoLostWakeup, FifoOrder, CounterInv, WakeInv
    <3>5. HandInv' /\ RingInv'
      BY <1>14, <2>2, <3>1 DEF MainCheckExit, IInv, TypeOK,
         MutualExclusion, HandInv, RingInv, Wrap
    <3> QED BY <3>2, <3>3, <3>4, <3>5 DEF IInv
  <2> QED BY <2>1, <2>2
<1>15. ASSUME MainPut PROVE IInv'
  <2>1. TypeOK'
    BY <1>15 DEF MainPut, GotoAndWake, EmptyBroadcast, RingEmpty, IInv, TypeOK,
         MutualExclusion, CounterInv, HandInv, RingInv, FifoOrder
  <2>2. MutualExclusion' /\ NoLostWakeup'
    BY <1>15 DEF MainPut, GotoAndWake, EmptyBroadcast, RingEmpty, IInv, TypeOK,
         MutualExclusion, NoLostWakeup
  <2>3. FifoOrder' /\ CounterInv' /\ WakeInv'
    BY <1>15 DEF MainPut, GotoAndWake, EmptyBroadcast, RingEmpty, IInv, TypeOK,
         MutualExclusion, NoLostWakeup, FifoOrder, CounterInv, WakeInv
  <2>4. HandInv'
    BY <1>15 DEF MainPut, GotoAndWake, EmptyBroadcast, RingEmpty, IInv, TypeOK,
         MutualExclusion, CounterInv, HandInv, RingInv, FifoOrder
  <2>5. RingInv'
    <3> SUFFICES ASSUME MaxRequests > 0,
                        NEW i \in 0..request_counter-1
                 PROVE  rq'[Wrap(rq_end + i)] = rq[Wrap(rq_end + i)]
      BY <1>15 DEF MainPut, IInv, RingInv, Wrap
    <3>1. request_counter \in 0..MaxRequests-1 /\ rq_end \in Slots
      BY <1>15 DEF MainPut, IInv, TypeOK, CounterInv
    <3>2. Wrap(rq_end + i) # Wrap(rq_end + request_counter)
      BY <3>1 DEF Wrap
    <3>3. rq_start = Wrap(rq_end + request_counter)
      BY DEF IInv, RingInv
    <3>4. /\ rq' = [rq EXCEPT ![rq_start] = connfd]
          /\ rq \in [Slots -> Conns \cup {NoConn}]
      BY <1>15 DEF MainPut, IInv, TypeOK
    <3>5. Wrap(rq_end + i) \in Slots
      BY <3>1 DEF Wrap
    <3> QED BY <3>2, <3>3, <3>4, <3>5
  <2> QED BY <2>1, <2>2, <2>3, <2>4, <2>5 DEF IInv
<1>16. ASSUME MainAdvance PROVE IInv'
  <2>1. /\ lock = Main /\ request_counter < MaxRequests /\ MaxRequests > 0
        /\ \A t \in Workers : pc[t] \notin WorkerHolds /\ pc[t] # "wait"
        /\ rq[rq_start] = connfd /\ connfd \in Conns
    <3>1. lock = Main /\ request_counter < MaxRequests /\ MaxRequests > 0
      BY <1>16 DEF MainAdvance, IInv, TypeOK, MutualExclusion, CounterInv
    <3>2. \A t \in Workers : pc[t] \notin WorkerHolds /\ pc[t] # "wait"
      BY <1>16, <3>1 DEF MainAdvance, IInv, MutualExclusion, WakeInv
    <3>3. rq[rq_start] = connfd /\ connfd \in Conns
      BY <1>16 DEF MainAdvance, IInv, HandInv
    <3> QED BY <3>1, <3>2, <3>3
  <2>2. rq_start' = Wrap(rq_start + 1) /\ rq_start' \in Slots
    BY <1>16, <2>1, NextSlotWraps DEF MainAdvance, IInv, TypeOK
  <2>3. /\ queued' \in Seq(Conns) /\ Len(queued') = Len(queued) + 1
        /\ queued'[Len(queued) + 1] = connfd
        /\ \A i \in 1..Len(queued) : queued'[i] = queued[i]
        /\ Len(queued) \in Nat /\ Len(taken) \in Nat
    BY <1>16, <2>1 DEF MainAdvance, IInv, TypeOK
  <2>4. TypeOK'
    BY <1>16, <2>1, <2>2, <2>3 DEF MainAdvance, Goto, IInv, TypeOK
  <2>5. MutualExclusion'
    BY <1>16, <2>1 DEF MainAdvance, Goto, IInv, TypeOK, MutualExclusion
  <2>6. NoLostWakeup' /\ CounterInv' /\ WakeInv' /\ HandInv'
    BY <1>16, <2>1 DEF MainAdvance, Goto, IInv, TypeOK, NoLostWakeup,
         CounterInv, WakeInv, HandInv
  <2>7. FifoOrder'
    BY <1>16, <2>1, <2>3 DEF MainAdvance, IInv, TypeOK, FifoOrder
  <2>8. RingInv'
    <3>1. rq_start' = Wrap(rq_end' + request_counter')
      <4>1. rq_end' = rq_end /\ request_counter' = request_counter + 1
        BY <1>16 DEF MainAdvance
      <4>2. rq_start = Wrap(rq_end + request_counter)
        BY <2>1 DEF IInv, RingInv
      <4>3. rq_end \in Slots /\ request_counter \in Nat
        BY <2>1 DEF IInv, TypeOK
      <4> QED BY <4>1, <4>2, <4>3, <2>1, <2>2 DEF Wrap
    <3>2. ASSUME NEW i \in 0..request_counter'-1
          PROVE  rq'[Wrap(rq_end' + i)] = queued'[Len(taken') + 1 + i]
      <4>0. request_counter \in Nat /\ request_counter' = request_counter + 1
        BY <1>16 DEF MainAdvance, IInv, TypeOK
      <4>1. CASE i = request_counter
        BY <1>16, <4>1, <2>1, <2>3 DEF MainAdvance, IInv, TypeOK, FifoOrder,
             RingInv
      <4>2. CASE i \in 0..request_counter-1
        <5>1. rq[Wrap(rq_end + i)] = queued[Len(taken) + 1 + i]
          BY <4>2, <2>1 DEF IInv, RingInv
        <5>2. Len(taken) + 1 + i \in 1..Len(queued)
          BY <4>2, <2>3 DEF IInv, TypeOK, FifoOrder
        <5> QED BY <1>16, <5>1, <5>2, <2>3 DEF MainAdvance
      <4> QED BY <4>0, <4>1, <4>2
    <3> QED BY <3>1, <3>2 DEF RingInv, Wrap
  <2> QED BY <2>4, <2>5, <2>6, <2>7, <2>8 DEF IInv
<1>17. ASSUME ExitEvent PROVE IInv'
  <2>1. TypeOK'
    BY <1>17 DEF ExitEvent, Goto, IInv, TypeOK
  <2>2. MutualExclusion' /\ NoLostWakeup'
    BY <1>17 DEF ExitEvent, Goto, IInv, TypeOK,
       MutualExclusion, NoLostWakeup
  <2>3. FifoOrder' /\ CounterInv' /\ WakeInv'
    BY <1>17 DEF ExitEvent, Goto, IInv, TypeOK,
       MutualExclusion, NoLostWakeup, FifoOrder, CounterInv, WakeInv
  <2>4. HandInv' /\ RingInv'
    BY <1>17 DEF ExitEvent, Goto, IInv, TypeOK,
       MutualExclusion, HandInv, RingInv, Wrap
  <2> QED BY <2>1, <2>2, <2>3, <2>4 DEF IInv
<1>18. ASSUME ExitLock PROVE IInv'
  <2>1. TypeOK'
    BY <1>18 DEF ExitLock, Acquire, MutexFree, Goto, IInv, TypeOK
  <2>2. MutualExclusion' /\ NoLostWakeup'
    BY <1>18 DEF ExitLock, Acquire, MutexFree, Goto, IInv, TypeOK,
       MutualExclusion, NoLostWakeup
  <2>3. FifoOrder' /\ CounterInv' /\ WakeInv'
    BY <1>18 DEF ExitLock, Acquire, MutexFree, Goto, IInv, TypeOK,
       MutualExclusion, NoLostWakeup, FifoOrder, CounterInv, WakeInv
  <2>4. HandInv' /\ RingInv'
    BY <1>18 DEF ExitLock, Acquire, MutexFree, Goto, IInv, TypeOK,
       MutualExclusion, HandInv, RingInv, Wrap
  <2> QED BY <2>1, <2>2, <2>3, <2>4 DEF IInv
<1>19. ASSUME ExitStop PROVE IInv'
  <2>1. TypeOK'
    BY <1>19 DEF ExitStop, GotoAndWake, IInv, TypeOK
  <2>2. MutualExclusion' /\ NoLostWakeup'
    BY <1>19 DEF ExitStop, GotoAndWake, IInv, TypeOK,
       MutualExclusion, NoLostWakeup
  <2>3. FifoOrder' /\ CounterInv' /\ WakeInv'
    BY <1>19 DEF ExitStop, GotoAndWake, IInv, TypeOK,
       MutualExclusion, NoLostWakeup, FifoOrder, CounterInv, WakeInv
  <2>4. HandInv' /\ RingInv'
    BY <1>19 DEF ExitStop, GotoAndWake, IInv, TypeOK,
       MutualExclusion, HandInv, RingInv, Wrap
  <2> QED BY <2>1, <2>2, <2>3, <2>4 DEF IInv
<1>20. ASSUME ExitJoin PROVE IInv'
  <2>1. TypeOK'
    BY <1>20 DEF ExitJoin, AllJoined, Goto, IInv, TypeOK
  <2>2. MutualExclusion' /\ NoLostWakeup'
    BY <1>20 DEF ExitJoin, AllJoined, Goto, IInv, TypeOK,
       MutualExclusion, NoLostWakeup
  <2>3. FifoOrder' /\ CounterInv' /\ WakeInv'
    BY <1>20 DEF ExitJoin, AllJoined, Goto, IInv, TypeOK,
       MutualExclusion, NoLostWakeup, FifoOrder, CounterInv, WakeInv
  <2>4. HandInv' /\ RingInv'
    BY <1>20 DEF ExitJoin, AllJoined, Goto, IInv, TypeOK,
       MutualExclusion, HandInv, RingInv, Wrap
  <2> QED BY <2>1, <2>2, <2>3, <2>4 DEF IInv
<1>21. ASSUME NEW t \in Threads, SpuriousWakeup(t) PROVE IInv'
  <2>1. TypeOK'
    BY <1>21 DEF SpuriousWakeup, Goto, IInv, TypeOK
  <2>2. MutualExclusion' /\ NoLostWakeup'
    BY <1>21 DEF SpuriousWakeup, Goto, IInv, TypeOK,
       MutualExclusion, NoLostWakeup
  <2>3. FifoOrder' /\ CounterInv' /\ WakeInv'
    BY <1>21 DEF SpuriousWakeup, Goto, IInv, TypeOK,
       MutualExclusion, NoLostWakeup, FifoOrder, CounterInv, WakeInv
  <2>4. HandInv' /\ RingInv'
    BY <1>21 DEF SpuriousWakeup, Goto, IInv, TypeOK,
       MutualExclusion, HandInv, RingInv, Wrap
  <2> QED BY <2>1, <2>2, <2>3, <2>4 DEF IInv
<1>22. CASE UNCHANGED vars
  BY <1>22
  DEF IInv, TypeOK, MutualExclusion, NoLostWakeup,
         FifoOrder, CounterInv, WakeInv, HandInv, RingInv, Wrap
<1>23. QED
  BY <1>1, <1>2, <1>3, <1>4, <1>5, <1>6, <1>7, <1>8, <1>9, <1>10, <1>11,
     <1>12, <1>13, <1>14, <1>15, <1>16, <1>17, <1>18, <1>19, <1>20,
     <1>21, <1>22
  DEF Next, MainStep, EnvStep, Terminated, WorkerStep

\* In every behaviour of the server the inductive invariant holds.
THEOREM Invariance == Spec => []IInv
BY InductiveInit, InductiveStep, PTL DEF Spec

\* Type correctness: request_counter, rq_start and rq_end stay in range for
\* every ring size, pool and interleaving.
THEOREM TypeCorrect == Spec => []TypeOK
BY Invariance, PTL DEF IInv

\* The critical sections of start_thread, server_request and server_exit
\* exclude each other.
THEOREM Exclusion == Spec => []MutualExclusion
BY Invariance, PTL DEF IInv

\* The broadcasts on empty and full never miss a sleeper.
THEOREM WakeupsReach == Spec => []NoLostWakeup
BY Invariance, PTL DEF IInv

\* Requests leave the ring in the order in which they entered it, each once.
THEOREM FirstInFirstOut == Spec => []FifoOrder
BY Invariance, PTL DEF IInv

-----------------------------------------------------------------------------
(* The ring implements BoundedFifo.                                        *)

\* The connections queued and not yet taken.
Pending == [i \in 1..request_counter |-> queued[Len(taken) + i]]

\* Going round the ring is a remainder.
LEMMA WrapIsRemainder ==
  ASSUME MaxRequests > 0, NEW x \in Int, 0 <= x, x < 2 * MaxRequests
  PROVE  x % MaxRequests = Wrap(x)
<1>1. CASE x < MaxRequests
  BY <1>1, SizeAssumption DEF Wrap
<1>2. CASE x >= MaxRequests
  <2>1. (x - MaxRequests) \in 0..MaxRequests-1 /\ x = 1 * MaxRequests + (x - MaxRequests)
    BY <1>2, SizeAssumption
  <2>2. x % MaxRequests = x - MaxRequests
    BY <2>1, SizeAssumption
  <2> QED BY <2>2, <1>2, SizeAssumption DEF Wrap
<1> QED BY <1>1, <1>2, SizeAssumption

\* What lies in the ring, from rq_end on, is what is pending.
LEMMA WaitingIsPending == IInv => Waiting = Pending
<1> SUFFICES ASSUME IInv PROVE Waiting = Pending
  OBVIOUS
<1>1. /\ request_counter \in Nat /\ request_counter <= MaxRequests
      /\ MaxRequests > 0 => rq_end \in 0..MaxRequests-1
      /\ Len(taken) \in Nat
  BY SizeAssumption DEF IInv, TypeOK, Slots
<1>2. ASSUME NEW i \in 1..request_counter
      PROVE  rq[(rq_end + i - 1) % MaxRequests] = queued[Len(taken) + i]
  <2>1. MaxRequests > 0 /\ i - 1 \in 0..request_counter-1
    BY <1>1, SizeAssumption
  <2>2. (rq_end + i - 1) % MaxRequests = Wrap(rq_end + (i - 1))
    BY <1>1, <2>1, WrapIsRemainder, SizeAssumption
  <2>3. rq[Wrap(rq_end + (i - 1))] = queued[Len(taken) + 1 + (i - 1)]
    BY <2>1 DEF IInv, RingInv
  <2>4. Len(taken) + 1 + (i - 1) = Len(taken) + i
    BY <1>1, <2>1
  <2> QED BY <2>2, <2>3, <2>4
<1> QED BY <1>2 DEF Waiting, Pending

\* The same of the state after a step.
LEMMA WaitingIsPendingAfter == ASSUME IInv' PROVE Waiting' = Pending'
<1>1. (IInv => Waiting = Pending)'
  BY WaitingIsPending, PTL
<1> QED BY <1>1

\* A worker that moves rq_end takes the oldest pending connection.
LEMMA AdvanceIsGet ==
  ASSUME IInv, IInv', NEW w \in Workers, WorkerAdvance(w)
  PROVE  Fifo!Get
<1>1. /\ queued \in Seq(Conns) /\ taken \in Seq(Conns) /\ Len(taken) \in Nat
      /\ request_counter \in Nat /\ request_counter > 0
      /\ queued' = queued /\ request_counter' = request_counter - 1
      /\ Len(queued) = Len(taken) + request_counter
  BY SizeAssumption DEF IInv, TypeOK, CounterInv, FifoOrder, WorkerAdvance
<1>2. Pending \in Seq(Conns) /\ Len(Pending) = request_counter
  BY <1>1 DEF Pending
<1>3. connfn[w] = Pending[1]
  <2>1. MaxRequests > 0 /\ rq_end \in 0..MaxRequests-1 /\ 0 \in 0..request_counter-1
    BY <1>1, SizeAssumption DEF IInv, TypeOK, Slots
  <2>2. connfn[w] = rq[rq_end] /\ Wrap(rq_end + 0) = rq_end
    BY <2>1, SizeAssumption DEF IInv, HandInv, WorkerAdvance, Wrap
  <2>3. rq[Wrap(rq_end + 0)] = queued[Len(taken) + 1 + 0]
    BY <2>1 DEF IInv, RingInv
  <2>4. Pending[1] = queued[Len(taken) + 1]
    BY <1>1 DEF Pending
  <2> QED BY <2>2, <2>3, <2>4, <1>1
<1>4. connfn[w] \in Conns
  BY <1>2, <1>3, <1>1
<1>5. taken' = Append(taken, Head(Pending)) /\ Len(taken') = Len(taken) + 1
  BY <1>1, <1>2, <1>3, <1>4 DEF WorkerAdvance
<1>6. Pending' = Tail(Pending)
  <2>1. Pending' = [i \in 1..request_counter-1 |-> queued[Len(taken) + 1 + i]]
    BY <1>1, <1>5 DEF Pending
  <2>2. \A i \in 1..request_counter-1 :
            Pending[i + 1] = queued[Len(taken) + 1 + i]
    BY <1>1 DEF Pending
  <2>3. /\ Tail(Pending) \in Seq(Conns) /\ Len(Tail(Pending)) = request_counter - 1
        /\ \A i \in 1..request_counter-1 : Tail(Pending)[i] = Pending[i + 1]
    BY <1>1, <1>2, HeadTailProperties
  <2>4. Pending' \in Seq(Conns) /\ Len(Pending') = request_counter - 1
    BY <1>1, <2>1
  <2>5. \A i \in 1..Len(Pending') : Pending'[i] = Tail(Pending)[i]
    BY <2>1, <2>2, <2>3, <2>4
  <2> QED BY <2>3, <2>4, <2>5, SeqEqual
<1>7. Waiting = Pending /\ Waiting' = Pending'
  BY WaitingIsPending, WaitingIsPendingAfter
<1>8. Pending # <<>>
  BY <1>1, <1>2
<1> QED BY <1>5, <1>6, <1>7, <1>8 DEF Fifo!Get

\* Main, when it moves rq_start, appends its connection to the pending ones.
LEMMA AdvanceIsPut ==
  ASSUME IInv, IInv', MainAdvance
  PROVE  \E c \in Conns : Fifo!Put(c)
<1>1. /\ queued \in Seq(Conns) /\ taken \in Seq(Conns) /\ Len(taken) \in Nat
      /\ request_counter \in Nat /\ request_counter < MaxRequests
      /\ taken' = taken /\ request_counter' = request_counter + 1
      /\ Len(queued) = Len(taken) + request_counter
      /\ queued' = Append(queued, connfd)
  BY SizeAssumption DEF IInv, TypeOK, CounterInv, FifoOrder, MainAdvance
<1>2. connfd \in Conns
  BY DEF IInv, HandInv, MainAdvance, MainPCs
<1>3. Pending \in Seq(Conns) /\ Len(Pending) = request_counter
  BY <1>1 DEF Pending
<1>4. Pending' = Append(Pending, connfd)
  <2>1. Pending' = [i \in 1..request_counter+1 |-> queued'[Len(taken) + i]]
    BY <1>1 DEF Pending
  <2>2. /\ queued' \in Seq(Conns) /\ Len(queued') = Len(queued) + 1
        /\ \A i \in 1..Len(queued) : queued'[i] = queued[i]
        /\ queued'[Len(queued) + 1] = connfd
    BY <1>1, <1>2, AppendProperties
  <2>3. Pending' \in Seq(Conns) /\ Len(Pending') = request_counter + 1
    <3>1. \A i \in 1..request_counter+1 : Len(taken) + i \in 1..Len(queued')
      BY <1>1, <2>2
    <3>2. \A i \in 1..request_counter+1 : queued'[Len(taken) + i] \in Conns
      BY <3>1, <2>2
    <3>3. request_counter + 1 \in Nat
      BY <1>1
    <3> QED BY <2>1, <3>2, <3>3
  <2>4. /\ Append(Pending, connfd) \in Seq(Conns)
        /\ Len(Append(Pending, connfd)) = request_counter + 1
        /\ \A i \in 1..request_counter : Append(Pending, connfd)[i] = Pending[i]
        /\ Append(Pending, connfd)[request_counter + 1] = connfd
    BY <1>2, <1>3, AppendProperties
  <2>5. ASSUME NEW i \in 1..Len(Pending')
        PROVE  Pending'[i] = Append(Pending, connfd)[i]
    <3>1. Pending'[i] = queued'[Len(taken) + i]
      BY <2>1, <2>3
    <3>2. CASE i = request_counter + 1
      BY <3>1, <3>2, <1>1, <2>2, <2>4
    <3>3. CASE i \in 1..request_counter
      <4>1. Pending[i] = queued[Len(taken) + i] /\ Len(taken) + i \in 1..Len(queued)
        BY <3>3, <1>1 DEF Pending
      <4> QED BY <3>1, <3>3, <4>1, <2>2, <2>4
    <3>4. i = request_counter + 1 \/ i \in 1..request_counter
      <4>1. i \in 1..request_counter+1
        BY <2>3
      <4> QED BY <4>1, <1>1
    <3> QED BY <3>2, <3>3, <3>4
  <2> QED BY <2>3, <2>4, <2>5, SeqEqual
<1>5. Waiting = Pending /\ Waiting' = Pending'
  BY WaitingIsPending, WaitingIsPendingAfter
<1>6. Fifo!Put(connfd)
  BY <1>1, <1>3, <1>4, <1>5 DEF Fifo!Put
<1> QED BY <1>2, <1>6

\* Every other step leaves the queue as it is.
LEMMA OthersStutter ==
  ASSUME IInv, IInv', queued' = queued, taken' = taken,
         request_counter' = request_counter
  PROVE  UNCHANGED Fifo!vars
<1>1. Waiting = Pending /\ Waiting' = Pending'
  BY WaitingIsPending, WaitingIsPendingAfter
<1>2. Pending' = Pending
  BY DEF Pending
<1> QED BY <1>1, <1>2 DEF Fifo!vars

\* The ring, its indices and its counter, moved by any number of threads under
\* the mutex, implement the bounded FIFO queue: every step of the server is one
\* step of the queue, or none.
THEOREM ImplementsFifo == Spec => FifoSpec
<1>1. Init => Fifo!Init
  BY DEF Init, Fifo!Init, Waiting
<1>2. IInv /\ IInv' /\ [Next]_vars => [Fifo!Next]_(Fifo!vars)
  <2> SUFFICES ASSUME IInv, IInv', [Next]_vars PROVE [Fifo!Next]_(Fifo!vars)
    OBVIOUS
  <2>1. CASE \E w \in Workers : WorkerAdvance(w)
    BY <2>1, AdvanceIsGet DEF Fifo!Next
  <2>2. CASE MainAdvance
    BY <2>2, AdvanceIsPut DEF Fifo!Next
  <2>3. CASE ~MainAdvance /\ ~\E w \in Workers : WorkerAdvance(w)
    <3>1. queued' = queued /\ taken' = taken /\ request_counter' = request_counter
      BY <2>3 DEF Next, MainStep, EnvStep, Terminated, WorkerStep, WorkerLock,
         WorkerRelock, WorkerTest, WorkerCheckExit, WorkerRead, WorkerServe,
         CreateWorker, InitDone, Accept, MainLock, MainRelock, MainTest,
         MainCheckExit, MainPut, ExitEvent, ExitLock, ExitStop, ExitJoin,
         SpuriousWakeup, Acquire, ring, hist, vars
    <3> QED BY <3>1, OthersStutter
  <2> QED BY <2>1, <2>2, <2>3
<1> QED BY <1>1, <1>2, Invariance, PTL DEF Spec, FifoSpec, Fifo!Spec

-----------------------------------------------------------------------------
(* No connection is dropped.                                               *)

\* Where main has accepted a connection that is not in the ring yet.
InHand == {"lock", "test", "wait", "woken", "check", "put", "advance"}

\* The connections queued so far are all that were accepted, in that order,
\* but for the one in hand; and exiting is set only when there is none.
DropInv ==
    /\ exiting => pc[Main] \in {"join", "done"}
    /\ connfd = Len(queued) + (IF pc[Main] \in InHand THEN 1 ELSE 0)
    /\ \A i \in 1..Len(queued) : queued[i] = i

\* The steps of the workers and spurious wakeups touch none of this: main is
\* at most woken.
LEMMA DropFrame ==
  ASSUME DropInv, exiting' = exiting, connfd' = connfd, queued' = queued,
         pc'[Main] = pc[Main] \/ (pc[Main] = "wait" /\ pc'[Main] = "woken")
  PROVE  DropInv'
BY DEF DropInv, InHand

\* Every step keeps what was accepted and what was queued together.
LEMMA DropStep == IInv /\ DropInv /\ [Next]_vars => DropInv'
<1> USE ThreadsAssumption DEF Threads, ring, hist, vars
<1> SUFFICES ASSUME IInv, DropInv, [Next]_vars PROVE DropInv'
  OBVIOUS
<1>1. pc \in [Threads -> WorkerPCs \cup MainPCs] /\ queued \in Seq(Conns)
      /\ connfd \in Conns \cup {NoConn}
  BY DEF IInv, TypeOK
<1>2. ASSUME NEW w \in Workers, WorkerStep(w) PROVE DropInv'
  <2>1. exiting' = exiting /\ connfd' = connfd /\ queued' = queued
    BY <1>2 DEF WorkerStep, WorkerLock, WorkerRelock, WorkerTest,
       WorkerCheckExit, WorkerRead, WorkerAdvance, WorkerServe, Acquire
  <2>2. pc'[Main] = pc[Main] \/ (pc[Main] = "wait" /\ pc'[Main] = "woken")
    BY <1>1, <1>2 DEF WorkerStep, WorkerLock, WorkerRelock, WorkerTest,
       WorkerCheckExit, WorkerRead, WorkerAdvance, WorkerServe, Acquire, Goto,
       GotoAndWake
  <2> QED BY <2>1, <2>2, DropFrame
<1>3. ASSUME NEW t \in Threads, SpuriousWakeup(t) PROVE DropInv'
  BY <1>1, <1>3, DropFrame DEF SpuriousWakeup, Goto
<1>4. ASSUME NEW w \in Workers, CreateWorker(w) PROVE DropInv'
  BY <1>1, <1>4, DropFrame DEF CreateWorker, Goto
<1>5. CASE InitDone \/ ExitEvent \/ ExitLock \/ ExitStop \/ ExitJoin
  BY <1>1, <1>5 DEF InitDone, ExitEvent, ExitLock, ExitStop, ExitJoin, Acquire,
     Goto, GotoAndWake, DropInv, InHand
<1>6. CASE MainLock \/ MainRelock \/ MainTest \/ MainPut
  BY <1>1, <1>6 DEF MainLock, MainRelock, MainTest, MainPut, Acquire, Goto,
     GotoAndWake, DropInv, InHand
<1>7. CASE MainCheckExit
  BY <1>1, <1>7 DEF MainCheckExit, Goto, DropInv, InHand
<1>8. CASE Accept
  BY <1>1, <1>8 DEF Accept, Goto, DropInv, InHand
<1>9. CASE MainAdvance
  <2>1. connfd = Len(queued) + 1 /\ connfd \in Conns /\ Len(queued) \in Nat
    BY <1>1, <1>9 DEF MainAdvance, DropInv, InHand, IInv, HandInv, MainPCs
  <2>2. /\ Len(queued') = Len(queued) + 1 /\ queued'[Len(queued) + 1] = connfd
        /\ \A i \in 1..Len(queued) : queued'[i] = queued[i]
    BY <1>1, <1>9, <2>1, AppendProperties DEF MainAdvance
  <2>3. \A i \in 1..Len(queued') : queued'[i] = i
    BY <2>1, <2>2 DEF DropInv
  <2>4. /\ exiting' => pc'[Main] \in {"join", "done"}
        /\ connfd' = Len(queued') + (IF pc'[Main] \in InHand THEN 1 ELSE 0)
    BY <1>1, <1>9, <2>1, <2>2 DEF MainAdvance, Goto, DropInv, InHand
  <2> QED BY <2>3, <2>4 DEF DropInv
<1>10. CASE UNCHANGED vars
  BY <1>10, DropFrame
<1> QED
  BY <1>2, <1>3, <1>4, <1>5, <1>6, <1>7, <1>8, <1>9, <1>10
  DEF Next, MainStep, EnvStep, Terminated

\* Every connection that main accepted is in the ring, was taken from it, or is
\* still in main's hands: the return of server_request on exiting, which would
\* lose one, is never reached.
THEOREM Kept == Spec => []NothingDropped
<1>1. Init => DropInv
  BY ThreadsAssumption DEF Init, DropInv, InHand, Threads, NoConn
<1>2. IInv /\ DropInv => NothingDropped
  BY DEF IInv, TypeOK, DropInv, NothingDropped, InHand, Conns, NoConn
<1> QED BY <1>1, <1>2, DropStep, Invariance, PTL DEF Spec

=============================================================================
