----------------------------- MODULE ThreadProofs -----------------------------
(***************************************************************************)
(* The safety of the scheduler for any number of threads, any wait queues  *)
(* and any calls; of the locks and condition variables, for any number of  *)
(* them, on top of the invariant of the scheduler; and of thread_kill, as  *)
(* long as every kill is a SafeKill.                                       *)
(***************************************************************************)
EXTENDS ThreadLocks, ThreadKill, ListLemmas

-----------------------------------------------------------------------------
(* The scheduler.                                                          *)

Statuses == {Ready, Running, Exited, Suspended}

\* The threads that were created and have not exited.
Alive == {t \in Tids : pc[t] # "dead"}

\* Thread c runs, rl is the ready list, w the wait queues and st the status
\* fields: every thread of live is in one of these places, once, and its
\* status says in which.
Placed(c, rl, w, st, live) ==
    /\ c \in Tids /\ rl \in Seq(Tids) /\ w \in [Queues -> Seq(Tids)]
    /\ st \in [Tids -> Statuses]
    /\ IsInjective(rl) /\ \A q \in Queues : IsInjective(w[q])
    /\ \A q, r \in Queues : q # r => ToSet(w[q]) \cap ToSet(w[r]) = {}
    /\ st[c] = Running
    /\ \A t \in ToSet(rl) : st[t] = Ready
    /\ \A q \in Queues : \A t \in ToSet(w[q]) : st[t] = Suspended
    /\ \A t \in Tids : t \in live <=>
            t = c \/ t \in ToSet(rl) \/ \E q \in Queues : t \in ToSet(w[q])

\* The four values of the status field differ.
LEMMA StatusesDiffer ==
  /\ Ready # Running /\ Ready # Suspended /\ Running # Suspended
  /\ Ready # Exited /\ Running # Exited /\ Suspended # Exited
  /\ {Ready, Running, Exited, Suspended} \subseteq Statuses
BY DEF Ready, Running, Exited, Suspended, Statuses

\* The threads of a list are threads.
LEMMA ListTids ==
  ASSUME NEW s \in Seq(Tids)
  PROVE  ToSet(s) \subseteq Tids
BY LenProperties, ElementOfSeq DEF ToSet

\* IsIn searches a list.
LEMMA IsInList ==
  ASSUME NEW t, NEW s
  PROVE  IsIn(t, s) <=> t \in ToSet(s)
BY DEF IsIn, ToSet

\* The running thread and the queues have no thread in common.
LEMMA Apart ==
  ASSUME NEW c, NEW rl, NEW w, NEW st, NEW live, Placed(c, rl, w, st, live)
  PROVE  /\ c \notin ToSet(rl)
         /\ \A q \in Queues : c \notin ToSet(w[q]) /\ ToSet(rl) \cap ToSet(w[q]) = {}
         /\ ToSet(rl) \subseteq Tids /\ \A q \in Queues : ToSet(w[q]) \subseteq Tids
BY StatusesDiffer, ListTids DEF Placed

\* thread_yield: the running thread goes to the end of the ready list, and
\* the one at place i runs.
LEMMA YieldPlaces ==
  ASSUME NEW c, NEW rl, NEW w, NEW st, NEW live, Placed(c, rl, w, st, live),
         NEW i \in DOMAIN rl
  PROVE  Placed(rl[i], Append(RemoveAt(rl, i), c), w,
                [st EXCEPT ![c] = Ready, ![rl[i]] = Running], live)
<1> DEFINE n   == rl[i]
           r1  == RemoveAt(rl, i)
           r2  == Append(r1, c)
           st2 == [st EXCEPT ![c] = Ready, ![n] = Running]
<1>1. i \in 1..Len(rl) /\ n \in ToSet(rl)
  BY LenProperties DEF Placed, ToSet
<1>0. c \notin ToSet(rl) /\ ToSet(rl) \subseteq Tids
  BY Apart
<1>2. c \in Tids /\ n \in Tids /\ c # n
  BY <1>0, <1>1 DEF Placed
<1>3. r1 \in Seq(Tids) /\ IsInjective(r1) /\ ToSet(r1) = ToSet(rl) \ {n}
  BY <1>1, RemoveAtElements DEF Placed
<1>4. r2 \in Seq(Tids) /\ IsInjective(r2) /\ ToSet(r2) = (ToSet(rl) \ {n}) \cup {c}
  BY <1>0, <1>2, <1>3, AppendElements
<1>5. /\ st2 \in [Tids -> Statuses] /\ st2[n] = Running /\ st2[c] = Ready
      /\ \A t \in Tids \ {n, c} : st2[t] = st[t]
  BY <1>2, StatusesDiffer DEF Placed
<1>6. \A t \in ToSet(r2) : st2[t] = Ready
  BY <1>0, <1>4, <1>5 DEF Placed
<1>7. ASSUME NEW q \in Queues, NEW t \in ToSet(w[q]) PROVE st2[t] = Suspended
  <2>1. t # n /\ t # c /\ t \in Tids
    BY <1>1, Apart
  <2> QED BY <1>5, <2>1 DEF Placed
<1>8. ASSUME NEW t \in Tids
      PROVE  t \in live <=> t = n \/ t \in ToSet(r2) \/ \E q \in Queues : t \in ToSet(w[q])
  <2>1. t \in live <=> t = c \/ t \in ToSet(rl) \/ \E q \in Queues : t \in ToSet(w[q])
    BY DEF Placed
  <2>2. t = n \/ t \in ToSet(r2) <=> t = c \/ t \in ToSet(rl)
    BY <1>1, <1>4
  <2> QED BY <2>1, <2>2
<1> HIDE DEF n, r2, st2
<1>9. Placed(n, r2, w, st2, live)
  BY <1>2, <1>4, <1>5, <1>6, <1>7, <1>8 DEF Placed
<1> QED BY <1>9 DEF n, r2, r1, st2

\* thread_create: a new thread joins the ready list.
LEMMA CreatePlaces ==
  ASSUME NEW c, NEW rl, NEW w, NEW st, NEW live, Placed(c, rl, w, st, live),
         NEW n \in Tids, n \notin live
  PROVE  /\ Placed(c, rl, w, [st EXCEPT ![n] = Ready], live)
         /\ Placed(c, Append(rl, n), w, [st EXCEPT ![n] = Ready], live \cup {n})
<1> DEFINE r2  == Append(rl, n)
           st2 == [st EXCEPT ![n] = Ready]
<1>1. n # c /\ n \notin ToSet(rl) /\ \A q \in Queues : n \notin ToSet(w[q])
  BY DEF Placed
<1>2. r2 \in Seq(Tids) /\ IsInjective(r2) /\ ToSet(r2) = ToSet(rl) \cup {n}
  BY <1>1, AppendElements DEF Placed
<1>3. /\ st2 \in [Tids -> Statuses] /\ st2[n] = Ready
      /\ \A t \in Tids \ {n} : st2[t] = st[t]
  BY StatusesDiffer DEF Placed
<1>4. ToSet(rl) \subseteq Tids /\ \A q \in Queues : ToSet(w[q]) \subseteq Tids
  BY Apart
<1>5. /\ st2[c] = Running
      /\ \A t \in ToSet(r2) : st2[t] = Ready
      /\ \A q \in Queues : \A t \in ToSet(w[q]) : st2[t] = Suspended
  BY <1>1, <1>2, <1>3, <1>4 DEF Placed
<1> HIDE DEF r2, st2
<1>6. Placed(c, rl, w, st2, live)
  BY <1>2, <1>3, <1>5 DEF Placed
<1>7. Placed(c, r2, w, st2, live \cup {n})
  BY <1>2, <1>3, <1>5 DEF Placed
<1> QED BY <1>6, <1>7 DEF r2, st2

\* The head of the ready list runs, and the thread that ran is gone.
LEMMA LeavePlaces ==
  ASSUME NEW c, NEW rl, NEW w, NEW st, NEW live, Placed(c, rl, w, st, live),
         rl # <<>>,
         NEW st2 \in [Tids -> Statuses], st2[Head(rl)] = Running,
         \A t \in Tids \ {c, Head(rl)} : st2[t] = st[t]
  PROVE  Placed(Head(rl), Tail(rl), w, st2, live \ {c})
<1> DEFINE n  == Head(rl)
           r2 == Tail(rl)
<1>1. /\ n \in Tids /\ n \in ToSet(rl) /\ r2 \in Seq(Tids) /\ IsInjective(r2)
      /\ ToSet(r2) = ToSet(rl) \ {n}
  BY TailElements DEF Placed
<1>2. n # c /\ c \notin ToSet(rl)
  BY <1>1, Apart
<1>3. /\ \A t \in ToSet(r2) : st2[t] = Ready
      /\ \A q \in Queues : \A t \in ToSet(w[q]) : st2[t] = Suspended
  <2>1. /\ \A t \in ToSet(r2) : t \in Tids \ {c, n} /\ t \in ToSet(rl)
        /\ \A q \in Queues : \A t \in ToSet(w[q]) : t \in Tids \ {c, n}
    BY <1>1, <1>2, Apart
  <2> QED BY <2>1 DEF Placed
<1>4. ASSUME NEW t \in Tids
      PROVE  t \in live \ {c} <=>
                t = n \/ t \in ToSet(r2) \/ \E q \in Queues : t \in ToSet(w[q])
  <2>1. t \in live <=> t = c \/ t \in ToSet(rl) \/ \E q \in Queues : t \in ToSet(w[q])
    BY DEF Placed
  <2>2. t \in ToSet(rl) <=> t = n \/ t \in ToSet(r2)
    BY <1>1
  <2>3. t = c => t # n /\ t \notin ToSet(rl) /\ \A q \in Queues : t \notin ToSet(w[q])
    BY <1>2, Apart
  <2> QED BY <2>1, <2>2, <2>3
<1> HIDE DEF n, r2
<1>5. Placed(n, r2, w, st2, live \ {c})
  BY <1>1, <1>3, <1>4 DEF Placed, n
<1> QED BY <1>5 DEF n, r2

\* thread_sleep: the running thread joins queue q and the head of the ready
\* list runs.
LEMMA SleepPlaces ==
  ASSUME NEW c, NEW rl, NEW w, NEW st, NEW live, Placed(c, rl, w, st, live),
         rl # <<>>, NEW q \in Queues
  PROVE  Placed(Head(rl), Tail(rl), [w EXCEPT ![q] = Append(@, c)],
                [st EXCEPT ![c] = Suspended, ![Head(rl)] = Running], live)
<1> DEFINE n   == Head(rl)
           r2  == Tail(rl)
           w2  == [w EXCEPT ![q] = Append(@, c)]
           st2 == [st EXCEPT ![c] = Suspended, ![n] = Running]
<1>0. c \in Tids /\ n \in Tids /\ n \in ToSet(rl)
  BY TailElements DEF Placed
<1>1. n # c
  BY <1>0, Apart
<1>2. /\ st2 \in [Tids -> Statuses] /\ st2[n] = Running /\ st2[c] = Suspended
      /\ \A t \in Tids \ {c, n} : st2[t] = st[t]
  BY <1>0, <1>1, StatusesDiffer DEF Placed
<1> HIDE DEF st2
<1>3. Placed(n, r2, w, st2, live \ {c})
  BY <1>2, LeavePlaces
<1>4. \A k \in Queues : c \notin ToSet(w[k])
  BY Apart
<1>5. /\ Append(w[q], c) \in Seq(Tids) /\ IsInjective(Append(w[q], c))
      /\ ToSet(Append(w[q], c)) = ToSet(w[q]) \cup {c}
  BY <1>0, <1>4, AppendElements DEF Placed
<1>6. /\ w2 \in [Queues -> Seq(Tids)] /\ w2[q] = Append(w[q], c)
      /\ \A k \in Queues \ {q} : w2[k] = w[k]
  BY <1>5 DEF Placed
<1>7. \A k \in Queues : ToSet(w2[k]) = IF k = q THEN ToSet(w[k]) \cup {c} ELSE ToSet(w[k])
  BY <1>5, <1>6
<1>8. \A k \in Queues : IsInjective(w2[k])
  BY <1>5, <1>6 DEF Placed
<1> HIDE DEF n, r2, w2
<1>9. ASSUME NEW j \in Queues, NEW k \in Queues, j # k
      PROVE  ToSet(w2[j]) \cap ToSet(w2[k]) = {}
  <2>1. ToSet(w[j]) \cap ToSet(w[k]) = {}
    BY <1>9 DEF Placed
  <2> QED BY <1>4, <1>7, <1>9, <2>1
<1>10. \A k \in Queues : \A t \in ToSet(w2[k]) : st2[t] = Suspended
  <2>1. \A k \in Queues : \A t \in ToSet(w[k]) : st2[t] = Suspended
    BY <1>3 DEF Placed
  <2> QED BY <1>2, <1>7, <2>1
<1>11. ASSUME NEW t \in Tids
       PROVE  t \in live <=>
                t = n \/ t \in ToSet(r2) \/ \E k \in Queues : t \in ToSet(w2[k])
  <2>1. t \in live \ {c} <=>
                t = n \/ t \in ToSet(r2) \/ \E k \in Queues : t \in ToSet(w[k])
    BY <1>3 DEF Placed
  <2>2. c \in live
    BY <1>0 DEF Placed
  <2>3. (\E k \in Queues : t \in ToSet(w2[k])) <=>
            t = c \/ \E k \in Queues : t \in ToSet(w[k])
    BY <1>7
  <2> QED BY <2>1, <2>2, <2>3
<1>12. Placed(n, r2, w2, st2, live)
  BY <1>3, <1>6, <1>8, <1>9, <1>10, <1>11 DEF Placed
<1> QED BY <1>12 DEF n, r2, w2, st2

\* The status fields st after the threads of list s were made ready.
MadeReady(st, s) == [t \in Tids |-> IF IsIn(t, s) THEN Ready ELSE st[t]]

\* thread_wakeup: the first m threads of queue q join the ready list.
LEMMA WakePlaces ==
  ASSUME NEW c, NEW rl, NEW w, NEW st, NEW live, Placed(c, rl, w, st, live),
         NEW q \in Queues, NEW m \in 0..Len(w[q])
  PROVE  Placed(c, rl \o SubSeq(w[q], 1, m),
                [w EXCEPT ![q] = SubSeq(@, m + 1, Len(@))],
                MadeReady(st, SubSeq(w[q], 1, m)), live)
<1> DEFINE f   == SubSeq(w[q], 1, m)
           b   == SubSeq(w[q], m + 1, Len(w[q]))
           r2  == rl \o f
           w2  == [w EXCEPT ![q] = SubSeq(@, m + 1, Len(@))]
           st2 == MadeReady(st, f)
<1>1. /\ f \in Seq(Tids) /\ IsInjective(f) /\ b \in Seq(Tids) /\ IsInjective(b)
      /\ ToSet(f) \cap ToSet(b) = {}
      /\ ToSet(f) \cup ToSet(b) = ToSet(w[q])
  BY SplitElements DEF Placed
<1>2. /\ w2 \in [Queues -> Seq(Tids)] /\ w2[q] = b
      /\ \A k \in Queues \ {q} : w2[k] = w[k]
  BY <1>1 DEF Placed
<1> HIDE DEF f, b, w2
<1>3. /\ st2 \in [Tids -> Statuses] /\ \A t \in ToSet(f) : st2[t] = Ready
      /\ \A t \in Tids \ ToSet(f) : st2[t] = st[t]
  BY <1>1, IsInList, StatusesDiffer, ListTids DEF Placed, MadeReady
<1> HIDE DEF st2
<1>4. ToSet(rl) \cap ToSet(f) = {} /\ c \notin ToSet(f)
  BY <1>1, Apart
<1>5. r2 \in Seq(Tids) /\ IsInjective(r2) /\ ToSet(r2) = ToSet(rl) \cup ToSet(f)
  BY <1>1, <1>4, ConcatElements DEF Placed
<1> HIDE DEF r2
<1>6. ToSet(rl) \subseteq Tids /\ ToSet(f) \subseteq Tids
  BY <1>1, Apart
<1>7. st2[c] = Running /\ \A t \in ToSet(r2) : st2[t] = Ready
  BY <1>3, <1>4, <1>5, <1>6 DEF Placed
<1>8. \A k \in Queues : ToSet(w2[k]) = ToSet(w[k]) \ ToSet(f)
  <2>1. \A k \in Queues \ {q} : ToSet(w[k]) \cap ToSet(f) = {}
    BY <1>1 DEF Placed
  <2> QED BY <1>1, <1>2, <2>1
<1>9. \A k \in Queues : IsInjective(w2[k])
  BY <1>1, <1>2 DEF Placed
<1>10. \A j, k \in Queues : j # k => ToSet(w2[j]) \cap ToSet(w2[k]) = {}
  BY <1>8 DEF Placed
<1>11. ASSUME NEW k \in Queues, NEW t \in ToSet(w2[k]) PROVE st2[t] = Suspended
  <2>1. t \in ToSet(w[k]) /\ t \notin ToSet(f) /\ t \in Tids
    BY <1>8, Apart
  <2> QED BY <1>3, <2>1 DEF Placed
<1>12. ASSUME NEW t \in Tids
       PROVE  t \in live <=>
                t = c \/ t \in ToSet(r2) \/ \E k \in Queues : t \in ToSet(w2[k])
  <2>1. t \in live <=> t = c \/ t \in ToSet(rl) \/ \E k \in Queues : t \in ToSet(w[k])
    BY DEF Placed
  <2>2. t \in ToSet(f) => \E k \in Queues : t \in ToSet(w[k])
    BY <1>1
  <2>3. (\E k \in Queues : t \in ToSet(w2[k])) <=>
            t \notin ToSet(f) /\ \E k \in Queues : t \in ToSet(w[k])
    BY <1>8
  <2> QED BY <1>5, <2>1, <2>2, <2>3
<1>13. Placed(c, r2, w2, st2, live)
  BY <1>2, <1>3, <1>5, <1>7, <1>9, <1>10, <1>11, <1>12 DEF Placed
<1> QED BY <1>13 DEF f, r2, w2, st2

-----------------------------------------------------------------------------
(* The inductive invariant.                                                *)

\* The types of what Placed does not speak of.
FieldTypes ==
    /\ exist \in [Tids -> BOOLEAN]
    /\ nextThreadID \in [Tids -> Tids \cup {NoTid}]
    /\ stack \in [Tids -> BOOLEAN]
    /\ hasWqt \in [Tids -> BOOLEAN]
    /\ pc \in [Tids -> PCs]
    /\ arg \in [Tids -> Tids \cup {NoTid}]
    /\ irq \in [Tids -> BOOLEAN]
    /\ enabled \in [Tids -> BOOLEAN]
    /\ exitSeen \in [Tids -> BOOLEAN]
    /\ ended \in BOOLEAN

\* A thread that has not exited is marked as existing in TotalList.
AliveExist == \A t \in Alive : exist[t]

\* The queue of a thread holds threads that wait for that thread, and no other
\* queue holds one that waits for a thread.
WaitersPlaced ==
    /\ \A t \in Tids : \A u \in ToSet(wq[t]) : pc[u] = "wait" /\ arg[u] = t
    /\ \A q \in UserQueues : \A u \in ToSet(wq[q]) : pc[u] # "wait"

\* WokenWaiterSawExit, by thread instead of by place.
WokenSawExit == \A u \in ToSet(readyList) : pc[u] = "wait" => exitSeen[u]

IInv == /\ FieldTypes /\ Placed(cur, readyList, wq, status, Alive)
        /\ StackLifetime /\ NoOrphanWaiter /\ AliveExist /\ WaitersPlaced
        /\ WokenSawExit

\* What the invariant is for.
LEMMA InvariantImplies ==
  ASSUME IInv
  PROVE  NobodyLost /\ StackLifetime /\ NoOrphanWaiter /\ WokenWaiterSawExit
<1>2. OnePlace
  <2>1. \A i, j \in DOMAIN readyList : readyList[i] = readyList[j] => i = j
    BY DEF IInv, Placed, IsInjective
  <2>2. ASSUME NEW q \in Queues, NEW r \in Queues, NEW i \in DOMAIN wq[q],
               NEW j \in DOMAIN wq[r], wq[q][i] = wq[r][j]
        PROVE  q = r /\ i = j
    <3>1. wq[q][i] \in ToSet(wq[q]) /\ wq[r][j] \in ToSet(wq[r])
      BY DEF ToSet
    <3>2. q = r
      BY <2>2, <3>1 DEF IInv, Placed
    <3>3. IsInjective(wq[q])
      BY DEF IInv, Placed
    <3> QED BY <2>2, <3>2, <3>3 DEF IsInjective
  <2>3. \A i \in DOMAIN readyList : status[readyList[i]] = Ready
    BY DEF IInv, Placed, ToSet
  <2>4. \A q \in Queues : \A i \in DOMAIN wq[q] : status[wq[q][i]] = Suspended
    BY DEF IInv, Placed, ToSet
  <2>5. status[cur] = Running
    BY DEF IInv, Placed
  <2> QED BY <2>1, <2>2, <2>3, <2>4, <2>5 DEF OnePlace
<1>3. ASSUME NEW t \in Tids
      PROVE  pc[t] # "dead" <=>
               t = cur \/ IsIn(t, readyList) \/ \E q \in Queues : IsIn(t, wq[q])
  <2>1. pc[t] # "dead" <=>
          t = cur \/ t \in ToSet(readyList) \/ \E q \in Queues : t \in ToSet(wq[q])
    BY DEF IInv, Placed, Alive
  <2> QED BY <2>1, IsInList
<1>4. WokenWaiterSawExit
  BY DEF IInv, WokenSawExit, WokenWaiterSawExit, ToSet
<1> QED BY <1>2, <1>3, <1>4 DEF IInv, NobodyLost

\* thread_init leaves thread 0 running, alone.
LEMMA InductiveInit == Init => IInv
<1> SUFFICES ASSUME Init PROVE IInv
  OBVIOUS
<1>0. 0 \in Tids
  BY MaxThreadsAssumption DEF Tids
<1>1. ToSet(<<>>) = {} /\ IsInjective(<<>>)
  BY DEF ToSet, IsInjective
<1>2. FieldTypes
  <2>1. pc \in [Tids -> PCs] /\ nextThreadID \in [Tids -> Tids \cup {NoTid}]
        /\ arg \in [Tids -> Tids \cup {NoTid}]
    BY DEF Init, PCs
  <2>2. /\ exist \in [Tids -> BOOLEAN] /\ stack \in [Tids -> BOOLEAN]
        /\ hasWqt \in [Tids -> BOOLEAN] /\ irq \in [Tids -> BOOLEAN]
        /\ enabled \in [Tids -> BOOLEAN] /\ exitSeen \in [Tids -> BOOLEAN]
        /\ ended \in BOOLEAN
    BY Zenon DEF Init
  <2> QED BY <2>1, <2>2 DEF FieldTypes
<1>3. Placed(cur, readyList, wq, status, Alive)
  BY <1>0, <1>1, StatusesDiffer DEF Init, Placed, Alive, cur
<1>4. \A q \in Queues : wq[q] = <<>>
  BY DEF Init
<1>5. StackLifetime /\ AliveExist
  BY DEF Init, StackLifetime, AliveExist, Alive
<1>6. NoOrphanWaiter /\ WaitersPlaced
  BY <1>1, <1>4 DEF NoOrphanWaiter, WaitersPlaced, Queues
<1>7. WokenSawExit
  BY <1>1 DEF Init, WokenSawExit
<1> QED BY <1>2, <1>3, <1>5, <1>6, <1>7 DEF IInv

-----------------------------------------------------------------------------
(* The steps, by what they do to the places of the threads.                *)

\* The search for exited threads frees no stack of a thread that may run.
LEMMA ReapedSpares ==
  ASSUME IInv
  PROVE  /\ Reaped(stack, status, exist) \in [Tids -> BOOLEAN]
         /\ \A t \in Tids \ {0} :
               Reaped(stack, status, exist)[t] <=> pc[t] # "dead"
<1>1. Reaped(stack, status, exist) \in [Tids -> BOOLEAN]
  BY Zenon DEF Reaped
<1>2. ASSUME NEW t \in Tids \ {0}
      PROVE  Reaped(stack, status, exist)[t] <=> pc[t] # "dead"
  BY DEF Reaped, IInv, StackLifetime, AliveExist, Alive
<1> QED BY <1>1, <1>2

\* The queues and places of the invariant do not see what the running thread
\* does to its own fields.
LEMMA LocalStep ==
  ASSUME IInv, FieldTypes',
         UNCHANGED <<currentThread, readyList, exist, status, wq>>,
         stack' = stack \/ stack' = Reaped(stack, status, exist),
         pc'[cur] # "dead",
         \A t \in Tids \ {cur} :
             pc'[t] = pc[t] /\ arg'[t] = arg[t] /\ (exitSeen'[t] <=> exitSeen[t]),
         \A t \in Tids : wq[t] # <<>> /\ hasWqt[t] => hasWqt'[t]
  PROVE  IInv'
<1>1. cur' = cur /\ cur \in Alive /\ cur \in Tids
  BY DEF cur, IInv, Placed
<1>2. Alive' = Alive
  BY <1>1 DEF Alive
<1>3. Placed(cur, readyList, wq, status, Alive)'
  BY <1>1, <1>2 DEF IInv
<1>4. StackLifetime'
  <2>1. \A t \in Tids \ {0} : stack'[t] <=> pc[t] # "dead"
    BY ReapedSpares DEF IInv, StackLifetime
  <2>2. \A t \in Tids : pc'[t] # "dead" <=> pc[t] # "dead"
    BY <1>2 DEF Alive
  <2> QED BY <2>1, <2>2 DEF StackLifetime
<1>5. NoOrphanWaiter' /\ AliveExist'
  BY <1>2 DEF IInv, NoOrphanWaiter, AliveExist
<1>6. /\ cur \notin ToSet(readyList) /\ ToSet(readyList) \subseteq Tids
      /\ \A q \in Queues : cur \notin ToSet(wq[q]) /\ ToSet(wq[q]) \subseteq Tids
  BY Apart DEF IInv
<1>7. WaitersPlaced'
  BY <1>6 DEF IInv, WaitersPlaced, Queues
<1>8. WokenSawExit'
  BY <1>6 DEF IInv, WokenSawExit
<1> QED BY <1>3, <1>4, <1>5, <1>7, <1>8 DEF IInv

\* The running thread gives way to the one at place i of the ready list.
LEMMA SwitchStep ==
  ASSUME IInv, FieldTypes', NEW i \in DOMAIN readyList, SwitchTo(i),
         UNCHANGED <<exist, hasWqt, wq, exitSeen>>,
         pc'[cur] \notin {"dead", "wait"},
         \A t \in Tids \ {cur} : pc'[t] = pc[t] /\ arg'[t] = arg[t]
  PROVE  IInv'
<1>1. cur \in Tids /\ cur \in Alive /\ exist[cur]
  BY DEF IInv, Placed, AliveExist
<1>2. /\ cur' = readyList[i]
      /\ readyList' = Append(RemoveAt(readyList, i), cur)
      /\ status' = [status EXCEPT ![cur] = Ready, ![readyList[i]] = Running]
      /\ stack' = Reaped(stack, status, exist)
  BY <1>1 DEF SwitchTo, BackInLine, cur
<1>3. Alive' = Alive
  BY <1>1 DEF Alive
<1>4. Placed(cur, readyList, wq, status, Alive)'
  BY <1>2, <1>3, YieldPlaces DEF IInv
<1>5. StackLifetime'
  <2>1. \A t \in Tids : pc'[t] # "dead" <=> pc[t] # "dead"
    BY <1>3 DEF Alive
  <2> QED BY <1>2, <2>1, ReapedSpares DEF StackLifetime
<1>6. NoOrphanWaiter' /\ AliveExist'
  BY <1>3 DEF IInv, NoOrphanWaiter, AliveExist
<1>7. /\ ToSet(readyList) \subseteq Tids /\ cur \notin ToSet(readyList)
      /\ \A q \in Queues : cur \notin ToSet(wq[q]) /\ ToSet(wq[q]) \subseteq Tids
  BY Apart DEF IInv
<1>8. WaitersPlaced'
  BY <1>7 DEF IInv, WaitersPlaced, Queues
<1>9. WokenSawExit'
  <2>1. ToSet(readyList') \subseteq ToSet(readyList) \cup {cur}
    <3>1. readyList \in Seq(Tids) /\ IsInjective(readyList) /\ i \in 1..Len(readyList)
      BY LenProperties DEF IInv, Placed
    <3>2. RemoveAt(readyList, i) \in Seq(Tids)
          /\ ToSet(RemoveAt(readyList, i)) \subseteq ToSet(readyList)
      BY <3>1, RemoveAtElements
    <3> QED BY <1>1, <1>2, <3>2, AppendElements
  <2> QED BY <1>7, <2>1 DEF IInv, WokenSawExit
<1> QED BY <1>4, <1>5, <1>6, <1>8, <1>9 DEF IInv

\* The running thread goes to sleep in queue q with the given label.
LEMMA SleepStep ==
  ASSUME IInv, FieldTypes', NEW q \in Queues, NEW label, SleepIn(q, label),
         UNCHANGED <<exist, stack>>,
         label # "dead",
         \A t \in Tids \ {cur} : arg'[t] = arg[t] /\ (exitSeen'[t] <=> exitSeen[t]),
         \A t \in Tids : hasWqt[t] => hasWqt'[t],
         \/ q \in UserQueues /\ label # "wait"
         \/ q \in Tids /\ label = "wait" /\ arg'[cur] = q /\ exist[q] /\ hasWqt'[q]
  PROVE  IInv'
<1>1. cur \in Tids /\ cur \in Alive
  BY DEF IInv, Placed
<1>2. /\ readyList # <<>> /\ cur' = Head(readyList) /\ readyList' = Tail(readyList)
      /\ wq' = [wq EXCEPT ![q] = Append(@, cur)]
      /\ status' = [status EXCEPT ![cur] = Suspended, ![Head(readyList)] = Running]
      /\ pc' = [pc EXCEPT ![cur] = label]
  BY DEF SleepIn, cur
<1>3. pc'[cur] = label /\ \A t \in Tids \ {cur} : pc'[t] = pc[t]
  BY <1>1, <1>2 DEF IInv, FieldTypes
<1>4. Alive' = Alive
  BY <1>1, <1>3 DEF Alive
<1>5. Placed(cur, readyList, wq, status, Alive)'
  BY <1>2, <1>4, SleepPlaces DEF IInv
<1>6. StackLifetime'
  <2>1. \A t \in Tids : pc'[t] # "dead" <=> pc[t] # "dead"
    BY <1>4 DEF Alive
  <2> QED BY <2>1 DEF IInv, StackLifetime
<1>7. /\ wq \in [Queues -> Seq(Tids)] /\ wq'[q] = Append(wq[q], cur)
      /\ \A k \in Queues \ {q} : wq'[k] = wq[k]
  BY <1>2 DEF IInv, Placed
<1>8. NoOrphanWaiter'
  <2> SUFFICES ASSUME NEW t \in Tids, wq'[t] # <<>> PROVE exist'[t] /\ hasWqt'[t]
    BY DEF NoOrphanWaiter
  <2>1. t \in Queues
    BY DEF Queues
  <2>2. CASE t = q
    BY <2>2, UserQueuesAssumption
  <2>3. CASE t # q
    BY <1>7, <2>1, <2>3 DEF IInv, NoOrphanWaiter
  <2> QED BY <2>2, <2>3
<1>9. AliveExist'
  BY <1>4 DEF IInv, AliveExist
<1>10. /\ ToSet(readyList) \subseteq Tids /\ cur \notin ToSet(readyList)
       /\ \A k \in Queues : cur \notin ToSet(wq[k]) /\ ToSet(wq[k]) \subseteq Tids
  BY Apart DEF IInv
<1>11. WaitersPlaced'
  <2>1. ToSet(wq'[q]) = ToSet(wq[q]) \cup {cur}
    BY <1>1, <1>7, AppendElements
  <2>2. ASSUME NEW k \in Queues, NEW u \in ToSet(wq'[k]), u # cur
        PROVE  u \in ToSet(wq[k]) /\ pc'[u] = pc[u] /\ arg'[u] = arg[u]
    BY <1>3, <1>7, <1>10, <2>1, <2>2
  <2>3. ASSUME NEW k \in Queues, cur \in ToSet(wq'[k]) PROVE k = q
    BY <1>7, <1>10, <2>3
  <2>4. ASSUME NEW t \in Tids, NEW u \in ToSet(wq'[t])
        PROVE  pc'[u] = "wait" /\ arg'[u] = t
    <3>1. t \in Queues
      BY DEF Queues
    <3>2. CASE u = cur
      BY <1>3, <2>3, <2>4, <3>1, <3>2, UserQueuesAssumption
    <3>3. CASE u # cur
      BY <2>2, <2>4, <3>1, <3>3 DEF IInv, WaitersPlaced
    <3> QED BY <3>2, <3>3
  <2>5. ASSUME NEW k \in UserQueues, NEW u \in ToSet(wq'[k]) PROVE pc'[u] # "wait"
    <3>1. k \in Queues
      BY DEF Queues
    <3>2. CASE u = cur
      BY <1>3, <2>3, <2>5, <3>1, <3>2, UserQueuesAssumption
    <3>3. CASE u # cur
      BY <2>2, <2>5, <3>1, <3>3 DEF IInv, WaitersPlaced
    <3> QED BY <3>2, <3>3
  <2> QED BY <2>4, <2>5 DEF WaitersPlaced
<1>12. WokenSawExit'
  <2>1. ToSet(readyList') \subseteq ToSet(readyList)
    BY <1>2, TailElements DEF IInv, Placed
  <2> QED BY <1>3, <1>10, <2>1 DEF IInv, WokenSawExit
<1> QED BY <1>5, <1>6, <1>8, <1>9, <1>11, <1>12 DEF IInv

\* The first n threads of a queue of the user join the ready list.
LEMMA WakeStep ==
  ASSUME IInv, NEW q \in UserQueues, NEW n \in 0..Len(wq[q]), Wake(q, n),
         UNCHANGED <<currentThread, exist, nextThreadID, stack, hasWqt, self, ended>>
  PROVE  IInv'
<1> DEFINE f == SubSeq(wq[q], 1, n)
           b == SubSeq(wq[q], n + 1, Len(wq[q]))
<1>1. q \in Queues
  BY DEF Queues
<1>2. /\ readyList' = readyList \o f
      /\ wq' = [wq EXCEPT ![q] = SubSeq(@, n + 1, Len(@))]
      /\ status' = MadeReady(status, f)
      /\ cur' = cur
  BY DEF Wake, cur, MadeReady
<1>3. /\ exist' = exist /\ nextThreadID' = nextThreadID /\ stack' = stack
      /\ hasWqt' = hasWqt /\ pc' = pc /\ arg' = arg /\ irq' = irq
      /\ enabled' = enabled /\ exitSeen' = exitSeen /\ ended' = ended
  BY DEF self
<1>4. Alive' = Alive
  BY <1>3 DEF Alive
<1>5. Placed(cur, readyList, wq, status, Alive)'
  <2>1. Placed(cur, readyList, wq, status, Alive)
    BY DEF IInv
  <2>2. Placed(cur, readyList \o f, [wq EXCEPT ![q] = SubSeq(@, n + 1, Len(@))],
               MadeReady(status, f), Alive)
    BY <1>1, <2>1, WakePlaces
  <2> HIDE DEF f
  <2> QED BY <1>2, <1>4, <2>2
<1>6. FieldTypes' /\ StackLifetime' /\ AliveExist'
  BY <1>3, <1>4 DEF IInv, FieldTypes, StackLifetime, AliveExist
<1>7. /\ wq \in [Queues -> Seq(Tids)] /\ wq'[q] = b
      /\ \A k \in Queues \ {q} : wq'[k] = wq[k]
  BY <1>1, <1>2 DEF IInv, Placed
<1>8. f \in Seq(Tids) /\ ToSet(f) \subseteq ToSet(wq[q]) /\ ToSet(b) \subseteq ToSet(wq[q])
  BY <1>1, SplitElements DEF IInv, Placed
<1>9. \A t \in Tids : t \in Queues /\ wq'[t] = wq[t]
  BY <1>7, UserQueuesAssumption DEF Queues
<1>10. NoOrphanWaiter'
  BY <1>3, <1>9 DEF IInv, NoOrphanWaiter
<1>11. WaitersPlaced'
  <2>1. \A k \in UserQueues : k \in Queues /\ ToSet(wq'[k]) \subseteq ToSet(wq[k])
    BY <1>7, <1>8 DEF Queues
  <2> QED BY <1>3, <1>9, <2>1 DEF IInv, WaitersPlaced
<1>12. WokenSawExit'
  <2>1. ToSet(readyList') = ToSet(readyList) \cup ToSet(f)
    <3>1. readyList \in Seq(Tids)
      BY DEF IInv, Placed
    <3> HIDE DEF f
    <3> QED BY <1>2, <1>8, <3>1, ConcatElements
  <2>2. \A u \in ToSet(f) : pc[u] # "wait"
    BY <1>8 DEF IInv, WaitersPlaced
  <2> QED BY <1>3, <2>1, <2>2 DEF IInv, WokenSawExit
<1> QED BY <1>5, <1>6, <1>10, <1>11, <1>12 DEF IInv

\* Setting one field of one thread keeps the type of the fields.
LEMMA BooleanField ==
  ASSUME NEW f \in [Tids -> BOOLEAN], NEW t \in Tids, NEW v \in BOOLEAN
  PROVE  [f EXCEPT ![t] = v] \in [Tids -> BOOLEAN]
OBVIOUS

\* A new thread, or a slot that is marked in use and has no stack.
LEMMA CreateStep ==
  ASSUME IInv, thread_create \/ thread_create_nomemory
  PROVE  IInv'
<1>1. PICK n \in FreeTids :
        /\ exist' = [exist EXCEPT ![n] = TRUE]
        /\ status' = [status EXCEPT ![n] = Ready]
        /\ nextThreadID' = [nextThreadID EXCEPT ![n] = NoTid]
        /\ hasWqt' = [hasWqt EXCEPT ![n] = FALSE]
        /\ wq' = [wq EXCEPT ![n] = <<>>]
        /\ \/ /\ stack' = [stack EXCEPT ![n] = TRUE]
              /\ readyList' = Append(readyList, n)
              /\ pc' = [pc EXCEPT ![n] = "start"]
              /\ UNCHANGED <<enabled>>
           \/ /\ stack' = [stack EXCEPT ![n] = FALSE]
              /\ enabled' = [enabled EXCEPT ![cur] = FALSE]
              /\ UNCHANGED <<readyList, pc>>
  BY DEF thread_create, thread_create_nomemory
<1>2. cur' = cur /\ UNCHANGED <<arg, irq, exitSeen, ended>>
  BY DEF thread_create, thread_create_nomemory, cur
<1>3. n \in Tids /\ n # 0 /\ ~exist[n] /\ n \in Queues
  BY DEF FreeTids, Queues
<1>4. n \notin Alive /\ pc[n] = "dead" /\ cur \in Tids
  BY <1>3 DEF IInv, AliveExist, Alive, Placed
<1>5. wq' = wq
  <2>1. wq[n] = <<>> /\ wq \in [Queues -> Seq(Tids)]
    BY <1>3 DEF IInv, NoOrphanWaiter, Placed
  <2> QED BY <1>1, <1>3, <2>1
<1>6. Placed(cur, readyList, wq, status, Alive)
  BY DEF IInv
<1>7. /\ Placed(cur, readyList, wq, [status EXCEPT ![n] = Ready], Alive)
      /\ Placed(cur, Append(readyList, n), wq, [status EXCEPT ![n] = Ready],
                Alive \cup {n})
  BY <1>3, <1>4, <1>6, CreatePlaces
<1>8. FieldTypes'
  <2>1. exist' \in [Tids -> BOOLEAN] /\ hasWqt' \in [Tids -> BOOLEAN]
    BY <1>1, <1>3, BooleanField DEF IInv, FieldTypes
  <2>2. stack' \in [Tids -> BOOLEAN] /\ enabled' \in [Tids -> BOOLEAN]
    BY <1>1, <1>3, <1>4, BooleanField DEF IInv, FieldTypes
  <2>3. pc' \in [Tids -> PCs] /\ nextThreadID' \in [Tids -> Tids \cup {NoTid}]
    BY <1>1, <1>3 DEF IInv, FieldTypes, PCs
  <2> QED BY <1>2, <2>1, <2>2, <2>3 DEF IInv, FieldTypes
<1>9. /\ exist'[n] /\ \A t \in Tids \ {n} :
            /\ exist'[t] = exist[t] /\ hasWqt'[t] = hasWqt[t]
            /\ stack'[t] = stack[t] /\ pc'[t] = pc[t]
  BY <1>1, <1>3 DEF IInv, FieldTypes
<1>10. NoOrphanWaiter'
  <2>1. \A t \in Tids : wq[t] # <<>> => t # n
    BY <1>3 DEF IInv, NoOrphanWaiter
  <2> QED BY <1>5, <1>9, <2>1 DEF IInv, NoOrphanWaiter
<1>11. /\ ToSet(readyList) \subseteq Tids /\ n \notin ToSet(readyList)
       /\ \A q \in Queues : n \notin ToSet(wq[q]) /\ ToSet(wq[q]) \subseteq Tids
  <2>1. n \notin ToSet(readyList) /\ \A q \in Queues : n \notin ToSet(wq[q])
    BY <1>3, <1>4, <1>6 DEF Placed
  <2> QED BY <1>6, <2>1, Apart
<1>12. WaitersPlaced'
  BY <1>2, <1>5, <1>9, <1>11 DEF IInv, WaitersPlaced, Queues
<1>13. CASE /\ stack' = [stack EXCEPT ![n] = TRUE]
            /\ readyList' = Append(readyList, n)
            /\ pc' = [pc EXCEPT ![n] = "start"]
  <2>1. pc'[n] = "start" /\ stack'[n]
    BY <1>3, <1>13 DEF IInv, FieldTypes
  <2>2. Alive' = Alive \cup {n}
    BY <1>3, <1>9, <2>1 DEF Alive
  <2>3. Placed(cur, readyList, wq, status, Alive)'
    BY <1>1, <1>2, <1>5, <1>7, <1>13, <2>2
  <2>4. StackLifetime' /\ AliveExist'
    BY <1>9, <2>1, <2>2 DEF IInv, StackLifetime, AliveExist, Alive
  <2>5. ToSet(readyList') = ToSet(readyList) \cup {n}
    BY <1>3, <1>6, <1>13, AppendElements DEF Placed
  <2>6. WokenSawExit'
    BY <1>2, <1>9, <1>11, <2>1, <2>5 DEF IInv, WokenSawExit
  <2> QED BY <1>8, <1>10, <1>12, <2>3, <2>4, <2>6 DEF IInv
<1>14. CASE stack' = [stack EXCEPT ![n] = FALSE] /\ UNCHANGED <<readyList, pc>>
  <2>1. Alive' = Alive /\ ~stack'[n]
    BY <1>3, <1>14 DEF Alive, IInv, FieldTypes
  <2>2. Placed(cur, readyList, wq, status, Alive)'
    BY <1>1, <1>2, <1>5, <1>7, <1>14, <2>1
  <2>3. StackLifetime' /\ AliveExist'
    BY <1>4, <1>9, <1>14, <2>1 DEF IInv, StackLifetime, AliveExist, Alive
  <2>4. WokenSawExit'
    BY <1>2, <1>14 DEF IInv, WokenSawExit
  <2> QED BY <1>8, <1>10, <1>12, <2>2, <2>3, <2>4 DEF IInv
<1> QED BY <1>1, <1>13, <1>14

\* The queue of the running thread, whether its wqt was made or not.
LEMMA WokenAre ==
  ASSUME IInv
  PROVE  /\ WokenByExit = wq[cur] /\ cur \in Tids /\ cur \in Queues
         /\ wq[cur] \in Seq(Tids) /\ IsInjective(wq[cur])
BY DEF WokenByExit, IInv, NoOrphanWaiter, Placed, Queues

\* All the threads of queue q join the ready list.
LEMMA WakeAllPlaces ==
  ASSUME NEW c, NEW rl, NEW w, NEW st, NEW live, Placed(c, rl, w, st, live),
         NEW q \in Queues
  PROVE  Placed(c, rl \o w[q], [w EXCEPT ![q] = <<>>],
                MadeReady(st, w[q]), live)
<1>1. w[q] \in Seq(Tids) /\ w \in [Queues -> Seq(Tids)]
  BY DEF Placed
<1>2. Len(w[q]) \in Nat /\ Len(w[q]) \in 0..Len(w[q])
  BY <1>1, LenProperties
<1>3. SubSeq(w[q], 1, Len(w[q])) = w[q]
  BY <1>1, SubSeqFull
<1>4. SubSeq(w[q], Len(w[q]) + 1, Len(w[q])) = <<>>
  BY <1>2, SubSeqEmpty
<1>5. [w EXCEPT ![q] = SubSeq(@, Len(w[q]) + 1, Len(@))] = [w EXCEPT ![q] = <<>>]
  BY <1>1, <1>4
<1>6. Placed(c, rl \o SubSeq(w[q], 1, Len(w[q])),
             [w EXCEPT ![q] = SubSeq(@, Len(w[q]) + 1, Len(@))],
             MadeReady(st, SubSeq(w[q], 1, Len(w[q]))), live)
  BY <1>2, WakePlaces
<1> QED BY <1>3, <1>5, <1>6

\* thread_exit: the waiters are woken and the thread is gone for good.
LEMMA ExitStep ==
  ASSUME IInv, thread_exit
  PROVE  IInv'
<1> DEFINE rl == readyList \o wq[cur]
           w2 == [wq EXCEPT ![cur] = <<>>]
           s1 == MadeReady(status, wq[cur])
           st == [t \in Tids |-> IF t = cur THEN Exited
                                 ELSE IF IsIn(t, wq[cur]) THEN Ready ELSE status[t]]
           ex == [exist EXCEPT ![cur] = FALSE]
<1>1. /\ WokenByExit = wq[cur] /\ cur \in Tids /\ cur \in Queues
      /\ wq[cur] \in Seq(Tids) /\ IsInjective(wq[cur])
  BY WokenAre
<1>2. /\ rl # <<>> /\ readyList' = Tail(rl) /\ exist' = ex
      /\ status' = [st EXCEPT ![Head(rl)] = Running]
      /\ stack' = Reaped(stack, st, ex)
      /\ cur' = Head(rl)
      /\ hasWqt' = [hasWqt EXCEPT ![cur] = FALSE]
      /\ wq' = w2
      /\ exitSeen' = [t \in Tids |-> exitSeen[t] \/ (pc[t] = "wait" /\ arg[t] = cur)]
      /\ pc' = [pc EXCEPT ![cur] = "dead"]
      /\ enabled' = [enabled EXCEPT ![cur] = FALSE]
      /\ UNCHANGED <<nextThreadID, arg, irq, ended>>
  BY <1>1 DEF thread_exit, cur
<1>3. Placed(cur, readyList, wq, status, Alive)
  BY DEF IInv
<1>4. Placed(cur, rl, w2, s1, Alive)
  BY <1>1, <1>3, WakeAllPlaces
<1>5. /\ st \in [Tids -> Statuses] /\ st[cur] = Exited
      /\ \A t \in Tids \ {cur} : st[t] = s1[t]
  <2>1. s1 \in [Tids -> Statuses]
    BY <1>4 DEF Placed
  <2>2. st = [t \in Tids |-> IF t = cur THEN Exited ELSE s1[t]]
    BY DEF MadeReady
  <2> HIDE DEF st, s1
  <2> QED BY <1>1, <2>1, <2>2, StatusesDiffer
<1> HIDE DEF rl, w2, s1, st
<1>6. Head(rl) \in Tids /\ Head(rl) \in ToSet(rl) /\ ToSet(Tail(rl)) \subseteq ToSet(rl)
  BY <1>2, <1>4, TailElements DEF Placed
<1>7. Placed(Head(rl), Tail(rl), w2, status', Alive \ {cur})
  <2>1. /\ status' \in [Tids -> Statuses] /\ status'[Head(rl)] = Running
        /\ \A t \in Tids \ {cur, Head(rl)} : status'[t] = s1[t]
    BY <1>2, <1>5, <1>6, StatusesDiffer
  <2> QED BY <1>2, <1>4, <2>1, LeavePlaces
<1>8. /\ pc'[cur] = "dead" /\ ~exist'[cur]
      /\ \A t \in Tids \ {cur} : pc'[t] = pc[t] /\ exist'[t] = exist[t]
                                 /\ hasWqt'[t] = hasWqt[t]
  BY <1>1, <1>2 DEF IInv, FieldTypes
<1>9. Alive' = Alive \ {cur}
  BY <1>8 DEF Alive
<1>10. Placed(cur, readyList, wq, status, Alive)'
  BY <1>2, <1>7, <1>9
<1>11. FieldTypes'
  <2>1. /\ exist' \in [Tids -> BOOLEAN] /\ hasWqt' \in [Tids -> BOOLEAN]
        /\ enabled' \in [Tids -> BOOLEAN]
    BY <1>1, <1>2, BooleanField DEF IInv, FieldTypes
  <2>2. stack' \in [Tids -> BOOLEAN]
    BY <1>2, Zenon DEF Reaped
  <2>3. exitSeen' \in [Tids -> BOOLEAN]
    BY <1>2, Zenon DEF IInv, FieldTypes
  <2>4. pc' \in [Tids -> PCs]
    BY <1>1, <1>2 DEF IInv, FieldTypes, PCs
  <2> QED BY <1>2, <2>1, <2>2, <2>3, <2>4 DEF IInv, FieldTypes
<1>12. AliveExist'
  BY <1>8, <1>9 DEF IInv, AliveExist, Alive
<1>13. StackLifetime'
  <2> SUFFICES ASSUME NEW t \in Tids \ {0} PROVE stack'[t] <=> pc'[t] # "dead"
    BY DEF StackLifetime
  <2>1. stack'[t] <=> stack[t] /\ ~(st[t] = Exited /\ ~exist'[t])
    BY <1>2 DEF Reaped
  <2>2. CASE t = cur
    BY <1>5, <1>8, <2>1, <2>2
  <2>3. CASE t # cur
    BY <1>8, <2>1, <2>3 DEF IInv, StackLifetime, AliveExist, Alive
  <2> QED BY <2>2, <2>3
<1>14. /\ wq'[cur] = <<>> /\ \A k \in Queues \ {cur} : wq'[k] = wq[k]
  BY <1>1, <1>2, <1>3 DEF w2, Placed
<1>15. NoOrphanWaiter'
  BY <1>8, <1>14 DEF IInv, NoOrphanWaiter, Queues
<1>16. /\ ToSet(readyList) \subseteq Tids /\ cur \notin ToSet(readyList)
       /\ \A q \in Queues : cur \notin ToSet(wq[q]) /\ ToSet(wq[q]) \subseteq Tids
  BY <1>3, Apart
<1>17. WaitersPlaced'
  <2>1. ToSet(wq'[cur]) = {}
    BY <1>14 DEF ToSet
  <2>2. \A t \in Tids : t \in Queues
    BY DEF Queues
  <2>3. \A t \in UserQueues : t \in Queues /\ t # cur
    BY <1>1, UserQueuesAssumption DEF Queues
  <2> QED BY <1>2, <1>8, <1>14, <1>16, <2>1, <2>2, <2>3 DEF IInv, WaitersPlaced
<1>18. WokenSawExit'
  <2> SUFFICES ASSUME NEW u \in ToSet(readyList'), pc'[u] = "wait" PROVE exitSeen'[u]
    BY DEF WokenSawExit
  <2>1. ToSet(rl) = ToSet(readyList) \cup ToSet(wq[cur])
    BY <1>1, <1>3, ConcatElements DEF rl, Placed
  <2>2. u \in ToSet(rl) /\ u \in Tids /\ u # cur
    BY <1>2, <1>1, <1>6, <1>16, <2>1
  <2>3. pc[u] = "wait"
    BY <1>8, <2>2
  <2>4. exitSeen[u] \/ arg[u] = cur
    BY <1>1, <2>1, <2>2, <2>3 DEF IInv, WokenSawExit, WaitersPlaced
  <2> QED BY <1>2, <2>2, <2>3, <2>4
<1> QED BY <1>10, <1>11, <1>12, <1>13, <1>15, <1>17, <1>18 DEF IInv

\* thread_wait: the thread sleeps in the queue of tid, or goes on when nobody
\* is ready.
LEMMA WaitStep ==
  ASSUME IInv, NEW tid \in Tids, thread_wait(tid)
  PROVE  IInv'
<1>1. cur \in Tids /\ cur' = currentThread' /\ tid \in Queues
  BY DEF IInv, Placed, Queues, cur
<1>2. /\ exist[tid] /\ UNCHANGED <<exist, nextThreadID, stack, irq, enabled, ended>>
      /\ hasWqt' = [hasWqt EXCEPT ![tid] = TRUE]
      /\ arg' = [arg EXCEPT ![cur] = tid]
      /\ exitSeen' = [exitSeen EXCEPT ![cur] = FALSE]
  BY DEF thread_wait, CanWaitFor
<1>3. pc' = [pc EXCEPT ![cur] = "wait"]
  BY DEF thread_wait, SleepIn
<1>4. FieldTypes'
  <2>1. hasWqt' \in [Tids -> BOOLEAN] /\ exitSeen' \in [Tids -> BOOLEAN]
    BY <1>1, <1>2, BooleanField DEF IInv, FieldTypes
  <2>2. pc' \in [Tids -> PCs] /\ arg' \in [Tids -> Tids \cup {NoTid}]
    BY <1>1, <1>2, <1>3 DEF IInv, FieldTypes, PCs
  <2> QED BY <1>2, <2>1, <2>2 DEF IInv, FieldTypes
<1>5. /\ arg'[cur] = tid /\ hasWqt'[tid] /\ pc'[cur] = "wait"
      /\ \A t \in Tids : hasWqt[t] => hasWqt'[t]
      /\ \A t \in Tids \ {cur} : /\ arg'[t] = arg[t] /\ pc'[t] = pc[t]
                                 /\ exitSeen'[t] <=> exitSeen[t]
  BY <1>1, <1>2, <1>3 DEF IInv, FieldTypes
<1>6. CASE SleepIn(tid, "wait")
  BY <1>1, <1>2, <1>4, <1>5, <1>6, SleepStep
<1>7. CASE UNCHANGED <<wq, status, readyList, currentThread>>
  BY <1>1, <1>2, <1>4, <1>5, <1>7, LocalStep
<1> QED BY <1>6, <1>7 DEF thread_wait, WaitQueueOf

\* Every step of the scheduler preserves the invariant.
LEMMA InductiveNext == ASSUME IInv, Next PROVE IInv'
<1>1. cur \in Tids /\ cur = currentThread
  BY DEF IInv, Placed, cur
<1>2. \A t \in UserQueues \cup Tids : t \in Queues
  BY DEF Queues
<1>3. CASE thread_create \/ thread_create_nomemory
  BY <1>3, CreateStep
<1>4. CASE thread_create_nomore
  <2>1. /\ UNCHANGED <<currentThread, readyList, wq, pc, arg, irq, exitSeen, ended>>
        /\ UNCHANGED <<exist, status, nextThreadID, stack, hasWqt>>
        /\ enabled' = [enabled EXCEPT ![cur] = FALSE] /\ pc[cur] = "user"
    BY <1>4 DEF thread_create_nomore, tcb, InUser
  <2>2. FieldTypes'
    BY <1>1, <2>1, BooleanField DEF IInv, FieldTypes
  <2> QED BY <2>1, <2>2, LocalStep
<1>5. CASE thread_yield
  <2>1. PICK i \in DOMAIN readyList :
          SwitchTo(i) /\ arg' = [arg EXCEPT ![cur] = readyList[i]]
    BY <1>5 DEF thread_yield
  <2>2. pc' = [pc EXCEPT ![cur] = "yield"]
        /\ UNCHANGED <<exist, hasWqt, wq, irq, enabled, exitSeen, ended>>
    BY <1>5 DEF thread_yield
  <2>3. readyList[i] \in Tids
    BY LenProperties, ElementOfSeq DEF IInv, Placed
  <2>4. FieldTypes'
    <3>1. pc' \in [Tids -> PCs] /\ arg' \in [Tids -> Tids \cup {NoTid}]
          /\ nextThreadID' \in [Tids -> Tids \cup {NoTid}]
      BY <1>1, <2>1, <2>2, <2>3 DEF IInv, FieldTypes, PCs, SwitchTo
    <3>2. stack' \in [Tids -> BOOLEAN]
      BY <2>1, ReapedSpares DEF SwitchTo
    <3> QED BY <2>2, <3>1, <3>2 DEF IInv, FieldTypes
  <2>5. pc'[cur] \notin {"dead", "wait"}
        /\ \A t \in Tids \ {cur} : pc'[t] = pc[t] /\ arg'[t] = arg[t]
    BY <1>1, <2>1, <2>2 DEF IInv, FieldTypes
  <2> QED BY <2>1, <2>2, <2>4, <2>5, SwitchStep
<1>6. CASE thread_yield_self
  <2>1. /\ nextThreadID' = [nextThreadID EXCEPT ![cur] = cur]
        /\ arg' = [arg EXCEPT ![cur] = cur]
        /\ stack' = Reaped(stack, status, exist)
        /\ pc' = [pc EXCEPT ![cur] = "ret"]
        /\ UNCHANGED <<currentThread, readyList, exist, status, hasWqt, wq, irq,
                       enabled, exitSeen, ended>>
    BY <1>6 DEF thread_yield_self, SelfTid
  <2>2. FieldTypes'
    <3>1. pc' \in [Tids -> PCs] /\ arg' \in [Tids -> Tids \cup {NoTid}]
          /\ nextThreadID' \in [Tids -> Tids \cup {NoTid}]
      BY <1>1, <2>1 DEF IInv, FieldTypes, PCs
    <3>2. stack' \in [Tids -> BOOLEAN]
      BY <2>1, ReapedSpares
    <3> QED BY <2>1, <3>1, <3>2 DEF IInv, FieldTypes
  <2>3. pc'[cur] # "dead" /\ \A t \in Tids \ {cur} : pc'[t] = pc[t] /\ arg'[t] = arg[t]
    BY <1>1, <2>1 DEF IInv, FieldTypes
  <2> QED BY <2>1, <2>2, <2>3, LocalStep
<1>7. CASE thread_exit
  BY <1>7, ExitStep
<1>8. CASE thread_exit_last
  <2>1. /\ readyList \o WokenByExit = <<>>
        /\ hasWqt' = [hasWqt EXCEPT ![cur] = FALSE]
        /\ wq' = [wq EXCEPT ![cur] = <<>>] /\ ended' \in {FALSE, cur # 0}
        /\ UNCHANGED <<currentThread, readyList, exist, status, nextThreadID, stack>>
        /\ UNCHANGED <<pc, arg, irq, enabled, exitSeen>> /\ pc[cur] = "user"
    BY <1>8 DEF thread_exit_last, EndsProcess, self, InUser
  <2>2. wq[cur] = <<>>
    BY <2>1, WokenAre, ConcatEqualIffEmpty DEF IInv, Placed
  <2>3. wq' = wq
    BY <1>1, <1>2, <2>1, <2>2 DEF IInv, Placed
  <2>4. FieldTypes'
    <3>1. hasWqt' \in [Tids -> BOOLEAN]
      BY <1>1, <2>1, BooleanField DEF IInv, FieldTypes
    <3>2. ended' \in BOOLEAN
      BY <2>1, Zenon
    <3> QED BY <2>1, <3>1, <3>2 DEF IInv, FieldTypes
  <2>5. \A t \in Tids : wq[t] # <<>> /\ hasWqt[t] => hasWqt'[t]
    BY <1>1, <2>1, <2>2 DEF IInv, FieldTypes
  <2> QED BY <2>1, <2>3, <2>4, <2>5, LocalStep
<1>9. ASSUME NEW q \in UserQueues, thread_sleep(q) PROVE IInv'
  <2>1. SleepIn(q, "sleep")
        /\ UNCHANGED <<exist, nextThreadID, stack, hasWqt, arg, irq, enabled, exitSeen, ended>>
    BY <1>9 DEF thread_sleep
  <2>2. FieldTypes'
    BY <1>1, <2>1 DEF IInv, FieldTypes, PCs, SleepIn
  <2> QED BY <1>2, <2>1, <2>2, SleepStep
<1>10. ASSUME NEW q \in UserQueues, NEW all \in BOOLEAN, thread_wakeup(q, all)
       PROVE  IInv'
  <2> DEFINE n == IF all THEN Len(wq[q]) ELSE 1
  <2>1. /\ wq[q] # <<>> /\ Wake(q, n)
        /\ UNCHANGED <<currentThread, exist, nextThreadID, stack, hasWqt, self, ended>>
    BY <1>10 DEF thread_wakeup
  <2>2. Len(wq[q]) \in Nat \ {0}
    BY <1>2, <2>1, EmptySeq DEF IInv, Placed
  <2>3. n \in 0..Len(wq[q])
    BY <2>2
  <2> HIDE DEF n
  <2> QED BY <2>1, <2>3, WakeStep
<1>11. ASSUME NEW tid \in Tids, thread_wait(tid) PROVE IInv'
  BY <1>11, WaitStep
<1>12. CASE Resume
  <2>1. /\ UNCHANGED <<currentThread, readyList, wq, irq, ended>>
        /\ UNCHANGED <<exist, status, nextThreadID, stack, hasWqt>>
        /\ pc' = [pc EXCEPT ![cur] = "user"]
        /\ enabled' = [enabled EXCEPT ![cur] = @ \/ pc[cur] = "start"]
        /\ arg' = [arg EXCEPT ![cur] = NoTid]
        /\ exitSeen' = [exitSeen EXCEPT ![cur] = FALSE]
    BY <1>12 DEF Resume, tcb
  <2>2. FieldTypes'
    <3>1. pc' \in [Tids -> PCs] /\ arg' \in [Tids -> Tids \cup {NoTid}]
      BY <1>1, <2>1 DEF IInv, FieldTypes, PCs
    <3>2. exitSeen' \in [Tids -> BOOLEAN]
      BY <1>1, <2>1, BooleanField DEF IInv, FieldTypes
    <3>3. enabled' \in [Tids -> BOOLEAN]
      BY <1>1, <2>1, Zenon DEF IInv, FieldTypes
    <3> QED BY <2>1, <3>1, <3>2, <3>3 DEF IInv, FieldTypes
  <2>3. /\ pc'[cur] # "dead"
        /\ \A t \in Tids \ {cur} : /\ pc'[t] = pc[t] /\ arg'[t] = arg[t]
                                   /\ exitSeen'[t] <=> exitSeen[t]
    BY <1>1, <2>1 DEF IInv, FieldTypes
  <2> QED BY <2>1, <2>2, <2>3, LocalStep
<1>13. CASE YieldResume \/ YieldReturn
  <2>1. /\ UNCHANGED <<currentThread, readyList, wq, irq, ended, enabled, exitSeen>>
        /\ UNCHANGED <<exist, status, stack, hasWqt>>
        /\ pc' = [pc EXCEPT ![cur] = "ret"] \/ pc' = [pc EXCEPT ![cur] = "user"]
        /\ arg' = arg \/ arg' = [arg EXCEPT ![cur] = NoTid]
        /\ \/ nextThreadID' = nextThreadID
           \/ nextThreadID' = [nextThreadID EXCEPT ![cur] = NoTid]
    BY <1>13 DEF YieldResume, YieldReturn, tcb
  <2>2. FieldTypes'
    BY <1>1, <2>1 DEF IInv, FieldTypes, PCs
  <2>3. pc'[cur] # "dead" /\ \A t \in Tids \ {cur} : pc'[t] = pc[t] /\ arg'[t] = arg[t]
    BY <1>1, <2>1 DEF IInv, FieldTypes
  <2> QED BY <2>1, <2>2, <2>3, LocalStep
<1>14. CASE IrqReturn
  <2>1. /\ UNCHANGED <<currentThread, readyList, exist, status, stack, hasWqt, wq,
                       pc, arg, enabled, exitSeen, ended>>
        /\ irq' = [irq EXCEPT ![cur] = FALSE]
        /\ \/ nextThreadID' = [nextThreadID EXCEPT ![cur] = nextThreadID[cur]]
           \/ nextThreadID' = [nextThreadID EXCEPT ![cur] = NoTid]
    BY <1>14 DEF IrqReturn
  <2>2. FieldTypes'
    <3>1. irq' \in [Tids -> BOOLEAN]
      BY <1>1, <2>1, BooleanField DEF IInv, FieldTypes
    <3>2. nextThreadID' \in [Tids -> Tids \cup {NoTid}]
      BY <1>1, <2>1 DEF IInv, FieldTypes
    <3> QED BY <2>1, <3>1, <3>2 DEF IInv, FieldTypes
  <2>3. pc'[cur] # "dead"
    BY <1>1, <2>1 DEF IInv, Placed, Alive
  <2> QED BY <2>1, <2>2, <2>3, LocalStep
<1>15. CASE Preempt
  <2>1. /\ SwitchTo(1) /\ readyList # <<>> /\ pc[cur] \in {"user", "ret"}
        /\ irq' = [irq EXCEPT ![cur] = TRUE]
        /\ UNCHANGED <<exist, hasWqt, wq, pc, arg, enabled, exitSeen, ended>>
    BY <1>15 DEF Preempt, AnyPlace
  <2>2. 1 \in DOMAIN readyList /\ readyList[1] \in Tids
    BY <2>1, EmptySeq, LenProperties, ElementOfSeq DEF IInv, Placed
  <2>3. FieldTypes'
    <3>1. irq' \in [Tids -> BOOLEAN]
      BY <1>1, <2>1, BooleanField DEF IInv, FieldTypes
    <3>2. nextThreadID' \in [Tids -> Tids \cup {NoTid}]
      BY <1>1, <2>1, <2>2 DEF IInv, FieldTypes, SwitchTo
    <3>3. stack' \in [Tids -> BOOLEAN]
      BY <2>1, ReapedSpares DEF SwitchTo
    <3> QED BY <2>1, <3>1, <3>2, <3>3 DEF IInv, FieldTypes
  <2> QED BY <2>1, <2>2, <2>3, SwitchStep
<1>16. CASE Ended
  <2>1. /\ UNCHANGED <<currentThread, readyList, wq, ended>>
        /\ UNCHANGED <<exist, status, nextThreadID, stack, hasWqt>>
        /\ UNCHANGED <<pc, arg, irq, enabled, exitSeen>>
    BY <1>16 DEF Ended, vars, tcb, self
  <2>2. FieldTypes'
    BY <2>1 DEF IInv, FieldTypes
  <2>3. pc'[cur] # "dead"
    BY <1>1, <2>1 DEF IInv, Placed, Alive
  <2> QED BY <2>1, <2>2, <2>3, LocalStep
<1> QED BY <1>3, <1>4, <1>5, <1>6, <1>7, <1>8, <1>9, <1>10, <1>11, <1>12, <1>13,
          <1>14, <1>15, <1>16 DEF Next, Call, Continue

\* A step that changes nothing preserves it too.
LEMMA InductiveStutter == ASSUME IInv, UNCHANGED vars PROVE IInv'
BY DEF vars, tcb, self, IInv, FieldTypes, Placed, Alive, cur, StackLifetime,
       NoOrphanWaiter, AliveExist, WaitersPlaced, WokenSawExit

\* The invariant holds in every reachable state.
THEOREM Invariance == Spec => []IInv
<1>1. IInv /\ [Next]_vars => IInv'
  BY InductiveNext, InductiveStutter
<1> QED BY InductiveInit, <1>1, PTL DEF Spec

\* A thread that is in thread_yield has the identifier of a thread to return,
\* and the timer does not interrupt it before it has been resumed.
ResultKnown ==
    \A t \in Tids :
        /\ pc[t] \in {"yield", "ret"} => nextThreadID[t] \in Tids
        /\ irq[t] => pc[t] \in {"user", "ret"}

\* Every way to leave the processor by thread_yield sets the result again.
LEMMA ResultStep == ASSUME IInv, ResultKnown, Next PROVE ResultKnown'
<1>1. /\ cur \in Tids /\ cur = currentThread /\ exist[cur]
      /\ pc \in [Tids -> PCs] /\ irq \in [Tids -> BOOLEAN]
      /\ nextThreadID \in [Tids -> Tids \cup {NoTid}]
  BY DEF IInv, FieldTypes, Placed, AliveExist, Alive, cur
<1>2. \A i \in DOMAIN readyList : readyList[i] \in Tids
  BY LenProperties, ElementOfSeq DEF IInv, Placed
<1>3. \A t \in FreeTids : t \in Tids /\ pc[t] = "dead"
  BY DEF FreeTids, IInv, AliveExist, Alive
<1>4. ASSUME NEW t \in Tids, NEW p, p \notin {"yield", "ret"}, pc[t] = "dead" \/ ~irq[t],
             pc' = [pc EXCEPT ![t] = p], irq' = irq,
             \A u \in Tids \ {t} : nextThreadID'[u] = nextThreadID[u]
      PROVE  ResultKnown'
  BY <1>1, <1>4 DEF ResultKnown
<1>5. CASE thread_create \/ thread_create_nomemory
  <2>1. PICK t \in FreeTids : /\ nextThreadID' = [nextThreadID EXCEPT ![t] = NoTid]
                              /\ pc' = [pc EXCEPT ![t] = "start"] \/ pc' = pc
                              /\ irq' = irq
    BY <1>5 DEF thread_create, thread_create_nomemory
  <2> QED BY <1>1, <1>3, <2>1 DEF ResultKnown
<1>6. CASE thread_create_nomore \/ thread_exit_last \/ Ended
  BY <1>6 DEF thread_create_nomore, thread_exit_last, Ended, vars, tcb, self, ResultKnown
<1>7. CASE thread_yield \/ thread_yield_self
  BY <1>1, <1>2, <1>7
     DEF thread_yield, thread_yield_self, SwitchTo, SelfTid, InUser, ResultKnown
<1>8. CASE thread_exit
  BY <1>1, <1>4, <1>8 DEF thread_exit, InUser
<1>9. ASSUME NEW q \in UserQueues, thread_sleep(q) PROVE ResultKnown'
  BY <1>1, <1>4, <1>9 DEF thread_sleep, SleepIn, InUser
<1>10. ASSUME NEW q \in UserQueues, NEW all \in BOOLEAN, thread_wakeup(q, all)
       PROVE  ResultKnown'
  BY <1>10 DEF thread_wakeup, self, ResultKnown
<1>11. ASSUME NEW tid \in Tids, thread_wait(tid) PROVE ResultKnown'
  BY <1>1, <1>4, <1>11 DEF thread_wait, SleepIn, InUser
<1>12. CASE Resume \/ YieldReturn
  <2>1. /\ ~irq[cur] /\ irq' = irq /\ pc' = [pc EXCEPT ![cur] = "user"]
        /\ nextThreadID' = nextThreadID
           \/ nextThreadID' = [nextThreadID EXCEPT ![cur] = NoTid]
    BY <1>12 DEF Resume, YieldReturn, tcb
  <2> QED BY <1>1, <1>4, <2>1
<1>13. CASE YieldResume
  BY <1>1, <1>13 DEF YieldResume, tcb, ResultKnown
<1>14. CASE IrqReturn
  BY <1>1, <1>14 DEF IrqReturn, ResultKnown
<1>15. CASE Preempt
  <2>1. 1 \in DOMAIN readyList
    BY <1>15, EmptySeq, LenProperties DEF Preempt, IInv, Placed
  <2> QED BY <1>1, <1>2, <1>15, <2>1 DEF Preempt, SwitchTo, AnyPlace, ResultKnown
<1> QED BY <1>5, <1>6, <1>7, <1>8, <1>9, <1>10, <1>11, <1>12, <1>13, <1>14, <1>15
       DEF Next, Call, Continue

\* Every field keeps its type, and what thread_yield reads for its result is
\* the identifier of a thread.
THEOREM TypeCorrect == Spec => []TypeOK
<1>1. Init => ResultKnown
  BY DEF Init, ResultKnown
<1>2. IInv /\ ResultKnown /\ [Next]_vars => ResultKnown'
  <2>1. ASSUME UNCHANGED vars, ResultKnown PROVE ResultKnown'
    BY <2>1 DEF vars, tcb, self, ResultKnown
  <2> QED BY ResultStep, <2>1
<1>3. IInv /\ ResultKnown => TypeOK
  BY DEF IInv, FieldTypes, Placed, TypeOK, Statuses, cur, ResultKnown
<1> QED BY Invariance, <1>1, <1>2, <1>3, PTL DEF Spec

\* No thread is lost and none stands in two places.
THEOREM NobodyLostSafe == Spec => []NobodyLost
<1>1. IInv => NobodyLost
  BY InvariantImplies
<1> QED BY Invariance, <1>1, PTL

\* The stack of a thread lives exactly as long as the thread.
THEOREM StackSafe == Spec => []StackLifetime
<1>1. IInv => StackLifetime
  BY InvariantImplies
<1> QED BY Invariance, <1>1, PTL

\* thread_exit leaves nobody behind in the queue it frees.
THEOREM WaitQueueSafe == Spec => []NoOrphanWaiter
<1>1. IInv => NoOrphanWaiter
  BY InvariantImplies
<1> QED BY Invariance, <1>1, PTL

\* thread_wait ends only after the exit it waits for.
THEOREM WaitSafe == Spec => []WokenWaiterSawExit
<1>1. IInv => WokenWaiterSawExit
  BY InvariantImplies
<1> QED BY Invariance, <1>1, PTL

-----------------------------------------------------------------------------
(* Nobody is overtaken in the ready list.                                  *)

\* What list r keeps of list s stands no further from the head.
KeepsOrder(s, r) ==
    \A i \in DOMAIN s, j \in DOMAIN r : s[i] = r[j] => j <= i

\* A list that is left alone.
LEMMA SameOrder ==
  ASSUME NEW s \in Seq(Tids), IsInjective(s)
  PROVE  KeepsOrder(s, s)
BY LenProperties DEF KeepsOrder, IsInjective

\* The thread at place i leaves and a thread that was not there joins.
LEMMA SwitchOrder ==
  ASSUME NEW s \in Seq(Tids), IsInjective(s), NEW i \in 1..Len(s),
         NEW c \in Tids, c \notin ToSet(s)
  PROVE  KeepsOrder(s, Append(RemoveAt(s, i), c))
<1> DEFINE m == RemoveAt(s, i)
           r == Append(m, c)
<1>1. /\ m \in Seq(Tids) /\ Len(m) = Len(s) - 1
      /\ \A j \in 1..Len(s) - 1 : m[j] = IF j < i THEN s[j] ELSE s[j + 1]
  BY RemoveAtProperties
<1> HIDE DEF m
<1>2. /\ r \in Seq(Tids) /\ Len(r) = Len(m) + 1 /\ r[Len(m) + 1] = c
      /\ \A j \in 1..Len(m) : r[j] = m[j]
  BY <1>1, AppendProperties
<1> HIDE DEF r
<1>3. DOMAIN s = 1..Len(s) /\ Len(s) \in Nat /\ DOMAIN r = 1..Len(s)
  BY <1>1, <1>2, LenProperties
<1>4. ASSUME NEW a \in DOMAIN s, NEW j \in DOMAIN r, s[a] = r[j] PROVE j <= a
  <2>1. CASE j = Len(s)
    <3>1. r[j] = c
      BY <1>1, <1>2, <1>3, <2>1
    <3> QED BY <1>4, <3>1 DEF ToSet
  <2>2. CASE j # Len(s)
    <3>1. j \in 1..Len(s) - 1 /\ j \in DOMAIN s /\ j + 1 \in DOMAIN s
      BY <1>3, <2>2
    <3>2. r[j] = s[j] \/ r[j] = s[j + 1]
      BY <1>1, <1>2, <3>1
    <3>3. a = j \/ a = j + 1
      BY <1>4, <3>1, <3>2 DEF IsInjective
    <3> QED BY <1>3, <3>1, <3>3
  <2> QED BY <2>1, <2>2
<1> QED BY <1>4 DEF KeepsOrder, r, m

\* The head leaves.
LEMMA TailOrder ==
  ASSUME NEW s \in Seq(Tids), IsInjective(s), s # <<>>
  PROVE  KeepsOrder(s, Tail(s))
<1> DEFINE r == Tail(s)
<1>1. /\ r \in Seq(Tids) /\ Len(r) = Len(s) - 1 /\ Len(s) \in Nat
      /\ \A j \in 1..Len(s) - 1 : r[j] = s[j + 1]
  BY HeadTailProperties, LenProperties
<1> HIDE DEF r
<1>2. DOMAIN s = 1..Len(s) /\ DOMAIN r = 1..Len(s) - 1
  BY <1>1, LenProperties
<1>3. ASSUME NEW a \in DOMAIN s, NEW j \in DOMAIN r, s[a] = r[j] PROVE j <= a
  <2>1. j + 1 \in DOMAIN s /\ r[j] = s[j + 1]
    BY <1>1, <1>2
  <2>2. a = j + 1
    BY <1>3, <2>1 DEF IsInjective
  <2> QED BY <1>2, <2>2
<1> QED BY <1>3 DEF KeepsOrder, r

\* Others join at the end.
LEMMA JoinOrder ==
  ASSUME NEW s \in Seq(Tids), IsInjective(s), NEW t \in Seq(Tids),
         ToSet(s) \cap ToSet(t) = {}
  PROVE  KeepsOrder(s, s \o t)
<1> DEFINE r == s \o t
<1>1. /\ r \in Seq(Tids) /\ Len(r) = Len(s) + Len(t)
      /\ \A j \in 1..Len(s) + Len(t) :
            r[j] = IF j <= Len(s) THEN s[j] ELSE t[j - Len(s)]
  BY ConcatProperties
<1> HIDE DEF r
<1>2. /\ DOMAIN s = 1..Len(s) /\ Len(s) \in Nat /\ DOMAIN t = 1..Len(t)
      /\ Len(t) \in Nat /\ DOMAIN r = 1..Len(s) + Len(t)
  BY <1>1, LenProperties
<1>3. ASSUME NEW a \in DOMAIN s, NEW j \in DOMAIN r, s[a] = r[j] PROVE j <= a
  <2>1. CASE j <= Len(s)
    <3>1. j \in DOMAIN s /\ r[j] = s[j]
      BY <1>1, <1>2, <2>1
    <3>2. a = j
      BY <1>3, <3>1 DEF IsInjective
    <3> QED BY <1>2, <3>2
  <2>2. CASE ~(j <= Len(s))
    <3>1. j - Len(s) \in DOMAIN t /\ r[j] = t[j - Len(s)]
      BY <1>1, <1>2, <2>2
    <3> QED BY <1>3, <3>1 DEF ToSet
  <2> QED BY <2>1, <2>2
<1> QED BY <1>3 DEF KeepsOrder, r

\* Others join at the end, and then the head leaves.
LEMMA JoinTailOrder ==
  ASSUME NEW s \in Seq(Tids), NEW t \in Seq(Tids), IsInjective(s \o t), s \o t # <<>>
  PROVE  KeepsOrder(s, Tail(s \o t))
<1>1. s \o t \in Seq(Tids) /\ Len(s \o t) = Len(s) + Len(t)
      /\ \A j \in 1..Len(s) + Len(t) :
            (s \o t)[j] = IF j <= Len(s) THEN s[j] ELSE t[j - Len(s)]
  BY ConcatProperties
<1>2. KeepsOrder(s \o t, Tail(s \o t))
  BY <1>1, TailOrder
<1>3. \A a \in DOMAIN s : a \in DOMAIN (s \o t) /\ (s \o t)[a] = s[a]
  BY <1>1, LenProperties
<1> QED BY <1>2, <1>3 DEF KeepsOrder

\* A step of the scheduler overtakes nobody.
LEMMA OrderStep == ASSUME IInv, Next PROVE KeepsOrder(readyList, readyList')
<1>1. /\ readyList \in Seq(Tids) /\ IsInjective(readyList) /\ cur \in Tids
      /\ wq \in [Queues -> Seq(Tids)] /\ \A q \in Queues : IsInjective(wq[q])
  BY DEF IInv, Placed
<1>2. /\ cur \notin ToSet(readyList)
      /\ \A q \in Queues : ToSet(readyList) \cap ToSet(wq[q]) = {}
  BY Apart DEF IInv
<1>3. readyList' = readyList => KeepsOrder(readyList, readyList')
  BY <1>1, SameOrder
<1>4. ASSUME thread_create PROVE KeepsOrder(readyList, readyList')
  <2>1. PICK n \in FreeTids : readyList' = Append(readyList, n)
    BY <1>4 DEF thread_create
  <2>2. n \in Tids /\ n \notin ToSet(readyList)
    BY DEF FreeTids, IInv, AliveExist, Placed
  <2>3. readyList' = readyList \o <<n>> /\ <<n>> \in Seq(Tids)
    BY <1>1, <2>1, <2>2, AppendIsConcat
  <2>4. ToSet(readyList) \cap ToSet(<<n>>) = {}
    BY <2>2 DEF ToSet
  <2> QED BY <1>1, <2>3, <2>4, JoinOrder
<1>5. ASSUME NEW i \in DOMAIN readyList, SwitchTo(i)
      PROVE  KeepsOrder(readyList, readyList')
  <2>1. exist[cur]
    BY <1>1 DEF IInv, AliveExist, Placed
  <2>2. readyList' = Append(RemoveAt(readyList, i), cur)
    BY <1>5, <2>1 DEF SwitchTo, BackInLine
  <2> QED BY <1>1, <1>2, <2>2, SwitchOrder, LenProperties
<1>6. ASSUME NEW q, NEW label, SleepIn(q, label)
      PROVE  KeepsOrder(readyList, readyList')
  BY <1>1, <1>6, TailOrder DEF SleepIn
<1>7. ASSUME thread_exit PROVE KeepsOrder(readyList, readyList')
  <2>1. /\ WokenByExit = wq[cur] /\ cur \in Queues
        /\ wq[cur] \in Seq(Tids) /\ IsInjective(wq[cur])
    BY WokenAre
  <2>2. readyList' = Tail(readyList \o wq[cur]) /\ readyList \o wq[cur] # <<>>
    BY <1>7, <2>1 DEF thread_exit
  <2>3. IsInjective(readyList \o wq[cur])
    BY <1>1, <1>2, <2>1, ConcatElements
  <2> QED BY <1>1, <2>1, <2>2, <2>3, JoinTailOrder
<1>8. ASSUME NEW q \in UserQueues, NEW all \in BOOLEAN, thread_wakeup(q, all)
      PROVE  KeepsOrder(readyList, readyList')
  <2> DEFINE n == IF all THEN Len(wq[q]) ELSE 1
             f == SubSeq(wq[q], 1, n)
  <2>1. wq[q] # <<>> /\ readyList' = readyList \o f /\ q \in Queues
    BY <1>8 DEF thread_wakeup, Wake, Queues
  <2>2. wq[q] \in Seq(Tids) /\ IsInjective(wq[q])
    BY <1>1, <2>1
  <2>3. n \in 0..Len(wq[q])
    BY <2>1, <2>2, EmptySeq
  <2> HIDE DEF n
  <2>4. f \in Seq(Tids) /\ ToSet(f) \subseteq ToSet(wq[q])
    BY <2>2, <2>3, SplitElements
  <2> HIDE DEF f
  <2>5. ToSet(readyList) \cap ToSet(f) = {}
    BY <1>2, <2>1, <2>4
  <2> QED BY <1>1, <2>1, <2>4, <2>5, JoinOrder
<1>9. CASE Call
  <2>1. ASSUME NEW tid \in Tids, thread_wait(tid)
        PROVE  KeepsOrder(readyList, readyList')
    BY <1>3, <1>6, <2>1 DEF thread_wait
  <2>2. thread_create_nomore \/ thread_create_nomemory \/ thread_yield_self
          \/ thread_exit_last => readyList' = readyList
    BY DEF thread_create_nomore, thread_create_nomemory, thread_yield_self,
           thread_exit_last
  <2>3. ASSUME NEW q \in UserQueues, thread_sleep(q)
        PROVE  KeepsOrder(readyList, readyList')
    BY <1>6, <2>3 DEF thread_sleep
  <2>4. ASSUME thread_yield PROVE KeepsOrder(readyList, readyList')
    BY <1>5, <2>4 DEF thread_yield
  <2> QED BY <1>3, <1>4, <1>7, <1>8, <1>9, <2>1, <2>2, <2>3, <2>4 DEF Call
<1>10. CASE Continue \/ Ended
  BY <1>3, <1>10 DEF Continue, Resume, YieldResume, YieldReturn, IrqReturn, Ended, vars
<1>11. CASE Preempt
  <2>1. 1 \in DOMAIN readyList /\ SwitchTo(1)
    BY <1>1, <1>11, EmptySeq, LenProperties DEF Preempt, AnyPlace
  <2> QED BY <1>5, <2>1
<1> QED BY <1>9, <1>10, <1>11 DEF Next

\* The ready list is first come, first served: no step of any thread lets a
\* thread stand further from its head than before.
THEOREM OrderKept == Spec => NeverOvertaken
<1>1. IInv /\ [Next]_vars =>
        [\A i \in DOMAIN readyList, j \in DOMAIN readyList' :
             readyList[i] = readyList'[j] => j <= i]_vars
  BY OrderStep DEF KeepsOrder
<1> QED BY Invariance, <1>1, PTL DEF Spec, NeverOvertaken

-----------------------------------------------------------------------------
(* Locks and condition variables.                                          *)

Asleep == {"acquire", "cvwait"}    \* where a thread is to take a lock next

LockTypes ==
    /\ avaliable \in [Locks -> BOOLEAN]
    /\ acquiredID \in [Locks -> Tids \cup {NoTid}]
    /\ onLock \in [Tids -> Locks \cup {NoLock}]
    /\ hold \in [Tids -> SUBSET Locks]
    /\ misused \in BOOLEAN

\* A held lock is not available and has the holder's identifier.
HoldersKnown ==
    ~misused => \A t \in Tids : \A l \in hold[t] : ~avaliable[l] /\ acquiredID[l] = t

\* A lock that is not available has a holder.
LockIsHeld ==
    ~misused => \A l \in Locks : ~avaliable[l] =>
                     acquiredID[l] \in Tids /\ l \in hold[acquiredID[l]]

\* A thread in lock_acquire or cv_wait is to take a lock it does not hold.
ToAcquire ==
    \A t \in Tids : pc[t] \in Asleep => onLock[t] \in Locks /\ onLock[t] \notin hold[t]

\* Nobody exits with a lock.
HoldersAlive == \A t \in Tids : hold[t] # {} => pc[t] # "dead"

\* The queues of locks and condition variables hold threads that are to take
\* a lock next, the other ones threads that called thread_sleep.
SleepingIn(q)  == IF q \in Locks \cup CVs THEN Asleep ELSE {"sleep"}
SleepersPlaced == \A q \in UserQueues : \A u \in ToSet(wq[q]) : pc[u] \in SleepingIn(q)

LInv == /\ IInv /\ LockTypes /\ NobodySleepsOnFreeLock /\ HoldersKnown
        /\ LockIsHeld /\ ToAcquire /\ HoldersAlive /\ SleepersPlaced

\* The queues of the locks and condition variables are queues of the user.
LEMMA LockQueuesApart ==
  /\ \A l \in Locks : /\ l \in UserQueues /\ l \in Queues /\ l \notin Tids
                       /\ l # NoLock /\ SleepingIn(l) = Asleep
  /\ \A c \in CVs : /\ c \in UserQueues /\ c \in Queues /\ c \notin Tids
                     /\ c \notin Locks /\ SleepingIn(c) = Asleep
BY QueuesAssumption, UserQueuesAssumption DEF Queues, SleepingIn

\* lock_create: nobody holds anything.
LEMMA LInit_LInv == LInit => LInv
<1> SUFFICES ASSUME LInit PROVE LInv
  OBVIOUS
<1>1. IInv
  BY InductiveInit DEF LInit
<1>2. LockTypes
  <2>1. /\ acquiredID \in [Locks -> Tids \cup {NoTid}]
        /\ onLock \in [Tids -> Locks \cup {NoLock}] /\ hold \in [Tids -> SUBSET Locks]
    BY DEF LInit
  <2>2. avaliable \in [Locks -> BOOLEAN] /\ misused \in BOOLEAN
    BY Zenon DEF LInit
  <2> QED BY <2>1, <2>2 DEF LockTypes
<1>3. \A q \in Queues : wq[q] = <<>> /\ ToSet(wq[q]) = {}
  BY DEF LInit, Init, ToSet
<1>4. NobodySleepsOnFreeLock /\ SleepersPlaced
  BY <1>3, LockQueuesApart DEF NobodySleepsOnFreeLock, SleepersPlaced, Queues
<1>5. HoldersKnown /\ LockIsHeld /\ HoldersAlive
  BY DEF LInit, HoldersKnown, LockIsHeld, HoldersAlive
<1>6. ToAcquire
  BY DEF LInit, Init, ToAcquire, Asleep
<1> QED BY <1>1, <1>2, <1>4, <1>5, <1>6 DEF LInv

-----------------------------------------------------------------------------
(* The steps.                                                              *)

\* What the lock steps need of the invariant of the scheduler.
LEMMA CurFacts ==
  ASSUME IInv
  PROVE  /\ cur \in Tids /\ pc \in [Tids -> PCs] /\ wq \in [Queues -> Seq(Tids)]
         /\ pc[cur] # "dead" /\ cur \notin ToSet(readyList)
         /\ \A q \in Queues : cur \notin ToSet(wq[q]) /\ ToSet(wq[q]) \subseteq Tids
<1>1. /\ cur \in Tids /\ pc \in [Tids -> PCs] /\ wq \in [Queues -> Seq(Tids)]
      /\ pc[cur] # "dead"
  BY DEF IInv, FieldTypes, Placed, Alive
<1> QED BY <1>1, Apart DEF IInv

\* What a step of the scheduler does to what the locks rely on when their
\* queues are left alone: nothing happens to the threads in lock_acquire and
\* cv_wait, only the running thread exits, and whoever goes to sleep does so in
\* thread_sleep.
LEMMA SchedEffects ==
  ASSUME IInv, Next, SleepersPlaced, \A q \in Locks \cup CVs : wq'[q] = wq[q]
  PROVE  /\ SleepersPlaced'
         /\ \A t \in Tids :
               /\ pc[t] \in Asleep \/ pc'[t] \in Asleep => pc'[t] = pc[t]
               /\ pc'[t] = "dead" /\ pc[t] # "dead" => t = cur
<1> DEFINE Effects ==
         /\ SleepersPlaced'
         /\ \A t \in Tids :
               /\ pc[t] \in Asleep \/ pc'[t] \in Asleep => pc'[t] = pc[t]
               /\ pc'[t] = "dead" /\ pc[t] # "dead" => t = cur
<1>1. /\ pc \in [Tids -> PCs] /\ wq \in [Queues -> Seq(Tids)]
      /\ cur \in Tids /\ pc[cur] # "dead"
      /\ \A q \in Queues : cur \notin ToSet(wq[q]) /\ ToSet(wq[q]) \subseteq Tids
  BY CurFacts
<1>2. \A q \in UserQueues : q \in Queues /\ q \notin Tids
  BY UserQueuesAssumption DEF Queues
<1>3. ASSUME NEW p \in PCs \ Asleep, NEW t \in Tids, pc[t] \notin Asleep,
             pc' = [pc EXCEPT ![t] = p], p = "dead" => t = cur,
             \A q \in UserQueues : wq'[q] = wq[q] /\ t \notin ToSet(wq[q])
      PROVE  Effects
  BY <1>1, <1>2, <1>3 DEF SleepersPlaced
<1>4. ASSUME pc' = pc, \A q \in UserQueues : ToSet(wq'[q]) \subseteq ToSet(wq[q])
      PROVE  Effects
  BY <1>4 DEF SleepersPlaced
<1>5. CASE thread_create
  <2>1. PICK n \in FreeTids : wq' = [wq EXCEPT ![n] = <<>>]
                              /\ pc' = [pc EXCEPT ![n] = "start"]
    BY <1>5 DEF thread_create
  <2>2. n \in Tids /\ pc[n] = "dead" /\ \A q \in Queues : n \notin ToSet(wq[q])
    BY DEF FreeTids, IInv, AliveExist, Alive, Placed
  <2>3. \A q \in UserQueues : wq'[q] = wq[q] /\ n \notin ToSet(wq[q])
    BY <1>1, <1>2, <2>1, <2>2
  <2> QED BY <1>3, <2>1, <2>2, <2>3 DEF PCs, Asleep
<1>6. CASE thread_create_nomemory
  <2>1. PICK n \in FreeTids : wq' = [wq EXCEPT ![n] = <<>>] /\ pc' = pc
    BY <1>6 DEF thread_create_nomemory
  <2> QED BY <1>1, <1>2, <1>4, <2>1 DEF FreeTids
<1>7. CASE thread_create_nomore
  BY <1>4, <1>7 DEF thread_create_nomore
<1>8. CASE thread_yield \/ thread_yield_self
  BY <1>1, <1>2, <1>3, <1>8 DEF thread_yield, thread_yield_self, InUser, PCs, Asleep
<1>9. CASE thread_exit
  <2>1. /\ pc[cur] = "user" /\ wq' = [wq EXCEPT ![cur] = <<>>]
        /\ pc' = [pc EXCEPT ![cur] = "dead"]
    BY <1>9 DEF thread_exit, InUser
  <2>2. \A q \in UserQueues : wq'[q] = wq[q] /\ cur \notin ToSet(wq[q])
    BY <1>1, <1>2, <2>1
  <2> QED BY <1>1, <1>3, <2>1, <2>2 DEF PCs, Asleep
<1>10. CASE thread_exit_last
  BY <1>1, <1>2, <1>4, <1>10 DEF thread_exit_last, self
<1>11. ASSUME NEW tid \in Tids, thread_wait(tid) PROVE Effects
  <2>1. \A q \in UserQueues : wq'[q] = wq[q]
    BY <1>1, <1>2, <1>11 DEF thread_wait, SleepIn, WaitQueueOf, Queues
  <2>2. pc' = [pc EXCEPT ![cur] = "wait"] /\ pc[cur] = "user"
    BY <1>11 DEF thread_wait, SleepIn, InUser
  <2> QED BY <1>1, <1>2, <1>3, <2>1, <2>2 DEF PCs, Asleep
<1>12. ASSUME NEW q \in UserQueues, thread_sleep(q) PROVE Effects
  <2>1. /\ wq' = [wq EXCEPT ![q] = Append(@, cur)] /\ pc[cur] = "user"
        /\ pc' = [pc EXCEPT ![cur] = "sleep"]
    BY <1>12 DEF thread_sleep, SleepIn, InUser
  <2>2. ToSet(wq'[q]) = ToSet(wq[q]) \cup {cur} /\ \A r \in Queues \ {q} : wq'[r] = wq[r]
    BY <1>1, <1>2, <2>1, AppendElements
  <2>3. q \notin Locks \cup CVs /\ SleepingIn(q) = {"sleep"}
    BY <1>1, <1>2, <2>2 DEF SleepingIn
  <2>4. pc'[cur] = "sleep" /\ \A t \in Tids \ {cur} : pc'[t] = pc[t]
    BY <1>1, <2>1
  <2>5. SleepersPlaced'
    <3> SUFFICES ASSUME NEW r \in UserQueues, NEW u \in ToSet(wq'[r])
                 PROVE  pc'[u] \in SleepingIn(r)
      BY DEF SleepersPlaced
    <3>1. CASE u = cur
      <4>1. r = q
        BY <1>1, <1>2, <2>2, <3>1
      <4> QED BY <2>3, <2>4, <3>1, <4>1
    <3>2. CASE u # cur
      <4>1. u \in ToSet(wq[r]) /\ u \in Tids
        BY <1>1, <1>2, <2>2, <3>2
      <4> QED BY <2>4, <3>2, <4>1 DEF SleepersPlaced
    <3> QED BY <3>1, <3>2
  <2> QED BY <1>1, <2>1, <2>4, <2>5 DEF Asleep
<1>13. ASSUME NEW q \in UserQueues, NEW all \in BOOLEAN, thread_wakeup(q, all)
       PROVE  Effects
  <2> DEFINE n == IF all THEN Len(wq[q]) ELSE 1
  <2>1. /\ wq[q] # <<>> /\ pc' = pc
        /\ wq' = [wq EXCEPT ![q] = SubSeq(@, n + 1, Len(@))]
    BY <1>13 DEF thread_wakeup, Wake, self
  <2>2. q \in Queues /\ wq[q] \in Seq(Tids) /\ IsInjective(wq[q])
    BY <1>2 DEF IInv, Placed
  <2>3. n \in 0..Len(wq[q])
    BY <2>1, <2>2, EmptySeq
  <2> HIDE DEF n
  <2>4. ToSet(SubSeq(wq[q], n + 1, Len(wq[q]))) \subseteq ToSet(wq[q])
    BY <2>2, <2>3, SplitElements
  <2> QED BY <1>1, <1>2, <1>4, <2>1, <2>2, <2>4
<1>14. CASE Resume \/ YieldResume \/ YieldReturn
  BY <1>1, <1>2, <1>3, <1>14 DEF Resume, YieldResume, YieldReturn, PCs, Asleep
<1>15. CASE IrqReturn \/ Preempt \/ Ended
  BY <1>4, <1>15 DEF IrqReturn, Preempt, Ended, vars, self
<1> QED BY <1>5, <1>6, <1>7, <1>8, <1>9, <1>10, <1>11, <1>12, <1>13, <1>14, <1>15
       DEF Next, Call, Continue

\* A step of the scheduler.
LEMMA SchedPreserves == ASSUME LInv, SchedStep PROVE LInv'
<1>1. Next /\ (pc'[cur] = "dead" => pc[cur] = "dead" \/ hold[cur] = {})
  <2>1. CASE Continue \/ Preempt \/ Ended
    <3>1. pc'[cur] # "dead"
      <4>1. cur \in Tids /\ pc[cur] # "dead" /\ pc \in [Tids -> PCs]
        BY DEF LInv, IInv, Placed, Alive, FieldTypes
      <4> QED BY <2>1, <4>1 DEF Continue, Resume, YieldResume, YieldReturn,
                                IrqReturn, Preempt, Ended, vars, self
    <3> QED BY <2>1, <3>1 DEF Next
  <2>2. CASE Call /\ (pc'[cur] = "dead" => hold[cur] = {})
    BY <2>2 DEF Next
  <2> QED BY <2>1, <2>2 DEF SchedStep
<1>2. /\ avaliable' = avaliable /\ acquiredID' = acquiredID /\ onLock' = onLock
      /\ hold' = hold /\ misused' = misused
  BY DEF SchedStep, lockVars
<1>3. IInv /\ IInv'
  BY <1>1, InductiveNext DEF LInv
<1>4. /\ \A q \in Locks \cup CVs : wq'[q] = wq[q]
      /\ SleepersPlaced'
      /\ \A t \in Tids :
            /\ pc[t] \in Asleep \/ pc'[t] \in Asleep => pc'[t] = pc[t]
            /\ pc'[t] = "dead" /\ pc[t] # "dead" => t = cur
  BY <1>1, <1>3, SchedEffects DEF SchedStep, LInv
<1>5. LockTypes' /\ HoldersKnown' /\ LockIsHeld'
  BY <1>2 DEF LInv, LockTypes, HoldersKnown, LockIsHeld
<1>6. NobodySleepsOnFreeLock'
  BY <1>2, <1>4, LockQueuesApart DEF LInv, NobodySleepsOnFreeLock
<1>7. ToAcquire'
  BY <1>2, <1>4 DEF LInv, ToAcquire
<1>8. HoldersAlive'
  BY <1>1, <1>2, <1>4 DEF LInv, HoldersAlive
<1> QED BY <1>3, <1>4, <1>5, <1>6, <1>7, <1>8 DEF LInv

\* One turn of the loop of lock_acquire.
LEMMA AcquirePreserves ==
  ASSUME LInv, NEW l \in Locks, l \notin hold[cur], TryAcquire(l),
         UNCHANGED <<exist, nextThreadID, stack, hasWqt, arg, irq, enabled,
                     exitSeen, ended, misused>>
  PROVE  LInv'
<1>1. /\ cur \in Tids /\ pc \in [Tids -> PCs] /\ wq \in [Queues -> Seq(Tids)]
      /\ pc[cur] # "dead" /\ cur \notin ToSet(readyList)
      /\ \A q \in Queues : cur \notin ToSet(wq[q]) /\ ToSet(wq[q]) \subseteq Tids
  BY CurFacts DEF LInv
<1>2. l \in UserQueues /\ l \in Queues
  BY LockQueuesApart
<1>3. \A q \in UserQueues : q \in Queues
  BY DEF Queues
<1>4. ASSUME NEW p \in {"user", "acquire"}, pc' = [pc EXCEPT ![cur] = p],
             UNCHANGED <<currentThread, readyList, status, wq>>
      PROVE  IInv' /\ SleepersPlaced'
  <2>1. FieldTypes'
    BY <1>1, <1>4 DEF LInv, IInv, FieldTypes, PCs
  <2>2. IInv'
    BY <1>1, <1>4, <2>1, LocalStep DEF LInv
  <2>3. SleepersPlaced'
    BY <1>1, <1>3, <1>4 DEF LInv, SleepersPlaced
  <2> QED BY <2>2, <2>3
<1>5. CASE /\ ~Blocked(l)
           /\ avaliable' = [avaliable EXCEPT ![l] = FALSE]
           /\ acquiredID' = [acquiredID EXCEPT ![l] = Acquirer]
           /\ hold' = [hold EXCEPT ![cur] = @ \cup {l}]
           /\ onLock' = [onLock EXCEPT ![cur] = NoLock]
           /\ pc' = [pc EXCEPT ![cur] = "user"]
           /\ UNCHANGED <<currentThread, readyList, status, wq>>
  <2>1. IInv' /\ SleepersPlaced'
    BY <1>4, <1>5
  <2>2. /\ avaliable[l] /\ ~avaliable'[l] /\ acquiredID'[l] = cur
        /\ hold'[cur] = hold[cur] \cup {l} /\ pc'[cur] = "user"
        /\ \A m \in Locks \ {l} : avaliable'[m] = avaliable[m] /\ acquiredID'[m] = acquiredID[m]
        /\ \A t \in Tids \ {cur} : /\ hold'[t] = hold[t] /\ onLock'[t] = onLock[t]
                                   /\ pc'[t] = pc[t]
    BY <1>1, <1>5 DEF LInv, LockTypes, Blocked, Acquirer
  <2>3. LockTypes'
    <3>1. avaliable' \in [Locks -> BOOLEAN]
      BY <1>5, Zenon DEF LInv, LockTypes
    <3>2. /\ acquiredID' \in [Locks -> Tids \cup {NoTid}]
          /\ onLock' \in [Tids -> Locks \cup {NoLock}] /\ hold' \in [Tids -> SUBSET Locks]
      BY <1>1, <1>5 DEF LInv, LockTypes, Acquirer
    <3> QED BY <3>1, <3>2 DEF LInv, LockTypes
  <2>4. NobodySleepsOnFreeLock'
    BY <1>5, <2>2 DEF LInv, NobodySleepsOnFreeLock
  <2>5. HoldersKnown'
    <3> SUFFICES ASSUME ~misused, NEW t \in Tids, NEW m \in hold'[t]
                 PROVE  ~avaliable'[m] /\ acquiredID'[m] = t
      BY DEF HoldersKnown
    <3>1. m \in Locks
      BY <2>3 DEF LockTypes
    <3>2. CASE m = l
      <4>1. t = cur
        BY <2>2, <3>2 DEF LInv, HoldersKnown
      <4> QED BY <2>2, <3>2, <4>1
    <3>3. CASE m # l
      <4>1. m \in hold[t]
        BY <2>2, <3>3
      <4> QED BY <2>2, <3>1, <3>3, <4>1 DEF LInv, HoldersKnown
    <3> QED BY <3>2, <3>3
  <2>6. LockIsHeld'
    <3> SUFFICES ASSUME ~misused, NEW m \in Locks, ~avaliable'[m]
                 PROVE  acquiredID'[m] \in Tids /\ m \in hold'[acquiredID'[m]]
      BY DEF LockIsHeld
    <3>1. CASE m = l
      BY <1>1, <2>2, <3>1
    <3>2. CASE m # l
      BY <2>2, <3>2 DEF LInv, LockIsHeld
    <3> QED BY <3>1, <3>2
  <2>7. ToAcquire' /\ HoldersAlive'
    BY <1>1, <2>2 DEF LInv, ToAcquire, HoldersAlive, Asleep
  <2> QED BY <2>1, <2>3, <2>4, <2>5, <2>6, <2>7 DEF LInv
<1>6. ASSUME Blocked(l), onLock' = [onLock EXCEPT ![cur] = l],
             UNCHANGED <<avaliable, acquiredID, hold>>,
             pc' = [pc EXCEPT ![cur] = "acquire"], IInv', SleepersPlaced',
             \A k \in Locks \ {l} : wq'[k] = wq[k]
      PROVE  LInv'
  <2>1. LockTypes'
    BY <1>1, <1>6 DEF LInv, LockTypes
  <2>2. HoldersKnown' /\ LockIsHeld'
    BY <1>6 DEF LInv, HoldersKnown, LockIsHeld
  <2>3. NobodySleepsOnFreeLock'
    BY <1>6 DEF LInv, NobodySleepsOnFreeLock, Blocked
  <2>4. ToAcquire'
    <3>1. onLock'[cur] = l /\ \A t \in Tids \ {cur} : onLock'[t] = onLock[t] /\ pc'[t] = pc[t]
      BY <1>1, <1>6 DEF LInv, LockTypes
    <3> QED BY <1>1, <1>6, <3>1 DEF LInv, ToAcquire
  <2>5. HoldersAlive'
    BY <1>1, <1>6 DEF LInv, HoldersAlive
  <2> QED BY <1>6, <2>1, <2>2, <2>3, <2>4, <2>5 DEF LInv
<1>7. CASE /\ Blocked(l) /\ readyList # <<>> /\ SleepIn(l, "acquire")
           /\ onLock' = [onLock EXCEPT ![cur] = l]
           /\ UNCHANGED <<avaliable, acquiredID, hold>>
  <2>1. pc' = [pc EXCEPT ![cur] = "acquire"] /\ wq' = [wq EXCEPT ![l] = Append(@, cur)]
    BY <1>7 DEF SleepIn
  <2>2. FieldTypes'
    BY <1>1, <2>1 DEF LInv, IInv, FieldTypes, PCs
  <2>3. IInv'
    BY <1>2, <1>7, <2>2, SleepStep DEF LInv
  <2>4. SleepersPlaced'
    <3>1. ToSet(wq'[l]) = ToSet(wq[l]) \cup {cur}
          /\ \A k \in Queues \ {l} : wq'[k] = wq[k]
      BY <1>1, <1>2, <2>1, AppendElements
    <3> QED BY <1>1, <1>2, <1>3, <2>1, <3>1, LockQueuesApart DEF LInv, SleepersPlaced, Asleep
  <2>5. \A k \in Locks \ {l} : wq'[k] = wq[k]
    BY <1>1, <2>1, LockQueuesApart
  <2> QED BY <1>6, <1>7, <2>1, <2>3, <2>4, <2>5
<1>8. CASE /\ Blocked(l) /\ readyList = <<>>
           /\ onLock' = [onLock EXCEPT ![cur] = l]
           /\ pc' = [pc EXCEPT ![cur] = "acquire"]
           /\ UNCHANGED <<currentThread, readyList, status, wq, avaliable,
                          acquiredID, hold>>
  BY <1>4, <1>6, <1>8
<1> QED BY <1>5, <1>7, <1>8 DEF TryAcquire

\* Some threads of queue q are woken, and those that stay stay in order.
LEMMA WakeEffects ==
  ASSUME LInv, NEW q \in UserQueues, NEW n \in 0..Len(wq[q]), Wake(q, n),
         UNCHANGED <<currentThread, exist, nextThreadID, stack, hasWqt, self, ended>>
  PROVE  /\ IInv' /\ SleepersPlaced' /\ pc' = pc
         /\ \A k \in Queues \ {q} : wq'[k] = wq[k]
         /\ n = Len(wq[q]) => wq'[q] = <<>>
<1>1. IInv' /\ pc' = pc
  BY WakeStep DEF LInv, self
<1>2. q \in Queues /\ wq \in [Queues -> Seq(Tids)] /\ IsInjective(wq[q])
  BY DEF LInv, IInv, Placed, Queues
<1>3. /\ wq'[q] = SubSeq(wq[q], n + 1, Len(wq[q]))
      /\ \A k \in Queues \ {q} : wq'[k] = wq[k]
  BY <1>2 DEF Wake
<1>4. /\ ToSet(SubSeq(wq[q], n + 1, Len(wq[q]))) \subseteq ToSet(wq[q])
      /\ n = Len(wq[q]) => SubSeq(wq[q], n + 1, Len(wq[q])) = <<>>
  BY <1>2, SplitElements
<1>5. \A k \in UserQueues : k \in Queues /\ ToSet(wq'[k]) \subseteq ToSet(wq[k])
  BY <1>3, <1>4 DEF Queues
<1>6. SleepersPlaced'
  BY <1>1, <1>5 DEF LInv, SleepersPlaced
<1> QED BY <1>1, <1>3, <1>4, <1>6

\* Nobody is left in the queue of a lock that becomes available.
LEMMA WokenAll ==
  ASSUME LInv, NEW l \in Locks
  PROVE  /\ WokenByRelease(l) = wq[l] /\ wq[l] \in Seq(Tids) /\ Len(wq[l]) \in Nat
         /\ l \in Queues /\ l \in UserQueues
BY LockQueuesApart, LenProperties
   DEF WokenByRelease, LInv, NobodySleepsOnFreeLock, IInv, Placed

\* When a thread gives lock l up, what is known of the holders stays true.
LEMMA GivenUp ==
  ASSUME LInv, NEW l \in Locks, Uses(l), avaliable' = Released(l),
         hold' = [hold EXCEPT ![cur] = @ \ {l}], acquiredID' = acquiredID
  PROVE  /\ HoldersKnown' /\ LockIsHeld'
         /\ avaliable' \in [Locks -> BOOLEAN] /\ hold' \in [Tids -> SUBSET Locks]
         /\ misused' \in BOOLEAN
         /\ avaliable'[l] /\ \A m \in Locks \ {l} : avaliable'[m] = avaliable[m]
         /\ hold'[cur] = hold[cur] \ {l} /\ \A t \in Tids \ {cur} : hold'[t] = hold[t]
<1>1. cur \in Tids
  BY CurFacts DEF LInv
<1>2. /\ avaliable'[l] /\ \A m \in Locks \ {l} : avaliable'[m] = avaliable[m]
      /\ hold'[cur] = hold[cur] \ {l} /\ \A t \in Tids \ {cur} : hold'[t] = hold[t]
  BY <1>1 DEF Released, LInv, LockTypes
<1>3. avaliable' \in [Locks -> BOOLEAN] /\ misused' \in BOOLEAN
  BY Zenon DEF Released, LInv, LockTypes, Uses
<1>4. hold' \in [Tids -> SUBSET Locks]
  BY <1>1 DEF LInv, LockTypes
<1>5. ~misused' => ~misused /\ l \in hold[cur]
  BY DEF Uses
<1>6. HoldersKnown'
  <2> SUFFICES ASSUME ~misused', NEW t \in Tids, NEW m \in hold'[t]
               PROVE  ~avaliable'[m] /\ acquiredID'[m] = t
    BY DEF HoldersKnown
  <2>1. m \in Locks /\ m \in hold[t]
    BY <1>2, <1>4
  <2>2. ~avaliable[m] /\ acquiredID[m] = t /\ acquiredID[l] = cur
    BY <1>1, <1>5, <2>1 DEF LInv, HoldersKnown
  <2>3. m # l
    BY <1>2, <2>2
  <2> QED BY <1>2, <2>1, <2>2, <2>3
<1>7. LockIsHeld'
  <2> SUFFICES ASSUME ~misused', NEW m \in Locks, ~avaliable'[m]
               PROVE  acquiredID'[m] \in Tids /\ m \in hold'[acquiredID'[m]]
    BY DEF LockIsHeld
  <2>1. m # l /\ ~avaliable[m]
    BY <1>2
  <2>2. acquiredID[m] \in Tids /\ m \in hold[acquiredID[m]]
    BY <1>5, <2>1 DEF LInv, LockIsHeld
  <2> QED BY <1>2, <2>1, <2>2
<1> QED BY <1>2, <1>3, <1>4, <1>6, <1>7

\* lock_release
LEMMA ReleasePreserves ==
  ASSUME LInv, NEW l \in Locks, lock_release(l)
  PROVE  LInv'
<1>1. /\ Uses(l) /\ avaliable' = Released(l) /\ hold' = [hold EXCEPT ![cur] = @ \ {l}]
      /\ Wake(l, Len(wq[l])) /\ acquiredID' = acquiredID /\ onLock' = onLock
      /\ UNCHANGED <<currentThread, exist, nextThreadID, stack, hasWqt, self, ended>>
  BY WokenAll DEF lock_release
<1>2. l \in UserQueues /\ l \in Queues /\ Len(wq[l]) \in 0..Len(wq[l])
  BY WokenAll
<1>3. /\ IInv' /\ SleepersPlaced' /\ pc' = pc
      /\ \A k \in Queues \ {l} : wq'[k] = wq[k] /\ wq'[l] = <<>>
  BY <1>1, <1>2, WakeEffects
<1>4. /\ HoldersKnown' /\ LockIsHeld'
      /\ avaliable' \in [Locks -> BOOLEAN] /\ hold' \in [Tids -> SUBSET Locks]
      /\ misused' \in BOOLEAN
      /\ avaliable'[l] /\ \A m \in Locks \ {l} : avaliable'[m] = avaliable[m]
      /\ hold'[cur] = hold[cur] \ {l} /\ \A t \in Tids \ {cur} : hold'[t] = hold[t]
  BY <1>1, GivenUp
<1>5. LockTypes'
  BY <1>1, <1>4 DEF LInv, LockTypes
<1>6. NobodySleepsOnFreeLock'
  <2>1. wq'[l] = <<>>
    BY <1>1, <1>2, WakeEffects
  <2> QED BY <1>3, <1>4, <2>1, LockQueuesApart DEF LInv, NobodySleepsOnFreeLock
<1>7. ToAcquire' /\ HoldersAlive'
  BY <1>1, <1>3, <1>4 DEF LInv, ToAcquire, HoldersAlive
<1> QED BY <1>3, <1>4, <1>5, <1>6, <1>7 DEF LInv

\* cv_wait that does not sleep: the lock is given up and taken at once.
LEMMA CvWaitReturnPreserves ==
  ASSUME LInv, NEW c \in CVs, NEW l \in Locks, cv_wait_return(c, l)
  PROVE  LInv'
<1>1. /\ Uses(l) /\ avaliable' = [avaliable EXCEPT ![l] = FALSE]
      /\ acquiredID' = [acquiredID EXCEPT ![l] = cur]
      /\ hold' = [hold EXCEPT ![cur] = @ \cup {l}]
      /\ Wake(l, Len(wq[l])) /\ onLock' = onLock
      /\ UNCHANGED <<currentThread, exist, nextThreadID, stack, hasWqt, self, ended>>
      /\ pc[cur] = "user"
  BY WokenAll DEF cv_wait_return, Acquirer, Uses, InUser
<1>2. l \in UserQueues /\ l \in Queues /\ Len(wq[l]) \in 0..Len(wq[l]) /\ cur \in Tids
  BY WokenAll, CurFacts DEF LInv
<1>3. /\ IInv' /\ SleepersPlaced' /\ pc' = pc
      /\ \A k \in Queues \ {l} : wq'[k] = wq[k]
  BY <1>1, <1>2, WakeEffects
<1>4. /\ ~avaliable'[l] /\ \A m \in Locks \ {l} : avaliable'[m] = avaliable[m]
      /\ acquiredID'[l] = cur /\ \A m \in Locks \ {l} : acquiredID'[m] = acquiredID[m]
      /\ hold'[cur] = hold[cur] \cup {l} /\ \A t \in Tids \ {cur} : hold'[t] = hold[t]
      /\ ~misused' => ~misused /\ l \in hold[cur]
  BY <1>1, <1>2 DEF LInv, LockTypes, Uses
<1>5. LockTypes'
  <2>1. avaliable' \in [Locks -> BOOLEAN] /\ misused' \in BOOLEAN
    BY <1>1, Zenon DEF LInv, LockTypes, Uses
  <2>2. /\ acquiredID' \in [Locks -> Tids \cup {NoTid}] /\ hold' \in [Tids -> SUBSET Locks]
    BY <1>1, <1>2 DEF LInv, LockTypes
  <2> QED BY <1>1, <2>1, <2>2 DEF LInv, LockTypes
<1>6. NobodySleepsOnFreeLock'
  BY <1>3, <1>4, LockQueuesApart DEF LInv, NobodySleepsOnFreeLock
<1>7. HoldersKnown'
  <2> SUFFICES ASSUME ~misused', NEW t \in Tids, NEW m \in hold'[t]
               PROVE  ~avaliable'[m] /\ acquiredID'[m] = t
    BY DEF HoldersKnown
  <2>1. m \in Locks /\ m \in hold[t]
    BY <1>4, <1>5 DEF LockTypes
  <2>2. ~avaliable[m] /\ acquiredID[m] = t /\ acquiredID[l] = cur
    BY <1>2, <1>4, <2>1 DEF LInv, HoldersKnown
  <2> QED BY <1>4, <2>1, <2>2
<1>8. LockIsHeld'
  <2> SUFFICES ASSUME ~misused', NEW m \in Locks, ~avaliable'[m]
               PROVE  acquiredID'[m] \in Tids /\ m \in hold'[acquiredID'[m]]
    BY DEF LockIsHeld
  <2>1. CASE m = l
    BY <1>2, <1>4, <2>1
  <2>2. CASE m # l
    BY <1>4, <2>2 DEF LInv, LockIsHeld
  <2> QED BY <2>1, <2>2
<1>9. ToAcquire' /\ HoldersAlive'
  BY <1>1, <1>2, <1>3, <1>4 DEF LInv, ToAcquire, HoldersAlive, Asleep
<1> QED BY <1>3, <1>5, <1>6, <1>7, <1>8, <1>9 DEF LInv

\* cv_signal and cv_broadcast
LEMMA CvSignalPreserves ==
  ASSUME LInv, NEW c \in CVs, NEW l \in Locks, NEW all \in BOOLEAN,
         cv_signal(c, l, all)
  PROVE  LInv'
<1> DEFINE n == IF all THEN Len(wq[c]) ELSE 1
<1>1. /\ misused' = (misused \/ l \notin hold[cur]) /\ wq[c] # <<>> /\ Wake(c, n)
      /\ avaliable' = avaliable /\ acquiredID' = acquiredID /\ onLock' = onLock
      /\ hold' = hold
      /\ UNCHANGED <<currentThread, exist, nextThreadID, stack, hasWqt, self, ended>>
  BY DEF cv_signal, Uses
<1>2. c \in UserQueues /\ c \in Queues /\ c \notin Locks
  BY LockQueuesApart
<1>3. n \in 0..Len(wq[c])
  BY <1>1, <1>2, EmptySeq DEF LInv, IInv, Placed
<1> HIDE DEF n
<1>4. /\ IInv' /\ SleepersPlaced' /\ pc' = pc
      /\ \A k \in Queues \ {c} : wq'[k] = wq[k]
  BY <1>1, <1>2, <1>3, WakeEffects
<1>5. misused' \in BOOLEAN /\ (~misused' => ~misused)
  BY <1>1, Zenon
<1>6. LockTypes' /\ HoldersKnown' /\ LockIsHeld'
  BY <1>1, <1>5 DEF LInv, LockTypes, HoldersKnown, LockIsHeld
<1>7. NobodySleepsOnFreeLock'
  BY <1>1, <1>2, <1>4, LockQueuesApart DEF LInv, NobodySleepsOnFreeLock
<1>8. ToAcquire' /\ HoldersAlive'
  BY <1>1, <1>4 DEF LInv, ToAcquire, HoldersAlive
<1> QED BY <1>4, <1>6, <1>7, <1>8 DEF LInv

\* cv_wait: the waiters of the lock are woken, and the thread sleeps in the
\* queue of the condition variable.
LEMMA CvWaitSleepPreserves ==
  ASSUME LInv, NEW c \in CVs, NEW l \in Locks, cv_wait_sleep(c, l)
  PROVE  LInv'
<1> DEFINE rl == readyList \o wq[l]
           w1 == [wq EXCEPT ![l] = <<>>]
           w2 == [w1 EXCEPT ![c] = Append(@, cur)]
           s1 == MadeReady(status, wq[l])
           s2 == [s1 EXCEPT ![cur] = Suspended, ![Head(rl)] = Running]
<1>1. /\ WokenByRelease(l) = wq[l] /\ wq[l] \in Seq(Tids)
      /\ l \in Queues /\ l \in UserQueues
      /\ c \in Queues /\ c \in UserQueues /\ c # l /\ c \notin Locks
  BY WokenAll, LockQueuesApart
<1>2. /\ cur \in Tids /\ pc \in [Tids -> PCs] /\ wq \in [Queues -> Seq(Tids)]
      /\ pc[cur] # "dead" /\ cur \notin ToSet(readyList)
      /\ \A q \in Queues : cur \notin ToSet(wq[q]) /\ ToSet(wq[q]) \subseteq Tids
  BY CurFacts DEF LInv
<1>3. /\ Uses(l) /\ rl # <<>> /\ readyList' = Tail(rl) /\ cur' = Head(rl)
      /\ status' = [t \in Tids |-> IF t = cur THEN Suspended
                                   ELSE IF t = Head(rl) THEN Running
                                   ELSE IF IsIn(t, wq[l]) THEN Ready
                                   ELSE status[t]]
      /\ avaliable' = Released(l) /\ hold' = [hold EXCEPT ![cur] = @ \ {l}]
      /\ onLock' = [onLock EXCEPT ![cur] = l]
      /\ pc' = [pc EXCEPT ![cur] = "cvwait"]
      /\ UNCHANGED <<exist, nextThreadID, stack, hasWqt, arg, irq, enabled,
                     exitSeen, ended, acquiredID>>
  BY <1>1 DEF cv_wait_sleep, cur
<1>4. wq' = w2
  <2>1. wq' = [wq EXCEPT ![l] = IF avaliable[l] THEN @ ELSE <<>>,
                        ![c] = Append(@, cur)]
    BY DEF cv_wait_sleep
  <2>2. avaliable[l] => wq[l] = <<>>
    BY DEF LInv, NobodySleepsOnFreeLock
  <2> QED BY <1>1, <1>2, <2>1, <2>2
<1>5. Placed(cur, readyList, wq, status, Alive)
  BY DEF LInv, IInv
<1>6. Placed(cur, rl, w1, s1, Alive)
  BY <1>1, <1>5, WakeAllPlaces
<1>7. /\ w1[l] = <<>> /\ w1[c] = wq[c] /\ \A k \in Queues \ {l} : w1[k] = wq[k]
      /\ w1 \in [Queues -> Seq(Tids)]
  BY <1>1, <1>2, <1>6 DEF Placed
<1>8. ToSet(rl) = ToSet(readyList) \cup ToSet(wq[l])
  BY <1>1, <1>5, ConcatElements DEF Placed
<1>9. s1 \in [Tids -> Statuses]
  BY <1>6 DEF Placed
<1>10. \A t \in Tids : s1[t] = IF IsIn(t, wq[l]) THEN Ready ELSE status[t]
  BY DEF MadeReady
<1> HIDE DEF rl, w1, s1
<1>11. Head(rl) \in ToSet(rl) /\ ToSet(Tail(rl)) \subseteq ToSet(rl) /\ Head(rl) \in Tids
  BY <1>3, <1>6, TailElements DEF Placed
<1>12. Head(rl) # cur
  BY <1>1, <1>2, <1>8, <1>11
<1>13. status' = s2
  BY <1>2, <1>3, <1>9, <1>10, <1>11, <1>12
<1>14. Placed(Head(rl), Tail(rl), w2, s2, Alive)
  BY <1>1, <1>3, <1>6, SleepPlaces
<1>15. /\ wq'[l] = <<>> /\ wq'[c] = Append(wq[c], cur)
       /\ \A k \in Queues \ {l, c} : wq'[k] = wq[k]
  BY <1>1, <1>4, <1>7
<1>16. pc'[cur] = "cvwait" /\ \A t \in Tids \ {cur} : pc'[t] = pc[t]
  BY <1>2, <1>3
<1>17. Alive' = Alive
  BY <1>2, <1>16 DEF Alive
<1>18. Placed(cur, readyList, wq, status, Alive)'
  BY <1>3, <1>4, <1>13, <1>14, <1>17
<1>19. FieldTypes'
  BY <1>2, <1>3 DEF LInv, IInv, FieldTypes, PCs
<1>20. StackLifetime' /\ AliveExist'
  <2>1. \A t \in Tids : pc'[t] # "dead" <=> pc[t] # "dead"
    BY <1>2, <1>16
  <2> QED BY <1>3, <1>17, <2>1 DEF LInv, IInv, StackLifetime, AliveExist
<1>21. \A t \in Tids : t \in Queues \ {l, c}
  BY LockQueuesApart DEF Queues
<1>22. NoOrphanWaiter'
  BY <1>3, <1>15, <1>21 DEF LInv, IInv, NoOrphanWaiter
<1>23. ToSet(wq'[l]) = {} /\ ToSet(wq'[c]) = ToSet(wq[c]) \cup {cur}
  <2>1. ToSet(wq'[l]) = {}
    BY <1>15 DEF ToSet
  <2>2. wq[c] \in Seq(Tids) /\ cur \in Tids
    BY <1>1, <1>2
  <2> QED BY <1>15, <2>1, <2>2, AppendElements
<1>24. \A q \in UserQueues : q \in Queues
  BY DEF Queues
<1>25. WaitersPlaced'
  <2>1. ASSUME NEW t \in Tids, NEW u \in ToSet(wq'[t])
        PROVE  pc'[u] = "wait" /\ arg'[u] = t
    BY <1>2, <1>3, <1>15, <1>16, <1>21, <2>1 DEF LInv, IInv, WaitersPlaced
  <2>2. ASSUME NEW q \in UserQueues, NEW u \in ToSet(wq'[q]) PROVE pc'[u] # "wait"
    <3>1. CASE u = cur
      BY <1>16, <3>1
    <3>2. CASE u # cur
      <4>1. q \in Queues /\ u \in ToSet(wq[q])
        BY <1>1, <1>15, <1>23, <1>24, <2>2, <3>2
      <4>2. u \in Tids /\ pc'[u] = pc[u]
        BY <1>2, <1>16, <3>2, <4>1
      <4> QED BY <4>1, <4>2 DEF LInv, IInv, WaitersPlaced
    <3> QED BY <3>1, <3>2
  <2> QED BY <2>1, <2>2 DEF WaitersPlaced
<1>26. WokenSawExit'
  <2> SUFFICES ASSUME NEW u \in ToSet(readyList'), pc'[u] = "wait" PROVE exitSeen'[u]
    BY DEF WokenSawExit
  <2>1. u \in ToSet(readyList) \/ u \in ToSet(wq[l])
    BY <1>3, <1>8, <1>11
  <2>2. u \in Tids /\ u # cur
    BY <1>1, <1>2, <1>5, <2>1, Apart
  <2>3. pc[u] = "wait"
    BY <1>16, <2>2
  <2>4. u \in ToSet(readyList)
    BY <1>1, <2>1, <2>3 DEF LInv, IInv, WaitersPlaced
  <2> QED BY <1>3, <2>3, <2>4 DEF LInv, IInv, WokenSawExit
<1>27. IInv'
  BY <1>18, <1>19, <1>20, <1>22, <1>25, <1>26 DEF IInv
<1>28. /\ HoldersKnown' /\ LockIsHeld'
       /\ avaliable' \in [Locks -> BOOLEAN] /\ hold' \in [Tids -> SUBSET Locks]
       /\ misused' \in BOOLEAN
       /\ avaliable'[l] /\ \A m \in Locks \ {l} : avaliable'[m] = avaliable[m]
       /\ hold'[cur] = hold[cur] \ {l} /\ \A t \in Tids \ {cur} : hold'[t] = hold[t]
  BY <1>3, GivenUp
<1>29. LockTypes'
  <2>1. onLock' \in [Tids -> Locks \cup {NoLock}]
    BY <1>2, <1>3 DEF LInv, LockTypes
  <2> QED BY <1>3, <1>28, <2>1 DEF LInv, LockTypes
<1>30. NobodySleepsOnFreeLock'
  BY <1>1, <1>15, <1>28, LockQueuesApart DEF LInv, NobodySleepsOnFreeLock
<1>31. ToAcquire'
  <2>1. onLock'[cur] = l /\ \A t \in Tids \ {cur} : onLock'[t] = onLock[t]
    BY <1>2, <1>3 DEF LInv, LockTypes
  <2> QED BY <1>16, <1>28, <2>1 DEF LInv, ToAcquire
<1>32. HoldersAlive'
  BY <1>2, <1>16, <1>28 DEF LInv, HoldersAlive
<1>33. SleepersPlaced'
  <2> SUFFICES ASSUME NEW q \in UserQueues, NEW u \in ToSet(wq'[q])
               PROVE  pc'[u] \in SleepingIn(q)
    BY DEF SleepersPlaced
  <2>1. CASE u = cur
    <3>1. q = c
      BY <1>1, <1>2, <1>15, <1>23, <1>24, <2>1
    <3> QED BY <1>16, <2>1, <3>1, LockQueuesApart DEF Asleep
  <2>2. CASE u # cur
    <3>1. q \in Queues /\ u \in ToSet(wq[q])
      BY <1>1, <1>15, <1>23, <1>24, <2>2
    <3>2. u \in Tids /\ pc'[u] = pc[u]
      BY <1>2, <1>16, <2>2, <3>1
    <3> QED BY <3>1, <3>2 DEF LInv, SleepersPlaced
  <2> QED BY <2>1, <2>2
<1> QED BY <1>27, <1>28, <1>29, <1>30, <1>31, <1>32, <1>33 DEF LInv

-----------------------------------------------------------------------------
(* The theorems.                                                           *)

\* Every step preserves the invariant.
LEMMA LockInductive == ASSUME LInv, [LNext]_allVars PROVE LInv'
<1>1. CASE SchedStep
  BY <1>1, SchedPreserves
<1>2. CASE LockResume
  <2>1. /\ pc[cur] \in Asleep /\ TryAcquire(onLock[cur])
        /\ UNCHANGED <<exist, nextThreadID, stack, hasWqt, arg, irq, enabled,
                       exitSeen, ended, misused>>
    BY <1>2 DEF LockResume, Asleep
  <2>2. onLock[cur] \in Locks /\ onLock[cur] \notin hold[cur]
    BY <2>1, CurFacts DEF LInv, ToAcquire
  <2> QED BY <2>1, <2>2, AcquirePreserves
<1>3. ASSUME NEW l \in Locks, lock_acquire(l) PROVE LInv'
  BY <1>3, AcquirePreserves DEF lock_acquire
<1>4. ASSUME NEW l \in Locks, lock_release(l) PROVE LInv'
  BY <1>4, ReleasePreserves
<1>5. ASSUME NEW c \in CVs, NEW l \in Locks, cv_wait_sleep(c, l) PROVE LInv'
  BY <1>5, CvWaitSleepPreserves
<1>6. ASSUME NEW c \in CVs, NEW l \in Locks, cv_wait_return(c, l) PROVE LInv'
  BY <1>6, CvWaitReturnPreserves
<1>7. ASSUME NEW c \in CVs, NEW l \in Locks, NEW all \in BOOLEAN, cv_signal(c, l, all)
      PROVE  LInv'
  BY <1>7, CvSignalPreserves
<1>8. CASE UNCHANGED allVars
  <2>1. UNCHANGED vars /\ UNCHANGED lockVars
    BY <1>8 DEF allVars
  <2>2. IInv'
    BY <2>1, InductiveStutter DEF LInv
  <2>3. /\ UNCHANGED <<avaliable, acquiredID, onLock, hold, misused>>
        /\ UNCHANGED <<pc, wq>>
    BY <2>1 DEF lockVars, vars, self
  <2> QED BY <2>2, <2>3 DEF LInv, LockTypes, NobodySleepsOnFreeLock, HoldersKnown,
          LockIsHeld, ToAcquire, HoldersAlive, SleepersPlaced
<1> QED BY <1>1, <1>2, <1>3, <1>4, <1>5, <1>6, <1>7, <1>8 DEF LNext

\* The invariant holds in every reachable state.
THEOREM LockInvariance == LSpec => []LInv
<1>1. LInv /\ [LNext]_allVars => LInv'
  BY LockInductive
<1> QED BY LInit_LInv, <1>1, PTL DEF LSpec

\* Mutual exclusion: as long as only holders release, wait and signal, no lock
\* is in two hands, and a lock in a thread's hands is not available and passes
\* that thread's check in cv_wait, cv_signal and cv_broadcast.
THEOREM LockExclusiveSafe == LSpec => []LockExclusive
<1>1. LInv => LockExclusive
  BY DEF LInv, LockTypes, HoldersKnown, LockExclusive
<1> QED BY LockInvariance, <1>1, PTL

\* No wakeup of lock_release is lost, whoever calls it.
THEOREM NoLostWakeup == LSpec => []NobodySleepsOnFreeLock
<1>1. LInv => NobodySleepsOnFreeLock
  BY DEF LInv
<1> QED BY LockInvariance, <1>1, PTL

\* The scheduler keeps its promises under the locks: no thread is lost,
\* although cv_wait wakes and sleeps in one step.
THEOREM NobodyLostUnderLocks == LSpec => []NobodyLost
<1>1. LInv => NobodyLost
  BY InvariantImplies DEF LInv
<1> QED BY LockInvariance, <1>1, PTL

\* With one lock, and as long as only holders release, wait and signal and none
\* of them sleeps in thread_wait or in thread_sleep, lock_acquire never turns
\* its loop with nobody to switch to: whoever holds the lock is ready to run.
THEOREM AcquireSafe ==
  ASSUME \A l, m \in Locks : l = m
  PROVE  LSpec => []AcquireNeverSpins
<1>1. ASSUME LInv PROVE AcquireNeverSpins
  <2> SUFFICES ASSUME ~misused, HoldersAwake, pc[cur] = "acquire", ~avaliable[onLock[cur]]
               PROVE  readyList # <<>>
    BY DEF AcquireNeverSpins
  <2>1. cur \in Tids /\ onLock[cur] \in Locks /\ onLock[cur] \notin hold[cur]
    BY <1>1, CurFacts DEF LInv, ToAcquire, Asleep
  <2>2. PICK t \in Tids : onLock[cur] \in hold[t]
    BY <1>1, <2>1 DEF LInv, LockIsHeld
  <2>3. t # cur /\ pc[t] \notin {"dead", "sleep", "wait"}
    BY <1>1, <2>1, <2>2 DEF LInv, HoldersAlive, HoldersAwake
  <2>4. pc[t] \notin Asleep
    BY <1>1, <2>1, <2>2 DEF LInv, ToAcquire
  <2>5. \A q \in Queues : t \notin ToSet(wq[q])
    BY <1>1, <2>3, <2>4 DEF LInv, SleepersPlaced, SleepingIn, IInv, WaitersPlaced, Queues
  <2>6. t \in ToSet(readyList)
    BY <1>1, <2>3, <2>5 DEF LInv, IInv, Placed, Alive
  <2> QED BY <2>6 DEF ToSet
<1>2. LInv => AcquireNeverSpins
  BY <1>1
<1> QED BY LockInvariance, <1>2, PTL

-----------------------------------------------------------------------------
(* thread_kill.                                                            *)

\* The inductive invariant: until a kill was unsafe, nothing has crashed and
\* the scheduler is as sound as without kills.
KInv == /\ unsafe \in BOOLEAN
        /\ ~unsafe => crashed = "no" /\ IInv

\* deleteNode: the thread at place i of the ready list is gone for good.
LEMMA KillPlaces ==
  ASSUME NEW c, NEW rl, NEW w, NEW st, NEW live, Placed(c, rl, w, st, live),
         NEW i \in DOMAIN rl
  PROVE  Placed(c, RemoveAt(rl, i), w, st, live \ {rl[i]})
<1> DEFINE n  == rl[i]
           r2 == RemoveAt(rl, i)
<1>1. i \in 1..Len(rl) /\ n \in ToSet(rl)
  BY LenProperties DEF Placed, ToSet
<1>2. r2 \in Seq(Tids) /\ IsInjective(r2) /\ ToSet(r2) = ToSet(rl) \ {n}
  BY <1>1, RemoveAtElements DEF Placed
<1>3. n # c /\ \A q \in Queues : n \notin ToSet(w[q])
  BY <1>1, Apart
<1>4. ASSUME NEW t \in Tids
      PROVE  t \in live \ {n} <=>
                t = c \/ t \in ToSet(r2) \/ \E q \in Queues : t \in ToSet(w[q])
  <2>1. t \in live <=> t = c \/ t \in ToSet(rl) \/ \E q \in Queues : t \in ToSet(w[q])
    BY DEF Placed
  <2> QED BY <1>2, <1>3, <2>1
<1>5. \A t \in ToSet(r2) : st[t] = Ready
  BY <1>2 DEF Placed
<1> HIDE DEF n, r2
<1>6. Placed(c, r2, w, st, live \ {n})
  BY <1>2, <1>4, <1>5 DEF Placed
<1> QED BY <1>6 DEF n, r2

\* A kill of a ready thread that nobody has waited for leaves the scheduler
\* sound.
LEMMA KillReadyStep ==
  ASSUME IInv, NEW tid \in Tids, kill_ready(tid), SafeKill(tid)
  PROVE  IInv'
<1>1. PICK i \in DOMAIN readyList : readyList[i] = tid /\ readyList' = RemoveAt(readyList, i)
  BY DEF kill_ready, TakenOut
<1>2. /\ exist' = [exist EXCEPT ![tid] = FALSE] /\ stack' = [stack EXCEPT ![tid] = FALSE]
      /\ pc' = [pc EXCEPT ![tid] = "dead"] /\ irq' = [irq EXCEPT ![tid] = FALSE]
      /\ UNCHANGED <<currentThread, nextThreadID, hasWqt, wq, status, arg, enabled,
                     exitSeen, ended>>
      /\ ~hasWqt[tid] /\ cur' = cur
  BY DEF kill_ready, KillReturns, SafeKill, cur
<1>3. Placed(cur, readyList, wq, status, Alive) /\ FieldTypes
  BY DEF IInv
<1>4. /\ readyList \in Seq(Tids) /\ wq \in [Queues -> Seq(Tids)] /\ tid \in ToSet(readyList)
      /\ IsInjective(readyList)
  BY <1>1, <1>3 DEF Placed, ToSet
<1>5. /\ tid # cur /\ \A q \in Queues : tid \notin ToSet(wq[q]) /\ ToSet(wq[q]) \subseteq Tids
      /\ ToSet(readyList) \subseteq Tids
  BY <1>3, <1>4, Apart
<1>6. /\ pc'[tid] = "dead" /\ ~exist'[tid] /\ ~stack'[tid]
      /\ \A t \in Tids \ {tid} : /\ pc'[t] = pc[t] /\ exist'[t] = exist[t]
                                 /\ stack'[t] = stack[t]
  BY <1>2, <1>3 DEF FieldTypes
<1>7. FieldTypes'
  <2>1. /\ exist' \in [Tids -> BOOLEAN] /\ stack' \in [Tids -> BOOLEAN]
        /\ irq' \in [Tids -> BOOLEAN]
    BY <1>2, <1>3, BooleanField DEF FieldTypes
  <2>2. pc' \in [Tids -> PCs]
    BY <1>2, <1>3 DEF FieldTypes, PCs
  <2> QED BY <1>2, <1>3, <2>1, <2>2 DEF FieldTypes
<1>8. Alive' = Alive \ {tid}
  BY <1>6 DEF Alive
<1>9. Placed(cur, readyList, wq, status, Alive)'
  BY <1>1, <1>2, <1>3, <1>8, KillPlaces
<1>10. StackLifetime' /\ AliveExist'
  BY <1>6, <1>8 DEF IInv, StackLifetime, AliveExist, Alive
<1>11. wq[tid] = <<>>
  BY <1>2 DEF IInv, NoOrphanWaiter
<1>12. NoOrphanWaiter'
  BY <1>2, <1>6, <1>11 DEF IInv, NoOrphanWaiter
<1>13. \A q \in UserQueues : q \in Queues
  BY DEF Queues
<1>14. \A t \in Tids : t \in Queues
  BY DEF Queues
<1>15. WaitersPlaced'
  BY <1>2, <1>5, <1>6, <1>13, <1>14 DEF IInv, WaitersPlaced
<1>16. WokenSawExit'
  <2>1. i \in 1..Len(readyList)
    BY <1>4, LenProperties
  <2>2. ToSet(readyList') \subseteq ToSet(readyList)
    BY <1>1, <1>4, <2>1, RemoveAtElements
  <2> QED BY <1>2, <1>5, <1>6, <2>2 DEF IInv, WokenSawExit
<1> QED BY <1>7, <1>9, <1>10, <1>12, <1>15, <1>16 DEF IInv

\* thread_yield and thread_exit never come upon a thread that is marked as
\* gone: whoever is ready, or is woken by thread_exit, is there.
LEMMA HeadExists ==
  ASSUME IInv
  PROVE  /\ readyList # <<>> => exist[Head(readyList)]
         /\ readyList \o WokenByExit # <<>> => exist[Head(readyList \o WokenByExit)]
<1>1. /\ WokenByExit = wq[cur] /\ cur \in Tids /\ cur \in Queues
      /\ wq[cur] \in Seq(Tids) /\ IsInjective(wq[cur])
  BY WokenAre
<1>2. Placed(cur, readyList, wq, status, Alive) /\ AliveExist
  BY DEF IInv
<1>3. ASSUME NEW rl \in Seq(Tids), rl # <<>>,
             ToSet(rl) \subseteq ToSet(readyList) \cup ToSet(wq[cur])
      PROVE  exist[Head(rl)]
  <2>1. Head(rl) \in Tids /\ Head(rl) \in ToSet(rl)
    BY <1>3, HeadTailProperties, EmptySeq, LenProperties DEF ToSet
  <2>2. Head(rl) \in Alive
    BY <1>1, <1>2, <1>3, <2>1 DEF Placed
  <2> QED BY <1>2, <2>2 DEF AliveExist
<1>4. readyList \in Seq(Tids)
  BY <1>2 DEF Placed
<1>5. /\ readyList \o wq[cur] \in Seq(Tids)
      /\ ToSet(readyList \o wq[cur]) = ToSet(readyList) \cup ToSet(wq[cur])
  BY <1>1, <1>4, ConcatElements
<1> QED BY <1>1, <1>3, <1>4, <1>5

\* Every step preserves the invariant.
LEMMA KillInductive == ASSUME KInv, [KNext]_kVars PROVE KInv'
<1>1. CASE SchedulerStep
  <2>1. crashed' = crashed /\ unsafe' = unsafe /\ Next
    BY <1>1 DEF SchedulerStep
  <2> QED BY <2>1, InductiveNext DEF KInv
<1>2. CASE endless_exit
  <2>0. unsafe' = unsafe
    BY <1>2 DEF endless_exit
  <2>1. PICK rl \in {readyList, readyList \o WokenByExit} :
            rl # <<>> /\ ~exist[Head(rl)]
    BY <1>2 DEF endless_exit
  <2> QED BY <2>0, <2>1, HeadExists DEF KInv
<1>3. ASSUME NEW tid \in Tids \cup {NoTid}, kill_off_the_end(tid) PROVE KInv'
  BY <1>3 DEF kill_off_the_end, KInv
<1>4. ASSUME NEW tid \in Tids, kill_ready(tid) PROVE KInv'
  <2>1. crashed' = "no" /\ unsafe' = (unsafe \/ ~SafeKill(tid))
    BY <1>4 DEF kill_ready, KillReturns
  <2>2. unsafe' \in BOOLEAN /\ (~unsafe' => ~unsafe /\ SafeKill(tid))
    BY <2>1, Zenon
  <2> QED BY <1>4, <2>1, <2>2, KillReadyStep DEF KInv
<1>5. ASSUME NEW tid \in Tids, kill_marked(tid) PROVE KInv'
  <2>1. unsafe' = (unsafe \/ ~SafeKill(tid)) /\ hasWqt[cur]
    BY <1>5 DEF kill_marked, KillReturns, MayKill
  <2>2. unsafe' \in BOOLEAN /\ (~unsafe' => ~unsafe /\ SafeKill(tid))
    BY <2>1, Zenon
  <2> QED BY <2>1, <2>2 DEF KInv, SafeKill
<1>6. CASE Crashed \/ UNCHANGED kVars
  <2>1. UNCHANGED vars /\ crashed' = crashed /\ unsafe' = unsafe
    BY <1>6 DEF Crashed, kVars, killVars
  <2> QED BY <2>1, InductiveStutter DEF KInv
<1> QED BY <1>1, <1>2, <1>3, <1>4, <1>5, <1>6 DEF KNext

\* The invariant holds in every reachable state.
THEOREM KillInvariance == KSpec => []KInv
<1>1. KInit => KInv
  BY InductiveInit DEF KInit, KInv
<1>2. KInv /\ [KNext]_kVars => KInv'
  BY KillInductive
<1> QED BY <1>1, <1>2, PTL DEF KSpec

\* As long as every kill finds its target in the ready list, and neither the
\* caller nor the target has been waited for, thread_kill crashes nothing,
\* loses no thread, no stack and no waiter, however many kills there are.
THEOREM KillSafe == KSpec => []SafeKillsDoNoHarm
<1>1. KInv => SafeKillsDoNoHarm
  <2> SUFFICES ASSUME KInv, ~unsafe
               PROVE  /\ crashed = "no" /\ exist[cur]
                      /\ NobodyLost /\ StackLifetime /\ NoOrphanWaiter
    BY DEF SafeKillsDoNoHarm
  <2>1. IInv /\ crashed = "no"
    BY DEF KInv
  <2>2. exist[cur]
    BY <2>1 DEF IInv, Placed, AliveExist
  <2> QED BY <2>1, <2>2, InvariantImplies
<1> QED BY KillInvariance, <1>1, PTL

===============================================================================
