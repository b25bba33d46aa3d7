------------------------------ MODULE FileCache ------------------------------
(***************************************************************************)
(* do_server_request of webserver/server_thread.c: the file cache that the *)
(* worker threads share, a hash table of chained elements and an LRU list. *)
(*                                                                         *)
(* Every access to the cache is made under the mutex of the server, so a   *)
(* critical section is one step.  Reading the file and sending it are      *)
(* outside, and what a thread found before them it uses after them.        *)
(***************************************************************************)
EXTENDS Integers, Sequences, FiniteSets, SequencesExt

CONSTANTS Threads,         \* the threads that run do_server_request
          Files, NoFile,   \* the files clients ask for, and none
          FileSize,        \* their sizes
          Bucket,          \* hash(file_name) % max_cache_size
          MaxCacheSize,    \* sv->max_cache_size
          MaxElements      \* bound: elements in the cache at a time

ASSUME FilesAssumption ==
    /\ FileSize \in [Files -> Nat] /\ Bucket \in [Files -> Nat]
    /\ MaxCacheSize \in Nat /\ MaxElements \in Nat /\ NoFile \notin Files

ASSUME ThreadsAssumption == IsFiniteSet(Threads)   \* nr_threads of them

Elements == 1..MaxElements      \* struct wordsElement with its LRUNode
NoElem   == 0
Buckets  == {Bucket[f] : f \in Files}

VARIABLES lq,            \* sv->lq: elements, least recently used first
          ht,            \* sv->ht: the chain of each bucket
          word,          \* the file of each element
          refCount,
          currentSize,   \* sv->currentSize
          pc, want,      \* of each thread: where it is, the file it serves
          check          \* the element it uses, or NoElem

cache == <<lq, ht, word, refCount, currentSize>>
vars  == <<cache, pc, want, check>>

Init ==
    /\ lq = <<>>
    /\ ht = [b \in Buckets |-> <<>>]
    /\ word = [e \in Elements |-> NoFile]
    /\ refCount = [e \in Elements |-> 0]
    /\ currentSize = 0
    /\ pc = [t \in Threads |-> "idle"]
    /\ want = [t \in Threads |-> NoFile]
    /\ check = [t \in Threads |-> NoElem]

-----------------------------------------------------------------------------
(* The hash table and the LRU list.                                        *)

\* Mutants
EveryPlace      == DOMAIN lq
StillChained(v) == ht
NoSizeCheck(f)  == TRUE
NotLookedUp(f)  == NoElem

\* cache_lookup: the loop walks the chain but compares the head every time.
Found(f) ==
    LET chain == ht[Bucket[f]] IN
    IF chain # <<>> /\ word[chain[1]] = f THEN chain[1] ELSE NoElem

\* The second lookup, which do_server_request makes after it read the file.
FoundAgain(f) == Found(f)

\* The list s with the node of element e unlinked.
Unlinked(s, e) == RemoveAt(s, CHOOSE i \in DOMAIN s : s[i] = e)

\* deleteSwapNode(node, sv, 1): to the most recently used end.
MovedToBack(s, e) == Append(Unlinked(s, e), e)

\* The first element of the list that nobody uses, NoElem if all are in use.
Idle   == {i \in DOMAIN lq : refCount[lq[i]] = 0}
Victim == IF Idle = {} THEN NoElem ELSE lq[Min(Idle)]

\* How much has to go for file f to fit.
AmountEvict(f) == FileSize[f] - (MaxCacheSize - currentSize)

\* cache_evict removes one element, and only if that one is large enough.
BigEnough(f) == AmountEvict(f) <= FileSize[word[Victim]]
CanEvict(f)  == Victim # NoElem /\ BigEnough(f)

\* deleteHash
Unchained(v) == [ht EXCEPT ![Bucket[word[v]]] = Unlinked(@, v)]

\* The struct that malloc hands out for a new element.
Unused(l) == {e \in Elements : \A i \in DOMAIN l : l[i] # e}

-----------------------------------------------------------------------------
(* do_server_request                                                       *)

\* request_init has parsed the name of the file.  Without a cache the thread
\* goes on to read it.
Begin(t, f) ==
    /\ pc[t] = "idle"
    /\ pc' = [pc EXCEPT ![t] = IF MaxCacheSize > 0 THEN "lookup" ELSE "readOnly"]
    /\ want' = [want EXCEPT ![t] = f]
    /\ UNCHANGED <<cache, check>>

\* refCount++, request_set_data, deleteSwapNode: thread t uses element e.
Use(t, e) ==
    /\ refCount' = [refCount EXCEPT ![e] = @ + 1]
    /\ lq' = MovedToBack(lq, e)
    /\ check' = [check EXCEPT ![t] = e]
    /\ pc' = [pc EXCEPT ![t] = "send"]
    /\ UNCHANGED <<ht, word, currentSize, want>>

Hit(t) ==
    /\ pc[t] = "lookup" /\ Found(want[t]) # NoElem
    /\ Use(t, Found(want[t]))

Miss(t) ==
    /\ pc[t] = "lookup" /\ Found(want[t]) = NoElem
    /\ pc' = [pc EXCEPT ![t] = "read"]
    /\ UNCHANGED <<cache, want, check>>

\* request_readfile, outside the mutex.
ReadFile(t) ==
    /\ pc[t] \in {"read", "readOnly"}
    /\ pc' = [pc EXCEPT ![t] = IF pc[t] = "read" THEN "insert" ELSE "sendOnly"]
    /\ UNCHANGED <<cache, want, check>>

\* It could not be read: the error has been sent.
ReadFails(t) ==
    /\ pc[t] \in {"read", "readOnly"}
    /\ pc' = [pc EXCEPT ![t] = "idle"]
    /\ want' = [want EXCEPT ![t] = NoFile]
    /\ UNCHANGED <<cache, check>>

\* The second lookup: another thread has cached the file in the meantime.
HitAfterRead(t) ==
    /\ pc[t] = "insert" /\ FoundAgain(want[t]) # NoElem
    /\ Use(t, FoundAgain(want[t]))

\* cache_insert into the list l, the table h with words w, and the use of the
\* new element.
Insert(t, l, h, w, size) ==
    \E e \in Unused(l) :
        /\ \A u \in Unused(l) : e <= u
        /\ lq' = Append(l, e)
        /\ ht' = [h EXCEPT ![Bucket[want[t]]] = Append(@, e)]
        /\ word' = [w EXCEPT ![e] = want[t]]
        /\ refCount' = [refCount EXCEPT ![e] = 1]
        /\ currentSize' = size + FileSize[want[t]]
        /\ check' = [check EXCEPT ![t] = e]
        /\ pc' = [pc EXCEPT ![t] = "send"]
        /\ UNCHANGED want

\* There is room.
InsertFits(t) ==
    /\ pc[t] = "insert" /\ FoundAgain(want[t]) = NoElem
    /\ currentSize + FileSize[want[t]] <= MaxCacheSize
    /\ Insert(t, lq, ht, word, currentSize)

\* One element goes (deleteHash, deleteSwapNode), the new one comes.
InsertEvicts(t) ==
    /\ pc[t] = "insert" /\ FoundAgain(want[t]) = NoElem
    /\ currentSize + FileSize[want[t]] > MaxCacheSize
    /\ CanEvict(want[t])
    /\ LET v == Victim
       IN Insert(t, Unlinked(lq, v), Unchained(v),
                 [word EXCEPT ![v] = NoFile], currentSize - FileSize[word[v]])

\* The file is sent without being cached.
InsertRefused(t) ==
    /\ pc[t] = "insert" /\ FoundAgain(want[t]) = NoElem
    /\ currentSize + FileSize[want[t]] > MaxCacheSize
    /\ ~CanEvict(want[t])
    /\ pc' = [pc EXCEPT ![t] = "sendOnly"]
    /\ UNCHANGED <<cache, want, check>>

\* request_sendfile, outside the mutex: of the data of the element ...
Send(t) ==
    /\ pc[t] = "send"
    /\ pc' = [pc EXCEPT ![t] = "release"]
    /\ UNCHANGED <<cache, want, check>>

\* ... or of the thread's own data, which is then freed.
SendOnly(t) ==
    /\ pc[t] = "sendOnly"
    /\ pc' = [pc EXCEPT ![t] = "idle"]
    /\ want' = [want EXCEPT ![t] = NoFile]
    /\ UNCHANGED <<cache, check>>

\* refCount--
Release(t) ==
    /\ pc[t] = "release"
    /\ refCount' = [refCount EXCEPT ![check[t]] = @ - 1]
    /\ check' = [check EXCEPT ![t] = NoElem]
    /\ pc' = [pc EXCEPT ![t] = "idle"]
    /\ want' = [want EXCEPT ![t] = NoFile]
    /\ UNCHANGED <<lq, ht, word, currentSize>>

Next ==
    \E t \in Threads :
        \/ \E f \in Files : Begin(t, f)
        \/ Hit(t) \/ Miss(t) \/ ReadFile(t) \/ ReadFails(t) \/ HitAfterRead(t)
        \/ InsertFits(t) \/ InsertEvicts(t) \/ InsertRefused(t)
        \/ Send(t) \/ SendOnly(t) \/ Release(t)

Spec == Init /\ [][Next]_vars

-----------------------------------------------------------------------------
(* Properties.                                                             *)

PCs == {"idle", "lookup", "read", "insert", "send", "release", "readOnly",
        "sendOnly"}

\* Every variable has its type: no reference count drops below zero and the
\* size kept by do_server_request and cache_evict is never negative.
TypeOK ==
    /\ lq \in Seq(Elements)
    /\ ht \in [Buckets -> Seq(Elements)]
    /\ word \in [Elements -> Files \cup {NoFile}]
    /\ refCount \in [Elements -> Nat]
    /\ currentSize \in Nat
    /\ pc \in [Threads -> PCs]
    /\ want \in [Threads -> Files \cup {NoFile}]
    /\ check \in [Threads -> Elements \cup {NoElem}]

\* The bytes cached by the elements of list l, which hold the files w.
CachedBytes(l, w) == UNION {{e} \X (1..FileSize[w[e]]) : e \in ToSet(l)}

\* The size the server keeps is the size of what is cached, and it never
\* exceeds the limit, through any mixture of insertions and evictions.
SizeWithinLimit ==
    /\ currentSize = Cardinality(CachedBytes(lq, word))
    /\ currentSize <= MaxCacheSize

\* The LRU list and the hash table hold the same elements, each once, and
\* each in the bucket of its file.
ListsAgree ==
    /\ IsInjective(lq)
    /\ \A b \in Buckets : IsInjective(ht[b])
    /\ \A e \in Elements : \A b \in Buckets :
            e \in ToSet(ht[b]) <=> e \in ToSet(lq) /\ Bucket[word[e]] = b

\* What a thread sends was not evicted after it let the mutex go, and is the
\* file it was asked for.
ServesItsFile ==
    \A t \in Threads :
        pc[t] \in {"send", "release"} =>
            check[t] \in ToSet(lq) /\ word[check[t]] = want[t]

\* An element that nobody uses can be evicted, one in use cannot: refCount is
\* the number of threads between taking and releasing it.
RefCountExact ==
    \A e \in ToSet(lq) : refCount[e] = Cardinality({t \in Threads : check[t] = e})

\* A file that shares its bucket with no other is cached once, although any
\* number of threads may look it up, miss, and read it at the same time.
CachedOnce ==
    \A i, j \in DOMAIN lq :
        /\ word[lq[i]] = word[lq[j]]
        /\ \A f \in Files : Bucket[f] = Bucket[word[lq[i]]] => f = word[lq[i]]
        => i = j

\* cache_insert: "assume that it doesn't exist".
NoFileTwice ==
    \A i, j \in DOMAIN lq : word[lq[i]] = word[lq[j]] => i = j

=============================================================================
