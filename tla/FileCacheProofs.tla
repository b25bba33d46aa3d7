-------------------------- MODULE FileCacheProofs --------------------------
(***************************************************************************)
(* The safety of the file cache for any number of threads, any files with  *)
(* any sizes and buckets, and any cache size.                              *)
(***************************************************************************)
EXTENDS FileCache, ListLemmas, FiniteSetTheorems

\* What the critical sections keep of the list l, the table h, the files w of
\* the elements and the size: list and table agree, and the size is exact.
CacheOK(l, h, w, size) ==
    /\ l \in Seq(Elements) /\ IsInjective(l)
    /\ h \in [Buckets -> Seq(Elements)]
    /\ \A b \in Buckets : IsInjective(h[b])
    /\ w \in [Elements -> Files \cup {NoFile}]
    /\ \A e \in ToSet(l) : w[e] \in Files
    /\ \A e \in Elements : \A b \in Buckets :
            e \in ToSet(h[b]) <=> e \in ToSet(l) /\ Bucket[w[e]] = b
    /\ IsFiniteSet(CachedBytes(l, w)) /\ size = Cardinality(CachedBytes(l, w))

\* A thread holds an element exactly between taking and releasing it, and has
\* a file to serve while it is in do_server_request.
HoldInv ==
    \A t \in Threads :
        /\ pc[t] \notin {"send", "release"} => check[t] = NoElem
        /\ pc[t] # "idle" => want[t] \in Files

IInv == /\ TypeOK /\ CacheOK(lq, ht, word, currentSize)
        /\ currentSize <= MaxCacheSize
        /\ ServesItsFile /\ RefCountExact /\ HoldInv

-----------------------------------------------------------------------------
(* The operators.                                                          *)

\* Unlinking an element takes out that element.
LEMMA UnlinkedElements ==
  ASSUME NEW s \in Seq(Elements), IsInjective(s), NEW e \in ToSet(s)
  PROVE  /\ Unlinked(s, e) \in Seq(Elements) /\ IsInjective(Unlinked(s, e))
         /\ ToSet(Unlinked(s, e)) = ToSet(s) \ {e}
<1> DEFINE i == CHOOSE k \in DOMAIN s : s[k] = e
<1>1. i \in DOMAIN s /\ s[i] = e
  BY DEF ToSet
<1>2. i \in 1..Len(s)
  BY <1>1, LenProperties
<1>3. Unlinked(s, e) = RemoveAt(s, i)
  BY DEF Unlinked
<1> HIDE DEF i
<1> QED BY <1>1, <1>2, <1>3, RemoveAtElements

\* deleteSwapNode with command 1 keeps the elements of the list.
LEMMA MovedToBackElements ==
  ASSUME NEW s \in Seq(Elements), IsInjective(s), NEW e \in ToSet(s)
  PROVE  /\ MovedToBack(s, e) \in Seq(Elements)
         /\ IsInjective(MovedToBack(s, e))
         /\ ToSet(MovedToBack(s, e)) = ToSet(s)
<1>1. e \in Elements
  <2>1. PICK k \in DOMAIN s : s[k] = e
    BY DEF ToSet
  <2> QED BY <2>1, LenProperties, ElementOfSeq
<1>2. /\ Unlinked(s, e) \in Seq(Elements) /\ IsInjective(Unlinked(s, e))
      /\ ToSet(Unlinked(s, e)) = ToSet(s) \ {e}
  BY UnlinkedElements
<1>3. /\ Append(Unlinked(s, e), e) \in Seq(Elements)
      /\ ToSet(Append(Unlinked(s, e), e)) = ToSet(Unlinked(s, e)) \cup {e}
      /\ IsInjective(Append(Unlinked(s, e), e))
  BY <1>1, <1>2, AppendElements
<1> QED BY <1>2, <1>3 DEF MovedToBack

\* The elements of a list are elements.
LEMMA ListElements ==
  ASSUME NEW s \in Seq(Elements)
  PROVE  ToSet(s) \subseteq Elements
BY LenProperties, ElementOfSeq DEF ToSet

\* The element that cache_lookup returns is in the list and holds the file.
LEMMA FoundIsCached ==
  ASSUME CacheOK(lq, ht, word, currentSize), NEW f \in Files, Found(f) # NoElem
  PROVE  Found(f) \in ToSet(lq) /\ word[Found(f)] = f
<1> DEFINE chain == ht[Bucket[f]]
<1>1. Bucket[f] \in Buckets
  BY DEF Buckets
<1>2. chain \in Seq(Elements)
  BY <1>1 DEF CacheOK
<1>3. chain # <<>> /\ word[chain[1]] = f /\ Found(f) = chain[1]
  BY DEF Found
<1>4. 1 \in DOMAIN chain /\ chain[1] \in Elements
  BY <1>2, <1>3, LenProperties, EmptySeq
<1>5. chain[1] \in ToSet(chain)
  BY <1>4 DEF ToSet
<1>6. chain[1] \in ToSet(lq)
  BY <1>1, <1>4, <1>5 DEF CacheOK
<1> QED BY <1>3, <1>6

\* The element that cache_evict picks is in the list, and nobody uses it.
LEMMA VictimIsIdle ==
  ASSUME lq \in Seq(Elements), Victim # NoElem
  PROVE  Victim \in ToSet(lq) /\ refCount[Victim] = 0
<1>1. Idle # {} /\ Victim = lq[Min(Idle)]
  BY DEF Victim
<1>2. Idle \subseteq Nat
  BY LenProperties DEF Idle
<1>3. Min(Idle) \in Idle
  BY <1>1, <1>2, MinIsIn
<1> QED BY <1>1, <1>3 DEF Idle, ToSet

\* An element counts for as many bytes as its file has.
LEMMA BytesOfOne ==
  ASSUME NEW e, NEW n \in Nat
  PROVE  IsFiniteSet({e} \X (1..n)) /\ Cardinality({e} \X (1..n)) = n
<1>1. IsFiniteSet({e}) /\ Cardinality({e}) = 1
  BY FS_Singleton
<1>2. IsFiniteSet(1..n) /\ Cardinality(1..n) = n
  BY FS_Interval
<1>3. /\ IsFiniteSet({e} \X (1..n))
      /\ Cardinality({e} \X (1..n)) = Cardinality({e}) * Cardinality(1..n)
  BY <1>1, <1>2, FS_Product
<1> QED BY <1>1, <1>2, <1>3

\* The bytes of a list are those of its elements.
LEMMA InBytes ==
  ASSUME NEW l, NEW w, NEW p
  PROVE  p \in CachedBytes(l, w) <=>
            \E e \in ToSet(l) : p \in {e} \X (1..FileSize[w[e]])
BY DEF CachedBytes

\* cache_insert of file f in a new element e.
LEMMA InsertedOK ==
  ASSUME NEW l, NEW h, NEW w, NEW size, CacheOK(l, h, w, size),
         NEW e \in Unused(l), NEW f \in Files
  PROVE  CacheOK(Append(l, e), [h EXCEPT ![Bucket[f]] = Append(@, e)],
                 [w EXCEPT ![e] = f], size + FileSize[f])
<1> DEFINE l2 == Append(l, e)
           h2 == [h EXCEPT ![Bucket[f]] = Append(@, e)]
           w2 == [w EXCEPT ![e] = f]
           new == {e} \X (1..FileSize[f])
<1>1. e \in Elements /\ e \notin ToSet(l) /\ Bucket[f] \in Buckets
  BY DEF Unused, ToSet, Buckets
<1>2. FileSize[f] \in Nat
  BY FilesAssumption
<1>3. l2 \in Seq(Elements) /\ IsInjective(l2) /\ ToSet(l2) = ToSet(l) \cup {e}
  BY <1>1, AppendElements DEF CacheOK
<1>4. w2 \in [Elements -> Files \cup {NoFile}] /\ w2[e] = f
      /\ \A x \in Elements \ {e} : w2[x] = w[x]
  BY <1>1 DEF CacheOK
<1>5. \A x \in ToSet(l) : x \in Elements /\ x # e
  BY <1>1, ListElements DEF CacheOK
<1>6. \A x \in ToSet(l2) : w2[x] \in Files
  BY <1>3, <1>4, <1>5 DEF CacheOK
<1>7. \A b \in Buckets : h[b] \in Seq(Elements) /\ e \notin ToSet(h[b])
  BY <1>1 DEF CacheOK
<1>8. /\ Append(h[Bucket[f]], e) \in Seq(Elements)
      /\ IsInjective(Append(h[Bucket[f]], e))
      /\ ToSet(Append(h[Bucket[f]], e)) = ToSet(h[Bucket[f]]) \cup {e}
  BY <1>1, <1>7, AppendElements DEF CacheOK
<1>9. /\ h2 \in [Buckets -> Seq(Elements)]
      /\ h2[Bucket[f]] = Append(h[Bucket[f]], e)
      /\ \A b \in Buckets \ {Bucket[f]} : h2[b] = h[b]
  BY <1>1, <1>8 DEF CacheOK
<1>10. \A b \in Buckets : IsInjective(h2[b])
  BY <1>8, <1>9 DEF CacheOK
<1>11. ASSUME NEW x \in Elements, NEW b \in Buckets
       PROVE  x \in ToSet(h2[b]) <=> x \in ToSet(l2) /\ Bucket[w2[x]] = b
  <2>1. ToSet(h2[b]) = IF b = Bucket[f] THEN ToSet(h[b]) \cup {e} ELSE ToSet(h[b])
    BY <1>8, <1>9
  <2>2. x \in ToSet(h[b]) <=> x \in ToSet(l) /\ Bucket[w[x]] = b
    BY DEF CacheOK
  <2>3. CASE x = e
    BY <1>3, <1>4, <1>7, <2>1, <2>3
  <2>4. CASE x # e
    <3>1. w2[x] = w[x]
      BY <1>4, <2>4
    <3> QED BY <1>3, <2>1, <2>2, <2>4, <3>1
  <2> QED BY <2>3, <2>4
<1>12. CachedBytes(l2, w2) = CachedBytes(l, w) \cup new
  <2>1. \A x \in ToSet(l) : FileSize[w2[x]] = FileSize[w[x]]
    BY <1>4, <1>5
  <2> HIDE DEF l2, w2
  <2>2. ASSUME NEW p
        PROVE  p \in CachedBytes(l2, w2) <=> p \in CachedBytes(l, w) \/ p \in new
    <3>1. p \in CachedBytes(l2, w2) <=>
            \E x \in ToSet(l2) : p \in {x} \X (1..FileSize[w2[x]])
      BY InBytes
    <3>2. p \in CachedBytes(l, w) <=>
            \E x \in ToSet(l) : p \in {x} \X (1..FileSize[w[x]])
      BY InBytes
    <3>3. p \in new <=> p \in {e} \X (1..FileSize[w2[e]])
      BY <1>4
    <3> QED BY <1>3, <2>1, <3>1, <3>2, <3>3, Zenon
  <2> QED BY <2>2
<1>13. CachedBytes(l, w) \cap new = {}
  <2> SUFFICES ASSUME NEW p \in CachedBytes(l, w), p \in new PROVE FALSE
    OBVIOUS
  <2>1. PICK x \in ToSet(l) : p \in {x} \X (1..FileSize[w[x]])
    BY InBytes
  <2>2. p[1] = x /\ p[1] = e
    BY <2>1
  <2> QED BY <1>5, <2>2
<1>14. IsFiniteSet(new) /\ Cardinality(new) = FileSize[f]
  BY <1>2, BytesOfOne
<1> HIDE DEF new
<1>15. /\ IsFiniteSet(CachedBytes(l2, w2))
       /\ size + FileSize[f] = Cardinality(CachedBytes(l2, w2))
  <2>1. IsFiniteSet(CachedBytes(l, w)) /\ size = Cardinality(CachedBytes(l, w))
    BY DEF CacheOK
  <2>2. Cardinality(CachedBytes(l, w)) \in Nat
    BY <2>1, FS_CardinalityType
  <2>3. /\ IsFiniteSet(CachedBytes(l, w) \cup new)
        /\ Cardinality(CachedBytes(l, w) \cup new) =
             Cardinality(CachedBytes(l, w)) + Cardinality(new)
                 - Cardinality(CachedBytes(l, w) \cap new)
    BY <1>14, <2>1, FS_Union
  <2>4. Cardinality(CachedBytes(l, w) \cap new) = 0
    BY <1>13, FS_EmptySet
  <2>5. Cardinality(CachedBytes(l, w) \cup new) = size + FileSize[f]
    BY <1>2, <1>14, <2>1, <2>2, <2>3, <2>4
  <2> QED BY <1>12, <2>3, <2>5
<1> QED BY <1>3, <1>4, <1>6, <1>9, <1>10, <1>11, <1>15 DEF CacheOK

\* cache_evict of element v: deleteHash and deleteSwapNode.
LEMMA EvictedOK ==
  ASSUME NEW l, NEW h, NEW w, NEW size, CacheOK(l, h, w, size),
         NEW v \in ToSet(l)
  PROVE  /\ CacheOK(Unlinked(l, v), [h EXCEPT ![Bucket[w[v]]] = Unlinked(@, v)],
                    [w EXCEPT ![v] = NoFile], size - FileSize[w[v]])
         /\ ToSet(Unlinked(l, v)) = ToSet(l) \ {v}
<1> DEFINE f  == w[v]
           l2 == Unlinked(l, v)
           h2 == [h EXCEPT ![Bucket[f]] = Unlinked(@, v)]
           w2 == [w EXCEPT ![v] = NoFile]
           old == {v} \X (1..FileSize[f])
<1>1. v \in Elements /\ f \in Files /\ Bucket[f] \in Buckets
  BY ListElements DEF CacheOK, Buckets
<1>2. FileSize[f] \in Nat
  BY <1>1, FilesAssumption
<1>3. l2 \in Seq(Elements) /\ IsInjective(l2) /\ ToSet(l2) = ToSet(l) \ {v}
  BY UnlinkedElements DEF CacheOK
<1>4. w2 \in [Elements -> Files \cup {NoFile}]
      /\ \A x \in Elements \ {v} : w2[x] = w[x]
  BY <1>1 DEF CacheOK
<1>5. \A x \in ToSet(l2) : x \in Elements /\ x # v /\ x \in ToSet(l)
  BY <1>3, ListElements DEF CacheOK
<1>6. \A x \in ToSet(l2) : w2[x] \in Files
  BY <1>4, <1>5 DEF CacheOK
<1>7. v \in ToSet(h[Bucket[f]]) /\ \A b \in Buckets \ {Bucket[f]} : v \notin ToSet(h[b])
  BY <1>1 DEF CacheOK
<1>8. /\ Unlinked(h[Bucket[f]], v) \in Seq(Elements)
      /\ IsInjective(Unlinked(h[Bucket[f]], v))
      /\ ToSet(Unlinked(h[Bucket[f]], v)) = ToSet(h[Bucket[f]]) \ {v}
  BY <1>1, <1>7, UnlinkedElements DEF CacheOK
<1>9. /\ h2 \in [Buckets -> Seq(Elements)]
      /\ h2[Bucket[f]] = Unlinked(h[Bucket[f]], v)
      /\ \A b \in Buckets \ {Bucket[f]} : h2[b] = h[b]
  BY <1>1, <1>8 DEF CacheOK
<1>10. \A b \in Buckets : IsInjective(h2[b])
  BY <1>8, <1>9 DEF CacheOK
<1>11. ASSUME NEW x \in Elements, NEW b \in Buckets
       PROVE  x \in ToSet(h2[b]) <=> x \in ToSet(l2) /\ Bucket[w2[x]] = b
  <2>1. ToSet(h2[b]) = ToSet(h[b]) \ {v}
    BY <1>7, <1>8, <1>9
  <2>2. x \in ToSet(h[b]) <=> x \in ToSet(l) /\ Bucket[w[x]] = b
    BY DEF CacheOK
  <2>3. CASE x = v
    BY <1>3, <2>1, <2>3
  <2>4. CASE x # v
    <3>1. w2[x] = w[x]
      BY <1>4, <2>4
    <3> QED BY <1>3, <2>1, <2>2, <2>4, <3>1
  <2> QED BY <2>3, <2>4
<1>12. CachedBytes(l, w) = CachedBytes(l2, w2) \cup old
  <2>1. \A x \in ToSet(l2) : FileSize[w2[x]] = FileSize[w[x]]
    BY <1>4, <1>5
  <2>a. ToSet(l) = ToSet(l2) \cup {v}
    BY <1>3
  <2> HIDE DEF l2, w2
  <2>2. ASSUME NEW p
        PROVE  p \in CachedBytes(l, w) <=> p \in CachedBytes(l2, w2) \/ p \in old
    <3>1. p \in CachedBytes(l2, w2) <=>
            \E x \in ToSet(l2) : p \in {x} \X (1..FileSize[w2[x]])
      BY InBytes
    <3>2. p \in CachedBytes(l, w) <=>
            \E x \in ToSet(l) : p \in {x} \X (1..FileSize[w[x]])
      BY InBytes
    <3> QED BY <2>1, <2>a, <3>1, <3>2, Zenon
  <2> QED BY <2>2
<1>13. CachedBytes(l2, w2) \cap old = {}
  <2> SUFFICES ASSUME NEW p \in CachedBytes(l2, w2), p \in old PROVE FALSE
    OBVIOUS
  <2>1. PICK x \in ToSet(l2) : p \in {x} \X (1..FileSize[w2[x]])
    BY InBytes
  <2>2. p[1] = x /\ p[1] = v
    BY <2>1
  <2> QED BY <1>5, <2>2
<1>14. IsFiniteSet(old) /\ Cardinality(old) = FileSize[f]
  BY <1>2, BytesOfOne
<1> HIDE DEF old
<1>15. /\ IsFiniteSet(CachedBytes(l2, w2))
       /\ size - FileSize[f] = Cardinality(CachedBytes(l2, w2))
  <2>1. IsFiniteSet(CachedBytes(l, w)) /\ size = Cardinality(CachedBytes(l, w))
    BY DEF CacheOK
  <2>2. IsFiniteSet(CachedBytes(l2, w2))
    <3>1. CachedBytes(l2, w2) \in SUBSET CachedBytes(l, w)
      BY <1>12
    <3> QED BY <2>1, <3>1, FS_Subset
  <2>3. Cardinality(CachedBytes(l2, w2)) \in Nat
    BY <2>2, FS_CardinalityType
  <2>4. Cardinality(CachedBytes(l2, w2) \cup old) =
             Cardinality(CachedBytes(l2, w2)) + Cardinality(old)
                 - Cardinality(CachedBytes(l2, w2) \cap old)
    BY <1>14, <2>2, FS_Union
  <2>5. Cardinality(CachedBytes(l2, w2) \cap old) = 0
    BY <1>13, FS_EmptySet
  <2> QED BY <1>2, <1>12, <1>14, <2>1, <2>2, <2>3, <2>4, <2>5
<1> QED BY <1>3, <1>4, <1>6, <1>9, <1>10, <1>11, <1>15 DEF CacheOK

-----------------------------------------------------------------------------
(* The steps.                                                              *)

\* The invariant holds initially: nothing is cached.
LEMMA InductiveInit == Init => IInv
<1> SUFFICES ASSUME Init PROVE IInv
  OBVIOUS
<1>1. TypeOK
  BY FilesAssumption DEF Init, TypeOK, Elements, NoElem, PCs
<1>2. CacheOK(lq, ht, word, currentSize)
  <2>1. ToSet(<<>>) = {} /\ IsInjective(<<>>)
    BY DEF ToSet, IsInjective
  <2>2. CachedBytes(lq, word) = {}
    BY <2>1 DEF CachedBytes, Init
  <2>3. \A b \in Buckets : ht[b] = <<>>
    BY DEF Init
  <2> QED BY <1>1, <2>1, <2>2, <2>3, FS_EmptySet DEF CacheOK, Init, TypeOK
<1>3. currentSize <= MaxCacheSize
  BY FilesAssumption DEF Init
<1>4. ServesItsFile /\ HoldInv
  BY DEF Init, ServesItsFile, HoldInv
<1>5. RefCountExact
  BY DEF Init, RefCountExact, ToSet
<1> QED BY <1>1, <1>2, <1>3, <1>4, <1>5 DEF IInv

\* The threads that hold element e.
Holders(e) == {t \in Threads : check[t] = e}

\* There are finitely many of them.
LEMMA HoldersFinite ==
  ASSUME NEW e
  PROVE  IsFiniteSet(Holders(e)) /\ IsFiniteSet(Holders(e))'
<1>1. Holders(e) \in SUBSET Threads /\ Holders(e)' \in SUBSET Threads
  BY DEF Holders
<1> QED BY <1>1, ThreadsAssumption, FS_Subset

\* A thread takes the element e that it has found: refCount++ and the element
\* moves to the recent end of the list.
LEMMA UseStep ==
  ASSUME IInv, NEW t \in Threads, pc[t] \in {"lookup", "insert"},
         NEW e \in ToSet(lq), word[e] = want[t], Use(t, e)
  PROVE  IInv'
<1>1. e \in Elements /\ e # NoElem
  BY ListElements DEF IInv, CacheOK, Elements, NoElem
<1>2. lq' \in Seq(Elements) /\ IsInjective(lq') /\ ToSet(lq') = ToSet(lq)
  BY MovedToBackElements DEF IInv, CacheOK, Use
<1>3. ht' = ht /\ word' = word /\ currentSize' = currentSize /\ want' = want
  BY DEF Use
<1>4. check[t] = NoElem /\ want[t] \in Files
  BY DEF IInv, HoldInv
<1>5. TypeOK'
  <2>1. check' \in [Threads -> Elements \cup {NoElem}]
    BY <1>1 DEF IInv, TypeOK, Use
  <2>2. refCount' \in [Elements -> Nat]
    BY <1>1 DEF IInv, TypeOK, Use
  <2>3. pc' \in [Threads -> PCs]
    BY DEF IInv, TypeOK, Use, PCs
  <2> QED BY <1>2, <1>3, <2>1, <2>2, <2>3 DEF IInv, TypeOK
<1>6. CachedBytes(lq', word') = CachedBytes(lq, word)
  BY <1>2, <1>3 DEF CachedBytes
<1>7. CacheOK(lq, ht, word, currentSize)'
  BY <1>2, <1>3, <1>6 DEF IInv, CacheOK
<1>8. ServesItsFile'
  <2> SUFFICES ASSUME NEW u \in Threads, pc'[u] \in {"send", "release"}
               PROVE  check'[u] \in ToSet(lq') /\ word'[check'[u]] = want'[u]
    BY DEF ServesItsFile
  <2>1. CASE u = t
    BY <1>2, <1>3, <2>1 DEF IInv, TypeOK, Use
  <2>2. CASE u # t
    BY <1>2, <1>3, <2>2 DEF IInv, TypeOK, Use, ServesItsFile
  <2> QED BY <2>1, <2>2
<1>9. HoldInv'
  BY <1>3, <1>4 DEF IInv, TypeOK, Use, HoldInv
<1>10. RefCountExact'
  <2> SUFFICES ASSUME NEW x \in ToSet(lq)
               PROVE  refCount'[x] = Cardinality(Holders(x)')
    BY <1>2 DEF RefCountExact, Holders
  <2>1. x \in Elements /\ x # NoElem
    BY ListElements DEF IInv, CacheOK, Elements, NoElem
  <2>2. refCount[x] = Cardinality(Holders(x)) /\ refCount[x] \in Nat
    BY <2>1 DEF IInv, RefCountExact, TypeOK, Holders
  <2>3. CASE x = e
    <3>1. Holders(x)' = Holders(x) \cup {t} /\ t \notin Holders(x)
      BY <1>4, <2>1, <2>3 DEF Holders, Use, IInv, TypeOK
    <3>2. Cardinality(Holders(x) \cup {t}) = Cardinality(Holders(x)) + 1
      BY <3>1, HoldersFinite, FS_AddElement
    <3>3. refCount'[x] = refCount[x] + 1
      BY <1>1, <2>3 DEF Use, IInv, TypeOK
    <3> QED BY <2>2, <3>1, <3>2, <3>3
  <2>4. CASE x # e
    <3>1. Holders(x)' = Holders(x)
      BY <1>4, <2>1, <2>4 DEF Holders, Use, IInv, TypeOK
    <3>2. refCount'[x] = refCount[x]
      BY <2>1, <2>4 DEF Use, IInv, TypeOK
    <3> QED BY <2>2, <3>1, <3>2
  <2> QED BY <2>3, <2>4
<1>11. (currentSize <= MaxCacheSize)'
  BY <1>3 DEF IInv
<1> QED BY <1>5, <1>7, <1>8, <1>9, <1>10, <1>11 DEF IInv

\* A thread caches its file in a new element of the list l that the cache has
\* once room was made for it.
LEMMA InsertStep ==
  ASSUME IInv, NEW t \in Threads, pc[t] = "insert",
         NEW l, NEW h, NEW w, NEW size, CacheOK(l, h, w, size),
         size + FileSize[want[t]] <= MaxCacheSize,
         ToSet(l) \subseteq ToSet(lq),
         \A u \in Threads : check[u] # NoElem =>
             check[u] \in ToSet(l) /\ w[check[u]] = word[check[u]],
         Insert(t, l, h, w, size)
  PROVE  IInv'
<1>1. want[t] \in Files /\ check[t] = NoElem /\ want' = want
  BY DEF IInv, HoldInv, Insert
<1>2. PICK e \in Unused(l) :
        /\ lq' = Append(l, e)
        /\ ht' = [h EXCEPT ![Bucket[want[t]]] = Append(@, e)]
        /\ word' = [w EXCEPT ![e] = want[t]]
        /\ refCount' = [refCount EXCEPT ![e] = 1]
        /\ currentSize' = size + FileSize[want[t]]
        /\ check' = [check EXCEPT ![t] = e]
        /\ pc' = [pc EXCEPT ![t] = "send"]
  BY DEF Insert
<1>3. e \in Elements /\ e \notin ToSet(l) /\ e # NoElem
  BY DEF Unused, ToSet, Elements, NoElem
<1>4. CacheOK(lq, ht, word, currentSize)'
  BY <1>1, <1>2, InsertedOK
<1>5. ToSet(lq') = ToSet(l) \cup {e} /\ ToSet(l) \subseteq Elements
  BY <1>2, <1>3, AppendElements, ListElements DEF CacheOK
<1>6. \A u \in Threads : check[u] # e
  BY <1>3
<1>7. word'[e] = want[t] /\ \A x \in ToSet(l) : word'[x] = w[x]
  BY <1>2, <1>3, <1>5 DEF CacheOK
<1>8. TypeOK'
  <2>1. check' \in [Threads -> Elements \cup {NoElem}]
    BY <1>2, <1>3 DEF IInv, TypeOK
  <2>2. refCount' \in [Elements -> Nat]
    BY <1>2, <1>3 DEF IInv, TypeOK
  <2>3. pc' \in [Threads -> PCs]
    BY <1>2 DEF IInv, TypeOK, PCs
  <2>4. currentSize' \in Nat
    BY <1>4, FS_CardinalityType DEF CacheOK
  <2> QED BY <1>1, <1>4, <2>1, <2>2, <2>3, <2>4 DEF IInv, TypeOK, CacheOK
<1>9. ServesItsFile'
  <2> SUFFICES ASSUME NEW u \in Threads, pc'[u] \in {"send", "release"}
               PROVE  check'[u] \in ToSet(lq') /\ word'[check'[u]] = want'[u]
    BY DEF ServesItsFile
  <2>1. CASE u = t
    BY <1>1, <1>2, <1>5, <1>7, <2>1 DEF IInv, TypeOK
  <2>2. CASE u # t
    <3>1. check'[u] = check[u] /\ pc'[u] = pc[u]
      BY <1>2, <2>2 DEF IInv, TypeOK
    <3>2. check[u] \in ToSet(lq) /\ word[check[u]] = want[u]
      BY <3>1 DEF IInv, ServesItsFile
    <3>3. check[u] # NoElem
      BY <3>2, ListElements DEF IInv, CacheOK, Elements, NoElem
    <3>4. check[u] \in ToSet(l) /\ w[check[u]] = word[check[u]]
      BY <3>3
    <3> QED BY <1>1, <1>5, <1>7, <3>1, <3>2, <3>4
  <2> QED BY <2>1, <2>2
<1>10. HoldInv'
  BY <1>1, <1>2 DEF IInv, TypeOK, HoldInv
<1>11. RefCountExact'
  <2> SUFFICES ASSUME NEW x \in ToSet(l) \cup {e}
               PROVE  refCount'[x] = Cardinality(Holders(x)')
    BY <1>5 DEF RefCountExact, Holders
  <2>1. CASE x = e
    <3>1. Holders(x)' = {t}
      BY <1>2, <1>6, <2>1 DEF Holders, IInv, TypeOK
    <3>2. refCount'[x] = 1
      BY <1>2, <1>3, <2>1 DEF IInv, TypeOK
    <3> QED BY <3>1, <3>2, FS_Singleton
  <2>2. CASE x # e
    <3>1. x \in ToSet(l) /\ x \in ToSet(lq) /\ x \in Elements /\ x # NoElem
      BY <1>5, <2>2 DEF Elements, NoElem
    <3>2. Holders(x)' = Holders(x)
      BY <1>1, <1>2, <2>2, <3>1 DEF Holders, IInv, TypeOK
    <3>3. refCount'[x] = refCount[x]
      BY <1>2, <2>2, <3>1 DEF IInv, TypeOK
    <3> QED BY <3>1, <3>2, <3>3 DEF IInv, RefCountExact, Holders
  <2> QED BY <2>1, <2>2
<1>12. (currentSize <= MaxCacheSize)'
  BY <1>2
<1> QED BY <1>4, <1>8, <1>9, <1>10, <1>11, <1>12 DEF IInv

\* What a thread does without the mutex, or without touching the cache in its
\* critical section.
LEMMA LocalStep ==
  ASSUME IInv, NEW t \in Threads, UNCHANGED <<cache, check>>,
         NEW p \in PCs, pc' = [pc EXCEPT ![t] = p],
         NEW f \in Files \cup {NoFile}, want' = [want EXCEPT ![t] = f],
         p # "idle" => f \in Files,
         p \in {"send", "release"} => pc[t] = "send" /\ f = want[t],
         p \notin {"send", "release"} => pc[t] \notin {"send", "release"}
  PROVE  IInv'
<1>1. /\ lq' = lq /\ ht' = ht /\ word' = word /\ refCount' = refCount
      /\ currentSize' = currentSize /\ check' = check
  BY DEF cache
<1>2. TypeOK'
  BY <1>1 DEF IInv, TypeOK
<1>3. CacheOK(lq, ht, word, currentSize)' /\ (currentSize <= MaxCacheSize)'
  BY <1>1 DEF IInv
<1>4. RefCountExact'
  BY <1>1 DEF IInv, RefCountExact
<1>5. ServesItsFile'
  BY <1>1 DEF IInv, TypeOK, ServesItsFile
<1>6. HoldInv'
  BY <1>1 DEF IInv, TypeOK, HoldInv
<1> QED BY <1>2, <1>3, <1>4, <1>5, <1>6 DEF IInv

\* refCount-- by a thread that is done with its element.
LEMMA ReleaseStep ==
  ASSUME IInv, NEW t \in Threads, Release(t)
  PROVE  IInv'
<1>1. lq' = lq /\ ht' = ht /\ word' = word /\ currentSize' = currentSize
  BY DEF Release
<1>2. check[t] \in ToSet(lq) /\ check[t] \in Elements /\ check[t] # NoElem
  BY ListElements DEF Release, IInv, ServesItsFile, CacheOK, Elements, NoElem
<1>3. ASSUME NEW x \in ToSet(lq)
      PROVE  refCount'[x] = Cardinality(Holders(x)') /\ refCount'[x] \in Nat
  <2>1. x \in Elements /\ x # NoElem
    BY ListElements DEF IInv, CacheOK, Elements, NoElem
  <2>2. refCount[x] = Cardinality(Holders(x)) /\ refCount[x] \in Nat
    BY <2>1 DEF IInv, RefCountExact, TypeOK, Holders
  <2>3. CASE x = check[t]
    <3>1. Holders(x)' = Holders(x) \ {t} /\ t \in Holders(x)
      BY <2>1, <2>3 DEF Holders, Release, IInv, TypeOK
    <3>2. Cardinality(Holders(x) \ {t}) = Cardinality(Holders(x)) - 1
      BY <3>1, HoldersFinite, FS_RemoveElement
    <3>3. refCount'[x] = refCount[x] - 1
      BY <1>2, <2>3 DEF Release, IInv, TypeOK
    <3>4. Cardinality(Holders(x)') \in Nat
      BY HoldersFinite, FS_CardinalityType
    <3> QED BY <2>2, <3>1, <3>2, <3>3, <3>4
  <2>4. CASE x # check[t]
    <3>1. Holders(x)' = Holders(x)
      BY <2>1, <2>4 DEF Holders, Release, IInv, TypeOK
    <3>2. refCount'[x] = refCount[x]
      BY <1>2, <2>1, <2>4 DEF Release, IInv, TypeOK
    <3> QED BY <2>2, <3>1, <3>2
  <2> QED BY <2>3, <2>4
<1>4. RefCountExact'
  BY <1>1, <1>3 DEF RefCountExact, Holders
<1>5. TypeOK'
  <2>1. refCount' \in [Elements -> Nat]
    <3>1. \A x \in Elements \ {check[t]} : refCount'[x] = refCount[x]
      BY <1>2 DEF Release, IInv, TypeOK
    <3>2. refCount' = [x \in Elements |-> refCount'[x]]
      BY DEF Release, IInv, TypeOK
    <3> QED BY <1>2, <1>3, <3>1, <3>2 DEF IInv, TypeOK
  <2>2. /\ check' \in [Threads -> Elements \cup {NoElem}]
        /\ pc' \in [Threads -> PCs] /\ want' \in [Threads -> Files \cup {NoFile}]
    BY DEF Release, IInv, TypeOK, PCs
  <2> QED BY <1>1, <2>1, <2>2 DEF IInv, TypeOK
<1>6. CacheOK(lq, ht, word, currentSize)' /\ (currentSize <= MaxCacheSize)'
  BY <1>1 DEF IInv
<1>7. ServesItsFile'
  BY <1>1 DEF Release, IInv, TypeOK, ServesItsFile
<1>8. HoldInv'
  BY <1>1 DEF Release, IInv, TypeOK, HoldInv
<1> QED BY <1>4, <1>5, <1>6, <1>7, <1>8 DEF IInv

\* An element in use has a count above zero, so it is never the victim.
LEMMA VictimUnused ==
  ASSUME IInv, Victim # NoElem, NEW u \in Threads
  PROVE  check[u] # Victim
<1>1. Victim \in ToSet(lq) /\ refCount[Victim] = 0
  BY VictimIsIdle DEF IInv, TypeOK
<1>2. Cardinality(Holders(Victim)) = 0
  BY <1>1 DEF IInv, RefCountExact, Holders
<1>3. Holders(Victim) = {}
  BY <1>2, HoldersFinite, FS_EmptySet
<1> QED BY <1>3 DEF Holders

\* Every step of every thread preserves the invariant.
LEMMA InductiveStep == IInv /\ [Next]_vars => IInv'
<1> SUFFICES ASSUME IInv, [Next]_vars PROVE IInv'
  OBVIOUS
<1>1. CASE UNCHANGED vars
  BY <1>1 DEF vars, cache, IInv, TypeOK, ServesItsFile, RefCountExact, HoldInv
<1>2. ASSUME NEW t \in Threads, NEW f \in Files, Begin(t, f) PROVE IInv'
  <2> DEFINE p == IF MaxCacheSize > 0 THEN "lookup" ELSE "readOnly"
  <2>1. p \in PCs /\ p \in {"lookup", "readOnly"}
    BY DEF PCs
  <2>2. pc' = [pc EXCEPT ![t] = p] /\ pc[t] = "idle"
    BY <1>2 DEF Begin
  <2> HIDE DEF p
  <2> QED BY <1>2, <2>1, <2>2, LocalStep DEF Begin
<1>3. ASSUME NEW t \in Threads, want[t] \in Files,
             want' = [want EXCEPT ![t] = NoFile],
             pc' = [pc EXCEPT ![t] = "idle"], UNCHANGED <<cache, check>>,
             pc[t] \notin {"send", "release"}
      PROVE  IInv'
  BY <1>3, LocalStep DEF PCs
<1>4. ASSUME NEW t \in Threads, want[t] \in Files, NEW p \in PCs,
             pc' = [pc EXCEPT ![t] = p], UNCHANGED <<cache, want, check>>,
             p \in {"send", "release"} => pc[t] = "send",
             p \notin {"send", "release"} => pc[t] \notin {"send", "release"}
      PROVE  IInv'
  <2>1. want' = [want EXCEPT ![t] = want[t]] /\ UNCHANGED <<cache, check>>
    BY <1>4 DEF IInv, TypeOK, cache
  <2> QED BY <1>4, <2>1, LocalStep
<1>5. \A t \in Threads : pc[t] # "idle" => want[t] \in Files
  BY DEF IInv, HoldInv
<1>6. ASSUME NEW t \in Threads, Miss(t) PROVE IInv'
  BY <1>4, <1>5, <1>6 DEF Miss, PCs
<1>7. ASSUME NEW t \in Threads, ReadFile(t) PROVE IInv'
  BY <1>4, <1>5, <1>7 DEF ReadFile, PCs
<1>8. ASSUME NEW t \in Threads, ReadFails(t) \/ SendOnly(t) PROVE IInv'
  BY <1>3, <1>5, <1>8 DEF ReadFails, SendOnly
<1>9. ASSUME NEW t \in Threads, InsertRefused(t) PROVE IInv'
  BY <1>4, <1>5, <1>9 DEF InsertRefused, PCs
<1>10. ASSUME NEW t \in Threads, Send(t) PROVE IInv'
  BY <1>4, <1>5, <1>10 DEF Send, PCs
<1>11. ASSUME NEW t \in Threads, Hit(t) \/ HitAfterRead(t) PROVE IInv'
  <2>1. /\ pc[t] \in {"lookup", "insert"} /\ Found(want[t]) # NoElem
        /\ Use(t, Found(want[t]))
    BY <1>11 DEF Hit, HitAfterRead, FoundAgain
  <2>2. Found(want[t]) \in ToSet(lq) /\ word[Found(want[t])] = want[t]
    BY <1>5, <2>1, FoundIsCached DEF IInv
  <2> QED BY <2>1, <2>2, UseStep
<1>12. ASSUME NEW t \in Threads, InsertFits(t) PROVE IInv'
  <2>1. \A u \in Threads : check[u] # NoElem => check[u] \in ToSet(lq)
    BY DEF IInv, HoldInv, ServesItsFile
  <2> QED BY <1>12, <2>1, InsertStep DEF InsertFits, IInv
<1>13. ASSUME NEW t \in Threads, InsertEvicts(t) PROVE IInv'
  <2> DEFINE v == Victim
             l == Unlinked(lq, v)
             h == Unchained(v)
             w == [word EXCEPT ![v] = NoFile]
             size == currentSize - FileSize[word[v]]
  <2>1. /\ pc[t] = "insert" /\ v # NoElem /\ BigEnough(want[t])
        /\ Insert(t, l, h, w, size)
    BY <1>13 DEF InsertEvicts, CanEvict
  <2>2. v \in ToSet(lq)
    BY <2>1, VictimIsIdle DEF IInv, TypeOK
  <2>3. CacheOK(l, h, w, size) /\ ToSet(l) = ToSet(lq) \ {v}
    BY <2>2, EvictedOK DEF IInv, Unchained
  <2>4. size + FileSize[want[t]] <= MaxCacheSize
    <3>1. want[t] \in Files /\ word[v] \in Files
      BY <1>5, <2>1, <2>2 DEF IInv, CacheOK
    <3>2. FileSize[want[t]] \in Nat /\ FileSize[word[v]] \in Nat
      BY <3>1, FilesAssumption
    <3> QED BY <2>1, <3>2, FilesAssumption DEF BigEnough, AmountEvict, IInv, TypeOK
  <2>5. ASSUME NEW u \in Threads, check[u] # NoElem
        PROVE  check[u] \in ToSet(l) /\ w[check[u]] = word[check[u]]
    <3>1. check[u] \in ToSet(lq) /\ check[u] # v
      BY <2>1, <2>5, VictimUnused DEF IInv, HoldInv, ServesItsFile
    <3>2. check[u] \in Elements
      BY <3>1, ListElements DEF IInv, CacheOK
    <3> QED BY <2>3, <3>1, <3>2 DEF IInv, TypeOK
  <2> HIDE DEF v, l, h, w, size
  <2> QED BY <2>1, <2>3, <2>4, <2>5, InsertStep
<1>14. ASSUME NEW t \in Threads, Release(t) PROVE IInv'
  BY <1>14, ReleaseStep
<1> QED BY <1>1, <1>2, <1>6, <1>7, <1>8, <1>9, <1>10, <1>11, <1>12, <1>13, <1>14
       DEF Next

\* The invariant holds in every reachable state.
THEOREM Invariance == Spec => []IInv
BY InductiveInit, InductiveStep, PTL DEF Spec

\* Every variable keeps its type: no reference count and no size is negative.
THEOREM TypeCorrect == Spec => []TypeOK
<1>1. IInv => TypeOK
  BY DEF IInv
<1> QED BY Invariance, <1>1, PTL

\* currentSize is the size of the cached files, and within max_cache_size.
THEOREM SizeSafe == Spec => []SizeWithinLimit
<1>1. IInv => SizeWithinLimit
  BY DEF IInv, CacheOK, SizeWithinLimit
<1> QED BY Invariance, <1>1, PTL

\* The LRU list and the hash table hold the same elements, each once.
THEOREM ListsSafe == Spec => []ListsAgree
<1>1. IInv => ListsAgree
  BY DEF IInv, CacheOK, ListsAgree
<1> QED BY Invariance, <1>1, PTL

\* No element is evicted between its lookup and the end of its use.
THEOREM ServiceSafe == Spec => []ServesItsFile
<1>1. IInv => ServesItsFile
  BY DEF IInv
<1> QED BY Invariance, <1>1, PTL

\* refCount is the number of the threads that use the element.
THEOREM RefCountSafe == Spec => []RefCountExact
<1>1. IInv => RefCountExact
  BY DEF IInv
<1> QED BY Invariance, <1>1, PTL

-----------------------------------------------------------------------------
(* No file is cached twice that is alone in its bucket.                    *)

Alone(f) == \A g \in Files : Bucket[g] = Bucket[f] => g = f

\* Of the elements in list l, which hold the files w, no two hold such a file.
Once(l, w) ==
    \A d, e \in ToSet(l) : w[d] = w[e] /\ Alone(w[d]) => d = e

\* cache_lookup finds a cached file that is alone in its bucket.
LEMMA AloneIsFound ==
  ASSUME CacheOK(lq, ht, word, currentSize), NEW e \in ToSet(lq), Alone(word[e])
  PROVE  Found(word[e]) # NoElem
<1> DEFINE f     == word[e]
           chain == ht[Bucket[f]]
<1>1. f \in Files /\ e \in Elements /\ Bucket[f] \in Buckets
  BY ListElements DEF CacheOK, Buckets
<1>2. chain \in Seq(Elements) /\ e \in ToSet(chain)
  BY <1>1 DEF CacheOK
<1>3. chain # <<>>
  BY <1>2 DEF ToSet
<1>4. 1 \in DOMAIN chain /\ chain[1] \in Elements /\ chain[1] \in ToSet(chain)
  BY <1>2, <1>3, LenProperties, EmptySeq DEF ToSet
<1>5. chain[1] \in ToSet(lq) /\ Bucket[word[chain[1]]] = Bucket[f]
  BY <1>1, <1>4 DEF CacheOK
<1>6. word[chain[1]] = f
  BY <1>5 DEF CacheOK, Alone
<1>7. Found(f) = chain[1]
  BY <1>3, <1>6 DEF Found
<1> QED BY <1>4, <1>7 DEF Elements, NoElem

\* cache_insert, after the second lookup found nothing.
LEMMA InsertOnce ==
  ASSUME IInv, Once(lq, word), NEW t \in Threads, pc[t] = "insert",
         Found(want[t]) = NoElem,
         NEW l \in Seq(Elements), NEW h, NEW w, NEW size, Insert(t, l, h, w, size),
         ToSet(l) \subseteq ToSet(lq), w \in [Elements -> Files \cup {NoFile}],
         \A e \in ToSet(l) : w[e] = word[e]
  PROVE  Once(lq', word')
<1>1. PICK n \in Unused(l) : lq' = Append(l, n) /\ word' = [w EXCEPT ![n] = want[t]]
  BY DEF Insert
<1>2. n \in Elements /\ n \notin ToSet(l) /\ ToSet(lq') = ToSet(l) \cup {n}
  BY <1>1, AppendElements DEF Unused, ToSet
<1>3. ToSet(l) \subseteq Elements
  BY ListElements
<1>4. word'[n] = want[t] /\ \A e \in ToSet(l) : word'[e] = word[e] /\ e \in ToSet(lq)
  BY <1>1, <1>2, <1>3
<1>5. \A e \in ToSet(l) : Alone(word[e]) => word[e] # want[t]
  BY <1>4, AloneIsFound DEF IInv
<1> QED BY <1>2, <1>4, <1>5 DEF Once

\* Whatever many threads read at the same time, a file that shares its bucket
\* with no other is inserted by one of them only.
THEOREM OnceSafe == Spec => []CachedOnce
<1>1. Init => Once(lq, word)
  BY DEF Init, Once, ToSet
<1>2. IInv /\ Once(lq, word) /\ [Next]_vars => Once(lq, word)'
  <2> SUFFICES ASSUME IInv, Once(lq, word), [Next]_vars PROVE Once(lq', word')
    OBVIOUS
  <2>1. /\ lq \in Seq(Elements) /\ IsInjective(lq) /\ ToSet(lq) \subseteq Elements
        /\ word \in [Elements -> Files \cup {NoFile}]
        /\ CacheOK(lq, ht, word, currentSize)
    BY ListElements DEF IInv, CacheOK
  <2>2. ASSUME lq' = lq, word' = word PROVE Once(lq', word')
    BY <2>2
  <2>3. ASSUME NEW t \in Threads, Hit(t) \/ HitAfterRead(t) PROVE Once(lq', word')
    <3>1. /\ Found(want[t]) # NoElem /\ lq' = MovedToBack(lq, Found(want[t]))
          /\ word' = word /\ pc[t] # "idle"
      BY <2>3 DEF Hit, HitAfterRead, FoundAgain, Use
    <3>2. want[t] \in Files
      BY <3>1 DEF IInv, HoldInv
    <3>3. Found(want[t]) \in ToSet(lq)
      BY <2>1, <3>1, <3>2, FoundIsCached
    <3>4. ToSet(lq') = ToSet(lq)
      BY <2>1, <3>1, <3>3, MovedToBackElements
    <3> QED BY <3>1, <3>4 DEF Once
  <2>4. ASSUME NEW t \in Threads, InsertFits(t) PROVE Once(lq', word')
    BY <2>1, <2>4, InsertOnce DEF InsertFits, FoundAgain
  <2>5. ASSUME NEW t \in Threads, InsertEvicts(t) PROVE Once(lq', word')
    <3> DEFINE v == Victim
               l == Unlinked(lq, v)
               w == [word EXCEPT ![v] = NoFile]
    <3>1. /\ pc[t] = "insert" /\ v # NoElem /\ Found(want[t]) = NoElem
          /\ Insert(t, l, Unchained(v), w, currentSize - FileSize[word[v]])
      BY <2>5 DEF InsertEvicts, CanEvict, FoundAgain
    <3>2. v \in ToSet(lq)
      BY <2>1, <3>1, VictimIsIdle
    <3>3. l \in Seq(Elements) /\ ToSet(l) = ToSet(lq) \ {v}
      BY <2>1, <3>2, UnlinkedElements
    <3>4. w \in [Elements -> Files \cup {NoFile}] /\ \A e \in ToSet(l) : w[e] = word[e]
      BY <2>1, <3>2, <3>3
    <3> HIDE DEF v, l, w
    <3> QED BY <3>1, <3>3, <3>4, InsertOnce
  <2>6. CASE UNCHANGED vars
    BY <2>2, <2>6 DEF vars, cache
  <2>7. ASSUME NEW t \in Threads,
               \/ \E f \in Files : Begin(t, f)
               \/ Miss(t) \/ ReadFile(t) \/ ReadFails(t) \/ InsertRefused(t)
               \/ Send(t) \/ SendOnly(t) \/ Release(t)
        PROVE  Once(lq', word')
    BY <2>2, <2>7 DEF Begin, Miss, ReadFile, ReadFails, InsertRefused, Send, SendOnly,
                      Release, cache
  <2> QED BY <2>3, <2>4, <2>5, <2>6, <2>7 DEF Next
<1>3. IInv /\ Once(lq, word) => CachedOnce
  <2> SUFFICES ASSUME IInv, Once(lq, word), NEW i \in DOMAIN lq, NEW j \in DOMAIN lq,
                      word[lq[i]] = word[lq[j]], Alone(word[lq[i]])
               PROVE  i = j
    BY DEF CachedOnce, Alone
  <2>1. lq[i] \in ToSet(lq) /\ lq[j] \in ToSet(lq)
    BY DEF ToSet
  <2>2. lq[i] = lq[j]
    BY <2>1 DEF Once
  <2> QED BY <2>2 DEF IInv, CacheOK, IsInjective
<1> QED BY Invariance, <1>1, <1>2, <1>3, PTL DEF Spec
=============================================================================
