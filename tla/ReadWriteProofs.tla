--------------------------- MODULE ReadWriteProofs ---------------------------
(***************************************************************************)
(* Proofs about the two models of read_write.c: that the blocks of the     *)
(* files are owned once and read back (TestfsBlocks), and that the bytes   *)
(* of a file are where they were written (TestfsData), for every geometry. *)
(***************************************************************************)
EXTENDS TestfsBlocks, TestfsData, ListLemmas, FiniteSetTheorems

-----------------------------------------------------------------------------
(* Arithmetic of the map.                                                  *)

\* The bounds of GeometryAssumption, as the provers use them.
LEMMA Geometry ==
  /\ ND \in Nat /\ NI \in Nat /\ ND > 0 /\ NI > 0 /\ MaxFsBlocks \in Nat
  /\ NI * NI \in Nat /\ NI <= NI * NI
BY GeometryAssumption

\* The remainder and the quotient of a number below NI * NI.
LEMMA QuotientAndRest ==
  ASSUME NEW x \in 0..NI * NI - 1
  PROVE  /\ x \div NI \in Entries /\ x % NI \in Entries
         /\ x = NI * (x \div NI) + (x % NI)
<1>1. x = NI * (x \div NI) + (x % NI) /\ x % NI \in 0..NI-1 /\ x \div NI \in Int
  BY Geometry
<1>2. x \div NI >= 0
  BY Geometry, <1>1
<1>3. x \div NI < NI
  <2> SUFFICES ASSUME x \div NI >= NI PROVE FALSE
    BY <1>1, Geometry
  <2>1. NI * (x \div NI) >= NI * NI
    BY <1>1, Geometry
  <2> QED BY <1>1, <2>1, Geometry
<1> QED BY <1>1, <1>2, <1>3, Geometry DEF Entries

\* Where a logical block of the double indirect range is found.
LEMMA LevelSlot ==
  ASSUME NEW l \in LogBlocks, l >= ND + NI
  PROVE  /\ Level2(l) \in Entries /\ Slot(l) \in Entries
         /\ l = ND + NI + NI * Level2(l) + Slot(l)
<1>1. l - ND - NI \in 0..NI * NI - 1
  BY Geometry DEF LogBlocks
<1> QED BY <1>1, QuotientAndRest, Geometry DEF Level2, Slot, LogBlocks, Entries

\* Every entry of every second level index block is where some logical block
\* is found.
LEMMA LeafOf ==
  ASSUME NEW i \in Entries, NEW e \in Entries
  PROVE  /\ ND + NI + NI * i + e \in LogBlocks /\ ND + NI + NI * i + e >= ND + NI
         /\ Level2(ND + NI + NI * i + e) = i /\ Slot(ND + NI + NI * i + e) = e
<1> DEFINE x == NI * i + e
<1>1. i \in Int /\ 0 <= i /\ i <= NI - 1 /\ e \in Int /\ 0 <= e /\ e <= NI - 1
  BY Geometry DEF Entries
<1>2. NI * i \in Int /\ NI * i >= 0 /\ NI * i <= NI * NI - NI
  BY <1>1, Geometry
<1>3. x \in 0..NI * NI - 1
  BY <1>1, <1>2, Geometry
<1>4. PICK q, r : q = x \div NI /\ r = x % NI
  OBVIOUS
<1>5. q \in Entries /\ r \in Entries /\ x = NI * q + r
  BY <1>3, <1>4, QuotientAndRest
<1>6. q \in Int /\ r \in Int /\ 0 <= r /\ r <= NI - 1 /\ NI * q \in Int
  BY <1>5, Geometry DEF Entries
<1>7. ~(q < i)
  <2> SUFFICES ASSUME q < i PROVE FALSE
    OBVIOUS
  <2>1. NI * (q + 1) <= NI * i /\ NI * (q + 1) = NI * q + NI
    BY <1>1, <1>6, Geometry
  <2> QED BY <1>1, <1>2, <1>5, <1>6, <2>1, Geometry
<1>8. ~(i < q)
  <2> SUFFICES ASSUME i < q PROVE FALSE
    OBVIOUS
  <2>1. NI * (i + 1) <= NI * q /\ NI * (i + 1) = NI * i + NI
    BY <1>1, <1>6, Geometry
  <2> QED BY <1>1, <1>2, <1>5, <1>6, <2>1, Geometry
<1>9. q = i /\ r = e
  <2>1. q = i
    BY <1>1, <1>6, <1>7, <1>8
  <2> QED BY <1>1, <1>2, <1>5, <1>6, <2>1
<1>10. (ND + NI + NI * i + e) - ND - NI = x
  BY <1>1, <1>2, Geometry
<1>11. ND + NI + NI * i + e \in LogBlocks /\ ND + NI + NI * i + e >= ND + NI
  BY <1>1, <1>2, <1>3, Geometry DEF LogBlocks
<1> HIDE DEF x
<1> QED BY <1>4, <1>9, <1>10, <1>11 DEF Level2, Slot

\* Two logical blocks are never found in one place.
LEMMA SameLeaf ==
  ASSUME NEW l \in LogBlocks, NEW m \in LogBlocks, l >= ND + NI, m >= ND + NI,
         Level2(l) = Level2(m), Slot(l) = Slot(m)
  PROVE  l = m
BY LevelSlot

-----------------------------------------------------------------------------
(* The blocks that bitmap_alloc hands out.                                 *)

\* How many elements of S are below b.
Rank(S, b) == Cardinality({c \in S : c < b})

\* The least element has none below it.
LEMMA FirstRank ==
  ASSUME NEW S, S \subseteq Nat, S # {}
  PROVE  \E b \in S : Rank(S, b) = 0
<1>1. PICK b \in S : \A c \in S : b <= c
  BY LeastNatural
<1>2. {c \in S : c < b} = {}
  <2>1. ASSUME NEW c \in S, c < b PROVE FALSE
    <3>1. c \in Nat /\ b \in Nat /\ b <= c
      BY <1>1
    <3> QED BY <2>1, <3>1
  <2> QED BY <2>1
<1> QED BY <1>2, FS_EmptySet DEF Rank

\* Above an element that is not the last there is a next one.
LEMMA NextRank ==
  ASSUME NEW S, S \subseteq Nat, IsFiniteSet(S), NEW b \in S,
         Rank(S, b) + 1 < Cardinality(S)
  PROVE  \E d \in S : Rank(S, d) = Rank(S, b) + 1
<1> DEFINE L == {c \in S : c < b}
           U == L \cup {b}
<1>1. IsFiniteSet(L) /\ b \notin L
  BY FS_Subset
<1>2. IsFiniteSet(U) /\ Cardinality(U) = Rank(S, b) + 1
  BY <1>1, FS_AddElement DEF Rank
<1>3. S \ U # {}
  <2>1. U \subseteq S
    OBVIOUS
  <2>2. Cardinality(U) # Cardinality(S)
    <3>1. Cardinality(U) \in Nat /\ Cardinality(S) \in Nat
      BY <1>2, FS_CardinalityType
    <3> QED BY <1>2, <3>1
  <2> QED BY <2>1, <2>2
<1>4. PICK d \in S \ U : \A c \in S \ U : d <= c
  BY <1>3, LeastNatural
<1>5. {c \in S : c < d} = U
  <2>1. ASSUME NEW c \in S, c < d PROVE c \in U
    BY <1>4, <2>1
  <2>2. ASSUME NEW c \in U PROVE c \in S /\ c < d
    BY <1>4, <2>2
  <2> QED BY <2>1, <2>2
<1> QED BY <1>2, <1>4, <1>5 DEF Rank

\* As long as the disk has room, the blocks handed out in a row are free and
\* differ.
LEMMA FreshBlocks ==
  ASSUME NEW n \in 1..3, n <= Cardinality(FreeBlocks)
  PROVE  /\ \A i \in 1..n : Fresh(i) \in FreeBlocks
         /\ \A i, j \in 1..n : Fresh(i) = Fresh(j) => i = j
<1> DEFINE S == FreeBlocks
<1>1. S \subseteq Nat /\ IsFiniteSet(S)
  <2>1. IsFiniteSet(Blocks)
    BY Geometry, FS_Interval DEF Blocks
  <2>2. FreeBlocks \in SUBSET Blocks
    BY DEF FreeBlocks
  <2>3. IsFiniteSet(FreeBlocks)
    BY <2>1, <2>2, FS_Subset
  <2> QED BY <2>2, <2>3 DEF Blocks
<1>2. Cardinality(S) \in Nat /\ S # {}
  BY <1>1, FS_CardinalityType, FS_EmptySet
<1>3. \E b \in S : Rank(S, b) = 0
  BY <1>1, <1>2, FirstRank
<1>4. n > 1 => \E b \in S : Rank(S, b) = 1
  <2> HAVE n > 1
  <2>1. PICK b \in S : Rank(S, b) = 0
    BY <1>3
  <2>2. Rank(S, b) + 1 < Cardinality(S)
    BY <1>2, <2>1
  <2>3. \E d \in S : Rank(S, d) = Rank(S, b) + 1
    BY <1>1, <2>2, NextRank
  <2> QED BY <2>1, <2>3
<1>5. n > 2 => \E b \in S : Rank(S, b) = 2
  <2> HAVE n > 2
  <2>1. PICK b \in S : Rank(S, b) = 1
    BY <1>4
  <2>2. Rank(S, b) + 1 < Cardinality(S)
    BY <1>2, <2>1
  <2>3. \E d \in S : Rank(S, d) = Rank(S, b) + 1
    BY <1>1, <2>2, NextRank
  <2> QED BY <2>1, <2>3
<1>6. ASSUME NEW i \in 1..n PROVE \E b \in S : Rank(S, b) = i - 1
  BY <1>3, <1>4, <1>5
<1>7. ASSUME NEW i \in 1..n PROVE Fresh(i) \in S /\ Rank(S, Fresh(i)) = i - 1
  BY <1>6 DEF Fresh, Rank
<1>8. ASSUME NEW i \in 1..n, NEW j \in 1..n, Fresh(i) = Fresh(j) PROVE i = j
  <2>1. i - 1 = j - 1
    BY <1>7, <1>8
  <2> QED BY <2>1
<1> QED BY <1>7, <1>8

-----------------------------------------------------------------------------
(* The ledger: who owns which block.                                       *)

\* The places that hold a number in the map m of one file, and the numbers.
Held(m)  == {p \in Places : m[p] # NoBlock}
Owned(m) == {m[p] : p \in Held(m)}

\* The maps own, the free map fm and the counters agree, and no block is in
\* two places.
Ledger(own, fm, cnt, used) ==
    /\ own \in [Files -> [Places -> Blocks \cup {NoBlock}]]
    /\ fm \subseteq Blocks
    /\ \A f, g \in Files : \A p, q \in Places :
          own[f][p] = own[g][q] /\ own[f][p] # NoBlock => f = g /\ p = q
    /\ \A b \in Blocks : b \in fm <=> \E f \in Files : \E p \in Places : own[f][p] = b
    /\ cnt \in [Files -> Nat]
    /\ \A f \in Files : cnt[f] = Cardinality(Held(own[f]))
    /\ used = Cardinality(fm)

\* A file has finitely many places.
LEMMA FinitePlaces == IsFiniteSet(Places) /\ IsFiniteSet(Blocks)
<1>1. IsFiniteSet(LogBlocks) /\ IsFiniteSet(Entries) /\ IsFiniteSet(Blocks)
  BY Geometry, FS_Interval DEF LogBlocks, Entries, Blocks
<1>2. IsFiniteSet({"data"}) /\ IsFiniteSet({"second"}) /\ IsFiniteSet({0})
      /\ IsFiniteSet({"indirect", "dindirect"})
  <2>1. {"indirect", "dindirect"} = {"indirect"} \cup {"dindirect"}
    OBVIOUS
  <2>2. \A x : IsFiniteSet({x})
    BY FS_Singleton
  <2>3. IsFiniteSet({"indirect"} \cup {"dindirect"})
    BY <2>2, FS_Union
  <2> QED BY <2>1, <2>2, <2>3
<1>3. /\ IsFiniteSet({"data"} \X LogBlocks) /\ IsFiniteSet({"second"} \X Entries)
      /\ IsFiniteSet({"indirect", "dindirect"} \X {0})
  BY <1>1, <1>2, FS_Product
<1> QED BY <1>1, <1>3, FS_Union DEF Places

\* As many blocks as places.
LEMMA OwnedCount ==
  ASSUME NEW m \in [Places -> Blocks \cup {NoBlock}],
         \A p, q \in Places : m[p] = m[q] /\ m[p] # NoBlock => p = q
  PROVE  /\ IsFiniteSet(Held(m)) /\ IsFiniteSet(Owned(m))
         /\ Cardinality(Owned(m)) = Cardinality(Held(m))
         /\ Owned(m) \subseteq Blocks
<1> DEFINE h == [p \in Held(m) |-> m[p]]
<1>1. IsFiniteSet(Held(m))
  BY FinitePlaces, FS_Subset DEF Held
<1>2. h \in Bijection(Held(m), Owned(m))
  <2>1. h \in [Held(m) -> Owned(m)]
    BY DEF Owned
  <2>2. \A p, q \in Held(m) : h[p] = h[q] => p = q
    BY DEF Held
  <2>3. \A b \in Owned(m) : \E p \in Held(m) : h[p] = b
    BY DEF Owned
  <2> QED BY <2>1, <2>2, <2>3 DEF Bijection, Injection, Surjection, IsInjective
<1>3. ExistsBijection(Held(m), Owned(m))
  BY <1>2 DEF ExistsBijection
<1>4. Owned(m) \subseteq Blocks
  BY DEF Owned, Held
<1> QED BY <1>1, <1>3, <1>4, FS_Bijection

\* From own to own2 the empty places N of file f get the free blocks new.
Takes(own, own2, fm, f, N, new) ==
    /\ f \in Files /\ N \subseteq Places
    /\ own2 \in [Files -> [Places -> Blocks \cup {NoBlock}]]
    /\ \A p \in N : own[f][p] = NoBlock /\ own2[f][p] \in Blocks \ fm
    /\ \A p, q \in N : own2[f][p] = own2[f][q] => p = q
    /\ \A g \in Files : \A p \in Places :
           g # f \/ p \notin N => own2[g][p] = own[g][p]
    /\ \A p \in N : own2[f][p] \in new
    /\ \A b \in new : \E p \in N : own2[f][p] = b

\* testfs_alloc_block_for_inode keeps the ledger.
LEMMA LedgerTakes ==
  ASSUME NEW own, NEW fm, NEW cnt, NEW used, Ledger(own, fm, cnt, used),
         NEW own2, NEW f, NEW N, NEW new, Takes(own, own2, fm, f, N, new)
  PROVE  Ledger(own2, fm \cup new,
                [cnt EXCEPT ![f] = @ + Cardinality(N)], used + Cardinality(N))
<1> USE DEF Takes
<1> DEFINE fm2  == fm \cup new
           cnt2 == [cnt EXCEPT ![f] = @ + Cardinality(N)]
<1>1. /\ own \in [Files -> [Places -> Blocks \cup {NoBlock}]] /\ fm \subseteq Blocks
      /\ \A g, h \in Files : \A p, q \in Places :
            own[g][p] = own[h][q] /\ own[g][p] # NoBlock => g = h /\ p = q
      /\ \A b \in Blocks : b \in fm <=> \E g \in Files : \E p \in Places : own[g][p] = b
      /\ cnt \in [Files -> Nat]
      /\ \A g \in Files : cnt[g] = Cardinality(Held(own[g]))
      /\ used = Cardinality(fm)
  BY DEF Ledger
<1>2. NoBlock \notin Blocks
  BY DEF NoBlock, Blocks
<1>3. new \subseteq Blocks /\ new \cap fm = {} /\ fm2 \subseteq Blocks
  BY <1>1
<1>4. IsFiniteSet(N) /\ Cardinality(N) \in Nat
  BY FinitePlaces, FS_Subset, FS_CardinalityType
<1>5. IsFiniteSet(new) /\ Cardinality(new) = Cardinality(N)
  <2> DEFINE h == [p \in N |-> own2[f][p]]
  <2>1. h \in [N -> new]
    OBVIOUS
  <2>2. \A p, q \in N : h[p] = h[q] => p = q
    OBVIOUS
  <2>3. \A b \in new : \E p \in N : h[p] = b
    OBVIOUS
  <2>4. h \in Bijection(N, new)
    BY <2>1, <2>2, <2>3 DEF Bijection, Injection, Surjection, IsInjective
  <2>5. ExistsBijection(N, new)
    BY <2>4 DEF ExistsBijection
  <2> QED BY <1>4, <2>5, FS_Bijection
<1>6. \A g \in Files : \A p \in Places : own2[g][p] \in fm2 \cup {NoBlock}
  <2> SUFFICES ASSUME NEW g \in Files, NEW p \in Places
               PROVE  own2[g][p] \in fm2 \cup {NoBlock}
    OBVIOUS
  <2>1. CASE g = f /\ p \in N
    BY <2>1
  <2>2. CASE g # f \/ p \notin N
    <3>1. own2[g][p] = own[g][p] /\ own[g][p] \in Blocks \cup {NoBlock}
      BY <1>1, <2>2
    <3> QED BY <1>1, <3>1
  <2> QED BY <2>1, <2>2
<1>7. ASSUME NEW g \in Files, NEW h \in Files, NEW p \in Places, NEW q \in Places,
             own2[g][p] = own2[h][q], own2[g][p] # NoBlock
      PROVE  g = h /\ p = q
  <2>1. CASE (g # f \/ p \notin N) /\ (h # f \/ q \notin N)
    BY <1>1, <1>7, <2>1
  <2>2. CASE g = f /\ p \in N /\ h = f /\ q \in N
    BY <1>7, <2>2
  <2>3. CASE g = f /\ p \in N /\ (h # f \/ q \notin N)
    <3>1. own2[g][p] \in Blocks \ fm /\ own2[h][q] = own[h][q]
      BY <2>3
    <3> QED BY <1>1, <1>7, <3>1
  <2>4. CASE h = f /\ q \in N /\ (g # f \/ p \notin N)
    <3>1. own2[h][q] \in Blocks \ fm /\ own2[g][p] = own[g][p]
      BY <2>4
    <3> QED BY <1>1, <1>7, <3>1
  <2> QED BY <2>1, <2>2, <2>3, <2>4
<1>8. ASSUME NEW b \in Blocks
      PROVE  b \in fm2 <=> \E g \in Files : \E p \in Places : own2[g][p] = b
  <2>1. ASSUME b \in fm PROVE \E g \in Files : \E p \in Places : own2[g][p] = b
    <3>1. PICK g \in Files, p \in Places : own[g][p] = b
      BY <1>1, <2>1
    <3>2. g # f \/ p \notin N
      BY <1>2, <3>1
    <3> QED BY <3>1, <3>2
  <2>2. ASSUME b \in new PROVE \E p \in Places : own2[f][p] = b
    BY <2>2
  <2>3. ASSUME NEW g \in Files, NEW p \in Places, own2[g][p] = b PROVE b \in fm2
    BY <1>2, <1>6, <2>3
  <2> QED BY <2>1, <2>2, <2>3
<1>9. ASSUME NEW g \in Files PROVE cnt2[g] = Cardinality(Held(own2[g])) /\ cnt2[g] \in Nat
  <2>1. CASE g # f
    <3>1. Held(own2[g]) = Held(own[g])
      BY <2>1 DEF Held
    <3> QED BY <1>1, <2>1, <3>1
  <2>2. CASE g = f
    <3>1. Held(own2[f]) = Held(own[f]) \cup N /\ Held(own[f]) \cap N = {}
      BY <1>2 DEF Held
    <3>2. IsFiniteSet(Held(own[f]))
      BY FinitePlaces, FS_Subset DEF Held
    <3>3. Cardinality(Held(own2[f])) = Cardinality(Held(own[f])) + Cardinality(N) - 0
      <4>1. Cardinality(Held(own[f]) \cap N) = 0
        BY <3>1, FS_EmptySet
      <4>2. Cardinality(Held(own[f]) \cup N) =
               Cardinality(Held(own[f])) + Cardinality(N) - Cardinality(Held(own[f]) \cap N)
        BY <1>4, <3>2, FS_Union
      <4> QED BY <3>1, <4>1, <4>2
    <3>4. Cardinality(Held(own[f])) \in Nat
      BY <3>2, FS_CardinalityType
    <3>5. cnt2[f] = Cardinality(Held(own[f])) + Cardinality(N)
      BY <1>1
    <3> QED BY <1>4, <2>2, <3>3, <3>4, <3>5
  <2> QED BY <2>1, <2>2
<1>10. used + Cardinality(N) = Cardinality(fm2)
  <2>1. IsFiniteSet(fm)
    BY <1>1, FinitePlaces, FS_Subset
  <2>2. fm \cap new = {} /\ Cardinality(fm) \in Nat
    BY <1>3, <2>1, FS_CardinalityType
  <2>3. Cardinality(fm2) = Cardinality(fm) + Cardinality(new) - 0
    BY <1>5, <2>1, <2>2, FS_Union, FS_EmptySet
  <2> QED BY <1>1, <1>4, <1>5, <2>2, <2>3
<1>11. cnt2 \in [Files -> Nat]
  BY <1>1, <1>4
<1> HIDE DEF fm2, cnt2
<1>12. Ledger(own2, fm2, cnt2, used + Cardinality(N))
  BY <1>3, <1>7, <1>8, <1>9, <1>10, <1>11 DEF Ledger
<1> QED BY <1>12 DEF fm2, cnt2

\* testfs_free_blocks: file f gives everything back.
LEMMA LedgerClears ==
  ASSUME NEW own, NEW fm, NEW cnt, NEW used, Ledger(own, fm, cnt, used),
         NEW f \in Files,
         NEW own2 \in [Files -> [Places -> Blocks \cup {NoBlock}]],
         \A p \in Places : own2[f][p] = NoBlock,
         \A g \in Files \ {f} : \A p \in Places : own2[g][p] = own[g][p]
  PROVE  Ledger(own2, fm \ Owned(own[f]), [cnt EXCEPT ![f] = 0],
                used - Cardinality(Owned(own[f])))
<1> DEFINE fm2  == fm \ Owned(own[f])
           cnt2 == [cnt EXCEPT ![f] = 0]
<1>1. /\ own \in [Files -> [Places -> Blocks \cup {NoBlock}]] /\ fm \subseteq Blocks
      /\ \A g, h \in Files : \A p, q \in Places :
            own[g][p] = own[h][q] /\ own[g][p] # NoBlock => g = h /\ p = q
      /\ \A b \in Blocks : b \in fm <=> \E g \in Files : \E p \in Places : own[g][p] = b
      /\ cnt \in [Files -> Nat]
      /\ \A g \in Files : cnt[g] = Cardinality(Held(own[g]))
      /\ used = Cardinality(fm)
  BY DEF Ledger
<1>2. NoBlock \notin Blocks
  BY DEF NoBlock, Blocks
<1>3. ASSUME NEW g \in Files, NEW h \in Files, NEW p \in Places, NEW q \in Places,
             own2[g][p] = own2[h][q], own2[g][p] # NoBlock
      PROVE  g = h /\ p = q
  <2>1. g # f /\ h # f
    BY <1>3
  <2>2. own[g][p] = own[h][q] /\ own[g][p] # NoBlock
    BY <1>3, <2>1
  <2> QED BY <1>1, <2>2
<1>4. ASSUME NEW b \in Blocks
      PROVE  b \in fm2 <=> \E g \in Files : \E p \in Places : own2[g][p] = b
  <2>1. ASSUME b \in fm2 PROVE \E g \in Files : \E p \in Places : own2[g][p] = b
    <3>1. PICK g \in Files, p \in Places : own[g][p] = b
      BY <1>1, <2>1
    <3>2. g # f
      BY <1>2, <2>1, <3>1 DEF Owned, Held
    <3> QED BY <3>1, <3>2
  <2>2. ASSUME NEW g \in Files, NEW p \in Places, own2[g][p] = b PROVE b \in fm2
    <3>1. g # f /\ own[g][p] = b
      BY <1>2, <2>2
    <3>2. b \notin Owned(own[f])
      BY <1>1, <1>2, <3>1 DEF Owned, Held
    <3> QED BY <1>1, <3>1, <3>2
  <2> QED BY <2>1, <2>2
<1>5. ASSUME NEW g \in Files PROVE cnt2[g] = Cardinality(Held(own2[g]))
  <2>1. CASE g # f
    <3>1. Held(own2[g]) = Held(own[g])
      BY <2>1 DEF Held
    <3> QED BY <1>1, <2>1, <3>1
  <2>2. CASE g = f
    <3>1. Held(own2[f]) = {}
      BY DEF Held
    <3> QED BY <1>1, <2>2, <3>1, FS_EmptySet
  <2> QED BY <2>1, <2>2
<1>6. Owned(own[f]) \subseteq fm
  BY <1>1 DEF Owned, Held
<1>7. used - Cardinality(Owned(own[f])) = Cardinality(fm2)
  <2>1. IsFiniteSet(fm)
    BY <1>1, FinitePlaces, FS_Subset
  <2>2. IsFiniteSet(fm2) /\ IsFiniteSet(Owned(own[f]))
    BY <1>6, <2>1, FS_Subset
  <2>3. fm = fm2 \cup Owned(own[f]) /\ fm2 \cap Owned(own[f]) = {}
    BY <1>6
  <2>4. Cardinality(fm2) \in Nat /\ Cardinality(Owned(own[f])) \in Nat
    BY <2>2, FS_CardinalityType
  <2> HIDE DEF fm2
  <2>5. Cardinality(fm) = Cardinality(fm2) + Cardinality(Owned(own[f])) - 0
    BY <2>2, <2>3, FS_Union, FS_EmptySet
  <2> QED BY <1>1, <2>4, <2>5
<1>8. cnt2 \in [Files -> Nat] /\ fm2 \subseteq Blocks
  BY <1>1
<1> HIDE DEF fm2, cnt2
<1>9. Ledger(own2, fm2, cnt2, used - Cardinality(Owned(own[f])))
  BY <1>3, <1>4, <1>5, <1>7, <1>8 DEF Ledger
<1> QED BY <1>9 DEF fm2, cnt2

\* The counters are within their limits, and used_block_count says how many
\* blocks are free.
LEMMA LedgerBounds ==
  ASSUME NEW own, NEW fm, NEW cnt, NEW used, Ledger(own, fm, cnt, used)
  PROVE  /\ fm \subseteq Blocks /\ used \in 0..MaxFsBlocks
         /\ cnt \in [Files -> 0..MaxFsBlocks]
         /\ Cardinality(Blocks \ fm) = MaxFsBlocks - used
<1>1. IsFiniteSet(Blocks) /\ Cardinality(Blocks) = MaxFsBlocks
  BY Geometry, FS_Interval DEF Blocks
<1>2. fm \subseteq Blocks /\ used = Cardinality(fm)
  BY DEF Ledger
<1>3. IsFiniteSet(fm) /\ IsFiniteSet(Blocks \ fm) /\ Cardinality(fm) <= MaxFsBlocks
  BY <1>1, <1>2, FS_Subset
<1>4. used \in 0..MaxFsBlocks
  BY <1>2, <1>3, FS_CardinalityType, Geometry
<1>5. Cardinality(Blocks \ fm) = MaxFsBlocks - used
  <2>1. Blocks = fm \cup (Blocks \ fm) /\ fm \cap (Blocks \ fm) = {}
    BY <1>2
  <2>2. Cardinality(fm \cap (Blocks \ fm)) = 0
    BY <2>1, FS_EmptySet
  <2>3. Cardinality(fm \cup (Blocks \ fm)) =
           Cardinality(fm) + Cardinality(Blocks \ fm) - Cardinality(fm \cap (Blocks \ fm))
    BY <1>3, FS_Union
  <2>4. Cardinality(fm) \in Nat /\ Cardinality(Blocks \ fm) \in Nat
    BY <1>3, FS_CardinalityType
  <2>5. Cardinality(fm \cup (Blocks \ fm)) = MaxFsBlocks
    BY <1>1, <2>1, Zenon
  <2> QED BY <1>2, <2>2, <2>3, <2>4, <2>5
<1>6. ASSUME NEW f \in Files PROVE cnt[f] \in 0..MaxFsBlocks
  <2>1. /\ own[f] \in [Places -> Blocks \cup {NoBlock}]
        /\ \A p, q \in Places : own[f][p] = own[f][q] /\ own[f][p] # NoBlock => p = q
    BY DEF Ledger
  <2>2. cnt[f] = Cardinality(Held(own[f])) /\ cnt[f] \in Nat
    BY DEF Ledger
  <2>3. Cardinality(Owned(own[f])) = cnt[f] /\ Owned(own[f]) \subseteq Blocks
    BY <2>1, <2>2, OwnedCount
  <2>4. cnt[f] <= MaxFsBlocks
    BY <1>1, <2>3, FS_Subset
  <2> QED BY <2>2, <2>4, Geometry
<1>7. cnt \in [Files -> 0..MaxFsBlocks]
  BY <1>6 DEF Ledger
<1> QED BY <1>2, <1>4, <1>5, <1>7

-----------------------------------------------------------------------------
(* The maps of the files.                                                  *)

\* The maps, as the ledger sees them.
Own == [f \in Files |-> [p \in Places |-> At(f, p)]]

MapTypes ==
    /\ index \in [Blocks -> [Entries -> Blocks \cup {NoBlock}]]
    /\ i_block_nr \in [Files -> [Direct -> Blocks \cup {NoBlock}]]
    /\ i_indirect \in [Files -> Blocks \cup {NoBlock}]
    /\ i_dindirect \in [Files -> Blocks \cup {NoBlock}]

\* A place is one of four kinds.
DataAt(l)   == <<"data", l>>
IndirectAt  == <<"indirect", 0>>
DindirectAt == <<"dindirect", 0>>
SecondAt(e) == <<"second", e>>

\* A place is one of four kinds.
LEMMA PlaceKinds ==
  /\ \A l \in LogBlocks : DataAt(l) \in Places
  /\ IndirectAt \in Places /\ DindirectAt \in Places
  /\ \A e \in Entries : SecondAt(e) \in Places
  /\ \A p \in Places :
        \/ \E l \in LogBlocks : p = DataAt(l)
        \/ p = IndirectAt
        \/ p = DindirectAt
        \/ \E e \in Entries : p = SecondAt(e)
BY DEF Places, DataAt, IndirectAt, DindirectAt, SecondAt

\* They are told apart.
LEMMA PlacesDiffer ==
  /\ IndirectAt # DindirectAt
  /\ \A l : DataAt(l) # IndirectAt /\ DataAt(l) # DindirectAt
  /\ \A e : SecondAt(e) # IndirectAt /\ SecondAt(e) # DindirectAt
  /\ \A l, m : DataAt(l) = DataAt(m) => l = m
  /\ \A e, h : SecondAt(e) = SecondAt(h) => e = h
  /\ \A l, e : DataAt(l) # SecondAt(e)
BY DEF DataAt, IndirectAt, DindirectAt, SecondAt

\* What is in each of them.
LEMMA AtPlaces ==
  ASSUME NEW f
  PROVE  /\ \A l : At(f, DataAt(l)) = Phys(f, l)
         /\ At(f, IndirectAt) = i_indirect[f]
         /\ At(f, DindirectAt) = i_dindirect[f]
         /\ \A e : At(f, SecondAt(e)) = Within(i_dindirect[f], e)
BY DEF At, DataAt, IndirectAt, DindirectAt, SecondAt

\* The same in the next state.
LEMMA AtPlacesNext ==
  ASSUME NEW f
  PROVE  /\ \A l : At(f, DataAt(l))' = Phys(f, l)'
         /\ At(f, IndirectAt)' = i_indirect'[f]
         /\ At(f, DindirectAt)' = i_dindirect'[f]
         /\ \A e : At(f, SecondAt(e))' = Within(i_dindirect[f], e)'
BY DEF At, DataAt, IndirectAt, DindirectAt, SecondAt

\* Every place holds a block number or none.
LEMMA MapValues ==
  MapTypes =>
    /\ \A f \in Files : \A e \in Entries :
          Within(i_dindirect[f], e) \in Blocks \cup {NoBlock}
    /\ \A f \in Files : \A l \in LogBlocks : Phys(f, l) \in Blocks \cup {NoBlock}
    /\ Own \in [Files -> [Places -> Blocks \cup {NoBlock}]]
<1> SUFFICES ASSUME MapTypes
             PROVE  /\ \A f \in Files : \A e \in Entries :
                          Within(i_dindirect[f], e) \in Blocks \cup {NoBlock}
                    /\ \A f \in Files : \A l \in LogBlocks :
                          Phys(f, l) \in Blocks \cup {NoBlock}
                    /\ Own \in [Files -> [Places -> Blocks \cup {NoBlock}]]
  OBVIOUS
<1>1. ASSUME NEW b \in Blocks \cup {NoBlock}, NEW e \in Entries
      PROVE  Within(b, e) \in Blocks \cup {NoBlock}
  BY DEF Within, MapTypes
<1>2. ASSUME NEW f \in Files, NEW e \in Entries
      PROVE  Within(i_dindirect[f], e) \in Blocks \cup {NoBlock}
  BY <1>1 DEF MapTypes
<1>3. ASSUME NEW f \in Files, NEW l \in LogBlocks
      PROVE  Phys(f, l) \in Blocks \cup {NoBlock}
  <2>1. CASE l < ND
    <3>1. l \in Direct
      BY <2>1, Geometry DEF LogBlocks, Direct
    <3> QED BY <2>1, <3>1 DEF Phys, MapTypes
  <2>2. CASE l >= ND /\ l < ND + NI
    <3>1. l - ND \in Entries /\ ~(l < ND)
      BY <2>2, Geometry DEF LogBlocks, Entries
    <3>2. i_indirect[f] \in Blocks \cup {NoBlock}
      BY DEF MapTypes
    <3> QED BY <1>1, <2>2, <3>1, <3>2 DEF Phys
  <2>3. CASE l >= ND + NI
    <3>1. Level2(l) \in Entries /\ Slot(l) \in Entries
      BY <2>3, LevelSlot
    <3>2. Second(f, l) \in Blocks \cup {NoBlock}
      BY <1>2, <3>1 DEF Second
    <3>3. ~(l < ND) /\ ~(l < ND + NI)
      BY <2>3, Geometry DEF LogBlocks
    <3> QED BY <1>1, <3>1, <3>2, <3>3 DEF Phys
  <2> QED BY <2>1, <2>2, <2>3, Geometry DEF LogBlocks
<1>4. ASSUME NEW f \in Files, NEW p \in Places PROVE At(f, p) \in Blocks \cup {NoBlock}
  <2>1. CASE \E l \in LogBlocks : p = DataAt(l)
    BY <1>3, <2>1, AtPlaces
  <2>2. CASE p = IndirectAt
    BY <2>2, AtPlaces DEF MapTypes
  <2>3. CASE p = DindirectAt
    BY <2>3, AtPlaces DEF MapTypes
  <2>4. CASE \E e \in Entries : p = SecondAt(e)
    BY <1>2, <2>4, AtPlaces
  <2> QED BY <2>1, <2>2, <2>3, <2>4, PlaceKinds
<1>5. Own \in [Files -> [Places -> Blocks \cup {NoBlock}]]
  BY <1>4 DEF Own
<1> QED BY <1>2, <1>3, <1>5

\* The map of a file as a function of its inode and of the index blocks idx.
Ref(idx, b, e) == IF b = NoBlock THEN NoBlock ELSE idx[b][e]
MapOf(blk, ind, dind, idx) ==
    [p \in Places |->
        CASE p[1] = "data" ->
                IF p[2] < ND THEN blk[p[2]]
                ELSE IF p[2] < ND + NI THEN Ref(idx, ind, p[2] - ND)
                ELSE Ref(idx, Ref(idx, dind, Level2(p[2])), Slot(p[2]))
          [] p[1] = "indirect"  -> ind
          [] p[1] = "dindirect" -> dind
          [] p[1] = "second"    -> Ref(idx, dind, p[2])]

\* It is what the ledger sees, now and in the next state.
LEMMA OwnIsMap ==
  /\ Own = [f \in Files |-> MapOf(i_block_nr[f], i_indirect[f], i_dindirect[f], index)]
  /\ Own' = [f \in Files |->
               MapOf(i_block_nr'[f], i_indirect'[f], i_dindirect'[f], index')]
<1>1. Own = [f \in Files |-> MapOf(i_block_nr[f], i_indirect[f], i_dindirect[f], index)]
  BY DEF Own, MapOf, Ref, At, Phys, Second, Within, Level2, Slot
<1>2. Own' = [f \in Files |->
               MapOf(i_block_nr'[f], i_indirect'[f], i_dindirect'[f], index')]
  BY DEF Own, MapOf, Ref, At, Phys, Second, Within, Level2, Slot
<1> QED BY <1>1, <1>2

\* The number in each place of the map.
LEMMA MapOfValues ==
  ASSUME NEW blk, NEW ind, NEW dind, NEW idx
  PROVE  /\ \A l \in LogBlocks : l < ND =>
                MapOf(blk, ind, dind, idx)[DataAt(l)] = blk[l]
         /\ \A l \in LogBlocks : l >= ND /\ l < ND + NI =>
                MapOf(blk, ind, dind, idx)[DataAt(l)] = Ref(idx, ind, l - ND)
         /\ \A l \in LogBlocks : l >= ND + NI =>
                MapOf(blk, ind, dind, idx)[DataAt(l)] =
                    Ref(idx, Ref(idx, dind, Level2(l)), Slot(l))
         /\ MapOf(blk, ind, dind, idx)[IndirectAt] = ind
         /\ MapOf(blk, ind, dind, idx)[DindirectAt] = dind
         /\ \A e \in Entries :
                MapOf(blk, ind, dind, idx)[SecondAt(e)] = Ref(idx, dind, e)
<1>1. \A l \in LogBlocks : l \in Int /\ (l >= ND => ~(l < ND))
                          /\ (l >= ND + NI => ~(l < ND) /\ ~(l < ND + NI))
  BY Geometry DEF LogBlocks
<1> QED BY <1>1, PlaceKinds DEF MapOf, DataAt, IndirectAt, DindirectAt, SecondAt

\* The index blocks idx become idx2, and those of a map are left alone.
SpareIndex(ind, dind, idx, idx2) ==
    /\ ind \in Blocks \cup {NoBlock} /\ dind \in Blocks \cup {NoBlock}
    /\ idx \in [Blocks -> [Entries -> Blocks \cup {NoBlock}]]
    /\ \A c \in Blocks :
          \/ c = ind
          \/ c = dind
          \/ \E e \in Entries : c = Ref(idx, dind, e)
          => idx2[c] = idx[c]

\* A file whose index blocks are left alone keeps its map.
LEMMA SameMap ==
  ASSUME NEW blk, NEW ind, NEW dind, NEW idx, NEW idx2, SpareIndex(ind, dind, idx, idx2)
  PROVE  \A p \in Places : MapOf(blk, ind, dind, idx2)[p] = MapOf(blk, ind, dind, idx)[p]
<1> USE DEF SpareIndex
<1> DEFINE m2 == MapOf(blk, ind, dind, idx2)
           m  == MapOf(blk, ind, dind, idx)
<1>1. \A e \in Entries : Ref(idx2, dind, e) = Ref(idx, dind, e)
                          /\ Ref(idx, dind, e) \in Blocks \cup {NoBlock}
  BY DEF Ref
<1>2. ASSUME NEW l \in LogBlocks PROVE m2[DataAt(l)] = m[DataAt(l)]
  <2>1. CASE l < ND
    BY <2>1, MapOfValues
  <2>2. CASE l >= ND /\ l < ND + NI
    <3>1. Ref(idx2, ind, l - ND) = Ref(idx, ind, l - ND)
      BY DEF Ref
    <3> QED BY <2>2, <3>1, MapOfValues
  <2>3. CASE l >= ND + NI
    <3>1. Level2(l) \in Entries /\ Slot(l) \in Entries
      BY <2>3, LevelSlot
    <3>2. PICK t \in Blocks \cup {NoBlock} :
              t = Ref(idx, dind, Level2(l)) /\ t = Ref(idx2, dind, Level2(l))
      BY <1>1, <3>1
    <3>3. Ref(idx2, t, Slot(l)) = Ref(idx, t, Slot(l))
      BY <3>1, <3>2 DEF Ref
    <3>4. /\ m2[DataAt(l)] = Ref(idx2, Ref(idx2, dind, Level2(l)), Slot(l))
          /\ m[DataAt(l)] = Ref(idx, Ref(idx, dind, Level2(l)), Slot(l))
      BY <2>3, MapOfValues
    <3> HIDE DEF m, m2
    <3> QED BY <3>2, <3>3, <3>4, Zenon
  <2> QED BY <2>1, <2>2, <2>3, Geometry DEF LogBlocks
<1>3. \A p \in Places : m2[p] = m[p]
  <2> SUFFICES ASSUME NEW p \in Places PROVE m2[p] = m[p]
    OBVIOUS
  <2>1. CASE \E l \in LogBlocks : p = DataAt(l)
    BY <1>2, <2>1
  <2>2. CASE p = IndirectAt \/ p = DindirectAt
    BY <2>2, MapOfValues
  <2>3. CASE \E e \in Entries : p = SecondAt(e)
    BY <1>1, <2>3, MapOfValues
  <2> QED BY <2>1, <2>2, <2>3, PlaceKinds
<1> QED BY <1>3

\* Two maps agree, except at the places N.
SameBut(m2, m, N) == \A p \in Places : p \notin N => m2[p] = m[p]

\* Direct block l becomes b.
AddsDirect(blk, l, b, blk2) ==
    /\ blk \in [Direct -> Blocks \cup {NoBlock}] /\ l \in LogBlocks /\ l < ND
    /\ blk2 = [blk EXCEPT ![l] = b]

\* Nothing else in the map changes.
LEMMA DirectGrows ==
  ASSUME NEW blk, NEW ind, NEW dind, NEW idx, NEW l, NEW b, NEW blk2,
         AddsDirect(blk, l, b, blk2)
  PROVE  /\ MapOf(blk2, ind, dind, idx)[DataAt(l)] = b
         /\ SameBut(MapOf(blk2, ind, dind, idx), MapOf(blk, ind, dind, idx), {DataAt(l)})
<1> USE DEF AddsDirect
<1> DEFINE m2 == MapOf(blk2, ind, dind, idx)
           m  == MapOf(blk, ind, dind, idx)
<1>1. l \in Direct
  BY Geometry DEF LogBlocks, Direct
<1>2. m2[DataAt(l)] = b
  <2>1. m2[DataAt(l)] = blk2[l]
    BY PlaceKinds DEF MapOf, DataAt, IndirectAt, DindirectAt, SecondAt
  <2> QED BY <1>1, <2>1
<1>3. ASSUME NEW k \in LogBlocks, k # l PROVE m2[DataAt(k)] = m[DataAt(k)]
  <2>1. CASE k < ND
    <3>1. k \in Direct
      BY <2>1, Geometry DEF LogBlocks, Direct
    <3>2. m2[DataAt(k)] = blk2[k] /\ m[DataAt(k)] = blk[k]
      BY <2>1, PlaceKinds DEF MapOf, DataAt, IndirectAt, DindirectAt, SecondAt
    <3> QED BY <1>1, <1>3, <3>1, <3>2
  <2>2. CASE k >= ND /\ k < ND + NI
    BY <2>2, MapOfValues
  <2>3. CASE k >= ND + NI
    BY <2>3, MapOfValues
  <2> QED BY <2>1, <2>2, <2>3, Geometry DEF LogBlocks
<1>4. ASSUME NEW p \in Places, p # DataAt(l) PROVE m2[p] = m[p]
  <2>1. CASE \E k \in LogBlocks : p = DataAt(k)
    BY <1>3, <1>4, <2>1
  <2>2. CASE p = IndirectAt \/ p = DindirectAt
    BY <2>2, MapOfValues
  <2>3. CASE \E e \in Entries : p = SecondAt(e)
    BY <2>3, MapOfValues
  <2> QED BY <2>1, <2>2, <2>3, PlaceKinds
<1>5. SameBut(m2, m, {DataAt(l)})
  BY <1>4 DEF SameBut
<1> QED BY <1>2, <1>5

\* Logical block l becomes b in the indirect block s, which may be new itself.
AddsIndirect(ind, dind, idx, l, s, b, idx2) ==
    /\ dind \in Blocks \cup {NoBlock}
    /\ idx \in [Blocks -> [Entries -> Blocks \cup {NoBlock}]]
    /\ l \in LogBlocks /\ l >= ND /\ l < ND + NI /\ s \in Blocks
    /\ ind # NoBlock => s = ind
    /\ ind = NoBlock => idx[s] = Zeroed
    /\ dind # s /\ \A e \in Entries : Ref(idx, dind, e) # s
    /\ idx2 = [idx EXCEPT ![s][l - ND] = b]

\* Nothing else in the map changes.
LEMMA IndirectGrows ==
  ASSUME NEW blk, NEW ind, NEW dind, NEW idx, NEW l, NEW s, NEW b, NEW idx2,
         AddsIndirect(ind, dind, idx, l, s, b, idx2)
  PROVE  /\ MapOf(blk, s, dind, idx2)[IndirectAt] = s
         /\ MapOf(blk, s, dind, idx2)[DataAt(l)] = b
         /\ SameBut(MapOf(blk, s, dind, idx2), MapOf(blk, ind, dind, idx),
                    {DataAt(l), IndirectAt})
<1> USE DEF AddsIndirect
<1> DEFINE m2 == MapOf(blk, s, dind, idx2)
           m  == MapOf(blk, ind, dind, idx)
<1>1. NoBlock \notin Blocks /\ l - ND \in Entries
  BY Geometry DEF NoBlock, Blocks, LogBlocks, Entries
<1>2. /\ \A c \in Blocks : c # s => idx2[c] = idx[c]
      /\ \A e \in Entries : idx2[s][e] = IF e = l - ND THEN b ELSE idx[s][e]
  BY <1>1
<1>3. m2[IndirectAt] = s
  BY MapOfValues
<1>4. m2[DataAt(l)] = b
  <2>1. m2[DataAt(l)] = Ref(idx2, s, l - ND)
    BY MapOfValues
  <2> QED BY <1>1, <1>2, <2>1 DEF Ref
<1>5. \A e \in Entries : Ref(idx2, dind, e) = Ref(idx, dind, e)
                          /\ Ref(idx, dind, e) \in Blocks \cup {NoBlock}
  BY <1>2 DEF Ref
<1>6. ASSUME NEW k \in LogBlocks, k # l PROVE m2[DataAt(k)] = m[DataAt(k)]
  <2>1. CASE k < ND
    BY <2>1, MapOfValues
  <2>2. CASE k >= ND /\ k < ND + NI
    <3>1. k - ND \in Entries /\ k - ND # l - ND
      BY <1>6, <2>2, Geometry DEF LogBlocks, Entries
    <3>2. m2[DataAt(k)] = Ref(idx2, s, k - ND) /\ m[DataAt(k)] = Ref(idx, ind, k - ND)
      BY <2>2, MapOfValues
    <3>3. Ref(idx2, s, k - ND) = idx[s][k - ND]
      BY <1>1, <1>2, <3>1 DEF Ref
    <3>4. Ref(idx, ind, k - ND) = idx[s][k - ND]
      BY <3>1 DEF Ref, Zeroed
    <3> QED BY <3>2, <3>3, <3>4
  <2>3. CASE k >= ND + NI
    <3>1. Level2(k) \in Entries /\ Slot(k) \in Entries
      BY <2>3, LevelSlot
    <3>2. PICK t \in Blocks \cup {NoBlock} :
              t = Ref(idx, dind, Level2(k)) /\ t = Ref(idx2, dind, Level2(k)) /\ t # s
      BY <1>5, <3>1
    <3>3. Ref(idx2, t, Slot(k)) = Ref(idx, t, Slot(k))
      BY <1>2, <3>1, <3>2 DEF Ref
    <3>4. /\ m2[DataAt(k)] = Ref(idx2, Ref(idx2, dind, Level2(k)), Slot(k))
          /\ m[DataAt(k)] = Ref(idx, Ref(idx, dind, Level2(k)), Slot(k))
      BY <2>3, MapOfValues
    <3> HIDE DEF m, m2
    <3> QED BY <3>2, <3>3, <3>4, Zenon
  <2> QED BY <2>1, <2>2, <2>3, Geometry DEF LogBlocks
<1>7. ASSUME NEW p \in Places, p # DataAt(l), p # IndirectAt PROVE m2[p] = m[p]
  <2>1. CASE \E k \in LogBlocks : p = DataAt(k)
    BY <1>6, <1>7, <2>1
  <2>2. CASE p = DindirectAt
    BY <2>2, MapOfValues
  <2>3. CASE \E e \in Entries : p = SecondAt(e)
    <3>1. PICK e \in Entries : p = SecondAt(e)
      BY <2>3
    <3>2. m2[p] = Ref(idx2, dind, e) /\ m[p] = Ref(idx, dind, e)
      BY <3>1, MapOfValues
    <3> HIDE DEF m, m2
    <3> QED BY <1>5, <3>2
  <2> QED BY <1>7, <2>1, <2>2, <2>3, PlaceKinds
<1>8. SameBut(m2, m, {DataAt(l), IndirectAt})
  BY <1>7 DEF SameBut
<1> QED BY <1>3, <1>4, <1>8

\* Logical block l becomes b in the second level index block s of the double
\* indirect block d; both may be new themselves.
AddsDouble(ind, dind, idx, l, d, s, b, idx2) ==
    /\ ind \in Blocks \cup {NoBlock} /\ dind \in Blocks \cup {NoBlock}
    /\ idx \in [Blocks -> [Entries -> Blocks \cup {NoBlock}]]
    /\ l \in LogBlocks /\ l >= ND + NI /\ d \in Blocks /\ s \in Blocks /\ d # s
    /\ dind # NoBlock => d = dind
    /\ dind = NoBlock => idx[d] = Zeroed
    /\ Ref(idx, dind, Level2(l)) # NoBlock => s = Ref(idx, dind, Level2(l))
    /\ Ref(idx, dind, Level2(l)) = NoBlock => idx[s] = Zeroed
    /\ \A e \in Entries : e # Level2(l) => Ref(idx, dind, e) # d /\ Ref(idx, dind, e) # s
    /\ ind # d /\ ind # s
    /\ b \in Blocks /\ idx2 = [idx EXCEPT ![d][Level2(l)] = s, ![s][Slot(l)] = b]

\* Nothing else in the map changes.
LEMMA DoubleGrows ==
  ASSUME NEW blk, NEW ind, NEW dind, NEW idx, NEW l, NEW d, NEW s, NEW b, NEW idx2,
         AddsDouble(ind, dind, idx, l, d, s, b, idx2)
  PROVE  /\ MapOf(blk, ind, d, idx2)[DindirectAt] = d
         /\ MapOf(blk, ind, d, idx2)[SecondAt(Level2(l))] = s
         /\ MapOf(blk, ind, d, idx2)[DataAt(l)] = b
         /\ SameBut(MapOf(blk, ind, d, idx2), MapOf(blk, ind, dind, idx),
                    {DataAt(l), SecondAt(Level2(l)), DindirectAt})
<1> USE DEF AddsDouble
<1> DEFINE m2 == MapOf(blk, ind, d, idx2)
           m  == MapOf(blk, ind, dind, idx)
<1>1. NoBlock \notin Blocks /\ Level2(l) \in Entries /\ Slot(l) \in Entries
  BY LevelSlot DEF NoBlock, Blocks
<1>2. /\ \A c \in Blocks : c # s /\ c # d => idx2[c] = idx[c]
      /\ \A e \in Entries : idx2[d][e] = IF e = Level2(l) THEN s ELSE idx[d][e]
      /\ \A e \in Entries : idx2[s][e] = IF e = Slot(l) THEN b ELSE idx[s][e]
  <2> DEFINE i1 == [idx EXCEPT ![d][Level2(l)] = s]
  <2>1. /\ i1 \in [Blocks -> [Entries -> Blocks \cup {NoBlock}]]
        /\ \A c \in Blocks : c # d => i1[c] = idx[c]
        /\ \A e \in Entries : i1[d][e] = IF e = Level2(l) THEN s ELSE idx[d][e]
    BY <1>1
  <2>2. idx2 = [i1 EXCEPT ![s][Slot(l)] = b]
    OBVIOUS
  <2> HIDE DEF i1
  <2> QED BY <1>1, <2>1, <2>2
<1>3. m2[DindirectAt] = d
  BY MapOfValues
<1>4. Ref(idx2, d, Level2(l)) = s
  BY <1>1, <1>2 DEF Ref
<1>5. m2[SecondAt(Level2(l))] = s
  <2>1. m2[SecondAt(Level2(l))] = Ref(idx2, d, Level2(l))
    BY <1>1, MapOfValues
  <2> QED BY <1>4, <2>1
<1>6. \A e \in Entries : e # Level2(l) => Ref(idx2, d, e) = Ref(idx, dind, e)
  <2> SUFFICES ASSUME NEW e \in Entries, e # Level2(l)
               PROVE  Ref(idx2, d, e) = Ref(idx, dind, e)
    OBVIOUS
  <2>1. Ref(idx2, d, e) = idx[d][e]
    BY <1>1, <1>2 DEF Ref
  <2> QED BY <2>1 DEF Ref, Zeroed
<1>7. \A e \in Entries : Ref(idx, dind, e) \in Blocks \cup {NoBlock}
  BY DEF Ref
<1>8. \A k \in LogBlocks : k >= ND + NI =>
          /\ m2[DataAt(k)] = Ref(idx2, Ref(idx2, d, Level2(k)), Slot(k))
          /\ m[DataAt(k)] = Ref(idx, Ref(idx, dind, Level2(k)), Slot(k))
  BY MapOfValues
<1>9. m2[DataAt(l)] = b
  <2>1. m2[DataAt(l)] = Ref(idx2, Ref(idx2, d, Level2(l)), Slot(l))
    BY <1>8
  <2>2. Ref(idx2, s, Slot(l)) = b
    BY <1>1, <1>2 DEF Ref
  <2> HIDE DEF m2
  <2> QED BY <1>4, <2>1, <2>2, Zenon
<1>10. ASSUME NEW k \in LogBlocks, k # l PROVE m2[DataAt(k)] = m[DataAt(k)]
  <2>1. CASE k < ND
    BY <2>1, MapOfValues
  <2>2. CASE k >= ND /\ k < ND + NI
    <3>1. k - ND \in Entries
      BY <2>2, Geometry DEF LogBlocks, Entries
    <3>2. m2[DataAt(k)] = Ref(idx2, ind, k - ND) /\ m[DataAt(k)] = Ref(idx, ind, k - ND)
      BY <2>2, MapOfValues
    <3>3. Ref(idx2, ind, k - ND) = Ref(idx, ind, k - ND)
      BY <1>2 DEF Ref
    <3> HIDE DEF m, m2
    <3> QED BY <3>2, <3>3
  <2>3. CASE k >= ND + NI
    <3>1. Level2(k) \in Entries /\ Slot(k) \in Entries
      BY <2>3, LevelSlot
    <3>2. CASE Level2(k) # Level2(l)
      <4>1. PICK t \in Blocks \cup {NoBlock} :
                t = Ref(idx, dind, Level2(k)) /\ t = Ref(idx2, d, Level2(k)) /\ t # s /\ t # d
        BY <1>6, <1>7, <3>1, <3>2
      <4>2. Ref(idx2, t, Slot(k)) = Ref(idx, t, Slot(k))
        BY <1>2, <3>1, <4>1 DEF Ref
      <4>3. /\ m2[DataAt(k)] = Ref(idx2, Ref(idx2, d, Level2(k)), Slot(k))
            /\ m[DataAt(k)] = Ref(idx, Ref(idx, dind, Level2(k)), Slot(k))
        BY <1>8, <2>3
      <4> HIDE DEF m, m2
      <4> QED BY <4>1, <4>2, <4>3, Zenon
    <3>3. CASE Level2(k) = Level2(l)
      <4>1. Slot(k) # Slot(l)
        BY <1>10, <2>3, <3>3, SameLeaf
      <4>2. m2[DataAt(k)] = Ref(idx2, s, Slot(k))
        BY <1>4, <1>8, <2>3, <3>3
      <4>3. Ref(idx2, s, Slot(k)) = idx[s][Slot(k)]
        BY <1>1, <1>2, <3>1, <4>1 DEF Ref
      <4>4. PICK t \in Blocks \cup {NoBlock} : t = Ref(idx, dind, Level2(l))
        BY <1>1, <1>7
      <4>5. Ref(idx, t, Slot(k)) = idx[s][Slot(k)]
        BY <3>1, <4>4 DEF Ref, Zeroed
      <4>6. m[DataAt(k)] = Ref(idx, t, Slot(k))
        BY <1>8, <2>3, <3>3, <4>4
      <4> HIDE DEF m, m2
      <4> QED BY <4>2, <4>3, <4>5, <4>6
    <3> QED BY <3>2, <3>3
  <2> QED BY <2>1, <2>2, <2>3, Geometry DEF LogBlocks
<1>11. ASSUME NEW p \in Places,
              p \notin {DataAt(l), SecondAt(Level2(l)), DindirectAt}
       PROVE  m2[p] = m[p]
  <2>1. CASE \E k \in LogBlocks : p = DataAt(k)
    BY <1>10, <1>11, <2>1
  <2>2. CASE p = IndirectAt
    BY <2>2, MapOfValues
  <2>3. CASE \E e \in Entries : p = SecondAt(e)
    <3>1. PICK e \in Entries : p = SecondAt(e) /\ e # Level2(l)
      BY <1>11, <2>3
    <3>2. m2[p] = Ref(idx2, d, e) /\ m[p] = Ref(idx, dind, e)
      BY <3>1, MapOfValues
    <3> HIDE DEF m, m2
    <3> QED BY <1>6, <3>1, <3>2
  <2> QED BY <1>11, <2>1, <2>2, <2>3, PlaceKinds
<1>12. SameBut(m2, m, {DataAt(l), SecondAt(Level2(l)), DindirectAt})
  BY <1>11 DEF SameBut
<1> QED BY <1>3, <1>5, <1>9, <1>12

-----------------------------------------------------------------------------
(* The inductive invariant.                                                *)

\* A free block is zeroed: it can become an index block as it is.
FreeIsZeroed == \A b \in Blocks \ freemap : index[b] = Zeroed

\* An index block holds at least one number.
NoEmptyIndex ==
    \A f \in Files :
        /\ i_indirect[f] # NoBlock =>
              \E l \in LogBlocks : l >= ND /\ l < ND + NI /\ Phys(f, l) # NoBlock
        /\ i_dindirect[f] # NoBlock =>
              \E e \in Entries : Within(i_dindirect[f], e) # NoBlock
        /\ \A e \in Entries : Within(i_dindirect[f], e) # NoBlock =>
              \E l \in LogBlocks :
                  l >= ND + NI /\ Level2(l) = e /\ Phys(f, l) # NoBlock

\* ReadsBack, wherever the maps are sound.
RightData ==
    \A f \in Files : \A l \in LogBlocks :
        Phys(f, l) # NoBlock => data[Phys(f, l)] = <<f, l>>

MapInv == /\ Ledger(Own, freemap, block_count, used_block_count)
          /\ FreeIsZeroed /\ NoEmptyIndex /\ RightData

\* A file has blocks below its size and in the write that is going on only.
Covered ==
    \A f \in Files : \A l \in LogBlocks :
        Phys(f, l) # NoBlock =>
            l < i_size[f] \/ (f = job.file /\ l \in job.first..job.next-1)

\* A write goes forward through the blocks of the largest file.
JobOK ==
    \/ job = NoJob
    \/ /\ job.file \in Files /\ job.first \in LogBlocks /\ job.last \in LogBlocks
       /\ job.first <= job.next /\ job.next <= job.last + 1

Live == bad \in {"no", "stray"}

IInv == /\ TypeOK /\ JobOK
        /\ Live => MapInv
        /\ ~failed => Live /\ Covered

\* What the ledger says about the map of a file.
LEMMA OwnValues ==
  ASSUME NEW f \in Files
  PROVE  /\ \A p \in Places : Own[f][p] = At(f, p)
         /\ \A l \in LogBlocks : Own[f][DataAt(l)] = Phys(f, l)
         /\ Own[f][IndirectAt] = i_indirect[f]
         /\ Own[f][DindirectAt] = i_dindirect[f]
         /\ \A e \in Entries : Own[f][SecondAt(e)] = Within(i_dindirect[f], e)
BY PlaceKinds, AtPlaces DEF Own

\* The same in the next state.
LEMMA OwnValuesNext ==
  ASSUME NEW f \in Files
  PROVE  /\ \A p \in Places : Own'[f][p] = At(f, p)'
         /\ \A l \in LogBlocks : Own'[f][DataAt(l)] = Phys(f, l)'
         /\ Own'[f][IndirectAt] = i_indirect'[f]
         /\ Own'[f][DindirectAt] = i_dindirect'[f]
         /\ \A e \in Entries : Own'[f][SecondAt(e)] = Within(i_dindirect[f], e)'
BY PlaceKinds, AtPlacesNext DEF Own

\* The n blocks taken for logical block l of file f go to the places N: to l
\* itself and to the index blocks on the way to it.
Grows(f, l, n, N) ==
    /\ n \in 1..3 /\ n <= Cardinality(FreeBlocks) /\ Take(f, n)
    /\ N \subseteq Places /\ Cardinality(N) = n
    /\ DataAt(l) \in N /\ \A m \in LogBlocks : DataAt(m) \in N => m = l
    /\ data' = [data EXCEPT ![Own'[f][DataAt(l)]] = <<f, l>>]
    /\ \A p \in N : Own[f][p] = NoBlock
    /\ {Own'[f][p] : p \in N} = {Fresh(i) : i \in 1..n}
    /\ \A p, q \in N : Own'[f][p] = Own'[f][q] => p = q
    /\ \A g \in Files : \A p \in Places :
           g # f \/ p \notin N => Own'[g][p] = Own[g][p]
    /\ \A b \in Blocks \ freemap' : index'[b] = index[b]
    /\ IndirectAt \in N => l >= ND /\ l < ND + NI
    /\ DindirectAt \in N => l >= ND + NI /\ SecondAt(Level2(l)) \in N
    /\ \A e \in Entries : SecondAt(e) \in N => l >= ND + NI /\ e = Level2(l)

\* Growing keeps the maps sound, and changes the block of l only.
LEMMA TakeKeeps ==
  ASSUME MapTypes', MapInv, NEW f \in Files, NEW l \in LogBlocks, NEW n, NEW N,
         data \in [Blocks -> {<<>>} \cup (Files \X LogBlocks)],
         Grows(f, l, n, N)
  PROVE  /\ MapInv'
         /\ \A g \in Files : \A m \in LogBlocks : g # f \/ m # l => Phys(g, m)' = Phys(g, m)
<1> USE DEF Grows
<1>1. \A i \in 1..n : Fresh(i) \in FreeBlocks
  BY FreshBlocks
<1>2. /\ \A p \in N : Own'[f][p] \in FreeBlocks
      /\ \A p \in N : At(f, p)' \in FreeBlocks /\ At(f, p) = NoBlock
      /\ \A g \in Files : \A p \in Places :
            g # f \/ p \notin N => At(g, p)' = At(g, p)
  <2> SUFFICES ASSUME NEW p \in N PROVE Own'[f][p] \in FreeBlocks
    BY OwnValues, OwnValuesNext
  <2> DEFINE x == Own'[f][p]
  <2>1. x \in {Own'[f][q] : q \in N}
    OBVIOUS
  <2> HIDE DEF x
  <2>2. PICK i \in 1..n : x = Fresh(i)
    <3>1. x \in {Fresh(i) : i \in 1..n}
      BY <2>1
    <3> QED BY <3>1
  <2>3. x \in FreeBlocks
    BY <1>1, <2>2
  <2> QED BY <2>3 DEF x
<1>3. Ledger(Own, freemap, block_count, used_block_count)
  BY DEF MapInv
<1>4. Own' \in [Files -> [Places -> Blocks \cup {NoBlock}]]
  <2>1. (MapTypes => Own \in [Files -> [Places -> Blocks \cup {NoBlock}]])'
    BY MapValues, PTL
  <2> QED BY <2>1
<1>5. \A p \in N : Own[f][p] = NoBlock /\ Own'[f][p] \in Blocks \ freemap
  BY <1>2 DEF FreeBlocks
<1> DEFINE new == {Fresh(i) : i \in 1..n}
<1>6. (\A p \in N : Own'[f][p] \in new) /\ \A b \in new : \E p \in N : Own'[f][p] = b
  <2> DEFINE o == Own'[f]
  <2>1. {o[p] : p \in N} = new
    OBVIOUS
  <2> HIDE DEF o, new
  <2>2. (\A p \in N : o[p] \in new) /\ \A b \in new : \E p \in N : o[p] = b
    BY <2>1
  <2> QED BY <2>2 DEF o
<1>7. /\ freemap' = freemap \cup new
      /\ block_count' = [block_count EXCEPT ![f] = @ + Cardinality(N)]
      /\ used_block_count' = used_block_count + Cardinality(N)
  BY DEF Take, Counted
<1> HIDE DEF new
<1>9. Ledger(Own', freemap \cup new,
             [block_count EXCEPT ![f] = @ + Cardinality(N)],
             used_block_count + Cardinality(N))
  <2>1. Takes(Own, Own', freemap, f, N, new)
    BY <1>4, <1>5, <1>6 DEF Takes
  <2> QED BY <1>3, <2>1, LedgerTakes
<1>11. Ledger(Own, freemap, block_count, used_block_count)'
  BY <1>7, <1>9
<1>12. FreeIsZeroed'
  BY <1>7 DEF MapInv, FreeIsZeroed
<1>13. /\ Phys(f, l)' \in FreeBlocks
       /\ \A g \in Files : \A m \in LogBlocks : g # f \/ m # l => Phys(g, m)' = Phys(g, m)
       /\ Phys(f, l) = NoBlock
  <2>1. At(f, DataAt(l))' \in FreeBlocks /\ At(f, DataAt(l)) = NoBlock
    BY <1>2
  <2>2. Phys(f, l)' \in FreeBlocks /\ Phys(f, l) = NoBlock
    <3>1. At(f, DataAt(l))' = Phys(f, l)' /\ At(f, DataAt(l)) = Phys(f, l)
      BY DEF At, DataAt, IndirectAt, DindirectAt, SecondAt
    <3> QED BY <2>1, <3>1
  <2>3. ASSUME NEW g \in Files, NEW m \in LogBlocks, g # f \/ m # l
        PROVE  Phys(g, m)' = Phys(g, m)
    <3>1. DataAt(m) \in Places /\ (g # f \/ DataAt(m) \notin N)
      BY <2>3, PlaceKinds
    <3>2. At(g, DataAt(m))' = At(g, DataAt(m))
      BY <1>2, <3>1
    <3>3. At(g, DataAt(m))' = Phys(g, m)' /\ At(g, DataAt(m)) = Phys(g, m)
      BY DEF At, DataAt, IndirectAt, DindirectAt, SecondAt
    <3> QED BY <3>2, <3>3
  <2> QED BY <2>2, <2>3
<1>14. NoBlock \notin Blocks
  BY DEF NoBlock, Blocks
<1>15. Phys(f, l)' # NoBlock /\ data' = [data EXCEPT ![Phys(f, l)'] = <<f, l>>]
  <2>1. Own'[f][DataAt(l)] = Phys(f, l)'
    BY PlaceKinds DEF Own, At, DataAt
  <2> QED BY <1>13, <1>14, <2>1 DEF FreeBlocks
<1>16. RightData'
  <2> SUFFICES ASSUME NEW g \in Files, NEW m \in LogBlocks, Phys(g, m)' # NoBlock
               PROVE  data'[Phys(g, m)'] = <<g, m>>
    BY DEF RightData
  <2>1. CASE g = f /\ m = l
    BY <1>13, <1>15, <2>1 DEF FreeBlocks
  <2>2. CASE g # f \/ m # l
    <3>1. Phys(g, m)' = Phys(g, m) /\ data[Phys(g, m)] = <<g, m>>
      BY <1>13, <2>2 DEF MapInv, RightData
    <3>2. Phys(g, m) \in freemap /\ Phys(g, m) \in Blocks
      <4>1. Own[g][DataAt(m)] = Phys(g, m) /\ DataAt(m) \in Places
        BY OwnValues, PlaceKinds
      <4>2. Own[g][DataAt(m)] \in Blocks \cup {NoBlock}
        BY <1>3, <4>1 DEF Ledger
      <4> QED BY <1>3, <3>1, <4>1, <4>2 DEF Ledger
    <3> QED BY <1>13, <1>15, <3>1, <3>2 DEF FreeBlocks
  <2> QED BY <2>1, <2>2
<1>17. NoEmptyIndex'
  <2> SUFFICES ASSUME NEW g \in Files
               PROVE  /\ i_indirect'[g] # NoBlock =>
                            \E m \in LogBlocks : m >= ND /\ m < ND + NI
                                                 /\ Phys(g, m)' # NoBlock
                      /\ i_dindirect'[g] # NoBlock =>
                            \E e \in Entries : Within(i_dindirect[g], e)' # NoBlock
                      /\ \A e \in Entries : Within(i_dindirect[g], e)' # NoBlock =>
                            \E m \in LogBlocks :
                                m >= ND + NI /\ Level2(m) = e /\ Phys(g, m)' # NoBlock
    BY DEF NoEmptyIndex, Level2
  <2>1. \A m \in LogBlocks : Phys(g, m) # NoBlock => Phys(g, m)' # NoBlock
    BY <1>13, <1>15
  <2>2. \A e \in Entries : Within(i_dindirect[g], e) # NoBlock =>
                           Within(i_dindirect[g], e)' # NoBlock
    <3>1. ASSUME NEW e \in Entries, Within(i_dindirect[g], e) # NoBlock
          PROVE  Within(i_dindirect[g], e)' # NoBlock
      <4>1. At(g, SecondAt(e)) # NoBlock /\ SecondAt(e) \in Places
        BY <3>1, AtPlaces, PlaceKinds
      <4>2. At(g, SecondAt(e))' = At(g, SecondAt(e))
        BY <1>2, <4>1
      <4> QED BY <3>1, <4>1, <4>2, AtPlaces, AtPlacesNext
    <3> QED BY <3>1
  <2>3. ASSUME i_indirect'[g] # NoBlock
        PROVE  \E m \in LogBlocks : m >= ND /\ m < ND + NI /\ Phys(g, m)' # NoBlock
    <3>1. CASE g = f /\ IndirectAt \in N
      BY <1>15, <3>1
    <3>2. CASE ~(g = f /\ IndirectAt \in N)
      <4>1. i_indirect[g] # NoBlock
        BY <1>2, <2>3, <3>2, PlaceKinds, AtPlaces, AtPlacesNext
      <4> QED BY <2>1, <4>1 DEF MapInv, NoEmptyIndex
    <3> QED BY <3>1, <3>2
  <2>4. ASSUME i_dindirect'[g] # NoBlock
        PROVE  \E e \in Entries : Within(i_dindirect[g], e)' # NoBlock
    <3>1. CASE g = f /\ DindirectAt \in N
      <4>1. Level2(l) \in Entries
        BY <3>1, LevelSlot
      <4>2. At(f, SecondAt(Level2(l)))' \in FreeBlocks
        BY <1>2, <3>1
      <4>3. Within(i_dindirect[f], Level2(l))' # NoBlock
        <5>1. At(f, SecondAt(Level2(l)))' # NoBlock
          BY <1>14, <4>2 DEF FreeBlocks
        <5>2. \A e : At(f, SecondAt(e))' = Within(i_dindirect[f], e)'
          BY AtPlacesNext
        <5> QED BY <5>1, <5>2 DEF Level2
      <4> QED BY <3>1, <4>1, <4>3
    <3>2. CASE ~(g = f /\ DindirectAt \in N)
      <4>1. i_dindirect[g] # NoBlock
        BY <1>2, <2>4, <3>2, PlaceKinds, AtPlaces, AtPlacesNext
      <4> QED BY <2>2, <4>1 DEF MapInv, NoEmptyIndex
    <3> QED BY <3>1, <3>2
  <2>5. ASSUME NEW e \in Entries, Within(i_dindirect[g], e)' # NoBlock
        PROVE  \E m \in LogBlocks :
                   m >= ND + NI /\ Level2(m) = e /\ Phys(g, m)' # NoBlock
    <3>1. CASE g = f /\ SecondAt(e) \in N
      BY <1>15, <3>1
    <3>2. CASE ~(g = f /\ SecondAt(e) \in N)
      <4>1. Within(i_dindirect[g], e) # NoBlock
        BY <1>2, <2>5, <3>2, PlaceKinds, AtPlaces, AtPlacesNext
      <4> QED BY <2>1, <4>1 DEF MapInv, NoEmptyIndex
    <3> QED BY <3>1, <3>2
  <2> QED BY <2>3, <2>4, <2>5
<1> QED BY <1>11, <1>12, <1>13, <1>16, <1>17 DEF MapInv

-----------------------------------------------------------------------------
(* The allocations of a write.                                             *)

\* What holds between two steps, as long as the maps are sound.
LEMMA LiveFacts ==
  ASSUME IInv, bad = "no"
  PROVE  /\ MapTypes /\ MapInv /\ Room = Cardinality(FreeBlocks) /\ Room \in Nat
         /\ data \in [Blocks -> {<<>>} \cup (Files \X LogBlocks)]
         /\ Ledger(Own, freemap, block_count, used_block_count)
<1>1. MapTypes /\ data \in [Blocks -> {<<>>} \cup (Files \X LogBlocks)]
  BY DEF IInv, TypeOK, MapTypes
<1>2. MapInv /\ Ledger(Own, freemap, block_count, used_block_count)
  BY DEF IInv, Live, MapInv
<1>3. Cardinality(Blocks \ freemap) = MaxFsBlocks - used_block_count
  BY <1>2, LedgerBounds
<1>4. used_block_count \in 0..MaxFsBlocks
  BY DEF IInv, TypeOK
<1> QED BY <1>1, <1>2, <1>3, <1>4, Geometry DEF Room, FreeBlocks

\* The index blocks of a file are in places of the ledger.
LEMMA OwnRefs ==
  ASSUME NEW g \in Files
  PROVE  /\ Own[g][IndirectAt] = i_indirect[g]
         /\ Own[g][DindirectAt] = i_dindirect[g]
         /\ \A e \in Entries : Own[g][SecondAt(e)] = Ref(index, i_dindirect[g], e)
BY OwnValues DEF Within, Ref

\* A block in one place is in no other, and it is not free.
LEMMA Apart ==
  ASSUME Ledger(Own, freemap, block_count, used_block_count),
         NEW f \in Files, NEW p \in Places, Own[f][p] # NoBlock
  PROVE  /\ Own[f][p] \in freemap /\ Own[f][p] \in Blocks
         /\ \A g \in Files : \A q \in Places : Own[g][q] = Own[f][p] => g = f /\ q = p
<1>1. Own[f][p] \in Blocks
  BY DEF Ledger
<1> QED BY <1>1 DEF Ledger

\* A free block is in no place.
LEMMA FreeIsNowhere ==
  ASSUME Ledger(Own, freemap, block_count, used_block_count), NEW b \in FreeBlocks
  PROVE  b \in Blocks /\ b # NoBlock /\ \A g \in Files : \A q \in Places : Own[g][q] # b
<1>1. b \in Blocks /\ b \notin freemap
  BY DEF FreeBlocks
<1> QED BY <1>1 DEF Ledger, Blocks, NoBlock

\* Blocks outside the map of file g may change without changing it.
LEMMA OthersKeepMaps ==
  ASSUME MapTypes, NEW g \in Files,
         i_block_nr'[g] = i_block_nr[g], i_indirect'[g] = i_indirect[g],
         i_dindirect'[g] = i_dindirect[g],
         \A c \in Blocks : (\E p \in Places : Own[g][p] = c) => index'[c] = index[c]
  PROVE  \A p \in Places : Own'[g][p] = Own[g][p]
<1>1. /\ i_indirect[g] \in Blocks \cup {NoBlock} /\ i_dindirect[g] \in Blocks \cup {NoBlock}
      /\ index \in [Blocks -> [Entries -> Blocks \cup {NoBlock}]]
  BY DEF MapTypes
<1>2. ASSUME NEW c \in Blocks,
             \/ c = i_indirect[g]
             \/ c = i_dindirect[g]
             \/ \E e \in Entries : c = Ref(index, i_dindirect[g], e)
      PROVE  index'[c] = index[c]
  <2>1. \E p \in Places : Own[g][p] = c
    BY <1>2, OwnRefs, PlaceKinds
  <2> QED BY <2>1
<1> DEFINE m2 == MapOf(i_block_nr[g], i_indirect[g], i_dindirect[g], index')
           m  == MapOf(i_block_nr[g], i_indirect[g], i_dindirect[g], index)
<1>3. \A p \in Places : m2[p] = m[p]
  <2>1. SpareIndex(i_indirect[g], i_dindirect[g], index, index')
    BY <1>1, <1>2 DEF SpareIndex
  <2> QED BY <2>1, SameMap
<1>4. Own[g] = m /\ Own'[g] = m2
  BY OwnIsMap
<1> HIDE DEF m, m2
<1> QED BY <1>3, <1>4

\* Two different blocks are two.
LEMMA Pair ==
  ASSUME NEW x, NEW y, x # y
  PROVE  IsFiniteSet({x, y}) /\ Cardinality({x, y}) = 2
<1>1. IsFiniteSet({x}) /\ Cardinality({x}) = 1
  BY FS_Singleton
<1>2. {x, y} = {x} \cup {y} /\ y \notin {x}
  OBVIOUS
<1>3. IsFiniteSet({x} \cup {y}) /\ Cardinality({x} \cup {y}) = Cardinality({x}) + 1
  BY <1>1, <1>2, FS_AddElement
<1> QED BY <1>1, <1>2, <1>3

\* Three different blocks are three.
LEMMA Triple ==
  ASSUME NEW x, NEW y, NEW z, x # y, x # z, y # z
  PROVE  Cardinality({x, y, z}) = 3
<1>1. {x, y, z} = {x, y} \cup {z} /\ z \notin {x, y}
  OBVIOUS
<1>2. Cardinality({x, y} \cup {z}) = Cardinality({x, y}) + 1
  BY <1>1, Pair, FS_AddElement
<1> QED BY <1>1, <1>2, Pair

\* The fresh blocks of an allocation, listed.
LEMMA FreshSets ==
  /\ {Fresh(i) : i \in 1..1} = {Fresh(1)}
  /\ {Fresh(i) : i \in 1..2} = {Fresh(1), Fresh(2)}
  /\ {Fresh(i) : i \in 1..3} = {Fresh(1), Fresh(2), Fresh(3)}
<1>1. 1..1 = {1} /\ 1..2 = {1, 2} /\ 1..3 = {1, 2, 3}
  OBVIOUS
<1> QED BY <1>1, Zenon

\* The step of AllocDirect grows the map of its file by one direct block.
LEMMA AllocDirectKeeps ==
  ASSUME IInv, bad = "no", NEW f \in Files, NEW l \in LogBlocks, AllocDirect(f, l)
  PROVE  MapTypes' /\ Grows(f, l, 1, {DataAt(l)})
<1> DEFINE x == DataAt(l)
<1>1. /\ MapTypes /\ Room = Cardinality(FreeBlocks)
      /\ Ledger(Own, freemap, block_count, used_block_count)
  BY LiveFacts
<1>2. /\ l < ND /\ Phys(f, l) = NoBlock /\ Take(f, 1)
      /\ i_block_nr' = [i_block_nr EXCEPT ![f][l] = Fresh(1)]
      /\ index' = index /\ i_indirect' = i_indirect /\ i_dindirect' = i_dindirect
      /\ data' = [data EXCEPT ![Fresh(1)] = <<f, l>>]
      /\ 1 <= Cardinality(FreeBlocks)
  BY <1>1 DEF AllocDirect, Written, Needed
<1>3. Fresh(1) \in FreeBlocks
  BY <1>2, FreshBlocks
<1>4. Fresh(1) \in Blocks /\ l \in Direct
  BY <1>2, <1>3, Geometry DEF FreeBlocks, LogBlocks, Direct
<1>5. MapTypes'
  BY <1>1, <1>2, <1>4 DEF MapTypes
<1>6. i_block_nr'[f] = [i_block_nr[f] EXCEPT ![l] = Fresh(1)]
      /\ i_block_nr[f] \in [Direct -> Blocks \cup {NoBlock}]
  BY <1>1, <1>2 DEF MapTypes
<1>7. /\ Own[f] = MapOf(i_block_nr[f], i_indirect[f], i_dindirect[f], index)
      /\ Own'[f] = MapOf(i_block_nr'[f], i_indirect[f], i_dindirect[f], index)
  BY <1>2, OwnIsMap
<1>8. Own'[f][x] = Fresh(1) /\ \A p \in Places : p # x => Own'[f][p] = Own[f][p]
  <2>1. PICK b, blk, blk2, ind, dind :
            /\ b = Fresh(1) /\ blk = i_block_nr[f] /\ blk2 = i_block_nr'[f]
            /\ ind = i_indirect[f] /\ dind = i_dindirect[f]
    OBVIOUS
  <2>2. AddsDirect(blk, l, b, blk2)
    BY <1>2, <1>6, <2>1 DEF AddsDirect
  <2>3. /\ MapOf(blk2, ind, dind, index)[x] = b
        /\ SameBut(MapOf(blk2, ind, dind, index), MapOf(blk, ind, dind, index), {x})
    BY <2>2, DirectGrows
  <2>4. Own'[f][x] = b /\ SameBut(Own'[f], Own[f], {x})
    BY <1>7, <2>1, <2>3
  <2> QED BY <2>1, <2>4 DEF SameBut
<1>9. \A g \in Files : \A p \in Places : g # f \/ p \notin {x} => Own'[g][p] = Own[g][p]
  <2>1. ASSUME NEW g \in Files, g # f PROVE \A p \in Places : Own'[g][p] = Own[g][p]
    <3>1. i_block_nr'[g] = i_block_nr[g]
      BY <1>1, <1>2, <2>1 DEF MapTypes
    <3> QED BY <1>1, <1>2, <3>1, OthersKeepMaps
  <2> QED BY <1>8, <2>1
<1>10. Own[f][x] = NoBlock /\ x \in Places
  BY <1>2, OwnValues, PlaceKinds
<1>11. Cardinality({x}) = 1 /\ {Own'[f][p] : p \in {x}} = {Fresh(i) : i \in 1..1}
  <2>1. {Own'[f][p] : p \in {x}} = {Own'[f][x]}
    OBVIOUS
  <2> QED BY <1>8, <2>1, FS_Singleton, FreshSets
<1>12. data' = [data EXCEPT ![Own'[f][x]] = <<f, l>>]
  BY <1>2, <1>8
<1> QED BY <1>2, <1>5, <1>8, <1>9, <1>10, <1>11, <1>12, PlacesDiffer DEF Grows

\* The step of AllocIndirect grows it by the block and, where it is missing, the
\* indirect block.
LEMMA AllocIndirectKeeps ==
  ASSUME IInv, bad = "no", NEW f \in Files, NEW l \in LogBlocks, AllocIndirect(f, l)
  PROVE  MapTypes' /\ \E n, N : Grows(f, l, n, N)
<1> DEFINE x == DataAt(l)
           y == IndirectAt
<1>1. /\ MapTypes /\ Room = Cardinality(FreeBlocks)
      /\ Ledger(Own, freemap, block_count, used_block_count)
      /\ FreeIsZeroed
  BY LiveFacts DEF MapInv
<1>2. l >= ND /\ l < ND + NI /\ ~(l < ND) /\ l - ND \in Entries
  BY Geometry DEF AllocIndirect, LogBlocks, Entries
<1>3. PICK n, s, b, ind, dind :
          /\ n = Needed(f, l) /\ b = Fresh(n)
          /\ s = (IF n = 2 THEN Fresh(1) ELSE i_indirect[f])
          /\ ind = i_indirect[f] /\ dind = i_dindirect[f]
  OBVIOUS
<1>4. /\ Phys(f, l) = NoBlock /\ n <= Cardinality(FreeBlocks) /\ Take(f, n)
      /\ i_indirect' = [i_indirect EXCEPT ![f] = s]
      /\ index' = [index EXCEPT ![s][l - ND] = b]
      /\ i_block_nr' = i_block_nr /\ i_dindirect' = i_dindirect
      /\ data' = [data EXCEPT ![b] = <<f, l>>]
  BY <1>1, <1>3 DEF AllocIndirect, Written
<1>5. /\ n \in {1, 2} /\ (n = 2 <=> ind = NoBlock)
      /\ (n = 1 => s = ind) /\ (n = 2 => s = Fresh(1))
      /\ ind \in Blocks \cup {NoBlock} /\ dind \in Blocks \cup {NoBlock}
  BY <1>1, <1>2, <1>3 DEF Needed, MapTypes
<1>6. /\ b \in FreeBlocks /\ b \in Blocks
      /\ n = 2 => s \in FreeBlocks /\ s # b /\ b = Fresh(2)
  <2>1. \A i \in 1..n : Fresh(i) \in FreeBlocks
    BY <1>4, <1>5, FreshBlocks
  <2>2. \A i, j \in 1..n : Fresh(i) = Fresh(j) => i = j
    BY <1>4, <1>5, FreshBlocks
  <2>3. b \in FreeBlocks
    BY <1>3, <1>5, <2>1
  <2>4. ASSUME n = 2 PROVE s \in FreeBlocks /\ s # b /\ b = Fresh(2)
    BY <1>3, <1>5, <2>1, <2>2, <2>4
  <2> QED BY <2>3, <2>4 DEF FreeBlocks
<1>7. s \in Blocks
  BY <1>5, <1>6 DEF FreeBlocks
<1>8. x \in Places /\ y \in Places /\ x # y
  BY PlaceKinds, PlacesDiffer
<1>9. \A g \in Files : \A q \in Places : Own[g][q] = s => g = f /\ q = y
  <2>1. CASE n = 2
    <3>1. s \in FreeBlocks
      BY <1>6, <2>1
    <3> QED BY <1>1, <3>1, FreeIsNowhere
  <2>2. CASE n = 1
    <3>1. Own[f][y] = s /\ Own[f][y] # NoBlock
      BY <1>3, <1>5, <2>2, OwnRefs
    <3> QED BY <1>1, <1>8, <3>1, Apart
  <2> QED BY <1>5, <2>1, <2>2
<1>10. MapTypes'
  BY <1>1, <1>2, <1>4, <1>6, <1>7 DEF MapTypes
<1>11. AddsIndirect(ind, dind, index, l, s, b, index')
  <2>1. dind # s /\ \A e \in Entries : Ref(index, dind, e) # s
    <3>1. DindirectAt # y /\ \A e : SecondAt(e) # y
      BY PlacesDiffer
    <3>2. dind = Own[f][DindirectAt]
          /\ \A e \in Entries : Own[f][SecondAt(e)] = Ref(index, dind, e)
      BY <1>3, OwnRefs
    <3> HIDE DEF y
    <3> QED BY <1>9, <3>1, <3>2, PlaceKinds
  <2>2. ASSUME ind = NoBlock PROVE index[s] = Zeroed
    BY <1>1, <1>5, <1>6, <2>2 DEF FreeBlocks, FreeIsZeroed
  <2>3. ASSUME ind # NoBlock PROVE s = ind
    BY <1>5, <2>3
  <2> QED BY <1>1, <1>2, <1>4, <1>5, <1>7, <2>1, <2>2, <2>3 DEF AddsIndirect, MapTypes
<1>12. /\ Own'[f][y] = s /\ Own'[f][x] = b
       /\ \A p \in Places : p # x /\ p # y => Own'[f][p] = Own[f][p]
  <2>1. PICK blk, idx, idx2 : blk = i_block_nr[f] /\ idx = index /\ idx2 = index'
    OBVIOUS
  <2>2. AddsIndirect(ind, dind, idx, l, s, b, idx2)
    BY <1>11, <2>1
  <2>3. /\ MapOf(blk, s, dind, idx2)[y] = s /\ MapOf(blk, s, dind, idx2)[x] = b
        /\ SameBut(MapOf(blk, s, dind, idx2), MapOf(blk, ind, dind, idx), {x, y})
    BY <2>2, IndirectGrows
  <2>4. Own[f] = MapOf(blk, ind, dind, idx) /\ Own'[f] = MapOf(blk, s, dind, idx2)
    <3>1. i_indirect'[f] = s
      BY <1>1, <1>4 DEF MapTypes
    <3> QED BY <1>3, <1>4, <2>1, <3>1, OwnIsMap
  <2>5. Own'[f][y] = s /\ Own'[f][x] = b /\ SameBut(Own'[f], Own[f], {x, y})
    BY <2>3, <2>4
  <2> QED BY <2>5 DEF SameBut
<1>13. \A c \in Blocks : c # s => index'[c] = index[c]
  BY <1>1, <1>4 DEF MapTypes
<1>14. ASSUME NEW g \in Files, g # f PROVE \A p \in Places : Own'[g][p] = Own[g][p]
  <2>1. i_indirect'[g] = i_indirect[g]
    BY <1>1, <1>4, <1>14 DEF MapTypes
  <2>2. \A c \in Blocks : (\E p \in Places : Own[g][p] = c) => index'[c] = index[c]
    BY <1>9, <1>13, <1>14
  <2> QED BY <1>1, <1>4, <2>1, <2>2, OthersKeepMaps
<1>15. Own[f][x] = NoBlock /\ (n = 2 => Own[f][y] = NoBlock) /\ (n = 1 => Own[f][y] = s)
  BY <1>3, <1>4, <1>5, OwnValues
<1>16. ASSUME NEW c \in Blocks \ freemap' PROVE index'[c] = index[c]
  <2>1. s \in freemap'
    <3>1. CASE n = 2
      <4>1. s \in {Fresh(i) : i \in 1..n}
        BY <1>5, <3>1
      <4> QED BY <1>4, <4>1 DEF Take
    <3>2. CASE n = 1
      <4>1. Own[f][y] \in freemap
        <5>1. Own[f][y] # NoBlock
          BY <1>5, <1>15, <3>2
        <5> HIDE DEF y
        <5> QED BY <1>1, <1>8, <5>1, Apart
      <4> QED BY <1>4, <1>15, <3>2, <4>1 DEF Take
    <3> QED BY <1>5, <3>1, <3>2
  <2> QED BY <1>13, <1>16, <2>1
<1>17. data' = [data EXCEPT ![Own'[f][x]] = <<f, l>>]
  BY <1>4, <1>12
<1>18. CASE n = 1
  <2>1. Cardinality({x}) = 1 /\ {Own'[f][p] : p \in {x}} = {Fresh(i) : i \in 1..1}
    <3>1. {Own'[f][p] : p \in {x}} = {Own'[f][x]} /\ Own'[f][x] = Fresh(1)
      BY <1>3, <1>12, <1>18
    <3> QED BY <3>1, FS_Singleton, FreshSets
  <2>2. \A g \in Files : \A p \in Places : g # f \/ p \notin {x} => Own'[g][p] = Own[g][p]
    BY <1>12, <1>14, <1>15, <1>18
  <2>3. Grows(f, l, 1, {x})
    <3>1. /\ \A m \in LogBlocks : DataAt(m) \in {x} => m = l
          /\ IndirectAt \notin {x} /\ DindirectAt \notin {x}
          /\ \A e \in Entries : SecondAt(e) \notin {x}
      BY PlacesDiffer
    <3>2. Take(f, 1) /\ 1 <= Cardinality(FreeBlocks)
      BY <1>4, <1>18
    <3> QED BY <1>8, <1>15, <1>16, <1>17, <2>1, <2>2, <3>1, <3>2 DEF Grows
  <2> QED BY <1>10, <2>3
<1>19. CASE n = 2
  <2>1. Cardinality({x, y}) = 2 /\ {Own'[f][p] : p \in {x, y}} = {Fresh(i) : i \in 1..2}
    <3>1. {Own'[f][p] : p \in {x, y}} = {Own'[f][x], Own'[f][y]}
          /\ Own'[f][x] = Fresh(2) /\ Own'[f][y] = Fresh(1)
      BY <1>5, <1>6, <1>12, <1>19
    <3>2. Cardinality({x, y}) = 2
      BY <1>8, Pair
    <3>3. {Fresh(i) : i \in 1..2} = {Fresh(1), Fresh(2)}
      BY FreshSets
    <3> QED BY <3>1, <3>2, <3>3
  <2>2. \A g \in Files : \A p \in Places : g # f \/ p \notin {x, y} => Own'[g][p] = Own[g][p]
    BY <1>12, <1>14
  <2>3. \A p, q \in {x, y} : Own'[f][p] = Own'[f][q] => p = q
    BY <1>6, <1>12, <1>19
  <2>4. \A p \in {x, y} : Own[f][p] = NoBlock
    BY <1>15, <1>19
  <2>5. Grows(f, l, 2, {x, y})
    <3>1. /\ \A m \in LogBlocks : DataAt(m) \in {x, y} => m = l
          /\ DindirectAt \notin {x, y}
          /\ \A e \in Entries : SecondAt(e) \notin {x, y}
      BY PlacesDiffer
    <3>2. Take(f, 2) /\ 2 <= Cardinality(FreeBlocks)
      BY <1>4, <1>19
    <3> QED BY <1>2, <1>8, <1>16, <1>17, <2>1, <2>2, <2>3, <2>4, <3>1, <3>2 DEF Grows
  <2> QED BY <1>10, <2>5
<1> QED BY <1>5, <1>18, <1>19

\* The step of AllocDouble grows it by the block and up to two index blocks.
LEMMA AllocDoubleKeeps ==
  ASSUME IInv, bad = "no", NEW f \in Files, NEW l \in LogBlocks, AllocDouble(f, l)
  PROVE  MapTypes' /\ \E n, N : Grows(f, l, n, N)
<1> DEFINE x == DataAt(l)
           y == SecondAt(Level2(l))
           z == DindirectAt
<1>1. /\ MapTypes /\ Room = Cardinality(FreeBlocks)
      /\ Ledger(Own, freemap, block_count, used_block_count)
      /\ FreeIsZeroed
  BY LiveFacts DEF MapInv
<1>2. l >= ND + NI /\ ~(l < ND) /\ ~(l < ND + NI)
      /\ Level2(l) \in Entries /\ Slot(l) \in Entries
  <2>1. l >= ND + NI
    BY DEF AllocDouble
  <2> QED BY <2>1, LevelSlot, Geometry DEF LogBlocks
<1>3. PICK n, d, s, b, ind, dind, sec :
          /\ n = Needed(f, l) /\ b = Fresh(n) /\ sec = Second(f, l)
          /\ d = (IF n = 3 THEN Fresh(1) ELSE i_dindirect[f])
          /\ s = (IF n > 1 THEN Fresh(n - 1) ELSE Second(f, l))
          /\ ind = i_indirect[f] /\ dind = i_dindirect[f]
  OBVIOUS
<1>4. /\ Phys(f, l) = NoBlock /\ n <= Cardinality(FreeBlocks) /\ Take(f, n)
      /\ i_dindirect' = [i_dindirect EXCEPT ![f] = d]
      /\ index' = [index EXCEPT ![d][Level2(l)] = s, ![s][Slot(l)] = b]
      /\ i_block_nr' = i_block_nr /\ i_indirect' = i_indirect
      /\ data' = [data EXCEPT ![b] = <<f, l>>]
  BY <1>1, <1>3 DEF AllocDouble, Written
<1>5. /\ sec = Ref(index, dind, Level2(l)) /\ sec \in Blocks \cup {NoBlock}
      /\ ind \in Blocks \cup {NoBlock} /\ dind \in Blocks \cup {NoBlock}
      /\ dind = NoBlock => sec = NoBlock
  <2>1. sec = Ref(index, dind, Level2(l))
    BY <1>3 DEF Second, Within, Ref
  <2>2. ind \in Blocks \cup {NoBlock} /\ dind \in Blocks \cup {NoBlock}
    BY <1>1, <1>3 DEF MapTypes
  <2> QED BY <1>1, <1>2, <2>1, <2>2 DEF Ref, MapTypes
<1>6. /\ n \in {1, 2, 3} /\ (n = 3 <=> dind = NoBlock) /\ (n = 1 <=> sec # NoBlock)
      /\ (n = 1 => d = dind /\ s = sec /\ b = Fresh(1))
      /\ (n = 2 => d = dind /\ s = Fresh(1) /\ b = Fresh(2))
      /\ (n = 3 => d = Fresh(1) /\ s = Fresh(2) /\ b = Fresh(3))
  <2>1. n = (IF dind = NoBlock THEN 3 ELSE IF sec = NoBlock THEN 2 ELSE 1)
    BY <1>2, <1>3 DEF Needed
  <2> QED BY <1>3, <1>5, <2>1
<1>7. /\ \A i \in 1..n : Fresh(i) \in FreeBlocks
      /\ \A i, j \in 1..n : Fresh(i) = Fresh(j) => i = j
  BY <1>4, <1>6, FreshBlocks
<1>8. /\ b \in FreeBlocks /\ (n > 1 => s \in FreeBlocks) /\ (n = 3 => d \in FreeBlocks)
      /\ (n > 1 => s # b) /\ (n = 3 => d # b /\ d # s)
  <2>1. CASE n = 1
    BY <1>6, <1>7, <2>1
  <2>2. CASE n = 2
    BY <1>6, <1>7, <2>2
  <2>3. CASE n = 3
    BY <1>6, <1>7, <2>3
  <2> QED BY <1>6, <2>1, <2>2, <2>3
<1>9. x \in Places /\ y \in Places /\ z \in Places /\ x # y /\ x # z /\ y # z
  BY <1>2, PlaceKinds, PlacesDiffer
<1>10. Own[f][x] = NoBlock /\ Own[f][y] = sec /\ Own[f][z] = dind
  BY <1>2, <1>3, <1>4, <1>5, OwnValues, OwnRefs
<1>11. d \in Blocks /\ s \in Blocks /\ b \in Blocks
  BY <1>5, <1>6, <1>8 DEF FreeBlocks
<1> HIDE DEF x, y, z
<1>12. \A g \in Files : \A q \in Places : Own[g][q] = d => g = f /\ q = z
  <2>1. CASE n = 3
    BY <1>1, <1>8, <2>1, FreeIsNowhere
  <2>2. CASE n # 3
    <3>1. Own[f][z] = d /\ Own[f][z] # NoBlock
      BY <1>6, <1>10, <2>2
    <3> QED BY <1>1, <1>9, <3>1, Apart
  <2> QED BY <2>1, <2>2
<1>13. \A g \in Files : \A q \in Places : Own[g][q] = s => g = f /\ q = y
  <2>1. CASE n > 1
    BY <1>1, <1>8, <2>1, FreeIsNowhere
  <2>2. CASE n = 1
    <3>1. Own[f][y] = s /\ Own[f][y] # NoBlock
      BY <1>6, <1>10, <2>2
    <3> QED BY <1>1, <1>9, <3>1, Apart
  <2> QED BY <1>6, <2>1, <2>2
<1>14. d # s
  <2>1. CASE n = 3
    BY <1>8, <2>1
  <2>2. CASE n # 3
    BY <1>6, <1>9, <1>10, <1>13, <2>2
  <2> QED BY <2>1, <2>2
<1>15. MapTypes'
  <2>1. i_dindirect' \in [Files -> Blocks \cup {NoBlock}]
    BY <1>1, <1>4, <1>11 DEF MapTypes
  <2>2. index' \in [Blocks -> [Entries -> Blocks \cup {NoBlock}]]
    <3> DEFINE i1 == [index EXCEPT ![d][Level2(l)] = s]
    <3>1. i1 \in [Blocks -> [Entries -> Blocks \cup {NoBlock}]]
      BY <1>1, <1>2, <1>11 DEF MapTypes
    <3>2. index' = [i1 EXCEPT ![s][Slot(l)] = b]
      BY <1>4
    <3> HIDE DEF i1
    <3> QED BY <1>2, <1>11, <3>1, <3>2
  <2> QED BY <1>1, <1>4, <2>1, <2>2 DEF MapTypes
<1>16. \A c \in Blocks : c # s /\ c # d => index'[c] = index[c]
  BY <1>1, <1>4 DEF MapTypes
<1>17. AddsDouble(ind, dind, index, l, d, s, b, index')
  <2>1. ind # d /\ ind # s
    <3>1. ind = Own[f][IndirectAt] /\ IndirectAt # z /\ IndirectAt # y /\ IndirectAt \in Places
      BY <1>3, OwnRefs, PlaceKinds, PlacesDiffer DEF y, z
    <3> QED BY <1>12, <1>13, <3>1
  <2>2. ASSUME NEW e \in Entries, e # Level2(l)
        PROVE  Ref(index, dind, e) # d /\ Ref(index, dind, e) # s
    <3>1. Ref(index, dind, e) = Own[f][SecondAt(e)]
      BY <1>3, OwnRefs
    <3>2. SecondAt(e) # z /\ SecondAt(e) # y /\ SecondAt(e) \in Places
      BY <2>2, PlaceKinds, PlacesDiffer DEF y, z
    <3> QED BY <1>12, <1>13, <3>1, <3>2
  <2>3. dind = NoBlock => index[d] = Zeroed
    BY <1>1, <1>6, <1>8 DEF FreeBlocks, FreeIsZeroed
  <2>4. sec = NoBlock => index[s] = Zeroed
    BY <1>1, <1>6, <1>8 DEF FreeBlocks, FreeIsZeroed
  <2>5. (dind # NoBlock => d = dind) /\ (sec # NoBlock => s = sec)
    BY <1>6
  <2>6. index \in [Blocks -> [Entries -> Blocks \cup {NoBlock}]]
    BY <1>1 DEF MapTypes
  <2> QED BY <1>2, <1>4, <1>5, <1>11, <1>14, <2>1, <2>2, <2>3, <2>4, <2>5, <2>6 DEF AddsDouble
<1>18. /\ Own'[f][z] = d /\ Own'[f][y] = s /\ Own'[f][x] = b
       /\ \A p \in Places : p # x /\ p # y /\ p # z => Own'[f][p] = Own[f][p]
  <2>1. PICK blk, idx, idx2 : blk = i_block_nr[f] /\ idx = index /\ idx2 = index'
    OBVIOUS
  <2>2. AddsDouble(ind, dind, idx, l, d, s, b, idx2)
    BY <1>17, <2>1
  <2>3. /\ MapOf(blk, ind, d, idx2)[z] = d /\ MapOf(blk, ind, d, idx2)[y] = s
        /\ MapOf(blk, ind, d, idx2)[x] = b
        /\ SameBut(MapOf(blk, ind, d, idx2), MapOf(blk, ind, dind, idx), {x, y, z})
    BY <2>2, DoubleGrows DEF x, y, z
  <2>4. Own[f] = MapOf(blk, ind, dind, idx) /\ Own'[f] = MapOf(blk, ind, d, idx2)
    <3>1. i_dindirect'[f] = d
      BY <1>1, <1>4 DEF MapTypes
    <3> QED BY <1>3, <1>4, <2>1, <3>1, OwnIsMap
  <2>5. /\ Own'[f][z] = d /\ Own'[f][y] = s /\ Own'[f][x] = b
        /\ SameBut(Own'[f], Own[f], {x, y, z})
    BY <2>3, <2>4
  <2> QED BY <2>5 DEF SameBut
<1>19. ASSUME NEW g \in Files, g # f PROVE \A p \in Places : Own'[g][p] = Own[g][p]
  <2>1. i_dindirect'[g] = i_dindirect[g]
    BY <1>1, <1>4, <1>19 DEF MapTypes
  <2>2. \A c \in Blocks : (\E p \in Places : Own[g][p] = c) => index'[c] = index[c]
    BY <1>12, <1>13, <1>16, <1>19
  <2> QED BY <1>1, <1>4, <2>1, <2>2, OthersKeepMaps
<1>20. freemap' = freemap \cup {Fresh(i) : i \in 1..n}
  BY <1>4 DEF Take
<1>21. d \in freemap'
  <2>1. CASE n = 3
    <3>1. d \in {Fresh(i) : i \in 1..n}
      BY <1>6, <2>1
    <3> QED BY <1>20, <3>1
  <2>2. CASE n # 3
    <3>1. Own[f][z] = d /\ Own[f][z] # NoBlock
      BY <1>6, <1>10, <2>2
    <3>2. d \in freemap
      BY <1>1, <1>9, <3>1, Apart
    <3> QED BY <1>20, <3>2
  <2> QED BY <2>1, <2>2
<1>22. s \in freemap'
  <2>1. CASE n > 1
    <3>1. s \in {Fresh(i) : i \in 1..n}
      BY <1>6, <2>1
    <3> QED BY <1>20, <3>1
  <2>2. CASE n = 1
    <3>1. Own[f][y] = s /\ Own[f][y] # NoBlock
      BY <1>6, <1>10, <2>2
    <3>2. s \in freemap
      BY <1>1, <1>9, <3>1, Apart
    <3> QED BY <1>20, <3>2
  <2> QED BY <1>6, <2>1, <2>2
<1>23. \A c \in Blocks \ freemap' : index'[c] = index[c]
  BY <1>16, <1>21, <1>22
<1>24. data' = [data EXCEPT ![Own'[f][x]] = <<f, l>>]
  BY <1>4, <1>18
<1>25. ASSUME NEW N, N = {x} \/ N = {x, y} \/ N = {x, y, z}, Cardinality(N) = n,
              \A p \in N : Own[f][p] = NoBlock,
              {Own'[f][p] : p \in N} = {Fresh(i) : i \in 1..n},
              \A p, q \in N : Own'[f][p] = Own'[f][q] => p = q,
              \A p \in Places : p \notin N => Own'[f][p] = Own[f][p]
       PROVE  Grows(f, l, n, N)
  <2>1. /\ N \subseteq Places /\ DataAt(l) \in N
        /\ \A m \in LogBlocks : DataAt(m) \in N => m = l
        /\ IndirectAt \notin N
        /\ DindirectAt \in N => SecondAt(Level2(l)) \in N
        /\ \A e \in Entries : SecondAt(e) \in N => e = Level2(l)
    BY <1>9, <1>25, PlacesDiffer DEF x, y, z
  <2>2. \A g \in Files : \A p \in Places : g # f \/ p \notin N => Own'[g][p] = Own[g][p]
    BY <1>19, <1>25
  <2>3. n \in 1..3
    BY <1>6
  <2>4. data' = [data EXCEPT ![Own'[f][DataAt(l)]] = <<f, l>>]
    BY <1>24 DEF x
  <2> QED BY <1>2, <1>4, <1>23, <1>25, <2>1, <2>2, <2>3, <2>4 DEF Grows
<1>26. CASE n = 1
  <2>1. Cardinality({x}) = n /\ {Own'[f][p] : p \in {x}} = {Fresh(i) : i \in 1..n}
    <3>1. {Own'[f][p] : p \in {x}} = {Own'[f][x]} /\ Own'[f][x] = Fresh(1)
      BY <1>6, <1>18, <1>26
    <3> QED BY <1>26, <3>1, FS_Singleton, FreshSets
  <2>2. \A p \in Places : p \notin {x} => Own'[f][p] = Own[f][p]
    BY <1>6, <1>10, <1>18, <1>26
  <2>3. Grows(f, l, n, {x})
    BY <1>10, <1>25, <2>1, <2>2
  <2> QED BY <1>15, <2>3
<1>27. CASE n = 2
  <2>1. Cardinality({x, y}) = n /\ {Own'[f][p] : p \in {x, y}} = {Fresh(i) : i \in 1..n}
    <3>1. {Own'[f][p] : p \in {x, y}} = {Own'[f][x], Own'[f][y]}
          /\ Own'[f][x] = Fresh(2) /\ Own'[f][y] = Fresh(1)
      BY <1>6, <1>18, <1>27
    <3>2. Cardinality({x, y}) = 2
      BY <1>9, Pair
    <3>3. {Fresh(i) : i \in 1..n} = {Fresh(1), Fresh(2)}
      BY <1>27, FreshSets
    <3> QED BY <1>27, <3>1, <3>2, <3>3
  <2>2. \A p \in Places : p \notin {x, y} => Own'[f][p] = Own[f][p]
    BY <1>6, <1>10, <1>18, <1>27
  <2>3. \A p, q \in {x, y} : Own'[f][p] = Own'[f][q] => p = q
    BY <1>8, <1>18, <1>27
  <2>4. \A p \in {x, y} : Own[f][p] = NoBlock
    BY <1>6, <1>10, <1>27
  <2>5. Grows(f, l, n, {x, y})
    BY <1>25, <2>1, <2>2, <2>3, <2>4
  <2> QED BY <1>15, <2>5
<1>28. CASE n = 3
  <2>1. Cardinality({x, y, z}) = n
        /\ {Own'[f][p] : p \in {x, y, z}} = {Fresh(i) : i \in 1..n}
    <3>1. {Own'[f][p] : p \in {x, y, z}} = {Own'[f][x], Own'[f][y], Own'[f][z]}
          /\ Own'[f][x] = Fresh(3) /\ Own'[f][y] = Fresh(2) /\ Own'[f][z] = Fresh(1)
      BY <1>6, <1>18, <1>28
    <3>2. Cardinality({x, y, z}) = 3
      BY <1>9, Triple
    <3>3. {Fresh(i) : i \in 1..n} = {Fresh(1), Fresh(2), Fresh(3)}
      BY <1>28, FreshSets
    <3> QED BY <1>28, <3>1, <3>2, <3>3
  <2>2. \A p \in Places : p \notin {x, y, z} => Own'[f][p] = Own[f][p]
    BY <1>18
  <2>3. \A p, q \in {x, y, z} : Own'[f][p] = Own'[f][q] => p = q
    BY <1>8, <1>18, <1>28
  <2>4. \A p \in {x, y, z} : Own[f][p] = NoBlock
    BY <1>5, <1>6, <1>10, <1>28
  <2>5. Grows(f, l, n, {x, y, z})
    BY <1>25, <2>1, <2>2, <2>3, <2>4
  <2> QED BY <1>15, <2>5
<1> QED BY <1>6, <1>26, <1>27, <1>28

-----------------------------------------------------------------------------
(* The steps of a write.                                                   *)

\* A step that takes blocks and writes the one of l keeps the invariant.
LEMMA AllocStep ==
  ASSUME IInv, bad = "no", NEW f \in Files, NEW l \in LogBlocks,
         f = job.file, l = job.next, l <= job.last,
         MapTypes', NEW n, NEW N, Grows(f, l, n, N), NEW b, Written(f, b, l)
  PROVE  IInv'
<1>1. /\ MapInv /\ data \in [Blocks -> {<<>>} \cup (Files \X LogBlocks)]
  BY LiveFacts
<1>2. /\ MapInv'
      /\ \A g \in Files : \A m \in LogBlocks : g # f \/ m # l => Phys(g, m)' = Phys(g, m)
  BY <1>1, TakeKeeps
<1>3. job' = [job EXCEPT !.next = l + 1] /\ i_size' = i_size /\ failed' = failed /\ bad' = bad
  BY DEF Written
<1>4. /\ job \in [file : Files \cup {NoFile}, first : Nat, next : Nat, last : Nat]
      /\ l \in Int /\ l + 1 \in Nat
  <2>1. job \in [file : Files \cup {NoFile}, first : Nat, next : Nat, last : Nat]
    BY DEF IInv, TypeOK
  <2>2. l \in Int /\ l + 1 \in Nat
    BY Geometry DEF LogBlocks
  <2> QED BY <2>1, <2>2
<1>5. /\ job' \in [file : Files \cup {NoFile}, first : Nat, next : Nat, last : Nat]
      /\ job'.file = f /\ job'.first = job.first /\ job'.next = l + 1 /\ job'.last = job.last
  BY <1>3, <1>4
<1>6. job.first \in LogBlocks /\ job.last \in LogBlocks /\ job.first <= l
  BY GeometryAssumption DEF IInv, JobOK, NoJob
<1>7. JobOK'
  BY <1>4, <1>5, <1>6 DEF JobOK, LogBlocks
<1>8. TypeOK'
  <2>1. Ledger(Own', freemap', block_count', used_block_count')
    BY <1>2 DEF MapInv
  <2>2. /\ freemap' \subseteq Blocks /\ used_block_count' \in 0..MaxFsBlocks
        /\ block_count' \in [Files -> 0..MaxFsBlocks]
    BY <2>1, LedgerBounds
  <2>3. data' \in [Blocks -> {<<>>} \cup (Files \X LogBlocks)]
    <3>1. PICK c : data' = [data EXCEPT ![c] = <<f, l>>]
      BY DEF Grows
    <3> QED BY <1>1, <3>1
  <2> QED BY <1>3, <1>5, <2>2, <2>3 DEF IInv, TypeOK, MapTypes
<1>9. ASSUME ~failed PROVE Covered'
  <2>1. Covered
    BY <1>9 DEF IInv
  <2> SUFFICES ASSUME NEW g \in Files, NEW m \in LogBlocks, Phys(g, m)' # NoBlock
               PROVE  m < i_size'[g] \/ (g = job'.file /\ m \in job'.first..job'.next-1)
    BY DEF Covered
  <2>2. CASE g = f /\ m = l
    BY <1>4, <1>5, <1>6, <2>2 DEF LogBlocks
  <2>3. CASE g # f \/ m # l
    <3>1. Phys(g, m) # NoBlock
      BY <1>2, <2>3
    <3>2. m < i_size[g] \/ (g = job.file /\ m \in job.first..job.next-1)
      BY <2>1, <3>1 DEF Covered
    <3>3. job.first..job.next-1 \subseteq job'.first..job'.next-1
      BY <1>4, <1>5, <1>6 DEF LogBlocks
    <3> QED BY <1>3, <1>5, <3>2, <3>3
  <2> QED BY <2>2, <2>3
<1> QED BY <1>2, <1>3, <1>7, <1>8, <1>9 DEF IInv, Live

\* What holds of maps that no step touches.
LEMMA MapsKept ==
  ASSUME MapInv, UNCHANGED <<freemap, used_block_count, index, i_block_nr, i_indirect,
                             i_dindirect, block_count>>
  PROVE  /\ Ledger(Own, freemap, block_count, used_block_count)'
         /\ FreeIsZeroed' /\ NoEmptyIndex'
         /\ \A g \in Files : \A m \in LogBlocks : Phys(g, m)' = Phys(g, m)
         /\ data' = data => MapInv'
<1>1. Own' = Own
  BY OwnIsMap
<1>2. Ledger(Own', freemap', block_count', used_block_count')
  BY <1>1 DEF MapInv
<1>4. ASSUME NEW g \in Files, NEW m \in LogBlocks PROVE Phys(g, m)' = Phys(g, m)
  BY DEF Phys, Second, Within, Level2, Slot
<1>5. \A g \in Files : \A m \in LogBlocks : Phys(g, m)' = Phys(g, m)
  BY <1>4
<1>6. FreeIsZeroed'
  BY DEF MapInv, FreeIsZeroed, Zeroed
<1>7. NoEmptyIndex'
  <2>1. \A g \in Files : i_indirect'[g] = i_indirect[g] /\ i_dindirect'[g] = i_dindirect[g]
    OBVIOUS
  <2>2. \A g \in Files : \A e \in Entries : Within(i_dindirect[g], e)' = Within(i_dindirect[g], e)
    BY DEF Within
  <2>3. NoEmptyIndex
    BY DEF MapInv
  <2> QED BY <1>5, <2>1, <2>2, <2>3 DEF NoEmptyIndex
<1>8. ASSUME data' = data PROVE RightData'
  BY <1>5, <1>8 DEF MapInv, RightData
<1> QED BY <1>2, <1>5, <1>6, <1>7, <1>8 DEF MapInv

\* A block that exists is written in place.
LEMMA OverwriteStep ==
  ASSUME IInv, bad = "no", NEW f \in Files, NEW l \in LogBlocks,
         f = job.file, l = job.next, l <= job.last, Overwrite(f, l)
  PROVE  IInv'
<1>1. /\ MapInv /\ data \in [Blocks -> {<<>>} \cup (Files \X LogBlocks)]
      /\ Ledger(Own, freemap, block_count, used_block_count)
  BY LiveFacts
<1>2. /\ Phys(f, l) # NoBlock /\ data' = [data EXCEPT ![Phys(f, l)] = <<f, l>>]
      /\ UNCHANGED <<freemap, used_block_count, index, i_block_nr, i_indirect,
                     i_dindirect, block_count, i_size, failed, bad>>
      /\ job' = [job EXCEPT !.next = l + 1]
  BY DEF Overwrite, Written
<1>3. /\ Ledger(Own, freemap, block_count, used_block_count)'
      /\ FreeIsZeroed' /\ NoEmptyIndex'
      /\ \A g \in Files : \A m \in LogBlocks : Phys(g, m)' = Phys(g, m)
  BY <1>1, <1>2, MapsKept
<1>4. ASSUME NEW g \in Files, NEW m \in LogBlocks, Phys(g, m) # NoBlock
      PROVE  Phys(g, m) \in Blocks /\ (Phys(g, m) = Phys(f, l) => g = f /\ m = l)
  <2>1. Own[g][DataAt(m)] = Phys(g, m) /\ Own[f][DataAt(l)] = Phys(f, l)
        /\ DataAt(m) \in Places /\ DataAt(l) \in Places
    BY OwnValues, PlaceKinds
  <2>2. /\ Own[g][DataAt(m)] \in Blocks
        /\ Own[f][DataAt(l)] = Own[g][DataAt(m)] => f = g /\ DataAt(l) = DataAt(m)
    BY <1>1, <1>4, <2>1, Apart
  <2> QED BY <2>1, <2>2, PlacesDiffer
<1>5. RightData'
  <2> SUFFICES ASSUME NEW g \in Files, NEW m \in LogBlocks, Phys(g, m)' # NoBlock
               PROVE  data'[Phys(g, m)'] = <<g, m>>
    BY DEF RightData
  <2>1. Phys(g, m)' = Phys(g, m) /\ Phys(g, m) # NoBlock /\ data[Phys(g, m)] = <<g, m>>
    BY <1>1, <1>3 DEF MapInv, RightData
  <2> QED BY <1>1, <1>2, <1>4, <2>1
<1>6. /\ job \in [file : Files \cup {NoFile}, first : Nat, next : Nat, last : Nat]
      /\ l \in Int /\ l + 1 \in Nat
  <2>1. job \in [file : Files \cup {NoFile}, first : Nat, next : Nat, last : Nat]
    BY DEF IInv, TypeOK
  <2>2. l \in Int /\ l + 1 \in Nat
    BY Geometry DEF LogBlocks
  <2> QED BY <2>1, <2>2
<1>7. /\ job' \in [file : Files \cup {NoFile}, first : Nat, next : Nat, last : Nat]
      /\ job'.file = f /\ job'.first = job.first /\ job'.next = l + 1 /\ job'.last = job.last
  BY <1>2, <1>6
<1>8. job.first \in LogBlocks /\ job.last \in LogBlocks /\ job.first <= l
  BY GeometryAssumption DEF IInv, JobOK, NoJob
<1>9. JobOK'
  BY <1>6, <1>7, <1>8 DEF JobOK, LogBlocks
<1>10. TypeOK'
  <2>1. data' \in [Blocks -> {<<>>} \cup (Files \X LogBlocks)]
    BY <1>1, <1>2
  <2> QED BY <1>2, <1>7, <2>1 DEF IInv, TypeOK
<1>11. ASSUME ~failed PROVE Covered'
  <2>1. Covered
    BY <1>11 DEF IInv
  <2> SUFFICES ASSUME NEW g \in Files, NEW m \in LogBlocks, Phys(g, m)' # NoBlock
               PROVE  m < i_size'[g] \/ (g = job'.file /\ m \in job'.first..job'.next-1)
    BY DEF Covered
  <2>2. Phys(g, m) # NoBlock
    BY <1>3
  <2>3. m < i_size[g] \/ (g = job.file /\ m \in job.first..job.next-1)
    BY <2>1, <2>2 DEF Covered
  <2>4. job.first..job.next-1 \subseteq job'.first..job'.next-1
    BY <1>6, <1>7, <1>8 DEF LogBlocks
  <2> QED BY <1>2, <1>7, <2>3, <2>4
<1> QED BY <1>2, <1>3, <1>5, <1>9, <1>10, <1>11 DEF IInv, Live, MapInv

\* Not enough room: the maps are as before, or the model stops.
LEMMA FailStep ==
  ASSUME IInv, bad = "no", NEW f \in Files, NEW l \in LogBlocks,
         AllocFails(f, l) \/ AllocDangles(f, l) \/ AllocStrays(f, l)
  PROVE  IInv'
<1>1. MapTypes /\ MapInv /\ Room = Cardinality(FreeBlocks)
  BY LiveFacts
<1>2. TypeOK /\ JobOK /\ (~failed => Covered)
  BY DEF IInv
<1>3. /\ NoJob \in [file : Files \cup {NoFile}, first : Nat, next : Nat, last : Nat]
      /\ l + 1 \in 0..ND + NI + NI * NI
  BY Geometry DEF NoJob, LogBlocks
<1>4. CASE AllocFails(f, l)
  <2>1. /\ UNCHANGED <<freemap, used_block_count, index, i_block_nr, i_indirect,
                        i_dindirect, block_count, data, bad>>
        /\ job' = NoJob /\ failed' = TRUE
        /\ \/ i_size' = [i_size EXCEPT ![f] = Grown(f, l + 1)]
           \/ i_size' = [i_size EXCEPT ![f] = @]
    BY <1>4 DEF AllocFails, disk
  <2>2. MapInv'
    BY <1>1, <2>1, MapsKept
  <2>3. i_size' \in [Files -> 0..ND + NI + NI * NI]
    <3>1. i_size[f] \in 0..ND + NI + NI * NI /\ Grown(f, l + 1) \in 0..ND + NI + NI * NI
      BY <1>2, <1>3 DEF TypeOK, Grown
    <3> QED BY <1>2, <2>1, <3>1 DEF TypeOK
  <2>4. TypeOK'
    BY <1>2, <1>3, <2>1, <2>3 DEF TypeOK
  <2> QED BY <2>1, <2>2, <2>4 DEF IInv, JobOK, NoJob
<1>5. CASE AllocDangles(f, l)
  <2>1. /\ l >= ND + NI /\ Needed(f, l) = 2 /\ Room = 1
        /\ index' = [index EXCEPT ![i_dindirect[f]][Level2(l)] = Fresh(1)]
        /\ bad' = "dangling" /\ failed' = TRUE /\ job' = NoJob
        /\ UNCHANGED <<freemap, used_block_count, data, i_block_nr, i_indirect,
                       i_dindirect, block_count, i_size>>
    BY <1>5 DEF AllocDangles, dinode
  <2>2. Fresh(1) \in Blocks
    BY <1>1, <2>1, FreshBlocks DEF FreeBlocks
  <2>3. i_dindirect[f] \in Blocks
    BY <1>1, <2>1, Geometry DEF MapTypes, Needed, LogBlocks
  <2>4. index' \in [Blocks -> [Entries -> Blocks \cup {NoBlock}]]
    BY <1>1, <2>1, <2>2, <2>3, LevelSlot DEF MapTypes
  <2>5. TypeOK'
    BY <1>2, <1>3, <2>1, <2>4 DEF TypeOK
  <2> QED BY <2>1, <2>5 DEF IInv, JobOK, NoJob, Live
<1>6. CASE AllocStrays(f, l)
  <2>1. /\ bad' = "stray"
        /\ UNCHANGED <<freemap, used_block_count, index, i_block_nr, i_indirect,
                       i_dindirect, block_count, data, i_size, job, failed>>
    BY <1>6 DEF AllocStrays, disk, dinode
  <2>2. MapInv' /\ \A g \in Files : \A m \in LogBlocks : Phys(g, m)' = Phys(g, m)
    BY <1>1, <2>1, MapsKept
  <2>3. TypeOK' /\ JobOK'
    BY <1>2, <2>1 DEF TypeOK, JobOK, NoJob
  <2>4. ~failed => Covered'
    BY <1>2, <2>1, <2>2 DEF Covered
  <2> QED BY <2>1, <2>2, <2>3, <2>4 DEF IInv, Live
<1> QED BY <1>4, <1>5, <1>6

\* One turn of the loop of testfs_write_data.
LEMMA WriteBlockStep ==
  ASSUME IInv, WriteBlock
  PROVE  IInv'
<1>1. PICK f, l : f = job.file /\ l = job.next
  OBVIOUS
<1>2. bad = "no" /\ f # NoFile /\ l <= job.last
  BY <1>1 DEF WriteBlock
<1>3. f \in Files /\ l \in LogBlocks
  <2>1. job \in [file : Files \cup {NoFile}, first : Nat, next : Nat, last : Nat]
    BY DEF IInv, TypeOK
  <2>2. job.first \in LogBlocks /\ job.last \in LogBlocks /\ job.first <= l
    BY <1>1, <1>2 DEF IInv, JobOK, NoJob
  <2> QED BY <1>1, <1>2, <2>1, <2>2, Geometry DEF LogBlocks
<1>4. CASE Overwrite(f, l)
  BY <1>1, <1>2, <1>3, <1>4, OverwriteStep
<1>5. CASE AllocDirect(f, l)
  <2>1. Written(f, Fresh(1), l)
    BY <1>5 DEF AllocDirect
  <2>2. MapTypes' /\ Grows(f, l, 1, {DataAt(l)})
    BY <1>2, <1>3, <1>5, AllocDirectKeeps
  <2> QED BY <1>1, <1>2, <1>3, <2>1, <2>2, AllocStep
<1>6. CASE AllocIndirect(f, l)
  <2>1. PICK b : Written(f, b, l)
    BY <1>6 DEF AllocIndirect
  <2>2. MapTypes' /\ \E n, N : Grows(f, l, n, N)
    BY <1>2, <1>3, <1>6, AllocIndirectKeeps
  <2>3. PICK n, N : Grows(f, l, n, N)
    BY <2>2
  <2> QED BY <1>1, <1>2, <1>3, <2>1, <2>2, <2>3, AllocStep
<1>7. CASE AllocDouble(f, l)
  <2>1. PICK b : Written(f, b, l)
    BY <1>7 DEF AllocDouble
  <2>2. MapTypes' /\ \E n, N : Grows(f, l, n, N)
    BY <1>2, <1>3, <1>7, AllocDoubleKeeps
  <2>3. PICK n, N : Grows(f, l, n, N)
    BY <2>2
  <2> QED BY <1>1, <1>2, <1>3, <2>1, <2>2, <2>3, AllocStep
<1>8. CASE AllocFails(f, l) \/ AllocDangles(f, l) \/ AllocStrays(f, l)
  BY <1>2, <1>3, <1>8, FailStep
<1> QED BY <1>1, <1>4, <1>5, <1>6, <1>7, <1>8 DEF WriteBlock

\* The beginning of testfs_write_data.
LEMMA BeginWriteStep ==
  ASSUME IInv, NEW f \in Files, NEW first \in LogBlocks, NEW n \in 1..MaxWrite,
         BeginWrite(f, first, first + n - 1)
  PROVE  IInv'
<1> DEFINE top  == ND + NI + NI * NI - 1
           last == IF first + n - 1 \in LogBlocks THEN first + n - 1 ELSE top
<1>1. /\ job.file = NoFile /\ bad = "no"
      /\ job' = [file |-> f, first |-> first, next |-> first, last |-> last]
      /\ UNCHANGED <<freemap, used_block_count, index, i_block_nr, i_indirect,
                     i_dindirect, block_count, data, i_size, failed, bad>>
  BY DEF BeginWrite, Idle, disk, dinode
<1>2. MapInv
  BY <1>1, LiveFacts
<1>3. MapInv' /\ \A g \in Files : \A m \in LogBlocks : Phys(g, m)' = Phys(g, m)
  BY <1>1, <1>2, MapsKept
<1>4. last \in LogBlocks /\ first <= last /\ first \in Nat /\ last \in Nat
  BY GeometryAssumption, Geometry DEF LogBlocks
<1> HIDE DEF last
<1>5. job' \in [file : Files \cup {NoFile}, first : Nat, next : Nat, last : Nat] /\ JobOK'
  BY <1>1, <1>4 DEF JobOK
<1>6. TypeOK'
  BY <1>1, <1>5 DEF IInv, TypeOK
<1>7. ASSUME ~failed PROVE Covered'
  <2>1. Covered
    BY <1>7 DEF IInv
  <2>2. \A g \in Files : g # job.file
    BY <1>1, GeometryAssumption
  <2>3. \A g \in Files : \A m \in LogBlocks : Phys(g, m) # NoBlock => m < i_size[g]
    BY <2>1, <2>2 DEF Covered
  <2> QED BY <1>1, <1>3, <2>3 DEF Covered
<1> QED BY <1>1, <1>3, <1>5, <1>6, <1>7 DEF IInv, Live

\* Its end, where i_size grows.
LEMMA EndWriteStep ==
  ASSUME IInv, EndWrite
  PROVE  IInv'
<1>1. PICK f, l : f = job.file /\ l = job.next
  OBVIOUS
<1>2. /\ bad = "no" /\ f # NoFile
      /\ i_size' = [i_size EXCEPT ![f] = Grown(f, l)] /\ job' = NoJob
      /\ UNCHANGED <<freemap, used_block_count, index, i_block_nr, i_indirect,
                     i_dindirect, block_count, data, failed, bad>>
  BY <1>1 DEF EndWrite, disk
<1>3. MapInv' /\ \A g \in Files : \A m \in LogBlocks : Phys(g, m)' = Phys(g, m)
  BY <1>2, LiveFacts, MapsKept
<1>4. job \in [file : Files \cup {NoFile}, first : Nat, next : Nat, last : Nat]
      /\ i_size \in [Files -> 0..ND + NI + NI * NI]
  BY DEF IInv, TypeOK
<1>5. /\ f \in Files /\ l \in Nat /\ job.last \in LogBlocks /\ l <= job.last + 1
      /\ job.first \in Nat
  BY <1>1, <1>2, <1>4 DEF IInv, JobOK, NoJob
<1>6. l \in 0..ND + NI + NI * NI
  BY <1>5, Geometry DEF LogBlocks
<1>7. /\ Grown(f, l) \in 0..ND + NI + NI * NI /\ l <= Grown(f, l) /\ i_size[f] <= Grown(f, l)
  BY <1>4, <1>5, <1>6, Geometry DEF Grown
<1>8. i_size' \in [Files -> 0..ND + NI + NI * NI] /\ i_size'[f] = Grown(f, l)
      /\ \A g \in Files : g # f => i_size'[g] = i_size[g]
  BY <1>2, <1>4, <1>5, <1>7
<1>9. TypeOK' /\ JobOK'
  <2>1. NoJob \in [file : Files \cup {NoFile}, first : Nat, next : Nat, last : Nat]
    BY DEF NoJob
  <2> QED BY <1>2, <1>8, <2>1 DEF IInv, TypeOK, JobOK, NoJob
<1>10. ASSUME ~failed PROVE Covered'
  <2>1. Covered
    BY <1>10 DEF IInv
  <2> SUFFICES ASSUME NEW g \in Files, NEW m \in LogBlocks, Phys(g, m)' # NoBlock
               PROVE  m < i_size'[g]
    BY DEF Covered
  <2>2. m < i_size[g] \/ (g = f /\ m \in job.first..l-1)
    BY <1>1, <1>3, <2>1 DEF Covered
  <2>3. m \in Int /\ i_size[g] \in Int /\ i_size[g] <= i_size'[g] /\ i_size'[g] \in Int
    BY <1>4, <1>7, <1>8, Geometry DEF LogBlocks
  <2>4. CASE m < i_size[g]
    BY <2>3, <2>4
  <2>5. CASE g = f /\ m \in job.first..l-1
    BY <1>5, <1>7, <1>8, <2>3, <2>5
  <2> QED BY <2>2, <2>4, <2>5
<1> QED BY <1>2, <1>3, <1>9, <1>10 DEF IInv, Live

-----------------------------------------------------------------------------
(* The removal of a file.                                                  *)

\* No more second level index blocks come before entry i than there are entries.
LEMMA ExistingBound ==
  ASSUME NEW f, NEW i \in Entries
  PROVE  Existing(f, i) \in Nat /\ Existing(f, i) <= i /\ Existing(f, i) * NI <= NI * i
<1> DEFINE S == {e \in Entries : e < i /\ index[i_dindirect[f]][e] # NoBlock}
<1>1. i \in Nat /\ IsFiniteSet(0..i-1) /\ Cardinality(0..i-1) = i
  <2>1. i \in Nat
    BY DEF Entries
  <2>2. IsFiniteSet(0..i-1) /\ Cardinality(0..i-1) = IF 0 > i-1 THEN 0 ELSE i-1 - 0 + 1
    BY <2>1, FS_Interval
  <2> QED BY <2>1, <2>2
<1>2. S \subseteq 0..i-1
  BY <1>1, Geometry DEF Entries
<1>3. IsFiniteSet(S) /\ Cardinality(S) <= Cardinality(0..i-1) /\ Cardinality(S) \in Nat
  BY <1>1, <1>2, FS_Subset, FS_CardinalityType
<1>4. Existing(f, i) = Cardinality(S)
  BY DEF Existing
<1> HIDE DEF S
<1>5. Existing(f, i) \in Nat /\ Existing(f, i) <= i
  BY <1>1, <1>3, <1>4
<1> QED BY <1>1, <1>5, Geometry

\* testfs_free_blocks frees blocks of the file only, in both versions.
LEMMA FreedAreOwned ==
  ASSUME MapTypes, NEW f \in Files, i_size[f] \in Nat
  PROVE  Freed(f) \subseteq FreedTop(f) /\ FreedTop(f) \subseteq Owned(Own[f])
<1>1. \A p \in Places : Own[f][p] # NoBlock => Own[f][p] \in Owned(Own[f])
  BY DEF Owned, Held
<1>2. ASSUME NEW c \in FreedDirect(f), c # NoBlock PROVE c \in Owned(Own[f])
  <2>1. PICK d \in Direct : c = i_block_nr[f][d]
    BY DEF FreedDirect
  <2>2. d \in LogBlocks /\ d < ND
    BY Geometry DEF Direct, LogBlocks
  <2>3. Own[f][DataAt(d)] = c /\ DataAt(d) \in Places
    BY <2>1, <2>2, OwnValues, PlaceKinds DEF Phys
  <2> QED BY <1>1, <1>2, <2>3
<1>3. ASSUME NEW c \in FreedIndirect(f), c # NoBlock PROVE c \in Owned(Own[f])
  <2>1. i_indirect[f] # NoBlock
    BY DEF FreedIndirect
  <2>2. CASE c = i_indirect[f]
    <3>1. Own[f][IndirectAt] = c /\ IndirectAt \in Places
      BY <2>2, OwnValues, PlaceKinds
    <3> QED BY <1>1, <1>3, <3>1
  <2>3. CASE c # i_indirect[f]
    <3>1. PICK e \in Entries : c = index[i_indirect[f]][e]
      BY <2>1, <2>3 DEF FreedIndirect
    <3>2. PICK l \in LogBlocks : l = ND + e /\ l >= ND /\ l < ND + NI /\ l - ND = e /\ ~(l < ND)
      BY Geometry DEF Entries, LogBlocks
    <3>3. Own[f][DataAt(l)] = c /\ DataAt(l) \in Places
      BY <2>1, <3>1, <3>2, OwnValues, PlaceKinds DEF Phys, Within
    <3> QED BY <1>1, <1>3, <3>3
  <2> QED BY <2>2, <2>3
<1>4. i_dindirect[f] \in Blocks \cup {NoBlock}
      /\ index \in [Blocks -> [Entries -> Blocks \cup {NoBlock}]]
  BY DEF MapTypes
<1>5. Visited(f) \subseteq Entries /\ \A i \in Visited(f) : index[i_dindirect[f]][i] # NoBlock
  BY DEF Visited
<1>6. ASSUME i_dindirect[f] # NoBlock, NEW i \in Visited(f), NEW e \in Entries,
             index[index[i_dindirect[f]][i]][e] # NoBlock
      PROVE  index[index[i_dindirect[f]][i]][e] \in Owned(Own[f])
  <2>1. PICK l \in LogBlocks : l >= ND + NI /\ Level2(l) = i /\ Slot(l) = e
                               /\ ~(l < ND) /\ ~(l < ND + NI)
    <3>1. PICK l : l = ND + NI + NI * i + e
      OBVIOUS
    <3>2. l \in LogBlocks /\ l >= ND + NI /\ Level2(l) = i /\ Slot(l) = e
      BY <1>5, <3>1, LeafOf
    <3>3. ~(l < ND) /\ ~(l < ND + NI)
      BY <3>2, Geometry DEF LogBlocks
    <3> QED BY <3>2, <3>3
  <2>2. Second(f, l) = index[i_dindirect[f]][i]
    BY <1>6, <2>1 DEF Second, Within
  <2>3. Phys(f, l) = index[index[i_dindirect[f]][i]][e]
    BY <1>5, <2>1, <2>2 DEF Phys, Within
  <2>4. Own[f][DataAt(l)] = Phys(f, l) /\ DataAt(l) \in Places
    BY OwnValues, PlaceKinds
  <2> QED BY <1>1, <1>6, <2>3, <2>4
<1>7. ASSUME i_dindirect[f] # NoBlock, NEW i \in Visited(f)
      PROVE  index[i_dindirect[f]][i] \in Owned(Own[f])
  <2>1. Own[f][SecondAt(i)] = index[i_dindirect[f]][i] /\ SecondAt(i) \in Places
    BY <1>5, <1>7, OwnValues, PlaceKinds DEF Within
  <2> QED BY <1>1, <1>5, <2>1
<1>8. i_dindirect[f] # NoBlock => i_dindirect[f] \in Owned(Own[f])
  <2>1. Own[f][DindirectAt] = i_dindirect[f] /\ DindirectAt \in Places
    BY OwnValues, PlaceKinds
  <2> QED BY <1>1, <2>1
<1>9. ASSUME NEW c \in FreedTop(f) PROVE c \in Owned(Own[f])
  <2>1. c # NoBlock
    BY DEF FreedTop
  <2>2. CASE c \in FreedDirect(f) \/ c \in FreedIndirect(f)
    BY <1>2, <1>3, <2>1, <2>2
  <2>3. CASE c \notin FreedDirect(f) /\ c \notin FreedIndirect(f)
    <3>1. /\ i_dindirect[f] # NoBlock
          /\ \/ c = i_dindirect[f]
             \/ \E i \in Visited(f) :
                   \/ c = index[i_dindirect[f]][i]
                   \/ \E e \in Entries : c = index[index[i_dindirect[f]][i]][e]
      BY <2>3 DEF FreedTop
    <3> QED BY <1>6, <1>7, <1>8, <2>1, <3>1
  <2> QED BY <2>2, <2>3
<1>10. ASSUME NEW c \in Freed(f) PROVE c \in FreedTop(f)
  <2>1. c # NoBlock
    BY DEF Freed
  <2>2. CASE c \in FreedDirect(f) \/ c \in FreedIndirect(f)
    BY <2>1, <2>2 DEF FreedTop
  <2>3. CASE c \in FreedDouble(f)
    <3>1. /\ ~(i_dindirect[f] = NoBlock \/ LastBlock(f) <= ND + NI)
          /\ \/ c = i_dindirect[f]
             \/ \E i \in Visited(f) :
                   \/ c = index[i_dindirect[f]][i]
                   \/ \E e \in Entries : c = index[index[i_dindirect[f]][i]][e]
      BY <2>3 DEF FreedDouble
    <3> QED BY <2>1, <3>1 DEF FreedTop
  <2> QED BY <2>2, <2>3 DEF Freed
<1> QED BY <1>9, <1>10

\* With no block beyond the size of the file it frees all of them, and its
\* assertions hold.
LEMMA FreedIsAll ==
  ASSUME MapTypes, MapInv, NEW f \in Files, i_size[f] \in Nat,
         \A l \in LogBlocks : Phys(f, l) # NoBlock => l < i_size[f]
  PROVE  /\ Freed(f) = Owned(Own[f]) /\ FreedTop(f) = Owned(Own[f]) /\ Consistent(f)
<1>1. LastBlock(f) = i_size[f] /\ LastBlock(f) \in Int
  BY DEF LastBlock
<1>2. i_indirect[f] # NoBlock => LastBlock(f) > ND
  <2> HAVE i_indirect[f] # NoBlock
  <2>1. PICK l \in LogBlocks : l >= ND /\ Phys(f, l) # NoBlock
    BY DEF MapInv, NoEmptyIndex
  <2>2. l < LastBlock(f)
    BY <1>1, <2>1
  <2> QED BY <1>1, <2>1, <2>2, Geometry DEF LogBlocks
<1>3. ASSUME NEW l \in LogBlocks, l >= ND + NI, Phys(f, l) # NoBlock
      PROVE  /\ i_dindirect[f] # NoBlock /\ ~(LastBlock(f) <= ND + NI)
             /\ Level2(l) \in Visited(f) /\ Slot(l) \in Entries
             /\ Existing(f, Level2(l)) * NI + Slot(l) < LastBlock(f) - ND - NI
             /\ Phys(f, l) = index[index[i_dindirect[f]][Level2(l)]][Slot(l)]
  <2>1. ~(l < ND) /\ ~(l < ND + NI) /\ l \in Int
    BY <1>3, Geometry DEF LogBlocks
  <2>2. Phys(f, l) = Within(Second(f, l), Slot(l))
    BY <2>1 DEF Phys
  <2>3. i_dindirect[f] # NoBlock /\ Second(f, l) # NoBlock
        /\ Second(f, l) = index[i_dindirect[f]][Level2(l)]
    BY <1>3, <2>2 DEF Second, Within
  <2>4. l < LastBlock(f)
    BY <1>1, <1>3
  <2>5. /\ Level2(l) \in Entries /\ Slot(l) \in Entries
        /\ l = ND + NI + NI * Level2(l) + Slot(l)
    BY <1>3, LevelSlot
  <2>6. Existing(f, Level2(l)) \in Nat /\ Existing(f, Level2(l)) * NI <= NI * Level2(l)
    BY <2>5, ExistingBound
  <2>7. PICK k, q, r : k = Existing(f, Level2(l)) * NI /\ q = NI * Level2(l) /\ r = Slot(l)
    OBVIOUS
  <2>8. k \in Int /\ q \in Int /\ r \in Int /\ r >= 0 /\ k <= q /\ l = ND + NI + q + r
    BY <2>5, <2>6, <2>7, Geometry DEF Entries
  <2>9. k + r < LastBlock(f) - ND - NI /\ k < LastBlock(f) - ND - NI
        /\ ~(LastBlock(f) <= ND + NI)
    BY <1>1, <1>3, <2>1, <2>4, <2>8, Geometry
  <2>10. Level2(l) \in Visited(f)
    BY <2>3, <2>5, <2>7, <2>9 DEF Visited
  <2> QED BY <2>2, <2>3, <2>5, <2>7, <2>9, <2>10 DEF Within
<1>4. ASSUME NEW l \in LogBlocks, Phys(f, l) # NoBlock PROVE Phys(f, l) \in Freed(f)
  <2>1. l < LastBlock(f) /\ l \in Int
    BY <1>1, <1>4, Geometry DEF LogBlocks
  <2>2. CASE l < ND
    <3>1. l \in Direct /\ Phys(f, l) = i_block_nr[f][l]
      BY <2>2, Geometry DEF Direct, LogBlocks, Phys
    <3>2. Phys(f, l) \in FreedDirect(f)
      BY <2>1, <3>1 DEF FreedDirect
    <3> QED BY <1>4, <3>2 DEF Freed
  <2>3. CASE l >= ND /\ l < ND + NI
    <3>1. ~(l < ND) /\ l - ND \in Entries /\ l - ND < LastBlock(f) - ND
      BY <1>1, <2>1, <2>3, Geometry DEF Entries
    <3>2. Phys(f, l) = Within(i_indirect[f], l - ND)
      BY <2>3, <3>1 DEF Phys
    <3>3. i_indirect[f] # NoBlock /\ Phys(f, l) = index[i_indirect[f]][l - ND]
      BY <1>4, <3>2 DEF Within
    <3>4. Phys(f, l) \in FreedIndirect(f)
      BY <3>1, <3>3 DEF FreedIndirect
    <3> QED BY <1>4, <3>4 DEF Freed
  <2>4. CASE l >= ND + NI
    <3>1. PICK i, e : i = Level2(l) /\ e = Slot(l)
      OBVIOUS
    <3>2. /\ ~(i_dindirect[f] = NoBlock \/ LastBlock(f) <= ND + NI)
          /\ i \in Visited(f) /\ e \in Entries
          /\ Existing(f, i) * NI + e < LastBlock(f) - ND - NI
          /\ Phys(f, l) = index[index[i_dindirect[f]][i]][e]
      BY <1>3, <1>4, <2>4, <3>1
    <3>3. Phys(f, l) \in FreedDouble(f)
      BY <3>2 DEF FreedDouble
    <3> QED BY <1>4, <3>3 DEF Freed
  <2> QED BY <2>1, <2>2, <2>3, <2>4, Geometry
<1>5. i_indirect[f] # NoBlock => i_indirect[f] \in Freed(f)
  BY DEF Freed, FreedIndirect
<1>6. ASSUME NEW e \in Entries, Within(i_dindirect[f], e) # NoBlock
      PROVE  /\ Within(i_dindirect[f], e) \in Freed(f)
             /\ i_dindirect[f] \in Freed(f)
  <2>1. PICK l \in LogBlocks : l >= ND + NI /\ Level2(l) = e /\ Phys(f, l) # NoBlock
    BY <1>6 DEF MapInv, NoEmptyIndex
  <2>2. ~(i_dindirect[f] = NoBlock \/ LastBlock(f) <= ND + NI) /\ e \in Visited(f)
    BY <1>3, <2>1
  <2>3. Within(i_dindirect[f], e) = index[i_dindirect[f]][e]
    BY <2>2 DEF Within
  <2>4. index[i_dindirect[f]][e] \in FreedDouble(f) /\ i_dindirect[f] \in FreedDouble(f)
    BY <2>2 DEF FreedDouble
  <2> QED BY <1>6, <2>2, <2>3, <2>4 DEF Freed
<1>7. i_dindirect[f] # NoBlock => i_dindirect[f] \in Freed(f)
  BY <1>6 DEF MapInv, NoEmptyIndex
<1>8. ASSUME NEW p \in Places, Own[f][p] # NoBlock PROVE Own[f][p] \in Freed(f)
  <2>1. CASE \E l \in LogBlocks : p = DataAt(l)
    BY <1>4, <1>8, <2>1, OwnValues
  <2>2. CASE p = IndirectAt
    BY <1>5, <1>8, <2>2, OwnValues
  <2>3. CASE p = DindirectAt
    BY <1>7, <1>8, <2>3, OwnValues
  <2>4. CASE \E e \in Entries : p = SecondAt(e)
    BY <1>6, <1>8, <2>4, OwnValues
  <2> QED BY <2>1, <2>2, <2>3, <2>4, PlaceKinds
<1>9. Owned(Own[f]) \subseteq Freed(f)
  BY <1>8 DEF Owned, Held
<1>10. Freed(f) = Owned(Own[f]) /\ FreedTop(f) = Owned(Own[f])
  BY <1>9, FreedAreOwned
<1>11. block_count[f] = Cardinality(Freed(f))
  <2>1. Ledger(Own, freemap, block_count, used_block_count)
    BY DEF MapInv
  <2>2. /\ Own[f] \in [Places -> Blocks \cup {NoBlock}]
        /\ \A p, q \in Places : Own[f][p] = Own[f][q] /\ Own[f][p] # NoBlock => p = q
        /\ block_count[f] = Cardinality(Held(Own[f]))
    BY <2>1 DEF Ledger
  <2>3. Cardinality(Owned(Own[f])) = Cardinality(Held(Own[f]))
    BY <2>2, OwnedCount
  <2> QED BY <1>10, <2>2, <2>3
<1> QED BY <1>2, <1>10, <1>11 DEF Consistent

\* testfs_remove_inode: the file ends with no block, and what it had is free.
LEMMA RemoveInodeStep ==
  ASSUME IInv, NEW f \in Files, RemoveInode(f)
  PROVE  IInv'
<1>1. job.file = NoFile /\ bad = "no" /\ block_count[f] = Cardinality(Freed(f))
  BY DEF RemoveInode, Idle, Consistent
<1>2. /\ MapTypes /\ MapInv
      /\ data \in [Blocks -> {<<>>} \cup (Files \X LogBlocks)]
      /\ Ledger(Own, freemap, block_count, used_block_count)
      /\ i_size \in [Files -> 0..ND + NI + NI * NI]
  BY <1>1, LiveFacts DEF IInv, TypeOK
<1> DEFINE O == Owned(Own[f])
<1>3. Freed(f) = O
  <2>1. /\ Own[f] \in [Places -> Blocks \cup {NoBlock}]
        /\ \A p, q \in Places : Own[f][p] = Own[f][q] /\ Own[f][p] # NoBlock => p = q
        /\ block_count[f] = Cardinality(Held(Own[f]))
    BY <1>2 DEF Ledger
  <2>2. IsFiniteSet(O) /\ Cardinality(O) = Cardinality(Held(Own[f]))
    BY <2>1, OwnedCount
  <2>3. i_size[f] \in Nat
    BY <1>2
  <2>4. Freed(f) \subseteq O
    BY <1>2, <2>3, FreedAreOwned
  <2>5. Cardinality(Freed(f)) = Cardinality(O)
    BY <1>1, <2>1, <2>2
  <2> HIDE DEF O
  <2> QED BY <2>2, <2>4, <2>5, FS_Subset
<1>4. /\ freemap' = freemap \ O /\ used_block_count' = used_block_count - Cardinality(O)
      /\ index' = [b \in Blocks |-> IF b \in O THEN Zeroed ELSE index[b]]
      /\ data' = [b \in Blocks |-> IF b \in O THEN <<>> ELSE data[b]]
      /\ i_block_nr' = [i_block_nr EXCEPT ![f] = [d \in Direct |-> NoBlock]]
      /\ i_indirect' = [i_indirect EXCEPT ![f] = NoBlock]
      /\ i_dindirect' = [i_dindirect EXCEPT ![f] = NoBlock]
      /\ block_count' = [block_count EXCEPT ![f] = 0]
      /\ i_size' = [i_size EXCEPT ![f] = 0]
      /\ job' = job /\ failed' = failed /\ bad' = bad
  BY <1>3 DEF RemoveInode
<1>5. MapTypes'
  BY <1>2, <1>4 DEF MapTypes, Zeroed
<1>6. O = {Own[f][p] : p \in {p \in Places : Own[f][p] # NoBlock}}
  BY DEF Owned, Held
<1> HIDE DEF O
<1>7. ASSUME NEW g \in Files, g # f
      PROVE  /\ \A p \in Places : Own[g][p] \notin O
             /\ \A p \in Places : Own'[g][p] = Own[g][p]
  <2>1. ASSUME NEW p \in Places PROVE Own[g][p] \notin O
    <3> SUFFICES ASSUME Own[g][p] \in O PROVE FALSE
      OBVIOUS
    <3>1. PICK q \in Places : Own[f][q] # NoBlock /\ Own[g][p] = Own[f][q]
      BY <1>6
    <3> QED BY <1>2, <1>7, <3>1, Apart
  <2>2. /\ i_block_nr'[g] = i_block_nr[g] /\ i_indirect'[g] = i_indirect[g]
        /\ i_dindirect'[g] = i_dindirect[g]
    BY <1>2, <1>4, <1>7 DEF MapTypes
  <2>3. \A c \in Blocks : (\E p \in Places : Own[g][p] = c) => index'[c] = index[c]
    BY <1>4, <2>1
  <2> QED BY <1>2, <2>1, <2>2, <2>3, OthersKeepMaps
<1>8. \A p \in Places : Own'[f][p] = NoBlock
  <2>1. PICK blk, idx2 : blk = [d \in Direct |-> NoBlock] /\ idx2 = index'
    OBVIOUS
  <2>2. i_block_nr'[f] = blk /\ i_indirect'[f] = NoBlock /\ i_dindirect'[f] = NoBlock
    BY <1>2, <1>4, <2>1 DEF MapTypes
  <2>3. Own'[f] = MapOf(blk, NoBlock, NoBlock, idx2)
    BY <2>1, <2>2, OwnIsMap
  <2>4. \A l \in LogBlocks : l < ND => blk[l] = NoBlock
    BY <2>1, Geometry DEF Direct, LogBlocks
  <2>5. \A e : Ref(idx2, NoBlock, e) = NoBlock
    BY DEF Ref
  <2>6. ASSUME NEW l \in LogBlocks PROVE Own'[f][DataAt(l)] = NoBlock
    <3>1. CASE l < ND
      BY <2>3, <2>4, <3>1, MapOfValues
    <3>2. CASE l >= ND /\ l < ND + NI
      BY <2>3, <2>5, <3>2, MapOfValues
    <3>3. CASE l >= ND + NI
      <4>1. Own'[f][DataAt(l)] = Ref(idx2, Ref(idx2, NoBlock, Level2(l)), Slot(l))
        BY <2>3, <3>3, MapOfValues
      <4> QED BY <2>5, <4>1
    <3> QED BY <3>1, <3>2, <3>3, Geometry DEF LogBlocks
  <2>7. Own'[f][IndirectAt] = NoBlock /\ Own'[f][DindirectAt] = NoBlock
    BY <2>3, MapOfValues
  <2>8. ASSUME NEW e \in Entries PROVE Own'[f][SecondAt(e)] = NoBlock
    BY <2>3, <2>5, MapOfValues
  <2> QED BY <2>6, <2>7, <2>8, PlaceKinds
<1>9. Ledger(Own', freemap', block_count', used_block_count')
  <2>1. Own' \in [Files -> [Places -> Blocks \cup {NoBlock}]]
    <3>1. (MapTypes => Own \in [Files -> [Places -> Blocks \cup {NoBlock}]])'
      BY MapValues, PTL
    <3> QED BY <1>5, <3>1
  <2>2. \A g \in Files \ {f} : \A p \in Places : Own'[g][p] = Own[g][p]
    BY <1>7
  <2>3. Ledger(Own', freemap \ Owned(Own[f]), [block_count EXCEPT ![f] = 0],
               used_block_count - Cardinality(Owned(Own[f])))
    BY <1>2, <1>8, <2>1, <2>2, LedgerClears
  <2> QED BY <1>4, <2>3 DEF O
<1>10. FreeIsZeroed'
  BY <1>2, <1>4 DEF MapInv, FreeIsZeroed, Zeroed
<1>11. /\ \A m \in LogBlocks : Phys(f, m)' = NoBlock
       /\ \A e \in Entries : Within(i_dindirect[f], e)' = NoBlock
       /\ i_indirect'[f] = NoBlock /\ i_dindirect'[f] = NoBlock
  BY <1>8, OwnValuesNext, PlaceKinds
<1>12. ASSUME NEW g \in Files, g # f
       PROVE  /\ \A m \in LogBlocks : Phys(g, m)' = Phys(g, m) /\ Phys(g, m) \notin O
              /\ \A e \in Entries : Within(i_dindirect[g], e)' = Within(i_dindirect[g], e)
              /\ i_indirect'[g] = i_indirect[g] /\ i_dindirect'[g] = i_dindirect[g]
  BY <1>7, <1>12, OwnValues, OwnValuesNext, PlaceKinds
<1>13. RightData'
  <2> SUFFICES ASSUME NEW g \in Files, NEW m \in LogBlocks, Phys(g, m)' # NoBlock
               PROVE  data'[Phys(g, m)'] = <<g, m>>
    BY DEF RightData
  <2>1. g # f
    BY <1>11
  <2>2. Phys(g, m)' = Phys(g, m) /\ Phys(g, m) \notin O /\ Phys(g, m) # NoBlock
    BY <1>12, <2>1
  <2>3. data[Phys(g, m)] = <<g, m>>
    BY <1>2, <2>2 DEF MapInv, RightData
  <2>4. Phys(g, m) \in Blocks
    BY <1>2, <2>2, MapValues
  <2> QED BY <1>4, <2>2, <2>3, <2>4
<1>14. NoEmptyIndex'
  <2> SUFFICES ASSUME NEW g \in Files
               PROVE  /\ i_indirect'[g] # NoBlock =>
                            \E m \in LogBlocks : m >= ND /\ m < ND + NI
                                                 /\ Phys(g, m)' # NoBlock
                      /\ i_dindirect'[g] # NoBlock =>
                            \E e \in Entries : Within(i_dindirect[g], e)' # NoBlock
                      /\ \A e \in Entries : Within(i_dindirect[g], e)' # NoBlock =>
                            \E m \in LogBlocks :
                                m >= ND + NI /\ Level2(m) = e /\ Phys(g, m)' # NoBlock
    BY DEF NoEmptyIndex, Level2
  <2>1. CASE g = f
    BY <1>11, <2>1
  <2>2. CASE g # f
    BY <1>2, <1>12, <2>2 DEF MapInv, NoEmptyIndex
  <2> QED BY <2>1, <2>2
<1>15. MapInv'
  BY <1>9, <1>10, <1>13, <1>14 DEF MapInv
<1>16. TypeOK'
  <2>1. /\ freemap' \subseteq Blocks /\ used_block_count' \in 0..MaxFsBlocks
        /\ block_count' \in [Files -> 0..MaxFsBlocks]
    BY <1>9, LedgerBounds
  <2>2. data' \in [Blocks -> {<<>>} \cup (Files \X LogBlocks)]
    BY <1>2, <1>4
  <2>3. i_size' \in [Files -> 0..ND + NI + NI * NI]
    BY <1>2, <1>4, Geometry
  <2> QED BY <1>4, <1>5, <2>1, <2>2, <2>3 DEF IInv, TypeOK, MapTypes
<1>17. JobOK'
  BY <1>4 DEF IInv, JobOK, NoJob
<1>18. ASSUME ~failed PROVE Covered'
  <2>1. Covered
    BY <1>18 DEF IInv
  <2> SUFFICES ASSUME NEW g \in Files, NEW m \in LogBlocks, Phys(g, m)' # NoBlock
               PROVE  m < i_size'[g] \/ (g = job'.file /\ m \in job'.first..job'.next-1)
    BY DEF Covered
  <2>2. g # f
    BY <1>11
  <2>3. Phys(g, m) # NoBlock /\ i_size'[g] = i_size[g]
    BY <1>2, <1>4, <1>12, <2>2
  <2> QED BY <1>4, <2>1, <2>3 DEF Covered
<1> QED BY <1>1, <1>4, <1>15, <1>16, <1>17, <1>18 DEF IInv, Live

\* While no write has failed, the assertions of testfs_remove_inode hold.
LEMMA RemoveAbortsStep ==
  ASSUME IInv, NEW f \in Files, RemoveAborts(f)
  PROVE  IInv'
<1>1. /\ job.file = NoFile /\ bad = "no" /\ ~Consistent(f) /\ bad' = "assert"
      /\ UNCHANGED <<disk, dinode, job, failed>>
  BY DEF RemoveAborts, Idle
<1>2. failed
  <2> SUFFICES ASSUME ~failed PROVE FALSE
    OBVIOUS
  <2>1. MapTypes /\ MapInv /\ Covered
    BY <1>1, LiveFacts DEF IInv
  <2>2. f # job.file
    BY <1>1, GeometryAssumption
  <2>3. \A l \in LogBlocks : Phys(f, l) # NoBlock => l < i_size[f]
    BY <2>1, <2>2 DEF Covered
  <2>4. i_size[f] \in Nat
    BY DEF IInv, TypeOK
  <2>5. Consistent(f)
    BY <2>1, <2>3, <2>4, FreedIsAll
  <2> QED BY <1>1, <2>5
<1>3. TypeOK' /\ JobOK'
  BY <1>1 DEF IInv, TypeOK, JobOK, NoJob, disk, dinode
<1> QED BY <1>1, <1>2, <1>3 DEF IInv, Live

-----------------------------------------------------------------------------
(* The theorems.                                                           *)

\* An empty file system is sound.
LEMMA InitSound == Init => IInv
<1> SUFFICES ASSUME Init PROVE IInv
  OBVIOUS
<1> USE DEF Init
<1>1. Zeroed \in [Entries -> Blocks \cup {NoBlock}]
  BY DEF Zeroed
<1>2. TypeOK
  <2>1. NoJob \in [file : Files \cup {NoFile}, first : Nat, next : Nat, last : Nat]
    BY DEF NoJob
  <2>2. 0 \in 0..MaxFsBlocks /\ 0 \in 0..ND + NI + NI * NI
    BY Geometry
  <2> QED BY <1>1, <2>1, <2>2 DEF TypeOK
<1>3. MapTypes
  BY <1>2 DEF TypeOK, MapTypes
<1>4. /\ \A f \in Files : \A l \in LogBlocks : Phys(f, l) = NoBlock
      /\ \A f \in Files : \A e \in Entries : Within(i_dindirect[f], e) = NoBlock
  <2>1. ASSUME NEW f \in Files, NEW l \in LogBlocks PROVE Phys(f, l) = NoBlock
    <3>1. i_indirect[f] = NoBlock /\ i_dindirect[f] = NoBlock
      OBVIOUS
    <3>2. l < ND => i_block_nr[f][l] = NoBlock
      BY Geometry DEF LogBlocks, Direct
    <3>3. Second(f, l) = NoBlock
      BY <3>1 DEF Second, Within
    <3> QED BY <3>1, <3>2, <3>3 DEF Phys, Within
  <2>2. ASSUME NEW f \in Files, NEW e \in Entries
        PROVE  Within(i_dindirect[f], e) = NoBlock
    BY DEF Within
  <2> QED BY <2>1, <2>2
<1>5. ASSUME NEW f \in Files PROVE \A p \in Places : Own[f][p] = NoBlock
  <2>1. i_indirect[f] = NoBlock /\ i_dindirect[f] = NoBlock
    OBVIOUS
  <2> QED BY <1>4, <2>1, OwnValues, PlaceKinds
<1>6. Ledger(Own, freemap, block_count, used_block_count)
  <2>1. Own \in [Files -> [Places -> Blocks \cup {NoBlock}]]
    BY <1>3, MapValues
  <2>2. ASSUME NEW f \in Files PROVE block_count[f] = Cardinality(Held(Own[f]))
    <3>1. Held(Own[f]) = {}
      BY <1>5 DEF Held
    <3> QED BY <3>1, FS_EmptySet
  <2>3. freemap = {} /\ used_block_count = Cardinality(freemap)
        /\ block_count \in [Files -> Nat]
    BY FS_EmptySet
  <2>4. NoBlock \notin Blocks
    BY DEF NoBlock, Blocks
  <2> QED BY <1>5, <2>1, <2>2, <2>3, <2>4 DEF Ledger
<1>7. FreeIsZeroed
  BY DEF FreeIsZeroed
<1>8. NoEmptyIndex
  BY <1>4 DEF NoEmptyIndex
<1>9. RightData /\ Covered
  BY <1>4 DEF RightData, Covered
<1> QED BY <1>2, <1>6, <1>7, <1>8, <1>9 DEF IInv, JobOK, Live, MapInv

\* Nothing happens.
LEMMA StutterStep ==
  ASSUME IInv, UNCHANGED vars
  PROVE  IInv'
<1>1. UNCHANGED <<freemap, used_block_count, index, i_block_nr, i_indirect, i_dindirect,
                  block_count, data, i_size, job, failed, bad>>
  BY DEF vars, disk, dinode
<1>2. TypeOK' /\ JobOK'
  BY <1>1 DEF IInv, TypeOK, JobOK, NoJob
<1>3. CASE Live
  <2>1. MapInv' /\ \A g \in Files : \A m \in LogBlocks : Phys(g, m)' = Phys(g, m)
    BY <1>1, <1>3, MapsKept DEF IInv
  <2>2. ~failed => Covered'
    BY <1>1, <2>1 DEF IInv, Covered
  <2> QED BY <1>1, <1>2, <1>3, <2>1, <2>2 DEF IInv, Live
<1>4. CASE ~Live
  BY <1>1, <1>2, <1>4 DEF IInv, Live
<1> QED BY <1>3, <1>4

\* Every step of a write, whether it finds, allocates or fails to allocate its
\* block, and every removal of a file preserves the inductive invariant.
THEOREM BlocksInvariance == Spec => []IInv
<1>1. IInv /\ [Next]_vars => IInv'
  <2> SUFFICES ASSUME IInv, [Next]_vars PROVE IInv'
    OBVIOUS
  <2>1. ASSUME NEW f \in Files, NEW first \in LogBlocks, NEW n \in 1..MaxWrite,
               BeginWrite(f, first, first + n - 1)
        PROVE  IInv'
    BY <2>1, BeginWriteStep
  <2>2. CASE WriteBlock
    BY <2>2, WriteBlockStep
  <2>3. CASE EndWrite
    BY <2>3, EndWriteStep
  <2>4. ASSUME NEW f \in Files, RemoveInode(f) PROVE IInv'
    BY <2>4, RemoveInodeStep
  <2>5. ASSUME NEW f \in Files, RemoveAborts(f) PROVE IInv'
    BY <2>5, RemoveAbortsStep
  <2>6. CASE Stopped \/ UNCHANGED vars
    BY <2>6, StutterStep DEF Stopped
  <2> QED BY <2>1, <2>2, <2>3, <2>4, <2>5, <2>6 DEF Next
<1> QED BY <1>1, InitSound, PTL DEF Spec

\* Every variable of the block maps keeps its type: used_block_count and
\* block_count stay within the disk, and i_size within the largest file.
THEOREM BlocksTypeCorrect == Spec => []TypeOK
<1>1. IInv => TypeOK
  BY DEF IInv
<1> QED BY <1>1, BlocksInvariance, PTL

\* testfs_alloc_block_for_inode and testfs_free_blocks never share and never
\* leak a block: each block marked in the free map is in one place of one file,
\* and the counters say how many there are.
THEOREM OwnershipSafe == Spec => []OwnedOnce
<1>1. IInv => OwnedOnce
  <2> SUFFICES ASSUME IInv, bad = "no" PROVE
          /\ \A b \in Blocks :
               Cardinality({r \in Files \X Places : At(r[1], r[2]) = b}) =
                   IF b \in freemap THEN 1 ELSE 0
          /\ used_block_count = Cardinality(freemap)
          /\ \A f \in Files :
               block_count[f] = Cardinality({p \in Places : At(f, p) # NoBlock})
    BY DEF OwnedOnce
  <2>1. Ledger(Own, freemap, block_count, used_block_count)
    BY LiveFacts
  <2>2. \A f \in Files : \A p \in Places : Own[f][p] = At(f, p)
    BY OwnValues
  <2>3. ASSUME NEW b \in Blocks
        PROVE  Cardinality({r \in Files \X Places : At(r[1], r[2]) = b}) =
                   IF b \in freemap THEN 1 ELSE 0
    <3> DEFINE R == {r \in Files \X Places : At(r[1], r[2]) = b}
    <3>1. CASE b \in freemap
      <4>1. PICK g \in Files, q \in Places : Own[g][q] = b
        BY <2>1, <3>1 DEF Ledger
      <4>2. ASSUME NEW r \in R PROVE r = <<g, q>>
        <5>1. PICK h \in Files, p \in Places : r = <<h, p>> /\ At(h, p) = b
          OBVIOUS
        <5>2. Own[h][p] = Own[g][q] /\ Own[g][q] # NoBlock
          BY <2>2, <4>1, <5>1 DEF Blocks, NoBlock
        <5>3. h = g /\ p = q
          BY <2>1, <5>2, Apart
        <5> QED BY <5>1, <5>3
      <4>3. <<g, q>> \in R
        BY <2>2, <4>1
      <4>4. R = {<<g, q>>}
        BY <4>2, <4>3
      <4> HIDE DEF R
      <4>5. Cardinality(R) = 1
        BY <4>4, FS_Singleton
      <4> QED BY <3>1, <4>5 DEF R
    <3>2. CASE b \notin freemap
      <4>1. ASSUME NEW r \in R PROVE FALSE
        <5>1. PICK h \in Files, p \in Places : r = <<h, p>> /\ At(h, p) = b
          OBVIOUS
        <5> QED BY <2>1, <2>2, <3>2, <5>1 DEF Ledger
      <4>2. R = {}
        BY <4>1
      <4> HIDE DEF R
      <4>3. Cardinality(R) = 0
        BY <4>2, FS_EmptySet
      <4> QED BY <3>2, <4>3 DEF R
    <3> QED BY <3>1, <3>2
  <2>4. used_block_count = Cardinality(freemap)
    BY <2>1 DEF Ledger
  <2>5. ASSUME NEW f \in Files
        PROVE  block_count[f] = Cardinality({p \in Places : At(f, p) # NoBlock})
    <3>1. Held(Own[f]) = {p \in Places : At(f, p) # NoBlock}
      BY <2>2 DEF Held
    <3>2. block_count[f] = Cardinality(Held(Own[f]))
      BY <2>1 DEF Ledger
    <3> QED BY <3>1, <3>2
  <2> QED BY <2>3, <2>4, <2>5
<1> QED BY <1>1, BlocksInvariance, PTL

\* testfs_read_block finds what testfs_write_data last wrote to that logical
\* block of that file, whatever was written, removed or refused in between.
THEOREM ReadBackSafe == Spec => []ReadsBack
<1>1. IInv => ReadsBack
  BY DEF IInv, Live, MapInv, RightData, ReadsBack
<1> QED BY <1>1, BlocksInvariance, PTL

\* As long as no write has run out of space, testfs_remove_inode never aborts,
\* both versions of testfs_free_blocks give back the same blocks, and no file
\* has a block beyond its size.
THEOREM SizeSafe == Spec => []SizeCoversBlocks
<1>1. IInv => SizeCoversBlocks
  <2> SUFFICES ASSUME IInv, ~failed PROVE
          /\ bad # "assert"
          /\ job = NoJob => \A f \in Files : Freed(f) = FreedTop(f)
          /\ \A f \in Files, l \in LogBlocks :
               Phys(f, l) # NoBlock =>
                   l < i_size[f] \/ (f = job.file /\ l \in job.first..job.next-1)
    BY DEF SizeCoversBlocks
  <2>1. Live /\ Covered /\ MapInv /\ MapTypes
    BY DEF IInv, TypeOK, MapTypes
  <2>2. bad # "assert"
    BY <2>1 DEF Live
  <2>3. ASSUME job = NoJob, NEW f \in Files PROVE Freed(f) = FreedTop(f)
    <3>1. f # job.file
      BY <2>3, GeometryAssumption DEF NoJob
    <3>2. \A l \in LogBlocks : Phys(f, l) # NoBlock => l < i_size[f]
      BY <2>1, <3>1 DEF Covered
    <3>3. i_size[f] \in Nat
      BY DEF IInv, TypeOK
    <3> QED BY <2>1, <3>2, <3>3, FreedIsAll
  <2> QED BY <2>1, <2>2, <2>3 DEF Covered
<1> QED BY <1>1, BlocksInvariance, PTL


-----------------------------------------------------------------------------
(* Bytes and blocks.                                                       *)

\* Where logical block q begins.
Begin(q) == q * BS

\* The blocks lie one behind the other.
LEMMA Grid ==
  /\ \A q \in Nat : Begin(q) \in Nat /\ Begin(q + 1) = Begin(q) + BS
  /\ Begin(0) = 0 /\ Begin(NB) = MaxSize
BY DataAssumption DEF Begin, MaxSize

\* The block behind block q.
LEMMA GridNext ==
  ASSUME NEW q \in Nat, NEW t, t = q + 1
  PROVE  t \in Nat /\ Begin(q) \in Nat /\ Begin(t) = Begin(q) + BS
BY Grid

\* So many blocks and so many more.
LEMMA GridSum ==
  ASSUME NEW q \in Nat, NEW r \in Nat
  PROVE  Begin(q + r) = Begin(q) + Begin(r)
BY DataAssumption DEF Begin

\* A block ends before the next begins.
LEMMA GridOrder ==
  ASSUME NEW q \in Nat, NEW r \in Nat, q < r
  PROVE  Begin(q) + BS <= Begin(r)
<1>1. BS \in Nat
  BY DataAssumption
<1>2. PICK d \in Nat : r = (q + 1) + d
  <2>1. r - (q + 1) \in Nat /\ r = (q + 1) + (r - (q + 1))
    OBVIOUS
  <2> QED BY <2>1
<1>3. PICK t \in Nat : t = q + 1
  OBVIOUS
<1>4. Begin(t) = Begin(q) + BS /\ Begin(q) \in Nat /\ Begin(d) \in Nat
  BY <1>2, <1>3, Grid
<1>5. Begin(r) = Begin(t) + Begin(d)
  BY <1>2, <1>3, GridSum
<1> QED BY <1>1, <1>4, <1>5

\* A byte lies in one block.
LEMMA Split ==
  ASSUME NEW p \in Nat
  PROVE  /\ p \div BS \in Nat /\ p % BS \in 0..BS - 1
         /\ p = Begin(p \div BS) + (p % BS)
BY DataAssumption DEF Begin

\* A byte of block q.
LEMMA InBlock ==
  ASSUME NEW p \in Nat, NEW q \in Nat, NEW r \in 0..BS - 1, p = Begin(q) + r
  PROVE  p \div BS = q /\ p % BS = r
<1>1. PICK x : x = p \div BS
  OBVIOUS
<1>6. PICK y : y = p % BS
  OBVIOUS
<1>7. x \in Nat /\ y \in 0..BS - 1 /\ p = Begin(x) + y
  BY <1>1, <1>6, Split
<1>2. BS \in Nat /\ Begin(x) \in Nat /\ Begin(q) \in Nat
  BY DataAssumption, <1>7, Grid
<1>3. ~(x < q)
  BY <1>2, <1>7, GridOrder
<1>4. ~(q < x)
  BY <1>2, <1>7, GridOrder
<1>5. x = q
  BY <1>3, <1>4, <1>7
<1> QED BY <1>1, <1>2, <1>5, <1>6, <1>7

\* The loop over full blocks leaves a last piece that is not empty.
LEMMA LoopLeaves ==
  ASSUME NEW rest \in Nat \ {0}, NEW i, i = FullBlocks(rest)
  PROVE  i \in Nat /\ rest - Begin(i) \in 1..BS
<1>1. BS \in Nat \ {0}
  BY DataAssumption
<1>2. CASE rest > BS
  <2>1. i = (rest - 1) \div BS /\ rest - 1 \in Nat
    BY <1>2 DEF FullBlocks
  <2>2. PICK y : y = (rest - 1) % BS
    OBVIOUS
  <2>3. i \in Nat /\ y \in 0..BS - 1 /\ rest - 1 = Begin(i) + y
    BY <2>1, <2>2, Split
  <2>4. Begin(i) \in Nat
    BY <2>3, Grid
  <2> QED BY <1>1, <2>3, <2>4
<1>3. CASE ~(rest > BS)
  <2>1. i = 0
    BY <1>3 DEF FullBlocks
  <2>2. Begin(0) = 0
    BY Grid
  <2> QED BY <1>1, <1>3, <2>1, <2>2
<1> QED BY <1>2, <1>3

\* A function on 1..i is a sequence.
LEMMA FunctionSeq ==
  ASSUME NEW S, NEW i \in Nat, NEW f \in [1..i -> S]
  PROVE  f \in Seq(S) /\ Len(f) = i
<1>1. f \in Seq(S)
  BY SeqDef
<1>2. DOMAIN f = 1..i /\ DOMAIN f = 1..Len(f) /\ Len(f) \in Nat
  BY <1>1, LenProperties
<1>3. \A m \in Nat : m \in 1..i <=> m \in 1..Len(f)
  BY <1>2
<1>4. PICK m \in Nat : m = Len(f)
  BY <1>2
<1>5. ~(m < i)
  <2>1. m < i => m + 1 \in 1..i /\ m + 1 \in Nat
    OBVIOUS
  <2> QED BY <1>3, <1>4, <2>1
<1>6. ~(i < m)
  <2>1. i < m => i + 1 \in 1..m /\ i + 1 \in Nat
    OBVIOUS
  <2> QED BY <1>3, <1>4, <2>1
<1> QED BY <1>1, <1>4, <1>5, <1>6

\* A first piece, a loop, and what follows it.
Parts(s, S, a, i, f, z) ==
    a \in S /\ i \in Nat /\ f \in [1..i -> S] /\ z \in Seq(S) /\ s = <<a>> \o f \o z

\* The elements of a sequence of three parts.
LEMMA ThreeParts ==
  ASSUME NEW S, NEW a, NEW i, NEW f, NEW z, NEW s, Parts(s, S, a, i, f, z)
  PROVE  /\ s \in Seq(S) /\ Len(s) = 1 + i + Len(z) /\ s[1] = a
         /\ \A k \in 2..i + 1 : s[k] = f[k - 1]
         /\ \A k \in 1..Len(z) : s[1 + i + k] = z[k]
<1> USE DEF Parts
<1>1. f \in Seq(S) /\ Len(f) = i
  BY FunctionSeq
<1>2. <<a>> \in Seq(S) /\ Len(<<a>>) = 1 /\ <<a>>[1] = a
  OBVIOUS
<1>3. PICK g : g = <<a>> \o f
  OBVIOUS
<1>4. /\ g \in Seq(S) /\ Len(g) = 1 + i /\ g[1] = a
      /\ \A k \in 1..1 + i : k > 1 => g[k] = f[k - 1]
  BY <1>1, <1>2, <1>3, ConcatProperties
<1>5. Len(z) \in Nat
  OBVIOUS
<1>6. /\ s \in Seq(S) /\ Len(s) = 1 + i + Len(z)
      /\ \A k \in 1..1 + i + Len(z) : s[k] = IF k <= 1 + i THEN g[k] ELSE z[k - (1 + i)]
  <2>1. z \in Seq(S) /\ s = g \o z
    BY <1>3
  <2>2. s \in Seq(S) /\ Len(s) = Len(g) + Len(z)
    BY <1>4, <2>1, ConcatProperties
  <2>3. \A k \in 1..Len(g) + Len(z) : s[k] = IF k <= Len(g) THEN g[k] ELSE z[k - Len(g)]
    BY <1>4, <2>1, ConcatProperties
  <2> QED BY <1>4, <2>2, <2>3
<1>7. s[1] = a
  BY <1>4, <1>5, <1>6
<1>8. ASSUME NEW k \in 2..i + 1 PROVE s[k] = f[k - 1]
  BY <1>4, <1>5, <1>6
<1>9. ASSUME NEW k \in 1..Len(z) PROVE s[1 + i + k] = z[k]
  <2>1. 1 + i + k \in 1..1 + i + Len(z) /\ ~(1 + i + k <= 1 + i) /\ (1 + i + k) - (1 + i) = k
    BY <1>5
  <2> QED BY <1>6, <2>1
<1> QED BY <1>6, <1>7, <1>8, <1>9

\* The pieces c, one per block, are the bytes from start up to end.
Tiles(c, start, end) ==
    /\ c \in Seq([l : Nat, at : Nat, len : Nat]) /\ Len(c) > 0
    /\ \A k \in 1..Len(c) :
          /\ c[k].l = (start \div BS) + (k - 1)
          /\ c[k].at = IF k = 1 THEN start % BS ELSE 0
          /\ c[k].at + c[k].len <= BS
          /\ k < Len(c) => c[k].at + c[k].len = BS
          /\ k = Len(c) => Begin(c[k].l) + c[k].at + c[k].len = end

\* Where a range ends that is cut into pieces: without its last block if the
\* last piece is left out.
CutEnd(start, size, skips) ==
    IF skips /\ EndsWithBlock(start, size) THEN start + size - BS ELSE start + size

\* How a range is cut into pieces.
LEMMA PiecesTile ==
  ASSUME NEW start \in Nat, NEW size \in Nat, NEW skips \in BOOLEAN,
         NEW c, c = Pieces(start, size, skips)
  PROVE  Tiles(c, start, CutEnd(start, size, skips))
<1> DEFINE P == [l : Nat, at : Nat, len : Nat]
<1>1. BS \in Nat \ {0}
  BY DataAssumption
<1>2. PICK l : l = start \div BS
  OBVIOUS
<1>3. PICK ix : ix = start % BS
  OBVIOUS
<1>4. l \in Nat /\ ix \in 0..BS - 1 /\ start = Begin(l) + ix /\ Begin(l) \in Nat
  BY <1>2, <1>3, Split, Grid
<1>5. CASE ix + size <= BS
  <2>1. PICK a : a = Piece(l, ix, size)
    OBVIOUS
  <2>2. a \in P /\ a.l = l /\ a.at = ix /\ a.len = size
    BY <1>1, <1>4, <2>1 DEF Piece
  <2>3. c = <<a>>
    BY <1>2, <1>3, <1>5, <2>1 DEF Pieces
  <2>4. c \in Seq(P) /\ Len(c) = 1 /\ c[1] = a
    BY <2>2, <2>3
  <2>5. ~EndsWithBlock(start, size)
    BY <1>1, <1>3, <1>4, <1>5 DEF EndsWithBlock
  <2>6. Begin(l) + ix + size = start + size
    BY <1>4
  <2>7. CutEnd(start, size, skips) = start + size
    BY <2>5 DEF CutEnd
  <2>8. \A k \in 1..1 : k = 1
    OBVIOUS
  <2>9. l + (1 - 1) = l
    BY <1>4
  <2> QED BY <1>2, <1>3, <1>5, <2>2, <2>4, <2>6, <2>7, <2>8, <2>9 DEF Tiles
<1>6. CASE ~(ix + size <= BS)
  <2>1. PICK rest : rest = size - (BS - ix)
    OBVIOUS
  <2>2. rest \in Nat \ {0} /\ size = rest + (BS - ix)
    BY <1>1, <1>4, <1>6, <2>1
  <2>3. PICK i : i = FullBlocks(rest)
    OBVIOUS
  <2>4. i \in Nat /\ rest - Begin(i) \in 1..BS /\ Begin(i) \in Nat
    BY <2>2, <2>3, LoopLeaves, Grid
  <2>5. PICK last : last = rest - Begin(i)
    OBVIOUS
  <2>6. last \in 1..BS /\ rest = Begin(i) + last
    BY <1>1, <2>2, <2>4, <2>5
  <2>7. last % BS = 0 <=> last = BS
    <3>1. CASE last = BS
      <4>1. last = Begin(1) + 0 /\ last \in Nat /\ 0 \in 0..BS - 1
        BY <1>1, <3>1, Grid
      <4>2. last % BS = 0
        BY <4>1, InBlock
      <4> QED BY <3>1, <4>2
    <3>2. CASE last # BS
      <4>1. last \in 0..BS - 1 /\ last \in Nat /\ last = Begin(0) + last /\ last # 0
        BY <1>1, <2>6, <3>2, Grid
      <4>2. last % BS = last
        BY <4>1, InBlock
      <4> QED BY <3>2, <4>1, <4>2
    <3> QED BY <3>1, <3>2
  <2>8. /\ Begin(l + i + 1) = Begin(l) + Begin(i) + BS /\ Begin(l + i + 1) \in Nat
        /\ start + size = Begin(l + i + 1) + last
    <3>1. l + i \in Nat /\ Begin(l + i) = Begin(l) + Begin(i) /\ Begin(l + i + 1) = Begin(l + i) + BS
      BY <1>4, <2>4, Grid, GridSum
    <3> QED BY <1>1, <1>4, <2>2, <2>4, <2>6, <3>1
  <2>9. (start + size) % BS = 0 <=> last = BS
    <3>1. start + size \in Nat /\ l + i + 1 \in Nat
      BY <1>4, <2>4
    <3>2. CASE last = BS
      <4>1. PICK q \in Nat : q = l + i + 1
        BY <3>1
      <4>2. Begin(q + 1) = Begin(q) + BS /\ q + 1 \in Nat /\ Begin(q) \in Nat
        BY <4>1, Grid
      <4>3. start + size = Begin(q + 1) + 0 /\ 0 \in 0..BS - 1
        BY <1>1, <2>8, <3>2, <4>1, <4>2
      <4> QED BY <3>1, <3>2, <4>2, <4>3, InBlock
    <3>3. CASE last # BS
      <4>1. last \in 0..BS - 1 /\ last # 0
        BY <1>1, <2>6, <3>3
      <4>2. (start + size) % BS = last
        BY <2>8, <3>1, <4>1, InBlock
      <4> QED BY <3>3, <4>1, <4>2
    <3> QED BY <3>2, <3>3
  <2>10. EndsWithBlock(start, size) <=> last = BS
    BY <1>1, <1>3, <1>4, <1>6, <2>9 DEF EndsWithBlock
  <2>11. PICK a : a = Piece(l, ix, BS - ix)
    OBVIOUS
  <2>12. PICK f : f = [k \in 1..i |-> Piece(l + k, 0, BS)]
    OBVIOUS
  <2>13. PICK z : z = IF skips /\ last % BS = 0 THEN <<>> ELSE <<Piece(l + i + 1, 0, last)>>
    OBVIOUS
  <2>14. c = <<a>> \o f \o z
    BY <1>2, <1>3, <1>6, <2>1, <2>3, <2>5, <2>11, <2>12, <2>13 DEF Pieces, Begin
  <2>15. a \in P /\ a.l = l /\ a.at = ix /\ a.len = BS - ix
    BY <1>1, <1>4, <2>11 DEF Piece
  <2>16. /\ f \in [1..i -> P]
         /\ \A k \in 1..i : f[k].l = l + k /\ f[k].at = 0 /\ f[k].len = BS
    BY <1>1, <1>4, <2>4, <2>12 DEF Piece
  <2>17. PICK y : y = Piece(l + i + 1, 0, last)
    OBVIOUS
  <2>18. y \in P /\ y.l = l + i + 1 /\ y.at = 0 /\ y.len = last
    BY <1>1, <1>4, <2>4, <2>6, <2>17 DEF Piece
  <2>19. IF skips /\ last = BS THEN z = <<>> ELSE z = <<y>>
    BY <2>7, <2>13, <2>17
  <2> HIDE DEF P
  <2>20. z \in Seq(P) /\ IF skips /\ last = BS THEN Len(z) = 0 ELSE Len(z) = 1 /\ z[1] = y
    <3>1. <<>> \in Seq(P) /\ Len(<<>>) = 0
      OBVIOUS
    <3>2. <<y>> \in Seq(P) /\ Len(<<y>>) = 1 /\ <<y>>[1] = y
      BY <2>18
    <3>3. CASE skips /\ last = BS
      BY <2>19, <3>1, <3>3
    <3>4. CASE ~(skips /\ last = BS)
      BY <2>19, <3>2, <3>4
    <3> QED BY <3>3, <3>4
  <2>21. /\ c \in Seq(P) /\ Len(c) = 1 + i + Len(z) /\ c[1] = a
         /\ \A k \in 2..i + 1 : c[k] = f[k - 1]
         /\ \A k \in 1..Len(z) : c[1 + i + k] = z[k]
    <3>1. a \in P
      BY <2>15
    <3>2. f \in [1..i -> P]
      BY <2>16
    <3>3. z \in Seq(P)
      BY <2>20
    <3>4. i \in Nat
      BY <2>4
    <3>5. Parts(c, P, a, i, f, z)
      BY <2>14, <3>1, <3>2, <3>3, <3>4 DEF Parts
    <3> QED BY ONLY <3>5, ThreeParts
  <2>22. \A k \in 2..i + 1 : c[k].l = l + (k - 1) /\ c[k].at = 0 /\ c[k].len = BS
    <3> SUFFICES ASSUME NEW k \in 2..i + 1
                 PROVE  c[k].l = l + (k - 1) /\ c[k].at = 0 /\ c[k].len = BS
      OBVIOUS
    <3>1. k - 1 \in 1..i
      BY <2>4
    <3> QED BY <2>16, <2>21, <3>1
  <2>23. CASE skips /\ last = BS
    <3>1. Len(c) = 1 + i /\ CutEnd(start, size, skips) = start + size - BS
      BY <2>4, <2>10, <2>20, <2>21, <2>23 DEF CutEnd
    <3>2. start + size - BS = Begin(l) + Begin(i) + BS
      <4>1. PICK u \in Nat : u = start + size
        OBVIOUS
      <4>2. PICK v \in Nat : v = Begin(l) + Begin(i)
        BY <1>4, <2>4
      <4>3. u = v + BS + BS
        BY <2>8, <2>23, <4>1, <4>2
      <4> QED BY <1>1, <4>1, <4>2, <4>3
    <3>3. Begin(l + (Len(c) - 1)) = Begin(l) + Begin(i)
      <4>1. l + (Len(c) - 1) = l + i
        BY <1>4, <2>4, <3>1
      <4> QED BY <1>4, <2>4, <4>1, GridSum
    <3> DEFINE Full(k) == /\ c[k].l = l + (k - 1)
                          /\ c[k].at = IF k = 1 THEN ix ELSE 0
                          /\ c[k].at + c[k].len = BS
    <3> SUFFICES \A k \in 1..1 + i : Full(k)
      <4> SUFFICES ASSUME \A k \in 1..1 + i : Full(k)
                   PROVE  Tiles(c, start, CutEnd(start, size, skips))
        OBVIOUS
      <4>1. BS <= BS /\ Len(c) > 0
        BY <1>1, <2>4, <3>1
      <4>2. ASSUME NEW k \in 1..Len(c), k = Len(c)
            PROVE  Begin(c[k].l) + c[k].at + c[k].len = CutEnd(start, size, skips)
        <5>1. PICK n, m : n = c[k].at /\ m = c[k].len
          OBVIOUS
        <5>2. c[k] \in P
          BY <2>21, <4>2
        <5>3. n \in Nat /\ m \in Nat /\ n + m = BS
          BY <3>1, <5>1, <5>2 DEF P
        <5>4. Begin(c[k].l) = Begin(l) + Begin(i)
          BY <3>1, <3>3, <4>2
        <5>5. PICK u \in Nat : u = Begin(l) + Begin(i)
          BY <1>4, <2>4
        <5>6. u + n + m = u + BS
          BY <5>3, <5>5
        <5> QED BY <3>1, <3>2, <5>1, <5>4, <5>5, <5>6
      <4> QED BY <1>2, <1>3, <2>21, <3>1, <4>1, <4>2 DEF Tiles, P
    <3> SUFFICES ASSUME NEW k \in 1..1 + i PROVE Full(k)
      OBVIOUS
    <3>4. CASE k = 1
      <4>1. c[k] = a /\ l + (k - 1) = l /\ ix + (BS - ix) = BS
        BY <1>1, <1>4, <2>21, <3>4
      <4> QED BY <2>15, <3>4, <4>1
    <3>5. CASE k # 1
      <4>1. k \in 2..i + 1
        BY <2>4, <3>5
      <4> QED BY <1>1, <2>22, <3>5, <4>1
    <3> QED BY <3>4, <3>5
  <2>24. CASE ~(skips /\ last = BS)
    <3>1. Len(c) = 2 + i /\ c[2 + i] = y /\ CutEnd(start, size, skips) = start + size
      <4>1. Len(c) = 2 + i /\ 1 \in 1..Len(z) /\ 1 + i + 1 = 2 + i
        <5>1. Len(z) = 1
          BY <2>20, <2>24
        <5> QED BY <2>4, <2>21, <5>1
      <4>2. c[2 + i] = y
        BY <2>20, <2>21, <2>24, <4>1
      <4> QED BY <2>10, <2>24, <4>1, <4>2 DEF CutEnd
    <3>2. \A k \in 1..2 + i :
            /\ c[k].l = l + (k - 1)
            /\ c[k].at = IF k = 1 THEN ix ELSE 0
            /\ c[k].at + c[k].len <= BS
            /\ k < 2 + i => c[k].at + c[k].len = BS
            /\ k = 2 + i => Begin(c[k].l) + c[k].at + c[k].len = start + size
      <4> SUFFICES ASSUME NEW k \in 1..2 + i
                   PROVE  /\ c[k].l = l + (k - 1)
                          /\ c[k].at = IF k = 1 THEN ix ELSE 0
                          /\ c[k].at + c[k].len <= BS
                          /\ k < 2 + i => c[k].at + c[k].len = BS
                          /\ k = 2 + i => Begin(c[k].l) + c[k].at + c[k].len = start + size
        OBVIOUS
      <4>1. CASE k = 1
        <5>1. c[k] = a /\ l + (k - 1) = l /\ ix + (BS - ix) = BS /\ k # 2 + i /\ BS <= BS
          BY <1>1, <1>4, <2>4, <2>21, <4>1
        <5> QED BY <2>15, <4>1, <5>1
      <4>2. CASE k \in 2..i + 1
        BY <1>1, <2>4, <2>22, <4>2
      <4>3. CASE k = 2 + i
        <5>1. c[k].l = l + i + 1 /\ c[k].at = 0 /\ c[k].len = last
          BY <2>18, <3>1, <4>3
        <5>2. l + i + 1 = l + (k - 1) /\ k # 1 /\ ~(k < 2 + i)
          BY <1>4, <2>4, <4>3
        <5> QED BY <1>1, <2>6, <2>8, <5>1, <5>2
      <4> QED BY <2>4, <4>1, <4>2, <4>3
    <3>3. 2 + i > 0
      BY <2>4
    <3> QED BY <1>2, <1>3, <2>21, <3>1, <3>2, <3>3 DEF Tiles, P
  <2> QED BY <2>23, <2>24
<1> QED BY <1>5, <1>6

\* Byte p is in piece k of c.
InPiece(c, k, p) == p \div BS = c[k].l /\ p % BS \in c[k].at..c[k].at + c[k].len - 1
\* Where the first n pieces end.
EndOf(c, n) == Begin(c[n].l) + c[n].at + c[n].len

\* The fields of a piece, and the place of its first byte in file and buffer.
LEMMA TileAt ==
  ASSUME NEW start \in Nat, NEW end, NEW c, Tiles(c, start, end), NEW k \in 1..Len(c)
  PROVE  /\ k \in Nat /\ c[k].l \in Nat /\ c[k].at \in Nat /\ c[k].len \in Nat
         /\ Begin(c[k].l) \in Nat /\ EndOf(c, k) \in Nat
         /\ BufAt(start, k) \in Nat /\ start + BufAt(start, k) = Begin(c[k].l) + c[k].at
<1>1. BS \in Nat \ {0}
  BY DataAssumption
<1>2. PICK l : l = start \div BS
  OBVIOUS
<1>3. PICK ix : ix = start % BS
  OBVIOUS
<1>4. l \in Nat /\ ix \in 0..BS - 1 /\ start = Begin(l) + ix /\ Begin(l) \in Nat
  BY <1>2, <1>3, Split, Grid
<1>5. c[k] \in [l : Nat, at : Nat, len : Nat] /\ k \in Nat
  <2>1. PICK S : S = [l : Nat, at : Nat, len : Nat]
    OBVIOUS
  <2>2. c \in Seq(S)
    BY <2>1 DEF Tiles
  <2>3. c[k] \in S /\ k \in Nat
    BY <2>2
  <2> QED BY <2>1, <2>3
<1>6. c[k].l \in Nat /\ c[k].at \in Nat /\ c[k].len \in Nat
  BY <1>5
<1>7. Begin(c[k].l) \in Nat
  BY <1>6, Grid
<1>8. EndOf(c, k) \in Nat
  BY <1>6, <1>7 DEF EndOf
<1>9. c[k].l = l + (k - 1) /\ c[k].at = IF k = 1 THEN ix ELSE 0
  BY <1>2, <1>3 DEF Tiles
<1>10. BufAt(start, k) \in Nat /\ start + BufAt(start, k) = Begin(c[k].l) + c[k].at
  <2>1. CASE k = 1
    <3>1. BufAt(start, k) = 0 /\ c[k].l = l /\ c[k].at = ix
      BY <1>4, <1>9, <2>1 DEF BufAt
    <3> QED BY <1>4, <3>1
  <2>2. CASE k # 1
    <3>1. PICK j \in Nat : k = j + 2
      <4>1. k - 2 \in Nat /\ k = (k - 2) + 2
        BY <1>5, <2>2
      <4> QED BY <4>1
    <3>2. BufAt(start, k) = (BS - ix) + Begin(j)
      <4>1. k - 2 = j
        BY <3>1
      <4> QED BY <1>3, <2>2, <4>1 DEF BufAt, Begin
    <3>3. PICK t : t = j + 1
      OBVIOUS
    <3>4. t \in Nat /\ Begin(j) \in Nat /\ Begin(t) = Begin(j) + BS
      BY <3>1, <3>3, GridNext
    <3>5. c[k].l = l + t /\ c[k].at = 0
      BY <1>4, <1>9, <2>2, <3>1, <3>3
    <3>6. Begin(c[k].l) = Begin(l) + Begin(j) + BS
      <4>1. Begin(l + t) = Begin(l) + Begin(t)
        BY <1>4, <3>4, GridSum
      <4> QED BY <1>1, <1>4, <3>4, <3>5, <4>1
    <3>7. PICK x \in Nat : x = Begin(j)
      BY <3>4
    <3>8. PICK z \in Nat : z = Begin(l)
      BY <1>4
    <3>9. start = z + ix /\ BufAt(start, k) = (BS - ix) + x /\ Begin(c[k].l) + c[k].at = z + x + BS
      BY <1>1, <1>4, <3>2, <3>5, <3>6, <3>7, <3>8
    <3>10. (BS - ix) + x \in Nat /\ z + ix + ((BS - ix) + x) = z + x + BS
      <4>1. BS \in Nat /\ ix \in 0..BS - 1 /\ x \in Nat /\ z \in Nat
        BY <1>1, <1>4, <3>7, <3>8
      <4> QED BY ONLY <4>1
    <3> QED BY <3>9, <3>10
  <2> QED BY <2>1, <2>2
<1> QED BY <1>5, <1>6, <1>7, <1>8, <1>10

\* The end of the first n pieces: where the next begins, or the end of the range.
LEMMA TileEnd ==
  ASSUME NEW start \in Nat, NEW end, NEW c, Tiles(c, start, end), NEW n \in 1..Len(c)
  PROVE  /\ EndOf(c, n) <= Begin(c[n].l) + BS
         /\ n < Len(c) => EndOf(c, n) = start + BufAt(start, n + 1)
         /\ n = Len(c) => EndOf(c, n) = end
<1>1. BS \in Nat \ {0}
  BY DataAssumption
<1>2. /\ n \in Nat /\ c[n].l \in Nat /\ c[n].at \in Nat /\ c[n].len \in Nat /\ Begin(c[n].l) \in Nat
  BY TileAt
<1>3. c[n].at + c[n].len <= BS
  BY DEF Tiles
<1>4. EndOf(c, n) <= Begin(c[n].l) + BS
  BY <1>1, <1>2, <1>3 DEF EndOf
<1>5. n = Len(c) => EndOf(c, n) = end
  BY DEF Tiles, EndOf
<1>6. ASSUME n < Len(c) PROVE EndOf(c, n) = start + BufAt(start, n + 1)
  <2>1. Len(c) \in Nat
    BY DEF Tiles
  <2>2. n + 1 \in 1..Len(c) /\ n + 1 # 1
    BY <1>2, <1>6, <2>1
  <2>9. PICK m : m = n + 1
    OBVIOUS
  <2>10. m \in 1..Len(c)
    BY <2>2, <2>9
  <2>11. start + BufAt(start, m) = Begin(c[m].l) + c[m].at
    BY <2>10, TileAt
  <2>3. start + BufAt(start, n + 1) = Begin(c[n + 1].l) + c[n + 1].at
    BY <2>9, <2>11
  <2>4. start \div BS \in Nat
    BY Split
  <2>5. c[n + 1].at = 0 /\ c[n + 1].l = c[n].l + 1
    <3>1. c[n + 1].l = (start \div BS) + ((n + 1) - 1) /\ c[n].l = (start \div BS) + (n - 1)
      BY <2>2 DEF Tiles
    <3>2. c[n + 1].at = 0
      BY <2>2 DEF Tiles
    <3> QED BY <1>2, <2>4, <3>1, <3>2
  <2>6. Begin(c[n + 1].l) = Begin(c[n].l) + BS
    BY <1>2, <2>5, Grid
  <2>7. c[n].at + c[n].len = BS
    BY <1>6 DEF Tiles
  <2>8. EndOf(c, n) = Begin(c[n].l) + BS
    BY <1>1, <1>2, <2>7 DEF EndOf
  <2> QED BY <1>1, <1>2, <2>3, <2>5, <2>6, <2>8
<1> QED BY <1>4, <1>5, <1>6

\* A byte of a piece: its offset in the range and in the block.
LEMMA TileByte ==
  ASSUME NEW start \in Nat, NEW end, NEW c, Tiles(c, start, end), NEW k \in 1..Len(c),
         NEW p \in Nat
  PROVE  /\ InPiece(c, k, p) <=> p \in Begin(c[k].l) + c[k].at..EndOf(c, k) - 1
         /\ InPiece(c, k, p) => BufAt(start, k) + (p % BS) - c[k].at = p - start
<1>1. BS \in Nat \ {0}
  BY DataAssumption
<1>2. PICK q : q = c[k].l
  OBVIOUS
<1>3. PICK a : a = c[k].at
  OBVIOUS
<1>4. PICK n : n = c[k].len
  OBVIOUS
<1>5. PICK g : g = BufAt(start, k)
  OBVIOUS
<1>6. PICK b : b = Begin(q)
  OBVIOUS
<1>7. q \in Nat /\ a \in Nat /\ n \in Nat /\ g \in Nat /\ b \in Nat /\ start + g = b + a /\ a + n <= BS
  <2>1. a + n <= BS
    BY <1>3, <1>4 DEF Tiles
  <2> QED BY <1>2, <1>3, <1>4, <1>5, <1>6, <2>1, TileAt
<1>8. EndOf(c, k) = b + a + n
  BY <1>2, <1>3, <1>4, <1>6 DEF EndOf
<1>9. PICK y : y = p % BS
  OBVIOUS
<1>10. InPiece(c, k, p) <=> p \div BS = q /\ y \in a..a + n - 1
  BY <1>2, <1>3, <1>4, <1>9 DEF InPiece
<1>11. ASSUME InPiece(c, k, p) PROVE p = b + y /\ y \in Nat /\ y \in a..a + n - 1
  <2>1. p = Begin(p \div BS) + (p % BS) /\ p % BS \in 0..BS - 1
    BY Split
  <2> QED BY <1>1, <1>6, <1>9, <1>10, <1>11, <2>1
<1>12. ASSUME p \in b + a..(b + a + n) - 1 PROVE InPiece(c, k, p)
  <2>1. PICK x \in Nat : p = b + x
    <3>1. p - b \in Nat /\ p = b + (p - b)
      BY <1>7, <1>12
    <3> QED BY <3>1
  <2>2. x \in a..a + n - 1 /\ x \in 0..BS - 1
    BY <1>1, <1>7, <1>12, <2>1
  <2>3. p \div BS = q /\ p % BS = x
    BY <1>6, <1>7, <2>1, <2>2, InBlock
  <2> QED BY <1>9, <1>10, <2>2, <2>3
<1>13. InPiece(c, k, p) => p \in b + a..(b + a + n) - 1
  BY <1>7, <1>11
<1>14. InPiece(c, k, p) => g + y - a = p - start
  BY <1>7, <1>11
<1>15. InPiece(c, k, p) => BufAt(start, k) + (p % BS) - c[k].at = p - start
  BY <1>3, <1>5, <1>9, <1>14
<1>16. Begin(c[k].l) + c[k].at..EndOf(c, k) - 1 = b + a..(b + a + n) - 1
  <2>1. Begin(c[k].l) + c[k].at = b + a
    BY <1>2, <1>3, <1>6
  <2>2. PICK u : u = EndOf(c, k)
    OBVIOUS
  <2>3. PICK v : v = b + a + n
    OBVIOUS
  <2>4. u = v
    BY <1>8, <2>2, <2>3
  <2>5. b + a..u - 1 = b + a..v - 1
    BY <2>4
  <2> QED BY <2>1, <2>2, <2>3, <2>5, Zenon
<1>17. PICK R : R = b + a..(b + a + n) - 1
  OBVIOUS
<1>18. InPiece(c, k, p) <=> p \in R
  <2>1. InPiece(c, k, p) => p \in R
    BY <1>13, <1>17, Zenon
  <2>2. p \in R => InPiece(c, k, p)
    BY <1>12, <1>17, Zenon
  <2> QED BY <2>1, <2>2, Zenon
<1>19. p \in R <=> p \in Begin(c[k].l) + c[k].at..EndOf(c, k) - 1
  BY <1>16, <1>17, Zenon
<1> QED BY <1>15, <1>18, <1>19, Zenon

\* The first n pieces are the bytes from start up to their end.
LEMMA TileCover ==
  ASSUME NEW start \in Nat, NEW end, NEW c, Tiles(c, start, end), NEW n \in 1..Len(c),
         NEW p \in Nat
  PROVE  (\E k \in 1..n : InPiece(c, k, p)) <=> p \in start..EndOf(c, n) - 1
<1>1. BS \in Nat \ {0} /\ Len(c) \in Nat
  BY DataAssumption DEF Tiles
<1>2. PICK l : l = start \div BS
  OBVIOUS
<1>3. l \in Nat /\ start % BS \in 0..BS - 1 /\ start = Begin(l) + (start % BS) /\ Begin(l) \in Nat
  BY <1>2, Split, Grid
<1>4. PICK e : e = EndOf(c, n)
  OBVIOUS
<1>5. \A k \in 1..n : /\ k \in 1..Len(c) /\ k \in Nat /\ c[k].l = l + (k - 1) /\ c[k].l \in Nat
                      /\ Begin(c[k].l) \in Nat /\ c[k].at \in Nat /\ c[k].len \in Nat
                      /\ EndOf(c, k) \in Nat /\ EndOf(c, k) <= Begin(c[k].l) + BS
                      /\ Begin(c[k].l) + c[k].at >= start
  <2> SUFFICES ASSUME NEW k \in 1..n
               PROVE  /\ k \in 1..Len(c) /\ k \in Nat /\ c[k].l = l + (k - 1) /\ c[k].l \in Nat
                      /\ Begin(c[k].l) \in Nat /\ c[k].at \in Nat /\ c[k].len \in Nat
                      /\ EndOf(c, k) \in Nat /\ EndOf(c, k) <= Begin(c[k].l) + BS
                      /\ Begin(c[k].l) + c[k].at >= start
    OBVIOUS
  <2>1. k \in 1..Len(c)
    BY <1>1
  <2>2. c[k].l = l + (k - 1)
    BY <1>2, <2>1 DEF Tiles
  <2>3. /\ k \in Nat /\ c[k].l \in Nat /\ c[k].at \in Nat /\ c[k].len \in Nat
        /\ Begin(c[k].l) \in Nat /\ EndOf(c, k) \in Nat
        /\ BufAt(start, k) \in Nat /\ start + BufAt(start, k) = Begin(c[k].l) + c[k].at
    BY <2>1, TileAt
  <2>4. Begin(c[k].l) + c[k].at >= start
    BY <2>3
  <2>5. EndOf(c, k) <= Begin(c[k].l) + BS
    BY <2>1, TileEnd
  <2> QED BY <2>1, <2>2, <2>3, <2>4, <2>5
<1>6. n \in Nat /\ n \in 1..n
  BY <1>1
<1>7. ASSUME NEW k \in 1..n, InPiece(c, k, p) PROVE p \in start..e - 1
  <2>1. p \in Begin(c[k].l) + c[k].at..EndOf(c, k) - 1
    BY <1>5, <1>7, TileByte
  <2>2. EndOf(c, k) <= e
    <3>1. CASE k = n
      BY <1>4, <1>5, <3>1
    <3>2. CASE k # n
      <4>1. c[k].l < c[n].l
        <5>1. k \in Nat /\ k < n
          BY <1>6, <1>7, <3>2
        <5>2. c[k].l = l + (k - 1)
          BY ONLY <1>5, <1>7
        <5>3. c[n].l = l + (n - 1)
          BY ONLY <1>5, <1>6
        <5> QED BY <1>3, <1>6, <5>1, <5>2, <5>3
      <4>2. Begin(c[k].l) + BS <= Begin(c[n].l)
        BY <1>5, <1>6, <4>1, GridOrder
      <4>3. Begin(c[n].l) <= e
        BY <1>4, <1>5, <1>6 DEF EndOf
      <4> QED BY <1>1, <1>4, <1>5, <1>6, <4>2, <4>3
    <3> QED BY <3>1, <3>2
  <2>3. PICK x : x = Begin(c[k].l) + c[k].at
    OBVIOUS
  <2>4. PICK z : z = EndOf(c, k)
    OBVIOUS
  <2>5. x \in Nat /\ z \in Nat /\ start <= x /\ e \in Nat
    <3>1. EndOf(c, k) \in Nat /\ Begin(c[k].l) \in Nat /\ c[k].at \in Nat
      BY ONLY <1>5, <1>7
    <3>2. Begin(c[k].l) + c[k].at >= start
      BY ONLY <1>5, <1>7
    <3>3. EndOf(c, n) \in Nat
      BY ONLY <1>5, <1>6
    <3> QED BY <1>4, <2>3, <2>4, <3>1, <3>2, <3>3
  <2>6. p \in x..z - 1 /\ z <= e
    BY <2>1, <2>2, <2>3, <2>4
  <2> QED BY <2>5, <2>6
<1>8. ASSUME p \in start..e - 1 PROVE \E k \in 1..n : InPiece(c, k, p)
  <2>1. PICK q : q = p \div BS
    OBVIOUS
  <2>2. PICK y : y = p % BS
    OBVIOUS
  <2>3. q \in Nat /\ y \in 0..BS - 1 /\ p = Begin(q) + y /\ Begin(q) \in Nat
    BY <2>1, <2>2, Split, Grid
  <2>4. ~(q < l)
    <3>1. q < l => Begin(q) + BS <= Begin(l)
      BY <1>3, <2>3, GridOrder
    <3>2. start <= p /\ Begin(l) <= start
      BY <1>1, <1>3, <1>8
    <3> QED BY <1>1, <1>3, <2>3, <3>1, <3>2
  <2>5. ~(c[n].l < q)
    <3>1. c[n].l < q => Begin(c[n].l) + BS <= Begin(q)
      BY <1>5, <1>6, <2>3, GridOrder
    <3>2. e <= Begin(c[n].l) + BS /\ e \in Nat /\ Begin(c[n].l) \in Nat
      BY <1>4, <1>5, <1>6
    <3> QED BY <1>1, <1>8, <2>3, <3>1, <3>2
  <2>6. PICK k : k = q - l + 1
    OBVIOUS
  <2>7. k \in 1..n /\ q = l + (k - 1)
    <3>1. c[n].l = l + (n - 1)
      BY <1>5, <1>6
    <3> QED BY <1>3, <1>6, <2>3, <2>4, <2>5, <2>6, <3>1
  <2>8. k \in 1..Len(c) /\ c[k].l = q
    BY <1>5, <2>7
  <2>9. y >= c[k].at
    <3>1. CASE k = 1
      <4>2. c[k].at = start % BS
        BY <2>8, <3>1 DEF Tiles
      <4>3. q = l
        BY <1>3, <2>7, <3>1
      <4>1. c[k].at = start % BS /\ q = l
        BY <4>2, <4>3
      <4> QED BY <1>1, <1>3, <1>8, <2>3, <4>1
    <3>2. CASE k # 1
      <4>1. c[k].at = 0
        BY <2>8, <3>2 DEF Tiles
      <4> QED BY <1>1, <2>3, <4>1
    <3> QED BY <3>1, <3>2
  <2>10. y <= c[k].at + c[k].len - 1
    <3>1. PICK u : u = c[k].at
      OBVIOUS
    <3>2. PICK v : v = c[k].len
      OBVIOUS
    <3>3. u \in Nat /\ v \in Nat
      BY <1>5, <2>7, <3>1, <3>2
    <3>4. CASE k = n
      <4>1. e = Begin(q) + u + v
        BY <1>4, <2>8, <3>1, <3>2, <3>4 DEF EndOf
      <4>2. y <= u + v - 1
        BY <1>1, <1>8, <2>3, <3>3, <4>1
      <4> QED BY <3>1, <3>2, <4>2
    <3>5. CASE k # n
      <4>1. k < Len(c)
        BY <1>1, <2>7, <3>5
      <4>2. u + v = BS
        BY <2>8, <3>1, <3>2, <4>1 DEF Tiles
      <4>3. y <= u + v - 1
        BY <1>1, <2>3, <3>3, <4>2
      <4> QED BY <3>1, <3>2, <4>3
    <3> QED BY <3>4, <3>5
  <2>11. InPiece(c, k, p)
    <3>1. y \in c[k].at..c[k].at + c[k].len - 1
      <4>1. c[k].at \in Nat /\ c[k].len \in Nat
        BY ONLY <1>5, <2>7
      <4>2. y \in Nat
        BY <1>1, <2>3
      <4> QED BY ONLY <2>9, <2>10, <4>1, <4>2
    <3> QED BY <2>1, <2>2, <2>8, <3>1 DEF InPiece
  <2> QED BY <2>7, <2>11
<1> QED BY <1>4, <1>7, <1>8

-----------------------------------------------------------------------------
(* Writing.                                                                *)

\* What the writes keep: the bytes that are not zero lie in blocks that exist.
DataInv ==
    /\ have \subseteq 0..NB - 1 /\ Cardinality(have) <= Space
    /\ bytes = model
    /\ fsize \in 0..MaxSize
    /\ \A p \in Offsets : model[p] # 0 => p \div BS \in have
    /\ short \in BOOLEAN
    /\ ~short => \A p \in Offsets : model[p] # 0 => p < fsize

\* A write over several blocks ends within the largest file.
LEMMA CutFits ==
  ASSUME NEW start \in 0..MaxSize, NEW len \in Nat, NEW size, size = Cut(start, len)
  PROVE  size \in Nat /\ ((start % BS) + size > BS => start + size <= MaxSize)
<1>1. MaxSize \in Nat /\ BS \in Nat
  BY DataAssumption, Grid DEF MaxSize
<1>2. PICK ix : ix = start % BS
  OBVIOUS
<1>3. start \in Nat /\ ix \in Nat
  <2>1. start \in Nat
    BY <1>1
  <2>2. start % BS \in 0..BS - 1
    BY <2>1, Split
  <2> QED BY <1>1, <1>2, <2>1, <2>2
<1>4. size = IF ix + len > BS /\ start <= MaxSize /\ len > MaxSize - start
             THEN MaxSize - start ELSE len
  BY <1>2 DEF Cut
<1>5. size \in Nat /\ (ix + size > BS => start + size <= MaxSize)
  BY <1>1, <1>3, <1>4
<1> QED BY <1>2, <1>5

\* The write stops at a piece whose block is not to be had, or at the end.
LEMMA DoneIs ==
  ASSUME NEW start \in Nat, NEW end, NEW c, Tiles(c, start, end), DataInv,
         NEW n, n = Done(c)
  PROVE  n \in 0..Len(c) /\ Allocated(c, n)
<1>1. Len(c) \in Nat
  BY DEF Tiles
<1>2. Allocated(c, 0)
  <2>1. {c[k].l : k \in 1..0} = {}
    OBVIOUS
  <2>2. {} \subseteq 0..NB - 1 /\ {} \cup have = have
    OBVIOUS
  <2> QED BY <2>1, <2>2 DEF Allocated, DataInv
<1>3. \E m \in 0..Len(c) : Allocated(c, m) /\ (m < Len(c) => ~Allocated(c, m + 1))
  <2>1. PICK S : S = {m \in 0..Len(c) : ~Allocated(c, m)}
    OBVIOUS
  <2>2. CASE S = {}
    <3>1. Len(c) \in 0..Len(c) /\ ~(Len(c) < Len(c))
      BY <1>1
    <3>2. Allocated(c, Len(c))
      BY <2>1, <2>2, <3>1
    <3> QED BY <3>1, <3>2
  <2>3. CASE S # {}
    <3>1. S \subseteq Nat
      BY <1>1, <2>1
    <3>2. PICK x \in S : \A y \in S : x <= y
      BY <2>3, <3>1, LeastNatural
    <3>3. x \in 0..Len(c) /\ ~Allocated(c, x)
      BY <2>1, <3>2
    <3>4. x # 0
      BY <1>2, <3>3
    <3>5. PICK m : m = x - 1
      OBVIOUS
    <3>6. m \in 0..Len(c) /\ m + 1 = x /\ m \in Nat /\ ~(x <= m)
      BY <1>1, <3>3, <3>4, <3>5
    <3>7. m \notin S
      BY <3>2, <3>6
    <3>8. Allocated(c, m)
      BY <2>1, <3>6, <3>7
    <3> QED BY <3>3, <3>6, <3>8
  <2> QED BY <2>2, <2>3
<1> QED BY <1>3 DEF Done

\* A write that crosses no block is one piece.
LEMMA OnePiece ==
  ASSUME NEW start \in Nat, NEW size \in Nat, (start % BS) + size <= BS
  PROVE  Len(WritePieces(start, size)) = 1
<1>1. PICK a : a = Piece(start \div BS, start % BS, size)
  OBVIOUS
<1>2. WritePieces(start, size) = <<a>>
  BY <1>1 DEF WritePieces, Pieces
<1> QED BY <1>2

\* A write keeps what the writes keep.
LEMMA WriteKeeps ==
  ASSUME NEW start \in 0..MaxSize, NEW len \in 1..MaxBytes, DataInv, WriteData(start, len)
  PROVE  DataInv'
<1>1. MaxSize \in Nat /\ BS \in Nat \ {0} /\ MaxBytes \in Nat /\ NB \in Nat /\ start \in Nat /\ len \in Nat
  <2>1. MaxSize \in Nat /\ BS \in Nat \ {0} /\ MaxBytes \in Nat /\ NB \in Nat
    BY DataAssumption DEF MaxSize
  <2> QED BY <2>1
<1>2. PICK size : size = Cut(start, len)
  OBVIOUS
<1>3. size \in Nat /\ ((start % BS) + size > BS => start + size <= MaxSize)
  BY <1>1, <1>2, CutFits
<1>4. PICK c : c = WritePieces(start, size)
  OBVIOUS
<1>5. PICK end : end = start + size
  OBVIOUS
<1>6. Tiles(c, start, end)
  <2>1. c = Pieces(start, size, FALSE) /\ CutEnd(start, size, FALSE) = end
    BY <1>4, <1>5 DEF WritePieces, CutEnd
  <2> QED BY <1>1, <1>3, <2>1, PiecesTile
<1>7. PICK n : n = Done(c)
  OBVIOUS
<1>0. start \in Nat
  BY <1>1
<1>8. n \in 0..Len(c) /\ Allocated(c, n) /\ Len(c) \in Nat /\ Len(c) > 0
  <2>1. n \in 0..Len(c) /\ Allocated(c, n)
    BY <1>0, <1>6, <1>7, DoneIs
  <2>2. Len(c) \in Nat /\ Len(c) > 0
    BY <1>6 DEF Tiles
  <2> QED BY <2>1, <2>2
<1>9. PICK need : need = {c[k].l : k \in 1..n}
  OBVIOUS
<1>10. need \subseteq 0..NB - 1 /\ Cardinality(need \cup have) <= Space
  BY <1>8, <1>9 DEF Allocated
<1>11. PICK done : done = IF n = Len(c) THEN size ELSE IF n = 0 THEN 0 ELSE BufAt(start, n + 1)
  OBVIOUS
<1>12. /\ have' = have \cup need
       /\ bytes' = [p \in Offsets |->
             IF \E k \in 1..n : InPiece(c, k, p)
             THEN LET k == CHOOSE k \in 1..n : InPiece(c, k, p)
                  IN Byte(BufAt(start, k) + (p % BS) - c[k].at)
             ELSE bytes[p]]
       /\ fsize' = IF EndsAsWritten(c) /\ size > 0 /\ start + size > fsize
                   THEN start + size ELSE fsize
       /\ model' = [p \in Offsets |-> IF p \in start..start + done - 1
                                      THEN Byte(p - start) ELSE model[p]]
       /\ short' = (short \/ n < Len(c))
  BY <1>2, <1>4, <1>7, <1>9, <1>11 DEF WriteData, InPiece
<1>13. \A p \in Offsets : p \in Nat
  BY <1>1 DEF Offsets
<1>14. \A p \in Offsets : (\E k \in 1..n : InPiece(c, k, p)) <=> p \in start..start + done - 1
  <2> SUFFICES ASSUME NEW p \in Offsets
               PROVE  (\E k \in 1..n : InPiece(c, k, p)) <=> p \in start..start + done - 1
    OBVIOUS
  <2>1. CASE n = 0
    <3>1. done = 0 /\ start + 0 - 1 = start - 1
      BY <1>1, <1>8, <1>11, <2>1
    <3>2. p \notin start..start + done - 1
      BY <1>1, <1>13, <3>1
    <3>3. 1..n = {}
      BY <2>1
    <3> QED BY <3>2, <3>3
  <2>2. CASE n # 0
    <3>1. n \in 1..Len(c)
      BY <1>8, <2>2
    <3>2. EndOf(c, n) \in Nat /\ EndOf(c, n) = start + done
      <4>3. EndOf(c, n) \in Nat
        BY ONLY <1>0, <1>6, <3>1, TileAt
      <4>4. /\ n < Len(c) => EndOf(c, n) = start + BufAt(start, n + 1)
            /\ n = Len(c) => EndOf(c, n) = end
        BY ONLY <1>0, <1>6, <3>1, TileEnd
      <4>1. CASE n = Len(c)
        BY <1>5, <1>11, <4>1, <4>3, <4>4
      <4>2. CASE n # Len(c)
        <5>1. done = BufAt(start, n + 1) /\ n < Len(c)
          BY <1>8, <1>11, <2>2, <3>1, <4>2
        <5> QED BY <4>3, <4>4, <5>1
      <4> QED BY <4>1, <4>2
    <3>3. (\E k \in 1..n : InPiece(c, k, p)) <=> p \in start..EndOf(c, n) - 1
      BY <1>1, <1>6, <1>13, <3>1, TileCover
    <3>4. done \in Int
      <4>1. CASE n = Len(c)
        BY <1>3, <1>11, <4>1
      <4>2. CASE n # Len(c)
        <5>1. done = BufAt(start, n + 1) /\ n + 1 \in 1..Len(c)
          BY <1>8, <1>11, <2>2, <3>1, <4>2
        <5>2. PICK m : m = n + 1
          OBVIOUS
        <5>3. BufAt(start, m) \in Nat
          BY <1>1, <1>6, <5>1, <5>2, TileAt
        <5> QED BY <5>1, <5>2, <5>3
      <4> QED BY <4>1, <4>2
    <3>5. PICK e : e = EndOf(c, n)
      OBVIOUS
    <3>6. start..e - 1 = start..start + done - 1
      BY <1>1, <3>2, <3>4, <3>5
    <3> QED BY <3>3, <3>5, <3>6
  <2> QED BY <2>1, <2>2
<1>15. ASSUME NEW p \in Offsets, NEW k \in 1..n, InPiece(c, k, p)
       PROVE  BufAt(start, k) + (p % BS) - c[k].at = p - start /\ p \div BS \in need
  <2>1. k \in 1..Len(c)
    BY <1>8
  <2>2. BufAt(start, k) + (p % BS) - c[k].at = p - start
    <3>1. p \in Nat
      BY <1>13, <1>15
    <3> QED BY ONLY <1>0, <1>6, <1>15, <2>1, <3>1, TileByte
  <2>3. p \div BS \in need
    BY <1>9, <1>15 DEF InPiece
  <2> QED BY <2>2, <2>3
<1>16. bytes' = model'
  <2> SUFFICES ASSUME NEW p \in Offsets
               PROVE  (IF \E k \in 1..n : InPiece(c, k, p)
                       THEN LET k == CHOOSE k \in 1..n : InPiece(c, k, p)
                            IN Byte(BufAt(start, k) + (p % BS) - c[k].at)
                       ELSE bytes[p])
                    = IF p \in start..start + done - 1 THEN Byte(p - start) ELSE model[p]
    BY <1>12
  <2>1. CASE \E k \in 1..n : InPiece(c, k, p)
    <3>1. PICK k : k = CHOOSE j \in 1..n : InPiece(c, j, p)
      OBVIOUS
    <3>2. k \in 1..n /\ InPiece(c, k, p)
      BY <2>1, <3>1
    <3>3. BufAt(start, k) + (p % BS) - c[k].at = p - start
      BY <1>15, <3>2
    <3>4. p \in start..start + done - 1
      BY <1>14, <2>1
    <3> QED BY <2>1, <3>1, <3>3, <3>4
  <2>2. CASE ~\E k \in 1..n : InPiece(c, k, p)
    <3>1. p \notin start..start + done - 1
      BY <1>14, <2>2
    <3>2. bytes[p] = model[p]
      BY DEF DataInv
    <3> QED BY <2>2, <3>1, <3>2
  <2> QED BY <2>1, <2>2
<1>17. \A p \in Offsets : model'[p] # 0 => p \div BS \in have'
  <2> SUFFICES ASSUME NEW p \in Offsets, model'[p] # 0
               PROVE  p \div BS \in have'
    OBVIOUS
  <2>1. CASE p \in start..start + done - 1
    <3>1. PICK k \in 1..n : InPiece(c, k, p)
      BY <1>14, <2>1
    <3> QED BY <1>12, <1>15, <3>1
  <2>2. CASE p \notin start..start + done - 1
    <3>1. model'[p] = model[p]
      BY <1>12, <2>2
    <3> QED BY <1>12, <3>1 DEF DataInv
  <2> QED BY <2>1, <2>2
<1>18. have' \subseteq 0..NB - 1 /\ Cardinality(have') <= Space
  BY <1>10, <1>12 DEF DataInv
<1>19. n = Len(c) => start + size <= MaxSize
  <2> SUFFICES ASSUME n = Len(c) PROVE start + size <= MaxSize
    OBVIOUS
  <2>1. n \in 1..Len(c) /\ n \in 1..n
    BY <1>8
  <2>2. PICK q : q = c[n].l
    OBVIOUS
  <2>3. q \in Nat /\ start + size <= Begin(q) + BS
    <3>1. c[n].l \in Nat
      BY ONLY <1>0, <1>6, <2>1, TileAt
    <3>2. EndOf(c, n) <= Begin(c[n].l) + BS /\ (n = Len(c) => EndOf(c, n) = end)
      BY ONLY <1>0, <1>6, <2>1, TileEnd
    <3> QED BY <1>5, <2>2, <3>1, <3>2
  <2>4. q < NB
    <3>1. q \in need
      BY <1>9, <2>1, <2>2
    <3> QED BY <1>1, <1>10, <3>1
  <2>5. Begin(q) + BS <= MaxSize /\ Begin(q) \in Nat
    BY <1>1, <2>3, <2>4, Grid, GridOrder
  <2> QED BY <1>1, <1>3, <2>3, <2>5
<1>20. EndsAsWritten(c) => start + size <= MaxSize
  <2> SUFFICES ASSUME EndsAsWritten(c) PROVE start + size <= MaxSize
    OBVIOUS
  <2>1. CASE n = Len(c)
    BY <1>19, <2>1
  <2>2. CASE n # Len(c)
    <3>1. Len(c) = 2
      BY <1>7, <2>2 DEF EndsAsWritten
    <3>2. PICK ix : ix = start % BS
      OBVIOUS
    <3>3. ix \in Nat
      <4>1. start % BS \in 0..BS - 1
        BY <1>1, Split
      <4> QED BY <1>1, <3>2, <4>1
    <3>4. ~(ix + size <= BS)
      BY <1>1, <1>3, <1>4, <3>1, <3>2, OnePiece
    <3>5. ix + size > BS
      BY <1>1, <1>3, <3>3, <3>4
    <3> QED BY <1>3, <3>2, <3>5
  <2> QED BY <2>1, <2>2
<1>21. fsize \in Nat /\ fsize <= MaxSize
  BY <1>1 DEF DataInv
<1>22. fsize' \in 0..MaxSize /\ fsize <= fsize'
  <2>1. CASE EndsAsWritten(c) /\ size > 0 /\ start + size > fsize
    BY <1>1, <1>3, <1>12, <1>20, <1>21, <2>1
  <2>2. CASE ~(EndsAsWritten(c) /\ size > 0 /\ start + size > fsize)
    BY <1>1, <1>12, <1>21, <2>2
  <2> QED BY <2>1, <2>2
<1>23. short' \in BOOLEAN
  BY <1>12
<1>24. ASSUME ~short', NEW p \in Offsets, model'[p] # 0 PROVE p < fsize'
  <2>1. ~short /\ ~(n < Len(c))
    BY <1>12, <1>24
  <2>2. n = Len(c) /\ done = size /\ EndsAsWritten(c)
    BY <1>7, <1>8, <1>11, <2>1 DEF EndsAsWritten
  <2>3. CASE p \in start..start + done - 1
    <3>1. start <= p /\ p < start + size /\ size > 0 /\ p \in Nat
      BY <1>1, <1>3, <1>13, <2>2, <2>3
    <3>2. start + size <= fsize'
      BY <1>1, <1>3, <1>12, <1>21, <2>2, <3>1
    <3> QED BY <1>1, <1>3, <1>22, <3>1, <3>2
  <2>4. CASE p \notin start..start + done - 1
    <3>1. model'[p] = model[p]
      BY <1>12, <2>4
    <3>2. p < fsize
      BY <1>24, <2>1, <3>1 DEF DataInv
    <3> QED BY <1>1, <1>13, <1>21, <1>22, <3>2
  <2> QED BY <2>3, <2>4
<1> QED BY <1>16, <1>17, <1>18, <1>22, <1>23, <1>24 DEF DataInv, Offsets

-----------------------------------------------------------------------------
(* Reading.                                                                *)

\* A read returns what was written.
LEMMA ReadReturns ==
  ASSUME DataInv, NEW start \in Nat, NEW size \in Nat, start + size <= fsize,
         NEW m \in 0..size - 1
  PROVE  Copied(start, size, ReadPieces(start, size))[m]
           = IF EndsWithBlock(start, size) /\ m >= size - BS THEN Junk ELSE model[start + m]
<1>1. MaxSize \in Nat /\ BS \in Nat \ {0} /\ fsize \in Nat /\ fsize <= MaxSize /\ m \in Nat
  <2>1. MaxSize \in Nat /\ BS \in Nat \ {0}
    BY DataAssumption DEF MaxSize
  <2> QED BY <2>1 DEF DataInv
<1>2. PICK c : c = ReadPieces(start, size)
  OBVIOUS
<1>3. PICK end : end = CutEnd(start, size, TRUE)
  OBVIOUS
<1>4. Tiles(c, start, end)
  <2>1. c = Pieces(start, size, TRUE)
    BY <1>2 DEF ReadPieces
  <2> QED BY <1>3, <2>1, PiecesTile
<1>5. PICK p : p = start + m
  OBVIOUS
<1>6. p \in Nat /\ p \in Offsets
  BY <1>1, <1>5 DEF Offsets
<1>7. ASSUME NEW k \in 1..Len(c)
      PROVE  /\ m - BufAt(start, k) \in 0..c[k].len - 1 <=> InPiece(c, k, p)
             /\ c[k].l * BS + c[k].at + m - BufAt(start, k) = p
  <2>1. PICK b : b = Begin(c[k].l)
    OBVIOUS
  <2>2. PICK a : a = c[k].at
    OBVIOUS
  <2>3. PICK n : n = c[k].len
    OBVIOUS
  <2>4. PICK g : g = BufAt(start, k)
    OBVIOUS
  <2>5. b \in Nat /\ a \in Nat /\ n \in Nat /\ g \in Nat /\ start + g = b + a
    BY ONLY <1>4, <1>7, start \in Nat, <2>1, <2>2, <2>3, <2>4, TileAt
  <2>6. EndOf(c, k) = b + a + n
    BY <2>1, <2>2, <2>3 DEF EndOf
  <2>7. InPiece(c, k, p) <=> p \in Begin(c[k].l) + c[k].at..EndOf(c, k) - 1
    BY ONLY <1>4, <1>6, <1>7, start \in Nat, TileByte
  <2>8. InPiece(c, k, p) <=> p \in b + a..(b + a + n) - 1
    BY ONLY <2>1, <2>2, <2>6, <2>7
  <2>9. p \in b + a..(b + a + n) - 1 <=> m - g \in 0..n - 1
    BY <1>1, <1>5, <1>6, <2>5
  <2>10. c[k].l * BS = b
    BY <2>1 DEF Begin
  <2>11. b + a + (m - g) = p
    BY <1>1, <1>5, <2>5
  <2> QED BY <2>2, <2>3, <2>4, <2>8, <2>9, <2>10, <2>11
<1>8. Len(c) \in Nat /\ Len(c) > 0
  BY <1>4 DEF Tiles
<1>9. (\E k \in 1..Len(c) : InPiece(c, k, p)) <=> p \in start..end - 1
  <2>1. Len(c) \in 1..Len(c)
    BY <1>8
  <2>2. EndOf(c, Len(c)) = end
    BY ONLY start \in Nat, <1>4, <2>1, TileEnd
  <2>3. (\E k \in 1..Len(c) : InPiece(c, k, p)) <=> p \in start..EndOf(c, Len(c)) - 1
    BY ONLY start \in Nat, <1>4, <1>6, <2>1, TileCover
  <2> QED BY <2>2, <2>3
<1>10. p \in start..end - 1 <=> ~(EndsWithBlock(start, size) /\ m >= size - BS)
  <2>1. CASE EndsWithBlock(start, size)
    <3>1. end = start + size - BS
      BY <1>3, <2>1 DEF CutEnd
    <3> QED BY <1>1, <1>5, <1>6, <2>1, <3>1
  <2>2. CASE ~EndsWithBlock(start, size)
    <3>1. end = start + size
      BY <1>3, <2>2 DEF CutEnd
    <3> QED BY <1>1, <1>5, <1>6, <2>2, <3>1
  <2> QED BY <2>1, <2>2
<1>11. PICK r : r = Copied(start, size, c)
  OBVIOUS
<1>12. r[m] = IF \E k \in 1..Len(c) : m - BufAt(start, k) \in 0..c[k].len - 1
              THEN LET k == CHOOSE k \in 1..Len(c) : m - BufAt(start, k) \in 0..c[k].len - 1
                   IN ReadByte(c[k].l * BS + c[k].at + m - BufAt(start, k))
              ELSE Junk
  BY <1>11 DEF Copied
<1>13. ReadByte(p) = model[p]
  BY <1>6 DEF ReadByte, DataInv
<1>14. CASE \E k \in 1..Len(c) : InPiece(c, k, p)
  <2>1. PICK k : k = CHOOSE j \in 1..Len(c) : m - BufAt(start, j) \in 0..c[j].len - 1
    OBVIOUS
  <2>2. \E j \in 1..Len(c) : m - BufAt(start, j) \in 0..c[j].len - 1
    BY <1>7, <1>14
  <2>3. k \in 1..Len(c)
    BY <2>1, <2>2
  <2>4. r[m] = ReadByte(c[k].l * BS + c[k].at + m - BufAt(start, k))
    BY <1>12, <2>1, <2>2
  <2>5. r[m] = model[p]
    BY <1>7, <1>13, <2>3, <2>4
  <2> QED BY <1>2, <1>5, <1>9, <1>10, <1>11, <1>14, <2>5
<1>15. CASE ~\E k \in 1..Len(c) : InPiece(c, k, p)
  <2>1. ~\E j \in 1..Len(c) : m - BufAt(start, j) \in 0..c[j].len - 1
    BY <1>7, <1>15
  <2>2. r[m] = Junk
    BY <1>12, <2>1
  <2> QED BY <1>2, <1>9, <1>10, <1>11, <1>15, <2>2
<1> QED BY <1>14, <1>15

-----------------------------------------------------------------------------
(* The two versions of testfs_read_data.                                   *)

PieceType == [l : Nat, at : Nat, len : Nat]

\* n full blocks from block a on, and a last piece behind them.
Fulls(a, n)      == [k \in 1..n |-> Piece(a + (k - 1), 0, BS)]
LastOf(a, last)   == IF last % BS = 0 THEN <<>> ELSE <<Piece(a, 0, last)>>
\* What is to read of r bytes from block a on.
RestOf(a, r) ==
    LET n == FullBlocks(r) IN Fulls(a, n) \o LastOf(a + n, r - Begin(n))

\* The remainder of a piece.
LEMMA PieceMod ==
  ASSUME NEW r \in 0..BS
  PROVE  r % BS = IF r = BS THEN 0 ELSE r
<1>1. BS \in Nat \ {0}
  BY DataAssumption
<1>2. CASE r = BS
  <2>1. r \in Nat /\ 0 \in 0..BS - 1 /\ 1 \in Nat /\ 0 \in Nat
    BY <1>1
  <2>2. Begin(1) = BS
    BY <1>1 DEF Begin
  <2>3. r = Begin(1) + 0
    BY <1>1, <1>2, <2>2
  <2>4. r % BS = 0
    BY ONLY <2>1, <2>3, InBlock
  <2> QED BY <1>2, <2>4
<1>3. CASE r # BS
  <2>1. r \in Nat /\ r \in 0..BS - 1 /\ 0 \in Nat
    BY <1>1, <1>3
  <2>2. Begin(0) = 0
    BY Grid
  <2>3. r = Begin(0) + r
    BY <2>1, <2>2
  <2>4. r % BS = r
    BY ONLY <2>1, <2>3, InBlock
  <2> QED BY <1>3, <2>4
<1> QED BY <1>2, <1>3

\* Full blocks and last pieces are sequences of pieces.
LEMMA RestTypes ==
  ASSUME NEW a \in Nat, NEW n \in Nat, NEW last \in Nat
  PROVE  /\ Fulls(a, n) \in [1..n -> PieceType] /\ Fulls(a, n) \in Seq(PieceType)
         /\ Len(Fulls(a, n)) = n /\ LastOf(a, last) \in Seq(PieceType)
<1>1. BS \in Nat
  BY DataAssumption
<1>2. PICK f : f = Fulls(a, n)
  OBVIOUS
<1>3. f \in [1..n -> PieceType]
  BY <1>1, <1>2 DEF Fulls, Piece, PieceType
<1>4. f \in Seq(PieceType) /\ Len(f) = n
  BY <1>3, FunctionSeq
<1>6. LastOf(a, last) \in Seq(PieceType)
  <2>1. PICK x : x = Piece(a, 0, last)
    OBVIOUS
  <2>2. x \in PieceType
    BY <2>1 DEF Piece, PieceType
  <2>3. <<x>> \in Seq(PieceType) /\ <<>> \in Seq(PieceType)
    BY <2>2
  <2> QED BY <2>1, <2>3 DEF LastOf
<1> QED BY <1>2, <1>3, <1>4, <1>6

\* No more than a block.
LEMMA RestShort ==
  ASSUME NEW a \in Nat, NEW r \in 0..BS
  PROVE  RestOf(a, r) = IF r % BS # 0 THEN <<Piece(a, 0, r % BS)>> ELSE <<>>
<1>1. BS \in Nat \ {0}
  BY DataAssumption
<1>2. FullBlocks(r) = 0
  BY <1>1 DEF FullBlocks
<1>3. Begin(0) = 0 /\ r - 0 = r /\ a + 0 = a /\ r \in Nat
  BY <1>1, Grid
<1>4. RestOf(a, r) = Fulls(a, 0) \o LastOf(a, r)
  BY <1>2, <1>3 DEF RestOf
<1>5. Fulls(a, 0) = <<>>
  <2>1. Fulls(a, 0) \in Seq(PieceType) /\ Len(Fulls(a, 0)) = 0
    BY <1>3, RestTypes
  <2> QED BY <2>1, EmptySeq
<1>6. LastOf(a, r) \in Seq(PieceType)
  BY <1>3, RestTypes
<1>7. RestOf(a, r) = LastOf(a, r)
  BY <1>4, <1>5, <1>6, ConcatEmptySeq
<1>8. r % BS # 0 => r % BS = r
  BY PieceMod
<1> QED BY <1>7, <1>8 DEF LastOf

\* More than a block: one full block, and the rest.
LEMMA RestLong ==
  ASSUME NEW a \in Nat, NEW r \in Nat, r > BS, NEW b, b = a + 1, NEW s, s = r - BS
  PROVE  RestOf(a, r) = <<Piece(a, 0, BS)>> \o RestOf(b, s)
<1>1. BS \in Nat \ {0}
  BY DataAssumption
<1>2. r \in Nat \ {0} /\ s \in Nat \ {0} /\ b \in Nat /\ r = s + BS
  BY <1>1
<1>3. PICK n : n = FullBlocks(r)
  OBVIOUS
<1>4. PICK j : j = FullBlocks(s)
  OBVIOUS
<1>5. n \in Nat /\ r - Begin(n) \in 1..BS
  BY <1>2, <1>3, LoopLeaves
<1>6. j \in Nat /\ s - Begin(j) \in 1..BS
  BY <1>2, <1>4, LoopLeaves
<1>7. PICK t : t = j + 1
  OBVIOUS
<1>8. t \in Nat /\ Begin(j) \in Nat /\ Begin(t) = Begin(j) + BS
  BY <1>6, <1>7, GridNext
<1>9. Begin(n) \in Nat
  BY <1>5, Grid
<1>10. PICK d : d = s - Begin(j)
  OBVIOUS
<1>11. n = t /\ r - Begin(n) = d
  <2>1. PICK x : x = r - Begin(n) - 1
    OBVIOUS
  <2>2. PICK y : y = d - 1
    OBVIOUS
  <2>3. PICK p : p = r - 1
    OBVIOUS
  <2>4. p \in Nat /\ x \in 0..BS - 1 /\ y \in 0..BS - 1 /\ p = Begin(n) + x /\ p = Begin(t) + y
    BY <1>1, <1>2, <1>5, <1>6, <1>8, <1>9, <1>10, <2>1, <2>2, <2>3
  <2>5. p \div BS = n
    BY ONLY <1>5, <2>4, InBlock
  <2>6. p \div BS = t
    BY ONLY <1>8, <2>4, InBlock
  <2>7. r - Begin(t) = d
    BY <1>1, <1>2, <1>8, <1>10
  <2> QED BY <2>5, <2>6, <2>7
<1>12. PICK x : x = Piece(a, 0, BS)
  OBVIOUS
<1>13. PICK f : f = Fulls(b, j)
  OBVIOUS
<1>14. PICK h : h = Fulls(a, n)
  OBVIOUS
<1>15. PICK z : z = LastOf(b + j, d)
  OBVIOUS
<1>16. d \in Nat /\ b + j \in Nat /\ a + n = b + j
  BY <1>1, <1>2, <1>6, <1>7, <1>10, <1>11
<1>17. /\ f \in Seq(PieceType) /\ Len(f) = j /\ h \in Seq(PieceType) /\ Len(h) = n
       /\ z \in Seq(PieceType)
  BY <1>2, <1>5, <1>6, <1>13, <1>14, <1>15, <1>16, RestTypes
<1>18. x \in PieceType
  BY <1>1, <1>12 DEF Piece, PieceType
<1>19. RestOf(a, r) = h \o z
  BY <1>3, <1>11, <1>14, <1>15, <1>16 DEF RestOf
<1>20. RestOf(b, s) = f \o z
  BY <1>4, <1>10, <1>13, <1>15 DEF RestOf
<1>21. <<x>> \in Seq(PieceType) /\ Len(<<x>>) = 1 /\ <<x>>[1] = x
  BY <1>18
<1>22. h = <<x>> \o f
  <2>1. PICK g : g = <<x>> \o f
    OBVIOUS
  <2>2. g \in Seq(PieceType) /\ Len(g) = 1 + j /\ g[1] = x /\ \A k \in 2..1 + j : g[k] = f[k - 1]
    <3>1. g \in Seq(PieceType) /\ Len(g) = Len(<<x>>) + Len(f)
      BY <1>17, <1>21, <2>1, ConcatProperties
    <3>2. \A k \in 1..Len(<<x>>) + Len(f) :
             g[k] = IF k <= Len(<<x>>) THEN <<x>>[k] ELSE f[k - Len(<<x>>)]
      BY <1>17, <1>21, <2>1, ConcatProperties
    <3>3. \A k \in 1..1 + j : g[k] = IF k <= 1 THEN <<x>>[k] ELSE f[k - 1]
      BY <1>17, <1>21, <3>2
    <3> QED BY <1>6, <1>17, <1>21, <3>1, <3>3
  <2>3. \A k \in 1..n : h[k] = Piece(a + (k - 1), 0, BS)
    BY <1>14 DEF Fulls
  <2>4. \A k \in 1..j : f[k] = Piece(b + (k - 1), 0, BS)
    BY <1>13 DEF Fulls
  <2>5. n = 1 + j
    BY <1>6, <1>7, <1>11
  <2>6. ASSUME NEW k \in 1..n PROVE h[k] = g[k]
    <3>1. CASE k = 1
      <4>1. a + (k - 1) = a
        BY <3>1
      <4> QED BY <1>12, <2>2, <2>3, <3>1, <4>1
    <3>2. CASE k # 1
      <4>1. k \in 2..1 + j /\ k - 1 \in 1..j
        BY <1>6, <2>5, <3>2
      <4>2. b + ((k - 1) - 1) = a + (k - 1)
        BY <1>5
      <4>3. f[k - 1] = Piece(b + ((k - 1) - 1), 0, BS)
        BY <2>4, <4>1
      <4> QED BY <2>2, <2>3, <4>1, <4>2, <4>3
    <3> QED BY <3>1, <3>2
  <2>7. Len(h) = Len(g)
    BY <1>17, <2>2, <2>5
  <2>8. h = g
    BY <1>17, <2>2, <2>6, <2>7, SeqEqual
  <2> QED BY <2>1, <2>8
<1>23. (<<x>> \o f) \o z = <<x>> \o (f \o z)
  BY <1>17, <1>21, ConcatAssociative
<1> QED BY <1>12, <1>19, <1>20, <1>22, <1>23

\* The loop of src/read_write.c reads what there is to read.
LEMMA TopLoopIs ==
  ASSUME NEW l \in Nat, NEW rest \in Nat
  PROVE  TopLoop(l, rest) = RestOf(l + 1, rest)
<1> DEFINE at(r)    == l + 1 + (rest - r) \div BS
           Eq(L)    == L = [r \in 0..rest |->
                               IF r > BS THEN <<Piece(at(r), 0, BS)>> \o L[r - BS]
                               ELSE IF r % BS # 0 THEN <<Piece(at(r), 0, r % BS)>> ELSE <<>>]
           G        == [r \in 0..rest |-> RestOf(at(r), r)]
<1>1. BS \in Nat \ {0}
  BY DataAssumption
<1>2. \A r \in 0..rest : at(r) \in Nat
  <2> SUFFICES ASSUME NEW r \in 0..rest PROVE at(r) \in Nat
    OBVIOUS
  <2>1. PICK p \in Nat : p = rest - r
    OBVIOUS
  <2>2. p \div BS \in Nat
    BY <2>1, Split
  <2> QED BY <2>1, <2>2
<1>3. at(rest) = l + 1
  <2>1. 0 \in Nat /\ 0 \in 0..BS - 1 /\ 0 = Begin(0) + 0 /\ rest - rest = 0
    BY <1>1, Grid
  <2>2. 0 \div BS = 0
    BY ONLY <2>1, InBlock
  <2> QED BY <2>1, <2>2
<1>4. ASSUME NEW r \in 0..rest, r > BS
      PROVE  r - BS \in 0..rest /\ at(r - BS) = at(r) + 1
  <2>1. PICK p \in Nat : p = rest - r
    OBVIOUS
  <2>2. PICK q : q = p \div BS
    OBVIOUS
  <2>3. PICK y : y = p % BS
    OBVIOUS
  <2>4. q \in Nat /\ y \in 0..BS - 1 /\ p = Begin(q) + y
    BY <2>1, <2>2, <2>3, Split
  <2>5. PICK t : t = q + 1
    OBVIOUS
  <2>6. t \in Nat /\ Begin(q) \in Nat /\ Begin(t) = Begin(q) + BS
    BY <2>4, <2>5, GridNext
  <2>7. PICK u : u = p + BS
    OBVIOUS
  <2>8. u \in Nat /\ u = Begin(t) + y
    BY <1>1, <2>1, <2>4, <2>6, <2>7
  <2>9. u \div BS = t
    BY ONLY <2>4, <2>6, <2>8, InBlock
  <2>10. rest - (r - BS) = u /\ r - BS \in 0..rest
    BY <1>1, <1>4, <2>1, <2>7
  <2>11. at(r - BS) = l + 1 + t /\ at(r) = l + 1 + q
    BY <2>1, <2>2, <2>9, <2>10
  <2>12. l + 1 + t = (l + 1 + q) + 1
    BY <2>4, <2>5
  <2> QED BY <2>10, <2>11, <2>12
<1> HIDE DEF at
<1>5. Eq(G)
  <2> SUFFICES ASSUME NEW r \in 0..rest
               PROVE  RestOf(at(r), r)
                        = IF r > BS THEN <<Piece(at(r), 0, BS)>> \o G[r - BS]
                          ELSE IF r % BS # 0 THEN <<Piece(at(r), 0, r % BS)>> ELSE <<>>
    OBVIOUS
  <2>1. CASE r > BS
    <3>1. G[r - BS] = RestOf(at(r) + 1, r - BS)
      BY <1>4, <2>1
    <3>2. PICK a : a = at(r)
      OBVIOUS
    <3>3. a \in Nat /\ r \in Nat
      BY <1>2, <3>2
    <3>4. RestOf(a, r) = <<Piece(a, 0, BS)>> \o RestOf(a + 1, r - BS)
      BY ONLY <2>1, <3>3, RestLong
    <3> QED BY <2>1, <3>1, <3>2, <3>4
  <2>2. CASE ~(r > BS)
    <3>1. r \in 0..BS
      BY <1>1, <2>2
    <3> QED BY <1>2, <2>2, <3>1, RestShort
  <2> QED BY <2>1, <2>2
<1>6. PICK L : L = CHOOSE M : Eq(M)
  OBVIOUS
<1>7. Eq(L)
  BY <1>5, <1>6
<1>8. \A r \in 0..rest : L[r] = G[r]
  <2>1. PICK S : S = {r \in 0..rest : L[r] # G[r]}
    OBVIOUS
  <2>2. ASSUME S # {} PROVE FALSE
    <3>1. S \subseteq Nat
      BY <2>1
    <3>2. PICK r \in S : \A y \in S : r <= y
      BY <2>2, <3>1, LeastNatural
    <3>3. r \in 0..rest /\ L[r] # G[r]
      BY <2>1, <3>2
    <3>4. CASE r > BS
      <4>1. r - BS \in 0..rest /\ ~(r <= r - BS)
        BY <1>1, <1>4, <3>3, <3>4
      <4>2. L[r - BS] = G[r - BS]
        BY <2>1, <3>2, <4>1
      <4>3. L[r] = <<Piece(at(r), 0, BS)>> \o L[r - BS]
        BY <1>7, <3>3, <3>4
      <4>4. G[r] = <<Piece(at(r), 0, BS)>> \o G[r - BS]
        BY <1>5, <3>3, <3>4
      <4> QED BY <3>3, <4>2, <4>3, <4>4
    <3>5. CASE ~(r > BS)
      BY <1>5, <1>7, <3>3, <3>5
    <3> QED BY <3>4, <3>5
  <2> QED BY <2>1, <2>2
<1>9. TopLoop(l, rest) = L[rest]
  BY <1>6 DEF TopLoop, at
<1>10. rest \in 0..rest
  OBVIOUS
<1> QED BY <1>3, <1>8, <1>9, <1>10

\* Both versions copy the same pieces.
LEMMA SamePieces ==
  ASSUME NEW start \in Nat, NEW size \in Nat
  PROVE  ReadPieces(start, size) = TopReadPieces(start, size)
<1>1. BS \in Nat \ {0}
  BY DataAssumption
<1>2. PICK l : l = start \div BS
  OBVIOUS
<1>3. PICK ix : ix = start % BS
  OBVIOUS
<1>4. l \in Nat /\ ix \in 0..BS - 1
  BY <1>2, <1>3, Split
<1>5. CASE ix + size <= BS
  <2>1. ~(ix + size > BS)
    BY <1>1, <1>4, <1>5
  <2> QED BY <1>2, <1>3, <1>5, <2>1 DEF ReadPieces, Pieces, TopReadPieces
<1>6. CASE ~(ix + size <= BS)
  <2>1. PICK rest : rest = size - (BS - ix)
    OBVIOUS
  <2>2. rest \in Nat \ {0} /\ rest \in Nat /\ ix + size > BS
    BY <1>1, <1>4, <1>6, <2>1
  <2>3. PICK n : n = FullBlocks(rest)
    OBVIOUS
  <2>4. n \in Nat /\ rest - Begin(n) \in 1..BS
    BY <2>2, <2>3, LoopLeaves
  <2>5. PICK d : d = rest - Begin(n)
    OBVIOUS
  <2>6. d \in Nat /\ l + 1 \in Nat /\ l + n + 1 = (l + 1) + n /\ (l + 1) + n \in Nat
    BY <1>1, <1>4, <2>4, <2>5
  <2>7. PICK x : x = Piece(l, ix, BS - ix)
    OBVIOUS
  <2>8. x \in PieceType
    BY <1>1, <1>4, <2>7 DEF Piece, PieceType
  <2>9. PICK f : f = Fulls(l + 1, n)
    OBVIOUS
  <2>10. f = [k \in 1..n |-> Piece(l + k, 0, BS)]
    <3>1. \A k \in 1..n : (l + 1) + (k - 1) = l + k
      BY <1>4, <2>4
    <3> QED BY <2>9, <3>1 DEF Fulls
  <2>11. PICK z : z = LastOf((l + 1) + n, d)
    OBVIOUS
  <2>12. z = IF d % BS = 0 THEN <<>> ELSE <<Piece(l + n + 1, 0, d)>>
    BY <2>6, <2>11 DEF LastOf
  <2>13. f \in Seq(PieceType) /\ z \in Seq(PieceType) /\ <<x>> \in Seq(PieceType)
    <3>1. PICK a \in Nat : a = l + 1
      BY <2>6
    <3>2. PICK b \in Nat : b = (l + 1) + n
      BY <2>6
    <3>3. Fulls(a, n) \in Seq(PieceType) /\ LastOf(b, d) \in Seq(PieceType)
      BY ONLY <2>4, <2>6, <3>1, <3>2, RestTypes
    <3>4. <<x>> \in Seq(PieceType)
      BY <2>8
    <3> QED BY <2>9, <2>11, <3>1, <3>2, <3>3, <3>4
  <2>14. ReadPieces(start, size) = (<<x>> \o f) \o z
    <3>1. n * BS = Begin(n)
      BY DEF Begin
    <3> QED BY <1>2, <1>3, <1>6, <2>1, <2>3, <2>5, <2>7, <2>10, <2>12, <3>1 DEF ReadPieces, Pieces
  <2>15. TopLoop(l, rest) = f \o z
    <3>1. TopLoop(l, rest) = RestOf(l + 1, rest)
      BY <1>4, <2>2, TopLoopIs
    <3> QED BY <2>3, <2>5, <2>9, <2>11, <3>1 DEF RestOf
  <2>16. TopReadPieces(start, size) = <<x>> \o (f \o z)
    BY <1>2, <1>3, <2>1, <2>2, <2>7, <2>15 DEF TopReadPieces
  <2> QED BY <2>13, <2>14, <2>16, ConcatAssociative
<1> QED BY <1>5, <1>6

\* What the writes keep, for every size of block and file.
THEOREM DataInvariance == DataSpec => []DataInv
<1>1. DataInit => DataInv
  <2> SUFFICES ASSUME DataInit PROVE DataInv
    OBVIOUS
  <2>1. MaxSize \in Nat /\ Space \in Nat
    BY DataAssumption DEF MaxSize
  <2>2. Cardinality({}) = 0
    BY FS_EmptySet
  <2>3. \A p \in Offsets : model[p] = 0
    BY DEF DataInit
  <2>4. have = {} /\ fsize = 0 /\ short = FALSE /\ bytes = model
    BY DEF DataInit
  <2>5. have \subseteq 0..NB - 1 /\ Cardinality(have) <= Space /\ fsize \in 0..MaxSize
    BY <2>1, <2>2, <2>4
  <2> QED BY <2>3, <2>4, <2>5 DEF DataInv
<1>2. DataInv /\ [DataNext]_dataVars => DataInv'
  <2> SUFFICES ASSUME DataInv, [DataNext]_dataVars PROVE DataInv'
    OBVIOUS
  <2>1. CASE DataNext
    <3>1. PICK start \in 0..MaxSize, len \in 1..MaxBytes : WriteData(start, len)
      BY <2>1 DEF DataNext
    <3> QED BY <3>1, WriteKeeps
  <2>2. CASE UNCHANGED dataVars
    BY <2>2 DEF dataVars, DataInv, Offsets
  <2> QED BY <2>1, <2>2
<1> QED BY <1>1, <1>2, PTL DEF DataSpec

\* Every byte of a file is where it was written and is read from there, whatever
\* the alignment, also when space runs out; both versions of testfs_read_data
\* read the same.
THEOREM DataSafe == DataSpec => []DataSound
<1>1. ASSUME DataInv PROVE DataSound
  <2>1. MaxSize \in Nat /\ fsize \in Nat
    BY <1>1, DataAssumption DEF DataInv, MaxSize
  <2>2. ASSUME NEW start \in 0..fsize, NEW size \in 0..MaxSize, start + size <= fsize,
               NEW m \in 0..size - 1
        PROVE  Copied(start, size, ReadPieces(start, size))[m]
                 = IF EndsWithBlock(start, size) /\ m >= size - BS THEN Junk ELSE model[start + m]
    <3>1. start \in Nat /\ size \in Nat
      BY <2>1
    <3> QED BY <1>1, <2>2, <3>1, ReadReturns
  <2>3. VersionsAgree
    <3> SUFFICES ASSUME NEW start \in 0..MaxSize, NEW size \in 0..MaxSize
                 PROVE  ReadPieces(start, size) = TopReadPieces(start, size)
      BY DEF VersionsAgree
    <3>1. start \in Nat /\ size \in Nat
      BY <2>1
    <3> QED BY <3>1, SamePieces
  <2> QED BY <1>1, <2>2, <2>3 DEF DataSound, DataInv
<1> QED BY <1>1, DataInvariance, PTL
==============================================================================
