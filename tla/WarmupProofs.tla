----------------------------- MODULE WarmupProofs -----------------------------
(***************************************************************************)
(* Proofs about the two data structures of the warm-up exercises.  The     *)
(* list of points of sorted_points.c holds what was added and not taken    *)
(* out, frees what it takes out, and is in order, for every set of         *)
(* coordinates and every length.  The table of wc.c counts every word of   *)
(* every text, whatever words collide.                                     *)
(***************************************************************************)
EXTENDS SortedPoints, WordCount, ListLemmas, FiniteSetTheorems

-----------------------------------------------------------------------------
(* The list of points.                                                     *)

\* How often p stands in the list s.
At(s, p)  == {k \in 1..Len(s) : s[k] = p}
Occ(s, p) == Cardinality(At(s, p))

\* The order of sorted_points.h, of any sequence.
InOrder(s) == \A j, k \in 1..Len(s) : j < k => ~Behind(s[j], s[k])

\* What the steps keep: also that a list that was destroyed is empty.
PointInv ==
    /\ list \in Seq(Points)
    /\ misplaced \in BOOLEAN
    /\ held = [p \in Points |-> Occ(list, p)]
    /\ heap = 1 + 2 * Len(list) \/ (heap = 0 /\ list = <<>>)
    /\ ~misplaced => InOrder(list)

-----------------------------------------------------------------------------
(* The order of points.                                                    *)

\* The distance of a point is an integer, its coordinates are.
LEMMA PointTypes ==
  ASSUME NEW p \in Points
  PROVE  /\ p[1] \in Int /\ p[2] \in Int /\ Distance2(p) \in Int
         /\ p = <<p[1], p[2]>>
<1>1. PICK x \in Coords, y \in Coords : p = <<x, y>>
  BY DEF Points
<1>2. x \in Int /\ y \in Int
  BY PointsAssumption
<1>3. x * x \in Int /\ y * y \in Int
  BY <1>2
<1>4. x * x + y * y \in Int
  BY <1>3
<1> QED BY <1>1, <1>2, <1>4 DEF Distance2

\* The order as returnPrev spells it out: by distance, then x, then y.
LEMMA BehindIs ==
  ASSUME NEW p \in Points, NEW q \in Points
  PROVE  Behind(p, q) <=> \/ Distance2(p) > Distance2(q)
                          \/ Distance2(p) = Distance2(q) /\ p[1] > q[1]
                          \/ Distance2(p) = Distance2(q) /\ p[1] = q[1] /\ p[2] > q[2]
<1>1. Distance2(p) \in Int /\ Distance2(q) \in Int
  BY PointTypes
<1> QED BY <1>1 DEF Behind, point_compare

\* It is a strict total order.
LEMMA BehindOrders ==
  ASSUME NEW p \in Points, NEW q \in Points, NEW r \in Points
  PROVE  /\ Behind(p, q) => ~Behind(q, p)
         /\ ~Behind(p, q) /\ ~Behind(q, p) => p = q
         /\ ~Behind(p, q) /\ ~Behind(q, r) => ~Behind(p, r)
<1> DEFINE d == Distance2(p)
           e == Distance2(q)
           f == Distance2(r)
<1>1. /\ p[1] \in Int /\ p[2] \in Int /\ d \in Int /\ p = <<p[1], p[2]>>
      /\ q[1] \in Int /\ q[2] \in Int /\ e \in Int /\ q = <<q[1], q[2]>>
      /\ r[1] \in Int /\ r[2] \in Int /\ f \in Int
  BY PointTypes
<1>2. /\ Behind(p, q) <=> d > e \/ (d = e /\ p[1] > q[1]) \/ (d = e /\ p[1] = q[1] /\ p[2] > q[2])
      /\ Behind(q, p) <=> e > d \/ (e = d /\ q[1] > p[1]) \/ (e = d /\ q[1] = p[1] /\ q[2] > p[2])
      /\ Behind(q, r) <=> e > f \/ (e = f /\ q[1] > r[1]) \/ (e = f /\ q[1] = r[1] /\ q[2] > r[2])
      /\ Behind(p, r) <=> d > f \/ (d = f /\ p[1] > r[1]) \/ (d = f /\ p[1] = r[1] /\ p[2] > r[2])
  BY BehindIs
<1> HIDE DEF d, e, f
<1>3. Behind(p, q) => ~Behind(q, p)
  BY <1>1, <1>2
<1>4. ASSUME ~Behind(p, q), ~Behind(q, p) PROVE p = q
  <2>1. p[1] = q[1] /\ p[2] = q[2]
    BY <1>1, <1>2, <1>4
  <2> QED BY <1>1, <2>1
<1>5. ~Behind(p, q) /\ ~Behind(q, r) => ~Behind(p, r)
  BY <1>1, <1>2
<1> QED BY <1>3, <1>4, <1>5

-----------------------------------------------------------------------------
(* Occurrences.                                                            *)

\* The positions of a point are finitely many.
LEMMA AtFinite ==
  ASSUME NEW s \in Seq(Points), NEW p
  PROVE  /\ IsFiniteSet(At(s, p)) /\ Occ(s, p) \in Nat
         /\ Occ(s, p) > 0 <=> \E k \in 1..Len(s) : s[k] = p
<1>1. IsFiniteSet(1..Len(s))
  <2>1. Len(s) \in Int
    BY LenProperties
  <2> QED BY <2>1, FS_Interval
<1>2. IsFiniteSet(At(s, p))
  BY <1>1, FS_Subset DEF At
<1>3. Occ(s, p) \in Nat /\ (Occ(s, p) = 0 <=> At(s, p) = {})
  BY <1>2, FS_CardinalityType, FS_EmptySet DEF Occ
<1> QED BY <1>2, <1>3 DEF At

\* The empty list holds nothing.
LEMMA NoneIn ==
  ASSUME NEW p
  PROVE  <<>> \in Seq(Points) /\ Len(<<>>) = 0 /\ Occ(<<>>, p) = 0
<1>1. PICK t : t = <<>>
  OBVIOUS
<1>2. t \in Seq(Points) /\ Len(t) = 0
  BY <1>1
<1>3. At(t, p) = {}
  BY <1>2 DEF At
<1>4. Occ(t, p) = 0
  BY <1>3, FS_EmptySet DEF Occ
<1> QED BY <1>1, <1>2, <1>4

\* t is s with one more element, at position i.
OneMore(s, t, i) ==
    /\ i \in 1..Len(t) /\ Len(t) = Len(s) + 1
    /\ \A j \in 1..Len(s) : s[j] = t[IF j < i THEN j ELSE j + 1]

\* One more element occurs once more.
LEMMA OneMoreOcc ==
  ASSUME NEW s \in Seq(Points), NEW t \in Seq(Points), NEW i, OneMore(s, t, i), NEW p
  PROVE  Occ(t, p) = Occ(s, p) + (IF t[i] = p THEN 1 ELSE 0)
<1> DEFINE B == At(t, p) \ {i}
           f == [j \in At(s, p) |-> IF j < i THEN j ELSE j + 1]
<1>1. PICK n \in Nat : n = Len(s) /\ Len(t) = n + 1 /\ i \in 1..n + 1
  BY LenProperties DEF OneMore
<1>2. \A j \in 1..n : s[j] = t[IF j < i THEN j ELSE j + 1]
  BY <1>1 DEF OneMore
<1>3. f \in [At(s, p) -> B]
  BY <1>1, <1>2 DEF At
<1>4. f \in Injection(At(s, p), B)
  <2> SUFFICES ASSUME NEW a \in At(s, p), NEW b \in At(s, p), f[a] = f[b]
               PROVE  a = b
    BY <1>3, Zenon DEF Injection, IsInjective
  <2>1. a \in Nat /\ b \in Nat /\ i \in Nat
    BY <1>1 DEF At
  <2> QED BY <2>1
<1>5. f \in Surjection(At(s, p), B)
  <2> SUFFICES ASSUME NEW b \in B PROVE \E a \in At(s, p) : f[a] = b
    BY <1>3, Zenon DEF Surjection
  <2>1. b \in Nat /\ i \in Nat /\ b # i /\ b \in 1..n + 1 /\ t[b] = p
    BY <1>1 DEF At
  <2>2. CASE b < i
    <3>1. b \in 1..n /\ s[b] = p
      BY <1>1, <1>2, <2>1, <2>2
    <3> QED BY <1>1, <2>2, <3>1 DEF At
  <2>3. CASE b > i
    <3>1. b - 1 \in 1..n /\ ~(b - 1 < i) /\ (b - 1) + 1 = b
      BY <1>1, <2>1, <2>3
    <3>2. s[b - 1] = p
      BY <1>2, <2>1, <3>1
    <3> QED BY <1>1, <3>1, <3>2 DEF At
  <2> QED BY <2>1, <2>2, <2>3
<1>6. IsFiniteSet(At(s, p)) /\ IsFiniteSet(At(t, p)) /\ Occ(s, p) \in Nat /\ Occ(t, p) \in Nat
  BY AtFinite
<1>7. Cardinality(B) = Occ(s, p)
  <2>1. ExistsBijection(At(s, p), B)
    BY <1>4, <1>5 DEF ExistsBijection, Bijection
  <2> QED BY <1>6, <2>1, FS_Bijection DEF Occ
<1>8. Cardinality(B) = IF i \in At(t, p) THEN Occ(t, p) - 1 ELSE Occ(t, p)
  BY <1>6, FS_RemoveElement DEF Occ
<1>9. i \in At(t, p) <=> t[i] = p
  BY <1>1 DEF At
<1> QED BY <1>6, <1>7, <1>8, <1>9

-----------------------------------------------------------------------------
(* Adding a point.                                                         *)

\* The list with p put in at position i.
LEMMA InsertedAt ==
  ASSUME NEW s \in Seq(Points), NEW i \in 1..Len(s) + 1, NEW p \in Points
  PROVE  /\ InsertAt(s, i, p) \in Seq(Points) /\ InsertAt(s, i, p)[i] = p
         /\ OneMore(s, InsertAt(s, i, p), i)
<1> DEFINE front == SubSeq(s, 1, i - 1)
           back  == SubSeq(s, i, Len(s))
           t     == (front \o <<p>>) \o back
<1>1. PICK n \in Nat : n = Len(s) /\ i \in 1..n + 1 /\ i \in Nat
  BY LenProperties
<1>2. \A j \in 1..n : s[j] \in Points
  BY <1>1, ElementOfSeq
<1>3. /\ front \in Seq(Points) /\ Len(front) = i - 1
      /\ \A j \in 1..i - 1 : front[j] = s[j]
  <2>1. PICK m \in Int : m = i - 1
    BY <1>1
  <2>2. \A j \in 1..m : s[j] \in Points
    BY <1>1, <1>2, <2>1
  <2>3. /\ SubSeq(s, 1, m) \in Seq(Points)
        /\ Len(SubSeq(s, 1, m)) = IF 1 <= m THEN m - 1 + 1 ELSE 0
        /\ \A j \in 1..m - 1 + 1 : SubSeq(s, 1, m)[j] = s[1 + j - 1]
    BY <2>2, SubSeqProperties
  <2>4. ASSUME NEW j \in 1..i - 1 PROVE j \in 1..m - 1 + 1 /\ 1 + j - 1 = j
    BY <1>1, <2>1
  <2> QED BY <1>1, <2>1, <2>3, <2>4
<1>4. /\ back \in Seq(Points) /\ Len(back) = n - i + 1
      /\ \A j \in 1..n - i + 1 : back[j] = s[i + j - 1]
  <2>1. \A j \in i..n : s[j] \in Points
    BY <1>1, <1>2
  <2>2. /\ SubSeq(s, i, n) \in Seq(Points)
        /\ Len(SubSeq(s, i, n)) = IF i <= n THEN n - i + 1 ELSE 0
        /\ \A j \in 1..n - i + 1 : SubSeq(s, i, n)[j] = s[i + j - 1]
    BY <1>1, <2>1, SubSeqProperties
  <2> QED BY <1>1, <2>2
<1> HIDE DEF front, back
<1>5. <<p>> \in Seq(Points) /\ Len(<<p>>) = 1 /\ <<p>>[1] = p
  OBVIOUS
<1>6. PICK u : u = front \o <<p>>
  OBVIOUS
<1>7. /\ u \in Seq(Points) /\ Len(u) = i /\ u[i] = p
      /\ \A j \in 1..i - 1 : u[j] = s[j]
  <2>1. /\ u \in Seq(Points) /\ Len(u) = (i - 1) + 1
        /\ \A j \in 1..(i - 1) + 1 : u[j] = IF j <= i - 1 THEN front[j] ELSE <<p>>[j - (i - 1)]
    BY <1>3, <1>5, <1>6, ConcatProperties
  <2> QED BY <1>1, <1>3, <1>5, <2>1
<1>8. /\ t \in Seq(Points) /\ Len(t) = i + (n - i + 1)
      /\ \A j \in 1..i + (n - i + 1) : t[j] = IF j <= i THEN u[j] ELSE back[j - i]
  <2>1. /\ u \o back \in Seq(Points) /\ Len(u \o back) = Len(u) + Len(back)
        /\ \A j \in 1..Len(u) + Len(back) :
              (u \o back)[j] = IF j <= Len(u) THEN u[j] ELSE back[j - Len(u)]
    BY <1>4, <1>7, ConcatProperties
  <2> QED BY <1>4, <1>6, <1>7, <2>1
<1> HIDE DEF t
<1>9. Len(t) = n + 1 /\ i \in 1..Len(t) /\ t[i] = p
  BY <1>1, <1>7, <1>8
<1>10. ASSUME NEW j \in 1..n PROVE s[j] = t[IF j < i THEN j ELSE j + 1]
  <2>1. CASE j < i
    <3>1. j \in 1..i - 1 /\ j \in 1..i + (n - i + 1) /\ j <= i
      BY <1>1, <2>1
    <3> QED BY <1>7, <1>8, <2>1, <3>1
  <2>2. CASE ~(j < i)
    <3>1. /\ j + 1 \in 1..i + (n - i + 1) /\ ~(j + 1 <= i)
          /\ (j + 1) - i \in 1..n - i + 1 /\ i + ((j + 1) - i) - 1 = j
      BY <1>1, <2>2
    <3>2. t[j + 1] = back[(j + 1) - i]
      BY <1>8, <3>1
    <3>3. back[(j + 1) - i] = s[i + ((j + 1) - i) - 1]
      BY <1>4, <3>1
    <3> QED BY <2>2, <3>1, <3>2, <3>3
  <2> QED BY <2>1, <2>2
<1>11. InsertAt(s, i, p) = t
  BY DEF InsertAt, t, front, back
<1> QED BY <1>1, <1>8, <1>9, <1>10, <1>11 DEF OneMore

\* returnPrev stops at a node: those after the head up to it come before p,
\* the next does not.
LEMMA ReturnPrevStops ==
  ASSUME NEW p \in Points, list \in Seq(Points), list # <<>>
  PROVE  LET k == ReturnPrev(p)
         IN  /\ k \in 1..Len(list)
             /\ \A j \in 2..k : Behind(p, list[j])
             /\ k < Len(list) => ~Behind(p, list[k + 1])
<1> DEFINE S == {k \in 1..Len(list) : k < Len(list) => ~Behind(p, list[k + 1])}
<1>1. Len(list) \in Nat /\ Len(list) >= 1
  BY LenProperties, EmptySeq
<1>2. Len(list) \in S /\ S \subseteq Nat
  BY <1>1
<1>3. PICK k \in S : \A y \in S : k <= y
  BY <1>2, LeastNatural
<1>4. ASSUME NEW j \in 2..k PROVE Behind(p, list[j])
  <2>1. j - 1 \in 1..Len(list) /\ j - 1 < Len(list) /\ ~(k <= j - 1) /\ (j - 1) + 1 = j
    BY <1>1, <1>2
  <2>2. j - 1 \notin S
    BY <1>3, <2>1
  <2> QED BY <2>1, <2>2
<1>5. \E m \in 1..Len(list) : /\ \A j \in 2..m : Behind(p, list[j])
                              /\ m < Len(list) => ~Behind(p, list[m + 1])
  BY <1>4
<1> QED BY <1>5 DEF ReturnPrev

\* A list in order stays so when p is put where sp_add_point puts it, unless
\* it goes before a head it belongs behind.
LEMMA AddKeepsOrder ==
  ASSUME NEW p \in Points, list \in Seq(Points), InOrder(list), NEW t \in Seq(Points),
         OneMore(list, t, Place(p)), t[Place(p)] = p,
         ~(Place(p) = 1 /\ list # <<>> /\ Behind(p, list[1]))
  PROVE  InOrder(t)
<1>1. PICK i, n \in Nat : i = Place(p) /\ n = Len(list) /\ Len(t) = n + 1 /\ i \in 1..n + 1
  BY LenProperties DEF OneMore
<1>2. /\ \A j \in 1..n : list[j] \in Points
      /\ \A j \in 1..n + 1 : t[j] \in Points
  BY <1>1, ElementOfSeq
<1>3. \A j \in 1..n : list[j] = t[IF j < i THEN j ELSE j + 1]
  BY <1>1 DEF OneMore
<1>4. ASSUME NEW j \in 1..n, j < i PROVE ~Behind(list[j], p)
  <2>1. list # <<>>
    BY <1>1, <1>4, EmptySeq
  <2>2. PICK k : /\ k = ReturnPrev(p) /\ k \in 1..n
                 /\ \A m \in 2..k : Behind(p, list[m])
    BY <1>1, <2>1, ReturnPrevStops
  <2>3. i = k + 1 /\ k > 1
    BY <1>1, <1>4, <2>2 DEF Place
  <2>4. ASSUME NEW m \in 2..k PROVE ~Behind(list[m], p)
    <3>1. m \in 1..n /\ Behind(p, list[m])
      BY <1>1, <2>2
    <3> QED BY <1>2, <3>1, BehindOrders
  <2>5. CASE j = 1
    <3>1. 1 \in 1..n /\ 2 \in 1..n /\ 2 \in 2..k
      BY <1>1, <2>2, <2>3
    <3>2. ~Behind(list[1], list[2])
      BY <1>1, <3>1 DEF InOrder
    <3> QED BY <1>2, <2>4, <2>5, <3>1, <3>2, BehindOrders
  <2>6. CASE j # 1
    <3>1. j \in 2..k
      BY <1>1, <1>4, <2>2, <2>3, <2>6
    <3> QED BY <2>4, <3>1
  <2> QED BY <2>5, <2>6
<1>5. ASSUME NEW j \in 1..n, ~(j < i) PROVE ~Behind(p, list[j])
  <2>1. list # <<>>
    BY <1>1, <1>5, EmptySeq
  <2>2. PICK k : /\ k = ReturnPrev(p) /\ k \in 1..n
                 /\ k < n => ~Behind(p, list[k + 1])
    BY <1>1, <2>1, ReturnPrevStops
  <2>3. ~Behind(p, list[i]) /\ i \in 1..n
    <3>1. CASE k <= 1
      BY <1>1, <2>1, <2>2, <3>1 DEF Place
    <3>2. CASE k > 1
      <4>1. i = k + 1
        BY <1>1, <2>2, <3>2 DEF Place
      <4> QED BY <1>1, <1>5, <2>2, <4>1
    <3> QED BY <2>2, <3>1, <3>2
  <2>4. CASE j = i
    BY <2>3, <2>4
  <2>5. CASE j > i
    <3>1. ~Behind(list[i], list[j])
      BY <1>1, <2>3, <2>5 DEF InOrder
    <3> QED BY <1>2, <2>3, <3>1, BehindOrders
  <2> QED BY <1>1, <1>5, <2>4, <2>5
<1>6. ASSUME NEW a \in 1..n + 1, NEW b \in 1..n + 1, a < b PROVE ~Behind(t[a], t[b])
  <2>1. ASSUME NEW x \in 1..n + 1, x < i PROVE x \in 1..n /\ t[x] = list[x]
    BY <1>1, <1>3, <2>1
  <2>2. ASSUME NEW x \in 1..n + 1, x > i
        PROVE  x - 1 \in 1..n /\ ~(x - 1 < i) /\ t[x] = list[x - 1]
    <3>1. x - 1 \in 1..n /\ ~(x - 1 < i) /\ (x - 1) + 1 = x
      BY <1>1, <2>2
    <3> QED BY <1>3, <3>1
  <2>3. CASE b < i
    <3>1. a < i
      BY <1>1, <1>6, <2>3
    <3> QED BY <1>1, <1>6, <2>1, <2>3, <3>1 DEF InOrder
  <2>4. CASE b = i
    BY <1>1, <1>4, <1>6, <2>1, <2>4
  <2>5. CASE b > i /\ a < i
    <3>1. a < b - 1
      BY <1>1, <2>5
    <3> QED BY <1>1, <2>1, <2>2, <2>5, <3>1 DEF InOrder
  <2>6. CASE b > i /\ a = i
    BY <1>1, <1>5, <2>2, <2>6
  <2>7. CASE a > i
    <3>1. b > i /\ a - 1 < b - 1
      BY <1>1, <1>6, <2>7
    <3> QED BY <1>1, <2>2, <2>7, <3>1 DEF InOrder
  <2> QED BY <1>1, <1>6, <2>3, <2>4, <2>5, <2>6, <2>7
<1> QED BY <1>1, <1>6 DEF InOrder

-----------------------------------------------------------------------------
(* Taking points out.                                                      *)

\* A list without one of its elements.
LEMMA RemovedAt ==
  ASSUME NEW s \in Seq(Points), NEW i \in 1..Len(s)
  PROVE  /\ RemoveAt(s, i) \in Seq(Points) /\ OneMore(RemoveAt(s, i), s, i)
         /\ InOrder(s) => InOrder(RemoveAt(s, i))
<1> DEFINE r == RemoveAt(s, i)
<1>1. PICK n \in Nat : n = Len(s) /\ i \in 1..n
  BY LenProperties
<1>2. /\ r \in Seq(Points) /\ Len(r) = n - 1
      /\ \A j \in 1..n - 1 : r[j] = IF j < i THEN s[j] ELSE s[j + 1]
  BY <1>1, RemoveAtProperties
<1> HIDE DEF r
<1>3. OneMore(r, s, i)
  BY <1>1, <1>2 DEF OneMore
<1>4. ASSUME InOrder(s) PROVE InOrder(r)
  <2> SUFFICES ASSUME NEW a \in 1..n - 1, NEW b \in 1..n - 1, a < b
               PROVE  ~Behind(r[a], r[b])
    BY <1>2 DEF InOrder
  <2>1. PICK c, d \in 1..n : c < d /\ r[a] = s[c] /\ r[b] = s[d]
    <3>1. /\ a \in 1..n /\ b \in 1..n /\ a + 1 \in 1..n /\ b + 1 \in 1..n
          /\ a < b + 1 /\ a + 1 < b + 1 /\ b < i => a < i
      BY <1>1
    <3>2. CASE b < i
      BY <1>2, <3>1, <3>2
    <3>3. CASE ~(b < i) /\ a < i
      <4>1. r[a] = s[a] /\ r[b] = s[b + 1]
        BY <1>2, <3>3
      <4> QED BY <3>1, <4>1
    <3>4. CASE ~(b < i) /\ ~(a < i)
      <4>1. r[a] = s[a + 1] /\ r[b] = s[b + 1]
        BY <1>2, <3>4
      <4> QED BY <3>1, <4>1
    <3> QED BY <3>2, <3>3, <3>4, <3>1
  <2> QED BY <1>1, <1>4, <2>1 DEF InOrder
<1> QED BY <1>2, <1>3, <1>4 DEF r

-----------------------------------------------------------------------------
(* Deleting duplicates.                                                    *)

\* Which of the kept elements j is.
Rank(D, j) == Cardinality(D \cap 1..j)

\* Positions have distinct ranks, in their order, from 1 to their number.
LEMMA Ranks ==
  ASSUME NEW n \in Nat, NEW D, D \subseteq 1..n
  PROVE  /\ Cardinality(D) \in Nat
         /\ \A j \in D : Rank(D, j) \in 1..Cardinality(D)
         /\ \A i, j \in D : i < j => Rank(D, i) < Rank(D, j)
         /\ \A k \in 1..Cardinality(D) : \E j \in D : Rank(D, j) = k
<1>1. IsFiniteSet(D) /\ D \subseteq Nat
  <2>1. IsFiniteSet(1..n)
    BY FS_Interval
  <2>2. D \in SUBSET (1..n) /\ D \subseteq Nat
    OBVIOUS
  <2> QED BY <2>1, <2>2, FS_Subset
<1>2. PICK c \in Nat : c = Cardinality(D)
  BY <1>1, FS_CardinalityType
<1>3. ASSUME NEW j \in D
      PROVE  /\ IsFiniteSet(D \cap 1..j) /\ Rank(D, j) \in Nat
             /\ Rank(D, j) <= c /\ j \in D \cap 1..j /\ Rank(D, j) # 0
  <2>1. /\ IsFiniteSet(D \cap 1..j)
        /\ Cardinality(D \cap 1..j) <= Cardinality(D)
    BY <1>1, FS_Subset
  <2>2. j \in D \cap 1..j
    OBVIOUS
  <2>3. Cardinality(D \cap 1..j) \in Nat /\ Cardinality(D \cap 1..j) # 0
    BY <2>1, <2>2, FS_CardinalityType, FS_EmptySet
  <2> QED BY <1>2, <2>1, <2>2, <2>3 DEF Rank
<1>4. ASSUME NEW i \in D, NEW j \in D, i < j PROVE Rank(D, i) < Rank(D, j)
  <2> DEFINE A == D \cap 1..i
             B == D \cap 1..j
  <2>1. A \subseteq B /\ j \in B /\ j \notin A
    BY <1>1, <1>4
  <2>2. IsFiniteSet(B) /\ Rank(D, i) = Cardinality(A) /\ Rank(D, j) = Cardinality(B)
    BY <1>3 DEF Rank
  <2>3. Cardinality(A) <= Cardinality(B) /\ (Cardinality(B) = Cardinality(A) => B = A)
    BY <2>1, <2>2, FS_Subset
  <2>4. Cardinality(A) # Cardinality(B)
    BY <2>1, <2>3
  <2>5. Rank(D, i) \in Nat /\ Rank(D, j) \in Nat
    BY <1>3
  <2> QED BY <2>2, <2>3, <2>4, <2>5
<1>5. ASSUME NEW j \in D PROVE Rank(D, j) \in 1..c
  <2>1. Rank(D, j) \in Nat /\ Rank(D, j) <= c /\ Rank(D, j) # 0
    BY <1>3
  <2> QED BY <1>2, <2>1
<1>6. ASSUME NEW k \in 1..c PROVE \E j \in D : Rank(D, j) = k
  <2> DEFINE f == [j \in D |-> Rank(D, j)]
  <2>1. f \in [D -> 1..c]
    BY <1>5
  <2>2. f \in Injection(D, 1..c)
    <3> SUFFICES ASSUME NEW x \in D, NEW y \in D, f[x] = f[y] PROVE x = y
      BY <2>1, Zenon DEF Injection, IsInjective
    <3>1. x \in Nat /\ y \in Nat /\ Rank(D, x) = Rank(D, y) /\ Rank(D, x) \in Nat
      BY <1>1, <1>3
    <3> QED BY <1>4, <3>1
  <2>3. IsFiniteSet(1..c) /\ Cardinality(1..c) = c
    BY <1>2, FS_Interval
  <2>4. f \in Surjection(D, 1..c)
    BY <1>2, <2>2, <2>3, FS_Injection
  <2>5. \A y \in 1..c : \E x \in D : f[x] = y
    BY <2>4, Zenon DEF Surjection
  <2> QED BY <2>5
<1> QED BY <1>2, <1>4, <1>5, <1>6

\* The kept elements are those of Distinct, in their order.
LEMMA KeptOnes ==
  ASSUME list \in Seq(Points)
  PROVE  /\ Distinct \subseteq 1..Len(list) /\ Cardinality(Distinct) \in Nat
         /\ \A k \in 1..Cardinality(Distinct) : KeptAt(k) \in Distinct
         /\ \A j, k \in 1..Cardinality(Distinct) : j < k => KeptAt(j) < KeptAt(k)
         /\ \A j \in Distinct : \E k \in 1..Cardinality(Distinct) : KeptAt(k) = j
<1>1. PICK n \in Nat : n = Len(list)
  BY LenProperties
<1>2. PICK D : D = Distinct
  OBVIOUS
<1>3. D \subseteq 1..n /\ D \subseteq Nat
  BY <1>1, <1>2 DEF Distinct
<1>4. PICK c : c = Cardinality(D)
  OBVIOUS
<1>5. /\ c \in Nat
      /\ \A j \in D : Rank(D, j) \in 1..c
      /\ \A i, j \in D : i < j => Rank(D, i) < Rank(D, j)
      /\ \A k \in 1..c : \E j \in D : Rank(D, j) = k
  BY <1>3, <1>4, Ranks
<1>6. ASSUME NEW k \in 1..c PROVE KeptAt(k) \in D /\ Rank(D, KeptAt(k)) = k
  <2>1. KeptAt(k) = CHOOSE j \in D : Rank(D, j) = k
    BY <1>2 DEF KeptAt, Rank
  <2> QED BY <1>5, <2>1
<1>7. ASSUME NEW j \in 1..c, NEW k \in 1..c, j < k PROVE KeptAt(j) < KeptAt(k)
  <2>1. PICK x \in D, y \in D : /\ x = KeptAt(j) /\ y = KeptAt(k)
                                /\ Rank(D, x) = j /\ Rank(D, y) = k
    BY <1>6
  <2>2. x \in Nat /\ y \in Nat /\ j \in Nat /\ k \in Nat
    BY <1>3
  <2>3. x # y /\ ~(y < x)
    BY <1>5, <1>7, <2>1, <2>2
  <2> QED BY <2>1, <2>2, <2>3
<1>8. ASSUME NEW j \in D PROVE \E k \in 1..c : KeptAt(k) = j
  <2>1. PICK k \in 1..c : k = Rank(D, j)
    BY <1>5
  <2>2. PICK y \in D : y = KeptAt(k) /\ Rank(D, y) = k
    BY <1>6
  <2>3. y \in Nat /\ j \in Nat /\ k \in Nat
    BY <1>3
  <2>4. y = j
    BY <1>5, <2>1, <2>2, <2>3
  <2> QED BY <2>2, <2>4
<1> QED BY <1>1, <1>2, <1>3, <1>4, <1>6, <1>7, <1>8, <1>5

\* What sp_delete_duplicates leaves: the list stays in order, and then holds
\* one of each of its points; it loses no point altogether.
LEMMA OneOfEach ==
  ASSUME list \in Seq(Points), NEW t, NEW c, c = Cardinality(Distinct),
         t = [k \in 1..c |-> list[KeptAt(k)]]
  PROVE  /\ t \in Seq(Points) /\ Len(t) = c
         /\ InOrder(list) => InOrder(t)
         /\ InOrder(list) =>
               \A p \in Points : Occ(t, p) = IF Occ(list, p) = 0 THEN 0 ELSE 1
<1>1. PICK n \in Nat : n = Len(list)
  BY LenProperties
<1>2. /\ Distinct \subseteq 1..n /\ c \in Nat
      /\ \A k \in 1..c : KeptAt(k) \in Distinct
      /\ \A j, k \in 1..c : j < k => KeptAt(j) < KeptAt(k)
      /\ \A j \in Distinct : \E k \in 1..c : KeptAt(k) = j
  BY <1>1, KeptOnes
<1>3. \A j \in 1..n : list[j] \in Points
  BY <1>1, ElementOfSeq
<1>4. t \in Seq(Points) /\ Len(t) = c /\ \A k \in 1..c : t[k] = list[KeptAt(k)]
  <2>1. ASSUME NEW k \in 1..c PROVE list[KeptAt(k)] \in Points
    BY <1>2, <1>3
  <2>2. t \in [1..c -> Points]
    BY <2>1
  <2>3. t \in Seq(Points)
    BY <1>2, <2>2
  <2>4. DOMAIN t = 1..c
    BY <2>2
  <2>5. Len(t) = c
    BY <1>2, <2>3, <2>4, LenProperties
  <2> QED BY <2>3, <2>5
<1>5. ASSUME InOrder(list) PROVE InOrder(t)
  <2> SUFFICES ASSUME NEW j \in 1..c, NEW k \in 1..c, j < k PROVE ~Behind(t[j], t[k])
    BY <1>4 DEF InOrder
  <2>1. PICK x \in 1..n, y \in 1..n : x = KeptAt(j) /\ y = KeptAt(k) /\ x < y
    BY <1>2
  <2> QED BY <1>1, <1>4, <1>5, <2>1 DEF InOrder
<1>6. ASSUME InOrder(list), NEW p \in Points
      PROVE  Occ(t, p) = IF Occ(list, p) = 0 THEN 0 ELSE 1
  <2>1. /\ Occ(list, p) \in Nat /\ Occ(t, p) \in Nat
        /\ Occ(list, p) > 0 <=> \E k \in 1..n : list[k] = p
        /\ Occ(t, p) > 0 <=> \E k \in 1..c : t[k] = p
    <3>1. Occ(list, p) \in Nat /\ (Occ(list, p) > 0 <=> \E k \in 1..n : list[k] = p)
      BY <1>1, AtFinite
    <3>2. Occ(t, p) \in Nat /\ (Occ(t, p) > 0 <=> \E k \in 1..Len(t) : t[k] = p)
      BY <1>4, AtFinite
    <3> QED BY <1>4, <3>1, <3>2
  <2>2. CASE Occ(list, p) = 0
    <3>1. ASSUME NEW k \in 1..c PROVE t[k] # p
      <4>1. KeptAt(k) \in 1..n /\ t[k] = list[KeptAt(k)]
        BY <1>2, <1>4
      <4> QED BY <2>1, <2>2, <4>1
    <3> QED BY <2>1, <2>2, <3>1
  <2>3. CASE Occ(list, p) # 0
    <3> DEFINE S == At(list, p)
    <3>1. S # {} /\ S \subseteq Nat
      BY <1>1, <2>1, <2>3 DEF At
    <3>2. PICK m \in S : \A y \in S : m <= y
      BY <3>1, LeastNatural
    <3>3. m \in 1..n /\ list[m] = p
      BY <1>1, <3>2 DEF At
    <3>4. m \in Distinct
      <4>1. ASSUME m # 1 PROVE list[m] # list[m - 1]
        <5>1. m - 1 \in 1..n /\ ~(m <= m - 1)
          BY <3>3, <4>1
        <5>2. m - 1 \notin S
          BY <3>2, <5>1
        <5> QED BY <1>1, <3>3, <5>1, <5>2 DEF At
      <4> QED BY <1>1, <3>3, <4>1 DEF Distinct
    <3>5. ASSUME NEW d \in Distinct, list[d] = p PROVE d = m
      <4>1. d \in 1..n /\ m <= d
        BY <1>1, <1>2, <3>2, <3>5 DEF At
      <4>2. ASSUME d # m PROVE FALSE
        <5>1. d - 1 \in 1..n /\ m <= d - 1 /\ d - 1 < d /\ d # 1
          BY <3>3, <4>1, <4>2
        <5>2. list[d - 1] # p
          BY <3>5, <5>1 DEF Distinct
        <5>3. m < d - 1
          BY <3>3, <4>1, <5>1, <5>2
        <5>4. ~Behind(list[m], list[d - 1]) /\ ~Behind(list[d - 1], list[d])
          BY <1>1, <1>6, <3>3, <4>1, <5>1, <5>3 DEF InOrder
        <5>5. ~Behind(p, list[d - 1]) /\ ~Behind(list[d - 1], p) /\ list[d - 1] \in Points
          BY <1>3, <3>3, <3>5, <5>1, <5>4
        <5> QED BY <5>2, <5>5, BehindOrders
      <4> QED BY <4>2
    <3>6. PICK k \in 1..c : KeptAt(k) = m
      BY <1>2, <3>4
    <3>7. At(t, p) = {k}
      <4>1. k \in At(t, p)
        BY <1>4, <3>3, <3>6 DEF At
      <4>2. ASSUME NEW x \in At(t, p) PROVE x = k
        <5>1. x \in 1..c /\ list[KeptAt(x)] = p /\ KeptAt(x) \in Distinct
          BY <1>2, <1>4, <4>2 DEF At
        <5>2. KeptAt(x) = m
          BY <3>5, <5>1
        <5>3. m \in Nat /\ x \in Nat /\ k \in Nat /\ ~(m < m)
          BY <3>3, <5>1
        <5>4. ~(x < k) /\ ~(k < x)
          BY <1>2, <3>6, <5>1, <5>2, <5>3
        <5> QED BY <5>3, <5>4
      <4> QED BY <4>1, <4>2
    <3>8. Occ(t, p) = 1
      BY <3>7, FS_Singleton DEF Occ
    <3> QED BY <2>3, <3>8
  <2> QED BY <2>2, <2>3
<1> QED BY <1>4, <1>5, <1>6

-----------------------------------------------------------------------------
(* The steps.                                                              *)

\* Taking element k out keeps the invariant.
LEMMA TakeStep ==
  ASSUME PointInv, Alive, list # <<>>, NEW k \in 1..Len(list), Take(k)
  PROVE  PointInv'
<1>1. /\ list \in Seq(Points) /\ heap = 1 + 2 * Len(list)
      /\ held = [p \in Points |-> Occ(list, p)]
      /\ misplaced' = misplaced /\ list' = RemoveAt(list, k) /\ heap' = heap - 2
      /\ held' = [held EXCEPT ![list[k]] = @ - 1] /\ list[k] \in Points
  BY ElementOfSeq DEF PointInv, Alive, Take
<1>2. PICK t : t = list'
  OBVIOUS
<1>3. /\ t \in Seq(Points) /\ OneMore(t, list, k)
      /\ InOrder(list) => InOrder(t)
  BY <1>1, <1>2, RemovedAt
<1>4. ASSUME NEW p \in Points
      PROVE  Occ(t, p) = IF p = list[k] THEN Occ(list, p) - 1 ELSE Occ(list, p)
  <2>1. Occ(list, p) = Occ(t, p) + (IF list[k] = p THEN 1 ELSE 0)
    BY <1>1, <1>3, OneMoreOcc
  <2>2. Occ(t, p) \in Nat
    BY <1>3, AtFinite
  <2> QED BY <2>1, <2>2
<1>5. held' = [p \in Points |-> Occ(t, p)]
  BY <1>1, <1>4
<1>6. Len(list) \in Nat /\ Len(t) \in Nat /\ Len(list) = Len(t) + 1
  BY <1>1, <1>3, LenProperties DEF OneMore
<1>7. heap' = 1 + 2 * Len(t)
  BY <1>1, <1>6
<1>8. list' \in Seq(Points) /\ (InOrder(list) => InOrder(list'))
  BY <1>2, <1>3
<1> QED BY <1>1, <1>2, <1>5, <1>7, <1>8 DEF PointInv, InOrder, Behind, point_compare, Distance2

\* Adding p keeps the invariant.
LEMMA AddStep ==
  ASSUME PointInv, NEW p \in Points, sp_add_point(p)
  PROVE  PointInv'
<1>1. /\ list \in Seq(Points) /\ heap = 1 + 2 * Len(list) /\ misplaced \in BOOLEAN
      /\ held = [q \in Points |-> Occ(list, q)]
      /\ list' = InsertAt(list, Place(p), p) /\ heap' = heap + 2
      /\ held' = [held EXCEPT ![p] = @ + 1]
      /\ misplaced' = (misplaced \/ (Place(p) = 1 /\ list # <<>> /\ Behind(p, list[1])))
  BY DEF PointInv, Alive, sp_add_point
<1>2. Len(list) \in Nat
  BY <1>1, LenProperties
<1>3. Place(p) \in 1..Len(list) + 1
  <2>1. CASE list = <<>>
    BY <1>2, <2>1 DEF Place, ReturnPrev
  <2>2. CASE list # <<>>
    <3>1. ReturnPrev(p) \in 1..Len(list)
      BY <1>1, <2>2, ReturnPrevStops
    <3> QED BY <1>2, <3>1 DEF Place
  <2> QED BY <2>1, <2>2
<1>4. PICK t : t = list'
  OBVIOUS
<1>5. t \in Seq(Points) /\ t[Place(p)] = p /\ OneMore(list, t, Place(p))
  BY <1>1, <1>3, <1>4, InsertedAt
<1>6. ASSUME NEW q \in Points
      PROVE  Occ(t, q) = IF q = p THEN Occ(list, q) + 1 ELSE Occ(list, q)
  <2>1. Occ(t, q) = Occ(list, q) + (IF t[Place(p)] = q THEN 1 ELSE 0)
    BY <1>1, <1>5, OneMoreOcc
  <2>2. Occ(list, q) \in Nat
    BY <1>1, AtFinite
  <2> QED BY <1>5, <2>1, <2>2
<1>7. held' = [q \in Points |-> Occ(t, q)]
  BY <1>1, <1>6
<1>8. heap' = 1 + 2 * Len(t)
  BY <1>1, <1>2, <1>5 DEF OneMore
<1>9. ASSUME ~misplaced' PROVE InOrder(t)
  <2>1. InOrder(list) /\ ~(Place(p) = 1 /\ list # <<>> /\ Behind(p, list[1]))
    BY <1>1, <1>9 DEF PointInv
  <2> QED BY <1>1, <1>5, <2>1, AddKeepsOrder
<1>10. misplaced' \in BOOLEAN
  BY <1>1
<1> QED BY <1>4, <1>5, <1>7, <1>8, <1>9, <1>10 DEF PointInv, InOrder, Behind, point_compare, Distance2

\* Deleting duplicates keeps the invariant.
LEMMA DuplicatesStep ==
  ASSUME PointInv, sp_delete_duplicates
  PROVE  PointInv'
<1>1. PICK c : c = Cardinality(Distinct)
  OBVIOUS
<1>2. /\ list \in Seq(Points) /\ heap = 1 + 2 * Len(list) /\ misplaced \in BOOLEAN
      /\ held = [p \in Points |-> Occ(list, p)]
      /\ ~misplaced => InOrder(list)
      /\ misplaced' = misplaced
      /\ list' = [k \in 1..c |-> list[KeptAt(k)]]
      /\ heap' = heap - 2 * (Len(list) - c)
      /\ held' = [p \in Points |->
                     IF misplaced THEN Cardinality({k \in 1..c : list'[k] = p})
                     ELSE IF held[p] = 0 THEN 0 ELSE 1]
  BY <1>1 DEF PointInv, Alive, sp_delete_duplicates
<1>3. PICK t : t = list'
  OBVIOUS
<1>4. /\ t \in Seq(Points) /\ Len(t) = c
      /\ InOrder(list) => InOrder(t)
      /\ InOrder(list) =>
            \A p \in Points : Occ(t, p) = IF Occ(list, p) = 0 THEN 0 ELSE 1
  BY <1>1, <1>2, <1>3, OneOfEach
<1>5. Len(list) \in Nat /\ c \in Nat
  BY <1>2, <1>4, LenProperties
<1>6. heap' = 1 + 2 * Len(t)
  BY <1>2, <1>4, <1>5
<1>7. held' = [p \in Points |-> Occ(t, p)]
  <2>1. CASE misplaced
    <3>1. held' = [p \in Points |-> Cardinality({k \in 1..c : t[k] = p})]
      BY <1>2, <1>3, <2>1
    <3> QED BY <1>4, <3>1 DEF Occ, At
  <2>2. CASE ~misplaced
    <3>1. \A p \in Points : Occ(t, p) = IF held[p] = 0 THEN 0 ELSE 1
      BY <1>2, <1>4, <2>2
    <3> QED BY <1>2, <2>2, <3>1
  <2> QED BY <2>1, <2>2
<1>8. misplaced' \in BOOLEAN /\ (~misplaced' => InOrder(list')) /\ list' \in Seq(Points)
  BY <1>2, <1>3, <1>4
<1> QED BY <1>3, <1>6, <1>7, <1>8 DEF PointInv, InOrder, Behind, point_compare, Distance2

\* Every step keeps the invariant.
LEMMA StepKeeps ==
  ASSUME PointInv, [PointNext]_pointVars
  PROVE  PointInv'
<1>1. ASSUME NEW p \in Points, sp_add_point(p) PROVE PointInv'
  BY <1>1, AddStep
<1>2. ASSUME Refuse \/ UNCHANGED <<list, heap, held, misplaced>> PROVE PointInv'
  BY <1>2 DEF Refuse, PointInv, InOrder, Behind, point_compare, Distance2, Occ, At
<1>3. list # <<>> => Len(list) \in Nat /\ 1 \in 1..Len(list) /\ Len(list) \in 1..Len(list)
  BY LenProperties, EmptySeq DEF PointInv
<1>4. ASSUME sp_remove_first PROVE PointInv'
  BY <1>2, <1>3, <1>4, TakeStep DEF sp_remove_first
<1>5. ASSUME sp_remove_last PROVE PointInv'
  BY <1>2, <1>3, <1>5, TakeStep DEF sp_remove_last
<1>6. ASSUME NEW index \in -1..MaxPoints, sp_remove_by_index(index) PROVE PointInv'
  <2>1. CASE list = <<>>
    BY <1>2, <1>6, <2>1 DEF sp_remove_by_index
  <2>2. CASE list # <<>> /\ Len(list) = 1 /\ index # 0
    BY <1>2, <1>6, <2>2 DEF sp_remove_by_index
  <2>3. CASE list # <<>> /\ ~(Len(list) = 1 /\ index # 0) /\ index >= Len(list)
    BY <1>2, <1>6, <2>3 DEF sp_remove_by_index
  <2>4. CASE list # <<>> /\ ~(Len(list) = 1 /\ index # 0) /\ ~(index >= Len(list))
    <3>1. PICK k : /\ k = IF index < 0 THEN 2 ELSE index + 1
                   /\ Take(k) /\ Alive
      BY <1>6, <2>4 DEF sp_remove_by_index
    <3>2. index \in Int
      BY <1>6, PointsAssumption
    <3>3. k \in 1..Len(list)
      <4>1. PICK n \in Nat : n = Len(list) /\ n >= 1
        BY <1>3, <2>4
      <4>2. CASE index < 0
        <5>1. n >= 2 /\ k = 2
          BY <2>4, <3>1, <3>2, <4>1, <4>2
        <5> QED BY <4>1, <5>1
      <4>3. CASE ~(index < 0)
        <5>1. index < n /\ k = index + 1
          BY <2>4, <3>1, <3>2, <4>1, <4>3
        <5> QED BY <3>2, <4>1, <4>3, <5>1
      <4> QED BY <4>2, <4>3
    <3> QED BY <2>4, <3>1, <3>3, TakeStep
  <2> QED BY <2>1, <2>2, <2>3, <2>4
<1>7. ASSUME sp_delete_duplicates PROVE PointInv'
  BY <1>7, DuplicatesStep
<1>8. ASSUME sp_destroy PROVE PointInv'
  <2>1. /\ list \in Seq(Points) /\ heap = 1 + 2 * Len(list) /\ Len(list) \in Nat
        /\ misplaced' = misplaced /\ misplaced \in BOOLEAN
        /\ list' = <<>> /\ held' = [p \in Points |-> 0]
        /\ heap' = heap - FreedFrom(list) - (IF list = <<>> THEN 0 ELSE 1) - 1
    BY <1>8, LenProperties DEF sp_destroy, Alive, PointInv
  <2>2. heap' = 0
    <3>1. CASE list = <<>>
      <4>1. Len(list) = 0
        BY <3>1
      <4> QED BY <2>1, <3>1, <4>1 DEF FreedFrom
    <3>2. CASE list # <<>>
      BY <2>1, <3>2 DEF FreedFrom
    <3> QED BY <3>1, <3>2
  <2>3. PICK t : t = <<>> /\ t \in Seq(Points) /\ Len(t) = 0
    BY NoneIn
  <2>4. ASSUME NEW p \in Points PROVE Occ(t, p) = 0
    BY <2>3, NoneIn
  <2>5. held' = [p \in Points |-> Occ(list', p)] /\ list' \in Seq(Points)
    BY <2>1, <2>3, <2>4
  <2>6. InOrder(list')
    BY <2>1, <2>3 DEF InOrder
  <2> QED BY <2>1, <2>2, <2>5, <2>6 DEF PointInv, InOrder, Behind, point_compare, Distance2
<1> QED BY <1>1, <1>2, <1>4, <1>5, <1>6, <1>7, <1>8 DEF PointNext, pointVars

\* The inductive invariant of the list of points: the bookkeeping of
\* sorted_points.c, for every set of coordinates and every length of the list.
THEOREM PointsInvariance == PointSpec => []PointInv
<1>1. PointInit => PointInv
  <2> SUFFICES ASSUME PointInit PROVE PointInv
    OBVIOUS
  <2>1. list \in Seq(Points) /\ Len(list) = 0 /\ heap = 1 /\ misplaced = FALSE
    BY NoneIn DEF PointInit
  <2>2. ASSUME NEW p \in Points PROVE Occ(list, p) = 0
    BY NoneIn DEF PointInit
  <2>3. held = [p \in Points |-> Occ(list, p)]
    BY <2>2 DEF PointInit
  <2>4. heap = 1 + 2 * Len(list) /\ InOrder(list)
    BY <2>1 DEF InOrder
  <2> QED BY <2>1, <2>3, <2>4 DEF PointInv
<1>2. PointInv /\ [PointNext]_pointVars => PointInv'
  BY StepKeeps
<1> QED BY <1>1, <1>2, PTL DEF PointSpec

\* No operation of sorted_points.c loses, repeats or leaks a point, and the
\* list is in order and free of duplicates after sp_delete_duplicates unless a
\* point was put before a head it belongs behind.
THEOREM PointsSafe == PointSpec => []PointsSound
<1>1. PointInv => PointsSound
  BY DEF PointInv, PointsSound, Occ, At, Sorted, InOrder
<1> QED BY <1>1, PointsInvariance, PTL

-----------------------------------------------------------------------------
(* The table of words.                                                     *)

NodeType == [word : Words, counts : Nat]

\* The runs of the text x, up to the n-th, that are w, and the words among
\* the first n runs.
SeenIn(x, n, w) == {k \in 1..n : x[k] = w}
WordsIn(x, n)   == {w \in Words : SeenIn(x, n, w) # {}}

\* The table T after n runs of x: every node holds a word that was read, in its
\* bucket and with its count; no bucket holds a word twice; every word that was
\* read has a node.
Table(T, x, n) ==
    /\ T \in [Buckets -> Seq(NodeType)]
    /\ \A b \in Buckets : \A k \in 1..Len(T[b]) :
          LET w == T[b][k].word
          IN  w \in WordsIn(x, n) /\ Hash[w] = b /\ T[b][k].counts = Cardinality(SeenIn(x, n, w))
    /\ \A b \in Buckets : \A j, k \in 1..Len(T[b]) : T[b][j].word = T[b][k].word => j = k
    /\ \A w \in WordsIn(x, n) : \E k \in 1..Len(T[Hash[w]]) : T[Hash[w]][k].word = w

\* What the steps keep: what has been allocated is the table, its array, a
\* string for every run and a node for every word.
WordInv ==
    /\ text \in Seq(Words \cup {Empty}) /\ at \in 1..Len(text) + 1
    /\ stage # "destroyed" =>
          /\ Table(wcArray, text, at - 1)
          /\ mem = 1 + at + Cardinality(WordsIn(text, at - 1))
    /\ stage = "destroyed" => mem = Cardinality(Used) + Cardinality(Extra)

\* The runs of a word, and the words, among one more run.
LEMMA OneMoreRun ==
  ASSUME NEW x, NEW n \in Nat, NEW w
  PROVE  /\ SeenIn(x, n + 1, w) = IF x[n + 1] = w THEN SeenIn(x, n, w) \cup {n + 1}
                                                  ELSE SeenIn(x, n, w)
         /\ IsFiniteSet(SeenIn(x, n, w)) /\ Cardinality(SeenIn(x, n, w)) \in Nat
         /\ Cardinality(SeenIn(x, n, w)) = 0 <=> SeenIn(x, n, w) = {}
         /\ Cardinality(SeenIn(x, n + 1, w)) =
               IF x[n + 1] = w THEN Cardinality(SeenIn(x, n, w)) + 1
                               ELSE Cardinality(SeenIn(x, n, w))
<1>1. ASSUME NEW k PROVE k \in 1..n + 1 <=> k \in 1..n \/ k = n + 1
  OBVIOUS
<1>2. SeenIn(x, n + 1, w) = IF x[n + 1] = w THEN SeenIn(x, n, w) \cup {n + 1}
                                            ELSE SeenIn(x, n, w)
  BY <1>1 DEF SeenIn
<1>3. IsFiniteSet(1..n)
  BY FS_Interval
<1>4. IsFiniteSet(SeenIn(x, n, w))
  BY <1>3, FS_Subset DEF SeenIn
<1>5. n + 1 \notin SeenIn(x, n, w)
  BY DEF SeenIn
<1>6. /\ Cardinality(SeenIn(x, n, w)) \in Nat
      /\ Cardinality(SeenIn(x, n, w)) = 0 <=> SeenIn(x, n, w) = {}
  BY <1>4, FS_CardinalityType, FS_EmptySet
<1>7. Cardinality(SeenIn(x, n, w) \cup {n + 1}) = Cardinality(SeenIn(x, n, w)) + 1
  BY <1>4, <1>5, FS_AddElement
<1> QED BY <1>2, <1>4, <1>6, <1>7

\* The words of a text are finitely many, and one more run adds at most its own.
LEMMA WordsGrow ==
  ASSUME NEW x, NEW n \in Nat
  PROVE  /\ IsFiniteSet(WordsIn(x, n)) /\ Cardinality(WordsIn(x, n)) \in Nat
         /\ x[n + 1] \in Words => WordsIn(x, n + 1) = WordsIn(x, n) \cup {x[n + 1]}
         /\ x[n + 1] \notin Words => WordsIn(x, n + 1) = WordsIn(x, n)
<1>1. IsFiniteSet(WordsIn(x, n)) /\ Cardinality(WordsIn(x, n)) \in Nat
  <2> DEFINE S == {k \in 1..n : x[k] \in Words}
             f == [k \in S |-> x[k]]
  <2>1. IsFiniteSet(1..n)
    BY FS_Interval
  <2>2. IsFiniteSet(S)
    BY <2>1, FS_Subset
  <2>3. f \in [S -> WordsIn(x, n)]
    BY DEF WordsIn, SeenIn
  <2>4. \A w \in WordsIn(x, n) : \E k \in S : f[k] = w
    BY DEF WordsIn, SeenIn
  <2>5. f \in Surjection(S, WordsIn(x, n))
    BY <2>3, <2>4, Zenon DEF Surjection
  <2> QED BY <2>2, <2>5, FS_Surjection, FS_CardinalityType
<1>2. ASSUME NEW w \in Words
      PROVE  w \in WordsIn(x, n + 1) <=> w \in WordsIn(x, n) \/ x[n + 1] = w
  <2>1. SeenIn(x, n + 1, w) = IF x[n + 1] = w THEN SeenIn(x, n, w) \cup {n + 1}
                                              ELSE SeenIn(x, n, w)
    BY OneMoreRun
  <2>2. SeenIn(x, n + 1, w) # {} <=> SeenIn(x, n, w) # {} \/ x[n + 1] = w
    BY <2>1
  <2> QED BY <2>2 DEF WordsIn
<1>3. WordsIn(x, n + 1) \subseteq Words /\ WordsIn(x, n) \subseteq Words
  BY DEF WordsIn
<1> QED BY <1>1, <1>2, <1>3

\* The node of a word is found where it is.
LEMMA NodeFound ==
  ASSUME NEW s \in Seq(NodeType), NEW w
  PROVE  /\ NodeOf(s, w) = 0 => \A k \in 1..Len(s) : s[k].word # w
         /\ NodeOf(s, w) # 0 => /\ NodeOf(s, w) \in 1..Len(s)
                                /\ s[NodeOf(s, w)].word = w
<1> DEFINE I == {k \in 1..Len(s) : s[k].word = w}
<1>1. NodeOf(s, w) = IF I # {} THEN Min(I) ELSE 0
  BY DEF NodeOf, SelectInSeq
<1>2. I \subseteq Nat
  OBVIOUS
<1>3. CASE I = {}
  BY <1>1, <1>3
<1>4. CASE I # {}
  <2>1. Min(I) \in I
    BY <1>2, <1>4, MinIsIn
  <2> QED BY <1>1, <1>4, <2>1
<1> QED BY <1>3, <1>4

\* The bucket s, of the word w, became t: node m holds w now, with count c, and
\* the others are as before.
Bumped(s, t, m, w, c) ==
    /\ t \in Seq(NodeType) /\ m \in 1..Len(t) /\ t[m].word = w /\ t[m].counts = c
    /\ \A j \in 1..Len(t) : j # m => j \in 1..Len(s) /\ t[j] = s[j] /\ s[j].word # w
    /\ \A j \in 1..Len(s) : IF j = m THEN s[j].word = w ELSE j \in 1..Len(t)

\* The bucket s after one more w, whose node is k.
Bump(s, k, w) == IF k = 0 THEN Append(s, Node(w)) ELSE [s EXCEPT ![k].counts = @ + 1]

\* One more w, as Counted counts it, bumps a node of its bucket.
LEMMA CountBumps ==
  ASSUME NEW T, NEW x, NEW n \in Nat, Table(T, x, n), NEW w \in Words, w = x[n + 1],
         NEW s, s = T[Hash[w]], NEW k, k = NodeOf(s, w), NEW t, t = Bump(s, k, w)
  PROVE  /\ \E m : Bumped(s, t, m, w, Cardinality(SeenIn(x, n + 1, w)))
         /\ k = 0 <=> w \notin WordsIn(x, n)
<1>1. Hash[w] \in Buckets
  BY WordsAssumption
<1>2. s \in Seq(NodeType) /\ Len(s) \in Nat
  BY <1>1, LenProperties DEF Table
<1>3. \A j \in 1..Len(s) : s[j] \in NodeType
  BY <1>2, ElementOfSeq
<1>4. /\ \A j \in 1..Len(s) : s[j].word \in WordsIn(x, n)
      /\ \A j \in 1..Len(s) : s[j].counts = Cardinality(SeenIn(x, n, s[j].word))
      /\ \A i, j \in 1..Len(s) : s[i].word = s[j].word => i = j
      /\ w \in WordsIn(x, n) => \E j \in 1..Len(s) : s[j].word = w
  <2>1. /\ \A j \in 1..Len(T[Hash[w]]) :
               /\ T[Hash[w]][j].word \in WordsIn(x, n)
               /\ T[Hash[w]][j].counts = Cardinality(SeenIn(x, n, T[Hash[w]][j].word))
        /\ \A i, j \in 1..Len(T[Hash[w]]) : T[Hash[w]][i].word = T[Hash[w]][j].word => i = j
        /\ w \in WordsIn(x, n) => \E j \in 1..Len(T[Hash[w]]) : T[Hash[w]][j].word = w
    <3>1. PICK h \in Buckets : h = Hash[w]
      BY <1>1
    <3>2. /\ \A j \in 1..Len(T[h]) : T[h][j].word \in WordsIn(x, n)
          /\ \A j \in 1..Len(T[h]) : T[h][j].counts = Cardinality(SeenIn(x, n, T[h][j].word))
      BY DEF Table
    <3>3. \A i, j \in 1..Len(T[h]) : T[h][i].word = T[h][j].word => i = j
      BY DEF Table
    <3>4. w \in WordsIn(x, n) => \E j \in 1..Len(T[h]) : T[h][j].word = w
      BY <3>1 DEF Table
    <3> QED BY <3>1, <3>2, <3>3, <3>4
  <2> QED BY <2>1
<1>5. /\ Cardinality(SeenIn(x, n, w)) \in Nat
      /\ Cardinality(SeenIn(x, n, w)) = 0 <=> SeenIn(x, n, w) = {}
      /\ Cardinality(SeenIn(x, n + 1, w)) = Cardinality(SeenIn(x, n, w)) + 1
  BY OneMoreRun
<1>6. PICK c \in Nat : c = Cardinality(SeenIn(x, n, w))
  BY <1>5
<1>7. CASE k = 0
  <2>1. \A j \in 1..Len(s) : s[j].word # w
    <3>1. NodeOf(s, w) = 0
      BY <1>7
    <3> QED BY <1>2, <3>1, NodeFound
  <2>2. w \notin WordsIn(x, n) /\ c = 0
    BY <1>4, <1>5, <1>6, <2>1 DEF WordsIn
  <2>3. Node(w) \in NodeType /\ Node(w).word = w /\ Node(w).counts = 1
    BY DEF Node, NodeType
  <2>4. /\ t \in Seq(NodeType) /\ Len(t) = Len(s) + 1
        /\ \A j \in 1..Len(s) : t[j] = s[j]
        /\ t[Len(s) + 1] = Node(w)
    BY <1>2, <1>7, <2>3, AppendProperties DEF Bump
  <2>5. Bumped(s, t, Len(s) + 1, w, c + 1)
    <3>0. PICK l \in Nat : l = Len(s) /\ Len(t) = l + 1
      BY <1>2, <2>4
    <3>1. l + 1 \in 1..l + 1
      OBVIOUS
    <3>2. \A j \in 1..l + 1 : j # l + 1 => j \in 1..l
      OBVIOUS
    <3>3. \A j \in 1..l : j \in 1..l + 1 /\ j # l + 1
      OBVIOUS
    <3>4. c + 1 = 1
      BY <2>2
    <3>5. /\ t[l + 1].word = w /\ t[l + 1].counts = c + 1
          /\ \A j \in 1..l : t[j] = s[j] /\ s[j].word # w
      BY <2>1, <2>3, <2>4, <3>0, <3>4
    <3>6. Bumped(s, t, l + 1, w, c + 1)
      <4>1. t \in Seq(NodeType) /\ l + 1 \in 1..Len(t)
        BY <2>4, <3>0, <3>1
      <4>2. ASSUME NEW j \in 1..Len(t), j # l + 1
            PROVE  j \in 1..Len(s) /\ t[j] = s[j] /\ s[j].word # w
        <5>1. j \in 1..l
          BY <3>0, <3>2, <4>2
        <5> QED BY <3>0, <3>5, <5>1
      <4>3. ASSUME NEW j \in 1..Len(s) PROVE j # l + 1 /\ j \in 1..Len(t)
        <5>1. j \in 1..l
          BY <3>0
        <5> QED BY <3>0, <3>3, <5>1
      <4> QED BY <3>5, <4>1, <4>2, <4>3 DEF Bumped
    <3> QED BY <3>0, <3>6
  <2> QED BY <1>5, <1>6, <1>7, <2>2, <2>5
<1>8. CASE k # 0
  <2>1. k \in 1..Len(s) /\ s[k].word = w
    BY <1>2, <1>8, NodeFound
  <2>2. w \in WordsIn(x, n) /\ s[k].counts = c
    <3>1. s[k].word \in WordsIn(x, n) /\ s[k].counts = Cardinality(SeenIn(x, n, s[k].word))
      BY <1>4, <2>1
    <3> QED BY <1>6, <2>1, <3>1
  <2>3. ASSUME NEW j \in 1..Len(s), j # k PROVE s[j].word # w
    <3>1. s[j].word = s[k].word => j = k
      BY <1>4, <2>1
    <3> QED BY <2>1, <2>3, <3>1
  <2>4. PICK e : e = [s[k] EXCEPT !.counts = @ + 1]
    OBVIOUS
  <2>5. e \in NodeType /\ e.word = w /\ e.counts = c + 1
    <3>1. PICK v \in Words, d \in Nat : s[k] = [word |-> v, counts |-> d]
      BY <1>3, <2>1 DEF NodeType
    <3>2. v = w /\ d = c
      BY <2>1, <2>2, <3>1
    <3>3. e = [word |-> w, counts |-> c + 1]
      BY <2>4, <3>1, <3>2
    <3> QED BY <3>3 DEF NodeType
  <2>6. t = [s EXCEPT ![k] = e]
    BY <1>8, <2>4 DEF Bump
  <2>7. t \in Seq(NodeType) /\ Len(t) = Len(s) /\ t[k] = e
        /\ \A j \in 1..Len(s) : j # k => t[j] = s[j]
    <3>1. \A i \in 1..Len(s) : [s EXCEPT ![k] = e][i] = IF i = k THEN e ELSE s[i]
      BY <1>2, <2>1, <2>5, ExceptSeq
    <3>2. [s EXCEPT ![k] = e] \in Seq(NodeType) /\ Len([s EXCEPT ![k] = e]) = Len(s)
      BY <1>2, <2>1, <2>5, ExceptSeq
    <3> QED BY <2>1, <2>6, <3>1, <3>2
  <2>8. Bumped(s, t, k, w, c + 1)
    BY <2>1, <2>3, <2>5, <2>7 DEF Bumped
  <2> QED BY <1>5, <1>6, <1>8, <2>2, <2>8
<1> QED BY <1>7, <1>8

\* A table with a bumped node is the table after one more run.
LEMMA BumpedTable ==
  ASSUME NEW T, NEW x, NEW n \in Nat, Table(T, x, n), NEW w \in Words, w = x[n + 1],
         NEW t, NEW m, Bumped(T[Hash[w]], t, m, w, Cardinality(SeenIn(x, n + 1, w))),
         NEW U, U = [T EXCEPT ![Hash[w]] = t]
  PROVE  Table(U, x, n + 1)
<1>1. PICK h \in Buckets : h = Hash[w]
  BY WordsAssumption
<1>2. PICK s : s = T[h]
  OBVIOUS
<1>3. PICK c : c = Cardinality(SeenIn(x, n + 1, w)) /\ Bumped(s, t, m, w, c)
  BY <1>1, <1>2
<1>4. U \in [Buckets -> Seq(NodeType)] /\ U[h] = t /\ \A b \in Buckets : b # h => U[b] = T[b]
  BY <1>1, <1>3 DEF Table, Bumped
<1>5. WordsIn(x, n + 1) = WordsIn(x, n) \cup {w}
  BY WordsGrow
<1>6. \A v : v # w => SeenIn(x, n + 1, v) = SeenIn(x, n, v)
  BY OneMoreRun
<1>7. ASSUME NEW b \in Buckets, NEW k \in 1..Len(U[b])
      PROVE  /\ U[b][k].word \in WordsIn(x, n + 1) /\ Hash[U[b][k].word] = b
             /\ U[b][k].counts = Cardinality(SeenIn(x, n + 1, U[b][k].word))
  <2>1. CASE b = h /\ k = m
    <3>1. U[b][k].word = w /\ U[b][k].counts = c
      BY <1>3, <1>4, <2>1 DEF Bumped
    <3> QED BY <1>1, <1>3, <1>5, <2>1, <3>1
  <2>2. CASE b # h \/ k # m
    <3>1. k \in 1..Len(T[b]) /\ U[b][k] = T[b][k] /\ (b = h => T[b][k].word # w)
      BY <1>2, <1>3, <1>4, <1>7, <2>2 DEF Bumped
    <3>2. /\ T[b][k].word \in WordsIn(x, n) /\ Hash[T[b][k].word] = b
          /\ T[b][k].counts = Cardinality(SeenIn(x, n, T[b][k].word))
      BY <3>1 DEF Table
    <3>3. T[b][k].word # w
      BY <1>1, <3>1, <3>2
    <3> QED BY <1>5, <1>6, <3>1, <3>2, <3>3
  <2> QED BY <2>1, <2>2
<1>8. ASSUME NEW b \in Buckets, NEW j \in 1..Len(U[b]), NEW k \in 1..Len(U[b]),
             U[b][j].word = U[b][k].word
      PROVE  j = k
  <2>1. CASE b # h
    BY <1>4, <1>8, <2>1 DEF Table
  <2>2. CASE b = h
    <3>1. /\ \A i \in 1..Len(t) : i # m => i \in 1..Len(s) /\ t[i] = s[i] /\ s[i].word # w
          /\ t[m].word = w /\ U[b] = t
      BY <1>3, <1>4, <2>2 DEF Bumped
    <3>2. \A i, l \in 1..Len(s) : s[i].word = s[l].word => i = l
      BY <1>1, <1>2 DEF Table
    <3>3. j \in 1..Len(t) /\ k \in 1..Len(t) /\ t[j].word = t[k].word
      BY <1>8, <3>1, Zenon
    <3>4. CASE j = m \/ k = m
      BY <3>1, <3>3, <3>4, Zenon
    <3>5. CASE j # m /\ k # m
      BY <3>1, <3>2, <3>3, <3>5, Zenon
    <3> QED BY <3>4, <3>5
  <2> QED BY <2>1, <2>2
<1>9. ASSUME NEW v \in WordsIn(x, n + 1)
      PROVE  \E k \in 1..Len(U[Hash[v]]) : U[Hash[v]][k].word = v
  <2>1. CASE v = w
    BY <1>1, <1>3, <1>4, <2>1 DEF Bumped
  <2>2. CASE v # w
    <3>1. PICK k \in 1..Len(T[Hash[v]]) : T[Hash[v]][k].word = v
      BY <1>5, <2>2 DEF Table
    <3>2. Hash[v] \in Buckets
      BY WordsAssumption DEF WordsIn
    <3>3. CASE Hash[v] # h
      BY <1>4, <3>1, <3>2, <3>3
    <3>4. CASE Hash[v] = h
      <4>1. k \in 1..Len(s) /\ s[k].word = v
        BY <1>2, <3>1, <3>4
      <4>2. CASE k # m
        <5>1. k \in 1..Len(t) /\ t[k] = s[k]
          BY <1>3, <4>1, <4>2 DEF Bumped
        <5> QED BY <1>4, <3>4, <4>1, <5>1
      <4>3. CASE k = m
        <5>1. s[k].word = w
          BY <1>3, <4>1, <4>3 DEF Bumped
        <5> QED BY <2>2, <4>1, <5>1
      <4> QED BY <4>2, <4>3
    <3> QED BY <3>3, <3>4
  <2> QED BY <2>1, <2>2
<1> QED BY <1>4, <1>7, <1>8, <1>9 DEF Table

\* A run without letters changes nothing that the table is about.
LEMMA EmptyRun ==
  ASSUME NEW T, NEW x, NEW n \in Nat, Table(T, x, n), x[n + 1] = Empty
  PROVE  Table(T, x, n + 1) /\ WordsIn(x, n + 1) = WordsIn(x, n)
<1>1. Empty \notin Words
  BY WordsAssumption
<1>2. WordsIn(x, n + 1) = WordsIn(x, n)
  BY <1>1, WordsGrow
<1>3. \A v : v # Empty => SeenIn(x, n + 1, v) = SeenIn(x, n, v)
  BY OneMoreRun
<1>4. \A v \in WordsIn(x, n) : SeenIn(x, n + 1, v) = SeenIn(x, n, v)
  BY <1>1, <1>3 DEF WordsIn
<1> QED BY <1>2, <1>4 DEF Table

\* The line of node k of bucket b, and the lines that wc_output prints.
Line(T, b, k) == [bucket |-> b, place |-> k, word |-> T[b][k].word, counts |-> T[b][k].counts]
IsLine(T, l)  == \E b \in Buckets : \E k \in 1..Len(T[b]) : l = Line(T, b, k)

\* wc_output prints them.
LEMMA Printed == \A l : l \in wc_output <=> IsLine(wcArray, l)
BY DEF wc_output, IsLine, Line

\* A line shows a word that was read, in its bucket; one word has one line and
\* every word that was read has one.
LEMMA LinesOf ==
  ASSUME NEW T, NEW x, NEW n \in Nat, Table(T, x, n)
  PROVE  /\ \A l : IsLine(T, l) =>
               /\ l.word \in WordsIn(x, n) /\ l.bucket = Hash[l.word] /\ l.place \in Nat
               /\ l.place >= 1 /\ l.counts = Cardinality(SeenIn(x, n, l.word))
         /\ \A l, m : IsLine(T, l) /\ IsLine(T, m) /\ l.word = m.word => l = m
         /\ \A l, m : IsLine(T, l) /\ IsLine(T, m) /\ l.bucket = m.bucket /\ l.place = m.place
               => l = m
         /\ \A w \in WordsIn(x, n) :
               (\E l : IsLine(T, l) /\ l.word = w)
               /\ (\E l : IsLine(T, l) /\ l.bucket = Hash[w] /\ l.place = 1)
<1>1. ASSUME NEW b \in Buckets, NEW k \in 1..Len(T[b])
      PROVE  /\ Line(T, b, k).word = T[b][k].word /\ Line(T, b, k).bucket = b
             /\ Line(T, b, k).place = k /\ Line(T, b, k).counts = T[b][k].counts
             /\ T[b][k].word \in WordsIn(x, n) /\ Hash[T[b][k].word] = b
             /\ T[b][k].counts = Cardinality(SeenIn(x, n, T[b][k].word))
  BY DEF Table, Line
<1>2. ASSUME NEW l, IsLine(T, l)
      PROVE  /\ l.word \in WordsIn(x, n) /\ l.bucket = Hash[l.word] /\ l.place \in Nat
             /\ l.place >= 1 /\ l.counts = Cardinality(SeenIn(x, n, l.word))
  <2>1. PICK b, k : b \in Buckets /\ k \in 1..Len(T[b]) /\ l = Line(T, b, k)
    BY <1>2 DEF IsLine
  <2>2. k \in Nat /\ k >= 1
    BY <2>1
  <2> QED BY <1>1, <2>1, <2>2
<1>3. ASSUME NEW l, NEW m, IsLine(T, l), IsLine(T, m), l.word = m.word
      PROVE  l = m
  <2>1. PICK b, k : b \in Buckets /\ k \in 1..Len(T[b]) /\ l = Line(T, b, k)
    BY <1>3 DEF IsLine
  <2>2. PICK c, j : c \in Buckets /\ j \in 1..Len(T[c]) /\ m = Line(T, c, j)
    BY <1>3 DEF IsLine
  <2>3. T[b][k].word = T[c][j].word /\ b = c
    BY <1>1, <1>3, <2>1, <2>2
  <2>4. k = j
    BY <2>1, <2>2, <2>3 DEF Table
  <2> QED BY <2>1, <2>2, <2>3, <2>4
<1>4. ASSUME NEW l, NEW m, IsLine(T, l), IsLine(T, m), l.bucket = m.bucket, l.place = m.place
      PROVE  l = m
  <2>1. PICK b, k : b \in Buckets /\ k \in 1..Len(T[b]) /\ l = Line(T, b, k)
    BY <1>4 DEF IsLine
  <2>2. PICK c, j : c \in Buckets /\ j \in 1..Len(T[c]) /\ m = Line(T, c, j)
    BY <1>4 DEF IsLine
  <2>3. b = c /\ k = j
    BY <1>1, <1>4, <2>1, <2>2
  <2> QED BY <2>1, <2>2, <2>3
<1>5. ASSUME NEW w \in WordsIn(x, n)
      PROVE  /\ \E l : IsLine(T, l) /\ l.word = w
             /\ \E l : IsLine(T, l) /\ l.bucket = Hash[w] /\ l.place = 1
  <2>1. PICK h \in Buckets : h = Hash[w]
    BY WordsAssumption DEF WordsIn
  <2>2. PICK k \in 1..Len(T[h]) : T[h][k].word = w
    BY <2>1 DEF Table
  <2>3. IsLine(T, Line(T, h, k)) /\ Line(T, h, k).word = w
    BY <1>1, <2>2 DEF IsLine
  <2>4. 1 \in 1..Len(T[h])
    <3>1. T[h] \in Seq(NodeType)
      BY DEF Table
    <3>2. Len(T[h]) \in Nat
      BY <3>1, LenProperties
    <3> QED BY <2>2, <3>2
  <2>5. IsLine(T, Line(T, h, 1)) /\ Line(T, h, 1).bucket = h /\ Line(T, h, 1).place = 1
    BY <1>1, <2>4 DEF IsLine
  <2> QED BY <2>1, <2>3, <2>5
<1> QED BY <1>2, <1>3, <1>4, <1>5

\* The runs that are the first of their word.
FirstRuns(x, n) == {k \in 1..n : x[k] # Empty /\ \A j \in 1..k - 1 : x[j] # x[k]}

\* There are as many of them as words.
LEMMA FirstRunsCount ==
  ASSUME NEW x \in Seq(Words \cup {Empty}), NEW n \in 0..Len(x)
  PROVE  IsFiniteSet(FirstRuns(x, n)) /\ Cardinality(FirstRuns(x, n)) = Cardinality(WordsIn(x, n))
<1> DEFINE F == FirstRuns(x, n)
           f == [k \in F |-> x[k]]
<1>1. n \in Nat /\ \A k \in 1..n : x[k] \in Words \cup {Empty}
  <2>1. Len(x) \in Nat /\ \A k \in 1..Len(x) : x[k] \in Words \cup {Empty}
    BY LenProperties, ElementOfSeq
  <2> QED BY <2>1
<1>2. F \subseteq 1..n /\ IsFiniteSet(F)
  <2>1. IsFiniteSet(1..n)
    BY <1>1, FS_Interval
  <2> QED BY <2>1, FS_Subset DEF FirstRuns
<1>3. f \in [F -> WordsIn(x, n)]
  <2> SUFFICES ASSUME NEW k \in F PROVE x[k] \in WordsIn(x, n)
    OBVIOUS
  <2>1. k \in 1..n /\ x[k] # Empty
    BY DEF FirstRuns
  <2> QED BY <1>1, <2>1 DEF WordsIn, SeenIn
<1>4. ASSUME NEW a \in F, NEW b \in F, f[a] = f[b] PROVE a = b
  <2>1. a \in Nat /\ b \in Nat /\ x[a] = x[b] /\ a >= 1 /\ b >= 1
    BY <1>1, <1>2, <1>4
  <2>2. ~(a < b)
    <3>1. a < b => a \in 1..b - 1
      BY <2>1
    <3> QED BY <2>1, <3>1 DEF FirstRuns
  <2>3. ~(b < a)
    <3>1. b < a => b \in 1..a - 1
      BY <2>1
    <3> QED BY <2>1, <3>1 DEF FirstRuns
  <2> QED BY <2>1, <2>2, <2>3
<1>5. ASSUME NEW w \in WordsIn(x, n) PROVE \E k \in F : f[k] = w
  <2>1. w \in Words /\ w # Empty /\ SeenIn(x, n, w) # {} /\ SeenIn(x, n, w) \subseteq Nat
    BY WordsAssumption DEF WordsIn, SeenIn
  <2>2. PICK k \in SeenIn(x, n, w) : \A y \in SeenIn(x, n, w) : k <= y
    BY <2>1, LeastNatural
  <2>3. k \in 1..n /\ x[k] = w
    BY DEF SeenIn
  <2>4. ASSUME NEW j \in 1..k - 1 PROVE x[j] # w
    <3>1. j \in 1..n /\ ~(k <= j)
      BY <1>1, <2>3
    <3> QED BY <2>2, <3>1 DEF SeenIn
  <2>5. k \in F
    BY <2>1, <2>3, <2>4 DEF FirstRuns
  <2> QED BY <2>3, <2>5
<1> HIDE DEF F, f
<1>6. f \in Injection(F, WordsIn(x, n)) /\ f \in Surjection(F, WordsIn(x, n))
  BY <1>3, <1>4, <1>5, Zenon DEF Injection, Surjection, IsInjective
<1>7. ExistsBijection(F, WordsIn(x, n))
  BY <1>6 DEF ExistsBijection, Bijection
<1> QED BY <1>2, <1>7, FS_Bijection DEF F

\* What delete frees: for every word its string, and its node unless it heads a
\* bucket.
LEMMA DeletedCount ==
  ASSUME NEW x, NEW n \in Nat, Table(wcArray, x, n),
         NEW H, H = {Hash[w] : w \in WordsIn(x, n)}
  PROVE  /\ Cardinality(WordsIn(x, n)) \in Nat /\ Cardinality(H) \in Nat
         /\ Deleted = 2 * Cardinality(WordsIn(x, n)) - Cardinality(H)
<1> DEFINE O  == wc_output
           W  == WordsIn(x, n)
           f  == [l \in O |-> l.word]
           P  == {l \in O : l.place > 1}
           A  == {l \in O : l.place = 1}
           g  == [l \in A |-> l.bucket]
<1>1. \A l : l \in O <=> IsLine(wcArray, l)
  BY Printed
<1>2. /\ \A l \in O : l.word \in W /\ l.bucket = Hash[l.word] /\ l.place \in Nat /\ l.place >= 1
      /\ \A l, m \in O : l.word = m.word => l = m
      /\ \A l, m \in O : l.bucket = m.bucket /\ l.place = m.place => l = m
      /\ \A w \in W : (\E l \in O : l.word = w) /\ (\E l \in O : l.bucket = Hash[w] /\ l.place = 1)
  <2>1. /\ \A l : IsLine(wcArray, l) =>
              l.word \in W /\ l.bucket = Hash[l.word] /\ l.place \in Nat /\ l.place >= 1
        /\ \A l, m : IsLine(wcArray, l) /\ IsLine(wcArray, m) /\ l.word = m.word => l = m
        /\ \A l, m : IsLine(wcArray, l) /\ IsLine(wcArray, m)
                     /\ l.bucket = m.bucket /\ l.place = m.place => l = m
        /\ \A w \in W : (\E l : IsLine(wcArray, l) /\ l.word = w)
                        /\ (\E l : IsLine(wcArray, l) /\ l.bucket = Hash[w] /\ l.place = 1)
    BY LinesOf
  <2> QED BY <1>1, <2>1
<1>3. IsFiniteSet(W) /\ Cardinality(W) \in Nat
  BY WordsGrow
<1> HIDE DEF O, W
<1>4. IsFiniteSet(O) /\ Cardinality(O) = Cardinality(W)
  <2>1. f \in [O -> W]
    BY <1>2
  <2>2. \A l, m \in O : f[l] = f[m] => l = m
    BY <1>2
  <2>3. \A w \in W : \E l \in O : f[l] = w
    BY <1>2
  <2> HIDE DEF f
  <2>4. f \in Injection(O, W)
    BY <2>1, <2>2, Zenon DEF Injection, IsInjective
  <2>5. f \in Surjection(O, W)
    BY <2>1, <2>3, Zenon DEF Surjection
  <2> QED BY <1>3, <2>4, <2>5, FS_Injection
<1>5. IsFiniteSet(A) /\ IsFiniteSet(H) /\ Cardinality(H) = Cardinality(A)
  <2>1. A \in SUBSET O
    OBVIOUS
  <2>2. IsFiniteSet(A)
    BY <1>4, <2>1, FS_Subset
  <2>3. g \in [A -> H]
    BY <1>2 DEF W
  <2>4. \A l, m \in A : g[l] = g[m] => l = m
    BY <1>2
  <2>5. \A h \in H : \E l \in A : g[l] = h
    BY <1>2 DEF W
  <2> HIDE DEF g, A
  <2>6. g \in Injection(A, H)
    BY <2>3, <2>4, Zenon DEF Injection, IsInjective
  <2>7. g \in Surjection(A, H)
    BY <2>3, <2>5, Zenon DEF Surjection
  <2>8. ExistsBijection(A, H)
    BY <2>6, <2>7 DEF ExistsBijection, Bijection
  <2> QED BY <2>2, <2>8, FS_Bijection
<1>6. Cardinality(P) = Cardinality(O) - Cardinality(A)
  <2>1. P = O \ A /\ O \cap A = A
    BY <1>2
  <2>2. Cardinality(O \ A) = Cardinality(O) - Cardinality(O \cap A)
    BY <1>4, FS_Difference
  <2> QED BY <2>1, <2>2
<1>7. Cardinality(H) \in Nat
  BY <1>5, FS_CardinalityType
<1>8. Deleted = Cardinality(O) + Cardinality(P)
  BY DEF Deleted, O
<1> QED BY <1>3, <1>4, <1>5, <1>6, <1>7, <1>8 DEF W

\* Every step of the table keeps the invariant.
LEMMA WordStepKeeps ==
  ASSUME WordInv, [WordNext]_wordVars
  PROVE  WordInv'
<1>1. PICK x, n : x = text /\ n = at - 1
  OBVIOUS
<1>2. /\ x \in Seq(Words \cup {Empty}) /\ Len(x) \in Nat /\ at \in 1..Len(x) + 1
      /\ n \in Nat /\ n \in 0..Len(x) /\ at = n + 1
  <2>1. x \in Seq(Words \cup {Empty}) /\ at \in 1..Len(x) + 1
    BY <1>1 DEF WordInv
  <2>2. Len(x) \in Nat
    BY <2>1, LenProperties
  <2> QED BY <1>1, <2>1, <2>2
<1>3. stage # "destroyed" =>
         /\ Table(wcArray, x, n)
         /\ mem = 1 + at + Cardinality(WordsIn(x, n))
  BY <1>1 DEF WordInv
<1>4. ASSUME wc_init_run PROVE WordInv'
  <2>1. /\ stage = "init" /\ stage' = stage /\ text' = x /\ at <= Len(x) /\ at' = at + 1
        /\ x[at] \in Words \cup {Empty}
    BY <1>1, <1>2, <1>4, ElementOfSeq DEF wc_init_run
  <2>2. at' \in 1..Len(x) + 1 /\ at' - 1 = n + 1
    BY <1>2, <2>1
  <2>3. Cardinality(WordsIn(x, n)) \in Nat /\ IsFiniteSet(WordsIn(x, n))
    BY <1>2, WordsGrow
  <2>4. /\ Table(wcArray', x, n + 1)
        /\ mem' = 1 + (at + 1) + Cardinality(WordsIn(x, n + 1))
    <3>1. CASE x[at] = Empty
      <4>1. wcArray' = wcArray /\ mem' = mem + 1
        BY <1>1, <1>4, <3>1 DEF wc_init_run
      <4>2. Table(wcArray, x, n + 1) /\ WordsIn(x, n + 1) = WordsIn(x, n)
        BY <1>2, <1>3, <2>1, <3>1, EmptyRun
      <4> QED BY <1>2, <1>3, <2>1, <2>3, <4>1, <4>2
    <3>2. CASE x[at] # Empty
      <4>1. PICK w \in Words : w = x[n + 1] /\ w = text[at] /\ w # Empty
        BY <1>1, <1>2, <2>1, <3>2
      <4>2. PICK s, k, t : s = wcArray[Hash[w]] /\ k = NodeOf(s, w) /\ t = Bump(s, k, w)
        OBVIOUS
      <4>3. /\ wcArray' = [wcArray EXCEPT ![Hash[w]] = t]
            /\ mem' = mem + IF k = 0 THEN 2 ELSE 1
        BY <1>4, <4>1, <4>2 DEF wc_init_run, Counted, Bump
      <4>4. /\ \E m : Bumped(s, t, m, w, Cardinality(SeenIn(x, n + 1, w)))
            /\ k = 0 <=> w \notin WordsIn(x, n)
        <5>1. PICK T : T = wcArray
          OBVIOUS
        <5>2. Table(T, x, n) /\ s = T[Hash[w]] /\ w = x[n + 1] /\ n \in Nat
          BY <1>2, <1>3, <2>1, <4>1, <4>2, <5>1
        <5> QED BY <4>2, <5>2, CountBumps
      <4>5. Table(wcArray', x, n + 1)
        <5>1. PICK m : Bumped(wcArray[Hash[w]], t, m, w, Cardinality(SeenIn(x, n + 1, w)))
          BY <4>2, <4>4
        <5> QED BY <1>2, <1>3, <2>1, <4>1, <4>3, <5>1, BumpedTable
      <4>6. WordsIn(x, n + 1) = WordsIn(x, n) \cup {w}
        <5>1. x[n + 1] \in Words
          BY <4>1
        <5>2. WordsIn(x, n + 1) = WordsIn(x, n) \cup {x[n + 1]}
          BY <1>2, <5>1, WordsGrow
        <5> QED BY <4>1, <5>2
      <4>7. Cardinality(WordsIn(x, n + 1)) =
               IF k = 0 THEN Cardinality(WordsIn(x, n)) + 1 ELSE Cardinality(WordsIn(x, n))
        BY <2>3, <4>4, <4>6, FS_AddElement
      <4>8. mem = 1 + at + Cardinality(WordsIn(x, n))
        BY <1>3, <2>1
      <4>9. mem' = 1 + (at + 1) + Cardinality(WordsIn(x, n + 1))
        <5>1. CASE k = 0
          <6>1. mem' = mem + 2 /\ Cardinality(WordsIn(x, n + 1)) = Cardinality(WordsIn(x, n)) + 1
            BY <4>3, <4>7, <5>1
          <6> QED BY <1>2, <2>3, <4>8, <6>1
        <5>2. CASE k # 0
          <6>1. mem' = mem + 1 /\ Cardinality(WordsIn(x, n + 1)) = Cardinality(WordsIn(x, n))
            BY <4>3, <4>7, <5>2
          <6> QED BY <1>2, <2>3, <4>8, <6>1
        <5> QED BY <5>1, <5>2
      <4> QED BY <4>5, <4>9
    <3> QED BY <3>1, <3>2
  <2>5. stage' # "destroyed"
    BY <2>1
  <2> QED BY <1>2, <2>1, <2>2, <2>4, <2>5 DEF WordInv
<1>5. ASSUME wc_init_end PROVE WordInv'
  <2>1. /\ stage # "destroyed" /\ stage' # "destroyed" /\ text' = text /\ at' = at
        /\ wcArray' = wcArray /\ mem' = mem
    BY <1>5 DEF wc_init_end
  <2>2. Table(wcArray', text', at' - 1) /\ mem' = 1 + at' + Cardinality(WordsIn(text', at' - 1))
    BY <1>1, <1>3, <2>1
  <2>3. text' \in Seq(Words \cup {Empty}) /\ at' \in 1..Len(text') + 1
    BY <2>1 DEF WordInv
  <2> QED BY <2>1, <2>2, <2>3 DEF WordInv
<1>6. ASSUME wc_destroy PROVE WordInv'
  <2>1. /\ stage = "ready" /\ stage' = "destroyed" /\ text' = text /\ at' = at
        /\ mem' = mem - 2 - Deleted
    BY <1>6 DEF wc_destroy
  <2>2. PICK H : H = {Hash[w] : w \in WordsIn(x, n)}
    OBVIOUS
  <2>3. Used' = H
    BY <1>1, <2>1, <2>2 DEF Used, Seen, WordsIn, SeenIn
  <2>4. /\ Cardinality(WordsIn(x, n)) \in Nat /\ Cardinality(H) \in Nat
        /\ Deleted = 2 * Cardinality(WordsIn(x, n)) - Cardinality(H)
    BY <1>2, <1>3, <2>1, <2>2, DeletedCount
  <2>5. PICK E : E = Extra
    OBVIOUS
  <2>6. Extra' = E
    BY <2>1, <2>5 DEF Extra, Seen
  <2>7. E \subseteq 1..n /\ (1..n) \ E = FirstRuns(x, n)
    BY <1>1, <2>5 DEF Extra, Seen, FirstRuns
  <2>8. Cardinality(E) \in Nat /\ Cardinality(E) = n - Cardinality(WordsIn(x, n))
    <3>1. IsFiniteSet(1..n) /\ Cardinality(1..n) = n
      BY <1>2, FS_Interval
    <3>2. Cardinality((1..n) \ E) = n - Cardinality((1..n) \cap E) /\ (1..n) \cap E = E
      BY <2>7, <3>1, FS_Difference
    <3>3. E \in SUBSET (1..n)
      BY <2>7
    <3>4. Cardinality(E) \in Nat
      BY <3>1, <3>3, FS_Subset, FS_CardinalityType
    <3>5. Cardinality((1..n) \ E) = Cardinality(WordsIn(x, n))
      BY <1>2, <2>7, FirstRunsCount
    <3>6. Cardinality(WordsIn(x, n)) = n - Cardinality(E)
      BY <3>2, <3>5
    <3> QED BY <1>2, <2>4, <3>4, <3>6
  <2>9. mem' = Cardinality(H) + Cardinality(E)
    BY <1>2, <1>3, <2>1, <2>4, <2>8
  <2>10. text' \in Seq(Words \cup {Empty}) /\ at' \in 1..Len(text') + 1
    BY <2>1 DEF WordInv
  <2> QED BY <2>1, <2>3, <2>6, <2>9, <2>10 DEF WordInv
<1>7. ASSUME UNCHANGED wordVars PROVE WordInv'
  BY <1>7 DEF wordVars, WordInv, Used, Extra, Seen
<1> QED BY <1>4, <1>5, <1>6, <1>7 DEF WordNext

\* The inductive invariant of the table of wc.c, for every set of words, every
\* hash function and every text.
THEOREM WordsInvariance == WordSpec => []WordInv
<1>1. WordInit => WordInv
  <2> SUFFICES ASSUME WordInit PROVE WordInv
    OBVIOUS
  <2>1. PICK m \in 0..MaxRuns : text \in [1..m -> Words \cup {Empty}]
    BY DEF WordInit, Texts
  <2>2. m \in Nat
    BY WordsAssumption
  <2>3. text \in Seq(Words \cup {Empty})
    BY <2>1, <2>2
  <2>4. at = 1 /\ at - 1 = 0 /\ Len(text) \in Nat
    BY <2>3, LenProperties DEF WordInit
  <2>5. WordsIn(text, 0) = {}
    BY DEF WordsIn, SeenIn
  <2>6. <<>> \in Seq(NodeType) /\ Len(<<>>) = 0
    OBVIOUS
  <2>7. Table(wcArray, text, 0)
    BY <2>5, <2>6 DEF WordInit, Table
  <2>8. mem = 1 + at + Cardinality(WordsIn(text, 0))
    <3>1. Cardinality(WordsIn(text, 0)) = 0
      BY <2>5, FS_EmptySet
    <3> QED BY <3>1 DEF WordInit
  <2> QED BY <2>3, <2>4, <2>7, <2>8 DEF WordInit, WordInv
<1>2. WordInv /\ [WordNext]_wordVars => WordInv'
  BY WordStepKeeps
<1> QED BY <1>1, <1>2, PTL DEF WordSpec

\* wc_output prints each word that was read once, in its bucket and with its
\* count, and wc_destroy leaves behind exactly the heads of the used buckets and
\* the strings without a node.
THEOREM WordsSafe == WordSpec => []WordsSound
<1>1. WordInv => WordsSound
  <2> SUFFICES ASSUME WordInv PROVE WordsSound
    OBVIOUS
  <2>1. ASSUME stage # "destroyed", NEW w \in Words, NEW S, S = {l \in wc_output : l.word = w}
        PROVE  IF Seen(w) = {} THEN S = {}
               ELSE /\ Cardinality(S) = 1
                    /\ \A l \in S : l.bucket = Hash[w] /\ l.counts = Cardinality(Seen(w))
    <3>1. PICK n : n = at - 1
      OBVIOUS
    <3>2. n \in Nat /\ Table(wcArray, text, n)
      BY <2>1, <3>1, LenProperties DEF WordInv
    <3>3. Seen(w) = SeenIn(text, n, w)
      BY <3>1 DEF Seen, SeenIn
    <3>4. ASSUME NEW l \in S
          PROVE  /\ IsLine(wcArray, l) /\ l.word = w /\ w \in WordsIn(text, n)
                 /\ l.bucket = Hash[w] /\ l.counts = Cardinality(Seen(w))
      <4>1. IsLine(wcArray, l) /\ l.word = w
        BY <2>1, Printed
      <4> QED BY <3>2, <3>3, <4>1, LinesOf
    <3>5. CASE Seen(w) = {}
      BY <3>3, <3>4, <3>5 DEF WordsIn
    <3>6. CASE Seen(w) # {}
      <4>1. w \in WordsIn(text, n)
        BY <3>3, <3>6 DEF WordsIn
      <4>2. PICK l : IsLine(wcArray, l) /\ l.word = w
        BY <3>2, <4>1, LinesOf
      <4>3. l \in S
        BY <2>1, <4>2, Printed
      <4>4. ASSUME NEW m \in S PROVE m = l
        BY <3>2, <3>4, <4>2, LinesOf
      <4>5. S = {l}
        BY <4>3, <4>4
      <4>6. Cardinality(S) = 1
        BY <4>5, FS_Singleton
      <4> QED BY <3>4, <3>6, <4>6
    <3> QED BY <3>5, <3>6
  <2>2. stage = "destroyed" => mem = Cardinality(Used) + Cardinality(Extra)
    BY DEF WordInv
  <2> QED BY <2>1, <2>2 DEF WordsSound
<1> QED BY <1>1, WordsInvariance, PTL

===============================================================================
