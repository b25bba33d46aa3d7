----------------------------- MODULE ListLemmas -----------------------------
(***************************************************************************)
(* Facts about the sequences that stand for the linked lists of the code:  *)
(* what it does to their elements when a node is linked, unlinked, or two  *)
(* lists are joined.  They are about operators only; the proofs of the     *)
(* cache, threads, warm-up lists and directories rest on them.             *)
(***************************************************************************)
EXTENDS Integers, Sequences, SequencesExt, WellFoundedInduction,
        SequenceTheorems, TLAPS

\* The order of the naturals as a relation.
Below == {ss \in Nat \X Nat : ss[1] < ss[2]}

\* A set of naturals that is not empty has a least element.
LEMMA LeastNatural ==
  ASSUME NEW S, S \subseteq Nat, S # {}
  PROVE  \E x \in S : \A y \in S : x <= y
<1>1. OpToRel(<, Nat) = Below
  BY DEF OpToRel, Below
<1>2. IsWellFoundedOn(Below, Nat)
  BY <1>1, NatLessThanWellFounded, Zenon
<1>3. PICK x \in S : \A y \in S : ~(<<y, x>> \in Below)
  BY <1>2, WFMin
<1>4. ASSUME NEW y \in S, ~(x <= y) PROVE FALSE
  <2>1. y < x /\ <<y, x>> \in Nat \X Nat
    BY <1>4
  <2>2. <<y, x>> \in Below
    BY <2>1 DEF Below
  <2> QED BY <1>3, <2>2
<1> QED BY <1>4

\* The minimum, as the search for the first matching node finds it.
LEMMA MinIsIn ==
  ASSUME NEW S, S \subseteq Nat, S # {}
  PROVE  Min(S) \in S /\ \A y \in S : Min(S) <= y
BY LeastNatural DEF Min

\* A node that is unlinked leaves the others in their order.
LEMMA RemoveAtProperties ==
  ASSUME NEW S, NEW s \in Seq(S), NEW i \in 1..Len(s)
  PROVE  /\ RemoveAt(s, i) \in Seq(S)
         /\ Len(RemoveAt(s, i)) = Len(s) - 1
         /\ \A j \in 1..Len(s) - 1 :
               RemoveAt(s, i)[j] = IF j < i THEN s[j] ELSE s[j + 1]
<1> DEFINE front == SubSeq(s, 1, i - 1)
           back  == SubSeq(s, i + 1, Len(s))
<1>1. Len(s) \in Nat /\ i \in Nat /\ i >= 1 /\ i <= Len(s)
  OBVIOUS
<1>2. \A j \in 1..Len(s) : s[j] \in S
  BY ElementOfSeq
<1>3. /\ front \in Seq(S) /\ Len(front) = i - 1
      /\ \A j \in 1..i - 1 : front[j] = s[j]
  <2>1. \A j \in 1..i - 1 : s[j] \in S
    BY <1>1, <1>2
  <2>2. /\ front \in Seq(S) /\ Len(front) = IF 1 <= i - 1 THEN i - 1 - 1 + 1 ELSE 0
        /\ \A j \in 1..i - 1 - 1 + 1 : front[j] = s[1 + j - 1]
    BY <1>1, <2>1, SubSeqProperties
  <2> QED BY <1>1, <2>2
<1>4. /\ back \in Seq(S) /\ Len(back) = Len(s) - i
      /\ \A j \in 1..Len(s) - i : back[j] = s[i + j]
  <2>1. \A j \in i + 1..Len(s) : s[j] \in S
    BY <1>1, <1>2
  <2>2. /\ back \in Seq(S)
        /\ Len(back) = IF i + 1 <= Len(s) THEN Len(s) - (i + 1) + 1 ELSE 0
        /\ \A j \in 1..Len(s) - (i + 1) + 1 : back[j] = s[i + 1 + j - 1]
    BY <1>1, <2>1, SubSeqProperties
  <2> QED BY <1>1, <2>2
<1>5. /\ front \o back \in Seq(S)
      /\ Len(front \o back) = Len(front) + Len(back)
      /\ \A j \in 1..Len(front) + Len(back) : (front \o back)[j] =
             IF j <= Len(front) THEN front[j] ELSE back[j - Len(front)]
  BY <1>3, <1>4, ConcatProperties
<1>6. RemoveAt(s, i) = front \o back
  BY DEF RemoveAt
<1> HIDE DEF front, back
<1>7. ASSUME NEW j \in 1..Len(s) - 1
      PROVE  RemoveAt(s, i)[j] = IF j < i THEN s[j] ELSE s[j + 1]
  <2>1. j \in 1..Len(front) + Len(back)
    BY <1>1, <1>3, <1>4, <1>7
  <2>2. CASE j < i
    <3>1. j <= Len(front) /\ j \in 1..i - 1
      BY <1>1, <1>3, <1>7, <2>2
    <3> QED BY <1>3, <1>5, <1>6, <2>1, <2>2, <3>1
  <2>3. CASE ~(j < i)
    <3>1. ~(j <= Len(front)) /\ j - Len(front) \in 1..Len(s) - i
          /\ i + (j - Len(front)) = j + 1
      BY <1>1, <1>3, <1>7, <2>3
    <3> QED BY <1>4, <1>5, <1>6, <2>1, <2>3, <3>1
  <2> QED BY <2>2, <2>3
<1>8. RemoveAt(s, i) \in Seq(S)
  BY <1>5, <1>6
<1>9. Len(RemoveAt(s, i)) = Len(s) - 1
  <2>1. Len(front) + Len(back) = Len(s) - 1
    BY <1>1, <1>3, <1>4
  <2> QED BY <1>5, <1>6, <2>1
<1> QED BY <1>7, <1>8, <1>9

\* The elements of a list and their number do not change otherwise: what was
\* unlinked is gone, and nothing else is.
LEMMA RemoveAtElements ==
  ASSUME NEW S, NEW s \in Seq(S), IsInjective(s), NEW i \in 1..Len(s)
  PROVE  /\ RemoveAt(s, i) \in Seq(S)
         /\ IsInjective(RemoveAt(s, i))
         /\ ToSet(RemoveAt(s, i)) = ToSet(s) \ {s[i]}
<1> DEFINE r == RemoveAt(s, i)
<1>1. /\ r \in Seq(S) /\ Len(r) = Len(s) - 1
      /\ \A j \in 1..Len(s) - 1 : r[j] = IF j < i THEN s[j] ELSE s[j + 1]
  BY RemoveAtProperties
<1> HIDE DEF r
<1>2. /\ DOMAIN s = 1..Len(s) /\ Len(s) \in Nat
      /\ DOMAIN r = 1..Len(s) - 1
  BY <1>1
<1>3. IsInjective(r)
  <2> SUFFICES ASSUME NEW a \in DOMAIN r, NEW b \in DOMAIN r, r[a] = r[b]
               PROVE  a = b
    BY DEF IsInjective
  <2>1. /\ r[a] = IF a < i THEN s[a] ELSE s[a + 1]
        /\ r[b] = IF b < i THEN s[b] ELSE s[b + 1]
        /\ a \in DOMAIN s /\ a + 1 \in DOMAIN s
        /\ b \in DOMAIN s /\ b + 1 \in DOMAIN s
    BY <1>1, <1>2
  <2>2. \A x, y \in DOMAIN s : s[x] = s[y] => x = y
    BY DEF IsInjective
  <2>3. a \in Nat /\ b \in Nat /\ i \in Nat
    BY <1>2
  <2>4. CASE a < i /\ b < i
    BY <2>1, <2>2, <2>4
  <2>5. CASE a < i /\ ~(b < i)
    <3>1. a = b + 1
      BY <2>1, <2>2, <2>5
    <3> QED BY <2>3, <2>5, <3>1
  <2>6. CASE ~(a < i) /\ b < i
    <3>1. a + 1 = b
      BY <2>1, <2>2, <2>6
    <3> QED BY <2>3, <2>6, <3>1
  <2>7. CASE ~(a < i) /\ ~(b < i)
    <3>1. a + 1 = b + 1
      BY <2>1, <2>2, <2>7
    <3> QED BY <2>3, <3>1
  <2> QED BY <2>4, <2>5, <2>6, <2>7
<1>4. ToSet(r) \subseteq ToSet(s) \ {s[i]}
  <2> SUFFICES ASSUME NEW a \in DOMAIN r PROVE r[a] \in ToSet(s) /\ r[a] # s[i]
    BY DEF ToSet
  <2>1. /\ r[a] = IF a < i THEN s[a] ELSE s[a + 1]
        /\ a \in DOMAIN s /\ a + 1 \in DOMAIN s
    BY <1>1, <1>2
  <2>2. \A x, y \in DOMAIN s : s[x] = s[y] => x = y
    BY DEF IsInjective
  <2> QED BY <1>2, <2>1, <2>2 DEF ToSet
<1>5. ToSet(s) \ {s[i]} \subseteq ToSet(r)
  <2> SUFFICES ASSUME NEW a \in DOMAIN s, a # i PROVE s[a] \in ToSet(r)
    BY DEF ToSet
  <2>1. CASE a < i
    <3>1. a \in DOMAIN r /\ r[a] = s[a]
      BY <1>1, <1>2, <2>1
    <3> QED BY <3>1 DEF ToSet
  <2>2. CASE a > i
    <3>1. a - 1 \in DOMAIN r /\ r[a - 1] = s[a]
      BY <1>1, <1>2, <2>2
    <3> QED BY <3>1 DEF ToSet
  <2> QED BY <1>2, <2>1, <2>2
<1> QED BY <1>1, <1>3, <1>4, <1>5 DEF r

\* A node linked at the tail joins the others.
LEMMA AppendElements ==
  ASSUME NEW S, NEW s \in Seq(S), NEW e \in S
  PROVE  /\ Append(s, e) \in Seq(S)
         /\ ToSet(Append(s, e)) = ToSet(s) \cup {e}
         /\ IsInjective(s) /\ e \notin ToSet(s) => IsInjective(Append(s, e))
<1> DEFINE r == Append(s, e)
<1>1. /\ r \in Seq(S) /\ Len(r) = Len(s) + 1
      /\ \A i \in 1..Len(s) : r[i] = s[i]
      /\ r[Len(s) + 1] = e
  BY AppendProperties
<1> HIDE DEF r
<1>2. DOMAIN s = 1..Len(s) /\ Len(s) \in Nat /\ DOMAIN r = 1..Len(s) + 1
  BY <1>1
<1>3. ToSet(r) = ToSet(s) \cup {e}
  <2>1. ToSet(r) \subseteq ToSet(s) \cup {e}
    BY <1>1, <1>2 DEF ToSet
  <2>2. e \in ToSet(r)
    BY <1>1, <1>2 DEF ToSet
  <2>3. \A i \in DOMAIN s : i \in DOMAIN r /\ r[i] = s[i]
    BY <1>1, <1>2
  <2> QED BY <2>1, <2>2, <2>3 DEF ToSet
<1>4. ASSUME IsInjective(s), e \notin ToSet(s) PROVE IsInjective(r)
  BY <1>1, <1>2, <1>4 DEF IsInjective, ToSet
<1> QED BY <1>1, <1>3, <1>4 DEF r

\* The head leaves the list.
LEMMA TailElements ==
  ASSUME NEW S, NEW s \in Seq(S), IsInjective(s), s # <<>>
  PROVE  /\ Head(s) \in S /\ Head(s) \in ToSet(s)
         /\ Tail(s) \in Seq(S) /\ IsInjective(Tail(s))
         /\ ToSet(Tail(s)) = ToSet(s) \ {Head(s)}
<1> DEFINE r == Tail(s)
<1>1. Len(s) \in Nat /\ Len(s) >= 1 /\ DOMAIN s = 1..Len(s) /\ Head(s) = s[1]
  BY EmptySeq, LenProperties
<1>2. /\ r \in Seq(S) /\ Len(r) = Len(s) - 1 /\ DOMAIN r = 1..Len(s) - 1
      /\ \A i \in 1..Len(s) - 1 : r[i] = s[i + 1]
  BY HeadTailProperties, LenProperties
<1> HIDE DEF r
<1>3. \A x, y \in DOMAIN s : s[x] = s[y] => x = y
  BY DEF IsInjective
<1>4. IsInjective(r)
  <2> SUFFICES ASSUME NEW a \in DOMAIN r, NEW b \in DOMAIN r, r[a] = r[b]
               PROVE  a = b
    BY DEF IsInjective
  <2>1. a + 1 \in DOMAIN s /\ b + 1 \in DOMAIN s /\ a \in Nat /\ b \in Nat
    BY <1>1, <1>2
  <2>2. a + 1 = b + 1
    BY <1>2, <1>3, <2>1
  <2> QED BY <2>1, <2>2
<1>5. ToSet(r) \subseteq ToSet(s) \ {s[1]}
  <2> SUFFICES ASSUME NEW a \in DOMAIN r
               PROVE  r[a] \in ToSet(s) /\ r[a] # s[1]
    BY DEF ToSet
  <2>1. a + 1 \in DOMAIN s /\ a + 1 # 1 /\ 1 \in DOMAIN s
    BY <1>1, <1>2
  <2> QED BY <1>2, <1>3, <2>1 DEF ToSet
<1>6. ToSet(s) \ {s[1]} \subseteq ToSet(r)
  <2> SUFFICES ASSUME NEW a \in DOMAIN s, a # 1 PROVE s[a] \in ToSet(r)
    BY DEF ToSet
  <2>1. a - 1 \in DOMAIN r /\ r[a - 1] = s[a]
    BY <1>1, <1>2
  <2> QED BY <2>1 DEF ToSet
<1>7. s[1] \in S /\ s[1] \in ToSet(s)
  BY <1>1, ElementOfSeq DEF ToSet
<1> QED BY <1>1, <1>2, <1>4, <1>5, <1>6, <1>7 DEF r

\* Two lists with no element in common are joined.
LEMMA ConcatElements ==
  ASSUME NEW S, NEW s \in Seq(S), NEW t \in Seq(S)
  PROVE  /\ s \o t \in Seq(S)
         /\ ToSet(s \o t) = ToSet(s) \cup ToSet(t)
         /\ IsInjective(s) /\ IsInjective(t) /\ ToSet(s) \cap ToSet(t) = {}
                => IsInjective(s \o t)
<1> DEFINE r == s \o t
<1>1. /\ r \in Seq(S) /\ Len(r) = Len(s) + Len(t)
      /\ \A i \in 1..Len(s) + Len(t) :
            r[i] = IF i <= Len(s) THEN s[i] ELSE t[i - Len(s)]
  BY ConcatProperties
<1> HIDE DEF r
<1>2. /\ DOMAIN s = 1..Len(s) /\ Len(s) \in Nat /\ DOMAIN t = 1..Len(t)
      /\ Len(t) \in Nat /\ DOMAIN r = 1..Len(s) + Len(t)
  BY <1>1, LenProperties
<1>3. ASSUME NEW i \in DOMAIN r
      PROVE  \/ i <= Len(s) /\ i \in DOMAIN s /\ r[i] = s[i]
             \/ ~(i <= Len(s)) /\ i - Len(s) \in DOMAIN t /\ r[i] = t[i - Len(s)]
  BY <1>1, <1>2
<1>4. ToSet(r) \subseteq ToSet(s) \cup ToSet(t)
  BY <1>3 DEF ToSet
<1>5. ToSet(s) \subseteq ToSet(r)
  <2>1. \A i \in DOMAIN s : i \in DOMAIN r /\ r[i] = s[i]
    BY <1>1, <1>2
  <2> QED BY <2>1 DEF ToSet
<1>6. ToSet(t) \subseteq ToSet(r)
  <2>1. \A i \in DOMAIN t : i + Len(s) \in DOMAIN r /\ r[i + Len(s)] = t[i]
    BY <1>1, <1>2
  <2> QED BY <2>1 DEF ToSet
<1>7. ASSUME IsInjective(s), IsInjective(t), ToSet(s) \cap ToSet(t) = {}
      PROVE  IsInjective(r)
  <2> SUFFICES ASSUME NEW a \in DOMAIN r, NEW b \in DOMAIN r, r[a] = r[b]
               PROVE  a = b
    BY DEF IsInjective
  <2>1. /\ \A x, y \in DOMAIN s : s[x] = s[y] => x = y
        /\ \A x, y \in DOMAIN t : t[x] = t[y] => x = y
        /\ \A x \in DOMAIN s, y \in DOMAIN t : s[x] # t[y]
    BY <1>7 DEF IsInjective, ToSet
  <2>2. a \in Nat /\ b \in Nat
    BY <1>2
  <2>3. CASE a <= Len(s)
    BY <1>3, <2>1, <2>3
  <2>4. CASE ~(a <= Len(s))
    <3>1. a - Len(s) = b - Len(s)
      BY <1>3, <2>1, <2>4
    <3> QED BY <1>2, <2>2, <3>1
  <2> QED BY <2>3, <2>4
<1> QED BY <1>1, <1>4, <1>5, <1>6, <1>7 DEF r

\* A list is cut after its first n nodes.
LEMMA SplitElements ==
  ASSUME NEW S, NEW s \in Seq(S), IsInjective(s), NEW n \in 0..Len(s)
  PROVE  LET f == SubSeq(s, 1, n)
             b == SubSeq(s, n + 1, Len(s))
         IN  /\ f \in Seq(S) /\ IsInjective(f) /\ b \in Seq(S) /\ IsInjective(b)
             /\ ToSet(f) \cap ToSet(b) = {}
             /\ ToSet(f) \cup ToSet(b) = ToSet(s)
             /\ n = Len(s) => b = <<>>
<1> DEFINE f == SubSeq(s, 1, n)
           b == SubSeq(s, n + 1, Len(s))
<1>1. Len(s) \in Nat /\ n \in Nat /\ n <= Len(s) /\ DOMAIN s = 1..Len(s)
  BY LenProperties
<1>2. \A i \in 1..Len(s) : s[i] \in S
  BY ElementOfSeq
<1>3. /\ f \in Seq(S) /\ Len(f) = n /\ DOMAIN f = 1..n
      /\ \A i \in 1..n : f[i] = s[i]
  <2>1. \A i \in 1..n : s[i] \in S
    BY <1>1, <1>2
  <2>2. /\ f \in Seq(S) /\ Len(f) = IF 1 <= n THEN n - 1 + 1 ELSE 0
        /\ \A i \in 1..n - 1 + 1 : f[i] = s[1 + i - 1]
    BY <1>1, <2>1, SubSeqProperties
  <2>3. DOMAIN f = 1..Len(f)
    BY <2>2, LenProperties
  <2> HIDE DEF f
  <2> QED BY <1>1, <2>2, <2>3
<1>4. /\ b \in Seq(S) /\ Len(b) = Len(s) - n /\ DOMAIN b = 1..Len(s) - n
      /\ \A i \in 1..Len(s) - n : b[i] = s[n + i]
  <2>1. \A i \in n + 1..Len(s) : s[i] \in S
    BY <1>1, <1>2
  <2>2. /\ b \in Seq(S)
        /\ Len(b) = IF n + 1 <= Len(s) THEN Len(s) - (n + 1) + 1 ELSE 0
        /\ \A i \in 1..Len(s) - (n + 1) + 1 : b[i] = s[n + 1 + i - 1]
    BY <1>1, <2>1, SubSeqProperties
  <2>3. DOMAIN b = 1..Len(b)
    BY <2>2, LenProperties
  <2> HIDE DEF b
  <2>4. \A k \in Nat : k - (n + 1) + 1 = k - n /\ (n <= k => n + 1 <= k \/ k - n = 0)
    BY <1>1
  <2>5. Len(b) = Len(s) - n
    BY <1>1, <2>2, <2>4
  <2>6. \A i \in 1..Len(s) - n : n + 1 + i - 1 = n + i
    BY <1>1
  <2>7. \A i \in 1..Len(s) - n : b[i] = s[n + i]
    BY <1>1, <2>2, <2>4, <2>6
  <2> QED BY <2>2, <2>3, <2>5, <2>7
<1>5. n = Len(s) => b = <<>>
  BY <1>1, SubSeqEmpty
<1> HIDE DEF f, b
<1>6. \A x, y \in DOMAIN s : s[x] = s[y] => x = y
  BY DEF IsInjective
<1>7. IsInjective(f)
  BY <1>1, <1>3, <1>6 DEF IsInjective
<1>8. IsInjective(b)
  <2> SUFFICES ASSUME NEW x \in DOMAIN b, NEW y \in DOMAIN b, b[x] = b[y]
               PROVE  x = y
    BY DEF IsInjective
  <2>1. n + x \in DOMAIN s /\ n + y \in DOMAIN s /\ x \in Nat /\ y \in Nat
    BY <1>1, <1>4
  <2>2. n + x = n + y
    BY <1>4, <1>6, <2>1
  <2> QED BY <1>1, <2>1, <2>2
<1>9. ToSet(f) \cap ToSet(b) = {}
  <2> SUFFICES ASSUME NEW x \in DOMAIN f, NEW y \in DOMAIN b, f[x] = b[y]
               PROVE  FALSE
    BY DEF ToSet
  <2>1. x \in DOMAIN s /\ n + y \in DOMAIN s /\ x # n + y
    BY <1>1, <1>3, <1>4
  <2> QED BY <1>3, <1>4, <1>6, <2>1
<1>10. ToSet(f) \cup ToSet(b) \subseteq ToSet(s)
  <2>1. \A x \in DOMAIN f : x \in DOMAIN s /\ f[x] = s[x]
    BY <1>1, <1>3
  <2>2. \A x \in DOMAIN b : n + x \in DOMAIN s /\ b[x] = s[n + x]
    BY <1>1, <1>4
  <2> QED BY <2>1, <2>2 DEF ToSet
<1>11. ToSet(s) \subseteq ToSet(f) \cup ToSet(b)
  <2> SUFFICES ASSUME NEW x \in DOMAIN s PROVE s[x] \in ToSet(f) \cup ToSet(b)
    BY DEF ToSet
  <2>1. CASE x <= n
    <3>1. x \in DOMAIN f /\ f[x] = s[x]
      BY <1>1, <1>3, <2>1
    <3> QED BY <3>1 DEF ToSet
  <2>2. CASE ~(x <= n)
    <3>1. x - n \in DOMAIN b /\ b[x - n] = s[x]
      BY <1>1, <1>4, <2>2
    <3> QED BY <3>1 DEF ToSet
  <2> QED BY <2>1, <2>2
<1> QED BY <1>3, <1>4, <1>5, <1>7, <1>8, <1>9, <1>10, <1>11 DEF f, b
=============================================================================
