----------------------------- MODULE WebIOProofs -----------------------------
(***************************************************************************)
(* Requests over the web, for any files, any sizes of the buffers and of   *)
(* the socket, and any way in which reads and writes are cut up.           *)
(***************************************************************************)
EXTENDS WebIO, ListLemmas, FiniteSetTheorems

-----------------------------------------------------------------------------
(* A stream: what one end sends, on its way through left, wire, rio and    *)
(* line of the other.                                                      *)

\* The symbols of P behind the first a, up to the first b.
Cut(P, a, b) == SubSeq(P, a + 1, b)

\* A stream P as its reader has it after a symbols in full lines and as its
\* writer still has it up to n; the line has no end but at its end.
Split(P, n, a, b, c, d, ln, ri, wi, le) ==
    /\ ln = Cut(P, a, b) /\ ri = Cut(P, b, c) /\ wi = Cut(P, c, d) /\ le = Cut(P, d, n)
    /\ \A i \in a + 1..b - 1 : P[i] # EOL

Flow(P, a, n, ln, ri, wi, le) ==
    \E b \in a..n : \E c \in b..n : \E d \in c..n :
        Split(P, n, a, b, c, d, ln, ri, wi, le)

\* P is a sequence with at least n elements.
Holds(P, n) == (\E S : P \in Seq(S)) /\ n \in 0..Len(P)

\* t is what P has from a to b.
IsPiece(t, P, a, b) ==
    /\ \E S : t \in Seq(S)
    /\ Len(t) = b - a
    /\ \A i \in 1..b - a : t[i] = P[a + i]
    /\ (t = <<>>) <=> (a = b)

\* What a cut is.
LEMMA CutIs ==
  ASSUME NEW P, NEW n, Holds(P, n), NEW a \in 0..n, NEW b \in a..n
  PROVE  IsPiece(Cut(P, a, b), P, a, b)
<1>1. PICK S : P \in Seq(S)
  BY DEF Holds
<1>2. Len(P) \in Nat /\ n \in Nat /\ n <= Len(P) /\ \A i \in 1..Len(P) : P[i] \in S
  BY <1>1, LenProperties, ElementOfSeq DEF Holds
<1>3. \A i \in a + 1..b : P[i] \in S
  BY <1>2
<1>4. /\ Cut(P, a, b) \in Seq(S)
      /\ Len(Cut(P, a, b)) = IF a + 1 <= b THEN b - (a + 1) + 1 ELSE 0
      /\ \A i \in 1..b - (a + 1) + 1 : Cut(P, a, b)[i] = P[a + 1 + i - 1]
  BY <1>2, <1>3, SubSeqProperties DEF Cut
<1>5. Len(Cut(P, a, b)) = b - a /\ \A i \in 1..b - a : Cut(P, a, b)[i] = P[a + i]
  BY <1>2, <1>4
<1>6. (Cut(P, a, b) = <<>>) <=> (a = b)
  BY <1>2, <1>4, <1>5, EmptySeq
<1> QED BY <1>4, <1>5, <1>6 DEF IsPiece

\* Cuts of cuts.
LEMMA CutOfCut ==
  ASSUME NEW P, NEW n, Holds(P, n), NEW a \in 0..n, NEW b \in a..n, NEW k \in 0..b - a
  PROVE  /\ SubSeq(Cut(P, a, b), 1, k) = Cut(P, a, a + k)
         /\ Rest(Cut(P, a, b), k) = Cut(P, a + k, b)
<1> DEFINE t == Cut(P, a, b)
<1>0. IsPiece(t, P, a, b)
  BY CutIs
<1>1. PICK S : t \in Seq(S)
  BY <1>0 DEF IsPiece
<1>2. Len(t) = b - a /\ \A i \in 1..b - a : t[i] = P[a + i]
  BY <1>0 DEF IsPiece
<1>3. n \in Nat /\ a \in Nat /\ b \in Nat /\ k \in Nat /\ a <= b /\ k <= b - a /\ b <= n
  <2>1. n \in Nat
    BY LenProperties DEF Holds
  <2> QED BY <2>1
<1> HIDE DEF t
<1>4. \A i \in 1..b - a : t[i] \in S
  BY <1>1, <1>2, ElementOfSeq
<1>5. PICK e : e = a + k
  OBVIOUS
<1>6. e \in a..n /\ b \in e..n /\ e \in 0..n
  BY <1>3, <1>5
<1>7. IsPiece(Cut(P, a, e), P, a, e) /\ IsPiece(Cut(P, e, b), P, e, b)
  BY <1>6, CutIs
<1>9. SubSeq(t, 1, k) = Cut(P, a, e)
  <2> DEFINE u == SubSeq(t, 1, k)
             v == Cut(P, a, e)
  <2>1. \A i \in 1..k : t[i] \in S
    BY <1>3, <1>4
  <2>2. /\ u \in Seq(S) /\ Len(u) = IF 1 <= k THEN k - 1 + 1 ELSE 0
        /\ \A i \in 1..k - 1 + 1 : u[i] = t[1 + i - 1]
    BY <1>3, <2>1, SubSeqProperties
  <2>3. PICK U : v \in Seq(U)
    BY <1>7 DEF IsPiece
  <2>4. u \in Seq(S \cup U) /\ v \in Seq(S \cup U)
    BY <2>3, <2>2, SeqMonotonic
  <2>5. Len(v) = k /\ \A i \in 1..k : v[i] = P[a + i]
    BY <1>3, <1>5, <1>7 DEF IsPiece
  <2> HIDE DEF u, v
  <2>6. Len(u) = k /\ \A i \in 1..k : u[i] = P[a + i]
    <3>1. Len(u) = k
      BY <1>3, <2>2
    <3>2. ASSUME NEW i \in 1..k PROVE u[i] = P[a + i]
      <4>1. i \in 1..k - 1 + 1 /\ 1 + i - 1 = i /\ i \in 1..b - a
        BY <1>3
      <4>2. u[i] = t[1 + i - 1]
        BY <2>2, <4>1
      <4>3. t[i] = P[a + i]
        BY <1>2, <4>1
      <4> QED BY <4>1, <4>2, <4>3
    <3> QED BY <3>1, <3>2
  <2>7. u = v
    BY <1>3, <2>4, <2>5, <2>6, SeqEqual
  <2> QED BY <2>7 DEF u, v
<1>10. Rest(t, k) = Cut(P, e, b)
  <2> DEFINE u == SubSeq(t, k + 1, Len(t))
             v == Cut(P, e, b)
  <2>1. \A i \in k + 1..Len(t) : t[i] \in S
    BY <1>2, <1>3, <1>4
  <2>2. PICK m, l : m = k + 1 /\ l = Len(t)
    OBVIOUS
  <2>3. m \in Int /\ l \in Int /\ (\A i \in m..l : t[i] \in S) /\ u = SubSeq(t, m, l)
    BY <1>2, <1>3, <2>1, <2>2
  <2>4. /\ u \in Seq(S) /\ Len(u) = IF m <= l THEN l - m + 1 ELSE 0
        /\ \A i \in 1..l - m + 1 : u[i] = t[m + i - 1]
    <3>1. PICK w : w = t
      OBVIOUS
    <3>2. \A i \in m..l : w[i] \in S
      BY <2>3, <3>1
    <3>3. /\ SubSeq(w, m, l) \in Seq(S) /\ Len(SubSeq(w, m, l)) = IF m <= l THEN l - m + 1 ELSE 0
          /\ \A i \in 1..l - m + 1 : SubSeq(w, m, l)[i] = w[m + i - 1]
      BY <2>3, <3>2, SubSeqProperties
    <3> QED BY <2>3, <3>1, <3>3
  <2>5. PICK V : v \in Seq(V)
    BY <1>7 DEF IsPiece
  <2>6. u \in Seq(S \cup V) /\ v \in Seq(S \cup V)
    BY <2>4, <2>5, SeqMonotonic
  <2>7. Len(v) = b - e /\ \A i \in 1..b - e : v[i] = P[e + i]
    BY <1>7 DEF IsPiece
  <2> HIDE DEF u, v
  <2>8. Len(u) = b - e
    <3>1. l = b - a /\ m = k + 1
      BY <1>2, <2>2
    <3>2. Len(u) = IF m <= l THEN l - m + 1 ELSE 0
      BY <2>4
    <3> QED BY <1>3, <1>5, <3>1, <3>2
  <2>9. ASSUME NEW i \in 1..b - e PROVE u[i] = P[e + i]
    <3>1. i \in 1..l - m + 1 /\ k + i \in 1..b - a /\ m + i - 1 = k + i /\ a + (k + i) = e + i
      BY <1>2, <1>3, <1>5, <2>2
    <3>2. u[i] = t[k + i] /\ t[k + i] = P[a + (k + i)]
      BY <3>1, <2>4, <1>2
    <3> QED BY <3>1, <3>2
  <2>10. u = v
    BY <1>3, <1>6, <2>6, <2>7, <2>8, <2>9, SeqEqual
  <2> QED BY <2>10 DEF u, v, Rest
<1> QED BY <1>5, <1>9, <1>10 DEF t

\* Cuts that follow each other.
LEMMA CutsJoin ==
  ASSUME NEW P, NEW n, Holds(P, n), NEW a \in 0..n, NEW b \in a..n, NEW c \in b..n
  PROVE  Cut(P, a, b) \o Cut(P, b, c) = Cut(P, a, c)
<1>1. PICK S : P \in Seq(S)
  BY DEF Holds
<1>2. Len(P) \in Nat /\ n \in Nat /\ n <= Len(P)
  BY <1>1, LenProperties DEF Holds
<1>3. a + 1 \in 1..Len(P) + 1 /\ b \in a + 1 - 1..Len(P) /\ c \in b..Len(P)
  BY <1>2
<1> QED BY <1>1, <1>3, ConcatAdjacentSubSeq DEF Cut

\* The places of a stream.
LEMMA FlowPlaces ==
  ASSUME NEW P, NEW n, Holds(P, n), NEW a \in 0..n,
         NEW ln, NEW ri, NEW wi, NEW le, Flow(P, a, n, ln, ri, wi, le)
  PROVE  \E b, c, d \in 0..n :
            /\ a <= b /\ b <= c /\ c <= d
            /\ Split(P, n, a, b, c, d, ln, ri, wi, le)
            /\ IsPiece(ln, P, a, b) /\ IsPiece(ri, P, b, c)
            /\ IsPiece(wi, P, c, d) /\ IsPiece(le, P, d, n)
<1>1. n \in Nat
  BY LenProperties DEF Holds
<1>2. PICK b \in a..n : \E c \in b..n : \E d \in c..n : Split(P, n, a, b, c, d, ln, ri, wi, le)
  BY DEF Flow
<1>3. PICK c \in b..n : \E d \in c..n : Split(P, n, a, b, c, d, ln, ri, wi, le)
  BY <1>2
<1>4. PICK d \in c..n : Split(P, n, a, b, c, d, ln, ri, wi, le)
  BY <1>3
<1>5. b \in 0..n /\ c \in 0..n /\ d \in 0..n /\ a <= b /\ b <= c /\ c <= d /\ n \in d..n
  BY <1>1
<1>6. /\ IsPiece(Cut(P, a, b), P, a, b) /\ IsPiece(Cut(P, b, c), P, b, c)
      /\ IsPiece(Cut(P, c, d), P, c, d) /\ IsPiece(Cut(P, d, n), P, d, n)
  BY <1>5, CutIs
<1>7. ln = Cut(P, a, b) /\ ri = Cut(P, b, c) /\ wi = Cut(P, c, d) /\ le = Cut(P, d, n)
  BY <1>4 DEF Split
<1> QED BY <1>4, <1>5, <1>6, <1>7

\* And back.
LEMMA FlowFrom ==
  ASSUME NEW P, NEW n \in Nat, NEW a \in 0..n, NEW b \in 0..n, NEW c \in 0..n, NEW d \in 0..n,
         a <= b, b <= c, c <= d,
         NEW ln, NEW ri, NEW wi, NEW le, Split(P, n, a, b, c, d, ln, ri, wi, le)
  PROVE  Flow(P, a, n, ln, ri, wi, le)
BY DEF Flow

\* rio_write: some of what is left goes on its way.
LEMMA WriteFlow ==
  ASSUME NEW P, NEW n, Holds(P, n), NEW a \in 0..n,
         NEW ln, NEW ri, NEW wi, NEW le, Flow(P, a, n, ln, ri, wi, le),
         NEW k \in 1..Len(le)
  PROVE  Flow(P, a, n, ln, ri, wi \o SubSeq(le, 1, k), Rest(le, k))
<1>1. PICK b, c, d \in 0..n :
            /\ a <= b /\ b <= c /\ c <= d
            /\ Split(P, n, a, b, c, d, ln, ri, wi, le) /\ IsPiece(le, P, d, n)
  BY FlowPlaces
<1>2. n \in Nat /\ Len(le) = n - d
  BY <1>1, LenProperties DEF Holds, IsPiece
<1>3. k \in 0..n - d /\ n \in d..n
  BY <1>2
<1>4. SubSeq(le, 1, k) = Cut(P, d, d + k) /\ Rest(le, k) = Cut(P, d + k, n)
  BY <1>1, <1>3, CutOfCut DEF Split
<1>5. PICK e : e = d + k
  OBVIOUS
<1>6. e \in 0..n /\ e \in d..n /\ c <= e /\ d \in c..n
  BY <1>1, <1>2, <1>3, <1>5
<1>7. wi \o SubSeq(le, 1, k) = Cut(P, c, e)
  <2>1. Cut(P, c, d) \o Cut(P, d, e) = Cut(P, c, e)
    BY <1>6, CutsJoin
  <2>2. wi = Cut(P, c, d) /\ SubSeq(le, 1, k) = Cut(P, d, e)
    BY <1>1, <1>4, <1>5 DEF Split
  <2> QED BY <2>1, <2>2, Zenon
<1>8. Split(P, n, a, b, c, e, ln, ri, wi \o SubSeq(le, 1, k), Rest(le, k))
  BY <1>1, <1>4, <1>5, <1>7 DEF Split
<1> QED BY <1>1, <1>2, <1>6, <1>8, FlowFrom

\* rio_readb: the empty buffer is filled.
LEMMA RefillFlow ==
  ASSUME NEW P, NEW n, Holds(P, n), NEW a \in 0..n,
         NEW ln, NEW wi, NEW le, Flow(P, a, n, ln, <<>>, wi, le),
         NEW k \in 1..Len(wi)
  PROVE  Flow(P, a, n, ln, SubSeq(wi, 1, k), Rest(wi, k), le)
<1>1. PICK b, c, d \in 0..n :
            /\ a <= b /\ b <= c /\ c <= d
            /\ Split(P, n, a, b, c, d, ln, <<>>, wi, le)
            /\ IsPiece(<<>>, P, b, c) /\ IsPiece(wi, P, c, d)
  BY FlowPlaces
<1>2. n \in Nat /\ Len(wi) = d - c /\ b = c
  BY <1>1, LenProperties DEF Holds, IsPiece
<1>3. k \in 0..d - c /\ d \in c..n
  BY <1>1, <1>2
<1>4. SubSeq(wi, 1, k) = Cut(P, c, c + k) /\ Rest(wi, k) = Cut(P, c + k, d)
  BY <1>1, <1>3, CutOfCut DEF Split
<1>5. PICK e : e = c + k
  OBVIOUS
<1>6. e \in 0..n /\ b <= e /\ e <= d
  BY <1>1, <1>2, <1>3, <1>5
<1>7. Split(P, n, a, b, e, d, ln, SubSeq(wi, 1, k), Rest(wi, k), le)
  BY <1>1, <1>2, <1>4, <1>5 DEF Split
<1> QED BY <1>1, <1>2, <1>6, <1>7, FlowFrom

\* rio_readlineb takes characters up to the end of the line.
LEMMA TakeFlow ==
  ASSUME NEW P, NEW n, Holds(P, n), NEW a \in 0..n,
         NEW ln, NEW ri, NEW wi, NEW le, Flow(P, a, n, ln, ri, wi, le),
         ln # <<>> => Last(ln) # EOL,
         NEW k \in 1..Len(ri), \A i \in 1..k - 1 : ri[i] # EOL
  PROVE  Flow(P, a, n, ln \o SubSeq(ri, 1, k), Rest(ri, k), wi, le)
<1>1. PICK b, c, d \in 0..n :
            /\ a <= b /\ b <= c /\ c <= d
            /\ Split(P, n, a, b, c, d, ln, ri, wi, le)
            /\ IsPiece(ln, P, a, b) /\ IsPiece(ri, P, b, c)
  BY FlowPlaces
<1>2. n \in Nat /\ Len(ri) = c - b /\ Len(ln) = b - a
  BY <1>1, LenProperties DEF Holds, IsPiece
<1>3. k \in 0..c - b /\ c \in b..n /\ b \in a..n
  BY <1>1, <1>2
<1>4. SubSeq(ri, 1, k) = Cut(P, b, b + k) /\ Rest(ri, k) = Cut(P, b + k, c)
  BY <1>1, <1>3, CutOfCut DEF Split
<1>5. PICK e : e = b + k
  OBVIOUS
<1>6. e \in 0..n /\ e \in b..n /\ a <= e /\ e <= c
  BY <1>1, <1>2, <1>3, <1>5
<1>7. ln \o SubSeq(ri, 1, k) = Cut(P, a, e)
  <2>1. Cut(P, a, b) \o Cut(P, b, e) = Cut(P, a, e)
    BY <1>3, <1>6, CutsJoin
  <2>2. ln = Cut(P, a, b) /\ SubSeq(ri, 1, k) = Cut(P, b, e)
    BY <1>1, <1>4, <1>5 DEF Split
  <2> QED BY <2>1, <2>2, Zenon
<1>8. ASSUME NEW i \in a + 1..e - 1 PROVE P[i] # EOL
  <2>1. CASE i < b
    BY <1>1, <1>2, <2>1 DEF Split
  <2>2. CASE i = b
    <3>1. ln # <<>> /\ b - a \in 1..b - a /\ a + (b - a) = b
      BY <1>1, <1>2, <2>2 DEF IsPiece
    <3>2. ln[b - a] = P[a + (b - a)]
      BY <1>1, <3>1 DEF IsPiece
    <3> QED BY <1>2, <2>2, <3>1, <3>2 DEF Last
  <2>3. CASE i > b
    <3>1. PICK j : j = i - b
      OBVIOUS
    <3>2. j \in 1..k - 1 /\ j \in 1..c - b /\ b + j = i
      BY <1>2, <1>3, <1>5, <2>3, <3>1
    <3>3. ri[j] = P[b + j]
      BY <1>1, <3>2 DEF IsPiece
    <3> QED BY <3>2, <3>3
  <2> QED BY <1>1, <1>2, <1>6, <2>1, <2>2, <2>3
<1>9. Split(P, n, a, e, c, d, ln \o SubSeq(ri, 1, k), Rest(ri, k), wi, le)
  BY <1>1, <1>4, <1>5, <1>7, <1>8 DEF Split
<1> QED BY <1>1, <1>2, <1>6, <1>9, FlowFrom

\* The line is used, and the next one begins.
LEMMA DropFlow ==
  ASSUME NEW P, NEW n, Holds(P, n), NEW a \in 0..n,
         NEW ln, NEW ri, NEW wi, NEW le, Flow(P, a, n, ln, ri, wi, le)
  PROVE  /\ Len(ln) \in Nat /\ a + Len(ln) \in 0..n
         /\ Flow(P, a + Len(ln), n, <<>>, ri, wi, le)
         /\ ln = Cut(P, a, a + Len(ln))
<1>1. PICK b, c, d \in 0..n :
            /\ a <= b /\ b <= c /\ c <= d
            /\ Split(P, n, a, b, c, d, ln, ri, wi, le)
            /\ IsPiece(ln, P, a, b)
  BY FlowPlaces
<1>2. n \in Nat /\ Len(ln) = b - a /\ a + Len(ln) = b
  BY <1>1, LenProperties DEF Holds, IsPiece
<1>3. Cut(P, b, b) = <<>>
  <2>1. b \in 0..n /\ b \in b..n
    BY <1>1, <1>2
  <2> QED BY <2>1, CutIs DEF IsPiece
<1>4. Split(P, n, b, b, c, d, <<>>, ri, wi, le)
  BY <1>1, <1>3 DEF Split
<1>5. Flow(P, b, n, <<>>, ri, wi, le)
  BY <1>1, <1>2, <1>4, FlowFrom
<1> QED BY <1>1, <1>2, <1>5 DEF Split

\* The writer gives up.
LEMMA LoseFlow ==
  ASSUME NEW P, NEW n, Holds(P, n), NEW a \in 0..n,
         NEW ln, NEW ri, NEW wi, NEW le, Flow(P, a, n, ln, ri, wi, le)
  PROVE  \E m \in 0..n : a \in 0..m /\ Flow(P, a, m, ln, ri, wi, <<>>)
<1>1. PICK b, c, d \in 0..n :
            /\ a <= b /\ b <= c /\ c <= d
            /\ Split(P, n, a, b, c, d, ln, ri, wi, le)
  BY FlowPlaces
<1>2. n \in Nat
  BY LenProperties DEF Holds
<1>3. Cut(P, d, d) = <<>>
  <2>1. d \in 0..n /\ d \in d..n
    BY <1>1, <1>2
  <2> QED BY <2>1, CutIs DEF IsPiece
<1>4. Split(P, d, a, b, c, d, ln, ri, wi, <<>>)
  BY <1>1, <1>3 DEF Split
<1>5. d \in Nat /\ a \in 0..d /\ b \in 0..d /\ c \in 0..d /\ d \in 0..d
  BY <1>1, <1>2
<1>6. Flow(P, a, d, ln, ri, wi, <<>>)
  BY <1>1, <1>4, <1>5, FlowFrom
<1> QED BY <1>1, <1>5, <1>6

\* Nothing is under way.
LEMMA NoFlow ==
  ASSUME NEW P, NEW n, Holds(P, n)
  PROVE  Flow(P, n, n, <<>>, <<>>, <<>>, <<>>)
<1>1. n \in Nat /\ n \in 0..n /\ n \in n..n
  BY LenProperties DEF Holds
<1>2. Cut(P, n, n) = <<>>
  BY <1>1, CutIs DEF IsPiece
<1>3. Split(P, n, n, n, n, n, <<>>, <<>>, <<>>, <<>>)
  BY <1>1, <1>2 DEF Split
<1> QED BY <1>1, <1>3, FlowFrom

\* Everything is still to be written.
LEMMA NewFlow ==
  ASSUME NEW P, NEW S, P \in Seq(S)
  PROVE  Flow(P, 0, Len(P), <<>>, <<>>, <<>>, P)
<1>1. Len(P) \in Nat /\ Holds(P, Len(P)) /\ 0 \in 0..Len(P) /\ 0 \in 0..0
  BY LenProperties DEF Holds
<1>2. Cut(P, 0, 0) = <<>>
  <2>1. Holds(P, 0)
    BY <1>1 DEF Holds
  <2> QED BY <1>1, <2>1, CutIs DEF IsPiece
<1>3. Cut(P, 0, Len(P)) = P
  BY SubSeqFull, <1>1 DEF Cut
<1>4. Split(P, Len(P), 0, 0, 0, 0, <<>>, <<>>, <<>>, P)
  BY <1>1, <1>2, <1>3 DEF Split
<1> QED BY <1>1, <1>4, FlowFrom

\* Nothing was sent and nothing is left: the reader is at the end.
LEMMA FlowEnds ==
  ASSUME NEW P, NEW n, Holds(P, n), NEW a \in 0..n, NEW ln,
         Flow(P, a, n, ln, <<>>, <<>>, <<>>)
  PROVE  a + Len(ln) = n
<1>1. PICK b, c, d \in 0..n :
            /\ a <= b /\ b <= c /\ c <= d
            /\ IsPiece(ln, P, a, b) /\ IsPiece(<<>>, P, b, c)
            /\ IsPiece(<<>>, P, c, d) /\ IsPiece(<<>>, P, d, n)
  BY FlowPlaces
<1> QED BY <1>1, LenProperties DEF IsPiece, Holds

\* The reader is at the end: nothing is under way.
LEMMA FlowDone ==
  ASSUME NEW P, NEW n, Holds(P, n), NEW ln, NEW ri, NEW wi, NEW le,
         Flow(P, n, n, ln, ri, wi, le)
  PROVE  ln = <<>> /\ ri = <<>> /\ wi = <<>> /\ le = <<>>
<1>1. n \in 0..n /\ n \in Nat
  BY LenProperties DEF Holds
<1>2. PICK b, c, d \in 0..n :
            /\ n <= b /\ b <= c /\ c <= d
            /\ IsPiece(ln, P, n, b) /\ IsPiece(ri, P, b, c)
            /\ IsPiece(wi, P, c, d) /\ IsPiece(le, P, d, n)
  BY <1>1, FlowPlaces
<1> QED BY <1>1, <1>2 DEF IsPiece

\* A line of two symbols: its text and its end.
LEMMA ShortLine ==
  ASSUME NEW P, NEW n, Holds(P, n), NEW a \in 0..n,
         NEW ln, NEW ri, NEW wi, NEW le, Flow(P, a, n, ln, ri, wi, le),
         a + 2 \in 0..n => P[a + 1] # EOL /\ P[a + 2] = EOL
  PROVE  /\ a + 2 \in 0..n => Len(ln) <= 2
         /\ (a + 2 \in 0..n /\ ln # <<>>) => (Last(ln) = EOL <=> Len(ln) = 2)
         /\ ln # <<>> => ln[1] = P[a + 1]
         /\ Len(ln) = 2 => ln = <<P[a + 1], P[a + 2]>>
<1>1. PICK b, c, d \in 0..n :
            /\ a <= b /\ b <= c /\ c <= d
            /\ Split(P, n, a, b, c, d, ln, ri, wi, le)
            /\ IsPiece(ln, P, a, b)
  BY FlowPlaces
<1>2. n \in Nat /\ Len(ln) = b - a
  BY <1>1, LenProperties DEF Holds, IsPiece
<1>3. a + 2 \in 0..n => Len(ln) <= 2
  BY <1>1, <1>2 DEF Split
<1>4. \A i \in 1..b - a : ln[i] = P[a + i]
  BY <1>1 DEF IsPiece
<1>5. ln # <<>> => b - a >= 1
  BY <1>1, <1>2 DEF IsPiece
<1>6. ln # <<>> => ln[1] = P[a + 1]
  BY <1>2, <1>4, <1>5
<1>7. (a + 2 \in 0..n /\ ln # <<>>) => (Last(ln) = EOL <=> Len(ln) = 2)
  BY <1>2, <1>3, <1>4, <1>5, <1>6 DEF Last
<1>8. ASSUME Len(ln) = 2 PROVE ln = <<P[a + 1], P[a + 2]>>
  <2>1. PICK S : ln \in Seq(S)
    BY <1>1 DEF IsPiece
  <2>2. b - a = 2 /\ 1 \in 1..b - a /\ 2 \in 1..b - a /\ 1 \in 1..Len(ln) /\ 2 \in 1..Len(ln)
    <3>1. b - a = 2
      BY <1>2, <1>8, Zenon
    <3> QED BY <1>8, <3>1
  <2>4. ln[1] = P[a + 1] /\ ln[2] = P[a + 2]
    BY <1>4, <2>2
  <2>3. ln[1] \in S /\ ln[2] \in S
    BY <2>1, <2>2, ElementOfSeq
  <2> QED BY <1>8, <2>1, <2>3, <2>4
<1> QED BY <1>3, <1>6, <1>7, <1>8

-----------------------------------------------------------------------------
(* The inductive invariant.                                                *)

\* What client_send writes.
Request(m, f) == Line(<<m, f>>) \o Line(<<"host", 0>>) \o Blank

\* The answer to the present request, once the worker has made it: what it is
\* to say, and what is written.
Text  == IF rc = 1 THEN file_buf ELSE Refusal
Body  == IF rc = 1 THEN file_buf ELSE body
Code  == IF rc = 1 THEN 200 ELSE IF ask.method = "get" THEN Refused[ask.file] ELSE 501
Reply == Page(Code, Len(Text), Csum(Text), Body)

Replying == pc["server"] \in {"close", "idle", "exited"} /\ rc # -1
Made     == IF Replying THEN Len(Reply) ELSE 0

ServerPCs == {"idle", "line", "header", "headers", "stat", "read", "send", "close",
              "spin", "exited"}
ClientPCs == {"start", "next", "send", "head", "body", "check", "aborted", "exited", "gone"}

\* How much of the request the worker has used.
ServerAt ==
    IF pc["server"] = "line" THEN 0
    ELSE IF pc["server"] = "header" THEN 2
    ELSE IF pc["server"] = "headers" THEN 4
    ELSE IF ask.method = "get" THEN 6 ELSE 2

\* f has a value for each end.
ForEnds(f) == f = [p \in Ends |-> f[p]]

Types ==
    /\ ForEnds(wire) /\ ForEnds(rio) /\ ForEnds(line) /\ ForEnds(left) /\ ForEnds(pc)
    /\ pc["server"] \in ServerPCs /\ pc["client"] \in ClientPCs
    /\ open \subseteq Ends
    /\ ask \in [checked : BOOLEAN, method : Methods, file : Names]
    /\ disk \in [Files -> Seq(Bytes)] /\ uri \in Names
    /\ size \in Nat /\ file_buf \in Seq(Bytes) /\ body \in Seq(Bytes)
    /\ rc \in {-1, 0, 1} /\ lost \subseteq Files
    /\ overrun \in BOOLEAN /\ died \in BOOLEAN /\ shrunk \in BOOLEAN

\* Where the two ends are with respect to each other.
Stages ==
    /\ "server" \in open <=> pc["server"] \notin {"idle", "exited"}
    /\ "client" \in open <=> pc["client"] \in {"send", "head", "body", "check"}
    /\ left["server"] # <<>> => pc["server"] = "close"
    /\ left["client"] # <<>> => pc["client"] = "send"
    /\ line["server"] # <<>> => pc["server"] \in {"line", "header", "headers", "exited"}
    /\ died <=> pc["client"] = "gone"
    /\ pc["client"] \in {"start", "next", "check", "aborted", "exited"} =>
          pc["server"] \in {"idle", "exited"}
    /\ pc["server"] = "exited" => died \/ MayEnd
    /\ pc["server"] = "spin" => died

\* What the client knows and asks.
Asks ==
    /\ pc["client"] # "start" => fileset = Index[2]
    /\ ask.checked => ask.method = "get" /\ ask.file \in Files
    /\ pc["client"] = "exited" => ask.method # "get"
    /\ pc["client"] = "aborted" => shrunk \/ MayEnd

\* What the worker has to answer with.
Answers ==
    /\ pc["server"] \in {"line", "header", "headers", "stat", "read"} => rc = -1
    /\ pc["server"] = "send" => rc = 1
    /\ pc["server"] \in {"close", "idle"} => rc \in {0, 1}
    /\ pc["server"] = "exited" =>
          rc # 1 /\ (rc = -1 => ask.method = "get" /\ ask.file \in lost)
    /\ rc = 1 =>
          /\ ask.method = "get" /\ ask.file \in Files /\ size = Len(file_buf)
          /\ ~shrunk => file_buf = Content[ask.file]
    /\ rc = 0 =>
          /\ Refusable /\ (TooLong(body) <=> TooLong(Refusal))
          /\ ~TooLong(Refusal) => body = Refusal

\* What the worker knows of the request and has of the file.
Serves ==
    /\ ~shrunk => disk = Content
    /\ pc["server"] \in {"read", "send"} => uri \in Files
    /\ "client" \in open =>
          /\ pc["server"] \in {"header", "headers", "stat", "read", "send"} =>
                ask.method = "get" /\ uri = ask.file
          /\ pc["server"] = "read" => (~shrunk => size = Len(disk[uri]))
          /\ Answers

\* The request on its way, of n symbols if the client was cut short.
RequestAt(a, n) ==
    /\ Flow(Request(ask.method, ask.file), a, n,
            line["server"], rio["server"], wire["server"], left["client"])
    /\ ~died /\ (pc["server"] \notin {"idle", "exited"} \/ ask.method = "get") =>
          a = ServerAt /\ n = 6
RequestInv == \E a \in {0, 2, 4, 6} : \E n \in a..6 : RequestAt(a, n)

\* What the client has learnt from the first a symbols of the answer.
Learnt(a) ==
    /\ pc["client"] = "send" => a = 0 /\ line["client"] = <<>>
    /\ pc["client"] = "head" => a \in {0, 2, 4, 6}
    /\ pc["client"] \in {"send", "head"} =>
          got = [length |-> IF a >= 4 THEN Len(Text) ELSE 0,
                 csum |-> IF a >= 6 THEN Csum(Text) ELSE 0, body |-> <<>>]
    /\ pc["client"] \in {"body", "check"} =>
          IF Replying
          THEN /\ a >= 8
               /\ got = [length |-> Len(Text), csum |-> Csum(Text), body |-> Cut(Reply, 8, a)]
          ELSE pc["server"] = "exited" /\ got = NoAnswer
    /\ pc["client"] = "check" => a = Made

\* The answer on its way.
ReplyAt(a) ==
    /\ Flow(Reply, a, Made, line["client"], rio["client"], wire["client"], left["server"])
    /\ Learnt(a)
ReplyInv == "client" \in open =>
    Len(line["client"]) <= MaxBuf /\ \E a \in 0..Made : ReplyAt(a)

\* What may overrun a buffer.
Overruns ==
    overrun => \/ died \/ shrunk
               \/ Refusable /\ TooLong(Refusal)
               \/ ask.file \in Files /\ LongLine(Content[ask.file])

IInv == /\ Types /\ Stages /\ Asks /\ Serves /\ RequestInv /\ ReplyInv /\ Overruns

-----------------------------------------------------------------------------
(* What the two ends send.                                                 *)

\* A sequence that is two lines.
TwoLines(P, x, y) ==
    /\ \E S : P \in Seq(S)
    /\ Len(P) = 4 /\ P[1] = x /\ P[2] = EOL /\ P[3] = y /\ P[4] = EOL

\* Two lines.
LEMMA LinesJoin ==
  ASSUME NEW x, NEW y
  PROVE  TwoLines(Line(x) \o Line(y), x, y)
<1> DEFINE S == {x, y, EOL}
           s == Line(x)
           t == Line(y)
<1>1. /\ s \in Seq(S) /\ Len(s) = 2 /\ s[1] = x /\ s[2] = EOL
      /\ t \in Seq(S) /\ Len(t) = 2 /\ t[1] = y /\ t[2] = EOL
  BY DEF Line
<1> HIDE DEF S, s, t
<1>2. /\ s \o t \in Seq(S) /\ Len(s \o t) = Len(s) + Len(t)
      /\ \A i \in 1..Len(s) + Len(t) : (s \o t)[i] = IF i <= Len(s) THEN s[i] ELSE t[i - Len(s)]
  BY <1>1, ConcatProperties
<1>3. /\ Len(s \o t) = 4 /\ (s \o t)[1] = s[1] /\ (s \o t)[2] = s[2]
      /\ (s \o t)[3] = t[1] /\ (s \o t)[4] = t[2]
  BY <1>1, <1>2
<1>4. TwoLines(s \o t, x, y)
  BY <1>1, <1>2, <1>3 DEF TwoLines
<1> QED BY <1>4 DEF s, t

\* Symbol i of s is the i-th of s followed by t, symbol i of t comes behind s.
Joined(P, s, t) ==
    /\ \E S : P \in Seq(S)
    /\ Len(P) = Len(s) + Len(t)
    /\ \A i \in 1..Len(s) : P[i] = s[i]
    /\ \A i \in 1..Len(t) : P[Len(s) + i] = t[i]

\* Concatenation, for sequences over any two sets.
LEMMA ConcatJoins ==
  ASSUME NEW s, NEW t, \E S : s \in Seq(S), \E S : t \in Seq(S)
  PROVE  Joined(s \o t, s, t)
<1>1. PICK S : s \in Seq(S)
  OBVIOUS
<1>2. PICK T : t \in Seq(T)
  OBVIOUS
<1>3. s \in Seq(S \cup T) /\ t \in Seq(S \cup T)
  BY <1>1, <1>2, SeqMonotonic
<1>4. /\ s \o t \in Seq(S \cup T) /\ Len(s \o t) = Len(s) + Len(t)
      /\ \A i \in 1..Len(s) + Len(t) : (s \o t)[i] = IF i <= Len(s) THEN s[i] ELSE t[i - Len(s)]
  BY <1>3, ConcatProperties
<1>5. Len(s) \in Nat /\ Len(t) \in Nat
  BY <1>3, LenProperties
<1>6. ASSUME NEW i \in 1..Len(s) PROVE (s \o t)[i] = s[i]
  BY <1>4, <1>5
<1>7. ASSUME NEW i \in 1..Len(t) PROVE (s \o t)[Len(s) + i] = t[i]
  <2>1. PICK j : j = Len(s) + i
    OBVIOUS
  <2>2. j \in 1..Len(s) + Len(t) /\ ~(j <= Len(s)) /\ j - Len(s) = i
    BY <1>5, <2>1
  <2>3. (s \o t)[j] = t[j - Len(s)]
    BY <1>4, <2>2
  <2> QED BY <2>1, <2>2, <2>3
<1> QED BY <1>4, <1>6, <1>7 DEF Joined

\* The request: three lines.
IsRequest(P, m, f) ==
    /\ Holds(P, 6) /\ Len(P) = 6
    /\ P[1] = <<m, f>> /\ P[2] = EOL /\ P[3] = <<"host", 0>> /\ P[4] = EOL
    /\ P[5] = <<"return", 0>> /\ P[6] = EOL

\* What client_send sends.
LEMMA RequestIs ==
  ASSUME NEW m, NEW f
  PROVE  IsRequest(Request(m, f), m, f)
<1> DEFINE s == Line(<<m, f>>) \o Line(<<"host", 0>>)
           t == Blank
<1>1. TwoLines(s, <<m, f>>, <<"host", 0>>)
  BY LinesJoin
<1>2. /\ \E S : t \in Seq(S)
      /\ Len(t) = 2 /\ t[1] = <<"return", 0>> /\ t[2] = EOL
  <2>1. t \in Seq({<<"return", 0>>, EOL})
    BY DEF Blank, Line
  <2> QED BY <2>1 DEF Blank, Line
<1>3. Request(m, f) = s \o t
  BY DEF Request
<1> HIDE DEF s, t
<1>4. Joined(s \o t, s, t)
  BY <1>1, <1>2, ConcatJoins DEF TwoLines
<1>5. PICK P : P = Request(m, f)
  OBVIOUS
<1>6. Joined(P, s, t)
  BY <1>3, <1>4, <1>5
<1>7. /\ (\E S : P \in Seq(S)) /\ Len(P) = 6 /\ P[1] = s[1] /\ P[2] = s[2]
      /\ P[3] = s[3] /\ P[4] = s[4]
  BY <1>1, <1>2, <1>6 DEF Joined, TwoLines
<1>8. P[4 + 1] = t[1] /\ P[4 + 2] = t[2]
  BY <1>1, <1>2, <1>6 DEF Joined, TwoLines
<1>9. P[5] = t[1] /\ P[6] = t[2]
  BY <1>8
<1> QED BY <1>1, <1>2, <1>5, <1>7, <1>9 DEF TwoLines, IsRequest, Holds

\* The answer: four lines and the body.
IsPage(P, code, n, csum, text) ==
    /\ Holds(P, 8 + Len(text)) /\ Len(P) = 8 + Len(text)
    /\ P[1] = <<"status", code>> /\ P[2] = EOL /\ P[3] = <<"length", n>> /\ P[4] = EOL
    /\ P[5] = <<"csum", csum>> /\ P[6] = EOL /\ P[7] = <<"return", 0>> /\ P[8] = EOL
    /\ \A i \in 1..Len(text) : P[8 + i] = text[i]

\* What request_error and request_sendfile write.
LEMMA PageIs ==
  ASSUME NEW code, NEW n, NEW csum, NEW text, \E S : text \in Seq(S)
  PROVE  IsPage(Page(code, n, csum, text), code, n, csum, text)
<1> DEFINE s == Line(<<"status", code>>) \o Line(<<"length", n>>)
           l == Line(<<"csum", csum>>)
           t == Blank
<1>1. TwoLines(s, <<"status", code>>, <<"length", n>>)
  BY LinesJoin
<1>2. /\ \E S : t \in Seq(S)
      /\ Len(t) = 2 /\ t[1] = <<"return", 0>> /\ t[2] = EOL
  <2>1. t \in Seq({<<"return", 0>>, EOL})
    BY DEF Blank, Line
  <2> QED BY <2>1 DEF Blank, Line
<1>3. /\ \E S : l \in Seq(S)
      /\ Len(l) = 2 /\ l[1] = <<"csum", csum>> /\ l[2] = EOL
  <2>1. l \in Seq({<<"csum", csum>>, EOL})
    BY DEF Line
  <2> QED BY <2>1 DEF Line
<1>4. Page(code, n, csum, text) = ((s \o l) \o t) \o text
  BY DEF Page
<1> HIDE DEF s, l, t
<1>5. PICK u : u = s \o l
  OBVIOUS
<1>6. Joined(u, s, l)
  BY <1>1, <1>3, <1>5, ConcatJoins DEF TwoLines
<1>7. /\ (\E S : u \in Seq(S)) /\ Len(u) = 6 /\ u[1] = s[1] /\ u[2] = s[2]
      /\ u[3] = s[3] /\ u[4] = s[4] /\ u[5] = l[1] /\ u[6] = l[2]
  <2>1. u[4 + 1] = l[1] /\ u[4 + 2] = l[2]
    BY <1>1, <1>3, <1>6 DEF Joined, TwoLines
  <2> QED BY <1>1, <1>3, <1>6, <2>1 DEF Joined, TwoLines
<1>8. PICK v : v = u \o t
  OBVIOUS
<1>9. Joined(v, u, t)
  BY <1>2, <1>7, <1>8, ConcatJoins
<1>10. /\ (\E S : v \in Seq(S)) /\ Len(v) = 8 /\ v[1] = u[1] /\ v[2] = u[2]
       /\ v[3] = u[3] /\ v[4] = u[4] /\ v[5] = u[5] /\ v[6] = u[6]
       /\ v[7] = t[1] /\ v[8] = t[2]
  <2>1. v[6 + 1] = t[1] /\ v[6 + 2] = t[2]
    BY <1>2, <1>7, <1>9 DEF Joined
  <2> QED BY <1>2, <1>7, <1>9, <2>1 DEF Joined
<1>11. PICK P : P = v \o text
  OBVIOUS
<1>12. Joined(P, v, text)
  BY <1>10, <1>11, ConcatJoins
<1>13. /\ (\E S : P \in Seq(S)) /\ Len(P) = 8 + Len(text) /\ P[1] = v[1] /\ P[2] = v[2]
       /\ P[3] = v[3] /\ P[4] = v[4] /\ P[5] = v[5] /\ P[6] = v[6]
       /\ P[7] = v[7] /\ P[8] = v[8]
       /\ \A i \in 1..Len(text) : P[8 + i] = text[i]
  BY <1>10, <1>12 DEF Joined
<1>14. Len(text) \in Nat
  BY LenProperties
<1>15. IsPage(P, code, n, csum, text)
  BY <1>1, <1>2, <1>3, <1>7, <1>10, <1>13, <1>14 DEF TwoLines, IsPage, Holds
<1> QED BY <1>4, <1>5, <1>8, <1>11, <1>15

\* The body is what follows the header.
LEMMA BodyOfPage ==
  ASSUME NEW P, NEW code, NEW n, NEW csum, NEW S, NEW text \in Seq(S),
         IsPage(P, code, n, csum, text)
  PROVE  Cut(P, 8, Len(P)) = text
<1>1. Len(text) \in Nat /\ Holds(P, Len(P)) /\ Len(P) = 8 + Len(text)
  BY LenProperties DEF IsPage
<1>2. PICK k : k = Len(P)
  OBVIOUS
<1>3. 8 \in 0..k /\ k \in 8..k /\ Holds(P, k)
  BY <1>1, <1>2
<1>4. IsPiece(Cut(P, 8, k), P, 8, k)
  BY <1>3, CutIs
<1>5. PICK c : c = Cut(P, 8, k)
  OBVIOUS
<1>6. PICK T : c \in Seq(T)
  BY <1>4, <1>5 DEF IsPiece
<1>7. c \in Seq(S \cup T) /\ text \in Seq(S \cup T)
  BY <1>6, SeqMonotonic
<1>8. Len(c) = Len(text) /\ \A i \in 1..Len(text) : c[i] = P[8 + i]
  BY <1>1, <1>2, <1>4, <1>5 DEF IsPiece
<1>9. \A i \in 1..Len(c) : c[i] = text[i]
  BY <1>8 DEF IsPage
<1>10. c = text
  BY <1>7, <1>8, <1>9, SeqEqual
<1> QED BY <1>2, <1>5, <1>10

-----------------------------------------------------------------------------
(* The steps.                                                              *)

\* The answer is a page, whether it has been made or not.
LEMMA ReplyIs ==
  ASSUME Types
  PROVE  /\ Body \in Seq(Bytes) /\ Len(Body) \in Nat
         /\ IsPage(Reply, Code, Len(Text), Csum(Text), Body)
         /\ Len(Reply) = 8 + Len(Body) /\ Holds(Reply, Len(Reply))
         /\ Made \in Nat /\ Holds(Reply, Made)
<1>1. Body \in Seq(Bytes)
  BY DEF Types, Body
<1>2. Len(Body) \in Nat
  BY <1>1, LenProperties
<1>3. IsPage(Reply, Code, Len(Text), Csum(Text), Body)
  BY <1>1, PageIs DEF Reply
<1>4. Len(Reply) = 8 + Len(Body) /\ Holds(Reply, Len(Reply))
  BY <1>3 DEF IsPage
<1>5. Made \in Nat /\ Holds(Reply, Made)
  BY <1>2, <1>4 DEF Made, Holds
<1> QED BY <1>1, <1>2, <1>3, <1>4, <1>5

\* The request on its way is not disturbed by what leaves it alone.
LEMMA RequestKept ==
  ASSUME RequestInv, ask' = ask, line'["server"] = line["server"],
         rio'["server"] = rio["server"], wire'["server"] = wire["server"],
         left'["client"] = left["client"], died' = died, pc'["server"] = pc["server"]
  PROVE  RequestInv'
BY DEF RequestInv, RequestAt, ServerAt

\* Nor is the answer.
LEMMA ReplyKept ==
  ASSUME ReplyInv, "client" \in open' => "client" \in open,
         ask' = ask, file_buf' = file_buf, rc' = rc, body' = body, Replying' = Replying,
         ~Replying => pc'["server"] = pc["server"],
         line'["client"] = line["client"], rio'["client"] = rio["client"],
         wire'["client"] = wire["client"], left'["server"] = left["server"],
         pc'["client"] = pc["client"], got' = got
  PROVE  ReplyInv'
<1>1. Text' = Text /\ Body' = Body /\ Code' = Code
  BY DEF Text, Body, Code, Refusal
<1>2. Reply' = Reply /\ Made' = Made
  BY <1>1 DEF Reply, Made
<1>3. ASSUME NEW a, ReplyAt(a) PROVE ReplyAt(a)'
  BY <1>1, <1>2, <1>3 DEF ReplyAt, Learnt
<1> QED BY <1>2, <1>3 DEF ReplyInv

\* Steps that change none of the variables that the invariant is about.
LEMMA SameStep ==
  ASSUME IInv, UNCHANGED <<conn, pc, ask, got, fileset, server, overrun, lost, died, shrunk,
                           disk>>
  PROVE  IInv'
<1>1. /\ wire' = wire /\ open' = open /\ rio' = rio /\ line' = line /\ left' = left
      /\ pc' = pc /\ ask' = ask /\ got' = got /\ fileset' = fileset /\ uri' = uri
      /\ size' = size /\ file_buf' = file_buf /\ overrun' = overrun /\ died' = died
      /\ shrunk' = shrunk /\ disk' = disk /\ lost' = lost /\ rc' = rc /\ body' = body
  BY DEF conn, server
<1>2. RequestInv'
  BY <1>1, RequestKept DEF IInv
<1>3. ReplyInv'
  BY <1>1, ReplyKept DEF IInv, Replying
<1>4. Types' /\ Stages' /\ Asks' /\ Serves' /\ Overruns'
  BY <1>1 DEF IInv, Types, Stages, Asks, Serves, Answers, Overruns, Refusable, Refusal, MayEnd
<1> QED BY <1>2, <1>3, <1>4 DEF IInv

\* A read or write that is interrupted.
LEMMA InterruptedStep ==
  ASSUME IInv, NEW p \in Ends, Interrupted(p)
  PROVE  IInv'
<1>1. pc' = pc
  BY DEF Interrupted, AfterInterrupt, IInv, Types, ForEnds
<1> QED BY <1>1, SameStep DEF Interrupted, client, conn, server

\* The server writes.
LEMMA ServerWrites ==
  ASSUME IInv, "client" \in open, left["server"] # <<>>, NEW k \in 1..Len(left["server"]),
         wire' = [wire EXCEPT !["client"] = @ \o SubSeq(left["server"], 1, k)],
         left' = [left EXCEPT !["server"] = Rest(@, k)],
         UNCHANGED <<open, rio, line, pc, client, server, faults>>
  PROVE  IInv'
<1>1. /\ open' = open /\ rio' = rio /\ line' = line
      /\ pc' = pc /\ ask' = ask /\ got' = got /\ fileset' = fileset /\ uri' = uri
      /\ size' = size /\ file_buf' = file_buf /\ overrun' = overrun /\ died' = died
      /\ shrunk' = shrunk /\ disk' = disk /\ lost' = lost /\ rc' = rc /\ body' = body
  BY DEF client, server, faults
<1>2. ForEnds(wire') /\ wire'["client"] = wire["client"] \o SubSeq(left["server"], 1, k)
      /\ wire'["server"] = wire["server"]
  <2>1. ForEnds(wire)
    BY DEF IInv, Types
  <2> QED BY <2>1 DEF ForEnds, Ends
<1>3. /\ ForEnds(left') /\ left'["server"] = Rest(left["server"], k)
      /\ left'["client"] = left["client"]
  <2>1. ForEnds(left)
    BY DEF IInv, Types
  <2> QED BY <2>1 DEF ForEnds, Ends
<1>4. RequestInv'
  BY <1>1, <1>2, <1>3, RequestKept DEF IInv
<1>5. Text' = Text /\ Replying' = Replying /\ Reply' = Reply /\ Made' = Made
  BY <1>1 DEF Text, Body, Code, Refusal, Reply, Made, Replying
<1>6. ReplyInv'
  <2>1. PICK a \in 0..Made : ReplyAt(a)
    BY DEF IInv, ReplyInv
  <2>2. Flow(Reply, a, Made, line["client"], rio["client"], wire'["client"], left'["server"])
    BY <1>2, <1>3, <2>1, ReplyIs, WriteFlow DEF ReplyAt, IInv
  <2>3. ReplyAt(a)'
    BY <1>1, <1>5, <2>1, <2>2 DEF ReplyAt, Learnt
  <2> QED BY <1>1, <1>5, <2>3 DEF IInv, ReplyInv
<1>7. Types' /\ Stages' /\ Asks' /\ Serves' /\ Overruns'
  BY <1>1, <1>2, <1>3
  DEF IInv, Types, Stages, Asks, Serves, Answers, Overruns, Refusable, Refusal, MayEnd
<1> QED BY <1>4, <1>6, <1>7 DEF IInv

\* The request is there, up to any place.
LEMMA RequestHolds ==
  ASSUME NEW m, NEW f, NEW n \in 0..6
  PROVE  Holds(Request(m, f), n)
BY RequestIs DEF IsRequest, Holds

\* Every line of the request is a text and its end.
LEMMA RequestLines ==
  ASSUME NEW m \in Methods, NEW f, NEW a \in {0, 2, 4}, NEW P, IsRequest(P, m, f)
  PROVE  P[a + 1] # EOL /\ P[a + 2] = EOL
<1>1. <<m, f>> # EOL /\ <<"host", 0>> # EOL /\ <<"return", 0>> # EOL
  BY DEF Methods, EOL
<1>2. CASE a = 0
  BY <1>1, <1>2 DEF IsRequest
<1>3. CASE a = 2
  BY <1>1, <1>3 DEF IsRequest
<1>4. CASE a = 4
  BY <1>1, <1>4 DEF IsRequest
<1> QED BY <1>2, <1>3, <1>4

\* The request P as it is in its places.
Sent(P, a, n) ==
    /\ P = Request(ask.method, ask.file) /\ IsRequest(P, ask.method, ask.file)
    /\ a \in {0, 2, 4, 6} /\ n \in a..6 /\ a \in 0..n
    /\ RequestAt(a, n) /\ Holds(P, n)
    /\ Flow(P, a, n, line["server"], rio["server"], wire["server"], left["client"])
    /\ a + 2 \in 0..n => P[a + 1] # EOL /\ P[a + 2] = EOL

\* There is one.
LEMMA RequestFlows ==
  ASSUME IInv
  PROVE  \E P, a, n : Sent(P, a, n)
<1>1. PICK a \in {0, 2, 4, 6} : \E n \in a..6 : RequestAt(a, n)
  BY DEF IInv, RequestInv
<1>2. PICK n \in a..6 : RequestAt(a, n)
  BY <1>1
<1>3. PICK P : P = Request(ask.method, ask.file)
  OBVIOUS
<1>4. IsRequest(P, ask.method, ask.file) /\ Holds(P, n) /\ a \in 0..n
  <2>1. n \in 0..6 /\ a \in 0..n
    OBVIOUS
  <2> QED BY <1>3, <2>1, RequestIs, RequestHolds
<1>5. ASSUME a + 2 \in 0..n PROVE P[a + 1] # EOL /\ P[a + 2] = EOL
  <2>1. a \in {0, 2, 4} /\ ask.method \in Methods
    BY <1>5 DEF IInv, Types
  <2> QED BY <1>4, <2>1, RequestLines
<1>6. Flow(P, a, n, line["server"], rio["server"], wire["server"], left["client"])
  BY <1>2, <1>3 DEF RequestAt
<1>7. Sent(P, a, n)
  BY <1>2, <1>3, <1>4, <1>5, <1>6 DEF Sent
<1> QED BY <1>7

\* A stream of the request that nobody but the two ends moved on.
LEMMA RequestMoves ==
  ASSUME NEW P, NEW a, NEW n, Sent(P, a, n), ask' = ask, died' = died, pc' = pc,
         Flow(P, a, n, line'["server"], rio'["server"], wire'["server"], left'["client"])
  PROVE  RequestInv'
<1>1. RequestAt(a, n)'
  BY DEF Sent, RequestAt, ServerAt
<1> QED BY <1>1 DEF Sent, RequestInv

\* Lines of the request are short.
LEMMA LineOfRequest ==
  ASSUME NEW P, NEW a \in {0, 2, 4, 6}, NEW n \in a..6, Holds(P, n),
         NEW ln, NEW ri, NEW wi, NEW le, Flow(P, a, n, ln, ri, wi, le),
         a + 2 \in 0..n => P[a + 1] # EOL /\ P[a + 2] = EOL
  PROVE  Len(ln) \in 0..2
<1>1. a \in 0..n
  OBVIOUS
<1>2. Len(ln) \in Nat /\ a + Len(ln) \in 0..n
  BY <1>1, DropFlow
<1>3. a + 2 \in 0..n => Len(ln) <= 2
  BY <1>1, ShortLine
<1>4. CASE a + 2 \in 0..n
  <2>1. PICK l : l = Len(ln)
    OBVIOUS
  <2>2. l \in Nat /\ l <= 2
    BY <1>2, <1>3, <1>4, <2>1
  <2>3. l \in 0..2
    BY <2>2
  <2> QED BY <2>1, <2>3
<1>5. CASE a + 2 \notin 0..n
  <2>1. PICK l : l = Len(ln)
    OBVIOUS
  <2>2. l \in Nat /\ a + l <= n /\ a + 2 > n /\ n \in Nat /\ a \in Nat
    BY <1>2, <1>5, <2>1
  <2>3. l \in 0..2
    BY <2>2
  <2> QED BY <2>1, <2>3
<1> QED BY <1>4, <1>5

\* The client writes.
LEMMA ClientWrites ==
  ASSUME IInv, left["client"] # <<>>, NEW k \in 1..Len(left["client"]),
         wire' = [wire EXCEPT !["server"] = @ \o SubSeq(left["client"], 1, k)],
         left' = [left EXCEPT !["client"] = Rest(@, k)],
         UNCHANGED <<open, rio, line, pc, client, server, faults>>
  PROVE  IInv'
<1>1. /\ open' = open /\ rio' = rio /\ line' = line
      /\ pc' = pc /\ ask' = ask /\ got' = got /\ fileset' = fileset /\ uri' = uri
      /\ size' = size /\ file_buf' = file_buf /\ overrun' = overrun /\ died' = died
      /\ shrunk' = shrunk /\ disk' = disk /\ lost' = lost /\ rc' = rc /\ body' = body
  BY DEF client, server, faults
<1>2. /\ ForEnds(wire') /\ wire'["client"] = wire["client"]
      /\ wire'["server"] = wire["server"] \o SubSeq(left["client"], 1, k)
  <2>1. ForEnds(wire)
    BY DEF IInv, Types
  <2> QED BY <2>1 DEF ForEnds, Ends
<1>3. /\ ForEnds(left') /\ left'["server"] = left["server"]
      /\ left'["client"] = Rest(left["client"], k)
  <2>1. ForEnds(left)
    BY DEF IInv, Types
  <2> QED BY <2>1 DEF ForEnds, Ends
<1>4. ReplyInv'
  BY <1>1, <1>2, <1>3, ReplyKept DEF IInv, Replying
<1>5. RequestInv'
  <2>1. PICK P, a, n : Sent(P, a, n)
    BY RequestFlows
  <2>2. /\ Holds(P, n) /\ a \in 0..n
        /\ Flow(P, a, n, line["server"], rio["server"], wire["server"], left["client"])
    BY <2>1 DEF Sent
  <2>3. Flow(P, a, n, line["server"], rio["server"],
             wire["server"] \o SubSeq(left["client"], 1, k), Rest(left["client"], k))
    BY <2>2, WriteFlow
  <2>4. Flow(P, a, n, line'["server"], rio'["server"], wire'["server"], left'["client"])
    BY <1>1, <1>2, <1>3, <2>3
  <2> QED BY <1>1, <2>1, <2>4, RequestMoves
<1>6. Types' /\ Stages' /\ Asks' /\ Serves' /\ Overruns'
  BY <1>1, <1>2, <1>3
  DEF IInv, Types, Stages, Asks, Serves, Answers, Overruns, Refusable, Refusal, MayEnd
<1> QED BY <1>4, <1>5, <1>6 DEF IInv

\* The server fills its buffer.
LEMMA ServerRefills ==
  ASSUME IInv, rio["server"] = <<>>, NEW k \in 1..Len(wire["server"]),
         rio' = [rio EXCEPT !["server"] = SubSeq(wire["server"], 1, k)],
         wire' = [wire EXCEPT !["server"] = Rest(@, k)],
         UNCHANGED <<open, line, left, pc, client, server, faults>>
  PROVE  IInv'
<1>1. /\ open' = open /\ left' = left /\ line' = line
      /\ pc' = pc /\ ask' = ask /\ got' = got /\ fileset' = fileset /\ uri' = uri
      /\ size' = size /\ file_buf' = file_buf /\ overrun' = overrun /\ died' = died
      /\ shrunk' = shrunk /\ disk' = disk /\ lost' = lost /\ rc' = rc /\ body' = body
  BY DEF client, server, faults
<1>2. /\ ForEnds(wire') /\ wire'["client"] = wire["client"]
      /\ wire'["server"] = Rest(wire["server"], k)
  <2>1. ForEnds(wire)
    BY DEF IInv, Types
  <2> QED BY <2>1 DEF ForEnds, Ends
<1>3. /\ ForEnds(rio') /\ rio'["client"] = rio["client"]
      /\ rio'["server"] = SubSeq(wire["server"], 1, k)
  <2>1. ForEnds(rio)
    BY DEF IInv, Types
  <2> QED BY <2>1 DEF ForEnds, Ends
<1>4. ReplyInv'
  BY <1>1, <1>2, <1>3, ReplyKept DEF IInv, Replying
<1>5. RequestInv'
  <2>1. PICK P, a, n : Sent(P, a, n)
    BY RequestFlows
  <2>2. /\ Holds(P, n) /\ a \in 0..n
        /\ Flow(P, a, n, line["server"], <<>>, wire["server"], left["client"])
    BY <2>1 DEF Sent
  <2>3. Flow(P, a, n, line["server"], SubSeq(wire["server"], 1, k), Rest(wire["server"], k),
             left["client"])
    BY <2>2, RefillFlow
  <2>4. Flow(P, a, n, line'["server"], rio'["server"], wire'["server"], left'["client"])
    BY <1>1, <1>2, <1>3, <2>3
  <2> QED BY <1>1, <2>1, <2>4, RequestMoves
<1>6. Types' /\ Stages' /\ Asks' /\ Serves' /\ Overruns'
  BY <1>1, <1>2, <1>3
  DEF IInv, Types, Stages, Asks, Serves, Answers, Overruns, Refusable, Refusal, MayEnd
<1> QED BY <1>4, <1>5, <1>6 DEF IInv

\* The client fills its buffer.
LEMMA ClientRefills ==
  ASSUME IInv, "client" \in open, rio["client"] = <<>>, NEW k \in 1..Len(wire["client"]),
         rio' = [rio EXCEPT !["client"] = SubSeq(wire["client"], 1, k)],
         wire' = [wire EXCEPT !["client"] = Rest(@, k)],
         UNCHANGED <<open, line, left, pc, client, server, faults>>
  PROVE  IInv'
<1>1. /\ open' = open /\ left' = left /\ line' = line
      /\ pc' = pc /\ ask' = ask /\ got' = got /\ fileset' = fileset /\ uri' = uri
      /\ size' = size /\ file_buf' = file_buf /\ overrun' = overrun /\ died' = died
      /\ shrunk' = shrunk /\ disk' = disk /\ lost' = lost /\ rc' = rc /\ body' = body
  BY DEF client, server, faults
<1>2. /\ ForEnds(wire') /\ wire'["server"] = wire["server"]
      /\ wire'["client"] = Rest(wire["client"], k)
  <2>1. ForEnds(wire)
    BY DEF IInv, Types
  <2> QED BY <2>1 DEF ForEnds, Ends
<1>3. /\ ForEnds(rio') /\ rio'["server"] = rio["server"]
      /\ rio'["client"] = SubSeq(wire["client"], 1, k)
  <2>1. ForEnds(rio)
    BY DEF IInv, Types
  <2> QED BY <2>1 DEF ForEnds, Ends
<1>4. RequestInv'
  BY <1>1, <1>2, <1>3, RequestKept DEF IInv
<1>5. Text' = Text /\ Replying' = Replying /\ Reply' = Reply /\ Made' = Made
  BY <1>1 DEF Text, Body, Code, Refusal, Reply, Made, Replying
<1>6. ReplyInv'
  <2>1. PICK a \in 0..Made : ReplyAt(a)
    BY DEF IInv, ReplyInv
  <2>2. Flow(Reply, a, Made, line["client"], <<>>, wire["client"], left["server"])
    BY <2>1 DEF ReplyAt
  <2>3. Flow(Reply, a, Made, line["client"], rio'["client"], wire'["client"], left["server"])
    BY <1>2, <1>3, <2>2, ReplyIs, RefillFlow DEF IInv
  <2>4. ReplyAt(a)'
    BY <1>1, <1>5, <2>1, <2>3 DEF ReplyAt, Learnt
  <2> QED BY <1>1, <1>5, <2>4 DEF IInv, ReplyInv
<1>7. Types' /\ Stages' /\ Asks' /\ Serves' /\ Overruns'
  BY <1>1, <1>2, <1>3
  DEF IInv, Types, Stages, Asks, Serves, Answers, Overruns, Refusable, Refusal, MayEnd
<1> QED BY <1>4, <1>6, <1>7 DEF IInv

\* A write of the server that is lost: nobody reads.
LEMMA ServerLoses ==
  ASSUME IInv, "client" \notin open, left' = [left EXCEPT !["server"] = <<>>],
         UNCHANGED <<wire, open, rio, line, pc, client, server, faults>>
  PROVE  IInv'
<1>1. /\ wire' = wire /\ open' = open /\ rio' = rio /\ line' = line
      /\ pc' = pc /\ ask' = ask /\ got' = got /\ fileset' = fileset /\ uri' = uri
      /\ size' = size /\ file_buf' = file_buf /\ overrun' = overrun /\ died' = died
      /\ shrunk' = shrunk /\ disk' = disk /\ lost' = lost /\ rc' = rc /\ body' = body
  BY DEF client, server, faults
<1>2. ForEnds(left') /\ left'["server"] = <<>> /\ left'["client"] = left["client"]
  <2>1. ForEnds(left)
    BY DEF IInv, Types
  <2> QED BY <2>1 DEF ForEnds, Ends
<1>3. RequestInv'
  BY <1>1, <1>2, RequestKept DEF IInv
<1>4. ReplyInv'
  BY <1>1 DEF ReplyInv
<1>5. Types' /\ Stages' /\ Asks' /\ Serves' /\ Overruns'
  BY <1>1, <1>2 DEF IInv, Types, Stages, Asks, Serves, Answers, Overruns, Refusable, Refusal, MayEnd
<1> QED BY <1>3, <1>4, <1>5 DEF IInv

\* The server closed the connection with part of the request unread: only a
\* method that is not GET makes it do so.
LEMMA ClosedEarly ==
  ASSUME IInv, "server" \notin open, pc["client"] \in {"send", "head", "body"},
         left["client"] # <<>> \/ wire["server"] # <<>>
  PROVE  pc["server"] \in {"idle", "exited"} /\ ask.method # "get"
<1>1. ~died /\ pc["server"] \in {"idle", "exited"}
  BY DEF IInv, Stages
<1>2. PICK P, a, n : Sent(P, a, n)
  BY RequestFlows
<1>3. ASSUME ask.method = "get" PROVE FALSE
  <2>1. a = 6 /\ n = 6
    BY <1>1, <1>2, <1>3 DEF Sent, RequestAt, ServerAt
  <2>2. Flow(P, 6, 6, line["server"], rio["server"], wire["server"], left["client"]) /\ Holds(P, 6)
    BY <1>2, <2>1 DEF Sent
  <2> QED BY <2>2, FlowDone
<1> QED BY <1>1, <1>3

\* The client is cut short, and no more of the request will come.
LEMMA RequestLost ==
  ASSUME IInv, ask' = ask, line'["server"] = line["server"],
         rio'["server"] = rio["server"], wire'["server"] = wire["server"],
         left'["client"] = <<>>, died' \/ (pc'["server"] \in {"idle", "exited"} /\ ask.method # "get")
  PROVE  RequestInv'
<1>1. PICK P, a, n : Sent(P, a, n)
  BY RequestFlows
<1>2. /\ Holds(P, n) /\ a \in 0..n
      /\ Flow(P, a, n, line["server"], rio["server"], wire["server"], left["client"])
  BY <1>1 DEF Sent
<1>3. PICK m \in 0..n :
        a \in 0..m /\ Flow(P, a, m, line["server"], rio["server"], wire["server"], <<>>)
  BY <1>2, LoseFlow
<1>4. a \in {0, 2, 4, 6} /\ n \in a..6 /\ m \in a..6
  BY <1>1, <1>3 DEF Sent
<1>5. RequestAt(a, m)'
  BY <1>1, <1>3 DEF Sent, RequestAt
<1> QED BY <1>4, <1>5 DEF RequestInv

\* A write of the client that is lost.
LEMMA ClientLoses ==
  ASSUME IInv, "server" \notin open, left["client"] # <<>>,
         left' = [left EXCEPT !["client"] = <<>>],
         UNCHANGED <<wire, open, rio, line, pc, client, server, faults>>
  PROVE  IInv'
<1>1. /\ wire' = wire /\ open' = open /\ rio' = rio /\ line' = line
      /\ pc' = pc /\ ask' = ask /\ got' = got /\ fileset' = fileset /\ uri' = uri
      /\ size' = size /\ file_buf' = file_buf /\ overrun' = overrun /\ died' = died
      /\ shrunk' = shrunk /\ disk' = disk /\ lost' = lost /\ rc' = rc /\ body' = body
  BY DEF client, server, faults
<1>2. ForEnds(left') /\ left'["client"] = <<>> /\ left'["server"] = left["server"]
  <2>1. ForEnds(left)
    BY DEF IInv, Types
  <2> QED BY <2>1 DEF ForEnds, Ends
<1>3. pc["server"] \in {"idle", "exited"} /\ ask.method # "get"
  BY ClosedEarly DEF IInv, Stages
<1>4. RequestInv'
  BY <1>1, <1>2, <1>3, RequestLost
<1>5. ReplyInv'
  BY <1>1, <1>2, ReplyKept DEF IInv, Replying
<1>6. Types' /\ Stages' /\ Asks' /\ Serves' /\ Overruns'
  BY <1>1, <1>2 DEF IInv, Types, Stages, Asks, Serves, Answers, Overruns, Refusable, Refusal, MayEnd
<1> QED BY <1>4, <1>5, <1>6 DEF IInv

\* The process of the server ends: a client has gone away.
LEMMA ServerExits ==
  ASSUME IInv, "client" \notin open, pc["server"] \notin {"idle", "exited"}, Exit("server")
  PROVE  IInv'
<1>1. /\ wire' = wire /\ rio' = rio /\ line' = line /\ open' = open \ {"server"}
      /\ ask' = ask /\ got' = got /\ fileset' = fileset /\ uri' = uri
      /\ size' = size /\ file_buf' = file_buf /\ overrun' = overrun /\ died' = died
      /\ shrunk' = shrunk /\ disk' = disk /\ lost' = lost /\ rc' = rc /\ body' = body
  BY DEF Exit, client, server, faults
<1>2. ForEnds(left') /\ left'["server"] = <<>> /\ left'["client"] = left["client"]
  <2>1. ForEnds(left)
    BY DEF IInv, Types
  <2> QED BY <2>1 DEF ForEnds, Ends, Exit
<1>3. ForEnds(pc') /\ pc'["server"] = "exited" /\ pc'["client"] = pc["client"]
  <2>1. ForEnds(pc)
    BY DEF IInv, Types
  <2> QED BY <2>1 DEF ForEnds, Ends, Exit
<1>4. died
  BY DEF IInv, Types, Stages, ClientPCs
<1>5. RequestInv'
  <2>1. PICK P, a, n : Sent(P, a, n)
    BY RequestFlows
  <2>2. RequestAt(a, n)'
    BY <1>1, <1>2, <1>4, <2>1 DEF Sent, RequestAt
  <2> QED BY <2>1, <2>2 DEF Sent, RequestInv
<1>6. ReplyInv'
  BY <1>1 DEF ReplyInv
<1>7. Types' /\ Stages' /\ Asks' /\ Serves' /\ Overruns'
  BY <1>1, <1>2, <1>3, <1>4
  DEF IInv, Types, Stages, Asks, Serves, Answers, Overruns, Refusable, Refusal, MayEnd, ServerPCs
<1> QED BY <1>5, <1>6, <1>7 DEF IInv

\* The client ends: its request was refused before it was read.
LEMMA ClientExits ==
  ASSUME IInv, "server" \notin open, pc["client"] \in {"send", "head", "body"},
         left["client"] # <<>> \/ wire["server"] # <<>>, Exit("client")
  PROVE  IInv'
<1>1. /\ wire' = wire /\ rio' = rio /\ line' = line /\ open' = open \ {"client"}
      /\ ask' = ask /\ got' = got /\ fileset' = fileset /\ uri' = uri
      /\ size' = size /\ file_buf' = file_buf /\ overrun' = overrun /\ died' = died
      /\ shrunk' = shrunk /\ disk' = disk /\ lost' = lost /\ rc' = rc /\ body' = body
  BY DEF Exit, client, server, faults
<1>2. ForEnds(left') /\ left'["client"] = <<>> /\ left'["server"] = left["server"]
  <2>1. ForEnds(left)
    BY DEF IInv, Types
  <2> QED BY <2>1 DEF ForEnds, Ends, Exit
<1>3. ForEnds(pc') /\ pc'["client"] = "exited" /\ pc'["server"] = pc["server"]
  <2>1. ForEnds(pc)
    BY DEF IInv, Types
  <2> QED BY <2>1 DEF ForEnds, Ends, Exit
<1>4. pc["server"] \in {"idle", "exited"} /\ ask.method # "get"
  BY ClosedEarly
<1>5. RequestInv'
  BY <1>1, <1>2, <1>3, <1>4, RequestLost
<1>6. ReplyInv'
  BY <1>1 DEF ReplyInv
<1>7. Types' /\ Stages' /\ Asks' /\ Serves' /\ Overruns'
  BY <1>1, <1>2, <1>3, <1>4
  DEF IInv, Types, Stages, Asks, Serves, Answers, Overruns, Refusable, Refusal, MayEnd, ClientPCs
<1> QED BY <1>5, <1>6, <1>7 DEF IInv

\* What rio_readlineb takes: something, within its room, up to an end of line.
LEMMA TakenIs ==
  ASSUME NEW S, NEW s \in Seq(S), s # <<>>, NEW m \in Nat \ {0}
  PROVE  /\ Taken(s, m) \in 1..Len(s) /\ Taken(s, m) <= m
         /\ \A i \in 1..Taken(s, m) - 1 : s[i] # EOL
<1> DEFINE end == {k \in 1..Len(s) : s[k] = EOL}
           A   == {Len(s), m} \cup end
<1>1. Len(s) \in Nat /\ Len(s) >= 1
  BY LenProperties, EmptySeq
<1>2. A \subseteq Nat /\ A # {} /\ \A x \in A : x >= 1
  BY <1>1
<1>3. Taken(s, m) = Min(A)
  BY DEF Taken
<1>4. PICK k : k = Min(A)
  OBVIOUS
<1>5. k \in A /\ \A y \in A : k <= y
  BY <1>2, <1>4, MinIsIn
<1>6. k \in Nat /\ k >= 1 /\ k <= Len(s) /\ k <= m
  BY <1>2, <1>5
<1>7. ASSUME NEW i \in 1..k - 1 PROVE s[i] # EOL
  BY <1>1, <1>5, <1>6
<1> QED BY <1>1, <1>3, <1>4, <1>6, <1>7

\* What is in a place of a stream is a sequence.
LEMMA FlowSeqs ==
  ASSUME NEW P, NEW n, Holds(P, n), NEW a \in 0..n,
         NEW ln, NEW ri, NEW wi, NEW le, Flow(P, a, n, ln, ri, wi, le)
  PROVE  (\E S : ri \in Seq(S)) /\ Len(ln) \in Nat /\ (ln = <<>> <=> Len(ln) = 0)
<1>1. PICK b, c, d \in 0..n :
            a <= b /\ IsPiece(ln, P, a, b) /\ IsPiece(ri, P, b, c)
  BY FlowPlaces
<1>2. n \in Nat
  BY LenProperties DEF Holds
<1> QED BY <1>1, <1>2 DEF IsPiece

\* A line that takes k characters more.
Takes(P, n, a, ln, ri, wi, le, k) ==
    /\ k \in Nat /\ Len(ln \o SubSeq(ri, 1, k)) = Len(ln) + k
    /\ Flow(P, a, n, ln \o SubSeq(ri, 1, k), Rest(ri, k), wi, le)

\* rio_readlineb takes what is buffered.
LEMMA TakenFlow ==
  ASSUME NEW P, NEW n, Holds(P, n), NEW a \in 0..n,
         NEW ln, NEW ri, NEW wi, NEW le, Flow(P, a, n, ln, ri, wi, le),
         ln # <<>> => Last(ln) # EOL, ri # <<>>, NEW m \in Nat \ {0}
  PROVE  Takes(P, n, a, ln, ri, wi, le, Taken(ri, m)) /\ Taken(ri, m) <= m
<1>1. PICK S : ri \in Seq(S)
  BY FlowSeqs
<1>2. PICK k : k = Taken(ri, m)
  OBVIOUS
<1>3. k \in 1..Len(ri) /\ k <= m /\ \A i \in 1..k - 1 : ri[i] # EOL
  BY <1>1, <1>2, TakenIs
<1>4. Flow(P, a, n, ln \o SubSeq(ri, 1, k), Rest(ri, k), wi, le)
  BY <1>3, TakeFlow
<1>5. Len(ln \o SubSeq(ri, 1, k)) = Len(ln) + k
  <2>1. PICK b, c, d \in 0..n : a <= b /\ IsPiece(ln, P, a, b)
    BY FlowPlaces
  <2>2. PICK T : ln \in Seq(T)
    BY <2>1 DEF IsPiece
  <2>3. PICK u : u = SubSeq(ri, 1, k)
    OBVIOUS
  <2>4. u \in Seq(S) /\ Len(u) = k
    BY <1>1, <1>3, <2>3, SubSeqProperties, LenProperties, ElementOfSeq
  <2>5. Joined(ln \o u, ln, u)
    BY <2>2, <2>4, ConcatJoins
  <2> QED BY <2>3, <2>4, <2>5 DEF Joined
<1>6. k \in Nat
  BY <1>1, <1>3, LenProperties
<1> QED BY <1>2, <1>3, <1>4, <1>5, <1>6 DEF Takes

\* The server takes characters: no line of a request fills its buffer.
LEMMA ServerTakes ==
  ASSUME IInv, TakeChars("server")
  PROVE  IInv'
<1> DEFINE k == Taken(rio["server"], MaxLine - Len(line["server"]))
<1>1. /\ wire' = wire /\ open' = open /\ left' = left
      /\ pc' = pc /\ ask' = ask /\ got' = got /\ fileset' = fileset /\ uri' = uri
      /\ size' = size /\ file_buf' = file_buf /\ died' = died
      /\ shrunk' = shrunk /\ disk' = disk /\ lost' = lost /\ rc' = rc /\ body' = body
  BY DEF TakeChars, client, server
<1>2. /\ rio["server"] # <<>> /\ pc["server"] \in {"line", "header", "headers", "head", "body"}
      /\ line["server"] # <<>> => Last(line["server"]) # EOL
      /\ line' = [line EXCEPT !["server"] = @ \o SubSeq(rio["server"], 1, k)]
      /\ rio' = [rio EXCEPT !["server"] = Rest(@, k)]
      /\ overrun' = (overrun \/ Len(line["server"]) + k >= MaxLine)
  BY DEF TakeChars, Reading, Ended, MaxLen
<1> HIDE DEF k
<1>3. /\ ForEnds(line') /\ line'["client"] = line["client"]
      /\ line'["server"] = line["server"] \o SubSeq(rio["server"], 1, k)
  <2>1. ForEnds(line)
    BY DEF IInv, Types
  <2> QED BY <1>2, <2>1 DEF ForEnds, Ends
<1>4. /\ ForEnds(rio') /\ rio'["client"] = rio["client"]
      /\ rio'["server"] = Rest(rio["server"], k)
  <2>1. ForEnds(rio)
    BY DEF IInv, Types
  <2> QED BY <1>2, <2>1 DEF ForEnds, Ends
<1>5. PICK P, a, n : Sent(P, a, n)
  BY RequestFlows
<1>6. /\ Holds(P, n) /\ a \in 0..n /\ a \in {0, 2, 4, 6} /\ n \in a..6
      /\ Flow(P, a, n, line["server"], rio["server"], wire["server"], left["client"])
      /\ a + 2 \in 0..n => P[a + 1] # EOL /\ P[a + 2] = EOL
  BY <1>5 DEF Sent
<1>7. Len(line["server"]) \in 0..2
  BY <1>6, LineOfRequest
<1>8. PICK m : m = MaxLine - Len(line["server"])
  OBVIOUS
<1>9. m \in Nat \ {0} /\ k = Taken(rio["server"], m)
  <2>1. MaxLine \in Nat /\ MaxLine > 2
    BY WebAssumption
  <2>2. PICK l : l = Len(line["server"])
    OBVIOUS
  <2>3. l \in 0..2 /\ m = MaxLine - l
    BY <1>7, <1>8, <2>2
  <2>4. m \in Nat \ {0}
    BY <2>1, <2>3
  <2> QED BY <1>8, <2>4 DEF k
<1>10. Takes(P, n, a, line["server"], rio["server"], wire["server"], left["client"], k)
  BY <1>2, <1>6, <1>9, TakenFlow
<1>11. /\ Flow(P, a, n, line'["server"], rio'["server"], wire'["server"], left'["client"])
       /\ Len(line'["server"]) = Len(line["server"]) + k
  BY <1>1, <1>3, <1>4, <1>10 DEF Takes
<1>12. Len(line'["server"]) \in 0..2
  BY <1>6, <1>11, LineOfRequest
<1>13. overrun' = overrun
  <2>1. ~(Len(line["server"]) + k >= MaxLine)
    BY <1>11, <1>12, WebAssumption
  <2> QED BY <1>2, <2>1 DEF IInv, Types
<1>14. RequestInv'
  BY <1>1, <1>5, <1>11, RequestMoves
<1>15. ReplyInv'
  BY <1>1, <1>3, <1>4, ReplyKept DEF IInv, Replying
<1>16. pc["server"] \in {"line", "header", "headers"}
  BY <1>2 DEF IInv, Types, ServerPCs
<1>17. Types' /\ Stages' /\ Asks' /\ Serves' /\ Overruns'
  BY <1>1, <1>3, <1>4, <1>13, <1>16
  DEF IInv, Types, Stages, Asks, Serves, Answers, Overruns, Refusable, Refusal, MayEnd
<1> QED BY <1>14, <1>15, <1>17 DEF IInv

\* The lines of the header.
LEMMA HeaderLines ==
  ASSUME NEW P, NEW code, NEW n, NEW csum, NEW text, IsPage(P, code, n, csum, text),
         NEW a \in {0, 2, 4, 6}
  PROVE  P[a + 1] # EOL /\ P[a + 2] = EOL
<1>1. /\ <<"status", code>> # EOL /\ <<"length", n>> # EOL
      /\ <<"csum", csum>> # EOL /\ <<"return", 0>> # EOL
  BY DEF EOL
<1>2. /\ P[1] # EOL /\ P[2] = EOL /\ P[3] # EOL /\ P[4] = EOL
      /\ P[5] # EOL /\ P[6] = EOL /\ P[7] # EOL /\ P[8] = EOL
  BY <1>1, Zenon DEF IsPage
<1> QED BY <1>2

\* A line of the body that fills the buffer is a long line of the body.
LEMMA LongBody ==
  ASSUME NEW P, NEW code, NEW n, NEW csum, NEW text, IsPage(P, code, n, csum, text),
         NEW S, text \in Seq(S),
         NEW a \in 0..Len(P), a >= 8, NEW ln, NEW ri, NEW wi, NEW le,
         Flow(P, a, Len(P), ln, ri, wi, le), Len(ln) >= MaxBuf
  PROVE  LongLine(text) /\ Len(text) >= MaxBuf
<1>1. Holds(P, Len(P)) /\ Len(P) = 8 + Len(text) /\ Len(text) \in Nat
  BY LenProperties DEF IsPage
<1>2. MaxBuf \in Nat
  BY WebAssumption
<1>3. PICK b, c, d \in 0..Len(P) :
            /\ a <= b /\ Split(P, Len(P), a, b, c, d, ln, ri, wi, le) /\ IsPiece(ln, P, a, b)
  BY <1>1, FlowPlaces
<1>4. Len(ln) = b - a
  BY <1>3 DEF IsPiece
<1>5. PICK j, k : j = a - 8 /\ k = b - 8
  OBVIOUS
<1>6. j \in 0..Len(text) /\ k \in 0..Len(text) /\ k - j >= MaxBuf
  <2>1. a \in Nat /\ b \in Nat /\ b <= 8 + Len(text)
    BY <1>1, <1>3
  <2> QED BY <1>1, <1>2, <1>3, <1>4, <1>5, <2>1
<1>7. ASSUME NEW i \in j + 1..k - 1 PROVE text[i] # EOL
  <2>1. i \in 1..Len(text) /\ 8 + i \in a + 1..b - 1
    BY <1>1, <1>3, <1>5, <1>6
  <2> QED BY <1>3, <2>1 DEF Split, IsPage
<1>8. LongLine(text)
  BY <1>6, <1>7 DEF LongLine
<1>9. Len(text) >= MaxBuf
  BY <1>1, <1>2, <1>6
<1> QED BY <1>8, <1>9

\* An answer of which something has been sent was made.
LEMMA ReplyOnItsWay ==
  ASSUME IInv, NEW a \in 0..Made, NEW ln, NEW ri, NEW wi, NEW le,
         Flow(Reply, a, Made, ln, ri, wi, le), ln # <<>> \/ ri # <<>> \/ a > 0
  PROVE  Replying /\ Made = Len(Reply)
<1>1. ASSUME ~Replying PROVE FALSE
  <2>1. Made = 0 /\ a = 0 /\ Holds(Reply, 0)
    BY <1>1, ReplyIs DEF Made, IInv
  <2>2. Flow(Reply, 0, 0, ln, ri, wi, le)
    BY <2>1
  <2> QED BY <2>1, <2>2, FlowDone
<1> QED BY <1>1 DEF Made

\* The client takes characters: a file with a long line overruns its buffer,
\* and nothing else does.
LEMMA ClientTakes ==
  ASSUME IInv, TakeChars("client")
  PROVE  IInv'
<1> DEFINE k == Taken(rio["client"], MaxBuf - Len(line["client"]))
<1>1. /\ wire' = wire /\ open' = open /\ left' = left
      /\ pc' = pc /\ ask' = ask /\ got' = got /\ fileset' = fileset /\ uri' = uri
      /\ size' = size /\ file_buf' = file_buf /\ died' = died
      /\ shrunk' = shrunk /\ disk' = disk /\ lost' = lost /\ rc' = rc /\ body' = body
  BY DEF TakeChars, client, server
<1>2. /\ rio["client"] # <<>> /\ pc["client"] \in {"line", "header", "headers", "head", "body"}
      /\ line["client"] # <<>> => Last(line["client"]) # EOL /\ Len(line["client"]) # MaxBuf
      /\ line' = [line EXCEPT !["client"] = @ \o SubSeq(rio["client"], 1, k)]
      /\ rio' = [rio EXCEPT !["client"] = Rest(@, k)]
      /\ overrun' = (overrun \/ Len(line["client"]) + k >= MaxBuf)
  BY DEF TakeChars, Reading, Ended, MaxLen
<1> HIDE DEF k
<1>3. /\ ForEnds(line') /\ line'["server"] = line["server"]
      /\ line'["client"] = line["client"] \o SubSeq(rio["client"], 1, k)
  <2>1. ForEnds(line)
    BY DEF IInv, Types
  <2> QED BY <1>2, <2>1 DEF ForEnds, Ends
<1>4. /\ ForEnds(rio') /\ rio'["server"] = rio["server"]
      /\ rio'["client"] = Rest(rio["client"], k)
  <2>1. ForEnds(rio)
    BY DEF IInv, Types
  <2> QED BY <1>2, <2>1 DEF ForEnds, Ends
<1>5. pc["client"] \in {"head", "body"} /\ "client" \in open
  BY <1>2 DEF IInv, Types, Stages, ClientPCs
<1>6. PICK a \in 0..Made : ReplyAt(a)
  BY <1>5 DEF IInv, ReplyInv
<1>7. /\ Body \in Seq(Bytes) /\ Len(Body) \in Nat
      /\ IsPage(Reply, Code, Len(Text), Csum(Text), Body)
      /\ Len(Reply) = 8 + Len(Body) /\ Holds(Reply, Len(Reply))
      /\ Made \in Nat /\ Holds(Reply, Made)
  BY ReplyIs DEF IInv
<1>8. Flow(Reply, a, Made, line["client"], rio["client"], wire["client"], left["server"])
  BY <1>6 DEF ReplyAt
<1>9. Replying /\ Made = Len(Reply)
  BY <1>2, <1>8, ReplyOnItsWay
<1>10. MaxBuf \in Nat /\ MaxBuf > 2
  BY WebAssumption
<1>11. PICK l, m : l = Len(line["client"]) /\ m = MaxBuf - l
  OBVIOUS
<1>12. m \in Nat \ {0} /\ k = Taken(rio["client"], m) /\ l \in Nat
  <2>1. l \in Nat /\ l <= MaxBuf
    BY <1>5, <1>7, <1>8, <1>11, FlowSeqs DEF IInv, ReplyInv
  <2>2. l # MaxBuf
    <3>1. line["client"] = <<>> => l = 0
      BY <1>7, <1>8, <1>11, FlowSeqs
    <3> QED BY <1>2, <1>10, <1>11, <3>1
  <2>3. m \in Nat \ {0}
    BY <1>10, <1>11, <2>1, <2>2
  <2> QED BY <1>11, <2>1, <2>3 DEF k
<1>13. /\ k <= m
       /\ Takes(Reply, Made, a, line["client"], rio["client"], wire["client"], left["server"], k)
  BY <1>2, <1>7, <1>8, <1>12, TakenFlow
<1>14. /\ Flow(Reply, a, Made, line'["client"], rio'["client"], wire'["client"], left'["server"])
       /\ Len(line'["client"]) = l + k /\ k \in Nat
  BY <1>1, <1>3, <1>4, <1>11, <1>13 DEF Takes
<1>15. l + k <= MaxBuf
  BY <1>10, <1>11, <1>12, <1>13, <1>14
<1>16. Text' = Text /\ Replying' = Replying /\ Reply' = Reply /\ Made' = Made
  BY <1>1 DEF Text, Body, Code, Refusal, Reply, Made, Replying
<1>17. ReplyInv'
  <2>1. ReplyAt(a)'
    BY <1>1, <1>5, <1>6, <1>14, <1>16 DEF ReplyAt, Learnt
  <2> QED BY <1>14, <1>15, <1>16, <2>1 DEF ReplyInv
<1>18. RequestInv'
  BY <1>1, <1>3, <1>4, RequestKept DEF IInv
<1>19. ASSUME l + k >= MaxBuf
       PROVE  \/ shrunk
              \/ Refusable /\ TooLong(Refusal)
              \/ ask.file \in Files /\ LongLine(Content[ask.file])
  <2>1. pc["client"] = "body"
    <3>1. ASSUME pc["client"] = "head" PROVE FALSE
      <4>1. a \in {0, 2, 4, 6}
        BY <1>6, <3>1 DEF ReplyAt, Learnt
      <4>2. Reply[a + 1] # EOL /\ Reply[a + 2] = EOL
        BY <1>7, <4>1, HeaderLines
      <4>3. a + 2 \in 0..Made
        BY <1>7, <1>9, <4>1
      <4>4. PICK ln, ri, wi, le :
                  /\ ln = line'["client"] /\ ri = rio'["client"]
                  /\ wi = wire'["client"] /\ le = left'["server"]
        OBVIOUS
      <4>5. Flow(Reply, a, Made, ln, ri, wi, le)
        BY <1>14, <4>4
      <4>6. Len(ln) <= 2
        BY <1>7, <4>2, <4>3, <4>5, ShortLine
      <4>7. l + k <= 2
        BY <1>14, <4>4, <4>6
      <4> QED BY <1>10, <1>12, <1>14, <1>19, <4>7
    <3> QED BY <1>5, <3>1
  <2>2. a >= 8
    BY <1>6, <1>9, <2>1 DEF ReplyAt, Learnt
  <2>3. LongLine(Body) /\ Len(Body) >= MaxBuf
    <3>1. Len(line'["client"]) >= MaxBuf /\ a \in 0..Len(Reply)
      BY <1>9, <1>14, <1>19
    <3>2. Flow(Reply, a, Len(Reply), line'["client"], rio'["client"], wire'["client"],
               left'["server"])
      BY <1>9, <1>14
    <3> QED BY <1>7, <2>2, <3>1, <3>2, LongBody
  <2>4. CASE rc = 1
    <3>1. ask.file \in Files /\ (~shrunk => file_buf = Content[ask.file])
      BY <1>5, <2>4 DEF IInv, Serves, Answers
    <3> QED BY <2>3, <2>4, <3>1 DEF Body
  <2>5. CASE rc # 1
    <3>1. rc = 0 /\ TooLong(body)
      BY <1>9, <2>3, <2>5 DEF Body, TooLong, Replying, IInv, Types
    <3> QED BY <1>5, <3>1 DEF IInv, Serves, Answers
  <2> QED BY <2>4, <2>5
<1>20. overrun' \in BOOLEAN /\ Overruns'
  <2>1. overrun' => overrun \/ l + k >= MaxBuf
    BY <1>2, <1>11
  <2>2. overrun' \in BOOLEAN
    BY <1>2
  <2> QED BY <1>1, <1>19, <2>1, <2>2 DEF IInv, Overruns, Refusable, Refusal
<1>21. Types' /\ Stages' /\ Asks' /\ Serves'
  BY <1>1, <1>3, <1>4, <1>20
  DEF IInv, Types, Stages, Asks, Serves, Answers, Refusable, Refusal, MayEnd
<1> QED BY <1>17, <1>18, <1>20, <1>21 DEF IInv

-----------------------------------------------------------------------------
(* The worker.                                                             *)

\* A client that is there has not gone away, and the worker is busy or done.
LEMMA ClientThere ==
  ASSUME IInv, pc["server"] \notin {"idle", "exited"}
  PROVE  "client" \in open <=> ~died
BY DEF IInv, Types, Stages, ClientPCs

\* What ServerGoes changes.
LEMMA ServerMoves ==
  ASSUME IInv, NEW s, NEW page, ServerGoes(s, page)
  PROVE  /\ ForEnds(pc') /\ pc'["server"] = s /\ pc'["client"] = pc["client"]
         /\ ForEnds(line') /\ line'["server"] = <<>> /\ line'["client"] = line["client"]
         /\ ForEnds(left') /\ left'["server"] = page /\ left'["client"] = left["client"]
<1>1. ForEnds(pc) /\ ForEnds(line) /\ ForEnds(left)
  BY DEF IInv, Types
<1>2. ForEnds(pc') /\ pc'["server"] = s /\ pc'["client"] = pc["client"]
  BY <1>1 DEF ForEnds, Ends, ServerGoes
<1>3. ForEnds(line') /\ line'["server"] = <<>> /\ line'["client"] = line["client"]
  BY <1>1 DEF ForEnds, Ends, ServerGoes
<1>4. ForEnds(left') /\ left'["server"] = page /\ left'["client"] = left["client"]
  BY <1>1 DEF ForEnds, Ends, ServerGoes
<1> QED BY <1>2, <1>3, <1>4

\* A line of the request has ended: it is complete, or the client is gone.
LEMMA LineEnded ==
  ASSUME IInv, pc["server"] \in {"line", "header", "headers"}, Ended("server"),
         NEW P, NEW a, NEW n, Sent(P, a, n)
  PROVE  \/ died /\ rio["server"] = <<>> /\ wire["server"] = <<>> /\ left["client"] = <<>>
         \/ /\ line["server"] = <<P[a + 1], P[a + 2]>> /\ a \in {0, 2, 4} /\ n \in a + 2..6
            /\ Flow(P, a + 2, n, <<>>, rio["server"], wire["server"], left["client"])
<1>1. /\ Holds(P, n) /\ a \in 0..n /\ a \in {0, 2, 4, 6} /\ n \in a..6
      /\ Flow(P, a, n, line["server"], rio["server"], wire["server"], left["client"])
      /\ a + 2 \in 0..n => P[a + 1] # EOL /\ P[a + 2] = EOL
      /\ IsRequest(P, ask.method, ask.file)
  BY DEF Sent
<1>2. CASE AtEof("server")
  <2>1. "client" \notin open /\ rio["server"] = <<>> /\ wire["server"] = <<>>
    BY <1>2 DEF AtEof, Peer
  <2>2. died
    BY <2>1, ClientThere DEF IInv, Types
  <2>3. left["client"] = <<>>
    BY <2>1, <2>2 DEF IInv, Stages
  <2> QED BY <2>1, <2>2, <2>3
<1>3. CASE ~AtEof("server")
  <2>1. PICK l : l = Len(line["server"])
    OBVIOUS
  <2>2. l \in 0..2 /\ line["server"] # <<>>
    BY <1>1, <1>3, <2>1, LineOfRequest DEF Ended
  <2>3. Last(line["server"]) = EOL
    <3>1. MaxLine > 2 /\ MaxLine \in Nat
      BY WebAssumption
    <3>2. l # MaxLine
      BY <2>2, <3>1
    <3> QED BY <1>3, <2>1, <3>2 DEF Ended, MaxLen
  <2>4. l \in {1, 2} /\ a + l \in 0..n /\ a + l <= 6 /\ a \in {0, 2, 4}
    <3>1. l # 0 /\ a + l \in 0..n
      BY <1>1, <2>1, <2>2, FlowSeqs, DropFlow
    <3> QED BY <1>1, <2>2, <3>1
  <2>5. line["server"][1] = P[a + 1] /\ P[a + 1] # EOL
    <3>1. P[a + 1] # EOL
      BY <1>1, <2>4, RequestLines DEF IInv, Types
    <3> QED BY <1>1, <2>2, <3>1, ShortLine
  <2>6. l = 2
    BY <2>1, <2>3, <2>4, <2>5 DEF Last
  <2>7. a + 2 \in 0..n /\ n \in a + 2..6
    BY <1>1, <2>4, <2>6
  <2>8. line["server"] = <<P[a + 1], P[a + 2]>>
    <3>1. Len(line["server"]) = 2
      BY <2>1, <2>6
    <3>2. Len(line["server"]) = 2 => line["server"] = <<P[a + 1], P[a + 2]>>
      BY <1>1, ShortLine
    <3> QED BY <3>1, <3>2
  <2>9. Flow(P, a + l, n, <<>>, rio["server"], wire["server"], left["client"])
    BY <1>1, <2>1, DropFlow
  <2> QED BY <2>4, <2>6, <2>7, <2>8, <2>9
<1> QED BY <1>2, <1>3

\* The worker has used a line of the request.
LEMMA RequestUsed ==
  ASSUME IInv, pc["server"] \in {"line", "header", "headers"}, Ended("server"),
         ask' = ask, died' = died, line'["server"] = <<>>,
         rio'["server"] = rio["server"], wire'["server"] = wire["server"],
         left'["client"] = left["client"],
         ~died => ServerAt' = ServerAt + 2
  PROVE  RequestInv'
<1>1. PICK P, a, n : Sent(P, a, n)
  BY RequestFlows
<1>2. P = Request(ask.method, ask.file) /\ RequestAt(a, n)
  BY <1>1 DEF Sent
<1>3. CASE died /\ rio["server"] = <<>> /\ wire["server"] = <<>> /\ left["client"] = <<>>
  <2>1. Flow(P, 6, 6, <<>>, <<>>, <<>>, <<>>)
    BY <1>2, RequestHolds, NoFlow
  <2>2. RequestAt(6, 6)'
    BY <1>2, <1>3, <2>1 DEF RequestAt
  <2> QED BY <2>2 DEF RequestInv
<1>4. CASE /\ a \in {0, 2, 4} /\ n \in a + 2..6
           /\ Flow(P, a + 2, n, <<>>, rio["server"], wire["server"], left["client"])
  <2>1. PICK e : e = a + 2
    OBVIOUS
  <2>2. e \in {0, 2, 4, 6} /\ n \in e..6
    BY <1>4, <2>1
  <2>3. Flow(P, e, n, <<>>, rio["server"], wire["server"], left["client"])
    BY <1>4, <2>1
  <2>4. ~died => e = ServerAt' /\ n = 6
    BY <1>2, <2>1 DEF RequestAt
  <2>5. RequestAt(e, n)'
    BY <1>2, <2>3, <2>4 DEF RequestAt
  <2> QED BY <2>2, <2>5 DEF RequestInv
<1> QED BY <1>1, <1>3, <1>4, LineEnded

\* The worker leaves the request alone.
LEMMA RequestStays ==
  ASSUME IInv, ask' = ask, line'["server"] = line["server"],
         rio'["server"] = rio["server"], wire'["server"] = wire["server"],
         left'["client"] = left["client"], died' = died, ServerAt' = ServerAt,
         pc["server"] \notin {"idle", "exited"}
  PROVE  RequestInv'
<1>1. PICK P, a, n : Sent(P, a, n)
  BY RequestFlows
<1>2. RequestAt(a, n)'
  BY <1>1 DEF Sent, RequestAt
<1> QED BY <1>1, <1>2 DEF Sent, RequestInv

\* Which line the worker has read.
LEMMA LineRead ==
  ASSUME IInv, pc["server"] \in {"line", "header", "headers"}, Ended("server"), ~died
  PROVE  /\ pc["server"] = "line" => line["server"] = <<<<ask.method, ask.file>>, EOL>>
         /\ pc["server"] = "header" => line["server"] = <<<<"host", 0>>, EOL>>
         /\ pc["server"] = "headers" => line["server"] = Blank
<1>1. PICK P, a, n : Sent(P, a, n)
  BY RequestFlows
<1>2. line["server"] = <<P[a + 1], P[a + 2]>>
  BY <1>1, LineEnded
<1>3. a = ServerAt
  BY <1>1 DEF Sent, RequestAt
<1>4. /\ P[1] = <<ask.method, ask.file>> /\ P[2] = EOL /\ P[3] = <<"host", 0>> /\ P[4] = EOL
      /\ P[5] = <<"return", 0>> /\ P[6] = EOL
  BY <1>1 DEF Sent, IsRequest
<1>5. CASE pc["server"] = "line"
  BY <1>2, <1>3, <1>4, <1>5 DEF ServerAt
<1>6. CASE pc["server"] = "header"
  BY <1>2, <1>3, <1>4, <1>6 DEF ServerAt
<1>7. CASE pc["server"] = "headers"
  BY <1>2, <1>3, <1>4, <1>7 DEF ServerAt, Blank, Line
<1> QED BY <1>5, <1>6, <1>7

\* An answer that is not yet made: nothing of it is anywhere.
LEMMA NothingSent ==
  ASSUME IInv, "client" \in open, ~Replying
  PROVE  /\ line["client"] = <<>> /\ rio["client"] = <<>> /\ wire["client"] = <<>>
         /\ left["server"] = <<>> /\ Learnt(0)
<1>1. PICK a \in 0..Made : ReplyAt(a)
  BY DEF IInv, ReplyInv
<1>2. Made = 0 /\ a = 0 /\ Holds(Reply, 0)
  BY <1>1, ReplyIs DEF Made, IInv
<1>3. Flow(Reply, 0, 0, line["client"], rio["client"], wire["client"], left["server"])
  BY <1>1, <1>2 DEF ReplyAt
<1> QED BY <1>1, <1>2, <1>3, FlowDone DEF ReplyAt

\* The client learns nothing while it waits.
LEMMA StillWaiting ==
  ASSUME Learnt(0), Made = 0, pc["server"] # "exited", line'["client"] = line["client"],
         pc'["client"] = pc["client"], got' = got
  PROVE  Learnt(0)'
<1>1. pc["client"] \notin {"body", "check"}
  BY DEF Learnt
<1> QED BY <1>1 DEF Learnt

\* The answer is a page after a step, too.
LEMMA ReplyWillBe ==
  ASSUME Types'
  PROVE  Made' \in Nat /\ Holds(Reply', Made')
<1>1. Body' \in Seq(Bytes)
  BY DEF Types, Body
<1>2. Len(Body') \in Nat
  BY <1>1, LenProperties
<1>3. IsPage(Reply', Code', Len(Text'), Csum(Text'), Body')
  BY <1>1, PageIs DEF Reply
<1>4. Len(Reply') = 8 + Len(Body') /\ Holds(Reply', Len(Reply'))
  BY <1>3 DEF IsPage
<1> QED BY <1>2, <1>4 DEF Made, Holds

\* Steps of the worker before the answer is made.
LEMMA ReplyWaits ==
  ASSUME IInv, Types', ~Replying, pc["server"] # "exited", ~Replying',
         "client" \in open' => "client" \in open,
         line'["client"] = line["client"], rio'["client"] = rio["client"],
         wire'["client"] = wire["client"], left'["server"] = <<>>,
         pc'["client"] = pc["client"], got' = got
  PROVE  ReplyInv'
<1> SUFFICES ASSUME "client" \in open'
             PROVE  Len(line'["client"]) <= MaxBuf /\ \E a \in 0..Made' : ReplyAt(a)'
  BY DEF ReplyInv
<1>1. /\ line["client"] = <<>> /\ rio["client"] = <<>> /\ wire["client"] = <<>> /\ Learnt(0)
  BY NothingSent
<1>2. Made' = 0 /\ Holds(Reply', Made')
  <2>1. Holds(Reply', Made')
    BY ReplyWillBe
  <2> QED BY <2>1 DEF Made
<1>3. Flow(Reply', 0, 0, <<>>, <<>>, <<>>, <<>>)
  BY <1>2, NoFlow
<1>4. Learnt(0)'
  BY <1>1, StillWaiting DEF Made
<1>5. ReplyAt(0)'
  BY <1>1, <1>2, <1>3, <1>4 DEF ReplyAt
<1>6. Len(<<>>) <= MaxBuf
  BY WebAssumption
<1> QED BY <1>1, <1>2, <1>5, <1>6

\* The answer is made.
LEMMA ReplyMade ==
  ASSUME IInv, Types', ~Replying, pc["server"] # "exited", pc'["server"] = "close", rc' # -1,
         "client" \in open' => "client" \in open /\ left'["server"] = Reply',
         line'["client"] = line["client"], rio'["client"] = rio["client"],
         wire'["client"] = wire["client"], pc'["client"] = pc["client"], got' = got
  PROVE  ReplyInv'
<1> SUFFICES ASSUME "client" \in open'
             PROVE  Len(line'["client"]) <= MaxBuf /\ \E a \in 0..Made' : ReplyAt(a)'
  BY DEF ReplyInv
<1>1. /\ line["client"] = <<>> /\ rio["client"] = <<>> /\ wire["client"] = <<>> /\ Learnt(0)
  BY NothingSent
<1>2. Holds(Reply', Made') /\ Made' = Len(Reply') /\ Made' \in Nat
  <2>1. Holds(Reply', Made') /\ Made' \in Nat
    BY ReplyWillBe
  <2> QED BY <2>1 DEF Made, Replying
<1>3. PICK S : Reply' \in Seq(S)
  BY <1>2 DEF Holds
<1>4. Flow(Reply', 0, Len(Reply'), <<>>, <<>>, <<>>, Reply')
  BY <1>3, NewFlow
<1>5. Learnt(0)'
  BY <1>1, StillWaiting DEF Made
<1>6. ReplyAt(0)'
  BY <1>1, <1>2, <1>4, <1>5 DEF ReplyAt
<1>7. Len(<<>>) <= MaxBuf
  BY WebAssumption
<1> QED BY <1>1, <1>2, <1>6, <1>7

\* The smaller of two numbers.
LEMMA MinOfTwo ==
  ASSUME NEW x \in Int, NEW y \in Int
  PROVE  Min({x, y}) \in {x, y} /\ Min({x, y}) <= x /\ Min({x, y}) <= y
<1>1. \E z \in {x, y} : \A w \in {x, y} : z <= w
  OBVIOUS
<1>2. Min({x, y}) \in {x, y} /\ \A w \in {x, y} : Min({x, y}) <= w
  BY <1>1 DEF Min
<1> QED BY <1>2

\* request_error: what it writes.
LEMMA ErrorMade ==
  ASSUME IInv, NEW code, NEW text \in Seq(Bytes), request_error(code, text)
  PROVE  /\ body' \in Seq(Bytes) /\ (TooLong(body') <=> TooLong(text))
         /\ ~TooLong(text) => body' = text
         /\ overrun' \in BOOLEAN /\ (overrun' => overrun \/ TooLong(text))
         /\ ServerGoes("close", Page(code, Len(text), Csum(text), body'))
<1>1. PICK l : l = Len(text)
  OBVIOUS
<1>2. l \in Nat /\ MaxBuf \in Nat /\ (TooLong(text) <=> l >= MaxBuf)
  BY <1>1, LenProperties, WebAssumption DEF TooLong
<1>3. PICK m : m = Min({l, MaxBuf})
  OBVIOUS
<1>4. m \in {l, MaxBuf} /\ m <= l /\ m <= MaxBuf
  <2>1. l \in Int /\ MaxBuf \in Int
    BY <1>2
  <2> QED BY <1>3, <2>1, MinOfTwo
<1>5. PICK n \in {l, m} : body' = SubSeq(text, 1, n)
  BY <1>1, <1>3 DEF request_error
<1>6. n \in 0..l /\ (n >= MaxBuf <=> l >= MaxBuf) /\ (l < MaxBuf => n = l)
  BY <1>2, <1>4, <1>5
<1>7. \A i \in 1..l : text[i] \in Bytes
  BY <1>1, ElementOfSeq
<1>8. /\ body' \in Seq(Bytes) /\ Len(body') = n /\ \A i \in 1..n : body'[i] = text[i]
  BY <1>1, <1>2, <1>5, <1>6, <1>7, SubSeqProperties
<1>9. TooLong(body') <=> TooLong(text)
  BY <1>2, <1>6, <1>8 DEF TooLong
<1>10. ASSUME ~TooLong(text) PROVE body' = text
  <2>1. n = l
    BY <1>2, <1>6, <1>10
  <2> QED BY <1>1, <1>8, <2>1, SeqEqual
<1>11. overrun' = (overrun \/ TooLong(text))
  BY DEF request_error
<1>12. overrun' \in BOOLEAN /\ (overrun' => overrun \/ TooLong(text))
  BY <1>11
<1> QED BY <1>8, <1>9, <1>10, <1>12 DEF request_error

\* The pages of request_error are sequences.
LEMMA Pages ==
  /\ MethodError \in Seq(Bytes)
  /\ \A f \in Names : NameError[f] \in Seq(Bytes)
BY WebAssumption

\* A request is refused.
LEMMA RefusedStep ==
  ASSUME IInv, NEW code, NEW text \in Seq(Bytes), request_error(code, text),
         pc["server"] \in {"line", "stat"}, RequestInv', rc' = 0,
         "client" \in open => /\ text = Refusal /\ Refusable
                              /\ code = IF ask.method = "get" THEN Refused[ask.file] ELSE 501,
         wire' = wire, open' = open, rio' = rio, ask' = ask, got' = got,
         fileset' = fileset, uri' \in Names, size' \in Nat, file_buf' = file_buf,
         died' = died, shrunk' = shrunk, disk' = disk, lost' = lost
  PROVE  IInv'
<1>1. /\ body' \in Seq(Bytes) /\ (TooLong(body') <=> TooLong(text))
      /\ ~TooLong(text) => body' = text
      /\ overrun' \in BOOLEAN /\ (overrun' => overrun \/ TooLong(text))
      /\ ServerGoes("close", Page(code, Len(text), Csum(text), body'))
  BY ErrorMade
<1>2. /\ ForEnds(pc') /\ pc'["server"] = "close" /\ pc'["client"] = pc["client"]
      /\ ForEnds(line') /\ line'["server"] = <<>> /\ line'["client"] = line["client"]
      /\ ForEnds(left') /\ left'["server"] = Page(code, Len(text), Csum(text), body')
      /\ left'["client"] = left["client"]
  BY <1>1, ServerMoves
<1>3. Types'
  BY <1>1, <1>2 DEF IInv, Types, ServerPCs
<1>4. "client" \in open => Reply' = Page(code, Len(text), Csum(text), body')
  BY DEF Reply, Text, Body, Code, Refusal
<1>5. ReplyInv'
  BY <1>2, <1>3, <1>4, ReplyMade DEF Replying
<1>6. "client" \in open \/ died
  BY ClientThere DEF IInv, Types
<1>7. Refusal' = Refusal /\ Refusable' = Refusable /\ MayEnd' = MayEnd
  BY DEF Refusal, Refusable, MayEnd
<1>8. Stages' /\ Asks'
  BY <1>2, <1>7 DEF IInv, Stages, Asks
<1>9. Overruns'
  BY <1>1, <1>6, <1>7 DEF IInv, Overruns
<1>10. "client" \in open => Answers'
  BY <1>1, <1>2, <1>7 DEF Answers
<1>11. Serves'
  BY <1>2, <1>10 DEF IInv, Serves
<1> QED BY <1>3, <1>5, <1>8, <1>9, <1>11 DEF IInv

\* request_init.
LEMMA InitStep ==
  ASSUME IInv, request_init
  PROVE  IInv'
<1>1. /\ wire' = wire /\ open' = open /\ rio' = rio
      /\ ask' = ask /\ got' = got /\ fileset' = fileset
      /\ size' = size /\ file_buf' = file_buf /\ died' = died
      /\ shrunk' = shrunk /\ disk' = disk /\ lost' = lost
      /\ pc["server"] = "line" /\ Ended("server")
  BY DEF request_init, client
<1>2. PICK m \in Methods, f \in Names :
          /\ line["server"] # <<>> => line["server"][1] = <<m, f>>
          /\ uri' = f
          /\ \/ m = "get" /\ ServerGoes("header", <<>>) /\ UNCHANGED <<rc, body, overrun>>
             \/ m # "get" /\ rc' = 0 /\ request_error(501, MethodError)
  BY DEF request_init
<1>3. ~died => m = ask.method /\ f = ask.file
  <2>1. ASSUME ~died PROVE line["server"] = <<<<ask.method, ask.file>>, EOL>>
    BY <1>1, <2>1, LineRead
  <2>2. ASSUME ~died PROVE <<m, f>> = <<ask.method, ask.file>>
    <3>1. line["server"] = <<<<ask.method, ask.file>>, EOL>>
      BY <2>1, <2>2
    <3>2. line["server"] # <<>> /\ line["server"][1] = <<ask.method, ask.file>>
      BY <3>1
    <3> QED BY <1>2, <3>2
  <2> QED BY <2>2
<1>4. "client" \in open => ~died
  BY <1>1, ClientThere
<1>5. ~Replying /\ left["server"] = <<>>
  BY <1>1 DEF Replying, IInv, Stages
<1>6. CASE m = "get" /\ ServerGoes("header", <<>>) /\ UNCHANGED <<rc, body, overrun>>
  <2>1. /\ ForEnds(pc') /\ pc'["server"] = "header" /\ pc'["client"] = pc["client"]
        /\ ForEnds(line') /\ line'["server"] = <<>> /\ line'["client"] = line["client"]
        /\ ForEnds(left') /\ left'["server"] = <<>> /\ left'["client"] = left["client"]
    BY <1>6, ServerMoves
  <2>2. RequestInv'
    BY <1>1, <1>3, <1>6, <2>1, RequestUsed DEF ServerAt
  <2>3. Types'
    BY <1>1, <1>2, <1>6, <2>1 DEF IInv, Types, ServerPCs
  <2>4. ReplyInv'
    BY <1>1, <1>5, <2>1, <2>3, ReplyWaits DEF Replying
  <2>5. Stages' /\ Asks' /\ Serves' /\ Overruns'
    BY <1>1, <1>2, <1>3, <1>4, <1>6, <2>1
    DEF IInv, Stages, Asks, Serves, Answers, Overruns, Refusable, Refusal, MayEnd
  <2> QED BY <2>2, <2>3, <2>4, <2>5 DEF IInv
<1>7. CASE m # "get" /\ rc' = 0 /\ request_error(501, MethodError)
  <2>1. ServerGoes("close", Page(501, Len(MethodError), Csum(MethodError), body'))
    BY <1>7 DEF request_error
  <2>2. /\ pc'["server"] = "close" /\ line'["server"] = <<>>
        /\ left'["client"] = left["client"]
    BY <2>1, ServerMoves
  <2>3. RequestInv'
    BY <1>1, <1>3, <1>7, <2>2, RequestUsed DEF ServerAt
  <2>4. "client" \in open =>
          MethodError = Refusal /\ Refusable /\ ask.method # "get"
    BY <1>3, <1>4, <1>7 DEF Refusal, Refusable
  <2>5. uri' \in Names /\ size' \in Nat
    BY <1>1, <1>2 DEF IInv, Types
  <2> QED BY <1>1, <1>7, <2>3, <2>4, <2>5, Pages, RefusedStep
<1> QED BY <1>2, <1>6, <1>7

\* request_read_headers.
LEMMA HeadersStep ==
  ASSUME IInv, request_read_headers
  PROVE  IInv'
<1>1. /\ wire' = wire /\ open' = open /\ rio' = rio
      /\ ask' = ask /\ got' = got /\ fileset' = fileset /\ uri' = uri
      /\ size' = size /\ file_buf' = file_buf /\ overrun' = overrun /\ died' = died
      /\ shrunk' = shrunk /\ disk' = disk /\ lost' = lost /\ rc' = rc /\ body' = body
      /\ pc["server"] \in {"header", "headers"} /\ Ended("server")
  BY DEF request_read_headers, client, server, faults
<1>2. PICK s \in {"stat", "headers", "spin"} :
        /\ ServerGoes(s, <<>>)
        /\ s = "stat" =>
              line["server"] = Blank \/ (line["server"] = <<>> /\ pc["server"] = "header")
        /\ s = "headers" => line["server"] \notin {Blank, <<>>}
        /\ s = "spin" => line["server"] = <<>>
  <2>1. CASE line["server"] = Blank /\ ServerGoes("stat", <<>>)
    BY <2>1
  <2>2. CASE line["server"] \notin {Blank, <<>>} /\ ServerGoes("headers", <<>>)
    BY <2>2
  <2>3. CASE line["server"] = <<>> /\ pc["server"] = "header" /\ ServerGoes("stat", <<>>)
    BY <2>3
  <2>4. CASE line["server"] = <<>> /\ ServerGoes("spin", <<>>)
    BY <2>4
  <2> QED BY <2>1, <2>2, <2>3, <2>4 DEF request_read_headers
<1>3. /\ ForEnds(pc') /\ pc'["server"] = s /\ pc'["client"] = pc["client"]
      /\ ForEnds(line') /\ line'["server"] = <<>> /\ line'["client"] = line["client"]
      /\ ForEnds(left') /\ left'["server"] = <<>> /\ left'["client"] = left["client"]
  BY <1>2, ServerMoves
<1>4. "client" \in open <=> ~died
  BY <1>1, ClientThere
<1>5. ASSUME ~died
      PROVE  /\ pc["server"] = "header" => s = "headers"
             /\ pc["server"] = "headers" => s = "stat"
             /\ ask.method = "get"
  <2>1. pc["server"] = "header" => line["server"] = <<<<"host", 0>>, EOL>>
    BY <1>1, <1>5, LineRead
  <2>2. pc["server"] = "headers" => line["server"] = Blank
    BY <1>1, <1>5, LineRead
  <2>3. <<<<"host", 0>>, EOL>> # Blank /\ Blank # <<>> /\ <<<<"host", 0>>, EOL>> # <<>>
    BY DEF Blank, Line
  <2>4. ask.method = "get"
    BY <1>1, <1>4, <1>5 DEF IInv, Serves
  <2> QED BY <1>1, <1>2, <2>1, <2>2, <2>3, <2>4
<1>6. RequestInv'
  <2>1. ~died => ServerAt' = ServerAt + 2
    BY <1>1, <1>3, <1>5 DEF ServerAt
  <2> QED BY <1>1, <1>3, <2>1, RequestUsed
<1>7. Types'
  BY <1>1, <1>2, <1>3 DEF IInv, Types, ServerPCs
<1>8. ReplyInv'
  BY <1>1, <1>2, <1>3, <1>7, ReplyWaits DEF Replying
<1>9. Stages' /\ Asks' /\ Serves' /\ Overruns'
  BY <1>1, <1>2, <1>3, <1>4, <1>5
  DEF IInv, Types, Stages, Asks, Serves, Answers, Overruns, Refusable, Refusal, MayEnd
<1> QED BY <1>6, <1>7, <1>8, <1>9 DEF IInv

\* request_readfile, as far as stat.
LEMMA StatStep ==
  ASSUME IInv, request_stat
  PROVE  IInv'
<1>1. /\ wire' = wire /\ open' = open /\ rio' = rio
      /\ ask' = ask /\ got' = got /\ fileset' = fileset /\ uri' = uri
      /\ file_buf' = file_buf /\ died' = died
      /\ shrunk' = shrunk /\ disk' = disk /\ lost' = lost /\ pc["server"] = "stat"
  BY DEF request_stat, client
<1>2. "client" \in open => ask.method = "get" /\ uri = ask.file
  BY <1>1 DEF IInv, Serves
<1>3. ~Replying /\ left["server"] = <<>> /\ line["server"] = <<>>
  BY <1>1 DEF Replying, IInv, Stages
<1>4. CASE /\ uri \in Files /\ size' = Len(disk[uri])
           /\ ServerGoes("read", <<>>) /\ UNCHANGED <<rc, body, overrun>>
  <2>1. /\ ForEnds(pc') /\ pc'["server"] = "read" /\ pc'["client"] = pc["client"]
        /\ ForEnds(line') /\ line'["server"] = <<>> /\ line'["client"] = line["client"]
        /\ ForEnds(left') /\ left'["server"] = <<>> /\ left'["client"] = left["client"]
    BY <1>4, ServerMoves
  <2>2. RequestInv'
    BY <1>1, <1>3, <2>1, RequestStays DEF ServerAt
  <2>3. size' \in Nat
    <3>1. disk[uri] \in Seq(Bytes)
      BY <1>4 DEF IInv, Types
    <3> QED BY <1>4, <3>1, LenProperties
  <2>4. Types'
    BY <1>1, <1>4, <2>1, <2>3 DEF IInv, Types, ServerPCs
  <2>5. ReplyInv'
    BY <1>1, <1>3, <2>1, <2>4, ReplyWaits DEF Replying
  <2>6. Stages' /\ Asks' /\ Serves' /\ Overruns'
    BY <1>1, <1>2, <1>4, <2>1
    DEF IInv, Stages, Asks, Serves, Answers, Overruns, Refusable, Refusal, MayEnd
  <2> QED BY <2>2, <2>4, <2>5, <2>6 DEF IInv
<1>5. CASE /\ uri \notin Files \ lost /\ size' = 0
           /\ rc' = 0 /\ request_error(Refused[uri], NameError[uri])
  <2>1. ServerGoes("close", Page(Refused[uri], Len(NameError[uri]), Csum(NameError[uri]), body'))
    BY <1>5 DEF request_error
  <2>2. /\ pc'["server"] = "close" /\ line'["server"] = <<>>
        /\ left'["client"] = left["client"]
    BY <2>1, ServerMoves
  <2>3. RequestInv'
    BY <1>1, <1>3, <2>2, RequestStays DEF ServerAt
  <2>4. "client" \in open =>
          NameError[uri] = Refusal /\ Refusable /\ Refused[uri] = Refused[ask.file]
    BY <1>2, <1>5 DEF Refusal, Refusable
  <2>5. uri \in Names
    BY DEF IInv, Types
  <2> QED BY <1>1, <1>2, <1>5, <2>3, <2>4, <2>5, Pages, RefusedStep
<1> QED BY <1>4, <1>5 DEF request_stat

\* What request_readfile reads: the file, and junk if it has become shorter.
LEMMA BufferIs ==
  ASSUME NEW s \in Seq(Bytes), NEW n \in Nat, NEW junk \in Bytes, NEW buf,
         buf = [k \in 1..n |-> IF k <= Len(s) THEN s[k] ELSE junk]
  PROVE  buf \in Seq(Bytes) /\ Len(buf) = n /\ (n = Len(s) => buf = s)
<1>1. Len(s) \in Nat /\ \A k \in 1..Len(s) : s[k] \in Bytes
  BY LenProperties, ElementOfSeq
<1>2. \A k \in 1..n : buf[k] \in Bytes
  BY <1>1
<1>3. buf \in Seq(Bytes)
  BY <1>2, IsASeq
<1>4. Len(buf) = n
  BY <1>3, LenProperties
<1>5. ASSUME n = Len(s) PROVE buf = s
  <2>1. \A k \in 1..Len(s) : buf[k] = s[k]
    BY <1>1, <1>5
  <2> QED BY <1>3, <1>4, <1>5, <2>1, SeqEqual
<1> QED BY <1>3, <1>4, <1>5

\* The file cannot be opened: the process ends, and nothing was answered.
LEMMA OpenFails ==
  ASSUME IInv, pc["server"] = "read", CannotOpen, Exit("server")
  PROVE  IInv'
<1>1. CASE "client" \notin open
  BY <1>1, ServerExits
<1>2. CASE "client" \in open
  <2>1. /\ wire' = wire /\ rio' = rio /\ line' = line /\ open' = open \ {"server"}
        /\ ask' = ask /\ got' = got /\ fileset' = fileset /\ uri' = uri
        /\ size' = size /\ file_buf' = file_buf /\ overrun' = overrun /\ died' = died
        /\ shrunk' = shrunk /\ disk' = disk /\ lost' = lost /\ rc' = rc /\ body' = body
    BY DEF Exit, client, server, faults
  <2>2. ForEnds(left') /\ left'["server"] = <<>> /\ left'["client"] = left["client"]
    <3>1. ForEnds(left)
      BY DEF IInv, Types
    <3> QED BY <3>1 DEF ForEnds, Ends, Exit
  <2>3. ForEnds(pc') /\ pc'["server"] = "exited" /\ pc'["client"] = pc["client"]
    <3>1. ForEnds(pc)
      BY DEF IInv, Types
    <3> QED BY <3>1 DEF ForEnds, Ends, Exit
  <2>4. ask.method = "get" /\ ask.file \in lost /\ rc = -1
    BY <1>2 DEF IInv, Serves, Answers, CannotOpen
  <2>5. RequestInv'
    BY <2>1, <2>2, <2>3, RequestStays DEF ServerAt
  <2>6. Types'
    BY <2>1, <2>2, <2>3 DEF IInv, Types, ServerPCs
  <2>7. ReplyInv'
    BY <2>1, <2>2, <2>3, <2>4, <2>6, ReplyWaits DEF Replying
  <2>8. Stages'
    BY <1>2, <2>1, <2>2, <2>3, <2>4 DEF IInv, Stages, MayEnd
  <2>9. Asks' /\ Serves' /\ Overruns'
    BY <1>2, <2>1, <2>2, <2>3, <2>4
    DEF IInv, Asks, Serves, Answers, Overruns, Refusable, Refusal, MayEnd
  <2> QED BY <2>5, <2>6, <2>7, <2>8, <2>9 DEF IInv
<1> QED BY <1>1, <1>2

\* The rest of request_readfile.
LEMMA ReadStep ==
  ASSUME IInv, request_readfile
  PROVE  IInv'
<1> SUFFICES ASSUME ~CannotOpen PROVE IInv'
  BY OpenFails DEF request_readfile
<1>1. /\ wire' = wire /\ open' = open /\ rio' = rio
      /\ ask' = ask /\ got' = got /\ fileset' = fileset /\ uri' = uri
      /\ size' = size /\ overrun' = overrun /\ died' = died
      /\ shrunk' = shrunk /\ disk' = disk /\ lost' = lost /\ body' = body /\ rc' = 1
      /\ pc["server"] = "read" /\ ServerGoes("send", <<>>)
  BY DEF request_readfile, client, faults
<1>2. PICK junk \in {EOL, <<"byte", 1>>} :
          file_buf' = [k \in 1..size |-> IF k <= Len(disk[uri]) THEN disk[uri][k] ELSE junk]
  BY DEF request_readfile
<1>3. uri \in Files /\ disk[uri] \in Seq(Bytes) /\ size \in Nat /\ junk \in Bytes
  BY <1>1, <1>2 DEF IInv, Types, Serves, Bytes
<1>4. /\ file_buf' \in Seq(Bytes) /\ Len(file_buf') = size
      /\ size = Len(disk[uri]) => file_buf' = disk[uri]
  BY <1>2, <1>3, BufferIs
<1>5. /\ ForEnds(pc') /\ pc'["server"] = "send" /\ pc'["client"] = pc["client"]
      /\ ForEnds(line') /\ line'["server"] = <<>> /\ line'["client"] = line["client"]
      /\ ForEnds(left') /\ left'["server"] = <<>> /\ left'["client"] = left["client"]
  BY <1>1, ServerMoves
<1>6. line["server"] = <<>>
  BY <1>1 DEF IInv, Stages
<1>7. RequestInv'
  BY <1>1, <1>5, <1>6, RequestStays DEF ServerAt
<1>8. Types'
  BY <1>1, <1>4, <1>5 DEF IInv, Types, ServerPCs
<1>9. ReplyInv'
  BY <1>1, <1>5, <1>8, ReplyWaits DEF Replying
<1>10. "client" \in open =>
          /\ ask.method = "get" /\ uri = ask.file
          /\ ~shrunk => file_buf' = Content[ask.file]
  BY <1>1, <1>4 DEF IInv, Serves
<1>11. "client" \in open => Answers'
  BY <1>1, <1>3, <1>4, <1>5, <1>10 DEF Answers
<1>12. Serves'
  BY <1>1, <1>3, <1>5, <1>10, <1>11 DEF IInv, Serves
<1>13. Stages' /\ Asks' /\ Overruns'
  BY <1>1, <1>5 DEF IInv, Stages, Asks, Overruns, Refusable, Refusal, MayEnd
<1> QED BY <1>7, <1>8, <1>9, <1>12, <1>13 DEF IInv

\* request_sendfile.
LEMMA SendStep ==
  ASSUME IInv, request_sendfile
  PROVE  IInv'
<1>1. /\ wire' = wire /\ open' = open /\ rio' = rio
      /\ ask' = ask /\ got' = got /\ fileset' = fileset /\ uri' = uri
      /\ size' = size /\ file_buf' = file_buf /\ overrun' = overrun /\ died' = died
      /\ shrunk' = shrunk /\ disk' = disk /\ lost' = lost /\ rc' = rc /\ body' = body
      /\ pc["server"] = "send"
      /\ ServerGoes("close", Page(200, size, Csum(file_buf), file_buf))
  BY DEF request_sendfile, client, server, faults
<1>2. /\ ForEnds(pc') /\ pc'["server"] = "close" /\ pc'["client"] = pc["client"]
      /\ ForEnds(line') /\ line'["server"] = <<>> /\ line'["client"] = line["client"]
      /\ ForEnds(left') /\ left'["server"] = Page(200, size, Csum(file_buf), file_buf)
      /\ left'["client"] = left["client"]
  BY <1>1, ServerMoves
<1>3. "client" \in open => rc = 1 /\ size = Len(file_buf)
  BY <1>1 DEF IInv, Serves, Answers
<1>4. line["server"] = <<>> /\ ~Replying
  BY <1>1 DEF IInv, Stages, Replying
<1>5. RequestInv'
  BY <1>1, <1>2, <1>4, RequestStays DEF ServerAt
<1>6. Types'
  BY <1>1, <1>2 DEF IInv, Types, ServerPCs
<1>7. "client" \in open => Reply' = Page(200, size, Csum(file_buf), file_buf)
  BY <1>1, <1>3 DEF Reply, Text, Body, Code
<1>8. ReplyInv'
  <2>1. CASE "client" \in open
    BY <1>1, <1>2, <1>3, <1>4, <1>6, <1>7, <2>1, ReplyMade
  <2>2. CASE "client" \notin open
    BY <1>1, <2>2 DEF ReplyInv
  <2> QED BY <2>1, <2>2
<1>9. Stages' /\ Asks' /\ Serves' /\ Overruns'
  BY <1>1, <1>2, <1>3 DEF IInv, Stages, Asks, Serves, Answers, Overruns, Refusable, Refusal, MayEnd
<1> QED BY <1>5, <1>6, <1>8, <1>9 DEF IInv

\* request_destroy: the answer has been written, and the connection is closed.
LEMMA DestroyStep ==
  ASSUME IInv, request_destroy
  PROVE  IInv'
<1>1. /\ wire' = wire /\ open' = open \ {"server"} /\ rio' = rio
      /\ ask' = ask /\ got' = got /\ fileset' = fileset /\ uri' = uri
      /\ size' = size /\ file_buf' = file_buf /\ overrun' = overrun /\ died' = died
      /\ shrunk' = shrunk /\ disk' = disk /\ lost' = lost /\ rc' = rc /\ body' = body
      /\ pc["server"] = "close"
      /\ left["server"] = <<>> /\ ServerGoes("idle", <<>>)
  BY DEF request_destroy, OpenAfterClose, client, server, faults
<1>2. /\ ForEnds(pc') /\ pc'["server"] = "idle" /\ pc'["client"] = pc["client"]
      /\ ForEnds(line') /\ line'["server"] = <<>> /\ line'["client"] = line["client"]
      /\ ForEnds(left') /\ left'["server"] = <<>> /\ left'["client"] = left["client"]
  BY <1>1, ServerMoves
<1>3. line["server"] = <<>>
  BY <1>1 DEF IInv, Stages
<1>4. RequestInv'
  BY <1>1, <1>2, <1>3, RequestStays DEF ServerAt
<1>5. ReplyInv'
  <2>1. CASE "client" \notin open
    BY <1>1, <2>1 DEF ReplyInv
  <2>2. CASE "client" \in open
    <3>1. Replying /\ Replying'
      BY <1>1, <1>2, <2>2 DEF IInv, Serves, Answers, Replying
    <3> QED BY <1>1, <1>2, <3>1, ReplyKept DEF IInv
  <2> QED BY <2>1, <2>2
<1>6. Types' /\ Stages' /\ Asks' /\ Serves' /\ Overruns'
  BY <1>1, <1>2
  DEF IInv, Types, Stages, Asks, Serves, Answers, Overruns, Refusable, Refusal, MayEnd, ServerPCs
<1> QED BY <1>4, <1>5, <1>6 DEF IInv

\* request_error returns and the process ends: all of its page was written.
LEMMA SmashedStep ==
  ASSUME IInv, Smashed
  PROVE  IInv'
<1>1. pc["server"] = "close" /\ left["server"] = <<>> /\ rc = 0 /\ TooLong(body) /\ Exit("server")
  BY DEF Smashed
<1>2. CASE "client" \notin open
  BY <1>1, <1>2, ServerExits
<1>3. CASE "client" \in open
  <2>1. /\ wire' = wire /\ rio' = rio /\ line' = line /\ open' = open \ {"server"}
        /\ ask' = ask /\ got' = got /\ fileset' = fileset /\ uri' = uri
        /\ size' = size /\ file_buf' = file_buf /\ overrun' = overrun /\ died' = died
        /\ shrunk' = shrunk /\ disk' = disk /\ lost' = lost /\ rc' = rc /\ body' = body
    BY <1>1 DEF Exit, client, server, faults
  <2>2. ForEnds(left') /\ left'["server"] = <<>> /\ left'["client"] = left["client"]
    <3>1. ForEnds(left)
      BY DEF IInv, Types
    <3> QED BY <1>1, <3>1 DEF ForEnds, Ends, Exit
  <2>3. ForEnds(pc') /\ pc'["server"] = "exited" /\ pc'["client"] = pc["client"]
    <3>1. ForEnds(pc)
      BY DEF IInv, Types
    <3> QED BY <1>1, <3>1 DEF ForEnds, Ends, Exit
  <2>4. Refusable /\ TooLong(Refusal)
    BY <1>1, <1>3 DEF IInv, Serves, Answers
  <2>5. RequestInv'
    BY <1>1, <2>1, <2>2, <2>3, RequestStays DEF ServerAt
  <2>6. ReplyInv'
    BY <1>1, <2>1, <2>2, <2>3, ReplyKept DEF IInv, Replying
  <2>7. Types' /\ Stages'
    BY <1>1, <1>3, <2>1, <2>2, <2>3, <2>4
    DEF IInv, Types, Stages, Refusable, Refusal, MayEnd, ServerPCs
  <2>8. Asks' /\ Serves' /\ Overruns'
    BY <1>1, <1>3, <2>1, <2>2, <2>3, <2>4
    DEF IInv, Asks, Serves, Answers, Overruns, Refusable, Refusal, MayEnd
  <2> QED BY <2>5, <2>6, <2>7, <2>8 DEF IInv
<1> QED BY <1>2, <1>3

-----------------------------------------------------------------------------
(* The client.                                                             *)

\* What ClientGoes changes.
LEMMA ClientMoves ==
  ASSUME IInv, NEW s, ClientGoes(s)
  PROVE  /\ ForEnds(pc') /\ pc'["client"] = s /\ pc'["server"] = pc["server"]
         /\ ForEnds(line') /\ line'["client"] = <<>> /\ line'["server"] = line["server"]
<1>1. ForEnds(pc) /\ ForEnds(line)
  BY DEF IInv, Types
<1>2. ForEnds(pc') /\ pc'["client"] = s /\ pc'["server"] = pc["server"]
  BY <1>1 DEF ForEnds, Ends, ClientGoes
<1>3. ForEnds(line') /\ line'["client"] = <<>> /\ line'["server"] = line["server"]
  BY <1>1 DEF ForEnds, Ends, ClientGoes
<1> QED BY <1>2, <1>3

\* init_fileset: the index of a file set that is not empty is taken.
LEMMA FilesetStep ==
  ASSUME IInv, init_fileset
  PROVE  IInv'
<1>1. /\ wire' = wire /\ open' = open /\ rio' = rio /\ left' = left
      /\ ask' = ask /\ got' = got /\ uri' = uri
      /\ size' = size /\ file_buf' = file_buf /\ overrun' = overrun /\ died' = died
      /\ shrunk' = shrunk /\ disk' = disk /\ lost' = lost /\ rc' = rc /\ body' = body
      /\ pc["client"] = "start"
  BY DEF init_fileset, server, faults
<1>2. Index[1] > 0 /\ Cardinality(DOMAIN Index[2]) = Index[1]
  <2>1. Index[1] = Cardinality(Files) /\ DOMAIN Index[2] = Files
    BY DEF Index
  <2>2. Cardinality(Files) \in Nat /\ Cardinality(Files) # 0
    BY WebAssumption, FS_CardinalityType, FS_EmptySet
  <2> QED BY <2>1, <2>2
<1>3. ClientGoes("next") /\ fileset' = Index[2]
  BY <1>2 DEF init_fileset
<1>4. /\ ForEnds(pc') /\ pc'["client"] = "next" /\ pc'["server"] = pc["server"]
      /\ ForEnds(line') /\ line'["client"] = <<>> /\ line'["server"] = line["server"]
  BY <1>3, ClientMoves
<1>5. RequestInv'
  BY <1>1, <1>4, RequestKept DEF IInv
<1>6. ReplyInv'
  BY <1>1 DEF ReplyInv, IInv, Stages
<1>7. Types' /\ Stages' /\ Asks' /\ Serves' /\ Overruns'
  BY <1>1, <1>3, <1>4
  DEF IInv, Types, Stages, Asks, Serves, Answers, Overruns, Refusable, Refusal, MayEnd, ClientPCs
<1> QED BY <1>5, <1>6, <1>7 DEF IInv

\* There is a name.
LEMMA FirstName == Min(Names) \in Names
<1>1. Names \subseteq Nat /\ Names # {}
  BY WebAssumption
<1> QED BY <1>1, MinIsIn

\* client_send: a new request on a new connection.
LEMMA AskStep ==
  ASSUME IInv, NEW checked \in BOOLEAN, NEW method \in Methods, NEW f \in Names,
         client_send(checked, method, f)
  PROVE  IInv'
<1> DEFINE P == Line(<<method, f>>) \o Line(<<"host", 0>>) \o Blank
<1>1. /\ uri' = Min(Names) /\ size' = 0 /\ file_buf' = <<>> /\ rc' = -1 /\ body' = <<>>
      /\ died' = died /\ shrunk' = shrunk /\ disk' = disk /\ lost' = lost
      /\ fileset' = fileset
      /\ pc["client"] = "next" /\ pc["server"] = "idle"
      /\ checked => method = "get" /\ f \in Files
      /\ ask' = [checked |-> checked, method |-> method, file |-> f]
      /\ got' = NoAnswer /\ overrun' = FALSE
      /\ open' = Ends /\ wire' = [p \in Ends |-> <<>>] /\ rio' = wire' /\ line' = wire'
      /\ left' = [left EXCEPT !["client"] = P]
      /\ pc' = [client |-> "send", server |-> "line"]
  BY DEF client_send
<1>2. /\ ForEnds(wire') /\ wire'["client"] = <<>> /\ wire'["server"] = <<>>
      /\ ForEnds(rio') /\ rio'["client"] = <<>> /\ rio'["server"] = <<>>
      /\ ForEnds(line') /\ line'["client"] = <<>> /\ line'["server"] = <<>>
  BY <1>1 DEF ForEnds, Ends
<1> HIDE DEF P
<1>3. ForEnds(left') /\ left'["client"] = P /\ left'["server"] = left["server"]
  <2>1. ForEnds(left)
    BY DEF IInv, Types
  <2> QED BY <1>1, <2>1 DEF ForEnds, Ends
<1>4. ForEnds(pc') /\ pc'["client"] = "send" /\ pc'["server"] = "line"
  BY <1>1 DEF ForEnds, Ends
<1>5. ask'.checked = checked /\ ask'.method = method /\ ask'.file = f
  BY <1>1
<1>6. left["server"] = <<>> /\ ~died /\ fileset = Index[2]
  BY <1>1 DEF IInv, Stages, Asks
<1>7. Types'
  <2>1. PICK u : u = Min(Names)
    OBVIOUS
  <2>2. u \in Names /\ uri' = u /\ file_buf' \in Seq(Bytes) /\ body' \in Seq(Bytes)
    BY <1>1, <2>1, FirstName
  <2>3. /\ pc'["server"] \in ServerPCs /\ pc'["client"] \in ClientPCs /\ open' \subseteq Ends
    BY <1>1, <1>4 DEF ServerPCs, ClientPCs
  <2>4. ask' \in [checked : BOOLEAN, method : Methods, file : Names]
    BY <1>1
  <2> QED BY <1>1, <1>2, <1>3, <1>4, <2>2, <2>3, <2>4 DEF IInv, Types
<1>8. RequestInv'
  <2>1. P = Request(method, f)
    BY DEF P, Request
  <2>2. IsRequest(P, method, f)
    BY <2>1, RequestIs
  <2>3. PICK S : P \in Seq(S)
    BY <2>2 DEF IsRequest, Holds
  <2>4. Flow(P, 0, 6, <<>>, <<>>, <<>>, P)
    <3>1. Flow(P, 0, Len(P), <<>>, <<>>, <<>>, P) /\ Len(P) = 6
      BY <2>2, <2>3, NewFlow DEF IsRequest
    <3> QED BY <3>1
  <2>5. RequestAt(0, 6)'
    BY <1>2, <1>3, <1>4, <1>5, <2>1, <2>4 DEF RequestAt, ServerAt
  <2> QED BY <2>5 DEF RequestInv
<1>9. ReplyInv'
  <2>1. Made' = 0 /\ Holds(Reply', Made')
    BY <1>4, <1>7, ReplyWillBe DEF Made, Replying
  <2>2. Flow(Reply', 0, 0, <<>>, <<>>, <<>>, <<>>)
    BY <2>1, NoFlow
  <2>3. Learnt(0)'
    BY <1>1, <1>2, <1>4 DEF Learnt, NoAnswer
  <2>4. ReplyAt(0)'
    BY <1>2, <1>3, <1>6, <2>1, <2>2, <2>3 DEF ReplyAt
  <2>5. Len(<<>>) <= MaxBuf
    BY WebAssumption
  <2> QED BY <1>2, <2>1, <2>4, <2>5 DEF ReplyInv
<1>10. Stages'
  BY <1>1, <1>2, <1>3, <1>4, <1>6 DEF Stages, Ends
<1>11. Asks' /\ Serves' /\ Overruns'
  BY <1>1, <1>4, <1>5, <1>6 DEF IInv, Asks, Serves, Answers, Overruns, Refusable, Refusal, MayEnd
<1> QED BY <1>7, <1>8, <1>9, <1>10, <1>11 DEF IInv

\* The request has been written.
LEMMA SentStep ==
  ASSUME IInv, client_sent
  PROVE  IInv'
<1>1. /\ wire' = wire /\ open' = open /\ rio' = rio /\ left' = left
      /\ ask' = ask /\ got' = got /\ fileset' = fileset /\ uri' = uri
      /\ size' = size /\ file_buf' = file_buf /\ overrun' = overrun /\ died' = died
      /\ shrunk' = shrunk /\ disk' = disk /\ lost' = lost /\ rc' = rc /\ body' = body
      /\ pc["client"] = "send"
      /\ left["client"] = <<>> /\ ClientGoes("head")
  BY DEF client_sent, client, server, faults
<1>2. /\ ForEnds(pc') /\ pc'["client"] = "head" /\ pc'["server"] = pc["server"]
      /\ ForEnds(line') /\ line'["client"] = <<>> /\ line'["server"] = line["server"]
  BY <1>1, ClientMoves
<1>3. RequestInv'
  BY <1>1, <1>2, RequestKept DEF IInv
<1>4. ReplyInv'
  <2>1. "client" \in open
    BY <1>1 DEF IInv, Stages
  <2>2. PICK a \in 0..Made : ReplyAt(a)
    BY <2>1 DEF IInv, ReplyInv
  <2>3. a = 0 /\ line["client"] = <<>>
    BY <1>1, <2>2 DEF ReplyAt, Learnt
  <2>4. Text' = Text /\ Replying' = Replying /\ Reply' = Reply /\ Made' = Made
    BY <1>1, <1>2 DEF Text, Body, Code, Refusal, Reply, Made, Replying
  <2>5. Learnt(0)'
    BY <1>1, <1>2, <2>2, <2>3, <2>4 DEF ReplyAt, Learnt
  <2>6. ReplyAt(0)'
    BY <1>1, <1>2, <2>2, <2>3, <2>4, <2>5 DEF ReplyAt
  <2>7. Len(<<>>) <= MaxBuf
    BY WebAssumption
  <2> QED BY <1>2, <2>2, <2>3, <2>4, <2>6, <2>7 DEF ReplyInv
<1>5. Types' /\ Stages' /\ Asks' /\ Serves' /\ Overruns'
  BY <1>1, <1>2
  DEF IInv, Types, Stages, Asks, Serves, Answers, Overruns, Refusable, Refusal, MayEnd, ClientPCs
<1> QED BY <1>3, <1>4, <1>5 DEF IInv

\* At the end of the file the worker is done with the request, or its process
\* has ended without an answer.
LEMMA AnswerEnds ==
  ASSUME IInv, "client" \in open, AtEof("client")
  PROVE  /\ pc["server"] \in {"idle", "exited"} /\ left["server"] = <<>>
         /\ ~Replying => pc["server"] = "exited"
<1>1. "server" \notin open
  BY DEF AtEof, Peer
<1>2. pc["server"] \in {"idle", "exited"} /\ left["server"] = <<>>
  BY <1>1 DEF IInv, Stages, Types, ServerPCs
<1>3. pc["server"] = "idle" => rc # -1
  BY DEF IInv, Serves, Answers
<1> QED BY <1>2, <1>3 DEF Replying

\* The client reads the end of a connection on which nothing was answered.
LEMMA NoReply ==
  ASSUME IInv, "client" \in open, ~Replying, pc["client"] \in {"head", "body"}, Ended("client")
  PROVE  /\ line["client"] = <<>> /\ pc["server"] = "exited" /\ got = NoAnswer
<1>1. line["client"] = <<>> /\ Learnt(0)
  BY NothingSent
<1>2. pc["server"] = "exited"
  BY <1>1, AnswerEnds DEF Ended
<1>3. got = NoAnswer
  BY <1>1 DEF Learnt, NoAnswer
<1> QED BY <1>1, <1>2, <1>3

\* The client goes on with nothing.
LEMMA NothingRead ==
  ASSUME IInv, Types', "client" \in open, ~Replying, rc' = rc,
         pc["server"] = "exited", pc'["server"] = "exited",
         pc'["client"] \in {"body", "check"}, got' = NoAnswer,
         line'["client"] = <<>>, rio' = rio, wire' = wire, left' = left
  PROVE  ReplyInv'
<1>1. /\ rio["client"] = <<>> /\ wire["client"] = <<>> /\ left["server"] = <<>>
  BY NothingSent
<1>2. ~Replying'
  BY DEF Replying
<1>3. Made' = 0 /\ Holds(Reply', Made')
  BY <1>2, ReplyWillBe DEF Made
<1>4. Flow(Reply', 0, 0, <<>>, <<>>, <<>>, <<>>)
  BY <1>3, NoFlow
<1>5. Learnt(0)'
  BY <1>2, <1>3 DEF Learnt
<1>6. ReplyAt(0)'
  BY <1>1, <1>3, <1>4, <1>5 DEF ReplyAt
<1>7. Len(<<>>) <= MaxBuf
  BY WebAssumption
<1> QED BY <1>3, <1>6, <1>7 DEF ReplyInv

\* A line of the header has ended: it is complete.
LEMMA HeadLine ==
  ASSUME IInv, pc["client"] = "head", Ended("client"), Replying, NEW a \in 0..Made, ReplyAt(a)
  PROVE  /\ Made = Len(Reply) /\ a \in {0, 2, 4, 6} /\ a + 2 \in 0..Made
         /\ line["client"] = <<Reply[a + 1], Reply[a + 2]>>
         /\ Flow(Reply, a + 2, Made, <<>>, rio["client"], wire["client"], left["server"])
<1>1. "client" \in open
  BY DEF IInv, Stages
<1>2. /\ Len(Body) \in Nat /\ IsPage(Reply, Code, Len(Text), Csum(Text), Body)
      /\ Len(Reply) = 8 + Len(Body) /\ Made \in Nat /\ Holds(Reply, Made)
  BY ReplyIs DEF IInv
<1>3. /\ Flow(Reply, a, Made, line["client"], rio["client"], wire["client"], left["server"])
      /\ a \in {0, 2, 4, 6}
  BY DEF ReplyAt, Learnt
<1>4. Made = Len(Reply)
  BY DEF Made
<1>5. a + 2 \in 0..Made /\ Reply[a + 1] # EOL /\ Reply[a + 2] = EOL
  <2>1. Reply[a + 1] # EOL /\ Reply[a + 2] = EOL
    BY <1>2, <1>3, HeaderLines
  <2>2. a + 2 \in 0..Made
    BY <1>2, <1>3, <1>4
  <2> QED BY <2>1, <2>2
<1>6. PICK l : l = Len(line["client"])
  OBVIOUS
<1>7. /\ l \in Nat /\ l <= 2
      /\ line["client"] # <<>> => (Last(line["client"]) = EOL <=> l = 2)
      /\ l = 2 => line["client"] = <<Reply[a + 1], Reply[a + 2]>>
  <2>1. l \in Nat
    BY <1>2, <1>3, <1>6, FlowSeqs
  <2>2. /\ a + 2 \in 0..Made => Len(line["client"]) <= 2
        /\ (a + 2 \in 0..Made /\ line["client"] # <<>>) =>
              (Last(line["client"]) = EOL <=> Len(line["client"]) = 2)
        /\ Len(line["client"]) = 2 => line["client"] = <<Reply[a + 1], Reply[a + 2]>>
    BY <1>2, <1>3, <1>5, ShortLine
  <2> QED BY <1>5, <1>6, <2>1, <2>2
<1>8. l = 2
  <2>1. CASE AtEof("client")
    <3>1. rio["client"] = <<>> /\ wire["client"] = <<>> /\ left["server"] = <<>>
      BY <1>1, <2>1, AnswerEnds DEF AtEof
    <3>2. Flow(Reply, a, Made, line["client"], <<>>, <<>>, <<>>)
      BY <1>3, <3>1
    <3>3. a + l = Made
      BY <1>2, <1>6, <3>2, FlowEnds
    <3> QED BY <1>5, <1>7, <3>3
  <2>2. CASE ~AtEof("client")
    <3>1. l # MaxBuf
      <4>1. MaxBuf \in Nat /\ MaxBuf > 2
        BY WebAssumption
      <4> QED BY <1>7, <4>1
    <3>2. line["client"] # <<>> /\ Last(line["client"]) = EOL
      BY <1>6, <2>2, <3>1 DEF Ended, MaxLen
    <3> QED BY <1>7, <3>2
  <2> QED BY <2>1, <2>2
<1>9. Flow(Reply, a + l, Made, <<>>, rio["client"], wire["client"], left["server"])
  BY <1>2, <1>3, <1>6, DropFlow
<1> QED BY <1>3, <1>4, <1>5, <1>7, <1>8, <1>9

\* What a line of the header tells the client.
LEMMA HeadTells ==
  ASSUME NEW P, NEW code, NEW n, NEW csum, NEW text, IsPage(P, code, n, csum, text),
         NEW a \in {0, 2, 4, 6}, NEW l, l = <<P[a + 1], P[a + 2]>>
  PROVE  /\ l # <<>> /\ (l = Blank <=> a = 6)
         /\ l[1][1] = "length" <=> a = 2
         /\ l[1][1] = "csum" <=> a = 4
         /\ a = 2 => l[1][2] = n
         /\ a = 4 => l[1][2] = csum
<1>1. /\ P[1] = <<"status", code>> /\ P[2] = EOL /\ P[3] = <<"length", n>> /\ P[4] = EOL
      /\ P[5] = <<"csum", csum>> /\ P[6] = EOL /\ P[7] = <<"return", 0>> /\ P[8] = EOL
  BY DEF IsPage
<1>2. CASE a = 0
  <2>1. l = <<<<"status", code>>, EOL>>
    BY <1>1, <1>2
  <2> QED BY <1>2, <2>1 DEF Blank, Line
<1>3. CASE a = 2
  <2>1. l = <<<<"length", n>>, EOL>>
    BY <1>1, <1>3
  <2> QED BY <1>3, <2>1 DEF Blank, Line
<1>4. CASE a = 4
  <2>1. l = <<<<"csum", csum>>, EOL>>
    BY <1>1, <1>4
  <2> QED BY <1>4, <2>1 DEF Blank, Line
<1>5. CASE a = 6
  <2>1. l = <<<<"return", 0>>, EOL>>
    BY <1>1, <1>5
  <2> QED BY <1>5, <2>1 DEF Blank, Line
<1> QED BY <1>2, <1>3, <1>4, <1>5

\* client_print reads a line of the header.
LEMMA HeadStep ==
  ASSUME IInv, client_head
  PROVE  IInv'
<1> DEFINE l == line["client"]
           s == IF l \in {Blank, <<>>} THEN "body" ELSE "head"
<1>1. /\ wire' = wire /\ open' = open /\ rio' = rio /\ left' = left
      /\ ask' = ask /\ fileset' = fileset /\ uri' = uri
      /\ size' = size /\ file_buf' = file_buf /\ overrun' = overrun /\ died' = died
      /\ shrunk' = shrunk /\ disk' = disk /\ lost' = lost /\ rc' = rc /\ body' = body
      /\ pc["client"] = "head" /\ Ended("client")
      /\ ClientGoes(s)
      /\ got' = IF l # <<>> /\ l[1][1] \in {"length", "csum"}
                THEN [got EXCEPT ![l[1][1]] = l[1][2]] ELSE got
  BY DEF client_head, server, faults
<1> HIDE DEF s
<1>2. /\ ForEnds(pc') /\ pc'["client"] = s /\ pc'["server"] = pc["server"]
      /\ ForEnds(line') /\ line'["client"] = <<>> /\ line'["server"] = line["server"]
  BY <1>1, ClientMoves
<1>3. RequestInv'
  BY <1>1, <1>2, RequestKept DEF IInv
<1>4. "client" \in open /\ left["client"] = <<>>
  BY <1>1 DEF IInv, Stages
<1>5. CASE ~Replying
  <2>1. l = <<>> /\ pc["server"] = "exited" /\ got = NoAnswer
    BY <1>1, <1>4, <1>5, NoReply
  <2>2. s = "body" /\ got' = NoAnswer
    BY <1>1, <2>1 DEF s
  <2>3. Types' /\ Stages' /\ Asks' /\ Serves' /\ Overruns'
    BY <1>1, <1>2, <1>4, <2>2
    DEF IInv, Types, Stages, Asks, Serves, Answers, Overruns, Refusable, Refusal, MayEnd, ClientPCs
  <2>4. ReplyInv'
    BY <1>1, <1>2, <1>4, <1>5, <2>1, <2>2, <2>3, NothingRead
  <2> QED BY <1>3, <2>3, <2>4 DEF IInv
<1> SUFFICES ASSUME Replying PROVE IInv'
  BY <1>5
<1>15. PICK a \in 0..Made : ReplyAt(a)
  BY <1>4 DEF IInv, ReplyInv
<1>6. /\ Made = Len(Reply) /\ a \in {0, 2, 4, 6} /\ a + 2 \in 0..Made
      /\ l = <<Reply[a + 1], Reply[a + 2]>>
      /\ Flow(Reply, a + 2, Made, <<>>, rio["client"], wire["client"], left["server"])
  BY <1>1, <1>15, HeadLine
<1>7. IsPage(Reply, Code, Len(Text), Csum(Text), Body) /\ Made \in Nat /\ Holds(Reply, Made)
  BY ReplyIs DEF IInv
<1> HIDE DEF l
<1>8. /\ l # <<>> /\ (l = Blank <=> a = 6)
      /\ l[1][1] = "length" <=> a = 2
      /\ l[1][1] = "csum" <=> a = 4
      /\ a = 2 => l[1][2] = Len(Text)
      /\ a = 4 => l[1][2] = Csum(Text)
  BY <1>6, <1>7, HeadTells
<1>9. got = [length |-> IF a >= 4 THEN Len(Text) ELSE 0,
             csum |-> IF a >= 6 THEN Csum(Text) ELSE 0, body |-> <<>>]
  BY <1>1, <1>15 DEF ReplyAt, Learnt
<1>10. s = IF a = 6 THEN "body" ELSE "head"
  BY <1>8 DEF s
<1>11. got' = [length |-> IF a + 2 >= 4 THEN Len(Text) ELSE 0,
               csum |-> IF a + 2 >= 6 THEN Csum(Text) ELSE 0, body |-> <<>>]
  <2>1. CASE a = 0
    BY <1>1, <1>8, <1>9, <2>1
  <2>2. CASE a = 2
    <3>1. PICK n : n = Len(Text)
      OBVIOUS
    <3>2. got' = [got EXCEPT !["length"] = n]
      BY <1>1, <1>8, <2>2, <3>1
    <3>3. got = [length |-> 0, csum |-> 0, body |-> <<>>]
      BY <1>9, <2>2
    <3>4. got' = [length |-> n, csum |-> 0, body |-> <<>>]
      BY <3>2, <3>3
    <3> QED BY <2>2, <3>1, <3>4
  <2>3. CASE a = 4
    <3>1. PICK n, c : n = Len(Text) /\ c = Csum(Text)
      OBVIOUS
    <3>2. got' = [got EXCEPT !["csum"] = c]
      BY <1>1, <1>8, <2>3, <3>1
    <3>3. got = [length |-> n, csum |-> 0, body |-> <<>>]
      BY <1>9, <2>3, <3>1
    <3>4. got' = [length |-> n, csum |-> c, body |-> <<>>]
      BY <3>2, <3>3
    <3> QED BY <2>3, <3>1, <3>4
  <2>4. CASE a = 6
    BY <1>1, <1>8, <1>9, <2>4
  <2> QED BY <1>6, <2>1, <2>2, <2>3, <2>4
<1>12. Text' = Text /\ Replying' = Replying /\ Reply' = Reply /\ Made' = Made
  BY <1>1, <1>2 DEF Text, Body, Code, Refusal, Reply, Made, Replying
<1>13. ReplyInv'
  <2>1. PICK e : e = a + 2
    OBVIOUS
  <2>2. e \in {2, 4, 6, 8} /\ e \in 0..Made /\ (a = 6 <=> e = 8)
    BY <1>6, <2>1
  <2>3. got' = [length |-> IF e >= 4 THEN Len(Text) ELSE 0,
                csum |-> IF e >= 6 THEN Csum(Text) ELSE 0, body |-> <<>>]
    BY <1>11, <2>1
  <2>4. Cut(Reply, 8, 8) = <<>> \/ e # 8
    <3>1. ASSUME e = 8 PROVE Cut(Reply, 8, 8) = <<>>
      <4>1. 8 \in 0..Made /\ 8 \in 8..Made
        BY <1>7, <2>2, <3>1
      <4> QED BY <1>7, <4>1, CutIs DEF IsPiece
    <3> QED BY <3>1
  <2>5. Learnt(e)'
    <3>1. CASE e = 8
      <4>1. pc'["client"] = "body"
        BY <1>2, <1>10, <2>2, <3>1
      <4>2. got' = [length |-> Len(Text), csum |-> Csum(Text), body |-> Cut(Reply, 8, e)]
        BY <2>3, <2>4, <3>1
      <4> QED BY <1>12, <2>2, <3>1, <4>1, <4>2 DEF Learnt
    <3>2. CASE e # 8
      <4>1. pc'["client"] = "head" /\ e \in {0, 2, 4, 6}
        BY <1>2, <1>10, <2>2, <3>2
      <4> QED BY <1>12, <2>3, <4>1 DEF Learnt
    <3> QED BY <3>1, <3>2
  <2>6. Flow(Reply, e, Made, <<>>, rio["client"], wire["client"], left["server"])
    BY <1>6, <2>1
  <2>7. ReplyAt(e)'
    BY <1>1, <1>2, <1>12, <2>5, <2>6 DEF ReplyAt
  <2>8. Len(<<>>) <= MaxBuf
    BY WebAssumption
  <2> QED BY <1>2, <1>12, <2>2, <2>7, <2>8 DEF ReplyInv
<1>14. Types' /\ Stages' /\ Asks' /\ Serves' /\ Overruns'
  BY <1>1, <1>2, <1>4, <1>10
  DEF IInv, Types, Stages, Asks, Serves, Answers, Overruns, Refusable, Refusal, MayEnd, ClientPCs
<1> QED BY <1>3, <1>13, <1>14 DEF IInv

\* client_print reads a line of the body.
LEMMA BodyStep ==
  ASSUME IInv, client_body
  PROVE  IInv'
<1> DEFINE l == line["client"]
           s == IF l = <<>> THEN "check" ELSE "body"
<1>1. /\ wire' = wire /\ open' = open /\ rio' = rio /\ left' = left
      /\ ask' = ask /\ fileset' = fileset /\ uri' = uri
      /\ size' = size /\ file_buf' = file_buf /\ overrun' = overrun /\ died' = died
      /\ shrunk' = shrunk /\ disk' = disk /\ lost' = lost /\ rc' = rc /\ body' = body
      /\ pc["client"] = "body" /\ Ended("client")
      /\ ClientGoes(s) /\ got' = [got EXCEPT !.body = @ \o l]
  BY DEF client_body, server, faults
<1> HIDE DEF s
<1>2. /\ ForEnds(pc') /\ pc'["client"] = s /\ pc'["server"] = pc["server"]
      /\ ForEnds(line') /\ line'["client"] = <<>> /\ line'["server"] = line["server"]
  BY <1>1, ClientMoves
<1>3. RequestInv'
  BY <1>1, <1>2, RequestKept DEF IInv
<1>4. "client" \in open /\ left["client"] = <<>>
  BY <1>1 DEF IInv, Stages
<1>5. CASE ~Replying
  <2>1. l = <<>> /\ pc["server"] = "exited" /\ got = NoAnswer
    BY <1>1, <1>4, <1>5, NoReply
  <2>2. s = "check" /\ got' = NoAnswer
    <3>1. <<>> \o <<>> = <<>>
      OBVIOUS
    <3> QED BY <1>1, <2>1, <3>1 DEF s, NoAnswer
  <2>3. Types' /\ Stages' /\ Asks' /\ Serves' /\ Overruns'
    BY <1>1, <1>2, <1>4, <2>1, <2>2
    DEF IInv, Types, Stages, Asks, Serves, Answers, Overruns, Refusable, Refusal, MayEnd, ClientPCs
  <2>4. ReplyInv'
    BY <1>1, <1>2, <1>4, <1>5, <2>1, <2>2, <2>3, NothingRead
  <2> QED BY <1>3, <2>3, <2>4 DEF IInv
<1> SUFFICES ASSUME Replying PROVE IInv'
  BY <1>5
<1>17. PICK a \in 0..Made : ReplyAt(a)
  BY <1>4 DEF IInv, ReplyInv
<1>6. Made \in Nat /\ Holds(Reply, Made)
  BY ReplyIs DEF IInv
<1>7. /\ Flow(Reply, a, Made, l, rio["client"], wire["client"], left["server"])
      /\ a >= 8
      /\ got = [length |-> Len(Text), csum |-> Csum(Text), body |-> Cut(Reply, 8, a)]
  BY <1>1, <1>17 DEF ReplyAt, Learnt
<1>8. l = <<>> => AtEof("client")
  BY <1>1 DEF Ended
<1> HIDE DEF l
<1>9. PICK e : e = a + Len(l)
  OBVIOUS
<1>10. /\ e \in 0..Made /\ e >= a /\ l = Cut(Reply, a, e)
       /\ Flow(Reply, e, Made, <<>>, rio["client"], wire["client"], left["server"])
  <2>1. /\ Len(l) \in Nat /\ a + Len(l) \in 0..Made
        /\ Flow(Reply, a + Len(l), Made, <<>>, rio["client"], wire["client"], left["server"])
        /\ l = Cut(Reply, a, a + Len(l))
    BY <1>6, <1>7, DropFlow
  <2>2. e >= a
    BY <1>9, <2>1
  <2> QED BY <1>9, <2>1, <2>2
<1>11. got' = [length |-> Len(Text), csum |-> Csum(Text), body |-> Cut(Reply, 8, e)]
  <2>1. 8 \in 0..Made /\ a \in 8..Made /\ e \in a..Made
    BY <1>6, <1>7, <1>10
  <2>2. Cut(Reply, 8, a) \o Cut(Reply, a, e) = Cut(Reply, 8, e)
    BY <1>6, <2>1, CutsJoin
  <2>3. PICK n, c, b, d : /\ n = Len(Text) /\ c = Csum(Text) /\ b = Cut(Reply, 8, a)
                          /\ d = Cut(Reply, 8, e)
    OBVIOUS
  <2>4. b \o l = d
    BY <1>10, <2>2, <2>3
  <2>5. got = [length |-> n, csum |-> c, body |-> b]
    BY <1>7, <2>3
  <2>6. got' = [length |-> n, csum |-> c, body |-> d]
    BY <1>1, <2>4, <2>5
  <2> QED BY <2>3, <2>6
<1>12. Text' = Text /\ Replying' = Replying /\ Reply' = Reply /\ Made' = Made
  BY <1>1, <1>2 DEF Text, Body, Code, Refusal, Reply, Made, Replying
<1>13. ASSUME l = <<>> PROVE pc["server"] \in {"idle", "exited"} /\ e = Made
  <2>1. AtEof("client")
    BY <1>8, <1>13
  <2>2. /\ pc["server"] \in {"idle", "exited"} /\ left["server"] = <<>>
        /\ rio["client"] = <<>> /\ wire["client"] = <<>>
    BY <1>4, <2>1, AnswerEnds DEF AtEof
  <2>3. Flow(Reply, a, Made, l, <<>>, <<>>, <<>>)
    BY <1>7, <2>2
  <2>4. a + Len(l) = Made
    BY <1>6, <2>3, FlowEnds
  <2> QED BY <1>9, <2>2, <2>4
<1>14. ReplyInv'
  <2>1. e >= 8 /\ pc'["client"] \in {"body", "check"} /\ (pc'["client"] = "check" => e = Made)
    BY <1>2, <1>7, <1>10, <1>13 DEF s
  <2>2. Learnt(e)'
    BY <1>11, <1>12, <2>1 DEF Learnt
  <2>3. ReplyAt(e)'
    BY <1>1, <1>2, <1>10, <1>12, <2>2 DEF ReplyAt
  <2>4. Len(<<>>) <= MaxBuf
    BY WebAssumption
  <2> QED BY <1>2, <1>10, <1>12, <2>3, <2>4 DEF ReplyInv
<1>15. s \in {"body", "check"} /\ (s = "check" => pc["server"] \in {"idle", "exited"})
  BY <1>13 DEF s
<1>16. Types' /\ Stages' /\ Asks' /\ Serves' /\ Overruns'
  BY <1>1, <1>2, <1>4, <1>15
  DEF IInv, Types, Stages, Asks, Serves, Answers, Overruns, Refusable, Refusal, MayEnd, ClientPCs
<1> QED BY <1>3, <1>14, <1>16 DEF IInv

\* A complete answer is what it says.
LEMMA WholeAnswer ==
  ASSUME IInv, pc["client"] = "check"
  PROVE  AnswersExact
<1>1. "client" \in open
  BY DEF IInv, Stages
<1>2. PICK a \in 0..Made : ReplyAt(a)
  BY <1>1 DEF IInv, ReplyInv
<1>3. CASE ~Replying
  <2>1. pc["server"] = "exited" /\ got = NoAnswer /\ rc = -1
    BY <1>2, <1>3 DEF ReplyAt, Learnt, Replying
  <2>2. ask.method = "get" /\ ask.file \in lost
    BY <1>1, <2>1 DEF IInv, Serves, Answers
  <2> QED BY <2>1, <2>2 DEF AnswersExact
<1>4. CASE Replying
  <2>1. got = [length |-> Len(Text), csum |-> Csum(Text), body |-> Cut(Reply, 8, Len(Reply))]
    BY <1>2, <1>4 DEF ReplyAt, Learnt, Made
  <2>2. Cut(Reply, 8, Len(Reply)) = Body
    BY ReplyIs, BodyOfPage DEF IInv
  <2>3. got.body = Body /\ got.length = Len(Text) /\ got.csum = Csum(Text)
    BY <2>1, <2>2
  <2>4. CASE rc = 1
    <3>1. /\ ask.method = "get" /\ ask.file \in Files
          /\ ~shrunk => file_buf = Content[ask.file]
      BY <1>1, <2>4 DEF IInv, Serves, Answers
    <3>2. Body = file_buf /\ Text = file_buf
      BY <2>4 DEF Body, Text
    <3>3. fileset[ask.file] = [csum |-> Csum(Content[ask.file]), len |-> Len(Content[ask.file])]
      <4>1. fileset = Index[2]
        BY DEF IInv, Asks
      <4> QED BY <3>1, <4>1 DEF Index
    <3>4. ~shrunk => Accepted
      BY <2>3, <3>1, <3>2, <3>3 DEF Accepted
    <3> QED BY <2>3, <3>1, <3>2, <3>4 DEF AnswersExact
  <2>5. CASE rc # 1
    <3>1. rc = 0
      BY <1>4, <2>5 DEF Replying, IInv, Types
    <3>2. Refusable /\ (~TooLong(Refusal) => body = Refusal)
      BY <1>1, <3>1 DEF IInv, Serves, Answers
    <3>3. Body = body /\ Text = Refusal
      BY <2>5 DEF Body, Text
    <3> QED BY <2>3, <3>2, <3>3 DEF AnswersExact
  <2> QED BY <2>4, <2>5
<1> QED BY <1>3, <1>4

\* client_print checks what it got.
LEMMA CheckStep ==
  ASSUME IInv, client_check
  PROVE  IInv'
<1> DEFINE s == IF \/ ask.checked /\ Accepted
                   \/ ~ask.checked /\ got.length \in {0, Len(got.body)}
                THEN "next" ELSE "aborted"
<1>1. /\ wire' = wire /\ open' = open \ {"client"} /\ rio' = rio /\ left' = left
      /\ ask' = ask /\ got' = got /\ fileset' = fileset /\ uri' = uri
      /\ size' = size /\ file_buf' = file_buf /\ overrun' = overrun /\ died' = died
      /\ shrunk' = shrunk /\ disk' = disk /\ lost' = lost /\ rc' = rc /\ body' = body
      /\ pc["client"] = "check" /\ ClientGoes(s)
  BY DEF client_check, client, server, faults
<1>2. s \in {"next", "aborted"} /\ (s = "aborted" => shrunk \/ MayEnd)
  <2>1. CASE MayEnd
    BY <2>1
  <2>2. CASE ~MayEnd
    <3>1. /\ got.length = Len(got.body)
          /\ ~Refusable /\ ~shrunk => Accepted
      BY <1>1, <2>2, WholeAnswer DEF AnswersExact, MayEnd
    <3>2. ask.checked => ~Refusable
      BY <2>2 DEF IInv, Asks, Refusable, MayEnd
    <3> QED BY <3>1, <3>2
  <2> QED BY <2>1, <2>2
<1> HIDE DEF s
<1>3. /\ ForEnds(pc') /\ pc'["client"] = s /\ pc'["server"] = pc["server"]
      /\ ForEnds(line') /\ line'["client"] = <<>> /\ line'["server"] = line["server"]
  BY <1>1, ClientMoves
<1>4. RequestInv'
  BY <1>1, <1>3, RequestKept DEF IInv
<1>5. ReplyInv'
  BY <1>1 DEF ReplyInv
<1>6. Types' /\ Stages' /\ Asks' /\ Serves' /\ Overruns'
  BY <1>1, <1>2, <1>3
  DEF IInv, Types, Stages, Asks, Serves, Overruns, Refusable, Refusal, MayEnd, ClientPCs
<1> QED BY <1>4, <1>5, <1>6 DEF IInv

-----------------------------------------------------------------------------
(* The environment, and the theorems.                                      *)

\* The client goes away.
LEMMA DiesStep ==
  ASSUME IInv, ClientDies
  PROVE  IInv'
<1>1. /\ wire' = wire /\ open' = open \ {"client"} /\ rio' = rio
      /\ ask' = ask /\ got' = got /\ fileset' = fileset /\ uri' = uri
      /\ size' = size /\ file_buf' = file_buf /\ overrun' = overrun /\ died' = TRUE
      /\ shrunk' = shrunk /\ disk' = disk /\ lost' = lost /\ rc' = rc /\ body' = body
      /\ ClientGoes("gone") /\ "client" \in open
  BY DEF ClientDies, client, server
<1>2. ForEnds(left') /\ left'["client"] = <<>> /\ left'["server"] = left["server"]
  <2>1. ForEnds(left)
    BY DEF IInv, Types
  <2> QED BY <2>1 DEF ForEnds, Ends, ClientDies
<1>3. /\ ForEnds(pc') /\ pc'["client"] = "gone" /\ pc'["server"] = pc["server"]
      /\ ForEnds(line') /\ line'["client"] = <<>> /\ line'["server"] = line["server"]
  BY <1>1, ClientMoves
<1>4. pc["client"] # "start"
  BY <1>1 DEF IInv, Stages
<1>5. RequestInv'
  BY <1>1, <1>2, <1>3, RequestLost
<1>6. ReplyInv'
  BY <1>1 DEF ReplyInv
<1>7. Types' /\ Stages' /\ Asks' /\ Serves' /\ Overruns'
  BY <1>1, <1>2, <1>3, <1>4
  DEF IInv, Types, Stages, Asks, Serves, Answers, Overruns, Refusable, Refusal, MayEnd, ClientPCs
<1> QED BY <1>5, <1>6, <1>7 DEF IInv

\* A file loses its last byte.
LEMMA ShrinkStep ==
  ASSUME IInv, FileShrinks
  PROVE  IInv'
<1>1. /\ wire' = wire /\ open' = open /\ rio' = rio /\ line' = line /\ left' = left
      /\ pc' = pc /\ ask' = ask /\ got' = got /\ fileset' = fileset /\ uri' = uri
      /\ size' = size /\ file_buf' = file_buf /\ overrun' = overrun /\ died' = died
      /\ shrunk' = TRUE /\ ~shrunk /\ lost' = lost /\ rc' = rc /\ body' = body
  BY DEF FileShrinks, Unchanged, conn, client, server
<1>2. PICK f \in Files : Content[f] # <<>> /\ disk' = [disk EXCEPT ![f] = Front(@)]
  BY DEF FileShrinks
<1>3. disk' \in [Files -> Seq(Bytes)]
  <2>1. disk \in [Files -> Seq(Bytes)] /\ disk[f] \in Seq(Bytes) /\ disk[f] # <<>>
    BY <1>1, <1>2 DEF IInv, Types, Serves
  <2>2. Front(disk[f]) \in Seq(Bytes)
    <3>1. PICK w : w = disk[f]
      OBVIOUS
    <3>2. w \in Seq(Bytes) /\ Len(w) \in Nat /\ \A i \in 1..Len(w) : w[i] \in Bytes
      BY <2>1, <3>1, LenProperties, ElementOfSeq
    <3>3. \A i \in 1..Len(w) - 1 : w[i] \in Bytes
      BY <3>2
    <3>4. SubSeq(w, 1, Len(w) - 1) \in Seq(Bytes)
      BY <3>2, <3>3, SubSeqProperties
    <3> QED BY <3>1, <3>4 DEF Front
  <2> QED BY <1>2, <2>1, <2>2
<1>4. RequestInv'
  BY <1>1, RequestKept DEF IInv
<1>5. ReplyInv'
  BY <1>1, ReplyKept DEF IInv, Replying
<1>6. Types' /\ Stages' /\ Asks' /\ Serves' /\ Overruns'
  BY <1>1, <1>3 DEF IInv, Types, Stages, Asks, Serves, Answers, Overruns, Refusable, Refusal, MayEnd
<1> QED BY <1>4, <1>5, <1>6 DEF IInv

\* A file goes.
LEMMA GoesStep ==
  ASSUME IInv, FileGoes
  PROVE  IInv'
<1>1. /\ wire' = wire /\ open' = open /\ rio' = rio /\ line' = line /\ left' = left
      /\ pc' = pc /\ ask' = ask /\ got' = got /\ fileset' = fileset /\ uri' = uri
      /\ size' = size /\ file_buf' = file_buf /\ overrun' = overrun /\ died' = died
      /\ shrunk' = shrunk /\ disk' = disk /\ rc' = rc /\ body' = body
  BY DEF FileGoes, conn, client, server
<1>2. lost = {} /\ lost' \subseteq Files
  BY DEF FileGoes, Unchanged
<1>3. (Refusable => Refusable') /\ (MayEnd => MayEnd') /\ Refusal' = Refusal
  BY <1>1, <1>2 DEF Refusable, MayEnd, Refusal
<1>4. RequestInv'
  BY <1>1, RequestKept DEF IInv
<1>5. ReplyInv'
  BY <1>1, ReplyKept DEF IInv, Replying
<1>6. Types' /\ Stages' /\ Asks' /\ Overruns'
  BY <1>1, <1>2, <1>3 DEF IInv, Types, Stages, Asks, Overruns
<1>7. Serves'
  <2>1. Answers => Answers'
    BY <1>1, <1>2, <1>3 DEF Answers
  <2> QED BY <1>1, <2>1 DEF IInv, Serves
<1> QED BY <1>4, <1>5, <1>6, <1>7 DEF IInv

\* How long what is on its way may be.
LEMMA FlowLens ==
  ASSUME NEW P, NEW n, Holds(P, n), NEW a \in 0..n,
         NEW ln, NEW ri, NEW wi, NEW le, Flow(P, a, n, ln, ri, wi, le)
  PROVE  Len(wi) \in Nat /\ Len(le) \in Nat
<1>1. PICK b, c, d \in 0..n :
            c <= d /\ IsPiece(wi, P, c, d) /\ IsPiece(le, P, d, n)
  BY FlowPlaces
<1>2. n \in Nat
  BY LenProperties DEF Holds
<1> QED BY <1>1, <1>2 DEF IsPiece

\* What is on its way to the worker, and to a client that is there.
LEMMA LensNat ==
  ASSUME IInv
  PROVE  /\ Len(wire["server"]) \in Nat /\ Len(left["client"]) \in Nat
         /\ "client" \in open => Len(wire["client"]) \in Nat /\ Len(left["server"]) \in Nat
<1>1. Len(wire["server"]) \in Nat /\ Len(left["client"]) \in Nat
  BY RequestFlows, FlowLens DEF Sent
<1>2. ASSUME "client" \in open
      PROVE  Len(wire["client"]) \in Nat /\ Len(left["server"]) \in Nat
  <2>1. PICK a \in 0..Made : ReplyAt(a)
    BY <1>2 DEF IInv, ReplyInv
  <2>2. Holds(Reply, Made)
    BY ReplyIs DEF IInv
  <2> QED BY <2>1, <2>2, FlowLens DEF ReplyAt
<1> QED BY <1>1, <1>2

\* rio_write.
LEMMA WriteStep ==
  ASSUME IInv, NEW p \in Ends, Write(p)
  PROVE  IInv'
<1>1. left[p] # <<>> /\ p \in {"client", "server"}
  BY DEF Write, Ends
<1>2. CASE Interrupted(p)
  BY <1>2, InterruptedStep
<1>3. CASE /\ Peer(p) \in open
           /\ \E n \in 1..Min({Len(left[p]), Wire - Len(wire[Peer(p)])}) :
                /\ wire' = [wire EXCEPT ![Peer(p)] = @ \o SubSeq(left[p], 1, n)]
                /\ left' = [left EXCEPT ![p] = Rest(@, n)]
           /\ UNCHANGED <<open, rio, line, pc, client, server, faults>>
  <2>1. PICK n \in 1..Min({Len(left[p]), Wire - Len(wire[Peer(p)])}) :
                /\ wire' = [wire EXCEPT ![Peer(p)] = @ \o SubSeq(left[p], 1, n)]
                /\ left' = [left EXCEPT ![p] = Rest(@, n)]
    BY <1>3
  <2>2. PICK x, y, m : x = Len(left[p]) /\ y = Wire - Len(wire[Peer(p)]) /\ m = Min({x, y})
    OBVIOUS
  <2>3. x \in Nat /\ y \in Int
    <3>1. Len(left[p]) \in Nat /\ Len(wire[Peer(p)]) \in Nat
      BY <1>1, <1>3, LensNat DEF Peer
    <3>2. Wire \in Nat
      BY WebAssumption
    <3> QED BY <2>2, <3>1, <3>2
  <2>4. m \in Int /\ m <= x /\ n \in 1..m
    <3>1. m \in {x, y} /\ m <= x
      <4>1. m = Min({x, y}) /\ x \in Int /\ y \in Int
        BY <2>2, <2>3
      <4>2. Min({x, y}) \in {x, y} /\ Min({x, y}) <= x
        BY <4>1, MinOfTwo
      <4> QED BY <4>1, <4>2, Zenon
    <3>2. m = Min({Len(left[p]), Wire - Len(wire[Peer(p)])})
      BY <2>2, Zenon
    <3> QED BY <2>1, <2>3, <3>1, <3>2
  <2>5. n \in 1..Len(left[p])
    BY <2>2, <2>3, <2>4
  <2>6. CASE p = "server"
    <3>1. Peer(p) = "client"
      BY <2>6 DEF Peer
    <3> QED BY <1>1, <1>3, <2>1, <2>5, <2>6, <3>1, ServerWrites
  <2>7. CASE p = "client"
    <3>1. Peer(p) = "server"
      BY <2>7 DEF Peer
    <3> QED BY <1>1, <1>3, <2>1, <2>5, <2>7, <3>1, ClientWrites
  <2> QED BY <1>1, <2>6, <2>7
<1>4. CASE /\ Peer(p) \notin open
           /\ left' = [left EXCEPT ![p] = <<>>]
           /\ UNCHANGED <<wire, open, rio, line, pc, client, server, faults>>
  <2>1. CASE p = "server"
    BY <1>4, <2>1, ServerLoses DEF Peer
  <2>2. CASE p = "client"
    BY <1>1, <1>4, <2>2, ClientLoses DEF Peer
  <2> QED BY <1>1, <2>1, <2>2
<1>5. CASE Peer(p) \notin open /\ Exit(p)
  <2>1. CASE p = "server"
    <3>1. pc["server"] \notin {"idle", "exited"}
      BY <1>1, <2>1 DEF IInv, Stages
    <3> QED BY <1>5, <2>1, <3>1, ServerExits DEF Peer
  <2>2. CASE p = "client"
    <3>1. pc["client"] = "send"
      BY <1>1, <2>2 DEF IInv, Stages
    <3> QED BY <1>1, <1>5, <2>2, <3>1, ClientExits DEF Peer
  <2> QED BY <1>1, <2>1, <2>2
<1> QED BY <1>2, <1>3, <1>4, <1>5 DEF Write

\* rio_readb.
LEMMA RefillStep ==
  ASSUME IInv, NEW p \in Ends, Refill(p)
  PROVE  IInv'
<1>1. /\ rio[p] = <<>> /\ p \in {"client", "server"}
      /\ p = "client" => pc["client"] \in {"head", "body"} /\ "client" \in open
      /\ p = "server" => pc["server"] \notin {"idle", "exited"}
  BY DEF Refill, Reading, Ends, IInv, Types, Stages, ClientPCs
<1>2. CASE Interrupted(p)
  BY <1>2, InterruptedStep
<1>3. CASE /\ wire[p] # <<>>
           /\ \E n \in 1..Min({RioBuf, Len(wire[p])}) :
                /\ rio' = [rio EXCEPT ![p] = SubSeq(wire[p], 1, n)]
                /\ wire' = [wire EXCEPT ![p] = Rest(@, n)]
           /\ UNCHANGED <<open, line, left, pc, client, server, faults>>
  <2>1. PICK n \in 1..Min({RioBuf, Len(wire[p])}) :
                /\ rio' = [rio EXCEPT ![p] = SubSeq(wire[p], 1, n)]
                /\ wire' = [wire EXCEPT ![p] = Rest(@, n)]
    BY <1>3
  <2>2. PICK x, y, m : x = RioBuf /\ y = Len(wire[p]) /\ m = Min({x, y})
    OBVIOUS
  <2>3. x \in Nat /\ y \in Nat
    BY <1>1, <2>2, LensNat, WebAssumption
  <2>4. m \in Int /\ m <= y /\ n \in 1..m
    <3>1. m \in {x, y} /\ m <= y
      <4>1. m = Min({x, y}) /\ x \in Int /\ y \in Int
        BY <2>2, <2>3
      <4>2. Min({x, y}) \in {x, y} /\ Min({x, y}) <= y
        BY <4>1, MinOfTwo
      <4> QED BY <4>1, <4>2, Zenon
    <3>2. m = Min({RioBuf, Len(wire[p])})
      BY <2>2, Zenon
    <3> QED BY <2>1, <2>3, <3>1, <3>2
  <2>5. n \in 1..Len(wire[p])
    BY <2>2, <2>3, <2>4
  <2>6. CASE p = "server"
    BY <1>1, <1>3, <2>1, <2>5, <2>6, ServerRefills
  <2>7. CASE p = "client"
    BY <1>1, <1>3, <2>1, <2>5, <2>7, ClientRefills
  <2> QED BY <1>1, <2>6, <2>7
<1>4. CASE Reset(p) /\ Exit(p)
  <2>1. CASE p = "server"
    BY <1>1, <1>4, <2>1, ServerExits DEF Reset, Peer
  <2>2. CASE p = "client"
    BY <1>1, <1>4, <2>2, ClientExits DEF Reset, Peer
  <2> QED BY <1>1, <2>1, <2>2
<1> QED BY <1>2, <1>3, <1>4 DEF Refill

\* The rio functions.
LEMMA IoStep ==
  ASSUME IInv, NEW p \in Ends, Io(p)
  PROVE  IInv'
<1>1. CASE Write(p)
  BY <1>1, WriteStep
<1>2. CASE Refill(p)
  BY <1>2, RefillStep
<1>3. CASE TakeChars(p)
  <2>1. CASE p = "server"
    BY <1>3, <2>1, ServerTakes
  <2>2. CASE p = "client"
    BY <1>3, <2>2, ClientTakes
  <2> QED BY <2>1, <2>2 DEF Ends
<1> QED BY <1>1, <1>2, <1>3 DEF Io

\* The invariant holds before the first request.
LEMMA InitHolds ==
  ASSUME Init
  PROVE  IInv
<1>1. /\ ForEnds(wire) /\ ForEnds(rio) /\ ForEnds(line) /\ ForEnds(left)
      /\ wire["server"] = <<>> /\ rio["server"] = <<>> /\ line["server"] = <<>>
      /\ left["client"] = <<>> /\ left["server"] = <<>>
  BY DEF Init, ForEnds, Ends
<1>2. ForEnds(pc) /\ pc["client"] = "start" /\ pc["server"] = "idle"
  BY DEF Init, ForEnds, Ends
<1>3. Min(Names) \in Names
  BY FirstName
<1>4. Types
  <2>1. /\ pc["server"] \in ServerPCs /\ pc["client"] \in ClientPCs /\ open \subseteq Ends
        /\ overrun \in BOOLEAN /\ died \in BOOLEAN /\ shrunk \in BOOLEAN
    BY <1>2 DEF Init, ServerPCs, ClientPCs
  <2>2. ask \in [checked : BOOLEAN, method : Methods, file : Names] /\ uri \in Names
    BY <1>3 DEF Init, Methods
  <2>3. disk \in [Files -> Seq(Bytes)] /\ size \in Nat /\ file_buf \in Seq(Bytes)
        /\ body \in Seq(Bytes) /\ rc \in {-1, 0, 1} /\ lost \subseteq Files
    BY WebAssumption DEF Init
  <2> QED BY <1>1, <1>2, <2>1, <2>2, <2>3 DEF Types
<1>5. RequestInv
  <2>1. Flow(Request(ask.method, ask.file), 6, 6, <<>>, <<>>, <<>>, <<>>)
    BY RequestHolds, NoFlow
  <2>2. RequestAt(6, 6)
    BY <1>1, <1>2, <2>1 DEF RequestAt, ServerAt
  <2> QED BY <2>2 DEF RequestInv
<1>6. ReplyInv
  BY DEF Init, ReplyInv
<1>7. Stages /\ Asks /\ Serves /\ Overruns
  BY <1>1, <1>2 DEF Init, Stages, Asks, Serves, Overruns
<1> QED BY <1>4, <1>5, <1>6, <1>7 DEF IInv

\* Every step keeps the invariant.
LEMMA InductiveStep ==
  ASSUME IInv, [Next]_vars
  PROVE  IInv'
<1>1. CASE Server
  <2>1. CASE Io("server")
    BY <2>1, IoStep DEF Ends
  <2> QED BY <1>1, <2>1, InitStep, HeadersStep, StatStep, ReadStep, SendStep, DestroyStep, SmashedStep
      DEF Server
<1>2. CASE Answer
  <2>1. CASE Io("client")
    BY <2>1, IoStep DEF Ends
  <2> QED BY <1>2, <2>1, SentStep, HeadStep, BodyStep, CheckStep DEF Answer
<1>3. CASE Ask
  BY <1>3, FilesetStep, AskStep DEF Ask
<1>4. CASE ClientDies \/ FileShrinks \/ FileGoes
  BY <1>4, DiesStep, ShrinkStep, GoesStep
<1>5. CASE Spin \/ UNCHANGED vars
  BY <1>5, SameStep DEF Spin, vars, conn, client, server, faults
<1> QED BY <1>1, <1>2, <1>3, <1>4, <1>5 DEF Next

\* In every reachable state the request and the answer are in order, in
\* their places between the two ends.
THEOREM WebInvariance == Spec => []IInv
<1>1. Init => IInv
  BY InitHolds
<1>2. IInv /\ [Next]_vars => IInv'
  BY InductiveStep
<1> QED BY <1>1, <1>2, PTL DEF Spec

\* However reads and writes are cut up and interrupted: an answer that
\* client_print has read to its end has the length and the checksum that were
\* announced, a file that did not shrink or go arrives unchanged and passes the
\* assertions, and what is refused brings the page of the error, if that fits
\* into the buffer it is made in.
THEOREM AnswersSafe == Spec => []AnswersExact
<1>1. IInv => AnswersExact
  BY WholeAnswer DEF AnswersExact
<1> QED BY <1>1, WebInvariance, PTL

\* The server ends only if a client went away, a file cannot be opened or an
\* error page does not fit, and spins only if a client went away; client.c gives
\* up only if a file shrank or went, or with such a page; no GET ends in an
\* error of the connection, and nothing else overruns a buffer but long lines
\* of files.
THEOREM HangupsSafe == Spec => []OnlyHangupsHurt
<1>1. IInv => OnlyHangupsHurt
  BY DEF IInv, Stages, Asks, Overruns, OnlyHangupsHurt
<1> QED BY <1>1, WebInvariance, PTL

=============================================================================
