--------------------------- MODULE TestfsDirProofs ---------------------------
(***************************************************************************)
(* Proof that the names of testfs survive a crash at any write: what is on *)
(* disk is the name space before or after the command that was cut short,  *)
(* or what both have in common with one entry that lies across two blocks  *)
(* and of which one half is written; for every number of inodes, blocks,   *)
(* names and crashes, and every length of a name.                          *)
(***************************************************************************)
EXTENDS TestfsDir, ListLemmas

-----------------------------------------------------------------------------
(* Images.  Of the disk only the inode map m, the inodes d and the entries *)
(* e matter here.                                                          *)

Ent == [name : Names \cup {Dot, DotDot}, nr : Inodes \cup {Gone, Mixed}]

\* The entries that lookups can find: directory, place, name, inode.
Visible(d, e) ==
    {v \in Inodes \X Nat \X (Names \cup {Dot, DotDot}) \X Inodes :
        /\ d[v[1]].type = "dir" /\ v[2] \in 1..d[v[1]].n
        /\ e[v[1]][v[2]] = Entry(v[3], v[4])}

User(V)       == {v \in V : v[3] \in Names}
NamesOf(V)    == {<<v[1], v[3], v[4]>> : v \in User(V)}
\* The root, and what some name leads to.
Reached(V, i) == i = Root \/ \E u \in User(V) : u[4] = i
\* Directory i is named in directory j.
Under(V, i, j) == (i = Root /\ j = Root) \/ \E u \in User(V) : u[1] = j /\ u[4] = i

\* What a crash must never break: every name leads to a marked inode, no two
\* lead to the same, none to its own directory or the root; names stand in
\* directories that have a name; these name themselves and their parent.
Sound(m, V) ==
    /\ Root \in m
    /\ \A v \in User(V) : v[4] \in m /\ v[4] # Root /\ v[4] # v[1] /\ Reached(V, v[1])
    /\ \A u, v \in User(V) : u[4] = v[4] => u = v
    /\ \A v \in V : Reached(V, v[1]) => /\ v[3] = Dot => v[4] = v[1]
                                        /\ v[3] = DotDot => Under(V, v[1], v[4])

Good(m, d, e) ==
    /\ d \in [Inodes -> Dinode] /\ e \in [Inodes -> Seq(Ent)]
    /\ \A i \in Inodes : d[i].n <= Len(e[i])
    /\ d[Root].type = "dir"
    /\ Sound(m, Visible(d, e))

\* No entry is half another one.
Clean(d, e) == \A i \in Inodes : \A k \in 1..d[i].n : e[i][k].nr # Mixed

\* Entry k of directory i, for name nm, is, and it lies across two blocks.
TornAt(d, e, i, k, nm) ==
    /\ d[i].type = "dir" /\ k \in 1..d[i].n
    /\ e[i][k] = Entry(nm, Mixed) /\ Across(e[i], k, nm)
    /\ \A h \in Inodes : \A j \in 1..d[h].n : e[h][j].nr = Mixed => h = i /\ j = k

\* One entry is, of a name that is in one of B and A.  The others are those
\* that B and A have in common.
Halved(d, e, B, A) ==
    /\ NamesOf(Visible(d, e)) = B \cap A
    /\ \E t \in (B \cup A) \ (B \cap A) :
          /\ t[1] \in Inodes /\ t[2] \in Names
          /\ \E k : TornAt(d, e, t[1], k, t[2])

\* An entry list with entry v at place k.
SlotWritten(s, k, v) == SubSeq(s, 1, k - 1) \o <<v>> \o SubSeq(s, k + 1, Len(s))

\* What a write does to an image c = <<m, d, e>>.
Apply(c, w) ==
    CASE w.at = "imap"   -> <<w.v, c[2], c[3]>>
      [] w.at = "slot"   -> <<c[1], c[2], [c[3] EXCEPT ![w.i] = SlotWritten(@, w.k, w.v)]>>
      [] w.at = "dinode" -> <<c[1], [c[2] EXCEPT ![w.i] = w.v],
                              [c[3] EXCEPT ![w.i] = SubSeq(@, 1, w.v.n)]>>
      [] OTHER           -> c

Shows(d, e, B, A) ==
    (Clean(d, e) /\ NamesOf(Visible(d, e)) \in {B, A}) \/ Halved(d, e, B, A)
Fine(c, B, A) == Good(c[1], c[2], c[3]) /\ Shows(c[2], c[3], B, A)

\* The writes of log lead from image c to image z, over images that are sound
\* and show the names B or A, or what lies between them.
Scalars == {"bmap", "super", "zero", "index", "abort"}
Kinds == Scalars \cup {"imap", "slot", "dinode"}
Trace(log, c, z, B, A, r) ==
    /\ \A j \in 1..Len(log) : log[j].at \in Kinds
    /\ r[0] = c /\ r[Len(log)] = z
    /\ \A j \in 0..Len(log) : Fine(r[j], B, A)
    /\ \A j \in 1..Len(log) : r[j] = Apply(r[j - 1], log[j])
Leads(log, c, z, B, A) == (\E S : log \in Seq(S)) /\ \E r : Trace(log, c, z, B, A, r)

Image(d) == <<d.imap, d.dinode, d.ents>>

IsDisk(d) == d = [imap |-> d.imap, icount |-> d.icount, bits |-> d.bits, used |-> d.used,
                  dinode |-> d.dinode, index |-> d.index, ents |-> d.ents]
IsSuper(s) == s = [imap |-> s.imap, icount |-> s.icount, bits |-> s.bits, used |-> s.used,
                   log |-> s.log]
InCore == [count : Nat, dirty : BOOLEAN, node : Dinode]

\* The references of the process, its inodes and its directory, against the
\* image that the disk will have.
Process(z) ==
    /\ \A i \in Inodes : core[i].count = lost[i] + IF i = cwd THEN 1 ELSE 0
    /\ \A i \in Inodes : core[i].count > 0 => core[i].node = z[2][i]
    /\ cwd \in Inodes /\ z[2][cwd].type = "dir" /\ Reached(Visible(z[2], z[3]), cwd)

Running ==
    \E z : /\ Leads(sb.log, Image(disk), z, before, after) /\ Clean(z[2], z[3])
           /\ sb.imap = z[1] /\ NamesOf(Visible(z[2], z[3])) = after
           /\ Process(z)

Resting ==
    /\ Fine(Image(disk), before, after) /\ sb.log = <<>>
    /\ lost = [i \in Inodes |-> 0]

IInv ==
    \/ mode = "damaged"
    \/ /\ mode \in {"run", "down", "aborted"}
       /\ IsDisk(disk) /\ IsSuper(sb)
       /\ core \in [Inodes -> InCore] /\ lost \in [Inodes -> Nat]
       /\ IF mode = "run" THEN Running ELSE Resting

-----------------------------------------------------------------------------
(* Sound sets of entries.                                                  *)

\* A user's name is not "." and not "..".
LEMMA NotDots == \A nm \in Names : nm # Dot /\ nm # DotDot
BY SizeAssumption

\* Marking more inodes.
LEMMA MarkSound ==
  ASSUME NEW m, NEW V, Sound(m, V), NEW p, m \subseteq p
  PROVE  Sound(p, V)
BY DEF Sound

\* Unmarking one that no name leads to.
LEMMA UnmarkSound ==
  ASSUME NEW m, NEW V, Sound(m, V), NEW t, t # Root, \A u \in User(V) : u[4] # t
  PROVE  Sound(m \ {t}, V)
BY DEF Sound

\* A name for an inode that had none and has no entries.
LEMMA AddSound ==
  ASSUME NEW m, NEW V, Sound(m, V), NEW i, NEW k, NEW nm \in Names, NEW f \in m,
         f # Root, f # i, Reached(V, i),
         \A u \in User(V) : u[4] # f, \A v \in V : v[1] # f,
         NEW W, W = V \cup {<<i, k, nm, f>>}
  PROVE  /\ Sound(m, W)
         /\ User(W) = User(V) \cup {<<i, k, nm, f>>}
         /\ NamesOf(W) = NamesOf(V) \cup {<<i, nm, f>>}
<1>1. PICK x : x = <<i, k, nm, f>>
  OBVIOUS
<1>2. x[1] = i /\ x[3] = nm /\ x[4] = f /\ nm # Dot /\ nm # DotDot
  BY <1>1, NotDots
<1>3. W = V \cup {x}
  BY <1>1
<1>4. User(W) = User(V) \cup {x}
  BY <1>2, <1>3 DEF User
<1>5. NamesOf(W) = NamesOf(V) \cup {<<i, nm, f>>}
  BY <1>2, <1>4 DEF NamesOf
<1>6. \A j : Reached(V, j) => Reached(W, j)
  BY <1>4 DEF Reached
<1>7. \A j, h : Under(V, j, h) => Under(W, j, h)
  BY <1>4 DEF Under
<1>8. \A j : Reached(W, j) /\ j # f => Reached(V, j)
  BY <1>2, <1>4 DEF Reached
<1>9. Root \in m
  BY DEF Sound
<1>10. ASSUME NEW v \in User(W)
       PROVE  v[4] \in m /\ v[4] # Root /\ v[4] # v[1] /\ Reached(W, v[1])
  <2>1. CASE v = x
    BY <1>2, <1>6, <2>1
  <2>2. CASE v \in User(V)
    BY <1>6, <2>2 DEF Sound
  <2> QED BY <1>4, <2>1, <2>2
<1>11. ASSUME NEW u \in User(W), NEW v \in User(W), u[4] = v[4] PROVE u = v
  <2>1. CASE u \in User(V) /\ v \in User(V)
    BY <1>11, <2>1 DEF Sound
  <2>2. CASE u = x \/ v = x
    BY <1>2, <1>4, <1>11, <2>2
  <2> QED BY <1>4, <2>1, <2>2
<1>12. ASSUME NEW v \in W, Reached(W, v[1])
       PROVE  (v[3] = Dot => v[4] = v[1]) /\ (v[3] = DotDot => Under(W, v[1], v[4]))
  <2>1. CASE v = x
    BY <1>2, <2>1
  <2>2. CASE v \in V
    <3>1. Reached(V, v[1])
      BY <1>8, <1>12, <2>2
    <3> QED BY <1>7, <2>2, <3>1 DEF Sound
  <2> QED BY <1>3, <2>1, <2>2
<1> QED BY <1>1, <1>4, <1>5, <1>9, <1>10, <1>11, <1>12 DEF Sound

\* A name less, of an inode that has no names in it.
LEMMA RemoveSound ==
  ASSUME NEW m, NEW V, Sound(m, V), NEW x \in User(V), \A v \in User(V) : v[1] # x[4],
         NEW W, W = V \ {x}
  PROVE  /\ Sound(m, W) /\ User(W) = User(V) \ {x}
         /\ NamesOf(W) = NamesOf(V) \ {<<x[1], x[3], x[4]>>}
         /\ \A u \in User(W) : u[4] # x[4]
<1>1. User(W) = User(V) \ {x}
  BY DEF User
<1>2. \A u \in User(W) : u[4] # x[4]
  BY <1>1 DEF Sound
<1>3. NamesOf(W) = NamesOf(V) \ {<<x[1], x[3], x[4]>>}
  <2>1. ASSUME NEW y \in NamesOf(W) PROVE y \in NamesOf(V) /\ y # <<x[1], x[3], x[4]>>
    <3>1. PICK u \in User(W) : y = <<u[1], u[3], u[4]>>
      BY DEF NamesOf
    <3>2. u \in User(V) /\ u[4] # x[4]
      BY <1>1, <1>2
    <3> QED BY <3>1, <3>2 DEF NamesOf
  <2>2. ASSUME NEW y \in NamesOf(V), y # <<x[1], x[3], x[4]>> PROVE y \in NamesOf(W)
    <3>1. PICK u \in User(V) : y = <<u[1], u[3], u[4]>>
      BY DEF NamesOf
    <3>2. u # x
      BY <2>2, <3>1
    <3> QED BY <1>1, <3>1, <3>2 DEF NamesOf
  <2> QED BY <2>1, <2>2
<1>4. \A j : Reached(W, j) => Reached(V, j) /\ j # x[4]
  <2>1. x[4] # Root
    BY DEF Sound
  <2> QED BY <1>1, <1>2, <2>1 DEF Reached
<1>5. \A j : Reached(V, j) /\ j # x[4] => Reached(W, j)
  BY <1>1 DEF Reached
<1>6. Root \in m
  BY DEF Sound
<1>7. ASSUME NEW v \in User(W)
      PROVE  v[4] \in m /\ v[4] # Root /\ v[4] # v[1] /\ Reached(W, v[1])
  BY <1>1, <1>5 DEF Sound
<1>8. \A u, v \in User(W) : u[4] = v[4] => u = v
  BY <1>1 DEF Sound
<1>9. ASSUME NEW v \in W, Reached(W, v[1])
      PROVE  (v[3] = Dot => v[4] = v[1]) /\ (v[3] = DotDot => Under(W, v[1], v[4]))
  <2>1. v \in V /\ Reached(V, v[1]) /\ v[1] # x[4]
    BY <1>4, <1>9
  <2>2. (v[3] = Dot => v[4] = v[1]) /\ (v[3] = DotDot => Under(V, v[1], v[4]))
    BY <2>1 DEF Sound
  <2>3. Under(V, v[1], v[4]) => Under(W, v[1], v[4])
    BY <1>1, <2>1 DEF Under
  <2> QED BY <2>2, <2>3
<1> QED BY <1>1, <1>2, <1>3, <1>6, <1>7, <1>8, <1>9 DEF Sound

\* The entries of a new directory f that i names.
LEMMA DirSound ==
  ASSUME NEW m, NEW V, Sound(m, V), NEW i, NEW f, \E u \in User(V) : u[1] = i /\ u[4] = f,
         NEW W, W = V \cup {<<f, 1, Dot, f>>, <<f, 2, DotDot, i>>}
  PROVE  Sound(m, W) /\ User(W) = User(V) /\ NamesOf(W) = NamesOf(V)
<1>1. PICK x, y : x = <<f, 1, Dot, f>> /\ y = <<f, 2, DotDot, i>>
  OBVIOUS
<1>2. /\ x[1] = f /\ x[3] = Dot /\ x[4] = f /\ y[1] = f /\ y[3] = DotDot /\ y[4] = i
      /\ Dot # DotDot /\ Dot \notin Names /\ DotDot \notin Names
  BY <1>1, NotDots DEF Dot, DotDot
<1>3. W = V \cup {x, y}
  BY <1>1
<1>4. User(W) = User(V)
  BY <1>2, <1>3 DEF User
<1>5. /\ \A j : Reached(W, j) <=> Reached(V, j)
      /\ \A j, h : Under(W, j, h) <=> Under(V, j, h)
  BY <1>4 DEF Reached, Under
<1>6. Under(V, f, i)
  BY DEF Under
<1>7. ASSUME NEW v \in W, Reached(W, v[1])
      PROVE  (v[3] = Dot => v[4] = v[1]) /\ (v[3] = DotDot => Under(W, v[1], v[4]))
  <2>1. CASE v = x
    BY <1>2, <2>1
  <2>2. CASE v = y
    BY <1>2, <1>5, <1>6, <2>2
  <2>3. CASE v \in V
    BY <1>5, <1>7, <2>3 DEF Sound
  <2> QED BY <1>3, <2>1, <2>2, <2>3
<1>8. Root \in m /\ \A u, v \in User(W) : u[4] = v[4] => u = v
  BY <1>4 DEF Sound
<1>9. \A v \in User(W) : v[4] \in m /\ v[4] # Root /\ v[4] # v[1] /\ Reached(W, v[1])
  BY <1>4, <1>5 DEF Sound
<1> QED BY <1>4, <1>7, <1>8, <1>9 DEF Sound, NamesOf

\* Without the entries of an inode in which there are no names.
LEMMA ClearSound ==
  ASSUME NEW m, NEW V, Sound(m, V), NEW t, \A v \in User(V) : v[1] # t,
         NEW W, W = {v \in V : v[1] # t}
  PROVE  Sound(m, W) /\ User(W) = User(V) /\ NamesOf(W) = NamesOf(V)
<1>1. User(W) = User(V)
  BY DEF User
<1>2. /\ \A j : Reached(W, j) <=> Reached(V, j)
      /\ \A j, h : Under(W, j, h) <=> Under(V, j, h)
  BY <1>1 DEF Reached, Under
<1>3. \A v \in W : Reached(W, v[1]) => /\ v[3] = Dot => v[4] = v[1]
                                       /\ v[3] = DotDot => Under(W, v[1], v[4])
  BY <1>2 DEF Sound
<1>4. Root \in m /\ \A u, v \in User(W) : u[4] = v[4] => u = v
  BY <1>1 DEF Sound
<1>5. \A v \in User(W) : v[4] \in m /\ v[4] # Root /\ v[4] # v[1] /\ Reached(W, v[1])
  BY <1>1, <1>2 DEF Sound
<1> QED BY <1>1, <1>3, <1>4, <1>5 DEF Sound, NamesOf

-----------------------------------------------------------------------------
(* What the writes do to the entries that can be seen.                     *)

\* Where an entry lies depends on those before it.
LEMMA AcrossSame ==
  ASSUME NEW s \in Seq(Ent), NEW t \in Seq(Ent), NEW k \in Nat \ {0}, k - 1 <= Len(s),
         k - 1 <= Len(t), \A j \in 1..k - 1 : s[j] = t[j], NEW nm
  PROVE  Across(s, k, nm) <=> Across(t, k, nm)
<1>1. PICK n \in Nat : n = k - 1
  OBVIOUS
<1>2. PICK a, b : a = SubSeq(s, 1, n) /\ b = SubSeq(t, 1, n)
  OBVIOUS
<1>3. /\ a \in Seq(Ent) /\ Len(a) = n /\ \A j \in 1..n : a[j] = s[j]
      /\ b \in Seq(Ent) /\ Len(b) = n /\ \A j \in 1..n : b[j] = t[j]
  BY <1>1, <1>2, SubSeqProperties
<1>4. a = b
  BY <1>1, <1>3, SeqEqual
<1>5. SubSeq(s, 1, k - 1) = SubSeq(t, 1, k - 1)
  BY <1>1, <1>2, <1>4
<1> QED BY <1>5 DEF Across, Cut

\* What the entry list t is then.
SlotIs(s, k, v, t) ==
    /\ t \in Seq(Ent) /\ Len(t) = (IF k <= Len(s) THEN Len(s) ELSE k) /\ t[k] = v
    /\ \A j \in 1..Len(s) : j # k => t[j] = s[j]

\* Writing the entry at place k, the one after the last included.
LEMMA SlotProperties ==
  ASSUME NEW s \in Seq(Ent), NEW k \in 1..Len(s) + 1, NEW v \in Ent
  PROVE  SlotIs(s, k, v, SlotWritten(s, k, v))
<1>1. PICK l : l = Len(s) /\ l \in Nat
  OBVIOUS
<1>2. PICK a : a = SubSeq(s, 1, k - 1)
  OBVIOUS
<1>3. a \in Seq(Ent) /\ Len(a) = k - 1 /\ \A j \in 1..k - 1 : a[j] = s[j]
  BY <1>1, <1>2, SubSeqProperties
<1>4. PICK b : b = SubSeq(s, k + 1, l)
  OBVIOUS
<1>5. /\ b \in Seq(Ent) /\ Len(b) = IF k + 1 <= l THEN l - k ELSE 0
      /\ \A j \in 1..Len(b) : b[j] = s[k + j]
  BY <1>1, <1>4, SubSeqProperties
<1>6. PICK c : c = a \o <<v>>
  OBVIOUS
<1>7. c \in Seq(Ent) /\ Len(c) = k /\ c[k] = v /\ \A j \in 1..k - 1 : c[j] = s[j]
  BY <1>3, <1>6
<1>8. PICK t : t = c \o b
  OBVIOUS
<1>9. /\ t \in Seq(Ent) /\ Len(t) = k + Len(b) /\ \A j \in 1..k : t[j] = c[j]
      /\ \A j \in k + 1..k + Len(b) : t[j] = b[j - k]
  <2>1. /\ t \in Seq(Ent) /\ Len(t) = Len(c) + Len(b)
        /\ \A j \in 1..Len(c) + Len(b) :
              t[j] = IF j <= Len(c) THEN c[j] ELSE b[j - Len(c)]
    BY <1>5, <1>7, <1>8, ConcatProperties
  <2>2. Len(b) \in Nat /\ Len(c) = k /\ k \in Nat
    BY <1>5, <1>7
  <2> QED BY <2>1, <2>2
<1>10. t[k] = v /\ Len(t) = IF k <= l THEN l ELSE k
  BY <1>1, <1>5, <1>7, <1>9
<1>11. ASSUME NEW j \in 1..l, j # k PROVE t[j] = s[j]
  <2>1. CASE j < k
    BY <1>7, <1>9, <2>1
  <2>2. CASE j > k
    <3>1. j \in k + 1..k + Len(b) /\ j - k \in 1..Len(b) /\ k + (j - k) = j
      BY <1>1, <1>5, <2>2
    <3> QED BY <1>5, <1>9, <3>1
  <2> QED BY <1>1, <1>11, <2>1, <2>2
<1>12. t = SlotWritten(s, k, v)
  BY <1>1, <1>2, <1>4, <1>6, <1>8 DEF SlotWritten
<1> QED BY <1>1, <1>9, <1>10, <1>11, <1>12 DEF SlotIs

\* Writing an entry twice is writing it once, and writing what is there is
\* writing nothing.
LEMMA SlotTwice ==
  ASSUME NEW s \in Seq(Ent), NEW k \in 1..Len(s) + 1, NEW u \in Ent, NEW v \in Ent
  PROVE  /\ SlotWritten(SlotWritten(s, k, u), k, v) = SlotWritten(s, k, v)
         /\ k <= Len(s) => SlotWritten(s, k, s[k]) = s
<1>1. PICK l \in Nat : l = Len(s)
  OBVIOUS
<1>2. PICK a : a = SlotWritten(s, k, u)
  OBVIOUS
<1>3. PICK b : b = SlotWritten(s, k, v)
  OBVIOUS
<1>4. PICK n \in Nat : n = IF k <= l THEN l ELSE k
  BY <1>1
<1>5. /\ a \in Seq(Ent) /\ Len(a) = n /\ k \in 1..n
      /\ \A j \in 1..l : j # k => a[j] = s[j]
  <2>1. SlotIs(s, k, u, a)
    BY <1>2, SlotProperties
  <2> QED BY <1>1, <1>4, <2>1 DEF SlotIs
<1>6. /\ b \in Seq(Ent) /\ Len(b) = n /\ b[k] = v
      /\ \A j \in 1..l : j # k => b[j] = s[j]
  <2>1. SlotIs(s, k, v, b)
    BY <1>3, SlotProperties
  <2> QED BY <1>1, <1>4, <2>1 DEF SlotIs
<1>7. PICK c : c = SlotWritten(a, k, v)
  OBVIOUS
<1>8. /\ c \in Seq(Ent) /\ Len(c) = n /\ c[k] = v
      /\ \A j \in 1..n : j # k => c[j] = a[j]
  <2>1. k \in 1..Len(a) + 1 /\ k <= Len(a)
    BY <1>4, <1>5
  <2>2. SlotIs(a, k, v, c)
    BY <1>5, <1>7, <2>1, SlotProperties
  <2> QED BY <1>5, <2>1, <2>2 DEF SlotIs
<1>9. \A j \in 1..n : j # k => j \in 1..l
  BY <1>1, <1>4
<1>10. \A j \in 1..n : c[j] = b[j]
  BY <1>5, <1>6, <1>8, <1>9
<1>11. c = b
  BY <1>6, <1>8, <1>10, SeqEqual
<1>12. ASSUME k <= l PROVE SlotWritten(s, k, s[k]) = s
  <2>1. s[k] \in Ent /\ k \in 1..l
    BY <1>1, <1>12
  <2>2. PICK x : x = SlotWritten(s, k, s[k])
    OBVIOUS
  <2>3. /\ x \in Seq(Ent) /\ Len(x) = l /\ x[k] = s[k]
        /\ \A j \in 1..l : j # k => x[j] = s[j]
    <3>1. SlotIs(s, k, s[k], x)
      BY <2>1, <2>2, SlotProperties
    <3> QED BY <1>1, <1>12, <3>1 DEF SlotIs
  <2>4. x = s
    BY <1>1, <2>3, SeqEqual
  <2> QED BY <2>2, <2>4
<1> QED BY <1>1, <1>2, <1>3, <1>7, <1>11, <1>12

\* The first n entries, of as many or more.
LEMMA CutProperties ==
  ASSUME NEW s \in Seq(Ent), NEW n \in 0..Len(s)
  PROVE  /\ SubSeq(s, 1, n) \in Seq(Ent) /\ Len(SubSeq(s, 1, n)) = n
         /\ \A j \in 1..n : SubSeq(s, 1, n)[j] = s[j]
BY SubSeqProperties

\* What is on an image before and after the entry at place k of i is written.
SlotImage(e, i, k, v) == [e EXCEPT ![i] = SlotWritten(@, k, v)]

\* It is an image of the same kind, and only that entry is another.
SlotFacts(e, i, k, v, f) ==
    /\ f \in [Inodes -> Seq(Ent)] /\ f[i][k] = v /\ k <= Len(f[i])
    /\ \A j \in 1..Len(e[i]) : j # k => f[i][j] = e[i][j]
    /\ \A h \in Inodes : Len(e[h]) <= Len(f[h]) /\ (h # i => f[h] = e[h])

\* That is what the write of an entry does to an image.
LEMMA SlotImageProperties ==
  ASSUME NEW e \in [Inodes -> Seq(Ent)],
         NEW i \in Inodes, NEW k \in 1..Len(e[i]) + 1, NEW v \in Ent
  PROVE  SlotFacts(e, i, k, v, SlotImage(e, i, k, v))
<1> SUFFICES ASSUME NEW f, f = SlotImage(e, i, k, v) PROVE SlotFacts(e, i, k, v, f)
  OBVIOUS
<1>1. PICK s : s = e[i] /\ s \in Seq(Ent)
  OBVIOUS
<1>2. PICK t : t = SlotWritten(s, k, v)
  OBVIOUS
<1>3. /\ t \in Seq(Ent) /\ Len(s) <= Len(t) /\ k <= Len(t) /\ t[k] = v
      /\ \A j \in 1..Len(s) : j # k => t[j] = s[j]
  <2>1. SlotIs(s, k, v, t)
    BY <1>1, <1>2, SlotProperties
  <2> QED BY <1>1, <2>1 DEF SlotIs
<1>4. f = [e EXCEPT ![i] = t]
  BY <1>1, <1>2 DEF SlotImage
<1>5. f[i] = t /\ (\A h \in Inodes : h # i => f[h] = e[h]) /\ f \in [Inodes -> Seq(Ent)]
  BY <1>3, <1>4
<1>6. ASSUME NEW h \in Inodes PROVE Len(e[h]) <= Len(f[h])
  <2>1. CASE h = i
    BY <1>1, <1>3, <1>5, <2>1
  <2>2. CASE h # i
    <3>1. Len(e[h]) \in Nat /\ f[h] = e[h]
      BY <1>5, <2>2
    <3> QED BY <3>1
  <2> QED BY <2>1, <2>2
<1> QED BY <1>1, <1>3, <1>5, <1>6 DEF SlotFacts

\* Inodes and entries that fit together.
Shaped(d, e) ==
    /\ d \in [Inodes -> Dinode] /\ e \in [Inodes -> Seq(Ent)]
    /\ \A h \in Inodes : d[h].n <= Len(e[h])

Place == Inodes \X Nat \X (Names \cup {Dot, DotDot}) \X Inodes

\* Writing an entry beyond the size of its directory shows nothing.
LEMMA HiddenSlot ==
  ASSUME NEW d, NEW e, Shaped(d, e),
         NEW i \in Inodes, NEW k \in 1..Len(e[i]) + 1, NEW v \in Ent, k > d[i].n,
         NEW f, f = SlotImage(e, i, k, v)
  PROVE  Visible(d, f) = Visible(d, e)
<1> d \in [Inodes -> Dinode] /\ e \in [Inodes -> Seq(Ent)] /\ \A h \in Inodes : d[h].n <= Len(e[h])
  BY DEF Shaped
<1>0. SlotFacts(e, i, k, v, f)
  BY SlotImageProperties
<1>1. /\ \A j \in 1..Len(e[i]) : j # k => f[i][j] = e[i][j]
      /\ \A h \in Inodes : h # i => f[h] = e[h]
  BY <1>0 DEF SlotFacts
<1>2. ASSUME NEW x \in Place, x[2] \in 1..d[x[1]].n PROVE f[x[1]][x[2]] = e[x[1]][x[2]]
  <2>1. x[1] \in Inodes /\ x[2] \in Nat
    BY DEF Place
  <2>2. CASE x[1] # i
    BY <1>1, <2>1, <2>2
  <2>3. CASE x[1] = i
    <3>1. d[i].n \in Nat /\ d[i].n <= Len(e[i]) /\ Len(e[i]) \in Nat
      BY DEF Dinode
    <3>2. x[2] \in 1..Len(e[i]) /\ x[2] # k
      BY <1>2, <2>3, <3>1
    <3> QED BY <1>1, <2>3, <3>2
  <2> QED BY <2>2, <2>3
<1> QED BY <1>2 DEF Visible, Place

\* An entry for inode t at place k, where there was a deleted one.
LEMMA NamedSlot ==
  ASSUME NEW d, NEW e, Shaped(d, e),
         NEW i \in Inodes, d[i].type = "dir", NEW k \in 1..d[i].n, e[i][k].nr = Gone,
         NEW nm \in Names, NEW t \in Inodes,
         NEW f, f = SlotImage(e, i, k, Entry(nm, t))
  PROVE  Visible(d, f) = Visible(d, e) \cup {<<i, k, nm, t>>}
<1> d \in [Inodes -> Dinode] /\ e \in [Inodes -> Seq(Ent)] /\ \A h \in Inodes : d[h].n <= Len(e[h])
  BY DEF Shaped
<1>1. PICK v : v = Entry(nm, t)
  OBVIOUS
<1>2. v \in Ent /\ v.name = nm /\ v.nr = t /\ Gone \notin Inodes
  BY <1>1, SizeAssumption DEF Ent, Entry, Inodes, Gone
<1>3. d[i].n \in Nat /\ d[i].n <= Len(e[i]) /\ Len(e[i]) \in Nat
  BY DEF Dinode
<1>4. k \in 1..Len(e[i]) + 1
  BY <1>3
<1>0. SlotFacts(e, i, k, v, f)
  BY <1>1, <1>2, <1>4, SlotImageProperties
<1>5. /\ f[i][k] = v
      /\ \A j \in 1..Len(e[i]) : j # k => f[i][j] = e[i][j]
      /\ \A h \in Inodes : h # i => f[h] = e[h]
  BY <1>0 DEF SlotFacts
<1>6. PICK x : x = <<i, k, nm, t>>
  OBVIOUS
<1>7. x \in Place /\ x[1] = i /\ x[2] = k /\ x[3] = nm /\ x[4] = t
  BY <1>3, <1>6 DEF Place
<1>8. x \in Visible(d, f)
  BY <1>1, <1>5, <1>7 DEF Visible, Place
<1>9. ASSUME NEW y \in Place, ~(y[1] = i /\ y[2] = k)
      PROVE  y \in Visible(d, f) <=> y \in Visible(d, e)
  <2>1. y[1] \in Inodes
    BY DEF Place
  <2>2. ASSUME y[2] \in 1..d[y[1]].n PROVE f[y[1]][y[2]] = e[y[1]][y[2]]
    <3>1. CASE y[1] = i
      <4>1. y[2] \in 1..Len(e[i]) /\ y[2] # k
        BY <1>3, <1>9, <2>2, <3>1
      <4> QED BY <1>5, <3>1, <4>1
    <3>2. CASE y[1] # i
      BY <1>5, <2>1, <3>2
    <3> QED BY <3>1, <3>2
  <2> QED BY <2>2 DEF Visible, Place
<1>10. ASSUME NEW y \in Place, y[1] = i, y[2] = k
       PROVE  y \notin Visible(d, e) /\ (y \in Visible(d, f) => y = x)
  <2>1. Entry(y[3], y[4]).nr \in Inodes
    BY DEF Entry, Place
  <2>2. y \notin Visible(d, e)
    BY <1>2, <1>10, <2>1 DEF Visible
  <2>3. ASSUME y \in Visible(d, f) PROVE y = x
    <3>1. Entry(y[3], y[4]) = v
      BY <1>5, <1>10, <2>3 DEF Visible
    <3>2. y[3] = nm /\ y[4] = t
      BY <1>1, <3>1 DEF Entry
    <3> QED BY <1>6, <1>10, <3>2 DEF Place
  <2> QED BY <2>2, <2>3
<1>11. Visible(d, f) \subseteq Place /\ Visible(d, e) \subseteq Place
  BY DEF Visible, Place
<1> QED BY <1>6, <1>7, <1>8, <1>9, <1>10, <1>11

\* The entry at place k deleted, or by half.
LEMMA GoneSlot ==
  ASSUME NEW d, NEW e, Shaped(d, e),
         NEW i \in Inodes, NEW k \in 1..d[i].n, NEW nm \in Names, NEW t \in Inodes,
         e[i][k] = Entry(nm, t), NEW r \in {Gone, Mixed},
         NEW f, f = SlotImage(e, i, k, Entry(nm, r))
  PROVE  Visible(d, f) = Visible(d, e) \ {<<i, k, nm, t>>}
<1> d \in [Inodes -> Dinode] /\ e \in [Inodes -> Seq(Ent)] /\ \A h \in Inodes : d[h].n <= Len(e[h])
  BY DEF Shaped
<1>1. PICK v : v = Entry(nm, r)
  OBVIOUS
<1>2. v \in Ent /\ v.name = nm /\ v.nr = r /\ r \notin Inodes
  BY <1>1, SizeAssumption DEF Ent, Entry, Inodes, Gone, Mixed
<1>3. d[i].n \in Nat /\ d[i].n <= Len(e[i]) /\ Len(e[i]) \in Nat
  BY DEF Dinode
<1>4. k \in 1..Len(e[i]) + 1
  BY <1>3
<1>0. SlotFacts(e, i, k, v, f)
  BY <1>1, <1>2, <1>4, SlotImageProperties
<1>5. /\ f[i][k] = v
      /\ \A j \in 1..Len(e[i]) : j # k => f[i][j] = e[i][j]
      /\ \A h \in Inodes : h # i => f[h] = e[h]
  BY <1>0 DEF SlotFacts
<1>6. PICK x : x = <<i, k, nm, t>>
  OBVIOUS
<1>7. x[1] = i /\ x[2] = k /\ x[3] = nm /\ x[4] = t
  BY <1>6
<1>9. ASSUME NEW y \in Place, ~(y[1] = i /\ y[2] = k)
      PROVE  y \in Visible(d, f) <=> y \in Visible(d, e)
  <2>1. y[1] \in Inodes
    BY DEF Place
  <2>2. ASSUME y[2] \in 1..d[y[1]].n PROVE f[y[1]][y[2]] = e[y[1]][y[2]]
    <3>1. CASE y[1] = i
      <4>1. y[2] \in 1..Len(e[i]) /\ y[2] # k
        BY <1>3, <1>9, <2>2, <3>1
      <4> QED BY <1>5, <3>1, <4>1
    <3>2. CASE y[1] # i
      BY <1>5, <2>1, <3>2
    <3> QED BY <3>1, <3>2
  <2> QED BY <2>2 DEF Visible, Place
<1>10. ASSUME NEW y \in Place, y[1] = i, y[2] = k
       PROVE  y \notin Visible(d, f) /\ (y \in Visible(d, e) => y = x)
  <2>1. Entry(y[3], y[4]).nr \in Inodes
    BY DEF Entry, Place
  <2>2. y \notin Visible(d, f)
    BY <1>2, <1>5, <1>10, <2>1 DEF Visible
  <2>3. ASSUME y \in Visible(d, e) PROVE y = x
    <3>1. Entry(y[3], y[4]) = Entry(nm, t)
      BY <1>10, <2>3 DEF Visible
    <3>2. y[3] = nm /\ y[4] = t
      BY <3>1 DEF Entry
    <3> QED BY <1>6, <1>10, <3>2 DEF Place
  <2> QED BY <2>2, <2>3
<1>11. Visible(d, f) \subseteq Place /\ Visible(d, e) \subseteq Place
  BY DEF Visible, Place
<1> QED BY <1>6, <1>7, <1>9, <1>10, <1>11

\* An entry that leads nowhere, in place of one that leads nowhere.
LEMMA DeadSlot ==
  ASSUME NEW d, NEW e, Shaped(d, e),
         NEW i \in Inodes, NEW k \in 1..d[i].n, e[i][k].nr \notin Inodes,
         NEW v \in Ent, v.nr \notin Inodes, NEW f, f = SlotImage(e, i, k, v)
  PROVE  Visible(d, f) = Visible(d, e)
<1> d \in [Inodes -> Dinode] /\ e \in [Inodes -> Seq(Ent)] /\ \A h \in Inodes : d[h].n <= Len(e[h])
  BY DEF Shaped
<1>1. d[i].n \in Nat /\ d[i].n <= Len(e[i]) /\ Len(e[i]) \in Nat
  BY DEF Dinode
<1>2. k \in 1..Len(e[i]) + 1
  BY <1>1
<1>3. SlotFacts(e, i, k, v, f)
  BY <1>2, SlotImageProperties
<1>4. /\ f[i][k] = v
      /\ \A j \in 1..Len(e[i]) : j # k => f[i][j] = e[i][j]
      /\ \A h \in Inodes : h # i => f[h] = e[h]
  BY <1>3 DEF SlotFacts
<1>5. ASSUME NEW y \in Place, ~(y[1] = i /\ y[2] = k)
      PROVE  y \in Visible(d, f) <=> y \in Visible(d, e)
  <2>1. y[1] \in Inodes
    BY DEF Place
  <2>2. ASSUME y[2] \in 1..d[y[1]].n PROVE f[y[1]][y[2]] = e[y[1]][y[2]]
    <3>1. CASE y[1] = i
      <4>1. y[2] \in 1..Len(e[i]) /\ y[2] # k
        BY <1>1, <1>5, <2>2, <3>1
      <4> QED BY <1>4, <3>1, <4>1
    <3>2. CASE y[1] # i
      BY <1>4, <2>1, <3>2
    <3> QED BY <3>1, <3>2
  <2> QED BY <2>2 DEF Visible, Place
<1>6. ASSUME NEW y \in Place, y[1] = i, y[2] = k
      PROVE  y \notin Visible(d, f) /\ y \notin Visible(d, e)
  <2>1. Entry(y[3], y[4]).nr \in Inodes
    BY DEF Entry, Place
  <2> QED BY <1>4, <1>6, <2>1 DEF Visible
<1>7. Visible(d, f) \subseteq Place /\ Visible(d, e) \subseteq Place
  BY DEF Visible, Place
<1> QED BY <1>5, <1>6, <1>7

\* An entry that is whole, or that cannot be seen, spoils nothing.
LEMMA SlotClean ==
  ASSUME NEW d, NEW e, Shaped(d, e), Clean(d, e), NEW i \in Inodes, NEW k \in Nat, NEW v,
         NEW f, SlotFacts(e, i, k, v, f), v.nr # Mixed \/ k > d[i].n
  PROVE  Clean(d, f)
<1>1. ASSUME NEW h \in Inodes, NEW j \in 1..d[h].n PROVE f[h][j].nr # Mixed
  <2>1. CASE h # i
    BY <2>1 DEF SlotFacts, Clean
  <2>2. CASE h = i /\ j = k
    <3>1. d[i].n \in Nat
      BY DEF Shaped, Dinode
    <3>2. v.nr # Mixed
      BY <2>2, <3>1
    <3> QED BY <2>2, <3>2 DEF SlotFacts
  <2>3. CASE h = i /\ j # k
    <3>1. d[i].n \in Nat /\ d[i].n <= Len(e[i]) /\ Len(e[i]) \in Nat
      BY DEF Shaped, Dinode
    <3>2. j \in 1..Len(e[i])
      BY <2>3, <3>1
    <3>3. f[i][j] = e[i][j] /\ e[i][j].nr # Mixed
      BY <2>3, <3>2 DEF SlotFacts, Clean
    <3> QED BY <2>3, <3>3
  <2> QED BY <2>1, <2>2, <2>3
<1> QED BY <1>1 DEF Clean

\* Half an entry, in place of one that was whole.
LEMMA SlotTorn ==
  ASSUME NEW d, NEW e, Shaped(d, e), Clean(d, e),
         NEW i \in Inodes, d[i].type = "dir", NEW k \in 1..d[i].n, NEW nm \in Names,
         NEW f, SlotFacts(e, i, k, Entry(nm, Mixed), f), Across(e[i], k, nm)
  PROVE  TornAt(d, f, i, k, nm)
<1>1. PICK n \in Nat : n = d[i].n /\ n <= Len(e[i]) /\ Len(e[i]) \in Nat
  BY DEF Shaped, Dinode
<1>2. /\ e[i] \in Seq(Ent) /\ f[i] \in Seq(Ent) /\ Len(f[i]) \in Nat
      /\ Len(e[i]) <= Len(f[i]) /\ \A j \in 1..Len(e[i]) : j # k => f[i][j] = e[i][j]
  BY DEF Shaped, SlotFacts
<1>3. PICK a, b : a = e[i] /\ b = f[i]
  OBVIOUS
<1>4. /\ k \in Nat \ {0} /\ k - 1 <= Len(a) /\ k - 1 <= Len(b)
      /\ \A j \in 1..k - 1 : a[j] = b[j]
  BY <1>1, <1>2, <1>3
<1>5. Across(b, k, nm)
  BY <1>2, <1>3, <1>4, AcrossSame
<1>6. ASSUME NEW h \in Inodes, NEW j \in 1..d[h].n, f[h][j].nr = Mixed PROVE h = i /\ j = k
  <2>1. CASE h # i
    BY <1>6, <2>1 DEF SlotFacts, Clean
  <2>2. CASE h = i /\ j # k
    <3>1. j \in 1..Len(e[i])
      BY <1>1, <2>2
    <3>2. f[i][j] = e[i][j] /\ e[i][j].nr # Mixed
      BY <1>2, <2>2, <3>1 DEF Clean
    <3> QED BY <1>6, <2>2, <3>2
  <2> QED BY <2>1, <2>2
<1>7. f[i][k] = Entry(nm, Mixed)
  BY DEF SlotFacts
<1> QED BY <1>3, <1>5, <1>6, <1>7 DEF TornAt

\* Inode i written: p is it now, and the entries beyond its size are gone.
NodeImage(d, i, p) == [d EXCEPT ![i] = p]
CutImage(e, i, p)  == [e EXCEPT ![i] = SubSeq(@, 1, p.n)]

\* What can be seen on images d and e, and on g and f after that write.
NodeFacts(d, e, i, p, g, f) ==
    /\ d \in [Inodes -> Dinode] /\ e \in [Inodes -> Seq(Ent)]
    /\ g \in [Inodes -> Dinode] /\ f \in [Inodes -> Seq(Ent)]
    /\ g[i] = p /\ \A h \in Inodes : h # i => g[h] = d[h]
    /\ \A h \in Inodes : g[h].n <= Len(f[h]) /\ (h # i => f[h] = e[h])
    /\ \A j \in 1..p.n : f[i][j] = e[i][j]
    /\ \A y \in Place : y[1] # i => (y \in Visible(g, f) <=> y \in Visible(d, e))
    /\ \A y \in Place : y[1] = i =>
          (y \in Visible(g, f) <=> /\ p.type = "dir" /\ y[2] \in 1..p.n
                                   /\ e[i][y[2]] = Entry(y[3], y[4]))

\* That is what the write of an inode does to an image.
LEMMA NodeImageProperties ==
  ASSUME NEW d \in [Inodes -> Dinode], NEW e \in [Inodes -> Seq(Ent)],
         \A h \in Inodes : d[h].n <= Len(e[h]),
         NEW i \in Inodes, NEW p \in Dinode, p.n <= Len(e[i])
  PROVE  NodeFacts(d, e, i, p, NodeImage(d, i, p), CutImage(e, i, p))
<1> SUFFICES ASSUME NEW g, g = NodeImage(d, i, p), NEW f, f = CutImage(e, i, p)
             PROVE  NodeFacts(d, e, i, p, g, f)
  OBVIOUS
<1>1. PICK s : s = e[i] /\ s \in Seq(Ent)
  OBVIOUS
<1>2. PICK n : n = p.n /\ n \in 0..Len(s)
  BY <1>1 DEF Dinode
<1>3. PICK t : t = SubSeq(s, 1, n)
  OBVIOUS
<1>4. t \in Seq(Ent) /\ Len(t) = n /\ \A j \in 1..n : t[j] = s[j]
  BY <1>1, <1>2, <1>3, CutProperties
<1>5. f = [e EXCEPT ![i] = t] /\ g = [d EXCEPT ![i] = p]
  BY <1>1, <1>2, <1>3 DEF CutImage, NodeImage
<1>6. /\ g \in [Inodes -> Dinode] /\ f \in [Inodes -> Seq(Ent)]
      /\ g[i] = p /\ f[i] = t /\ \A h \in Inodes : h # i => g[h] = d[h] /\ f[h] = e[h]
  BY <1>4, <1>5
<1>7. ASSUME NEW h \in Inodes PROVE g[h].n <= Len(f[h])
  <2>1. CASE h = i
    BY <1>2, <1>4, <1>6, <2>1
  <2>2. CASE h # i
    BY <1>6, <2>2
  <2> QED BY <2>1, <2>2
<1>8. ASSUME NEW y \in Place, y[1] # i PROVE y \in Visible(g, f) <=> y \in Visible(d, e)
  <2>1. y[1] \in Inodes
    BY DEF Place
  <2>2. g[y[1]] = d[y[1]] /\ f[y[1]] = e[y[1]]
    BY <1>6, <1>8, <2>1
  <2> QED BY <2>2 DEF Visible, Place
<1>9. ASSUME NEW y \in Place, y[1] = i
      PROVE  y \in Visible(g, f) <=> /\ p.type = "dir" /\ y[2] \in 1..p.n
                                     /\ e[i][y[2]] = Entry(y[3], y[4])
  <2>1. y \in Visible(g, f) <=> /\ p.type = "dir" /\ y[2] \in 1..p.n
                                /\ t[y[2]] = Entry(y[3], y[4])
    BY <1>6, <1>9 DEF Visible, Place
  <2> QED BY <1>1, <1>2, <1>4, <2>1
<1>10. \A j \in 1..p.n : f[i][j] = e[i][j]
  BY <1>1, <1>2, <1>4, <1>6
<1> QED BY <1>6, <1>7, <1>8, <1>9, <1>10 DEF NodeFacts

\* An inode whose entries are whole spoils nothing.
LEMMA NodeClean ==
  ASSUME NEW d, NEW e, Clean(d, e), NEW i \in Inodes, NEW p, NEW g, NEW f,
         NodeFacts(d, e, i, p, g, f), \A j \in 1..p.n : e[i][j].nr # Mixed
  PROVE  Clean(g, f)
<1>1. ASSUME NEW h \in Inodes, NEW j \in 1..g[h].n PROVE f[h][j].nr # Mixed
  <2>1. CASE h # i
    BY <2>1 DEF NodeFacts, Clean
  <2>2. CASE h = i
    BY <2>2 DEF NodeFacts
  <2> QED BY <2>1, <2>2
<1> QED BY <1>1 DEF Clean

\* An inode that keeps its type and its size: nothing else is seen.
LEMMA SameNode ==
  ASSUME NEW d, NEW e, NEW i \in Inodes, NEW p, NEW g, NEW f,
         NodeFacts(d, e, i, p, g, f), p.type = d[i].type, p.n = d[i].n
  PROVE  Visible(g, f) = Visible(d, e)
<1>0. d \in [Inodes -> Dinode] /\ e \in [Inodes -> Seq(Ent)]
  BY DEF NodeFacts
<1>1. ASSUME NEW y \in Place PROVE y \in Visible(g, f) <=> y \in Visible(d, e)
  <2>1. CASE y[1] # i
    BY <2>1 DEF NodeFacts
  <2>2. CASE y[1] = i
    <3>1. y \in Visible(g, f) <=> /\ p.type = "dir" /\ y[2] \in 1..p.n
                                  /\ e[i][y[2]] = Entry(y[3], y[4])
      BY <2>2 DEF NodeFacts
    <3> QED BY <1>0, <2>2, <3>1 DEF Visible, Place
  <2> QED BY <2>1, <2>2
<1>2. Visible(g, f) \subseteq Place /\ Visible(d, e) \subseteq Place
  BY DEF Visible, Place
<1> QED BY <1>1, <1>2

\* A directory whose size takes in one more entry.
LEMMA GrownNode ==
  ASSUME NEW d, NEW e, NEW i \in Inodes, NEW p, NEW g, NEW f,
         NodeFacts(d, e, i, p, g, f), p.type = "dir", d[i].type = "dir",
         NEW k, p.n = k, k = d[i].n + 1,
         NEW nm \in Names, NEW t \in Inodes, e[i][k] = Entry(nm, t)
  PROVE  Visible(g, f) = Visible(d, e) \cup {<<i, k, nm, t>>}
<1>0. d \in [Inodes -> Dinode] /\ e \in [Inodes -> Seq(Ent)]
  BY DEF NodeFacts
<1>1. PICK n \in Nat : n = d[i].n /\ p.n = n + 1
  BY <1>0 DEF Dinode
<1>2. PICK x : x = <<i, n + 1, nm, t>>
  OBVIOUS
<1>3. x \in Place /\ x[1] = i /\ x[2] = n + 1 /\ x[3] = nm /\ x[4] = t
  BY <1>2 DEF Place
<1>4. ASSUME NEW y \in Place PROVE y \in Visible(g, f) <=> (y \in Visible(d, e) \/ y = x)
  <2>1. CASE y[1] # i
    BY <1>3, <2>1 DEF NodeFacts
  <2>2. CASE y[1] = i
    <3>1. y \in Visible(g, f) <=> y[2] \in 1..n + 1 /\ e[i][y[2]] = Entry(y[3], y[4])
      BY <1>1, <2>2 DEF NodeFacts
    <3>2. y \in Visible(d, e) <=> y[2] \in 1..n /\ e[i][y[2]] = Entry(y[3], y[4])
      BY <1>1, <2>2 DEF Visible, Place
    <3>3. CASE y[2] = n + 1
      <4>1. y \in Visible(g, f) <=> Entry(nm, t) = Entry(y[3], y[4])
        BY <1>1, <3>1, <3>3
      <4>2. Entry(nm, t) = Entry(y[3], y[4]) <=> (y[3] = nm /\ y[4] = t)
        BY DEF Entry
      <4>3. y = x <=> (y[3] = nm /\ y[4] = t)
        BY <1>2, <1>3, <2>2, <3>3 DEF Place
      <4> QED BY <3>2, <3>3, <4>1, <4>2, <4>3
    <3>4. CASE y[2] # n + 1
      <4>1. y[2] \in Nat /\ y # x
        BY <1>3, <3>4 DEF Place
      <4> QED BY <3>1, <3>2, <3>4, <4>1
    <3> QED BY <3>3, <3>4
  <2> QED BY <2>1, <2>2
<1>5. Visible(g, f) \subseteq Place /\ Visible(d, e) \subseteq Place
  BY DEF Visible, Place
<1> QED BY <1>1, <1>2, <1>3, <1>4, <1>5

\* A new directory, whose entries were written before.
LEMMA NewNodeDir ==
  ASSUME NEW d, NEW e, NEW i \in Inodes, NEW p, NEW g, NEW f,
         NodeFacts(d, e, i, p, g, f), p.type = "dir", d[i].n = 0, p.n = 2,
         NEW t \in Inodes, e[i][1] = Entry(Dot, i), e[i][2] = Entry(DotDot, t)
  PROVE  Visible(g, f) = Visible(d, e) \cup {<<i, 1, Dot, i>>, <<i, 2, DotDot, t>>}
<1>0. d \in [Inodes -> Dinode] /\ e \in [Inodes -> Seq(Ent)]
  BY DEF NodeFacts
<1>2. PICK x, z : x = <<i, 1, Dot, i>> /\ z = <<i, 2, DotDot, t>>
  OBVIOUS
<1>3. /\ x \in Place /\ x[1] = i /\ x[2] = 1 /\ x[3] = Dot /\ x[4] = i
      /\ z \in Place /\ z[1] = i /\ z[2] = 2 /\ z[3] = DotDot /\ z[4] = t
  BY <1>2 DEF Place
<1>4. ASSUME NEW y \in Place
      PROVE  y \in Visible(g, f) <=> (y \in Visible(d, e) \/ y = x \/ y = z)
  <2>1. CASE y[1] # i
    BY <1>3, <2>1 DEF NodeFacts
  <2>2. CASE y[1] = i
    <3>1. y \in Visible(g, f) <=> y[2] \in 1..2 /\ e[i][y[2]] = Entry(y[3], y[4])
      BY <2>2 DEF NodeFacts
    <3>2. y \notin Visible(d, e)
      BY <2>2 DEF Visible, Place
    <3>3. CASE y[2] = 1
      <4>1. y \in Visible(g, f) <=> Entry(Dot, i) = Entry(y[3], y[4])
        BY <3>1, <3>3
      <4>2. Entry(Dot, i) = Entry(y[3], y[4]) <=> (y[3] = Dot /\ y[4] = i)
        BY DEF Entry
      <4>3. y = x <=> (y[3] = Dot /\ y[4] = i)
        BY <1>2, <1>3, <2>2, <3>3 DEF Place
      <4> QED BY <1>3, <3>2, <3>3, <4>1, <4>2, <4>3
    <3>4. CASE y[2] = 2
      <4>1. y \in Visible(g, f) <=> Entry(DotDot, t) = Entry(y[3], y[4])
        BY <3>1, <3>4
      <4>2. Entry(DotDot, t) = Entry(y[3], y[4]) <=> (y[3] = DotDot /\ y[4] = t)
        BY DEF Entry
      <4>3. y = z <=> (y[3] = DotDot /\ y[4] = t)
        BY <1>2, <1>3, <2>2, <3>4 DEF Place
      <4> QED BY <1>3, <3>2, <3>4, <4>1, <4>2, <4>3
    <3>5. CASE y[2] # 1 /\ y[2] # 2
      BY <1>3, <3>1, <3>2, <3>5
    <3> QED BY <3>3, <3>4, <3>5
  <2> QED BY <2>1, <2>2
<1>5. Visible(g, f) \subseteq Place /\ Visible(d, e) \subseteq Place
  BY DEF Visible, Place
<1> QED BY <1>2, <1>3, <1>4, <1>5

\* An inode of size zero has no entries.
LEMMA EmptyNode ==
  ASSUME NEW d, NEW e, NEW i \in Inodes, NEW p, NEW g, NEW f,
         NodeFacts(d, e, i, p, g, f), p.n = 0
  PROVE  Visible(g, f) = {v \in Visible(d, e) : v[1] # i}
<1>0. d \in [Inodes -> Dinode] /\ e \in [Inodes -> Seq(Ent)]
  BY DEF NodeFacts
<1>1. ASSUME NEW y \in Place
      PROVE  y \in Visible(g, f) <=> (y \in Visible(d, e) /\ y[1] # i)
  <2>1. CASE y[1] # i
    BY <2>1 DEF NodeFacts
  <2>2. CASE y[1] = i
    <3>1. y \in Visible(g, f) => y[2] \in 1..0
      BY <2>2 DEF NodeFacts
    <3> QED BY <2>2, <3>1
  <2> QED BY <2>1, <2>2
<1>2. Visible(g, f) \subseteq Place /\ Visible(d, e) \subseteq Place
  BY DEF Visible, Place
<1> QED BY <1>1, <1>2

\* Entries f are those of e, where the directories have them.
Trimmed(d, e, f) ==
    /\ f \in [Inodes -> Seq(Ent)] /\ \A h \in Inodes : d[h].n <= Len(f[h])
    /\ Visible(d, f) = Visible(d, e)
    /\ \A h \in Inodes : \A j \in 1..d[h].n : f[h][j] = e[h][j]

\* Cutting every directory to its size loses nothing that can be seen.
LEMMA CutVisible ==
  ASSUME NEW d, NEW e, Shaped(d, e),
         NEW f, f = [i \in Inodes |-> SubSeq(e[i], 1, d[i].n)]
  PROVE  Trimmed(d, e, f)
<1> d \in [Inodes -> Dinode] /\ e \in [Inodes -> Seq(Ent)] /\ \A h \in Inodes : d[h].n <= Len(e[h])
  BY DEF Shaped
<1>1. ASSUME NEW h \in Inodes
      PROVE  /\ f[h] \in Seq(Ent) /\ d[h].n <= Len(f[h])
             /\ \A j \in 1..d[h].n : f[h][j] = e[h][j]
  <2>1. PICK s : s = e[h] /\ s \in Seq(Ent)
    OBVIOUS
  <2>2. PICK n : n = d[h].n /\ n \in 0..Len(s)
    BY <2>1 DEF Dinode
  <2>3. f[h] = SubSeq(s, 1, n)
    BY <2>1, <2>2
  <2>4. f[h] \in Seq(Ent) /\ Len(f[h]) = n /\ \A j \in 1..n : f[h][j] = s[j]
    BY <2>1, <2>2, <2>3, CutProperties
  <2> QED BY <2>1, <2>2, <2>4
<1>2. f \in [Inodes -> Seq(Ent)]
  BY <1>1
<1>3. ASSUME NEW x \in Place, x[2] \in 1..d[x[1]].n PROVE f[x[1]][x[2]] = e[x[1]][x[2]]
  BY <1>1, <1>3 DEF Place
<1>4. Visible(d, f) = Visible(d, e)
  BY <1>3 DEF Visible, Place
<1> QED BY <1>1, <1>2, <1>4 DEF Trimmed

\* And whatever it shows, it still does.
LEMMA CutShows ==
  ASSUME NEW d, NEW e, Shaped(d, e), NEW B, NEW A, Shows(d, e, B, A),
         NEW f, f = [i \in Inodes |-> SubSeq(e[i], 1, d[i].n)]
  PROVE  Shows(d, f, B, A)
<1>1. /\ f \in [Inodes -> Seq(Ent)] /\ \A h \in Inodes : d[h].n <= Len(f[h])
      /\ Visible(d, f) = Visible(d, e)
      /\ \A h \in Inodes : \A j \in 1..d[h].n : f[h][j] = e[h][j]
  <2>1. Trimmed(d, e, f)
    BY CutVisible
  <2> QED BY <2>1 DEF Trimmed
<1>2. CASE Clean(d, e) /\ NamesOf(Visible(d, e)) \in {B, A}
  BY <1>1, <1>2 DEF Shows, Clean
<1>3. CASE Halved(d, e, B, A)
  <2>1. PICK t \in (B \cup A) \ (B \cap A) :
           t[1] \in Inodes /\ t[2] \in Names /\ \E k : TornAt(d, e, t[1], k, t[2])
    BY <1>3 DEF Halved
  <2>2. PICK i, nm : i = t[1] /\ nm = t[2]
    OBVIOUS
  <2>3. PICK k : TornAt(d, e, i, k, nm)
    BY <2>1, <2>2
  <2>4. PICK n \in Nat : n = d[i].n /\ n <= Len(e[i]) /\ Len(e[i]) \in Nat
    BY <2>1, <2>2 DEF Shaped, Dinode
  <2>5. PICK a, b : a = e[i] /\ b = f[i] /\ a \in Seq(Ent) /\ b \in Seq(Ent)
    BY <1>1, <2>1, <2>2 DEF Shaped
  <2>6. k \in 1..n /\ Across(a, k, nm)
    BY <2>3, <2>4, <2>5 DEF TornAt
  <2>7. n <= Len(b) /\ Len(b) \in Nat
    BY <1>1, <2>1, <2>2, <2>4, <2>5
  <2>8. k \in Nat \ {0} /\ k - 1 <= Len(a) /\ k - 1 <= Len(b)
    BY <2>4, <2>5, <2>6, <2>7
  <2>9. \A j \in 1..k - 1 : a[j] = b[j]
    BY <1>1, <2>1, <2>2, <2>4, <2>5, <2>6
  <2>10. Across(b, k, nm)
    BY <2>5, <2>6, <2>8, <2>9, AcrossSame
  <2>11. TornAt(d, f, i, k, nm)
    <3>1. f[i][k] = Entry(nm, Mixed)
      BY <1>1, <2>1, <2>2, <2>3 DEF TornAt
    <3>2. ASSUME NEW h \in Inodes, NEW j \in 1..d[h].n, f[h][j].nr = Mixed
          PROVE  h = i /\ j = k
      BY <1>1, <2>3, <3>2 DEF TornAt
    <3> QED BY <2>3, <2>5, <2>10, <3>1, <3>2 DEF TornAt
  <2>12. Halved(d, f, B, A)
    BY <1>1, <1>3, <2>1, <2>2, <2>11 DEF Halved
  <2> QED BY <2>12 DEF Shows
<1> QED BY <1>2, <1>3 DEF Shows

\* The entry at place k of directory h gives name y to some inode, or to none
\* that can be told.
GivesName(d, e, h, k, y) ==
    /\ d[h].type = "dir" /\ e[h][k].name \in Names /\ e[h][k].nr # Gone
    /\ y = <<h, e[h][k].name, e[h][k].nr>>

\* The name space of a disk, told by its entries.
LEMMA NamesAt ==
  ASSUME NEW d, Shaped(d.dinode, d.ents), NEW y
  PROVE  y \in UserNames(d) <=>
           \E h \in Inodes : \E k \in 1..d.dinode[h].n : GivesName(d.dinode, d.ents, h, k, y)
<1>1. PICK p, e : p = d.dinode /\ e = d.ents /\ p \in [Inodes -> Dinode]
                  /\ e \in [Inodes -> Seq(Ent)] /\ \A h \in Inodes : p[h].n <= Len(e[h])
  BY DEF Shaped
<1>2. ASSUME NEW h \in Inodes
      PROVE  ToSet(SubSeq(e[h], 1, p[h].n)) = {e[h][k] : k \in 1..p[h].n}
  <2>1. PICK s : s = e[h] /\ s \in Seq(Ent)
    BY <1>1
  <2>2. PICK n : n = p[h].n /\ n \in 0..Len(s)
    BY <1>1, <2>1 DEF Dinode
  <2>3. PICK t : t = SubSeq(s, 1, n)
    OBVIOUS
  <2>4. t \in Seq(Ent) /\ Len(t) = n /\ \A j \in 1..n : t[j] = s[j]
    BY <2>1, <2>2, <2>3, CutProperties
  <2>5. ToSet(t) = {t[k] : k \in 1..n}
    BY <2>4 DEF ToSet
  <2>6. {t[k] : k \in 1..n} = {s[k] : k \in 1..n}
    BY <2>4
  <2> QED BY <2>1, <2>2, <2>3, <2>5, <2>6
<1>3. UserNames(d) =
        UNION {{<<i, x.name, x.nr>> : x \in
                   {x \in ToSet(SubSeq(e[i], 1, p[i].n)) : x.nr # Gone /\ x.name \in Names}} :
               i \in {j \in Inodes : p[j].type = "dir"}}
  BY <1>1 DEF UserNames
<1>4. ASSUME y \in UserNames(d)
      PROVE  \E h \in Inodes : \E k \in 1..p[h].n : GivesName(p, e, h, k, y)
  <2>1. PICK i \in Inodes : p[i].type = "dir" /\ y \in {<<i, x.name, x.nr>> : x \in
          {x \in ToSet(SubSeq(e[i], 1, p[i].n)) : x.nr # Gone /\ x.name \in Names}}
    BY <1>3, <1>4
  <2>2. PICK x \in ToSet(SubSeq(e[i], 1, p[i].n)) :
          x.nr # Gone /\ x.name \in Names /\ y = <<i, x.name, x.nr>>
    BY <2>1
  <2>3. PICK k \in 1..p[i].n : x = e[i][k]
    BY <1>2, <2>2
  <2> QED BY <2>1, <2>2, <2>3 DEF GivesName
<1>5. ASSUME NEW h \in Inodes, NEW k \in 1..p[h].n, GivesName(p, e, h, k, y)
      PROVE  y \in UserNames(d)
  <2>1. PICK x : x = e[h][k]
    OBVIOUS
  <2>2. p[h].type = "dir" /\ x.name \in Names /\ x.nr # Gone /\ y = <<h, x.name, x.nr>>
    BY <1>5, <2>1 DEF GivesName
  <2>3. x \in ToSet(SubSeq(e[h], 1, p[h].n))
    BY <1>2, <2>1
  <2>4. y \in {<<h, z.name, z.nr>> : z \in
          {z \in ToSet(SubSeq(e[h], 1, p[h].n)) : z.nr # Gone /\ z.name \in Names}}
    BY <2>2, <2>3
  <2> QED BY <1>3, <2>2, <2>4
<1> QED BY <1>1, <1>4, <1>5

\* The names that lead somewhere, told by the entries that can be seen.
LEMMA NamesWhole ==
  ASSUME NEW p, NEW e, Shaped(p, e), NEW y
  PROVE  y \in NamesOf(Visible(p, e)) <=>
           \E h \in Inodes : \E k \in 1..p[h].n :
             GivesName(p, e, h, k, y) /\ e[h][k].nr # Mixed
<1>1. p \in [Inodes -> Dinode] /\ e \in [Inodes -> Seq(Ent)] /\ \A h \in Inodes : p[h].n <= Len(e[h])
  BY DEF Shaped
<1>2. ASSUME NEW h \in Inodes, NEW k \in 1..p[h].n, GivesName(p, e, h, k, y), e[h][k].nr # Mixed
      PROVE  y \in NamesOf(Visible(p, e))
  <2>1. PICK x : x = e[h][k]
    OBVIOUS
  <2>2. p[h].type = "dir" /\ x.name \in Names /\ x.nr # Gone /\ y = <<h, x.name, x.nr>>
    BY <1>2, <2>1 DEF GivesName
  <2>3. k \in Nat /\ k \in 1..Len(e[h])
    BY <1>1 DEF Dinode
  <2>4. x \in Ent
    BY <1>1, <2>1, <2>3
  <2>5. x.nr \in Inodes /\ x = Entry(x.name, x.nr)
    BY <1>2, <2>1, <2>2, <2>4 DEF Ent, Entry
  <2>6. PICK v : v = <<h, k, x.name, x.nr>>
    OBVIOUS
  <2>7. v \in Place /\ v[1] = h /\ v[2] = k /\ v[3] = x.name /\ v[4] = x.nr
    BY <2>2, <2>3, <2>5, <2>6 DEF Place
  <2>8. v \in Visible(p, e)
    BY <2>1, <2>2, <2>5, <2>7 DEF Visible, Place
  <2> QED BY <2>2, <2>7, <2>8 DEF NamesOf, User
<1>3. ASSUME y \in NamesOf(Visible(p, e))
      PROVE  \E h \in Inodes : \E k \in 1..p[h].n :
               GivesName(p, e, h, k, y) /\ e[h][k].nr # Mixed
  <2>1. PICK v \in Visible(p, e) : v[3] \in Names /\ y = <<v[1], v[3], v[4]>>
    BY <1>3 DEF NamesOf, User
  <2>2. /\ v[1] \in Inodes /\ p[v[1]].type = "dir" /\ v[2] \in 1..p[v[1]].n
        /\ e[v[1]][v[2]] = Entry(v[3], v[4]) /\ v[4] \in Inodes
    BY DEF Visible
  <2>3. PICK h, k : h = v[1] /\ k = v[2]
    OBVIOUS
  <2>4. e[h][k].name = v[3] /\ e[h][k].nr = v[4]
    BY <2>2, <2>3 DEF Entry
  <2>5. v[4] # Gone /\ v[4] # Mixed
    BY <2>2, SizeAssumption DEF Inodes, Gone, Mixed
  <2>6. GivesName(p, e, h, k, y) /\ e[h][k].nr # Mixed
    BY <2>1, <2>2, <2>3, <2>4, <2>5 DEF GivesName
  <2> QED BY <2>2, <2>3, <2>6
<1> QED BY <1>2, <1>3

\* Where every entry is whole they are all the names.
LEMMA NamesSeen ==
  ASSUME NEW d, Shaped(d.dinode, d.ents), Clean(d.dinode, d.ents)
  PROVE  UserNames(d) = NamesOf(Visible(d.dinode, d.ents))
<1>1. ASSUME NEW y PROVE y \in UserNames(d) <=> y \in NamesOf(Visible(d.dinode, d.ents))
  BY NamesAt, NamesWhole DEF Clean
<1> QED BY <1>1

\* Where one is not, its name is one more.
LEMMA NamesTorn ==
  ASSUME NEW d, Shaped(d.dinode, d.ents),
         NEW i \in Inodes, NEW k, NEW nm \in Names, TornAt(d.dinode, d.ents, i, k, nm)
  PROVE  UserNames(d) = NamesOf(Visible(d.dinode, d.ents)) \cup {<<i, nm, Mixed>>}
<1>1. PICK p, e : p = d.dinode /\ e = d.ents
  OBVIOUS
<1>2. /\ p[i].type = "dir" /\ k \in 1..p[i].n /\ e[i][k] = Entry(nm, Mixed)
      /\ \A h \in Inodes : \A j \in 1..p[h].n : e[h][j].nr = Mixed => h = i /\ j = k
  BY <1>1 DEF TornAt
<1>3. e[i][k].name = nm /\ e[i][k].nr = Mixed /\ Mixed # Gone
  BY <1>2 DEF Entry, Gone, Mixed
<1>4. \A y : GivesName(p, e, i, k, y) <=> y = <<i, nm, Mixed>>
  BY <1>2, <1>3 DEF GivesName
<1>5. ASSUME NEW y
      PROVE  y \in UserNames(d) <=> y \in NamesOf(Visible(p, e)) \/ y = <<i, nm, Mixed>>
  <2>1. y \in UserNames(d) <=>
          \E h \in Inodes : \E j \in 1..p[h].n : GivesName(p, e, h, j, y)
    BY <1>1, NamesAt
  <2>2. y \in NamesOf(Visible(p, e)) <=>
          \E h \in Inodes : \E j \in 1..p[h].n : GivesName(p, e, h, j, y) /\ e[h][j].nr # Mixed
    BY <1>1, NamesWhole
  <2> QED BY <1>2, <1>4, <2>1, <2>2
<1> QED BY <1>1, <1>5

-----------------------------------------------------------------------------
(* The log of writes.                                                      *)

\* With no writes to come, the image is the one that will be.
LEMMA NoWrites ==
  ASSUME NEW c, NEW B, NEW A
  PROVE  /\ Fine(c, B, A) => Leads(<<>>, c, c, B, A)
         /\ \A z : Leads(<<>>, c, z, B, A) => z = c
<1>1. ASSUME Fine(c, B, A) PROVE Leads(<<>>, c, c, B, A)
  <2>1. PICK r : r = [j \in Nat |-> c]
    OBVIOUS
  <2>2. Len(<<>>) = 0 /\ <<>> \in Seq({}) /\ r[0] = c
    BY <2>1
  <2>3. Trace(<<>>, c, c, B, A, r)
    BY <1>1, <2>2 DEF Trace
  <2> QED BY <2>2, <2>3 DEF Leads
<1>2. ASSUME NEW z, Leads(<<>>, c, z, B, A) PROVE z = c
  <2>1. PICK r : Trace(<<>>, c, z, B, A, r)
    BY <1>2 DEF Leads
  <2> QED BY <2>1 DEF Trace
<1> QED BY <1>1, <1>2

\* Both ends of the log are sound.
LEMMA LeadsEnds ==
  ASSUME NEW log, NEW c, NEW z, NEW B, NEW A, Leads(log, c, z, B, A)
  PROVE  Fine(c, B, A) /\ Fine(z, B, A)
<1>1. PICK S : log \in Seq(S)
  BY DEF Leads
<1>2. PICK r : Trace(log, c, z, B, A, r)
  BY DEF Leads
<1>3. 0 \in 0..Len(log) /\ Len(log) \in 0..Len(log)
  BY <1>1
<1> QED BY <1>2, <1>3 DEF Trace

\* The first write is done.
LEMMA LeadsTail ==
  ASSUME NEW log, NEW c, NEW z, NEW B, NEW A, Leads(log, c, z, B, A), log # <<>>
  PROVE  Leads(Tail(log), Apply(c, Head(log)), z, B, A) /\ Head(log).at \in Kinds
<1>1. PICK S : log \in Seq(S)
  BY DEF Leads
<1>2. PICK r : Trace(log, c, z, B, A, r)
  BY DEF Leads
<1>3. PICK n \in Nat : Len(log) = n + 1
  <2>1. Len(log) \in Nat /\ Len(log) # 0
    BY <1>1
  <2>2. Len(log) - 1 \in Nat /\ Len(log) = (Len(log) - 1) + 1
    BY <2>1
  <2> QED BY <2>2
<1>4. PICK t : t = Tail(log)
  OBVIOUS
<1>5. t \in Seq(S) /\ Len(t) = n /\ Head(log) = log[1] /\ \A j \in 1..n : t[j] = log[j + 1]
  BY <1>1, <1>3, <1>4
<1>6. PICK q : q = [j \in 0..n |-> r[j + 1]]
  OBVIOUS
<1>7. q[0] = Apply(c, log[1]) /\ q[n] = z
  <2>1. r[1] = Apply(r[0], log[1]) /\ r[0] = c /\ r[n + 1] = z
    BY <1>2, <1>3 DEF Trace
  <2> QED BY <1>3, <1>6, <2>1
<1>8. ASSUME NEW j \in 0..n PROVE Fine(q[j], B, A)
  <2>1. q[j] = r[j + 1] /\ j + 1 \in 0..n + 1
    BY <1>6
  <2> QED BY <1>2, <1>3, <2>1 DEF Trace
<1>9. ASSUME NEW j \in 1..n PROVE q[j] = Apply(q[j - 1], t[j])
  <2>1. q[j] = r[j + 1] /\ q[j - 1] = r[j] /\ j + 1 \in 1..n + 1 /\ (j + 1) - 1 = j
    BY <1>6
  <2>2. r[j + 1] = Apply(r[(j + 1) - 1], log[j + 1])
    BY <1>2, <1>3, <2>1 DEF Trace
  <2> QED BY <1>5, <2>1, <2>2
<1>10. ASSUME NEW j \in 1..n PROVE t[j].at \in Kinds
  <2>1. j + 1 \in 1..n + 1 /\ t[j] = log[j + 1]
    BY <1>5
  <2> QED BY <1>2, <1>3, <2>1 DEF Trace
<1>11. Trace(t, Apply(c, log[1]), z, B, A, q)
  BY <1>5, <1>7, <1>8, <1>9, <1>10 DEF Trace
<1>12. 1 \in 1..n + 1 /\ log[1].at \in Kinds
  BY <1>2, <1>3 DEF Trace
<1> QED BY <1>4, <1>5, <1>11, <1>12 DEF Leads

\* A write more, after which the image is sound.
LEMMA LeadsAppend ==
  ASSUME NEW log, NEW c, NEW z, NEW B, NEW A, Leads(log, c, z, B, A),
         NEW w, w.at \in Kinds, Fine(Apply(z, w), B, A)
  PROVE  Leads(Append(log, w), c, Apply(z, w), B, A)
<1>1. PICK S : log \in Seq(S)
  BY DEF Leads
<1>2. PICK r : Trace(log, c, z, B, A, r)
  BY DEF Leads
<1>3. PICK n \in Nat : Len(log) = n
  BY <1>1
<1>4. PICK t : t = Append(log, w)
  OBVIOUS
<1>5. t \in Seq(S \cup {w})
  <2>1. log \in Seq(S \cup {w})
    BY <1>1
  <2> QED BY <1>4, <2>1
<1>6. Len(t) = n + 1 /\ t[n + 1] = w /\ \A j \in 1..n : t[j] = log[j]
  BY <1>1, <1>3, <1>4
<1>7. PICK y : y = Apply(z, w)
  OBVIOUS
<1>8. PICK q : q = [j \in 0..n + 1 |-> IF j = n + 1 THEN y ELSE r[j]]
  OBVIOUS
<1>9. q[n + 1] = y /\ \A j \in 0..n : q[j] = r[j]
  BY <1>8
<1>10. r[0] = c /\ r[n] = z
  BY <1>2, <1>3 DEF Trace
<1>11. ASSUME NEW j \in 0..n + 1 PROVE Fine(q[j], B, A)
  <2>1. CASE j = n + 1
    BY <1>7, <1>9, <2>1
  <2>2. CASE j # n + 1
    <3>1. j \in 0..n
      BY <2>2
    <3> QED BY <1>2, <1>3, <1>9, <3>1 DEF Trace
  <2> QED BY <2>1, <2>2
<1>12. ASSUME NEW j \in 1..n + 1 PROVE q[j] = Apply(q[j - 1], t[j])
  <2>1. CASE j = n + 1
    <3>1. q[j - 1] = z
      BY <1>9, <1>10, <2>1
    <3> QED BY <1>6, <1>7, <1>9, <2>1, <3>1
  <2>2. CASE j # n + 1
    <3>1. j \in 1..n /\ j - 1 \in 0..n /\ j \in 0..n
      BY <2>2
    <3>2. r[j] = Apply(r[j - 1], log[j])
      BY <1>2, <1>3, <3>1 DEF Trace
    <3> QED BY <1>6, <1>9, <3>1, <3>2
  <2> QED BY <2>1, <2>2
<1>13. Trace(t, c, y, B, A, q)
  <2>1. q[0] = c
    BY <1>9, <1>10
  <2>2. ASSUME NEW j \in 1..n + 1 PROVE t[j].at \in Kinds
    <3>1. CASE j = n + 1
      BY <1>6, <3>1
    <3>2. CASE j # n + 1
      <4>1. j \in 1..n
        BY <3>2
      <4> QED BY <1>2, <1>3, <1>6, <4>1 DEF Trace
    <3> QED BY <3>1, <3>2
  <2> QED BY <1>6, <1>9, <1>11, <1>12, <2>1, <2>2 DEF Trace
<1> QED BY <1>4, <1>5, <1>7, <1>13 DEF Leads

\* Writes of the block map, of the super block, of an index block and of
\* zeros into a free block change no image.
LEMMA LeadsScalars ==
  ASSUME NEW log, NEW c, NEW z, NEW B, NEW A, Leads(log, c, z, B, A),
         NEW T, NEW t \in Seq(T), \A j \in 1..Len(t) : t[j].at \in Scalars
  PROVE  Leads(log \o t, c, z, B, A)
<1>1. PICK S : log \in Seq(S)
  BY DEF Leads
<1>2. PICK r : Trace(log, c, z, B, A, r)
  BY DEF Leads
<1>3. PICK n \in Nat : Len(log) = n
  BY <1>1
<1>4. PICK k \in Nat : Len(t) = k
  OBVIOUS
<1>5. PICK u : u = log \o t
  OBVIOUS
<1>6. PICK X : log \in Seq(X) /\ t \in Seq(X) /\ u \in Seq(X)
  <2>1. log \in Seq(S \cup T) /\ t \in Seq(S \cup T)
    BY <1>1
  <2>2. u \in Seq(S \cup T)
    BY <1>5, <2>1
  <2> QED BY <2>1, <2>2
<1>7. /\ Len(u) = n + k /\ \A j \in 1..n : u[j] = log[j]
      /\ \A j \in n + 1..n + k : u[j] = t[j - n]
  <2>2. /\ Len(u) = Len(log) + Len(t)
        /\ \A j \in 1..Len(log) + Len(t) :
              u[j] = IF j <= Len(log) THEN log[j] ELSE t[j - Len(log)]
    BY <1>5, <1>6, ConcatProperties
  <2>3. \A j \in 1..n + k : u[j] = IF j <= n THEN log[j] ELSE t[j - n]
    BY <1>3, <1>4, <2>2
  <2> QED BY <1>3, <1>4, <2>2, <2>3
<1>8. PICK q : q = [j \in 0..n + k |-> IF j <= n THEN r[j] ELSE z]
  OBVIOUS
<1>9. r[0] = c /\ r[n] = z /\ \A j \in 0..n : Fine(r[j], B, A)
  BY <1>2, <1>3 DEF Trace
<1>10. (\A j \in 0..n : q[j] = r[j]) /\ (\A j \in n..n + k : q[j] = z)
  BY <1>8, <1>9
<1>11. q[0] = c /\ q[n + k] = z
  BY <1>9, <1>10
<1>12. ASSUME NEW j \in 0..n + k PROVE Fine(q[j], B, A)
  <2>1. CASE j <= n
    BY <1>9, <1>10, <2>1
  <2>2. CASE j > n
    <3>1. q[j] = z /\ z = r[n] /\ n \in 0..n
      BY <1>9, <1>10, <2>2
    <3> QED BY <1>9, <3>1
  <2> QED BY <2>1, <2>2
<1>13. ASSUME NEW j \in 1..n + k PROVE q[j] = Apply(q[j - 1], u[j])
  <2>1. CASE j <= n
    <3>1. j \in 1..n /\ j - 1 \in 0..n /\ j \in 0..n
      BY <2>1
    <3>2. r[j] = Apply(r[j - 1], log[j])
      BY <1>2, <1>3, <3>1 DEF Trace
    <3> QED BY <1>7, <1>10, <3>1, <3>2
  <2>2. CASE j > n
    <3>1. j \in n + 1..n + k /\ j - n \in 1..k /\ j - 1 \in n..n + k /\ j \in n..n + k
      BY <2>2
    <3>2. u[j].at \in Scalars
      BY <1>4, <1>7, <3>1
    <3>3. Apply(z, u[j]) = z
      BY <3>2 DEF Apply, Scalars
    <3> QED BY <1>10, <3>1, <3>3
  <2> QED BY <2>1, <2>2
<1>14. ASSUME NEW j \in 1..n + k PROVE u[j].at \in Kinds
  <2>1. CASE j <= n
    <3>1. j \in 1..n
      BY <2>1
    <3> QED BY <1>2, <1>3, <1>7, <3>1 DEF Trace
  <2>2. CASE j > n
    <3>1. j \in n + 1..n + k /\ j - n \in 1..k
      BY <2>2
    <3> QED BY <1>4, <1>7, <3>1 DEF Kinds
  <2> QED BY <2>1, <2>2
<1>15. Trace(u, c, z, B, A, q)
  BY <1>7, <1>11, <1>12, <1>13, <1>14 DEF Trace
<1> QED BY <1>5, <1>6, <1>15 DEF Leads

\* The disk after a write is the image after that write.
LEMMA WrittenImage ==
  ASSUME NEW d, IsDisk(d), NEW w, w.at \in Kinds, w.at # "abort",
         NEW S, d.ents \in [Inodes -> S], d.dinode \in [Inodes -> Dinode]
  PROVE  Image(Written(d, w)) = Apply(Image(d), w) /\ IsDisk(Written(d, w))
<1>0. PICK a, b, g, h, p, x, e :
        /\ d = [imap |-> a, icount |-> b, bits |-> g, used |-> h, dinode |-> p, index |-> x,
                ents |-> e]
        /\ a = d.imap /\ p = d.dinode /\ e = d.ents /\ x = d.index
  BY DEF IsDisk
<1>1. CASE w.at = "imap"
  BY <1>0, <1>1 DEF Written, Apply, Image, IsDisk
<1>2. CASE w.at = "bmap"
  BY <1>0, <1>2 DEF Written, Apply, Image, IsDisk
<1>3. CASE w.at = "super"
  BY <1>0, <1>3 DEF Written, Apply, Image, IsDisk
<1>4. CASE w.at = "slot"
  BY <1>0, <1>4 DEF Written, Apply, Image, IsDisk, SlotWritten
<1>5. CASE w.at = "dinode"
  BY <1>0, <1>5 DEF Written, Apply, Image, IsDisk
<1>6. CASE w.at = "zero"
  BY <1>0, <1>6 DEF Written, Apply, Image, IsDisk
<1>7. CASE w.at = "index"
  BY <1>0, <1>7 DEF Written, Apply, Image, IsDisk
<1> QED BY <1>1, <1>2, <1>3, <1>4, <1>5, <1>6, <1>7 DEF Kinds, Scalars

-----------------------------------------------------------------------------
(* What a command has put into the log.  s is the super block in memory,   *)
(* c the image on disk, <<m, d, e>> the one it leads to; Reach, if all the *)
(* entries of that one are whole.                                          *)

Goes(s, c, m, d, e, B, A) ==
    IsSuper(s) /\ s.imap = m /\ Leads(s.log, c, <<m, d, e>>, B, A)
Reach(s, c, m, d, e, B, A) == Goes(s, c, m, d, e, B, A) /\ Clean(d, e)

\* What is reached is sound.
LEMMA ReachGood ==
  ASSUME NEW s, NEW c, NEW m, NEW d, NEW e, NEW B, NEW A, Reach(s, c, m, d, e, B, A)
  PROVE  Good(m, d, e) /\ Clean(d, e) /\ NamesOf(Visible(d, e)) \in {B, A}
<1>1. Fine(<<m, d, e>>, B, A) /\ Clean(d, e)
  BY LeadsEnds DEF Reach, Goes
<1>2. Good(m, d, e) /\ Shows(d, e, B, A)
  BY <1>1 DEF Fine
<1>3. ASSUME Halved(d, e, B, A) PROVE FALSE
  <2>1. PICK t : t[1] \in Inodes /\ \E k : TornAt(d, e, t[1], k, t[2])
    BY <1>3 DEF Halved
  <2>2. PICK k : TornAt(d, e, t[1], k, t[2])
    BY <2>1
  <2>3. k \in 1..d[t[1]].n /\ e[t[1]][k].nr = Mixed
    BY <2>2 DEF TornAt, Entry
  <2> QED BY <1>1, <2>1, <2>3 DEF Clean
<1> QED BY <1>1, <1>2, <1>3 DEF Shows

\* A write of an entry or of half an entry after which all is sound.
LEMMA SlotGoes ==
  ASSUME NEW s, NEW c, NEW m, NEW d, NEW e, NEW B, NEW A, Goes(s, c, m, d, e, B, A),
         NEW i, NEW k, NEW v, NEW f, f = SlotImage(e, i, k, v),
         Good(m, d, f), Shows(d, f, B, A)
  PROVE  Goes(WriteSlot(s, i, k, v), c, m, d, f, B, A)
<1>1. PICK w : w = [at |-> "slot", i |-> i, k |-> k, v |-> v]
  OBVIOUS
<1>2. w.at = "slot" /\ w.i = i /\ w.k = k /\ w.v = v /\ w.at \in Kinds
  BY <1>1 DEF Kinds
<1>3. Apply(<<m, d, e>>, w) = <<m, d, f>>
  BY <1>2 DEF Apply, SlotImage
<1>4. Fine(<<m, d, f>>, B, A)
  BY DEF Fine
<1>5. PICK t : t = WriteSlot(s, i, k, v)
  OBVIOUS
<1>6. t = [s EXCEPT !.log = Append(s.log, w)]
  BY <1>1, <1>5 DEF WriteSlot, Put
<1>7. IsSuper(t) /\ t.imap = s.imap /\ t.log = Append(s.log, w)
  BY <1>6 DEF Goes, IsSuper
<1>8. Leads(Append(s.log, w), c, <<m, d, f>>, B, A)
  BY <1>2, <1>3, <1>4, LeadsAppend DEF Goes
<1> QED BY <1>5, <1>7, <1>8 DEF Goes

\* A write of an inode after which all is sound.
LEMMA NodeReach ==
  ASSUME NEW s, NEW c, NEW m, NEW d, NEW e, NEW B, NEW A, Reach(s, c, m, d, e, B, A),
         NEW i, NEW p, NEW g, g = NodeImage(d, i, p), NEW f, f = CutImage(e, i, p),
         Good(m, g, f), Clean(g, f), NamesOf(Visible(g, f)) \in {B, A}
  PROVE  Reach(SyncInode(s, i, p), c, m, g, f, B, A)
<1>1. PICK w : w = [at |-> "dinode", i |-> i, v |-> p]
  OBVIOUS
<1>2. w.at = "dinode" /\ w.i = i /\ w.v = p /\ w.at \in Kinds
  BY <1>1 DEF Kinds
<1>3. Apply(<<m, d, e>>, w) = <<m, g, f>>
  BY <1>2 DEF Apply, NodeImage, CutImage
<1>4. Fine(<<m, g, f>>, B, A)
  BY DEF Fine, Shows
<1>5. PICK t : t = SyncInode(s, i, p)
  OBVIOUS
<1>6. t = [s EXCEPT !.log = Append(s.log, w)]
  BY <1>1, <1>5 DEF SyncInode, Put
<1>7. IsSuper(t) /\ t.imap = s.imap /\ t.log = Append(s.log, w)
  BY <1>6 DEF Reach, Goes, IsSuper
<1>8. Leads(Append(s.log, w), c, <<m, g, f>>, B, A)
  BY <1>2, <1>3, <1>4, LeadsAppend DEF Reach, Goes
<1> QED BY <1>5, <1>7, <1>8 DEF Reach, Goes

\* A write that changes no image.
LEMMA PutGoes ==
  ASSUME NEW s, NEW c, NEW m, NEW d, NEW e, NEW B, NEW A, Goes(s, c, m, d, e, B, A),
         NEW w, w.at \in Scalars
  PROVE  Goes(Put(s, w), c, m, d, e, B, A)
<1>1. PICK z : z = <<m, d, e>>
  OBVIOUS
<1>2. Apply(z, w) = z /\ w.at \in Kinds
  BY DEF Apply, Scalars, Kinds
<1>3. Leads(s.log, c, z, B, A) /\ Fine(z, B, A)
  BY <1>1, LeadsEnds DEF Goes
<1>4. Leads(Append(s.log, w), c, z, B, A)
  BY <1>2, <1>3, LeadsAppend
<1>5. PICK t : t = Put(s, w)
  OBVIOUS
<1>6. IsSuper(t) /\ t.imap = s.imap /\ t.log = Append(s.log, w)
  BY <1>5 DEF Goes, IsSuper, Put
<1> QED BY <1>1, <1>4, <1>5, <1>6 DEF Goes

\* The inode map written, and the super block with the count k after it.
Remapped(s, p, k) == Super([WriteFreemap(s, p) EXCEPT !.icount = k])

\* The same for the image that is led to.
LEMMA MapReach ==
  ASSUME NEW s, NEW c, NEW m, NEW d, NEW e, NEW B, NEW A, Reach(s, c, m, d, e, B, A),
         NEW p, NEW k, Good(p, d, e)
  PROVE  Reach(Remapped(s, p, k), c, p, d, e, B, A)
<1>1. PICK w : w = [at |-> "imap", v |-> p]
  OBVIOUS
<1>2. w.at = "imap" /\ w.v = p /\ w.at \in Kinds
  BY <1>1 DEF Kinds, Scalars
<1>3. Apply(<<m, d, e>>, w) = <<p, d, e>>
  BY <1>2 DEF Apply
<1>4. Fine(<<p, d, e>>, B, A)
  BY ReachGood DEF Fine, Shows
<1>5. Leads(Append(s.log, w), c, <<p, d, e>>, B, A)
  BY <1>2, <1>3, <1>4, LeadsAppend DEF Reach, Goes
<1>6. PICK t : t = [WriteFreemap(s, p) EXCEPT !.icount = k]
  OBVIOUS
<1>7. IsSuper(t) /\ t.imap = p /\ t.log = Append(s.log, w)
  BY <1>1, <1>6 DEF Reach, Goes, IsSuper, WriteFreemap, Put
<1>8. PICK x : x = [at |-> "super", v |-> <<t.icount, t.used>>]
  OBVIOUS
<1>9. x.at = "super" /\ x.at \in Kinds
  BY <1>8 DEF Kinds, Scalars
<1>10. Apply(<<p, d, e>>, x) = <<p, d, e>>
  BY <1>9 DEF Apply
<1>11. Leads(Append(t.log, x), c, <<p, d, e>>, B, A)
  BY <1>4, <1>5, <1>7, <1>9, <1>10, LeadsAppend
<1>12. PICK u : u = Super(t)
  OBVIOUS
<1>13. IsSuper(u) /\ u.imap = p /\ u.log = Append(t.log, x)
  BY <1>7, <1>8, <1>12 DEF IsSuper, Super, Put
<1>14. Clean(d, e)
  BY DEF Reach
<1> QED BY <1>6, <1>11, <1>12, <1>13, <1>14 DEF Reach, Goes, Remapped

\* An inode marked.
LEMMA MarkReach ==
  ASSUME NEW s, NEW c, NEW m, NEW d, NEW e, NEW B, NEW A, Reach(s, c, m, d, e, B, A), NEW i
  PROVE  Reach(MarkInode(s, i), c, m \cup {i}, d, e, B, A)
<1>1. Good(m \cup {i}, d, e)
  BY ReachGood, MarkSound DEF Good
<1>2. s.imap = m
  BY DEF Reach, Goes
<1>3. PICK k : k = WriteFreemap(s, m \cup {i}).icount + 1
  OBVIOUS
<1>4. MarkInode(s, i) = Remapped(s, m \cup {i}, k)
  BY <1>2, <1>3 DEF MarkInode, Remapped
<1> QED BY <1>1, <1>4, MapReach

\* An inode without a name unmarked.
LEMMA UnmarkReach ==
  ASSUME NEW s, NEW c, NEW m, NEW d, NEW e, NEW B, NEW A, Reach(s, c, m, d, e, B, A),
         NEW i, i # Root, \A u \in User(Visible(d, e)) : u[4] # i
  PROVE  Reach(UnmarkInode(s, i), c, m \ {i}, d, e, B, A)
<1>1. Good(m \ {i}, d, e)
  BY ReachGood, UnmarkSound DEF Good
<1>2. s.imap = m
  BY DEF Reach, Goes
<1>3. PICK k : k = WriteFreemap(s, m \ {i}).icount - 1
  OBVIOUS
<1>4. UnmarkInode(s, i) = Remapped(s, m \ {i}, k)
  BY <1>2, <1>3 DEF UnmarkInode, Unmarked, Remapped
<1> QED BY <1>1, <1>4, MapReach

\* Writes that change no image.
LEMMA ScalarsGo ==
  ASSUME NEW s, NEW c, NEW m, NEW d, NEW e, NEW B, NEW A, Goes(s, c, m, d, e, B, A),
         NEW k \in Nat, NEW S, NEW t \in [1..k -> S], \A j \in 1..k : t[j].at \in Scalars,
         NEW x, NEW y
  PROVE  Goes([s EXCEPT !.bits = x, !.used = y, !.log = s.log \o t], c, m, d, e, B, A)
<1>1. t \in Seq(S) /\ Len(t) = k
  BY LenProperties
<1>2. Leads(s.log \o t, c, <<m, d, e>>, B, A)
  BY <1>1, LeadsScalars DEF Goes
<1>3. PICK u : u = [s EXCEPT !.bits = x, !.used = y, !.log = s.log \o t]
  OBVIOUS
<1>4. IsSuper(u) /\ u.imap = s.imap /\ u.log = s.log \o t
  BY <1>3 DEF IsSuper, Goes
<1> QED BY <1>2, <1>3, <1>4 DEF Goes

\* Blocks allocated.
LEMMA AllocGoes ==
  ASSUME NEW s, NEW c, NEW m, NEW d, NEW e, NEW B, NEW A, Goes(s, c, m, d, e, B, A),
         NEW n \in Nat
  PROVE  Goes(AllocBlocks(s, n), c, m, d, e, B, A)
<1>1. PICK k : k = 2 * n /\ k \in Nat
  OBVIOUS
<1>2. PICK t : t = [j \in 1..k |->
                  IF j % 2 = 1 THEN [at |-> "bmap", v |-> s.bits + (j + 1) \div 2]
                  ELSE [at |-> "super", v |-> <<s.icount, s.used + j \div 2>>]]
  OBVIOUS
<1>3. ASSUME NEW j \in 1..k PROVE t[j].at \in Scalars
  <2>1. CASE j % 2 = 1
    <3>1. t[j] = [at |-> "bmap", v |-> s.bits + (j + 1) \div 2]
      BY <1>2, <2>1
    <3> QED BY <3>1 DEF Scalars
  <2>2. CASE ~(j % 2 = 1)
    <3>1. t[j] = [at |-> "super", v |-> <<s.icount, s.used + j \div 2>>]
      BY <1>2, <2>2
    <3> QED BY <3>1 DEF Scalars
  <2> QED BY <2>1, <2>2
<1>4. PICK T : t \in [1..k -> T]
  <2>1. t \in [1..k -> {t[j] : j \in 1..k}]
    BY <1>2, Zenon
  <2> QED BY <2>1
<1>5. PICK x, y : x = s.bits + n /\ y = s.used + n
  OBVIOUS
<1>6. AllocBlocks(s, n) = [s EXCEPT !.bits = x, !.used = y, !.log = s.log \o t]
  BY <1>1, <1>2, <1>5 DEF AllocBlocks
<1>7. Goes([s EXCEPT !.bits = x, !.used = y, !.log = s.log \o t], c, m, d, e, B, A)
  BY <1>1, <1>3, <1>4, ScalarsGo
<1> QED BY <1>6, <1>7

\* Blocks freed.
LEMMA FreeGoes ==
  ASSUME NEW s, NEW c, NEW m, NEW d, NEW e, NEW B, NEW A, Goes(s, c, m, d, e, B, A),
         NEW n \in Nat
  PROVE  Goes(FreeBlocks(s, n), c, m, d, e, B, A)
<1>1. PICK k : k = 3 * n /\ k \in Nat
  OBVIOUS
<1>2. PICK t : t = [j \in 1..k |->
                  CASE j % 3 = 1 -> [at |-> "zero"]
                    [] j % 3 = 2 -> [at |-> "bmap", v |-> s.bits - (j + 1) \div 3]
                    [] j % 3 = 0 -> [at |-> "super", v |-> <<s.icount, s.used - j \div 3>>]]
  OBVIOUS
<1>3. ASSUME NEW j \in 1..k PROVE t[j].at \in Scalars
  <2>1. CASE j % 3 = 1
    <3>1. t[j] = [at |-> "zero"]
      BY <1>2, <2>1
    <3> QED BY <3>1 DEF Scalars
  <2>2. CASE j % 3 = 2
    <3>1. t[j] = [at |-> "bmap", v |-> s.bits - (j + 1) \div 3]
      BY <1>2, <2>2
    <3> QED BY <3>1 DEF Scalars
  <2>3. CASE j % 3 = 0
    <3>1. t[j] = [at |-> "super", v |-> <<s.icount, s.used - j \div 3>>]
      BY <1>2, <2>3
    <3> QED BY <3>1 DEF Scalars
  <2>4. j % 3 \in 0..2
    OBVIOUS
  <2> QED BY <2>1, <2>2, <2>3, <2>4
<1>4. PICK T : t \in [1..k -> T]
  <2>1. t \in [1..k -> {t[j] : j \in 1..k}]
    BY <1>2, Zenon
  <2> QED BY <2>1
<1>5. PICK x, y : x = s.bits - n /\ y = s.used - n
  OBVIOUS
<1>6. FreeBlocks(s, n) = [s EXCEPT !.bits = x, !.used = y, !.log = s.log \o t]
  BY <1>1, <1>2, <1>5 DEF FreeBlocks
<1>7. Goes([s EXCEPT !.bits = x, !.used = y, !.log = s.log \o t], c, m, d, e, B, A)
  BY <1>1, <1>3, <1>4, ScalarsGo
<1> QED BY <1>6, <1>7

\* A logical block found or allocated.
LEMMA AllocateGoes ==
  ASSUME NEW s, NEW c, NEW m, NEW d, NEW e, NEW B, NEW A, Goes(s, c, m, d, e, B, A),
         NEW i, NEW l, NEW n \in Nat
  PROVE  Goes(Allocate(s, i, l, n), c, m, d, e, B, A)
<1>1. PICK t : t = AllocBlocks(s, n) /\ Goes(t, c, m, d, e, B, A)
  BY AllocGoes
<1>2. PICK w : w = [at |-> "index", i |-> i, v |-> l + 1]
  OBVIOUS
<1>3. w.at \in Scalars
  BY <1>2 DEF Scalars
<1>4. Goes(Put(t, w), c, m, d, e, B, A)
  BY <1>1, <1>3, PutGoes
<1> QED BY <1>1, <1>2, <1>4 DEF Allocate

-----------------------------------------------------------------------------
(* The writes of the commands, one by one.                                 *)

\* What the first half of an entry makes of the one that was there.
LEMMA HalfIs ==
  ASSUME NEW es \in Seq(Ent), NEW k \in Nat \ {0}, NEW v \in Ent
  PROVE  /\ Half(es, k, v) \in Ent
         /\ \/ Half(es, k, v) = v \/ Half(es, k, v) = Entry(v.name, Mixed)
            \/ k \in 1..Len(es) /\ Half(es, k, v) = es[k]
<1>1. Entry(v.name, Mixed) \in Ent
  BY DEF Ent, Entry
<1>2. k <= Len(es) => k \in 1..Len(es) /\ es[k] \in Ent
  OBVIOUS
<1> QED BY <1>1, <1>2 DEF Half

\* An image with one other entry, if what can be seen then is sound.
LEMMA SlotGood ==
  ASSUME NEW m, NEW d, NEW e, Good(m, d, e), NEW i \in Inodes, NEW k, NEW v, NEW f,
         SlotFacts(e, i, k, v, f), Sound(m, Visible(d, f))
  PROVE  Good(m, d, f)
<1>1. ASSUME NEW h \in Inodes PROVE d[h].n <= Len(f[h])
  <2>1. Len(e[h]) <= Len(f[h]) /\ d[h].n <= Len(e[h])
    BY DEF SlotFacts, Good
  <2>2. Len(e[h]) \in Nat /\ Len(f[h]) \in Nat /\ d[h].n \in Nat
    BY DEF SlotFacts, Good, Dinode
  <2> QED BY <2>1, <2>2
<1> QED BY <1>1 DEF Good, SlotFacts

\* The image with the first half of entry v at place k of directory i shows
\* nothing that it must not.
HalfShows(m, d, e, i, es, k, v, B, A) ==
    Across(es, k, v.name) =>
        LET f == SlotImage(e, i, k, Half(es, k, v))
        IN Good(m, d, f) /\ Shows(d, f, B, A)

\* An entry written, in one block or in two.
LEMMA WriteReach ==
  ASSUME NEW s, NEW c, NEW m, NEW d, NEW e, NEW B, NEW A, Reach(s, c, m, d, e, B, A),
         NEW i \in Inodes, NEW k \in 1..Len(e[i]) + 1, NEW v \in Ent,
         NEW es \in Seq(Ent), NEW n \in Nat, HalfShows(m, d, e, i, es, k, v, B, A),
         NEW f, f = SlotImage(e, i, k, v),
         Good(m, d, f), Clean(d, f), NamesOf(Visible(d, f)) \in {B, A}
  PROVE  Reach(WriteEntry(s, i, es, k, v, n), c, m, d, f, B, A)
<1>1. e \in [Inodes -> Seq(Ent)]
  BY ReachGood DEF Good
<1>2. PICK h : h = Half(es, k, v) /\ h \in Ent
  BY <1>1, HalfIs
<1>3. PICK x : x = SlotImage(e, i, k, h)
  OBVIOUS
<1>4. PICK s1 : s1 = FirstHalf(s, i, es, k, v)
  OBVIOUS
<1>5. PICK y : Goes(s1, c, m, d, y, B, A) /\ SlotImage(y, i, k, v) = f
  <2>1. CASE Across(es, k, v.name)
    <3>1. s1 = WriteSlot(s, i, k, h) /\ Good(m, d, x) /\ Shows(d, x, B, A)
      BY <1>2, <1>3, <1>4, <2>1 DEF FirstHalf, HalfShows
    <3>2. Goes(s1, c, m, d, x, B, A)
      BY <1>3, <3>1, SlotGoes DEF Reach
    <3>3. PICK p, q : p = e[i] /\ q = SlotWritten(p, k, h) /\ p \in Seq(Ent)
      BY <1>1
    <3>4. SlotWritten(q, k, v) = SlotWritten(p, k, v)
      BY <1>2, <3>3, SlotTwice
    <3>5. x = [e EXCEPT ![i] = q] /\ x[i] = q
      BY <1>1, <1>3, <3>3 DEF SlotImage
    <3>6. SlotImage(x, i, k, v) = [e EXCEPT ![i] = SlotWritten(q, k, v)]
      BY <1>1, <3>5 DEF SlotImage
    <3>7. f = [e EXCEPT ![i] = SlotWritten(p, k, v)]
      BY <3>3 DEF SlotImage
    <3> QED BY <3>2, <3>4, <3>6, <3>7
  <2>2. CASE ~Across(es, k, v.name)
    BY <1>4, <2>2 DEF FirstHalf, Reach
  <2> QED BY <2>1, <2>2
<1>6. PICK l, s2 : l = LastOf(es, v.name) /\ s2 = Allocate(s1, i, l, n)
  OBVIOUS
<1>7. Goes(s2, c, m, d, y, B, A)
  BY <1>5, <1>6, AllocateGoes
<1>8. Shows(d, f, B, A)
  BY DEF Shows
<1>9. Goes(WriteSlot(s2, i, k, v), c, m, d, f, B, A)
  BY <1>5, <1>7, <1>8, SlotGoes
<1> QED BY <1>4, <1>6, <1>9 DEF Reach, WriteEntry

\* An entry beyond the size of inode i, or half of it, on an image.
LEMMA HiddenGood ==
  ASSUME NEW m, NEW d, NEW e, Good(m, d, e), Clean(d, e),
         NEW i \in Inodes, NEW k \in 1..Len(e[i]) + 1, k > d[i].n, NEW v \in Ent,
         NEW f, f = SlotImage(e, i, k, v)
  PROVE  /\ Good(m, d, f) /\ Clean(d, f) /\ SlotFacts(e, i, k, v, f)
         /\ Visible(d, f) = Visible(d, e)
<1>1. Shaped(d, e) /\ e \in [Inodes -> Seq(Ent)]
  BY DEF Good, Shaped
<1>2. SlotFacts(e, i, k, v, f)
  BY <1>1, SlotImageProperties
<1>3. Visible(d, f) = Visible(d, e)
  BY <1>1, HiddenSlot
<1>4. Good(m, d, f)
  BY <1>2, <1>3, SlotGood DEF Good
<1>5. k \in Nat
  BY <1>1
<1>6. Clean(d, f)
  BY <1>1, <1>2, <1>5, SlotClean
<1> QED BY <1>2, <1>3, <1>4, <1>6

\* An entry beyond the size of inode i: "." and ".." of a new directory, or
\* the name before the directory's size takes it in.
LEMMA HiddenReach ==
  ASSUME NEW s, NEW c, NEW m, NEW d, NEW e, NEW B, NEW A, Reach(s, c, m, d, e, B, A),
         NEW i \in Inodes, NEW k \in 1..Len(e[i]) + 1, k > d[i].n, NEW v \in Ent,
         NEW es \in Seq(Ent), NEW n \in Nat, NEW f, f = SlotImage(e, i, k, v)
  PROVE  /\ Reach(WriteEntry(s, i, es, k, v, n), c, m, d, f, B, A)
         /\ SlotFacts(e, i, k, v, f) /\ Visible(d, f) = Visible(d, e)
<1>1. Good(m, d, e) /\ Clean(d, e) /\ NamesOf(Visible(d, e)) \in {B, A}
  BY ReachGood
<1>2. /\ Good(m, d, f) /\ Clean(d, f) /\ SlotFacts(e, i, k, v, f)
      /\ Visible(d, f) = Visible(d, e)
  BY <1>1, HiddenGood
<1>3. HalfShows(m, d, e, i, es, k, v, B, A)
  <2>1. PICK h : h = Half(es, k, v) /\ h \in Ent
    BY <1>1, HalfIs DEF Good
  <2>2. PICK x : x = SlotImage(e, i, k, h)
    OBVIOUS
  <2>3. Good(m, d, x) /\ Clean(d, x) /\ Visible(d, x) = Visible(d, e)
    BY <1>1, <2>1, <2>2, HiddenGood
  <2> QED BY <1>1, <2>1, <2>2, <2>3 DEF HalfShows, Shows
<1>4. Reach(WriteEntry(s, i, es, k, v, n), c, m, d, f, B, A)
  BY <1>1, <1>2, <1>3, WriteReach
<1> QED BY <1>2, <1>4

\* The entries es that a command has read of directory i.
Listed(es, d, e, i) ==
    /\ es \in Seq(Ent) /\ Len(es) = d[i].n
    /\ \A j \in 1..d[i].n : es[j] = e[i][j]

\* Entries V are sound and have the names that B and A have in common, and nm
\* of directory i is in one of B and A only.
Between(m, V, i, nm, B, A) ==
    /\ Sound(m, V) /\ NamesOf(V) = B \cap A
    /\ \E t \in (B \cup A) \ (B \cap A) : t[1] = i /\ t[2] = nm

\* An entry within the size of directory i, if what can be seen then is sound,
\* and what can be seen when only half of it is there.
LEMMA ShownReach ==
  ASSUME NEW s, NEW c, NEW m, NEW d, NEW e, NEW B, NEW A, Reach(s, c, m, d, e, B, A),
         NEW i \in Inodes, d[i].type = "dir", NEW k \in 1..d[i].n,
         NEW v \in Ent, v.nr # Mixed, v.name \in Names,
         NEW es, Listed(es, d, e, i), NEW n \in Nat,
         NEW f, f = SlotImage(e, i, k, v),
         Sound(m, Visible(d, f)), NamesOf(Visible(d, f)) \in {B, A},
         NEW x, x = SlotImage(e, i, k, Entry(v.name, Mixed)),
         Between(m, Visible(d, x), i, v.name, B, A)
  PROVE  /\ Reach(WriteEntry(s, i, es, k, v, n), c, m, d, f, B, A)
         /\ SlotFacts(e, i, k, v, f)
<1>1. Good(m, d, e) /\ Clean(d, e) /\ NamesOf(Visible(d, e)) \in {B, A}
  BY ReachGood
<1>2. Shaped(d, e) /\ e \in [Inodes -> Seq(Ent)]
  BY <1>1 DEF Good, Shaped
<1>3. PICK l \in Nat : l = d[i].n /\ l <= Len(e[i]) /\ Len(e[i]) \in Nat
  BY <1>2 DEF Shaped, Dinode
<1>4. k \in 1..Len(e[i]) + 1 /\ k \in 1..Len(e[i]) /\ k \in Nat \ {0} /\ k \in 1..l
  BY <1>3
<1>5. SlotFacts(e, i, k, v, f)
  BY <1>2, <1>4, SlotImageProperties
<1>6. Good(m, d, f)
  BY <1>1, <1>5, SlotGood
<1>7. Clean(d, f)
  BY <1>1, <1>2, <1>4, <1>5, SlotClean
<1>8. PICK nm : nm = v.name /\ nm \in Names
  OBVIOUS
<1>9. Entry(nm, Mixed) \in Ent
  BY <1>8 DEF Entry, Ent
<1>10. SlotFacts(e, i, k, Entry(nm, Mixed), x)
  BY <1>2, <1>4, <1>8, <1>9, SlotImageProperties
<1>11. Good(m, d, x)
  BY <1>1, <1>10, SlotGood DEF Between
<1>12. ASSUME Across(es, k, nm) PROVE Halved(d, x, B, A)
  <2>1. PICK p : p = e[i] /\ p \in Seq(Ent)
    BY <1>2
  <2>2. /\ es \in Seq(Ent) /\ k - 1 <= Len(p) /\ k - 1 <= Len(es)
        /\ \A j \in 1..k - 1 : p[j] = es[j]
    BY <1>3, <1>4, <2>1 DEF Listed
  <2>3. Across(p, k, nm)
    BY <1>4, <1>12, <2>1, <2>2, AcrossSame
  <2>4. TornAt(d, x, i, k, nm)
    BY <1>1, <1>2, <1>8, <1>10, <2>1, <2>3, SlotTorn
  <2>5. PICK t \in (B \cup A) \ (B \cap A) : t[1] = i /\ t[2] = nm
    BY <1>8 DEF Between
  <2> QED BY <1>8, <2>4, <2>5 DEF Halved, Between
<1>13. HalfShows(m, d, e, i, es, k, v, B, A)
  <2> SUFFICES ASSUME Across(es, k, v.name), NEW y, y = SlotImage(e, i, k, Half(es, k, v))
               PROVE  Good(m, d, y) /\ Shows(d, y, B, A)
    BY DEF HalfShows
  <2>1. PICK h : h = Half(es, k, v)
    OBVIOUS
  <2>2. h = v \/ h = Entry(nm, Mixed) \/ h = e[i][k]
    BY <1>4, <1>8, <2>1, HalfIs DEF Listed
  <2>3. CASE h = v
    BY <1>6, <1>7, <2>1, <2>3 DEF Shows
  <2>4. CASE h = Entry(nm, Mixed)
    BY <1>8, <1>11, <1>12, <2>1, <2>4 DEF Shows
  <2>5. CASE h = e[i][k]
    <3>1. PICK p : p = e[i] /\ p \in Seq(Ent) /\ k \in 1..Len(p) /\ p[k] \in Ent
      BY <1>2, <1>4
    <3>2. SlotWritten(p, k, p[k]) = p
      <4>1. k \in 1..Len(p) + 1 /\ k <= Len(p)
        BY <3>1
      <4> QED BY <3>1, <4>1, SlotTwice
    <3>3. y = e
      BY <1>2, <2>1, <2>5, <3>1, <3>2 DEF SlotImage
    <3> QED BY <1>1, <3>3 DEF Shows
  <2> QED BY <2>2, <2>3, <2>4, <2>5
<1>14. Reach(WriteEntry(s, i, es, k, v, n), c, m, d, f, B, A)
  BY <1>4, <1>6, <1>7, <1>13, WriteReach DEF Listed
<1> QED BY <1>5, <1>14

\* An inode written, if what can be seen then is sound.
LEMMA SyncReach ==
  ASSUME NEW s, NEW c, NEW m, NEW d, NEW e, NEW B, NEW A, Reach(s, c, m, d, e, B, A),
         NEW i \in Inodes, NEW p \in Dinode, p.n <= Len(e[i]), i = Root => p.type = "dir",
         \A j \in 1..p.n : e[i][j].nr # Mixed,
         NEW g, g = NodeImage(d, i, p), NEW f, f = CutImage(e, i, p),
         Sound(m, Visible(g, f)), NamesOf(Visible(g, f)) \in {B, A}
  PROVE  Reach(SyncInode(s, i, p), c, m, g, f, B, A)
<1>1. Good(m, d, e)
  BY ReachGood
<1>2. /\ d \in [Inodes -> Dinode] /\ e \in [Inodes -> Seq(Ent)]
      /\ \A h \in Inodes : d[h].n <= Len(e[h])
  BY <1>1 DEF Good
<1>3. NodeFacts(d, e, i, p, g, f)
  BY <1>2, NodeImageProperties
<1>4. g[Root].type = "dir"
  <2>1. Root \in Inodes
    BY SizeAssumption DEF Root, Inodes
  <2> QED BY <1>1, <1>3, <2>1 DEF NodeFacts, Good
<1>5. Good(m, g, f)
  BY <1>3, <1>4 DEF NodeFacts, Good
<1>6. Clean(g, f)
  BY <1>3, ReachGood, NodeClean
<1> QED BY <1>5, <1>6, NodeReach

\* An inode that keeps its type and its size written.
LEMMA SameReach ==
  ASSUME NEW s, NEW c, NEW m, NEW d, NEW e, NEW B, NEW A, Reach(s, c, m, d, e, B, A),
         NEW i \in Inodes, NEW p \in Dinode, p.type = d[i].type, p.n = d[i].n,
         NEW g, g = NodeImage(d, i, p), NEW f, f = CutImage(e, i, p)
  PROVE  /\ Reach(SyncInode(s, i, p), c, m, g, f, B, A)
         /\ NodeFacts(d, e, i, p, g, f) /\ Visible(g, f) = Visible(d, e)
<1>1. Good(m, d, e) /\ NamesOf(Visible(d, e)) \in {B, A}
  BY ReachGood
<1>2. /\ d \in [Inodes -> Dinode] /\ e \in [Inodes -> Seq(Ent)]
      /\ \A h \in Inodes : d[h].n <= Len(e[h])
  BY <1>1 DEF Good
<1>3. p.n <= Len(e[i]) /\ (i = Root => p.type = "dir")
      /\ \A j \in 1..p.n : e[i][j].nr # Mixed
  BY <1>1, <1>2, ReachGood DEF Good, Clean
<1>4. NodeFacts(d, e, i, p, g, f)
  BY <1>2, <1>3, NodeImageProperties
<1>5. Visible(g, f) = Visible(d, e)
  BY <1>2, <1>4, SameNode
<1>6. Sound(m, Visible(g, f)) /\ NamesOf(Visible(g, f)) \in {B, A}
  BY <1>1, <1>5 DEF Good
<1>7. Reach(SyncInode(s, i, p), c, m, g, f, B, A)
  BY <1>3, <1>6, SyncReach
<1> QED BY <1>4, <1>5, <1>7

\* An inode of size zero written, in which there were no names.
LEMMA EmptyReach ==
  ASSUME NEW s, NEW c, NEW m, NEW d, NEW e, NEW B, NEW A, Reach(s, c, m, d, e, B, A),
         NEW i \in Inodes, NEW p \in Dinode, p.n = 0, i # Root,
         \A v \in User(Visible(d, e)) : v[1] # i,
         NEW g, g = NodeImage(d, i, p), NEW f, f = CutImage(e, i, p)
  PROVE  /\ Reach(SyncInode(s, i, p), c, m, g, f, B, A)
         /\ NodeFacts(d, e, i, p, g, f)
         /\ User(Visible(g, f)) = User(Visible(d, e))
<1>1. Good(m, d, e) /\ NamesOf(Visible(d, e)) \in {B, A}
  BY ReachGood
<1>2. /\ d \in [Inodes -> Dinode] /\ e \in [Inodes -> Seq(Ent)]
      /\ \A h \in Inodes : d[h].n <= Len(e[h])
  BY <1>1 DEF Good
<1>3. p.n <= Len(e[i]) /\ \A j \in 1..p.n : e[i][j].nr # Mixed
  BY <1>2
<1>4. NodeFacts(d, e, i, p, g, f)
  BY <1>2, <1>3, NodeImageProperties
<1>5. PICK V : V = Visible(d, e) /\ Sound(m, V) /\ \A v \in User(V) : v[1] # i
  BY <1>1 DEF Good
<1>6. PICK W : W = Visible(g, f)
  OBVIOUS
<1>7. W = {v \in V : v[1] # i}
  BY <1>2, <1>4, <1>5, <1>6, EmptyNode
<1>8. Sound(m, W) /\ User(W) = User(V) /\ NamesOf(W) = NamesOf(V)
  BY <1>5, <1>7, ClearSound
<1>9. Reach(SyncInode(s, i, p), c, m, g, f, B, A)
  BY <1>1, <1>3, <1>5, <1>6, <1>8, SyncReach
<1> QED BY <1>4, <1>5, <1>6, <1>8, <1>9

\* An inode removed that has no name and no names in it.
LEMMA RemoveReach ==
  ASSUME NEW s, NEW c, NEW m, NEW d, NEW e, NEW B, NEW A, Reach(s, c, m, d, e, B, A),
         NEW i \in Inodes, i # Root, NEW node \in Dinode,
         \A u \in User(Visible(d, e)) : u[4] # i /\ u[1] # i,
         NEW g, g = NodeImage(d, i, Zero), NEW f, f = CutImage(e, i, Zero)
  PROVE  /\ Reach(RemoveInode(s, i, node), c, m \ {i}, g, f, B, A)
         /\ NodeFacts(d, e, i, Zero, g, f)
         /\ User(Visible(g, f)) = User(Visible(d, e))
<1>1. PICK n : n = BlocksOf(node.b) /\ n \in Nat
  BY DEF BlocksOf, Dinode
<1>2. PICK s1 : s1 = FreeBlocks(s, n) /\ Reach(s1, c, m, d, e, B, A)
  BY <1>1, FreeGoes DEF Reach
<1>3. PICK s2 : s2 = UnmarkInode(s1, i) /\ Reach(s2, c, m \ {i}, d, e, B, A)
  BY <1>2, UnmarkReach
<1>4. Zero \in Dinode /\ Zero.n = 0
  BY DEF Zero, Dinode
<1>5. /\ Reach(SyncInode(s2, i, Zero), c, m \ {i}, g, f, B, A)
      /\ NodeFacts(d, e, i, Zero, g, f)
      /\ User(Visible(g, f)) = User(Visible(d, e))
  BY <1>3, <1>4, EmptyReach
<1>6. RemoveInode(s, i, node) = SyncInode(s2, i, Zero)
  BY <1>1, <1>2, <1>3 DEF RemoveInode
<1> QED BY <1>5, <1>6

-----------------------------------------------------------------------------
(* The process between two commands.                                       *)

\* What the inode cache holds after inode i was changed to node.
LEMMA KeptProperties ==
  ASSUME NEW q \in [Inodes -> InCore], NEW i \in Inodes, NEW node \in Dinode
  PROVE  /\ Kept(q, i, node) \in [Inodes -> InCore]
         /\ \A h \in Inodes : /\ Kept(q, i, node)[h].count = q[h].count
                              /\ h # i => Kept(q, i, node)[h] = q[h]
         /\ q[i].count > 0 => Kept(q, i, node)[i].node = node
<1>1. PICK r : r = Kept(q, i, node)
  OBVIOUS
<1>2. CASE q[i].count > 0
  <2>1. r = [q EXCEPT ![i].node = node, ![i].dirty = FALSE]
    BY <1>1, <1>2 DEF Kept
  <2>2. q[i] \in InCore
    OBVIOUS
  <2>3. r = [q EXCEPT ![i] = [q[i] EXCEPT !.node = node, !.dirty = FALSE]]
    BY <2>1
  <2>4. PICK x : x = [q[i] EXCEPT !.node = node, !.dirty = FALSE]
    OBVIOUS
  <2>5. x \in InCore /\ x.count = q[i].count /\ x.node = node
    BY <2>2, <2>4 DEF InCore
  <2>6. r[i] = x /\ r \in [Inodes -> InCore] /\ \A h \in Inodes : h # i => r[h] = q[h]
    BY <2>3, <2>4, <2>5
  <2>7. \A h \in Inodes : r[h].count = q[h].count
    BY <2>5, <2>6
  <2> QED BY <1>1, <2>5, <2>6, <2>7
<1>3. CASE ~(q[i].count > 0)
  BY <1>3 DEF Kept
<1> QED BY <1>2, <1>3

\* The process is idle: memory and disk agree.
LEMMA IdleFacts ==
  ASSUME IInv, Idle
  PROVE  /\ mode = "run" /\ IsDisk(disk) /\ IsSuper(sb)
         /\ core \in [Inodes -> InCore] /\ lost \in [Inodes -> Nat]
         /\ Good(disk.imap, disk.dinode, disk.ents) /\ Clean(disk.dinode, disk.ents)
         /\ sb.imap = disk.imap /\ UserNames(disk) = NamesOf(Visible(disk.dinode, disk.ents))
         /\ UserNames(disk) = after /\ Process(Image(disk))
<1>1. mode = "run" /\ sb.log = <<>>
  BY DEF Idle
<1>2. IsDisk(disk) /\ IsSuper(sb) /\ core \in [Inodes -> InCore] /\ lost \in [Inodes -> Nat] /\ Running
  BY <1>1 DEF IInv
<1>3. PICK z : /\ Leads(<<>>, Image(disk), z, before, after) /\ Clean(z[2], z[3])
               /\ sb.imap = z[1] /\ NamesOf(Visible(z[2], z[3])) = after /\ Process(z)
  BY <1>1, <1>2 DEF Running
<1>4. z = Image(disk) /\ Fine(z, before, after)
  BY <1>3, NoWrites, LeadsEnds
<1>5. z[1] = disk.imap /\ z[2] = disk.dinode /\ z[3] = disk.ents
  BY <1>4 DEF Image
<1>6. Good(disk.imap, disk.dinode, disk.ents)
  BY <1>4, <1>5 DEF Fine
<1>7. UserNames(disk) = NamesOf(Visible(disk.dinode, disk.ents))
  BY <1>3, <1>5, <1>6, NamesSeen DEF Good, Shaped
<1> QED BY <1>1, <1>2, <1>3, <1>4, <1>5, <1>6, <1>7

\* A command may start to write.
LEMMA IdleReach ==
  ASSUME IInv, Idle, NEW B, NEW A, UserNames(disk) \in {B, A}
  PROVE  Reach(sb, Image(disk), disk.imap, disk.dinode, disk.ents, B, A)
<1>1. Image(disk) = <<disk.imap, disk.dinode, disk.ents>>
  BY DEF Image
<1>2. Fine(Image(disk), B, A)
  BY <1>1, IdleFacts DEF Fine, Shows
<1>3. Leads(<<>>, Image(disk), Image(disk), B, A)
  BY <1>2, NoWrites
<1>4. IsSuper(sb) /\ sb.imap = disk.imap /\ sb.log = <<>>
  BY IdleFacts DEF Idle
<1> QED BY <1>1, <1>3, <1>4, IdleFacts DEF Reach, Goes

\* Inodes come from the cache or the disk, which is the same.
LEMMA IdleNodes ==
  ASSUME IInv, Idle
  PROVE  /\ cwd \in Inodes /\ disk.dinode[cwd].type = "dir"
         /\ Reached(Visible(disk.dinode, disk.ents), cwd)
         /\ \A i \in Inodes : Node(i) = disk.dinode[i]
         /\ core[cwd].node = disk.dinode[cwd] /\ core[cwd].count > 0
         /\ \A i \in Inodes : core[i].count > 0 => core[i].node = disk.dinode[i]
         /\ \A i \in Inodes : core[i].count = lost[i] + IF i = cwd THEN 1 ELSE 0
<1>1. Image(disk)[2] = disk.dinode /\ Image(disk)[3] = disk.ents
  BY DEF Image
<1>2. Process(Image(disk)) /\ lost \in [Inodes -> Nat]
  BY IdleFacts
<1>3. core[cwd].count > 0
  BY <1>2 DEF Process
<1> QED BY <1>1, <1>2, <1>3 DEF Process, Node, ReadInode

\* The entries that a lookup goes through.
LEMMA EntriesOf ==
  ASSUME IInv, Idle, NEW i \in Inodes
  PROVE  /\ Entries(i) \in Seq(Ent) /\ Len(Entries(i)) = disk.dinode[i].n
         /\ disk.dinode[i].n \in Nat
         /\ \A k \in 1..disk.dinode[i].n : Entries(i)[k] = disk.ents[i][k]
         /\ Listed(Entries(i), disk.dinode, disk.ents, i)
<1>1. Good(disk.imap, disk.dinode, disk.ents) /\ Node(i) = disk.dinode[i]
  BY IdleFacts, IdleNodes
<1>2. PICK s : s = disk.ents[i] /\ s \in Seq(Ent)
  BY <1>1 DEF Good
<1>3. PICK n : n = disk.dinode[i].n /\ n \in 0..Len(s)
  BY <1>1, <1>2 DEF Good, Dinode
<1>4. Entries(i) = SubSeq(s, 1, n)
  BY <1>1, <1>2, <1>3 DEF Entries
<1>5. /\ Entries(i) \in Seq(Ent) /\ Len(Entries(i)) = n
      /\ \A k \in 1..n : Entries(i)[k] = s[k]
  BY <1>2, <1>3, <1>4, CutProperties
<1> QED BY <1>2, <1>3, <1>5 DEF Listed

\* A lookup that succeeds has found an entry that can be seen.
LEMMA LookupFinds ==
  ASSUME IInv, Idle, NEW i \in Inodes, NEW nm \in Names \cup {Dot, DotDot}, Lookup(i, nm) # Gone
  PROVE  /\ Min(SlotsOf(i, nm)) \in 1..disk.dinode[i].n
         /\ Lookup(i, nm) \in Inodes
         /\ disk.ents[i][Min(SlotsOf(i, nm))] = Entry(nm, Lookup(i, nm))
<1>1. /\ Entries(i) \in Seq(Ent) /\ Len(Entries(i)) = disk.dinode[i].n
      /\ disk.dinode[i].n \in Nat
      /\ \A k \in 1..disk.dinode[i].n : Entries(i)[k] = disk.ents[i][k]
  BY EntriesOf
<1>2. Node(i).n = disk.dinode[i].n
  BY IdleNodes
<1>3. PICK T : T = SlotsOf(i, nm)
  OBVIOUS
<1>4. T # {} /\ T \subseteq Nat
  BY <1>1, <1>2, <1>3 DEF Lookup, SlotsOf
<1>5. PICK k : k = Min(T) /\ k \in T
  BY <1>4, MinIsIn
<1>6. PICK x : x = Entries(i)[k]
  OBVIOUS
<1>7. k \in 1..disk.dinode[i].n /\ x.name = nm /\ x.nr # Gone
  BY <1>2, <1>3, <1>5, <1>6 DEF SlotsOf
<1>8. x \in Ent /\ x = disk.ents[i][k]
  BY <1>1, <1>6, <1>7
<1>9. Lookup(i, nm) = x.nr
  BY <1>3, <1>4, <1>5, <1>6 DEF Lookup
<1>10. x.nr \in Inodes /\ x = Entry(nm, x.nr)
  <2>1. x.nr # Mixed
    BY <1>7, <1>8, IdleFacts DEF Clean
  <2> QED BY <1>7, <1>8, <2>1 DEF Ent, Entry
<1> QED BY <1>3, <1>5, <1>7, <1>8, <1>9, <1>10

\* In a directory, that entry is one of the visible ones.
LEMMA LookupSees ==
  ASSUME IInv, Idle, NEW i \in Inodes, disk.dinode[i].type = "dir",
         NEW nm \in Names \cup {Dot, DotDot}, Lookup(i, nm) # Gone
  PROVE  <<i, Min(SlotsOf(i, nm)), nm, Lookup(i, nm)>> \in Visible(disk.dinode, disk.ents)
<1>1. PICK k, t : k = Min(SlotsOf(i, nm)) /\ t = Lookup(i, nm)
  OBVIOUS
<1>2. k \in 1..disk.dinode[i].n /\ t \in Inodes /\ disk.ents[i][k] = Entry(nm, t)
  BY <1>1, LookupFinds
<1>3. k \in Nat
  BY <1>2, EntriesOf
<1>4. PICK x : x = <<i, k, nm, t>>
  OBVIOUS
<1>5. x \in Place /\ x[1] = i /\ x[2] = k /\ x[3] = nm /\ x[4] = t
  BY <1>2, <1>3, <1>4 DEF Place
<1>6. x \in Visible(disk.dinode, disk.ents)
  BY <1>2, <1>5 DEF Visible, Place
<1> QED BY <1>1, <1>4, <1>6

\* The new inode is not the root, not the current directory, and has no name;
\* no names are in it.
LEMMA FreshFacts ==
  ASSUME IInv, Idle, FreeBits # {}
  PROVE  /\ Fresh # Root /\ Fresh # cwd /\ Fresh \notin disk.imap
         /\ \A u \in User(Visible(disk.dinode, disk.ents)) : u[4] # Fresh /\ u[1] # Fresh
<1>1. PICK T : T = FreeBits
  OBVIOUS
<1>2. T \subseteq Nat /\ T # {}
  BY <1>1, SizeAssumption DEF FreeBits
<1>3. Fresh \in T
  BY <1>1, <1>2, MinIsIn DEF Fresh
<1>4. Fresh \notin disk.imap
  BY <1>1, <1>3, IdleFacts DEF FreeBits
<1>5. PICK V : V = Visible(disk.dinode, disk.ents) /\ Sound(disk.imap, V)
  BY IdleFacts DEF Good
<1>6. \A j : Reached(V, j) => j # Fresh
  BY <1>4, <1>5 DEF Sound, Reached
<1>7. Reached(V, cwd) /\ Reached(V, Root)
  BY <1>5, IdleNodes DEF Reached
<1>8. \A u \in User(V) : u[4] # Fresh /\ u[1] # Fresh
  BY <1>4, <1>5, <1>6 DEF Sound
<1> QED BY <1>4, <1>5, <1>6, <1>7, <1>8

\* A command whose writes lead to image <<m, d, e>> keeps the invariant, if
\* the inodes in memory are those of that image.
LEMMA DoesKeeps ==
  ASSUME IInv, Idle, NEW s, NEW q, NEW A, Does(s, q, A),
         NEW m, NEW d, NEW e, Reach(s, Image(disk), m, d, e, UserNames(disk), A),
         NamesOf(Visible(d, e)) = A,
         q \in [Inodes -> InCore],
         \A i \in Inodes : q[i].count = core[i].count,
         \A i \in Inodes : q[i].count > 0 => q[i].node = d[i],
         d[cwd].type = "dir", Reached(Visible(d, e), cwd)
  PROVE  IInv'
<1>1. /\ sb' = s /\ core' = q /\ before' = UserNames(disk) /\ after' = A
      /\ disk' = disk /\ cwd' = cwd /\ mode' = mode /\ lost' = lost
  BY DEF Does
<1>2. mode' = "run" /\ IsDisk(disk)' /\ lost' \in [Inodes -> Nat]
  BY <1>1, IdleFacts DEF IsDisk
<1>3. PICK z : z = <<m, d, e>>
  OBVIOUS
<1>4. /\ IsSuper(s) /\ s.imap = m /\ Leads(s.log, Image(disk), z, UserNames(disk), A)
      /\ Clean(d, e)
  BY <1>3 DEF Reach, Goes
<1>5. z[1] = m /\ z[2] = d /\ z[3] = e
  BY <1>3
<1>6. Process(z)'
  <2>1. cwd \in Inodes /\ \A i \in Inodes : core[i].count = lost[i] + IF i = cwd THEN 1 ELSE 0
    BY IdleNodes
  <2> QED BY <1>1, <1>5, <2>1 DEF Process
<1>7. Leads(sb.log, Image(disk), z, before, after)'
  BY <1>1, <1>4
<1>8. (sb.imap = z[1] /\ NamesOf(Visible(z[2], z[3])) = after)'
  BY <1>1, <1>4, <1>5
<1>9. Running'
  BY <1>4, <1>5, <1>6, <1>7, <1>8 DEF Running
<1>10. IsSuper(sb)' /\ core' \in [Inodes -> InCore]
  BY <1>1, <1>4 DEF IsSuper
<1> QED BY <1>2, <1>9, <1>10 DEF IInv

-----------------------------------------------------------------------------
(* The commands.                                                           *)

\* What names depend on.
LEMMA SameUser ==
  ASSUME NEW V, NEW W, User(W) = User(V)
  PROVE  NamesOf(W) = NamesOf(V) /\ \A j : Reached(W, j) <=> Reached(V, j)
BY DEF NamesOf, Reached

\* The write of a block keeps the invariant.
LEMMA WriteKeeps ==
  ASSUME IInv, NEW nm \in Names, Write(nm)
  PROVE  IInv'
<1>1. Idle /\ Lookup(cwd, nm) # Gone
  BY DEF Write
<1>2. PICK i : i = Lookup(cwd, nm) /\ i \in Inodes
  BY <1>1, LookupFinds, IdleNodes
<1>3. PICK d, e : d = disk.dinode /\ e = disk.ents
  OBVIOUS
<1>4. Good(disk.imap, d, e) /\ Node(i) = d[i] /\ d[i] \in Dinode
  BY <1>1, <1>2, <1>3, IdleFacts, IdleNodes DEF Good
<1>5. PICK l, n : l = Node(i).b /\ n = (IF l < Mapped(i) THEN 0 ELSE Needed(l)) /\ n \in Nat
  BY DEF Needed
<1>6. PICK p : p = [d[i] EXCEPT !.b = @ + 1, !.c = @ + n]
  OBVIOUS
<1>7. p \in Dinode /\ p.type = d[i].type /\ p.n = d[i].n
  <2>1. n \in Nat /\ d[i].b \in Nat /\ d[i].c \in Nat
    BY <1>4, <1>5 DEF Dinode
  <2>2. PICK y \in Nat : y = d[i].b + 1
    BY <2>1
  <2>3. PICK z \in Nat : z = d[i].c + n
    BY <2>1
  <2>4. p = [d[i] EXCEPT !.b = y, !.c = z]
    BY <1>4, <1>6, <2>2, <2>3 DEF Dinode
  <2> QED BY ONLY <1>4, y \in Nat, z \in Nat, <2>4 DEF Dinode
<1>8. PICK s : s = SyncInode(Allocate(sb, i, l, n), i, p)
  OBVIOUS
<1>9. PICK q : q = Kept(core, i, p)
  OBVIOUS
<1>10. PICK A : A = UserNames(disk)
  OBVIOUS
<1>11. Does(s, q, A)
  BY <1>2, <1>4, <1>5, <1>6, <1>8, <1>9, <1>10 DEF Write
<1>12. Reach(sb, Image(disk), disk.imap, d, e, A, A)
  BY <1>1, <1>3, <1>10, IdleReach
<1>13. PICK s1 : s1 = Allocate(sb, i, l, n) /\ Reach(s1, Image(disk), disk.imap, d, e, A, A)
  BY <1>5, <1>12, AllocateGoes DEF Reach
<1>14. PICK g, f : g = NodeImage(d, i, p) /\ f = CutImage(e, i, p)
  OBVIOUS
<1>15. /\ Reach(s, Image(disk), disk.imap, g, f, A, A)
       /\ NodeFacts(d, e, i, p, g, f) /\ Visible(g, f) = Visible(d, e)
  BY <1>2, <1>7, <1>8, <1>13, <1>14, SameReach
<1>16. g[i] = p /\ \A h \in Inodes : h # i => g[h] = d[h]
  BY <1>15 DEF NodeFacts
<1>17. NamesOf(Visible(g, f)) = A
  BY <1>1, <1>3, <1>10, <1>15, IdleFacts
<1>18. core \in [Inodes -> InCore]
  BY <1>1, IdleFacts
<1>19. /\ q \in [Inodes -> InCore]
       /\ \A h \in Inodes : q[h].count = core[h].count /\ (h # i => q[h] = core[h])
       /\ core[i].count > 0 => q[i].node = p
  BY <1>2, <1>7, <1>9, <1>18, KeptProperties
<1>20. \A h \in Inodes : core[h].count > 0 => core[h].node = d[h]
  BY <1>1, <1>3, IdleNodes
<1>21. ASSUME NEW h \in Inodes, q[h].count > 0 PROVE q[h].node = g[h]
  BY <1>16, <1>19, <1>20, <1>21
<1>22. cwd \in Inodes /\ d[cwd].type = "dir" /\ Reached(Visible(d, e), cwd)
  BY <1>1, <1>3, IdleNodes
<1>23. g[cwd].type = "dir" /\ Reached(Visible(g, f), cwd)
  BY <1>7, <1>15, <1>16, <1>22
<1> QED BY <1>1, <1>10, <1>11, <1>15, <1>17, <1>19, <1>21, <1>23, DoesKeeps

\* The bit of an inode beyond the last one, taken and given back.
LEMMA CreateNoInodeKeeps ==
  ASSUME IInv, NEW nm \in Names, CreateNoInode(nm)
  PROVE  IInv'
<1>1. Idle /\ FreeBits # {}
  BY DEF CreateNoInode, CanCreate
<1>2. PICK m, d, e : m = disk.imap /\ d = disk.dinode /\ e = disk.ents
  OBVIOUS
<1>3. PICK t : t = Fresh
  OBVIOUS
<1>4. t # Root /\ t \notin m /\ \A u \in User(Visible(d, e)) : u[4] # t
  BY <1>1, <1>2, <1>3, FreshFacts
<1>5. PICK A : A = UserNames(disk)
  OBVIOUS
<1>6. Reach(sb, Image(disk), m, d, e, A, A)
  BY <1>1, <1>2, <1>5, IdleReach
<1>7. PICK s1 : s1 = MarkInode(sb, t) /\ Reach(s1, Image(disk), m \cup {t}, d, e, A, A)
  BY <1>6, MarkReach
<1>8. PICK s : s = UnmarkInode(s1, t) /\ Reach(s, Image(disk), (m \cup {t}) \ {t}, d, e, A, A)
  BY <1>4, <1>7, UnmarkReach
<1>9. Does(s, core, A)
  BY <1>3, <1>5, <1>7, <1>8 DEF CreateNoInode
<1>10. /\ NamesOf(Visible(d, e)) = A /\ core \in [Inodes -> InCore]
       /\ \A i \in Inodes : core[i].count > 0 => core[i].node = d[i]
       /\ d[cwd].type = "dir" /\ Reached(Visible(d, e), cwd)
  BY <1>1, <1>2, <1>5, IdleFacts, IdleNodes
<1> QED BY <1>1, <1>5, <1>8, <1>9, <1>10, DoesKeeps

\* The entry of a name deleted, in a directory that is sound.
LEMMA UnnameReach ==
  ASSUME NEW s, NEW c, NEW m, NEW d, NEW e, NEW B, NEW A, Reach(s, c, m, d, e, B, A),
         NEW i \in Inodes, d[i].type = "dir", NEW k \in 1..d[i].n, NEW nm \in Names,
         NEW t \in Inodes, e[i][k] = Entry(nm, t),
         \A v \in User(Visible(d, e)) : v[1] # t,
         B = NamesOf(Visible(d, e)), A = B \ {<<i, nm, t>>},
         NEW es, Listed(es, d, e, i), NEW n \in Nat,
         NEW f, f = SlotImage(e, i, k, Entry(nm, Gone))
  PROVE  /\ Reach(WriteEntry(s, i, es, k, Entry(nm, Gone), n), c, m, d, f, B, A)
         /\ NamesOf(Visible(d, f)) = A /\ t # Root /\ t # i
         /\ User(Visible(d, f)) = {u \in User(Visible(d, e)) : u[4] # t}
<1>1. Good(m, d, e)
  BY ReachGood
<1>2. /\ d \in [Inodes -> Dinode] /\ e \in [Inodes -> Seq(Ent)]
      /\ \A h \in Inodes : d[h].n <= Len(e[h])
  BY <1>1 DEF Good
<1>3. PICK V : V = Visible(d, e) /\ Sound(m, V)
  BY <1>1 DEF Good
<1>4. PICK x : x = <<i, k, nm, t>>
  OBVIOUS
<1>5. x \in Place /\ x[1] = i /\ x[2] = k /\ x[3] = nm /\ x[4] = t
  <2>1. k \in Nat
    BY <1>2 DEF Dinode
  <2> QED BY <1>4, <2>1 DEF Place
<1>6. x \in User(V)
  BY <1>3, <1>5 DEF Visible, User, Place
<1>7. PICK W : W = Visible(d, f)
  OBVIOUS
<1>0. PICK y : y = SlotImage(e, i, k, Entry(nm, Mixed))
  OBVIOUS
<1>8. W = V \ {x} /\ Visible(d, y) = W
  <2>1. Shaped(d, e)
    BY <1>2 DEF Shaped
  <2>2. Visible(d, f) = Visible(d, e) \ {<<i, k, nm, t>>}
    BY <2>1, GoneSlot
  <2>3. Visible(d, y) = Visible(d, e) \ {<<i, k, nm, t>>}
    BY <1>0, <2>1, GoneSlot
  <2> QED BY <1>3, <1>4, <1>7, <2>2, <2>3
<1>9. \A v \in User(V) : v[1] # x[4]
  BY <1>3, <1>5
<1>10. /\ Sound(m, W) /\ User(W) = User(V) \ {x} /\ \A u \in User(W) : u[4] # x[4]
       /\ NamesOf(W) = NamesOf(V) \ {<<x[1], x[3], x[4]>>}
  BY <1>3, <1>6, <1>8, <1>9, RemoveSound
<1>11. NamesOf(W) = A
  BY <1>3, <1>5, <1>10
<1>12. PICK v : v = Entry(nm, Gone) /\ v \in Ent /\ v.name = nm /\ v.nr # Mixed
  BY DEF Entry, Ent, Gone, Mixed
<1>13. Reach(WriteEntry(s, i, es, k, Entry(nm, Gone), n), c, m, d, f, B, A)
  <2>1. PICK y3 : y3 = <<i, nm, t>> /\ y3[1] = i /\ y3[2] = nm /\ y3 \in B /\ y3 \notin A
    <3>1. <<x[1], x[3], x[4]>> \in NamesOf(V)
      BY <1>6 DEF NamesOf
    <3> QED BY <1>3, <1>5, <3>1
  <2>2. Between(m, Visible(d, y), i, nm, B, A)
    BY <1>8, <1>10, <1>11, <2>1 DEF Between
  <2>3. /\ f = SlotImage(e, i, k, v) /\ y = SlotImage(e, i, k, Entry(v.name, Mixed))
        /\ v.name \in Names /\ Between(m, Visible(d, y), i, v.name, B, A)
    BY <1>0, <1>12, <2>2
  <2>4. Sound(m, Visible(d, f)) /\ NamesOf(Visible(d, f)) \in {B, A}
    BY <1>7, <1>10, <1>11
  <2>5. Reach(WriteEntry(s, i, es, k, v, n), c, m, d, f, B, A)
    BY <1>12, <2>3, <2>4, ShownReach
  <2> QED BY <1>12, <2>5
<1>14. t # Root /\ t # i
  BY <1>3, <1>5, <1>6 DEF Sound
<1>15. User(W) = {u \in User(V) : u[4] # t}
  BY <1>5, <1>10
<1> QED BY <1>3, <1>7, <1>11, <1>13, <1>14, <1>15

\* rm first deletes the name, of an inode that has no names in it.
LEMMA UnnamesIt ==
  ASSUME IInv, NEW nm \in Names, CanRm(nm),
         NEW i, i = Lookup(cwd, nm), NEW k, k = Min(SlotsOf(cwd, nm)),
         NEW m, m = disk.imap, NEW d, d = disk.dinode,
         NEW B, B = UserNames(disk), NEW A, A = B \ {<<cwd, nm, i>>},
         NEW f, f = SlotImage(disk.ents, cwd, k, Entry(nm, Gone))
  PROVE  /\ i \in Inodes /\ i # Root /\ i # cwd /\ Node(i) = d[i] /\ d[i] \in Dinode
         /\ Reach(Unnamed(sb, k, nm), Image(disk), m, d, f, B, A)
         /\ NamesOf(Visible(d, f)) = A
         /\ \A u \in User(Visible(d, f)) : u[4] # i /\ u[1] # i
         /\ Reached(Visible(d, f), cwd)
<1>1. Idle /\ Lookup(cwd, nm) # Gone
  BY DEF CanRm
<1>2. /\ cwd \in Inodes /\ disk.dinode[cwd].type = "dir"
      /\ Reached(Visible(disk.dinode, disk.ents), cwd)
      /\ core[cwd].node = disk.dinode[cwd]
  BY <1>1, IdleNodes
<1>4. PICK e : e = disk.ents
  OBVIOUS
<1>5. i \in Inodes /\ k \in 1..d[cwd].n /\ e[cwd][k] = Entry(nm, i)
  BY <1>1, <1>2, <1>4, LookupFinds
<1>6. Good(m, d, e) /\ Node(i) = d[i] /\ d[i] \in Dinode
  BY <1>1, <1>2, <1>4, <1>5, IdleFacts, IdleNodes DEF Good
<1>7. ASSUME NEW v \in User(Visible(d, e)), v[1] = i PROVE FALSE
  <2>1. /\ v[3] \in Names /\ d[i].type = "dir" /\ v[2] \in 1..d[i].n
        /\ e[i][v[2]] = Entry(v[3], v[4]) /\ v[4] \in Inodes
    BY <1>7 DEF User, Visible
  <2>2. Children(i) = {}
    BY <1>6, <2>1 DEF CanRm, Empty
  <2>3. SlotsOf(i, v[3]) = {}
    BY <2>1, <2>2 DEF Children
  <2>4. Entries(i)[v[2]] = Entry(v[3], v[4]) /\ Node(i).n = d[i].n
    BY <1>1, <1>4, <1>5, <1>6, <2>1, EntriesOf
  <2>5. Entry(v[3], v[4]).name = v[3] /\ Entry(v[3], v[4]).nr # Gone
    BY <2>1, SizeAssumption DEF Entry, Inodes, Gone
  <2>6. v[2] \in SlotsOf(i, v[3])
    BY <2>1, <2>4, <2>5 DEF SlotsOf
  <2> QED BY <2>3, <2>6
<1>8. B = NamesOf(Visible(d, e))
  BY <1>1, <1>4, IdleFacts
<1>9. Reach(sb, Image(disk), m, d, e, B, A)
  BY <1>1, <1>4, IdleReach
<1>10. PICK es : es = Entries(cwd) /\ Listed(es, d, e, cwd)
  BY <1>1, <1>2, <1>4, EntriesOf
<1>11. /\ Reach(WriteEntry(sb, cwd, es, k, Entry(nm, Gone), 0), Image(disk), m, d, f, B, A)
       /\ NamesOf(Visible(d, f)) = A /\ i # Root /\ i # cwd
       /\ User(Visible(d, f)) = {u \in User(Visible(d, e)) : u[4] # i}
  BY <1>2, <1>4, <1>5, <1>7, <1>8, <1>9, <1>10, UnnameReach
<1>12. Reached(Visible(d, f), cwd)
  BY <1>2, <1>4, <1>11 DEF Reached
<1>13. \A u \in User(Visible(d, f)) : u[4] # i /\ u[1] # i
  BY <1>7, <1>11
<1> QED BY <1>5, <1>6, <1>10, <1>11, <1>12, <1>13 DEF Unnamed

\* rm keeps the invariant.
LEMMA RmKeeps ==
  ASSUME IInv, NEW nm \in Names, Rm(nm)
  PROVE  IInv'
<1>1. Idle /\ Lookup(cwd, nm) # Gone
  BY DEF Rm, CanRm
<1>2. /\ cwd \in Inodes /\ disk.dinode[cwd].type = "dir"
      /\ Reached(Visible(disk.dinode, disk.ents), cwd)
      /\ core[cwd].node = disk.dinode[cwd]
  BY <1>1, IdleNodes
<1>3. PICK i, k : i = Lookup(cwd, nm) /\ k = Min(SlotsOf(cwd, nm))
  OBVIOUS
<1>4. PICK m, d, e : m = disk.imap /\ d = disk.dinode /\ e = disk.ents
  OBVIOUS
<1>5. PICK B, A : B = UserNames(disk) /\ A = B \ {<<cwd, nm, i>>}
  OBVIOUS
<1>6. PICK s1, e1 : s1 = Unnamed(sb, k, nm) /\ e1 = SlotImage(e, cwd, k, Entry(nm, Gone))
  OBVIOUS
<1>7. /\ i \in Inodes /\ i # Root /\ i # cwd /\ Node(i) = d[i] /\ d[i] \in Dinode
      /\ Reach(s1, Image(disk), m, d, e1, B, A)
      /\ NamesOf(Visible(d, e1)) = A
      /\ \A u \in User(Visible(d, e1)) : u[4] # i /\ u[1] # i
      /\ Reached(Visible(d, e1), cwd)
  BY <1>3, <1>4, <1>5, <1>6, UnnamesIt DEF Rm
<1>8. d[cwd] \in Dinode
  BY <1>1, <1>2, <1>4, IdleFacts DEF Good
<1>14. PICK d2, e2 : d2 = NodeImage(d, i, Zero) /\ e2 = CutImage(e1, i, Zero)
  OBVIOUS
<1>15. PICK s2 : s2 = RemoveInode(s1, i, d[i])
  OBVIOUS
<1>17. /\ Reach(s2, Image(disk), m \ {i}, d2, e2, B, A)
       /\ NodeFacts(d, e1, i, Zero, d2, e2)
       /\ User(Visible(d2, e2)) = User(Visible(d, e1))
  BY <1>7, <1>14, <1>15, RemoveReach
<1>18. d2[i] = Zero /\ d2[cwd] = d[cwd] /\ \A h \in Inodes : h # i => d2[h] = d[h]
  BY <1>2, <1>7, <1>17 DEF NodeFacts
<1>19. PICK p : p = d[cwd] /\ p \in Dinode /\ p.type = d2[cwd].type /\ p.n = d2[cwd].n
  BY <1>8, <1>18
<1>20. PICK d3, e3 : d3 = NodeImage(d2, cwd, p) /\ e3 = CutImage(e2, cwd, p)
  OBVIOUS
<1>21. PICK s3 : s3 = SyncInode(s2, cwd, p)
  OBVIOUS
<1>22. /\ Reach(s3, Image(disk), m \ {i}, d3, e3, B, A)
       /\ NodeFacts(d2, e2, cwd, p, d3, e3) /\ Visible(d3, e3) = Visible(d2, e2)
  BY <1>2, <1>17, <1>19, <1>20, <1>21, SameReach
<1>23. d3[cwd] = p /\ \A h \in Inodes : h # cwd => d3[h] = d2[h]
  BY <1>22 DEF NodeFacts
<1>24. PICK q1 : q1 = Kept(core, i, Zero)
  OBVIOUS
<1>25. PICK q : q = Kept(q1, cwd, p)
  OBVIOUS
<1>26. Does(s3, q, A)
  BY <1>2, <1>3, <1>4, <1>5, <1>6, <1>7, <1>15, <1>19, <1>21, <1>24, <1>25
  DEF Rm, Removed
<1>27. core \in [Inodes -> InCore] /\ Zero \in Dinode
  BY <1>1, IdleFacts DEF Zero, Dinode
<1>28. /\ q1 \in [Inodes -> InCore]
       /\ \A h \in Inodes : q1[h].count = core[h].count /\ (h # i => q1[h] = core[h])
       /\ core[i].count > 0 => q1[i].node = Zero
  BY <1>7, <1>24, <1>27, KeptProperties
<1>29. /\ q \in [Inodes -> InCore]
       /\ \A h \in Inodes : q[h].count = q1[h].count /\ (h # cwd => q[h] = q1[h])
       /\ q1[cwd].count > 0 => q[cwd].node = p
  BY <1>2, <1>19, <1>25, <1>28, KeptProperties
<1>30. ASSUME NEW h \in Inodes, q[h].count > 0 PROVE q[h].node = d3[h]
  <2>1. core[h].count > 0 => core[h].node = d[h]
    BY <1>1, <1>4, IdleNodes
  <2>2. CASE h = cwd
    BY <1>23, <1>29, <1>30, <2>2
  <2>3. CASE h = i
    BY <1>7, <1>18, <1>23, <1>28, <1>29, <1>30, <2>3
  <2>4. CASE h # cwd /\ h # i
    BY <1>18, <1>23, <1>28, <1>29, <1>30, <2>1, <2>4
  <2> QED BY <2>2, <2>3, <2>4
<1>31. d3[cwd].type = "dir"
  BY <1>2, <1>4, <1>19, <1>23
<1>32. Reached(Visible(d3, e3), cwd) /\ NamesOf(Visible(d3, e3)) = A
  <2>1. User(Visible(d3, e3)) = User(Visible(d, e1))
    BY <1>17, <1>22
  <2> QED BY <1>7, <2>1, SameUser
<1>33. \A h \in Inodes : q[h].count = core[h].count
  BY <1>28, <1>29
<1>34. Reach(s3, Image(disk), m \ {i}, d3, e3, UserNames(disk), A)
  BY <1>5, <1>22
<1> QED BY <1>1, <1>26, <1>29, <1>30, <1>31, <1>32, <1>33, <1>34, DoesKeeps

\* So does rm of an inode whose block_count is short, up to its assertion.
LEMMA RmAbortsKeeps ==
  ASSUME IInv, NEW nm \in Names, RmAborts(nm)
  PROVE  IInv'
<1>1. Idle
  BY DEF RmAborts, CanRm
<1>2. PICK i, k : i = Lookup(cwd, nm) /\ k = Min(SlotsOf(cwd, nm))
  OBVIOUS
<1>3. PICK m, d, e : m = disk.imap /\ d = disk.dinode /\ e = disk.ents
  OBVIOUS
<1>4. PICK B, A : B = UserNames(disk) /\ A = B \ {<<cwd, nm, i>>}
  OBVIOUS
<1>5. PICK s1, e1 : s1 = Unnamed(sb, k, nm) /\ e1 = SlotImage(e, cwd, k, Entry(nm, Gone))
  OBVIOUS
<1>6. /\ Node(i) = d[i] /\ d[i] \in Dinode /\ Reach(s1, Image(disk), m, d, e1, B, A)
      /\ NamesOf(Visible(d, e1)) = A /\ Reached(Visible(d, e1), cwd)
  BY <1>2, <1>3, <1>4, <1>5, UnnamesIt DEF RmAborts
<1>7. PICK n : n = BlocksOf(Node(i).b) /\ n \in Nat
  BY <1>6 DEF BlocksOf, Dinode
<1>8. PICK s2 : s2 = FreeBlocks(s1, n) /\ Reach(s2, Image(disk), m, d, e1, B, A)
  BY <1>6, <1>7, FreeGoes DEF Reach
<1>9. PICK w : w = [at |-> "abort"] /\ w.at \in Scalars
  <2>1. [at |-> "abort"].at = "abort"
    OBVIOUS
  <2> QED BY <2>1 DEF Scalars
<1>10. PICK s3 : s3 = Put(s2, w) /\ Reach(s3, Image(disk), m, d, e1, B, A)
  BY <1>8, <1>9, PutGoes DEF Reach
<1>11. Does(s3, core, A)
  BY <1>2, <1>4, <1>5, <1>7, <1>8, <1>9, <1>10 DEF RmAborts
<1>12. /\ core \in [Inodes -> InCore] /\ d[cwd].type = "dir"
       /\ \A h \in Inodes : core[h].count > 0 => core[h].node = d[h]
  BY <1>1, <1>3, IdleFacts, IdleNodes
<1> QED BY <1>1, <1>4, <1>6, <1>10, <1>11, <1>12, DoesKeeps

\* Entry k of directory i was deleted.
Deleted(d, e, i, k) == d[i].type = "dir" /\ k \in 1..d[i].n /\ e[i][k].nr = Gone

\* Entries V, which have the names B, with one more for inode t in directory
\* i; they are sound and have the names A.
Adds(V, i, k, nm, t, m, B, A, W) ==
    /\ W = V \cup {<<i, k, nm, t>>} /\ Sound(m, W)
    /\ NamesOf(V) = B /\ NamesOf(W) = A
    /\ A = B \cup {<<i, nm, t>>} /\ <<i, nm, t>> \notin B

\* A name for inode t in directory i, in place of such an entry.
LEMMA ReusedReach ==
  ASSUME NEW s, NEW c, NEW m, NEW d, NEW e, NEW B, NEW A, Reach(s, c, m, d, e, B, A),
         NEW i \in Inodes, NEW k, Deleted(d, e, i, k), NEW nm \in Names, NEW t \in Inodes,
         NEW W, Adds(Visible(d, e), i, k, nm, t, m, B, A, W),
         NEW es, Listed(es, d, e, i), NEW n \in Nat,
         NEW f, f = SlotImage(e, i, k, Entry(nm, t))
  PROVE  /\ Reach(WriteEntry(s, i, es, k, Entry(nm, t), n), c, m, d, f, B, A)
         /\ SlotFacts(e, i, k, Entry(nm, t), f) /\ Visible(d, f) = W
<1> d[i].type = "dir" /\ k \in 1..d[i].n /\ e[i][k].nr = Gone
  BY DEF Deleted
<1>0. PICK V : V = Visible(d, e) /\ Sound(m, V)
  BY ReachGood DEF Good
<1> /\ W = V \cup {<<i, k, nm, t>>} /\ Sound(m, W) /\ NamesOf(V) = B
    /\ NamesOf(W) = A /\ A = B \cup {<<i, nm, t>>} /\ <<i, nm, t>> \notin B
  BY <1>0 DEF Adds
<1>1. Shaped(d, e)
  BY ReachGood DEF Good, Shaped
<1>2. Visible(d, f) = W
  BY <1>0, <1>1, NamedSlot
<1>3. PICK v : v = Entry(nm, t) /\ v \in Ent /\ v.name = nm /\ v.nr # Mixed
  <2>1. t # Mixed
    BY SizeAssumption DEF Inodes, Mixed
  <2> QED BY <2>1 DEF Entry, Ent
<1>4. PICK x, y : x = SlotImage(e, i, k, y) /\ y = Entry(nm, Mixed)
  OBVIOUS
<1>5. Visible(d, x) = V
  <2>1. y \in Ent /\ y.nr \notin Inodes /\ e[i][k].nr \notin Inodes
    BY <1>4, SizeAssumption DEF Entry, Ent, Inodes, Gone, Mixed
  <2> QED BY <1>0, <1>1, <1>4, <2>1, DeadSlot
<1>6. Between(m, Visible(d, x), i, v.name, B, A)
  <2>1. PICK z : z = <<i, nm, t>> /\ z[1] = i /\ z[2] = nm
    OBVIOUS
  <2>2. z \in A /\ z \notin B /\ B = B \cap A
    BY <2>1
  <2> QED BY <1>0, <1>3, <1>5, <2>1, <2>2 DEF Between
<1>7. Sound(m, Visible(d, f)) /\ NamesOf(Visible(d, f)) \in {B, A}
  BY <1>2
<1>8. f = SlotImage(e, i, k, v) /\ x = SlotImage(e, i, k, Entry(v.name, Mixed)) /\ v.name \in Names
  BY <1>3, <1>4
<1>9. Reach(WriteEntry(s, i, es, k, v, n), c, m, d, f, B, A) /\ SlotFacts(e, i, k, v, f)
  BY <1>3, <1>6, <1>7, <1>8, ShownReach
<1> QED BY <1>2, <1>3, <1>9

\* A name for inode t put into directory i: in place of an entry deleted
\* before, or after the last one, where the size p.n then takes it in.
LEMMA NameReach ==
  ASSUME NEW s, NEW c, NEW m, NEW d, NEW e, NEW B, NEW A, Reach(s, c, m, d, e, B, A),
         NEW i \in Inodes, d[i].type = "dir", NEW k \in Nat, NEW p \in Dinode, p.type = "dir",
         \/ k \in 1..d[i].n /\ e[i][k].nr = Gone /\ p.n = d[i].n
         \/ k = d[i].n + 1 /\ p.n = d[i].n + 1,
         NEW nm \in Names, NEW t \in Inodes, t \in m, t # Root, t # i,
         Reached(Visible(d, e), i), \A u \in User(Visible(d, e)) : u[4] # t, d[t].n = 0,
         B = NamesOf(Visible(d, e)), A = B \cup {<<i, nm, t>>},
         NEW es, Listed(es, d, e, i), NEW l \in Nat,
         NEW e1, e1 = SlotImage(e, i, k, Entry(nm, t)),
         NEW g, g = NodeImage(d, i, p), NEW f, f = CutImage(e1, i, p)
  PROVE  /\ Reach(SyncInode(WriteEntry(s, i, es, k, Entry(nm, t), l), i, p), c, m, g, f, B, A)
         /\ NodeFacts(d, e1, i, p, g, f) /\ e1[t] = e[t] /\ f[t] = e[t]
         /\ NamesOf(Visible(g, f)) = A
         /\ User(Visible(g, f)) = User(Visible(d, e)) \cup {<<i, k, nm, t>>}
<1>1. Good(m, d, e) /\ Clean(d, e)
  BY ReachGood
<1>2. /\ d \in [Inodes -> Dinode] /\ e \in [Inodes -> Seq(Ent)]
      /\ \A h \in Inodes : d[h].n <= Len(e[h])
  BY <1>1 DEF Good
<1>3. PICK V : V = Visible(d, e) /\ Sound(m, V)
  BY <1>1 DEF Good
<1>4. PICK n \in Nat : n = d[i].n /\ n <= Len(e[i]) /\ Len(e[i]) \in Nat
  BY <1>2 DEF Dinode
<1>5. PICK W : W = V \cup {<<i, k, nm, t>>}
  OBVIOUS
<1>6. \A v \in V : v[1] # t
  <2>1. \A v \in V : v[2] \in 1..d[v[1]].n
    BY <1>3 DEF Visible
  <2>2. ASSUME NEW v \in V, v[1] = t PROVE FALSE
    <3>1. v[2] \in 1..0
      BY <2>1, <2>2
    <3> QED BY <3>1
  <2> QED BY <2>2
<1>7. /\ Sound(m, W) /\ User(W) = User(V) \cup {<<i, k, nm, t>>}
      /\ NamesOf(W) = NamesOf(V) \cup {<<i, nm, t>>}
  BY <1>3, <1>5, <1>6, AddSound
<1>8. NamesOf(W) = A /\ NamesOf(V) = B /\ <<i, nm, t>> \notin B
  <2>1. ASSUME NEW u \in User(V) PROVE <<u[1], u[3], u[4]>> # <<i, nm, t>>
    BY <1>3
  <2>2. <<i, nm, t>> \notin NamesOf(V)
    BY <2>1 DEF NamesOf
  <2> QED BY <1>3, <1>7, <2>2
<1>9. PICK v : v = Entry(nm, t) /\ v \in Ent /\ v.nr # Mixed
  <2>1. t # Mixed
    BY SizeAssumption DEF Inodes, Mixed
  <2> QED BY <2>1 DEF Entry, Ent
<1>10. PICK s1 : s1 = WriteEntry(s, i, es, k, v, l)
  OBVIOUS
<1>11. CASE k \in 1..n /\ e[i][k].nr = Gone /\ p.n = n
  <2>1. k \in 1..d[i].n /\ W = Visible(d, e) \cup {<<i, k, nm, t>>}
    BY <1>3, <1>4, <1>5, <1>11
  <2>2. /\ Reach(WriteEntry(s, i, es, k, Entry(nm, t), l), c, m, d, e1, B, A)
        /\ SlotFacts(e, i, k, Entry(nm, t), e1) /\ Visible(d, e1) = W
    <3>1. Adds(Visible(d, e), i, k, nm, t, m, B, A, W) /\ Deleted(d, e, i, k)
      BY <1>3, <1>7, <1>8, <1>11, <2>1 DEF Deleted, Adds
    <3> QED BY <3>1, ReusedReach
  <2>3. Reach(s1, c, m, d, e1, B, A) /\ SlotFacts(e, i, k, v, e1)
    BY <1>9, <1>10, <2>2
  <2>4. /\ Reach(SyncInode(s1, i, p), c, m, g, f, B, A)
        /\ NodeFacts(d, e1, i, p, g, f) /\ Visible(g, f) = Visible(d, e1)
    BY <1>4, <1>11, <2>3, SameReach
  <2>5. e1[t] = e[t]
    BY <2>3 DEF SlotFacts
  <2>6. f[t] = e1[t]
    BY <1>2, <2>3 DEF CutImage, SlotFacts
  <2> QED BY <1>3, <1>7, <1>8, <1>9, <1>10, <2>2, <2>4, <2>5, <2>6
<1>12. CASE k = n + 1 /\ p.n = n + 1
  <2>1. k \in 1..Len(e[i]) + 1 /\ k > d[i].n
    BY <1>4, <1>12
  <2>2. /\ Reach(s1, c, m, d, e1, B, A)
        /\ SlotFacts(e, i, k, v, e1) /\ Visible(d, e1) = V
    BY <1>3, <1>9, <1>10, <2>1, HiddenReach DEF Listed
  <2>3. e1[i][p.n] = Entry(nm, t) /\ p.n <= Len(e1[i]) /\ e1[t] = e[t]
    BY <1>9, <1>12, <2>2 DEF SlotFacts
  <2>4. Shaped(d, e1)
    BY <2>2, ReachGood DEF Good, Shaped
  <2>5. NodeFacts(d, e1, i, p, g, f)
    BY <2>3, <2>4, NodeImageProperties DEF Shaped
  <2>6. p.n = d[i].n + 1 /\ p.n = k
    BY <1>4, <1>12
  <2>7. Visible(g, f) = W
    <3>1. e1[i][k] = Entry(nm, t) /\ p.n = k /\ k = d[i].n + 1
      BY <2>3, <2>6
    <3>2. Visible(g, f) = Visible(d, e1) \cup {<<i, k, nm, t>>}
      BY <2>5, <3>1, GrownNode
    <3> QED BY <1>5, <2>2, <3>2
  <2>10. ASSUME NEW j \in 1..p.n PROVE e1[i][j].nr # Mixed
    <3>1. CASE j = k
      BY <1>9, <2>2, <3>1 DEF SlotFacts
    <3>2. CASE j # k
      <4>1. j \in 1..n /\ j \in 1..Len(e[i])
        BY <1>4, <1>12, <2>10, <3>2
      <4>2. e1[i][j] = e[i][j]
        BY <2>2, <3>2, <4>1 DEF SlotFacts
      <4> QED BY <1>1, <1>4, <4>1, <4>2 DEF Clean
    <3> QED BY <3>1, <3>2
  <2>8. Reach(SyncInode(s1, i, p), c, m, g, f, B, A)
    <3>1. Sound(m, Visible(g, f)) /\ NamesOf(Visible(g, f)) \in {B, A}
      BY <1>7, <1>8, <2>7
    <3> QED BY <2>2, <2>3, <2>10, <3>1, SyncReach
  <2>9. f[t] = e1[t]
    BY <1>2, <2>2 DEF CutImage, SlotFacts
  <2> QED BY <1>3, <1>7, <1>8, <1>9, <1>10, <2>3, <2>5, <2>7, <2>8, <2>9
<1> QED BY <1>4, <1>11, <1>12

\* The inode of a new directory written, which i names.
LEMMA NewDirReach ==
  ASSUME NEW s, NEW c, NEW m, NEW d, NEW e, NEW B, NEW A, Reach(s, c, m, d, e, B, A),
         NEW i \in Inodes, NEW t \in Inodes, t # Root, d[t].n = 0, 2 <= Len(e[t]),
         e[t][1] = Entry(Dot, t), e[t][2] = Entry(DotDot, i),
         \E u \in User(Visible(d, e)) : u[1] = i /\ u[4] = t,
         NEW p, p = NewNode("dir"),
         NEW g, g = NodeImage(d, t, p), NEW f, f = CutImage(e, t, p)
  PROVE  /\ Reach(SyncInode(s, t, p), c, m, g, f, B, A)
         /\ NodeFacts(d, e, t, p, g, f)
         /\ User(Visible(g, f)) = User(Visible(d, e))
<1>1. Good(m, d, e) /\ NamesOf(Visible(d, e)) \in {B, A}
  BY ReachGood
<1>2. /\ d \in [Inodes -> Dinode] /\ e \in [Inodes -> Seq(Ent)]
      /\ \A h \in Inodes : d[h].n <= Len(e[h])
  BY <1>1 DEF Good
<1>3. p \in Dinode /\ p.type = "dir" /\ p.n = 2 /\ p.n <= Len(e[t])
  BY DEF NewNode, Dinode
<1>4. NodeFacts(d, e, t, p, g, f)
  BY <1>2, <1>3, NodeImageProperties
<1>5. PICK V, W : V = Visible(d, e) /\ W = Visible(g, f) /\ Sound(m, V)
  BY <1>1 DEF Good
<1>6. W = V \cup {<<t, 1, Dot, t>>, <<t, 2, DotDot, i>>}
  BY <1>3, <1>4, <1>5, NewNodeDir
<1>7. Sound(m, W) /\ User(W) = User(V) /\ NamesOf(W) = NamesOf(V)
  <2>1. \E u \in User(V) : u[1] = i /\ u[4] = t
    BY <1>5
  <2> QED BY <1>5, <1>6, <2>1, DirSound
<1>8. Reach(SyncInode(s, t, p), c, m, g, f, B, A)
  <2>1. ASSUME NEW j \in 1..p.n PROVE e[t][j].nr # Mixed
    <3>1. j = 1 \/ j = 2
      BY <1>3, <2>1
    <3>2. e[t][1].nr = t /\ e[t][2].nr = i /\ i # Mixed /\ t # Mixed
      BY SizeAssumption DEF Entry, Inodes, Mixed
    <3> QED BY <3>1, <3>2
  <2> QED BY <1>1, <1>3, <1>5, <1>7, <2>1, SyncReach
<1> QED BY <1>4, <1>5, <1>7, <1>8

\* The writes for a new inode lead to entries e, on which nothing else is seen.
MadeImage(type, e, B, A) ==
    /\ Reach(Made(type), Image(disk), disk.imap \cup {Fresh}, disk.dinode, e, B, A)
    /\ Visible(disk.dinode, e) = Visible(disk.dinode, disk.ents)
    /\ \A h \in Inodes : h # Fresh => e[h] = disk.ents[h]
    /\ type = "dir" => /\ 2 <= Len(e[Fresh])
                       /\ e[Fresh][1] = Entry(Dot, Fresh)
                       /\ e[Fresh][2] = Entry(DotDot, cwd)

\* The new inode marked and, for a directory, "." and ".." written.
LEMMA MadeReach ==
  ASSUME IInv, Idle, NEW type \in {"file", "dir"}, FreeBits # {}, Fresh \in Inodes,
         Node(Fresh).n = 0, NEW B, NEW A, UserNames(disk) \in {B, A}
  PROVE  \E e : MadeImage(type, e, B, A)
<1>1. PICK c, m, d, e, t : c = Image(disk) /\ m = disk.imap /\ d = disk.dinode
                           /\ e = disk.ents /\ t = Fresh
  OBVIOUS
<1>2. t \in Inodes /\ d[t].n = 0
  BY <1>1, IdleNodes
<1>3. PICK s1 : s1 = MarkInode(sb, t)
  OBVIOUS
<1>4. Reach(sb, c, m, d, e, B, A)
  BY <1>1, IdleReach
<1>5. PICK m1 : m1 = m \cup {t}
  OBVIOUS
<1>6. Reach(s1, c, m1, d, e, B, A)
  BY <1>3, <1>4, <1>5, MarkReach
<1>7. CASE type = "file"
  <2>1. Made(type) = s1
    BY <1>1, <1>3, <1>7 DEF Made
  <2>2. MadeImage(type, e, B, A)
    BY <1>1, <1>5, <1>6, <1>7, <2>1 DEF MadeImage
  <2> QED BY <2>2
<1>8. CASE type = "dir"
  <2>2. PICK v1, v2 : v1 = Entry(Dot, t) /\ v2 = Entry(DotDot, cwd) /\ v1 \in Ent /\ v2 \in Ent
    <3>1. cwd \in Inodes
      BY IdleNodes
    <3>2. Entry(Dot, t) \in Ent /\ Entry(DotDot, cwd) \in Ent
      BY <1>2, <3>1 DEF Entry, Ent
    <3> QED BY <3>2
  <2>3. e \in [Inodes -> Seq(Ent)]
    BY <1>6, ReachGood DEF Good
  <2>0. PICK es0 \in Seq(Ent) : es0 = <<>>
    <3>1. <<>> \in Seq(Ent)
      OBVIOUS
    <3> QED BY <3>1
  <2>1. PICK es1 \in Seq(Ent) : es1 = <<v1>>
    <3>1. <<v1>> \in Seq(Ent)
      BY <2>2
    <3> QED BY <3>1
  <2>4. PICK k : k = 1 /\ k \in 1..Len(e[t]) + 1 /\ k > d[t].n
    BY <1>2, <2>3
  <2>5. PICK e1, s3 : e1 = SlotImage(e, t, k, v1) /\ s3 = WriteEntry(s1, t, es0, k, v1, 1)
    OBVIOUS
  <2>6. /\ Reach(s3, c, m1, d, e1, B, A)
        /\ SlotFacts(e, t, k, v1, e1) /\ Visible(d, e1) = Visible(d, e)
    BY <1>2, <1>6, <2>2, <2>4, <2>5, HiddenReach
  <2>7. /\ e1 \in [Inodes -> Seq(Ent)] /\ e1[t][1] = v1 /\ 1 <= Len(e1[t])
        /\ \A h \in Inodes : h # t => e1[h] = e[h]
    BY <2>4, <2>6 DEF SlotFacts
  <2>8. 2 \in 1..Len(e1[t]) + 1 /\ 2 > d[t].n /\ 1 \in 1..Len(e1[t])
    BY <1>2, <2>7
  <2>9. PICK e2, s4 : e2 = SlotImage(e1, t, 2, v2) /\ s4 = WriteEntry(s3, t, es1, 2, v2, 0)
    OBVIOUS
  <2>10. /\ Reach(s4, c, m1, d, e2, B, A)
         /\ SlotFacts(e1, t, 2, v2, e2) /\ Visible(d, e2) = Visible(d, e1)
    BY <1>2, <2>2, <2>6, <2>8, <2>9, HiddenReach
  <2>11. e2[t][2] = v2 /\ 2 <= Len(e2[t])
    BY <2>10 DEF SlotFacts
  <2>13. e2[t][1] = v1
    BY <2>7, <2>8, <2>10 DEF SlotFacts
  <2>14. \A h \in Inodes : h # t => e2[h] = e[h]
    BY <2>7, <2>10 DEF SlotFacts
  <2>12. Made(type) = s4
    BY <1>1, <1>3, <1>8, <2>0, <2>1, <2>2, <2>4, <2>5, <2>9 DEF Made
  <2>15. MadeImage(type, e2, B, A)
    BY <1>1, <1>5, <2>2, <2>6, <2>10, <2>11, <2>12, <2>13, <2>14 DEF MadeImage
  <2> QED BY <2>15
<1> QED BY <1>7, <1>8

\* Where a new entry goes.
LEMMA SlotForIsFree ==
  ASSUME NEW s \in Seq(Ent), NEW nm
  PROVE  \/ SlotFor(s, nm) \in 1..Len(s) /\ s[SlotFor(s, nm)].nr = Gone
         \/ SlotFor(s, nm) = Len(s) + 1
<1>1. PICK T : T = {k \in 1..Len(s) : s[k].nr = Gone /\ EntrySize[s[k].name] = EntrySize[nm]}
  OBVIOUS
<1>2. SlotFor(s, nm) = IF T = {} THEN Len(s) + 1 ELSE Min(T)
  BY <1>1 DEF SlotFor
<1>3. CASE T = {}
  BY <1>2, <1>3
<1>4. CASE T # {}
  <2>1. T \subseteq Nat
    BY <1>1
  <2>2. Min(T) \in T
    BY <1>4, <2>1, MinIsIn
  <2> QED BY <1>1, <1>2, <1>4, <2>2
<1> QED BY <1>3, <1>4

\* The directory that gets a new entry.
LEMMA GrownNodes ==
  ASSUME NEW p \in Dinode, NEW s \in Seq(Ent), Len(s) = p.n, NEW nm,
         NEW h, NEW k, k = SlotFor(s, nm), NEW p2, p2 = Grown(p, s, nm, h)
  PROVE  /\ p2 \in Dinode /\ p2.type = p.type /\ k \in Nat
         /\ \/ k \in 1..p.n /\ s[k].nr = Gone /\ p2.n = p.n
            \/ k = p.n + 1 /\ p2.n = p.n + 1
<1>1. PICK n \in Nat : n = p.n /\ Len(s) = n
  BY DEF Dinode
<1>2. (k \in 1..n /\ s[k].nr = Gone) \/ k = n + 1
  BY <1>1, SlotForIsFree
<1>3. PICK x : x = IF k > n THEN n + 1 ELSE n
  OBVIOUS
<1>4. PICK y : y = IF Missing(s, nm, p.b) > 0 THEN p.b + 1 ELSE p.b
  OBVIOUS
<1>8. PICK z : z = p.c + Missing(s, nm, h) /\ z \in Nat
  <2>1. Missing(s, nm, h) \in Nat
    BY DEF Missing, Needed
  <2> QED BY <2>1 DEF Dinode
<1>5. p2 = [p EXCEPT !.n = x, !.b = y, !.c = z]
  BY <1>1, <1>3, <1>4, <1>8 DEF Grown, Dinode
<1>6. x \in Nat /\ y \in Nat /\ z \in Nat
  BY <1>1, <1>3, <1>4, <1>8 DEF Dinode
<1>7. p2 \in Dinode /\ p2.type = p.type /\ p2.n = x
  BY <1>5, <1>6 DEF Dinode
<1> QED BY <1>1, <1>2, <1>3, <1>7

\* create and mkdir keep the invariant when they succeed.
LEMMA CreateOkKeeps ==
  ASSUME IInv, NEW type \in {"file", "dir"}, NEW nm \in Names, CreateOk(type, nm)
  PROVE  IInv'
<1>1. Idle /\ FreeBits # {} /\ Fresh \in Inodes /\ Node(Fresh).n = 0
  BY DEF CreateOk, CanCreate
<1>2. PICK c, m, d, e, t : c = Image(disk) /\ m = disk.imap /\ d = disk.dinode
                           /\ e = disk.ents /\ t = Fresh
  OBVIOUS
<1>3. /\ t \in Inodes /\ t # Root /\ t # cwd /\ t \notin m /\ d[t].n = 0
      /\ \A u \in User(Visible(d, e)) : u[4] # t /\ u[1] # t
  BY <1>1, <1>2, FreshFacts, IdleNodes
<1>4. /\ cwd \in Inodes /\ d[cwd].type = "dir" /\ Reached(Visible(d, e), cwd)
      /\ core[cwd].node = d[cwd]
      /\ \A h \in Inodes : core[h].count > 0 => core[h].node = d[h]
  BY <1>1, <1>2, IdleNodes
<1>5. core \in [Inodes -> InCore] /\ Good(m, d, e)
  BY <1>1, <1>2, IdleFacts
<1>6. PICK es : es = Entries(cwd)
  OBVIOUS
<1>7. /\ es \in Seq(Ent) /\ Len(es) = d[cwd].n
      /\ \A k \in 1..d[cwd].n : es[k] = e[cwd][k] /\ Listed(es, d, e, cwd)
  BY <1>1, <1>2, <1>4, <1>6, EntriesOf
<1>8. PICK p : p = d[cwd] /\ p \in Dinode
  BY <1>4, <1>5 DEF Good
<1>9. PICK k, p2 : k = SlotFor(es, nm) /\ p2 = Grown(p, es, nm, Mapped(cwd))
  OBVIOUS
<1>10. /\ p2 \in Dinode /\ p2.type = "dir" /\ k \in Nat
       /\ \/ k \in 1..d[cwd].n /\ e[cwd][k].nr = Gone /\ p2.n = d[cwd].n
          \/ k = d[cwd].n + 1 /\ p2.n = d[cwd].n + 1
  <2>1. /\ p2 \in Dinode /\ p2.type = p.type /\ k \in Nat
        /\ \/ k \in 1..p.n /\ es[k].nr = Gone /\ p2.n = p.n
           \/ k = p.n + 1 /\ p2.n = p.n + 1
    BY <1>7, <1>8, <1>9, GrownNodes
  <2> QED BY <1>4, <1>7, <1>8, <2>1
<1>11. PICK B : B = UserNames(disk) /\ B = NamesOf(Visible(d, e))
  BY <1>1, <1>2, IdleFacts
<1>12. PICK A : A = B \cup {<<cwd, nm, t>>}
  OBVIOUS
<1>13. PICK s1 : s1 = Made(type)
  OBVIOUS
<1>14. PICK e1 : /\ Reach(s1, c, m \cup {t}, d, e1, B, A)
                 /\ Visible(d, e1) = Visible(d, e)
                 /\ \A h \in Inodes : h # t => e1[h] = e[h]
                 /\ type = "dir" => /\ 2 <= Len(e1[t]) /\ e1[t][1] = Entry(Dot, t)
                                    /\ e1[t][2] = Entry(DotDot, cwd)
  <2>1. UserNames(disk) \in {B, A}
    BY <1>11
  <2>2. PICK x : MadeImage(type, x, B, A)
    BY <1>1, <2>1, MadeReach
  <2> QED BY <1>2, <1>13, <2>2 DEF MadeImage
<1>15. PICK n : n = Missing(es, nm, Mapped(cwd)) /\ n \in Nat
  BY DEF Missing, Needed
<1>16. Listed(es, d, e1, cwd)
  BY <1>3, <1>4, <1>7, <1>14 DEF Listed
<1>17. PICK m1 : m1 = m \cup {t} /\ t \in m1
  OBVIOUS
<1>18. PICK e2, d3, e3, s3 : /\ e2 = SlotImage(e1, cwd, k, Entry(nm, t))
                             /\ d3 = NodeImage(d, cwd, p2) /\ e3 = CutImage(e2, cwd, p2)
                             /\ s3 = SyncInode(WriteEntry(s1, cwd, es, k, Entry(nm, t), n), cwd, p2)
  OBVIOUS
<1>19. /\ Reach(s3, c, m1, d3, e3, B, A)
       /\ NodeFacts(d, e2, cwd, p2, d3, e3) /\ e3[t] = e1[t]
       /\ NamesOf(Visible(d3, e3)) = A
       /\ User(Visible(d3, e3)) = User(Visible(d, e1)) \cup {<<cwd, k, nm, t>>}
  <2>1. Reach(s1, c, m1, d, e1, B, A)
    BY <1>14, <1>17
  <2>2. \/ k \in 1..d[cwd].n /\ e1[cwd][k].nr = Gone /\ p2.n = d[cwd].n
        \/ k = d[cwd].n + 1 /\ p2.n = d[cwd].n + 1
    BY <1>3, <1>4, <1>10, <1>14
  <2>3. Reached(Visible(d, e1), cwd) /\ \A u \in User(Visible(d, e1)) : u[4] # t
    BY <1>3, <1>4, <1>14
  <2>4. B = NamesOf(Visible(d, e1)) /\ A = B \cup {<<cwd, nm, t>>}
    BY <1>11, <1>12, <1>14
  <2> QED BY <1>3, <1>4, <1>10, <1>15, <1>16, <1>17, <1>18, <2>1, <2>2, <2>3, <2>4, NameReach
<1>20. d3[cwd] = p2 /\ \A h \in Inodes : h # cwd => d3[h] = d[h]
  BY <1>19 DEF NodeFacts
<1>21. PICK p4, d4, e4, s4 : /\ p4 = NewNode(type) /\ d4 = NodeImage(d3, t, p4)
                             /\ e4 = CutImage(e3, t, p4) /\ s4 = SyncInode(s3, t, p4)
  OBVIOUS
<1>22. p4 \in Dinode /\ (type = "file" => p4.n = 0)
  BY <1>21 DEF NewNode, Dinode
<1>23. /\ Reach(s4, c, m1, d4, e4, B, A) /\ NodeFacts(d3, e3, t, p4, d4, e4)
       /\ User(Visible(d4, e4)) = User(Visible(d3, e3))
  <2>1. PICK x : x = <<cwd, k, nm, t>>
    OBVIOUS
  <2>2. x \in User(Visible(d3, e3)) /\ x[1] = cwd /\ x[4] = t
    BY <1>19, <2>1
  <2>3. CASE type = "file"
    <3>1. \A v \in User(Visible(d3, e3)) : v[1] # t
      BY <1>3, <1>14, <1>19, <2>1, <2>2
    <3> QED BY <1>3, <1>19, <1>21, <1>22, <2>3, <3>1, EmptyReach
  <2>4. CASE type = "dir"
    <3>1. d3[t].n = 0 /\ p4 = NewNode("dir")
      BY <1>3, <1>20, <1>21, <2>4
    <3>2. 2 <= Len(e3[t]) /\ e3[t][1] = Entry(Dot, t) /\ e3[t][2] = Entry(DotDot, cwd)
      BY <1>14, <1>19, <2>4
    <3>3. \E u \in User(Visible(d3, e3)) : u[1] = cwd /\ u[4] = t
      BY <2>2
    <3> QED BY <1>3, <1>4, <1>19, <1>21, <3>1, <3>2, <3>3, NewDirReach
  <2> QED BY <2>3, <2>4
<1>24. d4[t] = p4 /\ \A h \in Inodes : h # t => d4[h] = d3[h]
  BY <1>23 DEF NodeFacts
<1>25. PICK q1 : q1 = Kept(core, cwd, p2)
  OBVIOUS
<1>26. PICK q : q = Kept(q1, t, p4)
  OBVIOUS
<1>27. Does(s4, q, A)
  BY <1>2, <1>4, <1>6, <1>8, <1>9, <1>11, <1>12, <1>13, <1>15, <1>18, <1>21,
     <1>25, <1>26 DEF CreateOk
<1>28. /\ q1 \in [Inodes -> InCore]
       /\ \A h \in Inodes : q1[h].count = core[h].count /\ (h # cwd => q1[h] = core[h])
       /\ core[cwd].count > 0 => q1[cwd].node = p2
  BY <1>4, <1>5, <1>10, <1>25, KeptProperties
<1>29. /\ q \in [Inodes -> InCore]
       /\ \A h \in Inodes : q[h].count = q1[h].count /\ (h # t => q[h] = q1[h])
       /\ q1[t].count > 0 => q[t].node = p4
  BY <1>3, <1>22, <1>26, <1>28, KeptProperties
<1>30. ASSUME NEW h \in Inodes, q[h].count > 0 PROVE q[h].node = d4[h]
  <2>1. CASE h = t
    BY <1>24, <1>29, <1>30, <2>1
  <2>2. CASE h = cwd
    BY <1>3, <1>20, <1>24, <1>28, <1>29, <1>30, <2>2
  <2>3. CASE h # cwd /\ h # t
    BY <1>4, <1>20, <1>24, <1>28, <1>29, <1>30, <2>3
  <2> QED BY <2>1, <2>2, <2>3
<1>31. d4[cwd].type = "dir"
  BY <1>3, <1>4, <1>10, <1>20, <1>24
<1>32. Reached(Visible(d4, e4), cwd) /\ NamesOf(Visible(d4, e4)) = A
  <2>1. Reached(Visible(d3, e3), cwd)
    BY <1>4, <1>14, <1>19 DEF Reached
  <2> QED BY <1>19, <1>23, <2>1, SameUser
<1>33. \A h \in Inodes : q[h].count = core[h].count
  BY <1>28, <1>29
<1> QED BY <1>1, <1>2, <1>11, <1>23, <1>27, <1>29, <1>30, <1>31, <1>32, <1>33, DoesKeeps

\* The inodes in cache q are those in cache r, but perhaps for dirty marks.
Alike(q, r) ==
    /\ q \in [Inodes -> InCore]
    /\ \A h \in Inodes : q[h].count = r[h].count /\ q[h].node = r[h].node

\* A new inode that is removed again keeps the invariant: s is what was
\* written so far, e the entries it leads to, q the cache but for the inode.
LEMMA UndoneKeeps ==
  ASSUME IInv, Idle, FreeBits # {}, Fresh \in Inodes,
         NEW s, NEW e, NEW A, A = UserNames(disk),
         Reach(s, Image(disk), disk.imap \cup {Fresh}, disk.dinode, e, A, A),
         Visible(disk.dinode, e) = Visible(disk.dinode, disk.ents),
         NEW node \in Dinode, NEW q, Alike(q, Kept(core, Fresh, Zero)),
         Does(RemoveInode(s, Fresh, node), q, A)
  PROVE  IInv'
<1>1. PICK d, t, c, m : d = disk.dinode /\ t = Fresh /\ c = Image(disk)
                        /\ m = disk.imap \cup {Fresh}
  OBVIOUS
<1>2. t \in Inodes /\ t # Root /\ t # cwd
  BY <1>1, FreshFacts
<1>3. \A u \in User(Visible(d, e)) : u[4] # t /\ u[1] # t
  BY <1>1, FreshFacts
<1>4. PICK g, f, s2 : /\ g = NodeImage(d, t, Zero) /\ f = CutImage(e, t, Zero)
                      /\ s2 = RemoveInode(s, t, node)
  OBVIOUS
<1>5. Reach(s, c, m, d, e, A, A)
  BY <1>1
<1>6. /\ Reach(s2, c, m \ {t}, g, f, A, A) /\ NodeFacts(d, e, t, Zero, g, f)
      /\ User(Visible(g, f)) = User(Visible(d, e))
  BY ONLY <1>2, <1>3, <1>4, <1>5, RemoveReach
<1>7. g[t] = Zero /\ \A h \in Inodes : h # t => g[h] = d[h]
  BY <1>6 DEF NodeFacts
<1>8. /\ cwd \in Inodes /\ d[cwd].type = "dir" /\ Reached(Visible(d, e), cwd)
      /\ \A h \in Inodes : core[h].count > 0 => core[h].node = d[h]
  BY <1>1, IdleNodes
<1>9. NamesOf(Visible(d, e)) = A /\ core \in [Inodes -> InCore] /\ Zero \in Dinode
  BY <1>1, IdleFacts DEF Zero, Dinode
<1>10. PICK r : r = Kept(core, t, Zero)
  OBVIOUS
<1>11. /\ \A h \in Inodes : r[h].count = core[h].count /\ (h # t => r[h] = core[h])
       /\ core[t].count > 0 => r[t].node = Zero
  BY <1>2, <1>9, <1>10, KeptProperties
<1>12. /\ q \in [Inodes -> InCore]
       /\ \A h \in Inodes : q[h].count = r[h].count /\ q[h].node = r[h].node
  BY <1>1, <1>10 DEF Alike
<1>13. \A h \in Inodes : q[h].count = core[h].count
  BY <1>11, <1>12
<1>14. ASSUME NEW h \in Inodes, q[h].count > 0 PROVE q[h].node = g[h]
  <2>1. CASE h = t
    BY <1>7, <1>11, <1>12, <1>14, <2>1
  <2>2. CASE h # t
    BY <1>7, <1>8, <1>11, <1>12, <1>14, <2>2
  <2> QED BY <2>1, <2>2
<1>15. g[cwd].type = "dir"
  BY <1>2, <1>7, <1>8
<1>16. Reached(Visible(g, f), cwd) /\ NamesOf(Visible(g, f)) = A
  BY <1>6, <1>8, <1>9, SameUser
<1>17. Does(s2, q, A)
  BY <1>1, <1>4
<1>18. Reach(s2, Image(disk), m \ {t}, g, f, UserNames(disk), A)
  BY <1>1, <1>6
<1> QED BY <1>12, <1>13, <1>14, <1>15, <1>16, <1>17, <1>18, DoesKeeps

\* create and mkdir keep the invariant when the disk is full.
LEMMA CreateNoSpaceKeeps ==
  ASSUME IInv, NEW type \in {"file", "dir"}, NEW nm \in Names, CreateNoSpace(type, nm)
  PROVE  IInv'
<1>1. Idle /\ FreeBits # {} /\ Fresh \in Inodes /\ Node(Fresh).n = 0
  BY DEF CreateNoSpace, CanCreate
<1>2. PICK t : t = Fresh /\ t \in Inodes
  BY <1>1
<1>3. PICK A : A = UserNames(disk)
  OBVIOUS
<1>4. Zero \in Dinode /\ NewNode(type) \in Dinode
  BY DEF Zero, NewNode, Dinode
<1>5. core \in [Inodes -> InCore] /\ cwd \in Inodes
  BY <1>1, IdleFacts, IdleNodes
<1>6. PICK r : r = Kept(core, t, Zero) /\ r \in [Inodes -> InCore]
  BY <1>2, <1>4, <1>5, KeptProperties
<1>7. ASSUME Does(RemoveInode(MarkInode(sb, t), t, Zero), r, A) PROVE IInv'
  <2>1. PICK s : s = MarkInode(sb, t)
    OBVIOUS
  <2>2. Reach(sb, Image(disk), disk.imap, disk.dinode, disk.ents, A, A)
    BY <1>1, <1>3, IdleReach
  <2>3. Reach(s, Image(disk), disk.imap \cup {Fresh}, disk.dinode, disk.ents, A, A)
    BY <1>2, <2>1, <2>2, MarkReach
  <2>4. Alike(r, Kept(core, Fresh, Zero))
    BY <1>2, <1>6 DEF Alike
  <2>5. Does(RemoveInode(s, Fresh, Zero), r, A)
    BY <1>2, <1>7, <2>1
  <2> QED BY <1>1, <1>3, <1>4, <2>3, <2>4, <2>5, UndoneKeeps
<1>8. ASSUME NEW half \in BOOLEAN, NEW s,
             s = IF half THEN FreeBlocks(AllocBlocks(Made(type), 1), 1) ELSE Made(type),
             Does(RemoveInode(s, t, NewNode(type)), [r EXCEPT ![cwd].dirty = @ \/ half], A)
      PROVE  IInv'
  <2>1. UserNames(disk) \in {A, A}
    BY <1>3
  <2>2. PICK e : MadeImage(type, e, A, A)
    BY <1>1, <2>1, MadeReach
  <2>3. PICK s1, m, d, c : s1 = Made(type) /\ m = disk.imap \cup {Fresh} /\ d = disk.dinode
                           /\ c = Image(disk)
    OBVIOUS
  <2>4. Reach(s1, c, m, d, e, A, A) /\ Visible(d, e) = Visible(d, disk.ents)
    BY <2>2, <2>3 DEF MadeImage
  <2>5. PICK s2 : s2 = AllocBlocks(s1, 1) /\ Reach(s2, c, m, d, e, A, A)
    BY <2>4, AllocGoes DEF Reach
  <2>6. PICK s3 : s3 = FreeBlocks(s2, 1) /\ Reach(s3, c, m, d, e, A, A)
    BY <2>5, FreeGoes DEF Reach
  <2>7. Reach(s, Image(disk), disk.imap \cup {Fresh}, disk.dinode, e, A, A)
    BY <1>8, <2>3, <2>4, <2>5, <2>6
  <2>8. PICK q : q = [r EXCEPT ![cwd].dirty = @ \/ half]
    OBVIOUS
  <2>9. q \in [Inodes -> InCore] /\ \A h \in Inodes : q[h].count = r[h].count /\ q[h].node = r[h].node
    <3>1. r[cwd] \in InCore
      BY <1>5, <1>6
    <3>2. PICK x : x = [r[cwd] EXCEPT !.dirty = @ \/ half]
      OBVIOUS
    <3>3. x.count = r[cwd].count /\ x.node = r[cwd].node /\ x \in InCore
      <4>1. PICK y : y = (r[cwd].dirty \/ half) /\ y \in BOOLEAN
        OBVIOUS
      <4>2. x = [r[cwd] EXCEPT !.dirty = y]
        BY <3>2, <4>1
      <4> QED BY <3>1, <4>1, <4>2 DEF InCore
    <3>4. q = [r EXCEPT ![cwd] = x]
      BY <2>8, <3>2
    <3> QED BY <1>5, <1>6, <3>3, <3>4
  <2>10. Does(RemoveInode(s, Fresh, NewNode(type)), q, A)
    BY <1>2, <1>8, <2>8
  <2>11. Alike(q, Kept(core, Fresh, Zero))
    BY <1>2, <1>6, <2>9 DEF Alike
  <2>12. Visible(disk.dinode, e) = Visible(disk.dinode, disk.ents)
    BY <2>3, <2>4
  <2> QED BY <1>1, <1>3, <1>4, <2>7, <2>10, <2>11, <2>12, UndoneKeeps
<1> QED
  <2>1. PICK half : half = (Missing(Entries(cwd), nm, Mapped(cwd)) = 2 /\ Room(Made(type)) = 1)
    OBVIOUS
  <2>2. half \in BOOLEAN
    BY <2>1
  <2>3. PICK s : s = IF half THEN FreeBlocks(AllocBlocks(Made(type), 1), 1) ELSE Made(type)
    OBVIOUS
  <2>4. \/ Does(RemoveInode(MarkInode(sb, t), t, Zero), r, A)
        \/ Does(RemoveInode(s, t, NewNode(type)), [r EXCEPT ![cwd].dirty = @ \/ half], A)
    BY <1>2, <1>3, <1>6, <2>1, <2>3 DEF CreateNoSpace
  <2> QED BY <1>7, <1>8, <2>2, <2>3, <2>4

-----------------------------------------------------------------------------
(* The steps that write nothing, and those of the disk.                    *)

\* A lookup in the current directory leads to an inode that has a name, or
\* to the root.
LEMMA LookupReached ==
  ASSUME IInv, Idle, NEW nm \in Names \cup {Dot, DotDot}, Lookup(cwd, nm) # Gone
  PROVE  Reached(Visible(disk.dinode, disk.ents), Lookup(cwd, nm))
<1>1. PICK V : V = Visible(disk.dinode, disk.ents) /\ Sound(disk.imap, V)
  BY IdleFacts DEF Good
<1>2. cwd \in Inodes /\ disk.dinode[cwd].type = "dir" /\ Reached(V, cwd)
  BY <1>1, IdleNodes
<1>3. PICK i : i = Lookup(cwd, nm)
  OBVIOUS
<1>4. PICK x : x = <<cwd, Min(SlotsOf(cwd, nm)), nm, i>> /\ x \in V
  BY <1>1, <1>2, <1>3, LookupSees
<1>5. x[1] = cwd /\ x[3] = nm /\ x[4] = i
  BY <1>4
<1>6. CASE nm \in Names
  <2>1. x \in User(V)
    BY <1>4, <1>5, <1>6 DEF User
  <2> QED BY <1>1, <1>3, <1>5, <2>1 DEF Reached
<1>7. CASE nm = Dot
  <2>1. i = cwd
    BY <1>1, <1>2, <1>4, <1>5, <1>7 DEF Sound
  <2> QED BY <1>1, <1>2, <1>3, <2>1
<1>8. CASE nm = DotDot
  <2>1. Under(V, cwd, i)
    BY <1>1, <1>2, <1>4, <1>5, <1>8 DEF Sound
  <2>2. Reached(V, i)
    <3>1. CASE i = Root
      BY <3>1 DEF Reached
    <3>2. CASE i # Root
      <4>1. PICK u \in User(V) : u[1] = i
        BY <2>1, <3>2 DEF Under
      <4> QED BY <1>1, <4>1 DEF Sound
    <3> QED BY <3>1, <3>2
  <2> QED BY <1>1, <1>3, <2>2
<1> QED BY <1>6, <1>7, <1>8

\* The cache after one more reference to inode i.
LEMMA GetProperties ==
  ASSUME NEW i \in Inodes, core \in [Inodes -> InCore], disk.dinode \in [Inodes -> Dinode],
         core[i].count > 0 => core[i].node = disk.dinode[i]
  PROVE  /\ Get(core, i) \in [Inodes -> InCore]
         /\ Get(core, i)[i].count = core[i].count + 1
         /\ Get(core, i)[i].node = disk.dinode[i]
         /\ \A h \in Inodes : h # i => Get(core, i)[h] = core[h]
<1>1. PICK r : r = Get(core, i)
  OBVIOUS
<1>2. PICK q : q = core /\ q \in [Inodes -> InCore] /\ q[i] \in InCore
  OBVIOUS
<1>3. PICK p : p = disk.dinode[i] /\ p \in Dinode
  OBVIOUS
<1>4. CASE q[i].count > 0
  <2>1. PICK x : x = [q[i] EXCEPT !.count = q[i].count + 1]
    OBVIOUS
  <2>2. x \in InCore /\ x.count = q[i].count + 1 /\ x.node = q[i].node
    BY <1>2, <2>1 DEF InCore
  <2>3. r = [q EXCEPT ![i] = x]
    BY <1>1, <1>2, <1>4, <2>1 DEF Get
  <2> QED BY <1>1, <1>2, <1>3, <1>4, <2>2, <2>3
<1>5. CASE ~(q[i].count > 0)
  <2>1. PICK x : x = [count |-> 1, dirty |-> FALSE, node |-> p]
    OBVIOUS
  <2>2. x \in InCore /\ x.count = 1 /\ x.node = p
    BY <1>3, <2>1 DEF InCore
  <2>3. r = [q EXCEPT ![i] = x]
    BY <1>1, <1>2, <1>3, <1>5, <2>1 DEF Get, ReadInode
  <2>4. q[i].count = 0
    BY <1>2, <1>5 DEF InCore
  <2> QED BY <1>1, <1>2, <1>3, <2>2, <2>3, <2>4
<1> QED BY <1>4, <1>5

\* The cache after inode i was put back.
LEMMA ReleaseProperties ==
  ASSUME NEW q \in [Inodes -> InCore], NEW i \in Inodes, q[i].count > 0
  PROVE  /\ Release(q, i) \in [Inodes -> InCore]
         /\ Release(q, i)[i].count = q[i].count - 1
         /\ q[i].count # 1 => Release(q, i)[i].node = q[i].node
         /\ \A h \in Inodes : h # i => Release(q, i)[h] = q[h]
<1>1. PICK r : r = Release(q, i)
  OBVIOUS
<1>2. q[i] \in InCore /\ Absent \in InCore /\ Absent.count = 0
  BY DEF Absent, InCore, Zero, Dinode
<1>3. CASE q[i].count = 1
  BY <1>1, <1>2, <1>3 DEF Release
<1>4. CASE q[i].count # 1
  <2>1. PICK x : x = [q[i] EXCEPT !.count = q[i].count - 1]
    OBVIOUS
  <2>2. x \in InCore /\ x.count = q[i].count - 1 /\ x.node = q[i].node
    BY <1>2, <1>4, <2>1 DEF InCore
  <2>3. r = [q EXCEPT ![i] = x]
    BY <1>1, <1>4, <2>1 DEF Release
  <2> QED BY <1>1, <2>2, <2>3
<1> QED BY <1>3, <1>4

\* A step that leaves disk and log alone, with references that agree, keeps
\* the invariant.
LEMMA LookKeeps ==
  ASSUME IInv, Idle, mode' = mode, UNCHANGED <<disk, sb, before, after>>,
         core' \in [Inodes -> InCore], lost' \in [Inodes -> Nat],
         \A i \in Inodes : core'[i].count = lost'[i] + IF i = cwd' THEN 1 ELSE 0,
         \A i \in Inodes : core'[i].count > 0 => core'[i].node = disk.dinode[i],
         cwd' \in Inodes, disk.dinode[cwd'].type = "dir",
         Reached(Visible(disk.dinode, disk.ents), cwd')
  PROVE  IInv'
<1>1. mode = "run" /\ IsDisk(disk) /\ IsSuper(sb) /\ Running
  BY DEF IInv, Idle
<1>2. PICK z : /\ Leads(sb.log, Image(disk), z, before, after) /\ Clean(z[2], z[3])
               /\ sb.imap = z[1] /\ NamesOf(Visible(z[2], z[3])) = after
  BY <1>1 DEF Running
<1>3. z[2] = disk.dinode /\ z[3] = disk.ents
  <2>1. Leads(<<>>, Image(disk), z, before, after)
    BY <1>2 DEF Idle
  <2>2. z = Image(disk)
    BY <2>1, NoWrites
  <2> QED BY <2>2 DEF Image
<1>4. Process(z)'
  BY <1>3 DEF Process
<1>5. (/\ Leads(sb.log, Image(disk), z, before, after)
       /\ sb.imap = z[1] /\ NamesOf(Visible(z[2], z[3])) = after)'
  BY <1>2
<1>6. Running'
  BY <1>2, <1>4, <1>5 DEF Running
<1>7. IsDisk(disk)' /\ IsSuper(sb)'
  BY <1>1 DEF IsDisk, IsSuper
<1> QED BY <1>1, <1>6, <1>7 DEF IInv

\* cd keeps the invariant.
LEMMA CdKeeps ==
  ASSUME IInv, NEW nm \in Names \cup {Dot, DotDot}, Cd(nm), mode' = mode
  PROVE  IInv'
<1>1. Idle /\ Lookup(cwd, nm) # Gone
  BY DEF Cd
<1>2. /\ cwd \in Inodes /\ core[cwd].count > 0
      /\ \A h \in Inodes : core[h].count > 0 => core[h].node = disk.dinode[h]
      /\ \A h \in Inodes : core[h].count = lost[h] + IF h = cwd THEN 1 ELSE 0
  BY <1>1, IdleNodes
<1>3. /\ mode = "run" /\ core \in [Inodes -> InCore] /\ lost \in [Inodes -> Nat]
      /\ disk.dinode \in [Inodes -> Dinode]
  BY <1>1, IdleFacts DEF Good
<1>4. PICK i : i = Lookup(cwd, nm) /\ i \in Inodes
  BY <1>1, <1>2, LookupFinds
<1>5. Node(i).type = "dir" /\ ~core[cwd].dirty
  <2>1. mode' # "aborted"
    BY <1>3
  <2> QED BY <1>4, <2>1 DEF Cd, Abort
<1>6. /\ core' = Release(Get(core, i), cwd) /\ cwd' = i
      /\ UNCHANGED <<disk, sb, mode, lost, before, after>>
  BY <1>4, <1>5 DEF Cd
<1>7. PICK q : q = Get(core, i)
  OBVIOUS
<1>8. /\ q \in [Inodes -> InCore] /\ q[i].count = core[i].count + 1
      /\ q[i].node = disk.dinode[i] /\ \A h \in Inodes : h # i => q[h] = core[h]
  BY <1>2, <1>3, <1>4, <1>7, GetProperties
<1>9. \A h \in Inodes : core[h].count \in Nat /\ lost[h] \in Nat
  BY <1>3 DEF InCore
<1>10. q[cwd].count > 0
  BY <1>2, <1>4, <1>8, <1>9
<1>11. PICK r : r = Release(q, cwd)
  OBVIOUS
<1>12. /\ r \in [Inodes -> InCore] /\ r[cwd].count = q[cwd].count - 1
       /\ q[cwd].count # 1 => r[cwd].node = q[cwd].node
       /\ \A h \in Inodes : h # cwd => r[h] = q[h]
  BY <1>2, <1>8, <1>10, <1>11, ReleaseProperties
<1>13. core' = r
  BY <1>6, <1>7, <1>11
<1>14. ASSUME NEW h \in Inodes PROVE r[h].count = lost[h] + IF h = i THEN 1 ELSE 0
  <2>1. CASE h = cwd /\ h = i
    BY <1>2, <1>8, <1>9, <1>12, <2>1
  <2>2. CASE h = cwd /\ h # i
    BY <1>2, <1>8, <1>9, <1>12, <2>2
  <2>3. CASE h # cwd /\ h = i
    BY <1>2, <1>8, <1>9, <1>12, <2>3
  <2>4. CASE h # cwd /\ h # i
    BY <1>2, <1>8, <1>9, <1>12, <2>4
  <2> QED BY <2>1, <2>2, <2>3, <2>4
<1>15. ASSUME NEW h \in Inodes, r[h].count > 0 PROVE r[h].node = disk.dinode[h]
  <2>1. q[h].count > 0 => q[h].node = disk.dinode[h]
    BY <1>2, <1>8
  <2>2. CASE h # cwd
    BY <1>12, <1>15, <2>1, <2>2
  <2>3. CASE h = cwd
    BY <1>10, <1>12, <1>15, <2>1, <2>3
  <2> QED BY <2>2, <2>3
<1>16. disk.dinode[i].type = "dir" /\ Reached(Visible(disk.dinode, disk.ents), i)
  BY <1>1, <1>4, <1>5, IdleNodes, LookupReached
<1> QED BY <1>1, <1>3, <1>4, <1>6, <1>12, <1>13, <1>14, <1>15, <1>16, LookKeeps

\* ls of a file keeps the invariant, the lost reference included.
LEMMA LsNotDirKeeps ==
  ASSUME IInv, NEW nm \in Names, LsNotDir(nm)
  PROVE  IInv'
<1>1. Idle /\ Lookup(cwd, nm) # Gone
  BY DEF LsNotDir
<1>2. /\ cwd \in Inodes /\ disk.dinode[cwd].type = "dir"
      /\ Reached(Visible(disk.dinode, disk.ents), cwd)
      /\ \A h \in Inodes : core[h].count > 0 => core[h].node = disk.dinode[h]
      /\ \A h \in Inodes : core[h].count = lost[h] + IF h = cwd THEN 1 ELSE 0
  BY <1>1, IdleNodes
<1>3. /\ core \in [Inodes -> InCore] /\ lost \in [Inodes -> Nat]
      /\ disk.dinode \in [Inodes -> Dinode]
  BY <1>1, IdleFacts DEF Good
<1>4. PICK i : i = Lookup(cwd, nm) /\ i \in Inodes
  BY <1>1, <1>2, LookupFinds
<1>5. /\ core' = Get(core, i) /\ lost' = [lost EXCEPT ![i] = @ + 1]
      /\ UNCHANGED <<disk, sb, cwd, mode, before, after>>
  BY <1>4 DEF LsNotDir
<1>6. PICK q : q = Get(core, i)
  OBVIOUS
<1>7. /\ q \in [Inodes -> InCore] /\ q[i].count = core[i].count + 1
      /\ q[i].node = disk.dinode[i] /\ \A h \in Inodes : h # i => q[h] = core[h]
  BY <1>2, <1>3, <1>4, <1>6, GetProperties
<1>8. PICK k : k = lost'
  OBVIOUS
<1>9. k \in [Inodes -> Nat] /\ k[i] = lost[i] + 1 /\ \A h \in Inodes : h # i => k[h] = lost[h]
  BY <1>3, <1>4, <1>5, <1>8
<1>10. ASSUME NEW h \in Inodes PROVE q[h].count = k[h] + IF h = cwd THEN 1 ELSE 0
  <2>1. lost[h] \in Nat /\ core[h].count = lost[h] + IF h = cwd THEN 1 ELSE 0
    BY <1>2, <1>3
  <2>2. CASE h = i
    BY <1>7, <1>9, <2>1, <2>2
  <2>3. CASE h # i
    BY <1>7, <1>9, <2>1, <2>3
  <2> QED BY <2>2, <2>3
<1>11. \A h \in Inodes : q[h].count > 0 => q[h].node = disk.dinode[h]
  BY <1>2, <1>7
<1> QED BY <1>1, <1>2, <1>5, <1>6, <1>7, <1>8, <1>9, <1>10, <1>11, LookKeeps

\* Whatever the process has in mind, the disk is fine.
LEMMA RunFine ==
  ASSUME IInv, mode = "run"
  PROVE  /\ IsDisk(disk) /\ IsSuper(sb) /\ core \in [Inodes -> InCore] /\ lost \in [Inodes -> Nat]
         /\ Fine(Image(disk), before, after)
<1>1. Running
  BY DEF IInv
<1>2. Fine(Image(disk), before, after)
  BY <1>1, LeadsEnds DEF Running
<1> QED BY <1>2 DEF IInv

\* A failed assertion keeps the invariant, wherever the command is.
LEMMA AbortKeeps ==
  ASSUME IInv, mode = "run", Abort
  PROVE  IInv'
<1>1. IsDisk(disk) /\ IsSuper(sb) /\ Fine(Image(disk), before, after)
  BY RunFine
<1>2. Absent \in InCore
  BY DEF Absent, InCore, Zero, Dinode
<1>3. /\ mode' = "aborted" /\ core' \in [Inodes -> InCore]
      /\ lost' = [i \in Inodes |-> 0] /\ lost' \in [Inodes -> Nat]
      /\ sb' = [sb EXCEPT !.log = <<>>] /\ UNCHANGED <<disk, before, after>>
  BY <1>2 DEF Abort
<1>4. IsDisk(disk)' /\ IsSuper(sb)' /\ sb'.log = <<>>
  BY <1>1, <1>3 DEF IsDisk, IsSuper
<1>5. Resting'
  BY <1>1, <1>3, <1>4 DEF Resting
<1> QED BY <1>3, <1>4, <1>5 DEF IInv

\* quit keeps the invariant.
LEMMA QuitKeeps ==
  ASSUME IInv, Quit
  PROVE  IInv'
<1>1. Idle /\ mode = "run"
  BY DEF Quit, Idle
<1>2. CASE Abort
  BY <1>1, <1>2, AbortKeeps
<1>3. CASE ~Abort
  <2>1. /\ \A i \in Inodes : ~(Release(core, cwd)[i].count > 0)
        /\ mode' = "down" /\ core' = [i \in Inodes |-> Absent]
        /\ UNCHANGED <<disk, sb, lost, before, after>>
    BY <1>3 DEF Quit
  <2>2. /\ cwd \in Inodes /\ core[cwd].count > 0
        /\ \A h \in Inodes : core[h].count = lost[h] + IF h = cwd THEN 1 ELSE 0
    BY <1>1, IdleNodes
  <2>3. /\ IsDisk(disk) /\ IsSuper(sb) /\ Fine(Image(disk), before, after) /\ sb.log = <<>>
        /\ core \in [Inodes -> InCore] /\ lost \in [Inodes -> Nat]
    BY <1>1, RunFine DEF Idle
  <2>4. PICK r : r = Release(core, cwd)
    OBVIOUS
  <2>5. r[cwd].count = core[cwd].count - 1 /\ \A h \in Inodes : h # cwd => r[h] = core[h]
    BY <2>2, <2>3, <2>4, ReleaseProperties
  <2>6. ASSUME NEW h \in Inodes PROVE lost[h] = 0
    <3>1. lost[h] \in Nat /\ ~(r[h].count > 0)
      BY <2>1, <2>3, <2>4
    <3>2. CASE h = cwd
      BY <2>2, <2>5, <3>1, <3>2
    <3>3. CASE h # cwd
      BY <2>2, <2>5, <3>1, <3>3
    <3> QED BY <3>2, <3>3
  <2>7. lost = [i \in Inodes |-> 0]
    BY <2>3, <2>6
  <2>8. Absent \in InCore
    BY DEF Absent, InCore, Zero, Dinode
  <2>9. Resting'
    BY <2>1, <2>3, <2>7 DEF Resting
  <2>10. core' \in [Inodes -> InCore] /\ lost' \in [Inodes -> Nat]
    BY <2>1, <2>3, <2>8
  <2>11. IsDisk(disk)' /\ IsSuper(sb)'
    BY <2>1, <2>3 DEF IsDisk, IsSuper
  <2> QED BY <2>1, <2>9, <2>10, <2>11 DEF IInv
<1> QED BY <1>2, <1>3

\* A write that reaches the disk keeps the invariant.
LEMMA WriteBlocksKeeps ==
  ASSUME IInv, WriteBlocks
  PROVE  IInv'
<1>1. /\ mode = "run" /\ sb.log # <<>> /\ Head(sb.log).at # "abort" /\ disk' = Written(disk, Head(sb.log))
      /\ sb' = [sb EXCEPT !.log = Tail(sb.log)]
      /\ before' = IF Tail(sb.log) = <<>> THEN after ELSE before
      /\ UNCHANGED <<core, cwd, mode, lost, after>>
  BY DEF WriteBlocks
<1>2. /\ IsDisk(disk) /\ IsSuper(sb) /\ core \in [Inodes -> InCore] /\ lost \in [Inodes -> Nat]
      /\ Running
  BY <1>1 DEF IInv
<1>3. PICK z : /\ Leads(sb.log, Image(disk), z, before, after) /\ Clean(z[2], z[3])
               /\ sb.imap = z[1] /\ NamesOf(Visible(z[2], z[3])) = after /\ Process(z)
  BY <1>2 DEF Running
<1>4. PICK w, c, t : w = Head(sb.log) /\ c = Image(disk) /\ t = Tail(sb.log)
  OBVIOUS
<1>5. Leads(t, Apply(c, w), z, before, after) /\ w.at \in Kinds
  BY <1>1, <1>3, <1>4, LeadsTail
<1>6. Fine(c, before, after) /\ Fine(z, before, after)
  BY <1>3, <1>4, LeadsEnds
<1>7. disk.dinode \in [Inodes -> Dinode] /\ disk.ents \in [Inodes -> Seq(Ent)]
  BY <1>4, <1>6 DEF Fine, Good, Image
<1>8. Image(Written(disk, w)) = Apply(c, w) /\ IsDisk(Written(disk, w))
  BY <1>1, <1>2, <1>4, <1>5, <1>7, WrittenImage
<1>9. Image(disk') = Apply(c, w) /\ IsDisk(disk)'
  BY <1>1, <1>4, <1>8 DEF IsDisk
<1>10. IsSuper(sb)' /\ sb'.log = t /\ sb'.imap = z[1]
  BY <1>1, <1>2, <1>3, <1>4 DEF IsSuper
<1>11. Leads(t, Apply(c, w), z, before', after')
  <2>1. CASE t # <<>>
    BY <1>1, <1>4, <1>5, <2>1
  <2>2. CASE t = <<>>
    <3>1. PICK A : A = after /\ before' = A /\ after' = A
      BY <1>1, <1>4, <2>2
    <3>2. z = Apply(c, w)
      BY <1>5, <2>2, NoWrites
    <3>3. Fine(z, A, A)
      BY <1>3, <1>6, <3>1 DEF Fine, Shows
    <3>4. Leads(<<>>, z, z, A, A)
      BY <3>3, NoWrites
    <3> QED BY <2>2, <3>1, <3>2, <3>4
  <2> QED BY <2>1, <2>2
<1>12. Process(z)'
  BY <1>1, <1>3 DEF Process
<1>13. Running'
  <2>1. Leads(sb.log, Image(disk), z, before, after)'
    BY <1>9, <1>10, <1>11
  <2>2. (sb.imap = z[1] /\ NamesOf(Visible(z[2], z[3])) = after)'
    BY <1>1, <1>3, <1>10
  <2> QED BY <1>3, <1>12, <2>1, <2>2 DEF Running
<1>14. mode' = "run" /\ core' \in [Inodes -> InCore] /\ lost' \in [Inodes -> Nat]
  BY <1>1, <1>2
<1> QED BY <1>9, <1>10, <1>13, <1>14 DEF IInv

\* A crash keeps the invariant.
LEMMA CrashKeeps ==
  ASSUME IInv, Crash
  PROVE  IInv'
<1>1. /\ mode = "run" /\ mode' = "down"
      /\ core' = [i \in Inodes |-> Absent] /\ lost' = [i \in Inodes |-> 0]
      /\ sb' = [sb EXCEPT !.log = <<>>] /\ UNCHANGED <<before, after>>
  BY DEF Crash
<1>2. PICK f : f = [i \in Inodes |-> SubSeq(disk.ents[i], 1, disk.dinode[i].n)]
  OBVIOUS
<1>3. PICK x : disk' = [disk EXCEPT !.ents = f, !.index = x]
  BY <1>2 DEF Crash
<1>4. IsDisk(disk) /\ IsSuper(sb) /\ Running
  BY <1>1 DEF IInv
<1>5. Fine(Image(disk), before, after)
  BY <1>4, LeadsEnds DEF Running
<1>6. PICK m, d, e : m = disk.imap /\ d = disk.dinode /\ e = disk.ents
  OBVIOUS
<1>7. Good(m, d, e) /\ Shows(d, e, before, after) /\ Shaped(d, e)
  BY <1>5, <1>6 DEF Fine, Image, Good, Shaped
<1>8. Trimmed(d, e, f) /\ Shows(d, f, before, after)
  BY <1>2, <1>6, <1>7, CutVisible, CutShows
<1>9. Good(m, d, f)
  BY <1>7, <1>8 DEF Good, Trimmed
<1>10. IsDisk(disk)' /\ Image(disk') = <<m, d, f>>
  BY <1>3, <1>4, <1>6 DEF IsDisk, Image
<1>11. Fine(Image(disk'), before', after')
  BY <1>1, <1>8, <1>9, <1>10 DEF Fine
<1>12. IsSuper(sb)' /\ sb'.log = <<>>
  BY <1>1, <1>4 DEF IsSuper
<1>13. Absent \in InCore
  BY DEF Absent, InCore, Zero, Dinode
<1>14. core' \in [Inodes -> InCore] /\ lost' \in [Inodes -> Nat]
  BY <1>1, <1>13
<1>15. Resting'
  BY <1>1, <1>11, <1>12 DEF Resting
<1> QED BY <1>1, <1>10, <1>12, <1>14, <1>15 DEF IInv

\* Either no entry on the disk is half another one, or one is, of a name that
\* the last command added or deleted.
LEMMA HalfSeen ==
  ASSUME NEW B, NEW A, Fine(Image(disk), B, A)
  PROVE  /\ Good(disk.imap, disk.dinode, disk.ents)
         /\ \/ /\ Clean(disk.dinode, disk.ents) /\ UserNames(disk) \in {B, A}
               /\ UserNames(disk) = NamesOf(Visible(disk.dinode, disk.ents))
            \/ /\ NamesOf(Visible(disk.dinode, disk.ents)) = B \cap A
               /\ \E t \in (B \cup A) \ (B \cap A) :
                     /\ \E k : TornAt(disk.dinode, disk.ents, t[1], k, t[2])
                     /\ UserNames(disk) = (B \cap A) \cup {<<t[1], t[2], Mixed>>}
<1>1. PICK d, e : d = disk.dinode /\ e = disk.ents
  OBVIOUS
<1>2. Good(disk.imap, d, e) /\ Shows(d, e, B, A) /\ Shaped(d, e)
  BY <1>1 DEF Fine, Image, Good, Shaped
<1>3. CASE Clean(d, e) /\ NamesOf(Visible(d, e)) \in {B, A}
  BY <1>1, <1>2, <1>3, NamesSeen
<1>4. CASE Halved(d, e, B, A)
  <2>1. PICK t \in (B \cup A) \ (B \cap A) :
            t[1] \in Inodes /\ t[2] \in Names /\ \E k : TornAt(d, e, t[1], k, t[2])
    BY <1>4 DEF Halved
  <2>2. PICK k : TornAt(d, e, t[1], k, t[2])
    BY <2>1
  <2>3. PICK i \in Inodes, nm \in Names : i = t[1] /\ nm = t[2]
    BY <2>1
  <2>4. UserNames(disk) = NamesOf(Visible(d, e)) \cup {<<i, nm, Mixed>>}
    BY <1>1, <1>2, <2>2, <2>3, NamesTorn
  <2>5. NamesOf(Visible(d, e)) = B \cap A
    BY <1>4 DEF Halved
  <2> QED BY <1>1, <1>2, <2>1, <2>2, <2>3, <2>4, <2>5
<1> QED BY <1>1, <1>2, <1>3, <1>4 DEF Shows

\* The start of the process keeps the invariant.
LEMMA StartKeeps ==
  ASSUME IInv, Start
  PROVE  IInv'
<1> SUFFICES ASSUME ~Spoiled PROVE IInv'
  <2>1. CASE Spoiled
    BY <2>1 DEF Start, IInv
  <2> QED BY <2>1
<1>1. /\ mode \in {"down", "aborted"} /\ mode' = "run" /\ sb' = Loaded(disk) /\ cwd' = Root
      /\ before' = UserNames(disk) /\ after' = UserNames(disk) /\ UNCHANGED <<disk, lost>>
  BY DEF Start
<1>2. /\ IsDisk(disk) /\ lost = [i \in Inodes |-> 0] /\ Fine(Image(disk), before, after)
  BY <1>1 DEF IInv, Resting
<1>3. PICK m, d, e, A : m = disk.imap /\ d = disk.dinode /\ e = disk.ents /\ A = UserNames(disk)
  OBVIOUS
<1>4. Good(m, d, e) /\ Image(disk) = <<m, d, e>>
  BY <1>2, <1>3 DEF Fine, Image
<1>5. A = NamesOf(Visible(d, e)) /\ Clean(d, e)
  <2>1. ASSUME NEW t, NEW D, UserNames(disk) = D \cup {<<t[1], t[2], Mixed>>} PROVE FALSE
    <3>1. <<t[1], t[2], Mixed>>[3] = Mixed
      OBVIOUS
    <3>2. <<t[1], t[2], Mixed>> \in UserNames(disk)
      BY <2>1
    <3> QED BY <3>1, <3>2 DEF Spoiled
  <2>2. PICK D : D = before \cap after
    OBVIOUS
  <2>3. \/ Clean(d, e) /\ UserNames(disk) = NamesOf(Visible(d, e))
        \/ \E t \in (before \cup after) \ (before \cap after) :
              UserNames(disk) = D \cup {<<t[1], t[2], Mixed>>}
    BY <1>2, <1>3, <2>2, HalfSeen
  <2> QED BY <1>3, <2>1, <2>3
<1>6. Fine(<<m, d, e>>, A, A)
  BY <1>4, <1>5 DEF Fine, Shows
<1>7. Leads(<<>>, <<m, d, e>>, <<m, d, e>>, A, A)
  BY <1>6, NoWrites
<1>8. IsSuper(sb)' /\ sb'.log = <<>> /\ sb'.imap = m
  BY <1>1, <1>3 DEF Loaded, IsSuper
<1>9. PICK x : x = [count |-> 1, dirty |-> FALSE, node |-> d[Root]]
  OBVIOUS
<1>10. Root \in Inodes /\ d[Root].type = "dir" /\ d[Root] \in Dinode
  BY <1>4, SizeAssumption DEF Root, Inodes, Good
<1>11. x \in InCore /\ x.count = 1 /\ x.node = d[Root] /\ Absent \in InCore /\ Absent.count = 0
  BY <1>9, <1>10 DEF InCore, Absent, Zero, Dinode
<1>12. core' = [i \in Inodes |-> IF i = Root THEN x ELSE Absent]
  BY <1>3, <1>9 DEF Start, ReadInode
<1>13. core' \in [Inodes -> InCore] /\ lost' \in [Inodes -> Nat]
  BY <1>1, <1>2, <1>11, <1>12
<1>14. PICK z : z = <<m, d, e>> /\ z[1] = m /\ z[2] = d /\ z[3] = e
  <2>1. <<m, d, e>>[1] = m /\ <<m, d, e>>[2] = d /\ <<m, d, e>>[3] = e
    OBVIOUS
  <2> QED BY <2>1
<1>15. Process(z)'
  <2>1. \A i \in Inodes : core'[i].count = lost'[i] + IF i = cwd' THEN 1 ELSE 0
    BY <1>1, <1>2, <1>11, <1>12
  <2>2. \A i \in Inodes : core'[i].count > 0 => core'[i].node = z[2][i]
    BY <1>11, <1>12, <1>14
  <2>3. Reached(Visible(z[2], z[3]), cwd')
    BY <1>1 DEF Reached
  <2> QED BY <1>1, <1>10, <1>14, <2>1, <2>2, <2>3 DEF Process
<1>16. Running'
  <2>1. Leads(sb.log, Image(disk), z, before, after)'
    BY <1>1, <1>3, <1>4, <1>7, <1>8, <1>14
  <2>2. (sb.imap = z[1] /\ NamesOf(Visible(z[2], z[3])) = after)'
    BY <1>1, <1>3, <1>5, <1>8, <1>14
  <2> QED BY <1>5, <1>14, <1>15, <2>1, <2>2 DEF Running
<1>17. IsDisk(disk)'
  BY <1>1, <1>2 DEF IsDisk
<1> QED BY <1>1, <1>8, <1>13, <1>16, <1>17 DEF IInv

-----------------------------------------------------------------------------
(* The specification.                                                      *)

\* The disk that mktestfs makes is sound, and has no names.
LEMMA InitHolds ==
  ASSUME Init
  PROVE  IInv
<1>1. /\ disk = MadeDisk /\ sb = Loaded(MadeDisk) /\ mode = "down"
      /\ core = [i \in Inodes |-> Absent] /\ lost = [i \in Inodes |-> 0]
      /\ before = {} /\ after = {}
  BY DEF Init
<1>2. PICK m, d, e : m = disk.imap /\ d = disk.dinode /\ e = disk.ents
  OBVIOUS
<1>3. /\ m = {Root} /\ d = [i \in Inodes |-> IF i = Root THEN NewNode("dir") ELSE Zero]
      /\ e = [i \in Inodes |-> IF i = Root
                THEN <<Entry(Dot, Root), Entry(DotDot, Root)>> ELSE <<>>]
      /\ IsDisk(disk) /\ IsSuper(sb) /\ sb.log = <<>>
  BY <1>1, <1>2 DEF MadeDisk, Loaded, IsDisk, IsSuper
<1>4. Root \in Inodes
  BY SizeAssumption DEF Root, Inodes
<1>5. /\ NewNode("dir") \in Dinode /\ NewNode("dir").n = 2 /\ NewNode("dir").type = "dir"
      /\ Zero \in Dinode /\ Zero.n = 0 /\ Zero.type # "dir"
  BY DEF NewNode, Zero, Dinode
<1>6. d \in [Inodes -> Dinode] /\ d[Root].type = "dir"
  BY <1>3, <1>4, <1>5
<1>7. PICK a, b : a = Entry(Dot, Root) /\ b = Entry(DotDot, Root)
  OBVIOUS
<1>8. a \in Ent /\ b \in Ent /\ a.name = Dot /\ a.nr = Root /\ b.name = DotDot /\ b.nr = Root
  BY <1>4, <1>7 DEF Entry, Ent
<1>9. PICK s : s = <<a, b>> /\ s \in Seq(Ent) /\ Len(s) = 2 /\ s[1] = a /\ s[2] = b
  <2>1. <<a, b>> \in Seq(Ent) /\ Len(<<a, b>>) = 2 /\ <<a, b>>[1] = a /\ <<a, b>>[2] = b
    BY <1>8
  <2> QED BY <2>1
<1>10. e = [i \in Inodes |-> IF i = Root THEN s ELSE <<>>] /\ e[Root] = s
  BY <1>3, <1>4, <1>7, <1>9
<1>11. e \in [Inodes -> Seq(Ent)]
  BY <1>9, <1>10
<1>12. ASSUME NEW h \in Inodes PROVE d[h].n <= Len(e[h])
  <2>1. CASE h = Root
    BY <1>3, <1>5, <1>9, <1>10, <2>1
  <2>2. CASE h # Root
    BY <1>3, <1>5, <1>10, <2>2
  <2> QED BY <2>1, <2>2
<1>13. PICK V : V = Visible(d, e)
  OBVIOUS
<1>14. ASSUME NEW v \in V
       PROVE  v[1] = Root /\ v[4] = Root /\ (v[3] = Dot \/ v[3] = DotDot)
  <2>1. /\ v[1] \in Inodes /\ d[v[1]].type = "dir" /\ v[2] \in 1..d[v[1]].n
        /\ e[v[1]][v[2]] = Entry(v[3], v[4])
    BY <1>13 DEF Visible
  <2>2. v[1] = Root
    BY <1>3, <1>5, <2>1
  <2>3. d[Root].n = 2
    BY <1>3, <1>4, <1>5
  <2>4. Entry(v[3], v[4]) = a \/ Entry(v[3], v[4]) = b
    <3>1. v[2] = 1 \/ v[2] = 2
      BY <2>1, <2>2, <2>3
    <3> QED BY <1>9, <1>10, <2>1, <2>2, <3>1
  <2>5. Entry(v[3], v[4]).name = v[3] /\ Entry(v[3], v[4]).nr = v[4]
    BY DEF Entry
  <2> QED BY <1>8, <2>2, <2>4, <2>5
<1>15. User(V) = {}
  BY <1>14, NotDots DEF User
<1>16. Sound(m, V)
  <2>1. \A v \in V : /\ v[3] = Dot => v[4] = v[1]
                     /\ v[3] = DotDot => Under(V, v[1], v[4])
    BY <1>14 DEF Under
  <2> QED BY <1>3, <1>15, <2>1 DEF Sound
<1>17. NamesOf(V) = {}
  BY <1>15 DEF NamesOf
<1>18. Fine(Image(disk), before, after)
  <2>1. Image(disk) = <<m, d, e>>
    BY <1>2 DEF Image
  <2>2. Good(m, d, e)
    BY <1>6, <1>11, <1>12, <1>13, <1>16 DEF Good
  <2>3. ASSUME NEW h \in Inodes, NEW k \in 1..d[h].n PROVE e[h][k].nr # Mixed
    <3>1. h = Root /\ d[Root].n = 2
      BY <1>3, <1>4, <1>5, <2>3
    <3>2. k = 1 \/ k = 2
      BY <2>3, <3>1
    <3>3. Root # Mixed
      BY DEF Root, Mixed
    <3> QED BY <1>8, <1>9, <1>10, <3>1, <3>2, <3>3
  <2>4. Shows(d, e, before, after)
    BY <1>1, <1>13, <1>17, <2>3 DEF Shows, Clean
  <2> QED BY <2>1, <2>2, <2>4 DEF Fine
<1>19. Absent \in InCore
  BY DEF Absent, InCore, Zero, Dinode
<1>20. core \in [Inodes -> InCore] /\ lost \in [Inodes -> Nat]
  BY <1>1, <1>19
<1>21. Resting
  BY <1>1, <1>3, <1>18 DEF Resting
<1> QED BY <1>1, <1>3, <1>20, <1>21 DEF IInv

\* Every step of the process and of the disk keeps the invariant.
LEMMA StepKeeps ==
  ASSUME IInv, [Next]_vars
  PROVE  IInv'
<1>1. ASSUME NEW type \in {"file", "dir"}, NEW nm \in Names, CreateOk(type, nm) PROVE IInv'
  BY <1>1, CreateOkKeeps
<1>2. ASSUME NEW type \in {"file", "dir"}, NEW nm \in Names, CreateNoSpace(type, nm) PROVE IInv'
  BY <1>2, CreateNoSpaceKeeps
<1>3. ASSUME NEW type \in {"file", "dir"}, NEW nm \in Names, CreateDamages(type, nm) PROVE IInv'
  BY <1>3 DEF CreateDamages, IInv
<1>4. ASSUME NEW nm \in Names, CreateNoInode(nm) PROVE IInv'
  BY <1>4, CreateNoInodeKeeps
<1>5. ASSUME NEW nm \in Names, Rm(nm) PROVE IInv'
  BY <1>5, RmKeeps
<1>15. ASSUME NEW nm \in Names, RmAborts(nm) PROVE IInv'
  BY <1>15, RmAbortsKeeps
<1>6. ASSUME NEW nm \in Names, Write(nm) PROVE IInv'
  BY <1>6, WriteKeeps
<1>7. ASSUME NEW nm \in Names, LsNotDir(nm) PROVE IInv'
  BY <1>7, LsNotDirKeeps
<1>8. ASSUME NEW nm \in Names \cup {Dot, DotDot}, Cd(nm) PROVE IInv'
  <2>1. mode = "run" /\ (Abort \/ mode' = mode)
    BY <1>8 DEF Cd, Idle
  <2>2. CASE Abort
    BY <2>1, <2>2, AbortKeeps
  <2>3. CASE mode' = mode
    BY <1>8, <2>3, CdKeeps
  <2> QED BY <2>1, <2>2, <2>3
<1>9. CASE LookAborts
  BY <1>9, AbortKeeps DEF LookAborts, Idle
<1>10. CASE Quit
  BY <1>10, QuitKeeps
<1>11. CASE WriteBlocks
  BY <1>11, WriteBlocksKeeps
<1>16. CASE AssertFails
  BY <1>16, AbortKeeps DEF AssertFails
<1>12. CASE Crash
  BY <1>12, CrashKeeps
<1>13. CASE Start
  BY <1>13, StartKeeps
<1>14. CASE Stopped \/ UNCHANGED vars
  <2>1. UNCHANGED <<disk, sb, core, cwd, mode, lost, before, after>>
    BY <1>14 DEF Stopped, vars
  <2> QED BY <2>1 DEF IInv, Running, Resting, Process, IsDisk, IsSuper
<1> QED BY <1>1, <1>2, <1>3, <1>4, <1>5, <1>6, <1>7, <1>8, <1>9, <1>10, <1>11, <1>12, <1>13,
           <1>14, <1>15, <1>16 DEF Next

\* The invariant says what the run checks about names.
LEMMA InvNames ==
  ASSUME IInv
  PROVE  NamesSurvive
<1> SUFFICES ASSUME mode # "damaged"
             PROVE  /\ UserNames(disk) \in {before, after} \/ HalfWritten
                    /\ \A i \in Inodes : \A k \in 1..disk.dinode[i].n :
                          disk.ents[i][k].nr = Mixed =>
                              Across(disk.ents[i], k, disk.ents[i][k].name)
                    /\ Idle => UserNames(disk) = after
                    /\ \A t \in UserNames(disk) : t[3] \in disk.imap \cup {Mixed}
  BY DEF NamesSurvive
<1>1. Fine(Image(disk), before, after)
  <2>1. CASE mode = "run"
    BY <2>1, RunFine
  <2>2. CASE mode # "run"
    BY <2>2 DEF IInv, Resting
  <2> QED BY <2>1, <2>2
<1>2. PICK d, e, V : d = disk.dinode /\ e = disk.ents /\ V = Visible(d, e)
  OBVIOUS
<1>3. Good(disk.imap, d, e) /\ Sound(disk.imap, V)
  BY <1>1, <1>2, HalfSeen DEF Good
<1>4. \A t \in NamesOf(V) : t[3] \in disk.imap
  <2>1. ASSUME NEW t \in NamesOf(V) PROVE t[3] \in disk.imap
    <3>1. PICK v \in User(V) : t = <<v[1], v[3], v[4]>>
      BY <2>1 DEF NamesOf
    <3> QED BY <1>3, <3>1 DEF Sound
  <2> QED BY <2>1
<1>5. Idle => UserNames(disk) = after
  BY IdleFacts
<1>6. CASE Clean(d, e) /\ UserNames(disk) \in {before, after} /\ UserNames(disk) = NamesOf(V)
  <2>1. \A i \in Inodes : \A k \in 1..d[i].n : e[i][k].nr # Mixed
    BY <1>6 DEF Clean
  <2> QED BY <1>2, <1>4, <1>5, <1>6, <2>1
<1>7. ASSUME NEW t \in (before \cup after) \ (before \cap after),
             NEW h, TornAt(d, e, t[1], h, t[2]), NamesOf(V) = before \cap after,
             UserNames(disk) = (before \cap after) \cup {<<t[1], t[2], Mixed>>}
      PROVE  /\ UserNames(disk) \in {before, after} \/ HalfWritten
             /\ \A i \in Inodes : \A k \in 1..d[i].n :
                   e[i][k].nr = Mixed => Across(e[i], k, e[i][k].name)
             /\ \A x \in UserNames(disk) : x[3] \in disk.imap \cup {Mixed}
  <2>1. HalfWritten
    BY <1>7 DEF HalfWritten
  <2>2. ASSUME NEW i \in Inodes, NEW k \in 1..d[i].n, e[i][k].nr = Mixed
        PROVE  Across(e[i], k, e[i][k].name)
    <3>1. i = t[1] /\ k = h
      BY <1>7, <2>2 DEF TornAt
    <3>2. e[i][k] = Entry(t[2], Mixed) /\ Across(e[i], k, t[2])
      BY <1>7, <3>1 DEF TornAt
    <3>3. e[i][k].name = t[2]
      BY <3>2 DEF Entry
    <3> QED BY <3>2, <3>3
  <2>3. ASSUME NEW x \in UserNames(disk) PROVE x[3] \in disk.imap \cup {Mixed}
    <3>1. <<t[1], t[2], Mixed>>[3] = Mixed
      OBVIOUS
    <3> QED BY <1>4, <1>7, <2>3, <3>1
  <2> QED BY <2>1, <2>2, <2>3
<1> QED BY <1>1, <1>2, <1>5, <1>6, <1>7, HalfSeen

\* The invariant holds for ever.
THEOREM DirInvariance == Spec => []IInv
<1>1. Init => IInv
  BY InitHolds
<1>2. IInv /\ [Next]_vars => IInv'
  BY StepKeeps
<1> QED BY <1>1, <1>2, PTL DEF Spec

\* Whenever testfs is killed, between any two writes of any command, the disk
\* has the names from before the command or those from after it, or those that
\* both have and half of the one entry that the command adds or deletes, which
\* lies across two blocks; and no whole entry leads to a free inode.
THEOREM NamesSafe == Spec => []NamesSurvive
<1>1. IInv => NamesSurvive
  BY InvNames
<1> QED BY <1>1, DirInvariance, PTL

\* What the invariant says of memory and disk between two commands, after
\* crashes too, unless one left half an entry on the disk: the references are
\* those of the current directory and those lost by ls, inodes in memory and
\* the free map are those on disk, and no inode has two names or is named in
\* itself.
Agreement ==
    Idle =>
        /\ \A i \in Inodes : core[i].count = lost[i] + IF i = cwd THEN 1 ELSE 0
        /\ \A i \in Inodes : core[i].count > 0 => core[i].node = disk.dinode[i]
        /\ sb.imap = disk.imap
        /\ \A t, u \in UserNames(disk) : t[3] = u[3] => t = u
        /\ \A t \in UserNames(disk) : t[3] # t[1] /\ t[3] # Root

\* The process and the disk agree whenever a command begins, and no inode
\* has two names, even after crashes, as long as none of them fell between the
\* two halves of an entry.
THEOREM AgreementSafe == Spec => []Agreement
<1>1. ASSUME IInv PROVE Agreement
  <2> SUFFICES ASSUME Idle
               PROVE  /\ \A i \in Inodes : core[i].count = lost[i] + IF i = cwd THEN 1 ELSE 0
                      /\ \A i \in Inodes : core[i].count > 0 => core[i].node = disk.dinode[i]
                      /\ sb.imap = disk.imap
                      /\ \A t, u \in UserNames(disk) : t[3] = u[3] => t = u
                      /\ \A t \in UserNames(disk) : t[3] # t[1] /\ t[3] # Root
    BY DEF Agreement
  <2>1. PICK V : V = Visible(disk.dinode, disk.ents) /\ UserNames(disk) = NamesOf(V)
                 /\ Sound(disk.imap, V)
    BY <1>1, IdleFacts DEF Good
  <2>2. ASSUME NEW t \in UserNames(disk)
        PROVE  \E v \in User(V) : t = <<v[1], v[3], v[4]>> /\ t[1] = v[1] /\ t[3] = v[4]
    <3>1. PICK v \in User(V) : t = <<v[1], v[3], v[4]>>
      BY <2>1 DEF NamesOf
    <3> QED BY <3>1
  <2>3. ASSUME NEW t \in UserNames(disk), NEW u \in UserNames(disk), t[3] = u[3] PROVE t = u
    <3>1. PICK v \in User(V) : t = <<v[1], v[3], v[4]>> /\ t[3] = v[4]
      BY <2>2
    <3>2. PICK w \in User(V) : u = <<w[1], w[3], w[4]>> /\ u[3] = w[4]
      BY <2>2
    <3>3. v = w
      BY <2>1, <2>3, <3>1, <3>2 DEF Sound
    <3> QED BY <3>1, <3>2, <3>3
  <2>4. ASSUME NEW t \in UserNames(disk) PROVE t[3] # t[1] /\ t[3] # Root
    BY <2>1, <2>2 DEF Sound
  <2>5. sb.imap = disk.imap
    BY <1>1, IdleFacts
  <2> QED BY <1>1, <2>3, <2>4, <2>5, IdleNodes
<1>2. IInv => Agreement
  BY <1>1
<1> QED BY <1>2, DirInvariance, PTL

===============================================================================
